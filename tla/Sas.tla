-------------------------------- MODULE Sas --------------------------------
(***************************************************************************)
(* The voice mixer of src/hle/sascore.c: the walk of a voice through its   *)
(* ADPCM blocks, its envelope and its pitch.  A block stands for its flag  *)
(* byte; the values of its samples do not steer anything.                  *)
(***************************************************************************)
EXTENDS Integers, Sequences, FiniteSets, FiniteSetsExt

CONSTANTS NVoices,      \* SAS_VOICES
          BlockLen,     \* samples of a block (28)
          One,          \* 0x1000, the pitch that plays one sample at a time
          Full,         \* 0x40000000, the height of an envelope
          DefaultRate,  \* attack and release of a voice that has none
          DefaultGrain, \* 256
          MaxGrain,     \* SAS_MAX_GRAIN
          Samples,      \* guest memory: the samples, sequences of flag bytes
          Pitches, Rates, Levels, Grains,
          MaxHeard      \* bound: blocks heard since a voice was keyed on, when a mix begins

ASSUME SasAssumption == /\ NVoices \in Nat
                        /\ \A vag \in Samples : vag \in Seq(0..255)

VARIABLES voice,        \* g_voice
          grain,        \* g_grain
          maxVoices,    \* g_max_voices
          mix,          \* where render is: the voice, its samples left, in its pitch loop?
          heard         \* history: [voice -> the blocks decoded since it was set up or keyed on]

sasVars == <<voice, grain, maxVoices, mix, heard>>

Voice == 0..NVoices - 1

(* A voice after psp_sas_reset. *)
Silent == [vag |-> << >>, loop |-> FALSE, pos |-> 1, loopPos |-> 1, endPending |-> FALSE,
           idx |-> 0, valid |-> FALSE, pitch |-> One, frac |-> 0,
           env |-> 0, state |-> "off", attack |-> 0, decay |-> 0, sustain |-> 0, release |-> 0,
           playing |-> FALSE, paused |-> FALSE]

(* No voice is mixed: the guest runs. *)
Quiet == [v |-> NVoices, left |-> 0, turns |-> FALSE]

SasInit == /\ voice = [v \in Voice |-> Silent]
           /\ grain = DefaultGrain /\ maxVoices = NVoices /\ mix = Quiet
           /\ heard = [v \in Voice |-> << >>]

-----------------------------------------------------------------------------
Bit(flags, b) == (flags \div b) % 2 = 1

(* What decoding came to: the voice, what was heard of it, has it ended? *)
Goes(v, h) == [v |-> v, heard |-> h, stop |-> FALSE]
Ended(v, h) == [v |-> [v EXCEPT !.playing = FALSE], heard |-> h, stop |-> TRUE]

(* Mutant: the loop mode alone repeats the sample. *)
AfterBlockLoops(v, flags) ==
    IF ~Bit(flags, 1) THEN [v EXCEPT !.pos = @ + 1]
    ELSE IF v.loop THEN [v EXCEPT !.pos = v.loopPos]
    ELSE [v EXCEPT !.pos = @ + 1, !.endPending = TRUE]

(* The end of decode_block: the next block, the loop's, or none after this one. *)
AfterBlock(v, flags) ==
    IF ~Bit(flags, 1) THEN [v EXCEPT !.pos = @ + 1]
    ELSE IF Bit(flags, 2) /\ v.loop THEN [v EXCEPT !.pos = v.loopPos]
    ELSE [v EXCEPT !.pos = @ + 1, !.endPending = TRUE]

(* decode_block, of a voice of which h was heard; one with no block to decode has ended. *)
DecodeBlock(v, h) ==
    IF v.endPending \/ v.pos > Len(v.vag) THEN Ended(v, h)
    ELSE LET flags == v.vag[v.pos]
             mark  == IF Bit(flags, 4) THEN [v EXCEPT !.loopPos = v.pos] ELSE v
         IN IF flags = 7 THEN Ended(v, h)
            ELSE Goes([AfterBlock(mark, flags) EXCEPT !.valid = TRUE], Append(h, v.pos))

(* step_envelope *)
StepEnvelope(v) ==
    CASE v.state = "attack"  -> IF v.env + v.attack >= Full
                                THEN [v EXCEPT !.env = Full, !.state = "decay"]
                                ELSE [v EXCEPT !.env = @ + v.attack]
      [] v.state = "decay"   -> IF v.env - v.decay <= v.sustain
                                THEN [v EXCEPT !.env = v.sustain, !.state = "sustain"]
                                ELSE [v EXCEPT !.env = @ - v.decay]
      [] v.state = "release" -> IF v.env - v.release <= 0
                                THEN [v EXCEPT !.env = 0, !.state = "off", !.playing = FALSE]
                                ELSE [v EXCEPT !.env = @ - v.release]
      [] OTHER               -> v

-----------------------------------------------------------------------------
(* The voices that render mixes and has not come to, from v on. *)
Mixed(v) == {u \in Voice : /\ u >= v /\ u < maxVoices
                           /\ voice[u].playing /\ ~voice[u].paused /\ voice[u].vag # << >>}

MixFrom(v) == mix' = IF Mixed(v) = {} THEN Quiet
                     ELSE [v |-> Min(Mixed(v)), left |-> grain, turns |-> FALSE]

(* hle_Core and hle_CoreWithMix, with a buffer: every voice that is on, in turn. *)
Core == /\ mix = Quiet
        /\ \A v \in Voice : Len(heard[v]) < MaxHeard
        /\ MixFrom(0)
        /\ UNCHANGED <<voice, grain, maxVoices, heard>>

(* The voice in the mixer becomes w, and has heard h. *)
Mix(w, h) == /\ voice' = [voice EXCEPT ![mix.v] = w]
             /\ heard' = [heard EXCEPT ![mix.v] = h]
             /\ UNCHANGED <<grain, maxVoices>>

(* The body of render's loop up to the pitch: a sample of a voice. *)
MixSample ==
    /\ mix.v \in Voice /\ ~mix.turns
    /\ LET w == voice[mix.v]
           d == IF w.valid /\ w.idx < BlockLen THEN Goes(w, heard[mix.v])
                ELSE DecodeBlock([w EXCEPT !.idx = 0], heard[mix.v])
       IN IF d.stop THEN Mix(d.v, d.heard) /\ MixFrom(mix.v + 1)
          ELSE /\ Mix([StepEnvelope(d.v) EXCEPT !.frac = @ + d.v.pitch], d.heard)
               /\ mix' = [mix EXCEPT !.turns = TRUE]

(* One turn of the pitch loop in render: a sample on, and a block on at its end. *)
MixTurn ==
    /\ mix.v \in Voice /\ mix.turns /\ voice[mix.v].frac >= One
    /\ LET w == [voice[mix.v] EXCEPT !.idx = @ + 1, !.frac = @ - One]
           d == IF w.idx < BlockLen THEN Goes(w, heard[mix.v])
                ELSE DecodeBlock([w EXCEPT !.idx = 0], heard[mix.v])
       IN /\ Mix(d.v, d.heard)
          /\ IF d.stop THEN MixFrom(mix.v + 1) ELSE UNCHANGED mix

(* The end of the pitch loop: the next sample, or the next voice. *)
MixOn ==
    /\ mix.v \in Voice /\ mix.turns /\ voice[mix.v].frac < One
    /\ IF mix.left > 1 /\ voice[mix.v].playing
       THEN mix' = [mix EXCEPT !.left = @ - 1, !.turns = FALSE]
       ELSE MixFrom(mix.v + 1)
    /\ UNCHANGED <<voice, grain, maxVoices, heard>>

-----------------------------------------------------------------------------
(* hle_Init: no voices, or too many, are all of them, and the grain has a default. *)
SasSetup(n, g) == /\ maxVoices' = IF n = 0 \/ n > NVoices THEN NVoices ELSE n
                  /\ grain' = IF g = 0 \/ g > MaxGrain THEN DefaultGrain ELSE g
                  /\ UNCHANGED <<voice, heard>>

Set(v, new) == /\ voice' = [voice EXCEPT ![v] = new]
               /\ UNCHANGED <<grain, maxVoices>>

Rewound(v) == [v EXCEPT !.pos = 1, !.loopPos = 1, !.endPending = FALSE, !.idx = 0, !.valid = FALSE]

SetVoice(v, vag, loop) == /\ Set(v, Rewound([voice[v] EXCEPT !.vag = vag, !.loop = loop]))
                          /\ heard' = [heard EXCEPT ![v] = << >>]

SetPitch(v, p) == Set(v, [voice[v] EXCEPT !.pitch = p]) /\ UNCHANGED heard

(* hle_SetADSR, of the parts that its flags name (hle_SetSimpleADSR: of all of them) *)
SetADSR(v, parts, a, d, l, r) ==
    /\ Set(v, [voice[v] EXCEPT !.attack  = IF "attack" \in parts THEN a ELSE @,
                               !.decay   = IF "decay" \in parts THEN d ELSE @,
                               !.sustain = IF "sustain" \in parts THEN l ELSE @,
                               !.release = IF "release" \in parts THEN r ELSE @])
    /\ UNCHANGED heard

KeyOn(v) == /\ Set(v, [Rewound(voice[v]) EXCEPT !.playing = TRUE, !.paused = FALSE, !.frac = 0,
                            !.env = 0, !.state = "attack",
                            !.attack = IF @ = 0 THEN DefaultRate ELSE @])
            /\ heard' = [heard EXCEPT ![v] = << >>]

KeyOff(v) == /\ Set(v, [voice[v] EXCEPT !.state = "release",
                                        !.release = IF @ = 0 THEN DefaultRate ELSE @])
             /\ UNCHANGED heard

SetPause(mask, p) == /\ voice' = [v \in Voice |-> IF v \in mask THEN [voice[v] EXCEPT !.paused = p]
                                                  ELSE voice[v]]
                     /\ UNCHANGED <<grain, maxVoices, heard>>

SasReset == /\ voice' = [v \in Voice |-> Silent] /\ heard' = [v \in Voice |-> << >>]
            /\ grain' = DefaultGrain /\ maxVoices' = NVoices

SasCall == \/ \E n \in 0..NVoices + 1, g \in Grains : SasSetup(n, g)
           \/ \E v \in Voice, vag \in Samples, loop \in BOOLEAN : SetVoice(v, vag, loop)
           \/ \E v \in Voice, p \in Pitches : SetPitch(v, p)
           \/ \E v \in Voice, parts \in SUBSET {"attack", "decay", "sustain", "release"},
                 a, d, r \in Rates, l \in Levels : SetADSR(v, parts, a, d, l, r)
           \/ \E v \in Voice : KeyOn(v)
           \/ \E v \in Voice : KeyOff(v)
           \/ \E mask \in SUBSET Voice, p \in BOOLEAN : SetPause(mask, p)
           \/ SasReset

(* Mixing is not interrupted: the guest has the CPU. *)
SasNext == \/ Core
           \/ MixSample
           \/ MixTurn
           \/ MixOn
           \/ mix = Quiet /\ SasCall /\ UNCHANGED mix

SasSpec == SasInit /\ [][SasNext]_sasVars

-----------------------------------------------------------------------------
(* The loop starts among the first k blocks heard. *)
Starts(s, h, k) == {j \in 1..k : Bit(s[h[j]], 4)}

(* Block b follows the k-th heard, as the flags ask. *)
Follows(s, loop, h, k, b) ==
    LET flags == s[h[k]]
    IN IF Bit(flags, 1) /\ Bit(flags, 2) /\ loop
       THEN IF Starts(s, h, k) = {} THEN b = 1
            ELSE \E j \in Starts(s, h, k) : (\A i \in Starts(s, h, k) : i <= j) /\ b = h[j]
       ELSE ~Bit(flags, 1) /\ b = h[k] + 1

(* What the flags of a sample ask for, said of the order in which its blocks are heard:
   the first block first; after a block that ends and repeats, in a looping voice, the
   last loop start heard (or the first block); after one that ends otherwise, and at a
   terminator, nothing; after any other the next one.  A sound that is over is not
   still heard, and one that is not repeated is heard once - the title that "waits for
   the jingle to finish".  (decode_block, render, hle_SetVoice, hle_SetKeyOn) *)
HeardAsFlagged ==
    \A v \in Voice :
        LET h == heard[v]
            s == voice[v].vag
        IN /\ h # << >> => h[1] = 1
           /\ \A k \in DOMAIN h : s[h[k]] # 7
           /\ \A k \in 1..Len(h) - 1 : Follows(s, voice[v].loop, h, k, h[k + 1])
=============================================================================
