------------------------------ MODULE Devices ------------------------------
(***************************************************************************)
(* The small firmware libraries that keep state: the audio channels and    *)
(* the controller of src/hle/misc.c (built with real threads), the power   *)
(* slots of power.c and the frame buffer of display.c.  A guest thread     *)
(* holds the CPU from one park to the next, so each action is one such     *)
(* stretch.  A sample count stands for its play time, in clock ticks.      *)
(***************************************************************************)
EXTENDS Integers, FiniteSets, FiniteSetsExt

CONSTANTS Caller,        \* guest threads that output audio
          NChannels,     \* AUDIO_CHANNELS
          PlayTimes,     \* sample counts a game sets
          NSlots,        \* MAX_POWER_SLOTS
          Callback,      \* ids of callbacks
          Buttons,       \* states of the pad
          Buffers,       \* frame buffers a game shows
          MaxNow         \* bound: clock ticks, and the counters

ASSUME DevicesAssumption == /\ NChannels \in Nat /\ PlayTimes \subseteq Nat
                            /\ \E longest \in PlayTimes : \A n \in PlayTimes : n <= longest

VARIABLES audio,         \* g_audio, [channel -> [reserved, samples]]
          due,           \* g_audio_due_us
          now,           \* external: host_now_us
          output,        \* [Caller -> the hle_OutputBlocking it is in, or Idle]
          power,         \* g_slot, 0 where free, and g_registered, g_conflicts
          valid,         \* external: psp_callback_valid
          pad,           \* g_buttons with the analog stick, g_ctrl_frame
          fb,            \* g_fb_addr with its width and format
          exitAsked      \* g_exit_requested

audioVars   == <<audio, due, now, output>>
gadgetVars  == <<power, valid, pad, fb, exitAsked>>
deviceVars  == <<audioVars, gadgetVars>>

Channel == 0..NChannels - 1
Slot    == 0..NSlots - 1
Idle    == [ch |-> -1, play |-> 0]
NoFrame == [buffer |-> "none", vblanks |-> 0]

DevicesInit ==
    /\ audio = [c \in Channel |-> [reserved |-> FALSE, samples |-> 0]]
    /\ due = [c \in Channel |-> 0] /\ now = 0
    /\ output = [t \in Caller |-> Idle]
    /\ power = [slot |-> [i \in Slot |-> 0], registered |-> 0, conflicts |-> 0]
    /\ valid = {}
    /\ pad = [state |-> "centred", frame |-> 0]
    /\ fb = NoFrame
    /\ exitAsked = FALSE

-----------------------------------------------------------------------------
(* hle_ChReserve: a channel that is asked for is given whoever has it. *)
ChReserve(c, n) ==
    LET free == {i \in Channel : ~audio[i].reserved}
        ch   == IF c >= 0 THEN c ELSE IF free # {} THEN Min(free) ELSE -1
    IN /\ audio' = IF ch = -1 THEN audio
                   ELSE [audio EXCEPT ![ch] = [reserved |-> TRUE, samples |-> n]]
       /\ UNCHANGED <<due, now, output>>

ChRelease(c) == /\ audio' = [audio EXCEPT ![c].reserved = FALSE]
                /\ UNCHANGED <<due, now, output>>

SetChannelDataLen(c, n) == /\ audio' = [audio EXCEPT ![c].samples = n]
                           /\ UNCHANGED <<due, now, output>>

(* The head of hle_OutputBlocking, up to its loop. *)
OutputBlocking(t, c) ==
    LET play == audio[c].samples
    IN /\ output[t] = Idle
       /\ due' = [due EXCEPT ![c] = Max({@, now}) + play]
       /\ output' = [output EXCEPT ![t] = [ch |-> c, play |-> play]]
       /\ UNCHANGED <<audio, now>>

(* Mutant: the wait is for the queue to be one buffer ahead of itself. *)
AheadPast(t) == now + 2 * output[t].play < due[output[t].ch]

(* The loop's condition: the queue is more than a buffer ahead. *)
Ahead(t) == now + output[t].play < due[output[t].ch]

(* The loop's exit.  Until then each pass is a park (psp_threadman_yield). *)
OutputReturns(t) == /\ output[t] # Idle /\ ~Ahead(t)
                    /\ output' = [output EXCEPT ![t] = Idle]
                    /\ UNCHANGED <<audio, due, now>>

(* external: the host's clock. *)
Clock == /\ now < MaxNow
         /\ now' = now + 1
         /\ UNCHANGED <<audio, due, output>>

(* psp_misc_reset *)
MiscReset == /\ audio' = [c \in Channel |-> [reserved |-> FALSE, samples |-> 0]]
             /\ due' = [c \in Channel |-> 0]
             /\ pad' = [state |-> "centred", frame |-> 0]
             /\ exitAsked' = FALSE
             /\ UNCHANGED <<now, output, power, valid, fb>>

-----------------------------------------------------------------------------
(* psp_ctrl_set, by the host *)
CtrlSet(b) == /\ pad' = [pad EXCEPT !.state = b]
              /\ UNCHANGED <<power, valid, fb, exitAsked>>

(* hle_ReadBufferPositive: one frame number for each entry it fills. *)
ReadBufferPositive(n) == /\ pad.frame + Max({n, 1}) <= MaxNow
                         /\ pad' = [pad EXCEPT !.frame = @ + Max({n, 1})]
                         /\ UNCHANGED <<power, valid, fb, exitAsked>>

ExitGame == exitAsked' = TRUE /\ UNCHANGED <<power, valid, pad, fb>>

(* hle_PowerRegisterCallback: the slot asked for, or with -1 the first free one. *)
PowerRegister(s, cb) ==
    LET free == {i \in Slot : power.slot[i] = 0}
        want == IF s = -1 THEN free ELSE free \cap {s}
    IN /\ power.registered + power.conflicts < MaxNow
       /\ power' = IF cb \in valid /\ want # {}
                   THEN [power EXCEPT !.slot[Min(want)] = cb, !.registered = @ + 1]
                   ELSE [power EXCEPT !.conflicts = @ + 1]
       /\ UNCHANGED <<valid, pad, fb, exitAsked>>

PowerUnregister(s) == /\ power' = [power EXCEPT !.slot[s] = 0]
                      /\ UNCHANGED <<valid, pad, fb, exitAsked>>

PowerReset == /\ power' = [slot |-> [i \in Slot |-> 0], registered |-> 0, conflicts |-> 0]
              /\ UNCHANGED <<valid, pad, fb, exitAsked>>

(* external: callbacks come and go; a slot keeps the id of one that is gone. *)
CallbackChange(cb) == /\ valid' = IF cb \in valid THEN valid \ {cb} ELSE valid \cup {cb}
                      /\ UNCHANGED <<power, pad, fb, exitAsked>>

(* hle_SetFrameBuf, hle_SetMode *)
SetFrameBuf(b) == /\ fb' = [fb EXCEPT !.buffer = b]
                  /\ UNCHANGED <<power, valid, pad, exitAsked>>

(* hle_WaitVblank, before it parks. *)
WaitVblank == /\ fb.vblanks < MaxNow
              /\ fb' = [fb EXCEPT !.vblanks = @ + 1]
              /\ UNCHANGED <<power, valid, pad, exitAsked>>

DisplayReset == fb' = NoFrame /\ UNCHANGED <<power, valid, pad, exitAsked>>

AudioNext == \/ \E c \in Channel \cup {-1}, n \in PlayTimes : ChReserve(c, n) /\ UNCHANGED gadgetVars
             \/ \E c \in Channel : ChRelease(c) /\ UNCHANGED gadgetVars
             \/ \E c \in Channel, n \in PlayTimes : SetChannelDataLen(c, n) /\ UNCHANGED gadgetVars
             \/ \E t \in Caller, c \in Channel : OutputBlocking(t, c) /\ UNCHANGED gadgetVars
             \/ \E t \in Caller : OutputReturns(t) /\ UNCHANGED gadgetVars
             \/ Clock /\ UNCHANGED gadgetVars
             \/ MiscReset

GadgetNext == \/ \E b \in Buttons : CtrlSet(b) /\ UNCHANGED audioVars
              \/ \E n \in 0..2 : ReadBufferPositive(n) /\ UNCHANGED audioVars
              \/ ExitGame /\ UNCHANGED audioVars
              \/ \E s \in Slot \cup {-1}, cb \in Callback : PowerRegister(s, cb) /\ UNCHANGED audioVars
              \/ \E s \in Slot : PowerUnregister(s) /\ UNCHANGED audioVars
              \/ \E cb \in Callback : CallbackChange(cb) /\ UNCHANGED audioVars
              \/ PowerReset /\ UNCHANGED audioVars
              \/ \E b \in Buffers : SetFrameBuf(b) /\ UNCHANGED audioVars
              \/ WaitVblank /\ UNCHANGED audioVars
              \/ DisplayReset /\ UNCHANGED audioVars

DevicesSpec == DevicesInit /\ [][AudioNext \/ GadgetNext]_deviceVars

-----------------------------------------------------------------------------
(* The play time of the buffers that threads are held by a channel for, each unit as a
   unit of its thread's. *)
HeldTime(c) == UNION {{t} \X (1..output[t].play) : t \in {u \in Caller : output[u].ch = c}}

(* The queue a channel's due time stands for is never longer than the hardware's: one
   buffer, and one more for each thread held by it.  So what paces a game's audio
   thread holds when several threads share a channel, when its length is changed while
   one of them waits and after an underrun.  (hle_OutputBlocking) *)
AheadBounded ==
    \A c \in Channel : due[c] - now <= Max(PlayTimes) + Cardinality(HeldTime(c))
=============================================================================
