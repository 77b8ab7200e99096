---------------------------- MODULE WaitsProofs ----------------------------
(***************************************************************************)
(* Proofs about Waits: tokens and events are conserved for every number of *)
(* threads, semaphores and flags, every set of counts, bits and timeouts.  *)
(***************************************************************************)
EXTENDS Waits, SetLemmas

(* The semaphores and what is waited for, as far as counting needs their types.  A
   record that is not used any more goes on being counted: a waiter that still points
   at it may take from it. *)
SemaInv == /\ sema \in [Sema -> [used : BOOLEAN, count : Int, max_count : 0..MaxCount,
                                 taken : Nat]]
           /\ want \in [Thread -> [s : 0..NSemas, need : Nat]]
           /\ issued \in [Sema -> Int]
           /\ \A s \in Sema : sema[s].count + sema[s].taken = issued[s]
           /\ kind = "sema" \/ want = [t \in Thread |-> NoWant]

LEMMA CountsAreInt == Counts \subseteq Int
BY SemaAssumption DEF Counts

LEMMA InitSemaInv == WaitsInit => SemaInv
BY SemaAssumption DEF WaitsInit, Init, SemaInv, Unused, NoWant, Sema

(* hle_CreateSema finds a record. *)
LEMMA FirstFreeSema ==
    ASSUME \E s \in Sema : ~sema[s].used
    PROVE  Min({r \in Sema : ~sema[r].used}) \in Sema
<1> DEFINE S == {r \in Sema : ~sema[r].used}
<1>1. S \in SUBSET Nat /\ S # {}
  BY SemaAssumption DEF Sema
<1>2. Min(S) \in S
  BY <1>1, MinIsLeast
<1> QED
  BY <1>2

(* Taking what is there. *)
LEMMA TakeSemaInv ==
    ASSUME SemaInv, NEW s \in Sema, NEW n \in Nat, sema[s].count >= n, Take(s, n),
           UNCHANGED <<issued, kind>>, want' \in [Thread -> [s : 0..NSemas, need : Nat]],
           kind = "sema"
    PROVE  SemaInv'
<1>1. sema[s].count - n \in Int /\ sema[s].taken + n \in Nat
  BY DEF SemaInv
<1>2. sema' \in [Sema -> [used : BOOLEAN, count : Int, max_count : 0..MaxCount, taken : Nat]]
  BY <1>1 DEF SemaInv, Take
<1>3. \A r \in Sema : sema'[r].count + sema'[r].taken = issued'[r]
  BY <1>1 DEF SemaInv, Take
<1> QED
  BY <1>2, <1>3 DEF SemaInv

(* Every call on a semaphore and every turn of the wait loop keeps the counts. *)
LEMMA NextSemaInv == ASSUME SemaInv, [WaitsNext]_waitVars PROVE SemaInv'
<1> DEFINE Counted == [used : BOOLEAN, count : Int, max_count : 0..MaxCount, taken : Nat]
           Wanted == [Thread -> [s : 0..NSemas, need : Nat]]
<1>1. CASE UNCHANGED waitVars
  BY <1>1 DEF waitVars, vars, SemaInv
<1>2. CASE kind = "flag" /\ F!Next /\ UNCHANGED <<kind, semaVars>>
  BY <1>2 DEF semaVars, SemaInv
<1>3. ASSUME OnSema(Next) PROVE SemaInv'
  <2>1. kind = "sema" /\ UNCHANGED kind
    BY <1>3 DEF OnSema
  <2>2. PICK t \in Thread : Call(t) \/ Loop(t) \/ Schedule(t)
    BY <1>3 DEF OnSema, Next
  <2>3. ASSUME NEW init \in Counts, NEW max \in 0..MaxCount, CreateSema(t, init, max)
        PROVE  SemaInv'
    <3> DEFINE f == Min({r \in Sema : ~sema[r].used})
    <3>1. f \in Sema
      BY <2>3, FirstFreeSema DEF CreateSema
    <3>2. init \in Int
      BY CountsAreInt
    <3>3. /\ sema' = [sema EXCEPT ![f] = [used |-> TRUE, count |-> init, max_count |-> max,
                                          taken |-> 0]]
          /\ issued' = [issued EXCEPT ![f] = init]
          /\ want' = want
      BY <2>3 DEF CreateSema
    <3> HIDE DEF f
    <3>4. sema' \in [Sema -> Counted] /\ issued' \in [Sema -> Int]
      BY <3>1, <3>2, <3>3 DEF SemaInv
    <3>5. \A s \in Sema : sema'[s].count + sema'[s].taken = issued'[s]
      BY <3>1, <3>2, <3>3 DEF SemaInv
    <3> QED
      BY <2>1, <3>3, <3>4, <3>5 DEF SemaInv
  <2>4. ASSUME NEW s \in Sema, DeleteSema(t, s) PROVE SemaInv'
    BY <2>1, <2>4 DEF DeleteSema, SemaInv
  <2>5. ASSUME NEW s \in Sema, NEW n \in Counts \ {0}, SignalSema(t, s, n) PROVE SemaInv'
    <3> DEFINE sum  == sema[s].count + n
               kept == IF sema[s].max_count > 0 /\ sum > sema[s].max_count
                       THEN sema[s].max_count ELSE sum
    <3>1. n \in Int /\ sema[s].count \in Int /\ sema[s].taken \in Nat /\ issued[s] \in Int
          /\ sema[s].max_count \in Nat
      BY CountsAreInt, SemaAssumption DEF SemaInv
    <3>2. sema[s].count + sema[s].taken = issued[s]
      BY DEF SemaInv
    <3>3. /\ kept \in Int /\ kept + sema[s].taken \in Int
          /\ issued[s] + kept - sema[s].count = kept + sema[s].taken
      BY <3>1, <3>2
    <3>4. /\ sema' = [sema EXCEPT ![s].count = kept]
          /\ issued' = [issued EXCEPT ![s] = issued[s] + kept - sema[s].count]
          /\ want' = want
      BY <2>5 DEF SignalSema
    <3> HIDE DEF sum, kept
    <3>5. issued' = [issued EXCEPT ![s] = kept + sema[s].taken]
      BY <3>3, <3>4, Zenon
    <3>6. sema' \in [Sema -> Counted] /\ issued' \in [Sema -> Int]
      BY <3>3, <3>4, <3>5 DEF SemaInv
    <3>7. \A r \in Sema : sema'[r].count + sema'[r].taken = issued'[r]
      BY <3>3, <3>4, <3>5 DEF SemaInv
    <3> QED
      BY <2>1, <3>4, <3>6, <3>7 DEF SemaInv
  <2>6. ASSUME NEW s \in Sema, NEW n \in Counts, CancelSema(t, s, n) PROVE SemaInv'
    <3>1. n \in Int /\ sema[s].count \in Int /\ sema[s].taken \in Nat /\ issued[s] \in Int
      BY CountsAreInt DEF SemaInv
    <3>2. issued[s] - sema[s].count + n = n + sema[s].taken /\ n + sema[s].taken \in Int
      BY <3>1 DEF SemaInv
    <3>3. /\ sema' = [sema EXCEPT ![s].count = n]
          /\ issued' = [issued EXCEPT ![s] = n + sema[s].taken]
          /\ want' = want
      BY <2>6, <3>2 DEF CancelSema
    <3>4. sema' \in [Sema -> Counted] /\ issued' \in [Sema -> Int]
      BY <3>1, <3>2, <3>3 DEF SemaInv
    <3>5. \A r \in Sema : sema'[r].count + sema'[r].taken = issued'[r]
      BY <3>1, <3>3 DEF SemaInv
    <3> QED
      BY <2>1, <3>3, <3>4, <3>5 DEF SemaInv
  <2>7. ASSUME NEW s \in Sema, NEW n \in Counts, PollSema(t, s, n) PROVE SemaInv'
    <3>1. AtLeastOne(n) \in Nat
      BY CountsAreInt DEF AtLeastOne
    <3>2. want' \in Wanted
      BY <2>7 DEF PollSema, SemaInv
    <3> QED
      BY <2>1, <2>7, <3>1, <3>2, TakeSemaInv DEF PollSema
  <2>8. ASSUME NEW s \in Sema, NEW n \in Counts, NEW timeout \in Timeouts,
               WaitSema(t, s, n, timeout)
        PROVE  SemaInv'
    <3>1. AtLeastOne(n) \in Nat /\ s \in 0..NSemas
      BY CountsAreInt, SemaAssumption DEF AtLeastOne, Sema
    <3>2. want' \in Wanted
      BY <2>8, <3>1 DEF WaitSema, SemaInv
    <3> QED
      BY <2>1, <2>8, <3>2 DEF WaitSema, SemaInv
  <2>9. NoWant \in [s : 0..NSemas, need : Nat]
    BY SemaAssumption DEF NoWant
  <2>10. CASE SemaOk(t)
    <3>1. want[t].s # 0 /\ want[t].s \in 0..NSemas /\ want[t].need \in Nat
      BY <2>10 DEF SemaOk, WaitOk, SemaReady, SemaInv
    <3>2. want[t].s \in Sema /\ want[t].need \in Nat
      BY <3>1, SemaAssumption DEF Sema
    <3>3. want' \in Wanted
      BY <2>9, <2>10 DEF SemaOk, SemaInv
    <3>4. sema[want[t].s].count >= want[t].need
      BY <2>10 DEF SemaOk, WaitOk, SemaReady
    <3> QED
      BY <2>1, <2>10, <3>2, <3>3, <3>4, TakeSemaInv DEF SemaOk
  <2>11. CASE SemaTimeout(t) \/ SemaGivesUp(t)
    BY <2>1, <2>9, <2>11 DEF SemaTimeout, SemaGivesUp, SemaInv
  <2>12. CASE SemaParks(t) \/ Schedule(t)
    BY <2>1, <2>12 DEF SemaParks, Schedule, SemaInv
  <2> QED
    BY <2>2, <2>3, <2>4, <2>5, <2>6, <2>7, <2>8, <2>10, <2>11, <2>12 DEF Call, Loop
<1> QED
  BY <1>1, <1>2, <1>3 DEF WaitsNext

LEMMA SemaInvariant == WaitsSpec => []SemaInv
BY InitSemaInv, NextSemaInv, PTL DEF WaitsSpec

(* Taking in one step what the same step found there. *)
LEMMA TakeLeavesSome ==
    ASSUME SemaInv, NEW s \in Sema, NEW n \in Int, sema[s].count >= n, Take(s, n),
           NEW r \in Sema, sema'[r].taken > sema[r].taken
    PROVE  sema'[r].count >= 0
<1>1. r = s
  BY DEF Take, SemaInv
<1>2. sema'[s].count = sema[s].count - n
  BY DEF Take, SemaInv
<1> QED
  BY <1>1, <1>2 DEF SemaInv

(* The steps that take tokens are polls and satisfied waits; no other raises `taken'. *)
LEMMA TakesWhatIsThere ==
    ASSUME SemaInv, [WaitsNext]_waitVars, NEW r \in Sema, sema'[r].taken > sema[r].taken
    PROVE  sema'[r].count >= 0
<1>1. sema[r].taken \in Nat /\ sema'[r].taken # sema[r].taken
  BY DEF SemaInv
<1>2. OnSema(Next)
  BY <1>1 DEF WaitsNext, waitVars, vars, semaVars
<1>3. PICK t \in Thread : Call(t) \/ Loop(t) \/ Schedule(t)
  BY <1>2 DEF OnSema, Next
<1>4. CASE Loop(t)
  <2>1. SemaOk(t)
    BY <1>1, <1>4 DEF Loop, SemaTimeout, SemaGivesUp, SemaParks
  <2>2. want[t].s # 0 /\ sema[want[t].s].count >= want[t].need
        /\ Take(want[t].s, want[t].need)
    BY <2>1 DEF SemaOk, WaitOk, SemaReady
  <2>3. want[t].s \in 0..NSemas /\ want[t].need \in Int
    BY DEF SemaInv
  <2>4. want[t].s \in Sema
    BY <2>2, <2>3, SemaAssumption DEF Sema
  <2> QED
    BY <2>2, <2>3, <2>4, TakeLeavesSome
<1>5. ASSUME NEW s \in Sema, NEW n \in Counts, PollSema(t, s, n) PROVE sema'[r].count >= 0
  <2>1. AtLeastOne(n) \in Int
    BY CountsAreInt DEF AtLeastOne
  <2> QED
    BY <1>5, <2>1, TakeLeavesSome DEF PollSema
<1>6. ASSUME NEW init \in Counts, NEW max \in 0..MaxCount, CreateSema(t, init, max)
      PROVE  FALSE
  <2> DEFINE f == Min({q \in Sema : ~sema[q].used})
  <2>1. f \in Sema
    BY <1>6, FirstFreeSema DEF CreateSema
  <2>2. sema' = [sema EXCEPT ![f] = [used |-> TRUE, count |-> init, max_count |-> max,
                                      taken |-> 0]]
    BY <1>6 DEF CreateSema
  <2> HIDE DEF f
  <2>3. r = f /\ sema'[r].taken = 0
    BY <1>1, <2>1, <2>2 DEF SemaInv
  <2> QED
    BY <1>1, <2>3
<1>7. ASSUME NEW s \in Sema, NEW n \in Counts, SignalSema(t, s, n) \/ CancelSema(t, s, n)
      PROVE  FALSE
  <2>1. PICK c : sema' = [sema EXCEPT ![s].count = c]
    BY <1>7 DEF SignalSema, CancelSema
  <2>2. sema'[r].taken = sema[r].taken
    BY <2>1 DEF SemaInv
  <2> QED
    BY <1>1, <2>2
<1>8. CASE (\E s \in Sema : DeleteSema(t, s)) \/ Schedule(t)
          \/ \E s \in Sema, n \in Counts, timeout \in Timeouts : WaitSema(t, s, n, timeout)
  BY <1>1, <1>8 DEF DeleteSema, WaitSema, Schedule, SemaInv
<1> QED
  BY <1>3, <1>4, <1>5, <1>6, <1>7, <1>8 DEF Call

(* take_sema and hle_PollSema: no interleaving of waiters, signals, cancels, deletions
   and reuse of the record makes or loses a token, or takes one that is not there. *)
THEOREM TokensStayConserved == WaitsSpec => TokensConserved
<1> DEFINE Balanced == \A s \in Sema : sema[s].used =>
                           sema[s].count + sema[s].taken = issued[s]
           Takes == \A s \in Sema : sema'[s].taken > sema[s].taken => sema'[s].count >= 0
<1>1. SemaInv => Balanced
  BY DEF SemaInv
<1>2. SemaInv /\ [WaitsNext]_waitVars => [Takes]_vars
  BY TakesWhatIsThere
<1> QED
  BY <1>1, <1>2, SemaInvariant, PTL DEF WaitsSpec, TokensConserved

(* The step from which the next theorem follows: a thread leaves wait_loop with what it
   waited for, or without its condition holding. *)
LEMMA LeavesLoopSatisfied ==
    ASSUME SemaInv, [WaitsNext]_waitVars, NEW t \in Thread,
           cpu = t, phase[t] = "loop", phase'[t] = "guest", SemaReady(t)
    PROVE  sema'[want[t].s].taken = sema[want[t].s].taken + want[t].need
<1>1. kind = "sema"
  BY DEF SemaInv, SemaReady, NoWant
<1>2. OnSema(Next)
  BY <1>1 DEF WaitsNext, waitVars, vars, loopVars
<1>3. PICK u \in Thread : Call(u) \/ Loop(u) \/ Schedule(u)
  BY <1>2 DEF OnSema, Next
<1>4. SemaOk(t)
  <2>1. CASE Call(u)
    BY <2>1 DEF Call, CreateSema, DeleteSema, SignalSema, CancelSema, PollSema, WaitSema,
                BeginWait, loopVars
  <2>2. CASE Schedule(u)
    BY <2>2, WaitLoopAssumption DEF Schedule, Scheduling, Yield, Unpark, End
  <2>3. CASE Loop(u)
    <3>1. u = t
      BY <2>3 DEF Loop, SemaOk, SemaTimeout, SemaGivesUp, SemaParks, WaitOk, WaitTimesOut,
                  WaitGivesUp, WaitParks
    <3>2. ~SemaTimeout(t) /\ ~SemaGivesUp(t) /\ ~SemaParks(t)
      BY DEF SemaTimeout, SemaGivesUp, SemaParks, WaitTimesOut, WaitGivesUp, WaitParks
    <3> QED
      BY <2>3, <3>1, <3>2 DEF Loop
  <2> QED
    BY <1>3, <2>1, <2>2, <2>3
<1>5. want[t].s \in Sema
  BY SemaAssumption DEF SemaReady, SemaInv, Sema
<1> QED
  BY <1>4, <1>5 DEF SemaOk, Take, SemaInv

(* wait_loop tests the condition before the deadline: however late a signal is, a wait
   that finds what it needs takes it and is not reported as timed out. *)
THEOREM SatisfiedIsNeverLate == WaitsSpec => SatisfiedNeverTimesOut
<1>1. SemaInv /\ [WaitsNext]_waitVars =>
          [\A t \in Thread : cpu = t /\ phase[t] = "loop" /\ phase'[t] = "guest" /\ SemaReady(t) =>
               sema'[want[t].s].taken = sema[want[t].s].taken + want[t].need]_vars
  BY LeavesLoopSatisfied
<1> QED
  BY <1>1, SemaInvariant, PTL DEF WaitsSpec, SatisfiedNeverTimesOut
-----------------------------------------------------------------------------
(* The event flags.  FlagInv links the history to the pattern it knows nothing of: the
   bits that may be handed out are the ones that are set.  A deleted record may still be
   waited for: it is counted too. *)
FlagTypes == /\ flag \in [F!Flag -> [used : BOOLEAN, pattern : SUBSET Bits]]
             /\ flagWant \in [Thread -> [f : 0..NFlags, bits : SUBSET Bits, mode : F!Mode]]
             /\ spent \in [F!Flag -> [Bits -> Nat]]

Linked(p, h) == \A b \in Bits : h[b] = IF b \in p THEN 0 ELSE 1

FlagInv == FlagTypes /\ \A f \in F!Flag : Linked(flag[f].pattern, spent[f])

(* A call that changes one flag, so that the pattern and the history stay linked. *)
LEMMA FlagChanged ==
    ASSUME FlagInv, NEW f \in F!Flag, NEW u \in BOOLEAN, NEW p \in SUBSET Bits,
           NEW h \in [Bits -> Nat], Linked(p, h),
           flag' = [flag EXCEPT ![f] = [used |-> u, pattern |-> p]],
           spent' = [spent EXCEPT ![f] = h],
           flagWant' \in [Thread -> [f : 0..NFlags, bits : SUBSET Bits, mode : F!Mode]]
    PROVE  FlagInv'
<1>1. FlagTypes'
  BY DEF FlagInv, FlagTypes
<1>2. ASSUME NEW g \in F!Flag PROVE Linked(flag'[g].pattern, spent'[g])
  <2>1. CASE g = f
    BY <2>1 DEF FlagInv, FlagTypes
  <2>2. CASE g # f
    <3>1. flag'[g] = flag[g] /\ spent'[g] = spent[g]
      BY <2>2 DEF FlagInv, FlagTypes
    <3> QED
      BY <3>1 DEF FlagInv
  <2> QED
    BY <2>1, <2>2
<1> QED
  BY <1>1, <1>2 DEF FlagInv, Linked

(* The history of each call, next to what the call makes of the pattern. *)
LEMMA RaisedLinked ==
    ASSUME NEW p \in SUBSET Bits, NEW h \in [Bits -> Nat], Linked(p, h),
           NEW bits \in SUBSET Bits
    PROVE  F!Raised(h, bits) \in [Bits -> Nat] /\ Linked(p \cup bits, F!Raised(h, bits))
BY DEF F!Raised, Linked

LEMMA WithdrawnLinked ==
    ASSUME NEW p \in SUBSET Bits, NEW h \in [Bits -> Nat], Linked(p, h),
           NEW keep \in SUBSET Bits
    PROVE  /\ F!Withdrawn(h, Bits \ keep) \in [Bits -> Nat]
           /\ Linked(p \cap keep, F!Withdrawn(h, Bits \ keep))
BY DEF F!Withdrawn, Linked

(* Here the test is needed: it is what makes a bit that is handed out one that was not
   handed out before. *)
LEMMA HandedOutLinked ==
    ASSUME NEW p \in SUBSET Bits, NEW h \in [Bits -> Nat], Linked(p, h),
           NEW bits \in SUBSET Bits, NEW mode \in F!Mode,
           IF mode.waitor THEN p \cap bits # {} ELSE bits \subseteq p
    PROVE  /\ F!HandedOut(h, bits, mode) \in [Bits -> Nat]
           /\ Linked(IF mode.waitclear THEN p \ bits ELSE p, F!HandedOut(h, bits, mode))
<1> DEFINE fresh == {b \in bits : h[b] = 0}
           got == IF mode.waitor /\ fresh # {} THEN fresh ELSE bits
           h2 == F!HandedOut(h, bits, mode)
<1>1. fresh = p \cap bits
  BY DEF Linked
<1>2. got = p \cap bits
  BY <1>1
<1>3. h2 = [b \in Bits |-> IF mode.waitclear /\ b \in got THEN h[b] + 1 ELSE h[b]]
  BY DEF F!HandedOut
<1> HIDE DEF fresh, got, h2
<1>4. h2 \in [Bits -> Nat]
  BY <1>3
<1>5. CASE mode.waitclear
  <2>1. \A b \in Bits : h2[b] = IF b \in p \ bits THEN 0 ELSE 1
    BY <1>2, <1>3, <1>5 DEF Linked
  <2> QED
    BY <1>4, <1>5, <2>1 DEF Linked, h2
<1>6. CASE ~mode.waitclear
  <2>1. \A b \in Bits : h2[b] = h[b]
    BY <1>3, <1>6
  <2> QED
    BY <1>4, <1>6, <2>1 DEF Linked, h2
<1> QED
  BY <1>5, <1>6

(* A wait or poll that finds its condition true and clears in the same step. *)
LEMMA GrantKeepsLink ==
    ASSUME FlagInv, NEW f \in F!Flag, NEW bits \in SUBSET Bits, NEW mode \in F!Mode,
           F!Ready(f, bits, mode), F!Grant(f, bits, mode),
           flagWant' \in [Thread -> [f : 0..NFlags, bits : SUBSET Bits, mode : F!Mode]]
    PROVE  FlagInv'
<1> DEFINE p == flag[f].pattern
           p2 == IF mode.waitclear THEN p \ bits ELSE p
           h2 == F!HandedOut(spent[f], bits, mode)
<1>1. /\ p \in SUBSET Bits /\ spent[f] \in [Bits -> Nat]
      /\ flag[f].used \in BOOLEAN /\ Linked(p, spent[f])
      /\ \A q : [flag[f] EXCEPT !.pattern = q] = [used |-> flag[f].used, pattern |-> q]
  BY DEF FlagInv, FlagTypes
<1>2. p2 \in SUBSET Bits
  BY <1>1
<1>3. IF mode.waitor THEN p \cap bits # {} ELSE bits \subseteq p
  BY DEF F!Ready
<1>4. h2 \in [Bits -> Nat] /\ Linked(p2, h2)
  BY <1>1, <1>3, HandedOutLinked
<1>5. /\ flag' = [flag EXCEPT ![f] = [flag[f] EXCEPT !.pattern = p2]]
      /\ spent' = [spent EXCEPT ![f] = h2]
  BY DEF F!Grant
<1> HIDE DEF p, p2, h2
<1>6. flag' = [flag EXCEPT ![f] = [used |-> flag[f].used, pattern |-> p2]]
  BY <1>1, <1>5
<1> QED
  BY <1>1, <1>2, <1>4, <1>5, <1>6, FlagChanged

LEMMA InitFlagInv == ASSUME NFlags \in Nat, WaitsInit PROVE FlagInv
<1>1. F!NoWant \in [f : 0..NFlags, bits : SUBSET Bits, mode : F!Mode]
  BY DEF F!NoWant, F!Mode
<1> QED
  BY <1>1 DEF WaitsInit, F!Init, F!Unused, FlagInv, FlagTypes, Linked

(* Every call on an event flag and every turn of the wait loop keeps the link. *)
LEMMA NextFlagInv == ASSUME NFlags \in Nat, FlagInv, [WaitsNext]_waitVars PROVE FlagInv'
<1> DEFINE Wanted == [f : 0..NFlags, bits : SUBSET Bits, mode : F!Mode]
<1>1. CASE UNCHANGED flagVars
  BY <1>1 DEF flagVars, FlagInv, FlagTypes, Linked
<1>2. ASSUME F!Next PROVE FlagInv'
  <2>1. PICK t \in Thread : F!Call(t) \/ F!Loop(t) \/ F!Schedule(t)
    BY <1>2 DEF F!Next
  <2>2. ASSUME NEW bits \in SUBSET Bits, F!CreateEventFlag(t, bits) PROVE FlagInv'
    <3> DEFINE S == {r \in F!Flag : ~flag[r].used}
               none == [b \in Bits |-> 1]
    <3>1. S \in SUBSET Nat /\ S # {}
      BY <2>2 DEF F!CreateEventFlag, F!Flag
    <3>2. Min(S) \in F!Flag
      BY <3>1, MinIsLeast
    <3>3. /\ flag' = [flag EXCEPT ![Min(S)] = [used |-> TRUE, pattern |-> bits]]
          /\ spent' = [spent EXCEPT ![Min(S)] = F!Raised(none, bits)]
          /\ UNCHANGED flagWant
      BY <2>2 DEF F!CreateEventFlag, F!Min, Min
    <3>4. F!Raised(none, bits) \in [Bits -> Nat] /\ Linked(bits, F!Raised(none, bits))
      BY DEF F!Raised, Linked
    <3> HIDE DEF S, none
    <3> QED
      BY <3>2, <3>3, <3>4, FlagChanged DEF FlagInv, FlagTypes
  <2>3. ASSUME NEW f \in F!Flag, NEW p \in SUBSET Bits, NEW h \in [Bits -> Nat],
               Linked(p, h), flag' = [flag EXCEPT ![f].pattern = p],
               spent' = [spent EXCEPT ![f] = h], UNCHANGED flagWant
        PROVE  FlagInv'
    <3>1. /\ flag[f].used \in BOOLEAN
          /\ [flag[f] EXCEPT !.pattern = p] = [used |-> flag[f].used, pattern |-> p]
      BY DEF FlagInv, FlagTypes
    <3>2. flag' = [flag EXCEPT ![f] = [used |-> flag[f].used, pattern |-> p]]
      BY <2>3, <3>1
    <3> QED
      BY <2>3, <3>1, <3>2, FlagChanged DEF FlagInv, FlagTypes
  <2>4. ASSUME NEW f \in F!Flag, NEW bits \in SUBSET Bits, F!SetEventFlag(t, f, bits)
        PROVE  FlagInv'
    <3>1. /\ flag[f].pattern \in SUBSET Bits /\ spent[f] \in [Bits -> Nat]
          /\ Linked(flag[f].pattern, spent[f])
      BY DEF FlagInv, FlagTypes
    <3>2. flag[f].pattern \cup bits \in SUBSET Bits
      BY <3>1
    <3>3. /\ F!Raised(spent[f], bits) \in [Bits -> Nat]
          /\ Linked(flag[f].pattern \cup bits, F!Raised(spent[f], bits))
      BY <3>1, RaisedLinked
    <3> QED
      BY <2>3, <2>4, <3>2, <3>3 DEF F!SetEventFlag
  <2>5. ASSUME NEW f \in F!Flag, NEW keep \in SUBSET Bits, F!ClearEventFlag(t, f, keep)
        PROVE  FlagInv'
    <3>1. /\ flag[f].pattern \in SUBSET Bits /\ spent[f] \in [Bits -> Nat]
          /\ Linked(flag[f].pattern, spent[f])
      BY DEF FlagInv, FlagTypes
    <3>2. flag[f].pattern \cap keep \in SUBSET Bits
      BY <3>1
    <3>3. /\ F!Withdrawn(spent[f], Bits \ keep) \in [Bits -> Nat]
          /\ Linked(flag[f].pattern \cap keep, F!Withdrawn(spent[f], Bits \ keep))
      BY <3>1, WithdrawnLinked
    <3> QED
      BY <2>3, <2>5, <3>2, <3>3 DEF F!ClearEventFlag
  <2>6. ASSUME NEW f \in F!Flag, F!DeleteEventFlag(t, f) PROVE FlagInv'
    <3>1. flag' = [flag EXCEPT ![f].used = FALSE] /\ UNCHANGED <<flagWant, spent>>
      BY <2>6 DEF F!DeleteEventFlag
    <3>2. FlagTypes'
      BY <3>1 DEF FlagInv, FlagTypes
    <3>3. \A g \in F!Flag : flag'[g].pattern = flag[g].pattern
      BY <3>1 DEF FlagInv, FlagTypes
    <3> QED
      BY <3>1, <3>2, <3>3 DEF FlagInv, Linked
  <2>7. ASSUME NEW f \in F!Flag, NEW bits \in SUBSET Bits, NEW mode \in F!Mode,
               F!PollEventFlag(t, f, bits, mode)
        PROVE  FlagInv'
    BY <2>7, GrantKeepsLink DEF F!PollEventFlag, FlagInv, FlagTypes
  <2>8. ASSUME NEW f \in F!Flag, NEW bits \in SUBSET Bits, NEW mode \in F!Mode,
               NEW timeout, F!WaitEventFlag(t, f, bits, mode, timeout)
        PROVE  FlagInv'
    <3>1. [f |-> f, bits |-> bits, mode |-> mode] \in Wanted
      BY DEF F!Flag
    <3>2. flagWant' \in [Thread -> Wanted]
      BY <2>8, <3>1 DEF F!WaitEventFlag, FlagInv, FlagTypes
    <3> QED
      BY <2>8, <3>2 DEF F!WaitEventFlag, FlagInv, FlagTypes, Linked
  <2>9. F!NoWant \in Wanted
    BY DEF F!NoWant, F!Mode
  <2>10. CASE F!FlagOk(t)
    <3>1. /\ flagWant[t].f \in F!Flag /\ flagWant[t].bits \in SUBSET Bits
          /\ flagWant[t].mode \in F!Mode
          /\ F!Ready(flagWant[t].f, flagWant[t].bits, flagWant[t].mode)
      BY <2>10 DEF F!FlagOk, F!WaitOk, F!FlagReady, FlagInv, FlagTypes, F!Flag
    <3>2. flagWant' \in [Thread -> Wanted]
      BY <2>9, <2>10 DEF F!FlagOk, FlagInv, FlagTypes
    <3> QED
      BY <2>10, <3>1, <3>2, GrantKeepsLink DEF F!FlagOk
  <2>11. CASE F!FlagFails(t)
    BY <2>9, <2>11 DEF F!FlagFails, FlagInv, FlagTypes, Linked
  <2>12. CASE F!FlagParks(t) \/ F!Schedule(t)
    BY <2>12 DEF F!FlagParks, F!Schedule, FlagInv, FlagTypes, Linked
  <2> QED
    BY <2>1, <2>2, <2>4, <2>5, <2>6, <2>7, <2>8, <2>10, <2>11, <2>12 DEF F!Call, F!Loop
<1> QED
  BY <1>1, <1>2 DEF WaitsNext, OnSema, waitVars

(* wait_flag and hle_PollEventFlag: however the waiters of a flag interleave, and
   whatever becomes of its record meanwhile, no raising of a bit lets go two clearing
   waits.  NFlags is the length of an array. *)
THEOREM EventStaysConsumedOnce == ASSUME NFlags \in Nat PROVE WaitsSpec => []EventConsumedOnce
<1>1. FlagInv => EventConsumedOnce
  BY DEF FlagInv, Linked, EventConsumedOnce, F!EventConsumedOnce
<1> QED
  BY <1>1, InitFlagInv, NextFlagInv, PTL DEF WaitsSpec
=============================================================================
