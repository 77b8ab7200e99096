--------------------------- MODULE ThreadsProofs ---------------------------
(***************************************************************************)
(* Proofs about Threads, for every number of records, host threads and     *)
(* stacks.                                                                 *)
(***************************************************************************)
EXTENDS Threads, SetLemmas, SequenceTheorems

RecordType == [used : BOOLEAN, uid : -1..MaxUid,
               state : {"dormant", "ready", "running", "suspended"},
               stack : 0..NStacks, live : BOOLEAN, joinable : BOOLEAN,
               host : Host, exited : BOOLEAN, terminated : BOOLEAN,
               delete_after : BOOLEAN, end_waiters : Int,
               exit_status : -1..MaxUid]

WaitType == [slot : Slot, uid : -1..MaxUid, timed : BOOLEAN]

(* TypeOK, but for the sign of the pins, which takes an argument about the waits. *)
Typed == /\ rec \in [Record -> RecordType]
         /\ nextUid \in 1..MaxUid + 1
         /\ heap \subseteq 1..NStacks
         /\ cpu \in Host \cup {NoHost}
         /\ pc \in [Host -> {"none", "created", "cpu", "parked", "leaving", "ended"}]
         /\ me \in [Host -> Record]
         /\ endWaits \in [Host -> Seq(WaitType)]
         /\ hostUid \in [Host -> -1..MaxUid]

LEMMA Constants == /\ NSlots \in Nat /\ NHosts \in Nat /\ NStacks \in Nat
                   /\ MaxUid \in Nat /\ MaxNest \in Nat
BY ThreadsAssumption

LEMMA BlankTyped == Blank \in RecordType /\ BootRecord \in RecordType
<1>1. Boot \in Host /\ 0 \in -1..MaxUid /\ -1 \in -1..MaxUid /\ 0 \in 0..NStacks
  BY Constants DEF Host, Boot
<1>2. Blank \in RecordType
  BY <1>1 DEF Blank, RecordType
<1> QED
  BY <1>1, <1>2 DEF BootRecord, BootUid, RecordType

LEMMA Places == /\ Slot \subseteq Record /\ BootSlot \in Record /\ BootSlot \notin Slot
                /\ Guests \subseteq Host /\ Boot \in Host /\ Boot \notin Guests
                /\ NoHost \notin Host /\ Host = Guests \cup {Boot}
BY Constants DEF Slot, Record, BootSlot, Guests, Host, Boot, NoHost

LEMMA InitTyped == Init => Typed
BY Constants, BlankTyped, Places DEF Init, Typed

LEMMA JoinedTyped == ASSUME Typed, NEW S \in SUBSET Slot
                     PROVE  Joined(S) \in [Host -> {"none", "created", "cpu", "parked",
                                                    "leaving", "ended"}]
BY DEF Joined, Typed

LEMMA Fields ==
    ASSUME Typed, NEW s \in Record
    PROVE  /\ rec[s].used \in BOOLEAN /\ rec[s].uid \in -1..MaxUid
           /\ rec[s].stack \in 0..NStacks /\ rec[s].live \in BOOLEAN
           /\ rec[s].joinable \in BOOLEAN /\ rec[s].host \in Host
           /\ rec[s].exited \in BOOLEAN /\ rec[s].terminated \in BOOLEAN
           /\ rec[s].delete_after \in BOOLEAN /\ rec[s].end_waiters \in Int
<1>1. rec[s] \in RecordType
  BY DEF Typed
<1> QED
  BY <1>1 DEF RecordType

(* reap_deleted_threads: each record is as it was, or free. *)
LEMMA ReapedRecords ==
    ASSUME Typed
    PROVE  /\ Reaped \in [Record -> RecordType]
           /\ \A s \in Record : s \notin Reapable => Reaped[s] = rec[s]
           /\ \A s \in Reapable : /\ s \in Slot
                                  /\ ~Reaped[s].used /\ ~Reaped[s].joinable
                                  /\ Reaped[s].live = rec[s].live
                                  /\ Reaped[s].host = rec[s].host
                                  /\ Reaped[s].end_waiters = rec[s].end_waiters
                                  /\ Reaped[s].stack = rec[s].stack
<1>1. \A s \in Record : rec[s] \in RecordType
  BY DEF Typed
<1>2. ASSUME NEW r \in RecordType
      PROVE  [r EXCEPT !.used = FALSE, !.joinable = FALSE] \in RecordType
  BY DEF RecordType
<1>3. Reaped \in [Record -> RecordType]
  BY <1>1, <1>2 DEF Reaped
<1>4. \A s \in Record : s \notin Reapable => Reaped[s] = rec[s]
  BY DEF Reaped
<1>5. ASSUME NEW s \in Reapable
      PROVE  /\ s \in Slot
             /\ ~Reaped[s].used /\ ~Reaped[s].joinable
             /\ Reaped[s].live = rec[s].live
             /\ Reaped[s].host = rec[s].host
             /\ Reaped[s].end_waiters = rec[s].end_waiters
             /\ Reaped[s].stack = rec[s].stack
  <2>1. s \in Slot /\ s \in Record
    BY Places DEF Reapable
  <2>2. Reaped[s] = [rec[s] EXCEPT !.used = FALSE, !.joinable = FALSE]
    BY <2>1 DEF Reaped
  <2> QED
    BY <1>1, <2>1, <2>2 DEF RecordType
<1> QED
  BY <1>3, <1>4, <1>5

-----------------------------------------------------------------------------
(* What each call does to the records, field by field. *)
Others(s) == \A t \in Record : t # s => rec'[t] = rec[t]

LEMMA OneRecord ==
    ASSUME Typed, NEW s \in Record, NEW r \in RecordType, rec' = [rec EXCEPT ![s] = r]
    PROVE  rec' \in [Record -> RecordType] /\ rec'[s] = r /\ Others(s)
BY DEF Typed, Others

LEMMA StartEffect ==
    ASSUME Typed, NEW h \in Host, NEW s \in Slot, StartThread(h, s)
    PROVE  /\ NewHost(s) \in FreeHosts(s)
           /\ rec' \in [Record -> RecordType] /\ Others(s)
           /\ rec'[s].state = "ready" /\ rec'[s].joinable /\ rec'[s].live
           /\ rec'[s].host = NewHost(s)
           /\ ~rec'[s].exited /\ ~rec'[s].terminated /\ ~rec'[s].delete_after
           /\ rec'[s].used = rec[s].used /\ rec'[s].uid = rec[s].uid
           /\ rec'[s].stack = rec[s].stack /\ rec'[s].end_waiters = rec[s].end_waiters
<1>1. NewHost(s) \in FreeHosts(s)
  <2>1. FreeHosts(s) \in SUBSET Nat /\ FreeHosts(s) # {}
    <3>1. FreeHosts(s) \subseteq Nat
      BY Constants DEF FreeHosts, Guests
    <3>2. FreeHosts(s) # {}
      BY DEF StartThread
    <3> QED
      BY <3>1, <3>2
  <2> QED
    BY <2>1, MinIsLeast DEF NewHost
<1>2. NewHost(s) \in Host
  BY <1>1, Places DEF FreeHosts
<1> DEFINE r == [rec[s] EXCEPT !.state = "ready", !.joinable = TRUE, !.live = TRUE,
                               !.host = NewHost(s), !.exited = FALSE, !.terminated = FALSE,
                               !.delete_after = FALSE]
<1>3. rec' = [rec EXCEPT ![s] = r]
  BY DEF StartThread
<1>4. s \in Record /\ rec[s] \in RecordType
  BY Places DEF Typed
<1>5. r \in RecordType
  BY <1>2, <1>4 DEF RecordType
<1>6. rec' \in [Record -> RecordType] /\ rec'[s] = r /\ Others(s)
  BY <1>3, <1>4, <1>5, OneRecord
<1> QED
  BY <1>1, <1>4, <1>6 DEF RecordType

LEMMA StartFailsEffect ==
    ASSUME Typed, NEW h \in Host, NEW s \in Slot, StartThreadFails(h, s)
    PROVE  /\ rec' \in [Record -> RecordType] /\ Others(s)
           /\ rec'[s].state = "dormant" /\ ~rec'[s].joinable
           /\ ~rec'[s].exited /\ ~rec'[s].terminated /\ ~rec'[s].delete_after
           /\ rec'[s].used = rec[s].used /\ rec'[s].uid = rec[s].uid
           /\ rec'[s].live = rec[s].live
           /\ rec'[s].stack = rec[s].stack /\ rec'[s].end_waiters = rec[s].end_waiters
<1> DEFINE r == [rec[s] EXCEPT !.state = "dormant", !.joinable = FALSE, !.exited = FALSE,
                               !.terminated = FALSE, !.delete_after = FALSE]
<1>1. rec' = [rec EXCEPT ![s] = r]
  BY DEF StartThreadFails
<1>2. s \in Record /\ rec[s] \in RecordType
  BY Places DEF Typed
<1>3. r \in RecordType
  BY <1>2 DEF RecordType
<1>4. rec' \in [Record -> RecordType] /\ rec'[s] = r /\ Others(s)
  BY <1>1, <1>2, <1>3, OneRecord
<1> QED
  BY <1>2, <1>4 DEF RecordType

(* hle_SuspendThread, hle_ResumeThread, the first turn of a thread: only the state. *)
LEMMA StateEffect ==
    ASSUME Typed, NEW s \in Record, NEW state \in {"ready", "running", "suspended"},
           rec' = [rec EXCEPT ![s].state = state]
    PROVE  /\ rec' \in [Record -> RecordType] /\ Others(s)
           /\ rec'[s].state = state
           /\ rec'[s].used = rec[s].used /\ rec'[s].uid = rec[s].uid
           /\ rec'[s].live = rec[s].live /\ rec'[s].joinable = rec[s].joinable
           /\ rec'[s].host = rec[s].host /\ rec'[s].terminated = rec[s].terminated
           /\ rec'[s].delete_after = rec[s].delete_after
           /\ rec'[s].stack = rec[s].stack /\ rec'[s].end_waiters = rec[s].end_waiters
           /\ rec'[s].exited = rec[s].exited /\ rec'[s].exit_status = rec[s].exit_status
<1> DEFINE r == [rec[s] EXCEPT !.state = state]
<1>1. rec' = [rec EXCEPT ![s] = r]
  OBVIOUS
<1>2. rec[s] \in RecordType
  BY DEF Typed
<1>3. r \in RecordType
  BY <1>2 DEF RecordType
<1>4. rec' \in [Record -> RecordType] /\ rec'[s] = r /\ Others(s)
  BY <1>1, <1>3, OneRecord
<1> QED
  BY <1>2, <1>4 DEF RecordType

LEMMA TerminateEffect ==
    ASSUME Typed, NEW s \in Record, rec' = [rec EXCEPT ![s].terminated = TRUE]
    PROVE  /\ rec' \in [Record -> RecordType] /\ Others(s)
           /\ rec'[s].state = rec[s].state
           /\ rec'[s].used = rec[s].used /\ rec'[s].uid = rec[s].uid
           /\ rec'[s].live = rec[s].live /\ rec'[s].joinable = rec[s].joinable
           /\ rec'[s].host = rec[s].host
           /\ rec'[s].delete_after = rec[s].delete_after
           /\ rec'[s].stack = rec[s].stack /\ rec'[s].end_waiters = rec[s].end_waiters
           /\ rec'[s].exited = rec[s].exited /\ rec'[s].exit_status = rec[s].exit_status
<1> DEFINE r == [rec[s] EXCEPT !.terminated = TRUE]
<1>1. rec' = [rec EXCEPT ![s] = r]
  OBVIOUS
<1>2. rec[s] \in RecordType
  BY DEF Typed
<1>3. r \in RecordType
  BY <1>2 DEF RecordType
<1>4. rec' \in [Record -> RecordType] /\ rec'[s] = r /\ Others(s)
  BY <1>1, <1>3, OneRecord
<1> QED
  BY <1>2, <1>4 DEF RecordType

(* A WaitThreadEnd that begins or ends: only the pins. *)
LEMMA PinEffect ==
    ASSUME Typed, NEW s \in Record, NEW n \in Int, rec' = [rec EXCEPT ![s].end_waiters = n]
    PROVE  /\ rec' \in [Record -> RecordType] /\ Others(s)
           /\ rec'[s].end_waiters = n
           /\ rec'[s].state = rec[s].state
           /\ rec'[s].used = rec[s].used /\ rec'[s].uid = rec[s].uid
           /\ rec'[s].live = rec[s].live /\ rec'[s].joinable = rec[s].joinable
           /\ rec'[s].host = rec[s].host /\ rec'[s].terminated = rec[s].terminated
           /\ rec'[s].delete_after = rec[s].delete_after
           /\ rec'[s].stack = rec[s].stack
           /\ rec'[s].exited = rec[s].exited /\ rec'[s].exit_status = rec[s].exit_status
<1> DEFINE r == [rec[s] EXCEPT !.end_waiters = n]
<1>1. rec' = [rec EXCEPT ![s] = r]
  OBVIOUS
<1>2. rec[s] \in RecordType
  BY DEF Typed
<1>3. r \in RecordType
  BY <1>2 DEF RecordType
<1>4. rec' \in [Record -> RecordType] /\ rec'[s] = r /\ Others(s)
  BY <1>1, <1>3, OneRecord
<1> QED
  BY <1>2, <1>4 DEF RecordType

LEMMA DeleteEffect ==
    ASSUME Typed, NEW h \in Host, NEW s \in Slot, DeleteThread(h, s)
    PROVE  /\ rec' \in [Record -> RecordType] /\ Others(s)
           /\ rec'[s].stack = IF rec[s].state = "dormant" THEN 0 ELSE rec[s].stack
           /\ rec'[s].joinable = (rec[s].joinable /\ rec[s].live)
           /\ rec'[s].used = rec[s].live
           /\ rec'[s].state = rec[s].state /\ rec'[s].uid = rec[s].uid
           /\ rec'[s].live = rec[s].live
           /\ rec'[s].host = rec[s].host /\ rec'[s].terminated = rec[s].terminated
           /\ rec'[s].delete_after = rec[s].delete_after
           /\ rec'[s].end_waiters = rec[s].end_waiters
           /\ rec'[s].exited = rec[s].exited /\ rec'[s].exit_status = rec[s].exit_status
<1> DEFINE r == [rec[s] EXCEPT !.stack = IF rec[s].state = "dormant" THEN 0 ELSE @,
                               !.joinable = @ /\ rec[s].live, !.used = rec[s].live]
<1>1. rec' = [rec EXCEPT ![s] = r]
  BY DEF DeleteThread
<1>2. s \in Record /\ rec[s] \in RecordType
  BY Places DEF Typed
<1>3. r \in RecordType
  <2> DEFINE stack == IF rec[s].state = "dormant" THEN 0 ELSE rec[s].stack
  <2>1. stack \in 0..NStacks /\ (rec[s].joinable /\ rec[s].live) \in BOOLEAN
    BY <1>2, Constants DEF RecordType
  <2> HIDE DEF stack
  <2>2. [rec[s] EXCEPT !.stack = stack, !.joinable = rec[s].joinable /\ rec[s].live,
                       !.used = rec[s].live] \in RecordType
    BY <1>2, <2>1 DEF RecordType
  <2> QED
    BY <2>2 DEF stack
<1>4. rec' \in [Record -> RecordType] /\ rec'[s] = r /\ Others(s)
  BY <1>1, <1>2, <1>3, OneRecord
<1> QED
  BY <1>2, <1>4 DEF RecordType

LEMMA PinsByNat == ASSUME Typed, NEW h \in Host, NEW s PROVE PinsBy(h, s) \in Nat
<1> DEFINE I == {i \in DOMAIN endWaits[h] : endWaits[h][i].slot = s}
<1>1. endWaits[h] \in Seq(WaitType)
  BY DEF Typed
<1>2. DOMAIN endWaits[h] = 1..Len(endWaits[h]) /\ Len(endWaits[h]) \in Nat
  BY <1>1
<1>3. IsFiniteSet(1..Len(endWaits[h]))
  BY <1>2, FS_Interval
<1>4. IsFiniteSet(I)
  BY <1>2, <1>3, FS_Subset
<1> QED
  BY <1>4, FS_CardinalityType DEF PinsBy

LEMMA LeaveEffect ==
    ASSUME Typed, NEW h \in Host, NEW status \in -1..MaxUid, NEW delete \in BOOLEAN,
           Leave(h, status, delete)
    PROVE  LET s == me[h]
           IN  /\ rec' \in [Record -> RecordType]
               /\ \A t \in Record :
                     /\ rec'[t].end_waiters = rec[t].end_waiters - PinsBy(h, t)
                     /\ rec'[t].used = rec[t].used /\ rec'[t].uid = rec[t].uid
                     /\ rec'[t].joinable = rec[t].joinable /\ rec'[t].host = rec[t].host
                     /\ rec'[t].terminated = rec[t].terminated
               /\ \A t \in Record : t # s =>
                     /\ rec'[t].state = rec[t].state /\ rec'[t].live = rec[t].live
                     /\ rec'[t].stack = rec[t].stack
                     /\ rec'[t].delete_after = rec[t].delete_after
                     /\ rec'[t].exited = rec[t].exited
                     /\ rec'[t].exit_status = rec[t].exit_status
               /\ rec'[s].exited /\ rec'[s].state = "dormant" /\ ~rec'[s].live
               /\ rec'[s].exit_status = status /\ rec'[s].delete_after = delete
               /\ rec'[s].stack = IF delete THEN 0 ELSE rec[s].stack
<1> DEFINE s == me[h]
           r == Unwound(h)
           q == [r[s] EXCEPT !.exited = TRUE, !.state = "dormant", !.live = FALSE,
                             !.exit_status = status, !.delete_after = delete,
                             !.stack = IF delete THEN 0 ELSE @]
<1>1. s \in Record
  BY DEF Typed
<1>2. ASSUME NEW t \in Record
      PROVE  /\ r[t] \in RecordType
             /\ r[t].end_waiters = rec[t].end_waiters - PinsBy(h, t)
             /\ r[t].used = rec[t].used /\ r[t].uid = rec[t].uid
             /\ r[t].joinable = rec[t].joinable /\ r[t].host = rec[t].host
             /\ r[t].terminated = rec[t].terminated
             /\ r[t].state = rec[t].state /\ r[t].live = rec[t].live
             /\ r[t].stack = rec[t].stack
             /\ r[t].delete_after = rec[t].delete_after
             /\ r[t].exited = rec[t].exited
             /\ r[t].exit_status = rec[t].exit_status
  <2>1. r[t] = [rec[t] EXCEPT !.end_waiters = rec[t].end_waiters - PinsBy(h, t)]
    BY DEF Unwound
  <2>2. rec[t] \in RecordType
    BY DEF Typed
  <2>3. rec[t].end_waiters - PinsBy(h, t) \in Int
    BY <2>2, PinsByNat DEF RecordType
  <2> QED
    BY <2>1, <2>2, <2>3 DEF RecordType
<1>3. r = [t \in Record |-> r[t]]
  BY DEF Unwound
<1>4. rec' = [r EXCEPT ![s] = q]
  BY DEF Leave
<1> HIDE DEF r
<1>5. q \in RecordType
  <2> DEFINE stack == IF delete THEN 0 ELSE r[s].stack
  <2>1. r[s] \in RecordType
    BY <1>1, <1>2
  <2>2. stack \in 0..NStacks
    BY <2>1, Constants DEF RecordType
  <2> HIDE DEF stack, s
  <2>3. [r[s] EXCEPT !.exited = TRUE, !.state = "dormant", !.live = FALSE,
                     !.exit_status = status, !.delete_after = delete, !.stack = stack]
            \in RecordType
    BY <2>1, <2>2 DEF RecordType
  <2> QED
    BY <2>3 DEF stack
<1>6. rec' \in [Record -> RecordType] /\ rec'[s] = q /\ \A t \in Record : t # s => rec'[t] = r[t]
  <2> HIDE DEF q, s
  <2> QED
    BY <1>1, <1>2, <1>3, <1>4, <1>5
<1>7. /\ q.exited /\ q.state = "dormant" /\ ~q.live
      /\ q.exit_status = status /\ q.delete_after = delete
      /\ q.stack = (IF delete THEN 0 ELSE r[s].stack)
      /\ q.end_waiters = r[s].end_waiters
      /\ q.used = r[s].used /\ q.uid = r[s].uid
      /\ q.joinable = r[s].joinable /\ q.host = r[s].host
      /\ q.terminated = r[s].terminated
  BY <1>1, <1>2 DEF RecordType
<1> HIDE DEF q
<1> QED
  BY <1>1, <1>2, <1>6, <1>7

LEMMA CreateEffect ==
    ASSUME Typed, NEW h \in Host, CreateThread(h)
    PROVE  \/ rec' = Reaped /\ UNCHANGED <<nextUid, heap>>
           \/ \E s \in Slot :
                 /\ ~Reaped[s].used
                 /\ rec' \in [Record -> RecordType]
                 /\ \A t \in Record : t # s => rec'[t] = Reaped[t]
                 /\ \/ rec'[s] = Blank /\ UNCHANGED <<nextUid, heap>>
                    \/ \E b \in (1..NStacks) \ heap :
                          /\ nextUid <= MaxUid /\ nextUid' = nextUid + 1
                          /\ heap' = heap \cup {b}
                          /\ rec'[s] = [Blank EXCEPT !.used = TRUE, !.uid = nextUid, !.stack = b]
<1> DEFINE free == {s \in Slot : ~Reaped[s].used}
           room == (1..NStacks) \ heap
<1>1. CASE free = {}
  BY <1>1 DEF CreateThread
<1>2. CASE free # {}
  <2>1. free \in SUBSET Nat
    BY Constants DEF Slot
  <2>2. Min(free) \in free
    BY <1>2, <2>1, MinIsLeast
  <2>3. Min(free) \in Slot /\ ~Reaped[Min(free)].used /\ Min(free) \in Record
    BY <2>2, Places
  <2>4. Reaped \in [Record -> RecordType]
    BY ReapedRecords
  <2>5. ASSUME NEW r \in RecordType, rec' = [Reaped EXCEPT ![Min(free)] = r]
        PROVE  /\ rec' \in [Record -> RecordType] /\ rec'[Min(free)] = r
               /\ \A t \in Record : t # Min(free) => rec'[t] = Reaped[t]
    <3> HIDE DEF free
    <3> QED
      BY <2>3, <2>4, <2>5
  <2>6. CASE room = {}
    <3>1. rec' = [Reaped EXCEPT ![Min(free)] = Blank] /\ UNCHANGED <<nextUid, heap>>
      BY <1>2, <2>6 DEF CreateThread
    <3> QED
      BY <2>3, <2>5, <3>1, BlankTyped
  <2>7. CASE room # {}
    <3>1. room \in SUBSET (0..NStacks)
      BY Constants
    <3>2. Max(room) \in room
      BY <2>7, <3>1, Constants, MaxIsGreatest
    <3> DEFINE r == [Blank EXCEPT !.used = TRUE, !.uid = nextUid, !.stack = Max(room)]
    <3>3. /\ nextUid <= MaxUid /\ nextUid' = nextUid + 1 /\ heap' = heap \cup {Max(room)}
          /\ rec' = [Reaped EXCEPT ![Min(free)] = r]
      BY <1>2, <2>7 DEF CreateThread
    <3>4. r \in RecordType
      <4>1. nextUid \in -1..MaxUid /\ Max(room) \in 0..NStacks
        BY <3>1, <3>2, <3>3 DEF Typed
      <4> HIDE DEF room
      <4> QED
        BY <4>1, BlankTyped DEF RecordType
    <3>5. /\ rec' \in [Record -> RecordType] /\ rec'[Min(free)] = r
          /\ \A t \in Record : t # Min(free) => rec'[t] = Reaped[t]
      BY <2>5, <3>3, <3>4
    <3> HIDE DEF free
    <3> QED
      BY <2>3, <3>2, <3>3, <3>5
  <2> QED
    BY <2>6, <2>7
<1> QED
  BY <1>1, <1>2

(* The thread that a record is given to has none of the marks of the one before. *)
LEMMA CreatedFields ==
    ASSUME Typed, NEW b \in 0..NStacks, NEW u \in -1..MaxUid
    PROVE  LET r == [Blank EXCEPT !.used = TRUE, !.uid = u, !.stack = b]
           IN  /\ r.used /\ r.uid = u /\ r.stack = b /\ r.state = "dormant"
               /\ ~r.live /\ ~r.joinable /\ ~r.exited /\ ~r.terminated /\ ~r.delete_after
               /\ r.end_waiters = 0
BY BlankTyped DEF Blank

LEMMA NextTyped == ASSUME Typed, [Next]_vars PROVE Typed'
<1> USE Constants
<1>1. CASE UNCHANGED vars
  BY <1>1 DEF vars, Typed
<1>2. CASE Reset
  <2>1. rec' \in [Record -> RecordType]
    BY <1>2, BlankTyped DEF Reset
  <2> QED
    BY <1>2, <2>1, JoinedTyped DEF Reset, Typed
<1>3. ASSUME NEW h \in Host, CreateThread(h) PROVE Typed'
  <2>1. Reapable \in SUBSET Slot
    BY DEF Reapable
  <2>2. rec' \in [Record -> RecordType]
    BY <1>3, CreateEffect, ReapedRecords
  <2>3. nextUid' \in 1..MaxUid + 1 /\ heap' \subseteq 1..NStacks
    <3>1. \/ UNCHANGED <<nextUid, heap>>
          \/ \E b \in (1..NStacks) \ heap : /\ nextUid <= MaxUid /\ nextUid' = nextUid + 1
                                            /\ heap' = heap \cup {b}
      BY <1>3, CreateEffect
    <3>2. nextUid' \in 1..MaxUid + 1
      BY <3>1 DEF Typed
    <3>3. heap' \subseteq 1..NStacks
      <4>1. heap \subseteq 1..NStacks
        BY DEF Typed
      <4>2. CASE \E b \in (1..NStacks) \ heap : heap' = heap \cup {b}
        <5>1. PICK b \in (1..NStacks) \ heap : heap' = heap \cup {b}
          BY <4>2
        <5> QED
          BY <4>1, <5>1
      <4> QED
        BY <3>1, <4>1, <4>2
    <3> QED
      BY <3>2, <3>3
  <2> QED
    BY <1>3, <2>1, <2>2, <2>3, JoinedTyped DEF CreateThread, Typed
<1>4. ASSUME NEW h \in Host, NEW s \in Slot, StartThread(h, s) PROVE Typed'
  <2>1. NewHost(s) \in Host
    BY <1>4, StartEffect, Places DEF FreeHosts
  <2>2. Joined({s}) \in [Host -> {"none", "created", "cpu", "parked", "leaving", "ended"}]
    BY JoinedTyped
  <2>3. s \in Record /\ rec[s].uid \in -1..MaxUid
    BY Places, Fields
  <2> QED
    BY <1>4, <2>1, <2>2, <2>3, StartEffect DEF StartThread, Typed
<1>5. ASSUME NEW h \in Host, NEW s \in Slot, StartThreadFails(h, s) PROVE Typed'
  <2>1. rec' \in [Record -> RecordType]
    BY <1>5, StartFailsEffect
  <2>2. pc' \in [Host -> {"none", "created", "cpu", "parked", "leaving", "ended"}]
    BY <1>5, JoinedTyped DEF StartThreadFails
  <2> QED
    BY <1>5, <2>1, <2>2 DEF StartThreadFails, Typed
<1>6. ASSUME NEW h \in Host, FirstRun(h) PROVE Typed'
  <2>1. me[h] \in Record
    BY DEF Typed
  <2>2. rec' \in [Record -> RecordType]
    BY <1>6, <2>1, StateEffect DEF FirstRun
  <2> QED
    BY <1>6, <2>2 DEF FirstRun, Typed
<1>7. ASSUME NEW h \in Host, NEW status \in -1..MaxUid, NEW delete \in BOOLEAN,
             Leave(h, status, delete)
      PROVE  Typed'
  <2>1. rec' \in [Record -> RecordType]
    BY <1>7, LeaveEffect
  <2>2. heap' \subseteq 1..NStacks
    BY <1>7 DEF Leave, Typed
  <2>3. <<>> \in Seq(WaitType) /\ BootSlot \in Record
    BY Places
  <2> QED
    BY <1>7, <2>1, <2>2, <2>3 DEF Leave, Typed
<1>8. ASSUME NEW h \in Host PROVE /\ Killed \in -1..MaxUid /\ rec[me[h]].uid \in -1..MaxUid
                                  /\ rec[me[h]].delete_after \in BOOLEAN
  <2>1. Killed \in -1..MaxUid /\ me[h] \in Record
    BY DEF Killed, Typed
  <2> QED
    BY <2>1, Fields
<1>9. ASSUME NEW h \in Host, \/ FirstRunKilled(h) \/ ExitThread(h) \/ ExitDeleteThread(h)
                             \/ UnparkKilled(h)
      PROVE  Typed'
  BY <1>7, <1>8, <1>9 DEF FirstRunKilled, ExitThread, ExitDeleteThread, UnparkKilled
<1>10. ASSUME NEW h \in Host, HostEnds(h) \/ Park(h) \/ Unpark(h) PROVE Typed'
  BY <1>10 DEF HostEnds, Park, Unpark, Typed
<1>11. ASSUME NEW h \in Host, NEW s \in Slot, TerminateThread(h, s) PROVE Typed'
  BY <1>11, TerminateEffect, Places DEF TerminateThread, hostVars, Typed
<1>12. ASSUME NEW h \in Host, NEW s \in Slot, DeleteThread(h, s) PROVE Typed'
  <2>1. heap' \subseteq 1..NStacks
    BY <1>12 DEF DeleteThread, Typed
  <2>2. pc' \in [Host -> {"none", "created", "cpu", "parked", "leaving", "ended"}]
    BY <1>12, JoinedTyped DEF DeleteThread, Typed
  <2> QED
    BY <1>12, <2>1, <2>2, DeleteEffect DEF DeleteThread, Typed
<1>13. ASSUME NEW h \in Host, NEW s \in Slot, SuspendThread(h, s) \/ ResumeThread(h, s)
       PROVE  Typed'
  <2>1. rec' \in [Record -> RecordType]
    BY <1>13, StateEffect, Places DEF SuspendThread, ResumeThread, SetState
  <2> QED
    BY <1>13, <2>1 DEF SuspendThread, ResumeThread, SetState, hostVars, Typed
<1>14. ASSUME NEW h \in Host, NEW s \in Slot, NEW timed \in BOOLEAN, WaitThreadEnd(h, s, timed)
       PROVE  Typed'
  <2>1. s \in Record /\ rec[s].end_waiters + 1 \in Int /\ rec[s].uid \in -1..MaxUid
    BY Places, Fields
  <2>2. rec' \in [Record -> RecordType]
    BY <1>14, <2>1, PinEffect DEF WaitThreadEnd
  <2>3. [slot |-> s, uid |-> rec[s].uid, timed |-> timed] \in WaitType
    BY <2>1 DEF WaitType
  <2>4. endWaits' \in [Host -> Seq(WaitType)]
    BY <1>14, <2>3 DEF WaitThreadEnd, Typed
  <2> QED
    BY <1>14, <2>2, <2>4 DEF WaitThreadEnd, hostVars, Typed
<1>15. ASSUME NEW h \in Host, WaitReturns(h) \/ WaitTimesOut(h) PROVE Typed'
  <2>1. LetGo(h) /\ endWaits[h] # <<>> /\ endWaits[h] \in Seq(WaitType)
    BY <1>15 DEF WaitReturns, WaitTimesOut, Waiting, Typed
  <2>2. TopWait(h) \in WaitType /\ Len(endWaits[h]) \in Nat \ {0}
    BY <2>1 DEF TopWait
  <2>3. TopWait(h).slot \in Record
    BY <2>2, Places DEF WaitType
  <2>4. rec[TopWait(h).slot].end_waiters - 1 \in Int
    BY <2>3, Fields
  <2>5. rec' \in [Record -> RecordType]
    BY <2>1, <2>3, <2>4, PinEffect DEF LetGo
  <2>6. SubSeq(endWaits[h], 1, Len(endWaits[h]) - 1) \in Seq(WaitType)
    BY <2>1, <2>2
  <2> QED
    BY <2>1, <2>5, <2>6 DEF LetGo, hostVars, Typed
<1> QED
  BY <1>1, <1>2, <1>3, <1>4, <1>5, <1>6, <1>9, <1>10, <1>11, <1>12, <1>13, <1>14, <1>15 DEF Next

-----------------------------------------------------------------------------
(* Host threads and records.  Whoever holds the CPU is where it says it is. *)
CpuHeld == /\ cpu \in Host => pc[cpu] = "cpu"
           /\ \A h \in Host : pc[h] = "cpu" => cpu = h
           /\ pc[Boot] \in {"cpu", "parked"} /\ me[Boot] = BootSlot

(* A host thread that runs guest code and its record know each other. *)
HostHasRecord == \A h \in Guests : Carries(h) =>
                     /\ me[h] \in Slot
                     /\ rec[me[h]].live /\ rec[me[h]].host = h /\ rec[me[h]].uid = hostUid[h]

LiveHasHost == \A s \in Slot : rec[s].live =>
                   /\ rec[s].used /\ rec[s].joinable
                   /\ Carries(rec[s].host) /\ me[rec[s].host] = s

(* What is left to join has left the guest, and is joined by one record. *)
JoinableLeft == \A s \in Slot : rec[s].joinable =>
                    /\ rec[s].used /\ rec[s].host \in Guests
                    /\ ~rec[s].live => pc[rec[s].host] \in {"leaving", "ended"}

(* What has left the guest and was not joined can still be joined. *)
LeftHeld == \A h \in Guests : Left(h) => \E s \in Slot : rec[s].joinable /\ rec[s].host = h

HostsApart == \A s, t \in Slot : rec[s].joinable /\ rec[t].joinable /\ rec[s].host = rec[t].host
                                 => s = t

RunnerSpared == cpu \in Guests => ~rec[me[cpu]].terminated

HostInv == /\ Typed
           /\ CpuHeld /\ HostHasRecord /\ LiveHasHost /\ JoinableLeft /\ HostsApart
           /\ LeftHeld /\ RunnerSpared

LEMMA InitHostInv == Init => HostInv
<1> SUFFICES ASSUME Init PROVE HostInv
  OBVIOUS
<1>1. \A s \in Slot : rec[s] = Blank
  BY Places DEF Init
<1>2. ~Blank.live /\ ~Blank.joinable
  BY DEF Blank
<1>3. \A h \in Guests : pc[h] = "none"
  BY Places DEF Init
<1>4. cpu = Boot /\ pc[Boot] = "cpu" /\ me[Boot] = BootSlot
  BY Places DEF Init
<1>5. CpuHeld
  BY <1>3, <1>4, Places DEF CpuHeld
<1> QED
  BY <1>1, <1>2, <1>3, <1>4, <1>5, InitTyped, Places
     DEF HostInv, HostHasRecord, LiveHasHost, JoinableLeft, HostsApart, LeftHeld, RunnerSpared,
         Carries, Left

(* host_thread_join of dormant records: only host threads that have left are gone, and
   no other record's host thread is among them. *)
LEMMA JoinedHosts ==
    ASSUME HostInv, NEW S \in SUBSET Slot, \A s \in S : ~rec[s].live
    PROVE  /\ \A h \in Host : \/ Joined(S)[h] = pc[h]
                              \/ Joined(S)[h] = "none" /\ pc[h] \in {"leaving", "ended"}
           /\ \A t \in Slot : t \notin S /\ rec[t].joinable =>
                                  Joined(S)[rec[t].host] = pc[rec[t].host]
<1>1. ASSUME NEW h \in Host, NEW s \in S, rec[s].joinable, rec[s].host = h
      PROVE  pc[h] \in {"leaving", "ended"}
  BY <1>1 DEF HostInv, JoinableLeft
<1>2. \A h \in Host : \/ Joined(S)[h] = pc[h]
                      \/ Joined(S)[h] = "none" /\ pc[h] \in {"leaving", "ended"}
  BY <1>1 DEF Joined
<1>3. ASSUME NEW t \in Slot, t \notin S, rec[t].joinable
      PROVE  Joined(S)[rec[t].host] = pc[rec[t].host]
  <2>1. rec[t].host \in Host
    BY <1>3, Places DEF HostInv, JoinableLeft
  <2>2. ~ \E s \in S : rec[s].joinable /\ rec[s].host = rec[t].host
    BY <1>3 DEF HostInv, HostsApart
  <2> QED
    BY <2>1, <2>2 DEF Joined
<1> QED
  BY <1>2, <1>3

(* A call that leaves the host threads and what the records say of them alone. *)
LEMMA HostsUntouched ==
    ASSUME HostInv, Typed', UNCHANGED <<cpu, pc, me, hostUid>>,
           \A s \in Record : /\ rec'[s].used = rec[s].used /\ rec'[s].uid = rec[s].uid
                             /\ rec'[s].live = rec[s].live /\ rec'[s].joinable = rec[s].joinable
                             /\ rec'[s].host = rec[s].host,
           RunnerSpared'
    PROVE  HostInv'
<1>1. \A s \in Slot : s \in Record
  BY Places
<1>2. CpuHeld'
  BY DEF HostInv, CpuHeld
<1>3. HostHasRecord'
  BY <1>1 DEF HostInv, HostHasRecord, Carries
<1>4. LiveHasHost' /\ JoinableLeft'
  BY <1>1 DEF HostInv, LiveHasHost, JoinableLeft, Carries
<1>5. HostsApart' /\ LeftHeld'
  BY <1>1 DEF HostInv, HostsApart, LeftHeld, Left
<1> QED
  BY <1>2, <1>3, <1>4, <1>5 DEF HostInv

(* The calls that only join: the host threads that carry a record are not touched, the
   records that change have none. *)
LEMMA OnlyJoined ==
    ASSUME HostInv, Typed', NEW S \in SUBSET Slot, \A s \in S : ~rec[s].live,
           pc' = Joined(S), UNCHANGED <<cpu, me, hostUid>>,
           \A s \in Slot : \/ rec'[s] = rec[s] /\ s \notin S
                           \/ /\ ~rec[s].live /\ ~rec'[s].live /\ ~rec'[s].joinable
                              /\ s \in S \/ ~rec[s].joinable
    PROVE  HostInv'
<1>1. /\ \A h \in Host : \/ pc'[h] = pc[h]
                         \/ pc'[h] = "none" /\ pc[h] \in {"leaving", "ended"}
      /\ \A t \in Slot : t \notin S /\ rec[t].joinable => pc'[rec[t].host] = pc[rec[t].host]
  BY JoinedHosts
<1>2. \A h \in Host : Carries(h)' => Carries(h) /\ pc'[h] = pc[h]
  BY <1>1 DEF Carries
<1>3. \A h \in Host : Carries(h) => Carries(h)'
  BY <1>1 DEF Carries
<1>4. CpuHeld'
  BY <1>1, Places DEF HostInv, CpuHeld
<1>5. ASSUME NEW s \in Slot, rec[s].live
      PROVE  rec'[s] = rec[s] /\ s \notin S
  BY <1>5
<1>6. HostHasRecord'
  BY <1>2, <1>5, Places DEF HostInv, HostHasRecord
<1>7. LiveHasHost'
  <2> SUFFICES ASSUME NEW s \in Slot, rec'[s].live
               PROVE  /\ rec'[s].used /\ rec'[s].joinable
                      /\ Carries(rec[s].host)' /\ me'[rec'[s].host] = s
    BY DEF LiveHasHost
  <2>1. rec'[s] = rec[s] /\ s \notin S
    OBVIOUS
  <2>2. rec[s].host \in Host
    BY <2>1, Places DEF HostInv, LiveHasHost, JoinableLeft
  <2>3. Carries(rec[s].host) /\ me[rec[s].host] = s /\ rec[s].used /\ rec[s].joinable
    BY <2>1 DEF HostInv, LiveHasHost
  <2>4. pc'[rec'[s].host] = pc[rec[s].host]
    BY <1>1, <2>1, <2>2, <2>3 DEF Carries
  <2> QED
    BY <2>1, <2>3, <2>4 DEF Carries
<1>8. JoinableLeft'
  BY <1>1 DEF HostInv, JoinableLeft
<1>9. HostsApart'
  BY DEF HostInv, HostsApart
<1>10. RunnerSpared'
  <2>1. ASSUME cpu \in Guests PROVE me[cpu] \in Slot /\ rec[me[cpu]].live
    BY <2>1, Places DEF HostInv, CpuHeld, HostHasRecord, Carries
  <2> QED
    BY <1>5, <2>1 DEF HostInv, RunnerSpared
<1>11. LeftHeld'
  <2> SUFFICES ASSUME NEW g \in Guests, Left(g)'
               PROVE  \E s \in Slot : rec'[s].joinable /\ rec'[s].host = g
    BY DEF LeftHeld
  <2>1. g \in Host /\ pc'[g] # "none" /\ Left(g)
    BY <1>1, Places DEF Left
  <2>2. PICK s \in Slot : rec[s].joinable /\ rec[s].host = g
    BY <2>1 DEF HostInv, LeftHeld
  <2>3. s \notin S
    BY <2>1, <2>2 DEF Joined
  <2> QED
    BY <2>2, <2>3
<1> QED
  BY <1>4, <1>6, <1>7, <1>8, <1>9, <1>10, <1>11 DEF HostInv

(* The thread on the CPU, unless it is the boot thread, has a live record that nobody
   has asked to end. *)
LEMMA RunnerRecord ==
    ASSUME HostInv, NEW h \in Guests, Carries(h)
    PROVE  /\ me[h] \in Slot /\ me[h] \in Record
           /\ rec[me[h]].used /\ rec[me[h]].live /\ rec[me[h]].joinable /\ rec[me[h]].host = h
BY Places DEF HostInv, HostHasRecord, LiveHasHost

(* hle_StartThread: the host thread it creates is nobody's yet. *)
LEMMA StartHostInv ==
    ASSUME HostInv, Typed', NEW h \in Host, NEW s \in Slot, StartThread(h, s)
    PROVE  HostInv'
<1> DEFINE n == NewHost(s)
<1>1. /\ n \in FreeHosts(s) /\ Others(s)
      /\ rec'[s].joinable /\ rec'[s].live /\ rec'[s].host = n /\ ~rec'[s].terminated
      /\ rec'[s].used = rec[s].used /\ rec'[s].uid = rec[s].uid
  BY StartEffect DEF HostInv
<1>2. n \in Guests /\ n \in Host /\ Joined({s})[n] = "none" /\ n # Boot
  BY <1>1, Places DEF FreeHosts
<1>3. cpu = h /\ rec[s].used /\ ~rec[s].live
  BY DEF StartThread, MayStart
<1>4. /\ \A g \in Host : \/ Joined({s})[g] = pc[g]
                         \/ Joined({s})[g] = "none" /\ pc[g] \in {"leaving", "ended"}
      /\ \A t \in Slot : t # s /\ rec[t].joinable => Joined({s})[rec[t].host] = pc[rec[t].host]
  <2>1. {s} \in SUBSET Slot /\ \A t \in {s} : ~rec[t].live
    BY <1>3
  <2> QED
    BY <2>1, JoinedHosts
<1> HIDE DEF n
<1>5. /\ pc'[n] = "created" /\ me'[n] = s /\ hostUid'[n] = rec[s].uid /\ cpu' = cpu
      /\ \A g \in Host : g # n => /\ pc'[g] = Joined({s})[g]
                                  /\ me'[g] = me[g] /\ hostUid'[g] = hostUid[g]
  <2>1. /\ pc' = [Joined({s}) EXCEPT ![n] = "created"]
        /\ me' = [me EXCEPT ![n] = s]
        /\ hostUid' = [hostUid EXCEPT ![n] = rec[s].uid]
        /\ cpu' = cpu
    BY DEF StartThread, n
  <2>2. Joined({s}) \in [Host -> {"none", "created", "cpu", "parked", "leaving", "ended"}]
    BY JoinedTyped DEF HostInv
  <2> QED
    BY <1>2, <2>1, <2>2 DEF HostInv, Typed
<1>6. pc[n] \in {"none", "leaving", "ended"}
  BY <1>2, <1>4
<1>7. \A t \in Slot : t # s => rec'[t] = rec[t]
  BY <1>1, Places DEF Others
<1>8. \A t \in Slot : t # s /\ rec[t].joinable =>
          /\ rec[t].host # n /\ rec[t].host \in Host /\ pc'[rec[t].host] = pc[rec[t].host]
  <2> SUFFICES ASSUME NEW t \in Slot, t # s, rec[t].joinable
               PROVE  /\ rec[t].host # n /\ rec[t].host \in Host
                      /\ pc'[rec[t].host] = pc[rec[t].host]
    OBVIOUS
  <2>1. rec[t].host \in Host
    BY Places DEF HostInv, JoinableLeft
  <2>2. pc[rec[t].host] # "none"
    BY DEF HostInv, JoinableLeft, LiveHasHost, Carries
  <2>3. Joined({s})[rec[t].host] # "none"
    BY <1>4, <2>2
  <2>4. rec[t].host # n
    BY <1>2, <2>3
  <2> QED
    BY <1>4, <1>5, <2>1, <2>4
<1>9. CpuHeld'
  <2>1. \A g \in Host : pc[g] \in {"cpu", "parked"} => g # n /\ pc'[g] = pc[g] /\ me'[g] = me[g]
    BY <1>4, <1>5, <1>6
  <2>2. \A g \in Host : pc'[g] = "cpu" => pc[g] = "cpu"
    BY <1>4, <1>5
  <2> QED
    BY <1>5, <2>1, <2>2, Places DEF HostInv, CpuHeld
<1>10. HostHasRecord'
  <2> SUFFICES ASSUME NEW g \in Guests, Carries(g)'
               PROVE  /\ me'[g] \in Slot
                      /\ rec'[me'[g]].live /\ rec'[me'[g]].host = g
                      /\ rec'[me'[g]].uid = hostUid'[g]
    BY DEF HostHasRecord
  <2>1. CASE g = n
    BY <1>1, <1>5, <2>1
  <2>2. CASE g # n
    <3>1. Carries(g) /\ me'[g] = me[g] /\ hostUid'[g] = hostUid[g]
      BY <1>4, <1>5, <2>2, Places DEF Carries
    <3>2. me[g] \in Slot /\ rec[me[g]].live /\ rec[me[g]].host = g /\ rec[me[g]].uid = hostUid[g]
      BY <3>1 DEF HostInv, HostHasRecord
    <3>3. me[g] # s
      BY <1>3, <3>2
    <3> QED
      BY <1>7, <3>1, <3>2, <3>3
  <2> QED
    BY <2>1, <2>2
<1>11. LiveHasHost'
  <2> SUFFICES ASSUME NEW t \in Slot, rec'[t].live
               PROVE  /\ rec'[t].used /\ rec'[t].joinable
                      /\ Carries(rec[t].host)' /\ me'[rec'[t].host] = t
    BY DEF LiveHasHost
  <2>1. CASE t = s
    BY <1>1, <1>3, <1>5, <2>1 DEF Carries
  <2>2. CASE t # s
    <3>1. /\ rec[t].used /\ rec[t].joinable /\ Carries(rec[t].host) /\ me[rec[t].host] = t
          /\ rec'[t] = rec[t]
      BY <1>7, <2>2 DEF HostInv, LiveHasHost
    <3>2. rec[t].host # n /\ rec[t].host \in Host /\ pc'[rec[t].host] = pc[rec[t].host]
      BY <1>8, <2>2, <3>1
    <3>3. me'[rec[t].host] = t
      BY <1>5, <3>1, <3>2
    <3> QED
      BY <3>1, <3>2, <3>3 DEF Carries
  <2> QED
    BY <2>1, <2>2
<1>12. JoinableLeft'
  <2> SUFFICES ASSUME NEW t \in Slot, rec'[t].joinable
               PROVE  /\ rec'[t].used /\ rec'[t].host \in Guests
                      /\ ~rec'[t].live => pc'[rec'[t].host] \in {"leaving", "ended"}
    BY DEF JoinableLeft
  <2>1. CASE t = s
    BY <1>1, <1>2, <1>3, <2>1
  <2>2. CASE t # s
    BY <1>7, <1>8, <2>2 DEF HostInv, JoinableLeft
  <2> QED
    BY <2>1, <2>2
<1>13. HostsApart'
  <2> SUFFICES ASSUME NEW t \in Slot, NEW u \in Slot, rec'[t].joinable, rec'[u].joinable,
                      rec'[t].host = rec'[u].host
               PROVE  t = u
    BY DEF HostsApart
  <2>1. CASE t # s /\ u # s
    BY <1>7, <2>1 DEF HostInv, HostsApart
  <2>2. CASE t = s \/ u = s
    BY <1>1, <1>7, <1>8, <2>2
  <2> QED
    BY <2>1, <2>2
<1>14. RunnerSpared'
  <2> SUFFICES ASSUME h \in Guests PROVE ~rec'[me'[h]].terminated
    BY <1>3, <1>5 DEF RunnerSpared
  <2>1. pc[h] = "cpu"
    BY <1>3, Places DEF HostInv, CpuHeld
  <2>2. h # n /\ h \in Host
    BY <1>6, <2>1, Places
  <2>3. me[h] \in Slot /\ rec[me[h]].live
    BY <2>1 DEF HostInv, HostHasRecord, Carries
  <2>4. me[h] # s /\ me'[h] = me[h]
    BY <1>3, <1>5, <2>2, <2>3
  <2> QED
    BY <1>3, <1>7, <2>3, <2>4 DEF HostInv, RunnerSpared
<1>15. LeftHeld'
  <2> SUFFICES ASSUME NEW g \in Guests, Left(g)'
               PROVE  \E t \in Slot : rec'[t].joinable /\ rec'[t].host = g
    BY DEF LeftHeld
  <2>1. g \in Host /\ g # n
    BY <1>5, Places DEF Left
  <2>2. Left(g) /\ Joined({s})[g] # "none"
    BY <1>4, <1>5, <2>1 DEF Left
  <2>3. PICK t \in Slot : rec[t].joinable /\ rec[t].host = g
    BY <2>2 DEF HostInv, LeftHeld
  <2>4. t # s
    BY <2>1, <2>2, <2>3 DEF Joined
  <2> QED
    BY <1>7, <2>3, <2>4
<1> QED
  BY <1>9, <1>10, <1>11, <1>12, <1>13, <1>14, <1>15 DEF HostInv

(* thread_unwind: the host thread gives its record up and leaves. *)
LEMMA LeaveHostInv ==
    ASSUME HostInv, Typed', NEW h \in Guests, Carries(h), cpu \in {h, NoHost},
           NEW status \in -1..MaxUid, NEW delete \in BOOLEAN, Leave(h, status, delete)
    PROVE  HostInv'
<1> DEFINE s == me[h]
<1>1. s \in Slot /\ s \in Record /\ rec[s].used /\ rec[s].joinable /\ rec[s].host = h
  BY RunnerRecord
<1>2. h \in Host /\ h # Boot
  BY Places
<1>3. /\ \A t \in Record : /\ rec'[t].used = rec[t].used /\ rec'[t].uid = rec[t].uid
                           /\ rec'[t].joinable = rec[t].joinable /\ rec'[t].host = rec[t].host
                           /\ rec'[t].terminated = rec[t].terminated
      /\ \A t \in Record : t # s => rec'[t].live = rec[t].live
      /\ ~rec'[s].live
  <2>1. Typed
    BY DEF HostInv
  <2> QED
    BY <1>2, <2>1, LeaveEffect
<1>4. /\ pc'[h] = "leaving" /\ cpu' = NoHost
      /\ \A g \in Host : g # h => /\ pc'[g] = pc[g] /\ me'[g] = me[g]
                                  /\ hostUid'[g] = hostUid[g]
  BY <1>2 DEF Leave, HostInv, Typed
<1>5. \A t \in Slot : t \in Record
  BY Places
<1>6. \A t \in Slot : t # s /\ rec[t].joinable => rec[t].host # h /\ rec[t].host \in Host
  BY <1>1, Places DEF HostInv, HostsApart, JoinableLeft
<1> HIDE DEF s
<1>7. CpuHeld'
  BY <1>2, <1>4, Places DEF HostInv, CpuHeld
<1>8. HostHasRecord'
  <2> SUFFICES ASSUME NEW g \in Guests, Carries(g)'
               PROVE  /\ me'[g] \in Slot
                      /\ rec'[me'[g]].live /\ rec'[me'[g]].host = g
                      /\ rec'[me'[g]].uid = hostUid'[g]
    BY DEF HostHasRecord
  <2>1. g # h /\ g \in Host
    BY <1>4, Places DEF Carries
  <2>2. Carries(g)
    BY <1>4, <2>1 DEF Carries
  <2>3. me[g] \in Slot /\ rec[me[g]].live /\ rec[me[g]].host = g /\ rec[me[g]].uid = hostUid[g]
    BY <2>2 DEF HostInv, HostHasRecord
  <2>4. me[g] # s
    BY <1>1, <2>1, <2>3
  <2> QED
    BY <1>3, <1>4, <1>5, <2>1, <2>3, <2>4
<1>9. LiveHasHost'
  <2> SUFFICES ASSUME NEW t \in Slot, rec'[t].live
               PROVE  /\ rec'[t].used /\ rec'[t].joinable
                      /\ Carries(rec[t].host)' /\ me'[rec'[t].host] = t
    BY DEF LiveHasHost
  <2>1. t # s /\ rec[t].live
    BY <1>3, <1>5
  <2>2. rec[t].used /\ rec[t].joinable /\ Carries(rec[t].host) /\ me[rec[t].host] = t
    BY <2>1 DEF HostInv, LiveHasHost
  <2>3. rec[t].host # h /\ rec[t].host \in Host
    BY <1>6, <2>1, <2>2
  <2> QED
    BY <1>3, <1>4, <1>5, <2>2, <2>3 DEF Carries
<1>10. JoinableLeft'
  <2> SUFFICES ASSUME NEW t \in Slot, rec'[t].joinable
               PROVE  /\ rec'[t].used /\ rec'[t].host \in Guests
                      /\ ~rec'[t].live => pc'[rec'[t].host] \in {"leaving", "ended"}
    BY DEF JoinableLeft
  <2>1. CASE t = s
    BY <1>1, <1>3, <1>4, <2>1
  <2>2. CASE t # s
    BY <1>3, <1>4, <1>5, <1>6, <2>2 DEF HostInv, JoinableLeft
  <2> QED
    BY <2>1, <2>2
<1>11. HostsApart'
  BY <1>3, <1>5 DEF HostInv, HostsApart
<1>12. RunnerSpared'
  BY <1>4, Places DEF RunnerSpared
<1>13. LeftHeld'
  <2> SUFFICES ASSUME NEW g \in Guests, Left(g)'
               PROVE  \E t \in Slot : rec'[t].joinable /\ rec'[t].host = g
    BY DEF LeftHeld
  <2>1. CASE g = h
    BY <1>1, <1>3, <2>1
  <2>2. CASE g # h
    <3>1. Left(g)
      BY <1>4, <2>2, Places DEF Left
    <3>2. PICK t \in Slot : rec[t].joinable /\ rec[t].host = g
      BY <3>1 DEF HostInv, LeftHeld
    <3> QED
      BY <1>3, <1>5, <3>2
  <2> QED
    BY <2>1, <2>2
<1> QED
  BY <1>7, <1>8, <1>9, <1>10, <1>11, <1>12, <1>13 DEF HostInv

LEMMA NextHostInv == ASSUME HostInv, [Next]_vars PROVE HostInv'
<1> USE Places
<1>1. Typed /\ Typed'
  BY NextTyped DEF HostInv
<1>2. ASSUME NEW h \in Guests, cpu = h PROVE Carries(h) /\ pc[h] = "cpu"
  BY <1>2 DEF HostInv, CpuHeld, Carries
<1>4. CASE UNCHANGED vars
  BY <1>1, <1>4 DEF vars, HostInv, CpuHeld, HostHasRecord, LiveHasHost, JoinableLeft, HostsApart,
                    LeftHeld, RunnerSpared, Carries, Left
<1>5. CASE Reset
  <2>1. \A s \in Slot : ~rec[s].live /\ rec'[s] = Blank
    BY <1>5 DEF Reset
  <2>2. \A s \in Slot : ~rec'[s].live /\ ~rec'[s].joinable
    BY <2>1 DEF Blank
  <2>3. pc' = Joined(Slot) /\ UNCHANGED <<cpu, me, hostUid>>
    BY <1>5 DEF Reset
  <2> QED
    BY <1>1, <2>1, <2>2, <2>3, OnlyJoined
<1>6. ASSUME NEW h \in Host, CreateThread(h) PROVE HostInv'
  <2>1. Reapable \in SUBSET Slot /\ \A s \in Reapable : ~rec[s].live
    BY DEF Reapable
  <2>2. ASSUME NEW s \in Slot
        PROVE  /\ s \in Record
               /\ s \notin Reapable => Reaped[s] = rec[s]
               /\ s \in Reapable => ~Reaped[s].live /\ ~Reaped[s].joinable
    BY <1>1, <2>1, ReapedRecords
  <2>3. ASSUME NEW s \in Slot, ~Reaped[s].used
        PROVE  ~rec[s].live /\ (s \in Reapable \/ ~rec[s].joinable)
    BY <2>1, <2>2, <2>3 DEF HostInv, LiveHasHost, JoinableLeft
  <2>4. ASSUME NEW s \in Slot
        PROVE  \/ rec'[s] = rec[s] /\ s \notin Reapable
               \/ /\ ~rec[s].live /\ ~rec'[s].live /\ ~rec'[s].joinable
                  /\ s \in Reapable \/ ~rec[s].joinable
    <3>1. CASE rec'[s] = Reaped[s]
      BY <2>1, <2>2, <3>1
    <3>2. CASE ~Reaped[s].used /\ rec'[s] = Blank
      BY <2>3, <3>2 DEF Blank
    <3>3. ASSUME ~Reaped[s].used, NEW b \in (1..NStacks) \ heap, nextUid <= MaxUid,
                 rec'[s] = [Blank EXCEPT !.used = TRUE, !.uid = nextUid, !.stack = b]
          PROVE  ~rec'[s].live /\ ~rec'[s].joinable
      <4>1. b \in 0..NStacks
        BY Constants
      <4>2. nextUid \in -1..MaxUid
        <5>1. nextUid \in 1..MaxUid + 1
          BY <1>1 DEF Typed
        <5> QED
          BY <3>3, <5>1, Constants
      <4> QED
        BY <1>1, <3>3, <4>1, <4>2, CreatedFields
    <3> QED
      BY <1>1, <1>6, <2>2, <2>3, <3>1, <3>2, <3>3, CreateEffect
  <2>5. pc' = Joined(Reapable) /\ UNCHANGED <<cpu, me, hostUid>>
    BY <1>6 DEF CreateThread
  <2> QED
    BY <1>1, <2>1, <2>4, <2>5, OnlyJoined
<1>7. ASSUME NEW h \in Host, NEW s \in Slot, StartThread(h, s) PROVE HostInv'
  BY <1>1, <1>7, StartHostInv
<1>8. ASSUME NEW h \in Host, NEW s \in Slot, StartThreadFails(h, s) PROVE HostInv'
  <2>1. /\ ~rec[s].live /\ ~rec'[s].live /\ ~rec'[s].joinable
        /\ \A t \in Slot : t # s => rec'[t] = rec[t]
    BY <1>1, <1>8, StartFailsEffect DEF StartThreadFails, MayStart, Others
  <2>2. {s} \in SUBSET Slot /\ \A t \in {s} : ~rec[t].live
    BY <2>1
  <2>3. pc' = Joined({s}) /\ UNCHANGED <<cpu, me, hostUid>>
    BY <1>8 DEF StartThreadFails
  <2> QED
    BY <1>1, <2>1, <2>2, <2>3, OnlyJoined
<1>9. ASSUME NEW h \in Host, HostEnds(h) \/ Park(h) \/ Unpark(h) \/ FirstRun(h) PROVE HostInv'
  <2>1. me[h] \in Record
    BY <1>1 DEF Typed
  <2>2. /\ UNCHANGED <<me, hostUid>>
        /\ \A t \in Record : /\ rec'[t].used = rec[t].used /\ rec'[t].uid = rec[t].uid
                             /\ rec'[t].live = rec[t].live /\ rec'[t].joinable = rec[t].joinable
                             /\ rec'[t].host = rec[t].host
                             /\ rec'[t].terminated = rec[t].terminated
    BY <1>1, <1>9, <2>1, StateEffect DEF HostEnds, Park, Unpark, FirstRun, Others
  <2>3. \A g \in Host : g # h => pc'[g] = pc[g]
    BY <1>1, <1>9 DEF HostEnds, Park, Unpark, FirstRun, Typed
  <2>4. \/ pc[h] = "leaving" /\ pc'[h] = "ended" /\ cpu' = cpu
        \/ pc[h] = "cpu" /\ pc'[h] = "parked" /\ cpu = h /\ cpu' = NoHost
        \/ /\ pc[h] \in {"created", "parked"} /\ pc'[h] = "cpu" /\ cpu = NoHost /\ cpu' = h
           /\ h = Boot \/ ~rec[me[h]].terminated
    BY <1>1, <1>9 DEF HostEnds, Park, Unpark, FirstRun, Typed, HostInv, CpuHeld
  <2>5. \A g \in Host : Carries(g)' = Carries(g)
    BY <2>3, <2>4 DEF Carries
  <2>6. CpuHeld'
    BY <2>2, <2>3, <2>4 DEF HostInv, CpuHeld
  <2>7. HostHasRecord'
    BY <2>2, <2>5 DEF HostInv, HostHasRecord
  <2>8. LiveHasHost'
    <3> SUFFICES ASSUME NEW t \in Slot, rec'[t].live
                 PROVE  /\ rec'[t].used /\ rec'[t].joinable
                        /\ Carries(rec[t].host)' /\ me'[rec'[t].host] = t
      BY DEF LiveHasHost
    <3>1. rec[t].used /\ rec[t].joinable /\ Carries(rec[t].host) /\ me[rec[t].host] = t
      BY <2>2 DEF HostInv, LiveHasHost
    <3>2. rec[t].host \in Host /\ rec'[t].host = rec[t].host
      BY <2>2, <3>1 DEF HostInv, JoinableLeft
    <3>3. pc'[rec[t].host] \in {"created", "cpu", "parked"}
      BY <2>5, <3>1, <3>2 DEF Carries
    <3> QED
      BY <2>2, <3>1, <3>2, <3>3 DEF Carries
  <2>9. JoinableLeft'
    <3>1. \A g \in Host : pc[g] \in {"leaving", "ended"} => pc'[g] \in {"leaving", "ended"}
      BY <2>3, <2>4
    <3> QED
      BY <2>2, <3>1 DEF HostInv, JoinableLeft
  <2>10. HostsApart'
    BY <2>2 DEF HostInv, HostsApart
  <2>11. RunnerSpared'
    BY <1>1, <2>2, <2>4 DEF HostInv, RunnerSpared, Typed
  <2>12. LeftHeld'
    <3>1. \A g \in Guests : Left(g)' => Left(g)
      BY <2>3, <2>4, Places DEF Left
    <3> QED
      BY <2>2, <3>1 DEF HostInv, LeftHeld
  <2> QED
    BY <1>1, <2>6, <2>7, <2>8, <2>9, <2>10, <2>11, <2>12 DEF HostInv
<1>10. ASSUME NEW h \in Host, \/ FirstRunKilled(h) \/ ExitThread(h) \/ ExitDeleteThread(h)
                              \/ UnparkKilled(h)
       PROVE  HostInv'
  <2>1. h \in Guests /\ Carries(h) /\ cpu \in {h, NoHost}
    BY <1>2, <1>10 DEF FirstRunKilled, ExitThread, ExitDeleteThread, UnparkKilled, Carries,
                       HostInv, CpuHeld
  <2>2. /\ Killed \in -1..MaxUid /\ rec[me[h]].uid \in -1..MaxUid
        /\ rec[me[h]].delete_after \in BOOLEAN
    BY <1>1, <2>1, Fields, RunnerRecord, Constants DEF Killed
  <2> QED
    BY <1>1, <1>10, <2>1, <2>2, LeaveHostInv
       DEF FirstRunKilled, ExitThread, ExitDeleteThread, UnparkKilled
<1>11. ASSUME NEW h \in Host, NEW s \in Slot, TerminateThread(h, s) PROVE HostInv'
  <2>1. /\ Others(s)
        /\ rec'[s].used = rec[s].used /\ rec'[s].uid = rec[s].uid
        /\ rec'[s].live = rec[s].live /\ rec'[s].joinable = rec[s].joinable
        /\ rec'[s].host = rec[s].host
    BY <1>1, <1>11, TerminateEffect DEF TerminateThread
  <2>2. cpu = h /\ s # me[h] /\ UNCHANGED <<cpu, pc, me, hostUid>>
    BY <1>11 DEF TerminateThread, hostVars
  <2>3. RunnerSpared'
    <3>1. ASSUME h \in Guests PROVE me[h] \in Slot /\ rec'[me[h]] = rec[me[h]]
      BY <1>2, <2>1, <2>2, <3>1 DEF HostInv, HostHasRecord, Others
    <3> QED
      BY <2>2, <3>1 DEF HostInv, RunnerSpared
  <2> QED
    BY <1>1, <2>1, <2>2, <2>3, HostsUntouched DEF Others
<1>12. ASSUME NEW h \in Host, NEW s \in Slot, DeleteThread(h, s) PROVE HostInv'
  <2>1. /\ Others(s)
        /\ rec'[s].joinable = (rec[s].joinable /\ rec[s].live)
        /\ rec'[s].used = rec[s].live /\ rec'[s].uid = rec[s].uid
        /\ rec'[s].live = rec[s].live
        /\ rec'[s].host = rec[s].host /\ rec'[s].terminated = rec[s].terminated
    BY <1>1, <1>12, DeleteEffect
  <2>2. UNCHANGED <<cpu, me, hostUid>> /\ pc' = IF rec[s].live THEN pc ELSE Joined({s})
    BY <1>12 DEF DeleteThread
  <2>3. CASE rec[s].live
    <3>1. rec[s].used /\ rec[s].joinable /\ rec'[s].used /\ rec'[s].joinable
      BY <2>1, <2>3 DEF HostInv, LiveHasHost
    <3>2. rec'[s].used = rec[s].used /\ rec'[s].joinable = rec[s].joinable
      <4>1. /\ rec[s].used \in BOOLEAN /\ rec[s].joinable \in BOOLEAN
            /\ rec[s].live \in BOOLEAN
        BY <1>1, Fields
      <4> QED
        BY <2>1, <3>1, <4>1
    <3>3. RunnerSpared'
      BY <1>1, <2>1, <2>2 DEF HostInv, RunnerSpared, Others, Typed
    <3> QED
      BY <1>1, <2>1, <2>2, <2>3, <3>2, <3>3, HostsUntouched DEF Others
  <2>4. CASE ~rec[s].live
    <3>1. {s} \in SUBSET Slot /\ (\A t \in {s} : ~rec[t].live) /\ pc' = Joined({s})
      BY <2>2, <2>4
    <3>2. ~rec'[s].live /\ ~rec'[s].joinable
      BY <2>1, <2>4
    <3> QED
      BY <1>1, <2>1, <2>2, <2>4, <3>1, <3>2, OnlyJoined DEF Others
  <2> QED
    BY <2>3, <2>4
<1>13. ASSUME NEW h \in Host, NEW s \in Record, NEW n \in Int,
              NEW state \in {"ready", "running", "suspended"},
              \/ rec' = [rec EXCEPT ![s].state = state]
              \/ rec' = [rec EXCEPT ![s].end_waiters = n],
              UNCHANGED <<cpu, pc, me, hostUid>>
       PROVE  HostInv'
  <2>1. /\ Others(s)
        /\ rec'[s].used = rec[s].used /\ rec'[s].uid = rec[s].uid
        /\ rec'[s].live = rec[s].live /\ rec'[s].joinable = rec[s].joinable
        /\ rec'[s].host = rec[s].host /\ rec'[s].terminated = rec[s].terminated
    BY <1>1, <1>13, StateEffect, PinEffect
  <2>2. RunnerSpared'
    BY <1>1, <1>13, <2>1 DEF HostInv, RunnerSpared, Others, Typed
  <2> QED
    BY <1>1, <1>13, <2>1, <2>2, HostsUntouched DEF Others
<1>14. ASSUME NEW h \in Host, NEW s \in Slot, SuspendThread(h, s) \/ ResumeThread(h, s)
       PROVE  HostInv'
  BY <1>13, <1>14 DEF SuspendThread, ResumeThread, SetState, hostVars
<1>15. ASSUME NEW h \in Host, NEW s \in Slot, NEW timed \in BOOLEAN, WaitThreadEnd(h, s, timed)
       PROVE  HostInv'
  <2>1. rec[s].end_waiters + 1 \in Int
    BY <1>1, Fields
  <2>2. rec' = [rec EXCEPT ![s].end_waiters = rec[s].end_waiters + 1]
        /\ UNCHANGED <<cpu, pc, me, hostUid>>
    BY <1>15 DEF WaitThreadEnd, hostVars
  <2> QED
    BY <1>13, <2>1, <2>2
<1>16. ASSUME NEW h \in Host, WaitReturns(h) \/ WaitTimesOut(h) PROVE HostInv'
  <2>1. LetGo(h) /\ endWaits[h] # <<>> /\ endWaits[h] \in Seq(WaitType)
    BY <1>1, <1>16 DEF WaitReturns, WaitTimesOut, Waiting, Typed
  <2>2. TopWait(h) \in WaitType
    BY <2>1 DEF TopWait
  <2>3. TopWait(h).slot \in Record
    BY <2>2 DEF WaitType
  <2>4. rec[TopWait(h).slot].end_waiters - 1 \in Int
    BY <1>1, <2>3, Fields
  <2>5. rec' = [rec EXCEPT ![TopWait(h).slot].end_waiters = rec[TopWait(h).slot].end_waiters - 1]
        /\ UNCHANGED <<cpu, pc, me, hostUid>>
    BY <2>1 DEF LetGo, hostVars
  <2> QED
    BY <1>13, <2>3, <2>4, <2>5
<1> QED
  BY <1>4, <1>5, <1>6, <1>7, <1>8, <1>9, <1>10, <1>11, <1>12, <1>14, <1>15, <1>16 DEF Next

LEMMA HostInvariant == Spec => []HostInv
BY InitHostInv, NextHostInv, PTL DEF Spec

(* Whatever the guest's liberties: reap_deleted_threads, hle_DeleteThread and
   hle_StartThread never take the record of a host thread that still carries it, nor the
   one through which a host thread that has left is to be joined. *)
THEOREM RecordsOutliveHosts == Spec => []RecordOutlivesHost
<1>1. HostInv => RecordOutlivesHost
  BY DEF HostInv, HostHasRecord, LiveHasHost, JoinableLeft, LeftHeld, RecordOutlivesHost
<1> QED
  BY <1>1, HostInvariant, PTL

(* Whoever calls host_thread_join with the CPU in hand waits for a host thread that has
   given the CPU away for the last time. *)
THEOREM JoinsNeverDeadlock == Spec => []JoinNeverDeadlocks
<1>1. HostInv => JoinNeverDeadlocks
  BY DEF HostInv, JoinableLeft, JoinNeverDeadlocks
<1> QED
  BY <1>1, HostInvariant, PTL

(* check_terminated stands between every park, and the first turn, and the guest. *)
THEOREM TerminatedStaysOut == Spec => []TerminatedNeverRuns
<1>1. HostInv => TerminatedNeverRuns
  BY DEF HostInv, RunnerSpared, TerminatedNeverRuns
<1> QED
  BY <1>1, HostInvariant, PTL

-----------------------------------------------------------------------------
(* Stacks.  The guest restarts no thread that deleted itself, which has no stack any
   more, and suspends none that is not running: see Liberties. *)
CarefulWithStacks == "restartDeleted" \notin Liberties /\ "suspendDormant" \notin Liberties

Owners == {s \in Slot : rec[s].used /\ rec[s].stack # 0}

HeapExact == /\ \A s, t \in Owners : rec[s].stack = rec[t].stack => s = t
             /\ heap = {rec[s].stack : s \in Owners}

(* A record's state tells whether its host thread may still be on its stack, which is
   what hle_DeleteThread goes by; and reap_deleted_threads finds no stack to free. *)
StackKept(s) == /\ rec[s].live => rec[s].stack # 0
                /\ rec[s].used => (rec[s].live <=> rec[s].state # "dormant")
                /\ rec[s].used /\ rec[s].delete_after => rec[s].stack = 0

StackInv == HostInv /\ HeapExact /\ \A s \in Slot : StackKept(s)

LEMMA InitStackInv == Init => StackInv
<1> SUFFICES ASSUME Init PROVE StackInv
  OBVIOUS
<1>1. \A s \in Slot : rec[s] = Blank
  BY Places DEF Init
<1>2. ~Blank.used /\ ~Blank.live
  BY DEF Blank
<1>3. Owners = {} /\ heap = {}
  BY <1>1, <1>2 DEF Owners, Init
<1> QED
  BY <1>1, <1>2, <1>3, InitHostInv DEF StackInv, HeapExact, StackKept

LEMMA OwnersStay ==
    ASSUME HeapExact, heap' = heap, Owners' = Owners, \A s \in Owners : rec'[s].stack = rec[s].stack
    PROVE  HeapExact'
BY DEF HeapExact

(* One record lets go of its stack, if it has one, and the heap of the same. *)
LEMMA OwnerLeaves ==
    ASSUME HeapExact, heap \subseteq 1..NStacks, NEW s \in Slot, rec[s].used,
           heap' = heap \ {rec[s].stack}, Owners' = Owners \ {s},
           \A t \in Owners \ {s} : rec'[t].stack = rec[t].stack
    PROVE  HeapExact'
<1>1. \A t, u \in Owners' : rec'[t].stack = rec'[u].stack => t = u
  BY DEF HeapExact
<1>2. heap' = {rec'[t].stack : t \in Owners'}
  <2>1. CASE s \in Owners
    <3>1. \A t \in Owners \ {s} : rec[t].stack # rec[s].stack
      BY <2>1 DEF HeapExact
    <3> QED
      BY <3>1 DEF HeapExact
  <2>2. CASE s \notin Owners
    <3>1. rec[s].stack = 0
      BY <2>2 DEF Owners
    <3>2. heap' = heap /\ Owners' = Owners
      BY <2>2, <3>1, Constants
    <3> QED
      BY <3>2 DEF HeapExact
  <2> QED
    BY <2>1, <2>2
<1> QED
  BY <1>1, <1>2 DEF HeapExact

LEMMA OwnerComes ==
    ASSUME HeapExact, NEW s \in Slot, NEW b, b \notin heap, heap' = heap \cup {b},
           s \notin Owners, Owners' = Owners \cup {s}, rec'[s].stack = b,
           \A t \in Owners : rec'[t].stack = rec[t].stack
    PROVE  HeapExact'
<1>1. \A t \in Owners : rec'[t].stack # b
  BY DEF HeapExact
<1>2. \A t, u \in Owners' : rec'[t].stack = rec'[u].stack => t = u
  BY <1>1 DEF HeapExact
<1>3. heap' = {rec'[t].stack : t \in Owners'}
  BY DEF HeapExact
<1> QED
  BY <1>2, <1>3 DEF HeapExact

(* A call that touches one record and no stack. *)
LEMMA StackUntouched ==
    ASSUME StackInv, HostInv', NEW s \in Record, Others(s), heap' = heap,
           rec'[s].used = rec[s].used, rec'[s].stack = rec[s].stack,
           s \in Slot => StackKept(s)'
    PROVE  StackInv'
<1>1. \A t \in Slot : t \in Record
  BY Places
<1>2. \A t \in Slot : rec'[t].used = rec[t].used /\ rec'[t].stack = rec[t].stack
  BY <1>1 DEF Others
<1>3. Owners' = Owners
  BY <1>2 DEF Owners
<1>4. HeapExact'
  BY <1>2, <1>3, OwnersStay DEF StackInv, Owners
<1>5. ASSUME NEW t \in Slot PROVE StackKept(t)'
  BY <1>1 DEF StackInv, Others, StackKept
<1> QED
  BY <1>4, <1>5 DEF StackInv

LEMMA NextStackInv == ASSUME CarefulWithStacks, StackInv, [Next]_vars PROVE StackInv'
<1>1. HostInv /\ HostInv' /\ Typed
  BY NextHostInv DEF StackInv, HostInv
<1>2. \A s \in Slot : s \in Record
  BY Places
<1>3. heap \subseteq 1..NStacks
  BY <1>1 DEF Typed
<1>4. CASE UNCHANGED vars
  BY <1>1, <1>4 DEF vars, StackInv, HeapExact, Owners, StackKept
<1>5. CASE Reset
  <2>1. heap' = {} /\ \A s \in Slot : rec'[s] = Blank
    BY <1>5, Places DEF Reset
  <2>2. ~Blank.used /\ ~Blank.live
    BY DEF Blank
  <2>3. Owners' = {}
    BY <2>1, <2>2 DEF Owners
  <2> QED
    BY <1>1, <2>1, <2>2, <2>3 DEF StackInv, HeapExact, StackKept
<1>6. ASSUME NEW h \in Host, CreateThread(h) PROVE StackInv'
  <2>1. ASSUME NEW s \in Slot
        PROVE  /\ s \notin Reapable => Reaped[s] = rec[s]
               /\ s \in Reapable => /\ ~Reaped[s].used /\ ~Reaped[s].live /\ s \notin Owners
    <3>1. s \notin Reapable => Reaped[s] = rec[s]
      BY <1>1, <1>2, ReapedRecords
    <3>2. ASSUME s \in Reapable PROVE ~Reaped[s].used /\ ~Reaped[s].live
      BY <1>1, <3>2, ReapedRecords DEF Reapable
    <3>3. ASSUME s \in Reapable PROVE s \notin Owners
      BY <3>3 DEF StackInv, StackKept, Reapable, Owners
    <3> QED
      BY <3>1, <3>2, <3>3
  <2>2. ASSUME NEW s \in Slot, rec'[s] = Reaped[s]
        PROVE  /\ StackKept(s)'
               /\ (s \in Owners)' <=> s \in Owners
               /\ s \in Owners => rec'[s].stack = rec[s].stack
    <3>1. CASE s \in Reapable
      BY <2>1, <2>2, <3>1 DEF StackKept, Owners
    <3>2. CASE s \notin Reapable
      BY <2>1, <2>2, <3>2 DEF StackInv, StackKept, Owners
    <3> QED
      BY <3>1, <3>2
  <2>3. CASE rec' = Reaped /\ UNCHANGED <<nextUid, heap>>
    <3>1. Owners' = Owners /\ \A s \in Owners : rec'[s].stack = rec[s].stack
      BY <2>2, <2>3 DEF Owners
    <3> QED
      BY <1>1, <2>2, <2>3, <3>1, OwnersStay DEF StackInv
  <2>4. ASSUME NEW s \in Slot, ~Reaped[s].used, \A t \in Record : t # s => rec'[t] = Reaped[t],
               rec'[s] = Blank, heap' = heap
        PROVE  StackInv'
    <3>1. s \notin Owners
      BY <2>1, <2>4 DEF Owners
    <3>2. ~rec'[s].used /\ ~rec'[s].live
      BY <2>4 DEF Blank
    <3>3. Owners' = Owners /\ \A t \in Owners : rec'[t].stack = rec[t].stack
      BY <1>2, <2>2, <2>4, <3>1, <3>2 DEF Owners
    <3>4. \A t \in Slot : StackKept(t)'
      BY <1>2, <2>2, <2>4, <3>2 DEF StackKept
    <3> QED
      BY <1>1, <2>4, <3>3, <3>4, OwnersStay DEF StackInv
  <2>5. ASSUME NEW s \in Slot, ~Reaped[s].used, \A t \in Record : t # s => rec'[t] = Reaped[t],
               NEW b \in (1..NStacks) \ heap, nextUid <= MaxUid, heap' = heap \cup {b},
               rec'[s] = [Blank EXCEPT !.used = TRUE, !.uid = nextUid, !.stack = b]
        PROVE  StackInv'
    <3>1. s \notin Owners
      BY <2>1, <2>5 DEF Owners
    <3>2. b \in 0..NStacks /\ b # 0
      BY Constants
    <3>3. nextUid \in -1..MaxUid
      <4>1. nextUid \in 1..MaxUid + 1
        BY <1>1 DEF Typed
      <4> QED
        BY <2>5, <4>1, Constants
    <3>4. /\ rec'[s].used /\ rec'[s].stack = b /\ rec'[s].state = "dormant"
          /\ ~rec'[s].live /\ ~rec'[s].delete_after
      BY <1>1, <2>5, <3>2, <3>3, CreatedFields
    <3>5. Owners' = Owners \cup {s} /\ \A t \in Owners : rec'[t].stack = rec[t].stack
      <4>1. \A t \in Slot : t # s => (t \in Owners' <=> t \in Owners)
        BY <1>2, <2>2, <2>5
      <4>2. s \in Owners'
        BY <3>2, <3>4 DEF Owners
      <4>3. Owners \subseteq Slot /\ Owners' \subseteq Slot
        BY DEF Owners
      <4> QED
        BY <1>2, <2>2, <2>5, <3>1, <4>1, <4>2, <4>3
    <3>6. \A t \in Slot : StackKept(t)'
      BY <1>2, <2>2, <2>5, <3>4 DEF StackKept
    <3>7. HeapExact'
      BY <2>5, <3>1, <3>4, <3>5, OwnerComes DEF StackInv
    <3> QED
      BY <1>1, <3>6, <3>7 DEF StackInv
  <2> QED
    BY <1>1, <1>6, <2>3, <2>4, <2>5, CreateEffect
<1>7. ASSUME NEW h \in Host, NEW s \in Slot, StartThread(h, s) PROVE StackInv'
  <2>1. rec[s].stack # 0 /\ rec[s].used
    BY <1>7 DEF StartThread, MayStart, CarefulWithStacks
  <2>2. /\ Others(s) /\ rec'[s].used = rec[s].used /\ rec'[s].stack = rec[s].stack
        /\ rec'[s].live /\ rec'[s].state = "ready" /\ ~rec'[s].delete_after
    BY <1>1, <1>7, StartEffect
  <2>3. StackKept(s)' /\ heap' = heap
    BY <1>7, <2>1, <2>2 DEF StackKept, StartThread
  <2> QED
    BY <1>1, <1>2, <2>2, <2>3, StackUntouched
<1>8. ASSUME NEW h \in Host, NEW s \in Slot, StartThreadFails(h, s) PROVE StackInv'
  <2>1. /\ Others(s) /\ rec'[s].used = rec[s].used /\ rec'[s].stack = rec[s].stack
        /\ rec'[s].live = rec[s].live /\ rec'[s].state = "dormant" /\ ~rec'[s].delete_after
    BY <1>1, <1>8, StartFailsEffect
  <2>2. StackKept(s)' /\ heap' = heap
    BY <1>8, <2>1 DEF StackKept, StartThreadFails, MayStart
  <2> QED
    BY <1>1, <1>2, <2>1, <2>2, StackUntouched
<1>9. ASSUME NEW h \in Host, FirstRun(h) PROVE StackInv'
  <2>1. h \in Guests /\ Carries(h)
    BY <1>1, <1>9, Places DEF FirstRun, Carries, HostInv, CpuHeld
  <2>2. me[h] \in Slot /\ me[h] \in Record /\ rec[me[h]].live
    BY <1>1, <2>1, RunnerRecord
  <2>3. /\ Others(me[h]) /\ rec'[me[h]].used = rec[me[h]].used
        /\ rec'[me[h]].stack = rec[me[h]].stack /\ rec'[me[h]].live = rec[me[h]].live
        /\ rec'[me[h]].state = "running" /\ rec'[me[h]].delete_after = rec[me[h]].delete_after
    BY <1>1, <1>9, <2>2, StateEffect DEF FirstRun
  <2>4. StackKept(me[h])
    BY <2>2 DEF StackInv
  <2>5. me'[h] = me[h] /\ heap' = heap
    BY <1>9 DEF FirstRun
  <2>6. ASSUME NEW s \in Slot, s = me[h] PROVE StackKept(s)'
    BY <2>2, <2>3, <2>4, <2>6 DEF StackKept
  <2> QED
    BY <1>1, <2>2, <2>3, <2>5, <2>6, StackUntouched
<1>10. ASSUME NEW h \in Guests, Carries(h), NEW status \in -1..MaxUid, NEW delete \in BOOLEAN,
              Leave(h, status, delete)
       PROVE  StackInv'
  <2>1. PICK s \in Slot : s = me[h] /\ rec[s].used /\ rec[s].live
    BY <1>1, <1>10, RunnerRecord
  <2>2. /\ \A t \in Record : rec'[t].used = rec[t].used
        /\ \A t \in Record : t # s =>
               /\ rec'[t].state = rec[t].state /\ rec'[t].live = rec[t].live
               /\ rec'[t].stack = rec[t].stack /\ rec'[t].delete_after = rec[t].delete_after
        /\ rec'[s].state = "dormant" /\ ~rec'[s].live /\ rec'[s].delete_after = delete
        /\ rec'[s].stack = IF delete THEN 0 ELSE rec[s].stack
    BY <1>1, <1>10, <2>1, LeaveEffect, Places
  <2>3. heap' = IF delete THEN heap \ {rec[s].stack} ELSE heap
    BY <1>10, <2>1 DEF Leave
  <2>4. ASSUME NEW t \in Slot PROVE StackKept(t)'
    <3>1. CASE t = s
      BY <2>2, <3>1 DEF StackKept
    <3>2. CASE t # s
      BY <1>2, <2>2, <3>2 DEF StackInv, StackKept
    <3> QED
      BY <3>1, <3>2
  <2>5. HeapExact'
    <3>1. CASE delete
      <4>1. Owners' = Owners \ {s} /\ \A t \in Owners \ {s} : rec'[t].stack = rec[t].stack
        BY <1>2, <2>2, <3>1 DEF Owners
      <4> QED
        BY <1>3, <2>1, <2>3, <3>1, <4>1, OwnerLeaves DEF StackInv
    <3>2. CASE ~delete
      <4>1. Owners' = Owners /\ \A t \in Owners : rec'[t].stack = rec[t].stack
        BY <1>2, <2>2, <3>2 DEF Owners
      <4> QED
        BY <2>3, <3>2, <4>1, OwnersStay DEF StackInv
    <3> QED
      BY <3>1, <3>2
  <2> QED
    BY <1>1, <2>4, <2>5 DEF StackInv
<1>11. ASSUME NEW h \in Host, \/ FirstRunKilled(h) \/ ExitThread(h) \/ ExitDeleteThread(h)
                              \/ UnparkKilled(h)
       PROVE  StackInv'
  <2>1. h \in Guests /\ Carries(h)
    BY <1>1, <1>11, Places DEF FirstRunKilled, ExitThread, ExitDeleteThread, UnparkKilled,
                               Carries, HostInv, CpuHeld
  <2>2. /\ Killed \in -1..MaxUid /\ rec[me[h]].uid \in -1..MaxUid
        /\ rec[me[h]].delete_after \in BOOLEAN
    BY <1>1, <2>1, Fields, RunnerRecord, Constants DEF Killed
  <2> QED
    BY <1>10, <1>11, <2>1, <2>2 DEF FirstRunKilled, ExitThread, ExitDeleteThread, UnparkKilled
<1>12. ASSUME NEW h \in Host, HostEnds(h) \/ Park(h) \/ Unpark(h) PROVE StackInv'
  BY <1>1, <1>12 DEF HostEnds, Park, Unpark, StackInv, HeapExact, Owners, StackKept
<1>13. ASSUME NEW h \in Host, NEW s \in Slot, TerminateThread(h, s) PROVE StackInv'
  <2>1. /\ Others(s) /\ rec'[s].used = rec[s].used /\ rec'[s].stack = rec[s].stack
        /\ rec'[s].live = rec[s].live /\ rec'[s].state = rec[s].state
        /\ rec'[s].delete_after = rec[s].delete_after
    BY <1>1, <1>2, <1>13, TerminateEffect DEF TerminateThread
  <2>2. StackKept(s)' /\ heap' = heap
    BY <1>13, <2>1 DEF StackInv, StackKept, TerminateThread
  <2> QED
    BY <1>1, <1>2, <2>1, <2>2, StackUntouched
<1>14. ASSUME NEW h \in Host, NEW s \in Slot, DeleteThread(h, s) PROVE StackInv'
  <2>1. /\ Others(s) /\ rec'[s].used = rec[s].live /\ rec'[s].live = rec[s].live
        /\ rec'[s].state = rec[s].state /\ rec'[s].delete_after = rec[s].delete_after
        /\ rec'[s].stack = IF rec[s].state = "dormant" THEN 0 ELSE rec[s].stack
    BY <1>1, <1>14, DeleteEffect
  <2>2. /\ rec[s].used
        /\ heap' = IF rec[s].state = "dormant" THEN heap \ {rec[s].stack} ELSE heap
    BY <1>14 DEF DeleteThread
  <2>3. StackKept(s)
    BY DEF StackInv
  <2>4. CASE rec[s].live
    <3>1. rec[s].state # "dormant" /\ heap' = heap /\ rec'[s].stack = rec[s].stack
      BY <2>1, <2>2, <2>3, <2>4 DEF StackKept
    <3>2. rec'[s].used = rec[s].used
      <4>1. rec[s].used \in BOOLEAN /\ rec[s].live \in BOOLEAN
        BY <1>1, <1>2, Fields
      <4> QED
        BY <2>1, <2>2, <2>4, <4>1
    <3>3. StackKept(s)'
      BY <2>1, <2>3, <3>1, <3>2 DEF StackKept
    <3> QED
      BY <1>1, <1>2, <2>1, <3>1, <3>2, <3>3, StackUntouched
  <2>5. CASE ~rec[s].live
    <3>1. rec[s].state = "dormant" /\ heap' = heap \ {rec[s].stack} /\ ~rec'[s].used
      BY <2>1, <2>2, <2>3, <2>5 DEF StackKept
    <3>2. Owners' = Owners \ {s} /\ \A t \in Owners \ {s} : rec'[t].stack = rec[t].stack
      BY <1>2, <2>1, <3>1 DEF Owners, Others
    <3>3. HeapExact'
      BY <1>3, <2>2, <3>1, <3>2, OwnerLeaves DEF StackInv
    <3>4. ASSUME NEW t \in Slot PROVE StackKept(t)'
      <4>1. CASE t = s
        BY <2>1, <2>5, <3>1, <4>1 DEF StackKept
      <4>2. CASE t # s
        BY <1>2, <2>1, <4>2 DEF StackInv, StackKept, Others
      <4> QED
        BY <4>1, <4>2
    <3> QED
      BY <1>1, <3>3, <3>4 DEF StackInv
  <2> QED
    BY <2>4, <2>5
<1>15. ASSUME NEW h \in Host, NEW s \in Slot, SuspendThread(h, s) \/ ResumeThread(h, s)
       PROVE  StackInv'
  <2>1. PICK state \in {"ready", "suspended"} : rec' = [rec EXCEPT ![s].state = state]
    BY <1>15 DEF SuspendThread, ResumeThread, SetState
  <2>2. rec[s].live /\ heap' = heap
    BY <1>15 DEF SuspendThread, ResumeThread, SetState, CarefulWithStacks
  <2>3. /\ Others(s) /\ rec'[s].used = rec[s].used /\ rec'[s].stack = rec[s].stack
        /\ rec'[s].live = rec[s].live /\ rec'[s].state = state
        /\ rec'[s].delete_after = rec[s].delete_after
    BY <1>1, <1>2, <2>1, StateEffect
  <2>4. StackKept(s)'
    BY <2>2, <2>3 DEF StackInv, StackKept
  <2> QED
    BY <1>1, <1>2, <2>2, <2>3, <2>4, StackUntouched
<1>16. ASSUME NEW s \in Slot, NEW n \in Int, rec' = [rec EXCEPT ![s].end_waiters = n], heap' = heap
       PROVE  StackInv'
  <2>1. /\ Others(s) /\ rec'[s].used = rec[s].used /\ rec'[s].stack = rec[s].stack
        /\ rec'[s].live = rec[s].live /\ rec'[s].state = rec[s].state
        /\ rec'[s].delete_after = rec[s].delete_after
    BY <1>1, <1>2, <1>16, PinEffect
  <2>2. StackKept(s)'
    BY <2>1 DEF StackInv, StackKept
  <2> QED
    BY <1>1, <1>2, <1>16, <2>1, <2>2, StackUntouched
<1>17. ASSUME NEW h \in Host, NEW s \in Slot, NEW timed \in BOOLEAN, WaitThreadEnd(h, s, timed)
       PROVE  StackInv'
  <2>1. rec[s].end_waiters + 1 \in Int
    BY <1>1, <1>2, Fields
  <2>2. rec' = [rec EXCEPT ![s].end_waiters = rec[s].end_waiters + 1] /\ heap' = heap
    BY <1>17 DEF WaitThreadEnd
  <2> QED
    BY <1>16, <2>1, <2>2
<1>18. ASSUME NEW h \in Host, WaitReturns(h) \/ WaitTimesOut(h) PROVE StackInv'
  <2>1. LetGo(h) /\ endWaits[h] # <<>> /\ endWaits[h] \in Seq(WaitType)
    BY <1>1, <1>18 DEF WaitReturns, WaitTimesOut, Waiting, Typed
  <2>2. TopWait(h) \in WaitType
    BY <2>1 DEF TopWait
  <2>3. TopWait(h).slot \in Slot
    BY <2>2 DEF WaitType
  <2>4. rec[TopWait(h).slot].end_waiters - 1 \in Int
    BY <1>1, <1>2, <2>3, Fields
  <2>5. /\ rec' = [rec EXCEPT ![TopWait(h).slot].end_waiters = rec[TopWait(h).slot].end_waiters - 1]
        /\ heap' = heap
    BY <2>1 DEF LetGo
  <2> QED
    BY <1>16, <2>3, <2>4, <2>5
<1> QED
  BY <1>4, <1>5, <1>6, <1>7, <1>8, <1>9, <1>11, <1>12, <1>13, <1>14, <1>15, <1>17, <1>18 DEF Next

(* The three paths that release a stack - exit, delete, reap - release each one once,
   and none that a host thread is still on. *)
THEOREM StacksStayExact == ASSUME CarefulWithStacks PROVE Spec => []StacksExact
<1>1. StackInv => StacksExact
  BY DEF StackInv, StackKept, HostInv, HostHasRecord, HeapExact, Owners, StacksExact
<1> QED
  BY <1>1, InitStackInv, NextStackInv, PTL DEF Spec

-----------------------------------------------------------------------------
(* WaitThreadEnd.  The guest deletes no thread that another still waits for. *)
CarefulWithWaits == "deleteAwaited" \notin Liberties

PinsCounted  == \A s \in Record : rec[s].end_waiters = Cardinality(Pins(s))
WaitsShallow == \A h \in Host : Len(endWaits[h]) <= MaxNest
WaitersCarry == \A h \in Guests : endWaits[h] # <<>> => Carries(h)
StatusKept   == \A s \in Slot : rec[s].used /\ rec[s].exited =>
                                    rec[s].exit_status \in {rec[s].uid, Killed}

PinInv == /\ HostInv
          /\ PinsCounted /\ PinnedRecordStays /\ WaitsShallow /\ WaitersCarry /\ StatusKept

LEMMA PinsFinite == ASSUME NEW s PROVE IsFiniteSet(Pins(s)) /\ Cardinality(Pins(s)) \in Nat
<1>1. IsFiniteSet(Host) /\ IsFiniteSet(1..MaxNest)
  BY Constants, FS_Interval DEF Host
<1>2. IsFiniteSet(Host \X (1..MaxNest))
  BY <1>1, FS_Product
<1>3. Pins(s) \in SUBSET (Host \X (1..MaxNest))
  BY DEF Pins
<1> QED
  BY <1>2, <1>3, FS_Subset, FS_CardinalityType

(* The waits of a thread, as a sequence. *)
LEMMA WaitSeq ==
    ASSUME Typed, NEW h \in Host
    PROVE  /\ endWaits[h] \in Seq(WaitType) /\ Len(endWaits[h]) \in Nat
           /\ DOMAIN endWaits[h] = 1..Len(endWaits[h])
           /\ \A i \in DOMAIN endWaits[h] : endWaits[h][i] \in WaitType
           /\ endWaits[h] # <<>> <=> Len(endWaits[h]) # 0
<1>1. endWaits[h] \in Seq(WaitType)
  BY DEF Typed
<1> QED
  BY <1>1

(* A record that is free, or that no wait is counted for, is not waited for. *)
LEMMA NotPinned ==
    ASSUME PinInv, NEW s \in Record, rec[s].end_waiters = 0 \/ ~rec[s].used
    PROVE  /\ Pins(s) = {} /\ rec[s].end_waiters = 0
           /\ \A h \in Host : \A i \in DOMAIN endWaits[h] : endWaits[h][i].slot # s
<1>1. Typed
  BY DEF PinInv, HostInv
<1>2. Pins(s) = {}
  <2>1. CASE rec[s].end_waiters = 0
    BY <2>1, PinsFinite, FS_EmptySet DEF PinInv, PinsCounted
  <2>2. CASE ~rec[s].used
    BY <2>2 DEF Pins, PinInv, PinnedRecordStays
  <2> QED
    BY <2>1, <2>2
<1>3. ASSUME NEW h \in Host, NEW i \in DOMAIN endWaits[h] PROVE endWaits[h][i].slot # s
  <2>1. i \in 1..MaxNest
    BY <1>1, WaitSeq, Constants DEF PinInv, WaitsShallow
  <2>2. <<h, i>> \in Host \X (1..MaxNest)
    BY <2>1
  <2> QED
    BY <1>2, <2>2 DEF Pins
<1>4. rec[s].end_waiters = 0
  BY <1>2, FS_EmptySet DEF PinInv, PinsCounted
<1> QED
  BY <1>2, <1>3, <1>4

LEMMA InitPinInv == Init => PinInv
<1> SUFFICES ASSUME Init PROVE PinInv
  OBVIOUS
<1>1. \A h \in Host : endWaits[h] = <<>>
  BY DEF Init
<1>2. \A s \in Record : Pins(s) = {}
  BY <1>1 DEF Pins
<1>3. \A s \in Record : rec[s] \in {Blank, BootRecord}
  BY DEF Init
<1>4. Blank.end_waiters = 0 /\ BootRecord.end_waiters = 0
  BY DEF Blank, BootRecord
<1>5. PinsCounted
  BY <1>2, <1>3, <1>4, FS_EmptySet DEF PinsCounted
<1>6. \A s \in Slot : rec[s] = Blank
  BY Places DEF Init
<1>7. ~Blank.used
  BY DEF Blank
<1>8. StatusKept
  BY <1>6, <1>7 DEF StatusKept
<1>9. WaitsShallow
  BY <1>1, Constants DEF WaitsShallow
<1> QED
  BY <1>1, <1>5, <1>8, <1>9, InitHostInv, Places DEF PinInv, PinnedRecordStays, WaitersCarry

(* A call that begins and ends no wait. *)
LEMMA WaitsStay ==
    ASSUME PinInv, HostInv', endWaits' = endWaits, StatusKept',
           \A h \in Guests : Carries(h) => Carries(h)',
           \A s \in Record : /\ rec'[s].end_waiters = rec[s].end_waiters
                             /\ Pins(s) # {} => rec'[s].used = rec[s].used /\ rec'[s].uid = rec[s].uid
    PROVE  PinInv'
<1>1. \A s \in Record : Pins(s)' = Pins(s)
  BY DEF Pins
<1>2. PinsCounted'
  BY <1>1 DEF PinInv, PinsCounted
<1>3. PinnedRecordStays'
  <2> SUFFICES ASSUME NEW h \in Host, NEW i \in DOMAIN endWaits[h]
               PROVE  /\ rec'[endWaits[h][i].slot].used
                      /\ rec'[endWaits[h][i].slot].uid = endWaits[h][i].uid
    BY DEF PinnedRecordStays
  <2>1. PICK s \in Record : s = endWaits[h][i].slot
    <3>1. endWaits[h][i] \in WaitType
      BY WaitSeq DEF PinInv, HostInv
    <3> QED
      BY <3>1, Places DEF WaitType
  <2>2. rec[s].used /\ rec[s].uid = endWaits[h][i].uid
    BY <2>1 DEF PinInv, PinnedRecordStays
  <2>3. i \in 1..MaxNest
    BY WaitSeq, Constants DEF PinInv, HostInv, WaitsShallow
  <2>4. <<h, i>> \in Pins(s)
    BY <2>1, <2>3 DEF Pins
  <2> QED
    BY <2>1, <2>2, <2>4
<1>4. WaitsShallow' /\ WaitersCarry'
  BY DEF PinInv, WaitsShallow, WaitersCarry
<1> QED
  BY <1>2, <1>3, <1>4 DEF PinInv

(* The same where the call touches one record, and not what the waits need of it. *)
LEMMA WaitsUntouched ==
    ASSUME PinInv, HostInv', endWaits' = endWaits, NEW s \in Record, Others(s),
           \A h \in Guests : Carries(h) => Carries(h)',
           rec'[s].end_waiters = rec[s].end_waiters,
           Pins(s) # {} => rec'[s].used = rec[s].used /\ rec'[s].uid = rec[s].uid,
           \/ ~rec'[s].used \/ ~rec'[s].exited
           \/ /\ rec'[s].used = rec[s].used /\ rec'[s].exited = rec[s].exited
              /\ rec'[s].exit_status = rec[s].exit_status /\ rec'[s].uid = rec[s].uid
    PROVE  PinInv'
<1>1. StatusKept'
  BY Places DEF PinInv, StatusKept, Others
<1>2. \A t \in Record : /\ rec'[t].end_waiters = rec[t].end_waiters
                        /\ Pins(t) # {} => rec'[t].used = rec[t].used /\ rec'[t].uid = rec[t].uid
  BY DEF Others
<1> QED
  BY <1>1, <1>2, WaitsStay

(* wait_thread_end pins one record by one. *)
LEMMA PinComes ==
    ASSUME PinInv, HostInv', NEW h \in Host, NEW s \in Slot, NEW timed \in BOOLEAN,
           WaitThreadEnd(h, s, timed)
    PROVE  PinInv'
<1> DEFINE w == [slot |-> s, uid |-> rec[s].uid, timed |-> timed]
           n == Len(endWaits[h])
<1>1. Typed /\ s \in Record
  BY Places DEF PinInv, HostInv
<1>2. /\ endWaits[h] \in Seq(WaitType) /\ n \in Nat /\ DOMAIN endWaits[h] = 1..n
      /\ cpu = h /\ rec[s].used /\ n < MaxNest
  BY <1>1, WaitSeq DEF WaitThreadEnd
<1>3. w \in WaitType
  BY <1>1, Fields DEF WaitType
<1>4. /\ \A g \in Host : g # h => endWaits'[g] = endWaits[g]
      /\ endWaits'[h] = Append(endWaits[h], w)
  BY <1>1 DEF WaitThreadEnd, Typed
<1> HIDE DEF w
<1>5. /\ DOMAIN endWaits'[h] = 1..n + 1 /\ Len(endWaits'[h]) = n + 1
      /\ \A i \in 1..n : endWaits'[h][i] = endWaits[h][i]
      /\ endWaits'[h][n + 1] = w
  BY <1>2, <1>3, <1>4
<1> HIDE DEF n
<1>6. w.slot = s /\ w.uid = rec[s].uid
  BY DEF w
<1>7. /\ Others(s) /\ rec'[s].end_waiters = rec[s].end_waiters + 1
      /\ rec'[s].used = rec[s].used /\ rec'[s].uid = rec[s].uid
      /\ rec'[s].exited = rec[s].exited /\ rec'[s].exit_status = rec[s].exit_status
  <2>1. rec[s].end_waiters + 1 \in Int
    BY <1>1, Fields
  <2> QED
    BY <1>1, <2>1, PinEffect DEF WaitThreadEnd
<1>8. Pins(s)' = Pins(s) \cup {<<h, n + 1>>} /\ <<h, n + 1>> \notin Pins(s)
  <2>1. n + 1 \in 1..MaxNest /\ n + 1 \notin 1..n
    BY <1>2, Constants
  <2>2. <<h, n + 1>> \notin Pins(s)
    BY <1>2, <2>1 DEF Pins
  <2>3. ASSUME NEW p \in Host \X (1..MaxNest)
        PROVE  p \in Pins(s)' <=> p \in Pins(s) \/ p = <<h, n + 1>>
    <3>1. CASE p[1] # h
      BY <1>4, <3>1 DEF Pins
    <3>2. CASE p[1] = h /\ p[2] = n + 1
      <4>1. p = <<h, n + 1>>
        BY <3>2
      <4> QED
        BY <1>5, <1>6, <2>1, <4>1 DEF Pins
    <3>3. CASE p[1] = h /\ p[2] # n + 1
      <4>1. p[2] \in 1..n + 1 <=> p[2] \in 1..n
        BY <1>2, <3>3
      <4>2. p \in Pins(s)' <=> p[2] \in DOMAIN endWaits'[h] /\ endWaits'[h][p[2]].slot = s
        BY <3>3 DEF Pins
      <4>3. p \in Pins(s) <=> p[2] \in DOMAIN endWaits[h] /\ endWaits[h][p[2]].slot = s
        BY <3>3 DEF Pins
      <4> QED
        BY <1>2, <1>5, <3>3, <4>1, <4>2, <4>3
    <3> QED
      BY <3>1, <3>2, <3>3
  <2>4. <<h, n + 1>> \in Host \X (1..MaxNest)
    BY <2>1
  <2>5. Pins(s) \subseteq Host \X (1..MaxNest) /\ Pins(s)' \subseteq Host \X (1..MaxNest)
    BY DEF Pins
  <2> QED
    BY <2>2, <2>3, <2>4, <2>5
<1>9. ASSUME NEW t \in Record, t # s PROVE Pins(t)' = Pins(t)
  <2>1. ASSUME NEW p \in Host \X (1..MaxNest) PROVE p \in Pins(t)' <=> p \in Pins(t)
    <3>1. CASE p[1] # h
      BY <1>4, <3>1 DEF Pins
    <3>2. CASE p[1] = h
      <4>1. p[2] \in 1..n + 1 <=> p[2] \in 1..n \/ p[2] = n + 1
        BY <1>2
      <4>2. p \in Pins(t)' <=> p[2] \in DOMAIN endWaits'[h] /\ endWaits'[h][p[2]].slot = t
        BY <3>2 DEF Pins
      <4>3. p \in Pins(t) <=> p[2] \in DOMAIN endWaits[h] /\ endWaits[h][p[2]].slot = t
        BY <3>2 DEF Pins
      <4>4. n + 1 \notin 1..n
        BY <1>2
      <4> QED
        BY <1>2, <1>5, <1>6, <1>9, <4>1, <4>2, <4>3, <4>4
    <3> QED
      BY <3>1, <3>2
  <2> QED
    BY <2>1 DEF Pins
<1>10. PinsCounted'
  <2>1. Cardinality(Pins(s) \cup {<<h, n + 1>>}) = Cardinality(Pins(s)) + 1
    BY <1>8, PinsFinite, FS_AddElement
  <2> QED
    BY <1>1, <1>7, <1>8, <1>9, <2>1 DEF PinInv, PinsCounted, Others
<1>11. PinnedRecordStays'
  <2> SUFFICES ASSUME NEW g \in Host, NEW i \in DOMAIN endWaits'[g]
               PROVE  /\ rec'[endWaits'[g][i].slot].used
                      /\ rec'[endWaits'[g][i].slot].uid = endWaits'[g][i].uid
    BY DEF PinnedRecordStays
  <2>1. \A t \in Record : rec'[t].used = rec[t].used /\ rec'[t].uid = rec[t].uid
    BY <1>7 DEF Others
  <2>2. CASE g = h /\ i = n + 1
    BY <1>1, <1>2, <1>5, <1>6, <1>7, <2>2
  <2>3. CASE ~(g = h /\ i = n + 1)
    <3>1. i \in DOMAIN endWaits[g] /\ endWaits'[g][i] = endWaits[g][i]
      BY <1>2, <1>4, <1>5, <2>3
    <3>2. endWaits[g][i].slot \in Record
      BY <1>1, <3>1, WaitSeq, Places DEF WaitType
    <3> QED
      BY <2>1, <3>1, <3>2 DEF PinInv, PinnedRecordStays
  <2> QED
    BY <2>2, <2>3
<1>12. WaitsShallow'
  BY <1>2, <1>4, <1>5, Constants DEF PinInv, WaitsShallow
<1>13. WaitersCarry'
  <2>1. pc' = pc
    BY DEF WaitThreadEnd, hostVars
  <2>2. pc[h] = "cpu"
    BY <1>2 DEF PinInv, HostInv, CpuHeld
  <2> QED
    BY <1>4, <2>1, <2>2, Places DEF PinInv, WaitersCarry, Carries
<1>14. StatusKept'
  BY <1>7, Places DEF PinInv, StatusKept, Others
<1> QED
  BY <1>10, <1>11, <1>12, <1>13, <1>14 DEF PinInv

(* wait_thread_end lets go of what its innermost wait pinned. *)
LEMMA PinGoes ==
    ASSUME PinInv, HostInv', NEW h \in Host, endWaits[h] # <<>>, LetGo(h)
    PROVE  PinInv'
<1> DEFINE n == Len(endWaits[h])
           s == endWaits[h][n].slot
<1>1. Typed
  BY DEF PinInv, HostInv
<1>2. /\ endWaits[h] \in Seq(WaitType) /\ n \in Nat \ {0} /\ DOMAIN endWaits[h] = 1..n
      /\ n <= MaxNest
  BY <1>1, WaitSeq DEF PinInv, WaitsShallow
<1>3. s \in Record /\ s = TopWait(h).slot
  BY <1>1, <1>2, WaitSeq, Places DEF WaitType, TopWait
<1>4. /\ \A g \in Host : g # h => endWaits'[g] = endWaits[g]
      /\ endWaits'[h] = SubSeq(endWaits[h], 1, n - 1)
  BY <1>1 DEF LetGo, Typed
<1>5. /\ DOMAIN endWaits'[h] = 1..n - 1 /\ Len(endWaits'[h]) = n - 1
      /\ \A i \in 1..n - 1 : endWaits'[h][i] = endWaits[h][i]
  BY <1>2, <1>4
<1>6. /\ Others(s) /\ rec'[s].end_waiters = rec[s].end_waiters - 1
      /\ rec'[s].used = rec[s].used /\ rec'[s].uid = rec[s].uid
      /\ rec'[s].exited = rec[s].exited /\ rec'[s].exit_status = rec[s].exit_status
  <2>1. rec[s].end_waiters - 1 \in Int
    BY <1>1, <1>3, Fields
  <2>2. rec' = [rec EXCEPT ![s].end_waiters = rec[s].end_waiters - 1]
    BY <1>3 DEF LetGo
  <2> HIDE DEF s
  <2> QED
    BY <1>1, <1>3, <2>1, <2>2, PinEffect
<1>7. endWaits[h][n].slot = s
  OBVIOUS
<1> HIDE DEF n, s
<1>8. n \in 1..MaxNest /\ n \notin 1..n - 1 /\ 1..n = (1..n - 1) \cup {n}
  BY <1>2, Constants
<1>9. ASSUME NEW t \in Record, NEW p \in Host \X (1..MaxNest)
      PROVE  p \in Pins(t)' <=> p \in Pins(t) /\ p # <<h, n>>
  <2>1. CASE p[1] # h
    BY <1>4, <2>1 DEF Pins
  <2>2. CASE p[1] = h
    <3>1. p \in Pins(t)' <=> p[2] \in DOMAIN endWaits'[h] /\ endWaits'[h][p[2]].slot = t
      BY <2>2 DEF Pins
    <3>2. p \in Pins(t) <=> p[2] \in DOMAIN endWaits[h] /\ endWaits[h][p[2]].slot = t
      BY <2>2 DEF Pins
    <3>3. p = <<h, n>> <=> p[2] = n
      BY <2>2
    <3> QED
      BY <1>2, <1>5, <1>8, <3>1, <3>2, <3>3
  <2> QED
    BY <2>1, <2>2
<1>10. \A t \in Record : Pins(t)' = Pins(t) \ {<<h, n>>}
  BY <1>9 DEF Pins
<1>11. <<h, n>> \in Pins(s) /\ \A t \in Record : t # s => <<h, n>> \notin Pins(t)
  BY <1>2, <1>7, <1>8 DEF Pins
<1>12. PinsCounted'
  <2>1. Cardinality(Pins(s) \ {<<h, n>>}) = Cardinality(Pins(s)) - 1
    BY <1>11, PinsFinite, FS_RemoveElement
  <2>2. \A t \in Record : t # s => Pins(t)' = Pins(t)
    BY <1>10, <1>11
  <2> QED
    BY <1>3, <1>6, <1>10, <2>1, <2>2 DEF PinInv, PinsCounted, Others
<1>13. PinnedRecordStays'
  <2> SUFFICES ASSUME NEW g \in Host, NEW i \in DOMAIN endWaits'[g]
               PROVE  /\ rec'[endWaits'[g][i].slot].used
                      /\ rec'[endWaits'[g][i].slot].uid = endWaits'[g][i].uid
    BY DEF PinnedRecordStays
  <2>1. \A t \in Record : rec'[t].used = rec[t].used /\ rec'[t].uid = rec[t].uid
    BY <1>6 DEF Others
  <2>2. i \in DOMAIN endWaits[g] /\ endWaits'[g][i] = endWaits[g][i]
    BY <1>2, <1>4, <1>5, <1>8
  <2>3. endWaits[g][i].slot \in Record
    BY <1>1, <2>2, WaitSeq, Places DEF WaitType
  <2> QED
    BY <2>1, <2>2, <2>3 DEF PinInv, PinnedRecordStays
<1>14. WaitsShallow'
  <2>1. n - 1 <= MaxNest
    BY <1>2, Constants
  <2> QED
    BY <1>4, <1>5, <2>1 DEF PinInv, WaitsShallow
<1>15. WaitersCarry'
  <2>1. pc' = pc
    BY DEF LetGo, hostVars
  <2> QED
    BY <1>4, <2>1, Places DEF PinInv, WaitersCarry, Carries
<1>16. StatusKept'
  BY <1>6, Places DEF PinInv, StatusKept, Others
<1> QED
  BY <1>12, <1>13, <1>14, <1>15, <1>16 DEF PinInv

(* The waits of one thread for a record, as a part of the waits for it. *)
LEMMA PinsOfOne ==
    ASSUME PinInv, NEW h \in Host, NEW s
    PROVE  LET T == {p \in Pins(s) : p[1] = h}
           IN  Cardinality(Pins(s) \ T) = Cardinality(Pins(s)) - PinsBy(h, s)
<1> DEFINE I == {i \in DOMAIN endWaits[h] : endWaits[h][i].slot = s}
           T == {p \in Pins(s) : p[1] = h}
           f == [i \in I |-> <<h, i>>]
<1>1. Typed
  BY DEF PinInv, HostInv
<1>2. I \subseteq 1..MaxNest
  BY <1>1, WaitSeq, Constants DEF PinInv, WaitsShallow
<1>3. \A i \in I : <<h, i>> \in T
  BY <1>2 DEF Pins
<1>4. \A p \in T : p[2] \in I /\ p = <<h, p[2]>>
  BY DEF Pins
<1>5. IsFiniteSet(I)
  <2>1. IsFiniteSet(1..MaxNest)
    BY Constants, FS_Interval
  <2> QED
    BY <1>2, <2>1, FS_Subset
<1> HIDE DEF I, T
<1>6. f \in [I -> T]
  BY <1>3
<1>7. \A i, j \in I : f[i] = f[j] => i = j
  OBVIOUS
<1>8. \A p \in T : \E i \in I : f[i] = p
  BY <1>4
<1>9. f \in Bijection(I, T)
  <2> HIDE DEF f
  <2>1. f \in Injection(I, T)
    BY <1>6, <1>7 DEF Injection, IsInjective
  <2>2. f \in Surjection(I, T)
    BY <1>6, <1>8 DEF Surjection
  <2> QED
    BY <2>1, <2>2 DEF Bijection
<1>10. Cardinality(T) = Cardinality(I)
  BY <1>5, <1>9, FS_Bijection DEF ExistsBijection
<1>11. Pins(s) \cap T = T
  BY DEF T
<1>12. Cardinality(Pins(s) \ T) = Cardinality(Pins(s)) - Cardinality(Pins(s) \cap T)
  BY PinsFinite, FS_Difference
<1> QED
  BY <1>10, <1>11, <1>12 DEF PinsBy, I, T

(* thread_unwind lets go of what every wait of the thread pinned. *)
LEMMA LeavePinInv ==
    ASSUME PinInv, HostInv', NEW h \in Guests, Carries(h), NEW status \in -1..MaxUid,
           NEW delete \in BOOLEAN, Leave(h, status, delete), status \in {rec[me[h]].uid, Killed}
    PROVE  PinInv'
<1>1. Typed /\ h \in Host
  BY Places DEF PinInv, HostInv
<1>2. PICK s \in Slot : s = me[h]
  BY RunnerRecord DEF PinInv
<1>3. /\ \A t \in Record : /\ rec'[t].end_waiters = rec[t].end_waiters - PinsBy(h, t)
                           /\ rec'[t].used = rec[t].used /\ rec'[t].uid = rec[t].uid
      /\ \A t \in Record : t # s => /\ rec'[t].exited = rec[t].exited
                                    /\ rec'[t].exit_status = rec[t].exit_status
      /\ rec'[s].exit_status = status
  BY <1>1, <1>2, LeaveEffect
<1>4. /\ endWaits'[h] = <<>> /\ \A g \in Host : g # h => endWaits'[g] = endWaits[g]
      /\ \A g \in Host : g # h => pc'[g] = pc[g]
  BY <1>1 DEF Leave, Typed
<1>5. DOMAIN endWaits'[h] = {} /\ Len(endWaits'[h]) = 0
  BY <1>4
<1>6. ASSUME NEW t \in Record PROVE Pins(t)' = Pins(t) \ {p \in Pins(t) : p[1] = h}
  <2>1. ASSUME NEW p \in Host \X (1..MaxNest) PROVE p \in Pins(t)' <=> p \in Pins(t) /\ p[1] # h
    <3>1. CASE p[1] # h
      BY <1>4, <3>1 DEF Pins
    <3>2. CASE p[1] = h
      BY <1>5, <3>2 DEF Pins
    <3> QED
      BY <3>1, <3>2
  <2>2. Pins(t) \subseteq Host \X (1..MaxNest) /\ Pins(t)' \subseteq Host \X (1..MaxNest)
    BY DEF Pins
  <2> QED
    BY <2>1, <2>2
<1>7. PinsCounted'
  <2> SUFFICES ASSUME NEW t \in Record PROVE rec'[t].end_waiters = Cardinality(Pins(t)')
    BY DEF PinsCounted
  <2>1. Cardinality(Pins(t)') = Cardinality(Pins(t)) - PinsBy(h, t)
    BY <1>1, <1>6, PinsOfOne
  <2> QED
    BY <1>3, <2>1 DEF PinInv, PinsCounted
<1>8. PinnedRecordStays'
  <2> SUFFICES ASSUME NEW g \in Host, NEW i \in DOMAIN endWaits'[g]
               PROVE  /\ rec'[endWaits'[g][i].slot].used
                      /\ rec'[endWaits'[g][i].slot].uid = endWaits'[g][i].uid
    BY DEF PinnedRecordStays
  <2>1. g # h
    BY <1>5
  <2>2. i \in DOMAIN endWaits[g] /\ endWaits'[g] = endWaits[g]
    BY <1>4, <2>1
  <2>3. endWaits[g][i].slot \in Record
    BY <1>1, <2>2, WaitSeq, Places DEF WaitType
  <2> QED
    BY <1>3, <2>2, <2>3 DEF PinInv, PinnedRecordStays
<1>9. WaitsShallow'
  BY <1>4, <1>5, Constants DEF PinInv, WaitsShallow
<1>10. WaitersCarry'
  BY <1>4, Places DEF PinInv, WaitersCarry, Carries
<1>11. StatusKept'
  BY <1>2, <1>3, Places DEF PinInv, StatusKept
<1> QED
  BY <1>7, <1>8, <1>9, <1>10, <1>11 DEF PinInv

LEMMA NextPinInv == ASSUME CarefulWithWaits, PinInv, [Next]_vars PROVE PinInv'
<1>1. HostInv /\ HostInv' /\ Typed
  BY NextHostInv DEF PinInv, HostInv
<1>2. \A s \in Slot : s \in Record
  BY Places
<1>3. ASSUME NEW S \in SUBSET Slot, \A s \in S : ~rec[s].live, NEW h \in Guests, Carries(h)
      PROVE  Joined(S)[h] = pc[h]
  BY <1>1, <1>3, JoinedHosts, Places DEF Carries
<1>4. CASE UNCHANGED vars
  <2>1. StatusKept'
    BY <1>4 DEF vars, PinInv, StatusKept
  <2> QED
    BY <1>1, <1>4, <2>1, WaitsStay DEF vars, Carries
<1>5. CASE Reset
  <2>1. \A s \in Slot : ~rec[s].live
    BY <1>5 DEF Reset
  <2>2. \A h \in Guests : ~Carries(h)
    BY <1>1, <2>1, RunnerRecord
  <2>3. \A h \in Host : endWaits[h] = <<>>
    BY <1>5, <2>2, Places DEF Reset, PinInv, WaitersCarry
  <2>4. \A s \in Record : Pins(s) = {}
    BY <2>3 DEF Pins
  <2>5. \A s \in Record : rec[s].end_waiters = 0
    BY <2>4, FS_EmptySet DEF PinInv, PinsCounted
  <2>6. Blank.end_waiters = 0 /\ BootRecord.end_waiters = 0 /\ ~Blank.used
    BY DEF Blank, BootRecord
  <2>7. \A s \in Record : rec'[s].end_waiters = 0
    BY <1>5, <2>6 DEF Reset
  <2>8. \A s \in Slot : rec'[s] = Blank
    BY <1>5, Places DEF Reset
  <2>9. StatusKept'
    BY <2>6, <2>8 DEF StatusKept
  <2>10. endWaits' = endWaits
    BY <1>5 DEF Reset
  <2> QED
    BY <1>1, <2>2, <2>4, <2>5, <2>7, <2>9, <2>10, WaitsStay
<1>6. ASSUME NEW h \in Host, CreateThread(h) PROVE PinInv'
  <2>1. endWaits' = endWaits /\ pc' = Joined(Reapable)
    BY <1>6 DEF CreateThread
  <2>2. Reapable \in SUBSET Slot /\ \A s \in Reapable : ~rec[s].live /\ rec[s].end_waiters = 0
    BY DEF Reapable
  <2>3. \A g \in Guests : Carries(g) => Carries(g)'
    BY <1>3, <2>1, <2>2 DEF Carries
  <2>4. ASSUME NEW s \in Record
        PROVE  /\ s \notin Reapable => Reaped[s] = rec[s]
               /\ s \in Reapable => /\ ~Reaped[s].used /\ Pins(s) = {}
                                    /\ Reaped[s].end_waiters = rec[s].end_waiters
    BY <1>1, <2>2, ReapedRecords, NotPinned
  <2>5. ASSUME NEW s \in Slot, ~Reaped[s].used PROVE Pins(s) = {} /\ rec[s].end_waiters = 0
    BY <1>2, <2>2, <2>4, <2>5, NotPinned
  <2>6. ASSUME NEW s \in Record, rec'[s] = Reaped[s]
        PROVE  /\ rec'[s].end_waiters = rec[s].end_waiters
               /\ Pins(s) # {} => rec'[s].used = rec[s].used /\ rec'[s].uid = rec[s].uid
               /\ s \in Slot /\ rec'[s].used /\ rec'[s].exited =>
                      rec'[s].exit_status \in {rec'[s].uid, Killed}
    <3>1. CASE s \in Reapable
      BY <2>4, <2>6, <3>1
    <3>2. CASE s \notin Reapable
      BY <2>4, <2>6, <3>2 DEF PinInv, StatusKept
    <3> QED
      BY <3>1, <3>2
  <2>7. ASSUME NEW s \in Slot, ~Reaped[s].used, \A t \in Record : t # s => rec'[t] = Reaped[t],
               rec'[s].end_waiters = 0, ~rec'[s].exited
        PROVE  PinInv'
    <3>1. StatusKept'
      BY <1>2, <2>6, <2>7 DEF StatusKept
    <3>2. Pins(s) = {} /\ rec[s].end_waiters = 0
      BY <2>5, <2>7
    <3>3. \A t \in Record : /\ rec'[t].end_waiters = rec[t].end_waiters
                            /\ Pins(t) # {} => rec'[t].used = rec[t].used /\ rec'[t].uid = rec[t].uid
      BY <2>6, <2>7, <3>2
    <3> QED
      BY <1>1, <2>1, <2>3, <3>1, <3>3, WaitsStay
  <2>8. CASE rec' = Reaped
    <3>1. StatusKept'
      BY <1>2, <2>6, <2>8 DEF StatusKept
    <3>2. \A t \in Record : /\ rec'[t].end_waiters = rec[t].end_waiters
                            /\ Pins(t) # {} => rec'[t].used = rec[t].used /\ rec'[t].uid = rec[t].uid
      BY <2>6, <2>8
    <3> QED
      BY <1>1, <2>1, <2>3, <3>1, <3>2, WaitsStay
  <2>9. ASSUME NEW s \in Slot, rec'[s] = Blank PROVE rec'[s].end_waiters = 0 /\ ~rec'[s].exited
    BY <2>9 DEF Blank
  <2>10. ASSUME NEW s \in Slot, NEW b \in (1..NStacks) \ heap, nextUid <= MaxUid,
                rec'[s] = [Blank EXCEPT !.used = TRUE, !.uid = nextUid, !.stack = b]
         PROVE  rec'[s].end_waiters = 0 /\ ~rec'[s].exited
    <3>1. b \in 0..NStacks
      BY Constants
    <3>2. nextUid \in -1..MaxUid
      <4>1. nextUid \in 1..MaxUid + 1
        BY <1>1 DEF Typed
      <4> QED
        BY <2>10, <4>1, Constants
    <3> QED
      BY <1>1, <2>10, <3>1, <3>2, CreatedFields
  <2> QED
    BY <1>1, <1>6, <2>7, <2>8, <2>9, <2>10, CreateEffect
<1>7. ASSUME NEW h \in Host, NEW s \in Slot, StartThread(h, s) PROVE PinInv'
  <2>1. ~rec[s].live /\ endWaits' = endWaits
    BY <1>7 DEF StartThread, MayStart
  <2>2. /\ NewHost(s) \in Guests /\ Joined({s})[NewHost(s)] = "none"
        /\ Others(s) /\ rec'[s].used = rec[s].used /\ rec'[s].uid = rec[s].uid
        /\ rec'[s].end_waiters = rec[s].end_waiters /\ ~rec'[s].exited
    BY <1>1, <1>7, StartEffect DEF FreeHosts
  <2>3. ASSUME NEW g \in Guests, Carries(g) PROVE Carries(g)'
    <3>1. Joined({s})[g] = pc[g]
      <4>1. {s} \in SUBSET Slot /\ \A t \in {s} : ~rec[t].live
        BY <2>1
      <4> QED
        BY <1>3, <2>3, <4>1
    <3>2. g # NewHost(s)
      BY <2>2, <2>3, <3>1 DEF Carries
    <3>3. pc'[g] = pc[g]
      <4>1. pc' = [Joined({s}) EXCEPT ![NewHost(s)] = "created"]
        BY <1>7 DEF StartThread
      <4>2. DOMAIN Joined({s}) = Host
        BY DEF Joined
      <4> QED
        BY <3>1, <3>2, <4>1, <4>2, Places
    <3> QED
      BY <2>3, <3>3 DEF Carries
  <2> QED
    BY <1>1, <1>2, <2>1, <2>2, <2>3, WaitsUntouched
<1>8. ASSUME NEW h \in Host, NEW s \in Slot, StartThreadFails(h, s) PROVE PinInv'
  <2>1. ~rec[s].live /\ endWaits' = endWaits /\ pc' = Joined({s})
    BY <1>8 DEF StartThreadFails, MayStart
  <2>2. /\ Others(s) /\ rec'[s].used = rec[s].used /\ rec'[s].uid = rec[s].uid
        /\ rec'[s].end_waiters = rec[s].end_waiters /\ ~rec'[s].exited
    BY <1>1, <1>8, StartFailsEffect
  <2>3. {s} \in SUBSET Slot /\ \A t \in {s} : ~rec[t].live
    BY <2>1
  <2>4. \A g \in Guests : Carries(g) => Carries(g)'
    BY <1>3, <2>1, <2>3 DEF Carries
  <2> QED
    BY <1>1, <1>2, <2>1, <2>2, <2>4, WaitsUntouched
<1>9. ASSUME NEW h \in Host, HostEnds(h) \/ Park(h) \/ Unpark(h) PROVE PinInv'
  <2>1. UNCHANGED <<rec, endWaits>>
    BY <1>9 DEF HostEnds, Park, Unpark
  <2>2. \A g \in Guests : Carries(g) => Carries(g)'
    BY <1>1, <1>9, Places DEF HostEnds, Park, Unpark, Carries, Typed
  <2>3. StatusKept'
    BY <2>1 DEF PinInv, StatusKept
  <2> QED
    BY <1>1, <2>1, <2>2, <2>3, WaitsStay
<1>10. ASSUME NEW h \in Host, FirstRun(h) PROVE PinInv'
  <2>1. endWaits' = endWaits /\ me[h] \in Record
    BY <1>1, <1>10 DEF FirstRun, Typed
  <2>2. \A g \in Guests : Carries(g) => Carries(g)'
    BY <1>1, <1>10, Places DEF FirstRun, Carries, Typed
  <2>3. PICK s \in Record : s = me[h]
    BY <2>1
  <2>4. /\ Others(s) /\ rec'[s].used = rec[s].used /\ rec'[s].uid = rec[s].uid
        /\ rec'[s].end_waiters = rec[s].end_waiters /\ rec'[s].exited = rec[s].exited
        /\ rec'[s].exit_status = rec[s].exit_status
    BY <1>1, <1>10, <2>3, StateEffect DEF FirstRun
  <2> QED
    BY <1>1, <2>1, <2>2, <2>4, WaitsUntouched
<1>11. ASSUME NEW h \in Host, \/ FirstRunKilled(h) \/ ExitThread(h) \/ ExitDeleteThread(h)
                              \/ UnparkKilled(h)
       PROVE  PinInv'
  <2>1. h \in Guests /\ Carries(h)
    BY <1>1, <1>11, Places DEF FirstRunKilled, ExitThread, ExitDeleteThread, UnparkKilled,
                               Carries, HostInv, CpuHeld
  <2>2. /\ Killed \in -1..MaxUid /\ rec[me[h]].uid \in -1..MaxUid
        /\ rec[me[h]].delete_after \in BOOLEAN
    BY <1>1, <2>1, Fields, RunnerRecord, Constants DEF Killed
  <2> QED
    BY <1>1, <1>11, <2>1, <2>2, LeavePinInv
       DEF FirstRunKilled, ExitThread, ExitDeleteThread, UnparkKilled
<1>12. ASSUME NEW h \in Host, NEW s \in Slot, TerminateThread(h, s) PROVE PinInv'
  <2>1. /\ Others(s) /\ rec'[s].used = rec[s].used /\ rec'[s].uid = rec[s].uid
        /\ rec'[s].end_waiters = rec[s].end_waiters /\ rec'[s].exited = rec[s].exited
        /\ rec'[s].exit_status = rec[s].exit_status
    BY <1>1, <1>2, <1>12, TerminateEffect DEF TerminateThread
  <2>2. endWaits' = endWaits /\ \A g \in Guests : Carries(g) => Carries(g)'
    BY <1>12 DEF TerminateThread, hostVars, Carries
  <2> QED
    BY <1>1, <1>2, <2>1, <2>2, WaitsUntouched
<1>13. ASSUME NEW h \in Host, NEW s \in Slot, DeleteThread(h, s) PROVE PinInv'
  <2>1. /\ Others(s) /\ rec'[s].used = rec[s].live /\ rec'[s].uid = rec[s].uid
        /\ rec'[s].end_waiters = rec[s].end_waiters /\ rec'[s].exited = rec[s].exited
        /\ rec'[s].exit_status = rec[s].exit_status
    BY <1>1, <1>13, DeleteEffect
  <2>2. /\ rec[s].end_waiters = 0 /\ rec[s].used /\ endWaits' = endWaits
        /\ pc' = IF rec[s].live THEN pc ELSE Joined({s})
    BY <1>13 DEF DeleteThread, CarefulWithWaits
  <2>3. Pins(s) = {}
    BY <1>2, <2>2, NotPinned
  <2>4. \A g \in Guests : Carries(g) => Carries(g)'
    <3>1. CASE rec[s].live
      BY <2>2, <3>1 DEF Carries
    <3>2. CASE ~rec[s].live
      <4>1. {s} \in SUBSET Slot /\ \A t \in {s} : ~rec[t].live
        BY <3>2
      <4> QED
        BY <1>3, <2>2, <3>2, <4>1 DEF Carries
    <3> QED
      BY <3>1, <3>2
  <2>5. rec[s].used \in BOOLEAN /\ rec[s].live \in BOOLEAN
    BY <1>1, <1>2, Fields
  <2>6. ~rec'[s].used \/ rec'[s].used = rec[s].used
    BY <2>1, <2>2, <2>5
  <2> QED
    BY <1>1, <1>2, <2>1, <2>2, <2>3, <2>4, <2>6, WaitsUntouched
<1>14. ASSUME NEW h \in Host, NEW s \in Slot, SuspendThread(h, s) \/ ResumeThread(h, s)
       PROVE  PinInv'
  <2>1. PICK state \in {"ready", "suspended"} : rec' = [rec EXCEPT ![s].state = state]
    BY <1>14 DEF SuspendThread, ResumeThread, SetState
  <2>2. /\ Others(s) /\ rec'[s].used = rec[s].used /\ rec'[s].uid = rec[s].uid
        /\ rec'[s].end_waiters = rec[s].end_waiters /\ rec'[s].exited = rec[s].exited
        /\ rec'[s].exit_status = rec[s].exit_status
    BY <1>1, <1>2, <2>1, StateEffect
  <2>3. endWaits' = endWaits /\ \A g \in Guests : Carries(g) => Carries(g)'
    BY <1>14 DEF SuspendThread, ResumeThread, SetState, hostVars, Carries
  <2> QED
    BY <1>1, <1>2, <2>2, <2>3, WaitsUntouched
<1>15. ASSUME NEW h \in Host, NEW s \in Slot, NEW timed \in BOOLEAN, WaitThreadEnd(h, s, timed)
       PROVE  PinInv'
  BY <1>1, <1>15, PinComes
<1>16. ASSUME NEW h \in Host, WaitReturns(h) \/ WaitTimesOut(h) PROVE PinInv'
  BY <1>1, <1>16, PinGoes DEF WaitReturns, WaitTimesOut, Waiting
<1> QED
  BY <1>4, <1>5, <1>6, <1>7, <1>8, <1>9, <1>10, <1>11, <1>12, <1>13, <1>14, <1>15, <1>16 DEF Next

LEMMA PinInvariant == ASSUME CarefulWithWaits PROVE Spec => []PinInv
BY InitPinInv, NextPinInv, PTL DEF Spec

(* end_waiters counts the waits, whichever way they end, and while it is not zero
   neither reap_deleted_threads nor a careful guest's hle_DeleteThread gives the record
   to another thread. *)
THEOREM PinsAlwaysHold == ASSUME CarefulWithWaits PROVE Spec => []PinsHold
<1>1. PinInv => PinsHold
  BY DEF PinInv, PinsCounted, PinsHold
<1> QED
  BY <1>1, PinInvariant, PTL

(* However late the waiter gets the CPU, hle_WaitThreadEnd reports the status that the
   thread it was called for ended with. *)
THEOREM ExitStatusStaysTrue == ASSUME CarefulWithWaits PROVE Spec => ExitStatusTrue
<1>1. ASSUME PinInv, NEW h \in Host, WaitReturns(h)
      PROVE  rec[TopWait(h).slot].exit_status \in {TopWait(h).uid, Killed}
  <2>1. Typed /\ endWaits[h] # <<>> /\ rec[TopWait(h).slot].exited
    BY <1>1 DEF PinInv, HostInv, WaitReturns, Waiting
  <2>2. Len(endWaits[h]) \in DOMAIN endWaits[h]
    BY <2>1, WaitSeq
  <2>3. TopWait(h) = endWaits[h][Len(endWaits[h])] /\ TopWait(h).slot \in Slot
    BY <2>1, <2>2, WaitSeq DEF TopWait, WaitType
  <2>4. rec[TopWait(h).slot].used /\ rec[TopWait(h).slot].uid = TopWait(h).uid
    BY <1>1, <2>2, <2>3 DEF PinInv, PinnedRecordStays
  <2> QED
    BY <1>1, <2>1, <2>3, <2>4 DEF PinInv, StatusKept
<1>2. PinInv /\ [Next]_vars =>
          [\A h \in Host : WaitReturns(h) =>
               rec[TopWait(h).slot].exit_status \in {TopWait(h).uid, Killed}]_vars
  BY <1>1
<1> QED
  BY <1>2, PinInvariant, PTL DEF Spec, ExitStatusTrue
=============================================================================
