------------------------------- MODULE Threads -------------------------------
(***************************************************************************)
(* The life of a guest thread in src/hle/threadman.c, with real threads:   *)
(* the table of thread records, the host threads that carry them, their    *)
(* stacks, and create / start / exit / terminate / delete / wait-for-end.  *)
(*                                                                         *)
(* The CPU is the one of module OneCpu (Baton shows how it comes about): a *)
(* host thread that holds it runs an HLE call to the end or up to a park.  *)
(* Off the CPU a host thread does only two things: it waits for it, or,    *)
(* after its last release of the baton, it returns.                        *)
(*                                                                         *)
(* deliver_tick runs guest callbacks and interrupt handlers from inside a  *)
(* wait, so a thread whose WaitThreadEnd is not over may make any call,    *)
(* another WaitThreadEnd included.  (The code's guards on re-entrance make *)
(* some of these nestings impossible; here they are all allowed.)          *)
(***************************************************************************)
EXTENDS Integers, Sequences, FiniteSets, FiniteSetsExt

CONSTANTS NSlots,     \* MAX_THREADS - 1: records for guest threads
          NHosts,     \* host threads that may exist at once, the boot one apart
          NStacks,    \* stacks that fit in the heap
          MaxUid,     \* bound: threads created between two resets
          MaxNest,    \* bound: waits of one thread inside one another
          Liberties   \* what the guest is careless about, see below

(* deleteAwaited: deletes an ended thread that another still waits for;
   restartDeleted: starts a thread that left with ExitDeleteThread;
   suspendDormant: suspends or resumes a thread that is not running. *)
AllLiberties == {"deleteAwaited", "restartDeleted", "suspendDormant"}

ASSUME ThreadsAssumption == /\ {NSlots, NHosts, NStacks, MaxUid, MaxNest} \subseteq Nat
                            /\ Liberties \subseteq AllLiberties

Slot     == 1..NSlots
BootSlot == NSlots + 1            \* g_thread[MAX_THREADS - 1]
Record   == 1..BootSlot
Guests   == 1..NHosts
Boot     == 0
Host     == 0..NHosts
NoHost   == -1
BootUid  == 0                     \* UID_BASE - 1
Killed   == -1                    \* SCE_KERNEL_ERROR_THREAD_TERMINATED

VARIABLES rec,       \* g_thread
          nextUid,   \* g_next_uid
          heap,      \* the stacks SysMem has handed out
          cpu,       \* the host thread holding the CPU, or NoHost
          pc,        \* where each host thread is
          me,        \* g_tls_me: the record each host thread carries
          endWaits,  \* end_waits: the WaitThreadEnd calls each one is inside of, last on top
          hostUid    \* history: the uid the host thread was started for

vars == <<rec, nextUid, heap, cpu, pc, me, endWaits, hostUid>>
hostVars == <<pc, me, hostUid>>

(* A record after memset. *)
Blank == [used |-> FALSE, uid |-> -1, state |-> "dormant", stack |-> 0, live |-> FALSE,
          joinable |-> FALSE, host |-> Boot, exited |-> FALSE, terminated |-> FALSE,
          delete_after |-> FALSE, end_waiters |-> 0, exit_status |-> 0]

BootRecord == [Blank EXCEPT !.used = TRUE, !.uid = BootUid, !.state = "running"]

TypeOK ==
    /\ rec \in [Record -> [used : BOOLEAN, uid : -1..MaxUid,
                           state : {"dormant", "ready", "running", "suspended"},
                           stack : 0..NStacks, live : BOOLEAN, joinable : BOOLEAN,
                           host : Host, exited : BOOLEAN, terminated : BOOLEAN,
                           delete_after : BOOLEAN, end_waiters : Nat,
                           exit_status : -1..MaxUid]]
    /\ nextUid \in 1..MaxUid + 1
    /\ heap \subseteq 1..NStacks
    /\ cpu \in Host \cup {NoHost}
    /\ pc \in [Host -> {"none", "created", "cpu", "parked", "leaving", "ended"}]
    /\ me \in [Host -> Record]
    /\ endWaits \in [Host -> Seq([slot : Record, uid : -1..MaxUid, timed : BOOLEAN])]
    /\ hostUid \in [Host -> 0..MaxUid]

(* psp_threadman_reset and boot_record: the caller carries the boot record and
   holds the CPU. *)
Init == /\ rec = [s \in Record |-> IF s = BootSlot THEN BootRecord ELSE Blank]
        /\ nextUid = 1
        /\ heap = {}
        /\ cpu = Boot
        /\ pc = [h \in Host |-> IF h = Boot THEN "cpu" ELSE "none"]
        /\ me = [h \in Host |-> BootSlot]
        /\ endWaits = [h \in Host |-> <<>>]
        /\ hostUid = [h \in Host |-> 0]

-----------------------------------------------------------------------------
(* host_thread_join returns once the host thread has. *)
CanJoin(s) == rec[s].joinable => pc[rec[s].host] = "ended"

(* The host threads after joining those of the records in S. *)
Joined(S) == [h \in Host |-> IF \E s \in S : rec[s].joinable /\ rec[s].host = h
                             THEN "none" ELSE pc[h]]

(* reap_deleted_threads: what it frees. *)
Reapable == {s \in Slot : /\ rec[s].used /\ rec[s].delete_after /\ rec[s].exited
                          /\ rec[s].end_waiters = 0
                          /\ ~rec[s].live}

Reaped == [s \in Record |-> IF s \in Reapable
                            THEN [rec[s] EXCEPT !.used = FALSE, !.joinable = FALSE]
                            ELSE rec[s]]

(* Mutant: the record is not cleared of how its last thread ended. *)
CreateThreadStale(h) ==
    /\ cpu = h
    /\ \A s \in Reapable : CanJoin(s)
    /\ pc' = Joined(Reapable)
    /\ LET free  == {s \in Slot : ~Reaped[s].used}
           room  == (1..NStacks) \ heap
           s     == Min(free)
       IN \/ /\ free = {}
             /\ rec' = Reaped
             /\ UNCHANGED <<nextUid, heap>>
          \/ /\ free # {} /\ room = {}
             /\ rec' = [Reaped EXCEPT ![s] = Blank]
             /\ UNCHANGED <<nextUid, heap>>
          \/ /\ free # {} /\ room # {}
             /\ nextUid <= MaxUid
             /\ rec' = [Reaped EXCEPT ![s] = [Blank EXCEPT !.used = TRUE, !.uid = nextUid,
                                                           !.stack = Max(room),
                                                           !.exited = Reaped[s].exited,
                                                           !.exit_status = Reaped[s].exit_status]]
             /\ heap' = heap \cup {Max(room)}
             /\ nextUid' = nextUid + 1
    /\ UNCHANGED <<cpu, me, endWaits, hostUid>>

(* hle_CreateThread: reap, the first free record, a stack from the top of the
   heap.  Out of records or out of memory, only the reaping (and the clearing of
   a record that stays unused) has happened. *)
CreateThread(h) ==
    /\ cpu = h
    /\ \A s \in Reapable : CanJoin(s)
    /\ pc' = Joined(Reapable)
    /\ LET free  == {s \in Slot : ~Reaped[s].used}
           room  == (1..NStacks) \ heap
           s     == Min(free)
       IN \/ /\ free = {}
             /\ rec' = Reaped
             /\ UNCHANGED <<nextUid, heap>>
          \/ /\ free # {} /\ room = {}
             /\ rec' = [Reaped EXCEPT ![s] = Blank]
             /\ UNCHANGED <<nextUid, heap>>
          \/ /\ free # {} /\ room # {}
             /\ nextUid <= MaxUid
             /\ rec' = [Reaped EXCEPT ![s] = [Blank EXCEPT !.used = TRUE, !.uid = nextUid,
                                                           !.stack = Max(room)]]
             /\ heap' = heap \cup {Max(room)}
             /\ nextUid' = nextUid + 1
    /\ UNCHANGED <<cpu, me, endWaits, hostUid>>

(* What hle_StartThread requires of the record, and the guest of itself. *)
MayStart(h, s) == /\ cpu = h
                  /\ rec[s].used
                  /\ ~rec[s].live
                  /\ CanJoin(s)
                  /\ rec[s].stack # 0 \/ "restartDeleted" \in Liberties

(* The host threads that exist no more once the previous one of s is joined; which
   of them is created anew does not matter. *)
FreeHosts(s) == {n \in Guests : Joined({s})[n] = "none"}
NewHost(s)   == Min(FreeHosts(s))

(* hle_StartThread: join the previous host thread, clear the flags of the
   previous run, create a host thread that will wait for the CPU. *)
StartThread(h, s) ==
    /\ MayStart(h, s)
    /\ FreeHosts(s) # {}
    /\ pc' = [Joined({s}) EXCEPT ![NewHost(s)] = "created"]
    /\ me' = [me EXCEPT ![NewHost(s)] = s]
    /\ hostUid' = [hostUid EXCEPT ![NewHost(s)] = rec[s].uid]
    /\ rec' = [rec EXCEPT ![s].state = "ready", ![s].joinable = TRUE, ![s].live = TRUE,
                          ![s].host = NewHost(s), ![s].exited = FALSE, ![s].terminated = FALSE,
                          ![s].delete_after = FALSE]
    /\ UNCHANGED <<nextUid, heap, cpu, endWaits>>

(* Mutant: the record still asks for a join of the host thread joined just now. *)
StartThreadFailsTwice(h, s) ==
    /\ MayStart(h, s)
    /\ pc' = Joined({s})
    /\ rec' = [rec EXCEPT ![s].state = "dormant",
                          ![s].exited = FALSE, ![s].terminated = FALSE,
                          ![s].delete_after = FALSE]
    /\ UNCHANGED <<nextUid, heap, cpu, me, endWaits, hostUid>>

(* The same when host_thread_create fails. *)
StartThreadFails(h, s) ==
    /\ MayStart(h, s)
    /\ pc' = Joined({s})
    /\ rec' = [rec EXCEPT ![s].state = "dormant", ![s].joinable = FALSE,
                          ![s].exited = FALSE, ![s].terminated = FALSE,
                          ![s].delete_after = FALSE]
    /\ UNCHANGED <<nextUid, heap, cpu, me, endWaits, hostUid>>

(* How many of the waits that h is inside of pin record s. *)
PinsBy(h, s) == Cardinality({i \in DOMAIN endWaits[h] : endWaits[h][i].slot = s})

(* Mutant: thread_unwind lets go of the innermost wait only. *)
UnwoundTopOnly(h) ==
    [s \in Record |-> IF endWaits[h] # <<>> /\ endWaits[h][Len(endWaits[h])].slot = s
                      THEN [rec[s] EXCEPT !.end_waiters = @ - 1] ELSE rec[s]]

(* thread_unwind: every wait the thread was inside of lets go of its record. *)
Unwound(h) == [s \in Record |-> [rec[s] EXCEPT !.end_waiters = @ - PinsBy(h, s)]]

(* Mutant: the stack is released but the record still points at it. *)
LeaveStaleStack(h, status, delete) ==
    LET s == me[h]
        r == Unwound(h)
    IN /\ rec' = [r EXCEPT ![s].exited = TRUE, ![s].state = "dormant", ![s].live = FALSE,
                           ![s].exit_status = status, ![s].delete_after = delete]
       /\ heap' = IF delete THEN heap \ {rec[s].stack} ELSE heap
       /\ pc' = [pc EXCEPT ![h] = "leaving"]
       /\ cpu' = NoHost
       /\ endWaits' = [endWaits EXCEPT ![h] = <<>>]
       /\ me' = [me EXCEPT ![h] = BootSlot]
       /\ hostUid' = [hostUid EXCEPT ![h] = 0]
       /\ UNCHANGED nextUid

(* thread_unwind and the tail of guest_thread_main: h ends with that status,
   frees its stack if it is to be deleted, and gives the CPU away. *)
Leave(h, status, delete) ==
    LET s == me[h]
        r == Unwound(h)
    IN /\ rec' = [r EXCEPT ![s].exited = TRUE, ![s].state = "dormant", ![s].live = FALSE,
                           ![s].exit_status = status, ![s].delete_after = delete,
                           ![s].stack = IF delete THEN 0 ELSE @]
       /\ heap' = IF delete THEN heap \ {rec[s].stack} ELSE heap
       /\ pc' = [pc EXCEPT ![h] = "leaving"]
       /\ cpu' = NoHost
       /\ endWaits' = [endWaits EXCEPT ![h] = <<>>]
       /\ me' = [me EXCEPT ![h] = BootSlot]
       /\ hostUid' = [hostUid EXCEPT ![h] = 0]
       /\ UNCHANGED nextUid

(* Mutant: no check_terminated before the entry is called. *)
FirstRunUnchecked(h) == /\ pc[h] = "created"
                        /\ cpu = NoHost
                        /\ cpu' = h
                        /\ pc' = [pc EXCEPT ![h] = "cpu"]
                        /\ rec' = [rec EXCEPT ![me[h]].state = "running"]
                        /\ UNCHANGED <<nextUid, heap, me, endWaits, hostUid>>

(* The head of guest_thread_main, up to the call of the guest's entry. *)
FirstRun(h) == /\ pc[h] = "created"
               /\ cpu = NoHost
               /\ ~rec[me[h]].terminated
               /\ cpu' = h
               /\ pc' = [pc EXCEPT ![h] = "cpu"]
               /\ rec' = [rec EXCEPT ![me[h]].state = "running"]
               /\ UNCHANGED <<nextUid, heap, me, endWaits, hostUid>>

(* The same for a thread that was terminated before its first turn. *)
FirstRunKilled(h) == /\ pc[h] = "created"
                     /\ cpu = NoHost
                     /\ rec[me[h]].terminated
                     /\ Leave(h, Killed, rec[me[h]].delete_after)

(* hle_ExitThread, or a return from the entry.  Called from the module entry,
   which has nothing to unwind to, it does nothing.  hle_ExitDeleteThread also
   marks the record; nothing ever reads the mark of the boot record. *)
ExitThread(h) == /\ cpu = h /\ h # Boot
                 /\ Leave(h, rec[me[h]].uid, rec[me[h]].delete_after)

ExitDeleteThread(h) == /\ cpu = h /\ h # Boot
                       /\ Leave(h, rec[me[h]].uid, TRUE)

(* The host thread returns from baton_release and ends. *)
HostEnds(h) == /\ pc[h] = "leaving"
               /\ pc' = [pc EXCEPT ![h] = "ended"]
               /\ UNCHANGED <<rec, nextUid, heap, cpu, me, endWaits, hostUid>>

(* hle_TerminateThread: a request; the target notices when it next has the CPU. *)
TerminateThread(h, s) == /\ cpu = h
                         /\ rec[s].used
                         /\ s # me[h]
                         /\ rec' = [rec EXCEPT ![s].terminated = TRUE]
                         /\ UNCHANGED <<nextUid, heap, cpu, hostVars, endWaits>>

(* Mutant: deletion does not look at host_live. *)
DeleteThreadLive(h, s) ==
    /\ cpu = h
    /\ rec[s].used
    /\ rec[s].end_waiters = 0 \/ "deleteAwaited" \in Liberties
    /\ LET frees == rec[s].state = "dormant"
       IN /\ heap' = IF frees THEN heap \ {rec[s].stack} ELSE heap
          /\ rec' = [rec EXCEPT ![s].stack = IF frees THEN 0 ELSE @,
                                ![s].joinable = FALSE,
                                ![s].used = FALSE]
    /\ UNCHANGED <<nextUid, cpu, pc, me, endWaits, hostUid>>

(* hle_DeleteThread: the stack of a dormant thread, and the record unless a host
   thread is still carrying it. *)
DeleteThread(h, s) ==
    /\ cpu = h
    /\ rec[s].used
    /\ rec[s].end_waiters = 0 \/ "deleteAwaited" \in Liberties
    /\ rec[s].live \/ CanJoin(s)
    /\ LET frees == rec[s].state = "dormant"
       IN /\ heap' = IF frees THEN heap \ {rec[s].stack} ELSE heap
          /\ rec' = [rec EXCEPT ![s].stack = IF frees THEN 0 ELSE @,
                                ![s].joinable = @ /\ rec[s].live,
                                ![s].used = rec[s].live]
    /\ pc' = IF rec[s].live THEN pc ELSE Joined({s})
    /\ UNCHANGED <<nextUid, cpu, me, endWaits, hostUid>>

(* hle_SuspendThread and hle_ResumeThread change what the record says, not who runs. *)
SetState(h, s, state) == /\ cpu = h
                         /\ rec[s].used
                         /\ rec[s].live \/ "suspendDormant" \in Liberties
                         /\ rec' = [rec EXCEPT ![s].state = state]
                         /\ UNCHANGED <<nextUid, heap, cpu, hostVars, endWaits>>

SuspendThread(h, s) == SetState(h, s, "suspended")
ResumeThread(h, s)  == SetState(h, s, "ready")

(* wait_thread_end up to its wait_loop: pin the record, remember the wait. *)
WaitThreadEnd(h, s, timed) ==
    /\ cpu = h
    /\ rec[s].used
    /\ Len(endWaits[h]) < MaxNest
    /\ rec' = [rec EXCEPT ![s].end_waiters = @ + 1]
    /\ endWaits' = [endWaits EXCEPT ![h] = Append(@, [slot |-> s, uid |-> rec[s].uid,
                                                      timed |-> timed])]
    /\ UNCHANGED <<nextUid, heap, cpu, hostVars>>

Waiting(h) == cpu = h /\ endWaits[h] # <<>>
TopWait(h) == endWaits[h][Len(endWaits[h])]

(* others_alive *)
OthersAlive(h) == \E s \in Record : s # me[h] /\ rec[s].live /\ ~rec[s].exited

(* wait_thread_end after its wait_loop. *)
LetGo(h) == /\ rec' = [rec EXCEPT ![TopWait(h).slot].end_waiters = @ - 1]
            /\ endWaits' = [endWaits EXCEPT ![h] = SubSeq(@, 1, Len(@) - 1)]
            /\ UNCHANGED <<nextUid, heap, cpu, hostVars>>

(* wait_loop finds end_reached: the wait returns OK with the exit status. *)
WaitReturns(h) == /\ Waiting(h)
                  /\ rec[TopWait(h).slot].exited
                  /\ LetGo(h)

(* wait_loop gives up: at the guest's deadline, or, without one, after
   WAIT_TICKS_MAX ticks with no other guest alive. *)
WaitTimesOut(h) == /\ Waiting(h)
                   /\ ~rec[TopWait(h).slot].exited
                   /\ TopWait(h).timed \/ ~OthersAlive(h)
                   /\ LetGo(h)

(* A park of any kind: in wait_loop, DelayThread, SleepThread, a frame wait. *)
Park(h) == /\ cpu = h
           /\ cpu' = NoHost
           /\ pc' = [pc EXCEPT ![h] = "parked"]
           /\ UNCHANGED <<rec, nextUid, heap, me, endWaits, hostUid>>

(* park_us takes the CPU back, park_for finds no request to end (the boot thread
   has nothing to unwind to and ignores one). *)
Unpark(h) == /\ pc[h] = "parked"
             /\ cpu = NoHost
             /\ h = Boot \/ ~rec[me[h]].terminated
             /\ cpu' = h
             /\ pc' = [pc EXCEPT ![h] = "cpu"]
             /\ UNCHANGED <<rec, nextUid, heap, me, endWaits, hostUid>>

(* check_terminated after a park: the thread is unwound. *)
UnparkKilled(h) == /\ pc[h] = "parked"
                   /\ cpu = NoHost
                   /\ h # Boot
                   /\ rec[me[h]].terminated
                   /\ Leave(h, Killed, rec[me[h]].delete_after)

(* psp_threadman_reset, with psp_sysmem_reset as its users pair it: only with no
   guest alive (it aborts otherwise), from the boot thread outside any wait. *)
Reset == /\ cpu = Boot
         /\ endWaits[Boot] = <<>>
         /\ \A s \in Slot : ~rec[s].live /\ CanJoin(s)
         /\ rec' = [s \in Record |-> IF s = BootSlot THEN BootRecord ELSE Blank]
         /\ pc' = Joined(Slot)
         /\ nextUid' = 1
         /\ heap' = {}
         /\ UNCHANGED <<cpu, me, endWaits, hostUid>>

Next == \/ Reset
        \/ \E h \in Host :
              \/ CreateThread(h)
              \/ \E s \in Slot : StartThread(h, s)
              \/ \E s \in Slot : StartThreadFails(h, s)
              \/ FirstRun(h)
              \/ FirstRunKilled(h)
              \/ ExitThread(h)
              \/ ExitDeleteThread(h)
              \/ HostEnds(h)
              \/ \E s \in Slot : TerminateThread(h, s)
              \/ \E s \in Slot : DeleteThread(h, s)
              \/ \E s \in Slot : SuspendThread(h, s)
              \/ \E s \in Slot : ResumeThread(h, s)
              \/ \E s \in Slot, timed \in BOOLEAN : WaitThreadEnd(h, s, timed)
              \/ WaitReturns(h)
              \/ WaitTimesOut(h)
              \/ Park(h)
              \/ Unpark(h)
              \/ UnparkKilled(h)

Spec == Init /\ [][Next]_vars

-----------------------------------------------------------------------------
Carries(h) == pc[h] \in {"created", "cpu", "parked"}
Left(h)    == pc[h] \in {"leaving", "ended"}

(* The record of a host thread outlives it: while a host thread is alive its
   record is in use, still belongs to the thread it was started for, and knows it
   - so no two host threads ever share one; and when it has given the CPU away for the
   last time there is a record through which it can be joined until it has been.
   (reap_deleted_threads, hle_DeleteThread and hle_StartThread against
   guest_thread_main.) *)
RecordOutlivesHost ==
    \A h \in Guests :
        /\ Carries(h) =>
              LET r == rec[me[h]] IN r.used /\ r.live /\ r.host = h /\ r.uid = hostUid[h]
        /\ Left(h) => \E s \in Slot : rec[s].used /\ rec[s].joinable /\ rec[s].host = h

(* host_thread_join is called by whoever holds the CPU; it never waits for a host
   thread that still needs the CPU in order to end. *)
JoinNeverDeadlocks ==
    \A s \in Slot : rec[s].used /\ rec[s].joinable /\ ~rec[s].live =>
                        pc[rec[s].host] \in {"leaving", "ended"}

(* A thread another thread has terminated never returns to the guest
   (check_terminated, after every park and before the entry). *)
TerminatedNeverRuns == \A h \in Guests : cpu = h => ~rec[me[h]].terminated

(* "Pins a record while WaitThreadEnd parks" (psp_thread.end_waiters): the record
   that a WaitThreadEnd looks at is that of the thread it was called for. *)
PinnedRecordStays ==
    \A h \in Host : \A i \in DOMAIN endWaits[h] :
        LET w == endWaits[h][i] IN rec[w.slot].used /\ rec[w.slot].uid = w.uid

(* The WaitThreadEnd calls inside their wait for record s: whose, and how deep. *)
Pins(s) == {p \in Host \X (1..MaxNest) : /\ p[2] \in DOMAIN endWaits[p[1]]
                                         /\ endWaits[p[1]][p[2]].slot = s}

(* Pins hold a record and hold nothing else: the pins of a record are the WaitThreadEnd
   calls inside their wait for it, whichever way the others ended - by returning, by a
   timeout, or unwound with their thread - and the record stays while there is one. *)
PinsHold == /\ \A s \in Record : rec[s].end_waiters = Cardinality(Pins(s))
            /\ PinnedRecordStays

(* What WaitThreadEnd reports as a thread's exit status is one that this thread
   ended with - its own, or that it was terminated - however late the waiter gets
   the CPU. *)
ExitStatusTrue ==
    [][\A h \in Host : WaitReturns(h) =>
           rec[TopWait(h).slot].exit_status \in {TopWait(h).uid, Killed}]_vars

(* Stacks are exactly accounted for over the three paths that release them (exit,
   delete, reap): "A running thread keeps its stack: it is still using it"
   (hle_DeleteThread), two threads never share one, and what is allocated is what the
   threads that exist have - deleting them frees it (docs/THREADING.md, on reset). *)
StacksExact ==
    LET owners == {s \in Slot : rec[s].used /\ rec[s].stack # 0}
    IN /\ \A h \in Guests : Carries(h) => rec[me[h]].stack # 0
       /\ \A s, t \in owners : s # t => rec[s].stack # rec[t].stack
       /\ heap = {rec[s].stack : s \in owners}
=============================================================================
