----------------------------- MODULE BatonProofs -----------------------------
(***************************************************************************)
(* Proofs about module Baton, for every number of host threads, every set  *)
(* of register values, and however often the handover deadline passes.     *)
(***************************************************************************)
EXTENDS Baton, TLAPS

USE DEF Place, Parking

(* psp_threadman_reset establishes the invariant. *)
LEMMA InitIInv == Init => IInv
  <1> SUFFICES ASSUME Init PROVE IInv
    OBVIOUS
  <1>1. TypeOK
    BY BatonAssumption DEF Init, TypeOK, Counted
  <1>2. MutualExclusion
    BY BatonAssumption DEF Init, MutualExclusion
  <1>3. PendingExact
    BY DEF Init, PendingExact
  <1> QED BY <1>1, <1>2, <1>3 DEF IInv

(* The tail of park_us keeps the invariant wherever it is reached from, as long
   as the baton is free. *)
LEMMA ResumeIInv ==
  ASSUME IInv, NEW h \in Host, pc[h] \in Parking, ~owned,
         NEW c \in Counted, Resume(h, c)
  PROVE  IInv'
  <1>1. TypeOK'
    BY DEF IInv, TypeOK, Resume, Ran
  <1>2. MutualExclusion'
    BY BatonAssumption DEF IInv, TypeOK, MutualExclusion, Resume
  <1>3. PendingExact'
    BY DEF IInv, TypeOK, PendingExact, Resume
  <1> QED BY <1>1, <1>2, <1>3 DEF IInv

(* Every step keeps the invariant. *)
LEMMA NextIInv == IInv /\ [Next]_vars => IInv'
  <1> SUFFICES ASSUME IInv, [Next]_vars PROVE IInv'
    OBVIOUS
  <1>1. CASE UNCHANGED vars
    BY <1>1 DEF vars, IInv, TypeOK, MutualExclusion, PendingExact
  <1>2. ASSUME NEW h \in Host, NEW n \in Host, Start(h, n) PROVE IInv'
    <2>1. TypeOK'
      BY <1>2 DEF IInv, TypeOK, Start, parkVars
    <2>2. MutualExclusion'
      BY <1>2 DEF IInv, TypeOK, MutualExclusion, Start
    <2>3. PendingExact'
      BY <1>2 DEF IInv, TypeOK, PendingExact, Start
    <2> QED BY <2>1, <2>2, <2>3 DEF IInv
  <1>3. ASSUME NEW h \in Host, Enqueue(h) PROVE IInv'
    <2>1. TypeOK'
      BY <1>3 DEF IInv, TypeOK, Enqueue, parkVars
    <2>2. MutualExclusion'
      BY <1>3 DEF IInv, TypeOK, MutualExclusion, Enqueue
    <2>3. PendingExact'
      BY <1>3 DEF IInv, TypeOK, PendingExact, Enqueue
    <2> QED BY <2>1, <2>2, <2>3 DEF IInv
  <1>4. ASSUME NEW h \in Host, Acquire(h) PROVE IInv'
    <2>1. TypeOK'
      BY <1>4, BatonAssumption DEF IInv, TypeOK, Acquire, Ran
    <2>2. MutualExclusion'
      BY <1>4, BatonAssumption DEF IInv, TypeOK, MutualExclusion, Acquire
    <2>3. PendingExact'
      BY <1>4 DEF IInv, TypeOK, PendingExact, Acquire
    <2> QED BY <2>1, <2>2, <2>3 DEF IInv
  <1>5. ASSUME NEW h \in Host, Compute(h) PROVE IInv'
    BY <1>5 DEF IInv, TypeOK, MutualExclusion, PendingExact, Compute, parkVars
  <1>6. ASSUME NEW h \in Host, Park(h) PROVE IInv'
    <2>1. TypeOK'
      BY <1>6 DEF IInv, TypeOK, Park
    <2>2. MutualExclusion'
      BY <1>6, BatonAssumption DEF IInv, TypeOK, MutualExclusion, Park
    <2>3. PendingExact'
      BY <1>6 DEF IInv, TypeOK, PendingExact, Park
    <2> QED BY <2>1, <2>2, <2>3 DEF IInv
  <1>7. ASSUME NEW h \in Host, Unpark(h) PROVE IInv'
    <2>1. PICK c \in Counted : Resume(h, c)
      BY <1>7 DEF Unpark, Counted
    <2> QED BY <1>7, <2>1, ResumeIInv DEF Unpark, CpuWanted
  <1>8. ASSUME NEW h \in Host, Handover(h) PROVE IInv'
    <2>1. TypeOK'
      BY <1>8 DEF IInv, TypeOK, Handover, parkVars
    <2>2. MutualExclusion'
      BY <1>8 DEF IInv, TypeOK, MutualExclusion, Handover
    <2>3. PendingExact'
      BY <1>8 DEF IInv, TypeOK, PendingExact, Handover
    <2> QED BY <2>1, <2>2, <2>3 DEF IInv
  <1>9. ASSUME NEW h \in Host, HandoverDone(h) PROVE IInv'
    BY <1>9, ResumeIInv DEF HandoverDone, CpuWanted, Counted
  <1>10. ASSUME NEW h \in Host, HandoverExpire(h) PROVE IInv'
    <2>1. TypeOK'
      BY <1>10 DEF IInv, TypeOK, HandoverExpire, parkVars
    <2>2. MutualExclusion'
      BY <1>10 DEF IInv, TypeOK, MutualExclusion, HandoverExpire
    <2>3. PendingExact'
      BY <1>10 DEF IInv, TypeOK, PendingExact, HandoverExpire
    <2> QED BY <2>1, <2>2, <2>3 DEF IInv
  <1>11. ASSUME NEW h \in Host, Retake(h) PROVE IInv'
    BY <1>11, ResumeIInv DEF Retake, Counted
  <1>12. ASSUME NEW h \in Host, Exit(h) PROVE IInv'
    <2>1. TypeOK'
      BY <1>12 DEF IInv, TypeOK, Exit, parkVars
    <2>2. MutualExclusion'
      BY <1>12, BatonAssumption DEF IInv, TypeOK, MutualExclusion, Exit
    <2>3. PendingExact'
      BY <1>12 DEF IInv, TypeOK, PendingExact, Exit
    <2> QED BY <2>1, <2>2, <2>3 DEF IInv
  <1> QED
    BY <1>1, <1>2, <1>3, <1>4, <1>5, <1>6, <1>7, <1>8, <1>9, <1>10, <1>11, <1>12 DEF Next

(* The invariant of baton_acquire, park_us and guest_thread_main. *)
LEMMA BatonInvariant == Spec => []IInv
  BY InitIInv, NextIInv, PTL DEF Spec

(* The baton of threadman.c is a mutual exclusion: never two host threads in
   guest code, g_baton_owned and g_current always telling who it is. *)
THEOREM BatonExcludes == Spec => []MutualExclusion
  <1>1. IInv => MutualExclusion
    BY DEF IInv
  <1> QED BY <1>1, BatonInvariant, PTL

(* cpu_pending marks exactly the threads that were started and never ran. *)
THEOREM PendingIsExact == Spec => []PendingExact
  <1>1. IInv => PendingExact
    BY DEF IInv
  <1> QED BY <1>1, BatonInvariant, PTL

(* The handover of park_us: unless the deadline passes, nobody takes the CPU
   back before every started thread has had its first turn. *)
THEOREM HandoverHolds == Spec => StartedRunsFirst
  <1> DEFINE First == \A h \in Host : pc[h] \in {"parked", "handover"} /\ pc'[h] = "cpu" =>
                          \A n \in Host : pc[n] \notin {"starting", "queued"}
  <1>1. IInv /\ [Next]_vars => [First]_vars
    <2> SUFFICES ASSUME IInv, [Next]_vars, ~UNCHANGED vars,
                        NEW h \in Host, pc[h] \in {"parked", "handover"}, pc'[h] = "cpu"
                 PROVE  \A n \in Host : pc[n] \notin {"starting", "queued"}
      OBVIOUS
    <2>1. Unpark(h) \/ HandoverDone(h)
      BY DEF IInv, TypeOK, Next, Start, Enqueue, Acquire, Compute, Park, Unpark, Handover,
             HandoverDone, HandoverExpire, Retake, Exit, Resume
    <2> QED BY <2>1 DEF IInv, PendingExact, Unpark, HandoverDone, CpuWanted
  <1> QED BY <1>1, BatonInvariant, PTL DEF Spec, StartedRunsFirst

(* What a thread in the middle of a park can tell from the baton: if it is owned, if
   it was acquired, or if a handover has nothing left to wait for, another thread
   had the CPU.  A thread that never ran has no park to count. *)
ParksSeen ==
    \A h \in Host :
        /\ pc[h] \in Parking => /\ owned => othersRan[h]
                                /\ takes # takes0[h] => othersRan[h]
                                /\ pc[h] = "handover" /\ ~CpuWanted => othersRan[h]
        /\ pc[h] \in {"unborn", "starting", "queued"} => handed[h] = "no"

(* Counting a park as a handover keeps the count sound when the caller of the tail
   of park_us has seen another thread run. *)
LEMMA ResumeSound ==
  ASSUME IInv, ParksSeen, HandoverSound, NEW h \in Host, pc[h] \in Parking, ~owned,
         NEW c \in Counted, Resume(h, c), c = "yes" => othersRan[h]
  PROVE  ParksSeen' /\ HandoverSound'
  <1>1. ParksSeen'
    BY DEF IInv, TypeOK, ParksSeen, Resume, Ran
  <1>2. HandoverSound'
    BY DEF IInv, TypeOK, HandoverSound, Resume, Ran
  <1> QED BY <1>1, <1>2

(* Every step keeps ParksSeen and HandoverSound. *)
LEMMA NextSound == IInv /\ ParksSeen /\ HandoverSound /\ [Next]_vars => ParksSeen' /\ HandoverSound'
  <1> SUFFICES ASSUME IInv, ParksSeen, HandoverSound, [Next]_vars
               PROVE  ParksSeen' /\ HandoverSound'
    OBVIOUS
  <1>1. CASE UNCHANGED vars
    BY <1>1 DEF vars, ParksSeen, HandoverSound, CpuWanted, Queued
  <1>2. ASSUME NEW h \in Host, NEW n \in Host, Start(h, n) PROVE ParksSeen' /\ HandoverSound'
    BY <1>2 DEF IInv, TypeOK, ParksSeen, HandoverSound, MutualExclusion, Start, parkVars, CpuWanted
  <1>3. ASSUME NEW h \in Host, Enqueue(h) PROVE ParksSeen' /\ HandoverSound'
    BY <1>3 DEF IInv, TypeOK, ParksSeen, HandoverSound, Enqueue, parkVars, CpuWanted
  <1>4. ASSUME NEW h \in Host, Acquire(h) PROVE ParksSeen' /\ HandoverSound'
    <2>1. ParksSeen'
      BY <1>4 DEF IInv, TypeOK, ParksSeen, Acquire, Ran
    <2>2. HandoverSound'
      BY <1>4 DEF IInv, TypeOK, MutualExclusion, ParksSeen, HandoverSound, Acquire, Ran
    <2> QED BY <2>1, <2>2
  <1>5. ASSUME NEW h \in Host, Compute(h) PROVE ParksSeen' /\ HandoverSound'
    BY <1>5 DEF ParksSeen, HandoverSound, Compute, parkVars, CpuWanted, Queued
  <1>6. ASSUME NEW h \in Host, Park(h) PROVE ParksSeen' /\ HandoverSound'
    <2>1. ParksSeen'
      BY <1>6 DEF IInv, TypeOK, MutualExclusion, ParksSeen, Park
    <2>2. HandoverSound'
      BY <1>6 DEF IInv, TypeOK, HandoverSound, Park
    <2> QED BY <2>1, <2>2
  <1>7. ASSUME NEW h \in Host, Unpark(h) PROVE ParksSeen' /\ HandoverSound'
    <2>1. PICK c \in Counted : Resume(h, c) /\ (c = "yes" => takes # takes0[h])
      BY <1>7 DEF Unpark, Counted
    <2>2. c = "yes" => othersRan[h]
      BY <1>7, <2>1 DEF Unpark, ParksSeen
    <2> QED BY <1>7, <2>1, <2>2, ResumeSound DEF Unpark, CpuWanted
  <1>8. ASSUME NEW h \in Host, Handover(h) PROVE ParksSeen' /\ HandoverSound'
    BY <1>8 DEF IInv, TypeOK, ParksSeen, HandoverSound, Handover, parkVars, CpuWanted, Queued
  <1>9. ASSUME NEW h \in Host, HandoverDone(h) PROVE ParksSeen' /\ HandoverSound'
    <2>1. othersRan[h]
      BY <1>9 DEF HandoverDone, ParksSeen
    <2>2. pc[h] \in Parking /\ ~owned /\ Resume(h, "yes") /\ "yes" \in Counted
      BY <1>9 DEF HandoverDone, CpuWanted, Counted
    <2> QED BY <2>1, <2>2, ResumeSound
  <1>10. ASSUME NEW h \in Host, HandoverExpire(h) PROVE ParksSeen' /\ HandoverSound'
    BY <1>10 DEF IInv, TypeOK, ParksSeen, HandoverSound, HandoverExpire, parkVars, CpuWanted, Queued
  <1>11. ASSUME NEW h \in Host, Retake(h) PROVE ParksSeen' /\ HandoverSound'
    <2>1. pc[h] \in Parking /\ ~owned /\ Resume(h, "expired") /\ "expired" \in Counted
      BY <1>11 DEF Retake, Counted
    <2> QED BY <2>1, ResumeSound
  <1>12. ASSUME NEW h \in Host, Exit(h) PROVE ParksSeen' /\ HandoverSound'
    BY <1>12 DEF IInv, TypeOK, MutualExclusion, ParksSeen, HandoverSound, Exit, parkVars
  <1> QED
    BY <1>1, <1>2, <1>3, <1>4, <1>5, <1>6, <1>7, <1>8, <1>9, <1>10, <1>11, <1>12 DEF Next

(* psp_threadman_handovers never counts a park during which nobody else had the CPU,
   the ones that ran into the deadline excepted. *)
THEOREM HandoversAreReal == Spec => []HandoverSound
  <1>1. Init => ParksSeen /\ HandoverSound
    BY BatonAssumption DEF Init, ParksSeen, HandoverSound
  <1> QED BY <1>1, NextSound, BatonInvariant, PTL DEF Spec

(* The initial state of Baton is the initial state of the abstract machine. *)
LEMMA InitRefines == Init => CpuView!Init
  BY BatonAssumption DEF Init, CpuView!Init, RegsOf

(* Taking the CPU back is an abstract dispatch: the registers are the ones that
   the thread's park put aside. *)
LEMMA ResumeRefines ==
  ASSUME IInv, NEW h \in Host, pc[h] \in Parking, ~owned,
         NEW c \in Counted, Resume(h, c)
  PROVE  CpuView!Dispatch(h)
  <1>1. current = NoHost
    BY DEF IInv, TypeOK, MutualExclusion
  <1>2. RegsOf' = RegsOf
    BY DEF IInv, TypeOK, MutualExclusion, Resume, RegsOf
  <1> QED BY <1>1, <1>2 DEF CpuView!Dispatch, Resume

(* Every step of the baton is a step of the abstract machine, or none. *)
LEMMA NextRefines == IInv /\ IInv' /\ [Next]_vars => [CpuView!Next]_(CpuView!vars)
  <1> SUFFICES ASSUME IInv, IInv', [Next]_vars
               PROVE  CpuView!Next \/ (current' = current /\ RegsOf' = RegsOf)
    BY DEF CpuView!vars
  <1>1. CASE UNCHANGED vars
    BY <1>1 DEF vars, RegsOf
  <1>2. ASSUME NEW h \in Host, NEW n \in Host, Start(h, n)
        PROVE  current' = current /\ RegsOf' = RegsOf
    BY <1>2 DEF IInv, TypeOK, Start, RegsOf
  <1>3. ASSUME NEW h \in Host, Enqueue(h)
        PROVE  current' = current /\ RegsOf' = RegsOf
    BY <1>3 DEF IInv, TypeOK, Enqueue, RegsOf
  <1>4. ASSUME NEW h \in Host, Acquire(h) PROVE CpuView!Dispatch(h)
    <2>1. current = NoHost
      BY <1>4 DEF IInv, TypeOK, MutualExclusion, Acquire
    <2>2. RegsOf' = RegsOf
      BY <1>4 DEF IInv, TypeOK, MutualExclusion, Acquire, RegsOf
    <2> QED BY <1>4, <2>1, <2>2 DEF CpuView!Dispatch, Acquire
  <1>5. ASSUME NEW h \in Host, Compute(h) PROVE CpuView!Compute(h)
    <2>1. current = h /\ current' = current
      BY <1>5 DEF IInv, MutualExclusion, Compute
    <2>2. RegsOf' = [RegsOf EXCEPT ![h] = psp_cpu']
      BY <1>5 DEF IInv, TypeOK, MutualExclusion, Compute, RegsOf
    <2>3. psp_cpu' \in Reg
      BY <1>5 DEF Compute
    <2> QED BY <2>1, <2>2, <2>3 DEF CpuView!Compute
  <1>6. ASSUME NEW h \in Host, Park(h) PROVE CpuView!Leave(h)
    <2>1. current = h /\ current' = NoHost
      BY <1>6 DEF IInv, MutualExclusion, Park
    <2>2. RegsOf' = RegsOf
      BY <1>6 DEF IInv, TypeOK, MutualExclusion, Park, RegsOf
    <2> QED BY <2>1, <2>2 DEF CpuView!Leave
  <1>7. ASSUME NEW h \in Host, Unpark(h) PROVE CpuView!Dispatch(h)
    <2>1. PICK c \in Counted : Resume(h, c)
      BY <1>7 DEF Unpark, Counted
    <2> QED BY <1>7, <2>1, ResumeRefines DEF Unpark, CpuWanted
  <1>8. ASSUME NEW h \in Host, Handover(h)
        PROVE  current' = current /\ RegsOf' = RegsOf
    BY <1>8 DEF IInv, TypeOK, Handover, RegsOf
  <1>9. ASSUME NEW h \in Host, HandoverDone(h) PROVE CpuView!Dispatch(h)
    BY <1>9, ResumeRefines DEF HandoverDone, CpuWanted, Counted
  <1>10. ASSUME NEW h \in Host, HandoverExpire(h)
         PROVE  current' = current /\ RegsOf' = RegsOf
    BY <1>10 DEF IInv, TypeOK, HandoverExpire, RegsOf
  <1>11. ASSUME NEW h \in Host, Retake(h) PROVE CpuView!Dispatch(h)
    BY <1>11, ResumeRefines DEF Retake, Counted
  <1>12. ASSUME NEW h \in Host, Exit(h) PROVE CpuView!End(h)
    <2>1. current = h /\ current' = NoHost
      BY <1>12 DEF IInv, MutualExclusion, Exit
    <2>2. RegsOf' = [RegsOf EXCEPT ![h] = Zero]
      BY <1>12 DEF IInv, TypeOK, MutualExclusion, Exit, RegsOf
    <2> QED BY <2>1, <2>2 DEF CpuView!End
  <1> QED
    BY <1>1, <1>2, <1>3, <1>4, <1>5, <1>6, <1>7, <1>8, <1>9, <1>10, <1>11, <1>12
       DEF Next, CpuView!Next

(* One global register file, a baton and a copy per parked thread implement a
   private register file per thread: no thread ever sees or loses another's
   registers across a context switch of park_us. *)
THEOREM BatonImplementsOneCpu == Spec => PrivateRegisters
  BY InitRefines, NextRefines, BatonInvariant, PTL DEF Spec, PrivateRegisters, CpuView!Spec
=============================================================================
