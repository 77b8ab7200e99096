-------------------------------- MODULE Baton --------------------------------
(***************************************************************************)
(* The CPU baton of src/hle/threadman.c with real host threads: who may    *)
(* execute recompiled guest code, how a park gives the CPU away, the       *)
(* handover that lets a started thread go first, and the context switch    *)
(* between the one global register file psp_cpu and each thread's ctx.     *)
(*                                                                         *)
(* A step is what one host thread does under one hold of g_baton_m, or     *)
(* while it holds the baton (nobody else can touch what it touches then).  *)
(* The wait on a thread's own condition variable ends after at most        *)
(* REAL_TICK_US of host time whether or not a wakeup came, and no caller   *)
(* uses park_us's result, so it is a step that may come at any time.       *)
(***************************************************************************)
EXTENDS Integers

CONSTANTS Host,         \* host threads: the boot thread and one per StartThread
          Boot,         \* the caller of psp_threadman_reset
          NoHost,       \* g_current = NULL
          Reg,          \* contents of a register file
          Zero          \* the register file a fresh thread starts with

ASSUME BatonAssumption == /\ Boot \in Host
                          /\ NoHost \notin Host
                          /\ Zero \in Reg

VARIABLES owned,        \* g_baton_owned
          takes,        \* g_baton_takes
          pc,           \* where each host thread is, see Place
          pending,      \* the threads with cpu_pending set
          current,      \* g_current
          psp_cpu,      \* the one register file
          ctx,          \* ctx[h]: psp_thread.ctx
          takes0,       \* park_us's local of that name
          handed,       \* how h's last park was counted: not at all, in g_handovers,
                        \* or in g_handovers and g_handovers_expired
          othersRan     \* history: has another thread had the CPU since h parked?

vars == <<owned, takes, pc, pending, current, psp_cpu, ctx, takes0, handed, othersRan>>
parkVars == <<takes0, handed, othersRan>>

(* unborn: no host thread yet; starting: created, not yet in baton_acquire;
   queued: waiting inside baton_acquire (counted in g_baton_waiters);
   cpu: holds the baton; parked: in park_us, on its own condition variable;
   handover: in handover_wait_locked; retake: in park_us's last wait loop after
   the handover deadline passed; gone: guest_thread_main has released the baton. *)
Place == {"unborn", "starting", "queued", "cpu", "parked", "handover", "retake", "gone"}

Counted == {"no", "yes", "expired"}

Parking == {"parked", "handover", "retake"}

TypeOK == /\ owned \in BOOLEAN
          /\ takes \in Nat
          /\ pc \in [Host -> Place]
          /\ pending \in SUBSET Host
          /\ current \in Host \cup {NoHost}
          /\ psp_cpu \in Reg
          /\ ctx \in [Host -> Reg]
          /\ takes0 \in [Host -> Nat]
          /\ handed \in [Host -> Counted]
          /\ othersRan \in [Host -> BOOLEAN]

(* psp_threadman_reset: the boot thread runs the module entry and owns the baton. *)
Init == /\ owned = TRUE
        /\ takes = 0
        /\ pc = [h \in Host |-> IF h = Boot THEN "cpu" ELSE "unborn"]
        /\ pending = {}
        /\ current = Boot
        /\ psp_cpu = Zero
        /\ ctx = [h \in Host |-> Zero]
        /\ takes0 = [h \in Host |-> 0]
        /\ handed = [h \in Host |-> "no"]
        /\ othersRan = [h \in Host |-> FALSE]

-----------------------------------------------------------------------------
Queued == {h \in Host : pc[h] = "queued"}

(* Mutant: a parker looks at the baton alone, as a plain mutex would. *)
CpuWantedOwnedOnly == owned

(* Mutant: parkers that hold a park open count each other as wanting the CPU. *)
CpuWantedByParkers == owned \/ Queued # {} \/ pending # {}
                      \/ \E h \in Host : pc[h] = "handover"

(* cpu_wanted_locked *)
CpuWanted == owned \/ Queued # {} \/ pending # {}

(* The history of a CPU change: everyone else who is in the middle of a park
   has now seen another thread run. *)
Ran(h) == [g \in Host |-> othersRan[g] \/ (g # h /\ pc[g] \in Parking)]

(* Mutant: the host thread is created without announcing it in cpu_pending. *)
StartUnannounced(h, n) == /\ pc[h] = "cpu"
                          /\ pc[n] = "unborn"
                          /\ pc' = [pc EXCEPT ![n] = "starting"]
                          /\ UNCHANGED <<owned, takes, pending, current, psp_cpu, ctx, parkVars>>

(* hle_StartThread, what it does to the CPU: the flag first, then the host
   thread; the caller goes on running. *)
Start(h, n) == /\ pc[h] = "cpu"
               /\ pc[n] = "unborn"
               /\ pending' = pending \cup {n}
               /\ pc' = [pc EXCEPT ![n] = "starting"]
               /\ UNCHANGED <<owned, takes, current, psp_cpu, ctx, parkVars>>

(* baton_acquire finds the baton taken and waits for it. *)
Enqueue(h) == /\ pc[h] = "starting"
              /\ owned
              /\ pc' = [pc EXCEPT ![h] = "queued"]
              /\ UNCHANGED <<owned, takes, pending, current, psp_cpu, ctx, parkVars>>

(* Mutant: baton_acquire waits for a release before it looks at the baton. *)
AcquireAfterWait(h) == /\ pc[h] = "queued"
                       /\ ~owned
                       /\ owned' = TRUE
                       /\ takes' = takes + 1
                       /\ pc' = [pc EXCEPT ![h] = "cpu"]
                       /\ current' = h
                       /\ psp_cpu' = Zero
                       /\ pending' = pending \ {h}
                       /\ othersRan' = Ran(h)
                       /\ UNCHANGED <<ctx, takes0, handed>>

(* The rest of baton_acquire and the head of guest_thread_main: the baton, the
   identity, a fresh register file, and cpu_pending cleared by the thread itself. *)
Acquire(h) == /\ pc[h] \in {"starting", "queued"}
              /\ ~owned
              /\ owned' = TRUE
              /\ takes' = takes + 1
              /\ pc' = [pc EXCEPT ![h] = "cpu"]
              /\ current' = h
              /\ psp_cpu' = Zero
              /\ pending' = pending \ {h}
              /\ othersRan' = Ran(h)
              /\ UNCHANGED <<ctx, takes0, handed>>

(* Recompiled code between two HLE calls works on psp_cpu directly. *)
Compute(h) == /\ pc[h] = "cpu"
              /\ psp_cpu' \in Reg
              /\ UNCHANGED <<owned, takes, pc, pending, current, ctx, parkVars>>

(* park_us up to the release of the baton. *)
Park(h) == /\ pc[h] = "cpu"
           /\ ctx' = [ctx EXCEPT ![h] = psp_cpu]
           /\ current' = NoHost
           /\ takes0' = [takes0 EXCEPT ![h] = takes]
           /\ owned' = FALSE
           /\ pc' = [pc EXCEPT ![h] = "parked"]
           /\ othersRan' = [othersRan EXCEPT ![h] = FALSE]
           /\ UNCHANGED <<takes, pending, psp_cpu, handed>>

(* Mutant: the registers are put back before the baton is. *)
ResumeEarly(h, wasHanded) == /\ owned' = TRUE
                             /\ pc' = [pc EXCEPT ![h] = "cpu"]
                             /\ handed' = [handed EXCEPT ![h] = wasHanded]
                             /\ current' = h
                             /\ othersRan' = Ran(h)
                             /\ UNCHANGED <<takes, pending, ctx, psp_cpu, takes0>>

(* The tail of park_us, once nothing stands in the way: the baton (without
   counting it in g_baton_takes), the counters, the registers, the identity. *)
Resume(h, wasHanded) == /\ owned' = TRUE
                        /\ pc' = [pc EXCEPT ![h] = "cpu"]
                        /\ handed' = [handed EXCEPT ![h] = wasHanded]
                        /\ psp_cpu' = ctx[h]
                        /\ current' = h
                        /\ othersRan' = Ran(h)
                        /\ UNCHANGED <<takes, pending, ctx, takes0>>

(* Mutant: every park that comes back is counted as a handover. *)
UnparkHanded(h) == /\ pc[h] = "parked"
                   /\ ~CpuWanted
                   /\ Resume(h, "yes")

(* The timed wait is over and nobody wants the CPU: take it back. *)
Unpark(h) == /\ pc[h] = "parked"
             /\ ~CpuWanted
             /\ Resume(h, IF takes # takes0[h] THEN "yes" ELSE "no")

(* The timed wait is over and somebody wants the CPU: hold the park open. *)
Handover(h) == /\ pc[h] = "parked"
               /\ CpuWanted
               /\ pc' = [pc EXCEPT ![h] = "handover"]
               /\ UNCHANGED <<owned, takes, pending, current, psp_cpu, ctx, parkVars>>

HandoverDone(h) == /\ pc[h] = "handover"
                   /\ ~CpuWanted
                   /\ Resume(h, "yes")

(* host_cond_until reports the deadline of HANDOVER_CAP_US; the flag is not looked at again. *)
HandoverExpire(h) == /\ pc[h] = "handover"
                     /\ pc' = [pc EXCEPT ![h] = "retake"]
                     /\ UNCHANGED <<owned, takes, pending, current, psp_cpu, ctx, parkVars>>

(* Mutant: after the deadline the baton is taken without waiting for it. *)
RetakeByForce(h) == /\ pc[h] = "retake"
                    /\ Resume(h, "expired")

Retake(h) == /\ pc[h] = "retake"
             /\ ~owned
             /\ Resume(h, "expired")

(* The end of guest_thread_main.  The boot thread never gets there. *)
Exit(h) == /\ h # Boot
           /\ pc[h] = "cpu"
           /\ current' = NoHost
           /\ owned' = FALSE
           /\ pc' = [pc EXCEPT ![h] = "gone"]
           /\ UNCHANGED <<takes, pending, psp_cpu, ctx, parkVars>>

Next == \E h \in Host : \/ \E n \in Host : Start(h, n)
                        \/ Enqueue(h)
                        \/ Acquire(h)
                        \/ Compute(h)
                        \/ Park(h)
                        \/ Unpark(h)
                        \/ Handover(h)
                        \/ HandoverDone(h)
                        \/ HandoverExpire(h)
                        \/ Retake(h)
                        \/ Exit(h)

Spec == Init /\ [][Next]_vars

(* The host runs every thread that can run, and a guest on the CPU sooner or
   later parks or ends: scheduling is cooperative, and docs/THREADING.md says
   that a guest which never waits starves the others. *)
Fairness == \A h \in Host : /\ WF_vars(Acquire(h))
                            /\ WF_vars(Park(h) \/ Exit(h))
                            /\ WF_vars(Unpark(h) \/ Handover(h))
                            /\ WF_vars(HandoverDone(h))
                            /\ WF_vars(Retake(h))

FairSpec == Spec /\ Fairness

-----------------------------------------------------------------------------
(* Two host threads never execute guest code at once, the baton is marked owned
   exactly while one does, and g_current names it: baton_acquire, park_us and
   guest_thread_main agree on who runs. *)
MutualExclusion == /\ \A g, h \in Host : pc[g] = "cpu" /\ pc[h] = "cpu" => g = h
                   /\ owned <=> \E h \in Host : pc[h] = "cpu"
                   /\ \A h \in Host : pc[h] = "cpu" <=> current = h

(* A thread that was started and never ran is announced in cpu_pending until it
   has had the CPU, so that cpu_wanted_locked can see it. *)
PendingExact == pending = {h \in Host : pc[h] \in {"starting", "queued"}}

(* The two together are inductive: each action's guard tells who holds the
   baton, and PendingExact follows the threads that never ran. *)
IInv == TypeOK /\ MutualExclusion /\ PendingExact

(* The handover of park_us: a park that did not run into the 20 ms deadline
   takes the CPU back only when no started thread is still waiting for its
   first turn - in particular, whatever the caller started before it parked has
   run by the time the park returns. *)
StartedRunsFirst ==
    [][\A h \in Host : pc[h] \in {"parked", "handover"} /\ pc'[h] = "cpu" =>
           \A n \in Host : pc[n] \notin {"starting", "queued"}]_vars

(* The shared psp_cpu with its copies in ctx is a private register file per
   thread: this module implements OneCpu. *)
RegsOf == [h \in Host |-> CASE pc[h] = "cpu" -> psp_cpu
                            [] pc[h] \in Parking -> ctx[h]
                            [] OTHER -> Zero]
CpuView == INSTANCE OneCpu WITH running <- current, regs <- RegsOf
PrivateRegisters == CpuView!Spec

(* If the handovers stop running into their deadline, a started thread gets its
   first turn: the parkers that hold their parks open for it do not keep the CPU
   from it, nor wait for one another. *)
StartedRuns == <>[][\A h \in Host : ~HandoverExpire(h)]_vars =>
                   \A h \in Host : pc[h] = "starting" ~> pc[h] = "cpu"

(* A CPU that park_us gave away is taken by someone. *)
CpuNeverIdle == ~owned ~> owned

(* psp_threadman_handovers counts no park that was not one: unless the deadline
   passed, a park counted as a handover is one during which another thread had
   the CPU - counted by g_baton_takes or by having waited for cpu_wanted_locked. *)
HandoverSound == \A h \in Host : pc[h] = "cpu" /\ handed[h] = "yes" => othersRan[h]
=============================================================================
