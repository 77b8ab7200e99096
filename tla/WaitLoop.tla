------------------------------ MODULE WaitLoop ------------------------------
(***************************************************************************)
(* wait_loop of src/hle/threadman.c with real threads, the one loop behind *)
(* every guest wait (semaphore, event flag, pool, end of a thread): test   *)
(* the condition, look at the deadline, give up or park for a tick.        *)
(*                                                                         *)
(* The modules of the objects extend this one: they say what is waited for *)
(* (`ready', a parameter of the actions) and what a satisfied wait does.   *)
(* The CPU is the one of OneCpu.  deliver_tick runs guest callbacks inside *)
(* the loop: a thread in the loop may make any call that does not wait.    *)
(*                                                                         *)
(* Virtual time only matters as the time left to each deadline, so that is *)
(* what is kept: every park takes its length off every deadline, as        *)
(* g_vtime_us += timeout_us does.                                          *)
(***************************************************************************)
EXTENDS Integers, FiniteSets, FiniteSetsExt

CONSTANTS Thread,         \* the threads that run guest code
          Boot,           \* the one that runs the module entry
          NoThread,       \* nobody on the CPU
          Tick,           \* TICK_US
          Timeouts,       \* timeouts a guest passes; 0 is none
          WaitTicksMax    \* WAIT_TICKS_MAX

ASSUME WaitLoopAssumption == /\ Boot \in Thread
                             /\ NoThread \notin Thread
                             /\ Tick \in Nat \ {0}
                             /\ Timeouts \subseteq Nat
                             /\ WaitTicksMax \in Nat

VARIABLES cpu,      \* who holds the CPU, or NoThread
          phase,    \* where each thread is
          timed,    \* does its wait have a deadline?
          left,     \* virtual time left to it; Overdue once it is past
          ticks,    \* wait_loop's count of the ticks of an unbounded wait
          step      \* how long its park is

loopVars == <<cpu, phase, timed, left, ticks, step>>

Overdue == -1
MaxLeft == Max(Timeouts \cup {0})

(* guest: in guest code; loop: at the top of wait_loop; parked: in its park;
   away: in any other park (a delay, a frame wait); dead: ended. *)
LoopTypeOK == /\ cpu \in Thread \cup {NoThread}
              /\ phase \in [Thread -> {"guest", "loop", "parked", "away", "dead"}]
              /\ timed \in [Thread -> BOOLEAN]
              /\ left \in [Thread -> Overdue..MaxLeft]
              /\ ticks \in [Thread -> 0..WaitTicksMax + 1]
              /\ step \in [Thread -> 0..Tick]

(* The boot thread has the CPU, the others have been started. *)
LoopInit == /\ cpu = Boot
            /\ phase = [t \in Thread |-> IF t = Boot THEN "guest" ELSE "away"]
            /\ timed = [t \in Thread |-> FALSE]
            /\ left = [t \in Thread |-> 0]
            /\ ticks = [t \in Thread |-> 0]
            /\ step = [t \in Thread |-> 0]

Waiting(t) == phase[t] \in {"loop", "parked"}

(* others_alive: the boot record never has host_live set. *)
OthersAlive(t) == \E u \in Thread \ {t, Boot} : phase[u] # "dead"

-----------------------------------------------------------------------------
(* The head of wait_loop. *)
BeginWait(t, timeout) == /\ cpu = t
                         /\ phase[t] = "guest"
                         /\ phase' = [phase EXCEPT ![t] = "loop"]
                         /\ timed' = [timed EXCEPT ![t] = timeout # 0]
                         /\ left' = [left EXCEPT ![t] = timeout]
                         /\ ticks' = [ticks EXCEPT ![t] = 0]
                         /\ UNCHANGED <<cpu, step>>

(* The call is over; its locals with it. *)
EndWait(t) == /\ phase' = [phase EXCEPT ![t] = "guest"]
              /\ timed' = [timed EXCEPT ![t] = FALSE]
              /\ left' = [left EXCEPT ![t] = 0]
              /\ ticks' = [ticks EXCEPT ![t] = 0]
              /\ UNCHANGED <<cpu, step>>

(* Mutant: the condition is tested before the first park and never again. *)
WaitOkOnce(t, ready) == /\ cpu = t /\ phase[t] = "loop"
                        /\ ready /\ ticks[t] = 0
                        /\ EndWait(t)

(* ready(ctx): the wait returns OK. *)
WaitOk(t, ready) == /\ cpu = t /\ phase[t] = "loop"
                    /\ ready
                    /\ EndWait(t)

(* Mutant: the deadline is looked at before the condition. *)
WaitTimesOutFirst(t, ready) == /\ cpu = t /\ phase[t] = "loop"
                               /\ timed[t] /\ left[t] <= 0
                               /\ EndWait(t)

WaitTimesOut(t, ready) == /\ cpu = t /\ phase[t] = "loop"
                          /\ ~ready
                          /\ timed[t] /\ left[t] <= 0
                          /\ EndWait(t)

(* An unbounded wait has had its ticks and nobody else is alive. *)
WaitGivesUp(t, ready) == /\ cpu = t /\ phase[t] = "loop"
                         /\ ~ready
                         /\ ~timed[t] /\ ticks[t] >= WaitTicksMax
                         /\ ~OthersAlive(t)
                         /\ EndWait(t)

(* Otherwise: one tick, or what is left to the deadline if that is less. *)
WaitParks(t, ready) ==
    /\ cpu = t /\ phase[t] = "loop"
    /\ ~ready
    /\ IF timed[t] THEN left[t] > 0
                   ELSE ticks[t] < WaitTicksMax \/ OthersAlive(t)
    /\ ticks' = [ticks EXCEPT ![t] = IF timed[t] THEN @ ELSE Min({@ + 1, WaitTicksMax + 1})]
    /\ step' = [step EXCEPT ![t] = IF timed[t] THEN Min({Tick, left[t]}) ELSE Tick]
    /\ phase' = [phase EXCEPT ![t] = "parked"]
    /\ cpu' = NoThread
    /\ UNCHANGED <<timed, left>>

(* A park outside wait_loop: DelayThread, psp_threadman_yield, a frame wait. *)
Yield(t) == /\ cpu = t /\ phase[t] = "guest"
            /\ step' = [step EXCEPT ![t] = Tick]
            /\ phase' = [phase EXCEPT ![t] = "away"]
            /\ cpu' = NoThread
            /\ UNCHANGED <<timed, left, ticks>>

(* park_us takes the CPU back; the time of the park passes for everyone. *)
Unpark(t) == /\ phase[t] \in {"parked", "away"}
             /\ cpu = NoThread
             /\ cpu' = t
             /\ phase' = [phase EXCEPT ![t] = IF @ = "parked" THEN "loop" ELSE "guest"]
             /\ left' = [u \in Thread |-> IF timed[u] THEN Max({left[u] - step[t], Overdue})
                                                      ELSE left[u]]
             /\ step' = [step EXCEPT ![t] = 0]
             /\ UNCHANGED <<timed, ticks>>

(* guest_thread_main ends the thread. *)
End(t) == /\ cpu = t /\ phase[t] = "guest" /\ t # Boot
          /\ phase' = [phase EXCEPT ![t] = "dead"]
          /\ cpu' = NoThread
          /\ UNCHANGED <<timed, left, ticks, step>>

(* The steps of a thread that wait_loop and its callers take by themselves. *)
Scheduling(t) == Yield(t) \/ Unpark(t) \/ End(t)
=============================================================================
