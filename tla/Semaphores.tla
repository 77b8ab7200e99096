----------------------------- MODULE Semaphores -----------------------------
(***************************************************************************)
(* The semaphores of src/hle/threadman.c, waited on by threads that share  *)
(* the CPU.  A waiter keeps the pointer it looked up before it parked:     *)
(* when the semaphore is deleted meanwhile, and its record is used for     *)
(* another one, it is that one it goes on waiting for.                     *)
(***************************************************************************)
EXTENDS WaitLoop

CONSTANTS NSemas,     \* MAX_SEMAS
          MaxCount,   \* bound: tokens asked for, or ever put into one semaphore
          MaxDebt     \* the same below zero

ASSUME SemaAssumption == NSemas \in Nat /\ MaxCount \in Nat /\ MaxDebt \in Nat

(* What a guest passes as a count, an int32_t. *)
Counts == -MaxDebt..MaxCount

Sema == 1..NSemas

VARIABLES sema,       \* g_sema
          want,       \* sema_ctx of the wait each thread is in
          issued      \* history: tokens each semaphore was given since it was created

vars == <<loopVars, sema, want, issued>>

NoWant == [s |-> 0, need |-> 0]
Unused == [used |-> FALSE, count |-> 0, max_count |-> 0, taken |-> 0]

TypeOK == /\ LoopTypeOK
          /\ sema \in [Sema -> [used : BOOLEAN, count : Int, max_count : 0..MaxCount, taken : Nat]]
          /\ want \in [Thread -> [s : 0..NSemas, need : Nat]]
          /\ issued \in [Sema -> Counts]

Init == /\ LoopInit
        /\ sema = [s \in Sema |-> Unused]
        /\ want = [t \in Thread |-> NoWant]
        /\ issued = [s \in Sema |-> 0]

(* Mutant: one token is taken, whatever the thread asked for. *)
TakeOne(s, need) == sema' = [sema EXCEPT ![s].count = @ - 1, ![s].taken = @ + need]

(* The field `taken' is a history: the tokens that waits and polls have taken. *)
Take(s, need) == sema' = [sema EXCEPT ![s].count = @ - need, ![s].taken = @ + need]

-----------------------------------------------------------------------------
(* hle_CreateSema: the first free record.  A max of 0 stands for every one below 1. *)
CreateSema(t, init, max) ==
    /\ cpu = t
    /\ \E s \in Sema : ~sema[s].used
    /\ LET s == Min({r \in Sema : ~sema[r].used})
       IN /\ sema' = [sema EXCEPT ![s] = [used |-> TRUE, count |-> init, max_count |-> max,
                                          taken |-> 0]]
          /\ issued' = [issued EXCEPT ![s] = init]
    /\ UNCHANGED <<loopVars, want>>

(* hle_DeleteSema: the waiters are not told. *)
DeleteSema(t, s) == /\ cpu = t
                    /\ sema[s].used
                    /\ sema' = [sema EXCEPT ![s].used = FALSE]
                    /\ UNCHANGED <<loopVars, want, issued>>

(* hle_SignalSema: what goes over the limit is lost.  (Nothing stops a guest from
   signalling, setting or starting with less than nothing.) *)
SignalSema(t, s, n) ==
    /\ cpu = t
    /\ sema[s].used
    /\ LET sum  == sema[s].count + n
           kept == IF sema[s].max_count > 0 /\ sum > sema[s].max_count
                   THEN sema[s].max_count ELSE sum
       IN /\ issued[s] + kept - sema[s].count \in Counts
          /\ sema' = [sema EXCEPT ![s].count = kept]
          /\ issued' = [issued EXCEPT ![s] = @ + kept - sema[s].count]
    /\ UNCHANGED <<loopVars, want>>

(* hle_CancelSema sets the count; the waiters test it again. *)
CancelSema(t, s, n) == /\ cpu = t
                       /\ sema[s].used
                       /\ issued[s] - sema[s].count + n \in Counts
                       /\ sema' = [sema EXCEPT ![s].count = n]
                       /\ issued' = [issued EXCEPT ![s] = @ - sema[s].count + n]
                       /\ UNCHANGED <<loopVars, want>>

AtLeastOne(n) == IF n < 1 THEN 1 ELSE n

PollSema(t, s, n) == /\ cpu = t
                     /\ sema[s].used
                     /\ sema[s].count >= AtLeastOne(n)
                     /\ Take(s, AtLeastOne(n))
                     /\ UNCHANGED <<loopVars, want, issued>>

(* take_sema up to its wait_loop. *)
WaitSema(t, s, n, timeout) == /\ sema[s].used
                              /\ want' = [want EXCEPT ![t] = [s |-> s, need |-> AtLeastOne(n)]]
                              /\ BeginWait(t, timeout)
                              /\ UNCHANGED <<sema, issued>>

(* sema_ready *)
SemaReady(t) == want[t].s # 0 /\ sema[want[t].s].count >= want[t].need

(* take_sema after its wait_loop. *)
SemaOk(t) == /\ WaitOk(t, SemaReady(t))
             /\ Take(want[t].s, want[t].need)
             /\ want' = [want EXCEPT ![t] = NoWant]
             /\ UNCHANGED issued

SemaTimeout(t) == /\ WaitTimesOut(t, SemaReady(t))
                  /\ want' = [want EXCEPT ![t] = NoWant]
                  /\ UNCHANGED <<sema, issued>>

SemaGivesUp(t) == /\ WaitGivesUp(t, SemaReady(t))
                  /\ want' = [want EXCEPT ![t] = NoWant]
                  /\ UNCHANGED <<sema, issued>>

SemaParks(t) == /\ WaitParks(t, SemaReady(t))
                /\ UNCHANGED <<sema, want, issued>>

Schedule(t) == /\ Scheduling(t)
               /\ UNCHANGED <<sema, want, issued>>

Call(t) == \/ \E init \in Counts, max \in 0..MaxCount : CreateSema(t, init, max)
           \/ \E s \in Sema : DeleteSema(t, s)
           \/ \E s \in Sema, n \in Counts \ {0} : SignalSema(t, s, n)
           \/ \E s \in Sema, n \in Counts : CancelSema(t, s, n)
           \/ \E s \in Sema, n \in Counts : PollSema(t, s, n)
           \/ \E s \in Sema, n \in Counts, timeout \in Timeouts : WaitSema(t, s, n, timeout)

Loop(t) == SemaOk(t) \/ SemaTimeout(t) \/ SemaGivesUp(t) \/ SemaParks(t)

Next == \E t \in Thread : Call(t) \/ Loop(t) \/ Schedule(t)

Spec == Init /\ [][Next]_vars

(* A guest that has the CPU again and again parks or ends again and again; the loop
   goes on; and the host does not pass over a thread that wants the CPU for ever. *)
Fairness == \A t \in Thread : /\ WF_vars(Loop(t))
                              /\ SF_vars((Yield(t) \/ End(t)) /\ UNCHANGED <<sema, want, issued>>)
                              /\ SF_vars(Unpark(t) /\ UNCHANGED <<sema, want, issued>>)

FairSpec == Spec /\ Fairness

-----------------------------------------------------------------------------
(* No token is made or lost by waiting: what waits and polls have taken and what is
   left add up to what the guest put in; and none is taken that was not there, so the
   count is below zero only where the guest itself has set or signalled it there -
   however the waiters' tests and decrements interleave.  (take_sema, hle_PollSema) *)
TokensConserved ==
    /\ [](\A s \in Sema : sema[s].used => sema[s].count + sema[s].taken = issued[s])
    /\ [][\A s \in Sema : sema'[s].taken > sema[s].taken => sema'[s].count >= 0]_vars

(* A timeout racing a late signal: a wait that finds what it needs takes it and
   returns OK, even when its deadline has passed meanwhile; it is never reported as
   timed out.  (wait_loop tests the condition before the deadline.) *)
SatisfiedNeverTimesOut ==
    [][\A t \in Thread : cpu = t /\ phase[t] = "loop" /\ phase'[t] = "guest" /\ SemaReady(t) =>
           sema'[want[t].s].taken = sema[want[t].s].taken + want[t].need]_vars

(* A wait whose condition stays true ends: no wakeup, lost or early, leaves a
   thread parked on a semaphore that has what it needs. *)
NoStuckWaiter == \A t \in Thread : ~<>[](Waiting(t) /\ SemaReady(t))
=============================================================================
