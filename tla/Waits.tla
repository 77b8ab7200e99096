------------------------------- MODULE Waits -------------------------------
(***************************************************************************)
(* The semaphores and the event flags of src/hle/threadman.c, both over    *)
(* the one wait loop.  They share no state but the loop's, so a behaviour  *)
(* is about one of them.                                                   *)
(***************************************************************************)
EXTENDS Semaphores

CONSTANTS NFlags, Bits              \* of EventFlags

VARIABLES kind,                     \* the objects this behaviour is about
          flag, flagWant, spent     \* of EventFlags

(* Bound: a flag is waited for with a timeout of two ticks, or with none. *)
F == INSTANCE EventFlags WITH want <- flagWant, Tick <- 1, Timeouts <- {0, 2}, WaitTicksMax <- 0

semaVars == <<sema, want, issued>>
flagVars == <<flag, flagWant, spent>>
waitVars == <<vars, kind, flagVars>>

WaitsInit == /\ kind \in {"sema", "flag"}
             /\ Init /\ F!Init

OnSema(A) == kind = "sema" /\ A /\ UNCHANGED <<kind, flagVars>>

WaitsNext == \/ OnSema(Next)
             \/ kind = "flag" /\ F!Next /\ UNCHANGED <<kind, semaVars>>

(* The fairness of Semaphores, for the behaviours that are about semaphores. *)
WaitsFairness ==
    \A t \in Thread : /\ WF_waitVars(OnSema(Loop(t)))
                      /\ SF_waitVars(OnSema((Yield(t) \/ End(t)) /\ UNCHANGED semaVars))
                      /\ SF_waitVars(OnSema(Unpark(t) /\ UNCHANGED semaVars))

WaitsSpec == WaitsInit /\ [][WaitsNext]_waitVars /\ WaitsFairness

-----------------------------------------------------------------------------
(* wait_flag and hle_PollEventFlag: no raising of a bit lets go two clearing waits. *)
EventConsumedOnce == F!EventConsumedOnce
=============================================================================
