----------------------------- MODULE EventFlags -----------------------------
(***************************************************************************)
(* The event flags of src/hle/threadman.c: a pattern of bits that threads  *)
(* set, clear and wait for - for all of some bits or for any of them, and  *)
(* clearing them or not as the wait ends.  As with the semaphores, a       *)
(* waiter keeps the pointer it looked up before it parked.                 *)
(***************************************************************************)
EXTENDS WaitLoop

CONSTANTS NFlags,   \* MAX_FLAGS
          Bits      \* the bits of a pattern

Flag == 1..NFlags

VARIABLES flag,     \* g_flag
          want,     \* flag_ctx of the wait each thread is in
          spent     \* history: how often the last raising of each bit has been handed out

vars == <<loopVars, flag, want, spent>>

Mode   == [waitor : BOOLEAN, waitclear : BOOLEAN]
NoWant == [f |-> 0, bits |-> {}, mode |-> [waitor |-> FALSE, waitclear |-> FALSE]]
Unused == [used |-> FALSE, pattern |-> {}]

TypeOK == /\ LoopTypeOK
          /\ flag \in [Flag -> [used : BOOLEAN, pattern : SUBSET Bits]]
          /\ want \in [Thread -> [f : 0..NFlags, bits : SUBSET Bits, mode : Mode]]
          /\ spent \in [Flag -> [Bits -> Nat]]

Init == /\ LoopInit
        /\ flag = [f \in Flag |-> Unused]
        /\ want = [t \in Thread |-> NoWant]
        /\ spent = [f \in Flag |-> [b \in Bits |-> 1]]

(* The history follows the calls and never the pattern.  A bit that is raised is an
   event nobody was handed; one that was never raised, or was withdrawn by
   ClearEventFlag, counts as handed out.  (Raising it again before that is no second
   event.) *)
Raised(h, bits)    == [b \in Bits |-> IF b \in bits THEN 0 ELSE h[b]]
Withdrawn(h, bits) == [b \in Bits |-> IF b \in bits THEN 1 ELSE h[b]]

(* A thread returns OK from a clearing wait or poll.  It was promised all the bits it
   asked for, or, with WAITOR, some of them: those that are left, and if none is, it
   has been let go on bits that others were handed. *)
HandedOut(h, bits, mode) ==
    LET fresh == {b \in bits : h[b] = 0}
        got   == IF mode.waitor /\ fresh # {} THEN fresh ELSE bits
    IN [b \in Bits |-> IF mode.waitclear /\ b \in got THEN h[b] + 1 ELSE h[b]]

-----------------------------------------------------------------------------
(* hle_CreateEventFlag: the first free record. *)
CreateEventFlag(t, bits) ==
    /\ cpu = t
    /\ \E f \in Flag : ~flag[f].used
    /\ LET f == Min({r \in Flag : ~flag[r].used})
       IN /\ flag' = [flag EXCEPT ![f] = [used |-> TRUE, pattern |-> bits]]
          /\ spent' = [spent EXCEPT ![f] = Raised([b \in Bits |-> 1], bits)]
    /\ UNCHANGED <<loopVars, want>>

DeleteEventFlag(t, f) == /\ cpu = t
                         /\ flag[f].used
                         /\ flag' = [flag EXCEPT ![f].used = FALSE]
                         /\ UNCHANGED <<loopVars, want, spent>>

SetEventFlag(t, f, bits) == /\ cpu = t
                            /\ flag[f].used
                            /\ flag' = [flag EXCEPT ![f].pattern = @ \cup bits]
                            /\ spent' = [spent EXCEPT ![f] = Raised(@, bits)]
                            /\ UNCHANGED <<loopVars, want>>

(* The argument is the bits to keep. *)
ClearEventFlag(t, f, keep) == /\ cpu = t
                              /\ flag[f].used
                              /\ flag' = [flag EXCEPT ![f].pattern = @ \cap keep]
                              /\ spent' = [spent EXCEPT ![f] = Withdrawn(@, Bits \ keep)]
                              /\ UNCHANGED <<loopVars, want>>

(* flag_ready *)
Ready(f, bits, mode) == IF mode.waitor THEN flag[f].pattern \cap bits # {}
                                       ELSE bits \subseteq flag[f].pattern

(* A satisfied wait or poll: with WAITCLEAR, all the bits it asked for go. *)
Grant(f, bits, mode) ==
    /\ flag' = [flag EXCEPT ![f].pattern = IF mode.waitclear THEN @ \ bits ELSE @]
    /\ spent' = [spent EXCEPT ![f] = HandedOut(@, bits, mode)]

PollEventFlag(t, f, bits, mode) == /\ cpu = t
                                   /\ flag[f].used
                                   /\ Ready(f, bits, mode)
                                   /\ Grant(f, bits, mode)
                                   /\ UNCHANGED <<loopVars, want>>

(* wait_flag up to its wait_loop. *)
WaitEventFlag(t, f, bits, mode, timeout) ==
    /\ flag[f].used
    /\ want' = [want EXCEPT ![t] = [f |-> f, bits |-> bits, mode |-> mode]]
    /\ BeginWait(t, timeout)
    /\ UNCHANGED <<flag, spent>>

FlagReady(t) == want[t].f # 0 /\ Ready(want[t].f, want[t].bits, want[t].mode)

(* Mutant: a thread that comes back from a park takes the wakeup for the event. *)
FlagOkWoken(t) == /\ WaitOk(t, FlagReady(t) \/ (want[t].f # 0 /\ ticks[t] > 0))
                  /\ Grant(want[t].f, want[t].bits, want[t].mode)
                  /\ want' = [want EXCEPT ![t] = NoWant]

(* wait_flag after its wait_loop. *)
FlagOk(t) == /\ WaitOk(t, FlagReady(t))
             /\ Grant(want[t].f, want[t].bits, want[t].mode)
             /\ want' = [want EXCEPT ![t] = NoWant]

FlagFails(t) == /\ WaitTimesOut(t, FlagReady(t)) \/ WaitGivesUp(t, FlagReady(t))
                /\ want' = [want EXCEPT ![t] = NoWant]
                /\ UNCHANGED <<flag, spent>>

FlagParks(t) == /\ WaitParks(t, FlagReady(t))
                /\ UNCHANGED <<flag, want, spent>>

Schedule(t) == /\ Scheduling(t)
               /\ UNCHANGED <<flag, want, spent>>

Call(t) == \E bits \in SUBSET Bits :
              \/ CreateEventFlag(t, bits)
              \/ \E f \in Flag : \/ SetEventFlag(t, f, bits)
                                 \/ ClearEventFlag(t, f, bits)
                                 \/ DeleteEventFlag(t, f)
              \/ \E f \in Flag, mode \in Mode :
                    /\ bits # {}
                    /\ \/ PollEventFlag(t, f, bits, mode)
                       \/ \E timeout \in Timeouts : WaitEventFlag(t, f, bits, mode, timeout)

Loop(t) == FlagOk(t) \/ FlagFails(t) \/ FlagParks(t)

Next == \E t \in Thread : Call(t) \/ Loop(t) \/ Schedule(t)

Spec == Init /\ [][Next]_vars

-----------------------------------------------------------------------------
(* One event lets go at most one of the threads that wait for it with WAITCLEAR:
   however many were parked on the same bits, and whatever was set, cleared, polled or
   deleted during their parks, no two clearing waits or polls return OK for one raising
   of a bit, and none for a raising that was withdrawn.  (wait_flag and
   hle_PollEventFlag clear under the same hold of the CPU as they test.) *)
EventConsumedOnce == \A f \in Flag, b \in Bits : spent[f][b] <= 1
=============================================================================
