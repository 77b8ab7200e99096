------------------------------- MODULE OneCpu -------------------------------
(***************************************************************************)
(* What the runtime promises its guest threads, as an abstract machine:    *)
(* one CPU, at most one thread on it, and a register file that is private  *)
(* to each thread.  A thread that leaves the CPU finds its registers as it *)
(* left them; a thread that starts finds them cleared.                     *)
(*                                                                         *)
(* The runtime has a single global register file (psp_cpu) and a baton;    *)
(* module Baton shows that these implement this specification.             *)
(***************************************************************************)
CONSTANTS Host,      \* the threads that may ever use the CPU
          Boot,      \* the thread that holds it from the start
          NoHost,    \* "nobody": no member of Host
          Reg,       \* contents of a register file
          Zero       \* the cleared register file

VARIABLES running,   \* the thread on the CPU, or NoHost
          regs       \* regs[h]: the registers of thread h

vars == <<running, regs>>

Init == /\ running = Boot
        /\ regs = [h \in Host |-> Zero]

(* A thread takes an idle CPU. *)
Dispatch(h) == /\ running = NoHost
               /\ running' = h
               /\ UNCHANGED regs

(* The thread on the CPU changes its own registers and nobody else's. *)
Compute(h) == /\ running = h
              /\ \E v \in Reg : regs' = [regs EXCEPT ![h] = v]
              /\ UNCHANGED running

(* The thread on the CPU gives it away and keeps its registers. *)
Leave(h) == /\ running = h
            /\ running' = NoHost
            /\ UNCHANGED regs

(* The thread on the CPU ends, and its registers with it. *)
End(h) == /\ running = h
          /\ running' = NoHost
          /\ regs' = [regs EXCEPT ![h] = Zero]

Next == \E h \in Host : Dispatch(h) \/ Compute(h) \/ Leave(h) \/ End(h)

Spec == Init /\ [][Next]_vars
=============================================================================
