------------------------------ MODULE Allegrex ------------------------------
(***************************************************************************)
(* The guest processor as the recompiler sees it: what a_decode            *)
(* (tools/allegrexrecomp/decode.c) tells discovery and emission about an   *)
(* instruction, and what the hardware does with it.                        *)
(*                                                                         *)
(* Addresses are word numbers: Words is the analysed image, Stub an import *)
(* thunk behind it, Host the address a thread's outermost return goes to.  *)
(* An instruction is [k |-> kind, t |-> static target, 0 for none]:        *)
(*   op       any instruction that does not transfer control               *)
(*   push pop sw $ra / lw $ra: ordinary to the tools, but they move $ra    *)
(*   zero     a computation whose destination is $zero                     *)
(*   la       the lui+addiu pair that builds the code pointer t            *)
(*   br brl   conditional branch, and its likely form                      *)
(*   bal ball branch and link, and its likely form                         *)
(*   jal j    direct call and jump;  jalr jr  the computed ones            *)
(*   ret      jr $ra;   bad  a word that does not decode                   *)
(***************************************************************************)
EXTENDS Integers, Sequences, FiniteSets

CONSTANT Words         \* the word addresses of the image: 1..n

Host == 0
Stub == 1 + Cardinality(Words)

\* The facts of an a_insn.
IsBranch(in)   == in.k \in {"br", "brl", "bal", "ball"}
IsLikely(in)   == in.k \in {"brl", "ball"}
IsCall(in)     == in.k \in {"bal", "ball", "jal", "jalr"}
IsReturn(in)   == in.k = "ret"
IsIndirect(in) == in.k \in {"jalr", "jr", "ret"}
IsJump(in)     == in.k \in {"j", "jal", "jalr", "jr", "ret"}
HasTarget(in)  == in.k \in {"br", "brl", "bal", "ball", "j", "jal"}
HasSlot(in)    == IsBranch(in) \/ IsJump(in)
\* jal .+8, which loads the PC and calls nothing
IsGetPc(in, a) == in.k = "jal" /\ in.t = a + 2

\* What sw $ra and lw $ra do to the register and to the guest's stack.
RaEffect(in, r) ==
    CASE in.k = "push" -> [r EXCEPT !.saved = Append(@, r.ra)]
      [] in.k = "pop" /\ r.saved # <<>> ->
            [r EXCEPT !.ra = r.saved[Len(r.saved)],
                      !.saved = SubSeq(@, 1, Len(@) - 1)]
      [] OTHER -> r

(***************************************************************************)
(* The hardware.  h is [pc, npc, ra, saved, ok]: the instruction at pc     *)
(* runs while npc is already known, so a transfer takes effect one         *)
(* instruction late.  The caller says which instruction it has just run,   *)
(* whether a condition held and what a register jump read; ok turns false  *)
(* when that is not the instruction the hardware runs next.                *)
(***************************************************************************)
Reset(entry) == [pc |-> entry, npc |-> entry + 1, ra |-> Host, saved |-> <<>>,
                 ok |-> TRUE]

HwRun(h, prog, a, taken, dyn) ==
    IF h.pc # a THEN [h EXCEPT !.ok = FALSE]
    ELSE LET in == prog[a]
             skip == IsLikely(in) /\ ~taken
             link == IF IsCall(in) THEN [h EXCEPT !.ra = a + 2] ELSE h
             next == CASE skip -> h.npc + 2
                       [] IsReturn(in) -> h.ra
                       [] IsIndirect(in) -> dyn
                       [] HasTarget(in) /\ taken -> in.t
                       [] OTHER -> h.npc + 1
         IN  [RaEffect(in, link) EXCEPT
                 !.pc = IF skip THEN h.npc + 1 ELSE h.npc, !.npc = next]

\* An import thunk runs the firmware function and returns to $ra.
HwImport(h) ==
    IF h.pc # Stub THEN [h EXCEPT !.ok = FALSE]
    ELSE [h EXCEPT !.pc = h.ra, !.npc = h.ra + 1]
=============================================================================
