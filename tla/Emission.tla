------------------------------ MODULE Emission ------------------------------
(***************************************************************************)
(* C emission (tools/allegrexrecomp/emit.c): the body of each discovered   *)
(* function as the sequence of C statements emit_function prints, and the  *)
(* thunks and dispatch entries a_emit registers.                           *)
(*                                                                         *)
(* A statement is a record: lab, the label in front of it (0 for none); op,*)
(* what it is; a, the instruction it translates; pre, the delay slots it   *)
(* runs whatever happens; then, those it runs on the taken path only; to,  *)
(* where it goes, by `how`: "goto" a label of this body, or "leave" for a  *)
(* call in tail position.                                                  *)
(***************************************************************************)
EXTENDS Discovery

VARIABLES code,        \* per function entry, the statements of its body
          labels,      \* is_label
          slots        \* is_slot

evars == <<code, labels, slots>>

OwnedBy(a, f) == a \in Words /\ owner[a] = f
IsFunction(a) == \E fn \in funcs : fn.addr = a
OwnedWords(fn) == {a \in fn.start..(fn.end - 1) : OwnedBy(a, fn.addr)}

(***************************************************************************)
(* mark_labels.                                                            *)
(***************************************************************************)
SlotsOf(fn) == {a + 1 : a \in {b \in OwnedWords(fn) : HasSlot(prog[b])}} \cap OwnedWords(fn)

LabelsOf(fn) ==
    LET mine == OwnedWords(fn)
        branch == {prog[a].t : a \in {b \in mine : IsBranch(prog[b])}}
        jump == {t \in {prog[a].t : a \in {b \in mine : IsJump(prog[b]) /\ ~IsIndirect(prog[b])}} :
                    ~IsFunction(t)}
        site == {a + 2 : a \in {b \in mine : IsCall(prog[b]) /\ ~IsGetPc(prog[b], b)}}
        direct == (branch \cup jump \cup site) \cap mine
        \* a labelled slot is emitted twice, and what follows it needs a label
    IN  direct \cup ({a + 1 : a \in direct \cap SlotsOf(fn)} \cap mine)

(***************************************************************************)
(* One statement each.                                                     *)
(***************************************************************************)
Stmt(op, a) == [lab |-> 0, op |-> op, a |-> a, pre |-> <<>>, then |-> <<>>,
                to |-> 0, how |-> "none", again |-> 0]

\* A delay slot can be repeated in the taken path unless it transfers control.
SlotRepeatable(a) == ~HasSlot(prog[a])

TerminalCalls(in) == IsJump(in)
Terminal(in) == IsReturn(in) \/ IsIndirect(in) \/ (IsJump(in) /\ ~IsCall(in))

\* An instruction that transfers nothing is one C statement.  A write to $zero
\* and an encoding nobody names become a call of psp_unimplemented.
EmitSimple(a) == Stmt(IF prog[a].k \in {"zero", "bad"} THEN "trap" ELSE "run", a)

\* The labelled copy of a slot that is also a branch target.
SlotAlias(fn, a, fallsThrough) ==
    IF a + 1 \notin labels \/ ~OwnedBy(a + 1, fn.addr) THEN <<>>
    ELSE (IF ~fallsThrough THEN <<>>
          ELSE IF OwnedBy(a + 2, fn.addr)
               THEN <<[Stmt("go", a) EXCEPT !.to = a + 2, !.how = "goto"]>>
               ELSE <<Stmt("return", a)>>)
         \o <<[EmitSimple(a + 1) EXCEPT !.lab = a + 1]>>

\* The delay slot of a as this body can run it: its own, or a copy of a slot
\* that another body owns, which only a path that leaves may run.
HaveSlot(fn, a) == HasSlot(prog[a]) /\ OwnedBy(a + 1, fn.addr)
OwnSlot(fn, a) == IF HaveSlot(fn, a) THEN <<a + 1>> ELSE <<>>
TakenSlot(fn, a) ==
    IF ~HaveSlot(fn, a) /\ a + 1 \in Words /\ SlotRepeatable(a + 1) THEN <<a + 1>> ELSE <<>>

\* A likely branch runs its slot on the taken path only.
PreOf(fn, a) == IF IsLikely(prog[a]) THEN <<>> ELSE OwnSlot(fn, a)
ThenOf(fn, a) == IF IsLikely(prog[a]) THEN OwnSlot(fn, a) \o TakenSlot(fn, a) ELSE TakenSlot(fn, a)

\* bgezal and its kin: with the slot in another body the taken path has run its
\* copy and resumes after it.
EmitLink(fn, a) ==
    <<[Stmt("call", a) EXCEPT !.pre = PreOf(fn, a), !.then = ThenOf(fn, a), !.to = prog[a].t,
                              !.again = IF HaveSlot(fn, a) THEN 0 ELSE a + 2]>>
    \o SlotAlias(fn, a, TRUE)

EmitBranch(fn, a) ==
    <<[Stmt("branch", a) EXCEPT !.pre = PreOf(fn, a), !.then = ThenOf(fn, a), !.to = prog[a].t,
                                !.how = IF OwnedBy(prog[a].t, fn.addr) THEN "goto" ELSE "leave"]>>
    \o SlotAlias(fn, a, TRUE)

EmitGetPc(fn, a) ==
    <<[Stmt("getpc", a) EXCEPT !.pre = OwnSlot(fn, a)]>> \o SlotAlias(fn, a, TRUE)

EmitCall(fn, a) ==
    <<[Stmt("call", a) EXCEPT !.pre = OwnSlot(fn, a), !.to = prog[a].t]>> \o SlotAlias(fn, a, TRUE)

EmitReturn(fn, a) ==
    <<[Stmt("jr_ra", a) EXCEPT !.pre = OwnSlot(fn, a) \o TakenSlot(fn, a)]>>
    \o SlotAlias(fn, a, FALSE)

EmitComputed(fn, a) ==
    <<[Stmt("jr", a) EXCEPT !.pre = OwnSlot(fn, a) \o TakenSlot(fn, a)]>>
    \o SlotAlias(fn, a, FALSE)

EmitJump(fn, a) ==
    <<[Stmt("go", a) EXCEPT !.pre = OwnSlot(fn, a) \o TakenSlot(fn, a), !.to = prog[a].t,
          !.how = IF OwnedBy(prog[a].t, fn.addr) /\ ~IsFunction(prog[a].t)
                  THEN "goto" ELSE "leave"]>>
    \o SlotAlias(fn, a, FALSE)

Construct(fn, a) ==
    LET in == prog[a]
    IN  CASE IsBranch(in) /\ IsCall(in) -> EmitLink(fn, a)
          [] IsBranch(in) /\ ~IsCall(in) -> EmitBranch(fn, a)
          [] IsGetPc(in, a) -> EmitGetPc(fn, a)
          [] in.k = "jalr" \/ (in.k = "jal" /\ ~IsGetPc(in, a)) -> EmitCall(fn, a)
          [] IsReturn(in) -> EmitReturn(fn, a)
          [] in.k = "jr" -> EmitComputed(fn, a)
          [] in.k = "j" -> EmitJump(fn, a)
          [] OTHER -> <<EmitSimple(a)>>

(***************************************************************************)
(* emit_function: the owned words in address order.  A gap that control    *)
(* can fall into becomes a transfer, and so does the end of the body.      *)
(***************************************************************************)
EmitWord(fn, acc, a) ==
    IF ~OwnedBy(a, fn.addr)
    THEN IF acc.terminal THEN acc
         ELSE [body |-> Append(acc.body, [Stmt("fall", a) EXCEPT !.to = a, !.how = "leave"]),
               terminal |-> TRUE]
    ELSE IF a \in slots THEN acc
    ELSE LET stmts == Construct(fn, a)
         IN  [body |-> acc.body \o [stmts EXCEPT ![1].lab = a],
              terminal |-> Terminal(prog[a])]

\* Past the last word: another function, a label of another body, or nothing.
FallThrough(fn) ==
    LET next == fn.end
    IN  IF \/ IsFunction(next)
           \/ next \in Words /\ owner[next] # 0 /\ next \notin slots /\ next \in labels
        THEN [Stmt("fall", next) EXCEPT !.to = next, !.how = "leave"]
        ELSE Stmt("return", next)

EmitFunction(fn) ==
    LET whole == FoldLeft(LAMBDA acc, a: EmitWord(fn, acc, a),
                          [body |-> <<>>, terminal |-> FALSE],
                          [i \in 1..(fn.end - fn.start) |-> fn.start + i - 1])
    IN  Append(whole.body, IF whole.terminal THEN Stmt("return", 0) ELSE FallThrough(fn))

EInit == code = <<>> /\ labels = {} /\ slots = {}

\* a_emit: first the label map of the whole module, then the bodies.
MarkLabels ==
    /\ Discovered /\ labels = {} /\ code = <<>>
    /\ labels' = UNION {LabelsOf(fn) : fn \in funcs} \cup {fn.addr : fn \in funcs}
    /\ slots' = UNION {SlotsOf(fn) : fn \in funcs}
    /\ UNCHANGED code

Emit ==
    /\ labels # {} /\ code = <<>>
    /\ code' = [f \in {fn.addr : fn \in funcs} |->
                   EmitFunction(CHOOSE fn \in funcs : fn.addr = f)]
    /\ UNCHANGED <<labels, slots>>

(***************************************************************************)
(* psp_recomp_register: what dispatch resolves.  Functions by their entry, *)
(* the thunks of interior labels by theirs.                                *)
(***************************************************************************)
Registered == {fn.addr : fn \in funcs} \cup {a \in labels \ slots : owner[a] # 0}

\* The body that runs when control is sent to t, and the statement it starts
\* at: the switch knows every label but those of slots.
BodyOf(t) == IF IsFunction(t) THEN t ELSE owner[t]
LabelIndex(f, t) == CHOOSE i \in DOMAIN code[f] : code[f][i].lab = t
EntryIndex(f, t) == IF t \in labels \ slots /\ \E i \in DOMAIN code[f] : code[f][i].lab = t
                    THEN LabelIndex(f, t) ELSE 1
=============================================================================
