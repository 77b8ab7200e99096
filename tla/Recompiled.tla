----------------------------- MODULE Recompiled -----------------------------
(***************************************************************************)
(* The emitted program at work, in lockstep with the processor it stands   *)
(* for.  cpu is the C machine: the body and the statement it is at, the    *)
(* guest calls in flight (each a C frame and the psp_frame of              *)
(* PSP_CALL_BEGIN), $ra and the guest's saved copies of it, and the unwind *)
(* in progress.  hw is the hardware, run by the instructions the C machine *)
(* runs.  A tail call reuses its frame, as emit_static_call_tail intends.  *)
(***************************************************************************)
EXTENDS Emission

CONSTANTS MaxCalls,    \* bound on guest calls in flight
          MaxSaved     \* bound on saved return addresses

VARIABLES cpu, hw

rvars == <<cpu, hw>>
vars == <<dvars, evars, rvars>>

Off == [f |-> 0, i |-> 0, calls |-> <<>>, ra |-> Host, saved |-> <<>>,
        unwind |-> 0, st |-> "off"]

Here == code[cpu.f][cpu.i]
Running(op) == cpu.st = "run" /\ Here.op = op

(***************************************************************************)
(* Transfers of the C machine c.                                           *)
(***************************************************************************)
Step(c) == [c EXCEPT !.i = @ + 1]
GotoLabel(c, t) ==
    IF \E i \in DOMAIN code[c.f] : code[c.f][i].lab = t
    THEN [c EXCEPT !.i = LabelIndex(c.f, t)] ELSE [c EXCEPT !.st = "miss"]

\* psp_dispatch, or the direct call of a body: a miss stops the program.
Enter(c, t) ==
    IF t \in Registered
    THEN [c EXCEPT !.f = BodyOf(t), !.i = EntryIndex(BodyOf(t), t)]
    ELSE [c EXCEPT !.st = "miss"]

\* PSP_CALL_END after the call in frame k: go on there.
Resume(c, k) ==
    LET fr == c.calls[k]
        back == [c EXCEPT !.f = fr.f, !.i = fr.i, !.calls = SubSeq(@, 1, k - 1), !.unwind = 0]
    IN  IF fr.after = 0 THEN back
        ELSE IF OwnedBy(fr.after, fr.f) /\ fr.after \in labels THEN GotoLabel(back, fr.after)
        ELSE Enter(back, fr.after)

\* A C return: to the innermost call, or past those an unwind is not for.
Return(c) ==
    IF c.calls = <<>> THEN [c EXCEPT !.st = "done", !.unwind = 0]
    ELSE IF c.unwind = 0 THEN Resume(c, Len(c.calls))
    ELSE Resume(c, Max({k \in DOMAIN c.calls : c.calls[k].ret = c.unwind}))

\* psp_ra_is_jump: is $ra = t a return, a return past nested calls, or a jump?
Returns(c, t) == c.calls = <<>> \/ Last(c.calls).ret = t
Unwinds(c, t) == ~Returns(c, t) /\ \E k \in 1..(Len(c.calls) - 1) : c.calls[k].ret = t

JrRa(c, t) ==
    CASE Returns(c, t) -> Return(c)
      [] Unwinds(c, t) -> Return([c EXCEPT !.unwind = t])
      [] OTHER -> Enter(c, t)

\* The guest registers after the slots in s; the hardware after running them.
RegsAfter(c, s) == FoldLeft(LAMBDA r, a: RaEffect(prog[a], r), c, s)
HwAfter(h, s) == FoldLeft(LAMBDA g, a: HwRun(g, prog, a, FALSE, 0), h, s)

\* A transfer in tail position; an import thunk runs and the body returns.
Leave(c, t) == IF t = Stub THEN Return(c) ELSE Enter(c, t)
HwLeave(h, t) == IF t = Stub THEN HwImport(h) ELSE h

\* The return address of the frame that runs, Host for the outermost.
Expected(c) == IF c.calls = <<>> THEN Host ELSE Last(c.calls).ret

(***************************************************************************)
(* One action per kind of statement.                                       *)
(***************************************************************************)
Boot ==
    /\ code # <<>> /\ cpu.st = "off"
    /\ \E e \in ToSet(img.seeds) \cap Words :
          /\ cpu' = Enter([Off EXCEPT !.st = "run"], e)
          /\ hw' = Reset(e)

RunInsn ==
    /\ Running("run") /\ Len(cpu.saved) < MaxSaved
    /\ cpu' = Step(RaEffect(prog[Here.a], cpu))
    /\ hw' = HwRun(hw, prog, Here.a, FALSE, 0)

\* psp_unimplemented reports and comes back; the processor has discarded the
\* result, or has met a word with no meaning.
Trap ==
    /\ Running("trap")
    /\ cpu' = Step(cpu)
    /\ hw' = HwRun(hw, prog, Here.a, FALSE, 0)

Branch(taken) ==
    /\ Running("branch") /\ (taken /\ Here.to = Stub => cpu.ra = Expected(cpu))
    /\ LET ran == Here.pre \o (IF taken THEN Here.then ELSE <<>>)
           c == RegsAfter(cpu, ran)
           h == HwAfter(HwRun(hw, prog, Here.a, taken, 0), ran)
       IN  /\ cpu' = CASE ~taken -> Step(c)
                       [] taken /\ Here.how = "goto" -> GotoLabel(c, Here.to)
                       [] OTHER -> Leave(c, Here.to)
           /\ hw' = IF taken /\ Here.how = "leave" THEN HwLeave(h, Here.to) ELSE h

GetPc ==
    /\ Running("getpc")
    /\ cpu' = Step([RegsAfter(cpu, Here.pre) EXCEPT !.ra = Here.a + 2])
    /\ hw' = HwAfter(HwRun(hw, prog, Here.a, TRUE, 0), Here.pre)

\* jal, jalr and the branch-and-link forms.  A branch links before its slot
\* runs, taken or not; a jump links after it.
Pointers == {prog[a].t : a \in {b \in Words : prog[b].k = "la"}} \cup ToSet(img.seeds)

Call(taken, t) ==
    /\ Running("call") /\ Len(cpu.calls) < MaxCalls
    /\ LET in == prog[Here.a]
           ran == Here.pre \o (IF taken THEN Here.then ELSE <<>>)
           c == IF IsBranch(in) THEN RegsAfter([cpu EXCEPT !.ra = Here.a + 2], ran)
                ELSE [RegsAfter(cpu, ran) EXCEPT !.ra = Here.a + 2]
           h == HwAfter(HwRun(hw, prog, Here.a, taken, t), ran)
           frame == [f |-> cpu.f, i |-> cpu.i + 1, ret |-> Here.a + 2, after |-> Here.again]
           called == [c EXCEPT !.calls = Append(@, frame)]
       IN  /\ IsBranch(in) \/ taken
           /\ t \in IF IsIndirect(in) THEN Pointers ELSE {in.t}
           /\ cpu' = IF taken THEN Leave(called, t) ELSE Step(c)
           /\ hw' = IF taken THEN HwLeave(h, t) ELSE h

\* To the host a body returns whatever $ra holds (dispatch.h); a program that
\* has lost the host's return address by then is not followed further.
JumpRa ==
    /\ Running("jr_ra") /\ (cpu.calls = <<>> => cpu.ra = Host)
    /\ cpu' = JrRa(RegsAfter(cpu, Here.pre), cpu.ra)
    /\ hw' = HwAfter(HwRun(hw, prog, Here.a, TRUE, 0), Here.pre)

JumpComputed ==
    /\ Running("jr")
    /\ \E t \in TableTargets(Here.a) :
          /\ cpu' = Enter(RegsAfter(cpu, Here.pre), t)
          /\ hw' = HwAfter(HwRun(hw, prog, Here.a, TRUE, t), Here.pre)

\* j; and the goto that steps over a slot's labelled copy, which the hardware
\* does not have.
Go ==
    /\ Running("go") /\ (Here.to = Stub => cpu.ra = Expected(cpu))
    /\ LET c == RegsAfter(cpu, Here.pre)
           h == IF prog[Here.a].k = "j"
                THEN HwAfter(HwRun(hw, prog, Here.a, TRUE, 0), Here.pre) ELSE hw
       IN  /\ cpu' = IF Here.how = "goto" THEN GotoLabel(c, Here.to) ELSE Leave(c, Here.to)
           /\ hw' = IF Here.how = "leave" THEN HwLeave(h, Here.to) ELSE h

FallOut == Running("fall") /\ cpu' = Enter(cpu, Here.to) /\ UNCHANGED hw

\* The end of a body, or the return after a slot's copy: a C return.  Where the
\* hardware goes on in a word no body holds, the program is lost from here on.
FallOff ==
    /\ Running("return")
    /\ cpu' = IF (hw.pc \in Words /\ owner[hw.pc] = 0) \/ hw.pc >= Stub
              THEN [cpu EXCEPT !.st = "lost"] ELSE Return(cpu)
    /\ UNCHANGED hw

Runs ==
    \/ Boot \/ RunInsn \/ Trap \/ GetPc \/ JumpRa \/ JumpComputed \/ Go \/ FallOut \/ FallOff
    \/ \E taken \in BOOLEAN : Branch(taken)
    \/ \E taken \in BOOLEAN, t \in Words \cup {Stub} \cup {0} : Call(taken, t)

Init == DInit /\ EInit /\ cpu = Off /\ hw = Reset(Host)

Recompile ==
    \/ DNext /\ UNCHANGED <<evars, rvars>>
    \/ (MarkLabels \/ Emit) /\ UNCHANGED <<dvars, rvars>>

Next ==
    \/ Recompile
    \/ Runs /\ UNCHANGED <<dvars, evars>>

Spec == Init /\ [][Next]_vars

\* The tool is one sequential program: it keeps taking its next step.
FairSpec == Spec /\ WF_vars(Recompile)

(***************************************************************************)
(* Properties.                                                             *)
(***************************************************************************)
\* The images whose translation is exact.  Each conjunct is a shape that
\* emission does not translate faithfully; the README gives an example of
\* each.
\*  - an entry that another walk had claimed as its own word or slot;
\*  - an entry that is a delay slot of its own body: the switch has no case
\*    for it, and the body starts at its lowest word;
\*  - a call or a likely branch whose delay slot another body owns;
\*  - a branch-and-link into the middle of a body, at no label;
\*  - a delay slot that is jumped to and whose successor another body owns;
\*  - jalr as the last instruction of a body.
EntriesAreFunctions == \A e \in entry : IsFunction(e)

SlotsAtHand ==
    \A a \in Words : (IsCall(prog[a]) \/ IsLikely(prog[a])) /\ owner[a] # 0 =>
        owner[a + 1] = owner[a]

LinkTargetsCallable ==
    \A a \in Words : IsBranch(prog[a]) /\ IsCall(prog[a]) /\ owner[a] # 0 =>
        prog[a].t \in Registered \cup {Stub}

SlotCopyContinues ==
    \A s \in slots \cap labels : s + 1 \in Words /\ owner[s + 1] = owner[s]

ComputedCallContinues ==
    \A a \in Words : prog[a].k = "jalr" /\ owner[a] # 0 =>
        a + 2 \in Words /\ owner[a + 2] = owner[a]

EntriesAreNoSlots == entry \cap slots = {}

Regular == EntriesAreFunctions /\ EntriesAreNoSlots /\ SlotsAtHand
           /\ LinkTargetsCallable /\ SlotCopyContinues

Lockstep ==
    /\ hw.ok
    /\ cpu.st = "run" => cpu.ra = hw.ra /\ cpu.saved = hw.saved
    /\ cpu.st = "done" => hw.pc = Host
    /\ cpu.st = "miss" => ~(hw.pc \in Words /\ owner[hw.pc] # 0)

\* The emitted program runs the instructions the processor runs, in the same
\* order and with the same $ra, delay slots, annulled slots, captured
\* conditions, fall-outs between bodies and unwound returns included; it ends
\* when the processor is back at the host; and dispatch never misses code that
\* some body holds (emit_function, psp_ra_is_jump, PSP_CALL_END).
InLockstep == Regular /\ ComputedCallContinues => Lockstep

\* emit.c: "if the last instruction emitted could fall through, and the
\* address after this function is another function's entry, continue there".
FallThroughContinues == Regular => Lockstep

\* Iterating to a fixpoint leaves no branch into another body's middle: a
\* branch target belongs to the brancher or is an entry (trace_function's
\* cross list and the rounds of a_discover), unless the cap on rounds leaves
\* targets that were met and not made entries.
BranchTargetsKnown ==
    Discovered /\ Met \subseteq entry => \A a \in Words :
        IsBranch(prog[a]) /\ ~IsCall(prog[a]) /\ owner[a] # 0 /\ prog[a].t \in Words
            => owner[prog[a].t] = owner[a] \/ prog[a].t \in entry

\* Discovery reaches its fixpoint: the rounds end for every image.
DiscoveryEnds == <>(Discovered /\ cross = <<>>)
=============================================================================
