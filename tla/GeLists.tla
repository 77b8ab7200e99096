------------------------------ MODULE GeLists ------------------------------
(***************************************************************************)
(* The display lists of src/hle/ge.c: the CPU writes commands and moves    *)
(* the stall address of a list, the GE runs up to it.  A command is kept   *)
(* as far as the walk and the vertex bookkeeping tell it apart; addresses  *)
(* have their base in them.  run_list is a step per command: the call that *)
(* runs it keeps the CPU until the list stalls, ends or is out of budget.  *)
(*                                                                         *)
(* Beside it goes the GE the lists are written for: one that has a stack   *)
(* of its own for every list, however it is cut up by stalls.              *)
(***************************************************************************)
EXTENDS Integers, Sequences, FiniteSets, FiniteSetsExt

CONSTANTS NQueues,        \* MAX_QUEUES
          GeStack,        \* GE_STACK
          WalkBudget,     \* the step budget of run_list
          MaxLists,       \* bound: lists enqueued
          ListLen,        \* bound: words the CPU writes, from address 1 on
          VTypes          \* vertex types [tex, color, normal, pos, weight, index]

(* The widths of the fields of GE_VERTEXTYPE. *)
ASSUME GeAssumption ==
    /\ {NQueues, GeStack, WalkBudget, ListLen} \subseteq Nat
    /\ VTypes # {}
    /\ VTypes \subseteq [tex : 0..3, color : 0..7, normal : 0..3, pos : 0..3, weight : 0..3,
                        index : 0..3]

Queue == 1..NQueues

(* Commands that steer the walk, and commands that draw. *)
Steering == [op : {"nop", "ret", "finish"}, arg : {0}] \cup [op : {"jump", "call"}, arg : 1..ListLen]
Drawing  == [op : {"vaddr", "iaddr", "finish"}, arg : {0}] \cup [op : {"prim"}, arg : {1}]
            \cup [op : {"vtype"}, arg : VTypes]

VARIABLES words,      \* the list memory the CPU has written
          queue,      \* g_queue
          nextId,     \* g_next_id
          run,        \* the run_list under way: its queue (0: none), stack and budget
          verts,      \* g_ge.vtype, vaddr, iaddr as far as they matter, and the counters
          hw,         \* the reference: where each list is, and its stack
          astray      \* history: lists that stalled inside a CALL, or went too deep

geVars == <<words, queue, nextId, run, verts, hw, astray>>

NoQueue == [used |-> FALSE, id |-> 0, list |-> 0, stall |-> 0]
NoRun   == [q |-> 0, stack |-> << >>, budget |-> 0]

(* psp_ge_reset *)
GeInit == /\ words = << >>
          /\ queue = [q \in Queue |-> NoQueue]
          /\ nextId = 1
          /\ run = NoRun
          /\ verts = [vtype |-> CHOOSE v \in VTypes : TRUE, vaddr |-> FALSE, iaddr |-> FALSE,
                      submitted |-> 0, drawn |-> 0, unsupported |-> 0]
          /\ hw = << >>
          /\ astray = {}

AtEnd == 0
(* The reference of a list that has ended, or is no longer followed. *)
Lost  == [pc |-> AtEnd, stack |-> << >>]

(* What the CPU has not written yet is read as zero, a NOP. *)
Fetch(a) == IF a \in DOMAIN words THEN words[a] ELSE [op |-> "nop", arg |-> 0]

-----------------------------------------------------------------------------
(* The CPU writes the next word of the lists. *)
WriteWord(c) == /\ run = NoRun
                /\ Len(words) < ListLen
                /\ words' = Append(words, c)
                /\ UNCHANGED <<queue, nextId, run, verts, hw, astray>>

Running(q) == [q |-> q, stack |-> << >>, budget |-> WalkBudget]

(* hle_ListEnQueue and hle_ListEnQueueHead: a free slot, or NO_MEMORY; a stall of 0 is
   none. *)
ListEnQueue(list, stall) ==
    /\ run = NoRun /\ nextId <= MaxLists
    /\ \E q \in Queue : ~queue[q].used
    /\ LET q == Min({r \in Queue : ~queue[r].used})
       IN /\ queue' = [queue EXCEPT ![q] = [used |-> TRUE, id |-> nextId, list |-> list,
                                            stall |-> stall]]
          /\ run' = Running(q)
    /\ nextId' = nextId + 1
    /\ hw' = Append(hw, [pc |-> list, stack |-> << >>])
    /\ UNCHANGED <<words, verts, astray>>

(* hle_ListUpdateStallAddr, of a list that has not ended; of one that has it is OK.
   The run it starts has a stack of its own.  (Bound: not of a list that has run away
   from the words.) *)
ListUpdateStallAddr(id, stall) ==
    /\ run = NoRun
    /\ \E q \in Queue : /\ queue[q].used /\ queue[q].id = id
                        /\ queue[q].list <= ListLen + 1
                        /\ queue' = [queue EXCEPT ![q].stall = stall]
                        /\ run' = Running(q)
    /\ UNCHANGED <<words, nextId, verts, hw, astray>>

-----------------------------------------------------------------------------
(* The elements of the components of a vertex type: their size, and the bytes of all. *)
ElemSize(v, p) == CASE p = "color" -> <<0, 0, 0, 0, 2, 2, 2, 4>>[v.color + 1]
                    [] OTHER -> <<0, 1, 2, 4>>[v[p] + 1]
Bytes(v, p) == ElemSize(v, p) * CASE p = "tex" -> 2 [] p = "color" -> 1 [] OTHER -> 3
Component == {"tex", "color", "normal", "pos"}

(* Mutant: components follow one another as they are. *)
AlignToPacked(n, m) == n

AlignTo(n, m) == IF m = 0 THEN n ELSE ((n + m - 1) \div m) * m

(* vertex_layout *)
Layout(v) == LET color  == AlignTo(Bytes(v, "tex"), ElemSize(v, "color"))
                 normal == AlignTo(color + Bytes(v, "color"), ElemSize(v, "normal"))
                 pos    == AlignTo(normal + Bytes(v, "normal"), ElemSize(v, "pos"))
             IN [tex |-> 0, color |-> color, normal |-> normal, pos |-> pos,
                 stride |-> IF v.weight # 0 \/ ElemSize(v, "pos") = 0 THEN 0
                            ELSE AlignTo(pos + Bytes(v, "pos"),
                                         Max({ElemSize(v, p) : p \in Component}))]

(* GE_PRIM and draw_prim: what cannot be drawn is counted.  (The pointers move on by
   what was read, which keeps them set.) *)
DrawPrim(n) == LET v == verts.vtype
               IN IF \/ ~verts.vaddr
                     \/ Layout(v).stride = 0
                     \/ v.index # 0 /\ ~verts.iaddr
                  THEN [verts EXCEPT !.submitted = @ + n, !.unsupported = @ + n]
                  ELSE [verts EXCEPT !.submitted = @ + n, !.drawn = @ + n]

-----------------------------------------------------------------------------
(* The GE as the lists see it: a command moves the list's own pc and stack. *)
HwAfter(h, c) == CASE c.op = "jump" -> [h EXCEPT !.pc = c.arg]
                   [] c.op = "call" -> [pc |-> c.arg, stack |-> Append(h.stack, h.pc + 1)]
                   [] c.op = "ret" /\ h.stack # << >> ->
                        [pc |-> h.stack[Len(h.stack)], stack |-> SubSeq(h.stack, 1, Len(h.stack) - 1)]
                   [] c.op = "finish" -> Lost
                   [] OTHER -> [h EXCEPT !.pc = @ + 1]

(* GE_CALL saves the address after it, while there is room. *)
Push(stack, a) == IF Len(stack) < GeStack THEN Append(stack, a + 1) ELSE stack

Stalled(q) == queue[q].stall # 0 /\ queue[q].list = queue[q].stall

(* Mutant: a list that ends keeps its slot. *)
EndListKeeps(q) == /\ UNCHANGED queue
                   /\ run' = NoRun

(* GE_END, GE_FINISH: "A finished list gives its slot back". *)
EndList(q) == /\ queue' = [queue EXCEPT ![q].used = FALSE]
              /\ run' = NoRun

(* One turn of run_list's loop, at a command. *)
WalkCommand ==
    LET q == run.q
        a == queue[q].list
        c == Fetch(a)
        h == queue[q].id
    IN /\ q # 0 /\ run.budget > 0 /\ ~Stalled(q)
       /\ astray' = IF c.op = "call" /\ Len(run.stack) = GeStack THEN astray \cup {h} ELSE astray
       /\ hw' = [hw EXCEPT ![h] = IF h \in astray' THEN Lost ELSE HwAfter(@, c)]
       /\ verts' = CASE c.op = "vtype" -> [verts EXCEPT !.vtype = c.arg]
                     [] c.op = "vaddr" -> [verts EXCEPT !.vaddr = TRUE]
                     [] c.op = "iaddr" -> [verts EXCEPT !.iaddr = TRUE]
                     [] c.op = "prim"  -> DrawPrim(c.arg)
                     [] OTHER -> verts
       /\ IF c.op = "finish" THEN EndList(q)
          ELSE LET back == c.op = "ret" /\ run.stack # << >>
                   top  == Len(run.stack)
               IN /\ queue' = [queue EXCEPT ![q].list =
                                  IF c.op \in {"jump", "call"} THEN c.arg
                                  ELSE IF back THEN run.stack[top] ELSE a + 1]
                  /\ run' = [run EXCEPT !.budget = @ - 1,
                                        !.stack = IF c.op = "call" THEN Push(@, a)
                                                  ELSE IF back THEN SubSeq(@, 1, top - 1) ELSE @]
       /\ UNCHANGED <<words, nextId>>

(* The loop ends: "caught up to the CPU", or out of budget. *)
WalkStops == /\ run.q # 0 /\ (Stalled(run.q) \/ run.budget = 0)
             /\ IF run.stack = << >> THEN UNCHANGED <<hw, astray>>
                ELSE /\ astray' = astray \cup {queue[run.q].id}
                     /\ hw' = [hw EXCEPT ![queue[run.q].id] = Lost]
             /\ run' = NoRun
             /\ UNCHANGED <<words, queue, nextId, verts>>

(* sceGeListSync, DrawSync, Break, Continue, SetCallback: answered, nothing done. *)
GeAnswer == run = NoRun /\ UNCHANGED geVars

GeNext(commands) ==
    \/ \E c \in commands : WriteWord(c)
    \/ \E list \in 1..ListLen, stall \in 0..Len(words) + 1 : ListEnQueue(list, stall)
    \/ \E id \in 1..nextId - 1, stall \in 0..Len(words) + 1 : ListUpdateStallAddr(id, stall)
    \/ WalkCommand
    \/ WalkStops
    \/ GeAnswer

GeSpec == GeInit /\ [][GeNext(Steering \cup Drawing)]_geVars

-----------------------------------------------------------------------------
(* A list cut up by stalls is run as if it were not: run_list is always at the command
   that the list's own jumps, calls and returns lead to, and a list has a slot until
   it has ended and no longer - as long as it does not stall inside a CALL (run_list's
   stack is a local, which a stall loses) or nest deeper than GE_STACK (the CALL is
   taken but its return is not saved). *)
ListsInLockstep ==
    \A id \in DOMAIN hw \ astray :
       LET slots == {q \in Queue : queue[q].used /\ queue[q].id = id}
       IN IF hw[id].pc = AtEnd THEN slots = {}
          ELSE \E q \in slots : /\ hw[id].pc = queue[q].list
                                /\ run.q = q => hw[id].stack = run.stack

(* vertex_layout: every component of a vertex is aligned to its elements in every
   vertex of an array, lies within the vertex, and shares no byte with another. *)
LayoutSound ==
    LET v == verts.vtype
        l == Layout(v)
        has == {p \in Component : ElemSize(v, p) # 0}
    IN l.stride # 0 =>
          /\ \A p \in has : /\ l[p] % ElemSize(v, p) = 0 /\ l.stride % ElemSize(v, p) = 0
                            /\ l[p] + Bytes(v, p) <= l.stride
          /\ \A p, r \in has : p # r => \/ l[p] + Bytes(v, p) <= l[r]
                                         \/ l[r] + Bytes(v, r) <= l[p]
=============================================================================
