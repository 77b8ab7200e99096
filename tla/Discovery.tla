----------------------------- MODULE Discovery ------------------------------
(***************************************************************************)
(* Function discovery (tools/allegrexrecomp/analyze.c): which words are    *)
(* code, which function owns each, and where functions begin.  One action  *)
(* per step of the walk: Round 0 starts from the seeds and the two linear  *)
(* scans; each further round promotes the jump-table and shared-block      *)
(* targets it has met to entries and walks everything again.               *)
(***************************************************************************)
EXTENDS Allegrex, FiniteSetsExt, SequencesExt

CONSTANTS Images,      \* the images to recompile: [prog, seeds, table]
          MaxRounds    \* the cap on rounds (8 in the source)

\* A transfer in a delay slot has no meaning on the processor.
ASSUME DiscoveryAssumption ==
    /\ MaxRounds \in Nat
    /\ \A i \in Images : \A a \in Words :
          HasSlot(i.prog[a]) /\ a + 1 \in Words => ~HasSlot(i.prog[a + 1])

VARIABLES
    img,         \* the image being recompiled
    entry,       \* entry_map
    seen,        \* words decoded as code in this round (SEEN_CODE)
    walked,      \* entries taken from the queue in this round (SEEN_ENTRY)
    owner,       \* the entry of the function that owns a word, 0 for none
    queue,       \* entries still to walk, last in first out
    cross,       \* branch targets another walk had already claimed
    indirects,   \* computed-jump sites met in this round
    funcs,       \* [addr, start, end] of each function found
    imports,     \* import thunks to be defined
    round,       \* rounds begun, MaxRounds + 1 once the result is final
    walk         \* trace_function's locals; at = 0 between blocks

dvars == <<img, entry, seen, walked, owner, queue, cross, indirects, funcs,
           imports, round, walk>>

prog == img.prog
NoWalk == [of |-> 0, at |-> 0, blocks |-> <<>>, start |-> 0, end |-> 0, n |-> 0]

\* Appends to the list q the targets in the sequence s, in order, that are
\* not entries yet: the scans test entry_map before they push.
Harvest(q, known, s) ==
    FoldLeft(LAMBDA acc, t: IF t \in acc.known THEN acc
                            ELSE [q |-> Append(acc.q, t), known |-> acc.known \cup {t}],
             [q |-> q, known |-> known], s)

InOrder(S) == SetToSortSeq(S, <)
TargetsOf(p, sites) == [i \in 1..Len(sites) |-> p[sites[i]].t]

\* jal targets, found by linear scan; then the pointers lui+addiu builds.
CallTargets(p) ==
    TargetsOf(p, InOrder({a \in Words : /\ p[a].k = "jal" /\ ~IsGetPc(p[a], a)
                                        /\ p[a].t \in Words}))
PointerTargets(p) ==
    TargetsOf(p, InOrder({a \in Words : /\ p[a].k = "la" /\ p[a].t \in Words
                                        /\ p[p[a].t].k # "bad"}))

DInit ==
    /\ img \in Images
    /\ LET seeded == SelectSeq(img.seeds, LAMBDA s: s \in Words)
           calls == Harvest(seeded, ToSet(seeded), CallTargets(img.prog))
           all == Harvest(calls.q, calls.known, PointerTargets(img.prog))
       IN queue = all.q /\ entry = all.known
    /\ owner = [w \in Words |-> 0]
    /\ seen = {} /\ walked = {} /\ cross = <<>> /\ indirects = {} /\ funcs = {}
    /\ imports = {} /\ round = 1 /\ walk = NoWalk

(***************************************************************************)
(* The walk of one function.                                               *)
(***************************************************************************)
\* The queue's last entry is taken; one already walked is dropped.
TakeEntry ==
    /\ round <= MaxRounds /\ walk.of = 0 /\ queue # <<>>
    /\ LET e == Last(queue)
       IN  /\ walked' = walked \cup {e}
           /\ walk' = IF e \in walked THEN NoWalk
                      ELSE [NoWalk EXCEPT !.of = e, !.blocks = <<e>>,
                                          !.start = e, !.end = e]
    /\ queue' = Front(queue)
    /\ UNCHANGED <<img, entry, seen, owner, cross, indirects, funcs, imports, round>>

\* A walk reaches a when it is in the image, not claimed yet, and not the
\* entry of another function.
Reaches(a) == a \in Words /\ a \notin seen /\ (a = walk.of \/ a \notin entry)

\* The walk goes on at the address it has come to, or with the newest block.
TakeBlock ==
    /\ walk.of # 0 /\ ~Reaches(walk.at) /\ walk.blocks # <<>>
    /\ walk' = [walk EXCEPT !.at = Last(walk.blocks), !.blocks = Front(@)]
    /\ UNCHANGED <<img, entry, seen, walked, owner, queue, cross, indirects,
                   funcs, imports, round>>

\* Where the walk stands after the instruction in at a: the next address (0 to
\* stop), the block it pushes, the target shared with another walk, the calls
\* it queues and the entries it makes.
After(in, a) ==
    LET none == [at |-> 0, block |-> <<>>, cross |-> <<>>, calls |-> <<>>, entry |-> {}]
        \* a local target is a block, unless another walk has claimed it
        local == IF in.t \in seen' /\ in.t \notin entry
                 THEN [none EXCEPT !.cross = <<in.t>>]
                 ELSE [none EXCEPT !.block = <<in.t>>]
    IN  CASE in.k = "bad" -> none
          [] IsCall(in) ->
                [none EXCEPT !.at = a + 2,
                    !.calls = IF /\ HasTarget(in) /\ ~IsGetPc(in, a) /\ in.t \in Words
                              THEN <<in.t>> ELSE <<>>]
          [] IsReturn(in) \/ IsIndirect(in) -> none
          [] IsBranch(in) ->
                [(IF in.t \in Words THEN local ELSE none) EXCEPT !.at = a + 2]
          [] IsJump(in) ->
                CASE in.t \notin Words -> none
                  [] in.t <= a /\ a # walk.of /\ in.t \notin entry -> local
                  [] in.t \notin entry ->                          \* a tail call
                        [none EXCEPT !.calls = <<in.t>>, !.entry = {in.t}]
                  [] OTHER -> none
          [] OTHER -> [none EXCEPT !.at = a + 1]

\* The end of a function's range after the words in claimed.
Extent(end, a, claimed) == Max({end} \cup {w + 1 : w \in claimed})

\* One instruction: it and its delay slot are claimed, and the walk moves on.
Visit ==
    /\ walk.of # 0 /\ Reaches(walk.at)
    /\ LET a == walk.at
           in == prog[a]
           slot == IF HasSlot(in) THEN {a + 1} \cap Words ELSE {}
           claimed == {a} \cup slot
       IN  /\ seen' = seen \cup claimed
           /\ owner' = [w \in Words |-> IF w \in claimed \ seen THEN walk.of ELSE owner[w]]
           /\ imports' = IF HasTarget(in) /\ in.t = Stub THEN imports \cup {Stub} ELSE imports
           /\ indirects' = IF in.k = "jr" THEN indirects \cup {a} ELSE indirects
           /\ LET go == After(in, a)
              IN  /\ walk' = [walk EXCEPT !.at = go.at, !.blocks = @ \o go.block,
                                 !.start = Min({@, a}), !.end = Extent(@, a, claimed),
                                 !.n = @ + Cardinality(claimed \ seen)]
                  /\ cross' = cross \o go.cross
                  /\ queue' = queue \o go.calls
                  /\ entry' = entry \cup go.entry
    /\ UNCHANGED <<img, walked, funcs, round>>

\* Nothing left to walk here.  A walk that decoded nothing is no function.
EndFunction ==
    /\ walk.of # 0 /\ ~Reaches(walk.at) /\ walk.blocks = <<>>
    /\ funcs' = IF walk.n = 0 THEN funcs
                ELSE funcs \cup {[addr |-> walk.of, start |-> walk.start, end |-> walk.end]}
    /\ walk' = NoWalk
    /\ UNCHANGED <<img, entry, seen, walked, owner, queue, cross, indirects, imports, round>>

\* The entries of the table that feeds a computed jump, read until one is not
\* code; a single one is no evidence of a table.
TableTargets(site) ==
    LET rows == img.table
        code == {n \in 0..Len(rows) :
                   \A i \in 1..n : rows[i] \in Words /\ prog[rows[i]].k # "bad"}
        n == Max(code)
    IN  IF n < 2 THEN {} ELSE {rows[i] : i \in 1..n}

\* What the round has met and will be entries of the next.
MetTablesOnly == (UNION {TableTargets(s) : s \in indirects}) \cap Words
Met == ((UNION {TableTargets(s) : s \in indirects}) \cup ToSet(cross)) \cap Words

PromotedNone == entry
Promoted == entry \cup Met

\* The end of a round: what it met becomes entries, and with a new one the
\* whole image is walked again from nothing.
NextRound ==
    /\ round <= MaxRounds /\ walk.of = 0 /\ queue = <<>>
    /\ LET again == ~(Met \subseteq entry)
       IN  \/ /\ round = MaxRounds /\ round' = MaxRounds + 1
              /\ UNCHANGED <<entry, seen, walked, owner, queue, cross, indirects, funcs>>
           \/ /\ round < MaxRounds /\ cross' = <<>> /\ indirects' = {}
              /\ round' = IF again THEN round + 1 ELSE MaxRounds + 1
              /\ entry' = Promoted
              /\ IF again
                 THEN /\ queue' = InOrder(entry')
                      /\ owner' = [w \in Words |-> 0]
                      /\ seen' = {} /\ walked' = {} /\ funcs' = {}
                 ELSE UNCHANGED <<seen, walked, owner, queue, funcs>>
    /\ UNCHANGED <<img, imports, walk>>

Discovered == round = MaxRounds + 1

DNext == TakeEntry \/ TakeBlock \/ Visit \/ EndFunction \/ NextRound
=============================================================================
