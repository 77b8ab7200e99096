-------------------------- MODULE RecompilerProofs --------------------------
(***************************************************************************)
(* Proofs about the recompiler, for every image whose delay slots hold no  *)
(* transfers, and every cap on the rounds of discovery.                    *)
(***************************************************************************)
EXTENDS Recompiled, SequenceTheorems, TLAPS

(* The shape of the walk and of the lists, as far as the argument needs them. *)
WalkFields == {"of", "at", "blocks", "start", "end", "n"}

Walks == /\ img \in Images
         /\ DOMAIN walk = WalkFields
         /\ walk.blocks \in Seq(Words \cup {walk.of})
         /\ cross \in Seq(Words)
         /\ round \in Int
         /\ Discovered => walk.of = 0
         /\ DOMAIN owner = Words
         /\ \A w \in Words : owner[w] # 0 => w \in seen

(* A block that the walk in progress will still come to. *)
Pending(t) == t = walk.at \/ \E i \in DOMAIN walk.blocks : walk.blocks[i] = t

(* Where the target of a branch in a body is, at any time: in the body, at an entry, on
   the list of shared targets, or still ahead of the walk that met the branch. *)
Placed(a, t) == \/ owner[t] = owner[a]
                \/ t \in entry
                \/ t \in ToSet(cross)
                \/ owner[a] = walk.of /\ Pending(t) /\ t \notin seen

Branches(a) == IsBranch(prog[a]) /\ ~IsCall(prog[a]) /\ prog[a].t \in Words

DiscoveryInv == Walks /\ \A a \in Words : Branches(a) /\ owner[a] # 0 => Placed(a, prog[a].t)

LEMMA NoWalkShape == /\ DOMAIN NoWalk = WalkFields /\ NoWalk.of = 0 /\ NoWalk.blocks = <<>>
                     /\ NoWalk.at = 0 /\ \A S : NoWalk.blocks \in Seq(S)
BY EmptySeq DEF NoWalk, WalkFields

LEMMA InitDiscoveryInv == Init => DiscoveryInv
<1> SUFFICES ASSUME Init PROVE DiscoveryInv
  OBVIOUS
<1>1. /\ img \in Images /\ owner = [w \in Words |-> 0] /\ cross = <<>> /\ round = 1 /\ walk = NoWalk
  BY DEF Init, DInit
<1>2. cross \in Seq(Words)
  BY <1>1, EmptySeq
<1> QED
  BY <1>1, <1>2, NoWalkShape DEF DiscoveryInv, Walks

(* A word the walk does not reach, and that no walk has claimed, is another's entry. *)
LEMMA NotReached ==
    ASSUME NEW t \in Words, t \notin seen, ~Reaches(t)
    PROVE  t \in entry
BY DEF Reaches

LEMMA TakeEntryKeeps == ASSUME DiscoveryInv, TakeEntry PROVE DiscoveryInv'
<1> DEFINE e == Last(queue)
<1>1. /\ UNCHANGED <<img, entry, seen, owner, cross, indirects, funcs, imports, round>>
      /\ round <= MaxRounds /\ walk.of = 0
      /\ walk' = IF e \in walked THEN NoWalk
                 ELSE [NoWalk EXCEPT !.of = e, !.blocks = <<e>>, !.start = e, !.end = e]
  BY DEF TakeEntry
<1> HIDE DEF e
<1>2. DOMAIN walk' = WalkFields /\ walk'.blocks \in Seq(Words \cup {walk'.of})
  <2>1. CASE e \in walked
    BY <1>1, <2>1, NoWalkShape
  <2>2. CASE e \notin walked
    <3>1. walk' = [NoWalk EXCEPT !.of = e, !.blocks = <<e>>, !.start = e, !.end = e]
      BY <1>1, <2>2
    <3>2. DOMAIN walk' = WalkFields /\ walk'.of = e /\ walk'.blocks = <<e>>
      BY <3>1 DEF NoWalk, WalkFields
    <3> QED
      BY <3>2
  <2> QED
    BY <2>1, <2>2
<1>3. ~Discovered'
  <2>1. MaxRounds \in Nat /\ round \in Int
    BY DiscoveryAssumption DEF DiscoveryInv, Walks
  <2> QED
    BY <1>1, <2>1 DEF Discovered
<1>4. Walks'
  BY <1>1, <1>2, <1>3 DEF DiscoveryInv, Walks
<1>5. ASSUME NEW a \in Words, Branches(a)', owner'[a] # 0 PROVE Placed(a, prog[a].t)'
  <2>1. Branches(a) /\ owner[a] # 0
    BY <1>1, <1>5 DEF Branches, prog
  <2>2. Placed(a, prog[a].t) /\ prog' = prog
    BY <1>1, <2>1 DEF DiscoveryInv, prog
  <2> QED
    BY <1>1, <2>1, <2>2 DEF Placed
<1> QED
  BY <1>4, <1>5 DEF DiscoveryInv

LEMMA TakeBlockKeeps == ASSUME DiscoveryInv, TakeBlock PROVE DiscoveryInv'
<1> DEFINE b == walk.blocks
           S == Words \cup {walk.of}
<1>1. /\ UNCHANGED <<img, entry, seen, walked, owner, queue, cross, indirects, funcs, imports, round>>
      /\ walk.of # 0 /\ ~Reaches(walk.at) /\ b # <<>>
      /\ walk' = [walk EXCEPT !.at = Last(b), !.blocks = Front(b)]
  BY DEF TakeBlock
<1>2. b \in Seq(S) /\ DOMAIN walk = WalkFields
  BY DEF DiscoveryInv, Walks
<1>3. DOMAIN walk' = WalkFields /\ walk'.of = walk.of /\ walk'.at = Last(b) /\ walk'.blocks = Front(b)
  BY <1>1, <1>2 DEF WalkFields
<1>4. /\ Front(b) \in Seq(S) /\ Len(b) \in Nat \ {0} /\ Len(Front(b)) = Len(b) - 1
      /\ DOMAIN b = 1..Len(b) /\ DOMAIN Front(b) = 1..Len(b) - 1
      /\ Last(b) = b[Len(b)] /\ \A i \in 1..Len(b) - 1 : Front(b)[i] = b[i]
  <2>1. Len(b) \in Nat \ {0} /\ DOMAIN b = 1..Len(b) /\ Last(b) = b[Len(b)]
    BY <1>1, <1>2, EmptySeq, LenProperties DEF Last
  <2>2. Front(b) = SubSeq(b, 1, Len(b) - 1)
    BY DEF Front
  <2>3. /\ Front(b) \in Seq(S) /\ Len(Front(b)) = Len(b) - 1
        /\ \A i \in 1..Len(b) - 1 : Front(b)[i] = b[i]
    BY <1>2, <2>1, <2>2
  <2> QED
    BY <2>1, <2>3, LenProperties
<1> HIDE DEF b
<1>5. Walks'
  BY <1>1, <1>3, <1>4 DEF DiscoveryInv, Walks, Discovered
<1>6. ASSUME NEW a \in Words, Branches(a)', owner'[a] # 0 PROVE Placed(a, prog[a].t)'
  <2> DEFINE t == prog[a].t
  <2>1. Branches(a) /\ owner[a] # 0 /\ t \in Words /\ prog' = prog
    BY <1>1, <1>6 DEF Branches, prog
  <2>2. Placed(a, t)
    BY <2>1 DEF DiscoveryInv
  <2> HIDE DEF t
  <2>3. CASE owner[t] = owner[a] \/ t \in entry \/ t \in ToSet(cross)
    BY <1>1, <2>1, <2>3 DEF Placed, t
  <2>4. CASE owner[a] = walk.of /\ t = walk.at /\ t \notin seen
    <3>1. t \in entry
      BY <1>1, <2>1, <2>4, NotReached
    <3> QED
      BY <2>3, <3>1
  <2>5. ASSUME owner[a] = walk.of, t \notin seen, NEW i \in DOMAIN b, b[i] = t
        PROVE  Placed(a, prog[a].t)'
    <3>1. t = walk'.at \/ \E j \in DOMAIN walk'.blocks : walk'.blocks[j] = t
      BY <1>3, <1>4, <2>5
    <3> QED
      BY <1>1, <1>3, <2>1, <2>5, <3>1 DEF Placed, Pending, t
  <2> QED
    BY <2>2, <2>3, <2>4, <2>5 DEF Placed, Pending, b
<1> QED
  BY <1>5, <1>6 DEF DiscoveryInv

LEMMA EndFunctionKeeps == ASSUME DiscoveryInv, EndFunction PROVE DiscoveryInv'
<1>1. /\ UNCHANGED <<img, entry, seen, walked, owner, queue, cross, indirects, imports, round>>
      /\ ~Reaches(walk.at) /\ walk.blocks = <<>> /\ walk' = NoWalk
  BY DEF EndFunction
<1>2. Walks'
  BY <1>1, NoWalkShape DEF DiscoveryInv, Walks, Discovered
<1>3. ASSUME NEW a \in Words, Branches(a)', owner'[a] # 0 PROVE Placed(a, prog[a].t)'
  <2> DEFINE t == prog[a].t
  <2>1. Branches(a) /\ owner[a] # 0 /\ t \in Words /\ prog' = prog
    BY <1>1, <1>3 DEF Branches, prog
  <2>2. Placed(a, t)
    BY <2>1 DEF DiscoveryInv
  <2> HIDE DEF t
  <2>3. ~(\E i \in DOMAIN walk.blocks : walk.blocks[i] = t)
    BY <1>1
  <2>4. owner[t] = owner[a] \/ t \in entry \/ t \in ToSet(cross)
    BY <1>1, <2>1, <2>2, <2>3, NotReached DEF Placed, Pending
  <2> QED
    BY <1>1, <2>1, <2>4 DEF Placed, t
<1> QED
  BY <1>2, <1>3 DEF DiscoveryInv

LEMMA NextRoundKeeps == ASSUME DiscoveryInv, NextRound PROVE DiscoveryInv'
<1>1. walk.of = 0 /\ UNCHANGED <<img, imports, walk>> /\ round \in Int /\ MaxRounds \in Nat
  BY DiscoveryAssumption DEF NextRound, DiscoveryInv, Walks
<1>2. <<>> \in Seq(Words)
  BY EmptySeq
<1>3. ASSUME NEW a \in Words, Branches(a), owner[a] # 0
      PROVE  \/ owner[prog[a].t] = owner[a] \/ prog[a].t \in entry \/ prog[a].t \in ToSet(cross)
  BY <1>1, <1>3 DEF DiscoveryInv, Placed
<1>4. CASE /\ round' = MaxRounds + 1
           /\ UNCHANGED <<entry, seen, walked, owner, queue, cross, indirects, funcs>>
  <2>1. Walks'
    BY <1>1, <1>4 DEF DiscoveryInv, Walks
  <2> QED
    BY <1>1, <1>3, <1>4, <2>1 DEF DiscoveryInv, Placed, Branches, prog
<1>5. CASE /\ round < MaxRounds /\ cross' = <<>> /\ round' = round + 1 /\ owner' = [w \in Words |-> 0]
  <2>1. Walks'
    BY <1>1, <1>2, <1>5 DEF DiscoveryInv, Walks
  <2> QED
    BY <1>5, <2>1 DEF DiscoveryInv
<1>6. CASE /\ cross' = <<>> /\ round' = MaxRounds + 1 /\ entry' = Promoted /\ Met \subseteq entry
           /\ UNCHANGED <<seen, walked, owner, queue, funcs>>
  <2>1. Walks'
    BY <1>1, <1>2, <1>6 DEF DiscoveryInv, Walks
  <2>2. entry' = entry
    BY <1>6 DEF Promoted
  <2> DEFINE tables == UNION {TableTargets(s) : s \in indirects}
             shared == ToSet(cross)
  <2>3. Met = (tables \cup shared) \cap Words
    BY DEF Met
  <2> HIDE DEF tables, shared
  <2>4. \A t \in Words : t \in shared => t \in entry
    BY <1>6, <2>3
  <2> QED
    BY <1>1, <1>3, <1>6, <2>1, <2>2, <2>4 DEF DiscoveryInv, Placed, Branches, prog, shared
<1> QED
  BY <1>4, <1>5, <1>6 DEF NextRound

(* What the instruction at a pushes and shares is its own target, inside the image. *)
LEMMA AfterShape ==
    ASSUME NEW in, NEW a
    PROVE  /\ \/ After(in, a).block = <<>>
              \/ in.t \in Words /\ After(in, a).block = <<in.t>>
           /\ \/ After(in, a).cross = <<>>
              \/ in.t \in Words /\ After(in, a).cross = <<in.t>>
BY DEF After

(* The target of a branch is shared when another walk has claimed it, and else pushed. *)
LEMMA AfterBranch ==
    ASSUME NEW in, NEW a, IsBranch(in), ~IsCall(in), in.t \in Words
    PROVE  \/ in.t \in seen' /\ in.t \notin entry /\ After(in, a).cross = <<in.t>>
           \/ ~(in.t \in seen' /\ in.t \notin entry) /\ After(in, a).block = <<in.t>>
<1> DEFINE none == [at |-> 0, block |-> <<>>, cross |-> <<>>, calls |-> <<>>, entry |-> {}]
           local == IF in.t \in seen' /\ in.t \notin entry
                    THEN [none EXCEPT !.cross = <<in.t>>] ELSE [none EXCEPT !.block = <<in.t>>]
<1>1. in.k # "bad" /\ ~IsReturn(in) /\ ~IsIndirect(in) /\ ~IsJump(in)
  BY DEF IsBranch, IsReturn, IsIndirect, IsJump
<1>2. After(in, a) = [local EXCEPT !.at = a + 2]
  BY <1>1 DEF After
<1> QED
  BY <1>2

(* A list that grows by nothing or by one element keeps what it had. *)
LEMMA Longer ==
    ASSUME NEW S, NEW s \in Seq(S), NEW x, NEW d, d = <<>> \/ (x \in S /\ d = <<x>>)
    PROVE  /\ s \o d \in Seq(S)
           /\ \A i \in DOMAIN s : i \in DOMAIN (s \o d) /\ (s \o d)[i] = s[i]
           /\ d = <<x>> => \E i \in DOMAIN (s \o d) : (s \o d)[i] = x
<1>1. CASE d = <<>>
  <2>1. s \o d = s
    BY <1>1
  <2> QED
    BY <1>1, <2>1
<1>2. CASE x \in S /\ d = <<x>>
  <2>1. s \o d = Append(s, x)
    BY <1>2
  <2>2. Append(s, x) \in Seq(S) /\ Len(Append(s, x)) = Len(s) + 1 /\ Append(s, x)[Len(s) + 1] = x
    BY <1>2, AppendProperties
  <2>3. \A i \in 1..Len(s) : Append(s, x)[i] = s[i]
    BY <1>2, AppendProperties
  <2>4. DOMAIN s = 1..Len(s) /\ DOMAIN Append(s, x) = 1..Len(s) + 1 /\ Len(s) \in Nat
    BY <2>2, LenProperties
  <2> QED
    BY <2>1, <2>2, <2>3, <2>4
<1> QED
  BY <1>1, <1>2

LEMMA VisitKeeps == ASSUME DiscoveryInv, Visit PROVE DiscoveryInv'
<1> DEFINE a == walk.at
           in == prog[a]
           slot == IF HasSlot(in) THEN {a + 1} \cap Words ELSE {}
           claimed == {a} \cup slot
           go == After(in, a)
           S == Words \cup {walk.of}
           newStart == Min({walk.start, a})
           newEnd == Extent(walk.end, a, claimed)
           newN == walk.n + Cardinality(claimed \ seen)
<1>1. /\ walk.of # 0 /\ Reaches(a) /\ UNCHANGED <<img, walked, funcs, round>>
      /\ seen' = seen \cup claimed
      /\ owner' = [w \in Words |-> IF w \in claimed \ seen THEN walk.of ELSE owner[w]]
      /\ walk' = [walk EXCEPT !.at = go.at, !.blocks = @ \o go.block,
                              !.start = newStart, !.end = newEnd, !.n = newN]
      /\ cross' = cross \o go.cross
      /\ entry' = entry \cup go.entry
  BY DEF Visit
<1>2. /\ walk.blocks \in Seq(S) /\ cross \in Seq(Words) /\ DOMAIN walk = WalkFields
      /\ img \in Images /\ round \in Int /\ ~Discovered
      /\ \A w \in Words : owner[w] # 0 => w \in seen
  BY <1>1 DEF DiscoveryInv, Walks
<1>3. a \in Words /\ a \notin seen
  BY <1>1 DEF Reaches
<1>4. \A w \in claimed \cap Words : w # a => ~Branches(w)
  <2> SUFFICES ASSUME HasSlot(in), a + 1 \in Words PROVE ~Branches(a + 1)
    OBVIOUS
  <2>1. ~HasSlot(img.prog[a + 1])
    BY <1>2, <1>3, DiscoveryAssumption DEF prog
  <2> QED
    BY <2>1 DEF Branches, HasSlot, prog
<1>5. /\ go.block = <<>> \/ (in.t \in S /\ go.block = <<in.t>>)
      /\ go.cross = <<>> \/ (in.t \in Words /\ go.cross = <<in.t>>)
  BY AfterShape
<1>6. Branches(a) => \/ in.t \in seen' /\ in.t \notin entry /\ go.cross = <<in.t>>
                     \/ ~(in.t \in seen' /\ in.t \notin entry) /\ go.block = <<in.t>>
  BY AfterBranch DEF Branches
<1>7. a \in claimed
  OBVIOUS
<1> HIDE DEF go, newStart, newEnd, newN, claimed
<1>8. /\ DOMAIN walk' = WalkFields /\ walk'.of = walk.of /\ walk'.at = go.at
      /\ walk'.blocks = walk.blocks \o go.block
  BY <1>1, <1>2 DEF WalkFields
<1> DEFINE more == walk.blocks \o go.block
           known == cross \o go.cross
           b0 == walk.blocks
           x == in.t
           db == go.block
           dc == go.cross
<1> HIDE DEF S
<1>9. /\ more \in Seq(S)
      /\ \A i \in DOMAIN walk.blocks : i \in DOMAIN more /\ more[i] = walk.blocks[i]
      /\ go.block = <<in.t>> => \E i \in DOMAIN more : more[i] = in.t
  <2>1. b0 \in Seq(S) /\ (db = <<>> \/ (x \in S /\ db = <<x>>))
    BY <1>2, <1>5
  <2> HIDE DEF b0, db, x
  <2>2. /\ b0 \o db \in Seq(S)
        /\ \A i \in DOMAIN b0 : i \in DOMAIN (b0 \o db) /\ (b0 \o db)[i] = b0[i]
        /\ db = <<x>> => \E i \in DOMAIN (b0 \o db) : (b0 \o db)[i] = x
    BY <2>1, Longer
  <2> QED
    BY <2>2 DEF b0, db, x
<1>10. /\ known \in Seq(Words)
       /\ \A i \in DOMAIN cross : i \in DOMAIN known /\ known[i] = cross[i]
       /\ go.cross = <<in.t>> => \E i \in DOMAIN known : known[i] = in.t
  <2>1. cross \in Seq(Words) /\ (dc = <<>> \/ (x \in Words /\ dc = <<x>>))
    BY <1>2, <1>5
  <2> HIDE DEF dc, x
  <2>2. /\ cross \o dc \in Seq(Words)
        /\ \A i \in DOMAIN cross : i \in DOMAIN (cross \o dc) /\ (cross \o dc)[i] = cross[i]
        /\ dc = <<x>> => \E i \in DOMAIN (cross \o dc) : (cross \o dc)[i] = x
    BY <2>1, Longer
  <2> QED
    BY <2>2 DEF dc, x
<1> HIDE DEF more, known
<1>11. walk'.blocks = more /\ cross' = known
  BY <1>1, <1>8 DEF more, known
<1>12. Walks'
  <2>1. DOMAIN owner' = Words /\ \A w \in Words : owner'[w] # 0 => w \in seen'
    BY <1>1, <1>2
  <2>2. ~Discovered' /\ img' \in Images /\ round' \in Int
    BY <1>1, <1>2 DEF Discovered
  <2> QED
    BY <1>8, <1>9, <1>10, <1>11, <2>1, <2>2 DEF Walks, S
<1>13. ToSet(cross) \subseteq ToSet(known) /\ (go.cross = <<in.t>> => in.t \in ToSet(known))
  BY <1>10 DEF ToSet
<1>14. ASSUME NEW b \in Words, Branches(b)', owner'[b] # 0 PROVE Placed(b, prog[b].t)'
  <2> DEFINE t == prog[b].t
  <2>1. Branches(b) /\ t \in Words /\ prog' = prog
    BY <1>1, <1>14 DEF Branches, prog
  <2>2. CASE b \in claimed \ seen
    <3>1. b = a /\ owner'[b] = walk'.of /\ t = in.t
      BY <1>1, <1>4, <1>8, <2>1, <2>2
    <3>2. CASE t \in seen' /\ t \notin entry
      BY <1>6, <1>11, <1>13, <2>1, <3>1, <3>2 DEF Placed
    <3>3. CASE t \in entry
      BY <1>1, <2>1, <3>3 DEF Placed
    <3>4. CASE t \notin seen' /\ t \notin entry
      <4>1. \E i \in DOMAIN more : more[i] = t
        BY <1>6, <1>9, <2>1, <3>1, <3>4
      <4> QED
        BY <1>11, <2>1, <3>1, <3>4, <4>1 DEF Placed, Pending
    <3> QED
      BY <3>2, <3>3, <3>4
  <2>3. CASE b \notin claimed \ seen
    <3>1. owner'[b] = owner[b] /\ owner[b] # 0
      BY <1>1, <1>14, <2>3
    <3>2. Placed(b, t)
      BY <2>1, <3>1 DEF DiscoveryInv
    <3> HIDE DEF t
    <3>3. CASE owner[t] = owner[b]
      BY <1>1, <1>2, <2>1, <3>1, <3>3 DEF Placed, t
    <3>4. CASE t \in entry \/ t \in ToSet(cross)
      BY <1>1, <1>11, <1>13, <2>1, <3>4 DEF Placed, t
    <3>5. CASE owner[b] = walk.of /\ Pending(t) /\ t \notin seen /\ t \in claimed
      BY <1>1, <2>1, <3>1, <3>5 DEF Placed, t
    <3>6. CASE owner[b] = walk.of /\ Pending(t) /\ t \notin seen /\ t \notin claimed
      <4>1. \E i \in DOMAIN more : more[i] = t
        BY <1>7, <1>9, <3>6 DEF Pending
      <4> QED
        BY <1>1, <1>8, <1>11, <2>1, <3>1, <3>6, <4>1 DEF Placed, Pending, t
    <3> QED
      BY <3>2, <3>3, <3>4, <3>5, <3>6 DEF Placed
  <2> QED
    BY <2>2, <2>3
<1> QED
  BY <1>12, <1>14 DEF DiscoveryInv

LEMMA NextDiscoveryInv == DiscoveryInv /\ [Next]_vars => DiscoveryInv'
<1> SUFFICES ASSUME DiscoveryInv, [Next]_vars PROVE DiscoveryInv'
  OBVIOUS
<1>1. CASE DNext
  BY <1>1, TakeEntryKeeps, TakeBlockKeeps, VisitKeeps, EndFunctionKeeps, NextRoundKeeps DEF DNext
<1>2. CASE UNCHANGED dvars
  BY <1>2 DEF dvars, DiscoveryInv, Walks, Discovered, Branches, Placed, Pending, prog
<1> QED
  BY <1>1, <1>2 DEF Next, Recompile, vars

(* Whatever the image, when the rounds of discovery end with nothing left to make an
   entry, every branch of a body goes to a word of that body or to an entry.
   (trace_function, the rounds of a_discover) *)
THEOREM BranchTargetsStayKnown == Spec => []BranchTargetsKnown
<1>1. Init => DiscoveryInv
  BY InitDiscoveryInv
<1>2. DiscoveryInv /\ [Next]_vars => DiscoveryInv'
  BY NextDiscoveryInv
<1>3. DiscoveryInv => BranchTargetsKnown
  <2> SUFFICES ASSUME DiscoveryInv, Discovered, Met \subseteq entry,
                      NEW a \in Words, Branches(a), owner[a] # 0
               PROVE  owner[prog[a].t] = owner[a] \/ prog[a].t \in entry
    BY DEF BranchTargetsKnown, Branches
  <2> DEFINE tables == UNION {TableTargets(s) : s \in indirects}
             shared == ToSet(cross)
  <2>1. Met = (tables \cup shared) \cap Words
    BY DEF Met
  <2> HIDE DEF tables, shared
  <2>2. \A t \in Words : t \in shared => t \in entry
    BY <2>1
  <2>3. walk.of = 0 /\ prog[a].t \in Words /\ Placed(a, prog[a].t)
    BY DEF DiscoveryInv, Walks, Branches
  <2> QED
    BY <2>2, <2>3 DEF Placed, shared
<1> QED
  BY <1>1, <1>2, <1>3, PTL DEF Spec
=============================================================================
