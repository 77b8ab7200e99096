---------------------------- MODULE MCRecompiled ----------------------------
(***************************************************************************)
(* Images for TLC.  A text is built from plain words and from control      *)
(* transfers with a plain word in their slot (a transfer in a slot has no  *)
(* meaning on the processor).  Loose enumerates every text of K words over *)
(* the given instructions, closed by a return; Nested is a family of       *)
(* programs in which calls nest and $ra is saved and restored.             *)
(***************************************************************************)
EXTENDS Recompiled

CONSTANTS N,           \* words of an image
          K,           \* words of an enumerated text
          Kinds,       \* direct transfers in enumerated texts
          Computed,    \* computed transfers in enumerated texts
          Tables       \* jump tables

In(k, t) == [k |-> k, t |-> t]
Op == In("op", 0)
MCWords == 1..N
OneTable == {<<2, 4, 20>>}     \* its third row is no code: the table ends there

Transfers == {In("ret", 0)} \cup {In(k, 0) : k \in Computed}
             \cup {In(k, t) : k \in Kinds, t \in 1..(K + 1) \cup {Stub}}

Texts[n \in 0..K] ==
    IF n = 0 THEN {<<>>}
    ELSE {Append(s, Op) : s \in Texts[n - 1]}
         \cup (IF n = 1 THEN {} ELSE {s \o <<c, Op>> : s \in Texts[n - 2], c \in Transfers})

Padded(s) == [a \in Words |-> IF a <= Len(s) THEN s[a] ELSE Op]

Loose == [prog : {Padded(s \o <<In("ret", 0), Op>>) : s \in Texts[K]},
          seeds : {<<1>>, <<1, 3>>}, table : Tables]

\* 1-4 a caller, 5-8 what it calls, 9-12 what that calls in turn.
Nested ==
    {[prog |-> Padded(<<In("jal", 5), Op, In("j", 1), Op,
                        b, c, Op, d, e, f, g, Op>>),
      seeds |-> <<1, 9>>, table |-> <<>>] :
        b \in {In("push", 0), Op}, c \in {In("jal", 9), In("bal", 9), In("jalr", 0)},
        d \in {In("pop", 0), In("zero", 0)}, e \in {In("pop", 0), Op},
        f \in {In("ret", 0), In("j", 3), In("br", 8), In("brl", 8)},
        g \in {In("pop", 0), Op}}

\* Words that build pointers or are not code at all.
Pointed ==
    {[prog |-> Padded(<<In("la", 6), In("jalr", 0), Op, c, Op, In("ret", 0), Op>>),
      seeds |-> <<1>>, table |-> <<>>] :
        c \in {In("br", 7), In("br", 8), In("bad", 0), In("jal", 6), In("ball", 6)}}

MCImages == Loose \cup Nested \cup Pointed
LooseImages == Loose
=============================================================================
