---------------------------- MODULE HleRegistry ----------------------------
(***************************************************************************)
(* The firmware-call table of src/hle/hle.c and the traps of src/traps.c:  *)
(* what a NID runs, and the counts and the short history that tell a       *)
(* bring-up which calls are missing.                                       *)
(***************************************************************************)
EXTENDS Integers, Sequences, FiniteSets, FiniteSetsExt

CONSTANTS Nid, Handler,
          HleMax,           \* HLE_MAX
          UnimplDistinct,   \* UNIMPL_DISTINCT
          UnimplLogged,     \* UNIMPL_LOGGED, PSP_TRAP_LOGGED
          ZeroHistory,      \* ZERO_HISTORY
          MaxHleCalls       \* bound: calls made

ASSUME HleAssumption == HleMax \in Nat /\ UnimplDistinct \in Nat

VARIABLES entry,      \* g_entry, g_fn and g_calls, in the order of registration
          unimpl,     \* g_unimpl, in the order of the first calls
          total,      \* g_unimpl_total
          logged,     \* g_unimpl_logged
          zero,       \* g_zero and g_zero_n
          trap,       \* the totals and the ceilings of traps.c
          made        \* history: how often each NID was called

hleVars == <<entry, unimpl, total, logged, zero, trap, made>>

Traps == {"syscall", "unimplemented"}

HleInit == /\ entry = << >> /\ unimpl = << >>
           /\ total = 0 /\ logged = 0
           /\ zero = [ring |-> [i \in 0..ZeroHistory - 1 |-> 0], n |-> 0]
           /\ trap = [k \in Traps |-> [total |-> 0, logged |-> 0]]
           /\ made = [n \in Nid |-> 0]

Made == MapThenSumSet(LAMBDA n : made[n], Nid) + MapThenSumSet(LAMBDA k : trap[k].total, Traps)

(* The entry of a NID; there is never more than one. *)
At(s, n) == {i \in DOMAIN s : s[i].nid = n}

-----------------------------------------------------------------------------
(* psp_hle_register: replacing keeps the count; a full table ignores the call. *)
HleRegister(n, f) ==
    /\ IF At(entry, n) # {}
       THEN entry' = [entry EXCEPT ![Min(At(entry, n))].fn = f]
       ELSE IF Len(entry) >= HleMax
       THEN UNCHANGED entry
       ELSE entry' = Append(entry, [nid |-> n, fn |-> f, calls |-> 0])
    /\ UNCHANGED <<unimpl, total, logged, zero, trap, made>>

(* note_zero *)
NoteZero(n) == zero' = [ring |-> [zero.ring EXCEPT ![zero.n % ZeroHistory] = n], n |-> zero.n + 1]

(* psp_hle_call, of a function that is there; r0: does it return 0? *)
HleCall(n, r0) ==
    /\ Made < MaxHleCalls
    /\ At(entry, n) # {}
    /\ entry' = [entry EXCEPT ![Min(At(entry, n))].calls = @ + 1]
    /\ IF r0 THEN NoteZero(n) ELSE UNCHANGED zero
    /\ made' = [made EXCEPT ![n] = @ + 1]
    /\ UNCHANGED <<unimpl, total, logged, trap>>

(* Mutant: a NID that is known is given another row. *)
CountUnimplAgain(n) == IF Len(unimpl) < UnimplDistinct
                       THEN Append(unimpl, [nid |-> n, calls |-> 1]) ELSE unimpl

(* The block of psp_hle_call that counts a missing NID, while there are rows for it. *)
CountUnimpl(n) == IF At(unimpl, n) # {}
                  THEN [unimpl EXCEPT ![Min(At(unimpl, n))].calls = @ + 1]
                  ELSE IF Len(unimpl) < UnimplDistinct
                  THEN Append(unimpl, [nid |-> n, calls |-> 1])
                  ELSE unimpl

(* psp_hle_call, of a function that is not: 0 is returned.  One message more than the
   ceiling says that the others are only counted. *)
HleCallMissing(n) ==
    /\ Made < MaxHleCalls
    /\ At(entry, n) = {}
    /\ NoteZero(n)
    /\ total' = total + 1
    /\ unimpl' = CountUnimpl(n)
    /\ logged' = Min({logged + 1, UnimplLogged + 1})
    /\ made' = [made EXCEPT ![n] = @ + 1]
    /\ UNCHANGED <<entry, trap>>

(* psp_hle_unimplemented_reset: the rows stay. *)
UnimplementedReset == /\ total' = 0 /\ logged' = 0
                      /\ UNCHANGED <<entry, unimpl, zero, trap, made>>

(* psp_syscall, psp_unimplemented *)
Trapped(k) == /\ Made < MaxHleCalls
              /\ trap' = [trap EXCEPT ![k] = [total  |-> @.total + 1,
                                              logged |-> Min({@.logged + 1, UnimplLogged})]]
              /\ UNCHANGED <<entry, unimpl, total, logged, zero, made>>

TrapReset == /\ trap' = [k \in Traps |-> [total |-> 0, logged |-> 0]]
             /\ UNCHANGED <<entry, unimpl, total, logged, zero, made>>

(* The rows of psp_hle_dump_counts, <<table, row>>: what was called, then what is missing. *)
DumpRows == ({1} \X {i \in DOMAIN entry : entry[i].calls > 0}) \cup ({2} \X DOMAIN unimpl)
RowOf(r) == IF r[1] = 1 THEN entry[r[2]] ELSE unimpl[r[2]]

(* Its insertion sort puts before a row the busier ones, and the earlier that are as busy. *)
RowsBefore(r) ==
    {s \in DumpRows : \/ RowOf(s).calls > RowOf(r).calls
                     \/ /\ RowOf(s).calls = RowOf(r).calls
                        /\ s[1] < r[1] \/ (s[1] = r[1] /\ s[2] < r[2])}

(* psp_hle_dump_counts before it prints: what the sort leaves. *)
DumpCounts == [k \in 1..Cardinality(DumpRows) |->
                  RowOf(CHOOSE r \in DumpRows : Cardinality(RowsBefore(r)) = k - 1)]

HleNext == \/ \E n \in Nid, f \in Handler : HleRegister(n, f)
           \/ \E n \in Nid, r0 \in BOOLEAN : HleCall(n, r0)
           \/ \E n \in Nid : HleCallMissing(n)
           \/ \E k \in Traps : Trapped(k)
           \/ UnimplementedReset
           \/ TrapReset

HleSpec == HleInit /\ [][HleNext]_hleVars

-----------------------------------------------------------------------------
(* The calls that the rows of a NID stand for. *)
CallsShown(n) == UNION {{k} \X (1..DumpCounts[k].calls) : k \in At(DumpCounts, n)}

(* psp_hle_dump_counts accounts for every call: unless there were more missing NIDs than
   rows, the rows of a NID - two when it was registered after its first call - add up
   to the calls made, and are in order. *)
CountsAddUp ==
    /\ \A n \in Nid : LET sum == Cardinality(CallsShown(n))
                      IN \/ sum = made[n]
                         \/ Len(unimpl) = UnimplDistinct /\ At(unimpl, n) = {} /\ sum <= made[n]
    /\ \A k \in 1..Len(DumpCounts) - 1 : DumpCounts[k].calls >= DumpCounts[k + 1].calls
=============================================================================
