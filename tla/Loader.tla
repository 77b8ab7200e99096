------------------------------- MODULE Loader -------------------------------
(***************************************************************************)
(* Loading a module and running its static constructors (module.c, ctors.c *)
(* and the reads of mem.c they make).  Nothing in a module says where its  *)
(* constructor table is: the loader scans the end of the image for the     *)
(* longest null-terminated run of pointers into that same region, and      *)
(* psp_module_start later walks the table again, by its terminator, before *)
(* it calls the entry point.                                               *)
(*                                                                         *)
(* Memory is counted in words; a word is null, a pointer into the region   *)
(* (code) or anything else.                                                *)
(***************************************************************************)
EXTENDS Integers, Sequences, FiniteSets, FiniteSetsExt

CONSTANTS ImageLen,        \* words of the file's segment
          Spans,           \* sizes of the module's mapping
          Window,          \* words searched at the end of the image (0x10000 bytes)
          MaxTable         \* the longest run taken for a table (4096)

ASSUME LoaderAssumption == {ImageLen, Window, MaxTable} \subseteq Nat

VARIABLES image,           \* the segment of the file
          span,            \* what psp_mem_map_module is asked for
          phase,           \* "file", "scan", "loaded", "start", "started", "failed"
          at,              \* the scan's or the walk's position
          best,            \* [addr, n]
          called           \* what module_start has called, in order

loaderVars == <<image, span, phase, at, best, called>>

NoTable == [addr |-> -1, n |-> 0]
EntryPoint == -1

LoaderInit == /\ image \in UNION {[0..n - 1 -> {"null", "code", "other"}] : n \in 1..ImageLen}
              /\ span \in Spans /\ phase = "file"
              /\ at = 0 /\ best = NoTable /\ called = << >>

Filesz == Cardinality(DOMAIN image)
Low == IF Filesz > Window THEN Filesz - Window ELSE 0

(* psp_read32: the rest of the mapping is zero, and so is what is not mapped. *)
Read32(p) == IF p \in DOMAIN image THEN image[p] ELSE "null"

(* psp_module_load: a segment larger than the mapping is refused, with the
   host's refusals (no file, no memory, not an ELF). *)
ModuleLoad == /\ phase = "file"
              /\ \/ phase' = "failed" /\ UNCHANGED at
                 \/ Filesz <= span /\ phase' = "scan" /\ at' = Low
              /\ UNCHANGED <<image, span, best, called>>

(* One turn of psp_ctors_find's outer loop: the run of pointers at a, its length
   and the place it stopped at, which is still a pointer when the run is too long. *)
RunAt(a) == LET stop == Min({p \in a..a + Filesz + 1 : Read32(p) # "code"})
            IN IF stop - a > MaxTable THEN [n |-> MaxTable + 1, stop |-> a + MaxTable]
               ELSE [n |-> stop - a, stop |-> stop]

(* A run that anything ends, as a vtable's does. *)
AcceptsAny(r) == r.n >= 2 /\ r.n > best.n
Accepts(r) == r.n >= 2 /\ Read32(r.stop) = "null" /\ r.n > best.n

CtorsFind == /\ phase = "scan" /\ at + 1 < Filesz
             /\ LET r == RunAt(at)
                IN /\ best' = IF Accepts(r) THEN [addr |-> at, n |-> r.n] ELSE best
                   /\ at' = IF r.n > 0 THEN r.stop ELSE at + 1
             /\ UNCHANGED <<image, span, phase, called>>

CtorsFound == /\ phase = "scan" /\ at + 1 >= Filesz
              /\ phase' = "loaded" /\ UNCHANGED <<image, span, at, best, called>>

(* psp_module_start: the constructors first, then the entry point. *)
ModuleStart == /\ phase = "loaded" /\ phase' = "start"
               /\ at' = best.addr /\ UNCHANGED <<image, span, best, called>>

(* psp_ctors_run gives up after one call too many. *)
CtorsRun == /\ phase = "start" /\ best.n > 0
            /\ Read32(at) # "null" /\ Len(called) <= MaxTable
            /\ called' = Append(called, at) /\ at' = at + 1
            /\ UNCHANGED <<image, span, phase, best>>

CallEntry == /\ phase = "start" /\ (best.n = 0 \/ Read32(at) = "null" \/ Len(called) > MaxTable)
             /\ called' = Append(called, EntryPoint) /\ phase' = "started"
             /\ UNCHANGED <<image, span, at, best>>

LoaderIdle == phase \in {"started", "failed"} /\ UNCHANGED loaderVars

LoaderNext == \/ ModuleLoad \/ CtorsFind \/ CtorsFound \/ ModuleStart
              \/ CtorsRun \/ CallEntry \/ LoaderIdle

LoaderSpec == LoaderInit /\ [][LoaderNext]_loaderVars

(* The tables of the searched region: pointers that nothing but the region's edge or
   a word that is no pointer precedes, and that a null follows. *)
Table(a, n) == /\ n >= 2 /\ a >= Low /\ (a > Low => Read32(a - 1) # "code")
               /\ \A p \in a..a + n - 1 : Read32(p) = "code"
               /\ Read32(a + n) = "null"
TableSizes == {n \in 2..ImageLen : \E a \in DOMAIN image : Table(a, n)}

(* A module that has started has run every constructor of its longest table once, in
   the table's order, and its entry point last; without a table it has called only the
   entry point.  Holds while no run of pointers is longer than MaxTable: the tail of a
   longer one is taken for a table (psp_ctors_find, psp_ctors_run, psp_module_start). *)
CtorsRunOnce ==
  phase = "started" /\ (\A a \in DOMAIN image : RunAt(a).n <= MaxTable) =>
    IF TableSizes = {} THEN called = <<EntryPoint>>
    ELSE LET n == Max(TableSizes)   a == Min({b \in DOMAIN image : Table(b, n)})
         IN called = [i \in 1..n + 1 |-> IF i = n + 1 THEN EntryPoint ELSE a + i - 1]
=============================================================================
