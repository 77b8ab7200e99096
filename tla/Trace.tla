------------------------------- MODULE Trace -------------------------------
(***************************************************************************)
(* The instruments of src/dispatch.c that a bring-up reads after the fact: *)
(* the ring of function entries, the label marks, and the two tables of    *)
(* stack imbalances (one for bodies, one for calls), which keep the        *)
(* largest when they cannot keep all.                                      *)
(***************************************************************************)
EXTENDS Integers, Sequences, SequencesExt, FiniteSets, FiniteSetsExt

CONSTANTS Site,         \* addresses of functions and labels
          Delta,        \* differences of $sp, none of them 0
          TraceDepth,   \* TRACE_DEPTH
          SpSites,      \* PSP_SP_SITES
          MaxEvents     \* bound: entries and reports

ASSUME TraceAssumption == /\ {TraceDepth, SpSites} \subseteq Nat \ {0}
                          /\ Delta \subseteq Int \ {0}

VARIABLES ring,         \* g_trace
          entries,      \* g_trace_n
          window,       \* the labels g_marked has room for; {} while there is none
          marked,       \* g_marked
          sp,           \* g_sp_tbl and g_spc_tbl
          log,          \* history: the functions entered since the last reset
          reported      \* history: how often each imbalance was reported to each table

traceVars == <<ring, entries, window, marked, sp, log, reported>>

Tables == {"body", "call"}

TraceInit == /\ ring = [i \in 0..TraceDepth - 1 |-> 0] /\ entries = 0
             /\ window = {} /\ marked = {}
             /\ sp = [t \in Tables |-> [rows |-> << >>, worst |-> 0]]
             /\ log = << >>
             /\ reported = [t \in Tables |-> [p \in Site \X Delta |-> 0]]

Events == Len(log) + MapThenSumSet(LAMBDA t : MapThenSumSet(LAMBDA p : reported[t][p],
                                                            Site \X Delta), Tables)
Mag(d) == IF d < 0 THEN -d ELSE d

-----------------------------------------------------------------------------
(* psp_trace_enter *)
TraceEnter(a) == /\ Events < MaxEvents
                 /\ ring' = [ring EXCEPT ![entries % TraceDepth] = a]
                 /\ entries' = entries + 1
                 /\ log' = Append(log, a)
                 /\ UNCHANGED <<window, marked, sp, reported>>

(* psp_trace_reset leaves the ring as it is. *)
TraceReset == /\ entries' = 0 /\ log' = << >>
              /\ UNCHANGED <<ring, window, marked, sp, reported>>

TraceLast == IF entries = 0 THEN 0 ELSE ring[(entries - 1) % TraceDepth]

(* psp_trace_dump, newest first. *)
TraceDump == LET n == Min({entries, TraceDepth})
             IN [i \in 1..n |-> ring[(entries - i) % TraceDepth]]

(* psp_trace_marks_init: without memory there is no window.  (Bound: a host calls it
   before it runs anything.) *)
MarksInit(w) == /\ Events = 0
                /\ window' = w /\ marked' = {}
                /\ UNCHANGED <<ring, entries, sp, log, reported>>

TraceMark(a) == /\ marked' = marked \cup ({a} \cap window)
                /\ UNCHANGED <<ring, entries, window, sp, log, reported>>

-----------------------------------------------------------------------------
(* The first of the rows with the smallest magnitude. *)
Victim(rows) == Min({i \in DOMAIN rows :
                        \A j \in DOMAIN rows : Mag(rows[i].delta) <= Mag(rows[j].delta)})

(* Mutant: a full table makes room for whatever comes. *)
EvictAlways(rows, r) == [rows EXCEPT ![Victim(rows)] = r]

(* The tail of sp_record. *)
Evict(rows, r) == IF Mag(r.delta) > Mag(rows[Victim(rows)].delta)
                  THEN [rows EXCEPT ![Victim(rows)] = r] ELSE rows

(* sp_record *)
Record(t, s, d) ==
    LET rows == sp[t].rows
        r    == [site |-> s, delta |-> d, count |-> 1]
        here == {i \in DOMAIN rows : rows[i].site = s /\ rows[i].delta = d}
    IN /\ Events < MaxEvents
       /\ sp' = [sp EXCEPT ![t] =
             [worst |-> IF @.worst = 0 \/ Mag(d) > Mag(@.worst) THEN d ELSE @.worst,
              rows  |-> IF here # {} THEN [rows EXCEPT ![Min(here)].count = @ + 1]
                        ELSE IF Len(rows) < SpSites THEN Append(rows, r)
                        ELSE Evict(rows, r)]]
       /\ reported' = [reported EXCEPT ![t][<<s, d>>] = @ + 1]
       /\ UNCHANGED <<ring, entries, window, marked, log>>

(* psp_trace_sp, psp_trace_sp_leave (a body that hands over below its entry holds a
   frame of its own) and psp_trace_sp_call; nothing is reported when $sp is back. *)
TraceSp(s, d)      == Record("body", s, d)
TraceSpLeave(s, d) == d > 0 /\ Record("body", s, d)
TraceSpCall(s, d)  == Record("call", s, d)

(* sp_dump: largest magnitude first, the first recorded of equals first. *)
SpDump(t, max) ==
    LET rows == sp[t].rows
        Before(i) == {j \in DOMAIN rows : \/ Mag(rows[j].delta) > Mag(rows[i].delta)
                                          \/ rows[j].delta \in {rows[i].delta, -rows[i].delta} /\ j < i}
    IN [k \in 1..Min({max, Len(rows)}) |->
           rows[CHOOSE i \in DOMAIN rows : Cardinality(Before(i)) = k - 1]]

RingNext == \/ \E a \in Site : TraceEnter(a) \/ TraceMark(a)
            \/ \E w \in {{}, Site} : MarksInit(w)
            \/ TraceReset

SpNext == \/ \E s \in Site, d \in Delta :
                TraceSp(s, d) \/ TraceSpLeave(s, d) \/ TraceSpCall(s, d)
          \/ TraceReset

TraceSpec == TraceInit /\ [][RingNext \/ SpNext]_traceVars

-----------------------------------------------------------------------------
(* The ring shows the functions entered last, newest first, and nothing from before
   a reset. *)
TraceIsRecent == /\ TraceDump = [i \in 1..Min({Len(log), TraceDepth}) |-> log[Len(log) - i + 1]]
                 /\ TraceLast = IF log = << >> THEN 0 ELSE Last(log)

(* dispatch.h: "One row per distinct (site, delta) with its count, and the largest
   magnitude is kept even when the table is full": the rows count every report of
   their pair, no pair left out is larger than one that is kept, and the report
   begins with the largest of all. *)
LargestKept ==
    \A t \in Tables :
       LET rows == sp[t].rows
           kept == {<<rows[i].site, rows[i].delta>> : i \in DOMAIN rows}
           seen == {p \in Site \X Delta : reported[t][p] > 0}
       IN /\ \A i \in DOMAIN rows : rows[i].count = reported[t][<<rows[i].site, rows[i].delta>>]
          /\ Cardinality(kept) = Len(rows)
          /\ \A p \in seen \ kept, q \in kept : Mag(p[2]) <= Mag(q[2])
          /\ seen # {} => /\ Mag(sp[t].worst) = Max({Mag(p[2]) : p \in seen})
                          /\ Mag(SpDump(t, 1)[1].delta) = Mag(sp[t].worst)

(* What a bring-up is told after a crash is what happened: the last functions entered,
   in order, and the largest stack imbalances, whatever the ring and the tables had to
   drop.  (psp_trace_enter, psp_trace_reset, psp_trace_dump, sp_record, sp_dump) *)
ReportsTrue == TraceIsRecent /\ LargestKept
=============================================================================
