------------------------------ MODULE Dispatch ------------------------------
(***************************************************************************)
(* The address -> function table of src/dispatch.c: open addressing in a   *)
(* table that doubles when it is three quarters full, if calloc lets it.   *)
(* An address stands for its word number, a >> 2.                          *)
(***************************************************************************)
EXTENDS Integers, Sequences, FiniteSets, FiniteSetsExt

CONSTANTS Address,      \* word numbers that are registered, labelled or called
          Function,     \* the functions and thunks of the generated code
          Nothing,      \* NULL
          Multiplier,   \* of hash_addr, modulo the largest table
          FirstCap,     \* the first capacity (4096)
          MaxCap,       \* bound: no larger table is tried
          Budgets,      \* budgets a host sets
          MaxCalls      \* bound: calls counted against a budget

ASSUME DispatchAssumption == /\ Address \subseteq Nat /\ Multiplier \in Nat
                             /\ FirstCap \in Nat /\ FirstCap >= 2
                             /\ Nothing \notin Function

VARIABLES table,        \* g_table, [0..g_cap - 1 -> slots]; no slot before the first growth
          misses,       \* g_misses, 0 or more than 0
          budget,       \* g_budget
          calls,        \* g_calls
          lastCall,     \* history: the call made last, as in Dictionary
          denied,       \* history: has calloc failed since the last reset?
          asked,        \* the registration that grow works for, << >> outside grow
          fresh,        \* grow's nt
          copied        \* grow's i

growVars == <<asked, fresh, copied>>
dispatchVars == <<table, misses, budget, calls, lastCall, denied, growVars>>

Size(t)    == Cardinality(DOMAIN t)
Cap        == Size(table)
Empty      == [used |-> FALSE, addr |-> 0, fn |-> Nothing]
CountOf(t) == Cardinality({j \in DOMAIN t : t[j].used})

DispatchInit == /\ table = << >> /\ misses = 0
                /\ budget = 0 /\ calls = 0
                /\ lastCall = <<"none">> /\ denied = FALSE
                /\ asked = << >> /\ fresh = << >> /\ copied = 0

-----------------------------------------------------------------------------
(* hash_addr & m *)
Home(a, cap) == (a * Multiplier) % cap

(* The slot k places after a's own. *)
SlotOf(t, a, k) == (Home(a, Size(t)) + k) % Size(t)

(* The places at which a search for a stops: slots that hold something else are passed
   over.  Without one that is free, or holds a, it goes round for ever. *)
Stops(t, a) == {k \in 0..Size(t) - 1 : ~t[SlotOf(t, a, k)].used \/ t[SlotOf(t, a, k)].addr = a}
Spins(t, a) == DOMAIN t # {} /\ Stops(t, a) = {}
Probe(t, a) == SlotOf(t, a, Min(Stops(t, a)))

Put(t, a, f) == [t EXCEPT ![Probe(t, a)] = [used |-> TRUE, addr |-> a, fn |-> f]]

(* psp_lookup *)
Lookup(a) == IF DOMAIN table = {} \/ Spins(table, a) THEN Nothing
             ELSE LET s == table[Probe(table, a)] IN IF s.used THEN s.fn ELSE Nothing

NextCap == IF Cap = 0 THEN FirstCap ELSE Cap * 2

(* Mutant: the load is only looked at once the table is full. *)
CrowdedLate == (CountOf(table) + 1) * 4 > Cap * 4

(* "keep load < 0.75" *)
Crowded == (CountOf(table) + 1) * 4 >= Cap * 3

-----------------------------------------------------------------------------
(* The rest of psp_register and psp_register_label, once the table is t. *)
RegisterIn(t, kind, a, f) ==
    /\ ~Spins(t, a)
    /\ IF DOMAIN t = {}
       THEN table' = t /\ lastCall' = <<"refused", a>>
       ELSE /\ table' = IF kind = "label" /\ t[Probe(t, a)].used THEN t ELSE Put(t, a, f)
            /\ lastCall' = <<kind, a, f>>
    /\ UNCHANGED <<misses, budget, calls>>

(* psp_register and psp_register_label, with room in the table or after calloc failed. *)
Register(kind, a, f) == /\ asked = << >>
                        /\ denied' = (denied \/ Crowded)
                        /\ RegisterIn(table, kind, a, f)
                        /\ UNCHANGED growVars

(* They call grow, and calloc gives it a table. *)
BeginGrow(kind, a, f) == /\ asked = << >> /\ Crowded /\ NextCap <= MaxCap
                         /\ asked' = <<kind, a, f>>
                         /\ fresh' = [j \in 0..NextCap - 1 |-> Empty]
                         /\ copied' = 0
                         /\ UNCHANGED <<table, misses, budget, calls, lastCall, denied>>

(* Mutant: the slot an address hashes to is taken, free or not. *)
MovedHome(nt, s) == [nt EXCEPT ![SlotOf(nt, s.addr, 0)] = s]

(* The new table with the old slot s in the first free place. *)
Moved(nt, s) ==
    LET free == {k \in 0..Size(nt) - 1 : ~nt[SlotOf(nt, s.addr, k)].used}
    IN [nt EXCEPT ![SlotOf(nt, s.addr, Min(free))] = s]

(* One turn of grow's loop. *)
CopySlot == /\ asked # << >> /\ copied < Cap
            /\ fresh' = IF table[copied].used THEN Moved(fresh, table[copied]) ELSE fresh
            /\ copied' = copied + 1
            /\ UNCHANGED <<table, misses, budget, calls, lastCall, denied, asked>>

(* grow installs the new table, and the registration goes on in it. *)
EndGrow == /\ asked # << >> /\ copied = Cap
           /\ RegisterIn(fresh, asked[1], asked[2], asked[3])
           /\ asked' = << >> /\ fresh' = << >> /\ copied' = 0
           /\ UNCHANGED denied

-----------------------------------------------------------------------------
(* The head of psp_dispatch: on_exceeded is called with the budget cleared, and may
   set another one (`again'). *)
Spend(again) ==
    IF budget # 0 /\ calls + 1 >= budget
    THEN /\ budget' = again
         /\ calls' = IF again = 0 THEN calls + 1 ELSE 0
    ELSE /\ calls' = IF budget # 0 THEN calls + 1 ELSE calls
         /\ UNCHANGED budget

(* psp_dispatch; what the function or the miss handler then does is not its business. *)
DispatchCall(a, again) == /\ asked = << >>
                          /\ ~Spins(table, a)
                          /\ calls < MaxCalls
                          /\ Spend(again)
                          /\ lastCall' = <<"ran", a, Lookup(a)>>
                          /\ misses' = IF Lookup(a) = Nothing THEN 1 ELSE misses
                          /\ UNCHANGED <<table, denied, growVars>>

SetBudget(n) == /\ asked = << >>
                /\ budget' = n /\ calls' = 0
                /\ UNCHANGED <<table, misses, lastCall, denied, growVars>>

(* psp_dispatch_reset: the budget goes on. *)
DispatchReset == /\ asked = << >>
                 /\ table' = << >> /\ misses' = 0
                 /\ lastCall' = <<"reset">> /\ denied' = FALSE
                 /\ UNCHANGED <<budget, calls, growVars>>

DispatchNext == \/ \E kind \in {"register", "label"}, a \in Address, f \in Function :
                      Register(kind, a, f) \/ BeginGrow(kind, a, f)
                \/ CopySlot
                \/ EndGrow
                \/ \E a \in Address, again \in Budgets \cup {0} : DispatchCall(a, again)
                \/ \E n \in Budgets : SetBudget(n)
                \/ DispatchReset

DispatchSpec == DispatchInit /\ [][DispatchNext]_dispatchVars

-----------------------------------------------------------------------------
Dict == INSTANCE Dictionary WITH Key <- Address, Fn <- Function, None <- Nothing,
                                 dict <- [a \in Address |-> Lookup(a)], call <- lastCall

(* The hash table, its growth and its replacements are a dictionary: what a computed
   jump runs is what was registered last at its address, a label never takes an
   entry's place, and growing the table, or failing to, loses nothing.
   (psp_register, psp_register_label, psp_lookup, grow) *)
TableIsDictionary == Dict!DictSpec

(* A search for an address nobody registered comes to an end: unless calloc has
   failed, the table always has a free slot; and so has, always, the one grow fills.
   (psp_lookup, grow, the load test) *)
ProbingEnds == /\ ~denied /\ DOMAIN table # {} => \E j \in DOMAIN table : ~table[j].used
               /\ asked # << >> => \E j \in DOMAIN fresh : ~fresh[j].used
=============================================================================
