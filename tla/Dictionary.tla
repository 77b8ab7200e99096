----------------------------- MODULE Dictionary -----------------------------
(***************************************************************************)
(* What a table of functions promises: a map from keys to functions in     *)
(* which a registration replaces, a label gives way, and a call runs what  *)
(* the map holds.  src/dispatch.c (addresses) and src/hle/hle.c (NIDs)     *)
(* each implement it with a table of their own.                            *)
(***************************************************************************)
CONSTANTS Key, Fn, None

VARIABLES dict,    \* what is registered, or None
          call     \* the call that was made last, and what it did

DictInit == /\ dict = [k \in Key |-> None]
            /\ call = <<"none">>

Replace(k, f) == /\ call' = <<"register", k, f>>
                 /\ dict' = [dict EXCEPT ![k] = f]

GiveWay(k, f) == /\ call' = <<"label", k, f>>
                 /\ dict' = [dict EXCEPT ![k] = IF @ = None THEN f ELSE @]

(* There is no room for one more key: what is known stays. *)
Refuse(k) == /\ call' = <<"refused", k>>
             /\ dict[k] = None
             /\ UNCHANGED dict

Run(k) == /\ call' = <<"ran", k, dict[k]>>
          /\ UNCHANGED dict

Clear == /\ call' = <<"reset">>
         /\ dict' = [k \in Key |-> None]

DictNext == \/ \E k \in Key, f \in Fn : Replace(k, f) \/ GiveWay(k, f)
            \/ \E k \in Key : Refuse(k) \/ Run(k)
            \/ Clear

DictSpec == DictInit /\ [][DictNext]_<<dict, call>>
=============================================================================
