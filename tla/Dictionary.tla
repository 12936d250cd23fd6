----------------------------- MODULE Dictionary ------------------------------
(***************************************************************************)
(* What hashtable.h promises: a mapping from keys to values.  The manager  *)
(* keeps its transports in one, the server its clients, the application    *)
(* its variables and commands, the loader its plugins.                     *)
(***************************************************************************)
CONSTANTS Keys, Values, NULL

VARIABLES map,    \* the value of each key, or NULL
          result  \* what the last call returned

dictVars == <<map, result>>

Init == /\ map = [k \in Keys |-> NULL]
        /\ result = NULL

(* Setting may fail for lack of memory; the key is then without a value.   *)
Set(k, v) == \/ /\ map' = [map EXCEPT ![k] = v]
                /\ result' = "ok"
             \/ /\ map' = [map EXCEPT ![k] = NULL]
                /\ result' = "error"

Del(k) == /\ map' = [map EXCEPT ![k] = NULL]
          /\ result' = IF map[k] = NULL THEN "error" ELSE "ok"

Get(k) == /\ result' = map[k]
          /\ UNCHANGED map

Next == \E k \in Keys : Del(k) \/ Get(k) \/ \E v \in Values : Set(k, v)

Spec == Init /\ [][Next]_dictVars
=============================================================================
