------------------------------- MODULE KeyMap -------------------------------
(***************************************************************************)
(* What a table of values by key promises: a value put under a key stays   *)
(* until another is put there or it is removed, and a value that leaves    *)
(* the table is given to its destructor in that step.                      *)
(***************************************************************************)
EXTENDS Integers
CONSTANTS Keys, Values
VARIABLES map,        \* key -> the set of its value, empty when there is none
          given       \* values destroyed in the last step

mapVars == <<map, given>>

MapInit == map = [k \in Keys |-> {}] /\ given = {}

PutKey(k, v) == given' = map[k] /\ map' = [map EXCEPT ![k] = {v}]
RemoveKey(k) == given' = map[k] /\ map' = [map EXCEPT ![k] = {}]
RemoveAll == given' = UNION {map[k] : k \in Keys} /\ map' = [k \in Keys |-> {}]

MapNext == \/ \E k \in Keys : RemoveKey(k) \/ \E v \in Values : PutKey(k, v)
           \/ RemoveAll

MapSpec == MapInit /\ [][MapNext]_mapVars
=============================================================================
