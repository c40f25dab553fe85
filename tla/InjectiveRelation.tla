-------------------------- MODULE InjectiveRelation --------------------------
(***************************************************************************)
(* What BidirectionalUnorderedMapping promises: a set of pairs in which no *)
(* key and no value occurs twice.  A pair enters only if both of its sides *)
(* are free, and an operation either takes effect as a whole or not at     *)
(* all.                                                                    *)
(***************************************************************************)

CONSTANTS Keys, Values

VARIABLE entries

KeyFree(key) == \A p \in entries : p[1] # key
ValueFree(value) == \A p \in entries : p[2] # value

Init == entries = {}

Insert(key, value) ==
    /\ KeyFree(key) /\ ValueFree(value)
    /\ entries' = entries \cup {<<key, value>>}

RemoveKey(key) == entries' = {p \in entries : p[1] # key}

RemoveValue(value) == entries' = {p \in entries : p[2] # value}

Clear == entries' = {}

Next ==
    \/ \E key \in Keys, value \in Values : Insert(key, value)
    \/ \E key \in Keys : RemoveKey(key)
    \/ \E value \in Values : RemoveValue(value)
    \/ Clear

Spec == Init /\ [][Next]_entries
==============================================================================
