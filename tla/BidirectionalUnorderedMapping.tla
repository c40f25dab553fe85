-------------------- MODULE BidirectionalUnorderedMapping --------------------
(***************************************************************************)
(* src/objects/BidirectionalUnorderedMapping.hpp: two hash maps, of which  *)
(* each is to be the inverse of the other.                                 *)
(*                                                                         *)
(* An operation changes one map after the other, and emplace may have to   *)
(* take the first change back: because the value is taken or because the   *)
(* second map cannot allocate.  So each operation has one step per map,    *)
(* and "call" is what is in progress between them.  A key without an entry *)
(* is mapped to Nil, which is neither a key nor a value.                   *)
(***************************************************************************)
CONSTANTS Keys, Values, Nil

VARIABLES forward_map,  \* the value of each key
          reverse_map,  \* the key of each value
          call          \* the operation that has changed one of the maps only

vars == <<forward_map, reverse_map, call>>

Call(op, key, value) == [op |-> op, key |-> key, value |-> value]
Idle == Call("none", Nil, Nil)

Calls == [op : {"none", "emplace", "erase_by_key", "erase_by_value", "clear"},
          key : Keys \cup {Nil}, value : Values \cup {Nil}]

TypeOK ==
    /\ forward_map \in [Keys -> Values \cup {Nil}]
    /\ reverse_map \in [Values -> Keys \cup {Nil}]
    /\ call \in Calls

Init ==
    /\ forward_map = [key \in Keys |-> Nil]
    /\ reverse_map = [value \in Values |-> Nil]
    /\ call = Idle

------------------------------------------------------------------------------
(* emplace *)

EmplaceForward(key, value) ==
    /\ call = Idle
    /\ forward_map[key] = Nil
    /\ forward_map' = [forward_map EXCEPT ![key] = value]
    /\ call' = Call("emplace", key, value)
    /\ UNCHANGED reverse_map

EmplaceReverse ==
    /\ call.op = "emplace"
    /\ reverse_map[call.value] = Nil
    /\ reverse_map' = [reverse_map EXCEPT ![call.value] = call.key]
    /\ call' = Idle
    /\ UNCHANGED forward_map

\* Mutant: a refused entry is not taken back.
EmplaceRollback_Forgotten ==
    /\ call.op = "emplace"
    /\ call' = Idle
    /\ UNCHANGED <<forward_map, reverse_map>>

\* The value is taken, or the second emplace has thrown.
EmplaceRollback ==
    /\ call.op = "emplace"
    /\ forward_map' = [forward_map EXCEPT ![call.key] = Nil]
    /\ call' = Idle
    /\ UNCHANGED reverse_map

------------------------------------------------------------------------------
(* erase_by_key, erase_by_value, clear *)

EraseByKey(key) ==
    /\ call = Idle
    /\ forward_map[key] # Nil
    /\ reverse_map' = [reverse_map EXCEPT ![forward_map[key]] = Nil]
    /\ call' = Call("erase_by_key", key, Nil)
    /\ UNCHANGED forward_map

EraseForward ==
    /\ call.op = "erase_by_key"
    /\ forward_map' = [forward_map EXCEPT ![call.key] = Nil]
    /\ call' = Idle
    /\ UNCHANGED reverse_map

EraseByValue(value) ==
    /\ call = Idle
    /\ reverse_map[value] # Nil
    /\ forward_map' = [forward_map EXCEPT ![reverse_map[value]] = Nil]
    /\ call' = Call("erase_by_value", Nil, value)
    /\ UNCHANGED reverse_map

EraseReverse ==
    /\ call.op = "erase_by_value"
    /\ reverse_map' = [reverse_map EXCEPT ![call.value] = Nil]
    /\ call' = Idle
    /\ UNCHANGED forward_map

Clear ==
    /\ call = Idle
    /\ forward_map' = [key \in Keys |-> Nil]
    /\ call' = Call("clear", Nil, Nil)
    /\ UNCHANGED reverse_map

ClearReverse ==
    /\ call.op = "clear"
    /\ reverse_map' = [value \in Values |-> Nil]
    /\ call' = Idle
    /\ UNCHANGED forward_map

Next ==
    \/ \E key \in Keys, value \in Values : EmplaceForward(key, value)
    \/ EmplaceReverse \/ EmplaceRollback
    \/ \E key \in Keys : EraseByKey(key)
    \/ EraseForward
    \/ \E value \in Values : EraseByValue(value)
    \/ EraseReverse
    \/ Clear \/ ClearReverse

Spec == Init /\ [][Next]_vars

------------------------------------------------------------------------------
(* Properties *)

\* The class invariants of lines 38-47 and the assertions of lines 141, 163,
\* 186 and 219: between two operations each map is the inverse of the other,
\* also after an emplace that was refused or failed half-way.
Inverse ==
    call = Idle =>
        \A key \in Keys, value \in Values :
            forward_map[key] = value <=> reverse_map[value] = key

\* The pairs that an observer may rely on while an operation is in progress.
Entries == {p \in Keys \X Values : reverse_map[p[2]] = p[1]}

Relation == INSTANCE InjectiveRelation WITH entries <- Entries

\* Whatever happens inside, the container is an injective relation that each
\* operation changes as a whole or not at all.
ImplementsRelation == Relation!Spec
==============================================================================
