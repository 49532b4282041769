-------------------------- MODULE VersionedRecords --------------------------
(***************************************************************************)
(* What the four tables promise their readers: a table of records, each    *)
(* with a body, a lifecycle state and a version, in which every write is   *)
(* one atomic step that either creates one record or moves one record      *)
(* along an edge of its lifecycle and raises its version by one.  Records  *)
(* are never deleted, and a body is frozen unless the record's state is    *)
(* one of Mutable.                                                         *)
(***************************************************************************)
EXTENDS Naturals

CONSTANTS Ids,            \* the identities records can have
          States,         \* the lifecycle states
          Initial,        \* the state of a new record
          Edges,          \* the lifecycle: a set of pairs <<from, to>>
          Mutable,        \* the states in which a write may change the body
          FirstVersions   \* the versions a new record may start at

VARIABLE table            \* a function from existing ids to records

Init ==
    /\ DOMAIN table \subseteq Ids
    /\ \A id \in DOMAIN table : table[id].state \in States /\ table[id].version > 0

Others(id) == \A other \in DOMAIN table \ {id} : table'[other] = table[other]

Create(id) ==
    /\ id \notin DOMAIN table
    /\ DOMAIN table' = DOMAIN table \cup {id}
    /\ table'[id].state = Initial
    /\ table'[id].version \in FirstVersions
    /\ Others(id)

Write(id) ==
    /\ id \in DOMAIN table
    /\ DOMAIN table' = DOMAIN table
    /\ <<table[id].state, table'[id].state>> \in Edges
    /\ table'[id].version = table[id].version + 1
    /\ table[id].state \in Mutable \/ table'[id].body = table[id].body
    /\ Others(id)

Next == \E id \in Ids : Create(id) \/ Write(id)

Spec == Init /\ [][Next]_table

=============================================================================
