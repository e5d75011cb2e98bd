----------------------------- MODULE SisterTable -----------------------------
(***************************************************************************)
(* What the sister bus amounts to, whoever publishes and whoever dies: a   *)
(* table with one entry per key, where the last writer wins, a full table  *)
(* gives up an entry before it takes a new one, and an entry that was      *)
(* there may be spoiled, but only by showing that no publication is there. *)
(***************************************************************************)
EXTENDS Naturals, FiniteSets

CONSTANTS
  Key,      \* (parentSessionId, namespace, key)
  Capacity, \* entries that fit
  Corrupt   \* what a reader finds is of no publication

VARIABLE table  \* the number of the publication a reader finds, 0 for none

TableInit == table = [k \in Key |-> 0]

Taken == {k \in Key : table[k] # 0}

Others(k) == \A j \in Key \ {k} : table'[j] = table[j]

\* A publication that is newer than the one it replaces.
Publication(k) ==
  /\ k \in Taken \/ Cardinality(Taken) < Capacity
  /\ table'[k] \in Nat \ {0}
  /\ table[k] # Corrupt => table'[k] > table[k]
  /\ Others(k)

Eviction(k) ==
  /\ k \in Taken /\ Cardinality(Taken) = Capacity
  /\ table'[k] = 0
  /\ Others(k)

\* A publisher died at an entry it was replacing.
Corruption(k) ==
  /\ k \in Taken
  /\ table'[k] = Corrupt
  /\ Others(k)

TableNext == \E k \in Key : Publication(k) \/ Eviction(k) \/ Corruption(k)

TableSpec == TableInit /\ [][TableNext]_table
=============================================================================
