--------------------------- MODULE VirtualNetwork ---------------------------
(***************************************************************************)
(* The partitions of VirtualNetwork (crates/core/src/net.rs), the part of  *)
(* it that the simulation uses: it never sends a message.                  *)
(***************************************************************************)
EXTENDS Naturals

VARIABLES
  partitions,     \* active_partitions
  nextPartition   \* next_partition_id

networkVars == <<partitions, nextPartition>>

Partition(nodes) == [id : Nat, a : SUBSET nodes, b : SUBSET nodes]

NetworkInit ==
  /\ partitions = {}
  /\ nextPartition = 0

\* add_partition() returns the identifier nextPartition.
AddPartition(a, b) ==
  /\ partitions' = partitions \cup {[id |-> nextPartition, a |-> a, b |-> b]}
  /\ nextPartition' = nextPartition + 1

\* remove_partition(), for each identifier in ids.
RemovePartitions(ids) ==
  /\ partitions' = {p \in partitions : p.id \notin ids}
  /\ UNCHANGED nextPartition

\* is_partitioned(): some partition separates the two nodes, in either direction.
Partitioned(m, n) ==
  \E p \in partitions : (m \in p.a /\ n \in p.b) \/ (m \in p.b /\ n \in p.a)
=============================================================================
