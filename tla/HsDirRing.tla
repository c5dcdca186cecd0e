------------------------------- MODULE HsDirRing -------------------------------
(***************************************************************************)
(* Which HSDirs hold a service's descriptor: responsible_hsdirs walks the  *)
(* ring of directory hashes from the descriptor's place for each replica.  *)
(* hsdir_index and hs_index are hashes: their values are any places on the *)
(* ring, two relays never at the same one.                                 *)
(***************************************************************************)
EXTENDS Naturals, Sequences, FiniteSets

CONSTANTS
    RingSize,     \* the places 0 .. RingSize-1
    MaxNodes,     \* bound on the HSDirs
    Replicas,     \* DEFAULT_N_REPLICAS
    SpreadFetch   \* DEFAULT_SPREAD_FETCH

ASSUME RingAssumption == {RingSize, MaxNodes, Replicas, SpreadFetch} \subseteq Nat \ {0}

Places == 0..(RingSize - 1)

VARIABLES
    nodes,      \* the HSDirs, each by its place (hsdir_index)
    targets,    \* hs_index of each replica
    replica,    \* of the outer loop
    start, pos, \* where the walk began and where it is, from 0
    added,      \* relays this replica has added
    selected,   \* the result so far
    walk        \* "replica": outer loop, "node": inner loop, "returned"

ringVars == <<nodes, targets, replica, start, pos, added, selected, walk>>

RingInit ==
    /\ nodes \in {S \in SUBSET Places : Cardinality(S) <= MaxNodes}
    /\ targets \in [1..Replicas -> Places]
    /\ replica = 1 /\ start = 0 /\ pos = 0 /\ added = 0 /\ selected = <<>>
    /\ walk = IF nodes = {} THEN "returned" ELSE "replica"

(* ordered[k]: the HSDir with k smaller ones.                                *)
Ordered(k) == CHOOSE n \in nodes : Cardinality({m \in nodes : m < n}) = k
Total == Cardinality(nodes)

(* The place after the target's own.                                         *)
BisectRight(target) == Cardinality({n \in nodes : n <= target})

BisectLeft(target) == Cardinality({n \in nodes : n < target})

StartReplica ==
    /\ walk = "replica"
    /\ IF replica > Replicas
       THEN walk' = "returned" /\ UNCHANGED <<start, pos, added>>
       ELSE LET first == BisectLeft(targets[replica])
            IN  /\ start' = IF first = Total THEN 0 ELSE first
                /\ pos' = start' /\ added' = 0 /\ walk' = "node"
    /\ UNCHANGED <<nodes, targets, replica, selected>>

Chosen == {selected[i] : i \in DOMAIN selected}

VisitNode ==
    /\ walk = "node" /\ added < SpreadFetch
    /\ IF Ordered(pos) \in Chosen THEN UNCHANGED <<selected, added>>
       ELSE selected' = Append(selected, Ordered(pos)) /\ added' = added + 1
    /\ pos' = IF pos + 1 = Total THEN 0 ELSE pos + 1
    /\ IF pos' = start THEN walk' = "replica" /\ replica' = replica + 1
       ELSE UNCHANGED <<walk, replica>>
    /\ UNCHANGED <<nodes, targets, start>>

EndReplica ==
    /\ walk = "node" /\ added >= SpreadFetch
    /\ walk' = "replica" /\ replica' = replica + 1
    /\ UNCHANGED <<nodes, targets, start, pos, added, selected>>

RingNext == StartReplica \/ VisitNode \/ EndReplica

RingSpec == RingInit /\ [][RingNext]_ringVars

-----------------------------------------------------------------------------
(* The choice the service makes too, without a walk: for each replica the    *)
(* HSDirs not taken yet that come first clockwise from the descriptor.       *)
Clockwise(from, n) == (n + RingSize - from) % RingSize

NearestFirst(from, S) ==
    [i \in 1..Cardinality(S) |->
       CHOOSE n \in S : Cardinality({m \in S : Clockwise(from, m) < Clockwise(from, n)}) = i - 1]

Leading(s, k) == SubSeq(s, 1, IF Len(s) < k THEN Len(s) ELSE k)

ReferenceAfter[r \in 0..Replicas] ==
    IF r = 0 THEN <<>>
    ELSE LET before == ReferenceAfter[r - 1]
             left   == nodes \ {before[i] : i \in DOMAIN before}
         IN  before \o Leading(NearestFirst(targets[r], left), SpreadFetch)

(* The walk with its wrap, its skips and its stop after a full turn finds    *)
(* the HSDirs that are responsible, in fetch order, whatever the sizes of    *)
(* ring and spread (hsdir.py:127-160): a client that disagreed with the      *)
(* service by one relay would look in the wrong place.                       *)
RingChoice == walk = "returned" => selected = ReferenceAfter[Replicas]

===============================================================================
