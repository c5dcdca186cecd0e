----------------------------- MODULE MCCircuitLife -----------------------------
(* CircuitLife on small instances.                                           *)
EXTENDS CircuitLife, TLC

CONSTANTS c1, c2, s1, s2, k1

(* Two streams and a closer on one circuit; a circuit of its own for each.   *)
OfShared == [t \in Streams \cup Closers |-> c1]
OfOwn == [t \in Streams \cup Closers |-> IF t = s2 THEN c2 ELSE c1]

(* The streams of one circuit are interchangeable.                           *)
StreamSymmetry == Permutations(Streams)

===============================================================================
