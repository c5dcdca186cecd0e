----------------------------- MODULE MCCircuitFlow -----------------------------
(* CircuitFlow on small instances: what the configurations have in common.   *)
EXTENDS CircuitFlow, TLC

(* Two streams are interchangeable in every safety property.                 *)
StreamSymmetry == Permutations(Streams)

===============================================================================
