----------------------------- MODULE MCCircuitPool -----------------------------
(* CircuitPool on small instances.                                           *)
EXTENDS CircuitPool, TLC

CONSTANTS r1, r2, r3, a

(* Two requests for one key and one without.                                 *)
KeysMixed == [r \in Requests |-> IF r = r3 THEN NoKey ELSE a]

(* Requests for the same key are interchangeable.                            *)
RequestSymmetry == Permutations({r1, r2})

===============================================================================
