--------------------------- MODULE MCStreamDelivery ---------------------------
(* StreamDelivery on small instances.                                        *)
EXTENDS StreamDelivery, TLC

(* Two streams are interchangeable in every safety property.                 *)
StreamSymmetry == Permutations(Streams)

===============================================================================
