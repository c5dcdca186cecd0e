------------------------------ MODULE MCDirTunnel ------------------------------
(* DirTunnel on small instances.                                             *)
EXTENDS DirTunnel, TLC

CONSTANTS a, b, ka, kb

(* One thread that closes each client.                                       *)
OfEach == (ka :> a) @@ (kb :> b)

===============================================================================
