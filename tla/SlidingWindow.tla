----------------------------- MODULE SlidingWindow -----------------------------
(***************************************************************************)
(* What a flow-control window promises the two ends of a circuit: at most  *)
(* Credit cells are with the network and the far end together, and the     *)
(* sender gets its credit back in whole batches, for cells that arrived.   *)
(***************************************************************************)
EXTENDS Naturals

CONSTANTS Credit, Batch

VARIABLES
    flight,     \* cells sent and not yet received by the far end
    held        \* cells received whose credit the sender does not have back

window == <<flight, held>>

WindowInit == flight = 0 /\ held = 0

Send == /\ flight + held < Credit
        /\ flight' = flight + 1
        /\ UNCHANGED held

Deliver == /\ flight > 0
           /\ flight' = flight - 1
           /\ held' = held + 1

Return == /\ held >= Batch
          /\ held' = held - Batch
          /\ UNCHANGED flight

WindowNext == Send \/ Deliver \/ Return

WindowSpec == WindowInit /\ [][WindowNext]_window

===============================================================================
