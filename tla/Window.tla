-------------------------------- MODULE Window --------------------------------
(***************************************************************************)
(* The three counters of src/torquests/_net/flowcontrol.py as pure         *)
(* operators: every component that holds one applies them inside the       *)
(* action that stands for the corresponding "with self._lock" block.       *)
(***************************************************************************)
EXTENDS Integers, Sequences

(* PackageWindow: units that may still be sent, and the closed flag that     *)
(* turns every present and future waiter's wait into an error.               *)
PackageWindow == [value : Nat, closed : BOOLEAN]

OpenWindow(initial) == [value |-> initial, closed |-> FALSE]

(* One unit too many: the bound of consume() off by one.                     *)
CanTakeAtZero(w) == w.value >= 0 /\ ~w.closed

(* consume() takes a unit only when one is there and the window is open.     *)
CanTake(w) == w.value > 0 /\ ~w.closed

(* consume() sleeps on the condition in exactly this case.                   *)
MustWait(w) == w.value = 0 /\ ~w.closed

Take(w) == [value |-> w.value - 1, closed |-> w.closed]

Refill(w, increment) == [value |-> w.value + increment, closed |-> w.closed]

CloseWindow(w) == [value |-> w.value, closed |-> TRUE]

(* DeliverCounter.note_received: the new count, and whether a SENDME is due. *)
SendmeDue(count, increment) == count + 1 >= increment

NoteReceived(count, increment) ==
    IF SendmeDue(count, increment) THEN 0 ELSE count + 1

(* SendmeTracker: DATA cells counted since the last boundary, and the        *)
(* digests of the boundary cells, oldest first.                              *)
AtBoundary(t, increment) == t.sent + 1 >= increment

(* The count is not reset at the boundary.                                   *)
NoteSentNoReset(t, increment, digest) ==
    IF AtBoundary(t, increment)
    THEN [sent |-> t.sent + 1, expected |-> Append(t.expected, digest)]
    ELSE [sent |-> t.sent + 1, expected |-> t.expected]

NoteSent(t, increment, digest) ==
    IF AtBoundary(t, increment)
    THEN [sent |-> 0, expected |-> Append(t.expected, digest)]
    ELSE [sent |-> t.sent + 1, expected |-> t.expected]

(* verify() pops the oldest expectation whether or not it matches.           *)
Matches(t, digest) == t.expected # <<>> /\ Head(t.expected) = digest

AfterVerify(t) ==
    [sent |-> t.sent,
     expected |-> IF t.expected = <<>> THEN <<>> ELSE Tail(t.expected)]

===============================================================================
