------------------------------ MODULE CircuitFlow ------------------------------
(***************************************************************************)
(* Sending on one open circuit (src/torquests/_net/circuit.py, stream.py,  *)
(* flowcontrol.py): the caller threads of its streams, the thread that may *)
(* close it, the channel's receiver thread and the relay at the far end.   *)
(*                                                                         *)
(* A thread that sends DATA takes a unit of its stream's window, then one  *)
(* of the circuit's, then _tx_lock; under the lock the cell is stamped,    *)
(* its digest remembered and the cell handed to the channel.  The running  *)
(* digest of the last hop is abstracted to the number of cells stamped so  *)
(* far: two positions of the forward stream never have the same digest.    *)
(***************************************************************************)
EXTENDS Window, FiniteSets, Integers

CONSTANTS
    Streams,            \* the streams, each one its caller thread
    Receiver,           \* the channel's receiver thread
    Closer,             \* a thread that calls Circuit.close()
    Nobody,             \* the owner of a free _tx_lock; also stream id 0
    CircuitInitial,     \* CIRCUIT_WINDOW_INITIAL
    CircuitIncrement,   \* CIRCUIT_WINDOW_INCREMENT
    StreamInitial,      \* STREAM_WINDOW_INITIAL
    StreamIncrement,    \* STREAM_WINDOW_INCREMENT
    HonestRelay,        \* the relay acknowledges what it received, when due
    MayClose,           \* a client thread may close the circuit
    MayDestroy,         \* the relay may destroy the circuit
    MayFail,            \* the channel may fail, or be closed
    MaxCells,           \* bound: cells each stream's thread sends
    MaxDown,            \* bound: DATA cells the relay sends
    MaxSendmes,         \* bound: SENDMEs a dishonest relay makes up
    MaxTimeouts         \* bound: waits that run into their deadline

ASSUME ThreadsAssumption ==
    /\ Receiver \notin Streams
    /\ Closer \notin Streams
    /\ Nobody \notin Streams
    /\ Receiver # Closer /\ Nobody # Receiver /\ Nobody # Closer
    /\ IsFiniteSet(Streams)

ASSUME WindowAssumption ==
    /\ CircuitInitial \in Nat
    /\ CircuitIncrement \in Nat \ {0}
    /\ StreamInitial \in Nat
    /\ StreamIncrement \in Nat \ {0}

ASSUME BoundAssumption ==
    /\ {HonestRelay, MayClose, MayDestroy, MayFail} \subseteq BOOLEAN
    /\ {MaxCells, MaxDown, MaxSendmes, MaxTimeouts} \subseteq Nat

Threads == Streams \cup {Receiver, Closer}

(* A body parse_sendme_v1 rejects.  No stamped cell has this digest.         *)
Malformed == 0

VARIABLES
    pc,         \* pc[t]: where thread t stands
    kind,       \* kind[t]: the cell t is sending
    cwin,       \* Circuit._package_window
    swin,       \* swin[s]: Stream._package_window
    tracker,    \* Circuit._sendme_tracker
    deliver,    \* Circuit._deliver
    stamped,    \* cells stamped by the last hop's forward digest
    tx,         \* the owner of _tx_lock
    destroyed,  \* Circuit._destroyed
    reason,     \* what Circuit._error says
    unnotified, \* streams of _teardown's snapshot not yet told
    chanClosed, \* Channel._closing
    wire,       \* cells on their way to the relay
    back,       \* cells on their way to the client
    rseen,      \* the far end: cells received
    rdata,      \* the far end: DATA cells not yet acknowledged
    rstream,    \* rstream[s]: the same of one stream
    rup,        \* the far end still knows the circuit
    lost,       \* circuit window units no SENDME can return any more
    slost,      \* slost[s]: the same of the stream's window
    cells,      \* bound: cells[s], cells the thread of s has sent
    down,       \* bound: DATA cells sent by the relay
    forged,     \* bound: SENDMEs made up
    timeouts    \* bound: waits that ran into their deadline

clientVars == <<pc, kind, cwin, swin, tracker, deliver, stamped, tx>>
endVars    == <<destroyed, reason, unnotified>>
relayVars  == <<rseen, rdata, rstream, rup>>
netVars    == <<chanClosed, wire, back, relayVars>>
boundVars  == <<cells, down, forged, timeouts>>
ghostVars  == <<lost, slost, boundVars>>
vars == <<pc, kind, cwin, swin, tracker, deliver, stamped, tx, destroyed,
          reason, unnotified, chanClosed, wire, back, rseen, rdata, rstream, rup,
          lost, slost, cells, down, forged, timeouts>>

PCs == {"idle", "stream window", "stream wait", "circuit window",
        "circuit wait", "lock", "stamp", "note", "transmit", "refill",
        "teardown", "close window", "tell streams", "unregister", "exit"}
Kinds   == {"DATA", "CONTROL", "DESTROY"}
Reasons == {"none", "relay", "SENDME", "client", "channel"}

WireCell == [kind : Kinds, stream : Streams \cup {Nobody}]
BackCell == [cmd : {"DATA", "SENDME", "DESTROY"},
             stream : Streams \cup {Nobody}, digest : Nat]

Init ==
    /\ pc = [t \in Threads |-> "idle"]
    /\ kind = [t \in Threads |-> "CONTROL"]
    /\ cwin = OpenWindow(CircuitInitial)
    /\ swin = [s \in Streams |-> OpenWindow(StreamInitial)]
    /\ tracker = [sent |-> 0, expected |-> <<>>]
    /\ deliver = 0
    /\ stamped = 0
    /\ tx = Nobody
    /\ destroyed = FALSE
    /\ reason = "none"
    /\ unnotified = {}
    /\ chanClosed = FALSE
    /\ wire = <<>>
    /\ back = <<>>
    /\ rseen = 0
    /\ rdata = 0
    /\ rstream = [s \in Streams |-> 0]
    /\ rup = TRUE
    /\ lost = 0
    /\ slost = [s \in Streams |-> 0]
    /\ cells = [s \in Streams |-> 0]
    /\ down = 0
    /\ forged = 0
    /\ timeouts = 0

Goto(t, label) == pc' = [pc EXCEPT ![t] = label]

-------------------------------------------------------------------------------
(***************************************************************************)
(* The caller thread of a stream.                                          *)
(***************************************************************************)

(* Stream.send reaches its next chunk.                                       *)
SendData(s) ==
    /\ pc[s] = "idle"
    /\ cells[s] < MaxCells
    /\ cells' = [cells EXCEPT ![s] = @ + 1]
    /\ kind' = [kind EXCEPT ![s] = "DATA"]
    /\ Goto(s, "stream window")
    /\ UNCHANGED <<cwin, swin, tracker, deliver, stamped, tx, endVars,
                   netVars, lost, slost, down, forged, timeouts>>

(* send_relay of a cell that is not DATA (BEGIN, END): no window is taken.   *)
SendControl(s) ==
    /\ pc[s] = "idle"
    /\ cells[s] < MaxCells
    /\ cells' = [cells EXCEPT ![s] = @ + 1]
    /\ kind' = [kind EXCEPT ![s] = "CONTROL"]
    /\ Goto(s, "lock")
    /\ UNCHANGED <<cwin, swin, tracker, deliver, stamped, tx, endVars,
                   netVars, lost, slost, down, forged, timeouts>>

(* consume() on the stream's window: take a unit, or sleep, or raise.        *)
TakeStreamUnit(s) ==
    /\ pc[s] \in {"stream window", "stream wait"}
    /\ CanTake(swin[s])
    /\ swin' = [swin EXCEPT ![s] = Take(@)]
    /\ Goto(s, "circuit window")
    /\ UNCHANGED <<kind, cwin, tracker, deliver, stamped, tx, endVars,
                   netVars, ghostVars>>

SleepOnStream(s) ==
    /\ pc[s] = "stream window"
    /\ MustWait(swin[s])
    /\ Goto(s, "stream wait")
    /\ UNCHANGED <<kind, cwin, swin, tracker, deliver, stamped, tx, endVars,
                   netVars, ghostVars>>

StreamSendFails(s) ==
    /\ pc[s] \in {"stream window", "stream wait"}
    /\ swin[s].closed
    /\ Goto(s, "idle")
    /\ UNCHANGED <<kind, cwin, swin, tracker, deliver, stamped, tx, endVars,
                   netVars, ghostVars>>

(* consume() on the circuit's window.  An error here leaves the unit taken   *)
(* from the stream's window behind.                                          *)
TakeCircuitUnit(s) ==
    /\ pc[s] \in {"circuit window", "circuit wait"}
    /\ CanTake(cwin)
    /\ cwin' = Take(cwin)
    /\ Goto(s, "lock")
    /\ UNCHANGED <<kind, swin, tracker, deliver, stamped, tx, endVars,
                   netVars, ghostVars>>

(* Waiting for the window with _tx_lock held.                                *)
SleepOnCircuitLocked(s) ==
    /\ pc[s] = "circuit window"
    /\ MustWait(cwin)
    /\ tx = Nobody
    /\ tx' = s
    /\ Goto(s, "circuit wait")
    /\ UNCHANGED <<kind, cwin, swin, tracker, deliver, stamped, endVars,
                   netVars, ghostVars>>

SleepOnCircuit(s) ==
    /\ pc[s] = "circuit window"
    /\ MustWait(cwin)
    /\ Goto(s, "circuit wait")
    /\ UNCHANGED <<kind, cwin, swin, tracker, deliver, stamped, tx, endVars,
                   netVars, ghostVars>>

CircuitSendFails(s) ==
    /\ pc[s] \in {"circuit window", "circuit wait"}
    /\ cwin.closed
    /\ Goto(s, "idle")
    /\ slost' = [slost EXCEPT ![s] = @ + 1]
    /\ UNCHANGED <<kind, cwin, swin, tracker, deliver, stamped, tx, endVars,
                   netVars, lost, boundVars>>

(* Condition.wait returns FALSE: consume() raises TorReadTimeout without     *)
(* looking at the window again, even if a refill came in between.            *)
WaitTimesOut(s) ==
    /\ pc[s] \in {"stream wait", "circuit wait"}
    /\ timeouts < MaxTimeouts
    /\ timeouts' = timeouts + 1
    /\ slost' = IF pc[s] = "circuit wait"
                THEN [slost EXCEPT ![s] = @ + 1] ELSE slost
    /\ Goto(s, "idle")
    /\ UNCHANGED <<kind, cwin, swin, tracker, deliver, stamped, tx, endVars,
                   netVars, lost, cells, down, forged>>

-------------------------------------------------------------------------------
(***************************************************************************)
(* _send_relay and close(): what any thread does under _tx_lock.           *)
(***************************************************************************)

(* Where a thread goes on after its cell.                                    *)
AfterSend(t) == IF t = Closer THEN "teardown" ELSE "idle"

(* Without the lock.                                                         *)
AcquireTxUnlocked(t) ==
    /\ pc[t] = "lock"
    /\ t # Closer => ~destroyed
    /\ tx' = t
    /\ Goto(t, IF t = Closer THEN "transmit" ELSE "stamp")
    /\ UNCHANGED <<kind, cwin, swin, tracker, deliver, stamped, endVars,
                   netVars, ghostVars>>

(* close() does not look at _destroyed again once it holds the lock.         *)
AcquireTx(t) ==
    /\ pc[t] = "lock"
    /\ tx = Nobody
    /\ t # Closer => ~destroyed
    /\ tx' = t
    /\ Goto(t, IF t = Closer THEN "transmit" ELSE "stamp")
    /\ UNCHANGED <<kind, cwin, swin, tracker, deliver, stamped, endVars,
                   netVars, ghostVars>>

(* The circuit is gone: _send_relay raises, and the units taken are lost.    *)
(* The receiver suppresses the error.                                        *)
RefuseSend(t) ==
    /\ pc[t] = "lock"
    /\ tx = Nobody
    /\ t # Closer /\ destroyed
    /\ Goto(t, "idle")
    /\ IF kind[t] = "DATA"
       THEN /\ lost' = lost + 1
            /\ slost' = [slost EXCEPT ![t] = @ + 1]
       ELSE UNCHANGED <<lost, slost>>
    /\ UNCHANGED <<kind, cwin, swin, tracker, deliver, stamped, tx, endVars,
                   netVars, boundVars>>

StampForward(t) ==
    /\ pc[t] = "stamp"
    /\ stamped' = stamped + 1
    /\ Goto(t, IF kind[t] = "DATA" THEN "note" ELSE "transmit")
    /\ UNCHANGED <<kind, cwin, swin, tracker, deliver, tx, endVars, netVars,
                   ghostVars>>

(* note_sent(forward_digest()): the digest is read when it is noted.         *)
NoteDigest(t) ==
    /\ pc[t] = "note"
    /\ tracker' = NoteSent(tracker, CircuitIncrement, stamped)
    /\ Goto(t, "transmit")
    /\ UNCHANGED <<kind, cwin, swin, deliver, stamped, tx, endVars, netVars,
                   ghostVars>>

(* channel.send_cell raises on a closed channel and the cell never leaves;   *)
(* every path releases the lock.                                             *)
Transmit(t) ==
    /\ pc[t] = "transmit"
    /\ tx' = Nobody
    /\ wire' = IF chanClosed THEN wire
               ELSE Append(wire, [kind |-> kind[t],
                                  stream |-> IF t \in Streams THEN t
                                             ELSE Nobody])
    /\ slost' = IF chanClosed /\ kind[t] = "DATA"
                THEN [slost EXCEPT ![t] = @ + 1] ELSE slost
    /\ Goto(t, AfterSend(t))
    /\ UNCHANGED <<kind, cwin, swin, tracker, deliver, stamped, endVars,
                   chanClosed, back, relayVars, lost, boundVars>>

-------------------------------------------------------------------------------
(***************************************************************************)
(* close() and _teardown, run by the closer or by the receiver.            *)
(***************************************************************************)

AfterTeardown(t) == IF t = Closer THEN "unregister" ELSE "idle"

(* A bad SENDME is only ignored.                                             *)
MarkDestroyedUnlessSendme(t, why) ==
    IF destroyed \/ why = "SENDME"
    THEN /\ Goto(t, AfterTeardown(t))
         /\ UNCHANGED endVars
    ELSE /\ destroyed' = TRUE
         /\ reason' = why
         /\ unnotified' = Streams
         /\ Goto(t, "close window")

(* The block of _teardown under _registry_lock: the first caller marks the   *)
(* circuit and takes the snapshot, every later one returns.                  *)
MarkDestroyed(t, why) ==
    IF destroyed
    THEN /\ Goto(t, AfterTeardown(t))
         /\ UNCHANGED endVars
    ELSE /\ destroyed' = TRUE
         /\ reason' = why
         /\ unnotified' = Streams
         /\ Goto(t, "close window")

(* close() sends a DESTROY only if it does not find the circuit destroyed.   *)
CloseCircuit ==
    /\ MayClose
    /\ pc[Closer] = "idle"
    /\ kind' = [kind EXCEPT ![Closer] = "DESTROY"]
    /\ Goto(Closer, IF destroyed THEN "teardown" ELSE "lock")
    /\ UNCHANGED <<cwin, swin, tracker, deliver, stamped, tx, endVars,
                   netVars, ghostVars>>

CloserTeardown ==
    /\ pc[Closer] = "teardown"
    /\ MarkDestroyed(Closer, "client")
    /\ UNCHANGED <<kind, cwin, swin, tracker, deliver, stamped, tx, netVars,
                   ghostVars>>

(* The circuit's window is left open.                                        *)
LeaveCircuitWindowOpen(t) ==
    /\ pc[t] = "close window"
    /\ Goto(t, "tell streams")
    /\ UNCHANGED <<kind, cwin, swin, tracker, deliver, stamped, tx, endVars,
                   netVars, ghostVars>>

CloseCircuitWindow(t) ==
    /\ pc[t] = "close window"
    /\ cwin' = CloseWindow(cwin)
    /\ Goto(t, "tell streams")
    /\ UNCHANGED <<kind, swin, tracker, deliver, stamped, tx, endVars,
                   netVars, ghostVars>>

(* on_circuit_closed of one stream of the snapshot: its window is closed.    *)
TellStream(t, s) ==
    /\ pc[t] = "tell streams"
    /\ s \in unnotified
    /\ unnotified' = unnotified \ {s}
    /\ swin' = [swin EXCEPT ![s] = CloseWindow(@)]
    /\ UNCHANGED <<pc, kind, cwin, tracker, deliver, stamped, tx, destroyed,
                   reason, netVars, ghostVars>>

TeardownReturns(t) ==
    /\ pc[t] = "tell streams"
    /\ unnotified = {}
    /\ Goto(t, AfterTeardown(t))
    /\ UNCHANGED <<kind, cwin, swin, tracker, deliver, stamped, tx, endVars,
                   netVars, ghostVars>>

(* channel.unregister: from here on the channel drops the circuit's cells.   *)
Unregister ==
    /\ pc[Closer] = "unregister"
    /\ Goto(Closer, "exit")
    /\ UNCHANGED <<kind, cwin, swin, tracker, deliver, stamped, tx, endVars,
                   netVars, ghostVars>>

-------------------------------------------------------------------------------
(***************************************************************************)
(* The receiver thread: read a cell, dispatch it to the circuit.  Taking   *)
(* the cell and the first lock-protected block of its handler are one      *)
(* step; nothing another thread does lies between them.                    *)
(***************************************************************************)

Registered == pc[Closer] # "exit"

Reading ==
    /\ pc[Receiver] = "idle"
    /\ ~chanClosed
    /\ back # <<>>
    /\ back' = Tail(back)
    /\ UNCHANGED <<chanClosed, wire, relayVars>>

(* Channel._dispatch finds no sink for the circuit id.                       *)
DropCell ==
    /\ ~Registered
    /\ Reading
    /\ UNCHANGED <<clientVars, endVars, ghostVars>>

(* What verify() makes of a SENDME's digest: a body that does not parse      *)
(* never gets there.                                                         *)
Authentic(digest) == digest # Malformed /\ Matches(tracker, digest)
PopsExpected(digest) == digest # Malformed /\ tracker.expected # <<>>

(* _handle_circuit_sendme: verify() takes the oldest expectation, match or   *)
(* not; only a match goes on to the refill.                                  *)
ReceiveCircuitSendme ==
    /\ Registered
    /\ Reading
    /\ Head(back).cmd = "SENDME" /\ Head(back).stream = Nobody
    /\ LET digest == Head(back).digest
       IN  /\ tracker' = IF PopsExpected(digest) THEN AfterVerify(tracker)
                         ELSE tracker
           /\ IF Authentic(digest)
              THEN /\ Goto(Receiver, "refill")
                   /\ UNCHANGED <<endVars, lost>>
              ELSE /\ MarkDestroyed(Receiver, "SENDME")
                   /\ lost' = IF PopsExpected(digest)
                              THEN lost + CircuitIncrement ELSE lost
    /\ UNCHANGED <<kind, cwin, swin, deliver, stamped, tx, slost, boundVars>>

(* The waiters are woken, the units are not added.                           *)
RefillNothing ==
    /\ pc[Receiver] = "refill"
    /\ Goto(Receiver, "idle")
    /\ UNCHANGED <<kind, cwin, swin, tracker, deliver, stamped, tx, endVars,
                   netVars, ghostVars>>

RefillCircuit ==
    /\ pc[Receiver] = "refill"
    /\ cwin' = Refill(cwin, CircuitIncrement)
    /\ Goto(Receiver, "idle")
    /\ UNCHANGED <<kind, swin, tracker, deliver, stamped, tx, endVars,
                   netVars, ghostVars>>

(* The stream's window is refilled by the circuit's increment.               *)
ReceiveStreamSendmeWrongIncrement ==
    /\ Registered
    /\ Reading
    /\ Head(back).cmd = "SENDME" /\ Head(back).stream # Nobody
    /\ swin' = IF destroyed THEN swin
               ELSE [swin EXCEPT ![Head(back).stream] =
                         Refill(@, CircuitIncrement)]
    /\ UNCHANGED <<pc, kind, cwin, tracker, deliver, stamped, tx, endVars,
                   ghostVars>>

(* A stream SENDME carries no digest; _teardown has emptied _streams.        *)
ReceiveStreamSendme ==
    /\ Registered
    /\ Reading
    /\ Head(back).cmd = "SENDME" /\ Head(back).stream # Nobody
    /\ swin' = IF destroyed THEN swin
               ELSE [swin EXCEPT ![Head(back).stream] =
                         Refill(@, StreamIncrement)]
    /\ UNCHANGED <<pc, kind, cwin, tracker, deliver, stamped, tx, endVars,
                   ghostVars>>

(* DATA from the relay: at the boundary the receiver itself goes for         *)
(* _tx_lock to emit a circuit SENDME.                                        *)
ReceiveData ==
    /\ Registered
    /\ Reading
    /\ Head(back).cmd = "DATA"
    /\ deliver' = NoteReceived(deliver, CircuitIncrement)
    /\ IF SendmeDue(deliver, CircuitIncrement)
       THEN Goto(Receiver, "lock") ELSE UNCHANGED pc
    /\ UNCHANGED <<kind, cwin, swin, tracker, stamped, tx, endVars, ghostVars>>

ReceiveDestroy ==
    /\ Registered
    /\ Reading
    /\ Head(back).cmd = "DESTROY"
    /\ MarkDestroyed(Receiver, "relay")
    /\ UNCHANGED <<kind, cwin, swin, tracker, deliver, stamped, tx, ghostVars>>

(* The loop ends: _shutdown tells the circuit once, then the thread exits.   *)
ReceiverStops ==
    /\ pc[Receiver] = "idle"
    /\ chanClosed
    /\ IF destroyed
       THEN Goto(Receiver, "exit") /\ UNCHANGED endVars
       ELSE MarkDestroyed(Receiver, "channel")
    /\ UNCHANGED <<kind, cwin, swin, tracker, deliver, stamped, tx, netVars,
                   ghostVars>>

-------------------------------------------------------------------------------
(***************************************************************************)
(* The network's end: the channel's transport and the last relay.          *)
(***************************************************************************)

(* Channel.close, or a transport error.                                      *)
ChannelFails ==
    /\ MayFail
    /\ ~chanClosed
    /\ chanClosed' = TRUE
    /\ UNCHANGED <<clientVars, endVars, wire, back, relayVars, ghostVars>>

Sendme(stream, digest) ==
    [cmd |-> "SENDME", stream |-> stream, digest |-> digest]

(* A relay that keeps the protocol acknowledges every CircuitIncrement-th    *)
(* DATA cell of the circuit with that cell's digest, and every               *)
(* StreamIncrement-th of a stream with an empty SENDME.                      *)
CircuitAck == rdata + 1 = CircuitIncrement
StreamAck(s) == rstream[s] + 1 = StreamIncrement

RelayTakesData ==
    /\ HonestRelay
    /\ rup
    /\ wire # <<>> /\ Head(wire).kind = "DATA"
    /\ wire' = Tail(wire)
    /\ LET s == Head(wire).stream
       IN  /\ rseen' = rseen + 1
           /\ rdata' = IF CircuitAck THEN 0 ELSE rdata + 1
           /\ rstream' = [rstream EXCEPT ![s] =
                             IF StreamAck(s) THEN 0 ELSE @ + 1]
           /\ back' = back
                  \o (IF CircuitAck
                      THEN <<Sendme(Nobody, rseen + 1)>> ELSE <<>>)
                  \o (IF StreamAck(s) THEN <<Sendme(s, Malformed)>> ELSE <<>>)
    /\ UNCHANGED <<clientVars, endVars, chanClosed, rup, ghostVars>>

RelayTakesControl ==
    /\ HonestRelay
    /\ rup
    /\ wire # <<>> /\ Head(wire).kind # "DATA"
    /\ wire' = Tail(wire)
    /\ IF Head(wire).kind = "DESTROY"
       THEN rup' = FALSE /\ UNCHANGED rseen
       ELSE rseen' = rseen + 1 /\ UNCHANGED rup
    /\ UNCHANGED <<clientVars, endVars, chanClosed, back, rdata, rstream,
                   ghostVars>>

RelaySendsData(s) ==
    /\ rup
    /\ down < MaxDown
    /\ down' = down + 1
    /\ back' = Append(back, [cmd |-> "DATA", stream |-> s, digest |-> 0])
    /\ UNCHANGED <<clientVars, endVars, chanClosed, wire, relayVars, lost, slost, cells,
                   forged, timeouts>>

RelayDestroys ==
    /\ MayDestroy
    /\ rup
    /\ rup' = FALSE
    /\ back' = Append(back, [cmd |-> "DESTROY", stream |-> Nobody,
                             digest |-> 0])
    /\ UNCHANGED <<clientVars, endVars, chanClosed, wire, rseen, rdata, rstream,
                   ghostVars>>

(* A relay that does not: SENDMEs nobody asked for, with any digest.  It may *)
(* as well leave the client's cells where they are.                          *)
RelayMakesUpSendme(digest) ==
    /\ ~HonestRelay
    /\ rup
    /\ forged < MaxSendmes
    /\ forged' = forged + 1
    /\ \/ back' = Append(back, Sendme(Nobody, digest))
       \/ /\ digest = Malformed
          /\ \E s \in Streams : back' = Append(back, Sendme(s, digest))
    /\ UNCHANGED <<clientVars, endVars, chanClosed, wire, relayVars, lost, slost, cells,
                   down, timeouts>>

-------------------------------------------------------------------------------
UserStep(s) == SendData(s) \/ SendControl(s)

SendStep(s) ==
    \/ TakeStreamUnit(s) \/ SleepOnStream(s) \/ StreamSendFails(s)
    \/ TakeCircuitUnit(s) \/ SleepOnCircuit(s) \/ CircuitSendFails(s)

LockStep(t) ==
    \/ AcquireTx(t) \/ RefuseSend(t) \/ StampForward(t) \/ NoteDigest(t)
    \/ Transmit(t)

TeardownStep(t) ==
    \/ CloseCircuitWindow(t) \/ TeardownReturns(t)
    \/ \E s \in Streams : TellStream(t, s)

CloserStep ==
    \/ LockStep(Closer) \/ CloserTeardown \/ TeardownStep(Closer)
    \/ Unregister

ReceiverStep ==
    \/ DropCell \/ ReceiveCircuitSendme \/ RefillCircuit
    \/ ReceiveStreamSendme \/ ReceiveData \/ ReceiveDestroy \/ ReceiverStops
    \/ LockStep(Receiver) \/ TeardownStep(Receiver)

RelayAcks == RelayTakesData \/ RelayTakesControl

RelayMoves ==
    \/ \E s \in Streams : RelaySendsData(s)
    \/ RelayDestroys
    \/ \E digest \in 0 .. stamped + 1 : RelayMakesUpSendme(digest)

Next ==
    \/ \E s \in Streams : UserStep(s) \/ SendStep(s) \/ WaitTimesOut(s)
                            \/ LockStep(s)
    \/ CloseCircuit \/ CloserStep
    \/ ReceiverStep
    \/ ChannelFails
    \/ RelayAcks \/ RelayMoves

Spec == Init /\ [][Next]_vars

(* The scheduler runs every thread that can move; the relay keeps reading.   *)
(* Nothing says that an application sends, that a wait runs into its         *)
(* deadline, that anybody closes or that anything fails.                     *)
Fairness ==
    /\ \A s \in Streams : WF_vars(SendStep(s) \/ LockStep(s))
    /\ WF_vars(CloserStep)
    /\ WF_vars(ReceiverStep)
    /\ WF_vars(RelayAcks)

FairSpec == Spec /\ Fairness

-------------------------------------------------------------------------------
(***************************************************************************)
(* Properties.                                                             *)
(***************************************************************************)

(* The type of every variable.                                               *)
TypeOK ==
    /\ pc \in [Threads -> PCs]
    /\ kind \in [Threads -> Kinds]
    /\ cwin \in PackageWindow
    /\ swin \in [Streams -> PackageWindow]
    /\ tracker \in [sent : Nat, expected : Seq(Nat)]
    /\ deliver \in Nat
    /\ stamped \in Nat
    /\ tx \in Threads \cup {Nobody}
    /\ destroyed \in BOOLEAN
    /\ reason \in Reasons
    /\ unnotified \subseteq Streams
    /\ chanClosed \in BOOLEAN
    /\ wire \in Seq(WireCell)
    /\ back \in Seq(BackCell)
    /\ rseen \in Nat
    /\ rdata \in Nat
    /\ rstream \in [Streams -> Nat]
    /\ rup \in BOOLEAN
    /\ lost \in Nat
    /\ slost \in [Streams -> Nat]
    /\ cells \in [Streams -> Nat]
    /\ down \in Nat
    /\ forged \in Nat
    /\ timeouts \in Nat

(* Threads between taking a circuit unit and noting the digest of the cell.  *)
Holding == {s \in Streams : pc[s] \in {"lock", "stamp", "note"}
                            /\ kind[s] = "DATA"}

PendingRefill == IF pc[Receiver] = "refill" THEN CircuitIncrement ELSE 0

(* DATA cells stamped whose acknowledgement the tracker still waits for.     *)
Unacknowledged == tracker.sent + CircuitIncrement * Len(tracker.expected)

(* Every unit of the circuit's window is in one place: still free, in a      *)
(* thread's hands on the way to _tx_lock, with the tracker, on its way back, *)
(* or gone with a failed send.  The two counters are changed under different *)
(* locks (consume and note_sent, verify and refill), by different threads.   *)
UnitsConserved ==
    cwin.value + Cardinality(Holding) + Unacknowledged + PendingRefill + lost
        = CircuitInitial

(* What UnitsConserved needs to be inductive: a thread that takes or counts  *)
(* units is a stream's and has a DATA cell to send, and no other thread has. *)
KindsAgree ==
    \A t \in Threads :
        /\ pc[t] \in {"stream window", "stream wait", "circuit window",
                     "circuit wait", "note"} => kind[t] = "DATA"
        /\ kind[t] = "DATA" => t \in Streams

(* And the count since the last boundary never reaches the next one.         *)
CountBelowBoundary == tracker.sent < CircuitIncrement

(* "otherwise a relay could forge SENDMEs to inflate our send window"        *)
(* (_handle_circuit_sendme): whatever SENDMEs arrive, the free units and the *)
(* unacknowledged cells never exceed the initial window.                     *)
NoInflation == cwin.value + Unacknowledged <= CircuitInitial

(* A unit of the circuit's window is only ever lost with the circuit: an     *)
(* error between consume() and note_sent() on a live circuit would shrink    *)
(* the window of every stream for good.                                      *)
LiveCircuitKeepsUnits == lost > 0 => destroyed

(* _tx_lock covers stamping, noting and sending: cells of two threads never  *)
(* mix, so a relay that acknowledges what it received is never taken for a   *)
(* forger and its circuit never torn down for a bad SENDME.                  *)
HonestRelayAccepted == HonestRelay => reason # "SENDME"

(* "A blocking send waits on the package window before taking _tx_lock, so   *)
(* the receiver can always refill it": the lock belongs to the one thread    *)
(* that stamps, notes or sends a cell, and never to one that sleeps, fails   *)
(* or returns; so the receiver, which needs it for its own SENDMEs, is never *)
(* stuck behind a blocked sender.                                            *)
LockHolderMoves ==
    \A t \in Threads : tx = t <=> pc[t] \in {"stamp", "note", "transmit"}

Count(seq, Test(_)) == Cardinality({i \in DOMAIN seq : Test(seq[i])})

IsData(cell) == cell.kind = "DATA"
IsCircuitSendme(cell) == cell.cmd = "SENDME" /\ cell.stream = Nobody

(* What the window is for, seen from both ends.  A cell is in flight from    *)
(* the moment its digest is noted; the far end holds it until its SENDME has *)
(* refilled the window (or met a circuit that is gone).                      *)
InFlight ==
    Count(wire, IsData)
      + Cardinality({s \in Streams : pc[s] = "transmit" /\ kind[s] = "DATA"})

HeldByRelay ==
    rdata + CircuitIncrement * Count(back, IsCircuitSendme)
      + PendingRefill

Sliding == INSTANCE SlidingWindow
    WITH Credit <- CircuitInitial, Batch <- CircuitIncrement,
         flight <- InFlight, held <- HeldByRelay

(* Between an honest relay and this client over a channel that does not fail *)
(* the circuit's window, the tracker and the SENDMEs implement a sliding     *)
(* window: the relay never holds more than the initial window's cells, and   *)
(* the client only gets credit back for cells that arrived.                  *)
EndToEndWindow == Sliding!WindowSpec

(* The units of a stream's window while the stream lives: free, taken by its *)
(* thread, on the wire, counted by the relay, acknowledged, or gone with a   *)
(* send that failed after Stream.send had taken its unit.                    *)
StreamUnitsConserved ==
    HonestRelay /\ ~destroyed =>
        \A s \in Streams :
            LET Mine(cell) == cell.kind = "DATA" /\ cell.stream = s
                MyAck(cell) == cell.cmd = "SENDME" /\ cell.stream = s
                taken == \/ pc[s] \in {"circuit window", "circuit wait"}
                         \/ /\ pc[s] \in {"lock", "stamp", "note", "transmit"}
                            /\ kind[s] = "DATA"
            IN  swin[s].value + (IF taken THEN 1 ELSE 0) + Count(wire, Mine)
                  + rstream[s] + StreamIncrement * Count(back, MyAck)
                  + slost[s]
                = StreamInitial

(* Every send comes to an end, with the cell sent or with an error: as long  *)
(* as the relay acknowledges what it receives nobody needs a deadline.  Only *)
(* a stream that lost a unit, to the deadline of an earlier send that waited *)
(* for the circuit's window, may run dry for good.                           *)
EverySendEnds ==
    \A s \in Streams : (pc[s] # "idle") ~> (pc[s] = "idle" \/ slost[s] > 0)

(* A teardown by any thread releases every sender, whether it waits on its   *)
(* stream's window, on the circuit's or for the lock, and no sender blocks   *)
(* again.                                                                    *)
TeardownReleases ==
    destroyed ~> [](\A s \in Streams :
                        pc[s] \notin {"stream wait", "circuit wait"})

===============================================================================
