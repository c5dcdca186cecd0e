---------------------------- MODULE StreamDelivery ----------------------------
(***************************************************************************)
(* Receiving on one open circuit (src/torquests/_net/circuit.py,           *)
(* stream.py): the relay at the far end packs a stream's data into cells   *)
(* while its two windows last, the channel's receiver thread counts and    *)
(* buffers them, and the thread that reads a stream credits the relay for  *)
(* what it has consumed.  The relay counts cells; the reader counts bytes. *)
(***************************************************************************)
EXTENDS Window, FiniteSets

CONSTANTS
    Streams,            \* the streams, each one the thread that reads it
    Nobody,             \* stream id 0
    CircuitInitial,     \* CIRCUIT_WINDOW_INITIAL
    CircuitIncrement,   \* CIRCUIT_WINDOW_INCREMENT
    StreamInitial,      \* STREAM_WINDOW_INITIAL
    StreamIncrement,    \* STREAM_WINDOW_INCREMENT
    PayloadLen,         \* RELAY_PAYLOAD_LEN
    CellSizes,          \* payload sizes the relay uses
    ReadSizes,          \* max_bytes the readers ask for
    Closable,           \* the streams a client thread may close
    MayDestroy,         \* either end may destroy the circuit
    MaxCells            \* bound: DATA cells the relay has for each stream

ASSUME StreamsAssumption == Nobody \notin Streams /\ IsFiniteSet(Streams)

ASSUME WindowAssumption ==
    /\ CircuitInitial \in Nat /\ StreamInitial \in Nat
    /\ CircuitIncrement \in Nat \ {0} /\ StreamIncrement \in Nat \ {0}

ASSUME SizeAssumption ==
    /\ PayloadLen \in Nat \ {0}
    /\ CellSizes \subseteq 1 .. PayloadLen
    /\ ReadSizes \subseteq Nat \ {0}
    /\ Closable \subseteq Streams /\ MayDestroy \in BOOLEAN
    /\ MaxCells \in Nat

(* Stream._sendme_after.                                                     *)
SendmeAfter == StreamIncrement * PayloadLen

VARIABLES
    rwin,       \* rwin[s]: the relay's package window of the stream
    rcwin,      \* the relay's package window of the circuit
    ropen,      \* streams the relay still sends on
    sent,       \* sent[s]: DATA cells the relay has sent
    down,       \* cells on their way to the client
    up,         \* cells on their way to the relay
    rx,         \* where the receiver thread stands
    cell,       \* the cell it is handling
    deliver,    \* Circuit._deliver
    registered, \* Circuit._streams
    destroyed,  \* Circuit._destroyed
    unnotified, \* streams of _teardown's snapshot not yet told
    buffer,     \* buffer[s]: bytes in Stream._buffer
    owed,       \* owed[s]: bytes sent and not yet returned by recv
    eof,        \* streams whose _eof is set
    failed,     \* streams whose _error is set
    consumed,   \* consumed[s]: Stream._consumed_since_sendme
    rpc,        \* rpc[s]: where the reader of s stands
    cpc         \* cpc[s]: how far Stream.close has come

relayVars  == <<rwin, rcwin, ropen, sent>>
rxVars     == <<rx, cell, deliver>>
circVars   == <<registered, destroyed, unnotified>>
readVars   == <<buffer, owed, consumed, rpc>>
flagVars   == <<eof, failed, cpc>>
streamVars == <<readVars, flagVars>>
vars == <<rwin, rcwin, ropen, sent, down, up, rx, cell, deliver,
          registered, destroyed, unnotified, buffer, owed, consumed, rpc,
          eof, failed, cpc>>

Cell == [cmd : {"DATA", "END", "SENDME", "DESTROY"},
         stream : Streams \cup {Nobody}, size : Nat]

Message(cmd, s, size) == [cmd |-> cmd, stream |-> s, size |-> size]

(* The receiver between two cells.                                           *)
NoCell == Message("END", Nobody, 0)
Done == rx' = "idle" /\ cell' = NoCell

(* Two connected streams on a built circuit.                                 *)
Init ==
    /\ rwin = [s \in Streams |-> StreamInitial]
    /\ rcwin = CircuitInitial
    /\ ropen = Streams
    /\ sent = [s \in Streams |-> 0]
    /\ owed = [s \in Streams |-> 0]
    /\ down = <<>>
    /\ up = <<>>
    /\ rx = "idle"
    /\ cell = NoCell
    /\ deliver = 0
    /\ registered = Streams
    /\ destroyed = FALSE
    /\ unnotified = {}
    /\ buffer = [s \in Streams |-> 0]
    /\ eof = {}
    /\ failed = {}
    /\ consumed = [s \in Streams |-> 0]
    /\ rpc = [s \in Streams |-> "recv"]
    /\ cpc = [s \in Streams |-> "open"]

-------------------------------------------------------------------------------
(***************************************************************************)
(* The relay.  It never sends beyond a window, and ends a stream when it   *)
(* has sent all it has for it.                                             *)
(***************************************************************************)

RelaySends(s, size) ==
    /\ s \in ropen
    /\ sent[s] < MaxCells
    /\ rwin[s] > 0 /\ rcwin > 0
    /\ rwin' = [rwin EXCEPT ![s] = @ - 1]
    /\ rcwin' = rcwin - 1
    /\ sent' = [sent EXCEPT ![s] = @ + 1]
    /\ owed' = [owed EXCEPT ![s] = @ + size]
    /\ down' = Append(down, Message("DATA", s, size))
    /\ UNCHANGED <<ropen, up, rxVars, circVars, buffer, consumed, rpc,
                   flagVars>>

RelayEnds(s) ==
    /\ s \in ropen
    /\ sent[s] = MaxCells
    /\ ropen' = ropen \ {s}
    /\ down' = Append(down, Message("END", s, 0))
    /\ UNCHANGED <<rwin, rcwin, sent, up, rxVars, circVars, streamVars>>

RelayTakes ==
    /\ up # <<>>
    /\ up' = Tail(up)
    /\ LET s == Head(up).stream
           credit == Head(up).cmd = "SENDME"
       IN  /\ rcwin' = IF credit /\ s = Nobody
                       THEN rcwin + CircuitIncrement ELSE rcwin
           /\ rwin' = IF credit /\ s # Nobody
                      THEN [rwin EXCEPT ![s] = @ + StreamIncrement] ELSE rwin
           /\ ropen' = IF credit THEN ropen ELSE ropen \ {s}
    /\ UNCHANGED <<sent, down, rxVars, circVars, streamVars>>

RelayDestroys ==
    /\ MayDestroy
    /\ ropen # {}
    /\ ropen' = {}
    /\ down' = Append(down, Message("DESTROY", Nobody, 0))
    /\ UNCHANGED <<rwin, rcwin, sent, up, rxVars, circVars, streamVars>>

-------------------------------------------------------------------------------
(***************************************************************************)
(* The receiver thread: _route_relay and Stream.handle_relay.              *)
(***************************************************************************)

(* _send_relay on a circuit that is gone raises, and both emitters suppress  *)
(* the error.                                                                *)
EmitSendme(s) ==
    up' = IF destroyed THEN up ELSE Append(up, Message("SENDME", s, 0))

Arrives(cmd) ==
    /\ rx = "idle"
    /\ down # <<>> /\ Head(down).cmd = cmd
    /\ down' = Tail(down)

(* The handler is looked up under _registry_lock and called without it: the  *)
(* stream may be closed or torn down in between.                             *)
LookUp(c) ==
    IF c.stream \in registered
    THEN rx' = "handle" /\ cell' = c
    ELSE Done

(* Cells of streams that are gone are not counted.                           *)
ReceiveDataIfKnown ==
    /\ Arrives("DATA")
    /\ IF Head(down).stream \in registered
       THEN /\ deliver' = NoteReceived(deliver, CircuitIncrement)
            /\ IF SendmeDue(deliver, CircuitIncrement)
               THEN rx' = "emit" /\ cell' = Head(down)
               ELSE LookUp(Head(down))
       ELSE Done /\ UNCHANGED deliver
    /\ UNCHANGED <<relayVars, up, circVars, streamVars>>

(* Every DATA cell counts, "even for a stream that has since closed".        *)
ReceiveData ==
    /\ Arrives("DATA")
    /\ deliver' = NoteReceived(deliver, CircuitIncrement)
    /\ IF SendmeDue(deliver, CircuitIncrement)
       THEN rx' = "emit" /\ cell' = Head(down)
       ELSE LookUp(Head(down))
    /\ UNCHANGED <<relayVars, up, circVars, streamVars>>

EmitCircuitSendme ==
    /\ rx = "emit"
    /\ EmitSendme(Nobody)
    /\ rx' = "look up"
    /\ UNCHANGED <<relayVars, down, cell, deliver, circVars, streamVars>>

RouteCell ==
    /\ rx = "look up"
    /\ LookUp(cell)
    /\ UNCHANGED <<relayVars, down, up, deliver, circVars, streamVars>>

ReceiveEnd ==
    /\ Arrives("END")
    /\ LookUp(Head(down))
    /\ UNCHANGED <<relayVars, up, deliver, circVars, streamVars>>

(* The relay is credited for what has arrived, read or not.                  *)
HandleDataCredited ==
    /\ rx = "handle" /\ cell.cmd = "DATA"
    /\ buffer' = [buffer EXCEPT ![cell.stream] = @ + cell.size]
    /\ up' = IF buffer[cell.stream] + cell.size >= SendmeAfter /\ ~destroyed
             THEN Append(up, Message("SENDME", cell.stream, 0)) ELSE up
    /\ Done
    /\ UNCHANGED <<relayVars, down, deliver, circVars, owed, consumed, rpc,
                   flagVars>>

HandleData ==
    /\ rx = "handle" /\ cell.cmd = "DATA"
    /\ buffer' = [buffer EXCEPT ![cell.stream] = @ + cell.size]
    /\ Done
    /\ UNCHANGED <<relayVars, down, up, deliver, circVars, owed, consumed, rpc,
                   flagVars>>

HandleEnd ==
    /\ rx = "handle" /\ cell.cmd = "END"
    /\ eof' = eof \cup {cell.stream}
    /\ Done
    /\ UNCHANGED <<relayVars, down, up, deliver, circVars, readVars, failed, cpc>>

(* The block of _teardown under _registry_lock.                              *)
MarkDestroyed ==
    /\ destroyed' = TRUE
    /\ registered' = {}
    /\ unnotified' = registered

ReceiveDestroy ==
    /\ Arrives("DESTROY")
    /\ IF destroyed
       THEN UNCHANGED <<rx, circVars>>
       ELSE MarkDestroyed /\ rx' = "tell"
    /\ UNCHANGED <<relayVars, up, cell, deliver, streamVars>>

TeardownReturns ==
    /\ rx = "tell"
    /\ unnotified = {}
    /\ rx' = "idle"
    /\ UNCHANGED <<relayVars, down, up, cell, deliver, circVars, streamVars>>

(* Circuit.close by a client thread.                                         *)
CloseCircuit ==
    /\ MayDestroy
    /\ ~destroyed
    /\ MarkDestroyed
    /\ UNCHANGED <<relayVars, down, up, rxVars, streamVars>>

(* The stream only learns that nothing more will come.                       *)
TellStreamEof(s) ==
    /\ s \in unnotified
    /\ unnotified' = unnotified \ {s}
    /\ eof' = eof \cup {s}
    /\ UNCHANGED <<relayVars, down, up, rxVars, registered, destroyed, readVars,
                   failed, cpc>>

(* on_circuit_closed, by whichever thread tears the circuit down.            *)
TellStream(s) ==
    /\ s \in unnotified
    /\ unnotified' = unnotified \ {s}
    /\ failed' = failed \cup {s}
    /\ eof' = eof \cup {s}
    /\ UNCHANGED <<relayVars, down, up, rxVars, registered, destroyed, readVars,
                   cpc>>

-------------------------------------------------------------------------------
(***************************************************************************)
(* The thread that reads stream s: recv in a loop.                         *)
(***************************************************************************)

Due(count) == IF count >= SendmeAfter THEN "credit" ELSE "recv"

RecvData(s, max) ==
    /\ rpc[s] = "recv"
    /\ buffer[s] > 0
    /\ LET n == IF max < buffer[s] THEN max ELSE buffer[s]
       IN  /\ buffer' = [buffer EXCEPT ![s] = @ - n]
           /\ owed' = [owed EXCEPT ![s] = @ - n]
           /\ consumed' = [consumed EXCEPT ![s] = @ + n]
           /\ rpc' = [rpc EXCEPT ![s] = Due(consumed[s] + n)]
    /\ UNCHANGED <<relayVars, down, up, rxVars, circVars, flagVars>>

(* A SENDME takes too little off the count.                                  *)
CreditPeerTooSoon(s) ==
    /\ rpc[s] = "credit"
    /\ consumed' = [consumed EXCEPT ![s] = @ - PayloadLen]
    /\ rpc' = [rpc EXCEPT ![s] = Due(consumed[s] - PayloadLen)]
    /\ EmitSendme(s)
    /\ UNCHANGED <<relayVars, down, rxVars, circVars, buffer, owed, flagVars>>

(* One turn of the loop that follows a read, outside the stream's lock.      *)
CreditPeer(s) ==
    /\ rpc[s] = "credit"
    /\ consumed' = [consumed EXCEPT ![s] = @ - SendmeAfter]
    /\ rpc' = [rpc EXCEPT ![s] = Due(consumed[s] - SendmeAfter)]
    /\ EmitSendme(s)
    /\ UNCHANGED <<relayVars, down, rxVars, circVars, buffer, owed, flagVars>>

RecvRaises(s) ==
    /\ rpc[s] = "recv"
    /\ buffer[s] = 0
    /\ s \in failed
    /\ rpc' = [rpc EXCEPT ![s] = "error"]
    /\ UNCHANGED <<relayVars, down, up, rxVars, circVars, buffer, owed,
                   consumed, flagVars>>

RecvEof(s) ==
    /\ rpc[s] = "recv"
    /\ buffer[s] = 0
    /\ s \in eof \ failed
    /\ rpc' = [rpc EXCEPT ![s] = "eof"]
    /\ UNCHANGED <<relayVars, down, up, rxVars, circVars, buffer, owed,
                   consumed, flagVars>>

-------------------------------------------------------------------------------
(***************************************************************************)
(* Stream.close, by any client thread.                                     *)
(***************************************************************************)

(* The flag a blocked reader waits for is not set.                           *)
CloseStreamQuietly(s) ==
    /\ s \in Closable
    /\ cpc[s] = "open"
    /\ cpc' = [cpc EXCEPT ![s] = IF s \in eof THEN "unregister" ELSE "end"]
    /\ UNCHANGED <<relayVars, down, up, rxVars, circVars, readVars, eof,
                   failed>>

CloseStream(s) ==
    /\ s \in Closable
    /\ cpc[s] = "open"
    /\ eof' = eof \cup {s}
    /\ cpc' = [cpc EXCEPT ![s] = IF s \in eof THEN "unregister" ELSE "end"]
    /\ UNCHANGED <<relayVars, down, up, rxVars, circVars, readVars, failed>>

SendEnd(s) ==
    /\ cpc[s] = "end"
    /\ up' = IF destroyed THEN up ELSE Append(up, Message("END", s, 0))
    /\ cpc' = [cpc EXCEPT ![s] = "unregister"]
    /\ UNCHANGED <<relayVars, down, rxVars, circVars, readVars, eof, failed>>

UnregisterStream(s) ==
    /\ cpc[s] = "unregister"
    /\ registered' = registered \ {s}
    /\ cpc' = [cpc EXCEPT ![s] = "closed"]
    /\ UNCHANGED <<relayVars, down, up, rxVars, destroyed, unnotified, readVars,
                   eof, failed>>

-------------------------------------------------------------------------------
RelayStep(s) == (\E size \in CellSizes : RelaySends(s, size)) \/ RelayEnds(s)

ReceiverStep ==
    \/ ReceiveData \/ EmitCircuitSendme \/ RouteCell \/ ReceiveEnd
    \/ HandleData \/ HandleEnd \/ ReceiveDestroy \/ TeardownReturns

ReadStep(s) ==
    \/ \E max \in ReadSizes : RecvData(s, max)
    \/ CreditPeer(s) \/ RecvRaises(s) \/ RecvEof(s)

CloseStep(s) == SendEnd(s) \/ UnregisterStream(s)

Next ==
    \/ RelayTakes \/ RelayDestroys
    \/ ReceiverStep
    \/ CloseCircuit
    \/ \E s \in Streams : \/ RelayStep(s) \/ TellStream(s) \/ ReadStep(s)
                          \/ CloseStream(s) \/ CloseStep(s)

Spec == Init /\ [][Next]_vars

(* Every thread that can move does, the relay sends what its windows allow,  *)
(* and every stream has a reader that keeps reading.  Nobody has to close.   *)
Fairness ==
    /\ WF_vars(ReceiverStep)
    /\ WF_vars(RelayTakes)
    /\ \A s \in Streams :
        /\ WF_vars(RelayStep(s))
        /\ WF_vars(TellStream(s))
        /\ WF_vars(ReadStep(s))
        /\ WF_vars(CloseStep(s))

FairSpec == Spec /\ Fairness

-------------------------------------------------------------------------------
(***************************************************************************)
(* Properties.                                                             *)
(***************************************************************************)

(* The type of every variable.                                               *)
TypeOK ==
    /\ rwin \in [Streams -> Nat]
    /\ rcwin \in Nat
    /\ ropen \subseteq Streams
    /\ sent \in [Streams -> Nat]
    /\ owed \in [Streams -> Nat]
    /\ down \in Seq(Cell)
    /\ up \in Seq(Cell)
    /\ rx \in {"idle", "emit", "look up", "handle", "tell"}
    /\ cell \in Cell
    /\ deliver \in Nat
    /\ registered \subseteq Streams
    /\ destroyed \in BOOLEAN
    /\ unnotified \subseteq Streams
    /\ buffer \in [Streams -> Nat]
    /\ eof \subseteq Streams
    /\ failed \subseteq Streams
    /\ consumed \in [Streams -> Nat]
    /\ rpc \in [Streams -> {"recv", "credit", "eof", "error"}]
    /\ cpc \in [Streams -> {"open", "end", "unregister", "closed"}]

Cells(queue, cmd, s) ==
    Cardinality({i \in DOMAIN queue : queue[i].cmd = cmd /\ queue[i].stream = s})

(* A relay closes a circuit whose SENDMEs push a stream's window over its    *)
(* initial value.  Counting bytes, the reader never sends one too early,     *)
(* however the relay cut the data into cells and recv cut it into reads.     *)
NoEarlySendme ==
    \A s \in Streams :
        rwin[s] + Cells(down, "DATA", s)
          + StreamIncrement * Cells(up, "SENDME", s)
        <= StreamInitial

(* Emitting SENDMEs on the consumer thread "keeps the inbound buffer         *)
(* bounded": a reader that stops reading costs at most one stream window of  *)
(* full cells, whatever the other streams do.                                *)
BufferBounded == \A s \in Streams : buffer[s] <= StreamInitial * PayloadLen

(* recv returns b"" for the end of the data and for nothing else: as long as *)
(* the client has not closed the stream itself, a reader that saw EOF has    *)
(* read every byte the relay sent, even if the circuit was torn down while   *)
(* data was on its way.                                                      *)
EofMeansComplete ==
    \A s \in Streams :
        rpc[s] = "eof" /\ cpc[s] = "open" => sent[s] = MaxCells /\ owed[s] = 0

(* A reader that keeps reading comes to the end of its stream.  The credit   *)
(* it gives the relay "for consumed data" keeps the relay sending.           *)
EveryReadEnds == \A s \in Streams : <>(rpc[s] \in {"eof", "error"})

(* close() wakes "any reader blocked in recv() so it returns EOF rather than *)
(* hanging until its own timeout".                                           *)
CloseEndsRead ==
    \A s \in Streams : (cpc[s] # "open") ~> (rpc[s] \in {"eof", "error"})

===============================================================================
