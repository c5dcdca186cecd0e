------------------------------ MODULE CircuitLife ------------------------------
(***************************************************************************)
(* The life of the circuits of one channel (src/torquests/_net/channel.py, *)
(* circuit.py, stream.py): build_circuit by one thread per circuit, opening *)
(* and closing streams by one thread per stream, close() by other client   *)
(* threads, the receiver thread that hands every reply to whoever waits    *)
(* for it, and the two ways all of it ends: _teardown of a circuit and     *)
(* _shutdown of the channel.  A circuit stands for its circuit id too.     *)
(***************************************************************************)
EXTENDS FiniteSets, Naturals, Sequences

CONSTANTS
    Circuits,       \* the circuits, each one the thread that builds it
    Streams,        \* the streams, each one the thread that uses it
    Closers,        \* threads that call Circuit.close()
    Of,             \* Of[t]: the circuit that stream or closer t works on
    Nobody,         \* no circuit, no stream
    PathLength,     \* hops of a circuit
    CloseWhenIdle,  \* the circuits are single-request ones
    RelayFaults,    \* relays may answer wrongly, refuse, or not at all
    MayFail,        \* the channel may fail or be closed
    MaxExtra,       \* bound: cells a relay sends unasked
    MaxTimeouts     \* bound: waits that run into their deadline

ASSUME CircuitsAssumption ==
    /\ Circuits \cap Streams = {} /\ Circuits \cap Closers = {}
    /\ Streams \cap Closers = {}
    /\ Nobody \notin Circuits \cup Streams \cup Closers
    /\ Of \in [Streams \cup Closers -> Circuits]

ASSUME LifeAssumption ==
    /\ PathLength \in Nat \ {0}
    /\ CloseWhenIdle \in BOOLEAN /\ RelayFaults \in BOOLEAN
    /\ MayFail \in BOOLEAN
    /\ MaxExtra \in Nat /\ MaxTimeouts \in Nat

Threads == Circuits \cup Streams \cup Closers

Circuit(t) == IF t \in Circuits THEN t ELSE Of[t]

VARIABLES
    closing,    \* Channel._closing
    sinks,      \* Channel._sinks
    snapshot,   \* sinks _shutdown has still to tell
    rx,         \* "loop", "last", "shutdown" or "exit": the receiver thread
    rc,         \* the circuit the receiver is tearing down
    pc,         \* pc[t]: where thread t stands
    hops,       \* hops[c]: length of Circuit.hops
    waiter,     \* circuits with a _build_waiter
    answer,     \* answer[c]: what the builder's waiter holds
    streams,    \* streams[c]: Circuit._streams
    destroyed,  \* circuits whose _destroyed is set
    tell,       \* tell[c]: builder and streams _teardown has still to tell
    connected,  \* streams whose _connected is set
    eof,        \* streams whose _eof is set
    failed,     \* streams whose _error is set
    wire,       \* cells on their way to the relays
    back,       \* cells on their way to the client
    extra,      \* bound: unasked cells sent
    timeouts    \* bound: waits that ran into their deadline

chanVars   == <<closing, sinks, snapshot, rx, rc>>
tableVars  == <<closing, sinks, snapshot, rc>>
circVars   == <<hops, waiter, answer, streams, destroyed, tell>>
streamVars == <<connected, eof, failed>>
netVars    == <<wire, back, extra>>
vars == <<closing, sinks, snapshot, rx, rc, pc, hops, waiter, answer, streams,
          destroyed, tell, connected, eof, failed, wire, back, extra, timeouts>>

Requests == {"BUILD", "BEGIN", "END", "DESTROY"}
Replies  == {"BUILT", "BAD", "CONNECTED", "END", "DESTROY"}

(* CREATE2 and EXTEND2, CREATED2 and EXTENDED2 differ in nothing that        *)
(* matters here; hop is the number of the hop they are about.                *)
Message(cmd, c, s, hop) == [cmd |-> cmd, circ |-> c, stream |-> s, hop |-> hop]

Pending == [cmd |-> "pending", hop |-> 0]
Error   == [cmd |-> "error", hop |-> 0]

Init ==
    /\ closing = FALSE
    /\ sinks = {}
    /\ snapshot = {}
    /\ rx = "loop"
    /\ rc = Nobody
    /\ pc = [t \in Threads |-> "new"]
    /\ hops = [c \in Circuits |-> 0]
    /\ waiter = {}
    /\ answer = [c \in Circuits |-> Pending]
    /\ streams = [c \in Circuits |-> {}]
    /\ destroyed = {}
    /\ tell = [c \in Circuits |-> {}]
    /\ connected = {}
    /\ eof = {}
    /\ failed = {}
    /\ wire = <<>>
    /\ back = <<>>
    /\ extra = 0
    /\ timeouts = 0

Goto(t, label) == pc' = [pc EXCEPT ![t] = label]

Send(message) == wire' = Append(wire, message)

-------------------------------------------------------------------------------
(***************************************************************************)
(* build_circuit.  Any error after register() leads to close().            *)
(***************************************************************************)

(* Channel.register; its error leaves build_circuit before the try block.    *)
Register(c) ==
    /\ pc[c] = "new"
    /\ IF closing
       THEN Goto(c, "ended") /\ UNCHANGED sinks
       ELSE Goto(c, "arm") /\ sinks' = sinks \cup {c}
    /\ UNCHANGED <<closing, snapshot, rx, rc, circVars, streamVars, netVars,
                   timeouts>>

(* _arm_build_waiter.                                                        *)
Arm(c) ==
    /\ pc[c] = "arm"
    /\ IF c \in destroyed
       THEN Goto(c, "close") /\ UNCHANGED <<waiter, answer>>
       ELSE /\ waiter' = waiter \cup {c}
            /\ answer' = [answer EXCEPT ![c] = Pending]
            /\ Goto(c, "send")
    /\ UNCHANGED <<chanVars, hops, streams, destroyed, tell, streamVars,
                   netVars, timeouts>>

(* CREATE2 straight through the channel, EXTEND2 through _send_relay, which  *)
(* alone looks at _destroyed.                                                *)
SendBuild(c) ==
    /\ pc[c] = "send"
    /\ IF closing \/ (hops[c] > 0 /\ c \in destroyed)
       THEN Goto(c, "close") /\ UNCHANGED wire
       ELSE /\ Send(Message("BUILD", c, Nobody, hops[c] + 1))
            /\ Goto(c, "await")
    /\ UNCHANGED <<chanVars, circVars, streamVars, back, extra, timeouts>>

(* The handshake completes, and the hop is appended.                         *)
AddHop(c) ==
    /\ pc[c] = "await"
    /\ answer[c].cmd = "BUILT"
    /\ hops' = [hops EXCEPT ![c] = @ + 1]
    /\ Goto(c, IF hops[c] + 1 = PathLength THEN "built" ELSE "arm")
    /\ UNCHANGED <<chanVars, waiter, answer, streams, destroyed, tell,
                   streamVars, netVars, timeouts>>

(* The error is raised and nothing is closed.                                *)
BuildFailsOpen(c) ==
    /\ pc[c] = "await"
    /\ answer[c].cmd \in {"BAD", "error"}
    /\ Goto(c, "ended")
    /\ UNCHANGED <<chanVars, circVars, streamVars, netVars, timeouts>>

BuildFails(c) ==
    /\ pc[c] = "await"
    /\ answer[c].cmd \in {"BAD", "error"}
    /\ Goto(c, "close")
    /\ UNCHANGED <<chanVars, circVars, streamVars, netVars, timeouts>>

(* A deadline, and another try for the same hop.                             *)
BuildTriesAgain(c) ==
    /\ pc[c] = "await"
    /\ answer[c] = Pending
    /\ timeouts < MaxTimeouts
    /\ timeouts' = timeouts + 1
    /\ Goto(c, "arm")
    /\ UNCHANGED <<chanVars, circVars, streamVars, netVars>>

(* The waiter stays behind in _build_waiter.                                 *)
BuildTimesOut(c) ==
    /\ pc[c] = "await"
    /\ answer[c] = Pending
    /\ timeouts < MaxTimeouts
    /\ timeouts' = timeouts + 1
    /\ Goto(c, "close")
    /\ UNCHANGED <<chanVars, circVars, streamVars, netVars>>

-------------------------------------------------------------------------------
(***************************************************************************)
(* A stream on a circuit that build_circuit has returned: _open, close.    *)
(***************************************************************************)

(* A stream is registered on a circuit that is gone.                         *)
RegisterStreamUnchecked(s) ==
    LET c == Of[s]
    IN  /\ pc[s] = "new"
        /\ hops[c] = PathLength
        /\ streams' = [streams EXCEPT ![c] = @ \cup {s}]
        /\ Goto(s, "begin")
        /\ UNCHANGED <<chanVars, hops, waiter, answer, destroyed, tell,
                       streamVars, netVars, timeouts>>

(* register_stream; the caller of _open closes a single-request circuit.     *)
RegisterStream(s) ==
    LET c == Of[s]
    IN  /\ pc[s] = "new"
        /\ hops[c] = PathLength
        /\ IF c \in destroyed
           THEN /\ Goto(s, IF CloseWhenIdle THEN "close" ELSE "ended")
                /\ UNCHANGED streams
           ELSE /\ streams' = [streams EXCEPT ![c] = @ \cup {s}]
                /\ Goto(s, "begin")
        /\ UNCHANGED <<chanVars, hops, waiter, answer, destroyed, tell,
                       streamVars, netVars, timeouts>>

CannotSend(s) == closing \/ Of[s] \in destroyed

SendBegin(s) ==
    /\ pc[s] = "begin"
    /\ IF CannotSend(s)
       THEN Goto(s, "unregister") /\ UNCHANGED wire
       ELSE Send(Message("BEGIN", Of[s], s, 0)) /\ Goto(s, "await")
    /\ UNCHANGED <<chanVars, circVars, streamVars, back, extra, timeouts>>

(* wait_for is over: an error, a refusal, or the stream is open.             *)
Opened(s) ==
    /\ pc[s] = "await"
    /\ s \in connected \cup eof \cup failed
    /\ Goto(s, IF s \in connected \ failed THEN "open" ELSE "unregister")
    /\ UNCHANGED <<chanVars, circVars, streamVars, netVars, timeouts>>

(* No END is sent for a stream that was not opened in time.                  *)
OpenTimesOut(s) ==
    /\ pc[s] = "await"
    /\ s \notin connected \cup eof \cup failed
    /\ timeouts < MaxTimeouts
    /\ timeouts' = timeouts + 1
    /\ Goto(s, "unregister")
    /\ UNCHANGED <<chanVars, circVars, streamVars, netVars>>

CloseStream(s) ==
    /\ pc[s] = "open"
    /\ eof' = eof \cup {s}
    /\ Goto(s, IF s \in eof THEN "unregister" ELSE "end")
    /\ UNCHANGED <<chanVars, circVars, connected, failed, netVars, timeouts>>

SendEnd(s) ==
    /\ pc[s] = "end"
    /\ IF CannotSend(s) THEN UNCHANGED wire
       ELSE Send(Message("END", Of[s], s, 0))
    /\ Goto(s, "unregister")
    /\ UNCHANGED <<chanVars, circVars, streamVars, back, extra, timeouts>>

(* The last stream of a single-request circuit never closes it.              *)
UnregisterStreamOnly(s) ==
    /\ pc[s] = "unregister"
    /\ streams' = [streams EXCEPT ![Of[s]] = @ \ {s}]
    /\ Goto(s, "ended")
    /\ UNCHANGED <<chanVars, hops, waiter, answer, destroyed, tell, streamVars,
                   netVars, timeouts>>

(* unregister_stream looks at the registry under the lock and closes the     *)
(* idle circuit without it.                                                  *)
UnregisterStream(s) ==
    LET left == streams[Of[s]] \ {s}
    IN  /\ pc[s] = "unregister"
        /\ streams' = [streams EXCEPT ![Of[s]] = left]
        /\ Goto(s, IF CloseWhenIdle /\ left = {} THEN "close" ELSE "ended")
        /\ UNCHANGED <<chanVars, hops, waiter, answer, destroyed, tell,
                       streamVars, netVars, timeouts>>

-------------------------------------------------------------------------------
(***************************************************************************)
(* Circuit.close and _teardown.                                            *)
(***************************************************************************)

(* _teardown without the build waiter.                                       *)
MarkDestroyedOnly(c) ==
    /\ destroyed' = destroyed \cup {c}
    /\ waiter' = waiter \ {c}
    /\ tell' = [tell EXCEPT ![c] = streams[c]]
    /\ streams' = [streams EXCEPT ![c] = {}]

(* The block under _registry_lock: both registries are emptied into a        *)
(* snapshot, which the caller tells afterwards.                              *)
MarkDestroyed(c) ==
    /\ destroyed' = destroyed \cup {c}
    /\ waiter' = waiter \ {c}
    /\ tell' = [tell EXCEPT ![c] = streams[c] \cup (waiter \cap {c})]
    /\ streams' = [streams EXCEPT ![c] = {}]

(* A client thread drops a circuit that is built.                            *)
ClientCloses(k) ==
    /\ pc[k] = "new"
    /\ hops[Of[k]] = PathLength
    /\ Goto(k, "close")
    /\ UNCHANGED <<chanVars, circVars, streamVars, netVars, timeouts>>

(* Two threads may both find the circuit alive: two DESTROYs.                *)
StartClose(t) ==
    /\ pc[t] = "close"
    /\ Goto(t, IF Circuit(t) \in destroyed THEN "teardown" ELSE "destroy")
    /\ UNCHANGED <<chanVars, circVars, streamVars, netVars, timeouts>>

SendDestroy(t) ==
    /\ pc[t] = "destroy"
    /\ IF closing THEN UNCHANGED wire
       ELSE Send(Message("DESTROY", Circuit(t), Nobody, 0))
    /\ Goto(t, "teardown")
    /\ UNCHANGED <<chanVars, circVars, streamVars, back, extra, timeouts>>

Teardown(t) ==
    /\ pc[t] = "teardown"
    /\ IF Circuit(t) \in destroyed
       THEN /\ Goto(t, "unsink")
            /\ UNCHANGED <<destroyed, waiter, tell, streams>>
       ELSE Goto(t, "tell") /\ MarkDestroyed(Circuit(t))
    /\ UNCHANGED <<chanVars, hops, answer, streamVars, netVars, timeouts>>

(* Whoever marked the circuit tells the builder and the streams.             *)
TellBuilder(c) ==
    /\ c \in tell[c]
    /\ tell' = [tell EXCEPT ![c] = @ \ {c}]
    /\ answer' = [answer EXCEPT ![c] = Error]
    /\ UNCHANGED <<chanVars, pc, hops, waiter, streams, destroyed, streamVars,
                   netVars, timeouts>>

TellStream(s) ==
    LET c == Of[s]
    IN  /\ s \in tell[c] /\ c \notin tell[c]
        /\ tell' = [tell EXCEPT ![c] = @ \ {s}]
        /\ failed' = failed \cup {s}
        /\ eof' = eof \cup {s}
        /\ UNCHANGED <<chanVars, pc, hops, waiter, answer, streams, destroyed,
                       connected, netVars, timeouts>>

TeardownReturns(t) ==
    /\ pc[t] = "tell"
    /\ tell[Circuit(t)] = {}
    /\ Goto(t, "unsink")
    /\ UNCHANGED <<chanVars, circVars, streamVars, netVars, timeouts>>

(* Channel.unregister.                                                       *)
Unregister(t) ==
    /\ pc[t] = "unsink"
    /\ sinks' = sinks \ {Circuit(t)}
    /\ Goto(t, "ended")
    /\ UNCHANGED <<closing, snapshot, rx, rc, circVars, streamVars, netVars,
                   timeouts>>

-------------------------------------------------------------------------------
(***************************************************************************)
(* The receiver thread and the end of the channel.                         *)
(***************************************************************************)

(* A _teardown the receiver itself runs keeps it until everybody is told.    *)
RxFree == \A c \in Circuits : rc = c => tell[c] = {}

(* One turn of _receive_loop; a cell read before close() is still handled.   *)
Dispatch(cmds) ==
    /\ rx = "loop" /\ RxFree
    /\ back # <<>> /\ Head(back).cmd \in cmds
    /\ back' = Tail(back)
    /\ rx' = IF closing THEN "last" ELSE "loop"

(* _teardown by the receiver; nothing if the circuit is already gone.        *)
ReceiverTearsDown(c) ==
    IF c \in destroyed
    THEN rc' = Nobody /\ UNCHANGED <<destroyed, waiter, tell, streams>>
    ELSE rc' = c /\ MarkDestroyed(c)

(* The circuit id is not registered (any more).                              *)
DropCell ==
    /\ Dispatch(Replies)
    /\ Head(back).circ \notin sinks
    /\ UNCHANGED <<tableVars, pc, circVars, streamVars, wire, extra, timeouts>>

(* _fire_build: CREATED2, or EXTENDED2 from whatever hop.  A reply nobody    *)
(* waits for is ignored.                                                     *)
FireBuild ==
    LET c == Head(back).circ
    IN  /\ Dispatch({"BUILT", "BAD"})
        /\ c \in sinks
        /\ waiter' = waiter \ {c}
        /\ answer' = IF c \in waiter
                     THEN [answer EXCEPT ![c] = [cmd |-> Head(back).cmd,
                                                 hop |-> Head(back).hop]]
                     ELSE answer
        /\ UNCHANGED <<tableVars, pc, hops, streams, destroyed, tell,
                       streamVars, wire, extra, timeouts>>

(* CONNECTED and END reach the stream that is registered under the id.       *)
HandleStreamCell ==
    LET c == Head(back).circ
        s == Head(back).stream
    IN  /\ Dispatch({"CONNECTED", "END"})
        /\ c \in sinks
        /\ IF s \notin streams[c] THEN UNCHANGED <<connected, eof>>
           ELSE IF Head(back).cmd = "CONNECTED"
           THEN connected' = connected \cup {s} /\ UNCHANGED eof
           ELSE eof' = eof \cup {s} /\ UNCHANGED connected
        /\ UNCHANGED <<tableVars, pc, circVars, failed, wire, extra, timeouts>>

(* DESTROY, or a relay cell no hop recognizes.  The circuit stays registered *)
(* with the channel until somebody closes it.                                *)
HandleDestroy ==
    /\ Dispatch({"DESTROY"})
    /\ Head(back).circ \in sinks
    /\ ReceiverTearsDown(Head(back).circ)
    /\ UNCHANGED <<closing, sinks, snapshot, pc, hops, answer, streamVars,
                   wire, extra, timeouts>>

(* Channel.close by a client thread.  The receiver may sleep in recv: closing *)
(* the socket need not wake it, and the join gives up after _JOIN_TIMEOUT.   *)
CloseChannel ==
    /\ MayFail
    /\ ~closing
    /\ closing' = TRUE
    /\ UNCHANGED <<sinks, snapshot, rx, rc, pc, circVars, streamVars, netVars,
                   timeouts>>

(* _shutdown leaves it to close() to set _closing.                           *)
ShutdownStaysOpen ==
    /\ rx \in {"loop", "last"} /\ RxFree
    /\ MayFail
    /\ rx' = "shutdown"
    /\ snapshot' = sinks
    /\ sinks' = {}
    /\ UNCHANGED <<closing, rc, pc, circVars, streamVars, netVars, timeouts>>

(* The loop ends, by an error of recv or because of close(): _shutdown.      *)
Shutdown ==
    /\ rx \in {"loop", "last"} /\ RxFree
    /\ MayFail
    /\ rx' = "shutdown"
    /\ snapshot' = sinks
    /\ sinks' = {}
    /\ closing' = TRUE
    /\ UNCHANGED <<rc, pc, circVars, streamVars, netVars, timeouts>>

TellSink(c) ==
    /\ rx = "shutdown" /\ RxFree
    /\ c \in snapshot
    /\ snapshot' = snapshot \ {c}
    /\ ReceiverTearsDown(c)
    /\ UNCHANGED <<closing, sinks, rx, pc, hops, answer, streamVars, netVars,
                   timeouts>>

ReceiverExits ==
    /\ rx = "shutdown" /\ RxFree
    /\ snapshot = {}
    /\ rx' = "exit"
    /\ UNCHANGED <<closing, sinks, snapshot, rc, pc, circVars, streamVars,
                   netVars, timeouts>>

-------------------------------------------------------------------------------
(***************************************************************************)
(* The relays.                                                             *)
(***************************************************************************)

Answer(cmd, m) == Append(back, Message(cmd, m.circ, m.stream, m.hop))

(* The request is answered, refused, answered wrongly or not at all.         *)
RelayAnswers ==
    /\ wire # <<>>
    /\ wire' = Tail(wire)
    /\ LET m == Head(wire)
       IN  \/ m.cmd = "BUILD" /\ back' = Answer("BUILT", m)
           \/ m.cmd = "BEGIN" /\ back' = Answer("CONNECTED", m)
           \/ m.cmd \in {"END", "DESTROY"} /\ UNCHANGED back
           \/ /\ RelayFaults /\ m.cmd = "BUILD"
              /\ \E cmd \in {"BAD", "DESTROY"} : back' = Answer(cmd, m)
           \/ RelayFaults /\ m.cmd = "BEGIN" /\ back' = Answer("END", m)
           \/ RelayFaults /\ UNCHANGED back
    /\ UNCHANGED <<chanVars, pc, circVars, streamVars, extra, timeouts>>

(* A reply that nobody asked for completes no handshake; and a DESTROY may   *)
(* come at any moment.                                                       *)
RelaySendsExtra ==
    /\ extra < MaxExtra
    /\ extra' = extra + 1
    /\ \E c \in sinks, cmd \in {"BAD", "DESTROY"} :
            back' = Append(back, Message(cmd, c, Nobody, 0))
    /\ UNCHANGED <<chanVars, pc, circVars, streamVars, wire, timeouts>>

-------------------------------------------------------------------------------
BuildStep(c) ==
    Register(c) \/ Arm(c) \/ SendBuild(c) \/ AddHop(c) \/ BuildFails(c)

StreamStep(s) ==
    \/ RegisterStream(s) \/ SendBegin(s) \/ Opened(s) \/ CloseStream(s)
    \/ SendEnd(s) \/ UnregisterStream(s)

CloseStep(t) ==
    \/ StartClose(t) \/ SendDestroy(t) \/ Teardown(t) \/ TeardownReturns(t)
    \/ Unregister(t)

TellStep == \/ \E c \in Circuits : TellBuilder(c)
            \/ \E s \in Streams : TellStream(s)

ReceiverStep ==
    \/ DropCell \/ FireBuild \/ HandleStreamCell \/ HandleDestroy
    \/ (closing /\ (rx = "last" \/ back # <<>>) /\ Shutdown)
    \/ (\E c \in Circuits : TellSink(c)) \/ ReceiverExits

Next ==
    \/ \E c \in Circuits : BuildStep(c) \/ BuildTimesOut(c)
    \/ \E s \in Streams : StreamStep(s) \/ OpenTimesOut(s)
    \/ \E k \in Closers : ClientCloses(k)
    \/ \E t \in Threads : CloseStep(t)
    \/ TellStep
    \/ ReceiverStep \/ Shutdown \/ CloseChannel
    \/ RelayAnswers \/ RelaySendsExtra

Spec == Init /\ [][Next]_vars

(* The scheduler runs every thread that can move, and whoever opens a stream *)
(* closes it.  No deadline, failure or DESTROY has to come, a faulty relay   *)
(* need not answer, and a closed channel ends when recv has something to     *)
(* return.                                                                   *)
Fairness ==
    /\ \A c \in Circuits : WF_vars(BuildStep(c) \/ CloseStep(c))
    /\ \A s \in Streams : WF_vars(StreamStep(s) \/ CloseStep(s))
    /\ \A k \in Closers : WF_vars(CloseStep(k))
    /\ WF_vars(TellStep)
    /\ WF_vars(ReceiverStep)
    /\ WF_vars(RelayAnswers)

FairSpec == Spec /\ Fairness

-------------------------------------------------------------------------------
(***************************************************************************)
(* Properties.                                                             *)
(***************************************************************************)

BuildPCs  == {"new", "arm", "send", "await", "built"}
StreamPCs == {"new", "begin", "await", "open", "end", "unregister"}
ClosePCs  == {"new", "close", "destroy", "teardown", "tell", "unsink", "ended"}

RequestCell == [cmd : Requests, circ : Circuits, stream : Streams \cup {Nobody},
                hop : 0 .. PathLength]
ReplyCell == [cmd : Replies, circ : Circuits, stream : Streams \cup {Nobody},
              hop : 0 .. PathLength]

(* The type of every variable.                                               *)
TypeOK ==
    /\ closing \in BOOLEAN
    /\ sinks \subseteq Circuits /\ snapshot \subseteq Circuits
    /\ rx \in {"loop", "last", "shutdown", "exit"}
    /\ rc \in Circuits \cup {Nobody}
    /\ pc \in [Threads -> BuildPCs \cup StreamPCs \cup ClosePCs]
    /\ hops \in [Circuits -> 0 .. PathLength]
    /\ waiter \subseteq Circuits
    /\ answer \in [Circuits -> [cmd : {"pending", "error", "BUILT", "BAD"},
                                hop : 0 .. PathLength]]
    /\ streams \in [Circuits -> SUBSET Streams]
    /\ destroyed \subseteq Circuits
    /\ tell \in [Circuits -> SUBSET (Circuits \cup Streams)]
    /\ connected \subseteq Streams /\ eof \subseteq Streams
    /\ failed \subseteq Streams
    /\ wire \in Seq(RequestCell) /\ back \in Seq(ReplyCell)
    /\ extra \in Nat /\ timeouts \in Nat

(* What a dead circuit owes to whom: nobody is in its registries, and every  *)
(* thread that still sleeps on one of its events is on the list of those to  *)
(* be woken.  Arming, registering and _teardown are three lock-protected     *)
(* blocks of different threads, the sends and waits lie between them.        *)
NobodyForgotten ==
    \A c \in destroyed :
        /\ c \notin waiter /\ streams[c] = {}
        /\ pc[c] \in {"send", "await"} /\ answer[c] = Pending => c \in tell[c]
        /\ \A s \in Streams :
            Of[s] = c /\ pc[s] \in {"begin", "await", "open"}
                => s \in tell[c] \cup failed

(* build_circuit either returns the circuit or leaves nothing of it behind:  *)
(* after an error at any step, in any order with a DESTROY, a late reply or  *)
(* the end of the channel, the channel does not know the circuit.            *)
FailedBuildLeavesNothing == \A c \in Circuits : pc[c] = "ended" => c \notin sinks

(* A reply completes the handshake it answers: "a reply that races back" is  *)
(* not missed, and one that comes after its deadline is not taken for the    *)
(* answer to a later request.                                                *)
RepliesMatch ==
    \A c \in Circuits :
        pc[c] = "await" /\ answer[c].cmd = "BUILT"
            => answer[c].hop = hops[c] + 1

(* Every wait on a circuit that dies ends without a deadline.                *)
WaitersReleased ==
    \A t \in Circuits \cup Streams :
        (Circuit(t) \in destroyed) ~> [](pc[t] # "await")

(* The end of the receiver thread is the end of each of the channel's        *)
(* circuits: a registration that races with _shutdown is refused or told,    *)
(* and no circuit is built that nobody reads the answers for.                *)
ShutdownReachesAll ==
    \A c \in Circuits :
        (rx \in {"shutdown", "exit"}) ~> [](c \in destroyed \/ pc[c] \in {"new", "ended"})

(* "Closing the channel also cascades teardown to its circuits": after       *)
(* close() every circuit of the channel is told, whatever its relays send.   *)
CloseReachesAll ==
    \A c \in Circuits :
        closing ~> [](c \in destroyed \/ pc[c] \in {"new", "ended"})

(* A single-request circuit "tears itself down once its last stream ends":   *)
(* when its streams are done it is gone and the channel has forgotten it,    *)
(* whether they opened or not and whoever else destroyed it meanwhile.       *)
IdleCircuitCloses ==
    \A c \in Circuits :
        LET mine == {s \in Streams : Of[s] = c}
        IN  CloseWhenIdle /\ mine # {} /\ (\A s \in mine : pc[s] = "ended")
                => c \notin sinks /\ c \in destroyed

===============================================================================
