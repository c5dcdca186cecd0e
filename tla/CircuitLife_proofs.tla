--------------------------- MODULE CircuitLife_proofs ---------------------------
(* Proofs about CircuitLife, for any circuits, streams and closers, any      *)
(* length of the path, any number of unasked cells and missed deadlines.     *)
EXTENDS CircuitLife, SequenceTheorems, TLAPS

-------------------------------------------------------------------------------
(* The invariant                                                             *)

Gone    == {"close", "destroy", "teardown", "tell", "unsink", "ended"}
Waiting == {"begin", "await", "open"}
Using   == Waiting \cup {"end", "unregister"}

(* A circuit is registered once, and no longer than its builder lives if the *)
(* build fails; the builder takes no answer for one to a later request.      *)
BuilderInv(c) ==
    /\ pc[c] = "new" => c \notin sinks /\ hops[c] = 0
    /\ pc[c] = "ended" => c \notin sinks
    /\ pc[c] \in {"arm", "send", "await"} => hops[c] < PathLength
    /\ pc[c] = "send" => answer[c].cmd # "BUILT"
    /\ pc[c] = "await" /\ answer[c].cmd = "BUILT" => answer[c].hop = hops[c] + 1

About(m, cmd, c) == m.cmd = cmd /\ m.circ = c
Absent(q, cmd, c) == \A i \in DOMAIN q : ~About(q[i], cmd, c)
OneAtMost(q, cmd, c, hop) ==
    \A i \in DOMAIN q : About(q[i], cmd, c) =>
        /\ q[i].hop = hop
        /\ \A j \in DOMAIN q : About(q[j], cmd, c) => j = i

(* As long as the builder goes on, a request and its answer are under way    *)
(* only while it waits for them, and only one of the two.                    *)
RequestsInv(c) ==
    \/ pc[c] \in Gone
    \/ Absent(wire, "BUILD", c) /\ Absent(back, "BUILT", c)
    \/ /\ pc[c] = "await" /\ answer[c].cmd # "BUILT"
       /\ OneAtMost(wire, "BUILD", c, hops[c] + 1)
       /\ OneAtMost(back, "BUILT", c, hops[c] + 1)
       /\ Absent(wire, "BUILD", c) \/ Absent(back, "BUILT", c)

(* Whoever sleeps on an event of a circuit is registered with it while it is *)
(* alive, and on the list of those to be told when it is not.                *)
AsleepInv(c) ==
    IF c \in destroyed
    THEN /\ c \notin waiter /\ streams[c] = {}
         /\ pc[c] \in {"send", "await"} /\ answer[c] = Pending => c \in tell[c]
    ELSE pc[c] \in {"send", "await"} /\ answer[c] = Pending => c \in waiter

StreamInv(s) ==
    /\ pc[s] # "new" => hops[Of[s]] = PathLength
    /\ pc[s] \in Waiting => IF Of[s] \in destroyed
                            THEN s \in tell[Of[s]] \cup failed
                            ELSE s \in streams[Of[s]]

RegistryInv(c) == \A s \in streams[c] : Of[s] = c /\ pc[s] \in Using

CloserInv(t) == pc[t] \in {"tell", "unsink"} => Circuit(t) \in destroyed

(* When one stream of a single-request circuit is done, either another still *)
(* has to come to its end, or the circuit is gone.                           *)
IdleInv(c) ==
    CloseWhenIdle /\ (\E s \in Streams : Of[s] = c /\ pc[s] = "ended") =>
        \/ c \notin sinks /\ c \in destroyed
        \/ \E s \in Streams : Of[s] = c /\ pc[s] \notin {"new", "ended"}

LifeInv ==
    /\ TypeOK
    /\ \A c \in Circuits : /\ BuilderInv(c) /\ RequestsInv(c) /\ AsleepInv(c)
                           /\ RegistryInv(c) /\ IdleInv(c)
    /\ \A s \in Streams : StreamInv(s)
    /\ \A t \in Threads : CloserInv(t)

-------------------------------------------------------------------------------
(* Types                                                                     *)

ChanTyped ==
    /\ closing \in BOOLEAN /\ sinks \subseteq Circuits /\ snapshot \subseteq Circuits
    /\ rx \in {"loop", "last", "shutdown", "exit"} /\ rc \in Circuits \cup {Nobody}

PCs == BuildPCs \cup StreamPCs \cup ClosePCs
ThreadsTyped == pc \in [Threads -> PCs] /\ extra \in Nat /\ timeouts \in Nat

CircTyped ==
    /\ hops \in [Circuits -> 0 .. PathLength] /\ waiter \subseteq Circuits
    /\ answer \in [Circuits -> [cmd : {"pending", "error", "BUILT", "BAD"},
                                hop : 0 .. PathLength]]
    /\ streams \in [Circuits -> SUBSET Streams] /\ destroyed \subseteq Circuits
    /\ tell \in [Circuits -> SUBSET (Circuits \cup Streams)]

StreamsTyped == connected \subseteq Streams /\ eof \subseteq Streams /\ failed \subseteq Streams
NetTyped == wire \in Seq(RequestCell) /\ back \in Seq(ReplyCell)

LEMMA TypeParts ==
    TypeOK <=> ChanTyped /\ ThreadsTyped /\ CircTyped /\ StreamsTyped /\ NetTyped
BY Zenon DEF TypeOK, ChanTyped, ThreadsTyped, PCs, CircTyped, StreamsTyped, NetTyped

LEMMA TypePartsNext ==
    ASSUME ChanTyped', ThreadsTyped', CircTyped', StreamsTyped', NetTyped' PROVE TypeOK'
BY Zenon DEF TypeOK, ChanTyped, ThreadsTyped, PCs, CircTyped, StreamsTyped, NetTyped

LEMMA ThreadsAre ==
    /\ \A c \in Circuits : c \in Threads /\ c \notin Streams /\ c \notin Closers
    /\ \A s \in Streams : s \in Threads /\ s \notin Circuits /\ s \notin Closers
                          /\ Of[s] \in Circuits /\ Circuit(s) = Of[s]
    /\ \A k \in Closers : k \in Threads /\ k \notin Circuits /\ Of[k] \in Circuits
                          /\ Circuit(k) = Of[k]
    /\ \A c \in Circuits : Circuit(c) = c
    /\ \A t \in Threads : Circuit(t) \in Circuits
    /\ Nobody \notin Circuits
<1>1. \A c \in Circuits : c \in Threads /\ c \notin Streams /\ c \notin Closers
  BY CircuitsAssumption DEF Threads
<1>2. \A s \in Streams : s \in Threads /\ s \notin Circuits /\ s \notin Closers /\ Of[s] \in Circuits
  BY CircuitsAssumption DEF Threads
<1>3. \A k \in Closers : k \in Threads /\ k \notin Circuits /\ Of[k] \in Circuits
  BY CircuitsAssumption DEF Threads
<1>4. Nobody \notin Circuits
  BY CircuitsAssumption
<1>. QED BY <1>1, <1>2, <1>3, <1>4, Zenon DEF Circuit, Threads

(* The labels the program counters take.                                     *)
LEMMA LabelsAre ==
    {"new", "arm", "send", "await", "built", "begin", "open", "end", "unregister",
     "close", "destroy", "teardown", "tell", "unsink", "ended"} = PCs
BY DEF PCs, BuildPCs, StreamPCs, ClosePCs

LEMMA MessageType ==
    ASSUME NEW c \in Circuits, NEW s \in Streams \cup {Nobody}, NEW hop \in 0 .. PathLength
    PROVE  /\ \A cmd \in Requests : Message(cmd, c, s, hop) \in RequestCell
           /\ \A cmd \in Replies : Message(cmd, c, s, hop) \in ReplyCell
           /\ \A cmd : /\ Message(cmd, c, s, hop).cmd = cmd /\ Message(cmd, c, s, hop).circ = c
                       /\ Message(cmd, c, s, hop).stream = s /\ Message(cmd, c, s, hop).hop = hop
BY DEF Message, RequestCell, ReplyCell

LEMMA BuildKeepsTypes ==
    ASSUME LifeInv, NEW c \in Circuits, BuildStep(c) \/ BuildTimesOut(c)
    PROVE  TypeOK'
<1>0. /\ ChanTyped /\ ThreadsTyped /\ CircTyped /\ StreamsTyped /\ NetTyped
      /\ c \in Threads /\ hops[c] \in 0..PathLength /\ PathLength \in Nat \ {0}
      /\ pc[c] \in {"arm", "send", "await"} => hops[c] < PathLength
  BY TypeParts, ThreadsAre, LifeAssumption DEF LifeInv, BuilderInv, CircTyped
<1>. USE DEF BuildStep, Register, Arm, SendBuild, AddHop, BuildFails, BuildTimesOut, Goto,
             chanVars, tableVars, circVars, streamVars, netVars
<1>1. ThreadsTyped'
  BY <1>0, LabelsAre DEF ThreadsTyped
<1>2. ChanTyped' /\ StreamsTyped'
  BY <1>0 DEF ChanTyped, StreamsTyped
<1>3. CircTyped'
  <2>1. CASE Arm(c)
    BY <1>0, <2>1 DEF CircTyped, Pending
  <2>2. CASE AddHop(c)
    BY <1>0, <2>2 DEF CircTyped
  <2>3. CASE UNCHANGED circVars
    BY <1>0, <2>3 DEF CircTyped
  <2>. QED BY <2>1, <2>2, <2>3
<1>4. NetTyped'
  <2>1. CASE SendBuild(c)
    <3>1. pc[c] = "send" /\ hops[c] + 1 \in 0..PathLength /\ back' = back
      BY <1>0, <2>1
    <3>2. Message("BUILD", c, Nobody, hops[c] + 1) \in RequestCell
      BY <3>1, MessageType, Zenon DEF Requests
    <3>3. wire' = wire \/ wire' = Append(wire, Message("BUILD", c, Nobody, hops[c] + 1))
      BY <2>1 DEF Send
    <3>4. wire \in Seq(RequestCell) /\ back \in Seq(ReplyCell)
      BY <1>0 DEF NetTyped
    <3>5. Append(wire, Message("BUILD", c, Nobody, hops[c] + 1)) \in Seq(RequestCell)
      BY <3>2, <3>4, AppendProperties, Zenon
    <3>. QED BY <3>1, <3>3, <3>4, <3>5 DEF NetTyped
  <2>2. CASE UNCHANGED netVars
    BY <1>0, <2>2 DEF NetTyped
  <2>. QED BY <2>1, <2>2
<1>. QED BY <1>1, <1>2, <1>3, <1>4, TypePartsNext

LEMMA StreamKeepsTypes ==
    ASSUME LifeInv, NEW s \in Streams, StreamStep(s) \/ OpenTimesOut(s)
    PROVE  TypeOK'
<1>0. /\ ChanTyped /\ ThreadsTyped /\ CircTyped /\ StreamsTyped /\ NetTyped
      /\ s \in Threads /\ Of[s] \in Circuits /\ 0 \in 0..PathLength
  BY TypeParts, ThreadsAre, LifeAssumption DEF LifeInv
<1>. USE DEF StreamStep, RegisterStream, SendBegin, Opened, OpenTimesOut, CloseStream, SendEnd,
             UnregisterStream, Goto, chanVars, tableVars, circVars, streamVars, netVars
<1>1. ThreadsTyped'
  BY <1>0, LabelsAre DEF ThreadsTyped
<1>2. ChanTyped' /\ StreamsTyped'
  BY <1>0 DEF ChanTyped, StreamsTyped
<1>3. CircTyped'
  <2>1. CASE RegisterStream(s)
    BY <1>0, <2>1 DEF CircTyped
  <2>2. CASE UnregisterStream(s)
    BY <1>0, <2>2 DEF CircTyped
  <2>3. CASE UNCHANGED circVars
    BY <1>0, <2>3 DEF CircTyped
  <2>. QED BY <2>1, <2>2, <2>3
<1>4. NetTyped'
  <2>1. ASSUME NEW cmd \in {"BEGIN", "END"} PROVE Message(cmd, Of[s], s, 0) \in RequestCell
    BY <1>0, MessageType, Zenon DEF Requests
  <2>2. /\ back' = back
        /\ wire' = wire \/ \E cmd \in {"BEGIN", "END"} : wire' = Append(wire, Message(cmd, Of[s], s, 0))
    BY DEF Send
  <2>3. wire \in Seq(RequestCell) /\ back \in Seq(ReplyCell)
    BY <1>0 DEF NetTyped
  <2>4. \A cmd \in {"BEGIN", "END"} : Append(wire, Message(cmd, Of[s], s, 0)) \in Seq(RequestCell)
    BY <2>1, <2>3, AppendProperties
  <2>. QED BY <2>2, <2>3, <2>4 DEF NetTyped
<1>. QED BY <1>1, <1>2, <1>3, <1>4, TypePartsNext

LEMMA MarkingKeepsTypes ==
    ASSUME CircTyped, NEW c \in Circuits, MarkDestroyed(c), hops' = hops, answer' = answer
    PROVE  CircTyped'
BY DEF CircTyped, MarkDestroyed

LEMMA CloseKeepsTypes ==
    ASSUME LifeInv, NEW t \in Threads, CloseStep(t) \/ (t \in Closers /\ ClientCloses(t))
    PROVE  TypeOK'
<1>0. /\ ChanTyped /\ ThreadsTyped /\ CircTyped /\ StreamsTyped /\ NetTyped
      /\ Circuit(t) \in Circuits /\ 0 \in 0..PathLength
  BY TypeParts, ThreadsAre, LifeAssumption DEF LifeInv
<1>. USE DEF CloseStep, ClientCloses, StartClose, SendDestroy, Teardown, TeardownReturns,
             Unregister, Goto, chanVars, tableVars, circVars, streamVars, netVars
<1>1. ThreadsTyped'
  BY <1>0, LabelsAre DEF ThreadsTyped
<1>2. ChanTyped' /\ StreamsTyped'
  BY <1>0 DEF ChanTyped, StreamsTyped
<1>3. CircTyped'
  <2>1. CASE Teardown(t)
    BY <1>0, <2>1, MarkingKeepsTypes DEF CircTyped
  <2>2. CASE UNCHANGED circVars
    BY <1>0, <2>2 DEF CircTyped
  <2>. QED BY <2>1, <2>2
<1>4. NetTyped'
  <2>1. Message("DESTROY", Circuit(t), Nobody, 0) \in RequestCell
    BY <1>0, MessageType, Zenon DEF Requests
  <2>2. /\ back' = back
        /\ wire' = wire \/ wire' = Append(wire, Message("DESTROY", Circuit(t), Nobody, 0))
    BY DEF Send
  <2>3. wire \in Seq(RequestCell) /\ back \in Seq(ReplyCell)
    BY <1>0 DEF NetTyped
  <2>4. Append(wire, Message("DESTROY", Circuit(t), Nobody, 0)) \in Seq(RequestCell)
    BY <2>1, <2>3, AppendProperties
  <2>. QED BY <2>2, <2>3, <2>4 DEF NetTyped
<1>. QED BY <1>1, <1>2, <1>3, <1>4, TypePartsNext

LEMMA TellKeepsTypes == ASSUME LifeInv, TellStep PROVE TypeOK'
<1>0. /\ ChanTyped /\ ThreadsTyped /\ CircTyped /\ StreamsTyped /\ NetTyped
      /\ 0 \in 0..PathLength /\ \A s \in Streams : Of[s] \in Circuits
  BY TypeParts, ThreadsAre, LifeAssumption DEF LifeInv
<1>. USE DEF TellStep, TellBuilder, TellStream, chanVars, netVars, streamVars
<1>1. ThreadsTyped' /\ ChanTyped' /\ StreamsTyped' /\ NetTyped'
  BY <1>0 DEF ThreadsTyped, ChanTyped, StreamsTyped, NetTyped
<1>2. CircTyped'
  <2>1. ASSUME NEW c \in Circuits, TellBuilder(c) PROVE CircTyped'
    BY <1>0, <2>1 DEF CircTyped, Error
  <2>2. ASSUME NEW s \in Streams, TellStream(s) PROVE CircTyped'
    BY <1>0, <2>2 DEF CircTyped
  <2>. QED BY <2>1, <2>2
<1>. QED BY <1>1, <1>2, TypePartsNext

(* The cell the receiver takes.                                              *)
LEMMA DispatchTakes ==
    ASSUME TypeOK, NEW cmds, Dispatch(cmds)
    PROVE  /\ Head(back) \in ReplyCell /\ Head(back).circ \in Circuits
           /\ Head(back).cmd \in cmds /\ Head(back).stream \in Streams \cup {Nobody}
           /\ back # <<>> /\ back' = Tail(back) /\ back' \in Seq(ReplyCell)
           /\ rx' \in {"loop", "last"}
<1>1. back \in Seq(ReplyCell) /\ back # <<>> /\ back' = Tail(back) /\ Head(back).cmd \in cmds
  BY DEF TypeOK, Dispatch
<1>2. Head(back) \in ReplyCell /\ back' \in Seq(ReplyCell)
  BY <1>1, HeadTailProperties
<1>. QED BY <1>1, <1>2 DEF Dispatch, ReplyCell

LEMMA ReceiverKeepsTypes ==
    ASSUME LifeInv, ReceiverStep \/ Shutdown \/ CloseChannel
    PROVE  TypeOK'
<1>0. ChanTyped /\ ThreadsTyped /\ CircTyped /\ StreamsTyped /\ NetTyped /\ TypeOK
  BY TypeParts DEF LifeInv
<1>. DEFINE c == Head(back).circ
<1>1. CASE DropCell \/ HandleStreamCell
  <2>1. \E cmds : Dispatch(cmds)
    BY <1>1 DEF DropCell, HandleStreamCell
  <2>2. /\ back' \in Seq(ReplyCell) /\ rx' \in {"loop", "last"}
        /\ Head(back).stream \in Streams \cup {Nobody} /\ c \in Circuits
    BY <1>0, <2>1, DispatchTakes
  <2>3. NetTyped' /\ ChanTyped' /\ ThreadsTyped' /\ CircTyped'
    BY <1>0, <1>1, <2>2 DEF DropCell, HandleStreamCell, NetTyped, ChanTyped, ThreadsTyped,
       CircTyped, circVars, tableVars
  <2>4. StreamsTyped'
    BY <1>0, <1>1, <2>2 DEF DropCell, HandleStreamCell, StreamsTyped, streamVars, CircTyped
  <2>. QED BY <2>3, <2>4, TypePartsNext
<1>2. CASE FireBuild
  <2>2. /\ back' \in Seq(ReplyCell) /\ rx' \in {"loop", "last"} /\ c \in Circuits
        /\ Head(back).cmd \in {"BUILT", "BAD"} /\ Head(back) \in ReplyCell
    BY <1>0, <1>2, DispatchTakes DEF FireBuild
  <2>3. NetTyped' /\ ChanTyped' /\ ThreadsTyped' /\ StreamsTyped'
    BY <1>0, <1>2, <2>2 DEF FireBuild, NetTyped, ChanTyped, ThreadsTyped, StreamsTyped,
       tableVars, streamVars
  <2>4. CircTyped'
    <3>1. [cmd |-> Head(back).cmd, hop |-> Head(back).hop]
            \in [cmd : {"pending", "error", "BUILT", "BAD"}, hop : 0 .. PathLength]
      BY <2>2 DEF ReplyCell
    <3>. QED BY <1>0, <1>2, <2>2, <3>1 DEF FireBuild, CircTyped
  <2>. QED BY <2>3, <2>4, TypePartsNext
<1>3. CASE HandleDestroy
  <2>2. back' \in Seq(ReplyCell) /\ rx' \in {"loop", "last"} /\ c \in Circuits
    BY <1>0, <1>3, DispatchTakes DEF HandleDestroy
  <2>3. NetTyped' /\ ChanTyped' /\ ThreadsTyped' /\ StreamsTyped'
    BY <1>0, <1>3, <2>2 DEF HandleDestroy, ReceiverTearsDown, NetTyped, ChanTyped,
       ThreadsTyped, StreamsTyped, streamVars
  <2>4. CircTyped'
    BY <1>0, <1>3, <2>2, MarkingKeepsTypes DEF HandleDestroy, ReceiverTearsDown, CircTyped
  <2>. QED BY <2>3, <2>4, TypePartsNext
<1>4. ASSUME NEW d \in Circuits, TellSink(d) PROVE TypeOK'
  <2>3. NetTyped' /\ ChanTyped' /\ ThreadsTyped' /\ StreamsTyped'
    BY <1>0, <1>4 DEF TellSink, ReceiverTearsDown, NetTyped, ChanTyped,
       ThreadsTyped, StreamsTyped, streamVars, netVars
  <2>4. CircTyped'
    BY <1>0, <1>4, MarkingKeepsTypes DEF TellSink, ReceiverTearsDown, CircTyped
  <2>. QED BY <2>3, <2>4, TypePartsNext
<1>5. CASE Shutdown \/ ReceiverExits \/ CloseChannel
  <2>1. NetTyped' /\ ThreadsTyped' /\ StreamsTyped' /\ CircTyped'
    BY <1>0, <1>5 DEF Shutdown, ReceiverExits, CloseChannel, NetTyped, ThreadsTyped,
       StreamsTyped, CircTyped, circVars, streamVars, netVars
  <2>2. ChanTyped'
    BY <1>0, <1>5 DEF Shutdown, ReceiverExits, CloseChannel, ChanTyped
  <2>. QED BY <2>1, <2>2, TypePartsNext
<1>. QED BY <1>1, <1>2, <1>3, <1>4, <1>5, Zenon DEF ReceiverStep

LEMMA RelaysKeepTypes == ASSUME LifeInv, RelayAnswers \/ RelaySendsExtra PROVE TypeOK'
<1>0. ChanTyped /\ ThreadsTyped /\ CircTyped /\ StreamsTyped /\ NetTyped
  BY TypeParts DEF LifeInv
<1>1. ChanTyped' /\ CircTyped' /\ StreamsTyped' /\ ThreadsTyped'
  BY <1>0 DEF RelayAnswers, RelaySendsExtra, ChanTyped, CircTyped, StreamsTyped, ThreadsTyped,
     chanVars, circVars, streamVars
<1>2. CASE RelayAnswers
  <2>. DEFINE m == Head(wire)
  <2>1. wire # <<>> /\ wire' = Tail(wire) /\ wire \in Seq(RequestCell)
    BY <1>0, <1>2 DEF RelayAnswers, NetTyped
  <2>2. m \in RequestCell /\ wire' \in Seq(RequestCell)
    BY <2>1, HeadTailProperties
  <2>3. \A cmd \in Replies : Answer(cmd, m) = Append(back, Message(cmd, m.circ, m.stream, m.hop))
    BY DEF Answer
  <2>4. \A cmd \in Replies : Message(cmd, m.circ, m.stream, m.hop) \in ReplyCell
    BY <2>2 DEF RequestCell, ReplyCell, Message
  <2>5. back' = back \/ \E cmd \in Replies : back' = Answer(cmd, m)
    BY <1>2, Zenon DEF RelayAnswers, Replies
  <2>6. NetTyped'
    BY <1>0, <2>2, <2>3, <2>4, <2>5, AppendProperties DEF NetTyped
  <2>. QED BY <1>1, <2>6, TypePartsNext
<1>3. CASE RelaySendsExtra
  <2>1. PICK d \in sinks, cmd \in {"BAD", "DESTROY"} :
               back' = Append(back, Message(cmd, d, Nobody, 0))
    BY <1>3 DEF RelaySendsExtra
  <2>2. Message(cmd, d, Nobody, 0) \in ReplyCell
    BY <1>0, LifeAssumption DEF ChanTyped, Message, ReplyCell, Replies
  <2>3. NetTyped'
    BY <1>0, <1>3, <2>1, <2>2, AppendProperties DEF NetTyped, RelaySendsExtra
  <2>. QED BY <1>1, <2>3, TypePartsNext
<1>. QED BY <1>2, <1>3

-------------------------------------------------------------------------------
(* Frames: whose counter a step moves                                        *)

LEMMA Moves ==
    ASSUME TypeOK, NEW t \in Threads, NEW l, Goto(t, l)
    PROVE  pc'[t] = l /\ \A u \in Threads : u # t => pc'[u] = pc[u]
BY DEF TypeOK, Goto

LEMMA BuildMoves ==
    ASSUME LifeInv, NEW c \in Circuits, BuildStep(c) \/ BuildTimesOut(c)
    PROVE  /\ pc[c] \in {"new", "arm", "send", "await"}
           /\ \A u \in Threads : u # c => pc'[u] = pc[u]
           /\ UNCHANGED <<destroyed, streams, tell, failed, back>>
           /\ \A d \in Circuits : d # c => /\ hops'[d] = hops[d] /\ answer'[d] = answer[d]
                                           /\ d \in sinks' <=> d \in sinks
                                           /\ d \in waiter' <=> d \in waiter
<1>. USE DEF BuildStep, Register, Arm, SendBuild, AddHop, BuildFails, BuildTimesOut,
             chanVars, circVars, streamVars, netVars
<1>1. pc[c] \in {"new", "arm", "send", "await"} /\ UNCHANGED <<destroyed, streams, tell, failed, back>>
  OBVIOUS
<1>2. \A u \in Threads : u # c => pc'[u] = pc[u]
  BY Moves, ThreadsAre DEF LifeInv
<1>3. \A d \in Circuits : d # c => /\ hops'[d] = hops[d] /\ answer'[d] = answer[d]
                                   /\ d \in sinks' <=> d \in sinks
                                   /\ d \in waiter' <=> d \in waiter
  BY DEF LifeInv, TypeOK
<1>. QED BY <1>1, <1>2, <1>3

LEMMA StreamMoves ==
    ASSUME LifeInv, NEW s \in Streams, StreamStep(s) \/ OpenTimesOut(s)
    PROVE  /\ \A u \in Threads : u # s => pc'[u] = pc[u]
           /\ UNCHANGED <<chanVars, hops, waiter, answer, destroyed, tell, failed, back>>
           /\ \A d \in Circuits : d # Of[s] => streams'[d] = streams[d]
           /\ \A r \in Streams, d \in Circuits : r # s => (r \in streams'[d] <=> r \in streams[d])
           /\ \/ wire' = wire
              \/ wire' = Append(wire, Message("BEGIN", Of[s], s, 0))
              \/ wire' = Append(wire, Message("END", Of[s], s, 0))
<1>. USE DEF StreamStep, RegisterStream, SendBegin, Opened, OpenTimesOut, CloseStream, SendEnd,
             UnregisterStream, chanVars, circVars, streamVars, netVars
<1>1. \A u \in Threads : u # s => pc'[u] = pc[u]
  BY Moves, ThreadsAre DEF LifeInv
<1>2. UNCHANGED <<chanVars, hops, waiter, answer, destroyed, tell, failed, back>>
  OBVIOUS
<1>3. /\ \A d \in Circuits : d # Of[s] => streams'[d] = streams[d]
      /\ \A r \in Streams, d \in Circuits : r # s => (r \in streams'[d] <=> r \in streams[d])
  <2>1. /\ Of[s] \in Circuits /\ streams \in [Circuits -> SUBSET Streams]
        /\ \/ streams' = streams
           \/ streams' = [streams EXCEPT ![Of[s]] = @ \cup {s}]
           \/ streams' = [streams EXCEPT ![Of[s]] = @ \ {s}]
    BY ThreadsAre DEF LifeInv, TypeOK
  <2>. QED BY <2>1
<1>4. \/ wire' = wire
      \/ wire' = Append(wire, Message("BEGIN", Of[s], s, 0))
      \/ wire' = Append(wire, Message("END", Of[s], s, 0))
  <2>1. CASE SendBegin(s)
    BY <2>1, Zenon DEF Send
  <2>2. CASE SendEnd(s)
    BY <2>2, Zenon DEF Send
  <2>3. CASE UNCHANGED wire
    BY <2>3
  <2>. QED BY <2>1, <2>2, <2>3
<1>. QED BY <1>1, <1>2, <1>3, <1>4

LEMMA CloseMoves ==
    ASSUME LifeInv, NEW t \in Threads, CloseStep(t) \/ (t \in Closers /\ ClientCloses(t))
    PROVE  /\ \A u \in Threads : u # t => pc'[u] = pc[u]
           /\ t \notin Closers => pc[t] \in Gone
           /\ pc'[t] \in Gone
           /\ pc'[t] = "ended" => Circuit(t) \notin sinks' /\ Circuit(t) \in destroyed
           /\ pc'[t] \in {"tell", "unsink"} => Circuit(t) \in destroyed'
           /\ sinks' \subseteq sinks
           /\ UNCHANGED <<hops, answer, failed, back>>
           /\ UNCHANGED <<destroyed, waiter, tell, streams>>
                \/ (Circuit(t) \notin destroyed /\ MarkDestroyed(Circuit(t)))
           /\ wire' = wire \/ wire' = Append(wire, Message("DESTROY", Circuit(t), Nobody, 0))
<1>. USE DEF CloseStep, ClientCloses, StartClose, SendDestroy, Teardown, TeardownReturns,
             Unregister, chanVars, circVars, streamVars, netVars
<1>1. \A u \in Threads : u # t => pc'[u] = pc[u]
  BY Moves DEF LifeInv
<1>2. /\ t \notin Closers => pc[t] \in Gone
      /\ pc'[t] \in Gone
  BY Moves DEF LifeInv, Gone
<1>3. /\ pc'[t] = "ended" => Circuit(t) \notin sinks' /\ Circuit(t) \in destroyed
      /\ pc'[t] \in {"tell", "unsink"} => Circuit(t) \in destroyed'
  BY Moves DEF LifeInv, CloserInv, MarkDestroyed
<1>4. sinks' \subseteq sinks /\ UNCHANGED <<hops, answer, failed, back>>
  OBVIOUS
<1>5. UNCHANGED <<destroyed, waiter, tell, streams>>
                \/ (Circuit(t) \notin destroyed /\ MarkDestroyed(Circuit(t)))
  OBVIOUS
<1>6. wire' = wire \/ wire' = Append(wire, Message("DESTROY", Circuit(t), Nobody, 0))
  BY DEF Send
<1>. QED BY <1>1, <1>2, <1>3, <1>4, <1>5, <1>6

(* The receiver, the relays and whoever tells move nobody's counter.         *)
LEMMA OthersMove ==
    ASSUME LifeInv,
           TellStep \/ ReceiverStep \/ Shutdown \/ CloseChannel \/ RelayAnswers \/ RelaySendsExtra
    PROVE  /\ pc' = pc /\ hops' = hops /\ sinks' \subseteq sinks
           /\ \/ UNCHANGED <<destroyed, streams>>
              \/ \E c \in Circuits : c \notin destroyed /\ MarkDestroyed(c) /\ answer' = answer
           /\ ~TellStep => failed' = failed
<1>1. ASSUME TellStep PROVE UNCHANGED <<pc, hops, sinks, destroyed, streams>>
  BY <1>1 DEF TellStep, TellBuilder, TellStream, chanVars
<1>2. ASSUME Shutdown \/ CloseChannel \/ RelayAnswers \/ RelaySendsExtra \/ ReceiverExits
             \/ DropCell \/ FireBuild \/ HandleStreamCell
      PROVE  UNCHANGED <<pc, hops, destroyed, streams, failed>> /\ sinks' \subseteq sinks
  BY <1>2 DEF Shutdown, CloseChannel, RelayAnswers, RelaySendsExtra, ReceiverExits, DropCell,
     FireBuild, HandleStreamCell, chanVars, tableVars, circVars, streamVars
<1>3. ASSUME NEW c \in Circuits, ReceiverTearsDown(c)
      PROVE  \/ UNCHANGED <<destroyed, streams>>
             \/ c \notin destroyed /\ MarkDestroyed(c)
  BY <1>3 DEF ReceiverTearsDown
<1>4. ASSUME HandleDestroy
      PROVE  /\ UNCHANGED <<pc, hops, sinks, answer, failed>>
             /\ \E c \in Circuits : ReceiverTearsDown(c)
  <2>1. Head(back).circ \in Circuits
    BY <1>4, DispatchTakes DEF HandleDestroy, LifeInv
  <2>. QED BY <1>4, <2>1 DEF HandleDestroy, streamVars
<1>5. ASSUME NEW c \in Circuits, TellSink(c)
      PROVE  UNCHANGED <<pc, hops, sinks, answer, failed>> /\ ReceiverTearsDown(c)
  BY <1>5 DEF TellSink, streamVars
<1>6. ASSUME HandleDestroy \/ \E c \in Circuits : TellSink(c)
      PROVE  /\ UNCHANGED <<pc, hops, sinks, failed>>
             /\ \/ UNCHANGED <<destroyed, streams>>
                \/ \E c \in Circuits : c \notin destroyed /\ MarkDestroyed(c) /\ answer' = answer
  BY <1>3, <1>4, <1>5, <1>6
<1>. QED BY <1>1, <1>2, <1>6 DEF ReceiverStep

-------------------------------------------------------------------------------
(* The builder, and the requests under way                                   *)

LEMMA BuilderStays ==
    ASSUME LifeInv, NEW c \in Circuits, hops'[c] = hops[c], c \in sinks' => c \in sinks,
           pc'[c] = pc[c], answer'[c] = answer[c] \/ answer'[c] = Error
    PROVE  BuilderInv(c)'
BY DEF LifeInv, BuilderInv, Error

LEMMA QueueGrows ==
    ASSUME NEW S, NEW q \in Seq(S), NEW m \in S, NEW cmd, NEW c, NEW hop
    PROVE  /\ Absent(q, cmd, c) /\ ~About(m, cmd, c) => Absent(Append(q, m), cmd, c)
           /\ OneAtMost(q, cmd, c, hop) /\ ~About(m, cmd, c)
                => OneAtMost(Append(q, m), cmd, c, hop)
           /\ Absent(q, cmd, c) /\ m.hop = hop => OneAtMost(Append(q, m), cmd, c, hop)
<1>. DEFINE n == Len(q) + 1
<1>1. /\ DOMAIN q = 1..Len(q) /\ DOMAIN Append(q, m) = 1..n /\ Len(q) \in Nat
      /\ \A i \in 1..Len(q) : Append(q, m)[i] = q[i]
      /\ Append(q, m)[n] = m
  BY AppendProperties, LenProperties
<1>2. \A i \in 1..n : i \in 1..Len(q) \/ i = n
  BY <1>1
<1>. HIDE DEF n
<1>3. Absent(q, cmd, c) /\ ~About(m, cmd, c) => Absent(Append(q, m), cmd, c)
  BY <1>1, <1>2 DEF Absent
<1>4. OneAtMost(q, cmd, c, hop) /\ ~About(m, cmd, c) => OneAtMost(Append(q, m), cmd, c, hop)
  BY <1>1, <1>2 DEF OneAtMost
<1>5. Absent(q, cmd, c) /\ m.hop = hop => OneAtMost(Append(q, m), cmd, c, hop)
  BY <1>1, <1>2 DEF OneAtMost, Absent
<1>. QED BY <1>3, <1>4, <1>5

LEMMA QueueShrinks ==
    ASSUME NEW S, NEW q \in Seq(S), q # <<>>, NEW cmd, NEW c, NEW hop
    PROVE  /\ Absent(q, cmd, c) => Absent(Tail(q), cmd, c) /\ ~About(Head(q), cmd, c)
           /\ OneAtMost(q, cmd, c, hop) => OneAtMost(Tail(q), cmd, c, hop)
           /\ OneAtMost(q, cmd, c, hop) /\ About(Head(q), cmd, c)
                => Absent(Tail(q), cmd, c) /\ Head(q).hop = hop
<1>1. /\ Len(q) \in Nat \ {0} /\ DOMAIN q = 1..Len(q) /\ DOMAIN Tail(q) = 1..(Len(q) - 1)
      /\ \A i \in 1..(Len(q) - 1) : Tail(q)[i] = q[i + 1]
      /\ Head(q) = q[1]
  BY HeadTailProperties, LenProperties, EmptySeq
<1>2. 1 \in DOMAIN q /\ \A i \in DOMAIN Tail(q) : i + 1 \in DOMAIN q /\ i + 1 # 1 /\ i \in Nat
  BY <1>1
<1>3. Absent(q, cmd, c) => Absent(Tail(q), cmd, c) /\ ~About(Head(q), cmd, c)
  BY <1>1, <1>2 DEF Absent
<1>4. OneAtMost(q, cmd, c, hop) => OneAtMost(Tail(q), cmd, c, hop)
  <2>. SUFFICES ASSUME OneAtMost(q, cmd, c, hop), NEW i \in DOMAIN Tail(q),
                       About(Tail(q)[i], cmd, c)
                PROVE  /\ Tail(q)[i].hop = hop
                       /\ \A j \in DOMAIN Tail(q) : About(Tail(q)[j], cmd, c) => j = i
    BY DEF OneAtMost
  <2>1. q[i + 1].hop = hop /\ \A j \in DOMAIN q : About(q[j], cmd, c) => j = i + 1
    BY <1>1, <1>2 DEF OneAtMost
  <2>2. \A j \in DOMAIN Tail(q) : About(Tail(q)[j], cmd, c) => j + 1 = i + 1
    BY <1>1, <1>2, <2>1
  <2>3. \A j \in DOMAIN Tail(q) : j + 1 = i + 1 => j = i
    BY <1>2
  <2>. QED BY <1>1, <2>1, <2>2, <2>3
<1>5. OneAtMost(q, cmd, c, hop) /\ About(Head(q), cmd, c)
        => Absent(Tail(q), cmd, c) /\ Head(q).hop = hop
  BY <1>1, <1>2 DEF OneAtMost, Absent
<1>. QED BY <1>3, <1>4, <1>5

LEMMA NoneIsOneAtMost ==
    ASSUME NEW q, NEW cmd, NEW c, NEW hop, Absent(q, cmd, c)
    PROVE  OneAtMost(q, cmd, c, hop)
BY DEF Absent, OneAtMost

(* Both queues only lose cells about c, or gain cells about others.          *)
LEMMA RequestsStay ==
    ASSUME LifeInv, NEW c \in Circuits, hops'[c] = hops[c],
           pc'[c] = pc[c] \/ pc'[c] \in Gone,
           answer'[c] = answer[c] \/ answer'[c].cmd # "BUILT",
           Absent(wire, "BUILD", c) => Absent(wire', "BUILD", c),
           Absent(back, "BUILT", c) => Absent(back', "BUILT", c),
           OneAtMost(wire, "BUILD", c, hops[c] + 1) => OneAtMost(wire', "BUILD", c, hops[c] + 1),
           OneAtMost(back, "BUILT", c, hops[c] + 1) => OneAtMost(back', "BUILT", c, hops[c] + 1)
    PROVE  RequestsInv(c)'
<1>1. RequestsInv(c)
  BY DEF LifeInv
<1>. QED BY <1>1, Zenon DEF RequestsInv

(* The same when neither queue changes, or only the wire and by a cell that  *)
(* is no request to build.                                                   *)
LEMMA WireStays ==
    ASSUME TypeOK, TypeOK', NEW c, NEW m, m.cmd # "BUILD", wire' = wire \/ wire' = Append(wire, m)
    PROVE  /\ Absent(wire, "BUILD", c) => Absent(wire', "BUILD", c)
           /\ \A hop : OneAtMost(wire, "BUILD", c, hop) => OneAtMost(wire', "BUILD", c, hop)
<1>1. CASE wire' = wire
  BY <1>1
<1>2. CASE wire' = Append(wire, m)
  <2>. DEFINE S == RequestCell \cup {m}
  <2>1. wire \in Seq(S) /\ m \in S /\ ~About(m, "BUILD", c)
    <3>1. wire \in Seq(RequestCell) /\ RequestCell \subseteq S
      BY DEF TypeOK
    <3>. QED BY <3>1, SeqMonotonic DEF About
  <2>. HIDE DEF S
  <2>. QED BY <1>2, <2>1, QueueGrows
<1>. QED BY <1>1, <1>2

LEMMA BuildKeepsRequests ==
    ASSUME LifeInv, TypeOK', NEW d \in Circuits, BuildStep(d) \/ BuildTimesOut(d),
           NEW c \in Circuits
    PROVE  BuilderInv(c)' /\ RequestsInv(c)'
<1>. USE DEF chanVars, circVars, streamVars, netVars
<1>0. /\ BuilderInv(c) /\ RequestsInv(c) /\ TypeOK /\ c \in Threads /\ d \in Threads
      /\ wire \in Seq(RequestCell) /\ PathLength \in Nat \ {0} /\ hops[c] \in 0..PathLength
      /\ answer \in [Circuits -> [cmd : {"pending", "error", "BUILT", "BAD"}, hop : 0 .. PathLength]]
      /\ hops \in [Circuits -> 0..PathLength]
  BY ThreadsAre, LifeAssumption DEF LifeInv, TypeOK
<1>1. CASE d # c
  <2>1. BuilderInv(c)'
    BY <1>1, BuildMoves, BuilderStays, ThreadsAre
  <2>2. RequestsInv(c)'
    <3>1. CASE SendBuild(d)
      <4>. DEFINE m == Message("BUILD", d, Nobody, hops[d] + 1)
      <4>1. wire' = wire \/ wire' = Append(wire, m)
        BY <3>1, Zenon DEF SendBuild, Send
      <4>2. pc[d] = "send" /\ hops[d] + 1 \in 0..PathLength
        BY <1>0, <3>1 DEF SendBuild, LifeInv, BuilderInv
      <4>3. m \in RequestCell /\ ~About(m, "BUILD", c)
        BY <1>1, <4>2 DEF Message, RequestCell, Requests, About
      <4>. HIDE DEF m
      <4>4. /\ Absent(wire, "BUILD", c) => Absent(wire', "BUILD", c)
            /\ \A hop : OneAtMost(wire, "BUILD", c, hop) => OneAtMost(wire', "BUILD", c, hop)
        <5>1. CASE wire' = wire
          BY <5>1
        <5>2. CASE wire' = Append(wire, m)
          BY <1>0, <4>3, <5>2, QueueGrows
        <5>. QED BY <4>1, <5>1, <5>2
      <4>. QED BY <1>0, <1>1, <4>4, BuildMoves, RequestsStay
    <3>2. CASE UNCHANGED wire
      BY <1>0, <1>1, <3>2, BuildMoves, RequestsStay
    <3>. QED BY <3>1, <3>2 DEF BuildStep, Register, Arm, AddHop, BuildFails, BuildTimesOut
  <2>. QED BY <2>1, <2>2
<1>2. CASE d = c
  <2>1. ASSUME Register(c) PROVE BuilderInv(c)' /\ RequestsInv(c)'
    <3>1. /\ (pc'[c] = "ended" /\ sinks' = sinks) \/ pc'[c] = "arm"
          /\ UNCHANGED <<hops, answer, wire, back>> /\ pc[c] = "new"
      BY <1>0, <2>1, Moves DEF Register
    <3>. QED BY <1>0, <3>1 DEF BuilderInv, RequestsInv, Gone
  <2>2. ASSUME Arm(c) PROVE BuilderInv(c)' /\ RequestsInv(c)'
    <3>1. /\ pc[c] = "arm"
          /\ pc'[c] = "close" \/ (pc'[c] = "send" /\ answer'[c] = Pending)
          /\ UNCHANGED <<hops, wire, back, sinks>>
      BY <1>0, <2>2, Moves DEF Arm
    <3>. QED BY <1>0, <3>1 DEF BuilderInv, RequestsInv, Gone, Pending
  <2>3. ASSUME SendBuild(c) PROVE BuilderInv(c)' /\ RequestsInv(c)'
    <3>. DEFINE m == Message("BUILD", c, Nobody, hops[c] + 1)
    <3>1. /\ pc[c] = "send"
          /\ pc'[c] = "close" \/ (pc'[c] = "await" /\ wire' = Append(wire, m))
          /\ UNCHANGED <<hops, back, sinks, answer>>
      BY <1>0, <2>3, Moves, Zenon DEF SendBuild, Send
    <3>2. BuilderInv(c)'
      BY <1>0, <3>1 DEF BuilderInv
    <3>3. CASE pc'[c] = "close"
      BY <3>2, <3>3 DEF RequestsInv, Gone
    <3>4. CASE pc'[c] = "await" /\ wire' = Append(wire, m)
      <4>1. Absent(wire, "BUILD", c) /\ Absent(back, "BUILT", c)
        BY <1>0, <3>1 DEF RequestsInv, Gone
      <4>2. m \in RequestCell /\ m.hop = hops[c] + 1
        BY <1>0, <3>1 DEF Message, RequestCell, Requests, BuilderInv
      <4>. HIDE DEF m
      <4>3. OneAtMost(wire', "BUILD", c, hops[c] + 1)
        BY <1>0, <3>4, <4>1, <4>2, QueueGrows
      <4>4. OneAtMost(back', "BUILT", c, hops[c] + 1) /\ Absent(back', "BUILT", c)
        BY <3>1, <4>1, NoneIsOneAtMost
      <4>5. answer'[c].cmd # "BUILT" /\ hops'[c] = hops[c]
        BY <1>0, <3>1 DEF BuilderInv
      <4>. QED BY <3>2, <3>4, <4>3, <4>4, <4>5 DEF RequestsInv
    <3>. QED BY <3>1, <3>3, <3>4
  <2>4. ASSUME AddHop(c) PROVE BuilderInv(c)' /\ RequestsInv(c)'
    <3>1. /\ pc[c] = "await" /\ answer[c].cmd = "BUILT" /\ hops'[c] = hops[c] + 1
          /\ pc'[c] = IF hops[c] + 1 = PathLength THEN "built" ELSE "arm"
          /\ UNCHANGED <<wire, back, sinks, answer>>
      BY <1>0, <2>4, Moves DEF AddHop
    <3>2. Absent(wire, "BUILD", c) /\ Absent(back, "BUILT", c)
      BY <1>0, <3>1 DEF RequestsInv, Gone
    <3>3. BuilderInv(c)'
      BY <1>0, <3>1 DEF BuilderInv
    <3>. QED BY <3>1, <3>2, <3>3 DEF RequestsInv
  <2>5. ASSUME BuildFails(c) \/ BuildTimesOut(c) PROVE BuilderInv(c)' /\ RequestsInv(c)'
    <3>1. pc'[c] = "close" /\ UNCHANGED <<hops, sinks>>
      BY <1>0, <2>5, Moves DEF BuildFails, BuildTimesOut
    <3>. QED BY <1>0, <3>1 DEF BuilderInv, RequestsInv, Gone
  <2>. QED BY <1>2, <2>1, <2>2, <2>3, <2>4, <2>5 DEF BuildStep
<1>. QED BY <1>1, <1>2

LEMMA StreamKeepsRequests ==
    ASSUME LifeInv, TypeOK', NEW s \in Streams, StreamStep(s) \/ OpenTimesOut(s),
           NEW c \in Circuits
    PROVE  BuilderInv(c)' /\ RequestsInv(c)'
<1>1. /\ pc'[c] = pc[c] /\ UNCHANGED <<hops, sinks, answer, back>>
  BY StreamMoves, ThreadsAre DEF chanVars
<1>2. /\ Absent(wire, "BUILD", c) => Absent(wire', "BUILD", c)
      /\ \A hop : OneAtMost(wire, "BUILD", c, hop) => OneAtMost(wire', "BUILD", c, hop)
  <2>. DEFINE m == Message("BEGIN", Of[s], s, 0)
              n == Message("END", Of[s], s, 0)
  <2>1. m.cmd # "BUILD" /\ n.cmd # "BUILD"
    BY DEF Message
  <2>2. wire' = wire \/ wire' = Append(wire, m) \/ wire' = Append(wire, n)
    BY StreamMoves
  <2>. HIDE DEF m, n
  <2>. QED BY <2>1, <2>2, WireStays DEF LifeInv
<1>. QED BY <1>1, <1>2, BuilderStays, RequestsStay

LEMMA CloseKeepsRequests ==
    ASSUME LifeInv, TypeOK', NEW t \in Threads,
           CloseStep(t) \/ (t \in Closers /\ ClientCloses(t)), NEW c \in Circuits
    PROVE  BuilderInv(c)' /\ RequestsInv(c)'
<1>1. UNCHANGED <<hops, answer, back>> /\ sinks' \subseteq sinks
  BY CloseMoves
<1>2. /\ Absent(wire, "BUILD", c) => Absent(wire', "BUILD", c)
      /\ \A hop : OneAtMost(wire, "BUILD", c, hop) => OneAtMost(wire', "BUILD", c, hop)
  <2>. DEFINE m == Message("DESTROY", Circuit(t), Nobody, 0)
  <2>1. m.cmd # "BUILD"
    BY DEF Message
  <2>2. wire' = wire \/ wire' = Append(wire, m)
    BY CloseMoves
  <2>. HIDE DEF m
  <2>. QED BY <2>1, <2>2, WireStays DEF LifeInv
<1>3. CASE t # c
  <2>1. pc'[c] = pc[c]
    BY <1>3, CloseMoves, ThreadsAre
  <2>. QED BY <1>1, <1>2, <2>1, BuilderStays, RequestsStay
<1>4. CASE t = c
  <2>1. pc'[c] \in Gone /\ (pc'[c] = "ended" => c \notin sinks')
    BY <1>4, CloseMoves, ThreadsAre
  <2>2. BuilderInv(c)'
    BY <2>1 DEF BuilderInv, Gone
  <2>. QED BY <2>1, <2>2 DEF RequestsInv
<1>. QED BY <1>3, <1>4

LEMMA TellKeepsRequests ==
    ASSUME LifeInv, TypeOK', TellStep, NEW c \in Circuits
    PROVE  BuilderInv(c)' /\ RequestsInv(c)'
<1>1. /\ UNCHANGED <<pc, hops, sinks, wire, back>>
      /\ answer'[c] = answer[c] \/ answer'[c] = Error
  BY DEF TellStep, TellBuilder, TellStream, chanVars, netVars, LifeInv, TypeOK
<1>2. Error.cmd # "BUILT"
  BY DEF Error
<1>. QED BY <1>1, <1>2, BuilderStays, RequestsStay

LEMMA ReceiverKeepsRequests ==
    ASSUME LifeInv, TypeOK', ReceiverStep \/ Shutdown \/ CloseChannel, NEW c \in Circuits
    PROVE  BuilderInv(c)' /\ RequestsInv(c)'
<1>. USE DEF tableVars, circVars, streamVars, netVars, chanVars
<1>0. /\ BuilderInv(c) /\ RequestsInv(c) /\ TypeOK
      /\ pc' = pc /\ hops' = hops /\ sinks' \subseteq sinks
  BY OthersMove DEF LifeInv
<1>1. ASSUME NEW cmds, Dispatch(cmds)
      PROVE  /\ Absent(back, "BUILT", c) => Absent(back', "BUILT", c)
             /\ \A hop : OneAtMost(back, "BUILT", c, hop) => OneAtMost(back', "BUILT", c, hop)
  <2>1. back \in Seq(ReplyCell) /\ back # <<>> /\ back' = Tail(back)
    BY <1>0, <1>1 DEF Dispatch, TypeOK
  <2>. QED BY <2>1, QueueShrinks
<1>2. CASE DropCell \/ HandleStreamCell \/ HandleDestroy
  <2>1. UNCHANGED <<wire, answer>> /\ \E cmds : Dispatch(cmds)
    BY <1>2 DEF DropCell, HandleStreamCell, HandleDestroy
  <2>. QED BY <1>0, <1>1, <2>1, BuilderStays, RequestsStay
<1>3. CASE Shutdown \/ CloseChannel \/ ReceiverExits \/ \E d \in Circuits : TellSink(d)
  <2>1. UNCHANGED <<wire, back, answer>>
    BY <1>3 DEF Shutdown, CloseChannel, ReceiverExits, TellSink
  <2>. QED BY <1>0, <2>1, BuilderStays, RequestsStay
<1>4. CASE FireBuild
  <2>. DEFINE m == Head(back)
              d == m.circ
  <2>1. /\ Dispatch({"BUILT", "BAD"}) /\ wire' = wire /\ d \in Circuits
        /\ m.cmd \in {"BUILT", "BAD"}
        /\ answer' = IF d \in waiter
                     THEN [answer EXCEPT ![d] = [cmd |-> m.cmd, hop |-> m.hop]] ELSE answer
    BY <1>0, <1>4, DispatchTakes DEF FireBuild
  <2>2. back \in Seq(ReplyCell) /\ back # <<>> /\ back' = Tail(back)
    BY <1>0, <2>1 DEF Dispatch, TypeOK
  <2>3. answer \in [Circuits -> [cmd : {"pending", "error", "BUILT", "BAD"}, hop : 0 .. PathLength]]
    BY <1>0 DEF TypeOK
  <2>. HIDE DEF m, d
  <2>4. CASE answer'[c] = answer[c] \/ answer'[c].cmd # "BUILT"
    <3>1. BuilderInv(c)'
      BY <1>0, <2>4 DEF BuilderInv
    <3>. QED BY <1>0, <1>1, <2>1, <2>4, <3>1, RequestsStay
  <2>5. CASE answer'[c] # answer[c] /\ answer'[c].cmd = "BUILT"
    <3>1. c = d /\ m.cmd = "BUILT" /\ answer'[c].hop = m.hop /\ About(m, "BUILT", c)
      BY <2>1, <2>3, <2>5 DEF About, d
    <3>2. CASE pc[c] \in Gone
      BY <1>0, <3>2 DEF BuilderInv, RequestsInv, Gone
    <3>3. CASE pc[c] \notin Gone
      <4>1. ~Absent(back, "BUILT", c)
        BY <2>2, <3>1, QueueShrinks DEF m
      <4>2. /\ pc[c] = "await" /\ Absent(wire, "BUILD", c)
            /\ OneAtMost(back, "BUILT", c, hops[c] + 1)
        BY <1>0, <3>3, <4>1 DEF RequestsInv
      <4>3. Absent(back', "BUILT", c) /\ m.hop = hops[c] + 1
        BY <2>2, <3>1, <4>2, QueueShrinks DEF m
      <4>4. BuilderInv(c)'
        BY <1>0, <3>1, <4>2, <4>3 DEF BuilderInv
      <4>. QED BY <2>1, <4>2, <4>3, <4>4 DEF RequestsInv
    <3>. QED BY <3>2, <3>3
  <2>. QED BY <2>4, <2>5
<1>. QED BY <1>2, <1>3, <1>4, Zenon DEF ReceiverStep

LEMMA RelaysKeepRequests ==
    ASSUME LifeInv, TypeOK', RelayAnswers \/ RelaySendsExtra, NEW c \in Circuits
    PROVE  BuilderInv(c)' /\ RequestsInv(c)'
<1>. USE DEF circVars, chanVars
<1>0. /\ RequestsInv(c) /\ TypeOK /\ UNCHANGED <<pc, hops, sinks, answer>>
      /\ wire \in Seq(RequestCell) /\ back \in Seq(ReplyCell)
  BY DEF LifeInv, TypeOK, RelayAnswers, RelaySendsExtra
<1>1. BuilderInv(c)'
  BY <1>0, BuilderStays
(* A cell about something else comes back.                                   *)
<1>2. ASSUME NEW m, m.cmd # "BUILT", back' = back \/ back' = Append(back, m)
      PROVE  /\ Absent(back, "BUILT", c) => Absent(back', "BUILT", c)
             /\ \A hop : OneAtMost(back, "BUILT", c, hop) => OneAtMost(back', "BUILT", c, hop)
  <2>. DEFINE S == ReplyCell \cup {m}
  <2>1. back \in Seq(S) /\ m \in S /\ ~About(m, "BUILT", c)
    <3>1. ReplyCell \subseteq S
      OBVIOUS
    <3>. QED BY <1>0, <1>2, <3>1, SeqMonotonic DEF About
  <2>. HIDE DEF S
  <2>. QED BY <1>2, <2>1, QueueGrows
<1>3. CASE RelaySendsExtra
  <2>1. PICK d \in sinks, cmd \in {"BAD", "DESTROY"} :
               back' = Append(back, Message(cmd, d, Nobody, 0)) /\ wire' = wire
    BY <1>3 DEF RelaySendsExtra
  <2>2. Message(cmd, d, Nobody, 0).cmd # "BUILT"
    BY DEF Message
  <2>. QED BY <1>0, <1>1, <1>2, <2>1, <2>2, RequestsStay
<1>4. CASE RelayAnswers
  <2>. DEFINE m == Head(wire)
  <2>1. wire # <<>> /\ wire' = Tail(wire) /\ m \in RequestCell
    BY <1>0, <1>4, HeadTailProperties DEF RelayAnswers
  <2>2. /\ Absent(wire, "BUILD", c) => Absent(wire', "BUILD", c) /\ ~About(m, "BUILD", c)
        /\ OneAtMost(wire, "BUILD", c, hops[c] + 1)
             => OneAtMost(wire', "BUILD", c, hops[c] + 1)
        /\ OneAtMost(wire, "BUILD", c, hops[c] + 1) /\ About(m, "BUILD", c)
             => Absent(wire', "BUILD", c) /\ m.hop = hops[c] + 1
    BY <1>0, <2>1, QueueShrinks
  <2>3. \/ back' = back
        \/ \E cmd \in Replies \ {"BUILT"} : back' = Append(back, Message(cmd, m.circ, m.stream, m.hop))
        \/ m.cmd = "BUILD" /\ back' = Append(back, Message("BUILT", m.circ, m.stream, m.hop))
    BY <1>4, Zenon DEF RelayAnswers, Answer, Replies
  <2>. HIDE DEF m
  <2>4. CASE back' = back
    BY <1>0, <1>1, <2>2, <2>4, RequestsStay
  <2>5. ASSUME NEW cmd \in Replies \ {"BUILT"},
               back' = Append(back, Message(cmd, m.circ, m.stream, m.hop))
        PROVE  RequestsInv(c)'
    <3>1. Message(cmd, m.circ, m.stream, m.hop).cmd # "BUILT"
      BY <2>5 DEF Message
    <3>. QED BY <1>0, <1>2, <2>2, <2>5, <3>1, RequestsStay
  <2>6. ASSUME m.cmd = "BUILD", back' = Append(back, Message("BUILT", m.circ, m.stream, m.hop))
        PROVE  RequestsInv(c)'
    <3>. DEFINE r == Message("BUILT", m.circ, m.stream, m.hop)
    <3>1. r \in ReplyCell /\ (About(r, "BUILT", c) <=> About(m, "BUILD", c)) /\ r.hop = m.hop
      BY <2>1, <2>6 DEF Message, RequestCell, ReplyCell, Replies, About
    <3>. HIDE DEF r
    <3>2. CASE ~About(m, "BUILD", c)
      <4>1. /\ Absent(back, "BUILT", c) => Absent(back', "BUILT", c)
            /\ OneAtMost(back, "BUILT", c, hops[c] + 1) => OneAtMost(back', "BUILT", c, hops[c] + 1)
        BY <1>0, <2>6, <3>1, <3>2, QueueGrows DEF r
      <4>. QED BY <1>0, <2>2, <4>1, RequestsStay
    <3>3. CASE About(m, "BUILD", c) /\ pc[c] \notin Gone
      <4>1. /\ pc[c] = "await" /\ answer[c].cmd # "BUILT" /\ Absent(back, "BUILT", c)
            /\ OneAtMost(wire, "BUILD", c, hops[c] + 1)
        BY <1>0, <2>2, <3>3 DEF RequestsInv
      <4>2. Absent(wire', "BUILD", c) /\ r.hop = hops[c] + 1
        BY <2>2, <3>1, <3>3, <4>1
      <4>3. OneAtMost(back', "BUILT", c, hops[c] + 1)
        BY <1>0, <2>6, <3>1, <4>1, <4>2, QueueGrows DEF r
      <4>. QED BY <1>0, <4>1, <4>2, <4>3, NoneIsOneAtMost DEF RequestsInv
    <3>4. CASE pc[c] \in Gone
      BY <1>0, <3>4 DEF RequestsInv
    <3>. QED BY <3>2, <3>3, <3>4
  <2>. QED BY <1>1, <2>3, <2>4, <2>5, <2>6
<1>. QED BY <1>3, <1>4

-------------------------------------------------------------------------------
(* Who is asleep, and who tells them                                         *)

(* Both registries go into the list of those to be told.                     *)
LEMMA MarkingTells ==
    ASSUME LifeInv, NEW d \in Circuits, d \notin destroyed, MarkDestroyed(d),
           answer' = answer, hops' = hops, failed' = failed
    PROVE  /\ \A c \in Circuits : pc'[c] = pc[c] \/ pc'[c] \in Gone => AsleepInv(c)'
           /\ \A s \in Streams : pc'[s] = pc[s] \/ (pc'[s] \in Gone /\ pc[s] # "new")
                                => StreamInv(s)'
           /\ \A c \in Circuits : streams'[c] \subseteq streams[c]
<1>. USE DEF MarkDestroyed
<1>1. /\ streams \in [Circuits -> SUBSET Streams] /\ destroyed \subseteq Circuits
      /\ tell \in [Circuits -> SUBSET (Circuits \cup Streams)] /\ waiter \subseteq Circuits
  BY DEF LifeInv, TypeOK
<1>2. ASSUME NEW c \in Circuits, pc'[c] = pc[c] \/ pc'[c] \in Gone PROVE AsleepInv(c)'
  <2>1. AsleepInv(c)
    BY DEF LifeInv
  <2>2. CASE c = d
    <3>1. c \in destroyed' /\ c \notin waiter' /\ streams'[c] = {} /\ (c \in waiter => c \in tell'[c])
      BY <1>1, <2>2
    <3>. QED BY <1>2, <2>1, <2>2, <3>1 DEF AsleepInv, Gone
  <2>3. CASE c # d
    <3>1. /\ c \in destroyed' <=> c \in destroyed
          /\ c \in waiter' <=> c \in waiter
          /\ streams'[c] = streams[c] /\ tell'[c] = tell[c]
      BY <1>1, <2>3
    <3>. QED BY <1>2, <2>1, <3>1 DEF AsleepInv, Gone
  <2>. QED BY <2>2, <2>3
<1>3. ASSUME NEW s \in Streams, pc'[s] = pc[s] \/ (pc'[s] \in Gone /\ pc[s] # "new")
      PROVE  StreamInv(s)'
  <2>1. StreamInv(s) /\ Of[s] \in Circuits
    BY ThreadsAre DEF LifeInv
  <2>2. CASE Of[s] = d
    <3>1. /\ Of[s] \in destroyed' /\ (s \in streams[Of[s]] => s \in tell'[Of[s]])
      BY <1>1, <2>1, <2>2
    <3>. QED BY <1>3, <2>1, <2>2, <3>1 DEF StreamInv, Gone, Waiting
  <2>3. CASE Of[s] # d
    <3>1. /\ Of[s] \in destroyed' <=> Of[s] \in destroyed
          /\ streams'[Of[s]] = streams[Of[s]] /\ tell'[Of[s]] = tell[Of[s]]
      BY <1>1, <2>1, <2>3
    <3>. QED BY <1>3, <2>1, <3>1 DEF StreamInv, Gone, Waiting
  <2>. QED BY <2>2, <2>3
<1>4. \A c \in Circuits : streams'[c] \subseteq streams[c]
  BY <1>1
<1>. QED BY <1>2, <1>3, <1>4

LEMMA BuildKeepsAsleep ==
    ASSUME LifeInv, TypeOK', NEW d \in Circuits, BuildStep(d) \/ BuildTimesOut(d)
    PROVE  /\ \A c \in Circuits : AsleepInv(c)'
           /\ \A s \in Streams : StreamInv(s)'
<1>. USE DEF chanVars, circVars, streamVars, netVars
<1>0. TypeOK
  BY DEF LifeInv
<1>1. ASSUME NEW c \in Circuits PROVE AsleepInv(c)'
  <2>1. AsleepInv(c) /\ c \in Threads
    BY ThreadsAre DEF LifeInv
  <2>2. CASE c # d
    BY <2>1, <2>2, BuildMoves DEF AsleepInv
  <2>3. CASE c = d
    <3>1. CASE Arm(c)
      <4>1. pc'[c] = "close" \/ (c \notin destroyed /\ c \in waiter')
        BY <1>0, <2>1, <3>1, Moves DEF Arm
      <4>2. c \in destroyed => waiter' = waiter
        BY <3>1 DEF Arm
      <4>. QED BY <2>1, <2>3, <4>1, <4>2, BuildMoves DEF AsleepInv
    <3>2. CASE SendBuild(c)
      BY <1>0, <2>1, <3>2, Moves DEF SendBuild, AsleepInv
    <3>3. CASE Register(c) \/ AddHop(c) \/ BuildFails(c) \/ BuildTimesOut(c)
      <4>1. pc'[c] \notin {"send", "await"} /\ UNCHANGED <<destroyed, waiter, streams>>
        BY <1>0, <2>1, <3>3, Moves DEF Register, AddHop, BuildFails, BuildTimesOut
      <4>. QED BY <2>1, <4>1 DEF AsleepInv
    <3>. QED BY <2>3, <3>1, <3>2, <3>3 DEF BuildStep
  <2>. QED BY <2>2, <2>3
<1>2. ASSUME NEW s \in Streams PROVE StreamInv(s)'
  <2>1. StreamInv(s) /\ Of[s] \in Circuits /\ pc'[s] = pc[s]
    BY <1>2, BuildMoves, ThreadsAre DEF LifeInv
  <2>2. pc[s] # "new" => hops'[Of[s]] = PathLength
    <3>1. CASE d # Of[s]
      BY <2>1, <3>1, BuildMoves DEF StreamInv
    <3>2. CASE d = Of[s] /\ AddHop(d) /\ pc[s] # "new"
      <4>1. hops[d] < PathLength
        BY <3>2 DEF AddHop, LifeInv, BuilderInv
      <4>. QED BY <2>1, <3>2, <4>1, LifeAssumption DEF StreamInv
    <3>3. CASE ~AddHop(d)
      <4>1. hops' = hops
        BY <3>3 DEF BuildStep, Register, Arm, SendBuild, BuildFails, BuildTimesOut
      <4>. QED BY <2>1, <4>1 DEF StreamInv
    <3>. QED BY <3>1, <3>2, <3>3
  <2>. QED BY <2>1, <2>2, BuildMoves DEF StreamInv
<1>. QED BY <1>1, <1>2

LEMMA StreamKeepsAsleep ==
    ASSUME LifeInv, TypeOK', NEW s \in Streams, StreamStep(s) \/ OpenTimesOut(s)
    PROVE  /\ \A c \in Circuits : AsleepInv(c)'
           /\ \A r \in Streams : StreamInv(r)'
<1>. USE DEF chanVars, circVars, streamVars, netVars
<1>0. /\ TypeOK /\ s \in Threads /\ Of[s] \in Circuits
      /\ streams \in [Circuits -> SUBSET Streams]
  BY ThreadsAre DEF LifeInv, TypeOK
<1>1. /\ UNCHANGED <<hops, waiter, answer, destroyed, tell, failed>>
      /\ \A u \in Threads : u # s => pc'[u] = pc[u]
  BY StreamMoves
<1>2. \A c \in Circuits : c \in destroyed => streams'[c] \subseteq streams[c]
  <2>1. \/ streams' = streams
        \/ Of[s] \notin destroyed /\ streams' = [streams EXCEPT ![Of[s]] = @ \cup {s}]
        \/ streams' = [streams EXCEPT ![Of[s]] = @ \ {s}]
    BY DEF StreamStep, RegisterStream, SendBegin, Opened, OpenTimesOut, CloseStream, SendEnd,
       UnregisterStream
  <2>. QED BY <1>0, <2>1
<1>3. ASSUME NEW c \in Circuits PROVE AsleepInv(c)'
  <2>1. AsleepInv(c) /\ pc'[c] = pc[c]
    BY <1>1, ThreadsAre DEF LifeInv
  <2>. QED BY <1>1, <1>2, <2>1 DEF AsleepInv
<1>4. ASSUME NEW r \in Streams, r # s PROVE StreamInv(r)'
  <2>1. StreamInv(r) /\ pc'[r] = pc[r] /\ (r \in streams'[Of[r]] <=> r \in streams[Of[r]])
    BY <1>1, <1>4, StreamMoves, ThreadsAre DEF LifeInv
  <2>. QED BY <1>1, <2>1 DEF StreamInv
<1>5. StreamInv(s)'
  <2>1. StreamInv(s)
    BY DEF LifeInv
  <2>2. CASE RegisterStream(s)
    <3>1. hops[Of[s]] = PathLength
      BY <2>2 DEF RegisterStream
    <3>2. /\ Of[s] \in destroyed => pc'[s] \in Gone
          /\ Of[s] \notin destroyed => s \in streams'[Of[s]]
      BY <1>0, <2>2, Moves DEF RegisterStream, Gone
    <3>. QED BY <1>1, <3>1, <3>2 DEF StreamInv, Gone, Waiting
  <2>3. CASE SendBegin(s) \/ Opened(s)
    <3>1. /\ pc[s] \in Waiting /\ streams' = streams
      BY <2>3 DEF SendBegin, Opened, Waiting
    <3>. QED BY <1>1, <2>1, <3>1 DEF StreamInv, Waiting
  <2>4. CASE CloseStream(s) \/ SendEnd(s) \/ UnregisterStream(s) \/ OpenTimesOut(s)
    <3>1. pc[s] # "new" /\ pc'[s] \notin Waiting
      BY <1>0, <2>4, Moves DEF CloseStream, SendEnd, UnregisterStream, OpenTimesOut, Waiting
    <3>. QED BY <1>1, <2>1, <3>1 DEF StreamInv
  <2>. QED BY <2>2, <2>3, <2>4 DEF StreamStep
<1>. QED BY <1>3, <1>4, <1>5

LEMMA CloseKeepsAsleep ==
    ASSUME LifeInv, TypeOK', NEW t \in Threads, CloseStep(t) \/ (t \in Closers /\ ClientCloses(t))
    PROVE  /\ \A c \in Circuits : AsleepInv(c)'
           /\ \A s \in Streams : StreamInv(s)'
<1>1. /\ \A c \in Circuits : pc'[c] = pc[c] \/ pc'[c] \in Gone
      /\ \A s \in Streams : pc'[s] = pc[s] \/ (pc'[s] \in Gone /\ pc[s] # "new")
  BY CloseMoves, ThreadsAre DEF Gone
<1>2. UNCHANGED <<hops, answer, failed>>
  BY CloseMoves
<1>3. CASE UNCHANGED <<destroyed, waiter, tell, streams>>
  BY <1>1, <1>2, <1>3 DEF LifeInv, AsleepInv, StreamInv, Gone, Waiting
<1>4. CASE Circuit(t) \notin destroyed /\ MarkDestroyed(Circuit(t))
  <2>1. Circuit(t) \in Circuits
    BY ThreadsAre
  <2>2. answer' = answer /\ hops' = hops /\ failed' = failed
    BY <1>2
  <2>. QED BY <1>1, <1>4, <2>1, <2>2, MarkingTells, Zenon
<1>. QED BY <1>3, <1>4, CloseMoves

LEMMA TellKeepsAsleep ==
    ASSUME LifeInv, TypeOK', TellStep
    PROVE  /\ \A c \in Circuits : AsleepInv(c)'
           /\ \A s \in Streams : StreamInv(s)'
<1>. USE DEF chanVars, streamVars, netVars
<1>0. /\ tell \in [Circuits -> SUBSET (Circuits \cup Streams)]
      /\ answer \in [Circuits -> [cmd : {"pending", "error", "BUILT", "BAD"}, hop : 0 .. PathLength]]
      /\ \A s \in Streams : Of[s] \in Circuits /\ s \notin Circuits
      /\ Error # Pending
  BY ThreadsAre DEF LifeInv, TypeOK, Error, Pending
<1>1. ASSUME NEW d \in Circuits, TellBuilder(d)
      PROVE  /\ \A c \in Circuits : AsleepInv(c)'
             /\ \A s \in Streams : StreamInv(s)'
  <2>. USE <1>1 DEF TellBuilder
  <2>1. ASSUME NEW c \in Circuits PROVE AsleepInv(c)'
    <3>1. AsleepInv(c)
      BY DEF LifeInv
    <3>. QED BY <1>0, <3>1 DEF AsleepInv
  <2>2. ASSUME NEW s \in Streams PROVE StreamInv(s)'
    <3>1. StreamInv(s) /\ (s \in tell[Of[s]] => s \in tell'[Of[s]])
      BY <1>0 DEF LifeInv
    <3>. QED BY <3>1 DEF StreamInv
  <2>. QED BY <2>1, <2>2
<1>2. ASSUME NEW r \in Streams, TellStream(r)
      PROVE  /\ \A c \in Circuits : AsleepInv(c)'
             /\ \A s \in Streams : StreamInv(s)'
  <2>. USE <1>2 DEF TellStream
  <2>1. ASSUME NEW c \in Circuits PROVE AsleepInv(c)'
    <3>1. AsleepInv(c) /\ (c \in tell[c] => c \in tell'[c])
      BY <1>0 DEF LifeInv
    <3>. QED BY <3>1 DEF AsleepInv
  <2>2. ASSUME NEW s \in Streams PROVE StreamInv(s)'
    <3>1. StreamInv(s) /\ (s \in tell[Of[s]] => s \in tell'[Of[s]] \cup failed')
      BY <1>0 DEF LifeInv
    <3>. QED BY <3>1 DEF StreamInv
  <2>. QED BY <2>1, <2>2
<1>. QED BY <1>1, <1>2 DEF TellStep

LEMMA ReceiverKeepsAsleep ==
    ASSUME LifeInv, TypeOK',
           ReceiverStep \/ Shutdown \/ CloseChannel \/ RelayAnswers \/ RelaySendsExtra
    PROVE  /\ \A c \in Circuits : AsleepInv(c)'
           /\ \A s \in Streams : StreamInv(s)'
<1>. USE DEF chanVars, tableVars, circVars, streamVars, netVars
<1>0. pc' = pc /\ hops' = hops /\ failed' = failed
  BY OthersMove DEF ReceiverStep, Shutdown, CloseChannel, RelayAnswers, RelaySendsExtra, DropCell,
     FireBuild, HandleStreamCell, HandleDestroy, TellSink, ReceiverExits
<1>1. ASSUME NEW d \in Circuits, ReceiverTearsDown(d), answer' = answer
      PROVE  /\ \A c \in Circuits : AsleepInv(c)'
             /\ \A s \in Streams : StreamInv(s)'
  <2>1. CASE UNCHANGED <<destroyed, waiter, tell, streams>>
    BY <1>0, <1>1, <2>1 DEF LifeInv, AsleepInv, StreamInv
  <2>2. CASE d \notin destroyed /\ MarkDestroyed(d)
    BY <1>0, <1>1, <2>2, MarkingTells, Zenon
  <2>. QED BY <1>1, <2>1, <2>2 DEF ReceiverTearsDown
<1>2. CASE HandleDestroy
  <2>1. Head(back).circ \in Circuits
    BY <1>2, DispatchTakes DEF HandleDestroy, LifeInv
  <2>. QED BY <1>1, <1>2, <2>1 DEF HandleDestroy
<1>3. ASSUME NEW d \in Circuits, TellSink(d)
      PROVE  /\ \A c \in Circuits : AsleepInv(c)'
             /\ \A s \in Streams : StreamInv(s)'
  BY <1>1, <1>3 DEF TellSink
<1>4. CASE \/ DropCell \/ HandleStreamCell \/ ReceiverExits
           \/ Shutdown \/ CloseChannel \/ RelayAnswers \/ RelaySendsExtra
  <2>1. UNCHANGED circVars
    BY <1>4 DEF DropCell, HandleStreamCell, ReceiverExits, Shutdown, CloseChannel, RelayAnswers,
       RelaySendsExtra
  <2>. QED BY <1>0, <2>1 DEF LifeInv, AsleepInv, StreamInv
<1>5. CASE FireBuild
  <2>1. UNCHANGED <<destroyed, streams, tell>>
    BY <1>5 DEF FireBuild
  <2>2. ASSUME NEW c \in Circuits PROVE AsleepInv(c)'
    <3>1. AsleepInv(c)
      BY DEF LifeInv
    <3>2. \/ (c \in waiter' <=> c \in waiter) /\ answer'[c] = answer[c]
          \/ c \in waiter /\ c \notin waiter' /\ answer'[c] # Pending
      <4>1. Head(back).cmd \in {"BUILT", "BAD"} /\ Head(back).circ \in Circuits
        BY <1>5, DispatchTakes DEF FireBuild, LifeInv
      <4>2. answer \in [Circuits -> [cmd : {"pending", "error", "BUILT", "BAD"},
                                     hop : 0 .. PathLength]]
        BY DEF LifeInv, TypeOK
      <4>. QED BY <1>5, <4>1, <4>2 DEF FireBuild, Pending
    <3>. QED BY <1>0, <2>1, <3>1, <3>2 DEF AsleepInv
  <2>3. ASSUME NEW s \in Streams PROVE StreamInv(s)'
    BY <1>0, <2>1, <2>3 DEF LifeInv, StreamInv
  <2>. QED BY <2>2, <2>3
<1>. QED BY <1>2, <1>3, <1>4, <1>5, Zenon DEF ReceiverStep

-------------------------------------------------------------------------------
(* The registries, the closers and the last stream                           *)

LEMMA RegistryStays ==
    ASSUME LifeInv, NEW c \in Circuits, streams'[c] \subseteq streams[c],
           \A s \in streams'[c] : pc'[s] = pc[s]
    PROVE  RegistryInv(c)'
BY DEF LifeInv, RegistryInv

LEMMA IdleStays ==
    ASSUME LifeInv, NEW c \in Circuits, c \in sinks' => c \in sinks,
           c \in destroyed => c \in destroyed', \A s \in Streams : pc'[s] = pc[s]
    PROVE  IdleInv(c)'
BY DEF LifeInv, IdleInv

LEMMA BuildKeepsRest ==
    ASSUME LifeInv, NEW d \in Circuits, BuildStep(d) \/ BuildTimesOut(d)
    PROVE  /\ \A c \in Circuits : RegistryInv(c)' /\ IdleInv(c)'
           /\ \A t \in Threads : CloserInv(t)'
<1>0. /\ \A s \in Streams : pc'[s] = pc[s]
      /\ streams' = streams /\ destroyed' = destroyed
      /\ streams \in [Circuits -> SUBSET Streams]
  BY BuildMoves, ThreadsAre DEF LifeInv, TypeOK
<1>1. ASSUME NEW c \in Circuits PROVE RegistryInv(c)'
  BY <1>0, RegistryStays
<1>2. ASSUME NEW c \in Circuits PROVE IdleInv(c)'
  <2>1. CASE c \in sinks' => c \in sinks
    BY <1>0, <2>1, IdleStays
  <2>2. CASE c \in sinks' /\ c \notin sinks
    <3>1. c = d /\ pc[c] = "new"
      BY <2>2, BuildMoves DEF BuildStep, Register, Arm, SendBuild, AddHop, BuildFails,
         BuildTimesOut, chanVars
    <3>2. hops[c] # PathLength
      BY <3>1, LifeAssumption DEF LifeInv, BuilderInv
    <3>3. \A s \in Streams : Of[s] = c => pc'[s] = "new"
      BY <1>0, <3>2 DEF LifeInv, StreamInv
    <3>. QED BY <3>3 DEF IdleInv
  <2>. QED BY <2>1, <2>2
<1>3. ASSUME NEW t \in Threads PROVE CloserInv(t)'
  <2>1. CASE t # d
    BY <1>0, <2>1, BuildMoves DEF LifeInv, CloserInv
  <2>2. CASE t = d
    <3>1. pc'[d] \notin {"tell", "unsink"}
      BY Moves, ThreadsAre DEF LifeInv, BuildStep, Register, Arm, SendBuild, AddHop, BuildFails,
         BuildTimesOut
    <3>. QED BY <2>2, <3>1 DEF CloserInv
  <2>. QED BY <2>1, <2>2
<1>. QED BY <1>1, <1>2, <1>3

LEMMA StreamKeepsRest ==
    ASSUME LifeInv, NEW s \in Streams, StreamStep(s) \/ OpenTimesOut(s)
    PROVE  /\ \A c \in Circuits : RegistryInv(c)' /\ IdleInv(c)'
           /\ \A t \in Threads : CloserInv(t)'
<1>0. /\ \A r \in Streams : r # s => pc'[r] = pc[r]
      /\ sinks' = sinks /\ destroyed' = destroyed
      /\ streams \in [Circuits -> SUBSET Streams]
      /\ s \in Threads /\ Of[s] \in Circuits
      /\ \A r \in Streams, d \in Circuits : r # s => (r \in streams'[d] <=> r \in streams[d])
  BY StreamMoves, ThreadsAre DEF LifeInv, TypeOK, chanVars
<1>. DEFINE left == streams[Of[s]] \ {s}
<1>1. \/ pc'[s] \in Using /\ (streams' = streams \/ streams' = [streams EXCEPT ![Of[s]] = @ \cup {s}])
      \/ /\ pc[s] = "new" /\ streams' = streams
         /\ pc'[s] = IF CloseWhenIdle THEN "close" ELSE "ended"
      \/ /\ streams' = [streams EXCEPT ![Of[s]] = left]
         /\ pc'[s] = IF CloseWhenIdle /\ left = {} THEN "close" ELSE "ended"
  <2>1. CASE RegisterStream(s)
    BY <1>0, <2>1, Moves DEF LifeInv, RegisterStream, Using, Waiting
  <2>2. CASE UnregisterStream(s)
    BY <1>0, <2>2, Moves DEF LifeInv, UnregisterStream
  <2>3. CASE SendBegin(s) \/ Opened(s) \/ OpenTimesOut(s) \/ CloseStream(s) \/ SendEnd(s)
    <3>1. streams' = streams
      BY <2>3 DEF SendBegin, Opened, OpenTimesOut, CloseStream, SendEnd, circVars
    <3>2. pc'[s] \in Using
      BY <1>0, <2>3, Moves DEF LifeInv, SendBegin, Opened, OpenTimesOut, CloseStream, SendEnd,
         Using, Waiting
    <3>. QED BY <3>1, <3>2
  <2>. QED BY <2>1, <2>2, <2>3 DEF StreamStep
<1>2. ASSUME NEW c \in Circuits PROVE RegistryInv(c)'
  <2>1. ASSUME NEW r \in streams'[c], r # s PROVE Of[r] = c /\ pc'[r] \in Using
    <3>1. r \in Streams
      BY <1>0, <1>1, <2>1
    <3>. QED BY <1>0, <2>1, <3>1 DEF LifeInv, RegistryInv
  <2>2. ASSUME s \in streams'[c] PROVE Of[s] = c /\ pc'[s] \in Using
    <3>1. s \in streams[c] => Of[s] = c /\ pc[s] \in Using
      BY DEF LifeInv, RegistryInv
    <3>2. pc[s] # "new" \/ pc[s] \notin Using
      BY DEF Using, Waiting
    <3>. QED BY <1>0, <1>1, <2>2, <3>1, <3>2 DEF Using, Waiting
  <2>. QED BY <2>1, <2>2 DEF RegistryInv
<1>3. ASSUME NEW c \in Circuits PROVE IdleInv(c)'
  <2>1. CASE Of[s] # c
    BY <1>0, <2>1 DEF LifeInv, IdleInv
  <2>2. CASE Of[s] = c /\ pc'[s] \notin {"new", "ended"}
    BY <2>2 DEF IdleInv
  <2>3. CASE Of[s] = c /\ CloseWhenIdle /\ pc'[s] \in {"new", "ended"}
    <3>1. left # {}
      BY <1>1, <2>3 DEF Using, Waiting
    <3>2. PICK r \in left : TRUE
      BY <3>1
    <3>3. r \in Streams /\ r # s /\ Of[r] = c /\ pc[r] \in Using
      BY <1>0, <2>3, <3>2 DEF LifeInv, RegistryInv
    <3>4. pc'[r] \notin {"new", "ended"}
      BY <1>0, <3>3 DEF Using, Waiting
    <3>. QED BY <3>3, <3>4 DEF IdleInv
  <2>4. CASE ~CloseWhenIdle
    BY <2>4 DEF IdleInv
  <2>. QED BY <2>1, <2>2, <2>3, <2>4
<1>4. ASSUME NEW t \in Threads PROVE CloserInv(t)'
  <2>1. CASE t # s
    BY <1>0, <2>1, StreamMoves DEF LifeInv, CloserInv
  <2>2. CASE t = s
    <3>1. pc'[s] \notin {"tell", "unsink"}
      BY <1>1 DEF Using, Waiting
    <3>. QED BY <2>2, <3>1 DEF CloserInv
  <2>. QED BY <2>1, <2>2
<1>. QED BY <1>2, <1>3, <1>4

LEMMA CloseKeepsRest ==
    ASSUME LifeInv, NEW t \in Threads, CloseStep(t) \/ (t \in Closers /\ ClientCloses(t))
    PROVE  /\ \A c \in Circuits : RegistryInv(c)' /\ IdleInv(c)'
           /\ \A u \in Threads : CloserInv(u)'
<1>0. /\ \A u \in Threads : u # t => pc'[u] = pc[u]
      /\ t \notin Closers => pc[t] \in Gone
      /\ pc'[t] \in Gone
      /\ pc'[t] = "ended" => Circuit(t) \notin sinks' /\ Circuit(t) \in destroyed
      /\ pc'[t] \in {"tell", "unsink"} => Circuit(t) \in destroyed'
      /\ sinks' \subseteq sinks
      /\ Circuit(t) \in Circuits
      /\ t \in Streams => Of[t] = Circuit(t)
  BY CloseMoves, ThreadsAre
<1>1. /\ streams \in [Circuits -> SUBSET Streams]
      /\ destroyed \subseteq destroyed' /\ \A c \in Circuits : streams'[c] \subseteq streams[c]
  BY <1>0, CloseMoves DEF LifeInv, TypeOK, MarkDestroyed
<1>2. ASSUME NEW c \in Circuits PROVE RegistryInv(c)'
  <2>1. ASSUME NEW s \in streams[c] PROVE pc'[s] = pc[s]
    <3>1. s \in Streams /\ pc[s] \in Using
      BY <1>1, <2>1 DEF LifeInv, RegistryInv
    <3>2. pc[s] \notin Gone /\ s \in Threads /\ s \notin Closers
      BY <3>1, ThreadsAre DEF Using, Waiting, Gone
    <3>. QED BY <1>0, <3>2
  <2>. QED BY <1>1, <2>1, RegistryStays
<1>3. ASSUME NEW c \in Circuits PROVE IdleInv(c)'
  <2>1. CASE t \in Streams /\ Of[t] = c /\ pc'[t] = "ended"
    BY <1>0, <1>1, <2>1 DEF IdleInv
  <2>2. CASE t \in Streams /\ Of[t] = c /\ pc'[t] # "ended"
    BY <1>0, <2>2 DEF IdleInv, Gone
  <2>3. CASE ~(t \in Streams /\ Of[t] = c)
    <3>1. \A s \in Streams : Of[s] = c => pc'[s] = pc[s]
      BY <1>0, <2>3, ThreadsAre
    <3>. QED BY <1>0, <1>1, <3>1 DEF LifeInv, IdleInv
  <2>. QED BY <2>1, <2>2, <2>3
<1>4. ASSUME NEW u \in Threads PROVE CloserInv(u)'
  BY <1>0, <1>1 DEF LifeInv, CloserInv
<1>. QED BY <1>2, <1>3, <1>4

LEMMA OthersKeepRest ==
    ASSUME LifeInv,
           TellStep \/ ReceiverStep \/ Shutdown \/ CloseChannel \/ RelayAnswers \/ RelaySendsExtra
    PROVE  /\ \A c \in Circuits : RegistryInv(c)' /\ IdleInv(c)'
           /\ \A t \in Threads : CloserInv(t)'
<1>0. /\ pc' = pc /\ sinks' \subseteq sinks
      /\ streams \in [Circuits -> SUBSET Streams]
  BY OthersMove DEF LifeInv, TypeOK
<1>1. destroyed \subseteq destroyed' /\ \A c \in Circuits : streams'[c] \subseteq streams[c]
  BY <1>0, OthersMove DEF MarkDestroyed
<1>2. ASSUME NEW c \in Circuits PROVE RegistryInv(c)' /\ IdleInv(c)'
  BY <1>0, <1>1, RegistryStays, IdleStays
<1>3. ASSUME NEW t \in Threads PROVE CloserInv(t)'
  BY <1>0, <1>1 DEF LifeInv, CloserInv
<1>. QED BY <1>2, <1>3

-------------------------------------------------------------------------------
(* The invariant holds                                                       *)

LEMMA LifeInvInit == ASSUME Init PROVE LifeInv
<1>. USE DEF Init
<1>1. TypeOK
  <2>1. ChanTyped /\ StreamsTyped
    BY DEF ChanTyped, StreamsTyped
  <2>2. ThreadsTyped
    BY LabelsAre DEF ThreadsTyped
  <2>3. CircTyped
    BY LifeAssumption DEF CircTyped, Pending
  <2>4. NetTyped
    BY DEF NetTyped
  <2>. QED BY <2>1, <2>2, <2>3, <2>4, TypeParts
<1>2. \A c \in Circuits : pc[c] = "new" /\ streams[c] = {} /\ c \notin destroyed
  BY ThreadsAre
<1>3. \A s \in Streams : pc[s] = "new"
  BY ThreadsAre
<1>4. ASSUME NEW c \in Circuits
      PROVE  BuilderInv(c) /\ RequestsInv(c) /\ AsleepInv(c) /\ RegistryInv(c) /\ IdleInv(c)
  BY <1>2, <1>3 DEF BuilderInv, RequestsInv, Absent, AsleepInv, RegistryInv, IdleInv
<1>5. ASSUME NEW s \in Streams PROVE StreamInv(s)
  BY <1>3 DEF StreamInv, Waiting
<1>6. ASSUME NEW t \in Threads PROVE CloserInv(t)
  BY DEF CloserInv
<1>. QED BY <1>1, <1>4, <1>5, <1>6 DEF LifeInv

(* Each kind of step keeps every part.                                       *)
LEMMA LifeInvStep == ASSUME LifeInv, [Next]_vars PROVE LifeInv'
<1>. DEFINE Parts == /\ \A c \in Circuits : BuilderInv(c) /\ RequestsInv(c)
                     /\ \A c \in Circuits : AsleepInv(c)
                     /\ \A c \in Circuits : RegistryInv(c) /\ IdleInv(c)
                     /\ \A s \in Streams : StreamInv(s)
                     /\ \A t \in Threads : CloserInv(t)
<1>1. ASSUME NEW c \in Circuits, BuildStep(c) \/ BuildTimesOut(c) PROVE TypeOK' /\ Parts'
  <2>1. TypeOK'
    BY <1>1, BuildKeepsTypes
  <2>. QED BY <1>1, <2>1, BuildKeepsRequests, BuildKeepsAsleep, BuildKeepsRest
<1>2. ASSUME NEW s \in Streams, StreamStep(s) \/ OpenTimesOut(s) PROVE TypeOK' /\ Parts'
  <2>1. TypeOK'
    BY <1>2, StreamKeepsTypes
  <2>. QED BY <1>2, <2>1, StreamKeepsRequests, StreamKeepsAsleep, StreamKeepsRest
<1>3. ASSUME NEW t \in Threads, CloseStep(t) \/ (t \in Closers /\ ClientCloses(t))
      PROVE  TypeOK' /\ Parts'
  <2>1. TypeOK'
    BY <1>3, CloseKeepsTypes
  <2>. QED BY <1>3, <2>1, CloseKeepsRequests, CloseKeepsAsleep, CloseKeepsRest
<1>4. CASE TellStep
  <2>1. TypeOK'
    BY <1>4, TellKeepsTypes
  <2>2. \A c \in Circuits : BuilderInv(c)' /\ RequestsInv(c)'
    BY <1>4, <2>1, TellKeepsRequests
  <2>3. /\ \A c \in Circuits : AsleepInv(c)'
        /\ \A s \in Streams : StreamInv(s)'
    BY <1>4, <2>1, TellKeepsAsleep
  <2>4. /\ \A c \in Circuits : RegistryInv(c)' /\ IdleInv(c)'
        /\ \A t \in Threads : CloserInv(t)'
    BY <1>4, OthersKeepRest
  <2>. QED BY <2>1, <2>2, <2>3, <2>4 DEF LifeInv
<1>5. CASE ReceiverStep \/ Shutdown \/ CloseChannel
  <2>1. TypeOK'
    BY <1>5, ReceiverKeepsTypes
  <2>2. \A c \in Circuits : BuilderInv(c)' /\ RequestsInv(c)'
    BY <1>5, <2>1, ReceiverKeepsRequests
  <2>3. /\ \A c \in Circuits : AsleepInv(c)'
        /\ \A s \in Streams : StreamInv(s)'
    BY <1>5, <2>1, ReceiverKeepsAsleep
  <2>4. /\ \A c \in Circuits : RegistryInv(c)' /\ IdleInv(c)'
        /\ \A t \in Threads : CloserInv(t)'
    BY <1>5, OthersKeepRest
  <2>. QED BY <2>1, <2>2, <2>3, <2>4 DEF LifeInv
<1>6. CASE RelayAnswers \/ RelaySendsExtra
  <2>1. TypeOK'
    BY <1>6, RelaysKeepTypes
  <2>2. \A c \in Circuits : BuilderInv(c)' /\ RequestsInv(c)'
    BY <1>6, <2>1, RelaysKeepRequests
  <2>3. /\ \A c \in Circuits : AsleepInv(c)'
        /\ \A s \in Streams : StreamInv(s)'
    BY <1>6, <2>1, ReceiverKeepsAsleep
  <2>4. /\ \A c \in Circuits : RegistryInv(c)' /\ IdleInv(c)'
        /\ \A t \in Threads : CloserInv(t)'
    BY <1>6, OthersKeepRest
  <2>. QED BY <2>1, <2>2, <2>3, <2>4 DEF LifeInv
<1>7. CASE UNCHANGED vars
  <2>. USE <1>7 DEF vars
  <2>1. TypeOK'
    BY DEF LifeInv, TypeOK
  <2>2. \A c \in Circuits : BuilderInv(c)' /\ RequestsInv(c)'
    BY DEF LifeInv, BuilderInv, RequestsInv, Absent, OneAtMost
  <2>3. \A c \in Circuits : AsleepInv(c)'
    BY DEF LifeInv, AsleepInv
  <2>4. \A c \in Circuits : RegistryInv(c)' /\ IdleInv(c)'
    BY DEF LifeInv, RegistryInv, IdleInv
  <2>5. \A s \in Streams : StreamInv(s)'
    BY DEF LifeInv, StreamInv
  <2>6. \A t \in Threads : CloserInv(t)'
    BY DEF LifeInv, CloserInv
  <2>. QED BY <2>1, <2>2, <2>3, <2>4, <2>5, <2>6 DEF LifeInv
<1>8. TypeOK' /\ Parts' => LifeInv'
  BY DEF LifeInv
<1>. HIDE DEF Parts
<1>9. Closers \subseteq Threads
  BY DEF Threads
<1>. QED BY <1>1, <1>2, <1>3, <1>4, <1>5, <1>6, <1>7, <1>8, <1>9 DEF Next

(* What each builder, stream, closer and the receiver know of the circuit at *)
(* the place where they stand holds in every reachable state.                *)
THEOREM LifeInvariant == Spec => []LifeInv
<1>1. Init => LifeInv
  BY LifeInvInit
<1>2. LifeInv /\ [Next]_vars => LifeInv'
  BY LifeInvStep
<1>. QED BY <1>1, <1>2, PTL DEF Spec

-------------------------------------------------------------------------------
(* The theorems                                                              *)

(* Every variable keeps its type.                                            *)
THEOREM TypesOK == Spec => []TypeOK
<1>1. LifeInv => TypeOK
  BY DEF LifeInv
<1>. QED BY <1>1, LifeInvariant, PTL

(* A circuit that _teardown marked has empty registries, and each builder or *)
(* stream that still sleeps on one of its events is on the list of those     *)
(* that _teardown is about to tell (circuit.py: _arm_build_waiter,           *)
(* register_stream and _teardown).                                           *)
THEOREM NobodyIsForgotten == Spec => []NobodyForgotten
<1>1. LifeInv => NobodyForgotten
  <2>. SUFFICES ASSUME LifeInv, NEW c \in destroyed
       PROVE  /\ c \notin waiter /\ streams[c] = {}
              /\ pc[c] \in {"send", "await"} /\ answer[c] = Pending => c \in tell[c]
              /\ \A s \in Streams :
                    Of[s] = c /\ pc[s] \in {"begin", "await", "open"} => s \in tell[c] \cup failed
    BY DEF NobodyForgotten
  <2>1. c \in Circuits
    BY DEF LifeInv, TypeOK
  <2>2. AsleepInv(c) /\ \A s \in Streams : StreamInv(s)
    BY <2>1 DEF LifeInv
  <2>. QED BY <2>2 DEF AsleepInv, StreamInv, Waiting
<1>. QED BY <1>1, LifeInvariant, PTL

(* After an error at any step of build_circuit the channel does not know the *)
(* circuit, whatever DESTROY, late reply or shutdown it raced with.          *)
THEOREM FailedBuildsLeaveNothing == Spec => []FailedBuildLeavesNothing
<1>1. LifeInv => FailedBuildLeavesNothing
  BY DEF LifeInv, BuilderInv, FailedBuildLeavesNothing
<1>. QED BY <1>1, LifeInvariant, PTL

(* The answer a builder takes from its waiter is the answer to the request   *)
(* it sent last: requests and answers of one circuit are never two under way *)
(* while its builder goes on.                                                *)
THEOREM RepliesAreMatched == Spec => []RepliesMatch
<1>1. LifeInv => RepliesMatch
  BY DEF LifeInv, BuilderInv, RepliesMatch
<1>. QED BY <1>1, LifeInvariant, PTL

(* A single-request circuit whose streams are done is destroyed and unknown  *)
(* to the channel, whoever destroyed it and whether the streams opened.      *)
THEOREM IdleCircuitsClose == Spec => []IdleCircuitCloses
<1>1. LifeInv => IdleCircuitCloses
  <2>. SUFFICES ASSUME LifeInv, NEW c \in Circuits, CloseWhenIdle,
                       NEW s \in Streams, Of[s] = c,
                       \A r \in Streams : Of[r] = c => pc[r] = "ended"
       PROVE  c \notin sinks /\ c \in destroyed
    BY DEF IdleCircuitCloses
  <2>. QED BY DEF LifeInv, IdleInv
<1>. QED BY <1>1, LifeInvariant, PTL

===============================================================================
