-------------------------- MODULE CircuitFlow_proofs --------------------------
(* Proofs about CircuitFlow, for every set of streams, every window size and *)
(* every bound.                                                              *)
EXTENDS CircuitFlow, FiniteSetTheorems, SequenceTheorems, TLAPS

USE DEF Threads, Kinds, Reasons

-------------------------------------------------------------------------------
(* What the operators on windows return.                                     *)

LEMMA WindowType ==
    ASSUME NEW w \in PackageWindow, NEW i \in Nat
    PROVE  /\ Refill(w, i) \in PackageWindow
           /\ CloseWindow(w) \in PackageWindow
           /\ CanTake(w) => Take(w) \in PackageWindow
           /\ Refill(w, i).value = w.value + i
           /\ CloseWindow(w).value = w.value
           /\ CanTake(w) => Take(w).value = w.value - 1
BY DEF PackageWindow, Refill, CloseWindow, CanTake, Take

Tracker == [sent : Nat, expected : Seq(Nat)]

LEMMA TrackerType ==
    ASSUME NEW t \in Tracker, NEW i \in Nat \ {0}, NEW d \in Nat
    PROVE  /\ NoteSent(t, i, d) \in Tracker
           /\ AfterVerify(t) \in Tracker
<1>1. NoteSent(t, i, d) \in Tracker
  BY AppendProperties DEF Tracker, NoteSent, AtBoundary
<1>2. AfterVerify(t) \in Tracker
  BY HeadTailProperties DEF Tracker, AfterVerify
<1>. QED BY <1>1, <1>2

(* Counting one more, in a function on streams, at any index.                *)
LEMMA ExtraUnit ==
    ASSUME NEW f \in [Streams -> Nat], NEW t
    PROVE  [f EXCEPT ![t] = @ + 1] \in [Streams -> Nat]
<1>1. CASE t \in Streams
  BY <1>1
<1>2. CASE t \notin Streams
  <2>1. [f EXCEPT ![t] = @ + 1] = f
    BY <1>2
  <2>. QED BY <2>1
<1>. QED BY <1>1, <1>2

LEMMA SendmeType ==
    ASSUME NEW s \in Streams \cup {Nobody}, NEW d \in Nat
    PROVE  Sendme(s, d) \in BackCell
BY DEF Sendme, BackCell

(* The type is an invariant: TypeOK of every reachable state.                *)
THEOREM TypeCorrect == Spec => []TypeOK
<1>1. Init => TypeOK
  <2>1. Init => pc \in [Threads -> PCs]
    BY DEF Init, PCs
  <2>2. Init => kind \in [Threads -> Kinds] /\ tx \in Threads \cup {Nobody}
                /\ reason \in Reasons
    BY DEF Init
  <2>3. Init => cwin \in PackageWindow /\ swin \in [Streams -> PackageWindow]
    BY WindowAssumption DEF Init, OpenWindow, PackageWindow
  <2>4. Init => tracker \in [sent : Nat, expected : Seq(Nat)]
    BY EmptySeq DEF Init
  <2>5. Init => wire \in Seq(WireCell) /\ back \in Seq(BackCell)
    BY EmptySeq DEF Init
  <2>6. Init => /\ rstream \in [Streams -> Nat] /\ slost \in [Streams -> Nat]
                /\ cells \in [Streams -> Nat]
    BY DEF Init
  <2>7. Init => /\ deliver \in Nat /\ stamped \in Nat /\ rseen \in Nat
                /\ rdata \in Nat /\ lost \in Nat /\ down \in Nat
                /\ forged \in Nat /\ timeouts \in Nat
    BY DEF Init
  <2>8. Init => /\ destroyed \in BOOLEAN /\ chanClosed \in BOOLEAN
                /\ rup \in BOOLEAN /\ unnotified \subseteq Streams
    BY DEF Init
  <2>. QED BY <2>1, <2>2, <2>3, <2>4, <2>5, <2>6, <2>7, <2>8 DEF TypeOK
<1>2. TypeOK /\ [Next]_vars => TypeOK'
  <2>. SUFFICES ASSUME TypeOK, [Next]_vars PROVE TypeOK'
    OBVIOUS
  <2>. USE ThreadsAssumption, WindowAssumption
       DEF TypeOK, relayVars, boundVars
  <2>1. ASSUME NEW s \in Streams, UserStep(s) PROVE TypeOK'
    <3>1. CASE SendData(s)
      <4>1. pc' \in [Threads -> PCs]
        BY <3>1 DEF SendData, Goto, PCs
      <4>2. cells' \in [Streams -> Nat]
        BY <3>1, ExtraUnit DEF SendData
      <4>. QED BY <3>1, <4>1, <4>2 DEF SendData, endVars, netVars
    <3>2. CASE SendControl(s)
      <4>1. pc' \in [Threads -> PCs]
        BY <3>2 DEF SendControl, Goto, PCs
      <4>2. cells' \in [Streams -> Nat]
        BY <3>2, ExtraUnit DEF SendControl
      <4>. QED BY <3>2, <4>1, <4>2 DEF SendControl, endVars, netVars
    <3>. QED BY <2>1, <3>1, <3>2 DEF UserStep
  <2>2. ASSUME NEW s \in Streams, SendStep(s) PROVE TypeOK'
    <3>1. CASE TakeStreamUnit(s)
      BY <3>1, WindowType DEF TakeStreamUnit, endVars, netVars, ghostVars, Goto, PCs
    <3>2. CASE SleepOnStream(s)
      BY <3>2 DEF SleepOnStream, endVars, netVars, ghostVars, Goto, PCs
    <3>3. CASE StreamSendFails(s)
      BY <3>3 DEF StreamSendFails, endVars, netVars, ghostVars, Goto, PCs
    <3>4. CASE TakeCircuitUnit(s)
      BY <3>4, WindowType DEF TakeCircuitUnit, endVars, netVars, ghostVars, Goto, PCs
    <3>5. CASE SleepOnCircuit(s)
      BY <3>5 DEF SleepOnCircuit, endVars, netVars, ghostVars, Goto, PCs
    <3>6. CASE CircuitSendFails(s)
      <4>1. pc' \in [Threads -> PCs]
        BY <3>6 DEF CircuitSendFails, Goto, PCs
      <4>2. slost' \in [Streams -> Nat]
        BY <3>6, ExtraUnit DEF CircuitSendFails
      <4>. QED BY <3>6, <4>1, <4>2 DEF CircuitSendFails, endVars, netVars
    <3>. QED BY <2>2, <3>1, <3>2, <3>3, <3>4, <3>5, <3>6 DEF SendStep
  <2>3. ASSUME NEW s \in Streams, WaitTimesOut(s) PROVE TypeOK'
    <3>1. pc' \in [Threads -> PCs]
      BY <2>3 DEF WaitTimesOut, Goto, PCs
    <3>2. slost' \in [Streams -> Nat]
      BY <2>3, ExtraUnit DEF WaitTimesOut
    <3>3. timeouts' \in Nat
      <4>1. timeouts' = timeouts + 1
        BY <2>3 DEF WaitTimesOut
      <4>. QED BY <4>1
    <3>. QED BY <2>3, <3>1, <3>2, <3>3 DEF WaitTimesOut, endVars, netVars
  <2>4. ASSUME NEW t \in Threads, LockStep(t) PROVE TypeOK'
    <3>1. CASE AcquireTx(t)
      BY <3>1 DEF AcquireTx, endVars, netVars, ghostVars, Goto, PCs
    <3>2. CASE RefuseSend(t)
      <4>1. pc' \in [Threads -> PCs]
        BY <3>2 DEF RefuseSend, Goto, PCs
      <4>2. slost' \in [Streams -> Nat] /\ lost' \in Nat
        <5>1. slost \in [Streams -> Nat] /\ lost \in Nat
          OBVIOUS
        <5>2. \/ slost' = [slost EXCEPT ![t] = @ + 1] /\ lost' = lost + 1
              \/ slost' = slost /\ lost' = lost
          BY <3>2 DEF RefuseSend
        <5>3. [slost EXCEPT ![t] = @ + 1] \in [Streams -> Nat]
          BY <5>1, ExtraUnit, Zenon
        <5>4. slost' \in [Streams -> Nat]
          BY <5>1, <5>2, <5>3, Zenon
        <5>5. lost' = lost + 1 \/ lost' = lost
          BY <5>2, Zenon
        <5>6. lost' \in Nat
          BY <5>1, <5>5
        <5>. QED BY <5>4, <5>6, Zenon
      <4>. QED BY <3>2, <4>1, <4>2 DEF RefuseSend, endVars, netVars
    <3>3. CASE StampForward(t)
      <4>1. pc' \in [Threads -> PCs]
        BY <3>3 DEF StampForward, Goto, PCs
      <4>2. stamped' = stamped + 1 /\ stamped \in Nat
        BY <3>3 DEF StampForward
      <4>3. stamped' \in Nat
        BY <4>2
      <4>. QED BY <3>3, <4>1, <4>3 DEF StampForward, endVars, netVars, ghostVars
    <3>4. CASE NoteDigest(t)
      BY <3>4, TrackerType DEF NoteDigest, Tracker, endVars, netVars, ghostVars, Goto, PCs
    <3>5. CASE Transmit(t)
      <4>1. pc' \in [Threads -> PCs]
        BY <3>5 DEF Transmit, AfterSend, Goto, PCs
      <4>2. [kind |-> kind[t], stream |-> IF t \in Streams THEN t ELSE Nobody]
              \in WireCell
        BY DEF WireCell
      <4>3. wire' \in Seq(WireCell)
        BY <3>5, <4>2 DEF Transmit
      <4>4. slost' \in [Streams -> Nat]
        BY <3>5, ExtraUnit DEF Transmit
      <4>. QED BY <3>5, <4>1, <4>3, <4>4 DEF Transmit, endVars
    <3>. QED BY <2>4, <3>1, <3>2, <3>3, <3>4, <3>5 DEF LockStep
  <2>5. ASSUME NEW t \in Threads, TeardownStep(t) PROVE TypeOK'
    <3>1. CASE CloseCircuitWindow(t)
      BY <3>1, WindowType DEF CloseCircuitWindow, endVars, netVars, ghostVars, Goto, PCs
    <3>2. CASE TeardownReturns(t)
      BY <3>2 DEF TeardownReturns, AfterTeardown, endVars, netVars, ghostVars, Goto, PCs
    <3>3. ASSUME NEW s \in Streams, TellStream(t, s) PROVE TypeOK'
      BY <3>3, WindowType DEF TellStream, netVars, ghostVars
    <3>. QED BY <2>5, <3>1, <3>2, <3>3 DEF TeardownStep
  <2>6. CASE CloseCircuit
    BY <2>6 DEF CloseCircuit, endVars, netVars, ghostVars, Goto, PCs
  <2>7. CASE CloserTeardown
    BY <2>7 DEF CloserTeardown, MarkDestroyed, AfterTeardown, endVars, netVars, ghostVars, Goto, PCs
  <2>8. CASE Unregister
    BY <2>8 DEF Unregister, endVars, netVars, ghostVars, Goto, PCs
  <2>9. ASSUME Reading PROVE back' \in Seq(BackCell) /\ Head(back) \in BackCell
    BY <2>9, HeadTailProperties DEF Reading
  <2>10. CASE DropCell
    BY <2>10, <2>9 DEF DropCell, Reading, clientVars, endVars, ghostVars
  <2>11. CASE ReceiveCircuitSendme
    <3>1. tracker' \in [sent : Nat, expected : Seq(Nat)]
      BY <2>11, TrackerType DEF ReceiveCircuitSendme, Tracker
    <3>2. lost' \in Nat
      BY <2>11 DEF ReceiveCircuitSendme, endVars
    <3>3. /\ pc' \in [Threads -> PCs] /\ destroyed' \in BOOLEAN
          /\ reason' \in Reasons /\ unnotified' \subseteq Streams
      BY <2>11 DEF ReceiveCircuitSendme, MarkDestroyed, AfterTeardown, endVars,
                   Goto, PCs
    <3>. QED BY <2>11, <2>9, <3>1, <3>2, <3>3 DEF ReceiveCircuitSendme, Reading
  <2>12. CASE RefillCircuit
    BY <2>12, WindowType DEF RefillCircuit, endVars, netVars, ghostVars, Goto, PCs
  <2>13. CASE ReceiveStreamSendme
    <3>1. Head(back).stream # Nobody => Head(back).stream \in Streams
      BY <2>13, <2>9 DEF ReceiveStreamSendme, BackCell
    <3>. QED BY <2>13, <2>9, <3>1, WindowType
             DEF ReceiveStreamSendme, Reading, endVars, ghostVars
  <2>14. CASE ReceiveData
    <3>1. pc' \in [Threads -> PCs]
      <4>1. pc' = pc \/ pc' = [pc EXCEPT ![Receiver] = "lock"]
        BY <2>14 DEF ReceiveData, Goto
      <4>2. pc \in [Threads -> PCs] /\ "lock" \in PCs
        BY DEF PCs
      <4>3. [pc EXCEPT ![Receiver] = "lock"] \in [Threads -> PCs]
        BY <4>2, Zenon
      <4>. QED BY <4>1, <4>2, <4>3, Zenon
    <3>2. deliver' \in Nat
      BY <2>14 DEF ReceiveData, NoteReceived
    <3>. QED BY <2>14, <2>9, <3>1, <3>2
             DEF ReceiveData, Reading, endVars, ghostVars
  <2>15. CASE ReceiveDestroy
    BY <2>15, <2>9 DEF ReceiveDestroy, Reading, MarkDestroyed, AfterTeardown, endVars, ghostVars, Goto, PCs
  <2>16. CASE ReceiverStops
    BY <2>16 DEF ReceiverStops, MarkDestroyed, AfterTeardown, endVars, netVars, ghostVars, Goto, PCs
  <2>17. CASE ChannelFails
    BY <2>17 DEF ChannelFails, clientVars, endVars, ghostVars
  <2>18. CASE RelayTakesData
    <3>1. wire' \in Seq(WireCell) /\ Head(wire).stream \in Streams \cup {Nobody}
      <4>1. wire # <<>> /\ wire' = Tail(wire)
        BY <2>18 DEF RelayTakesData
      <4>2. wire' \in Seq(WireCell) /\ Head(wire) \in WireCell
        BY <4>1, HeadTailProperties
      <4>. QED BY <4>2 DEF WireCell
    <3>2. rseen' \in Nat /\ rdata' \in Nat
      BY <2>18 DEF RelayTakesData
    <3>4. rstream' \in [Streams -> Nat]
      <4>. DEFINE s == Head(wire).stream
      <4>1. rstream' = [rstream EXCEPT ![s] = 0]
            \/ rstream' = [rstream EXCEPT ![s] = @ + 1]
        BY <2>18 DEF RelayTakesData
      <4>2. [rstream EXCEPT ![s] = 0] \in [Streams -> Nat]
        <5>1. \A x : [rstream EXCEPT ![x] = 0] \in [Streams -> Nat]
          OBVIOUS
        <5>. QED BY <5>1
      <4>3. [rstream EXCEPT ![s] = @ + 1] \in [Streams -> Nat]
        BY ExtraUnit
      <4>. QED BY <4>1, <4>2, <4>3
    <3>3. back' \in Seq(BackCell)
      <4>. DEFINE ack == Sendme(Nobody, rseen + 1)
                  sack == Sendme(Head(wire).stream, Malformed)
      <4>1. ack \in BackCell /\ sack \in BackCell
        BY <3>1, SendmeType DEF Malformed
      <4>2. <<ack>> \in Seq(BackCell) /\ <<sack>> \in Seq(BackCell)
            /\ <<>> \in Seq(BackCell)
        BY <4>1
      <4>. HIDE DEF ack, sack
      <4>3. back' = back \o (IF CircuitAck THEN <<ack>> ELSE <<>>)
                         \o (IF StreamAck(Head(wire).stream)
                             THEN <<sack>> ELSE <<>>)
        BY <2>18 DEF RelayTakesData, ack, sack
      <4>. QED BY <4>2, <4>3, ConcatProperties
    <3>. QED BY <2>18, <3>1, <3>2, <3>3, <3>4
             DEF RelayTakesData, clientVars, endVars, ghostVars
  <2>19. CASE RelayTakesControl
    <3>1. wire' \in Seq(WireCell)
      BY <2>19, HeadTailProperties DEF RelayTakesControl
    <3>2. rseen' \in Nat /\ rup' \in BOOLEAN
      <4>1. rseen' = rseen \/ rseen' = rseen + 1
        BY <2>19 DEF RelayTakesControl
      <4>2. rseen' \in Nat
        BY <4>1
      <4>3. rup' \in BOOLEAN
        BY <2>19 DEF RelayTakesControl
      <4>. QED BY <4>2, <4>3
    <3>. QED BY <2>19, <3>1, <3>2
             DEF RelayTakesControl, clientVars, endVars, ghostVars
  <2>20. CASE RelayMoves
    <3>1. ASSUME NEW s \in Streams, RelaySendsData(s) PROVE TypeOK'
      <4>1. [cmd |-> "DATA", stream |-> s, digest |-> 0] \in BackCell
        BY DEF BackCell
      <4>2. back' \in Seq(BackCell)
        BY <3>1, <4>1 DEF RelaySendsData
      <4>3. down' = down + 1 /\ down \in Nat
        BY <3>1 DEF RelaySendsData
      <4>4. down' \in Nat
        BY <4>3
      <4>. QED BY <3>1, <4>2, <4>4 DEF RelaySendsData, clientVars, endVars
    <3>2. CASE RelayDestroys
      <4>1. [cmd |-> "DESTROY", stream |-> Nobody, digest |-> 0] \in BackCell
        BY DEF BackCell
      <4>2. back' \in Seq(BackCell)
        BY <3>2, <4>1 DEF RelayDestroys
      <4>. QED BY <3>2, <4>2 DEF RelayDestroys, clientVars, endVars, ghostVars
    <3>3. ASSUME NEW digest \in 0 .. stamped + 1, RelayMakesUpSendme(digest)
          PROVE  TypeOK'
      <4>1. back' \in Seq(BackCell)
        <5>1. digest \in Nat
          BY <3>3
        <5>2. PICK s \in Streams \cup {Nobody} :
                  back' = Append(back, Sendme(s, digest))
          BY <3>3 DEF RelayMakesUpSendme
        <5>. QED BY <5>1, <5>2, SendmeType
      <4>. QED BY <3>3, <4>1 DEF RelayMakesUpSendme, clientVars, endVars
    <3>. QED BY <2>20, <3>1, <3>2, <3>3 DEF RelayMoves
  <2>21. CASE UNCHANGED vars
    BY <2>21 DEF vars
  <2>. QED
    BY <2>1, <2>2, <2>3, <2>4, <2>5, <2>6, <2>7, <2>8, <2>10, <2>11, <2>12,
       <2>13, <2>14, <2>15, <2>16, <2>17, <2>18, <2>19, <2>20, <2>21
       DEF Next, CloserStep, ReceiverStep, RelayAcks
<1>. QED BY <1>1, <1>2, PTL DEF Spec

-------------------------------------------------------------------------------
(* The units of the circuit's window.                                        *)

LEMMA KindsAgreeInit == Init => KindsAgree
BY DEF Init, KindsAgree

LEMMA KindsAgreeStep ==
    ASSUME TypeOK, KindsAgree, [Next]_vars
    PROVE  KindsAgree'
<1>. USE ThreadsAssumption DEF TypeOK, KindsAgree, Goto
<1>1. ASSUME NEW s \in Streams, UserStep(s) PROVE KindsAgree'
  <2>1. CASE SendData(s)
    BY <2>1 DEF SendData
  <2>2. CASE SendControl(s)
    BY <2>2 DEF SendControl
  <2>. QED BY <1>1, <2>1, <2>2 DEF UserStep
<1>2. ASSUME NEW s \in Streams, SendStep(s) PROVE KindsAgree'
  <2>1. CASE TakeStreamUnit(s) \/ SleepOnStream(s) \/ StreamSendFails(s)
    BY <2>1 DEF TakeStreamUnit, SleepOnStream, StreamSendFails
  <2>2. CASE TakeCircuitUnit(s) \/ SleepOnCircuit(s) \/ CircuitSendFails(s)
    BY <2>2 DEF TakeCircuitUnit, SleepOnCircuit, CircuitSendFails
  <2>. QED BY <1>2, <2>1, <2>2 DEF SendStep
<1>3. ASSUME NEW s \in Streams, WaitTimesOut(s) PROVE KindsAgree'
  BY <1>3 DEF WaitTimesOut
<1>4. ASSUME NEW t \in Threads, LockStep(t) PROVE KindsAgree'
  <2>1. CASE AcquireTx(t) \/ RefuseSend(t)
    BY <2>1 DEF AcquireTx, RefuseSend
  <2>2. CASE StampForward(t) \/ NoteDigest(t)
    BY <2>2 DEF StampForward, NoteDigest
  <2>3. CASE Transmit(t)
    BY <2>3 DEF Transmit, AfterSend
  <2>. QED BY <1>4, <2>1, <2>2, <2>3 DEF LockStep
<1>5. ASSUME NEW t \in Threads, TeardownStep(t) PROVE KindsAgree'
  BY <1>5 DEF TeardownStep, CloseCircuitWindow, TeardownReturns, TellStream,
              AfterTeardown
<1>6. CASE CloseCircuit \/ CloserTeardown \/ Unregister
  BY <1>6 DEF CloseCircuit, CloserTeardown, MarkDestroyed, AfterTeardown,
              Unregister
<1>7. CASE ReceiveCircuitSendme \/ ReceiveDestroy \/ ReceiverStops
  BY <1>7 DEF ReceiveCircuitSendme, ReceiveDestroy, ReceiverStops,
              MarkDestroyed, AfterTeardown
<1>8. CASE DropCell \/ RefillCircuit \/ ReceiveStreamSendme \/ ReceiveData
  BY <1>8 DEF DropCell, RefillCircuit, ReceiveStreamSendme, ReceiveData,
              clientVars
<1>9. CASE ChannelFails \/ RelayAcks \/ RelayMoves
  BY <1>9 DEF ChannelFails, RelayAcks, RelayTakesData, RelayTakesControl,
              RelayMoves, RelaySendsData, RelayDestroys, RelayMakesUpSendme,
              clientVars
<1>10. CASE UNCHANGED vars
  BY <1>10 DEF vars
<1>. QED
  BY <1>1, <1>2, <1>3, <1>4, <1>5, <1>6, <1>7, <1>8, <1>9, <1>10
     DEF Next, CloserStep, ReceiverStep

(* Holding is a set of streams, hence finite.                                *)
LEMMA HoldingFinite == IsFiniteSet(Holding) /\ Cardinality(Holding) \in Nat
BY ThreadsAssumption, FS_Subset, FS_CardinalityType DEF Holding

(* A step that moves no unit.                                                *)
LEMMA NothingMoves ==
    ASSUME UnitsConserved, cwin'.value = cwin.value, Holding' = Holding,
           tracker' = tracker, PendingRefill' = PendingRefill, lost' = lost
    PROVE  UnitsConserved'
BY DEF UnitsConserved, Unacknowledged

LEMMA UnitsConservedInit == Init => UnitsConserved
<1>. SUFFICES ASSUME Init PROVE UnitsConserved
  OBVIOUS
<1>1. Holding = {}
  BY DEF Init, Holding
<1>2. Cardinality(Holding) = 0
  BY <1>1, FS_EmptySet
<1>3. PendingRefill = 0
  BY DEF Init, PendingRefill
<1>4. Unacknowledged = 0 /\ lost = 0 /\ cwin.value = CircuitInitial
  BY WindowAssumption DEF Init, Unacknowledged, OpenWindow
<1>. QED BY <1>2, <1>3, <1>4, WindowAssumption DEF UnitsConserved

LEMMA UnitsTypes ==
    ASSUME TypeOK
    PROVE  /\ cwin.value \in Nat /\ tracker.sent \in Nat
           /\ tracker.expected \in Seq(Nat) /\ Len(tracker.expected) \in Nat
           /\ Unacknowledged \in Nat /\ PendingRefill \in Nat /\ lost \in Nat
<1>1. cwin.value \in Nat /\ tracker.sent \in Nat /\ lost \in Nat
      /\ tracker.expected \in Seq(Nat)
  BY DEF TypeOK, PackageWindow
<1>2. Len(tracker.expected) \in Nat
  BY <1>1, LenProperties
<1>3. Unacknowledged \in Nat
  BY <1>1, <1>2, WindowAssumption DEF Unacknowledged
<1>4. PendingRefill \in Nat
  BY WindowAssumption DEF PendingRefill
<1>. QED BY <1>1, <1>2, <1>3, <1>4

(* The step that takes a unit puts its thread among the holders.             *)
LEMMA TakeUnit ==
    ASSUME TypeOK, KindsAgree, UnitsConserved, NEW s \in Streams,
           TakeCircuitUnit(s)
    PROVE  UnitsConserved'
<1>1. s \in Threads /\ pc \in [Threads -> PCs] /\ pc' = [pc EXCEPT ![s] = "lock"]
      /\ pc[s] \in {"circuit window", "circuit wait"} /\ kind' = kind
      /\ kind[s] = "DATA"
  BY DEF TypeOK, TakeCircuitUnit, Goto, KindsAgree
<1>2. Holding' = Holding \cup {s} /\ s \notin Holding
  BY <1>1 DEF Holding
<1>3. Cardinality(Holding') = Cardinality(Holding) + 1
  BY <1>2, HoldingFinite, FS_AddElement
<1>4. cwin'.value = cwin.value - 1
  BY WindowType DEF TakeCircuitUnit, TypeOK
<1>5. PendingRefill' = PendingRefill /\ lost' = lost
  BY <1>1, ThreadsAssumption DEF TakeCircuitUnit, PendingRefill, ghostVars
<1>6. Unacknowledged' = Unacknowledged
  BY DEF TakeCircuitUnit, Unacknowledged
<1>7. /\ cwin.value \in Nat /\ Cardinality(Holding) \in Nat
      /\ Unacknowledged \in Nat /\ PendingRefill \in Nat /\ lost \in Nat
  BY UnitsTypes, HoldingFinite
<1>8. cwin.value + Cardinality(Holding) + Unacknowledged + PendingRefill + lost
        = CircuitInitial
  BY DEF UnitsConserved
<1>9. (cwin.value - 1) + (Cardinality(Holding) + 1) + Unacknowledged
        + PendingRefill + lost = CircuitInitial
  BY <1>7, <1>8
<1>. QED BY <1>3, <1>4, <1>5, <1>6, <1>9 DEF UnitsConserved

(* A step that takes a thread from among the holders.                        *)
LEMMA LeaveHolding ==
    ASSUME NEW t \in Holding, Holding' = Holding \ {t}
    PROVE  Cardinality(Holding') = Cardinality(Holding) - 1
BY HoldingFinite, FS_RemoveElement

(* At a boundary CircuitIncrement - 1 counted cells and this one become one  *)
(* expected digest.                                                          *)
LEMMA NoteCountsOne ==
    ASSUME TypeOK, CountBelowBoundary, NEW t \in Threads, NoteDigest(t)
    PROVE  Unacknowledged' = Unacknowledged + 1 /\ CountBelowBoundary'
<1>. DEFINE n == tracker.sent
            e == tracker.expected
<1>1. n \in Nat /\ e \in Seq(Nat) /\ Len(e) \in Nat /\ stamped \in Nat
      /\ CircuitIncrement \in Nat \ {0} /\ n < CircuitIncrement
  BY UnitsTypes, WindowAssumption DEF TypeOK, CountBelowBoundary
<1>2. tracker' = NoteSent(tracker, CircuitIncrement, stamped)
  BY DEF NoteDigest
<1>3. CASE n + 1 >= CircuitIncrement
  <2>1. tracker'.sent = 0 /\ tracker'.expected = Append(e, stamped)
    BY <1>2, <1>3 DEF NoteSent, AtBoundary
  <2>2. Len(tracker'.expected) = Len(e) + 1
    BY <1>1, <2>1, AppendProperties
  <2>3. CircuitIncrement * (Len(e) + 1)
          = CircuitIncrement * Len(e) + CircuitIncrement
    BY <1>1
  <2>4. Unacknowledged' = CircuitIncrement * (Len(e) + 1)
    BY <1>1, <2>1, <2>2 DEF Unacknowledged
  <2>5. Unacknowledged = n + CircuitIncrement * Len(e)
    BY DEF Unacknowledged
  <2>6. n + 1 = CircuitIncrement
    BY <1>1, <1>3
  <2>7. CountBelowBoundary'
    BY <1>1, <2>1, <1>2 DEF CountBelowBoundary
  <2>. HIDE DEF n, e
  <2>. QED BY <1>1, <2>3, <2>4, <2>5, <2>6, <2>7
<1>4. CASE ~(n + 1 >= CircuitIncrement)
  <2>1. tracker'.sent = n + 1 /\ tracker'.expected = e
    BY <1>2, <1>4 DEF NoteSent, AtBoundary
  <2>. QED BY <1>1, <1>4, <2>1 DEF Unacknowledged, CountBelowBoundary
<1>. QED BY <1>3, <1>4

(* The step that notes a digest hands its thread's unit to the tracker.      *)
LEMMA HandToTracker ==
    ASSUME TypeOK, KindsAgree, CountBelowBoundary, UnitsConserved,
           NEW t \in Threads, NoteDigest(t)
    PROVE  UnitsConserved'
<1>1. /\ pc \in [Threads -> PCs] /\ pc' = [pc EXCEPT ![t] = "transmit"]
      /\ pc[t] = "note" /\ kind' = kind /\ kind[t] = "DATA" /\ t \in Streams
  BY DEF TypeOK, NoteDigest, Goto, KindsAgree
<1>2. t \in Holding /\ Holding' = Holding \ {t}
  BY <1>1 DEF Holding
<1>3. Cardinality(Holding') = Cardinality(Holding) - 1
  BY <1>2, LeaveHolding
<1>4. PendingRefill' = PendingRefill /\ cwin' = cwin /\ lost' = lost
  BY <1>1, ThreadsAssumption DEF NoteDigest, PendingRefill, ghostVars
<1>5. Unacknowledged' = Unacknowledged + 1
  BY NoteCountsOne
<1>6. Cardinality(Holding) \in Nat /\ Unacknowledged \in Nat
  BY UnitsTypes, HoldingFinite
<1>7. cwin.value \in Nat /\ PendingRefill \in Nat /\ lost \in Nat
  BY UnitsTypes
<1>8. cwin.value + Cardinality(Holding) + Unacknowledged + PendingRefill + lost = CircuitInitial
  BY DEF UnitsConserved
<1>9. cwin.value + (Cardinality(Holding) - 1) + (Unacknowledged + 1) + PendingRefill + lost
        = CircuitInitial
  BY <1>6, <1>7, <1>8
<1>. QED BY <1>3, <1>4, <1>5, <1>9 DEF UnitsConserved

(* A send refused under the lock loses its thread's unit.                    *)
LEMMA LoseUnit ==
    ASSUME TypeOK, KindsAgree, UnitsConserved, NEW t \in Threads,
           RefuseSend(t)
    PROVE  UnitsConserved'
<1>1. /\ pc \in [Threads -> PCs] /\ pc' = [pc EXCEPT ![t] = "idle"]
      /\ pc[t] = "lock" /\ kind' = kind /\ (kind[t] = "DATA" => t \in Streams)
  BY DEF TypeOK, RefuseSend, Goto, KindsAgree
<1>2. PendingRefill' = PendingRefill /\ cwin' = cwin /\ tracker' = tracker
  BY <1>1, ThreadsAssumption DEF RefuseSend, PendingRefill
<1>3. CASE kind[t] = "DATA"
  <2>1. t \in Holding /\ Holding' = Holding \ {t}
    BY <1>1, <1>3 DEF Holding
  <2>2. Cardinality(Holding') = Cardinality(Holding) - 1
    BY <2>1, LeaveHolding
  <2>3. lost' = lost + 1
    BY <1>3 DEF RefuseSend
  <2>4. Unacknowledged' = Unacknowledged
    BY <1>2 DEF Unacknowledged
  <2>7. /\ cwin.value \in Nat /\ Cardinality(Holding) \in Nat
         /\ Unacknowledged \in Nat /\ PendingRefill \in Nat /\ lost \in Nat
    BY UnitsTypes, HoldingFinite
  <2>5. cwin.value + Cardinality(Holding) + Unacknowledged + PendingRefill
          + lost = CircuitInitial
    BY DEF UnitsConserved
  <2>6. cwin.value + (Cardinality(Holding) - 1) + Unacknowledged
          + PendingRefill + (lost + 1) = CircuitInitial
    BY <2>7, <2>5
  <2>. QED BY <1>2, <2>2, <2>3, <2>4, <2>6 DEF UnitsConserved
<1>4. CASE kind[t] # "DATA"
  <2>1. Holding' = Holding
    BY <1>1, <1>4 DEF Holding
  <2>2. lost' = lost
    BY <1>4 DEF RefuseSend
  <2>. QED BY <1>2, <2>1, <2>2, NothingMoves
<1>. QED BY <1>3, <1>4

(* A SENDME takes its batch from the tracker: on its way back to the window  *)
(* if the digest matches, gone if it does not.                               *)
LEMMA TakeFromTracker ==
    ASSUME TypeOK, UnitsConserved, ReceiveCircuitSendme
    PROVE  UnitsConserved'
<1>. DEFINE e == tracker.expected
            d == Head(back).digest
<1>1. /\ pc \in [Threads -> PCs] /\ Receiver \in Threads
      /\ \E l \in PCs : pc' = [pc EXCEPT ![Receiver] = l]
      /\ pc[Receiver] = "idle" /\ kind' = kind /\ cwin' = cwin
  BY DEF TypeOK, ReceiveCircuitSendme, Reading, MarkDestroyed, Goto,
         AfterTeardown, PCs
<1>2. Holding' = Holding
  BY <1>1, ThreadsAssumption DEF Holding
<1>3. PendingRefill = 0
  BY <1>1 DEF PendingRefill
<1>4. PendingRefill' = IF Authentic(d) THEN CircuitIncrement ELSE 0
  BY <1>1, ThreadsAssumption
     DEF ReceiveCircuitSendme, MarkDestroyed, Goto, AfterTeardown,
         PendingRefill
<1>5. CASE ~PopsExpected(d)
  <2>1. tracker' = tracker /\ ~Authentic(d) /\ lost' = lost
    BY <1>5 DEF ReceiveCircuitSendme, PopsExpected, Authentic, Matches
  <2>. QED BY <1>1, <1>2, <1>3, <1>4, <2>1, NothingMoves
<1>6. CASE PopsExpected(d)
  <2>1. e # <<>> /\ e \in Seq(Nat) /\ Len(e) \in Nat /\ tracker.sent \in Nat
        /\ CircuitIncrement \in Nat
    BY <1>6, UnitsTypes, WindowAssumption DEF PopsExpected
  <2>2. Len(Tail(e)) = Len(e) - 1
    BY <2>1, HeadTailProperties
  <2>3. tracker'.sent = tracker.sent /\ tracker'.expected = Tail(e)
    BY <1>6, <2>1 DEF ReceiveCircuitSendme, AfterVerify
  <2>4. CircuitIncrement * (Len(e) - 1)
          = CircuitIncrement * Len(e) - CircuitIncrement
    BY <2>1
  <2>5. Unacknowledged' = tracker.sent + CircuitIncrement * (Len(e) - 1)
    BY <2>2, <2>3 DEF Unacknowledged
  <2>6. Unacknowledged = tracker.sent + CircuitIncrement * Len(e)
    BY DEF Unacknowledged
  <2>7. Unacknowledged' = Unacknowledged - CircuitIncrement
    <3>. HIDE DEF e
    <3>. QED BY <2>1, <2>4, <2>5, <2>6
  <2>8. lost' = IF Authentic(d) THEN lost ELSE lost + CircuitIncrement
    BY <1>6 DEF ReceiveCircuitSendme
  <2>9. /\ cwin.value \in Nat /\ Cardinality(Holding) \in Nat
        /\ Unacknowledged \in Nat /\ lost \in Nat /\ CircuitIncrement \in Nat
    BY <2>1, UnitsTypes, HoldingFinite
  <2>10. cwin.value + Cardinality(Holding) + Unacknowledged + 0 + lost
           = CircuitInitial
    BY <1>3 DEF UnitsConserved
  <2>11. CASE Authentic(d)
    <3>1. PendingRefill' = CircuitIncrement /\ lost' = lost
      BY <1>4, <2>8, <2>11
    <3>2. cwin.value + Cardinality(Holding)
            + (Unacknowledged - CircuitIncrement) + CircuitIncrement + lost
          = CircuitInitial
      BY <2>9, <2>10
    <3>. QED BY <1>1, <1>2, <2>7, <3>1, <3>2 DEF UnitsConserved
  <2>12. CASE ~Authentic(d)
    <3>1. PendingRefill' = 0 /\ lost' = lost + CircuitIncrement
      BY <1>4, <2>8, <2>12
    <3>2. cwin.value + Cardinality(Holding)
            + (Unacknowledged - CircuitIncrement) + 0
            + (lost + CircuitIncrement)
          = CircuitInitial
      BY <2>9, <2>10
    <3>. QED BY <1>1, <1>2, <2>7, <3>1, <3>2 DEF UnitsConserved
  <2>. QED BY <2>11, <2>12
<1>. QED BY <1>5, <1>6

(* refill() puts the batch back.                                             *)
LEMMA PutBack ==
    ASSUME TypeOK, UnitsConserved, RefillCircuit
    PROVE  UnitsConserved'
<1>1. /\ pc \in [Threads -> PCs] /\ Receiver \in Threads
      /\ pc' = [pc EXCEPT ![Receiver] = "idle"]
      /\ pc[Receiver] = "refill" /\ kind' = kind /\ tracker' = tracker
      /\ lost' = lost
  BY DEF TypeOK, RefillCircuit, Goto, ghostVars
<1>2. Holding' = Holding
  BY <1>1, ThreadsAssumption DEF Holding
<1>3. PendingRefill = CircuitIncrement /\ PendingRefill' = 0
  BY <1>1 DEF PendingRefill
<1>4. cwin'.value = cwin.value + CircuitIncrement
  BY WindowType, WindowAssumption DEF RefillCircuit, TypeOK
<1>5. Unacknowledged' = Unacknowledged
  BY <1>1 DEF Unacknowledged
<1>6. cwin.value + Cardinality(Holding) + Unacknowledged + CircuitIncrement
        + lost = CircuitInitial
  BY <1>3 DEF UnitsConserved
<1>7. (cwin.value + CircuitIncrement) + Cardinality(Holding) + Unacknowledged
        + 0 + lost = CircuitInitial
  BY <1>6, UnitsTypes, HoldingFinite, WindowAssumption
<1>. QED BY <1>1, <1>2, <1>3, <1>4, <1>5, <1>7 DEF UnitsConserved

(* Every other step leaves every unit where it is.                           *)
LEMMA OtherSteps ==
    ASSUME TypeOK, KindsAgree, UnitsConserved, [Next]_vars,
           \A s \in Streams : ~TakeCircuitUnit(s),
           \A t \in Threads : ~NoteDigest(t) /\ ~RefuseSend(t),
           ~ReceiveCircuitSendme, ~RefillCircuit
    PROVE  UnitsConserved' /\ tracker' = tracker
<1>. USE ThreadsAssumption DEF Goto, Holding, PendingRefill
<1>. /\ pc \in [Threads -> PCs] /\ kind \in [Threads -> Kinds]
     /\ \A s \in Streams : s \in Threads /\ s # Receiver
     /\ \A t \in Threads : kind[t] = "DATA" => t \in Streams
  BY DEF TypeOK, KindsAgree
<1>. DEFINE Same == /\ cwin'.value = cwin.value /\ tracker' = tracker
                    /\ lost' = lost /\ Holding' = Holding
                    /\ PendingRefill' = PendingRefill
<1>1. ASSUME NEW s \in Streams, UserStep(s) PROVE Same
  <2>1. CASE SendData(s)
    BY <2>1 DEF SendData
  <2>2. CASE SendControl(s)
    BY <2>2 DEF SendControl
  <2>. QED BY <1>1, <2>1, <2>2 DEF UserStep
<1>2. ASSUME NEW s \in Streams, SendStep(s) PROVE Same
  BY <1>2 DEF SendStep, TakeStreamUnit, SleepOnStream, StreamSendFails,
              SleepOnCircuit, CircuitSendFails, ghostVars
<1>3. ASSUME NEW s \in Streams, WaitTimesOut(s) PROVE Same
  BY <1>3 DEF WaitTimesOut
<1>4. ASSUME NEW t \in Threads, LockStep(t) PROVE Same
  <2>1. CASE AcquireTx(t)
    BY <2>1 DEF AcquireTx, ghostVars
  <2>2. CASE StampForward(t)
    BY <2>2 DEF StampForward, ghostVars
  <2>3. CASE Transmit(t)
    BY <2>3 DEF Transmit, AfterSend
  <2>. QED BY <1>4, <2>1, <2>2, <2>3 DEF LockStep
<1>5. ASSUME NEW t \in {Receiver, Closer}, TeardownStep(t) PROVE Same
  <2>1. CASE CloseCircuitWindow(t)
    <3>1. cwin'.value = cwin.value
      BY <2>1, WindowType DEF CloseCircuitWindow, TypeOK
    <3>. QED BY <2>1, <3>1 DEF CloseCircuitWindow, ghostVars
  <2>2. CASE TeardownReturns(t)
    BY <2>2 DEF TeardownReturns, AfterTeardown, ghostVars
  <2>3. ASSUME NEW s \in Streams, TellStream(t, s) PROVE Same
    BY <2>3 DEF TellStream, ghostVars
  <2>. QED BY <1>5, <2>1, <2>2, <2>3 DEF TeardownStep
<1>6. ASSUME CloseCircuit \/ CloserTeardown \/ Unregister PROVE Same
  BY <1>6 DEF CloseCircuit, CloserTeardown, MarkDestroyed, AfterTeardown,
              Unregister, ghostVars
<1>7. ASSUME ReceiveDestroy \/ ReceiverStops PROVE Same
  BY <1>7 DEF ReceiveDestroy, Reading, ReceiverStops, MarkDestroyed,
              AfterTeardown, ghostVars
<1>8. ASSUME DropCell \/ ReceiveStreamSendme \/ ReceiveData PROVE Same
  BY <1>8 DEF DropCell, ReceiveStreamSendme, ReceiveData, Reading, clientVars,
              ghostVars
<1>9. ASSUME ChannelFails \/ RelayAcks \/ RelayMoves PROVE Same
  BY <1>9 DEF ChannelFails, RelayAcks, RelayTakesData, RelayTakesControl,
              RelayMoves, RelaySendsData, RelayDestroys, RelayMakesUpSendme,
              clientVars, ghostVars
<1>10. ASSUME UNCHANGED vars PROVE Same
  BY <1>10 DEF vars
<1>11. Same
  BY <1>1, <1>2, <1>3, <1>4, <1>5, <1>6, <1>7, <1>8, <1>9, <1>10
     DEF Next, CloserStep, ReceiverStep
<1>. QED BY <1>11, NothingMoves

IInv == TypeOK /\ KindsAgree /\ CountBelowBoundary /\ UnitsConserved

LEMMA IInvStep ==
    ASSUME IInv, [Next]_vars
    PROVE  CountBelowBoundary' /\ UnitsConserved'
<1>. USE DEF IInv
<1>1. ASSUME NEW s \in Streams, TakeCircuitUnit(s)
      PROVE  CountBelowBoundary' /\ UnitsConserved'
  BY <1>1, TakeUnit DEF TakeCircuitUnit, CountBelowBoundary
<1>2. ASSUME NEW t \in Threads, NoteDigest(t)
      PROVE  CountBelowBoundary' /\ UnitsConserved'
  BY <1>2, HandToTracker, NoteCountsOne
<1>3. ASSUME NEW t \in Threads, RefuseSend(t)
      PROVE  CountBelowBoundary' /\ UnitsConserved'
  BY <1>3, LoseUnit DEF RefuseSend, CountBelowBoundary
<1>4. CASE ReceiveCircuitSendme
  <2>1. tracker'.sent = tracker.sent
    BY <1>4 DEF ReceiveCircuitSendme, AfterVerify
  <2>. QED BY <1>4, <2>1, TakeFromTracker DEF CountBelowBoundary
<1>5. CASE RefillCircuit
  BY <1>5, PutBack DEF RefillCircuit, CountBelowBoundary
<1>6. CASE /\ \A s \in Streams : ~TakeCircuitUnit(s)
           /\ \A t \in Threads : ~NoteDigest(t) /\ ~RefuseSend(t)
           /\ ~ReceiveCircuitSendme /\ ~RefillCircuit
  BY <1>6, OtherSteps DEF CountBelowBoundary
<1>. QED BY <1>1, <1>2, <1>3, <1>4, <1>5, <1>6

(* No unit of the circuit's window is ever gained, and none is lost but by   *)
(* a send that failed or a SENDME that was no acknowledgement: for every     *)
(* number of streams and every window.                                       *)
THEOREM UnitsAreConserved == Spec => []UnitsConserved
<1>1. Init => KindsAgree /\ UnitsConserved /\ CountBelowBoundary
  BY KindsAgreeInit, UnitsConservedInit, WindowAssumption
     DEF Init, CountBelowBoundary
<1>2. TypeOK /\ KindsAgree /\ CountBelowBoundary /\ UnitsConserved
        /\ [Next]_vars
      => KindsAgree' /\ CountBelowBoundary' /\ UnitsConserved'
  BY KindsAgreeStep, IInvStep DEF IInv
<1>. QED BY <1>1, <1>2, TypeCorrect, PTL DEF Spec

(* Whatever SENDMEs a relay makes up, it cannot inflate the send window.     *)
THEOREM WindowNeverInflated == Spec => []NoInflation
<1>1. TypeOK /\ UnitsConserved => NoInflation
  <2>. SUFFICES ASSUME TypeOK, UnitsConserved PROVE NoInflation
    OBVIOUS
  <2>1. /\ cwin.value \in Nat /\ Cardinality(Holding) \in Nat
        /\ Unacknowledged \in Nat /\ PendingRefill \in Nat /\ lost \in Nat
    BY UnitsTypes, HoldingFinite
  <2>. QED BY <2>1 DEF UnitsConserved, NoInflation
<1>. QED BY <1>1, TypeCorrect, UnitsAreConserved, PTL

-------------------------------------------------------------------------------
(* Units are lost only with the circuit.                                     *)

LEMMA LossStep ==
    ASSUME [Next]_vars
    PROVE  (destroyed => destroyed') /\ (lost' # lost => destroyed')
<1>. DEFINE Goal == (destroyed => destroyed') /\ (lost' # lost => destroyed')
            Kept == destroyed' = destroyed /\ lost' = lost
<1>. USE DEF endVars, ghostVars
<1>1. ASSUME NEW s \in Streams, UserStep(s) \/ SendStep(s) \/ WaitTimesOut(s)
      PROVE  Goal
  <2>1. ASSUME UserStep(s) PROVE Kept
    BY <2>1 DEF UserStep, SendData, SendControl
  <2>2. ASSUME TakeStreamUnit(s) \/ SleepOnStream(s) \/ StreamSendFails(s)
        PROVE  Kept
    BY <2>2 DEF TakeStreamUnit, SleepOnStream, StreamSendFails
  <2>3. ASSUME TakeCircuitUnit(s) \/ SleepOnCircuit(s) \/ CircuitSendFails(s)
        PROVE  Kept
    BY <2>3 DEF TakeCircuitUnit, SleepOnCircuit, CircuitSendFails
  <2>4. CASE WaitTimesOut(s)
    BY <2>4 DEF WaitTimesOut
  <2>. QED BY <1>1, <2>1, <2>2, <2>3, <2>4 DEF SendStep
<1>2. ASSUME NEW t \in Threads, LockStep(t) PROVE Goal
  BY <1>2 DEF LockStep, AcquireTx, RefuseSend, StampForward, NoteDigest,
              Transmit
<1>3. ASSUME NEW t \in Threads, TeardownStep(t) PROVE Goal
  <2>1. ASSUME CloseCircuitWindow(t) \/ TeardownReturns(t) PROVE Kept
    BY <2>1 DEF CloseCircuitWindow, TeardownReturns
  <2>2. ASSUME NEW s \in Streams, TellStream(t, s) PROVE Goal
    BY <2>2 DEF TellStream
  <2>. QED BY <1>3, <2>1, <2>2 DEF TeardownStep
<1>4. ASSUME CloseCircuit \/ CloserTeardown \/ Unregister PROVE Goal
  <2>1. CASE CloseCircuit \/ Unregister
    BY <2>1 DEF CloseCircuit, Unregister
  <2>2. CASE CloserTeardown
    BY <2>2 DEF CloserTeardown, MarkDestroyed
  <2>. QED BY <1>4, <2>1, <2>2
<1>5. ASSUME ReceiveCircuitSendme \/ ReceiveDestroy \/ ReceiverStops PROVE Goal
  BY <1>5 DEF ReceiveCircuitSendme, ReceiveDestroy, ReceiverStops,
              MarkDestroyed
<1>6. ASSUME DropCell \/ RefillCircuit \/ ReceiveStreamSendme \/ ReceiveData
      PROVE  Goal
  BY <1>6 DEF DropCell, RefillCircuit, ReceiveStreamSendme, ReceiveData
<1>7. ASSUME ChannelFails \/ RelayAcks \/ RelayMoves PROVE Goal
  <2>1. CASE ChannelFails \/ RelayDestroys
    BY <2>1 DEF ChannelFails, RelayDestroys
  <2>2. ASSUME RelayAcks PROVE Kept
    BY <2>2 DEF RelayAcks, RelayTakesData, RelayTakesControl
  <2>3. ASSUME NEW s \in Streams, RelaySendsData(s) PROVE Goal
    BY <2>3 DEF RelaySendsData
  <2>4. ASSUME NEW d, RelayMakesUpSendme(d) PROVE Goal
    BY <2>4 DEF RelayMakesUpSendme
  <2>. QED BY <1>7, <2>1, <2>2, <2>3, <2>4 DEF RelayMoves
<1>8. ASSUME UNCHANGED vars PROVE Goal
  BY <1>8 DEF vars
<1>. QED BY <1>1, <1>2, <1>3, <1>4, <1>5, <1>6, <1>7, <1>8
         DEF Next, CloserStep, ReceiverStep, Threads

(* Nothing but the end of the circuit costs its window a unit.               *)
THEOREM UnitsLostOnlyWithCircuit == Spec => []LiveCircuitKeepsUnits
<1>1. Init => LiveCircuitKeepsUnits
  BY DEF Init, LiveCircuitKeepsUnits
<1>2. LiveCircuitKeepsUnits /\ [Next]_vars => LiveCircuitKeepsUnits'
  BY LossStep DEF LiveCircuitKeepsUnits
<1>. QED BY <1>1, <1>2, PTL DEF Spec

-------------------------------------------------------------------------------
(* Who holds _tx_lock.                                                       *)

Locked == {"stamp", "note", "transmit"}

(* A thread that stays on its side of the lock.                              *)
LEMMA StaysOutside ==
    ASSUME TypeOK, LockHolderMoves, NEW t \in Threads, NEW label,
           Goto(t, label), tx' = tx, pc[t] \in Locked <=> label \in Locked
    PROVE  LockHolderMoves'
BY DEF TypeOK, LockHolderMoves, Goto, Locked

(* Whatever a thread or the network does without _tx_lock.                   *)
LEMMA UnlockedStep ==
    ASSUME TypeOK, LockHolderMoves,
           \/ \E s \in Streams : UserStep(s) \/ SendStep(s) \/ WaitTimesOut(s)
           \/ \E t \in Threads : TeardownStep(t) \/ RefuseSend(t)
           \/ CloseCircuit \/ CloserTeardown \/ Unregister
    PROVE  LockHolderMoves'
<1>. USE StaysOutside DEF Locked
<1>1. ASSUME NEW s \in Streams, UserStep(s) \/ SendStep(s) \/ WaitTimesOut(s)
      PROVE  LockHolderMoves'
  <2>1. CASE UserStep(s)
    BY <2>1 DEF UserStep, SendData, SendControl
  <2>2. CASE TakeStreamUnit(s) \/ SleepOnStream(s) \/ StreamSendFails(s)
    BY <2>2 DEF TakeStreamUnit, SleepOnStream, StreamSendFails
  <2>3. CASE TakeCircuitUnit(s) \/ SleepOnCircuit(s) \/ CircuitSendFails(s)
    BY <2>3 DEF TakeCircuitUnit, SleepOnCircuit, CircuitSendFails
  <2>4. CASE WaitTimesOut(s)
    BY <2>4 DEF WaitTimesOut
  <2>. QED BY <1>1, <2>1, <2>2, <2>3, <2>4 DEF SendStep
<1>2. ASSUME NEW t \in Threads, TeardownStep(t) PROVE LockHolderMoves'
  <2>1. CASE CloseCircuitWindow(t)
    BY <2>1 DEF CloseCircuitWindow
  <2>2. CASE TeardownReturns(t)
    BY <2>2 DEF TeardownReturns, AfterTeardown
  <2>3. ASSUME NEW s \in Streams, TellStream(t, s) PROVE LockHolderMoves'
    BY <2>3 DEF TellStream, LockHolderMoves
  <2>. QED BY <1>2, <2>1, <2>2, <2>3 DEF TeardownStep
<1>3. ASSUME NEW t \in Threads, RefuseSend(t) PROVE LockHolderMoves'
  BY <1>3 DEF RefuseSend
<1>4. CASE CloseCircuit \/ Unregister
  BY <1>4 DEF CloseCircuit, Unregister
<1>5. CASE CloserTeardown
  BY <1>5 DEF CloserTeardown, MarkDestroyed, AfterTeardown
<1>. QED BY <1>1, <1>2, <1>3, <1>4, <1>5

LEMMA ReceiverKeepsLock ==
    ASSUME TypeOK, LockHolderMoves,
           \/ DropCell \/ ReceiveCircuitSendme \/ RefillCircuit
           \/ ReceiveStreamSendme \/ ReceiveData \/ ReceiveDestroy
           \/ ReceiverStops
    PROVE  LockHolderMoves'
<1>. USE StaysOutside DEF Locked
<1>1. CASE DropCell \/ ReceiveStreamSendme
  BY <1>1 DEF DropCell, ReceiveStreamSendme, clientVars, LockHolderMoves
<1>2. CASE ReceiveCircuitSendme
  <2>1. tx' = tx /\ pc[Receiver] = "idle"
    BY <1>2 DEF ReceiveCircuitSendme, Reading
  <2>2. \E label \in {"refill", "idle", "unregister", "close window"} :
            Goto(Receiver, label)
    BY <1>2 DEF ReceiveCircuitSendme, MarkDestroyed, AfterTeardown
  <2>. QED BY <2>1, <2>2
<1>3. CASE RefillCircuit
  BY <1>3 DEF RefillCircuit
<1>4. CASE ReceiveData
  <2>1. tx' = tx /\ pc[Receiver] = "idle"
    BY <1>4 DEF ReceiveData, Reading
  <2>2. UNCHANGED pc \/ Goto(Receiver, "lock")
    BY <1>4 DEF ReceiveData
  <2>. QED BY <2>1, <2>2 DEF LockHolderMoves
<1>5. CASE ReceiveDestroy \/ ReceiverStops
  <2>1. tx' = tx /\ pc[Receiver] = "idle"
    BY <1>5 DEF ReceiveDestroy, ReceiverStops, Reading
  <2>2. \E label \in {"exit", "idle", "unregister", "close window"} :
            Goto(Receiver, label)
    BY <1>5 DEF ReceiveDestroy, ReceiverStops, MarkDestroyed, AfterTeardown
  <2>. QED BY <2>1, <2>2
<1>. QED BY <1>1, <1>2, <1>3, <1>4, <1>5

(* The steps under the lock, and those that take it and give it back.        *)
LEMMA LockedStep ==
    ASSUME TypeOK, LockHolderMoves, NEW t \in Threads,
           AcquireTx(t) \/ StampForward(t) \/ NoteDigest(t) \/ Transmit(t)
    PROVE  LockHolderMoves'
<1>1. CASE AcquireTx(t)
  <2>1. /\ tx = Nobody /\ tx' = t
        /\ \E label \in {"transmit", "stamp"} : Goto(t, label)
    BY <1>1 DEF AcquireTx
  <2>2. \A q \in Threads : pc[q] \notin {"stamp", "note", "transmit"}
    BY <2>1, ThreadsAssumption DEF LockHolderMoves
  <2>. QED BY <2>1, <2>2 DEF LockHolderMoves, Goto, TypeOK
<1>2. CASE StampForward(t)
  BY <1>2, StaysOutside DEF StampForward, Locked
<1>3. CASE NoteDigest(t)
  BY <1>3, StaysOutside DEF NoteDigest, Locked
<1>4. CASE Transmit(t)
  <2>1. /\ pc[t] = "transmit" /\ tx' = Nobody
        /\ \E label \in {"teardown", "idle"} : Goto(t, label)
    BY <1>4 DEF Transmit, AfterSend
  <2>2. \A q \in Threads \ {t} : pc[q] \notin {"stamp", "note", "transmit"}
    BY <2>1 DEF LockHolderMoves
  <2>. QED BY <2>1, <2>2, ThreadsAssumption DEF LockHolderMoves, Goto, TypeOK
<1>. QED BY <1>1, <1>2, <1>3, <1>4

(* Whoever holds _tx_lock is on its way to give it back: no thread sleeps on *)
(* a window, or returns, with the lock, and no two threads hold it at once   *)
(* (_send_relay, send_relay, close).                                         *)
THEOREM LockHeldOnlyToSend == Spec => []LockHolderMoves
<1>1. Init => LockHolderMoves
  BY ThreadsAssumption DEF Init, LockHolderMoves
<1>2. TypeOK /\ LockHolderMoves /\ [Next]_vars => LockHolderMoves'
  <2>. SUFFICES ASSUME TypeOK, LockHolderMoves, [Next]_vars
                PROVE  LockHolderMoves'
    OBVIOUS
  <2>1. ASSUME NEW s \in Streams,
               UserStep(s) \/ SendStep(s) \/ WaitTimesOut(s)
        PROVE  LockHolderMoves'
    BY <2>1, UnlockedStep
  <2>2. ASSUME NEW t \in Threads, LockStep(t) PROVE LockHolderMoves'
    BY <2>2, UnlockedStep, LockedStep DEF LockStep
  <2>3. CASE CloseCircuit \/ CloserStep
    BY <2>2, <2>3, UnlockedStep DEF CloserStep
  <2>4. CASE ReceiverStep
    BY <2>2, <2>4, UnlockedStep, ReceiverKeepsLock DEF ReceiverStep
  <2>5. CASE ChannelFails \/ RelayAcks \/ RelayMoves
    <3>1. UNCHANGED <<pc, tx>>
      BY <2>5 DEF ChannelFails, RelayAcks, RelayTakesData, RelayTakesControl,
                  RelayMoves, RelaySendsData, RelayDestroys,
                  RelayMakesUpSendme, clientVars
    <3>. QED BY <3>1 DEF LockHolderMoves
  <2>6. CASE UNCHANGED vars
    BY <2>6 DEF vars, LockHolderMoves
  <2>. QED BY <2>1, <2>2, <2>3, <2>4, <2>5, <2>6 DEF Next
<1>. QED BY <1>1, <1>2, TypeCorrect, PTL DEF Spec

-------------------------------------------------------------------------------
(***************************************************************************)
(* The far end.  What an honest relay acknowledges is what the tracker     *)
(* expects: the cells on the wire, together with the one that has _tx_lock *)
(* and is about to be sent, are the stamped cells the relay has not seen,  *)
(* in the order of their digests.                                          *)
(***************************************************************************)

(* How many of the first n elements of a sequence are in a set.              *)
CountIn(seq, C, n) == Cardinality({i \in 1 .. n : seq[i] \in C})

Total(seq, C) == CountIn(seq, C, Len(seq))

DataCells == {c \in WireCell : c.kind = "DATA"}
AckCells  == {c \in BackCell : c.cmd = "SENDME" /\ c.stream = Nobody}

CellOf(t) == [kind |-> kind[t], stream |-> IF t \in Streams THEN t ELSE Nobody]

(* The wire, and the cell in the hands of the thread that transmits.         *)
Line == IF tx \in Threads /\ pc[tx] = "transmit"
        THEN Append(wire, CellOf(tx)) ELSE wire

(* The cell that is stamped and not noted.                                   *)
InNote == IF tx \in Threads /\ pc[tx] = "note" THEN 1 ELSE 0

NoDestroyUpTo(i) == \A j \in 1 .. i : Line[j].kind # "DESTROY"

ClosersCell ==
    /\ pc[Closer] \notin {"stamp", "note"}
    /\ pc[Closer] \in {"lock", "transmit"} => kind[Closer] = "DESTROY"
    /\ \A t \in Threads : kind[t] = "DESTROY" => t = Closer

(* The SENDMEs under way, the cells the relay has counted and those on their *)
(* way to it are the cells the tracker has not verified.                     *)
AcksBacked ==
    HonestRelay /\ ~chanClosed =>
        LET under == CircuitIncrement * Total(back, AckCells) + rdata
                        + Total(Line, DataCells)
        IN  under <= Unacknowledged /\ (Registered => under = Unacknowledged)

Live == HonestRelay /\ ~chanClosed /\ Registered

(* The n-th SENDME under way has the n-th digest the tracker expects.        *)
AcksMatch ==
    Live =>
        \A i \in 1 .. Len(back) :
            back[i] \in AckCells =>
                /\ CountIn(back, AckCells, i) \in 1 .. Len(tracker.expected)
                /\ tracker.expected[CountIn(back, AckCells, i)] = back[i].digest
                /\ back[i].digest # Malformed

(* So will the SENDMEs have that the relay sends for the cells on the line.  *)
LineMatches ==
    Live /\ rup =>
        \A i \in 1 .. Len(Line) : \A m \in Nat :
            /\ Line[i] \in DataCells /\ NoDestroyUpTo(i)
            /\ rdata + CountIn(Line, DataCells, i) = CircuitIncrement * m
            => /\ Total(back, AckCells) + m \in 1 .. Len(tracker.expected)
               /\ tracker.expected[Total(back, AckCells) + m] = rseen + i

(* Every cell that is stamped is on the line, and gets there in order.       *)
LineComplete ==
    Live /\ rup /\ NoDestroyUpTo(Len(Line))
        => stamped = rseen + Len(Line) + InNote

FarEndInv ==
    /\ ClosersCell /\ AcksBacked /\ AcksMatch /\ LineMatches /\ LineComplete
    /\ HonestRelayAccepted

-------------------------------------------------------------------------------
(* Counting elements of a sequence.                                          *)

LEMMA CountInType ==
    ASSUME NEW q, NEW C, NEW n \in Nat
    PROVE  CountIn(q, C, n) \in Nat /\ IsFiniteSet({i \in 1 .. n : q[i] \in C})
<1>1. IsFiniteSet(1 .. n)
  BY FS_Interval
<1>2. {i \in 1 .. n : q[i] \in C} \in SUBSET (1 .. n)
  OBVIOUS
<1>3. IsFiniteSet({i \in 1 .. n : q[i] \in C})
  BY <1>1, <1>2, FS_Subset
<1>. QED BY <1>3, FS_CardinalityType DEF CountIn

LEMMA CountInZero == ASSUME NEW q, NEW C PROVE CountIn(q, C, 0) = 0
<1>1. {i \in 1 .. 0 : q[i] \in C} = {}
  OBVIOUS
<1>. QED BY <1>1, FS_EmptySet DEF CountIn

LEMMA CountInNext ==
    ASSUME NEW q, NEW C, NEW n \in Nat
    PROVE  CountIn(q, C, n + 1)
             = CountIn(q, C, n) + (IF q[n + 1] \in C THEN 1 ELSE 0)
<1>. DEFINE S == {i \in 1 .. n : q[i] \in C}
            T == {i \in 1 .. n + 1 : q[i] \in C}
<1>1. IsFiniteSet(S) /\ n + 1 \notin S /\ Cardinality(S) \in Nat
  <2>1. IsFiniteSet(S)
    BY CountInType
  <2>2. n + 1 \notin S
    OBVIOUS
  <2>. HIDE DEF S
  <2>. QED BY <2>1, <2>2, FS_CardinalityType
<1>2. CASE q[n + 1] \in C
  <2>1. T = S \cup {n + 1}
    BY <1>2
  <2>. HIDE DEF S, T
  <2>2. Cardinality(T) = Cardinality(S) + 1
    BY <1>1, <2>1, FS_AddElement
  <2>. QED BY <1>2, <2>2 DEF CountIn, S, T
<1>3. CASE q[n + 1] \notin C
  <2>1. T = S
    BY <1>3
  <2>. QED BY <1>1, <1>3, <2>1 DEF CountIn
<1>. QED BY <1>2, <1>3

LEMMA CountInSame ==
    ASSUME NEW q, NEW r, NEW C, NEW n \in Nat, \A i \in 1 .. n : r[i] = q[i]
    PROVE  CountIn(r, C, n) = CountIn(q, C, n)
<1>1. {i \in 1 .. n : r[i] \in C} = {i \in 1 .. n : q[i] \in C}
  OBVIOUS
<1>. QED BY <1>1 DEF CountIn

(* Moving every element one place towards the head.                          *)
LEMMA CountInShift ==
    ASSUME NEW q, NEW r, NEW C, NEW n \in Nat, \A i \in 1 .. n : r[i] = q[i + 1]
    PROVE  CountIn(q, C, n + 1)
             = CountIn(r, C, n) + (IF q[1] \in C THEN 1 ELSE 0)
<1>. DEFINE S == {i \in 1 .. n : r[i] \in C}
            T == {i \in 2 .. n + 1 : q[i] \in C}
            U == {i \in 1 .. n + 1 : q[i] \in C}
            f == [i \in S |-> i + 1]
<1>1. IsFiniteSet(S) /\ IsFiniteSet(U) /\ Cardinality(S) \in Nat
  <2>1. IsFiniteSet(S)
    BY CountInType
  <2>2. n + 1 \in Nat
    OBVIOUS
  <2>3. IsFiniteSet(U)
    BY <2>2, CountInType
  <2>. HIDE DEF S, U
  <2>. QED BY <2>1, <2>3, FS_CardinalityType
<1>2. IsFiniteSet(T)
  <2>1. T \in SUBSET U
    OBVIOUS
  <2>. HIDE DEF T, U
  <2>. QED BY <1>1, <2>1, FS_Subset
<1>3. f \in Bijection(S, T)
  <2>1. \A i \in S : i \in 1 .. n /\ i + 1 \in T
    OBVIOUS
  <2>2. \A j \in T : j - 1 \in S /\ j = (j - 1) + 1
    OBVIOUS
  <2>. HIDE DEF S, T
  <2>3. \A i \in S : f[i] = i + 1
    OBVIOUS
  <2>4. f \in [S -> T]
    BY <2>1
  <2>5. \A i, j \in S : f[i] = f[j] => i = j
    BY <2>1
  <2>6. \A j \in T : \E i \in S : f[i] = j
    BY <2>2
  <2>7. DOMAIN f = S
    OBVIOUS
  <2>. HIDE DEF f
  <2>8. f \in Injection(S, T) /\ f \in Surjection(S, T)
    BY <2>4, <2>5, <2>6, <2>7, Zenon DEF Injection, Surjection, IsInjective
  <2>. QED BY <2>8, Zenon DEF Bijection
<1>4. Cardinality(S) = Cardinality(T)
  <2>1. ExistsBijection(S, T)
    BY <1>3, Zenon DEF ExistsBijection
  <2>. HIDE DEF S, T
  <2>. QED BY <1>1, <2>1, FS_Bijection
<1>5. CASE q[1] \in C
  <2>1. U = T \cup {1} /\ 1 \notin T
    BY <1>5
  <2>. HIDE DEF T, U
  <2>2. Cardinality(U) = Cardinality(T) + 1
    BY <1>2, <2>1, FS_AddElement
  <2>. QED BY <1>4, <1>5, <2>2 DEF CountIn, S, U
<1>6. CASE q[1] \notin C
  <2>1. U = T
    BY <1>6
  <2>. QED BY <1>1, <1>4, <1>6, <2>1 DEF CountIn
<1>. QED BY <1>5, <1>6

(* An element that is counted counts itself.                                 *)
LEMMA CountInSelf ==
    ASSUME NEW q, NEW C, NEW i \in Nat \ {0}, q[i] \in C
    PROVE  CountIn(q, C, i) >= 1
<1>1. i - 1 \in Nat /\ (i - 1) + 1 = i
  OBVIOUS
<1>2. CountIn(q, C, i - 1) \in Nat
  BY <1>1, CountInType
<1>. QED BY <1>1, <1>2, CountInNext

LEMMA AppendCounts ==
    ASSUME NEW X, NEW q \in Seq(X), NEW m \in X, NEW C
    PROVE  /\ Append(q, m) \in Seq(X) /\ Len(q) \in Nat
           /\ Len(Append(q, m)) = Len(q) + 1
           /\ \A i \in 1 .. Len(q) : Append(q, m)[i] = q[i]
           /\ Append(q, m)[Len(q) + 1] = m
           /\ \A n \in 0 .. Len(q) :
                  CountIn(Append(q, m), C, n) = CountIn(q, C, n)
           /\ CountIn(Append(q, m), C, Len(q) + 1)
                = Total(q, C) + (IF m \in C THEN 1 ELSE 0)
           /\ Total(Append(q, m), C)
                = Total(q, C) + (IF m \in C THEN 1 ELSE 0)
<1>. DEFINE r == Append(q, m)
<1>1. /\ r \in Seq(X) /\ Len(q) \in Nat /\ Len(r) = Len(q) + 1
      /\ \A i \in 1 .. Len(q) : r[i] = q[i]
      /\ r[Len(q) + 1] = m
  BY AppendProperties, LenProperties
<1>. HIDE DEF r
<1>2. \A n \in 0 .. Len(q) : CountIn(r, C, n) = CountIn(q, C, n)
  <2>. SUFFICES ASSUME NEW n \in 0 .. Len(q)
                PROVE  CountIn(r, C, n) = CountIn(q, C, n)
    OBVIOUS
  <2>1. n \in Nat /\ \A i \in 1 .. n : r[i] = q[i]
    BY <1>1
  <2>. QED BY <2>1, CountInSame
<1>3. CountIn(r, C, Len(q) + 1)
        = Total(q, C) + (IF m \in C THEN 1 ELSE 0)
  <2>1. CountIn(r, C, Len(q)) = Total(q, C)
    BY <1>1, <1>2 DEF Total
  <2>2. CountIn(r, C, Len(q) + 1)
          = CountIn(r, C, Len(q)) + (IF r[Len(q) + 1] \in C THEN 1 ELSE 0)
    BY <1>1, CountInNext
  <2>. QED BY <1>1, <2>1, <2>2
<1>. QED BY <1>1, <1>2, <1>3 DEF Total, r

LEMMA TailCounts ==
    ASSUME NEW X, NEW q \in Seq(X), q # <<>>, NEW C
    PROVE  /\ Tail(q) \in Seq(X) /\ Head(q) = q[1] /\ Head(q) \in X
           /\ Len(q) \in Nat \ {0} /\ Len(Tail(q)) = Len(q) - 1
           /\ \A i \in 1 .. Len(Tail(q)) : Tail(q)[i] = q[i + 1]
           /\ \A n \in 0 .. Len(Tail(q)) :
                  CountIn(q, C, n + 1)
                    = CountIn(Tail(q), C, n)
                        + (IF Head(q) \in C THEN 1 ELSE 0)
           /\ Total(q, C)
                = Total(Tail(q), C) + (IF Head(q) \in C THEN 1 ELSE 0)
<1>. DEFINE r == Tail(q)
<1>1. /\ r \in Seq(X) /\ Head(q) = q[1] /\ Head(q) \in X
      /\ Len(q) \in Nat \ {0} /\ Len(r) = Len(q) - 1
      /\ \A i \in 1 .. Len(r) : r[i] = q[i + 1]
  BY HeadTailProperties, LenProperties, EmptySeq
<1>. HIDE DEF r
<1>2. \A n \in 0 .. Len(r) :
         CountIn(q, C, n + 1)
           = CountIn(r, C, n) + (IF q[1] \in C THEN 1 ELSE 0)
  <2>. SUFFICES ASSUME NEW n \in 0 .. Len(r)
                PROVE  CountIn(q, C, n + 1)
                         = CountIn(r, C, n) + (IF q[1] \in C THEN 1 ELSE 0)
    OBVIOUS
  <2>1. n \in Nat /\ \A i \in 1 .. n : r[i] = q[i + 1]
    BY <1>1
  <2>. QED BY <2>1, CountInShift
<1>3. CountIn(q, C, Len(r) + 1)
        = CountIn(r, C, Len(r)) + (IF q[1] \in C THEN 1 ELSE 0)
      /\ Len(r) + 1 = Len(q)
  BY <1>1, <1>2
<1>. QED BY <1>1, <1>2, <1>3 DEF Total, r

-------------------------------------------------------------------------------
(* The line, step by step.                                                   *)

LEMMA CellType == ASSUME TypeOK, NEW t \in Threads PROVE CellOf(t) \in WireCell
BY DEF TypeOK, CellOf, WireCell

LEMMA LineType == TypeOK => Line \in Seq(WireCell) /\ wire \in Seq(WireCell)
<1>. SUFFICES ASSUME TypeOK PROVE Line \in Seq(WireCell) /\ wire \in Seq(WireCell)
  OBVIOUS
<1>1. wire \in Seq(WireCell)
  BY DEF TypeOK
<1>2. CASE tx \in Threads /\ pc[tx] = "transmit"
  <2>1. CellOf(tx) \in WireCell /\ Line = Append(wire, CellOf(tx))
    BY <1>2, CellType DEF Line
  <2>. QED BY <1>1, <2>1, AppendProperties
<1>. QED BY <1>1, <1>2 DEF Line

(* Where the line stands for a thread that has, or takes, the lock.          *)
LEMMA LineOf ==
    ASSUME TypeOK, LockHolderMoves
    PROVE  /\ tx = Nobody => Line = wire /\ InNote = 0
           /\ \A t \in Threads :
                 /\ pc[t] = "stamp" => tx = t /\ Line = wire /\ InNote = 0
                 /\ pc[t] = "note" => tx = t /\ Line = wire /\ InNote = 1
                 /\ pc[t] = "transmit"
                       => tx = t /\ Line = Append(wire, CellOf(t)) /\ InNote = 0
BY ThreadsAssumption DEF LockHolderMoves, Line, InNote

(* A thread without the lock does not disturb the line.                      *)
LEMMA LineFrame ==
    ASSUME TypeOK, LockHolderMoves, NEW t \in Threads,
           pc[t] \notin Locked,
           \A q \in Threads \ {t} : pc'[q] = pc[q] /\ kind'[q] = kind[q],
           tx' = tx, wire' = wire
    PROVE  Line' = Line /\ InNote' = InNote
<1>1. CASE tx \in Threads
  <2>1. tx # t
    BY <1>1 DEF LockHolderMoves, Locked
  <2>2. pc'[tx] = pc[tx] /\ kind'[tx] = kind[tx]
    BY <1>1, <2>1
  <2>. QED BY <2>2 DEF Line, InNote, CellOf
<1>2. CASE tx \notin Threads
  BY <1>2 DEF Line, InNote
<1>. QED BY <1>1, <1>2

far == <<stamped, tracker, back, rseen, rdata, rup, chanClosed, wire>>

LEMMA OutsideSteps ==
    ASSUME TypeOK, LockHolderMoves,
           \/ \E s \in Streams : UserStep(s) \/ SendStep(s) \/ WaitTimesOut(s)
           \/ \E t \in {Receiver, Closer} : TeardownStep(t)
           \/ \E t \in Threads : RefuseSend(t)
           \/ CloseCircuit \/ CloserTeardown \/ Unregister
           \/ RefillCircuit \/ ReceiverStops
    PROVE  Line' = Line /\ InNote' = InNote /\ UNCHANGED far
<1>. DEFINE Outside(t) ==
               /\ pc[t] \notin Locked /\ tx' = tx /\ UNCHANGED far
               /\ \A q \in Threads \ {t} : pc'[q] = pc[q] /\ kind'[q] = kind[q]
<1>. USE DEF Locked, Goto, endVars, netVars, relayVars, far
<1>. SUFFICES \E t \in Threads : Outside(t)
  BY LineFrame DEF far
<1>0. pc \in [Threads -> PCs] /\ kind \in [Threads -> Kinds]
  BY DEF TypeOK
<1>1. ASSUME NEW s \in Streams, UserStep(s) PROVE Outside(s)
  BY <1>0, <1>1 DEF UserStep, SendData, SendControl
<1>2. ASSUME NEW s \in Streams, SendStep(s) PROVE Outside(s)
  <2>1. CASE TakeStreamUnit(s) \/ SleepOnStream(s) \/ StreamSendFails(s)
    BY <1>0, <2>1 DEF TakeStreamUnit, SleepOnStream, StreamSendFails
  <2>2. CASE TakeCircuitUnit(s) \/ SleepOnCircuit(s) \/ CircuitSendFails(s)
    BY <1>0, <2>2 DEF TakeCircuitUnit, SleepOnCircuit, CircuitSendFails
  <2>. QED BY <1>2, <2>1, <2>2 DEF SendStep
<1>3. ASSUME NEW s \in Streams, WaitTimesOut(s) PROVE Outside(s)
  BY <1>0, <1>3 DEF WaitTimesOut
<1>4. ASSUME NEW t \in {Receiver, Closer}, TeardownStep(t) PROVE Outside(t)
  <2>1. CASE CloseCircuitWindow(t) \/ TeardownReturns(t)
    BY <1>0, <2>1 DEF CloseCircuitWindow, TeardownReturns
  <2>2. ASSUME NEW s \in Streams, TellStream(t, s) PROVE Outside(t)
    BY <1>0, <2>2 DEF TellStream
  <2>. QED BY <1>4, <2>1, <2>2 DEF TeardownStep
<1>5. ASSUME NEW t \in Threads, RefuseSend(t) PROVE Outside(t)
  BY <1>0, <1>5 DEF RefuseSend
<1>6. ASSUME CloseCircuit \/ CloserTeardown \/ Unregister PROVE Outside(Closer)
  BY <1>0, <1>6 DEF CloseCircuit, CloserTeardown, MarkDestroyed, AfterTeardown,
                    Unregister
<1>7. ASSUME RefillCircuit \/ ReceiverStops PROVE Outside(Receiver)
  BY <1>0, <1>7 DEF RefillCircuit, ReceiverStops, MarkDestroyed, AfterTeardown
<1>. QED BY <1>1, <1>2, <1>3, <1>4, <1>5, <1>6, <1>7

(* The channel that is closed, and the circuit that is unregistered, stay    *)
(* so.                                                                       *)
LEMMA LiveBefore ==
    ASSUME TypeOK, [Next]_vars
    PROVE  /\ (Live' => Live) /\ (Registered' => Registered)
           /\ chanClosed' # chanClosed => ChannelFails
           /\ chanClosed => chanClosed'
<1>. USE ThreadsAssumption
     DEF Goto, endVars, netVars, relayVars, clientVars
<1>. DEFINE Kept == /\ chanClosed' = chanClosed
                    /\ pc[Closer] = "exit" => pc'[Closer] = "exit"
<1>0. pc \in [Threads -> PCs]
  BY DEF TypeOK
<1>1. ASSUME NEW s \in Streams, UserStep(s) \/ SendStep(s) \/ WaitTimesOut(s)
      PROVE  Kept
  <2>1. CASE UserStep(s)
    BY <1>0, <2>1 DEF UserStep, SendData, SendControl
  <2>2. CASE TakeStreamUnit(s) \/ SleepOnStream(s) \/ StreamSendFails(s)
    BY <1>0, <2>2 DEF TakeStreamUnit, SleepOnStream, StreamSendFails
  <2>3. CASE TakeCircuitUnit(s) \/ SleepOnCircuit(s) \/ CircuitSendFails(s)
    BY <1>0, <2>3 DEF TakeCircuitUnit, SleepOnCircuit, CircuitSendFails
  <2>4. CASE WaitTimesOut(s)
    BY <1>0, <2>4 DEF WaitTimesOut
  <2>. QED BY <1>1, <2>1, <2>2, <2>3, <2>4 DEF SendStep
<1>2. ASSUME NEW t \in Threads, LockStep(t) PROVE Kept
  <2>1. CASE AcquireTx(t) \/ RefuseSend(t)
    BY <1>0, <2>1 DEF AcquireTx, RefuseSend
  <2>2. CASE StampForward(t) \/ NoteDigest(t)
    BY <1>0, <2>2 DEF StampForward, NoteDigest
  <2>3. CASE Transmit(t)
    BY <1>0, <2>3 DEF Transmit
  <2>. QED BY <1>2, <2>1, <2>2, <2>3 DEF LockStep
<1>3. ASSUME NEW t \in Threads, TeardownStep(t) PROVE Kept
  <2>1. CASE CloseCircuitWindow(t) \/ TeardownReturns(t)
    BY <1>0, <2>1 DEF CloseCircuitWindow, TeardownReturns
  <2>2. ASSUME NEW s \in Streams, TellStream(t, s) PROVE Kept
    BY <2>2 DEF TellStream
  <2>. QED BY <1>3, <2>1, <2>2 DEF TeardownStep
<1>4. ASSUME CloseCircuit \/ CloserTeardown \/ Unregister PROVE Kept
  BY <1>0, <1>4 DEF CloseCircuit, CloserTeardown, MarkDestroyed, AfterTeardown,
                    Unregister
<1>5. ASSUME ReceiverStep PROVE Kept
  <2>1. CASE \/ DropCell \/ ReceiveStreamSendme \/ ReceiveData
    BY <1>0, <2>1 DEF DropCell, ReceiveStreamSendme, ReceiveData, Reading
  <2>2. CASE ReceiveCircuitSendme
    BY <1>0, <2>2 DEF ReceiveCircuitSendme, Reading, MarkDestroyed
  <2>3. CASE RefillCircuit \/ ReceiveDestroy \/ ReceiverStops
    BY <1>0, <2>3 DEF RefillCircuit, ReceiveDestroy, ReceiverStops, Reading,
                      MarkDestroyed
  <2>. QED BY <1>2, <1>3, <1>5, <2>1, <2>2, <2>3 DEF ReceiverStep
<1>6. ASSUME RelayAcks \/ RelayMoves PROVE Kept
  BY <1>6 DEF RelayAcks, RelayTakesData, RelayTakesControl,
              RelayMoves, RelaySendsData, RelayDestroys, RelayMakesUpSendme
<1>7. ASSUME UNCHANGED vars PROVE Kept
  BY <1>7 DEF vars
<1>8. CASE ChannelFails
  BY <1>8 DEF ChannelFails, Live, Registered
<1>9. CASE ~ChannelFails
  <2>1. Kept
    BY <1>1, <1>2, <1>3, <1>4, <1>5, <1>6, <1>7, <1>9 DEF Next, CloserStep
  <2>. QED BY <2>1 DEF Live, Registered
<1>. QED BY <1>8, <1>9

Aligned == AcksBacked /\ AcksMatch /\ LineMatches /\ LineComplete

LEMMA FarTypes ==
    ASSUME TypeOK
    PROVE  /\ back \in Seq(BackCell) /\ Line \in Seq(WireCell)
           /\ Len(back) \in Nat /\ Len(Line) \in Nat
           /\ Total(back, AckCells) \in Nat /\ Total(Line, DataCells) \in Nat
           /\ rdata \in Nat /\ rseen \in Nat /\ stamped \in Nat
           /\ tracker.sent \in Nat /\ tracker.expected \in Seq(Nat)
           /\ Len(tracker.expected) \in Nat
           /\ CircuitIncrement \in Nat \ {0} /\ InNote \in {0, 1}
<1>1. /\ back \in Seq(BackCell) /\ Line \in Seq(WireCell)
      /\ rdata \in Nat /\ rseen \in Nat /\ stamped \in Nat
      /\ tracker.sent \in Nat /\ tracker.expected \in Seq(Nat)
  BY LineType DEF TypeOK
<1>2. /\ Len(back) \in Nat /\ Len(Line) \in Nat
      /\ Len(tracker.expected) \in Nat
  BY <1>1, LenProperties
<1>. QED BY <1>1, <1>2, CountInType, WindowAssumption DEF Total, InNote

LEMMA Undisturbed ==
    ASSUME TypeOK, [Next]_vars, Aligned,
           Line' = Line, InNote' = InNote, UNCHANGED <<stamped, tracker, back, rseen, rdata, rup, chanClosed>>
    PROVE  Aligned'
<1>1. Live' => Live
  BY LiveBefore
<1>2. Registered' => Registered
  BY LiveBefore
<1>3. AcksBacked'
  BY <1>2 DEF Aligned, AcksBacked, Total, Unacknowledged, far
<1>4. AcksMatch' /\ LineMatches' /\ LineComplete'
  BY <1>1 DEF Aligned, AcksMatch, LineMatches, LineComplete, Total, far,
              NoDestroyUpTo
<1>. QED BY <1>3, <1>4 DEF Aligned

(* The relay sends a cell that is no acknowledgement.                        *)
LEMMA OtherCellSent ==
    ASSUME TypeOK, [Next]_vars, Aligned,
           NEW c \in BackCell \ AckCells, back' = Append(back, c),
           Line' = Line, InNote' = InNote, rup' => rup,
           UNCHANGED <<stamped, tracker, rseen, rdata, chanClosed>>
    PROVE  Aligned'
<1>1. (Live' => Live) /\ (Registered' => Registered)
  BY LiveBefore
<1>2. /\ Len(back) \in Nat /\ Len(back') = Len(back) + 1
      /\ \A i \in 1 .. Len(back) : back'[i] = back[i]
      /\ back'[Len(back) + 1] = c
      /\ \A n \in 0 .. Len(back) :
             CountIn(back', AckCells, n) = CountIn(back, AckCells, n)
      /\ Total(back', AckCells) = Total(back, AckCells)
  BY AppendCounts, FarTypes
<1>3. AcksBacked'
  BY <1>1, <1>2 DEF Aligned, AcksBacked, Unacknowledged
<1>4. AcksMatch'
  <2>. SUFFICES ASSUME Live', NEW i \in 1 .. Len(back'), back'[i] \in AckCells
                PROVE  /\ CountIn(back', AckCells, i)
                             \in 1 .. Len(tracker'.expected)
                       /\ tracker'.expected[CountIn(back', AckCells, i)]
                             = back'[i].digest
                       /\ back'[i].digest # Malformed
    BY DEF AcksMatch
  <2>1. i \in 1 .. Len(back)
    BY <1>2
  <2>2. CountIn(back', AckCells, i) = CountIn(back, AckCells, i)
    BY <1>2, <2>1
  <2>. QED BY <1>1, <1>2, <2>1, <2>2 DEF Aligned, AcksMatch
<1>5. LineMatches' /\ LineComplete'
  BY <1>1, <1>2 DEF Aligned, LineMatches, LineComplete, NoDestroyUpTo
<1>. QED BY <1>3, <1>4, <1>5 DEF Aligned

(* The client takes a cell that is no acknowledgement.                       *)
LEMMA OtherCellRead ==
    ASSUME TypeOK, [Next]_vars, Aligned,
           back # <<>>, Head(back) \notin AckCells, back' = Tail(back),
           Line' = Line, InNote' = InNote,
           UNCHANGED <<stamped, tracker, rseen, rdata, rup, chanClosed>>
    PROVE  Aligned'
<1>1. (Live' => Live) /\ (Registered' => Registered)
  BY LiveBefore
<1>2. /\ Len(back) \in Nat \ {0} /\ Len(back') = Len(back) - 1
      /\ \A i \in 1 .. Len(back') : back'[i] = back[i + 1]
      /\ \A n \in 0 .. Len(back') :
             CountIn(back, AckCells, n + 1) = CountIn(back', AckCells, n) + 0
      /\ Total(back, AckCells) = Total(back', AckCells) + 0
  BY TailCounts, FarTypes
<1>3. /\ Total(back', AckCells) = Total(back, AckCells)
      /\ \A i \in 1 .. Len(back') :
             CountIn(back', AckCells, i) = CountIn(back, AckCells, i + 1)
  <2>1. \A n \in Nat : CountIn(back', AckCells, n) \in Nat
    BY CountInType
  <2>2. Total(back', AckCells) \in Nat
    BY <1>2, <2>1 DEF Total
  <2>. QED BY <1>2, <2>1, <2>2
<1>4. AcksBacked'
  BY <1>1, <1>3 DEF Aligned, AcksBacked, Unacknowledged
<1>5. AcksMatch'
  <2>. SUFFICES ASSUME Live', NEW i \in 1 .. Len(back'), back'[i] \in AckCells
                PROVE  /\ CountIn(back', AckCells, i)
                             \in 1 .. Len(tracker'.expected)
                       /\ tracker'.expected[CountIn(back', AckCells, i)]
                             = back'[i].digest
                       /\ back'[i].digest # Malformed
    BY DEF AcksMatch
  <2>1. i + 1 \in 1 .. Len(back) /\ back[i + 1] \in AckCells
    BY <1>2
  <2>. QED BY <1>1, <1>2, <1>3, <2>1 DEF Aligned, AcksMatch
<1>6. LineMatches' /\ LineComplete'
  BY <1>1, <1>3 DEF Aligned, LineMatches, LineComplete, NoDestroyUpTo
<1>. QED BY <1>4, <1>5, <1>6 DEF Aligned

LEMMA OneBatchMore ==
    ASSUME NEW n \in Nat, NEW i \in Nat
    PROVE  i * (n + 1) = i * n + i /\ i * n \in Nat
OBVIOUS

(* A cell of the line that completes a batch completes a whole one.          *)
LEMMA SomeBatch ==
    ASSUME NEW q, NEW C, NEW i, i \in Nat \ {0}, q[i] \in C,
           NEW a \in Nat, NEW b \in Nat, NEW m \in Nat,
           a + CountIn(q, C, i) = b * m
    PROVE  m # 0
<1>1. CountIn(q, C, i) >= 1 /\ CountIn(q, C, i) \in Nat
  BY CountInSelf, CountInType
<1>2. b * 0 = 0
  OBVIOUS
<1>. QED BY <1>1, <1>2

(* The client takes an acknowledgement: it has the digest the tracker        *)
(* expects next.                                                             *)
LEMMA AckIsExpected ==
    ASSUME TypeOK, AcksMatch, Live, back # <<>>, Head(back) \in AckCells
    PROVE  Authentic(Head(back).digest) /\ PopsExpected(Head(back).digest)
<1>1. /\ Len(back) \in Nat \ {0} /\ Head(back) = back[1]
  BY TailCounts, FarTypes
<1>2. CountIn(back, AckCells, 1) = 1
  <2>1. CountIn(back, AckCells, 0 + 1)
          = CountIn(back, AckCells, 0) + (IF back[0 + 1] \in AckCells THEN 1 ELSE 0)
    BY CountInNext
  <2>2. 0 + 1 = 1
    OBVIOUS
  <2>. QED BY <1>1, <2>1, <2>2, CountInZero
<1>3. /\ 1 \in 1 .. Len(tracker.expected)
      /\ tracker.expected[1] = back[1].digest
      /\ back[1].digest # Malformed
  <2>1. 1 \in 1 .. Len(back)
    BY <1>1
  <2>. QED BY <1>1, <1>2, <2>1 DEF AcksMatch
<1>4. tracker.expected # <<>> /\ Head(tracker.expected) = tracker.expected[1]
  BY <1>3, FarTypes, EmptySeq, HeadTailProperties
<1>. QED BY <1>1, <1>3, <1>4 DEF Authentic, PopsExpected, Matches

LEMMA AckRead ==
    ASSUME TypeOK, [Next]_vars, Aligned, HonestRelay, ~chanClosed, Registered,
           back # <<>>, Head(back) \in AckCells, back' = Tail(back),
           tracker' = AfterVerify(tracker),
           Line' = Line, InNote' = InNote,
           UNCHANGED <<stamped, rseen, rdata, rup, chanClosed>>
    PROVE  Aligned'
<1>. DEFINE e == tracker.expected
            k == Total(back, AckCells)
<1>1. (Live' => Live) /\ (Registered' => Registered)
  BY LiveBefore
<1>2. /\ Len(back) \in Nat \ {0} /\ Len(back') = Len(back) - 1
      /\ \A i \in 1 .. Len(back') : back'[i] = back[i + 1]
      /\ \A n \in 0 .. Len(back') :
             CountIn(back, AckCells, n + 1) = CountIn(back', AckCells, n) + 1
      /\ k = Total(back', AckCells) + 1
  BY TailCounts, FarTypes
<1>3. /\ \A n \in Nat : CountIn(back', AckCells, n) \in Nat
      /\ Total(back', AckCells) \in Nat /\ k \in Nat
  <2>1. \A n \in Nat : CountIn(back', AckCells, n) \in Nat
    BY CountInType
  <2>. QED BY <1>2, <2>1, FarTypes DEF Total
<1>4. e # <<>>
  BY AckIsExpected DEF Aligned, Live, PopsExpected
<1>5. /\ e \in Seq(Nat) /\ Len(e) \in Nat \ {0}
      /\ tracker'.sent = tracker.sent /\ tracker'.expected = Tail(e)
      /\ Len(Tail(e)) = Len(e) - 1
      /\ \A j \in 1 .. Len(Tail(e)) : Tail(e)[j] = e[j + 1]
  <2>1. e \in Seq(Nat)
    BY FarTypes
  <2>2. /\ Len(e) \in Nat \ {0} /\ Len(Tail(e)) = Len(e) - 1
        /\ \A j \in 1 .. Len(Tail(e)) : Tail(e)[j] = e[j + 1]
    BY <1>4, <2>1, TailCounts
  <2>. QED BY <1>4, <2>1, <2>2 DEF AfterVerify
<1>6. AcksBacked'
  <2>. DEFINE n == Total(back', AckCells)
              d == Total(Line, DataCells)
  <2>1. /\ n \in Nat /\ d \in Nat /\ rdata \in Nat /\ Len(e) \in Nat
        /\ tracker.sent \in Nat /\ CircuitIncrement \in Nat /\ k = n + 1
    BY <1>2, <1>3, FarTypes
  <2>2. CircuitIncrement * k + rdata + d = tracker.sent + CircuitIncrement * Len(e)
    BY DEF Aligned, AcksBacked, Unacknowledged
  <2>3. Unacknowledged' = tracker.sent + CircuitIncrement * (Len(e) - 1)
    BY <1>5 DEF Unacknowledged
  <2>. HIDE DEF n, d, k, e
  <2>. DEFINE under == CircuitIncrement * n
              above == CircuitIncrement * (Len(e) - 1)
  <2>4. Len(e) - 1 \in Nat /\ (Len(e) - 1) + 1 = Len(e)
    BY <1>5
  <2>6. /\ CircuitIncrement * k = under + CircuitIncrement
        /\ CircuitIncrement * Len(e) = above + CircuitIncrement
        /\ under \in Nat /\ above \in Nat
    BY <2>1, <2>4, OneBatchMore
  <2>. DEFINE before == CircuitIncrement * k
              all == CircuitIncrement * Len(e)
  <2>7. under + rdata + d = tracker.sent + above
    <3>1. /\ before = under + CircuitIncrement /\ all = above + CircuitIncrement
          /\ under \in Nat /\ above \in Nat
          /\ before + rdata + d = tracker.sent + all
      BY <2>2, <2>6
    <3>. HIDE DEF under, above, before, all
    <3>. QED BY <2>1, <3>1
  <2>5. CircuitIncrement * n + rdata + d = Unacknowledged'
    BY <2>3, <2>7 DEF under, above
  <2>. QED BY <2>1, <2>5 DEF AcksBacked, n, d
<1>7. AcksMatch'
  <2>. SUFFICES ASSUME Live', NEW i \in 1 .. Len(back'), back'[i] \in AckCells
                PROVE  /\ CountIn(back', AckCells, i)
                             \in 1 .. Len(tracker'.expected)
                       /\ tracker'.expected[CountIn(back', AckCells, i)]
                             = back'[i].digest
                       /\ back'[i].digest # Malformed
    BY DEF AcksMatch
  <2>. DEFINE r == CountIn(back', AckCells, i)
  <2>1. i + 1 \in 1 .. Len(back) /\ back[i + 1] \in AckCells
    BY <1>2
  <2>2. r >= 1 /\ r \in Nat
    <3>1. i \in Nat \ {0}
      BY <1>2
    <3>. QED BY <1>3, <3>1, CountInSelf
  <2>3. CountIn(back, AckCells, i + 1) = r + 1
    BY <1>2
  <2>4. /\ r + 1 \in 1 .. Len(e) /\ e[r + 1] = back'[i].digest
        /\ back'[i].digest # Malformed
    BY <1>1, <1>2, <2>1, <2>3 DEF Aligned, AcksMatch
  <2>. HIDE DEF r, e
  <2>5. r \in 1 .. Len(Tail(e)) /\ Tail(e)[r] = back'[i].digest
    BY <1>5, <2>2, <2>4
  <2>. QED BY <1>5, <2>4, <2>5 DEF r, e
<1>8. LineMatches'
  <2>. SUFFICES ASSUME Live', rup', NEW i \in 1 .. Len(Line'), NEW m \in Nat,
                       Line'[i] \in DataCells, NoDestroyUpTo(i)',
                       rdata' + CountIn(Line', DataCells, i) = CircuitIncrement * m
                PROVE  /\ Total(back', AckCells) + m \in 1 .. Len(tracker'.expected)
                       /\ tracker'.expected[Total(back', AckCells) + m] = rseen' + i
    BY DEF LineMatches
  <2>. DEFINE j == Total(back', AckCells) + m
  <2>1. m # 0
    <3>1. /\ i \in Nat \ {0} /\ rdata \in Nat /\ CircuitIncrement \in Nat
          /\ Line[i] \in DataCells
          /\ rdata + CountIn(Line, DataCells, i) = CircuitIncrement * m
      BY FarTypes
    <3>. QED BY <3>1, SomeBatch
  <2>3. k + m \in 1 .. Len(e) /\ e[k + m] = rseen + i
    BY <1>1 DEF Aligned, LineMatches, NoDestroyUpTo
  <2>4. j \in Nat /\ j >= 1 /\ k + m = j + 1
    <3>. DEFINE n == Total(back', AckCells)
    <3>1. n \in Nat /\ k = n + 1
      BY <1>2, <1>3
    <3>. HIDE DEF n, k
    <3>. QED BY <2>1, <3>1 DEF n
  <2>. HIDE DEF j, e, k
  <2>5. j \in 1 .. Len(Tail(e)) /\ Tail(e)[j] = rseen + i
    BY <1>5, <2>3, <2>4
  <2>. QED BY <1>5, <2>5 DEF j, e
<1>9. LineComplete'
  BY <1>1 DEF Aligned, LineComplete, NoDestroyUpTo
<1>. QED BY <1>6, <1>7, <1>8, <1>9 DEF Aligned

(* Or drops it, when nothing is registered any more.                         *)
LEMMA AckDropped ==
    ASSUME TypeOK, Aligned, ~Registered', ~chanClosed,
           back # <<>>, back' = Tail(back), Line' = Line,
           UNCHANGED <<tracker, rdata>>
    PROVE  Aligned'
<1>. DEFINE k == Total(back, AckCells)
            n == Total(back', AckCells)
            d == Total(Line, DataCells)
<1>1. k = n + (IF Head(back) \in AckCells THEN 1 ELSE 0) /\ n \in Nat
  <2>1. /\ k = n + (IF Head(back) \in AckCells THEN 1 ELSE 0)
        /\ back' \in Seq(BackCell)
    BY TailCounts, FarTypes
  <2>2. Len(back') \in Nat
    BY <2>1, LenProperties
  <2>. QED BY <2>1, <2>2, CountInType DEF Total
<1>2. ASSUME HonestRelay PROVE CircuitIncrement * n + rdata + d <= Unacknowledged
  <2>1. /\ CircuitIncrement * k + rdata + d <= Unacknowledged
        /\ CircuitIncrement \in Nat /\ rdata \in Nat /\ d \in Nat
        /\ Unacknowledged \in Nat /\ k \in Nat
    BY <1>2, FarTypes, UnitsTypes DEF Aligned, AcksBacked
  <2>. HIDE DEF k, n, d
  <2>2. CASE k = n
    BY <2>1, <2>2
  <2>3. CASE k = n + 1
    <3>1. CircuitIncrement * k = CircuitIncrement * n + CircuitIncrement
      BY <1>1, <2>1, <2>3
    <3>2. CircuitIncrement * n \in Nat
      BY <1>1, <2>1
    <3>. QED BY <2>1, <3>1, <3>2
  <2>. QED BY <1>1, <2>2, <2>3
<1>3. AcksBacked'
  BY <1>2 DEF AcksBacked, Unacknowledged
<1>4. AcksMatch' /\ LineMatches' /\ LineComplete'
  BY DEF AcksMatch, LineMatches, LineComplete, Live
<1>. QED BY <1>3, <1>4 DEF Aligned

(* The line grows by a cell that no window counts.                           *)
LEMMA OtherCellStamped ==
    ASSUME TypeOK, [Next]_vars, Aligned,
           NEW c \in WireCell \ DataCells, Line' = Append(Line, c),
           \/ c.kind = "DESTROY"
           \/ stamped' = stamped + 1 /\ InNote = 0 /\ InNote' = 0,
           UNCHANGED <<tracker, back, rseen, rdata, rup, chanClosed>>
    PROVE  Aligned'
<1>1. (Live' => Live) /\ (Registered' => Registered)
  BY LiveBefore
<1>2. /\ Len(Line) \in Nat /\ Len(Line') = Len(Line) + 1
      /\ \A i \in 1 .. Len(Line) : Line'[i] = Line[i]
      /\ Line'[Len(Line) + 1] = c
      /\ \A n \in 0 .. Len(Line) :
             CountIn(Line', DataCells, n) = CountIn(Line, DataCells, n)
      /\ Total(Line', DataCells) = Total(Line, DataCells) + 0
  BY AppendCounts, FarTypes
<1>3. AcksBacked' /\ AcksMatch'
  <2>1. Total(Line', DataCells) = Total(Line, DataCells)
    BY <1>2, FarTypes
  <2>. QED BY <1>1, <2>1 DEF Aligned, AcksBacked, AcksMatch, Unacknowledged, Total
<1>4. \A i \in 1 .. Len(Line) : NoDestroyUpTo(i)' => NoDestroyUpTo(i)
  BY <1>2 DEF NoDestroyUpTo
<1>5. LineMatches'
  <2>. SUFFICES ASSUME Live', rup', NEW i \in 1 .. Len(Line'), NEW m \in Nat,
                       Line'[i] \in DataCells, NoDestroyUpTo(i)',
                       rdata' + CountIn(Line', DataCells, i) = CircuitIncrement * m
                PROVE  /\ Total(back', AckCells) + m \in 1 .. Len(tracker'.expected)
                       /\ tracker'.expected[Total(back', AckCells) + m] = rseen' + i
    BY DEF LineMatches
  <2>1. i \in 1 .. Len(Line)
    BY <1>2
  <2>. QED BY <1>1, <1>2, <1>4, <2>1 DEF Aligned, LineMatches, Total
<1>6. LineComplete'
  <2>. SUFFICES ASSUME Live', rup', NoDestroyUpTo(Len(Line))'
                PROVE  stamped' = rseen' + Len(Line') + InNote'
    BY DEF LineComplete
  <2>1. c.kind # "DESTROY"
    BY <1>2 DEF NoDestroyUpTo
  <2>2. NoDestroyUpTo(Len(Line))
    BY <1>2 DEF NoDestroyUpTo
  <2>3. stamped = rseen + Len(Line) + 0
    BY <1>1, <2>1, <2>2 DEF Aligned, LineComplete
  <2>. QED BY <1>2, <2>1, <2>3, FarTypes
<1>. QED BY <1>3, <1>5, <1>6 DEF Aligned

(* A DATA cell is stamped, and not yet noted.                                *)
LEMMA DataStamped ==
    ASSUME TypeOK, [Next]_vars, Aligned,
           Line' = Line, InNote = 0, InNote' = 1, stamped' = stamped + 1,
           UNCHANGED <<tracker, back, rseen, rdata, rup, chanClosed>>
    PROVE  Aligned'
<1>1. (Live' => Live) /\ (Registered' => Registered)
  BY LiveBefore
<1>2. AcksBacked' /\ AcksMatch' /\ LineMatches'
  BY <1>1 DEF Aligned, AcksBacked, AcksMatch, LineMatches, NoDestroyUpTo,
              Unacknowledged, Total
<1>3. LineComplete'
  <2>. SUFFICES ASSUME Live', rup', NoDestroyUpTo(Len(Line))'
                PROVE  stamped' = rseen' + Len(Line') + InNote'
    BY DEF LineComplete
  <2>1. stamped = rseen + Len(Line) + 0
    BY <1>1 DEF Aligned, LineComplete, NoDestroyUpTo
  <2>. QED BY <2>1, FarTypes
<1>. QED BY <1>2, <1>3 DEF Aligned

LEMMA WholeBatches ==
    ASSUME NEW a \in Nat, NEW b \in Nat, NEW i \in Nat \ {0}, NEW s \in Nat,
           s < i, i * a = s + i * b
    PROVE  a = b /\ s = 0
<1>1. CASE a <= b
  <2>1. PICK d \in Nat : b = a + d
    <3>1. b - a \in Nat /\ b = a + (b - a)
      BY <1>1
    <3>. QED BY <3>1
  <2>2. i * b = i * a + i * d /\ i * d \in Nat /\ i * a \in Nat
    BY <2>1
  <2>3. s = 0 /\ i * d = 0
    BY <2>2
  <2>4. d = 0
    <3>. SUFFICES ASSUME d # 0 PROVE i * d # 0
      BY <2>3
    <3>. QED OBVIOUS
  <2>. QED BY <2>1, <2>3, <2>4
<1>2. CASE a > b
  <2>1. PICK d \in Nat : a = (b + 1) + d
    <3>1. a - (b + 1) \in Nat /\ a = (b + 1) + (a - (b + 1))
      BY <1>2
    <3>. QED BY <3>1
  <2>2. i * a = i * b + i + i * d /\ i * d \in Nat /\ i * b \in Nat
    BY <2>1
  <2>. QED BY <2>2
<1>. QED BY <1>1, <1>2

(* The digest of a DATA cell is noted, and the cell joins the line.          *)
LEMMA DataNoted ==
    ASSUME TypeOK, [Next]_vars, Aligned, CountBelowBoundary,
           NEW t \in Threads, NoteDigest(t),
           NEW c \in DataCells, Line' = Append(Line, c),
           InNote = 1, InNote' = 0,
           UNCHANGED <<stamped, back, rseen, rdata, rup, chanClosed>>
    PROVE  Aligned'
<1>. DEFINE e == tracker.expected
            k == Total(back, AckCells)
            d == Total(Line, DataCells)
<1>1. (Live' => Live) /\ (Registered' => Registered)
  BY LiveBefore
<1>2. /\ Len(Line) \in Nat /\ Len(Line') = Len(Line) + 1
      /\ \A i \in 1 .. Len(Line) : Line'[i] = Line[i]
      /\ Line'[Len(Line) + 1] = c
      /\ \A n \in 0 .. Len(Line) :
             CountIn(Line', DataCells, n) = CountIn(Line, DataCells, n)
      /\ CountIn(Line', DataCells, Len(Line) + 1) = d + 1
      /\ Total(Line', DataCells) = d + 1
  BY AppendCounts, FarTypes DEF DataCells
<1>3. Unacknowledged' = Unacknowledged + 1 /\ CountBelowBoundary'
  BY NoteCountsOne
<1>4. /\ e \in Seq(Nat) /\ Len(e) \in Nat /\ tracker.sent \in Nat
      /\ k \in Nat /\ d \in Nat /\ rdata \in Nat /\ rseen \in Nat
      /\ stamped \in Nat /\ CircuitIncrement \in Nat \ {0}
  BY FarTypes
<1>5. tracker' = NoteSent(tracker, CircuitIncrement, stamped)
  BY DEF NoteDigest
<1>6. \/ /\ tracker'.sent = 0 /\ tracker'.expected = Append(e, stamped)
      \/ /\ tracker'.sent = tracker.sent + 1 /\ tracker'.expected = e
  BY <1>5 DEF NoteSent
<1>7. /\ Len(tracker'.expected) \in Nat /\ Len(e) <= Len(tracker'.expected)
      /\ \A i \in 1 .. Len(e) : tracker'.expected[i] = e[i]
  <2>1. CASE tracker'.expected = Append(e, stamped)
    BY <1>4, <2>1, AppendProperties
  <2>2. CASE tracker'.expected = e
    BY <1>4, <2>2
  <2>. QED BY <1>6, <2>1, <2>2
<1>8. AcksBacked'
  <2>. DEFINE under == CircuitIncrement * k
  <2>1. under \in Nat /\ Unacknowledged \in Nat
    BY <1>4, UnitsTypes
  <2>2. CircuitIncrement * Total(back, AckCells)' = under
    BY DEF Total
  <2>3. HonestRelay /\ ~chanClosed
          => /\ under + rdata + d <= Unacknowledged
             /\ Registered => under + rdata + d = Unacknowledged
    BY DEF Aligned, AcksBacked
  <2>. HIDE DEF under, d
  <2>4. HonestRelay /\ ~chanClosed
          => /\ under + rdata + (d + 1) <= Unacknowledged + 1
             /\ Registered => under + rdata + (d + 1) = Unacknowledged + 1
    BY <1>4, <2>1, <2>3
  <2>. QED BY <1>1, <1>2, <1>3, <2>2, <2>4 DEF AcksBacked
<1>9. AcksMatch'
  BY <1>1, <1>7 DEF Aligned, AcksMatch
<1>10. LineMatches'
  <2>. SUFFICES ASSUME Live', rup', NEW i \in 1 .. Len(Line'), NEW m \in Nat,
                       Line'[i] \in DataCells, NoDestroyUpTo(i)',
                       rdata' + CountIn(Line', DataCells, i) = CircuitIncrement * m
                PROVE  /\ Total(back', AckCells) + m \in 1 .. Len(tracker'.expected)
                       /\ tracker'.expected[Total(back', AckCells) + m] = rseen' + i
    BY DEF LineMatches
  <2>1. CASE i \in 1 .. Len(Line)
    <3>1. k + m \in 1 .. Len(e) /\ e[k + m] = rseen + i
      BY <1>1, <1>2, <2>1 DEF Aligned, LineMatches, NoDestroyUpTo
    <3>. QED BY <1>7, <3>1
  <2>2. CASE i = Len(Line) + 1
    <3>. DEFINE u == Len(tracker'.expected)
                s == tracker'.sent
    <3>1. rdata + (d + 1) = CircuitIncrement * m
      BY <1>2, <2>2
    <3>2. CircuitIncrement * k + rdata + (d + 1) = s + CircuitIncrement * u
      BY <1>1, <1>2, <1>8 DEF AcksBacked, Unacknowledged, Live
    <3>3. s \in Nat /\ s < CircuitIncrement /\ u \in Nat
      BY <1>3, <1>4, <1>6, <1>7 DEF CountBelowBoundary
    <3>4. CircuitIncrement * (k + m) = s + CircuitIncrement * u
      <4>1. CircuitIncrement * (k + m) = CircuitIncrement * k + CircuitIncrement * m
            /\ CircuitIncrement * k \in Nat
        BY <1>4
      <4>. DEFINE x == CircuitIncrement * k
                  y == CircuitIncrement * u
                  z == CircuitIncrement * m
      <4>2. x + rdata + (d + 1) = s + y /\ x \in Nat /\ rdata + (d + 1) = z
            /\ CircuitIncrement * (k + m) = x + z
        BY <3>1, <3>2, <4>1
      <4>. HIDE DEF x, y, z, d, s, u
      <4>3. CircuitIncrement * (k + m) = s + y
        BY <1>4, <4>2
      <4>. QED BY <4>3 DEF y
    <3>5. k + m = u /\ s = 0
      <4>1. k + m \in Nat
        BY <1>4
      <4>. HIDE DEF k, u, s
      <4>. QED BY <1>4, <3>3, <3>4, <4>1, WholeBatches
    <3>6. tracker'.expected = Append(e, stamped)
      BY <1>4, <1>6, <3>5
    <3>7. u = Len(e) + 1 /\ tracker'.expected[u] = stamped
      BY <1>4, <3>6, AppendProperties
    <3>8. stamped = rseen + Len(Line) + 1
      <4>1. NoDestroyUpTo(Len(Line))
        BY <1>2, <2>2 DEF NoDestroyUpTo
      <4>. QED BY <1>1, <4>1 DEF Aligned, LineComplete
    <3>. HIDE DEF k, e
    <3>9. k + m \in 1 .. u /\ tracker'.expected[k + m] = rseen + i
      BY <1>4, <1>2, <2>2, <3>5, <3>7, <3>8
    <3>. QED BY <3>9 DEF k
  <2>. QED BY <1>2, <2>1, <2>2
<1>11. LineComplete'
  <2>. SUFFICES ASSUME Live', rup', NoDestroyUpTo(Len(Line))'
                PROVE  stamped' = rseen' + Len(Line') + InNote'
    BY DEF LineComplete
  <2>1. NoDestroyUpTo(Len(Line))
    BY <1>2 DEF NoDestroyUpTo
  <2>2. stamped = rseen + Len(Line) + 1
    BY <1>1, <2>1 DEF Aligned, LineComplete
  <2>. QED BY <1>2, <1>4, <2>2
<1>. QED BY <1>8, <1>9, <1>10, <1>11 DEF Aligned

(* The relay takes a cell that no window counts.                             *)
LEMMA OtherCellTaken ==
    ASSUME TypeOK, [Next]_vars, Aligned,
           Line # <<>>, Head(Line) \notin DataCells, Line' = Tail(Line),
           InNote' = InNote,
           \/ ~rup'
           \/ rseen' = rseen + 1 /\ rup /\ Head(Line).kind # "DESTROY",
           UNCHANGED <<stamped, tracker, back, rdata, chanClosed>>
    PROVE  Aligned'
<1>1. (Live' => Live) /\ (Registered' => Registered)
  BY LiveBefore
<1>2. /\ Len(Line) \in Nat \ {0} /\ Len(Line') = Len(Line) - 1
      /\ Head(Line) = Line[1]
      /\ \A i \in 1 .. Len(Line') : Line'[i] = Line[i + 1]
      /\ \A n \in 0 .. Len(Line') :
             CountIn(Line, DataCells, n + 1) = CountIn(Line', DataCells, n) + 0
      /\ Total(Line, DataCells) = Total(Line', DataCells) + 0
  BY TailCounts, FarTypes
<1>3. /\ Total(Line', DataCells) = Total(Line, DataCells)
      /\ \A i \in 1 .. Len(Line') :
             CountIn(Line', DataCells, i) = CountIn(Line, DataCells, i + 1)
  <2>1. \A n \in Nat : CountIn(Line', DataCells, n) \in Nat
    BY CountInType
  <2>2. Total(Line', DataCells) \in Nat
    BY <1>2, <2>1 DEF Total
  <2>. QED BY <1>2, <2>1, <2>2
<1>4. AcksBacked' /\ AcksMatch'
  BY <1>1, <1>3 DEF Aligned, AcksBacked, AcksMatch, Unacknowledged, Total
<1>5. \A i \in 0 .. Len(Line') :
         rup' /\ NoDestroyUpTo(i)' => NoDestroyUpTo(i + 1)
  <2>. SUFFICES ASSUME NEW i \in 0 .. Len(Line'), rup', NoDestroyUpTo(i)',
                       NEW j \in 1 .. i + 1
                PROVE  Line[j].kind # "DESTROY"
    BY DEF NoDestroyUpTo
  <2>1. CASE j = 1
    BY <1>2, <2>1
  <2>2. CASE j # 1
    <3>1. j - 1 \in 1 .. i /\ j - 1 \in 1 .. Len(Line') /\ (j - 1) + 1 = j
      BY <1>2, <2>2
    <3>2. Line'[j - 1] = Line[j]
      BY <1>2, <3>1
    <3>. QED BY <3>1, <3>2 DEF NoDestroyUpTo
  <2>. QED BY <2>1, <2>2
<1>6. LineMatches'
  <2>. SUFFICES ASSUME Live', rup', NEW i \in 1 .. Len(Line'), NEW m \in Nat,
                       Line'[i] \in DataCells, NoDestroyUpTo(i)',
                       rdata' + CountIn(Line', DataCells, i) = CircuitIncrement * m
                PROVE  /\ Total(back', AckCells) + m \in 1 .. Len(tracker'.expected)
                       /\ tracker'.expected[Total(back', AckCells) + m] = rseen' + i
    BY DEF LineMatches
  <2>1. i + 1 \in 1 .. Len(Line) /\ Line[i + 1] \in DataCells /\ NoDestroyUpTo(i + 1)
    BY <1>2, <1>5
  <2>2. rdata + CountIn(Line, DataCells, i + 1) = CircuitIncrement * m
    BY <1>3
  <2>3. /\ Total(back, AckCells) + m \in 1 .. Len(tracker.expected)
        /\ tracker.expected[Total(back, AckCells) + m] = rseen + (i + 1)
    BY <1>1, <2>1, <2>2 DEF Aligned, LineMatches
  <2>. QED BY <1>2, <2>3, FarTypes DEF Total
<1>7. LineComplete'
  <2>. SUFFICES ASSUME Live', rup', NoDestroyUpTo(Len(Line))'
                PROVE  stamped' = rseen' + Len(Line') + InNote'
    BY DEF LineComplete
  <2>1. NoDestroyUpTo(Len(Line))
    BY <1>2, <1>5
  <2>2. stamped = rseen + Len(Line) + InNote
    BY <1>1, <2>1 DEF Aligned, LineComplete
  <2>. QED BY <1>2, <2>2, FarTypes
<1>. QED BY <1>4, <1>6, <1>7 DEF Aligned

(* What the relay puts on its way back when it takes a DATA cell: its own    *)
(* SENDME, if n is 1, and maybe one of the cell's stream.                    *)
LEMMA RelayReplies ==
    ASSUME TypeOK, NEW s \in Streams, NEW mid, NEW n \in {0, 1},
           n = 0 => mid = back,
           n = 1 => mid = Append(back, Sendme(Nobody, rseen + 1)),
           back' = mid \/ back' = Append(mid, Sendme(s, Malformed))
    PROVE  /\ Len(back') \in Nat /\ Len(back) <= Len(back')
           /\ \A i \in 1 .. Len(back) :
                 /\ back'[i] = back[i]
                 /\ CountIn(back', AckCells, i) = CountIn(back, AckCells, i)
           /\ Total(back', AckCells) = Total(back, AckCells) + n
           /\ \A i \in Len(back) + 1 .. Len(back') :
                 back'[i] \in AckCells =>
                     /\ n = 1 /\ back'[i].digest = rseen + 1
                     /\ CountIn(back', AckCells, i) = Total(back, AckCells) + 1
<1>. DEFINE ack == Sendme(Nobody, rseen + 1)
            sack == Sendme(s, Malformed)
<1>1. /\ ack \in BackCell /\ ack \in AckCells /\ ack.digest = rseen + 1
      /\ sack \in BackCell /\ sack \notin AckCells
  BY FarTypes, SendmeType, ThreadsAssumption DEF AckCells, Sendme, Malformed
<1>2. back \in Seq(BackCell) /\ Len(back) \in Nat /\ Total(back, AckCells) \in Nat
  BY FarTypes
<1>3. \/ n = 0 /\ mid = back
      \/ n = 1 /\ mid = Append(back, ack)
  OBVIOUS
<1>. HIDE DEF ack
<1>4. /\ mid \in Seq(BackCell) /\ Len(mid) \in Nat
      /\ Len(mid) = Len(back) + n
      /\ \A i \in 1 .. Len(back) :
            /\ mid[i] = back[i]
            /\ CountIn(mid, AckCells, i) = CountIn(back, AckCells, i)
      /\ Total(mid, AckCells) = Total(back, AckCells) + n
      /\ n = 1 => /\ mid[Len(back) + 1] = ack
                  /\ CountIn(mid, AckCells, Len(back) + 1)
                       = Total(back, AckCells) + 1
  <2>1. CASE n = 1 /\ mid = Append(back, ack)
    BY <1>1, <1>2, <2>1, AppendCounts
  <2>2. CASE n = 0 /\ mid = back
    BY <1>2, <2>2
  <2>. QED BY <1>3, <2>1, <2>2
<1>5. ASSUME NEW i \in Len(back) + 1 .. Len(mid)
      PROVE  n = 1 /\ i = Len(back) + 1
  BY <1>2, <1>4, <1>5
<1>6. CASE back' = mid
  BY <1>1, <1>2, <1>4, <1>5, <1>6
<1>7. CASE back' = Append(mid, sack)
  <2>. HIDE DEF sack
  <2>1. /\ Len(back') = Len(mid) + 1
        /\ \A i \in 1 .. Len(mid) : back'[i] = mid[i]
        /\ \A i \in 0 .. Len(mid) :
              CountIn(back', AckCells, i) = CountIn(mid, AckCells, i)
        /\ back'[Len(mid) + 1] = sack
        /\ Total(back', AckCells) = Total(mid, AckCells) + 0
    BY <1>1, <1>4, <1>7, AppendCounts
  <2>2. ASSUME NEW i \in Len(back) + 1 .. Len(back'), back'[i] \in AckCells
        PROVE  /\ n = 1 /\ back'[i].digest = rseen + 1
               /\ CountIn(back', AckCells, i) = Total(back, AckCells) + 1
    <3>1. i # Len(mid) + 1
      BY <1>1, <2>1, <2>2
    <3>2. i \in Len(back) + 1 .. Len(mid)
      BY <1>2, <1>4, <2>1, <3>1
    <3>3. n = 1 /\ i = Len(back) + 1 /\ i \in 1 .. Len(mid)
      BY <1>2, <1>4, <1>5, <3>2
    <3>. QED BY <1>1, <1>4, <2>1, <3>3
  <2>3. Total(back', AckCells) = Total(back, AckCells) + n
    BY <1>2, <1>4, <2>1
  <2>4. \A i \in 1 .. Len(back) : i \in 1 .. Len(mid)
    BY <1>2, <1>4
  <2>. QED BY <1>2, <1>4, <2>1, <2>2, <2>3, <2>4
<1>. QED BY <1>6, <1>7 DEF sack

(* The relay takes a DATA cell: its count goes up or it sends the SENDME the *)
(* line promised.                                                            *)
LEMMA DataTaken ==
    ASSUME TypeOK, [Next]_vars, Aligned, rup, NEW n \in {0, 1},
           n = 1 <=> rdata + 1 = CircuitIncrement,
           n = 0 => rdata' = rdata + 1, n = 1 => rdata' = 0,
           Line # <<>>, Head(Line) \in DataCells, Line' = Tail(Line),
           InNote' = InNote, rseen' = rseen + 1,
           /\ Len(back') \in Nat /\ Len(back) <= Len(back')
           /\ \A i \in 1 .. Len(back) :
                 /\ back'[i] = back[i]
                 /\ CountIn(back', AckCells, i) = CountIn(back, AckCells, i)
           /\ Total(back', AckCells) = Total(back, AckCells) + n
           /\ \A i \in Len(back) + 1 .. Len(back') :
                 back'[i] \in AckCells =>
                     /\ n = 1 /\ back'[i].digest = rseen + 1
                     /\ CountIn(back', AckCells, i) = Total(back, AckCells) + 1,
           UNCHANGED <<stamped, tracker, rup, chanClosed>>
    PROVE  Aligned'
<1>. DEFINE e == tracker.expected
            b == CircuitIncrement
            k == Total(back, AckCells)
<1>1. (Live' => Live) /\ (Registered' => Registered)
  BY LiveBefore
<1>2. /\ Len(Line) \in Nat \ {0} /\ Len(Line') = Len(Line) - 1
      /\ Head(Line) = Line[1]
      /\ \A i \in 1 .. Len(Line') : Line'[i] = Line[i + 1]
      /\ \A i \in 0 .. Len(Line') :
             CountIn(Line, DataCells, i + 1) = CountIn(Line', DataCells, i) + 1
      /\ Total(Line, DataCells) = Total(Line', DataCells) + 1
  BY TailCounts, FarTypes
<1>3. /\ \A i \in Nat : CountIn(Line', DataCells, i) \in Nat
      /\ \A i \in Nat : CountIn(Line, DataCells, i) \in Nat
      /\ Total(Line', DataCells) \in Nat
  <2>1. \A i \in Nat : CountIn(Line', DataCells, i) \in Nat
    BY CountInType
  <2>2. \A i \in Nat : CountIn(Line, DataCells, i) \in Nat
    BY CountInType
  <2>. QED BY <1>2, <2>1, <2>2 DEF Total
<1>4. /\ k \in Nat /\ rdata \in Nat /\ b \in Nat \ {0} /\ rseen \in Nat
      /\ Len(back) \in Nat /\ Len(e) \in Nat /\ stamped \in Nat
      /\ InNote \in {0, 1}
  BY FarTypes
<1>5. /\ Total(back', AckCells) = k + n
      /\ rdata' \in Nat
      /\ \/ n = 0 /\ rdata' = rdata + 1
         \/ n = 1 /\ rdata' = 0 /\ rdata + 1 = b
  BY <1>4
<1>6. AcksBacked'
  <2>. DEFINE d == Total(Line', DataCells)
              old == b * k
              new == b * Total(back', AckCells)
  <2>1. /\ old \in Nat /\ new \in Nat
        /\ n = 0 => new = old
        /\ n = 1 => new = old + b
    <3>1. CASE n = 0
      BY <1>4, <1>5, <3>1
    <3>2. CASE n = 1
      <4>1. new = b * (k + 1)
        BY <1>5, <3>2
      <4>. HIDE DEF k, new
      <4>. QED BY <1>4, <3>2, <4>1, OneBatchMore
    <3>. QED BY <3>1, <3>2
  <2>2. HonestRelay /\ ~chanClosed
          => /\ old + rdata + (d + 1) <= Unacknowledged
             /\ Registered => old + rdata + (d + 1) = Unacknowledged
    BY <1>2 DEF Aligned, AcksBacked
  <2>3. new + rdata' + d = old + rdata + (d + 1)
    <3>1. /\ d \in Nat /\ old \in Nat /\ new \in Nat /\ rdata \in Nat
          /\ b \in Nat
      BY <1>3, <1>4, <2>1
    <3>2. CASE n = 0
      <4>1. rdata' = rdata + 1 /\ new = old
        BY <2>1, <3>2
      <4>. HIDE DEF new, old, d, b
      <4>. QED BY <3>1, <4>1
    <3>3. CASE n = 1
      <4>1. rdata' = 0 /\ rdata + 1 = b /\ new = old + b
        BY <2>1, <3>3
      <4>. HIDE DEF new, old, d, b
      <4>. QED BY <3>1, <4>1
    <3>. QED BY <3>2, <3>3
  <2>. HIDE DEF new, old, d
  <2>4. Unacknowledged' = Unacknowledged
    BY DEF Unacknowledged
  <2>5. HonestRelay /\ ~chanClosed
          => /\ new + rdata' + d <= Unacknowledged'
             /\ Registered' => new + rdata' + d = Unacknowledged'
    BY <1>1, <2>2, <2>3, <2>4
  <2>. QED BY <2>5 DEF AcksBacked, new, d
<1>7. ASSUME Live', n = 1
      PROVE  k + 1 \in 1 .. Len(e) /\ e[k + 1] = rseen + 1
  <2>1. 1 \in 1 .. Len(Line) /\ Line[1] \in DataCells
    BY <1>2
  <2>2. NoDestroyUpTo(1)
    BY <2>1 DEF NoDestroyUpTo, DataCells
  <2>3. CountIn(Line, DataCells, 1) = 1
    <3>1. CountIn(Line, DataCells, 0 + 1)
            = CountIn(Line, DataCells, 0) + (IF Line[0 + 1] \in DataCells THEN 1 ELSE 0)
      BY CountInNext
    <3>2. 0 + 1 = 1
      OBVIOUS
    <3>. QED BY <2>1, <3>1, <3>2, CountInZero
  <2>4. rdata + CountIn(Line, DataCells, 1) = b * 1
    BY <1>4, <1>5, <1>7, <2>3
  <2>. QED BY <1>1, <1>7, <2>1, <2>2, <2>4 DEF Aligned, LineMatches
<1>8. AcksMatch'
  <2>. SUFFICES ASSUME Live', NEW i \in 1 .. Len(back'), back'[i] \in AckCells
                PROVE  /\ CountIn(back', AckCells, i)
                             \in 1 .. Len(tracker'.expected)
                       /\ tracker'.expected[CountIn(back', AckCells, i)]
                             = back'[i].digest
                       /\ back'[i].digest # Malformed
    BY DEF AcksMatch
  <2>1. CASE i \in 1 .. Len(back)
    BY <1>1, <2>1 DEF Aligned, AcksMatch
  <2>2. CASE i \in Len(back) + 1 .. Len(back')
    <3>1. /\ n = 1 /\ back'[i].digest = rseen + 1
          /\ CountIn(back', AckCells, i) = k + 1
      BY <2>2
    <3>. QED BY <1>4, <1>7, <3>1 DEF Malformed
  <2>. QED BY <1>4, <2>1, <2>2
<1>9. \A i \in 0 .. Len(Line') : NoDestroyUpTo(i)' => NoDestroyUpTo(i + 1)
  <2>. SUFFICES ASSUME NEW i \in 0 .. Len(Line'), NoDestroyUpTo(i)',
                       NEW j \in 1 .. i + 1
                PROVE  Line[j].kind # "DESTROY"
    BY DEF NoDestroyUpTo
  <2>1. CASE j = 1
    BY <1>2, <2>1 DEF DataCells
  <2>2. CASE j # 1
    <3>1. j - 1 \in 1 .. i /\ j - 1 \in 1 .. Len(Line') /\ (j - 1) + 1 = j
      BY <1>2, <2>2
    <3>2. Line'[j - 1] = Line[j]
      BY <1>2, <3>1
    <3>. QED BY <3>1, <3>2 DEF NoDestroyUpTo
  <2>. QED BY <2>1, <2>2
<1>10. LineMatches'
  <2>. SUFFICES ASSUME Live', rup', NEW i \in 1 .. Len(Line'), NEW m \in Nat,
                       Line'[i] \in DataCells, NoDestroyUpTo(i)',
                       rdata' + CountIn(Line', DataCells, i) = b * m
                PROVE  /\ Total(back', AckCells) + m \in 1 .. Len(tracker'.expected)
                       /\ tracker'.expected[Total(back', AckCells) + m] = rseen' + i
    BY DEF LineMatches
  <2>. DEFINE c == CountIn(Line', DataCells, i)
  <2>1. /\ i + 1 \in 1 .. Len(Line) /\ Line[i + 1] \in DataCells
        /\ NoDestroyUpTo(i + 1) /\ i \in Nat /\ c \in Nat
        /\ CountIn(Line, DataCells, i + 1) = c + 1
    BY <1>2, <1>3, <1>9
  <2>2. CASE n = 0
    <3>1. rdata + CountIn(Line, DataCells, i + 1) = b * m
      BY <1>4, <1>5, <2>1, <2>2
    <3>2. k + m \in 1 .. Len(e) /\ e[k + m] = rseen + (i + 1)
      BY <1>1, <2>1, <3>1 DEF Aligned, LineMatches
    <3>3. Total(back', AckCells) + m = k + m /\ rseen' + i = rseen + (i + 1)
      BY <1>4, <1>5, <2>1, <2>2
    <3>. QED BY <3>2, <3>3
  <2>3. CASE n = 1
    <3>1. b * (m + 1) = b * m + b /\ b * m \in Nat
      BY <1>4, OneBatchMore
    <3>2. rdata + CountIn(Line, DataCells, i + 1) = b * (m + 1)
      <4>. DEFINE x == b * m
      <4>1. c = x
        BY <1>5, <2>1, <2>3
      <4>. HIDE DEF x, c, b
      <4>2. rdata + (c + 1) = x + b
        BY <1>4, <1>5, <2>1, <2>3, <4>1
      <4>. QED BY <2>1, <3>1, <4>2 DEF x
    <3>3. k + (m + 1) \in 1 .. Len(e) /\ e[k + (m + 1)] = rseen + (i + 1)
      BY <1>1, <2>1, <3>2 DEF Aligned, LineMatches
    <3>4. Total(back', AckCells) + m = k + (m + 1) /\ rseen' + i = rseen + (i + 1)
      <4>. HIDE DEF k
      <4>. QED BY <1>4, <1>5, <2>1, <2>3
    <3>. QED BY <3>3, <3>4
  <2>. QED BY <2>2, <2>3
<1>11. LineComplete'
  <2>. SUFFICES ASSUME Live', rup', NoDestroyUpTo(Len(Line))'
                PROVE  stamped' = rseen' + Len(Line') + InNote'
    BY DEF LineComplete
  <2>0. Len(Line') \in 0 .. Len(Line') /\ Len(Line') + 1 = Len(Line)
    BY <1>2
  <2>1. NoDestroyUpTo(Len(Line))
    BY <1>9, <2>0 DEF NoDestroyUpTo
  <2>2. stamped = rseen + Len(Line) + InNote
    BY <1>1, <2>1 DEF Aligned, LineComplete
  <2>. QED BY <1>2, <1>4, <2>2
<1>. QED BY <1>6, <1>8, <1>10, <1>11 DEF Aligned

-------------------------------------------------------------------------------
(* The far end, action by action.                                            *)

LEMMA ClosersStep ==
    ASSUME TypeOK, ClosersCell, [Next]_vars
    PROVE  ClosersCell'
<1>. USE ThreadsAssumption DEF Goto, endVars, netVars, relayVars, clientVars
<1>0. pc \in [Threads -> PCs] /\ kind \in [Threads -> Kinds]
  BY DEF TypeOK
<1>1. ASSUME NEW s \in Streams, UserStep(s) \/ SendStep(s) \/ WaitTimesOut(s)
      PROVE  ClosersCell'
  <2>1. CASE UserStep(s)
    BY <1>0, <2>1 DEF UserStep, SendData, SendControl, ClosersCell
  <2>2. CASE SendStep(s) \/ WaitTimesOut(s)
    <3>1. kind' = kind /\ pc'[Closer] = pc[Closer]
      BY <1>0, <2>2 DEF SendStep, TakeStreamUnit, SleepOnStream,
         StreamSendFails, TakeCircuitUnit, SleepOnCircuit, CircuitSendFails,
         WaitTimesOut
    <3>. QED BY <3>1 DEF ClosersCell
  <2>. QED BY <1>1, <2>1, <2>2
<1>2. ASSUME NEW t \in Threads, LockStep(t) PROVE ClosersCell'
  <2>1. CASE AcquireTx(t) \/ RefuseSend(t)
    BY <1>0, <2>1 DEF AcquireTx, RefuseSend, ClosersCell
  <2>2. CASE StampForward(t) \/ NoteDigest(t)
    BY <1>0, <2>2 DEF StampForward, NoteDigest, ClosersCell
  <2>3. CASE Transmit(t)
    BY <1>0, <2>3 DEF Transmit, AfterSend, ClosersCell
  <2>. QED BY <1>2, <2>1, <2>2, <2>3 DEF LockStep
<1>3. ASSUME NEW t \in Threads, TeardownStep(t) PROVE ClosersCell'
  <2>1. CASE CloseCircuitWindow(t) \/ TeardownReturns(t)
    BY <1>0, <2>1 DEF CloseCircuitWindow, TeardownReturns, AfterTeardown,
                      ClosersCell
  <2>2. ASSUME NEW s \in Streams, TellStream(t, s) PROVE ClosersCell'
    BY <2>2 DEF TellStream, ClosersCell
  <2>. QED BY <1>3, <2>1, <2>2 DEF TeardownStep
<1>4. ASSUME CloseCircuit \/ CloserTeardown \/ Unregister PROVE ClosersCell'
  BY <1>0, <1>4 DEF CloseCircuit, CloserTeardown, MarkDestroyed, AfterTeardown,
                    Unregister, ClosersCell
<1>5. ASSUME ReceiverStep PROVE ClosersCell'
  <2>1. CASE \/ DropCell \/ ReceiveCircuitSendme \/ RefillCircuit
             \/ ReceiveStreamSendme \/ ReceiveData \/ ReceiveDestroy
             \/ ReceiverStops
    <3>1. kind' = kind /\ pc'[Closer] = pc[Closer]
      BY <1>0, <2>1 DEF DropCell, ReceiveCircuitSendme, RefillCircuit,
         ReceiveStreamSendme, ReceiveData, ReceiveDestroy, ReceiverStops,
         MarkDestroyed, Reading
    <3>. QED BY <3>1 DEF ClosersCell
  <2>. QED BY <1>2, <1>3, <1>5, <2>1 DEF ReceiverStep
<1>6. ASSUME ChannelFails \/ RelayAcks \/ RelayMoves \/ UNCHANGED vars
      PROVE  ClosersCell'
  BY <1>6 DEF ChannelFails, RelayAcks, RelayTakesData, RelayTakesControl,
              RelayMoves, RelaySendsData, RelayDestroys, RelayMakesUpSendme,
              vars, ClosersCell
<1>. QED BY <1>1, <1>2, <1>3, <1>4, <1>5, <1>6 DEF Next, CloserStep

(* A DATA cell belongs to a stream.                                          *)
DataHasStream ==
    \A i \in 1 .. Len(wire) : wire[i].kind = "DATA" => wire[i].stream \in Streams

(* The wire is touched at its two ends only.                                 *)
LEMMA WireSteps ==
    ASSUME TypeOK, [Next]_vars
    PROVE  \/ wire' = wire
           \/ wire # <<>> /\ wire' = Tail(wire)
           \/ \E t \in Threads : wire' = Append(wire, CellOf(t))
<1>. USE DEF netVars
<1>1. ASSUME NEW s \in Streams, UserStep(s) \/ SendStep(s) \/ WaitTimesOut(s)
      PROVE  wire' = wire
  BY <1>1 DEF UserStep, SendData, SendControl, SendStep, TakeStreamUnit,
     SleepOnStream, StreamSendFails, TakeCircuitUnit, SleepOnCircuit,
     CircuitSendFails, WaitTimesOut
<1>2. ASSUME NEW t \in Threads, LockStep(t)
      PROVE  wire' = wire \/ wire' = Append(wire, CellOf(t))
  BY <1>2 DEF LockStep, AcquireTx, RefuseSend, StampForward, NoteDigest,
     Transmit, CellOf
<1>3. ASSUME NEW t \in Threads, TeardownStep(t) PROVE wire' = wire
  BY <1>3 DEF TeardownStep, CloseCircuitWindow, TeardownReturns, TellStream
<1>4. ASSUME CloseCircuit \/ CloserTeardown \/ Unregister PROVE wire' = wire
  BY <1>4 DEF CloseCircuit, CloserTeardown, Unregister
<1>5. ASSUME \/ DropCell \/ ReceiveCircuitSendme \/ RefillCircuit
             \/ ReceiveStreamSendme \/ ReceiveData \/ ReceiveDestroy
             \/ ReceiverStops
      PROVE  wire' = wire
  BY <1>5 DEF DropCell, ReceiveCircuitSendme, RefillCircuit,
     ReceiveStreamSendme, ReceiveData, ReceiveDestroy, ReceiverStops, Reading
<1>6. ASSUME ChannelFails \/ RelayMoves \/ UNCHANGED vars PROVE wire' = wire
  BY <1>6 DEF ChannelFails, RelayMoves, RelaySendsData, RelayDestroys,
              RelayMakesUpSendme, vars
<1>7. ASSUME RelayAcks PROVE wire # <<>> /\ wire' = Tail(wire)
  BY <1>7 DEF RelayAcks, RelayTakesData, RelayTakesControl
<1>8. Receiver \in Threads /\ Closer \in Threads
  BY DEF Threads
<1>. QED BY <1>1, <1>2, <1>3, <1>4, <1>5, <1>6, <1>7, <1>8
     DEF Next, CloserStep, ReceiverStep

LEMMA DataHasStreamStep ==
    ASSUME TypeOK, KindsAgree, DataHasStream, [Next]_vars
    PROVE  DataHasStream'
<1>0. wire \in Seq(WireCell) /\ Len(wire) \in Nat
  BY LenProperties DEF TypeOK
<1>1. CASE wire # <<>> /\ wire' = Tail(wire)
  <2>1. /\ Len(wire') = Len(wire) - 1
        /\ \A i \in 1 .. Len(wire') : wire'[i] = wire[i + 1]
    BY <1>0, <1>1, TailCounts
  <2>2. \A i \in 1 .. Len(wire') : i + 1 \in 1 .. Len(wire)
    BY <1>0, <2>1
  <2>. QED BY <2>1, <2>2 DEF DataHasStream
<1>2. ASSUME NEW t \in Threads, wire' = Append(wire, CellOf(t))
      PROVE  DataHasStream'
  <2>1. CellOf(t).kind = "DATA" => CellOf(t).stream \in Streams
    BY DEF CellOf, KindsAgree
  <2>2. /\ Len(wire') = Len(wire) + 1 /\ wire'[Len(wire) + 1] = CellOf(t)
        /\ \A i \in 1 .. Len(wire) : wire'[i] = wire[i]
    BY <1>0, <1>2, CellType, AppendCounts
  <2>3. \A i \in 1 .. Len(wire') : i \in 1 .. Len(wire) \/ i = Len(wire) + 1
    BY <1>0, <2>2
  <2>. QED BY <2>1, <2>2, <2>3 DEF DataHasStream
<1>3. CASE wire' = wire
  BY <1>3 DEF DataHasStream
<1>. QED BY <1>1, <1>2, <1>3, WireSteps

(* With the lock free, or taken by the thread that goes to transmit.         *)
LEMMA LockSteps ==
    ASSUME TypeOK, LockHolderMoves, CountBelowBoundary, KindsAgree,
           ClosersCell, Aligned, [Next]_vars, NEW t \in Threads, LockStep(t)
    PROVE  Aligned'
<1>. USE ThreadsAssumption DEF Goto, netVars, relayVars
<1>0. pc \in [Threads -> PCs] /\ tx \in Threads \cup {Nobody}
      /\ CellOf(t) \in WireCell /\ Nobody \notin Threads
  BY CellType DEF TypeOK, Threads
<1>1. CASE AcquireTx(t) /\ t = Closer
  <2>1. /\ tx' = t /\ pc'[t] = "transmit" /\ kind' = kind /\ wire' = wire
        /\ UNCHANGED <<stamped, tracker, back, rseen, rdata, rup, chanClosed>>
    BY <1>0, <1>1 DEF AcquireTx
  <2>2. Line = wire
    BY <1>1, LineOf DEF AcquireTx
  <2>3. Line' = Append(Line, CellOf(t))
    BY <2>1, <2>2 DEF Line, CellOf
  <2>4. CellOf(t).kind = "DESTROY"
    BY <1>1 DEF AcquireTx, ClosersCell, CellOf
  <2>5. CellOf(t) \in WireCell \ DataCells
    BY <1>0, <2>4 DEF DataCells
  <2>. QED BY <2>1, <2>3, <2>4, <2>5, OtherCellStamped
<1>2. CASE AcquireTx(t) /\ t # Closer
  <2>1. /\ tx' = t /\ pc'[t] = "stamp" /\ wire' = wire
        /\ UNCHANGED <<stamped, tracker, back, rseen, rdata, rup, chanClosed>>
    BY <1>0, <1>2 DEF AcquireTx
  <2>2. Line = wire /\ InNote = 0
    BY <1>2, LineOf DEF AcquireTx
  <2>3. Line' = wire /\ InNote' = 0
    BY <2>1 DEF Line, InNote
  <2>. QED BY <2>1, <2>2, <2>3, Undisturbed
<1>3. CASE RefuseSend(t)
  <2>1. Line' = Line /\ InNote' = InNote /\ UNCHANGED far
    BY <1>3, OutsideSteps
  <2>. QED BY <2>1, Undisturbed DEF far
<1>4. CASE StampForward(t)
  <2>1. /\ tx = t /\ Line = wire /\ InNote = 0 /\ t # Closer
        /\ kind[t] # "DESTROY"
    BY <1>4, LineOf DEF StampForward, ClosersCell
  <2>2. /\ tx' = t /\ wire' = wire /\ kind' = kind /\ stamped' = stamped + 1
        /\ UNCHANGED <<tracker, back, rseen, rdata, rup, chanClosed>>
    BY <1>4, <2>1 DEF StampForward
  <2>3. CASE kind[t] = "DATA"
    <3>1. pc'[t] = "note"
      BY <1>0, <1>4, <2>3 DEF StampForward
    <3>2. Line' = Line /\ InNote' = 1
      BY <2>1, <2>2, <3>1 DEF Line, InNote
    <3>. QED BY <2>1, <2>2, <3>2, DataStamped
  <2>4. CASE kind[t] # "DATA"
    <3>1. pc'[t] = "transmit"
      BY <1>0, <1>4, <2>4 DEF StampForward
    <3>2. Line' = Append(Line, CellOf(t)) /\ InNote' = 0
      BY <2>1, <2>2, <3>1 DEF Line, InNote, CellOf
    <3>3. CellOf(t) \in WireCell \ DataCells
      BY <1>0, <2>4 DEF DataCells, CellOf
    <3>. QED BY <2>1, <2>2, <3>2, <3>3, OtherCellStamped
  <2>. QED BY <2>3, <2>4
<1>5. CASE NoteDigest(t)
  <2>1. tx = t /\ Line = wire /\ InNote = 1
    BY <1>5, LineOf DEF NoteDigest
  <2>2. /\ tx' = t /\ wire' = wire /\ kind' = kind /\ pc'[t] = "transmit"
        /\ UNCHANGED <<stamped, back, rseen, rdata, rup, chanClosed>>
    BY <1>0, <1>5, <2>1 DEF NoteDigest
  <2>3. Line' = Append(Line, CellOf(t)) /\ InNote' = 0
    BY <2>1, <2>2 DEF Line, InNote, CellOf
  <2>4. CellOf(t) \in DataCells
    BY <1>0, <1>5 DEF NoteDigest, KindsAgree, DataCells, CellOf
  <2>. QED BY <1>5, <2>1, <2>2, <2>3, <2>4, DataNoted
<1>6. CASE Transmit(t) /\ ~chanClosed
  <2>1. Line = Append(wire, CellOf(t)) /\ InNote = 0
    BY <1>6, LineOf DEF Transmit
  <2>2. /\ tx' = Nobody /\ wire' = Append(wire, CellOf(t))
        /\ UNCHANGED <<stamped, tracker, back, rseen, rdata, rup, chanClosed>>
    BY <1>6 DEF Transmit, CellOf
  <2>3. Line' = Line /\ InNote' = InNote
    BY <1>0, <2>1, <2>2 DEF Line, InNote
  <2>. QED BY <2>2, <2>3, Undisturbed
<1>7. CASE Transmit(t) /\ chanClosed
  <2>1. chanClosed'
    BY <1>7, LiveBefore
  <2>. QED BY <2>1 DEF Aligned, AcksBacked, AcksMatch, LineMatches,
                       LineComplete, Live
<1>. QED BY <1>1, <1>2, <1>3, <1>4, <1>5, <1>6, <1>7 DEF LockStep

(* What the receiver makes of a cell.                                        *)
LEMMA ReadSteps ==
    ASSUME TypeOK, LockHolderMoves, Aligned, [Next]_vars,
           \/ DropCell \/ ReceiveCircuitSendme \/ ReceiveStreamSendme
           \/ ReceiveData \/ ReceiveDestroy
    PROVE  Aligned'
<1>. USE ThreadsAssumption DEF Goto, relayVars
<1>0. pc \in [Threads -> PCs] /\ Receiver \in Threads
  BY DEF TypeOK, Threads
<1>1. /\ pc[Receiver] = "idle" /\ ~chanClosed /\ back # <<>>
      /\ back' = Tail(back)
      /\ UNCHANGED <<chanClosed, wire, rseen, rdata, rup, stamped, tx, kind>>
      /\ \A q \in Threads \ {Receiver} : pc'[q] = pc[q]
  BY <1>0 DEF DropCell, ReceiveCircuitSendme, ReceiveStreamSendme, ReceiveData,
              ReceiveDestroy, Reading, clientVars, MarkDestroyed
<1>2. Line' = Line /\ InNote' = InNote
  <2>1. pc[Receiver] \notin Locked
    BY <1>1 DEF Locked
  <2>. QED BY <1>0, <1>1, <2>1, LineFrame
<1>3. Head(back) \in BackCell
  BY <1>1, TailCounts, FarTypes
<1>4. CASE ~HonestRelay
  BY <1>4 DEF Aligned, AcksBacked, AcksMatch, LineMatches, LineComplete, Live
<1>5. CASE DropCell
  <2>1. ~Registered' /\ tracker' = tracker
    BY <1>5, LiveBefore DEF DropCell, clientVars
  <2>. QED BY <1>1, <1>2, <2>1, AckDropped
<1>6. CASE ReceiveCircuitSendme /\ HonestRelay
  <2>1. /\ Registered /\ Head(back) \in AckCells
        /\ tracker' = IF PopsExpected(Head(back).digest)
                      THEN AfterVerify(tracker) ELSE tracker
    BY <1>3, <1>6 DEF ReceiveCircuitSendme, AckCells
  <2>2. PopsExpected(Head(back).digest)
    BY <1>1, <1>6, <2>1, AckIsExpected DEF Aligned, Live
  <2>. QED BY <1>1, <1>2, <1>6, <2>1, <2>2, AckRead
<1>7. CASE ReceiveStreamSendme \/ ReceiveData \/ ReceiveDestroy
  <2>1. Head(back) \notin AckCells /\ tracker' = tracker
    BY <1>7 DEF ReceiveStreamSendme, ReceiveData, ReceiveDestroy, AckCells
  <2>. QED BY <1>1, <1>2, <2>1, OtherCellRead
<1>. QED BY <1>4, <1>5, <1>6, <1>7

(* What the relay takes from the line.                                       *)
LEMMA LineTaken ==
    ASSUME TypeOK, RelayAcks
    PROVE  /\ Line # <<>> /\ Head(Line) = Head(wire) /\ Line' = Tail(Line)
           /\ Head(wire) \in WireCell /\ Head(wire) = wire[1]
           /\ 1 \in 1 .. Len(wire) /\ rup /\ PendingRefill' = PendingRefill
           /\ InNote' = InNote /\ UNCHANGED <<stamped, tracker, chanClosed>>
<1>. USE DEF clientVars
<1>0. /\ wire \in Seq(WireCell) /\ wire # <<>> /\ wire' = Tail(wire)
      /\ UNCHANGED <<pc, kind, tx, stamped, tracker, chanClosed>> /\ rup
  BY DEF RelayAcks, RelayTakesData, RelayTakesControl, TypeOK
<1>1. /\ Line # <<>> /\ Head(Line) = Head(wire) /\ Line' = Tail(Line)
      /\ InNote' = InNote
  <2>1. CASE tx \in Threads /\ pc[tx] = "transmit"
    <3>1. Line = Append(wire, CellOf(tx)) /\ Line' = Append(Tail(wire), CellOf(tx))
      BY <1>0, <2>1 DEF Line, CellOf
    <3>2. Line # <<>>
      <4>1. Len(Append(wire, CellOf(tx))) = Len(wire) + 1 /\ Len(wire) \in Nat
        BY <1>0, <2>1, CellType, AppendCounts
      <4>. HIDE DEF Line
      <4>. QED BY <3>1, <4>1
    <3>. QED BY <1>0, <3>1, <3>2, HeadTailAppend DEF InNote
  <2>2. CASE ~(tx \in Threads /\ pc[tx] = "transmit")
    BY <1>0, <2>2 DEF Line, InNote
  <2>. QED BY <2>1, <2>2
<1>2. Head(wire) \in WireCell /\ Head(wire) = wire[1] /\ 1 \in 1 .. Len(wire)
  BY <1>0, HeadTailProperties, LenProperties, EmptySeq
<1>. QED BY <1>0, <1>1, <1>2 DEF PendingRefill

LEMMA DataReplied ==
    ASSUME TypeOK, DataHasStream, RelayTakesData
    PROVE  \E n \in {0, 1} :
             /\ n = 1 <=> rdata + 1 = CircuitIncrement
             /\ n = 0 => rdata' = rdata + 1
             /\ n = 1 => rdata' = 0
             /\ rseen' = rseen + 1 /\ rup' = rup /\ Head(Line) \in DataCells
             /\ Len(back') \in Nat /\ Len(back) <= Len(back')
             /\ \A i \in 1 .. Len(back) :
                   /\ back'[i] = back[i]
                   /\ CountIn(back', AckCells, i) = CountIn(back, AckCells, i)
             /\ Total(back', AckCells) = Total(back, AckCells) + n
             /\ \A i \in Len(back) + 1 .. Len(back') :
                   back'[i] \in AckCells =>
                       /\ n = 1 /\ back'[i].digest = rseen + 1
                       /\ CountIn(back', AckCells, i) = Total(back, AckCells) + 1
<1>. DEFINE s == Head(wire).stream
            n == IF CircuitAck THEN 1 ELSE 0
            ack == Sendme(Nobody, rseen + 1)
            mid == IF CircuitAck THEN Append(back, ack) ELSE back
<1>1. s \in Streams /\ Head(Line) \in DataCells
  BY LineTaken DEF RelayAcks, RelayTakesData, DataHasStream, DataCells
<1>2. mid = back \o (IF CircuitAck THEN <<ack>> ELSE <<>>)
      /\ mid \in Seq(BackCell)
  <2>1. back \in Seq(BackCell) /\ ack \in BackCell
    <3>1. back \in Seq(BackCell) /\ rseen + 1 \in Nat
      BY FarTypes
    <3>. QED BY <3>1, SendmeType
  <2>. HIDE DEF ack
  <2>. QED BY <2>1, AppendIsConcat, ConcatEmptySeq, AppendProperties
<1>3. back' = mid \/ back' = Append(mid, Sendme(s, Malformed))
  <2>1. back' = mid \o (IF StreamAck(s) THEN <<Sendme(s, Malformed)>> ELSE <<>>)
    BY <1>2 DEF RelayTakesData
  <2>2. Sendme(s, Malformed) \in BackCell
    BY <1>1, SendmeType DEF Malformed
  <2>. HIDE DEF mid, s
  <2>. QED BY <1>2, <2>1, <2>2, AppendIsConcat, ConcatEmptySeq
<1>4. /\ n \in {0, 1} /\ (n = 0 => mid = back)
      /\ n = 1 => mid = Append(back, Sendme(Nobody, rseen + 1))
      /\ n = 1 <=> rdata + 1 = CircuitIncrement
      /\ n = 0 => rdata' = rdata + 1
      /\ n = 1 => rdata' = 0
      /\ rseen' = rseen + 1 /\ rup' = rup
  BY DEF RelayTakesData, CircuitAck
<1>. HIDE DEF mid, s, n
<1>5. /\ Len(back') \in Nat /\ Len(back) <= Len(back')
      /\ \A i \in 1 .. Len(back) :
            /\ back'[i] = back[i]
            /\ CountIn(back', AckCells, i) = CountIn(back, AckCells, i)
      /\ Total(back', AckCells) = Total(back, AckCells) + n
      /\ \A i \in Len(back) + 1 .. Len(back') :
            back'[i] \in AckCells =>
                /\ n = 1 /\ back'[i].digest = rseen + 1
                /\ CountIn(back', AckCells, i) = Total(back, AckCells) + 1
  BY <1>1, <1>3, <1>4, RelayReplies
<1>. QED BY <1>1, <1>4, <1>5

LEMMA TakeSteps ==
    ASSUME TypeOK, Aligned, DataHasStream, [Next]_vars, RelayAcks
    PROVE  Aligned'
<1>1. CASE RelayTakesControl
  <2>1. Head(Line) \notin DataCells
    BY <1>1, LineTaken DEF RelayTakesControl, DataCells
  <2>2. /\ UNCHANGED <<back, rdata>>
        /\ \/ ~rup'
           \/ /\ rseen' = rseen + 1
              /\ rup
              /\ Head(Line).kind # "DESTROY"
    BY <1>1, LineTaken DEF RelayTakesControl
  <2>. QED BY <2>1, <2>2, LineTaken, OtherCellTaken
<1>2. CASE RelayTakesData
  BY <1>2, LineTaken, DataReplied, DataTaken
<1>. QED BY <1>1, <1>2 DEF RelayAcks

LEMMA AlignedStep ==
    ASSUME TypeOK, LockHolderMoves, CountBelowBoundary, KindsAgree,
           ClosersCell, DataHasStream, Aligned, [Next]_vars
    PROVE  Aligned'
<1>0. Receiver \in Threads /\ Closer \in Threads /\ Streams \subseteq Threads
  BY DEF Threads
<1>1. CASE \/ \E s \in Streams : UserStep(s) \/ SendStep(s) \/ WaitTimesOut(s)
           \/ \E t \in {Receiver, Closer} : TeardownStep(t)
           \/ CloseCircuit \/ CloserTeardown \/ Unregister
           \/ RefillCircuit \/ ReceiverStops
  <2>1. Line' = Line /\ InNote' = InNote /\ UNCHANGED far
    BY <1>1, OutsideSteps
  <2>. QED BY <2>1, Undisturbed DEF far
<1>2. CASE \E t \in Threads : LockStep(t)
  BY <1>2, LockSteps
<1>3. CASE \/ DropCell \/ ReceiveCircuitSendme \/ ReceiveStreamSendme
           \/ ReceiveData \/ ReceiveDestroy
  BY <1>3, ReadSteps
<1>4. CASE ChannelFails
  BY <1>4 DEF ChannelFails, Aligned, AcksBacked, AcksMatch, LineMatches,
              LineComplete, Live
<1>5. CASE RelayAcks
  BY <1>5, TakeSteps
<1>6. ASSUME (\E s \in Streams : RelaySendsData(s)) \/ RelayDestroys
      PROVE  Aligned'
  <2>1. PICK c \in BackCell \ AckCells : back' = Append(back, c)
    <3>1. ASSUME NEW s \in Streams, RelaySendsData(s)
          PROVE  \E c \in BackCell \ AckCells : back' = Append(back, c)
      BY <3>1 DEF RelaySendsData, BackCell, AckCells
    <3>2. ASSUME RelayDestroys
          PROVE  \E c \in BackCell \ AckCells : back' = Append(back, c)
      BY <3>2 DEF RelayDestroys, BackCell, AckCells
    <3>. QED BY <1>6, <3>1, <3>2
  <2>2. /\ UNCHANGED <<wire, pc, kind, tx>> /\ (rup' => rup)
        /\ UNCHANGED <<stamped, tracker, rseen, rdata, chanClosed>>
    BY <1>6 DEF RelaySendsData, RelayDestroys, clientVars, relayVars
  <2>3. Line' = Line /\ InNote' = InNote
    BY <2>2 DEF Line, InNote, CellOf
  <2>. QED BY <2>1, <2>2, <2>3, OtherCellSent
<1>7. CASE \E digest \in 0 .. stamped + 1 : RelayMakesUpSendme(digest)
  BY <1>7 DEF RelayMakesUpSendme, Aligned, AcksBacked, AcksMatch, LineMatches,
              LineComplete, Live
<1>8. CASE UNCHANGED vars
  <2>1. Line' = Line /\ InNote' = InNote /\ UNCHANGED far
    BY <1>8 DEF vars, Line, InNote, CellOf, far
  <2>. QED BY <2>1, Undisturbed DEF far
<1>. QED BY <1>0, <1>1, <1>2, <1>3, <1>4, <1>5, <1>6, <1>7, <1>8
     DEF Next, CloserStep, ReceiverStep, RelayMoves

(* The circuit is torn down for a bad SENDME only if one arrived.            *)
LEMMA AcceptedStep ==
    ASSUME TypeOK, AcksMatch, HonestRelayAccepted, [Next]_vars
    PROVE  HonestRelayAccepted'
<1>. USE DEF HonestRelayAccepted, endVars
<1>. SUFFICES ASSUME HonestRelay PROVE reason' # "SENDME"
  OBVIOUS
<1>1. ASSUME NEW s \in Streams, UserStep(s) \/ SendStep(s) \/ WaitTimesOut(s)
      PROVE  reason' = reason
  BY <1>1 DEF UserStep, SendData, SendControl, SendStep, TakeStreamUnit,
     SleepOnStream, StreamSendFails, TakeCircuitUnit, SleepOnCircuit,
     CircuitSendFails, WaitTimesOut
<1>2. ASSUME NEW t \in Threads, LockStep(t) \/ TeardownStep(t)
      PROVE  reason' = reason
  BY <1>2 DEF LockStep, AcquireTx, RefuseSend, StampForward, NoteDigest,
     Transmit, TeardownStep, CloseCircuitWindow, TeardownReturns, TellStream
<1>3. ASSUME \/ CloseCircuit \/ CloserTeardown \/ Unregister
             \/ DropCell \/ RefillCircuit \/ ReceiveStreamSendme
             \/ ReceiveData \/ ReceiveDestroy \/ ReceiverStops
      PROVE  reason' = reason \/ reason' \in {"client", "relay", "channel"}
  BY <1>3 DEF CloseCircuit, CloserTeardown, Unregister, DropCell,
     RefillCircuit, ReceiveStreamSendme, ReceiveData, ReceiveDestroy,
     ReceiverStops, MarkDestroyed
<1>4. ASSUME ReceiveCircuitSendme PROVE reason' = reason
  <2>1. Live /\ back # <<>> /\ Head(back) \in BackCell
    <3>1. Live /\ back # <<>>
      BY <1>4 DEF ReceiveCircuitSendme, Reading, Live
    <3>. QED BY <3>1, TailCounts, FarTypes
  <2>2. Head(back) \in AckCells
    BY <1>4, <2>1 DEF ReceiveCircuitSendme, AckCells
  <2>3. Authentic(Head(back).digest)
    BY <2>1, <2>2, AckIsExpected
  <2>. QED BY <1>4, <2>3 DEF ReceiveCircuitSendme
<1>5. ASSUME ChannelFails \/ RelayAcks \/ RelayMoves \/ UNCHANGED vars
      PROVE  reason' = reason
  BY <1>5 DEF ChannelFails, RelayAcks, RelayTakesData, RelayTakesControl,
     RelayMoves, RelaySendsData, RelayDestroys, RelayMakesUpSendme, vars
<1>6. Receiver \in Threads /\ Closer \in Threads /\ Streams \subseteq Threads
  BY DEF Threads
<1>. QED BY <1>1, <1>2, <1>3, <1>4, <1>5, <1>6
     DEF Next, CloserStep, ReceiverStep

LEMMA FarEndInit == Init => FarEndInv /\ DataHasStream
<1>. SUFFICES ASSUME Init PROVE FarEndInv /\ DataHasStream
  OBVIOUS
<1>1. /\ Line = <<>> /\ back = <<>> /\ wire = <<>> /\ InNote = 0
      /\ tracker = [sent |-> 0, expected |-> <<>>]
      /\ rdata = 0 /\ rseen = 0 /\ stamped = 0
  BY ThreadsAssumption DEF Init, Line, InNote, Threads
<1>2. Total(Line, DataCells) = 0 /\ Total(back, AckCells) = 0
  <2>1. Len(<<>>) = 0
    OBVIOUS
  <2>. QED BY <1>1, <2>1, CountInZero DEF Total
<1>3. AcksBacked
  <2>1. Unacknowledged = 0 /\ CircuitIncrement * 0 = 0
    BY <1>1, WindowAssumption DEF Unacknowledged
  <2>. QED BY <1>1, <1>2, <2>1 DEF AcksBacked
<1>4. AcksMatch /\ LineMatches /\ LineComplete /\ DataHasStream
  BY <1>1 DEF AcksMatch, LineMatches, LineComplete, DataHasStream
<1>5. ClosersCell /\ HonestRelayAccepted
  BY DEF Init, ClosersCell, HonestRelayAccepted, Threads
<1>. QED BY <1>3, <1>4, <1>5 DEF FarEndInv

LEMMA FarEndStep ==
    ASSUME IInv, LockHolderMoves, FarEndInv, DataHasStream, [Next]_vars
    PROVE  FarEndInv' /\ DataHasStream'
<1>1. Aligned'
  BY AlignedStep DEF FarEndInv, Aligned, IInv
<1>2. ClosersCell' /\ HonestRelayAccepted' /\ DataHasStream'
  BY ClosersStep, AcceptedStep, DataHasStreamStep DEF FarEndInv, IInv
<1>. QED BY <1>1, <1>2 DEF FarEndInv, Aligned

(* What stays true on the way.                                               *)
LEMMA InvariantsHold ==
    Spec => [](IInv /\ LockHolderMoves /\ FarEndInv /\ DataHasStream)
<1>. DEFINE Rest == KindsAgree /\ CountBelowBoundary /\ UnitsConserved
<1>1. Init => Rest /\ FarEndInv /\ DataHasStream
  BY KindsAgreeInit, UnitsConservedInit, WindowAssumption, FarEndInit
     DEF Init, CountBelowBoundary
<1>2. TypeOK /\ Rest /\ [Next]_vars => Rest'
  BY KindsAgreeStep, IInvStep DEF IInv
<1>3. TypeOK /\ Rest /\ LockHolderMoves /\ FarEndInv /\ DataHasStream
        /\ [Next]_vars
      => FarEndInv' /\ DataHasStream'
  BY FarEndStep DEF IInv
<1>4. TypeOK /\ Rest => IInv
  BY DEF IInv
<1>. HIDE DEF Rest
<1>. QED BY <1>1, <1>2, <1>3, <1>4, TypeCorrect, LockHeldOnlyToSend, PTL DEF Spec

(* A relay that acknowledges what it received is never taken for a forger:   *)
(* for every number of streams, every window and every interleaving of the   *)
(* senders, the receiver and the closer (_send_relay, _handle_circuit_sendme,*)
(* SendmeTracker).                                                           *)
THEOREM HonestRelaysAreAccepted == Spec => []HonestRelayAccepted
<1>1. FarEndInv => HonestRelayAccepted
  BY DEF FarEndInv
<1>. QED BY <1>1, InvariantsHold, PTL

-------------------------------------------------------------------------------
(***************************************************************************)
(* The two ends together: what is on the line is in flight, what the relay *)
(* has counted or acknowledged is held.                                    *)
(***************************************************************************)

Settled == TypeOK /\ LockHolderMoves /\ KindsAgree

HeldCells ==
    rdata + CircuitIncrement * Total(back, AckCells) + PendingRefill

LEMMA TwoEnds ==
    Settled => InFlight = Total(Line, DataCells) /\ HeldByRelay = HeldCells
<1>. SUFFICES ASSUME Settled
              PROVE  InFlight = Total(Line, DataCells) /\ HeldByRelay = HeldCells
  OBVIOUS
<1>. USE DEF Settled
<1>1. Count(wire, IsData) = Total(wire, DataCells)
  <2>1. DOMAIN wire = 1 .. Len(wire) /\ \A i \in 1 .. Len(wire) : wire[i] \in WireCell
    BY LenProperties, ElementOfSeq DEF TypeOK
  <2>2. {i \in DOMAIN wire : IsData(wire[i])}
          = {i \in 1 .. Len(wire) : wire[i] \in DataCells}
    BY <2>1 DEF IsData, DataCells
  <2>. QED BY <2>2 DEF Count, Total, CountIn
<1>2. Count(back, IsCircuitSendme) = Total(back, AckCells)
  <2>1. DOMAIN back = 1 .. Len(back) /\ \A i \in 1 .. Len(back) : back[i] \in BackCell
    BY LenProperties, ElementOfSeq DEF TypeOK
  <2>2. {i \in DOMAIN back : IsCircuitSendme(back[i])}
          = {i \in 1 .. Len(back) : back[i] \in AckCells}
    BY <2>1 DEF IsCircuitSendme, AckCells
  <2>. QED BY <2>2 DEF Count, Total, CountIn
<1>. DEFINE sending == {s \in Streams : pc[s] = "transmit" /\ kind[s] = "DATA"}
<1>3. Total(Line, DataCells) = Total(wire, DataCells) + Cardinality(sending)
  <2>0. wire \in Seq(WireCell) /\ Total(wire, DataCells) \in Nat
    BY LenProperties, CountInType DEF TypeOK, Total
  <2>1. CASE tx \in Threads /\ pc[tx] = "transmit"
    <3>1. Line = Append(wire, CellOf(tx)) /\ CellOf(tx) \in WireCell
      BY <2>1, CellType DEF Line
    <3>2. Total(Line, DataCells)
            = Total(wire, DataCells) + (IF CellOf(tx) \in DataCells THEN 1 ELSE 0)
      BY <2>0, <3>1, AppendCounts
    <3>3. \A s \in Streams : pc[s] = "transmit" => s = tx
      BY DEF LockHolderMoves, Threads
    <3>4. CASE kind[tx] = "DATA"
      <4>1. sending = {tx} /\ CellOf(tx) \in DataCells
        BY <2>1, <3>1, <3>3, <3>4 DEF KindsAgree, CellOf, DataCells
      <4>. HIDE DEF sending
      <4>. QED BY <3>2, <4>1, FS_Singleton
    <3>5. CASE kind[tx] # "DATA"
      <4>1. sending = {} /\ CellOf(tx) \notin DataCells
        BY <3>3, <3>5 DEF CellOf, DataCells
      <4>. HIDE DEF sending
      <4>. QED BY <3>2, <4>1, FS_EmptySet
    <3>. QED BY <3>4, <3>5
  <2>2. CASE ~(tx \in Threads /\ pc[tx] = "transmit")
    <3>1. Line = wire /\ sending = {}
      BY <2>2 DEF Line, LockHolderMoves, Threads
    <3>. HIDE DEF sending
    <3>. QED BY <2>0, <3>1, FS_EmptySet
  <2>. QED BY <2>1, <2>2
<1>. QED BY <1>1, <1>2, <1>3 DEF InFlight, HeldByRelay, HeldCells

LEMMA TwoEndsNext ==
    Settled' => InFlight' = Total(Line', DataCells) /\ HeldByRelay' = HeldCells'
<1>1. Settled' => (InFlight = Total(Line, DataCells))' /\ (HeldByRelay = HeldCells)'
  BY TwoEnds, PTL
<1>. QED BY <1>1 DEF Total

LEMMA FlightOfLock ==
    ASSUME TypeOK, LockHolderMoves, KindsAgree, ClosersCell, ~chanClosed,
           NEW t \in Threads, LockStep(t)
    PROVE  /\ UNCHANGED <<back, rdata>> /\ PendingRefill' = PendingRefill
           /\ \/ Total(Line', DataCells) = Total(Line, DataCells)
              \/ Total(Line', DataCells) = Total(Line, DataCells) + 1
<1>. USE ThreadsAssumption DEF Goto, netVars, relayVars
<1>0. /\ pc \in [Threads -> PCs] /\ tx \in Threads \cup {Nobody}
      /\ CellOf(t) \in WireCell /\ Nobody \notin Threads
      /\ Line \in Seq(WireCell) /\ Total(Line, DataCells) \in Nat
  BY CellType, FarTypes DEF TypeOK, Threads
<1>1. UNCHANGED <<back, rdata>> /\ PendingRefill' = PendingRefill
  <2>1. UNCHANGED <<back, rdata>>
    BY DEF LockStep, AcquireTx, RefuseSend, StampForward, NoteDigest, Transmit
  <2>2. pc[t] # "refill" /\ pc'[t] # "refill"
        /\ \A q \in Threads \ {t} : pc'[q] = pc[q]
    BY <1>0 DEF LockStep, AcquireTx, RefuseSend, StampForward, NoteDigest,
                Transmit, AfterSend
  <2>3. pc'[Receiver] = "refill" <=> pc[Receiver] = "refill"
    BY <2>2 DEF Threads
  <2>. QED BY <2>1, <2>3 DEF PendingRefill
<1>2. Line' = Line \/ Line' = Append(Line, CellOf(t))
  <2>1. CASE AcquireTx(t)
    <3>1. Line = wire
      BY <2>1, LineOf DEF AcquireTx
    <3>2. wire' = wire /\ kind' = kind /\ tx' = t
      BY <2>1 DEF AcquireTx
    <3>. QED BY <3>1, <3>2 DEF Line, CellOf
  <2>2. CASE RefuseSend(t)
    BY <2>2, OutsideSteps
  <2>3. CASE StampForward(t) \/ NoteDigest(t)
    <3>1. tx = t /\ Line = wire
      BY <2>3, LineOf DEF StampForward, NoteDigest
    <3>2. wire' = wire /\ kind' = kind /\ tx' = t
      BY <2>3, <3>1 DEF StampForward, NoteDigest
    <3>. QED BY <3>1, <3>2 DEF Line, CellOf
  <2>4. CASE Transmit(t)
    <3>1. Line = Append(wire, CellOf(t))
      BY <2>4, LineOf DEF Transmit
    <3>2. tx' = Nobody /\ wire' = Append(wire, CellOf(t))
      BY <2>4 DEF Transmit, CellOf
    <3>. QED BY <1>0, <3>1, <3>2 DEF Line
  <2>. QED BY <2>1, <2>2, <2>3, <2>4 DEF LockStep
<1>3. Line' = Append(Line, CellOf(t)) =>
        \/ Total(Line', DataCells) = Total(Line, DataCells)
        \/ Total(Line', DataCells) = Total(Line, DataCells) + 1
  <2>. SUFFICES ASSUME Line' = Append(Line, CellOf(t))
                PROVE  \/ Total(Line', DataCells) = Total(Line, DataCells)
                       \/ Total(Line', DataCells) = Total(Line, DataCells) + 1
    OBVIOUS
  <2>1. Total(Line', DataCells)
          = Total(Line, DataCells) + (IF CellOf(t) \in DataCells THEN 1 ELSE 0)
    BY <1>0, AppendCounts
  <2>. QED BY <1>0, <2>1
<1>. QED BY <1>1, <1>2, <1>3

(* A cell the receiver takes leaves the relay's hands, unless it is the      *)
(* acknowledgement whose units the receiver is about to give back.           *)
LEMMA HeldOfRead ==
    ASSUME TypeOK, LockHolderMoves,
           \/ DropCell \/ ReceiveCircuitSendme \/ ReceiveStreamSendme
           \/ ReceiveData \/ ReceiveDestroy
    PROVE  /\ Line' = Line /\ rdata' = rdata
           /\ HeldCells' = HeldCells \/ HeldCells' = HeldCells - CircuitIncrement
<1>. USE ThreadsAssumption DEF Goto, relayVars
<1>0. pc \in [Threads -> PCs] /\ Receiver \in Threads
  BY DEF TypeOK, Threads
<1>1. /\ pc[Receiver] = "idle" /\ ~chanClosed /\ back # <<>>
      /\ back' = Tail(back)
      /\ UNCHANGED <<chanClosed, wire, rdata, tx, kind>>
      /\ \A q \in Threads \ {Receiver} : pc'[q] = pc[q]
  BY <1>0 DEF DropCell, ReceiveCircuitSendme, ReceiveStreamSendme, ReceiveData,
              ReceiveDestroy, Reading, clientVars, MarkDestroyed
<1>2. Line' = Line
  <2>1. pc[Receiver] \notin Locked
    BY <1>1 DEF Locked
  <2>. QED BY <1>0, <1>1, <2>1, LineFrame
<1>. DEFINE b == CircuitIncrement
            k == Total(back', AckCells)
            n == IF Head(back) \in AckCells THEN 1 ELSE 0
<1>3. /\ Total(back, AckCells) = k + n /\ k \in Nat /\ b \in Nat /\ rdata \in Nat
      /\ Head(back) \in BackCell
  <2>1. /\ Total(back, AckCells) = k + n
        /\ back' \in Seq(BackCell) /\ Head(back) \in BackCell
    BY <1>1, TailCounts, FarTypes
  <2>2. Len(back') \in Nat
    BY <2>1, LenProperties
  <2>3. k \in Nat
    BY <2>2, CountInType DEF Total
  <2>. QED BY <2>1, <2>3, FarTypes
<1>4. /\ PendingRefill = 0
      /\ PendingRefill' = IF pc'[Receiver] = "refill" THEN b ELSE 0
  BY <1>1 DEF PendingRefill
<1>5. pc'[Receiver] = "refill" => n = 1
  BY <1>0, <1>1, <1>3 DEF DropCell, ReceiveCircuitSendme, ReceiveStreamSendme,
     ReceiveData, ReceiveDestroy, MarkDestroyed, AfterTeardown, AckCells, clientVars
<1>6. b * (k + 1) = b * k + b /\ b * k \in Nat
  BY <1>3, OneBatchMore
<1>7. /\ HeldCells = rdata + b * (k + n)
      /\ HeldCells' = rdata + b * k + PendingRefill'
  BY <1>1, <1>3, <1>4, <1>6 DEF HeldCells, Total
<1>. HIDE DEF k, n, b
<1>8. CASE n = 0
  <2>1. HeldCells' = HeldCells
    BY <1>3, <1>4, <1>5, <1>6, <1>7, <1>8
  <2>. QED BY <1>1, <1>2, <2>1
<1>9. CASE n = 1
  <2>. DEFINE x == b * k
  <2>1. HeldCells = rdata + (x + b)
    BY <1>6, <1>7, <1>9
  <2>2. HeldCells' = rdata + x + b \/ HeldCells' = rdata + x + 0
    BY <1>4, <1>7
  <2>3. x \in Nat
    BY <1>6
  <2>. HIDE DEF x
  <2>4. HeldCells' = HeldCells \/ HeldCells' = HeldCells - b
    BY <1>3, <2>1, <2>2, <2>3
  <2>. QED BY <1>1, <1>2, <2>4 DEF b
<1>. QED BY <1>8, <1>9 DEF n

(* The relay moves a DATA cell from the line into its hands.                 *)
LEMMA HeldOfTake ==
    ASSUME TypeOK, DataHasStream, RelayAcks
    PROVE  \/ /\ Total(Line, DataCells) = Total(Line', DataCells) + 1
              /\ HeldCells' = HeldCells + 1
           \/ /\ Total(Line', DataCells) = Total(Line, DataCells)
              /\ HeldCells' = HeldCells
<1>1. /\ Total(Line, DataCells)
           = Total(Line', DataCells) + (IF Head(Line) \in DataCells THEN 1 ELSE 0)
      /\ Total(Line', DataCells) \in Nat
  <2>1. /\ Total(Line, DataCells)
             = Total(Line', DataCells) + (IF Head(Line) \in DataCells THEN 1 ELSE 0)
        /\ Line' \in Seq(WireCell)
    <3>1. Line \in Seq(WireCell) /\ Line # <<>> /\ Line' = Tail(Line)
      BY LineTaken, FarTypes
    <3>. QED BY <3>1, TailCounts
  <2>2. Len(Line') \in Nat
    BY <2>1, LenProperties
  <2>. QED BY <2>1, <2>2, CountInType DEF Total
<1>2. CASE RelayTakesControl
  <2>1. Head(Line) \notin DataCells /\ UNCHANGED <<back, rdata>>
    BY <1>2, LineTaken DEF RelayTakesControl, DataCells
  <2>2. HeldCells' = HeldCells
    BY <2>1, LineTaken DEF HeldCells, Total
  <2>. QED BY <1>1, <2>1, <2>2
<1>3. CASE RelayTakesData
  <2>1. PICK n \in {0, 1} :
            /\ n = 1 <=> rdata + 1 = CircuitIncrement
            /\ n = 0 => rdata' = rdata + 1
            /\ n = 1 => rdata' = 0
            /\ Head(Line) \in DataCells
            /\ Total(back', AckCells) = Total(back, AckCells) + n
    BY <1>3, DataReplied
  <2>. DEFINE k == Total(back, AckCells)
              b == CircuitIncrement
              r == PendingRefill
  <2>2. /\ HeldCells = rdata + b * k + r /\ HeldCells' = rdata' + b * (k + n) + r
        /\ k \in Nat /\ b \in Nat /\ rdata \in Nat /\ r \in Nat
    <3>1. PendingRefill' = r /\ r \in {0, b}
      BY LineTaken DEF PendingRefill
    <3>. QED BY <2>1, <3>1, FarTypes DEF HeldCells, Total
  <2>3. b * (k + 1) = b * k + b /\ b * k \in Nat
    BY <2>2, OneBatchMore
  <2>. DEFINE x == b * k
  <2>. HIDE DEF k, r
  <2>4. CASE n = 0
    <3>1. HeldCells' = rdata + 1 + x + r /\ HeldCells = rdata + x + r
      BY <2>1, <2>2, <2>4
    <3>2. x \in Nat
      BY <2>3
    <3>. HIDE DEF x
    <3>3. HeldCells' = HeldCells + 1
      BY <2>2, <3>1, <3>2
    <3>. QED BY <1>1, <2>1, <3>3
  <2>5. CASE n = 1
    <3>1. HeldCells' = 0 + (x + b) + r /\ HeldCells = rdata + x + r /\ rdata + 1 = b
      BY <2>1, <2>2, <2>3, <2>5
    <3>2. x \in Nat
      BY <2>3
    <3>. HIDE DEF x, b
    <3>3. HeldCells' = HeldCells + 1
      BY <2>2, <3>1, <3>2
    <3>. QED BY <1>1, <2>1, <3>3
  <2>. QED BY <2>1, <2>4, <2>5
<1>. QED BY <1>2, <1>3 DEF RelayAcks

(* Everything else leaves both ends alone, but for the refill, which gives   *)
(* the sender its credit back.                                               *)
LEMMA HeldOfRest ==
    ASSUME TypeOK, LockHolderMoves,
           \/ \E s \in Streams : UserStep(s) \/ SendStep(s) \/ WaitTimesOut(s)
           \/ \E t \in {Receiver, Closer} : TeardownStep(t)
           \/ CloseCircuit \/ CloserTeardown \/ Unregister
           \/ RefillCircuit \/ ReceiverStops
    PROVE  /\ Line' = Line
           /\ HeldCells' = HeldCells \/ HeldCells' = HeldCells - CircuitIncrement
<1>. USE ThreadsAssumption DEF Goto
<1>0. pc \in [Threads -> PCs] /\ Receiver \in Threads /\ Closer \in Threads
  BY DEF TypeOK, Threads
<1>1. Line' = Line /\ UNCHANGED far
  BY OutsideSteps
<1>2. \/ pc'[Receiver] = "refill" <=> pc[Receiver] = "refill"
      \/ pc[Receiver] = "refill" /\ pc'[Receiver] = "idle"
  <2>1. ASSUME NEW s \in Streams, UserStep(s) \/ SendStep(s) \/ WaitTimesOut(s)
        PROVE  pc'[Receiver] = pc[Receiver]
    BY <1>0, <2>1 DEF UserStep, SendData, SendControl, SendStep,
       TakeStreamUnit, SleepOnStream, StreamSendFails, TakeCircuitUnit,
       SleepOnCircuit, CircuitSendFails, WaitTimesOut
  <2>2. ASSUME NEW t \in {Receiver, Closer}, TeardownStep(t)
        PROVE  pc'[Receiver] = "refill" <=> pc[Receiver] = "refill"
    BY <1>0, <2>2 DEF TeardownStep, CloseCircuitWindow, TeardownReturns,
       TellStream, AfterTeardown
  <2>3. ASSUME CloseCircuit \/ CloserTeardown \/ Unregister
        PROVE  pc'[Receiver] = pc[Receiver]
    BY <1>0, <2>3 DEF CloseCircuit, CloserTeardown, MarkDestroyed, Unregister
  <2>4. ASSUME RefillCircuit PROVE pc[Receiver] = "refill" /\ pc'[Receiver] = "idle"
    BY <1>0, <2>4 DEF RefillCircuit
  <2>5. ASSUME ReceiverStops
        PROVE  pc'[Receiver] = "refill" <=> pc[Receiver] = "refill"
    BY <1>0, <2>5 DEF ReceiverStops, MarkDestroyed, AfterTeardown
  <2>. QED BY <2>1, <2>2, <2>3, <2>4, <2>5
<1>3. PendingRefill' = PendingRefill \/ PendingRefill' = PendingRefill - CircuitIncrement
  BY <1>2, WindowAssumption DEF PendingRefill
<1>. DEFINE x == rdata + CircuitIncrement * Total(back, AckCells)
<1>4. HeldCells = x + PendingRefill /\ HeldCells' = x + PendingRefill'
  BY <1>1 DEF HeldCells, far, Total
<1>5. /\ CircuitIncrement * Total(back, AckCells) \in Nat
      /\ rdata \in Nat /\ PendingRefill \in Nat /\ CircuitIncrement \in Nat
  BY FarTypes, OneBatchMore DEF PendingRefill
<1>6. x \in Nat
  BY <1>5
<1>. DEFINE p == PendingRefill
            q == PendingRefill'
<1>7. (q = p \/ q = p - CircuitIncrement) /\ p \in Nat /\ CircuitIncrement \in Nat
      /\ HeldCells = x + p /\ HeldCells' = x + q
  BY <1>3, <1>4, <1>5
<1>. HIDE DEF x, p, q
<1>8. HeldCells' = HeldCells \/ HeldCells' = HeldCells - CircuitIncrement
  BY <1>6, <1>7
<1>. QED BY <1>1, <1>8

(* How far the two ends can move in one step.                                *)
LEMMA EndsMove ==
    ASSUME Settled, ClosersCell, DataHasStream, HonestRelay, ~MayFail,
           ~chanClosed, [Next]_vars
    PROVE  \/ /\ Total(Line', DataCells) = Total(Line, DataCells) + 1
              /\ HeldCells' = HeldCells
           \/ /\ Total(Line, DataCells) = Total(Line', DataCells) + 1
              /\ HeldCells' = HeldCells + 1
           \/ /\ Total(Line', DataCells) = Total(Line, DataCells)
              /\ \/ HeldCells' = HeldCells
                 \/ HeldCells' = HeldCells - CircuitIncrement
<1>. USE DEF Settled
<1>0. Receiver \in Threads /\ Closer \in Threads /\ Streams \subseteq Threads
  BY DEF Threads
<1>1. CASE \/ \E s \in Streams : UserStep(s) \/ SendStep(s) \/ WaitTimesOut(s)
           \/ \E t \in {Receiver, Closer} : TeardownStep(t)
           \/ CloseCircuit \/ CloserTeardown \/ Unregister
           \/ RefillCircuit \/ ReceiverStops
  BY <1>1, HeldOfRest DEF Total
<1>2. ASSUME NEW t \in Threads, LockStep(t)
      PROVE  /\ HeldCells' = HeldCells
             /\ \/ Total(Line', DataCells) = Total(Line, DataCells)
                \/ Total(Line', DataCells) = Total(Line, DataCells) + 1
  BY <1>2, FlightOfLock DEF HeldCells, Total
<1>3. CASE \/ DropCell \/ ReceiveCircuitSendme \/ ReceiveStreamSendme
           \/ ReceiveData \/ ReceiveDestroy
  BY <1>3, HeldOfRead DEF Total
<1>4. CASE RelayAcks
  BY <1>4, HeldOfTake
<1>5. ASSUME (\E s \in Streams : RelaySendsData(s)) \/ RelayDestroys
      PROVE  Line' = Line /\ HeldCells' = HeldCells
  <2>1. PICK c \in BackCell \ AckCells : back' = Append(back, c)
    <3>1. ASSUME NEW s \in Streams, RelaySendsData(s)
          PROVE  \E c \in BackCell \ AckCells : back' = Append(back, c)
      BY <3>1 DEF RelaySendsData, BackCell, AckCells
    <3>2. ASSUME RelayDestroys
          PROVE  \E c \in BackCell \ AckCells : back' = Append(back, c)
      BY <3>2 DEF RelayDestroys, BackCell, AckCells
    <3>. QED BY <1>5, <3>1, <3>2
  <2>2. UNCHANGED <<wire, pc, kind, tx, rdata>>
    BY <1>5 DEF RelaySendsData, RelayDestroys, clientVars, relayVars
  <2>3. Line' = Line /\ PendingRefill' = PendingRefill
    BY <2>2 DEF Line, CellOf, PendingRefill
  <2>4. Total(back', AckCells) = Total(back, AckCells) + 0
        /\ Total(back, AckCells) \in Nat
    BY <2>1, AppendCounts, FarTypes
  <2>5. Total(back', AckCells) = Total(back, AckCells)
    BY <2>4
  <2>. QED BY <2>2, <2>3, <2>5 DEF HeldCells
<1>6. ~ChannelFails /\ \A digest \in 0 .. stamped + 1 : ~RelayMakesUpSendme(digest)
  BY DEF ChannelFails, RelayMakesUpSendme
<1>7. CASE UNCHANGED vars
  BY <1>7 DEF vars, Line, CellOf, HeldCells, PendingRefill, Total
<1>. QED BY <1>0, <1>1, <1>2, <1>3, <1>4, <1>5, <1>6, <1>7
     DEF Next, CloserStep, ReceiverStep, RelayMoves, Total

(* The window is never overdrawn.                                            *)
LEMMA WithinCredit ==
    IInv /\ LockHolderMoves /\ AcksBacked /\ HonestRelay /\ ~chanClosed
      => /\ InFlight \in Nat /\ HeldByRelay \in Nat
         /\ InFlight + HeldByRelay <= CircuitInitial
<1>. SUFFICES ASSUME IInv, LockHolderMoves, AcksBacked, HonestRelay, ~chanClosed
              PROVE  /\ InFlight \in Nat /\ HeldByRelay \in Nat
                     /\ InFlight + HeldByRelay <= CircuitInitial
  OBVIOUS
<1>1. InFlight = Total(Line, DataCells) /\ HeldByRelay = HeldCells
  BY TwoEnds DEF IInv, Settled
<1>. DEFINE x == CircuitIncrement * Total(back, AckCells)
            d == Total(Line, DataCells)
<1>2. /\ x \in Nat /\ d \in Nat /\ rdata \in Nat /\ PendingRefill \in Nat
      /\ cwin.value \in Nat /\ Cardinality(Holding) \in Nat /\ lost \in Nat
      /\ Unacknowledged \in Nat
  BY FarTypes, UnitsTypes, HoldingFinite DEF IInv
<1>3. x + rdata + d <= Unacknowledged
  BY DEF AcksBacked
<1>4. cwin.value + Cardinality(Holding) + Unacknowledged + PendingRefill + lost
        = CircuitInitial
  BY DEF IInv, UnitsConserved
<1>5. HeldByRelay = rdata + x + PendingRefill /\ InFlight = d
  BY <1>1 DEF HeldCells
<1>. HIDE DEF x, d
<1>. QED BY <1>2, <1>3, <1>4, <1>5

LEMMA WithinCreditNext ==
    IInv' /\ LockHolderMoves' /\ AcksBacked' /\ HonestRelay /\ ~chanClosed'
      => /\ InFlight' \in Nat /\ HeldByRelay' \in Nat
         /\ InFlight' + HeldByRelay' <= CircuitInitial
<1>1. (IInv /\ LockHolderMoves /\ AcksBacked /\ HonestRelay /\ ~chanClosed)'
        => (InFlight \in Nat /\ HeldByRelay \in Nat
              /\ InFlight + HeldByRelay <= CircuitInitial)'
  BY WithinCredit, PTL
<1>. QED BY <1>1

LEMMA OneFewer ==
    ASSUME NEW m \in Nat, NEW n \in Nat, m = n + 1
    PROVE  n = m - 1 /\ m > 0
OBVIOUS

(* Every step is a step of the sliding window, or leaves it alone.           *)
LEMMA SlidingStep ==
    ASSUME IInv, LockHolderMoves, FarEndInv, DataHasStream, ~chanClosed,
           IInv', LockHolderMoves', FarEndInv', ~chanClosed',
           HonestRelay, ~MayFail, [Next]_vars
    PROVE  [Sliding!WindowNext]_(Sliding!window)
<1>. DEFINE f == InFlight
            h == HeldByRelay
            b == CircuitIncrement
            c == CircuitInitial
<1>1. /\ f \in Nat /\ h \in Nat /\ f + h <= c
      /\ f' \in Nat /\ h' \in Nat /\ f' + h' <= c
  BY WithinCredit, WithinCreditNext DEF FarEndInv
<1>2. /\ f = Total(Line, DataCells) /\ h = HeldCells
      /\ f' = Total(Line', DataCells) /\ h' = HeldCells'
  BY TwoEnds, TwoEndsNext DEF IInv, Settled
<1>3. \/ f' = f + 1 /\ h' = h
      \/ f = f' + 1 /\ h' = h + 1
      \/ f' = f /\ (h' = h \/ h' = h - b)
  BY <1>2, EndsMove DEF IInv, Settled, FarEndInv
<1>4. b \in Nat /\ c \in Nat
  BY WindowAssumption
<1>. HIDE DEF f, h, b, c
<1>5. \/ f + h < c /\ f' = f + 1 /\ h' = h
      \/ f > 0 /\ f' = f - 1 /\ h' = h + 1
      \/ h >= b /\ h' = h - b /\ f' = f
      \/ f' = f /\ h' = h
  <2>1. CASE f' = f + 1 /\ h' = h
    BY <1>1, <1>4, <2>1
  <2>2. CASE f = f' + 1 /\ h' = h + 1
    <3>1. f' = f - 1 /\ f > 0
      BY <1>1, <2>2, OneFewer
    <3>. QED BY <2>2, <3>1
  <2>3. CASE f' = f /\ (h' = h \/ h' = h - b)
    BY <1>1, <1>4, <2>3
  <2>. QED BY <1>3, <2>1, <2>2, <2>3
<1>. QED BY <1>5, Zenon DEF f, h, b, c, Sliding!WindowNext, Sliding!Send, Sliding!Deliver,
                     Sliding!Return, Sliding!window

(* The window, the tracker and the SENDMEs implement a sliding window of the *)
(* initial window's size: between an honest relay and a client whose channel *)
(* does not fail, for every number of streams and every window.              *)
THEOREM EndsKeepTheWindow ==
    ASSUME HonestRelay, ~MayFail
    PROVE  Spec => EndToEndWindow
<1>1. Init => Sliding!WindowInit
  <2>. SUFFICES ASSUME Init PROVE InFlight = 0 /\ HeldByRelay = 0
    BY DEF Sliding!WindowInit
  <2>1. wire = <<>> /\ back = <<>> /\ rdata = 0 /\ pc = [t \in Threads |-> "idle"]
    BY DEF Init
  <2>2. /\ {i \in DOMAIN wire : IsData(wire[i])} = {}
        /\ {i \in DOMAIN back : IsCircuitSendme(back[i])} = {}
        /\ {s \in Streams : pc[s] = "transmit" /\ kind[s] = "DATA"} = {}
        /\ PendingRefill = 0
    BY <2>1 DEF PendingRefill, Threads
  <2>3. CircuitIncrement * 0 = 0
    BY WindowAssumption
  <2>. QED BY <2>1, <2>2, <2>3, FS_EmptySet DEF InFlight, HeldByRelay, Count
<1>2. Init => ~chanClosed
  BY DEF Init
<1>3. TypeOK /\ ~chanClosed /\ [Next]_vars => ~chanClosed'
  <2>1. ~ChannelFails
    BY DEF ChannelFails
  <2>. QED BY <2>1, LiveBefore DEF TypeOK
<1>4. IInv /\ LockHolderMoves /\ FarEndInv /\ DataHasStream /\ ~chanClosed
        /\ (IInv /\ LockHolderMoves /\ FarEndInv /\ DataHasStream /\ ~chanClosed)'
        /\ [Next]_vars
      => [Sliding!WindowNext]_(Sliding!window)
  BY SlidingStep
<1>5. Spec => [](IInv /\ LockHolderMoves /\ FarEndInv /\ DataHasStream)
  BY InvariantsHold
<1>. QED BY <1>1, <1>2, <1>3, <1>4, <1>5, TypeCorrect, PTL
         DEF Spec, EndToEndWindow, Sliding!WindowSpec

-------------------------------------------------------------------------------
(***************************************************************************)
(* The units of one stream's window: in the client's hands, or on the way. *)
(***************************************************************************)

DataOf(s) == {c \in WireCell : c.kind = "DATA" /\ c.stream = s}
AcksOf(s) == {c \in BackCell : c.cmd = "SENDME" /\ c.stream = s}

Taken(s) ==
    IF \/ pc[s] \in {"circuit window", "circuit wait"}
       \/ pc[s] \in {"lock", "stamp", "note", "transmit"} /\ kind[s] = "DATA"
    THEN 1 ELSE 0

InHand(s) == swin[s].value + Taken(s) + slost[s]

Away(s) ==
    Total(wire, DataOf(s)) + rstream[s]
      + StreamIncrement * Total(back, AcksOf(s))

StreamLedger ==
    HonestRelay /\ ~destroyed
      => \A s \in Streams : InHand(s) + Away(s) = StreamInitial

(* A thread is in _teardown, or past it, only when the circuit is marked.    *)
TornDown ==
    \A t \in Threads :
        pc[t] \in {"close window", "tell streams", "unregister", "exit"}
          => destroyed

LEMMA StreamTypes ==
    ASSUME TypeOK, NEW s \in Streams
    PROVE  /\ wire \in Seq(WireCell) /\ back \in Seq(BackCell)
           /\ Len(wire) \in Nat /\ Len(back) \in Nat
           /\ Total(wire, DataOf(s)) \in Nat /\ Total(back, AcksOf(s)) \in Nat
           /\ rstream[s] \in Nat /\ slost[s] \in Nat /\ swin[s].value \in Nat
           /\ StreamIncrement \in Nat \ {0} /\ Taken(s) \in {0, 1}
           /\ StreamIncrement * Total(back, AcksOf(s)) \in Nat
<1>1. /\ wire \in Seq(WireCell) /\ back \in Seq(BackCell)
      /\ rstream[s] \in Nat /\ slost[s] \in Nat /\ swin[s].value \in Nat
  BY DEF TypeOK, PackageWindow
<1>2. Len(wire) \in Nat /\ Len(back) \in Nat
  BY <1>1, LenProperties
<1>3. Total(wire, DataOf(s)) \in Nat /\ Total(back, AcksOf(s)) \in Nat
  BY <1>2, CountInType DEF Total
<1>. QED BY <1>1, <1>2, <1>3, OneBatchMore, WindowAssumption DEF Taken

LEMMA LedgerIsConserved ==
    ASSUME TypeOK
    PROVE  StreamLedger <=> StreamUnitsConserved
<1>1. ASSUME NEW s \in Streams
      PROVE  /\ Total(wire, DataOf(s))
                  = Cardinality({i \in DOMAIN wire :
                                   wire[i].kind = "DATA" /\ wire[i].stream = s})
             /\ Total(back, AcksOf(s))
                  = Cardinality({i \in DOMAIN back :
                                   back[i].cmd = "SENDME" /\ back[i].stream = s})
  <2>1. /\ DOMAIN wire = 1 .. Len(wire) /\ DOMAIN back = 1 .. Len(back)
        /\ \A i \in 1 .. Len(wire) : wire[i] \in WireCell
        /\ \A i \in 1 .. Len(back) : back[i] \in BackCell
    BY LenProperties, ElementOfSeq DEF TypeOK
  <2>2. {i \in DOMAIN wire : wire[i].kind = "DATA" /\ wire[i].stream = s}
          = {i \in 1 .. Len(wire) : wire[i] \in DataOf(s)}
    BY <2>1 DEF DataOf
  <2>3. {i \in DOMAIN back : back[i].cmd = "SENDME" /\ back[i].stream = s}
          = {i \in 1 .. Len(back) : back[i] \in AcksOf(s)}
    BY <2>1 DEF AcksOf
  <2>. QED BY <2>2, <2>3 DEF Total, CountIn
<1>. DEFINE w(s) == Cardinality({i \in DOMAIN wire :
                        wire[i].kind = "DATA" /\ wire[i].stream = s})
            a(s) == Cardinality({i \in DOMAIN back :
                        back[i].cmd = "SENDME" /\ back[i].stream = s})
            Sum(s) == swin[s].value + Taken(s) + w(s) + rstream[s]
                        + StreamIncrement * a(s) + slost[s]
<1>2. ASSUME NEW s \in Streams
      PROVE  InHand(s) + Away(s) = Sum(s)
  <2>. DEFINE x == StreamIncrement * Total(back, AcksOf(s))
  <2>1. /\ Total(wire, DataOf(s)) = w(s) /\ x = StreamIncrement * a(s)
        /\ x \in Nat /\ w(s) \in Nat
    BY <1>1, StreamTypes
  <2>2. InHand(s) + Away(s) = swin[s].value + Taken(s) + slost[s] + (w(s) + rstream[s] + x)
    BY <2>1 DEF InHand, Away
  <2>3. Sum(s) = swin[s].value + Taken(s) + w(s) + rstream[s] + x + slost[s]
    BY <2>1
  <2>4. /\ swin[s].value \in Nat /\ Taken(s) \in Nat /\ slost[s] \in Nat
        /\ rstream[s] \in Nat
    BY StreamTypes
  <2>. HIDE DEF x, w, Sum
  <2>. QED BY <2>1, <2>2, <2>3, <2>4
<1>3. StreamUnitsConserved
        <=> (HonestRelay /\ ~destroyed => \A s \in Streams : Sum(s) = StreamInitial)
  BY DEF StreamUnitsConserved, Count, Taken
<1>. HIDE DEF Sum
<1>. QED BY <1>2, <1>3 DEF StreamLedger

LEMMA HandUntouched ==
    ASSUME NEW s \in Streams, pc'[s] = pc[s], kind'[s] = kind[s],
           swin'[s].value = swin[s].value, slost'[s] = slost[s]
    PROVE  InHand(s)' = InHand(s)
BY DEF InHand, Taken

(* A sender's unit is in the window, in its thread's hands, or lost.         *)
LEMMA SenderKeepsUnit ==
    ASSUME TypeOK, KindsAgree, NEW s \in Streams, NEW t \in Streams,
           UserStep(t) \/ SendStep(t) \/ WaitTimesOut(t)
    PROVE  InHand(s)' = InHand(s) /\ UNCHANGED <<wire, back, rstream>>
<1>. USE DEF Goto, endVars, netVars, relayVars, ghostVars, boundVars
<1>0. /\ pc \in [Threads -> PCs] /\ kind \in [Threads -> Kinds]
      /\ swin \in [Streams -> PackageWindow] /\ slost \in [Streams -> Nat]
      /\ s \in Threads /\ t \in Threads
      /\ swin[s].value \in Nat /\ slost[s] \in Nat
  BY DEF TypeOK, Threads, PackageWindow
<1>1. UNCHANGED <<wire, back, rstream>>
  BY DEF UserStep, SendData, SendControl, SendStep, TakeStreamUnit,
     SleepOnStream, StreamSendFails, TakeCircuitUnit, SleepOnCircuit,
     CircuitSendFails, WaitTimesOut
<1>2. CASE s # t
  <2>1. /\ pc'[s] = pc[s] /\ kind'[s] = kind[s] /\ swin'[s] = swin[s]
        /\ slost'[s] = slost[s]
    BY <1>0, <1>2 DEF UserStep, SendData, SendControl, SendStep,
       TakeStreamUnit, SleepOnStream, StreamSendFails, TakeCircuitUnit,
       SleepOnCircuit, CircuitSendFails, WaitTimesOut
  <2>. QED BY <1>1, <2>1, HandUntouched
<1>3. CASE s = t
  <2>1. CASE SendData(s)
    <3>1. Taken(s) = 0 /\ Taken(s)' = 0 /\ swin' = swin /\ slost' = slost
      BY <1>0, <2>1 DEF SendData, Taken
    <3>. QED BY <1>1, <3>1 DEF InHand
  <2>2. CASE SendControl(s)
    <3>1. Taken(s) = 0 /\ Taken(s)' = 0 /\ swin' = swin /\ slost' = slost
      BY <1>0, <2>2 DEF SendControl, Taken
    <3>. QED BY <1>1, <3>1 DEF InHand
  <2>3. CASE TakeStreamUnit(s)
    <3>1. Taken(s) = 0 /\ Taken(s)' = 1 /\ slost' = slost
          /\ swin'[s].value = swin[s].value - 1
      BY <1>0, <2>3 DEF TakeStreamUnit, Taken, Take
    <3>. QED BY <1>0, <1>1, <3>1 DEF InHand
  <2>4. CASE SleepOnStream(s) \/ StreamSendFails(s)
    <3>1. Taken(s) = 0 /\ Taken(s)' = 0 /\ swin' = swin /\ slost' = slost
      BY <1>0, <2>4 DEF SleepOnStream, StreamSendFails, Taken
    <3>. QED BY <1>1, <3>1 DEF InHand
  <2>5. CASE TakeCircuitUnit(s) \/ SleepOnCircuit(s)
    <3>1. Taken(s) = 1 /\ Taken(s)' = 1 /\ swin' = swin /\ slost' = slost
      BY <1>0, <2>5 DEF TakeCircuitUnit, SleepOnCircuit, Taken, KindsAgree
    <3>. QED BY <1>1, <3>1 DEF InHand
  <2>6. CASE CircuitSendFails(s)
    <3>1. Taken(s) = 1 /\ Taken(s)' = 0 /\ swin' = swin
          /\ slost'[s] = slost[s] + 1
      BY <1>0, <2>6 DEF CircuitSendFails, Taken
    <3>. QED BY <1>0, <1>1, <3>1 DEF InHand
  <2>7. CASE WaitTimesOut(s) /\ pc[s] = "circuit wait"
    <3>1. Taken(s) = 1 /\ Taken(s)' = 0 /\ swin' = swin
          /\ slost'[s] = slost[s] + 1
      BY <1>0, <2>7 DEF WaitTimesOut, Taken
    <3>. QED BY <1>0, <1>1, <3>1 DEF InHand
  <2>8. CASE WaitTimesOut(s) /\ pc[s] # "circuit wait"
    <3>1. Taken(s) = 0 /\ Taken(s)' = 0 /\ swin' = swin /\ slost' = slost
      BY <1>0, <2>8 DEF WaitTimesOut, Taken
    <3>. QED BY <1>1, <3>1 DEF InHand
  <2>. QED BY <1>3, <2>1, <2>2, <2>3, <2>4, <2>5, <2>6, <2>7, <2>8
           DEF UserStep, SendStep
<1>. QED BY <1>2, <1>3

(* Under the lock it goes on to the wire, or is lost with the send.          *)
LEMMA LockKeepsUnit ==
    ASSUME TypeOK, KindsAgree, ~destroyed, NEW s \in Streams,
           NEW t \in Threads, LockStep(t)
    PROVE  InHand(s)' + Away(s)' = InHand(s) + Away(s)
<1>. USE ThreadsAssumption DEF Goto, endVars, netVars, relayVars, ghostVars, boundVars
<1>0. /\ pc \in [Threads -> PCs] /\ kind \in [Threads -> Kinds]
      /\ swin \in [Streams -> PackageWindow] /\ slost \in [Streams -> Nat]
      /\ s \in Threads /\ Receiver \notin Streams /\ Closer \notin Streams
      /\ swin[s].value \in Nat /\ slost[s] \in Nat
  BY DEF TypeOK, Threads, PackageWindow
<1>1. ~RefuseSend(t)
  BY DEF RefuseSend
<1>2. CASE AcquireTx(t) \/ StampForward(t) \/ NoteDigest(t)
  <2>1. UNCHANGED <<wire, back, rstream, swin, slost, kind>>
    BY <1>2 DEF AcquireTx, StampForward, NoteDigest
  <2>2. Taken(s)' = Taken(s)
    <3>1. CASE s # t
      BY <1>0, <1>2, <2>1, <3>1 DEF AcquireTx, StampForward, NoteDigest, Taken
    <3>2. CASE s = t
      BY <1>0, <1>2, <2>1, <3>2 DEF AcquireTx, StampForward, NoteDigest, Taken
    <3>. QED BY <3>1, <3>2
  <2>. QED BY <2>1, <2>2 DEF InHand, Away, Total
<1>3. CASE Transmit(t) /\ chanClosed
  <2>1. UNCHANGED <<wire, back, rstream, swin, kind>>
    BY <1>3 DEF Transmit
  <2>2. InHand(s)' = InHand(s)
    <3>1. CASE s = t /\ kind[t] = "DATA"
      <4>1. Taken(s) = 1 /\ Taken(s)' = 0 /\ slost'[s] = slost[s] + 1
        BY <1>0, <1>3, <2>1, <3>1 DEF Transmit, Taken, AfterSend
      <4>. QED BY <1>0, <2>1, <4>1 DEF InHand
    <3>2. CASE s = t /\ kind[t] # "DATA"
      <4>1. Taken(s) = 0 /\ Taken(s)' = 0 /\ slost' = slost
        BY <1>0, <1>3, <2>1, <3>2 DEF Transmit, Taken, AfterSend
      <4>. QED BY <1>0, <2>1, <4>1 DEF InHand
    <3>3. CASE s # t
      <4>1. pc'[s] = pc[s] /\ slost'[s] = slost[s]
        BY <1>0, <1>3, <3>3 DEF Transmit
      <4>. QED BY <2>1, <4>1, HandUntouched
    <3>. QED BY <3>1, <3>2, <3>3
  <2>. QED BY <2>1, <2>2 DEF Away, Total
<1>4. CASE Transmit(t) /\ ~chanClosed
  <2>1. /\ UNCHANGED <<back, rstream, swin, kind, slost>>
        /\ wire' = Append(wire, CellOf(t))
    BY <1>4 DEF Transmit, CellOf
  <2>2. Total(wire', DataOf(s))
          = Total(wire, DataOf(s)) + (IF CellOf(t) \in DataOf(s) THEN 1 ELSE 0)
    <3>1. wire \in Seq(WireCell) /\ CellOf(t) \in WireCell
      BY CellType, StreamTypes
    <3>. QED BY <2>1, <3>1, AppendCounts
  <2>3. CellOf(t) \in DataOf(s) <=> t = s /\ kind[t] = "DATA"
    <3>1. CellOf(t) \in WireCell
      BY CellType
    <3>. QED BY <1>0, <3>1 DEF CellOf, DataOf, KindsAgree
  <2>4. CASE t = s /\ kind[t] = "DATA"
    <3>1. Taken(s) = 1 /\ Taken(s)' = 0
      BY <1>0, <1>4, <2>1, <2>4 DEF Transmit, Taken, AfterSend
    <3>2. InHand(s) = InHand(s)' + 1 /\ InHand(s)' \in Nat
      BY <1>0, <2>1, <3>1 DEF InHand
    <3>3. Away(s)' = Away(s) + 1 /\ Away(s) \in Nat
      <4>. DEFINE x == StreamIncrement * Total(back, AcksOf(s))
      <4>1. /\ x \in Nat /\ rstream[s] \in Nat /\ Total(wire, DataOf(s)) \in Nat
        BY StreamTypes
      <4>2. /\ Away(s) = Total(wire, DataOf(s)) + rstream[s] + x
            /\ Away(s)' = (Total(wire, DataOf(s)) + 1) + rstream[s] + x
        BY <2>1, <2>2, <2>3, <2>4 DEF Away, Total
      <4>. HIDE DEF x
      <4>. QED BY <4>1, <4>2
    <3>. HIDE DEF InHand, Away
    <3>. QED BY <3>2, <3>3
  <2>5. CASE ~(t = s /\ kind[t] = "DATA")
    <3>1. Taken(s)' = Taken(s)
      <4>1. CASE t = s
        BY <1>0, <1>4, <2>1, <2>5, <4>1 DEF Transmit, Taken, AfterSend
      <4>2. CASE t # s
        BY <1>0, <1>4, <2>1, <4>2 DEF Transmit, Taken
      <4>. QED BY <4>1, <4>2
    <3>2. Total(wire', DataOf(s)) = Total(wire, DataOf(s))
      BY <2>2, <2>3, <2>5, StreamTypes
    <3>. QED BY <2>1, <3>1, <3>2 DEF InHand, Away, Total
  <2>. QED BY <2>4, <2>5
<1>. QED BY <1>1, <1>2, <1>3, <1>4 DEF LockStep

(* The receiver gives a batch back for the SENDME of the stream it takes.    *)
LEMMA ReadKeepsUnits ==
    ASSUME TypeOK, TornDown, ~destroyed, NEW s \in Streams,
           \/ DropCell \/ ReceiveCircuitSendme \/ ReceiveStreamSendme
           \/ ReceiveData \/ ReceiveDestroy
    PROVE  InHand(s)' + Away(s)' = InHand(s) + Away(s)
<1>. USE ThreadsAssumption DEF Goto, relayVars
<1>0. /\ pc \in [Threads -> PCs] /\ Closer \in Threads /\ s \in Threads
      /\ s # Receiver
  BY DEF TypeOK, Threads
<1>1. ~DropCell
  BY <1>0 DEF DropCell, Registered, TornDown
<1>2. /\ back # <<>> /\ back' = Tail(back) /\ UNCHANGED <<wire, rstream, kind, slost>>
      /\ pc'[s] = pc[s]
  BY <1>0, <1>1 DEF ReceiveCircuitSendme, ReceiveStreamSendme, ReceiveData,
              ReceiveDestroy, Reading, clientVars, ghostVars, MarkDestroyed
<1>. DEFINE b == StreamIncrement
            k == Total(back', AcksOf(s))
            n == IF Head(back) \in AcksOf(s) THEN 1 ELSE 0
            rest == Total(wire, DataOf(s)) + rstream[s]
<1>3. /\ Total(back, AcksOf(s)) = k + n /\ k \in Nat /\ b \in Nat /\ rest \in Nat
      /\ Head(back) \in BackCell
  <2>1. /\ Total(back, AcksOf(s)) = k + n
        /\ back' \in Seq(BackCell) /\ Head(back) \in BackCell
    <3>1. back \in Seq(BackCell) /\ back # <<>> /\ back' = Tail(back)
      BY <1>2, StreamTypes
    <3>. QED BY <3>1, TailCounts
  <2>2. Len(back') \in Nat
    BY <2>1, LenProperties
  <2>3. k \in Nat
    BY <2>2, CountInType DEF Total
  <2>. QED BY <2>1, <2>3, StreamTypes
<1>4. Away(s) = rest + b * (k + n) /\ Away(s)' = rest + b * k
  BY <1>2, <1>3 DEF Away, Total
<1>5. b * (k + 1) = b * k + b /\ b * k \in Nat
  BY <1>3, OneBatchMore
<1>6. Taken(s)' = Taken(s) /\ Taken(s) \in Nat /\ swin[s].value \in Nat
      /\ slost[s] \in Nat
  BY <1>2, StreamTypes DEF Taken
<1>7. CASE ReceiveStreamSendme /\ Head(back).stream = s
  <2>1. n = 1
    BY <1>3, <1>7 DEF ReceiveStreamSendme, AcksOf
  <2>2. swin'[s].value = swin[s].value + b
    BY <1>7 DEF ReceiveStreamSendme, Refill, TypeOK
  <2>3. InHand(s)' = InHand(s) + b /\ InHand(s) \in Nat
    <3>. DEFINE v == swin[s].value
                u == Taken(s)
                l == slost[s]
    <3>1. /\ InHand(s) = v + u + l /\ InHand(s)' = (v + b) + u + l
          /\ v \in Nat /\ u \in Nat /\ l \in Nat /\ b \in Nat
      BY <1>2, <1>3, <1>6, <2>2 DEF InHand
    <3>. HIDE DEF v, u, l, b, InHand
    <3>. QED BY <3>1
  <2>. DEFINE x == b * k
  <2>4. Away(s) = rest + (x + b) /\ Away(s)' = rest + x /\ x \in Nat
    BY <1>4, <1>5, <2>1
  <2>. HIDE DEF x, rest, b, InHand, Away
  <2>. QED BY <1>3, <2>3, <2>4
<1>8. CASE ~(ReceiveStreamSendme /\ Head(back).stream = s)
  <2>1. n = 0
    BY <1>1, <1>3, <1>8, ThreadsAssumption DEF ReceiveCircuitSendme, ReceiveStreamSendme,
       ReceiveData, ReceiveDestroy, AcksOf
  <2>2. swin'[s].value = swin[s].value
    BY <1>1, <1>8 DEF ReceiveCircuitSendme, ReceiveStreamSendme,
       ReceiveData, ReceiveDestroy, TypeOK
  <2>3. InHand(s)' = InHand(s)
    BY <1>2, <1>6, <2>2 DEF InHand
  <2>4. k + n = k
    BY <1>3, <2>1
  <2>5. Away(s)' = Away(s)
    BY <1>4, <2>4
  <2>. QED BY <2>3, <2>5
<1>. QED BY <1>7, <1>8

(* The relay counts a cell it takes, or acknowledges the batch it completes. *)
LEMMA RelayKeepsUnits ==
    ASSUME TypeOK, DataHasStream, NEW s \in Streams, RelayAcks
    PROVE  InHand(s)' = InHand(s) /\ Away(s)' = Away(s)
<1>. USE DEF clientVars, ghostVars
<1>0. /\ wire # <<>> /\ wire' = Tail(wire) /\ wire \in Seq(WireCell)
      /\ UNCHANGED <<pc, kind, swin, slost>>
  BY DEF RelayAcks, RelayTakesData, RelayTakesControl, TypeOK
<1>1. InHand(s)' = InHand(s)
  BY <1>0 DEF InHand, Taken
<1>. DEFINE d == Total(wire', DataOf(s))
            e == IF Head(wire) \in DataOf(s) THEN 1 ELSE 0
<1>2. Total(wire, DataOf(s)) = d + e /\ d \in Nat
  <2>1. Total(wire, DataOf(s)) = d + e /\ wire' \in Seq(WireCell)
    BY <1>0, TailCounts
  <2>2. Len(wire') \in Nat
    BY <2>1, LenProperties
  <2>. QED BY <2>1, <2>2, CountInType DEF Total
<1>3. Head(wire) \in WireCell /\ Head(wire) = wire[1] /\ 1 \in 1 .. Len(wire)
  BY LineTaken
<1>4. CASE RelayTakesControl
  <2>1. e = 0 /\ UNCHANGED <<back, rstream>>
    BY <1>4 DEF RelayTakesControl, DataOf
  <2>2. Total(wire, DataOf(s)) = d
    BY <1>2, <2>1
  <2>. QED BY <1>1, <2>1, <2>2 DEF Away, Total
<1>5. CASE RelayTakesData
  <2>. DEFINE q == Head(wire).stream
              ack == Sendme(Nobody, rseen + 1)
              sack == Sendme(q, Malformed)
              mid == IF CircuitAck THEN Append(back, ack) ELSE back
              k == Total(back, AcksOf(s))
              b == StreamIncrement
  <2>1. q \in Streams /\ (e = 1 <=> q = s) /\ e \in {0, 1}
    BY <1>3, <1>5 DEF RelayTakesData, DataHasStream, DataOf
  <2>2. /\ ack \in BackCell /\ ack \notin AcksOf(s)
        /\ sack \in BackCell /\ (sack \in AcksOf(s) <=> q = s)
    <3>1. rseen + 1 \in Nat /\ Malformed \in Nat
      BY FarTypes DEF Malformed
    <3>2. ack \in BackCell /\ sack \in BackCell
      BY <2>1, <3>1, SendmeType
    <3>. QED BY <2>1, <3>2, ThreadsAssumption DEF AcksOf, Sendme
  <2>3. mid \in Seq(BackCell) /\ Total(mid, AcksOf(s)) = k
        /\ mid = back \o (IF CircuitAck THEN <<ack>> ELSE <<>>) /\ k \in Nat
    <3>1. back \in Seq(BackCell) /\ k \in Nat
      BY StreamTypes
    <3>. HIDE DEF ack
    <3>2. mid \in Seq(BackCell)
          /\ mid = back \o (IF CircuitAck THEN <<ack>> ELSE <<>>)
      BY <2>2, <3>1, AppendIsConcat, ConcatEmptySeq, AppendProperties
    <3>3. Total(Append(back, ack), AcksOf(s)) = k + 0
      BY <2>2, <3>1, AppendCounts
    <3>. QED BY <3>1, <3>2, <3>3
  <2>4. /\ StreamAck(q) => back' = Append(mid, sack)
        /\ ~StreamAck(q) => back' = mid
    <3>1. back' = mid \o (IF StreamAck(q) THEN <<sack>> ELSE <<>>)
      BY <1>5, <2>3 DEF RelayTakesData
    <3>. HIDE DEF mid, sack, q
    <3>. QED BY <2>2, <2>3, <3>1, AppendIsConcat, ConcatEmptySeq
  <2>5. Total(back', AcksOf(s)) = IF StreamAck(q) /\ q = s THEN k + 1 ELSE k
    <3>1. Total(Append(mid, sack), AcksOf(s))
            = k + (IF sack \in AcksOf(s) THEN 1 ELSE 0)
      <4>1. mid \in Seq(BackCell) /\ sack \in BackCell /\ Total(mid, AcksOf(s)) = k
        BY <2>2, <2>3
      <4>. HIDE DEF mid, sack, k
      <4>2. Total(Append(mid, sack), AcksOf(s))
              = Total(mid, AcksOf(s)) + (IF sack \in AcksOf(s) THEN 1 ELSE 0)
        BY <4>1, AppendCounts
      <4>. QED BY <4>1, <4>2
    <3>2. k \in Nat /\ Total(mid, AcksOf(s)) = k /\ (sack \in AcksOf(s) <=> q = s)
      BY <2>2, <2>3
    <3>. HIDE DEF mid, sack, q, k
    <3>3. CASE StreamAck(q) /\ q = s
      BY <2>4, <3>1, <3>2, <3>3
    <3>4. CASE StreamAck(q) /\ q # s
      <4>1. Total(Append(mid, sack), AcksOf(s)) = k
        BY <3>1, <3>2, <3>4
      <4>2. back' = Append(mid, sack)
        BY <2>4, <3>4
      <4>. QED BY <3>4, <4>1, <4>2
    <3>5. CASE ~StreamAck(q)
      BY <2>4, <3>2, <3>5
    <3>. QED BY <3>3, <3>4, <3>5
  <2>6. rstream'[s] = IF q = s THEN (IF StreamAck(s) THEN 0 ELSE rstream[s] + 1)
                      ELSE rstream[s]
    BY <1>5, <2>1 DEF RelayTakesData, TypeOK
  <2>7. StreamAck(s) <=> rstream[s] + 1 = b
    BY DEF StreamAck
  <2>8. /\ b * (k + 1) = b * k + b /\ b * k \in Nat /\ b \in Nat
        /\ rstream[s] \in Nat
    BY <2>3, OneBatchMore, StreamTypes
  <2>. DEFINE x == b * k
              r == rstream[s]
  <2>9. /\ Away(s) = (d + e) + r + x
        /\ Away(s)' = d + rstream'[s] + b * Total(back', AcksOf(s))
    BY <1>2 DEF Away, Total
  <2>10. CASE q = s /\ StreamAck(s)
    <3>1. Away(s) = (d + 1) + r + x /\ Away(s)' = d + 0 + (x + b) /\ r + 1 = b
      BY <2>1, <2>5, <2>6, <2>7, <2>8, <2>9, <2>10
    <3>2. x \in Nat /\ r \in Nat /\ b \in Nat
      BY <2>8
    <3>. HIDE DEF x, r, b, d, q, Away
    <3>. QED BY <1>1, <1>2, <3>1, <3>2
  <2>11. CASE q = s /\ ~StreamAck(s)
    <3>1. Away(s) = (d + 1) + r + x /\ Away(s)' = d + (r + 1) + x
      BY <2>1, <2>5, <2>6, <2>7, <2>8, <2>9, <2>11
    <3>2. x \in Nat /\ r \in Nat
      BY <2>8
    <3>. HIDE DEF x, r, b, d, q, Away
    <3>. QED BY <1>1, <1>2, <3>1, <3>2
  <2>12. CASE q # s
    <3>1. Away(s) = (d + 0) + r + x /\ Away(s)' = d + r + x
      BY <2>1, <2>5, <2>6, <2>7, <2>8, <2>9, <2>12
    <3>. HIDE DEF x, r, b, d, q, Away
    <3>. QED BY <1>1, <1>2, <3>1
  <2>. QED BY <2>10, <2>11, <2>12
<1>. QED BY <1>4, <1>5 DEF RelayAcks

(* The teardown changes no count, and the rest does not touch the streams.   *)
LEMMA RestKeepsUnits ==
    ASSUME TypeOK, NEW s \in Streams,
           \/ \E t \in {Receiver, Closer} : TeardownStep(t)
           \/ CloseCircuit \/ CloserTeardown \/ Unregister
           \/ RefillCircuit \/ ReceiverStops \/ ChannelFails
           \/ RelayDestroys \/ \E q \in Streams : RelaySendsData(q)
    PROVE  InHand(s)' = InHand(s) /\ Away(s)' = Away(s)
<1>. USE ThreadsAssumption
     DEF Goto, endVars, netVars, relayVars, clientVars, ghostVars
<1>0. /\ pc \in [Threads -> PCs] /\ kind \in [Threads -> Kinds]
      /\ swin \in [Streams -> PackageWindow] /\ s # Receiver /\ s # Closer
      /\ s \in Threads
  BY DEF TypeOK, Threads
<1>1. ASSUME NEW t \in {Receiver, Closer}, TeardownStep(t)
      PROVE  /\ pc'[s] = pc[s] /\ kind'[s] = kind[s] /\ slost'[s] = slost[s]
             /\ swin'[s].value = swin[s].value /\ UNCHANGED <<wire, back, rstream>>
  <2>1. CASE CloseCircuitWindow(t) \/ TeardownReturns(t)
    BY <1>0, <2>1 DEF CloseCircuitWindow, TeardownReturns
  <2>2. ASSUME NEW q \in Streams, TellStream(t, q)
        PROVE  /\ UNCHANGED <<pc, kind, slost, wire, back, rstream>>
               /\ swin'[s].value = swin[s].value
    BY <1>0, <2>2 DEF TellStream, CloseWindow
  <2>. QED BY <1>1, <2>1, <2>2 DEF TeardownStep
<1>2. ASSUME \/ CloseCircuit \/ CloserTeardown \/ Unregister
             \/ RefillCircuit \/ ReceiverStops
      PROVE  /\ pc'[s] = pc[s] /\ kind'[s] = kind[s]
             /\ UNCHANGED <<swin, slost, wire, back, rstream>>
  BY <1>0, <1>2 DEF CloseCircuit, CloserTeardown, Unregister, RefillCircuit,
     ReceiverStops, MarkDestroyed
<1>3. ASSUME ChannelFails
      PROVE  UNCHANGED <<pc, kind, swin, slost, wire, back, rstream>>
  BY <1>3 DEF ChannelFails
<1>4. ASSUME RelayDestroys \/ \E q \in Streams : RelaySendsData(q)
      PROVE  /\ UNCHANGED <<pc, kind, swin, slost, wire, rstream>>
             /\ Total(back', AcksOf(s)) = Total(back, AcksOf(s))
  <2>1. PICK c \in BackCell \ AcksOf(s) : back' = Append(back, c)
    <3>1. ASSUME NEW q \in Streams, RelaySendsData(q)
          PROVE  \E c \in BackCell \ AcksOf(s) : back' = Append(back, c)
      BY <3>1 DEF RelaySendsData, BackCell, AcksOf
    <3>2. ASSUME RelayDestroys
          PROVE  \E c \in BackCell \ AcksOf(s) : back' = Append(back, c)
      BY <3>2 DEF RelayDestroys, BackCell, AcksOf
    <3>. QED BY <1>4, <3>1, <3>2
  <2>2. Total(back', AcksOf(s)) = Total(back, AcksOf(s)) + 0
        /\ Total(back, AcksOf(s)) \in Nat
    BY <2>1, AppendCounts, StreamTypes
  <2>3. Total(back', AcksOf(s)) = Total(back, AcksOf(s))
    BY <2>2
  <2>. QED BY <1>4, <2>3 DEF RelaySendsData, RelayDestroys
<1>. QED BY <1>1, <1>2, <1>3, <1>4, HandUntouched DEF Away, Total

LEMMA TornDownStep ==
    ASSUME TypeOK, TornDown, [Next]_vars
    PROVE  TornDown'
<1>. DEFINE Past == {"close window", "tell streams", "unregister", "exit"}
            Stays == \A q \in Threads : pc'[q] \in Past => pc[q] \in Past
<1>. USE DEF Goto, endVars, netVars, relayVars, clientVars
<1>0. pc \in [Threads -> PCs]
  BY DEF TypeOK
<1>1. ASSUME NEW s \in Streams, UserStep(s) \/ SendStep(s) \/ WaitTimesOut(s)
      PROVE  Stays
  <2>1. CASE UserStep(s)
    BY <1>0, <2>1 DEF UserStep, SendData, SendControl
  <2>2. CASE SendStep(s) \/ WaitTimesOut(s)
    BY <1>0, <2>2 DEF SendStep, TakeStreamUnit, SleepOnStream,
       StreamSendFails, TakeCircuitUnit, SleepOnCircuit, CircuitSendFails,
       WaitTimesOut
  <2>. QED BY <1>1, <2>1, <2>2
<1>2. ASSUME NEW t \in Threads, LockStep(t) PROVE Stays
  <2>1. CASE AcquireTx(t) \/ RefuseSend(t)
    BY <1>0, <2>1 DEF AcquireTx, RefuseSend
  <2>2. CASE StampForward(t) \/ NoteDigest(t)
    BY <1>0, <2>2 DEF StampForward, NoteDigest
  <2>3. CASE Transmit(t)
    BY <1>0, <2>3 DEF Transmit, AfterSend
  <2>. QED BY <1>2, <2>1, <2>2, <2>3 DEF LockStep
<1>3. ASSUME NEW t \in Threads, TeardownStep(t) PROVE Stays
  <2>1. CASE CloseCircuitWindow(t) \/ TeardownReturns(t)
    BY <1>0, <2>1 DEF CloseCircuitWindow, TeardownReturns
  <2>2. ASSUME NEW q \in Streams, TellStream(t, q) PROVE Stays
    BY <2>2 DEF TellStream
  <2>. QED BY <1>3, <2>1, <2>2 DEF TeardownStep
<1>4. ASSUME CloseCircuit \/ Unregister PROVE Stays
  BY <1>0, <1>4 DEF CloseCircuit, Unregister
<1>5. ASSUME \/ DropCell \/ ReceiveStreamSendme \/ ReceiveData
             \/ RefillCircuit
      PROVE  Stays
  BY <1>0, <1>5 DEF DropCell, ReceiveStreamSendme, ReceiveData, RefillCircuit
<1>6. ASSUME CloserTeardown \/ ReceiveDestroy PROVE destroyed'
  BY <1>6, Zenon DEF CloserTeardown, ReceiveDestroy, MarkDestroyed
<1>7. ASSUME ReceiveCircuitSendme PROVE Stays \/ destroyed'
  <2>1. CASE Goto(Receiver, "refill")
    BY <1>0, <2>1
  <2>2. CASE MarkDestroyed(Receiver, "SENDME")
    BY <2>2, Zenon DEF MarkDestroyed
  <2>. QED BY <1>7, <2>1, <2>2 DEF ReceiveCircuitSendme
<1>8. ASSUME ReceiverStops PROVE destroyed'
  BY <1>8, Zenon DEF ReceiverStops, MarkDestroyed
<1>9. ASSUME ChannelFails \/ RelayAcks \/ RelayMoves \/ UNCHANGED vars
      PROVE  Stays
  BY <1>9 DEF ChannelFails, RelayAcks, RelayTakesData, RelayTakesControl,
     RelayMoves, RelaySendsData, RelayDestroys, RelayMakesUpSendme, vars
<1>10. Receiver \in Threads /\ Closer \in Threads /\ Streams \subseteq Threads
  BY DEF Threads
<1>11. Stays \/ destroyed'
  BY <1>1, <1>2, <1>3, <1>4, <1>5, <1>6, <1>7, <1>8, <1>9, <1>10
     DEF Next, CloserStep, ReceiverStep
<1>12. destroyed => destroyed'
  BY LossStep
<1>. QED BY <1>11, <1>12, Zenon DEF TornDown

LEMMA StreamLedgerStep ==
    ASSUME TypeOK, KindsAgree, DataHasStream, TornDown, StreamLedger, [Next]_vars
    PROVE  StreamLedger'
<1>1. destroyed => destroyed'
  BY LossStep
<1>. SUFFICES ASSUME HonestRelay, ~destroyed, NEW s \in Streams
              PROVE  InHand(s)' + Away(s)' = InHand(s) + Away(s)
  BY <1>1 DEF StreamLedger
<1>2. ASSUME NEW t \in Streams, UserStep(t) \/ SendStep(t) \/ WaitTimesOut(t)
      PROVE  InHand(s)' + Away(s)' = InHand(s) + Away(s)
  BY <1>2, SenderKeepsUnit DEF Away, Total
<1>3. CASE UNCHANGED vars
  BY <1>3 DEF vars, InHand, Taken, Away, Total
<1>4. \A digest \in 0 .. stamped + 1 : ~RelayMakesUpSendme(digest)
  BY DEF RelayMakesUpSendme
<1>5. Receiver \in Threads /\ Closer \in Threads /\ Streams \subseteq Threads
  BY DEF Threads
<1>6. CASE \E t \in Threads : LockStep(t)
  BY <1>6, LockKeepsUnit
<1>7. CASE \/ DropCell \/ ReceiveCircuitSendme \/ ReceiveStreamSendme
           \/ ReceiveData \/ ReceiveDestroy
  BY <1>7, ReadKeepsUnits
<1>8. CASE RelayAcks
  BY <1>8, RelayKeepsUnits
<1>9. CASE \/ \E t \in {Receiver, Closer} : TeardownStep(t)
           \/ CloseCircuit \/ CloserTeardown \/ Unregister
           \/ RefillCircuit \/ ReceiverStops \/ ChannelFails
           \/ RelayDestroys \/ \E q \in Streams : RelaySendsData(q)
  BY <1>9, RestKeepsUnits
<1>. QED BY <1>2, <1>3, <1>4, <1>5, <1>6, <1>7, <1>8, <1>9
     DEF Next, CloserStep, ReceiverStep, RelayMoves

LEMMA StreamLedgerInit == Init => StreamLedger /\ TornDown
<1>. SUFFICES ASSUME Init PROVE StreamLedger /\ TornDown
  OBVIOUS
<1>1. /\ wire = <<>> /\ back = <<>> /\ Len(<<>>) = 0
      /\ pc = [t \in Threads |-> "idle"]
      /\ \A s \in Streams : /\ swin[s].value = StreamInitial
                            /\ rstream[s] = 0 /\ slost[s] = 0
  BY DEF Init, OpenWindow
<1>2. TornDown
  BY <1>1 DEF TornDown
<1>3. ASSUME NEW s \in Streams PROVE InHand(s) + Away(s) = StreamInitial
  <2>1. Total(wire, DataOf(s)) = 0 /\ Total(back, AcksOf(s)) = 0
    BY <1>1, CountInZero DEF Total
  <2>2. Taken(s) = 0
    BY <1>1 DEF Taken, Threads
  <2>3. StreamIncrement * 0 = 0
    BY WindowAssumption
  <2>. QED BY <1>1, <2>1, <2>2, <2>3, WindowAssumption DEF InHand, Away
<1>. QED BY <1>2, <1>3 DEF StreamLedger

(* No unit of a live stream's window is gained or lost unaccounted: for      *)
(* every number of streams and every window (Stream.send, consume,           *)
(* _handle_stream_sendme, send_relay).                                       *)
THEOREM StreamUnitsAreConserved == Spec => []StreamUnitsConserved
<1>1. Init => StreamLedger /\ TornDown
  BY StreamLedgerInit
<1>2. IInv /\ DataHasStream /\ TornDown /\ StreamLedger /\ [Next]_vars
        => TornDown' /\ StreamLedger'
  BY TornDownStep, StreamLedgerStep DEF IInv
<1>3. IInv /\ StreamLedger => StreamUnitsConserved
  BY LedgerIsConserved DEF IInv
<1>. QED BY <1>1, <1>2, <1>3, InvariantsHold, PTL DEF Spec

===============================================================================
