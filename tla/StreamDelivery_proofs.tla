------------------------- MODULE StreamDelivery_proofs -------------------------
(* Proofs about StreamDelivery, for any streams, windows, sizes of cells and *)
(* of reads, and any number of cells.                                        *)
EXTENDS StreamDelivery, FiniteSetTheorems, SequenceTheorems, TLAPS

-------------------------------------------------------------------------------
(* Counting the cells of a queue                                             *)

Matching(queue, cmd, s) ==
    {i \in DOMAIN queue : queue[i].cmd = cmd /\ queue[i].stream = s}

LEMMA CellsType ==
    ASSUME NEW q \in Seq(Cell), NEW cmd, NEW s
    PROVE  IsFiniteSet(Matching(q, cmd, s)) /\ Cells(q, cmd, s) \in Nat
<1>1. Matching(q, cmd, s) \subseteq 1..Len(q) /\ Len(q) \in Nat
  BY LenProperties DEF Matching
<1>2. IsFiniteSet(1..Len(q))
  BY <1>1, FS_Interval
<1>3. IsFiniteSet(Matching(q, cmd, s))
  <2>. DEFINE S == 1..Len(q)
              T == Matching(q, cmd, s)
  <2>1. IsFiniteSet(S) /\ T \in SUBSET S
    BY <1>1, <1>2
  <2>. HIDE DEF S, T
  <2>2. IsFiniteSet(T)
    BY <2>1, FS_Subset
  <2>. QED BY <2>2 DEF T
<1>. QED BY <1>3, FS_CardinalityType DEF Cells, Matching

LEMMA CellsEmpty == ASSUME NEW cmd, NEW s PROVE Cells(<<>>, cmd, s) = 0
<1>1. {i \in DOMAIN <<>> : <<>>[i].cmd = cmd /\ <<>>[i].stream = s} = {}
  OBVIOUS
<1>. QED BY <1>1, FS_EmptySet DEF Cells

LEMMA CellsAppend ==
    ASSUME NEW q \in Seq(Cell), NEW m \in Cell, NEW cmd, NEW s
    PROVE  Cells(Append(q, m), cmd, s)
             = IF m.cmd = cmd /\ m.stream = s THEN Cells(q, cmd, s) + 1 ELSE Cells(q, cmd, s)
<1>. DEFINE more == Append(q, m)
            n == Len(q) + 1
<1>1. /\ DOMAIN q = 1..Len(q) /\ DOMAIN more = 1..n /\ Len(q) \in Nat
      /\ \A i \in 1..Len(q) : more[i] = q[i]
      /\ more[n] = m
  BY AppendProperties, LenProperties
<1>2. n \notin DOMAIN q /\ DOMAIN more = DOMAIN q \cup {n}
  BY <1>1
<1>3. Matching(more, cmd, s)
        = IF m.cmd = cmd /\ m.stream = s THEN Matching(q, cmd, s) \cup {n} ELSE Matching(q, cmd, s)
  BY <1>1, <1>2 DEF Matching
<1>4. n \notin Matching(q, cmd, s)
  BY <1>2 DEF Matching
<1>6. IsFiniteSet(Matching(q, cmd, s))
  BY CellsType
<1>5. Cardinality(Matching(q, cmd, s) \cup {n}) = Cardinality(Matching(q, cmd, s)) + 1
  BY <1>4, <1>6, FS_AddElement
<1>. QED BY <1>3, <1>5 DEF Cells, Matching

LEMMA CellsTail ==
    ASSUME NEW q \in Seq(Cell), q # <<>>, NEW cmd, NEW s
    PROVE  Cells(q, cmd, s)
             = IF Head(q).cmd = cmd /\ Head(q).stream = s
               THEN Cells(Tail(q), cmd, s) + 1 ELSE Cells(Tail(q), cmd, s)
<1>. DEFINE rest == Tail(q)
            S == Matching(q, cmd, s) \ {1}
            T == Matching(rest, cmd, s)
            f == [i \in S |-> i - 1]
<1>1. /\ rest \in Seq(Cell) /\ Len(q) \in Nat \ {0} /\ Len(rest) = Len(q) - 1
      /\ DOMAIN q = 1..Len(q) /\ DOMAIN rest = 1..Len(rest)
      /\ Head(q) = q[1] /\ \A i \in 1..Len(rest) : rest[i] = q[i + 1]
  BY HeadTailProperties, LenProperties, EmptySeq
<1>2. f \in Bijection(S, T)
  <2>1. \A i \in S : i \in 2..Len(q) /\ i - 1 \in T
    BY <1>1 DEF Matching
  <2>2. \A j \in T : j \in Nat /\ j + 1 \in S /\ (j + 1) - 1 = j
    BY <1>1 DEF Matching
  <2>. HIDE DEF S, T
  <2>6. \A i \in S : f[i] = i - 1
    OBVIOUS
  <2>3. f \in [S -> T]
    BY <2>1
  <2>4. \A i, j \in S : f[i] = f[j] => i = j
    BY <2>1
  <2>5. \A j \in T : \E i \in S : f[i] = j
    BY <2>2
  <2>7. DOMAIN f = S
    OBVIOUS
  <2>. HIDE DEF f
  <2>8. f \in Injection(S, T) /\ f \in Surjection(S, T)
    BY <2>3, <2>4, <2>5, <2>7, Zenon DEF Injection, Surjection, IsInjective
  <2>. QED BY <2>8, Zenon DEF Bijection
<1>3. IsFiniteSet(Matching(q, cmd, s)) /\ IsFiniteSet(T)
  BY <1>1, CellsType
<1>4. IsFiniteSet(S) /\ Cardinality(S) = Cardinality(T)
  <2>1. IsFiniteSet(S)
    BY <1>3, FS_RemoveElement
  <2>2. ExistsBijection(S, T)
    BY <1>2, Zenon DEF ExistsBijection
  <2>. HIDE DEF S, T
  <2>. QED BY <2>1, <2>2, FS_Bijection
<1>5. CASE Head(q).cmd = cmd /\ Head(q).stream = s
  <2>1. 1 \in Matching(q, cmd, s) /\ Matching(q, cmd, s) = S \cup {1} /\ 1 \notin S
    BY <1>1, <1>5 DEF Matching
  <2>2. Cardinality(Matching(q, cmd, s)) = Cardinality(S) + 1
    BY <1>4, <2>1, FS_AddElement
  <2>. QED BY <1>4, <1>5, <2>2 DEF Cells, Matching
<1>6. CASE ~(Head(q).cmd = cmd /\ Head(q).stream = s)
  <2>1. S = Matching(q, cmd, s)
    BY <1>1, <1>6 DEF Matching
  <2>. QED BY <1>4, <1>6, <2>1 DEF Cells, Matching
<1>. QED BY <1>5, <1>6

-------------------------------------------------------------------------------
(* Types, and where the two sides stand                                      *)

RelayTyped ==
    /\ rwin \in [Streams -> Nat] /\ rcwin \in Nat
    /\ ropen \subseteq Streams /\ sent \in [Streams -> Nat]

(* No cell carries more than a full payload.                                 *)
QueuesTyped ==
    /\ down \in Seq(Cell) /\ up \in Seq(Cell)
    /\ \A i \in DOMAIN down : down[i].cmd = "DATA" => down[i].size <= PayloadLen

(* Which cell the receiver has in hand depends on where it stands.           *)
ReceiverTyped ==
    /\ rx \in {"idle", "emit", "look up", "handle", "tell"} /\ cell \in Cell
    /\ rx \in {"idle", "tell"} => cell = NoCell
    /\ rx \in {"emit", "look up"} => cell.cmd = "DATA"
    /\ rx = "handle" => cell.stream \in Streams
    /\ cell.cmd = "DATA" => cell.size <= PayloadLen
    /\ deliver \in Nat
    /\ registered \subseteq Streams /\ destroyed \in BOOLEAN /\ unnotified \subseteq Streams

(* The reader credits only when it has consumed enough.  What is owed is a   *)
(* number; that it is not negative is shown with the ledger.                 *)
ReadersTyped ==
    /\ buffer \in [Streams -> Nat] /\ consumed \in [Streams -> Nat] /\ owed \in [Streams -> Int]
    /\ eof \subseteq Streams /\ failed \subseteq Streams
    /\ rpc \in [Streams -> {"recv", "credit", "eof", "error"}]
    /\ cpc \in [Streams -> {"open", "end", "unregister", "closed"}]
    /\ \A s \in Streams : rpc[s] = "credit" => consumed[s] >= SendmeAfter

Typed == RelayTyped /\ QueuesTyped /\ ReceiverTyped /\ ReadersTyped

LEMMA SizesType ==
    /\ SendmeAfter \in Nat \ {0} /\ PayloadLen \in Nat \ {0}
    /\ StreamIncrement \in Nat \ {0} /\ CircuitIncrement \in Nat \ {0}
    /\ StreamInitial \in Nat /\ CircuitInitial \in Nat
    /\ \A size \in CellSizes : size \in Nat /\ size <= PayloadLen
    /\ \A max \in ReadSizes : max \in Nat \ {0}
<1>1. \A i, j \in Nat \ {0} : i * j \in Nat \ {0}
  OBVIOUS
<1>. QED BY <1>1, SizeAssumption, WindowAssumption DEF SendmeAfter

LEMMA MessageType ==
    ASSUME NEW cmd \in {"DATA", "END", "SENDME", "DESTROY"}, NEW s \in Streams \cup {Nobody},
           NEW size \in Nat
    PROVE  /\ Message(cmd, s, size) \in Cell
           /\ Message(cmd, s, size).cmd = cmd /\ Message(cmd, s, size).stream = s
           /\ Message(cmd, s, size).size = size
BY DEF Message, Cell

LEMMA NoCellType == NoCell \in Cell /\ NoCell.cmd = "END" /\ NoCell.stream = Nobody
BY MessageType DEF NoCell

(* One more cell on its way down.                                            *)
LEMMA DownGrows ==
    ASSUME QueuesTyped, NEW m \in Cell, m.cmd = "DATA" => m.size <= PayloadLen,
           down' = Append(down, m), up' = up
    PROVE  QueuesTyped'
<1>1. down' \in Seq(Cell) /\ up' \in Seq(Cell)
  BY AppendProperties DEF QueuesTyped
<1>2. /\ DOMAIN down' = 1..(Len(down) + 1) /\ DOMAIN down = 1..Len(down) /\ Len(down) \in Nat
      /\ \A i \in 1..Len(down) : down'[i] = down[i]
      /\ down'[Len(down) + 1] = m
  BY AppendProperties, LenProperties DEF QueuesTyped
<1>3. \A i \in DOMAIN down' : down'[i].cmd = "DATA" => down'[i].size <= PayloadLen
  BY <1>2 DEF QueuesTyped
<1>. QED BY <1>1, <1>3 DEF QueuesTyped

(* The first cell is taken.                                                  *)
LEMMA DownShrinks ==
    ASSUME QueuesTyped, down # <<>>, down' = Tail(down), up' = up
    PROVE  /\ QueuesTyped' /\ Head(down) \in Cell /\ Head(down) = down[1]
           /\ Head(down).cmd = "DATA" => Head(down).size <= PayloadLen
<1>1. /\ down' \in Seq(Cell) /\ up' \in Seq(Cell) /\ Head(down) = down[1] /\ Head(down) \in Cell
      /\ Len(down) \in Nat \ {0} /\ DOMAIN down = 1..Len(down)
      /\ DOMAIN down' = 1..(Len(down) - 1)
      /\ \A i \in 1..(Len(down) - 1) : down'[i] = down[i + 1]
  BY HeadTailProperties, LenProperties, EmptySeq DEF QueuesTyped
<1>2. \A i \in DOMAIN down' : down'[i].cmd = "DATA" => down'[i].size <= PayloadLen
  BY <1>1 DEF QueuesTyped
<1>. QED BY <1>1, <1>2 DEF QueuesTyped

LEMMA UpGrows ==
    ASSUME QueuesTyped, NEW m \in Cell, down' = down, up' = Append(up, m) \/ up' = up
    PROVE  QueuesTyped'
BY AppendProperties DEF QueuesTyped

LEMMA RelayKeepsTypes ==
    ASSUME Typed, NEW s \in Streams, RelayStep(s) PROVE Typed'
<1>1. ASSUME NEW size \in CellSizes, RelaySends(s, size) PROVE Typed'
  <2>. USE <1>1 DEF RelaySends
  <2>1. size \in Nat /\ size <= PayloadLen
    BY SizesType
  <2>2. QueuesTyped'
    BY <2>1, MessageType, DownGrows DEF Typed
  <2>3. RelayTyped'
    BY DEF Typed, RelayTyped
  <2>4. ReceiverTyped'
    BY DEF Typed, ReceiverTyped, rxVars, circVars
  <2>5. ReadersTyped'
    BY <2>1 DEF Typed, ReadersTyped, flagVars
  <2>. QED BY <2>2, <2>3, <2>4, <2>5 DEF Typed
<1>2. ASSUME RelayEnds(s) PROVE Typed'
  <2>. USE <1>2 DEF RelayEnds
  <2>1. QueuesTyped'
    BY MessageType, DownGrows DEF Typed
  <2>2. RelayTyped' /\ ReceiverTyped'
    BY DEF Typed, RelayTyped, ReceiverTyped, rxVars, circVars
  <2>3. ReadersTyped'
    BY DEF Typed, ReadersTyped, streamVars, readVars, flagVars
  <2>. QED BY <2>1, <2>2, <2>3 DEF Typed
<1>. QED BY <1>1, <1>2 DEF RelayStep

LEMMA RelayTakesKeepsTypes == ASSUME Typed, RelayTakes PROVE Typed'
<1>. USE DEF RelayTakes
<1>1. /\ Head(up) \in Cell /\ up' \in Seq(Cell)
  BY HeadTailProperties, EmptySeq DEF Typed, QueuesTyped
<1>2. QueuesTyped'
  BY <1>1 DEF Typed, QueuesTyped
<1>3. RelayTyped'
  <2>1. rcwin' \in Nat
    BY SizesType DEF Typed, RelayTyped
  <2>2. rwin' \in [Streams -> Nat]
    <3>1. CASE Head(up).cmd = "SENDME" /\ Head(up).stream # Nobody
      <4>1. Head(up).stream \in Streams
        BY <1>1, <3>1 DEF Cell
      <4>2. rwin' = [rwin EXCEPT ![Head(up).stream] = @ + StreamIncrement]
        BY <3>1
      <4>. HIDE DEF RelayTakes
      <4>. QED BY <4>1, <4>2, SizesType DEF Typed, RelayTyped
    <3>2. CASE ~(Head(up).cmd = "SENDME" /\ Head(up).stream # Nobody)
      <4>1. rwin' = rwin
        BY <3>2, Zenon
      <4>. QED BY <4>1 DEF Typed, RelayTyped
    <3>. QED BY <3>1, <3>2
  <2>3. ropen' \subseteq Streams /\ sent' \in [Streams -> Nat]
    BY DEF Typed, RelayTyped
  <2>. QED BY <2>1, <2>2, <2>3 DEF RelayTyped
<1>4. ReceiverTyped'
  BY DEF Typed, ReceiverTyped, rxVars, circVars
<1>5. ReadersTyped'
  BY DEF Typed, ReadersTyped, streamVars, readVars, flagVars
<1>. QED BY <1>2, <1>3, <1>4, <1>5 DEF Typed

LEMMA DestroysKeepTypes ==
    ASSUME Typed, RelayDestroys \/ CloseCircuit
    PROVE  Typed'
<1>1. QueuesTyped'
  <2>1. CASE RelayDestroys
    BY <2>1, MessageType, DownGrows DEF Typed, RelayDestroys
  <2>2. CASE CloseCircuit
    BY <2>2 DEF Typed, QueuesTyped, CloseCircuit
  <2>. QED BY <2>1, <2>2
<1>2. RelayTyped'
  BY DEF Typed, RelayTyped, RelayDestroys, CloseCircuit, relayVars
<1>3. ReceiverTyped'
  BY DEF Typed, ReceiverTyped, RelayDestroys, CloseCircuit, MarkDestroyed, rxVars, circVars
<1>4. ReadersTyped'
  BY DEF Typed, ReadersTyped, RelayDestroys, CloseCircuit, streamVars, readVars, flagVars
<1>. QED BY <1>1, <1>2, <1>3, <1>4 DEF Typed

(* What _route_relay does with a cell it looked up.                          *)
LEMMA LookUpType ==
    ASSUME Typed, NEW c \in Cell, c.cmd = "DATA" => c.size <= PayloadLen, LookUp(c),
           deliver' \in Nat, UNCHANGED circVars
    PROVE  ReceiverTyped'
<1>1. CASE c.stream \in registered
  <2>1. rx' = "handle" /\ cell' = c
    BY <1>1, Zenon DEF LookUp
  <2>. QED BY <1>1, <2>1 DEF Typed, ReceiverTyped, circVars
<1>2. CASE c.stream \notin registered
  <2>1. rx' = "idle" /\ cell' = NoCell
    BY <1>2, Zenon DEF LookUp, Done
  <2>. QED BY <2>1, NoCellType DEF Typed, ReceiverTyped, circVars
<1>. QED BY <1>1, <1>2

LEMMA ArrivalKeepsTypes ==
    ASSUME Typed, ReceiveData \/ ReceiveEnd \/ RouteCell
    PROVE  Typed'
<1>1. RelayTyped' /\ ReadersTyped'
  BY DEF Typed, RelayTyped, ReadersTyped, ReceiveData, ReceiveEnd, RouteCell, relayVars,
     streamVars, readVars, flagVars
<1>2. CASE ReceiveData
  <2>. DEFINE c == Head(down)
  <2>1. down # <<>> /\ down' = Tail(down) /\ up' = up /\ c.cmd = "DATA" /\ UNCHANGED circVars
    BY <1>2 DEF ReceiveData, Arrives
  <2>2. QueuesTyped' /\ c \in Cell /\ c.size <= PayloadLen
    BY <2>1, DownShrinks DEF Typed
  <2>3. deliver' \in Nat
    <3>1. deliver' = NoteReceived(deliver, CircuitIncrement) /\ deliver \in Nat
      BY <1>2 DEF ReceiveData, Typed, ReceiverTyped
    <3>. QED BY <3>1 DEF NoteReceived
  <2>4. (rx' = "emit" /\ cell' = c) \/ LookUp(c)
    BY <1>2 DEF ReceiveData
  <2>. HIDE DEF c
  <2>5. ReceiverTyped'
    <3>1. CASE rx' = "emit" /\ cell' = c
      BY <2>1, <2>2, <2>3, <3>1 DEF Typed, ReceiverTyped, circVars
    <3>2. CASE LookUp(c)
      BY <2>1, <2>2, <2>3, <3>2, LookUpType
    <3>. QED BY <2>4, <3>1, <3>2
  <2>. QED BY <1>1, <2>2, <2>5 DEF Typed
<1>3. CASE ReceiveEnd
  <2>. DEFINE c == Head(down)
  <2>1. /\ down # <<>> /\ down' = Tail(down) /\ up' = up /\ c.cmd = "END" /\ UNCHANGED circVars
        /\ deliver' = deliver /\ LookUp(c)
    BY <1>3 DEF ReceiveEnd, Arrives
  <2>2. QueuesTyped' /\ c \in Cell
    BY <2>1, DownShrinks DEF Typed
  <2>. HIDE DEF c
  <2>3. ReceiverTyped'
    BY <2>1, <2>2, LookUpType DEF Typed, ReceiverTyped
  <2>. QED BY <1>1, <2>2, <2>3 DEF Typed
<1>4. CASE RouteCell
  <2>1. /\ LookUp(cell) /\ UNCHANGED <<down, up, deliver, circVars>>
        /\ cell \in Cell /\ cell.size <= PayloadLen
    BY <1>4 DEF RouteCell, Typed, ReceiverTyped
  <2>2. QueuesTyped'
    BY <2>1 DEF Typed, QueuesTyped
  <2>3. ReceiverTyped'
    BY <2>1, LookUpType DEF Typed, ReceiverTyped
  <2>. QED BY <1>1, <2>2, <2>3 DEF Typed
<1>. QED BY <1>2, <1>3, <1>4

LEMMA EmitKeepsTypes == ASSUME Typed, EmitCircuitSendme PROVE Typed'
<1>1. RelayTyped' /\ ReadersTyped'
  BY DEF Typed, RelayTyped, ReadersTyped, EmitCircuitSendme, relayVars,
     streamVars, readVars, flagVars
<1>2. QueuesTyped'
  <2>1. up' = Append(up, Message("SENDME", Nobody, 0)) \/ up' = up
    BY DEF EmitCircuitSendme, EmitSendme
  <2>2. Message("SENDME", Nobody, 0) \in Cell
    BY MessageType
  <2>. QED BY <2>1, <2>2, UpGrows DEF EmitCircuitSendme, Typed
<1>3. ReceiverTyped'
  BY DEF Typed, ReceiverTyped, EmitCircuitSendme, circVars
<1>. QED BY <1>1, <1>2, <1>3 DEF Typed

LEMMA HandlersKeepTypes ==
    ASSUME Typed, HandleData \/ HandleEnd \/ ReceiveDestroy \/ TeardownReturns
    PROVE  Typed'
<1>1. RelayTyped'
  BY DEF Typed, RelayTyped, HandleData, HandleEnd, ReceiveDestroy, TeardownReturns, relayVars
<1>2. QueuesTyped'
  <2>1. CASE ReceiveDestroy
    BY <2>1, DownShrinks DEF ReceiveDestroy, Arrives, Typed
  <2>2. CASE HandleData \/ HandleEnd \/ TeardownReturns
    BY <2>2 DEF HandleData, HandleEnd, TeardownReturns, Typed, QueuesTyped
  <2>. QED BY <2>1, <2>2
<1>3. ReceiverTyped'
  <2>1. CASE HandleData \/ HandleEnd
    <3>1. rx' = "idle" /\ cell' = NoCell /\ deliver' = deliver /\ UNCHANGED circVars
      BY <2>1 DEF HandleData, HandleEnd, Done
    <3>. QED BY <3>1, NoCellType DEF Typed, ReceiverTyped, circVars
  <2>2. CASE ReceiveDestroy
    BY <2>2, NoCellType DEF ReceiveDestroy, Arrives, MarkDestroyed, circVars, Typed, ReceiverTyped
  <2>3. CASE TeardownReturns
    BY <2>3 DEF TeardownReturns, circVars, Typed, ReceiverTyped
  <2>. QED BY <2>1, <2>2, <2>3
<1>4. ReadersTyped'
  <2>1. CASE HandleData
    <3>1. /\ cell.stream \in Streams /\ cell.size \in Nat
          /\ buffer' = [buffer EXCEPT ![cell.stream] = @ + cell.size]
          /\ UNCHANGED <<owed, consumed, rpc, flagVars>>
      BY <2>1 DEF HandleData, Typed, ReceiverTyped, Cell
    <3>. QED BY <3>1 DEF Typed, ReadersTyped, flagVars
  <2>2. CASE HandleEnd
    <3>1. /\ cell.stream \in Streams /\ eof' = eof \cup {cell.stream}
          /\ UNCHANGED <<readVars, failed, cpc>>
      BY <2>2 DEF HandleEnd, Typed, ReceiverTyped
    <3>. QED BY <3>1 DEF Typed, ReadersTyped, readVars
  <2>3. CASE ReceiveDestroy \/ TeardownReturns
    BY <2>3 DEF ReceiveDestroy, TeardownReturns, Typed, ReadersTyped, streamVars, readVars, flagVars
  <2>. QED BY <2>1, <2>2, <2>3
<1>. QED BY <1>1, <1>2, <1>3, <1>4 DEF Typed

LEMMA RecvKeepsTypes ==
    ASSUME Typed, NEW s \in Streams, NEW max \in ReadSizes, RecvData(s, max)
    PROVE  Typed'
<1>. DEFINE n == IF max < buffer[s] THEN max ELSE buffer[s]
<1>1. /\ buffer' = [buffer EXCEPT ![s] = @ - n] /\ owed' = [owed EXCEPT ![s] = @ - n]
      /\ consumed' = [consumed EXCEPT ![s] = @ + n]
      /\ rpc' = [rpc EXCEPT ![s] = Due(consumed[s] + n)]
      /\ UNCHANGED <<relayVars, down, up, rxVars, circVars, flagVars>>
  BY Zenon DEF RecvData
<1>2. n \in Nat /\ n <= buffer[s] /\ buffer[s] - n \in Nat /\ consumed[s] + n \in Nat
  BY SizesType DEF Typed, ReadersTyped
<1>. HIDE DEF n
<1>3. RelayTyped' /\ QueuesTyped' /\ ReceiverTyped'
  BY <1>1 DEF Typed, RelayTyped, QueuesTyped, ReceiverTyped, relayVars, rxVars, circVars
<1>4. ReadersTyped'
  BY <1>1, <1>2 DEF Typed, ReadersTyped, flagVars, Due
<1>. QED BY <1>3, <1>4 DEF Typed

LEMMA CreditKeepsTypes ==
    ASSUME Typed, NEW s \in Streams, CreditPeer(s)
    PROVE  Typed'
<1>. USE DEF CreditPeer
<1>1. consumed[s] - SendmeAfter \in Nat
  BY SizesType DEF Typed, ReadersTyped
<1>2. RelayTyped' /\ ReceiverTyped'
  BY DEF Typed, RelayTyped, ReceiverTyped, relayVars, rxVars, circVars
<1>3. QueuesTyped'
  <2>. DEFINE m == Message("SENDME", s, 0)
  <2>1. m \in Cell
    BY MessageType
  <2>2. down' = down /\ (up' = Append(up, m) \/ up' = up)
    BY DEF EmitSendme, rxVars
  <2>3. QueuesTyped
    BY DEF Typed
  <2>. HIDE DEF m
  <2>. QED BY <2>1, <2>2, <2>3, UpGrows, Zenon
<1>4. ReadersTyped'
  BY <1>1, SizesType DEF Typed, ReadersTyped, flagVars, Due
<1>. QED BY <1>2, <1>3, <1>4 DEF Typed

LEMMA OtherReadersKeepTypes ==
    ASSUME Typed, NEW s \in Streams,
           RecvRaises(s) \/ RecvEof(s) \/ TellStream(s) \/ CloseStream(s) \/ CloseStep(s)
    PROVE  Typed'
<1>. USE DEF CloseStep, SendEnd, UnregisterStream, RecvRaises, RecvEof, TellStream, CloseStream
<1>1. RelayTyped'
  BY DEF Typed, RelayTyped, relayVars
<1>2. QueuesTyped'
  <2>1. CASE SendEnd(s)
    BY <2>1, UpGrows, MessageType DEF Typed
  <2>2. CASE UNCHANGED <<down, up>>
    BY <2>2 DEF Typed, QueuesTyped
  <2>. QED BY <2>1, <2>2
<1>3. ReceiverTyped'
  BY DEF Typed, ReceiverTyped, rxVars, circVars
<1>4. ReadersTyped'
  BY DEF Typed, ReadersTyped, readVars, flagVars
<1>. QED BY <1>1, <1>2, <1>3, <1>4 DEF Typed

LEMMA TypedStep == Typed /\ [Next]_vars => Typed'
<1>. SUFFICES ASSUME Typed, [Next]_vars PROVE Typed'
  OBVIOUS
<1>1. CASE UNCHANGED vars
  BY <1>1 DEF vars, Typed, RelayTyped, QueuesTyped, ReceiverTyped, ReadersTyped
<1>2. ASSUME NEW s \in Streams, RelayStep(s) \/ TellStream(s) \/ ReadStep(s)
                                \/ CloseStream(s) \/ CloseStep(s)
      PROVE  Typed'
  BY <1>2, RelayKeepsTypes, RecvKeepsTypes, CreditKeepsTypes, OtherReadersKeepTypes, Zenon
     DEF ReadStep
<1>. QED
  BY <1>1, <1>2, RelayTakesKeepsTypes, DestroysKeepTypes, ArrivalKeepsTypes, EmitKeepsTypes,
     HandlersKeepTypes, Zenon DEF Next, ReceiverStep

LEMMA TypedInit == Init => Typed
<1>. SUFFICES ASSUME Init PROVE Typed
  OBVIOUS
<1>. USE DEF Init
<1>1. RelayTyped /\ QueuesTyped
  BY SizesType DEF RelayTyped, QueuesTyped
<1>2. ReceiverTyped
  BY NoCellType DEF ReceiverTyped
<1>3. ReadersTyped
  BY DEF ReadersTyped
<1>. QED BY <1>1, <1>2, <1>3 DEF Typed

-------------------------------------------------------------------------------
(* Credit                                                                    *)

InHand(s) == IF cell.cmd = "DATA" /\ cell.stream = s THEN 1 ELSE 0

(* The cells of a stream's window that are accounted for: still the relay's, *)
(* on their way or in the receiver's hands, or on their way back as credit.  *)
Back(s) == StreamIncrement * Cells(up, "SENDME", s)
Out(s) == rwin[s] + Cells(down, "DATA", s) + InHand(s) + Back(s)

(* The others have room for every byte that was not credited yet, buffered   *)
(* or consumed: a SENDME stands for SendmeAfter bytes, and no cell for more  *)
(* than a payload of them.                                                   *)
Covered(s) == buffer[s] + consumed[s] <= PayloadLen * (StreamInitial - Out(s))

CreditInv == Typed /\ \A s \in Streams : Covered(s)

LEMMA OutType ==
    ASSUME Typed, NEW s \in Streams
    PROVE  /\ Out(s) \in Nat /\ rwin[s] \in Nat /\ Cells(down, "DATA", s) \in Nat
           /\ InHand(s) \in Nat /\ Cells(up, "SENDME", s) \in Nat
           /\ Back(s) \in Nat
           /\ buffer[s] \in Nat /\ consumed[s] \in Nat
<1>1. Cells(down, "DATA", s) \in Nat /\ Cells(up, "SENDME", s) \in Nat
  BY CellsType DEF Typed, QueuesTyped
<1>2. rwin[s] \in Nat /\ buffer[s] \in Nat /\ consumed[s] \in Nat /\ InHand(s) \in Nat
  BY DEF Typed, RelayTyped, ReadersTyped, InHand
<1>3. \A n \in Nat : StreamIncrement * n \in Nat
  BY SizesType
<1>4. Back(s) \in Nat
  BY <1>1, <1>3 DEF Back
<1>. QED BY <1>1, <1>2, <1>4 DEF Out

(* The same after a step.                                                    *)
LEMMA OutTypeNext ==
    ASSUME Typed', NEW s \in Streams
    PROVE  /\ Out(s)' \in Nat /\ rwin'[s] \in Nat /\ Cells(down', "DATA", s) \in Nat
           /\ InHand(s)' \in Nat /\ Cells(up', "SENDME", s) \in Nat
           /\ Back(s)' \in Nat
           /\ buffer'[s] \in Nat /\ consumed'[s] \in Nat
<1>1. Cells(down', "DATA", s) \in Nat /\ Cells(up', "SENDME", s) \in Nat
  BY CellsType DEF Typed, QueuesTyped
<1>2. rwin'[s] \in Nat /\ buffer'[s] \in Nat /\ consumed'[s] \in Nat /\ InHand(s)' \in Nat
  BY DEF Typed, RelayTyped, ReadersTyped, InHand
<1>3. \A n \in Nat : StreamIncrement * n \in Nat
  BY SizesType
<1>4. Back(s)' \in Nat
  BY <1>1, <1>3 DEF Back
<1>. QED BY <1>1, <1>2, <1>4 DEF Out

(* What keeps the bytes covered: for every cell that leaves the account, no  *)
(* more than a payload of bytes.                                             *)
LEMMA StaysCovered ==
    ASSUME Typed, Typed', NEW s \in Streams, Covered(s), NEW k \in Nat,
           Out(s)' + k = Out(s),
           (buffer[s] + consumed[s])' <= buffer[s] + consumed[s] + PayloadLen * k
    PROVE  Covered(s)'
<1>. DEFINE bytes == buffer[s] + consumed[s]
            spent == StreamInitial - Out(s)
<1>1. /\ Out(s) \in Nat /\ Out(s)' \in Nat /\ buffer[s] \in Nat /\ consumed[s] \in Nat
      /\ buffer'[s] \in Nat /\ consumed'[s] \in Nat
  BY OutType, OutTypeNext
<1>2. /\ spent \in Int /\ spent' = spent + k /\ PayloadLen \in Nat
  BY <1>1, SizesType
<1>3. bytes \in Nat /\ bytes' \in Nat /\ bytes <= PayloadLen * spent
  BY <1>1 DEF Covered
<1>. HIDE DEF bytes, spent
<1>4. PayloadLen * (spent + k) = PayloadLen * spent + PayloadLen * k
  BY <1>2
<1>5. PayloadLen * spent \in Int /\ PayloadLen * k \in Int
  BY <1>2
<1>6. bytes' <= bytes + PayloadLen * k
  BY DEF bytes
<1>7. bytes' <= PayloadLen * spent'
  BY <1>2, <1>3, <1>4, <1>5, <1>6
<1>. QED BY <1>7 DEF Covered, bytes, spent

(* A step that leaves the windows, the queues and the readers' counts of s.  *)
LEMMA CreditUntouched ==
    ASSUME Typed, Typed', NEW s \in Streams, Covered(s), rwin'[s] = rwin[s],
           Cells(down', "DATA", s) = Cells(down, "DATA", s), InHand(s)' = InHand(s),
           Cells(up', "SENDME", s) = Cells(up, "SENDME", s),
           buffer'[s] + consumed'[s] = buffer[s] + consumed[s]
    PROVE  Covered(s)'
<1>1. Out(s)' = Out(s)
  BY DEF Out, Back
<1>. QED BY <1>1 DEF Covered

LEMMA RelayKeepsCredit ==
    ASSUME CreditInv, Typed', NEW t \in Streams, RelayStep(t), NEW s \in Streams
    PROVE  Covered(s)'
<1>. USE DEF CreditInv
<1>1. ASSUME NEW size \in CellSizes, RelaySends(t, size) PROVE Covered(s)'
  <2>. DEFINE m == Message("DATA", t, size)
  <2>1. m \in Cell /\ m.cmd = "DATA" /\ m.stream = t
    BY MessageType, SizesType
  <2>2. /\ down' = Append(down, m) /\ up' = up /\ rwin' = [rwin EXCEPT ![t] = @ - 1]
        /\ cell' = cell /\ buffer' = buffer /\ consumed' = consumed
    BY <1>1 DEF RelaySends, rxVars
  <2>. HIDE DEF m
  <2>3. Cells(down', "DATA", s)
          = IF t = s THEN Cells(down, "DATA", s) + 1 ELSE Cells(down, "DATA", s)
    BY <2>1, <2>2, CellsAppend DEF Typed, QueuesTyped
  <2>4. rwin'[s] = IF t = s THEN rwin[s] - 1 ELSE rwin[s]
    BY <2>2 DEF Typed, RelayTyped
  <2>5. InHand(s)' = InHand(s)
    BY <2>2 DEF InHand
  <2>7. Back(s)' = Back(s)
    BY <2>2 DEF Back
  <2>6. Out(s)' = Out(s)
    BY <2>3, <2>4, <2>5, <2>7, OutType, OutTypeNext DEF Out
  <2>. QED BY <2>2, <2>6 DEF Covered
<1>2. ASSUME RelayEnds(t) PROVE Covered(s)'
  <2>1. Message("END", t, 0) \in Cell /\ Message("END", t, 0).cmd # "DATA"
    BY MessageType
  <2>2. /\ down' = Append(down, Message("END", t, 0))
        /\ UNCHANGED <<rwin, up, cell, buffer, consumed>>
    BY <1>2 DEF RelayEnds, rxVars, streamVars, readVars
  <2>3. Cells(down', "DATA", s) = Cells(down, "DATA", s)
    BY <2>1, <2>2, CellsAppend DEF Typed, QueuesTyped
  <2>. QED BY <2>2, <2>3, CreditUntouched DEF InHand
<1>. QED BY <1>1, <1>2 DEF RelayStep

LEMMA RelayTakesKeepsCredit ==
    ASSUME CreditInv, Typed', RelayTakes, NEW s \in Streams
    PROVE  Covered(s)'
<1>. USE DEF CreditInv
<1>. DEFINE m == Head(up)
            credited == m.cmd = "SENDME" /\ m.stream = s
<1>1. m \in Cell /\ up # <<>> /\ up' = Tail(up) /\ UNCHANGED <<down, cell, buffer, consumed>>
  BY HeadTailProperties, EmptySeq
     DEF RelayTakes, Typed, QueuesTyped, rxVars, streamVars, readVars
<1>2. Cells(up, "SENDME", s)
        = IF credited THEN Cells(up', "SENDME", s) + 1 ELSE Cells(up', "SENDME", s)
  BY <1>1, CellsTail DEF Typed, QueuesTyped
<1>3. rwin'[s] = IF credited THEN rwin[s] + StreamIncrement ELSE rwin[s]
  <2>1. rwin' = IF m.cmd = "SENDME" /\ m.stream # Nobody
                THEN [rwin EXCEPT ![m.stream] = @ + StreamIncrement] ELSE rwin
    BY Zenon DEF RelayTakes
  <2>2. s # Nobody /\ rwin \in [Streams -> Nat]
    BY StreamsAssumption DEF Typed, RelayTyped
  <2>. HIDE DEF m
  <2>. QED BY <2>1, <2>2
<1>4. InHand(s)' = InHand(s)
  BY <1>1 DEF InHand
<1>. HIDE DEF m, credited
<1>5. Out(s)' = Out(s)
  <2>. DEFINE u == Cells(up, "SENDME", s)
              v == Cells(up', "SENDME", s)
  <2>1. u \in Nat /\ v \in Nat /\ StreamIncrement \in Nat
    BY OutType, OutTypeNext, SizesType
  <2>2. u = IF credited THEN v + 1 ELSE v
    BY <1>2
  <2>. HIDE DEF u, v
  <2>3. StreamIncrement * u = IF credited THEN StreamIncrement * v + StreamIncrement
                                          ELSE StreamIncrement * v
    BY <2>1, <2>2
  <2>4. Back(s) = IF credited THEN Back(s)' + StreamIncrement ELSE Back(s)'
    BY <2>3 DEF Back, u, v
  <2>5. Cells(down', "DATA", s) = Cells(down, "DATA", s)
    BY <1>1
  <2>. QED BY <1>3, <1>4, <2>1, <2>4, <2>5, OutType, OutTypeNext DEF Out
<1>. QED BY <1>1, <1>5 DEF Covered

(* A cell comes: it is in hand, or dropped, and then it leaves the account.  *)
LEMMA ArrivalKeepsCredit ==
    ASSUME CreditInv, Typed', NEW cmd, Arrives(cmd), cell' = Head(down) \/ cell' = NoCell,
           UNCHANGED <<rwin, up, buffer, consumed>>, NEW s \in Streams
    PROVE  Covered(s)'
<1>. USE DEF CreditInv
<1>. DEFINE m == Head(down)
            isData == m.cmd = "DATA" /\ m.stream = s
<1>1. down # <<>> /\ down' = Tail(down) /\ InHand(s) = 0
  BY NoCellType DEF Arrives, InHand, Typed, ReceiverTyped
<1>2. Cells(down, "DATA", s)
        = IF isData THEN Cells(down', "DATA", s) + 1 ELSE Cells(down', "DATA", s)
  BY <1>1, CellsTail DEF Typed, QueuesTyped
<1>3. InHand(s)' = 0 \/ (isData /\ InHand(s)' = 1)
  BY NoCellType DEF InHand
<1>. HIDE DEF m, isData
<1>4. Out(s)' = Out(s) \/ Out(s)' + 1 = Out(s)
  <2>1. Back(s)' = Back(s) /\ rwin'[s] = rwin[s]
    BY DEF Back
  <2>2. /\ rwin[s] \in Nat /\ Cells(down, "DATA", s) \in Nat /\ Back(s) \in Nat
        /\ Cells(down', "DATA", s) \in Nat
    BY OutType, OutTypeNext
  <2>. QED BY <1>1, <1>2, <1>3, <2>1, <2>2 DEF Out
<1>5. CASE Out(s)' = Out(s)
  BY <1>5 DEF Covered
<1>6. CASE Out(s)' + 1 = Out(s)
  <2>1. (buffer[s] + consumed[s])' <= buffer[s] + consumed[s] + PayloadLen * 1
    BY OutType, OutTypeNext, SizesType
  <2>. QED BY <1>6, <2>1, StaysCovered
<1>. QED BY <1>4, <1>5, <1>6

LEMMA ReceiverKeepsCredit ==
    ASSUME CreditInv, Typed', ReceiverStep, NEW s \in Streams
    PROVE  Covered(s)'
<1>. USE DEF CreditInv
<1>1. CASE ReceiveData
  BY <1>1, ArrivalKeepsCredit
     DEF ReceiveData, LookUp, Done, relayVars, streamVars, readVars
<1>2. CASE ReceiveEnd
  BY <1>2, ArrivalKeepsCredit
     DEF ReceiveEnd, LookUp, Done, relayVars, streamVars, readVars
<1>3. CASE ReceiveDestroy
  BY <1>3, ArrivalKeepsCredit
     DEF ReceiveDestroy, Arrives, Typed, ReceiverTyped, relayVars, streamVars, readVars
<1>4. CASE EmitCircuitSendme
  <2>1. /\ UNCHANGED <<rwin, down, cell, buffer, consumed>>
        /\ up' = up \/ up' = Append(up, Message("SENDME", Nobody, 0))
    BY <1>4 DEF EmitCircuitSendme, EmitSendme, relayVars, streamVars, readVars
  <2>. DEFINE m == Message("SENDME", Nobody, 0)
  <2>2. m \in Cell /\ m.stream # s
    BY MessageType, StreamsAssumption
  <2>. HIDE DEF m
  <2>3. Cells(Append(up, m), "SENDME", s) = Cells(up, "SENDME", s)
    BY <2>2, CellsAppend DEF Typed, QueuesTyped
  <2>4. Cells(up', "SENDME", s) = Cells(up, "SENDME", s)
    BY <2>1, <2>3 DEF m
  <2>. QED BY <2>1, <2>4, CreditUntouched DEF InHand
<1>5. CASE RouteCell
  <2>1. UNCHANGED <<rwin, down, up, buffer, consumed>> /\ (cell' = cell \/ cell' = NoCell)
    BY <1>5 DEF RouteCell, LookUp, Done, relayVars, streamVars, readVars
  <2>2. InHand(s)' = InHand(s) \/ (InHand(s)' = 0 /\ InHand(s) = 1)
    BY <2>1, NoCellType DEF InHand
  <2>3. CASE InHand(s)' = InHand(s)
    BY <2>1, <2>3, CreditUntouched
  <2>4. CASE InHand(s)' = 0 /\ InHand(s) = 1
    <3>3. /\ Back(s)' = Back(s) /\ rwin'[s] = rwin[s]
          /\ Cells(down', "DATA", s) = Cells(down, "DATA", s)
      BY <2>1 DEF Back
    <3>1. Out(s)' + 1 = Out(s)
      BY <2>4, <3>3, OutType, OutTypeNext DEF Out
    <3>2. (buffer[s] + consumed[s])' <= buffer[s] + consumed[s] + PayloadLen * 1
      BY <2>1, OutType, OutTypeNext, SizesType
    <3>. QED BY <3>1, <3>2, StaysCovered
  <2>. QED BY <2>2, <2>3, <2>4
<1>6. CASE HandleData
  <2>1. /\ UNCHANGED <<rwin, down, up, consumed>> /\ cell' = NoCell /\ cell.cmd = "DATA"
        /\ buffer' = [buffer EXCEPT ![cell.stream] = @ + cell.size]
        /\ cell.size \in Nat /\ cell.size <= PayloadLen
    BY <1>6 DEF HandleData, Done, relayVars, Typed, ReceiverTyped, Cell
  <2>2. InHand(s)' = 0
    BY <2>1, NoCellType DEF InHand
  <2>3. CASE cell.stream = s
    <3>1. InHand(s) = 1 /\ buffer'[s] = buffer[s] + cell.size
      BY <2>1, <2>3 DEF InHand, Typed, ReadersTyped
    <3>4. /\ Back(s)' = Back(s) /\ rwin'[s] = rwin[s]
          /\ Cells(down', "DATA", s) = Cells(down, "DATA", s)
      BY <2>1 DEF Back
    <3>2. Out(s)' + 1 = Out(s)
      BY <2>2, <3>1, <3>4, OutType, OutTypeNext DEF Out
    <3>3. (buffer[s] + consumed[s])' <= buffer[s] + consumed[s] + PayloadLen * 1
      BY <2>1, <3>1, OutType, OutTypeNext, SizesType
    <3>. QED BY <3>2, <3>3, StaysCovered
  <2>4. CASE cell.stream # s
    <3>1. InHand(s) = 0 /\ buffer'[s] = buffer[s]
      BY <2>1, <2>4 DEF InHand, Typed, ReadersTyped
    <3>. QED BY <2>1, <2>2, <3>1, CreditUntouched
  <2>. QED BY <2>3, <2>4
<1>7. CASE HandleEnd
  <2>1. UNCHANGED <<rwin, down, up, buffer, consumed>> /\ cell' = NoCell /\ cell.cmd = "END"
    BY <1>7 DEF HandleEnd, Done, relayVars, readVars
  <2>2. InHand(s)' = InHand(s)
    BY <2>1, NoCellType DEF InHand
  <2>. QED BY <2>1, <2>2, CreditUntouched
<1>8. CASE TeardownReturns
  <2>1. UNCHANGED <<rwin, down, up, buffer, consumed, cell>>
    BY <1>8 DEF TeardownReturns, relayVars, streamVars, readVars
  <2>. QED BY <2>1, CreditUntouched DEF InHand
<1>. QED BY <1>1, <1>2, <1>3, <1>4, <1>5, <1>6, <1>7, <1>8 DEF ReceiverStep

LEMMA RecvKeepsCredit ==
    ASSUME CreditInv, Typed', NEW t \in Streams, NEW max \in ReadSizes, RecvData(t, max),
           NEW s \in Streams
    PROVE  Covered(s)'
<1>. USE DEF CreditInv
<1>. DEFINE n == IF max < buffer[t] THEN max ELSE buffer[t]
<1>1. /\ buffer' = [buffer EXCEPT ![t] = @ - n] /\ consumed' = [consumed EXCEPT ![t] = @ + n]
      /\ UNCHANGED <<rwin, down, up, cell>>
  BY Zenon DEF RecvData, relayVars, rxVars
<1>2. n \in Nat
  BY SizesType DEF Typed, ReadersTyped
<1>. HIDE DEF n
<1>3. buffer'[s] + consumed'[s] = buffer[s] + consumed[s]
  BY <1>1, <1>2 DEF Typed, ReadersTyped
<1>. QED BY <1>1, <1>3, CreditUntouched DEF InHand

(* A SENDME of a stream takes its bytes off the count; on a circuit that is  *)
(* gone it is not even sent.                                                 *)
LEMMA CreditPeerKeepsCredit ==
    ASSUME CreditInv, Typed', NEW t \in Streams, CreditPeer(t), NEW s \in Streams
    PROVE  Covered(s)'
<1>. USE DEF CreditInv
<1>. DEFINE m == Message("SENDME", t, 0)
<1>1. m \in Cell /\ m.cmd = "SENDME" /\ m.stream = t
  BY MessageType
<1>. HIDE DEF m
<1>2. /\ UNCHANGED <<rwin, down, cell, buffer>>
      /\ consumed' = [consumed EXCEPT ![t] = @ - SendmeAfter]
      /\ up' = up \/ up' = Append(up, m)
  BY DEF CreditPeer, EmitSendme, relayVars, rxVars, m
<1>3. Cells(Append(up, m), "SENDME", s)
        = IF t = s THEN Cells(up, "SENDME", s) + 1 ELSE Cells(up, "SENDME", s)
  BY <1>1, CellsAppend DEF Typed, QueuesTyped
<1>4. InHand(s)' = InHand(s)
  BY <1>2 DEF InHand
<1>5. CASE t # s
  <2>1. consumed'[s] = consumed[s] /\ Cells(up', "SENDME", s) = Cells(up, "SENDME", s)
    BY <1>2, <1>3, <1>5 DEF Typed, ReadersTyped
  <2>. QED BY <1>2, <1>4, <2>1, CreditUntouched
<1>6. CASE t = s
  <2>1. consumed'[s] = consumed[s] - SendmeAfter /\ SendmeAfter = StreamIncrement * PayloadLen
    BY <1>2, <1>6 DEF Typed, ReadersTyped, SendmeAfter
  <2>2. Back(s)' = Back(s) \/ Back(s)' = Back(s) + StreamIncrement
    <3>1. CASE up' = up
      BY <3>1 DEF Back
    <3>2. CASE up' = Append(up, m)
      <4>. DEFINE u == Cells(up, "SENDME", s)
      <4>1. u \in Nat /\ StreamIncrement \in Nat /\ Cells(up', "SENDME", s) = u + 1
        BY <1>3, <1>6, <3>2, OutType, SizesType
      <4>. HIDE DEF u
      <4>2. StreamIncrement * (u + 1) = StreamIncrement * u + StreamIncrement
        BY <4>1
      <4>. QED BY <4>1, <4>2 DEF Back, u
    <3>. QED BY <1>2, <3>1, <3>2
  <2>3. rwin'[s] = rwin[s] /\ Cells(down', "DATA", s) = Cells(down, "DATA", s)
    BY <1>2
  <2>4. Out(s)' = Out(s) \/ Out(s)' = Out(s) + StreamIncrement
    BY <1>4, <2>2, <2>3, OutType, OutTypeNext, SizesType DEF Out
  <2>. DEFINE bytes == buffer[s] + consumed[s]
              spent == StreamInitial - Out(s)
  <2>5. /\ bytes \in Int /\ spent \in Int /\ bytes <= PayloadLen * spent
        /\ PayloadLen \in Nat /\ StreamIncrement \in Nat
    BY OutType, SizesType DEF Covered
  <2>6. bytes' = bytes - StreamIncrement * PayloadLen
    BY <1>2, <2>1, OutType, SizesType
  <2>7. spent' = spent \/ spent' = spent - StreamIncrement
    BY <2>4, OutType, OutTypeNext, SizesType
  <2>. HIDE DEF bytes, spent
  <2>8. PayloadLen * (spent - StreamIncrement)
          = PayloadLen * spent - StreamIncrement * PayloadLen
    BY <2>5
  <2>9. StreamIncrement * PayloadLen \in Nat /\ PayloadLen * spent \in Int
    BY <2>5
  <2>10. bytes' <= PayloadLen * spent'
    BY <2>5, <2>6, <2>7, <2>8, <2>9
  <2>. QED BY <2>10 DEF Covered, bytes, spent
<1>. QED BY <1>5, <1>6

LEMMA OthersKeepCredit ==
    ASSUME CreditInv, Typed', NEW t \in Streams,
           \/ RecvRaises(t) \/ RecvEof(t) \/ TellStream(t) \/ CloseStream(t) \/ CloseStep(t)
           \/ RelayDestroys \/ CloseCircuit \/ UNCHANGED vars,
           NEW s \in Streams
    PROVE  Covered(s)'
<1>. USE DEF CreditInv
<1>1. UNCHANGED <<rwin, cell, buffer, consumed>>
  BY DEF RecvRaises, RecvEof, TellStream, CloseStream, CloseStep, SendEnd, UnregisterStream,
     RelayDestroys, CloseCircuit, vars, relayVars, rxVars, streamVars, readVars
<1>2. down' = down \/ down' = Append(down, Message("DESTROY", Nobody, 0))
  BY DEF RecvRaises, RecvEof, TellStream, CloseStream, CloseStep, SendEnd, UnregisterStream,
     RelayDestroys, CloseCircuit, vars
<1>3. up' = up \/ up' = Append(up, Message("END", t, 0))
  BY DEF RecvRaises, RecvEof, TellStream, CloseStream, CloseStep, SendEnd, UnregisterStream,
     RelayDestroys, CloseCircuit, vars
<1>. DEFINE d == Message("DESTROY", Nobody, 0)
            e == Message("END", t, 0)
<1>4. d \in Cell /\ e \in Cell /\ d.cmd # "DATA" /\ e.cmd # "SENDME"
  BY MessageType
<1>. HIDE DEF d, e
<1>5. /\ Cells(Append(down, d), "DATA", s) = Cells(down, "DATA", s)
      /\ Cells(Append(up, e), "SENDME", s) = Cells(up, "SENDME", s)
  BY <1>4, CellsAppend DEF Typed, QueuesTyped
<1>6. Cells(down', "DATA", s) = Cells(down, "DATA", s)
  BY <1>2, <1>5 DEF d
<1>7. Cells(up', "SENDME", s) = Cells(up, "SENDME", s)
  BY <1>3, <1>5 DEF e
<1>. QED BY <1>1, <1>6, <1>7, CreditUntouched DEF InHand

LEMMA CreditInvStep == CreditInv /\ [Next]_vars => CreditInv'
<1>. SUFFICES ASSUME CreditInv, [Next]_vars PROVE CreditInv'
  OBVIOUS
<1>1. Typed'
  BY TypedStep DEF CreditInv
<1>2. ASSUME NEW s \in Streams PROVE Covered(s)'
  <2>1. ASSUME NEW t \in Streams, RelayStep(t) \/ TellStream(t) \/ ReadStep(t)
                                  \/ CloseStream(t) \/ CloseStep(t)
        PROVE  Covered(s)'
    BY <1>1, <2>1, RelayKeepsCredit, RecvKeepsCredit, CreditPeerKeepsCredit,
       OthersKeepCredit, Zenon DEF ReadStep
  <2>2. CASE RelayDestroys \/ CloseCircuit \/ UNCHANGED vars
    BY <1>1, <1>2, <2>2, OthersKeepCredit, Zenon
  <2>3. CASE RelayTakes
    BY <1>1, <1>2, <2>3, RelayTakesKeepsCredit
  <2>4. CASE ReceiverStep
    BY <1>1, <1>2, <2>4, ReceiverKeepsCredit
  <2>. QED BY <2>1, <2>2, <2>3, <2>4, Zenon DEF Next
<1>. QED BY <1>1, <1>2 DEF CreditInv

LEMMA CreditInvInit == Init => CreditInv
<1>. SUFFICES ASSUME Init, NEW s \in Streams PROVE Covered(s)
  BY TypedInit DEF CreditInv
<1>1. /\ rwin[s] = StreamInitial /\ buffer[s] = 0 /\ consumed[s] = 0
      /\ down = <<>> /\ up = <<>> /\ cell = NoCell
  BY DEF Init
<1>2. InHand(s) = 0 /\ Cells(down, "DATA", s) = 0 /\ Cells(up, "SENDME", s) = 0
  BY <1>1, NoCellType, CellsEmpty DEF InHand
<1>3. Back(s) = 0 /\ Out(s) = StreamInitial
  BY <1>1, <1>2, SizesType DEF Back, Out
<1>. QED BY <1>1, <1>3, SizesType DEF Covered

-------------------------------------------------------------------------------
(* Theorems on credit                                                        *)

(* What is covered leaves nothing over the initial window: both bounds.      *)
LEMMA CoveredBounds ==
    ASSUME CreditInv, NEW s \in Streams
    PROVE  /\ Out(s) <= StreamInitial
           /\ buffer[s] <= StreamInitial * PayloadLen
<1>. DEFINE bytes == buffer[s] + consumed[s]
            spent == StreamInitial - Out(s)
<1>1. /\ bytes \in Nat /\ spent \in Int /\ bytes <= PayloadLen * spent
      /\ PayloadLen \in Nat \ {0} /\ StreamInitial \in Nat /\ Out(s) \in Nat
      /\ buffer[s] \in Nat /\ buffer[s] <= bytes
  BY OutType, SizesType DEF CreditInv, Covered
<1>2. spent <= StreamInitial
  BY <1>1
<1>3. spent >= 0 <=> Out(s) <= StreamInitial
  BY <1>1
<1>. HIDE DEF bytes, spent
<1>4. spent >= 0
  <2>. SUFFICES ASSUME spent < 0 PROVE FALSE
    BY <1>1
  <2>1. PayloadLen * spent < 0
    BY <1>1
  <2>. QED BY <1>1, <2>1
<1>5. PayloadLen * spent <= StreamInitial * PayloadLen
  BY <1>1, <1>2, <1>4
<1>. QED BY <1>1, <1>3, <1>4, <1>5

(* However the relay cuts its data into cells and the reader into reads, no  *)
(* window is pushed over its initial value: stream.py:106-151.               *)
THEOREM SendmesAreNotEarly == Spec => []NoEarlySendme
<1>1. ASSUME CreditInv PROVE NoEarlySendme
  <2>. SUFFICES ASSUME NEW s \in Streams
                PROVE  rwin[s] + Cells(down, "DATA", s)
                         + StreamIncrement * Cells(up, "SENDME", s) <= StreamInitial
    BY DEF NoEarlySendme
  <2>1. Out(s) <= StreamInitial /\ StreamInitial \in Nat
    BY <1>1, CoveredBounds, SizesType
  <2>2. rwin[s] + Cells(down, "DATA", s) + Back(s) <= StreamInitial
    BY <1>1, <2>1, OutType DEF CreditInv, Out
  <2>. QED BY <2>2 DEF Back
<1>. QED BY CreditInvInit, CreditInvStep, <1>1, PTL DEF Spec

(* A reader that stops costs one stream window of full cells at most, for    *)
(* every number of streams: stream.py:54-57, 139-151.                        *)
THEOREM BuffersAreBounded == Spec => []BufferBounded
<1>1. CreditInv => BufferBounded
  BY CoveredBounds DEF BufferBounded
<1>. QED BY CreditInvInit, CreditInvStep, <1>1, PTL DEF Spec

-------------------------------------------------------------------------------
(* The ledger of a stream                                                    *)

Carries(c, s) == c.cmd = "DATA" /\ c.stream = s
Ends(c, s) == c.cmd = "END" /\ c.stream = s
Bytes(c, s) == IF Carries(c, s) THEN c.size ELSE 0

(* No data of s waits in the queue beyond position i.                        *)
Clear(q, i, s) == \A j \in DOMAIN q : j > i => ~Carries(q[j], s)

(* f[i] is what the reader of s can hope for once the first i cells of the   *)
(* queue have come: it starts with what has come already (or more, of cells  *)
(* that were dropped), and ends with all there is.                           *)
IsLedger(f, q, s, come, total) ==
    /\ f \in [0..Len(q) -> Nat]
    /\ f[0] >= come
    /\ \A i \in DOMAIN q : f[i] = f[i - 1] + Bytes(q[i], s)
    /\ \A i, j \in 0..Len(q) : i <= j => f[i] <= f[j]
    /\ \A i \in 0..Len(q) : Clear(q, i, s) => f[i] = total

(* While a stream is registered no byte of it is dropped.                    *)
Ledger(s) ==
    \E f \in [0..Len(down) -> Nat] :
        /\ IsLedger(f, down, s, buffer[s] + Bytes(cell, s), owed[s])
        /\ s \in registered => f[0] = buffer[s] + Bytes(cell, s)

(* The relay ends a stream behind the last of its data.                      *)
EndIsLast(s) ==
    \A i \in DOMAIN down :
        Ends(down[i], s) => s \notin ropen /\ sent[s] = MaxCells /\ Clear(down, i, s)

(* All of the stream has come, and what was not read is in the buffer.       *)
Drained(s) ==
    /\ s \notin ropen /\ sent[s] = MaxCells
    /\ owed[s] = buffer[s]
    /\ Clear(down, 0, s) /\ ~Carries(cell, s)

(* Somebody told the stream, or is about to, that it came to its end.        *)
Believed(s) == s \in eof \ failed \/ rpc[s] = "eof" \/ Ends(cell, s)

(* What an open stream takes for its end is its end.                         *)
EndIsTrue(s) ==
    cpc[s] = "open" =>
        /\ Believed(s) => Drained(s)
        /\ rpc[s] = "eof" => buffer[s] = 0

Kept(s) == Ledger(s) /\ EndIsLast(s) /\ EndIsTrue(s)

LedgerInv == Typed /\ \A s \in Streams : Kept(s)

LEMMA BytesType ==
    ASSUME NEW c \in Cell, NEW s
    PROVE  Bytes(c, s) \in Nat /\ (~Carries(c, s) => Bytes(c, s) = 0)
BY DEF Cell, Bytes

(* Positions of a queue with one cell more, and with one less.               *)
LEMMA ClearAppend ==
    ASSUME NEW q \in Seq(Cell), NEW m \in Cell, NEW s, NEW i \in 0..Len(q)
    PROVE  Clear(Append(q, m), i, s) <=> Clear(q, i, s) /\ ~Carries(m, s)
<1>1. /\ DOMAIN q = 1..Len(q) /\ DOMAIN Append(q, m) = 1..(Len(q) + 1) /\ Len(q) \in Nat
      /\ \A j \in 1..Len(q) : Append(q, m)[j] = q[j]
      /\ Append(q, m)[Len(q) + 1] = m
  BY AppendProperties, LenProperties
<1>2. Clear(Append(q, m), i, s) => Clear(q, i, s) /\ ~Carries(m, s)
  BY <1>1 DEF Clear
<1>3. Clear(q, i, s) /\ ~Carries(m, s) => Clear(Append(q, m), i, s)
  BY <1>1 DEF Clear
<1>. QED BY <1>2, <1>3

LEMMA ClearTail ==
    ASSUME NEW q \in Seq(Cell), q # <<>>, NEW s, NEW i \in 0..(Len(q) - 1)
    PROVE  Clear(Tail(q), i, s) <=> Clear(q, i + 1, s)
<1>1. /\ Len(q) \in Nat \ {0} /\ DOMAIN q = 1..Len(q) /\ DOMAIN Tail(q) = 1..(Len(q) - 1)
      /\ \A j \in 1..(Len(q) - 1) : Tail(q)[j] = q[j + 1]
  BY HeadTailProperties, LenProperties, EmptySeq
<1>2. Clear(q, i + 1, s) => Clear(Tail(q), i, s)
  BY <1>1 DEF Clear
<1>3. ASSUME Clear(Tail(q), i, s) PROVE Clear(q, i + 1, s)
  <2>. SUFFICES ASSUME NEW j \in 1..Len(q), j > i + 1 PROVE ~Carries(q[j], s)
    BY <1>1 DEF Clear
  <2>1. j - 1 \in 1..(Len(q) - 1) /\ j - 1 > i /\ (j - 1) + 1 = j
    BY <1>1
  <2>2. Tail(q)[j - 1] = q[j]
    BY <1>1, <2>1
  <2>. QED BY <1>1, <1>3, <2>1, <2>2 DEF Clear
<1>. QED BY <1>2, <1>3

LEMMA LedgerBounds ==
    ASSUME NEW q \in Seq(Cell), NEW s, NEW come \in Nat, NEW total, NEW f,
           IsLedger(f, q, s, come, total)
    PROVE  total \in Nat /\ come <= total /\ (Clear(q, 0, s) => f[0] = total)
<1>1. Len(q) \in Nat /\ DOMAIN q = 1..Len(q)
  BY LenProperties
<1>2. Clear(q, Len(q), s)
  BY <1>1 DEF Clear
<1>3. f[Len(q)] = total /\ f[Len(q)] \in Nat /\ f[0] \in Nat /\ f[0] <= f[Len(q)]
  BY <1>1, <1>2 DEF IsLedger
<1>. QED BY <1>1, <1>3 DEF IsLedger

LEMMA LedgerAppend ==
    ASSUME NEW q \in Seq(Cell), NEW m \in Cell, NEW s, NEW come \in Nat, NEW total,
           NEW f, IsLedger(f, q, s, come, total)
    PROVE  \E g \in [0..Len(Append(q, m)) -> Nat] :
              IsLedger(g, Append(q, m), s, come, total + Bytes(m, s)) /\ g[0] = f[0]
<1>. DEFINE n == Len(q)
            p == Append(q, m)
            b == Bytes(m, s)
            g == [i \in 0..(n + 1) |-> IF i = n + 1 THEN f[n] + b ELSE f[i]]
<1>1. /\ n \in Nat /\ b \in Nat /\ Len(p) = n + 1 /\ p \in Seq(Cell)
      /\ DOMAIN q = 1..n /\ DOMAIN p = 1..(n + 1)
      /\ \A i \in 1..n : p[i] = q[i]
      /\ p[n + 1] = m
  BY AppendProperties, LenProperties, BytesType
<1>2. /\ f \in [0..n -> Nat] /\ f[0] >= come
      /\ \A i \in 1..n : f[i] = f[i - 1] + Bytes(q[i], s)
      /\ \A i, j \in 0..n : i <= j => f[i] <= f[j]
      /\ \A i \in 0..n : Clear(q, i, s) => f[i] = total
  BY <1>1 DEF IsLedger
<1>3. \A i \in 0..n : Clear(p, i, s) => f[i] = total + b
  BY <1>1, <1>2, ClearAppend, BytesType, LedgerBounds
<1>4. f[n] = total
  BY <1>1, <1>2 DEF Clear
<1>. HIDE DEF n, p, b
<1>5. /\ g \in [0..(n + 1) -> Nat] /\ g[n + 1] = f[n] + b
      /\ \A i \in 0..n : g[i] = f[i]
  BY <1>1, <1>2
<1>. HIDE DEF g
<1>6. g[0] = f[0] /\ g[0] >= come
  BY <1>1, <1>2, <1>5
<1>7. \A i \in DOMAIN p : g[i] = g[i - 1] + Bytes(p[i], s)
  <2>. SUFFICES ASSUME NEW i \in 1..(n + 1) PROVE g[i] = g[i - 1] + Bytes(p[i], s)
    BY <1>1
  <2>1. CASE i = n + 1
    BY <1>1, <1>5, <2>1 DEF b
  <2>2. CASE i \in 1..n
    <3>1. i - 1 \in 0..n
      BY <1>1, <2>2
    <3>. QED BY <1>1, <1>2, <1>5, <2>2, <3>1
  <2>. QED BY <1>1, <2>1, <2>2
<1>8. \A i, j \in 0..(n + 1) : i <= j => g[i] <= g[j]
  <2>. SUFFICES ASSUME NEW i \in 0..(n + 1), NEW j \in 0..(n + 1), i <= j PROVE g[i] <= g[j]
    OBVIOUS
  <2>1. CASE j \in 0..n
    <3>1. i \in 0..n
      BY <1>1, <2>1
    <3>. QED BY <1>2, <1>5, <2>1, <3>1
  <2>2. CASE j = n + 1 /\ i \in 0..n
    <3>1. f[i] <= f[n] /\ f[i] \in Nat /\ f[n] \in Nat
      BY <1>1, <1>2, <2>2
    <3>. QED BY <1>1, <1>5, <2>2, <3>1
  <2>3. CASE j = n + 1 /\ i = n + 1
    BY <1>1, <1>5, <2>3
  <2>. QED BY <1>1, <2>1, <2>2, <2>3
<1>9. \A i \in 0..(n + 1) : Clear(p, i, s) => g[i] = total + b
  BY <1>1, <1>3, <1>4, <1>5
<1>10. IsLedger(g, p, s, come, total + b) /\ g \in [0..Len(p) -> Nat]
  BY <1>1, <1>5, <1>6, <1>7, <1>8, <1>9 DEF IsLedger
<1>. QED BY <1>6, <1>10 DEF p, b

LEMMA LedgerTail ==
    ASSUME NEW q \in Seq(Cell), q # <<>>, NEW s, NEW come \in Nat, NEW total,
           NEW f, IsLedger(f, q, s, come, total)
    PROVE  \E g \in [0..Len(Tail(q)) -> Nat] :
              /\ IsLedger(g, Tail(q), s, come + Bytes(Head(q), s), total)
              /\ g[0] = f[0] + Bytes(Head(q), s)
<1>. DEFINE n == Len(q) - 1
            p == Tail(q)
            b == Bytes(Head(q), s)
            g == [i \in 0..n |-> f[i + 1]]
<1>1. /\ n \in Nat /\ b \in Nat /\ Len(p) = n /\ p \in Seq(Cell)
      /\ DOMAIN q = 1..(n + 1) /\ DOMAIN p = 1..n /\ Len(q) = n + 1
      /\ \A i \in 1..n : p[i] = q[i + 1]
      /\ b = Bytes(q[1], s)
  BY HeadTailProperties, LenProperties, EmptySeq, BytesType
<1>2. /\ f \in [0..(n + 1) -> Nat] /\ f[0] >= come
      /\ \A i \in 1..(n + 1) : f[i] = f[i - 1] + Bytes(q[i], s)
      /\ \A i, j \in 0..(n + 1) : i <= j => f[i] <= f[j]
      /\ \A i \in 0..(n + 1) : Clear(q, i, s) => f[i] = total
  BY <1>1 DEF IsLedger
<1>3. \A i \in 0..n : Clear(p, i, s) => f[i + 1] = total
  BY <1>1, <1>2, ClearTail
<1>. HIDE DEF n, p, b
<1>4. g \in [0..n -> Nat] /\ \A i \in 0..n : g[i] = f[i + 1]
  BY <1>1, <1>2
<1>. HIDE DEF g
<1>5. g[0] = f[0] + b /\ f[0] \in Nat
  <2>1. f[1] = f[1 - 1] + Bytes(q[1], s) /\ 1 - 1 = 0
    BY <1>1, <1>2
  <2>. QED BY <1>1, <1>2, <1>4, <2>1
<1>6. \A i \in 1..n : g[i] = g[i - 1] + Bytes(p[i], s)
  <2>. SUFFICES ASSUME NEW i \in 1..n PROVE g[i] = g[i - 1] + Bytes(p[i], s)
    OBVIOUS
  <2>1. i - 1 \in 0..n /\ i \in 0..n /\ (i - 1) + 1 = i /\ i + 1 \in 1..(n + 1) /\ (i + 1) - 1 = i
    BY <1>1
  <2>2. g[i - 1] = f[i] /\ g[i] = f[i + 1] /\ f[i + 1] = f[i] + Bytes(q[i + 1], s)
    BY <1>2, <1>4, <2>1
  <2>. QED BY <1>1, <2>2
<1>7. \A i, j \in 0..n : i <= j => g[i] <= g[j]
  BY <1>1, <1>2, <1>4
<1>8. \A i \in 0..n : Clear(p, i, s) => g[i] = total
  BY <1>3, <1>4
<1>9. g[0] >= come + b
  BY <1>1, <1>2, <1>5
<1>10. IsLedger(g, p, s, come + b, total) /\ g \in [0..Len(p) -> Nat]
  BY <1>1, <1>4, <1>6, <1>7, <1>8, <1>9 DEF IsLedger
<1>. QED BY <1>5, <1>10 DEF p, b

LEMMA LedgerPays ==
    ASSUME NEW q \in Seq(Cell), NEW s, NEW come \in Nat, NEW total, NEW n \in 0..come,
           NEW f, IsLedger(f, q, s, come, total)
    PROVE  \E g \in [0..Len(q) -> Nat] :
              IsLedger(g, q, s, come - n, total - n) /\ g[0] = f[0] - n
<1>. DEFINE k == Len(q)
            g == [i \in 0..k |-> f[i] - n]
<1>1. k \in Nat /\ DOMAIN q = 1..k
  BY LenProperties
<1>2. /\ f \in [0..k -> Nat] /\ f[0] >= come /\ f[0] \in Nat
      /\ \A i \in 1..k : f[i] = f[i - 1] + Bytes(q[i], s)
      /\ \A i, j \in 0..k : i <= j => f[i] <= f[j]
      /\ \A i \in 0..k : Clear(q, i, s) => f[i] = total
  <2>. HIDE DEF g
  <2>1. /\ f \in [0..k -> Nat] /\ f[0] >= come
        /\ \A i \in 1..k : f[i] = f[i - 1] + Bytes(q[i], s)
        /\ \A i, j \in 0..k : i <= j => f[i] <= f[j]
        /\ \A i \in 0..k : Clear(q, i, s) => f[i] = total
    BY <1>1 DEF IsLedger
  <2>. HIDE DEF k
  <2>2. f[0] \in Nat
    BY <1>1, <2>1
  <2>. QED BY <2>1, <2>2
<1>3. \A i \in 1..k : Bytes(q[i], s) \in Nat
  BY <1>1, BytesType, ElementOfSeq
<1>. HIDE DEF k
<1>4. \A i \in 0..k : f[i] - n \in Nat
  <2>. SUFFICES ASSUME NEW i \in 0..k PROVE f[i] - n \in Nat
    OBVIOUS
  <2>1. f[0] <= f[i] /\ f[i] \in Nat
    BY <1>1, <1>2
  <2>. QED BY <1>2, <2>1
<1>5. g \in [0..k -> Nat] /\ \A i \in 0..k : g[i] = f[i] - n
  BY <1>4
<1>. HIDE DEF g
<1>6. \A i \in 1..k : g[i] = g[i - 1] + Bytes(q[i], s)
  <2>. SUFFICES ASSUME NEW i \in 1..k PROVE g[i] = g[i - 1] + Bytes(q[i], s)
    OBVIOUS
  <2>1. i - 1 \in 0..k /\ i \in 0..k
    BY <1>1
  <2>2. f[i] \in Nat /\ f[i - 1] \in Nat /\ g[i] = f[i] - n /\ g[i - 1] = f[i - 1] - n
    BY <1>2, <1>5, <2>1
  <2>. QED BY <1>2, <1>3, <2>2
<1>7. \A i, j \in 0..k : i <= j => g[i] <= g[j]
  BY <1>1, <1>2, <1>5
<1>8. \A i \in 0..k : Clear(q, i, s) => g[i] = total - n
  BY <1>2, <1>5
<1>9. g[0] >= come - n /\ g[0] = f[0] - n
  BY <1>1, <1>2, <1>5
<1>10. IsLedger(g, q, s, come - n, total - n)
  <2>1. \A i \in DOMAIN q : g[i] = g[i - 1] + Bytes(q[i], s)
    BY <1>1, <1>6
  <2>. QED BY <1>5, <1>7, <1>8, <1>9, <2>1 DEF IsLedger, k
<1>. QED BY <1>5, <1>9, <1>10 DEF k

-------------------------------------------------------------------------------
(* The three kinds of step: a cell more on its way, a cell taken, and none   *)

LEMMA SomeLedger ==
    ASSUME LedgerInv, NEW s \in Streams
    PROVE  /\ buffer[s] \in Nat /\ Bytes(cell, s) \in Nat /\ cell \in Cell /\ down \in Seq(Cell)
           /\ buffer[s] + Bytes(cell, s) \in Nat
           /\ \E f \in [0..Len(down) -> Nat] :
                /\ IsLedger(f, down, s, buffer[s] + Bytes(cell, s), owed[s])
                /\ s \in registered => f[0] = buffer[s] + Bytes(cell, s)
<1>1. buffer[s] \in Nat /\ cell \in Cell /\ down \in Seq(Cell)
  BY DEF LedgerInv, Typed, ReadersTyped, ReceiverTyped, QueuesTyped
<1>. QED BY <1>1, BytesType DEF LedgerInv, Kept, Ledger

LEMMA GrowthKeeps ==
    ASSUME LedgerInv, NEW s \in Streams, NEW m \in Cell, down' = Append(down, m),
           UNCHANGED <<cell, registered, buffer, eof, failed, rpc, cpc>>,
           ropen' \subseteq ropen, owed'[s] = owed[s] + Bytes(m, s),
           Carries(m, s) => s \in ropen,
           ~Carries(m, s) => sent'[s] = sent[s] /\ owed'[s] = owed[s],
           Ends(m, s) => s \notin ropen' /\ sent[s] = MaxCells
    PROVE  Kept(s)'
<1>1. down \in Seq(Cell) /\ Kept(s)
  BY SomeLedger DEF LedgerInv
<1>2. Ledger(s)'
  <2>1. PICK f \in [0..Len(down) -> Nat] :
               /\ IsLedger(f, down, s, buffer[s] + Bytes(cell, s), owed[s])
               /\ s \in registered => f[0] = buffer[s] + Bytes(cell, s)
    BY SomeLedger
  <2>2. PICK g \in [0..Len(down') -> Nat] :
               /\ IsLedger(g, down', s, buffer[s] + Bytes(cell, s), owed'[s])
               /\ g[0] = f[0]
    <3>1. buffer[s] + Bytes(cell, s) \in Nat
      BY SomeLedger
    <3>2. \E g \in [0..Len(Append(down, m)) -> Nat] :
             /\ IsLedger(g, Append(down, m), s, buffer[s] + Bytes(cell, s), owed[s] + Bytes(m, s))
             /\ g[0] = f[0]
      BY <1>1, <2>1, <3>1, LedgerAppend, SMTT(30)
    <3>. QED BY <3>2
  <2>. QED BY <2>1, <2>2 DEF Ledger
<1>3. EndIsLast(s)'
  <2>1. /\ DOMAIN down' = 1..(Len(down) + 1) /\ DOMAIN down = 1..Len(down) /\ Len(down) \in Nat
        /\ \A i \in 1..Len(down) : down'[i] = down[i]
        /\ down'[Len(down) + 1] = m
    BY <1>1, AppendProperties, LenProperties
  <2>. SUFFICES ASSUME NEW i \in 1..(Len(down) + 1), Ends(down'[i], s)
                PROVE  s \notin ropen' /\ sent'[s] = MaxCells /\ Clear(down', i, s)
    BY <2>1 DEF EndIsLast
  <2>2. CASE i = Len(down) + 1
    BY <2>1, <2>2 DEF Clear, Ends, Carries
  <2>3. CASE i \in 1..Len(down)
    <3>1. s \notin ropen /\ sent[s] = MaxCells /\ Clear(down, i, s)
      BY <1>1, <2>1, <2>3 DEF Kept, EndIsLast
    <3>. QED BY <1>1, <2>1, <2>3, <3>1, ClearAppend
  <2>. QED BY <2>1, <2>2, <2>3
<1>4. EndIsTrue(s)'
  <2>1. ASSUME Drained(s) PROVE Drained(s)'
    <3>1. ~Carries(m, s)
      BY <2>1 DEF Drained
    <3>2. Clear(down', 0, s)
      BY <1>1, <2>1, <3>1, ClearAppend, LenProperties DEF Drained
    <3>. QED BY <2>1, <3>1, <3>2 DEF Drained
  <2>. QED BY <1>1, <2>1 DEF Kept, EndIsTrue, Believed
<1>. QED BY <1>2, <1>3, <1>4 DEF Kept

LEMMA ArrivalKeeps ==
    ASSUME LedgerInv, NEW s \in Streams, down # <<>>, down' = Tail(down), ~Carries(cell, s),
           UNCHANGED <<relayVars, streamVars>>, registered' \subseteq registered, cell' \in Cell,
           s \in registered' \/ Carries(cell', s) => Bytes(cell', s) = Bytes(Head(down), s),
           Carries(cell', s) => Carries(Head(down), s),
           Ends(cell', s) => Ends(cell, s) \/ (Ends(Head(down), s) /\ s \in registered)
    PROVE  Kept(s)'
<1>1. down \in Seq(Cell) /\ Kept(s) /\ Bytes(cell, s) = 0 /\ Head(down) \in Cell
  BY SomeLedger, BytesType, HeadTailProperties, EmptySeq DEF LedgerInv
<1>2. /\ Len(down) \in Nat \ {0} /\ DOMAIN down = 1..Len(down) /\ Head(down) = down[1]
      /\ DOMAIN down' = 1..(Len(down) - 1)
      /\ \A i \in 1..(Len(down) - 1) : down'[i] = down[i + 1]
  BY <1>1, HeadTailProperties, LenProperties, EmptySeq
<1>3. /\ buffer' = buffer /\ owed' = owed /\ ropen' = ropen /\ sent' = sent
      /\ UNCHANGED <<eof, failed, rpc, cpc>>
  BY DEF relayVars, streamVars, readVars, flagVars
<1>4. Ledger(s)'
  <2>. DEFINE b == Bytes(Head(down), s)
              c == Bytes(cell', s)
  <2>1. PICK f \in [0..Len(down) -> Nat] :
               /\ IsLedger(f, down, s, buffer[s], owed[s])
               /\ s \in registered => f[0] = buffer[s]
    BY <1>1, SomeLedger
  <2>2. PICK g \in [0..Len(down') -> Nat] :
               IsLedger(g, down', s, buffer[s] + b, owed[s]) /\ g[0] = f[0] + b
    <3>1. buffer[s] \in Nat
      BY SomeLedger
    <3>2. \E g \in [0..Len(Tail(down)) -> Nat] :
             IsLedger(g, Tail(down), s, buffer[s] + b, owed[s]) /\ g[0] = f[0] + b
      BY <1>1, <2>1, <3>1, LedgerTail, SMTT(30)
    <3>. QED BY <3>2
  <2>3. b \in Nat /\ c \in Nat /\ c <= b /\ buffer[s] \in Nat
    <3>1. b \in Nat /\ c \in Nat /\ (~Carries(cell', s) => c = 0)
      BY <1>1, BytesType
    <3>. QED BY <3>1, SomeLedger
  <2>. HIDE DEF b, c
  <2>4. IsLedger(g, down', s, buffer[s] + c, owed[s])
    <3>1. g[0] >= buffer[s] + b /\ g[0] \in Nat
      <4>1. g[0] >= buffer[s] + b
        BY <2>2 DEF IsLedger
      <4>2. f[0] \in Nat
        BY <1>2, <2>1
      <4>. QED BY <2>2, <2>3, <4>1, <4>2
    <3>2. g[0] >= buffer[s] + c
      BY <2>3, <3>1
    <3>. QED BY <2>2, <3>2 DEF IsLedger
  <2>5. s \in registered' => g[0] = buffer[s] + c
    BY <2>1, <2>2 DEF b, c
  <2>. QED BY <1>3, <2>4, <2>5 DEF Ledger, c
<1>5. EndIsLast(s)'
  <2>. SUFFICES ASSUME NEW i \in 1..(Len(down) - 1), Ends(down'[i], s)
                PROVE  s \notin ropen' /\ sent'[s] = MaxCells /\ Clear(down', i, s)
    BY <1>2 DEF EndIsLast
  <2>1. i + 1 \in 1..Len(down) /\ i \in 0..(Len(down) - 1)
    BY <1>2
  <2>2. s \notin ropen /\ sent[s] = MaxCells /\ Clear(down, i + 1, s)
    BY <1>1, <1>2, <2>1 DEF Kept, EndIsLast
  <2>. QED BY <1>1, <1>3, <2>1, <2>2, ClearTail
<1>6. Clear(down, 0, s) => Clear(down', 0, s) /\ ~Carries(Head(down), s)
  <2>. SUFFICES ASSUME Clear(down, 0, s) PROVE Clear(down', 0, s) /\ ~Carries(Head(down), s)
    OBVIOUS
  <2>1. \A j \in 1..Len(down) : ~Carries(down[j], s)
    BY <1>2 DEF Clear
  <2>2. \A j \in 1..(Len(down) - 1) : ~Carries(down'[j], s)
    BY <1>2, <2>1
  <2>. QED BY <1>2, <2>1, <2>2 DEF Clear
<1>7. Drained(s) => Drained(s)'
  BY <1>3, <1>6 DEF Drained
<1>8. ASSUME Ends(Head(down), s), s \in registered, Ends(cell', s) PROVE Drained(s)'
  <2>1. s \notin ropen /\ sent[s] = MaxCells /\ Clear(down, 1, s)
    BY <1>1, <1>2, <1>8 DEF Kept, EndIsLast
  <2>2. Clear(down, 0, s)
    <3>. SUFFICES ASSUME NEW j \in 1..Len(down) PROVE ~Carries(down[j], s)
      BY <1>2 DEF Clear
    <3>1. CASE j = 1
      BY <1>2, <1>8, <3>1 DEF Ends, Carries
    <3>2. CASE j > 1
      BY <1>2, <2>1, <3>2 DEF Clear
    <3>. QED BY <1>2, <3>1, <3>2
  <2>3. PICK f \in [0..Len(down) -> Nat] :
               /\ IsLedger(f, down, s, buffer[s] + Bytes(cell, s), owed[s])
               /\ s \in registered => f[0] = buffer[s] + Bytes(cell, s)
    BY SomeLedger
  <2>4. owed[s] = buffer[s]
    BY <1>1, <1>8, <2>2, <2>3, SomeLedger, LedgerBounds
  <2>5. ~Carries(cell', s)
    BY <1>8 DEF Ends, Carries
  <2>. QED BY <1>3, <1>6, <2>1, <2>2, <2>4, <2>5 DEF Drained
<1>9. EndIsTrue(s)'
  BY <1>1, <1>3, <1>7, <1>8 DEF Kept, EndIsTrue, Believed
<1>. QED BY <1>4, <1>5, <1>9 DEF Kept

(* n bytes are read, or the cell in hand is buffered or dropped.             *)
LEMMA NoArrivalKeeps ==
    ASSUME LedgerInv, NEW s \in Streams, NEW n \in Nat, n <= buffer[s], down' = down,
           ropen' \subseteq ropen, sent' = sent, registered' \subseteq registered,
           buffer'[s] \in Nat, cell' \in Cell,
           owed'[s] = owed[s] - n,
           buffer'[s] + Bytes(cell', s) <= buffer[s] + Bytes(cell, s) - n,
           s \in registered' =>
             buffer'[s] + Bytes(cell', s) = buffer[s] + Bytes(cell, s) - n,
           Carries(cell', s) => Carries(cell, s),
           ~Carries(cell, s) => buffer'[s] = buffer[s] - n,
           cpc'[s] = "open" => /\ cpc[s] = "open"
                               /\ Believed(s)' => Believed(s)
                               /\ rpc'[s] = "eof" => rpc[s] = "eof" \/ buffer[s] = 0
    PROVE  Kept(s)'
<1>1. down \in Seq(Cell) /\ Kept(s) /\ buffer[s] \in Nat
  BY SomeLedger DEF LedgerInv
<1>2. Ledger(s)'
  <2>. DEFINE come == buffer[s] + Bytes(cell, s)
              left == buffer'[s] + Bytes(cell', s)
  <2>1. PICK f \in [0..Len(down) -> Nat] :
               IsLedger(f, down, s, come, owed[s]) /\ (s \in registered => f[0] = come)
    BY SomeLedger
  <2>2. /\ come \in Nat /\ left \in Nat /\ n \in 0..come /\ left <= come - n
        /\ s \in registered' => left = come - n
    <3>1. Bytes(cell, s) \in Nat /\ Bytes(cell', s) \in Nat
      BY SomeLedger, BytesType
    <3>. QED BY <1>1, <3>1
  <2>4. owed'[s] = owed[s] - n
    OBVIOUS
  <2>. HIDE DEF come, left
  <2>5. PICK g \in [0..Len(down) -> Nat] :
               IsLedger(g, down, s, come - n, owed'[s]) /\ g[0] = f[0] - n
    BY <1>1, <2>1, <2>2, <2>4, LedgerPays
  <2>6. IsLedger(g, down, s, left, owed'[s])
    <3>1. g[0] >= come - n /\ g[0] \in Nat
      BY <1>1, <2>5, LenProperties DEF IsLedger
    <3>2. g[0] >= left
      BY <2>2, <3>1
    <3>. QED BY <2>5, <3>2 DEF IsLedger
  <2>7. s \in registered' => g[0] = left
    BY <2>1, <2>2, <2>5
  <2>. QED BY <2>6, <2>7 DEF Ledger, left
<1>3. EndIsLast(s)'
  BY <1>1 DEF Kept, EndIsLast
<1>4. ASSUME Drained(s) PROVE Drained(s)' /\ (buffer[s] = 0 => buffer'[s] = 0)
  BY <1>1, <1>4 DEF Drained
<1>5. EndIsTrue(s)'
  <2>. SUFFICES ASSUME cpc'[s] = "open"
                PROVE  /\ Believed(s)' => Drained(s)'
                       /\ rpc'[s] = "eof" => buffer'[s] = 0
    BY DEF EndIsTrue
  <2>1. /\ Believed(s)' => Drained(s)
        /\ rpc[s] = "eof" => buffer[s] = 0
    BY <1>1 DEF Kept, EndIsTrue
  <2>2. rpc'[s] = "eof" => buffer[s] = 0 /\ Believed(s)'
    BY <2>1 DEF Believed
  <2>. QED BY <1>4, <2>1, <2>2
<1>. QED BY <1>2, <1>3, <1>5 DEF Kept

-------------------------------------------------------------------------------
(* The steps                                                                 *)

LEMMA RelayKeepsLedger ==
    ASSUME LedgerInv, NEW s \in Streams,
           RelayDestroys \/ \E t \in Streams : RelayStep(t)
    PROVE  Kept(s)'
<1>1. ASSUME NEW t \in Streams, NEW size \in CellSizes, RelaySends(t, size) PROVE Kept(s)'
  <2>. DEFINE m == Message("DATA", t, size)
  <2>1. /\ down' = Append(down, m) /\ t \in ropen /\ ropen' = ropen
        /\ UNCHANGED <<cell, registered, buffer, eof, failed, rpc, cpc>>
        /\ sent' = [sent EXCEPT ![t] = @ + 1] /\ owed' = [owed EXCEPT ![t] = @ + size]
    BY <1>1 DEF RelaySends, rxVars, circVars, flagVars
  <2>2. m \in Cell /\ m.cmd = "DATA" /\ m.stream = t /\ m.size = size /\ size \in Nat
    BY MessageType, SizesType
  <2>. HIDE DEF m
  <2>3. /\ Carries(m, s) <=> s = t
        /\ ~Ends(m, s)
        /\ Bytes(m, s) = IF s = t THEN size ELSE 0
    BY <2>2 DEF Carries, Ends, Bytes
  <2>4. owed \in [Streams -> Int] /\ sent \in [Streams -> Nat]
    BY DEF LedgerInv, Typed, ReadersTyped, RelayTyped
  <2>5. /\ owed'[s] = owed[s] + Bytes(m, s)
        /\ s # t => sent'[s] = sent[s] /\ owed'[s] = owed[s]
    BY <2>1, <2>2, <2>3, <2>4
  <2>. QED BY <2>1, <2>2, <2>3, <2>5, GrowthKeeps
<1>2. ASSUME NEW m \in Cell, down' = Append(down, m), m.cmd # "DATA", ropen' \subseteq ropen,
             Ends(m, s) => s \notin ropen' /\ sent[s] = MaxCells,
             UNCHANGED <<cell, registered, buffer, eof, failed, rpc, cpc, sent, owed>>
      PROVE  Kept(s)'
  <2>1. ~Carries(m, s) /\ Bytes(m, s) = 0 /\ owed[s] \in Int
    BY <1>2 DEF Carries, Bytes, LedgerInv, Typed, ReadersTyped
  <2>. QED BY <1>2, <2>1, GrowthKeeps
<1>3. ASSUME NEW t \in Streams, RelayEnds(t) PROVE Kept(s)'
  <2>. DEFINE m == Message("END", t, 0)
  <2>1. /\ down' = Append(down, m) /\ ropen' = ropen \ {t} /\ sent[t] = MaxCells
        /\ UNCHANGED <<cell, registered, buffer, eof, failed, rpc, cpc, sent, owed>>
    BY <1>3 DEF RelayEnds, rxVars, circVars, streamVars, readVars, flagVars
  <2>2. m \in Cell /\ m.cmd = "END" /\ m.stream = t
    BY MessageType
  <2>. HIDE DEF m
  <2>. QED BY <1>2, <2>1, <2>2 DEF Ends
<1>4. CASE RelayDestroys
  <2>. DEFINE m == Message("DESTROY", Nobody, 0)
  <2>1. /\ down' = Append(down, m) /\ ropen' = {}
        /\ UNCHANGED <<cell, registered, buffer, eof, failed, rpc, cpc, sent, owed>>
    BY <1>4 DEF RelayDestroys, rxVars, circVars, streamVars, readVars, flagVars
  <2>2. m \in Cell /\ m.cmd = "DESTROY"
    BY DEF Message, Cell
  <2>. HIDE DEF m
  <2>. QED BY <1>2, <2>1, <2>2 DEF Ends
<1>. QED BY <1>1, <1>3, <1>4 DEF RelayStep

(* The receiver has no cell in hand when the next one comes, and keeps what  *)
(* it takes when the stream is registered.                                   *)
LEMMA ArrivalKeepsLedger ==
    ASSUME LedgerInv, NEW s \in Streams, ReceiveData \/ ReceiveEnd \/ ReceiveDestroy
    PROVE  Kept(s)'
<1>. DEFINE c == Head(down)
<1>1. /\ rx = "idle" /\ down # <<>> /\ down' = Tail(down)
      /\ UNCHANGED <<relayVars, streamVars>>
  BY DEF ReceiveData, ReceiveEnd, ReceiveDestroy, Arrives
<1>2. /\ cell = NoCell /\ ~Carries(cell, s) /\ ~Ends(cell, s)
  BY <1>1, NoCellType, StreamsAssumption
     DEF LedgerInv, Typed, ReceiverTyped, Carries, Ends
<1>3. c \in Cell /\ NoCell \in Cell /\ Bytes(NoCell, s) = 0
  BY <1>1, <1>2, NoCellType, BytesType, SomeLedger, HeadTailProperties
<1>4. CASE ReceiveData \/ ReceiveEnd
  <2>1. registered' = registered
    BY <1>4 DEF ReceiveData, ReceiveEnd, circVars
  <2>2. cell' = c \/ (c.stream \notin registered /\ cell' = NoCell)
    <3>1. LookUp(c) \/ cell' = c
      BY <1>4, Zenon DEF ReceiveData, ReceiveEnd
    <3>. QED BY <3>1, Zenon DEF LookUp, Done
  <2>3. Ends(cell', s) => s \in registered
    <3>. SUFFICES ASSUME Ends(cell', s), s \notin registered PROVE FALSE
      OBVIOUS
    <3>1. c.cmd = "END" /\ c.stream = s
      BY <1>2, <2>2 DEF Ends
    <3>2. ReceiveEnd
      BY <1>4, <3>1 DEF ReceiveData, Arrives
    <3>3. cell' = NoCell
      BY <3>1, <3>2, Zenon DEF ReceiveEnd, LookUp, Done
    <3>. QED BY <1>2, <3>3
  <2>. HIDE DEF c
  <2>4. CASE cell' = c
    BY <1>1, <1>2, <1>3, <2>1, <2>3, <2>4, ArrivalKeeps DEF c
  <2>5. CASE c.stream \notin registered /\ cell' = NoCell
    <3>1. s \in registered => Bytes(c, s) = 0
      BY <2>5 DEF Bytes, Carries
    <3>. QED BY <1>1, <1>2, <1>3, <2>1, <2>5, <3>1, ArrivalKeeps DEF c
  <2>. QED BY <2>2, <2>4, <2>5
<1>5. CASE ReceiveDestroy
  <2>1. registered' \subseteq registered /\ cell' = cell /\ ~Carries(c, s)
    BY <1>5 DEF ReceiveDestroy, Arrives, MarkDestroyed, circVars, LedgerInv, Typed,
       ReceiverTyped, Carries
  <2>2. Bytes(c, s) = 0
    BY <2>1 DEF Bytes
  <2>. QED BY <1>1, <1>2, <1>3, <2>1, <2>2, ArrivalKeeps
<1>. QED BY <1>4, <1>5

(* Steps that leave the queue and the bytes of s where they are.             *)
LEMMA NothingReadKeeps ==
    ASSUME LedgerInv, NEW s \in Streams,
           UNCHANGED <<down, sent, buffer, owed, cell>>,
           ropen' \subseteq ropen, registered' \subseteq registered,
           cpc'[s] = "open" => /\ cpc[s] = "open"
                               /\ s \in eof' \ failed' => s \in eof \ failed
                               /\ rpc'[s] = "eof" => rpc[s] = "eof"
                                                    \/ (buffer[s] = 0 /\ s \in eof \ failed)
    PROVE  Kept(s)'
<1>1. /\ buffer[s] \in Nat /\ Bytes(cell, s) \in Nat /\ cell \in Cell /\ owed[s] \in Int
  BY SomeLedger DEF LedgerInv, Typed, ReadersTyped
<1>2. /\ 0 \in Nat /\ 0 <= buffer[s] /\ buffer'[s] \in Nat /\ cell' \in Cell
      /\ owed'[s] = owed[s] - 0
      /\ buffer'[s] + Bytes(cell', s) <= buffer[s] + Bytes(cell, s) - 0
      /\ buffer'[s] + Bytes(cell', s) = buffer[s] + Bytes(cell, s) - 0
      /\ buffer'[s] = buffer[s] - 0
  BY <1>1
<1>3. cpc'[s] = "open" => (Believed(s)' => Believed(s))
  BY DEF Believed
<1>4. cpc'[s] = "open" => /\ cpc[s] = "open"
                          /\ Believed(s)' => Believed(s)
                          /\ rpc'[s] = "eof" => rpc[s] = "eof" \/ buffer[s] = 0
  BY <1>3
<1>. HIDE DEF LedgerInv
<1>. QED BY <1>2, <1>4, NoArrivalKeeps

LEMMA OthersKeepLedger ==
    ASSUME LedgerInv, NEW s \in Streams,
           \/ RelayTakes \/ EmitCircuitSendme \/ TeardownReturns \/ CloseCircuit
           \/ UNCHANGED vars
           \/ \E t \in Streams : \/ CreditPeer(t) \/ RecvRaises(t) \/ RecvEof(t)
                                 \/ TellStream(t) \/ CloseStream(t) \/ CloseStep(t)
    PROVE  Kept(s)'
<1>. USE DEF relayVars, rxVars, circVars, streamVars, readVars, flagVars
<1>1. /\ rpc \in [Streams -> {"recv", "credit", "eof", "error"}]
      /\ cpc \in [Streams -> {"open", "end", "unregister", "closed"}]
      /\ ropen \subseteq Streams /\ registered \subseteq Streams
  BY DEF LedgerInv, Typed, RelayTyped, ReceiverTyped, ReadersTyped
<1>2. CASE RelayTakes
  <2>1. ropen' \subseteq ropen
    BY <1>2 DEF RelayTakes
  <2>. QED BY <1>2, <2>1, NothingReadKeeps DEF RelayTakes
<1>3. CASE EmitCircuitSendme \/ TeardownReturns \/ CloseCircuit \/ UNCHANGED vars
  BY <1>3, NothingReadKeeps DEF EmitCircuitSendme, TeardownReturns, CloseCircuit,
     MarkDestroyed, vars
<1>4. ASSUME NEW t \in Streams, CreditPeer(t) \/ RecvRaises(t) PROVE Kept(s)'
  <2>1. rpc'[s] = "eof" => rpc[s] = "eof"
    BY <1>1, <1>4 DEF CreditPeer, RecvRaises, Due
  <2>. QED BY <1>4, <2>1, NothingReadKeeps DEF CreditPeer, RecvRaises
<1>5. ASSUME NEW t \in Streams, RecvEof(t) PROVE Kept(s)'
  <2>1. rpc'[s] = "eof" => rpc[s] = "eof" \/ (buffer[s] = 0 /\ s \in eof \ failed)
    BY <1>1, <1>5 DEF RecvEof
  <2>. QED BY <1>5, <2>1, NothingReadKeeps DEF RecvEof
<1>6. ASSUME NEW t \in Streams, TellStream(t) PROVE Kept(s)'
  BY <1>6, NothingReadKeeps DEF TellStream
<1>7. ASSUME NEW t \in Streams, CloseStream(t) PROVE Kept(s)'
  <2>1. cpc'[s] = "open" => cpc[s] = "open" /\ s # t
    BY <1>1, <1>7 DEF CloseStream
  <2>2. s # t => (s \in eof' => s \in eof)
    BY <1>7 DEF CloseStream
  <2>. QED BY <1>7, <2>1, <2>2, NothingReadKeeps DEF CloseStream
<1>8. ASSUME NEW t \in Streams, CloseStep(t) PROVE Kept(s)'
  <2>1. cpc'[s] = "open" => cpc[s] = "open"
    BY <1>1, <1>8 DEF CloseStep, SendEnd, UnregisterStream
  <2>. QED BY <1>8, <2>1, NothingReadKeeps DEF CloseStep, SendEnd, UnregisterStream
<1>. QED BY <1>2, <1>3, <1>4, <1>5, <1>6, <1>7, <1>8

(* The cell in hand goes to its stream, or is dropped with it.               *)
LEMMA CellInHandKeepsLedger ==
    ASSUME LedgerInv, NEW s \in Streams, RouteCell \/ HandleData \/ HandleEnd
    PROVE  Kept(s)'
<1>. USE DEF relayVars, rxVars, circVars, streamVars, readVars, flagVars
<1>1. /\ buffer[s] \in Nat /\ cell \in Cell /\ Bytes(cell, s) \in Nat /\ owed[s] \in Int
      /\ buffer \in [Streams -> Nat] /\ NoCell \in Cell /\ Bytes(NoCell, s) = 0
      /\ ~Carries(NoCell, s) /\ ~Ends(NoCell, s)
  <2>1. NoCell \in Cell /\ ~Carries(NoCell, s) /\ ~Ends(NoCell, s)
    BY NoCellType, StreamsAssumption DEF Carries, Ends
  <2>. QED BY <2>1, SomeLedger, BytesType DEF LedgerInv, Typed, ReadersTyped
<1>2. /\ down' = down /\ ropen' = ropen /\ sent' = sent /\ registered' = registered
      /\ owed' = owed /\ UNCHANGED <<rpc, cpc, failed>>
  BY DEF RouteCell, HandleData, HandleEnd
<1>3. 0 \in Nat /\ 0 <= buffer[s] /\ owed'[s] = owed[s] - 0
  BY <1>1, <1>2
<1>4. CASE RouteCell
  <2>1. /\ cell' = cell \/ (cell.stream \notin registered /\ cell' = NoCell)
        /\ buffer' = buffer /\ eof' = eof
    BY <1>4, Zenon DEF RouteCell, LookUp, Done
  <2>2. /\ cell' \in Cell /\ buffer'[s] \in Nat
        /\ buffer'[s] + Bytes(cell', s) <= buffer[s] + Bytes(cell, s) - 0
        /\ ~Carries(cell, s) => buffer'[s] = buffer[s] - 0
    BY <1>1, <2>1
  <2>3. s \in registered' => buffer'[s] + Bytes(cell', s) = buffer[s] + Bytes(cell, s) - 0
    <3>1. CASE cell' = cell
      BY <1>1, <2>1, <3>1
    <3>2. CASE cell.stream \notin registered /\ cell' = NoCell
      <4>1. s \in registered => Bytes(cell, s) = 0
        BY <3>2 DEF Bytes, Carries
      <4>. QED BY <1>1, <1>2, <2>1, <3>2, <4>1
    <3>. QED BY <2>1, <3>1, <3>2
  <2>4. Carries(cell', s) => Carries(cell, s)
    BY <1>1, <2>1
  <2>5. Believed(s)' => Believed(s)
    BY <1>1, <1>2, <2>1 DEF Believed
  <2>. QED BY <1>2, <1>3, <2>2, <2>3, <2>4, <2>5, NoArrivalKeeps
<1>5. CASE HandleData
  <2>1. /\ cell' = NoCell /\ eof' = eof /\ cell.cmd = "DATA"
        /\ buffer' = [buffer EXCEPT ![cell.stream] = @ + cell.size]
    BY <1>5, Zenon DEF HandleData, Done
  <2>2. cell.size \in Nat
    BY <1>1 DEF Cell
  <2>3. buffer'[s] = buffer[s] + Bytes(cell, s)
    <3>1. CASE cell.stream = s
      BY <1>1, <2>1, <2>2, <3>1 DEF Bytes, Carries
    <3>2. CASE cell.stream # s
      BY <1>1, <2>1, <3>2 DEF Bytes, Carries
    <3>. QED BY <3>1, <3>2
  <2>4. /\ cell' \in Cell /\ buffer'[s] \in Nat
        /\ buffer'[s] + Bytes(cell', s) <= buffer[s] + Bytes(cell, s) - 0
        /\ buffer'[s] + Bytes(cell', s) = buffer[s] + Bytes(cell, s) - 0
        /\ ~Carries(cell, s) => buffer'[s] = buffer[s] - 0
    BY <1>1, <2>1, <2>3, BytesType
  <2>5. ~Carries(cell', s) /\ (Believed(s)' => Believed(s))
    BY <1>1, <1>2, <2>1 DEF Believed
  <2>. QED BY <1>2, <1>3, <2>4, <2>5, NoArrivalKeeps
<1>6. CASE HandleEnd
  <2>1. /\ cell' = NoCell /\ eof' = eof \cup {cell.stream} /\ cell.cmd = "END"
        /\ buffer' = buffer
    BY <1>6, Zenon DEF HandleEnd, Done
  <2>2. Bytes(cell, s) = 0 /\ ~Carries(cell, s)
    BY <2>1 DEF Bytes, Carries
  <2>3. /\ cell' \in Cell /\ buffer'[s] \in Nat
        /\ buffer'[s] + Bytes(cell', s) <= buffer[s] + Bytes(cell, s) - 0
        /\ buffer'[s] + Bytes(cell', s) = buffer[s] + Bytes(cell, s) - 0
        /\ ~Carries(cell, s) => buffer'[s] = buffer[s] - 0
    BY <1>1, <2>1, <2>2
  <2>4. ~Carries(cell', s) /\ (Believed(s)' => Believed(s))
    BY <1>1, <1>2, <2>1 DEF Believed, Ends
  <2>. QED BY <1>2, <1>3, <2>3, <2>4, NoArrivalKeeps
<1>. QED BY <1>4, <1>5, <1>6

LEMMA ReadingKeepsLedger ==
    ASSUME LedgerInv, NEW t \in Streams, NEW max \in ReadSizes, RecvData(t, max),
           NEW s \in Streams
    PROVE  Kept(s)'
<1>. DEFINE n == IF max < buffer[t] THEN max ELSE buffer[t]
<1>1. /\ buffer' = [buffer EXCEPT ![t] = @ - n] /\ owed' = [owed EXCEPT ![t] = @ - n]
      /\ rpc' = [rpc EXCEPT ![t] = Due(consumed[t] + n)]
      /\ UNCHANGED <<relayVars, down, rxVars, circVars, flagVars>>
  BY Zenon DEF RecvData
<1>2. /\ buffer \in [Streams -> Nat] /\ owed \in [Streams -> Int]
      /\ rpc \in [Streams -> {"recv", "credit", "eof", "error"}]
      /\ Bytes(cell, s) \in Nat /\ cell \in Cell
  BY SomeLedger DEF LedgerInv, Typed, ReadersTyped
<1>3. n \in Nat /\ n <= buffer[t]
  BY <1>2, SizesType
<1>. HIDE DEF n
<1>4. /\ down' = down /\ ropen' = ropen /\ sent' = sent /\ registered' = registered
      /\ cell' = cell /\ UNCHANGED <<eof, failed, cpc>>
  BY <1>1 DEF relayVars, rxVars, circVars, flagVars
<1>5. rpc'[s] = "eof" => rpc[s] = "eof"
  BY <1>1, <1>2 DEF Due
<1>6. Believed(s)' => Believed(s)
  BY <1>4, <1>5 DEF Believed
<1>7. CASE s # t
  <2>1. buffer'[s] = buffer[s] /\ owed'[s] = owed[s] /\ owed[s] \in Int /\ buffer[s] \in Nat
    BY <1>1, <1>2, <1>7
  <2>2. /\ 0 \in Nat /\ 0 <= buffer[s] /\ buffer'[s] \in Nat /\ cell' \in Cell
        /\ owed'[s] = owed[s] - 0 /\ buffer'[s] = buffer[s] - 0
        /\ buffer'[s] + Bytes(cell', s) <= buffer[s] + Bytes(cell, s) - 0
        /\ buffer'[s] + Bytes(cell', s) = buffer[s] + Bytes(cell, s) - 0
    BY <1>2, <1>4, <2>1
  <2>. QED BY <1>4, <1>5, <1>6, <2>2, NoArrivalKeeps
<1>8. CASE s = t
  <2>1. /\ buffer'[s] = buffer[s] - n /\ owed'[s] = owed[s] - n /\ n <= buffer[s]
        /\ buffer[s] \in Nat
    BY <1>1, <1>2, <1>3, <1>8
  <2>2. /\ buffer'[s] \in Nat /\ cell' \in Cell
        /\ buffer'[s] + Bytes(cell', s) <= buffer[s] + Bytes(cell, s) - n
        /\ buffer'[s] + Bytes(cell', s) = buffer[s] + Bytes(cell, s) - n
    BY <1>2, <1>3, <1>4, <2>1
  <2>. QED BY <1>3, <1>4, <1>5, <1>6, <2>1, <2>2, NoArrivalKeeps
<1>. QED BY <1>7, <1>8

LEMMA LedgerInvStep == LedgerInv /\ [Next]_vars => LedgerInv'
<1>. SUFFICES ASSUME LedgerInv, [Next]_vars PROVE LedgerInv'
  OBVIOUS
<1>1. Typed'
  BY TypedStep DEF LedgerInv
<1>2. ASSUME NEW s \in Streams PROVE Kept(s)'
  <2>1. CASE RelayTakes \/ RelayDestroys \/ CloseCircuit \/ UNCHANGED vars
    BY <1>2, <2>1, RelayKeepsLedger, OthersKeepLedger, Zenon
  <2>2. CASE ReceiverStep
    BY <1>2, <2>2, ArrivalKeepsLedger, CellInHandKeepsLedger, OthersKeepLedger, Zenon
       DEF ReceiverStep
  <2>3. ASSUME NEW t \in Streams, RelayStep(t) PROVE Kept(s)'
    BY <1>2, <2>3, RelayKeepsLedger
  <2>4. ASSUME NEW t \in Streams, NEW max \in ReadSizes, RecvData(t, max) PROVE Kept(s)'
    BY <1>2, <2>4, ReadingKeepsLedger
  <2>5. ASSUME NEW t \in Streams,
               \/ CreditPeer(t) \/ RecvRaises(t) \/ RecvEof(t)
               \/ TellStream(t) \/ CloseStream(t) \/ CloseStep(t)
        PROVE  Kept(s)'
    BY <1>2, <2>5, OthersKeepLedger
  <2>. QED BY <2>1, <2>2, <2>3, <2>4, <2>5, Zenon DEF Next, ReadStep
<1>. QED BY <1>1, <1>2 DEF LedgerInv

LEMMA LedgerInvInit == Init => LedgerInv
<1>. SUFFICES ASSUME Init PROVE LedgerInv
  OBVIOUS
<1>1. Typed
  BY TypedInit
<1>2. ASSUME NEW s \in Streams PROVE Kept(s)
  <2>1. /\ down = <<>> /\ cell = NoCell /\ buffer[s] = 0 /\ owed[s] = 0 /\ rpc[s] = "recv"
        /\ eof = {}
    BY DEF Init
  <2>2. ~Carries(cell, s) /\ ~Ends(cell, s) /\ Bytes(cell, s) = 0
    BY <2>1, NoCellType, StreamsAssumption DEF Carries, Ends, Bytes
  <2>3. Ledger(s)
    <3>. DEFINE f == [i \in 0..0 |-> 0]
    <3>1. DOMAIN down = {} /\ Len(down) = 0
      BY <2>1
    <3>2. f \in [0..0 -> Nat] /\ f[0] = 0 /\ \A i \in 0..0 : f[i] = 0
      OBVIOUS
    <3>. HIDE DEF f
    <3>3. IsLedger(f, down, s, buffer[s] + Bytes(cell, s), owed[s])
      BY <2>1, <2>2, <3>1, <3>2 DEF IsLedger
    <3>. QED BY <2>1, <2>2, <3>1, <3>2, <3>3 DEF Ledger
  <2>4. EndIsLast(s) /\ EndIsTrue(s)
    BY <2>1, <2>2 DEF EndIsLast, EndIsTrue, Believed
  <2>. QED BY <2>3, <2>4 DEF Kept
<1>. QED BY <1>1, <1>2 DEF LedgerInv

-------------------------------------------------------------------------------
(* Theorems on the ledger                                                    *)

(* Every variable keeps its type; what is owed to a reader never falls below *)
(* what its buffer holds.                                                    *)
THEOREM TypesOK == Spec => []TypeOK
<1>1. ASSUME LedgerInv PROVE TypeOK
  <2>1. owed \in [Streams -> Nat]
    <3>1. ASSUME NEW s \in Streams PROVE owed[s] \in Nat
      <4>1. PICK f \in [0..Len(down) -> Nat] :
                   IsLedger(f, down, s, buffer[s] + Bytes(cell, s), owed[s])
        BY <1>1, <3>1, SomeLedger
      <4>. QED BY <1>1, <3>1, <4>1, SomeLedger, LedgerBounds
    <3>. QED BY <1>1, <3>1 DEF LedgerInv, Typed, ReadersTyped
  <2>. QED
    BY <1>1, <2>1 DEF LedgerInv, Typed, RelayTyped, QueuesTyped, ReceiverTyped, ReadersTyped,
       TypeOK
<1>. QED BY LedgerInvInit, LedgerInvStep, <1>1, PTL DEF Spec

(* A reader that recv told b"" has every byte of its stream, though the      *)
(* circuit may have gone meanwhile: stream.py:106-137, 154-178.              *)
THEOREM EofIsTheEnd == Spec => []EofMeansComplete
<1>1. ASSUME LedgerInv PROVE EofMeansComplete
  <2>. SUFFICES ASSUME NEW s \in Streams, rpc[s] = "eof", cpc[s] = "open"
                PROVE  sent[s] = MaxCells /\ owed[s] = 0
    BY DEF EofMeansComplete
  <2>1. Drained(s) /\ buffer[s] = 0
    BY <1>1 DEF LedgerInv, Kept, EndIsTrue, Believed
  <2>. QED BY <2>1 DEF Drained
<1>. QED BY LedgerInvInit, LedgerInvStep, <1>1, PTL DEF Spec

===============================================================================
