-------------------------- MODULE CircuitPool_proofs --------------------------
(* Proofs about CircuitPool, for all sets of requests, keys and guards and   *)
(* every number of attempts, failures and rotations.                         *)
EXTENDS CircuitPool, FiniteSetTheorems, TLAPS

-------------------------------------------------------------------------------
(* What a step does to its thread.                                           *)

LEMMA GotoType ==
    ASSUME NEW t, NEW label \in PCs, pc \in [Threads -> PCs], Goto(t, label)
    PROVE  pc' \in [Threads -> PCs]
BY DEF Goto

LEMMA Labels == RequestPCs \subseteq PCs /\ "dropping" \in PCs
BY DEF PCs

(* An attempt that is under way has a name of its own.                       *)
LEMMA MineType ==
    ASSUME TypeOK, NEW r \in Requests, tries[r] > 0
    PROVE  Mine(r) \in Ids
<1>1. tries[r] \in 1 .. Attempts
  BY PoolAssumption DEF TypeOK
<1>. QED BY <1>1 DEF Mine, Ids

LEMMA IdRequest ==
    ASSUME NEW i \in Ids
    PROVE  i[1] \in Requests
BY DEF Ids

(* A request is neither a rotation nor a closer.                             *)
LEMMA RequestsApart ==
    ASSUME NEW r \in Requests
    PROVE  r \in Threads /\ r \notin Droppers
BY PoolAssumption DEF Threads, Droppers

LEMMA EntriesType ==
    ASSUME NEW S, NEW table \in [S -> Ids \cup {None}]
    PROVE  Entries(table) \subseteq Ids
BY DEF Entries, Range

(* A step of a request leaves the other threads where they are.              *)
LEMMA OthersStay ==
    ASSUME NEW t, NEW label, Goto(t, label), pc \in [Threads -> PCs]
    PROVE  /\ \A q \in Threads \ {t} : pc'[q] = pc[q]
           /\ t \in Threads => pc'[t] = label
BY DEF Goto

-------------------------------------------------------------------------------
(* The type of every variable.                                               *)
LEMMA InitType == Init => TypeOK
<1>. SUFFICES ASSUME Init PROVE TypeOK
  OBVIOUS
<1>1. pc \in [Threads -> PCs]
  BY DEF Init, PCs, RequestPCs
<1>2. tries \in [Requests -> 0 .. Attempts]
  BY PoolAssumption DEF Init
<1>3. chosenIn \in [Ids -> Nat] /\ startedIn \in [Requests -> Nat]
      /\ deaths \in Nat /\ rotations \in Nat
  BY DEF Init
<1>4. /\ closed \in BOOLEAN
      /\ pool \in [Keys -> Ids \cup {None}]
      /\ channels \in [Guards -> Ids \cup {None}]
      /\ on \in [Ids -> Ids \cup {None}]
      /\ guard \in [Requests -> Guards \cup {None}]
      /\ via \in [Requests -> Ids \cup {None}]
      /\ got \in [Requests -> Ids \cup {None}]
      /\ oldChannels \in [Droppers -> SUBSET Ids]
      /\ oldCircuits \in [Droppers -> SUBSET Ids]
  BY DEF Init
<1>5. /\ opened \subseteq Ids /\ shut \subseteq Ids
      /\ built \subseteq Ids /\ dead \subseteq Ids
  BY DEF Init
<1>. QED BY <1>1, <1>2, <1>3, <1>4, <1>5 DEF TypeOK

(* Every step of a request moves it somewhere.                               *)
LEMMA RequestMoves ==
    ASSUME NEW r \in Requests,
           RequestStep(r)
    PROVE  \E label \in PCs : Goto(r, label)
<1>. USE DEF PCs, RequestPCs
<1>1. CASE Acquire(r) BY <1>1 DEF Acquire
<1>2. CASE ChoosePath(r) BY <1>2 DEF ChoosePath
<1>3. CASE PathFails(r) BY <1>3 DEF PathFails
<1>4. CASE OpenChannel(r) BY <1>4 DEF OpenChannel
<1>5. CASE AttemptFails(r) BY <1>5 DEF AttemptFails
<1>6. CASE OfferChannel(r) BY <1>6 DEF OfferChannel
<1>7. CASE DropChannel(r) BY <1>7 DEF DropChannel
<1>8. CASE Build(r) BY <1>8 DEF Build
<1>9. CASE Pool(r) BY <1>9 DEF Pool
<1>10. CASE DropCircuit(r) BY <1>10 DEF DropCircuit
<1>11. CASE Connect(r) BY <1>11 DEF Connect
<1>12. CASE StreamEnds(r) BY <1>12 DEF StreamEnds
<1>13. CASE Release(r) BY <1>13 DEF Release
<1>. QED BY <1>1, <1>2, <1>3, <1>4, <1>5, <1>6, <1>7, <1>8, <1>9, <1>10, <1>11,
            <1>12, <1>13 DEF RequestStep

LEMMA RequestType ==
    ASSUME TypeOK, Bookkeeping, NEW r \in Requests,
           RequestStep(r)
    PROVE  TypeOK'
<1>. USE RequestsApart, Labels
     DEF tableVars, networkVars, requestVars, dropVars, historyVars
<1>0. pc' \in [Threads -> PCs]
  BY RequestMoves, GotoType DEF TypeOK
<1>1. CASE Acquire(r)
  <2>1. Pruned \in [Keys -> Ids \cup {None}]
    BY DEF Pruned, TypeOK
  <2>2. pool' \in [Keys -> Ids \cup {None}]
    BY <1>1, <2>1 DEF Acquire, TypeOK
  <2>3. got' \in [Requests -> Ids \cup {None}]
    <3>1. KeyOf[r] # NoKey => KeyOf[r] \in Keys
      BY PoolAssumption
    <3>. QED BY <1>1, <2>1, <3>1 DEF Acquire, TypeOK
  <2>4. startedIn' \in [Requests -> Nat]
    <3>1. Cardinality({k \in Identities : pc[k] = "ended"}) \in Nat
      BY PoolAssumption, FS_Subset, FS_CardinalityType
    <3>. QED BY <1>1, <3>1 DEF Acquire, TypeOK
  <2>. QED BY <1>0, <1>1, <2>2, <2>3, <2>4 DEF Acquire, TypeOK
<1>2. CASE ChoosePath(r)
  <2>1. tries' \in [Requests -> 0 .. Attempts]
    <3>1. tries[r] + 1 \in 0 .. Attempts
      BY <1>2, PoolAssumption DEF ChoosePath, Bookkeeping, TypeOK
    <3>. QED BY <1>2, <3>1 DEF ChoosePath, TypeOK
  <2>2. chosenIn' \in [Ids -> Nat]
    BY <1>2 DEF ChoosePath, TypeOK
  <2>3. guard' \in [Requests -> Guards \cup {None}]
        /\ via' \in [Requests -> Ids \cup {None}]
    BY <1>2 DEF ChoosePath, TypeOK
  <2>. QED BY <1>0, <1>2, <2>1, <2>2, <2>3 DEF ChoosePath, TypeOK
<1>3. CASE PathFails(r)
  BY <1>0, <1>3 DEF PathFails, TypeOK
<1>4. CASE OpenChannel(r)
  <2>1. Mine(r) \in Ids
    BY <1>4, MineType DEF OpenChannel, Bookkeeping
  <2>. QED BY <1>0, <1>4, <2>1 DEF OpenChannel, TypeOK
<1>5. CASE AttemptFails(r)
  BY <1>0, <1>5 DEF AttemptFails, TypeOK
<1>6. CASE OfferChannel(r)
  <2>1. Mine(r) \in Ids /\ guard[r] \in Guards
    BY <1>6, MineType DEF OfferChannel, Bookkeeping, TypeOK
  <2>2. via' \in [Requests -> Ids \cup {None}]
    BY <1>6, <2>1 DEF OfferChannel, TypeOK
  <2>3. channels' \in [Guards -> Ids \cup {None}]
    BY <1>6, <2>1 DEF OfferChannel, TypeOK
  <2>. QED BY <1>0, <1>6, <2>2, <2>3 DEF OfferChannel, TypeOK
<1>7. CASE DropChannel(r)
  <2>1. Mine(r) \in Ids
    BY <1>7, MineType DEF DropChannel, Bookkeeping
  <2>. QED BY <1>0, <1>7, <2>1 DEF DropChannel, TypeOK
<1>8. CASE Build(r)
  <2>1. Mine(r) \in Ids
    BY <1>8, MineType DEF Build, Bookkeeping
  <2>2. /\ built' \subseteq Ids
        /\ on' \in [Ids -> Ids \cup {None}]
        /\ got' \in [Requests -> Ids \cup {None}]
    BY <1>8, <2>1 DEF Build, TypeOK
  <2>. QED BY <1>0, <1>8, <2>2 DEF Build, TypeOK
<1>9. CASE Pool(r)
  <2>1. Mine(r) \in Ids
    BY <1>9, MineType DEF Pool, Bookkeeping
  <2>2. got' \in [Requests -> Ids \cup {None}]
    <3>1. KeyOf[r] \in Keys
      BY <1>9, PoolAssumption DEF Pool, Bookkeeping
    <3>. QED BY <1>9, <3>1 DEF Pool, TypeOK
  <2>3. pool' \in [Keys -> Ids \cup {None}]
    BY <1>9, <2>1 DEF Pool, TypeOK
  <2>. QED BY <1>0, <1>9, <2>2, <2>3 DEF Pool, TypeOK
<1>10. CASE DropCircuit(r)
  <2>1. Mine(r) \in Ids
    BY <1>10, MineType DEF DropCircuit, Bookkeeping
  <2>. QED BY <1>0, <1>10, <2>1 DEF DropCircuit, Destroy, TypeOK
<1>11. CASE Connect(r)
  BY <1>0, <1>11 DEF Connect, TypeOK
<1>12. CASE StreamEnds(r)
  BY <1>0, <1>12 DEF StreamEnds, TypeOK
<1>13. CASE Release(r)
  <2>1. got[r] \in Ids
    BY <1>13 DEF Release, Bookkeeping, TypeOK
  <2>. QED BY <1>0, <1>13, <2>1 DEF Release, Destroy, TypeOK
<1>. QED BY <1>1, <1>2, <1>3, <1>4, <1>5, <1>6, <1>7, <1>8, <1>9, <1>10, <1>11,
            <1>12, <1>13 DEF RequestStep

LEMMA DropType ==
    ASSUME TypeOK, NEW k \in Droppers,
           EmptyPool(k) \/ EmptyTables(k) \/ DropStep(k)
    PROVE  TypeOK'
<1>. USE Labels DEF tableVars, networkVars, requestVars, dropVars, historyVars
<1>0. "ended" \in PCs /\ "dropping" \in PCs /\ k \in Threads
  BY DEF PCs, RequestPCs, Threads
<1>1. Entries(pool) \subseteq Ids /\ Entries(channels) \subseteq Ids
  BY EntriesType DEF TypeOK
<1>2. CASE EmptyPool(k)
  <2>1. pc' \in [Threads -> PCs]
    BY <1>0, <1>2, GotoType DEF EmptyPool, TypeOK
  <2>2. oldCircuits' \in [Droppers -> SUBSET Ids]
    BY <1>1, <1>2 DEF EmptyPool, TypeOK
  <2>3. rotations' \in Nat
    BY <1>2 DEF EmptyPool, TypeOK
  <2>. QED BY <1>2, <2>1, <2>2, <2>3 DEF EmptyPool, TypeOK
<1>3. CASE EmptyTables(k)
  <2>1. pc' \in [Threads -> PCs]
    BY <1>0, <1>3, GotoType DEF EmptyTables, TypeOK
  <2>2. oldCircuits' \in [Droppers -> SUBSET Ids]
        /\ oldChannels' \in [Droppers -> SUBSET Ids]
    BY <1>1, <1>3 DEF EmptyTables, TypeOK
  <2>3. /\ closed' \in BOOLEAN
        /\ pool' \in [Keys -> Ids \cup {None}]
        /\ channels' \in [Guards -> Ids \cup {None}]
    BY <1>3 DEF EmptyTables, TypeOK
  <2>. QED BY <1>3, <2>1, <2>2, <2>3 DEF EmptyTables, TypeOK
<1>4. CASE CloseOldChannel(k)
  <2>1. oldChannels' \in [Droppers -> SUBSET Ids] /\ shut' \subseteq Ids
    BY <1>4 DEF CloseOldChannel, TypeOK
  <2>. QED BY <1>4, <2>1 DEF CloseOldChannel, TypeOK
<1>5. CASE CloseOldCircuit(k)
  <2>1. oldCircuits' \in [Droppers -> SUBSET Ids] /\ dead' \subseteq Ids
    BY <1>5 DEF CloseOldCircuit, Destroy, TypeOK
  <2>. QED BY <1>5, <2>1 DEF CloseOldCircuit, TypeOK
<1>6. CASE DropReturns(k)
  <2>1. pc' \in [Threads -> PCs]
    BY <1>0, <1>6, GotoType DEF DropReturns, TypeOK
  <2>. QED BY <1>6, <2>1 DEF DropReturns, TypeOK
<1>. QED BY <1>2, <1>3, <1>4, <1>5, <1>6 DEF DropStep

LEMMA NetworkType ==
    ASSUME TypeOK, NetworkStep
    PROVE  TypeOK'
<1>. USE DEF TypeOK, tableVars, requestVars, dropVars, historyVars
<1>1. ASSUME NEW c \in Ids, CircuitDies(c) PROVE TypeOK'
  <2>1. deaths' \in Nat
    BY <1>1 DEF CircuitDies
  <2>. QED BY <1>1, <2>1 DEF CircuitDies
<1>2. ASSUME NEW c \in Ids, Cascade(c) PROVE TypeOK'
  BY <1>2 DEF Cascade
<1>3. ASSUME NEW h \in Ids, ChannelFails(h) PROVE TypeOK'
  <2>1. deaths' \in Nat
    BY <1>3 DEF ChannelFails
  <2>. QED BY <1>3, <2>1 DEF ChannelFails
<1>. QED BY <1>1, <1>2, <1>3 DEF NetworkStep

-------------------------------------------------------------------------------
(* What the steps of one thread leave alone.                                 *)

LEMMA RequestLocal ==
    ASSUME TypeOK, NEW r \in Requests,
           RequestStep(r)
    PROVE  /\ \A q \in Requests \ {r} :
                 /\ pc'[q] = pc[q] /\ tries'[q] = tries[q]
                 /\ guard'[q] = guard[q] /\ got'[q] = got[q]
           /\ \A k \in Droppers : pc'[k] = pc[k]
           /\ UNCHANGED <<closed, oldChannels, oldCircuits>>
           /\ opened \subseteq opened' /\ shut \subseteq shut'
           /\ built \subseteq built' /\ dead \subseteq dead'
<1>1. /\ \A q \in Requests \ {r} : pc'[q] = pc[q]
      /\ \A k \in Droppers : pc'[k] = pc[k]
  BY RequestMoves, OthersStay, RequestsApart DEF TypeOK, Threads
<1>2. /\ \A q \in Requests \ {r} : /\ tries'[q] = tries[q]
                                   /\ guard'[q] = guard[q] /\ got'[q] = got[q]
      /\ UNCHANGED <<closed, oldChannels, oldCircuits>>
      /\ opened \subseteq opened' /\ shut \subseteq shut'
      /\ built \subseteq built' /\ dead \subseteq dead'
  <2>. USE DEF TypeOK, tableVars, networkVars, requestVars, dropVars
  <2>1. CASE Acquire(r) BY <2>1 DEF Acquire
  <2>2. CASE ChoosePath(r) BY <2>2 DEF ChoosePath
  <2>3. CASE PathFails(r) BY <2>3 DEF PathFails
  <2>4. CASE OpenChannel(r) BY <2>4 DEF OpenChannel
  <2>5. CASE AttemptFails(r) BY <2>5 DEF AttemptFails
  <2>6. CASE OfferChannel(r) BY <2>6 DEF OfferChannel
  <2>7. CASE DropChannel(r) BY <2>7 DEF DropChannel
  <2>8. CASE Build(r) BY <2>8 DEF Build
  <2>9. CASE Pool(r) BY <2>9 DEF Pool
  <2>10. CASE DropCircuit(r) BY <2>10 DEF DropCircuit, Destroy
  <2>11. CASE Connect(r) BY <2>11 DEF Connect
  <2>12. CASE StreamEnds(r) BY <2>12 DEF StreamEnds
  <2>13. CASE Release(r) BY <2>13 DEF Release, Destroy
  <2>. QED BY <2>1, <2>2, <2>3, <2>4, <2>5, <2>6, <2>7, <2>8, <2>9, <2>10,
              <2>11, <2>12, <2>13 DEF RequestStep
<1>. QED BY <1>1, <1>2

LEMMA DropLocal ==
    ASSUME TypeOK, NEW k \in Droppers,
           EmptyPool(k) \/ EmptyTables(k) \/ DropStep(k)
    PROVE  /\ \A q \in Requests : pc'[q] = pc[q]
           /\ \A j \in Droppers \ {k} :
                 /\ pc'[j] = pc[j] /\ oldChannels'[j] = oldChannels[j]
                 /\ oldCircuits'[j] = oldCircuits[j]
           /\ pc'[k] # "new"
           /\ UNCHANGED <<tries, guard, got, opened, built>>
           /\ shut \subseteq shut' /\ dead \subseteq dead'
<1>. USE RequestsApart
     DEF TypeOK, Goto, tableVars, networkVars, requestVars, dropVars,
         historyVars, Threads
<1>1. CASE EmptyPool(k) BY <1>1 DEF EmptyPool
<1>2. CASE EmptyTables(k) BY <1>2 DEF EmptyTables
<1>3. CASE CloseOldChannel(k) BY <1>3 DEF CloseOldChannel
<1>4. CASE CloseOldCircuit(k) BY <1>4 DEF CloseOldCircuit, Destroy
<1>5. CASE DropReturns(k) BY <1>5 DEF DropReturns
<1>. QED BY <1>1, <1>2, <1>3, <1>4, <1>5 DEF DropStep

LEMMA NetworkLocal ==
    ASSUME NetworkStep
    PROVE  /\ UNCHANGED <<tableVars, opened, built, pc, requestVars, dropVars>>
           /\ shut \subseteq shut' /\ dead \subseteq dead'
BY DEF NetworkStep, CircuitDies, Cascade, ChannelFails

-------------------------------------------------------------------------------
(* The bookkeeping of requests, and the threads that have not begun.         *)

LEMMA RequestBookkeeping ==
    ASSUME TypeOK, Bookkeeping, NEW r \in Requests,
           RequestStep(r)
    PROVE  Bookkeeping'
<1>1. ASSUME NEW q \in Requests \ {r}
      PROVE  /\ pc'[q] = pc[q] /\ tries'[q] = tries[q]
             /\ guard'[q] = guard[q] /\ got'[q] = got[q]
  BY RequestLocal
<1>2. /\ pc'[r] \in {"new", "path"} => tries'[r] < Attempts
      /\ pc'[r] \in {"open", "offer", "dropChannel", "build", "pool",
                     "dropCircuit"} => tries'[r] > 0 /\ guard'[r] # None
      /\ pc'[r] \in {"pool", "dropCircuit"} => KeyOf[r] # NoKey
      /\ pc'[r] = "pool" => got'[r] = Mine(r)'
      /\ pc'[r] \in {"connect", "using", "release"}
            => got'[r] # None
  <2>. USE RequestsApart
       DEF TypeOK, Bookkeeping, Goto, tableVars, networkVars, requestVars,
           dropVars, historyVars
  <2>1. CASE Acquire(r) BY <2>1 DEF Acquire
  <2>2. CASE ChoosePath(r)
    <3>1. tries'[r] > 0 /\ pc'[r] \in {"open", "build"}
      BY <2>2 DEF ChoosePath
    <3>2. guard'[r] # None
      BY <2>2, NoneAssumption DEF ChoosePath
    <3>. QED BY <3>1, <3>2
  <2>3. CASE PathFails(r) BY <2>3 DEF PathFails
  <2>4. CASE OpenChannel(r) BY <2>4 DEF OpenChannel
  <2>5. CASE AttemptFails(r) BY <2>5 DEF AttemptFails
  <2>6. CASE OfferChannel(r) BY <2>6 DEF OfferChannel
  <2>7. CASE DropChannel(r) BY <2>7 DEF DropChannel
  <2>8. CASE Build(r)
    <3>1. Mine(r) \in Ids
      BY <2>8, MineType DEF Build
    <3>. QED BY <2>8, <3>1, NoneAssumption DEF Build, Mine
  <2>9. CASE Pool(r)
    <3>1. got[r] # None
      BY <2>9, MineType, NoneAssumption DEF Pool
    <3>2. /\ pc'[r] \in {"connect", "dropCircuit"}
          /\ pc'[r] = "connect" => got'[r] = got[r]
      BY <2>9 DEF Pool
    <3>. QED BY <2>9, <3>1, <3>2 DEF Pool
  <2>10. CASE DropCircuit(r) BY <2>10 DEF DropCircuit
  <2>11. CASE Connect(r) BY <2>11 DEF Connect
  <2>12. CASE StreamEnds(r) BY <2>12 DEF StreamEnds
  <2>13. CASE Release(r) BY <2>13 DEF Release
  <2>. QED BY <2>1, <2>2, <2>3, <2>4, <2>5, <2>6, <2>7, <2>8, <2>9, <2>10,
              <2>11, <2>12, <2>13 DEF RequestStep
<1>. QED BY <1>1, <1>2 DEF Bookkeeping, Mine

LEMMA DropTaken ==
    ASSUME TypeOK, NothingLeft, NEW k \in Droppers,
           EmptyPool(k) \/ EmptyTables(k) \/ DropStep(k)
    PROVE  NothingLeft'
<1>. SUFFICES pc'[k] # "dropping"
                => oldChannels'[k] = {} /\ oldCircuits'[k] = {}
  BY DropLocal DEF NothingLeft
<1>0. k \in Threads
  BY DEF Threads
<1>1. CASE EmptyPool(k)
  BY <1>0, <1>1 DEF EmptyPool, Goto, TypeOK
<1>2. CASE EmptyTables(k)
  <2>1. CASE closed
    BY <1>2, <2>1 DEF EmptyTables, NothingLeft, dropVars
  <2>2. CASE ~closed
    BY <1>0, <1>2, <2>2 DEF EmptyTables, Goto, TypeOK
  <2>. QED BY <2>1, <2>2
<1>3. CASE CloseOldChannel(k)
  BY <1>3 DEF CloseOldChannel
<1>4. CASE CloseOldCircuit(k)
  BY <1>4 DEF CloseOldCircuit
<1>5. CASE DropReturns(k)
  BY <1>5 DEF DropReturns, dropVars
<1>. QED BY <1>1, <1>2, <1>3, <1>4, <1>5 DEF DropStep

-------------------------------------------------------------------------------
(* Ownership of channels.                                                    *)

LEMMA RequestChannels ==
    ASSUME TypeOK, Bookkeeping, ChannelsOwned, NEW r \in Requests,
           RequestStep(r)
    PROVE  ChannelsOwned'
<1>. SUFFICES ASSUME NEW h \in opened' \ shut'
              PROVE  \/ ~closed' /\ \E g \in Guards : channels'[g] = h
                     \/ /\ pc'[h[1]] \in {"offer", "dropChannel"}
                        /\ Mine(h[1])' = h
                     \/ \E k \in Closers : h \in oldChannels'[k]
  BY DEF ChannelsOwned
<1>0. TypeOK' /\ h \in Ids /\ h[1] \in Requests
  BY RequestType, IdRequest DEF TypeOK
<1>1. CASE OpenChannel(r) /\ h = Mine(r)
  <2>1. h[1] = r /\ tries' = tries /\ pc'[r] = "offer"
    BY <1>1, RequestsApart, OthersStay
       DEF OpenChannel, Mine, requestVars, TypeOK
  <2>. QED BY <1>1, <2>1 DEF Mine
<1>2. CASE ~(OpenChannel(r) /\ h = Mine(r))
  <2>1. h \in opened
    <3>1. CASE OpenChannel(r) BY <3>1, <1>2 DEF OpenChannel
    <3>2. CASE ~OpenChannel(r)
      BY <3>2 DEF RequestStep, Acquire, ChoosePath, PathFails, AttemptFails,
                  OfferChannel, DropChannel, Build, Pool, DropCircuit, Connect,
                  StreamEnds, Release, networkVars
    <3>. QED BY <3>1, <3>2
  <2>2. h \notin shut /\ UNCHANGED <<closed, oldChannels>>
    BY RequestLocal
  <2>3. CASE \E k \in Closers : h \in oldChannels[k]
    BY <2>2, <2>3
  <2>4. CASE ~closed /\ \E g \in Guards : channels[g] = h
    <3>1. PICK g \in Guards : channels[g] = h
      BY <2>4
    <3>2. channels'[g] = h
      <4>1. CASE OfferChannel(r)
        <5>1. h # None
          BY <1>0, NoneAssumption
        <5>2. Usable(channels, g, shut)
          BY <2>2, <3>1, <5>1 DEF Usable
        <5>. QED BY <2>4, <3>1, <4>1, <5>2 DEF OfferChannel, TypeOK
      <4>2. CASE ~OfferChannel(r)
        BY <3>1, <4>2
           DEF RequestStep, Acquire, ChoosePath, PathFails, AttemptFails,
               OpenChannel, DropChannel, Build, Pool, DropCircuit, Connect,
               StreamEnds, Release, tableVars
      <4>. QED BY <4>1, <4>2
    <3>. QED BY <2>2, <2>4, <3>2
  <2>5. CASE pc[h[1]] \in {"offer", "dropChannel"} /\ Mine(h[1]) = h
    <3>1. CASE h[1] # r
      BY <1>0, <2>5, <3>1, RequestLocal DEF Mine
    <3>2. CASE h[1] = r /\ OfferChannel(r)
      <4>1. tries' = tries /\ guard[r] \in Guards
        BY <3>2 DEF OfferChannel, Bookkeeping, TypeOK
      <4>2. CASE pc'[r] = "dropChannel"
        BY <2>5, <3>2, <4>1, <4>2 DEF Mine
      <4>3. CASE pc'[r] # "dropChannel"
        <5>1. ~closed /\ ~Usable(channels, guard[r], shut)
          BY <3>2, <4>3, RequestsApart DEF OfferChannel, Goto, TypeOK
        <5>2. channels'[guard[r]] = Mine(r)
          BY <3>2, <4>1, <5>1 DEF OfferChannel, TypeOK
        <5>. QED BY <2>2, <2>5, <3>2, <4>1, <5>1, <5>2
      <4>. QED BY <4>2, <4>3
    <3>3. CASE h[1] = r /\ DropChannel(r)
      BY <2>5, <3>3 DEF DropChannel
    <3>4. CASE h[1] = r /\ ~OfferChannel(r) /\ ~DropChannel(r)
      BY <2>5, <3>4
         DEF RequestStep, Acquire, ChoosePath, PathFails, AttemptFails,
             OpenChannel, Build, Pool, DropCircuit, Connect, StreamEnds,
             Release
    <3>. QED BY <3>1, <3>2, <3>3, <3>4
  <2>. QED BY <2>1, <2>2, <2>3, <2>4, <2>5 DEF ChannelsOwned
<1>. QED BY <1>1, <1>2

LEMMA DropChannels ==
    ASSUME TypeOK, NothingLeft, ChannelsOwned,
           \/ \E k \in Identities : EmptyPool(k)
           \/ \E k \in Closers : EmptyTables(k)
           \/ \E k \in Droppers : DropStep(k)
    PROVE  ChannelsOwned'
<1>. SUFFICES ASSUME NEW h \in opened' \ shut'
              PROVE  \/ ~closed' /\ \E g \in Guards : channels'[g] = h
                     \/ /\ pc'[h[1]] \in {"offer", "dropChannel"}
                        /\ Mine(h[1])' = h
                     \/ \E k \in Closers : h \in oldChannels'[k]
  BY DEF ChannelsOwned
<1>1. PICK k \in Droppers : EmptyPool(k) \/ EmptyTables(k) \/ DropStep(k)
  BY DEF Droppers
<1>2. /\ \A q \in Requests : pc'[q] = pc[q]
      /\ UNCHANGED <<tries, opened>> /\ shut \subseteq shut'
  BY <1>1, DropLocal
<1>3. h \in opened \ shut /\ h \in Ids /\ h[1] \in Requests
  BY <1>2, IdRequest DEF TypeOK
<1>4. CASE pc[h[1]] \in {"offer", "dropChannel"} /\ Mine(h[1]) = h
  BY <1>2, <1>3, <1>4 DEF Mine
<1>5. CASE ~closed /\ \E g \in Guards : channels[g] = h
  <2>1. CASE \E j \in Closers : EmptyTables(j)
    <3>1. PICK j \in Closers : EmptyTables(j)
      BY <2>1
    <3>2. h \in Entries(channels)
      <4>1. h # None
        BY <1>3, NoneAssumption
      <4>. QED BY <1>5, <4>1 DEF Entries, Range, TypeOK
    <3>3. h \in oldChannels'[j]
      BY <1>5, <3>1, <3>2 DEF EmptyTables, Droppers, TypeOK
    <3>. QED BY <3>3
  <2>2. CASE ~\E j \in Closers : EmptyTables(j)
    <3>1. UNCHANGED <<closed, channels>>
      BY <2>2 DEF EmptyPool, DropStep, CloseOldChannel, CloseOldCircuit,
                  DropReturns, tableVars
    <3>. QED BY <1>5, <3>1
  <2>. QED BY <2>1, <2>2
<1>6. CASE \E j \in Closers : h \in oldChannels[j]
  <2>1. PICK j \in Closers : h \in oldChannels[j]
    BY <1>6
  <2>2. j \in Droppers /\ pc[j] # "new"
    BY <2>1 DEF NothingLeft, Droppers
  <2>3. CASE j # k
    BY <1>1, <2>1, <2>2, <2>3, DropLocal
  <2>4. CASE j = k /\ CloseOldChannel(k)
    <3>1. PICK i \in oldChannels[k] :
             /\ oldChannels' = [oldChannels EXCEPT ![k] = @ \ {i}]
             /\ shut' = shut \cup {i}
      BY <2>4 DEF CloseOldChannel
    <3>2. h # i
      BY <3>1
    <3>. QED BY <2>1, <2>4, <3>1, <3>2 DEF TypeOK
  <2>5. CASE j = k /\ ~CloseOldChannel(k)
    <3>1. UNCHANGED oldChannels
      BY <1>1, <2>2, <2>5 DEF EmptyPool, EmptyTables, DropStep, CloseOldCircuit,
                  DropReturns, dropVars
    <3>. QED BY <2>1, <3>1
  <2>. QED BY <2>3, <2>4, <2>5
<1>. QED BY <1>3, <1>4, <1>5, <1>6 DEF ChannelsOwned

LEMMA NetworkChannels ==
    ASSUME ChannelsOwned, NetworkStep
    PROVE  ChannelsOwned'
BY NetworkLocal DEF ChannelsOwned, Mine, tableVars, requestVars, dropVars

-------------------------------------------------------------------------------
(* Ownership of circuits.                                                    *)

Tended(c) ==
    /\ Mine(c[1]) = c
    /\ \/ pc[c[1]] \in {"pool", "dropCircuit"}
       \/ /\ KeyOf[c[1]] = NoKey /\ got[c[1]] = c
          /\ pc[c[1]] \in {"connect", "using", "release"}

LEMMA OwnedMeans ==
    CircuitsOwned <=>
        \A c \in built \ dead :
            \/ ~closed /\ \E k \in Keys : pool[k] = c
            \/ Tended(c)
            \/ \E k \in Droppers : c \in oldCircuits[k]
BY DEF CircuitsOwned, Tended

(* A circuit that a request tends is still tended, or it is in the pool, or  *)
(* it is destroyed.                                                          *)
LEMMA TendedOn ==
    ASSUME TypeOK, Bookkeeping, NEW r \in Requests,
           RequestStep(r),
           NEW c \in Ids, Tended(c), c[1] = r, c \notin dead'
    PROVE  \/ Tended(c)'
           \/ ~closed' /\ \E k \in Keys : pool'[k] = c
<1>. USE RequestsApart
     DEF tableVars, networkVars, requestVars, dropVars, historyVars
<1>1. CASE Pool(r)
  <2>1. c = Mine(r) /\ KeyOf[r] \in Keys /\ tries' = tries /\ got[r] = Mine(r)
    BY <1>1, PoolAssumption DEF Tended, Pool, Bookkeeping
  <2>2. CASE closed \/ Usable(pool, KeyOf[r], dead)
    <3>1. Goto(r, "dropCircuit")
      BY <1>1, <2>2 DEF Pool
    <3>2. pc'[r] = "dropCircuit"
      BY <3>1 DEF Goto, TypeOK
    <3>. QED BY <2>1, <3>2 DEF Tended, Mine
  <2>3. CASE ~closed /\ ~Usable(pool, KeyOf[r], dead)
    <3>1. closed' = closed /\ pool' = [pool EXCEPT ![KeyOf[r]] = Mine(r)]
      BY <1>1, <2>3 DEF Pool
    <3>2. pool'[KeyOf[r]] = c
      BY <2>1, <3>1 DEF TypeOK
    <3>. QED BY <2>1, <2>3, <3>1, <3>2
  <2>. QED BY <2>2, <2>3
<1>2. CASE DropCircuit(r)
  BY <1>2 DEF DropCircuit, Destroy, Tended
<1>3. CASE Connect(r)
  BY <1>3 DEF Connect, Goto, Tended, Mine, TypeOK
<1>4. CASE StreamEnds(r)
  BY <1>4 DEF StreamEnds, Goto, Tended, Mine, TypeOK
<1>5. CASE Release(r)
  BY <1>5 DEF Release, Destroy, Tended
<1>8. pc[r] \in {"pool", "dropCircuit", "connect", "using", "release"}
  BY DEF Tended
<1>. QED BY <1>1, <1>2, <1>3, <1>4, <1>5, <1>8
         DEF RequestStep, Acquire, ChoosePath, PathFails, OpenChannel,
             AttemptFails, OfferChannel, DropChannel, Build

(* A live circuit stays in the pool when a request looks at it.              *)
LEMMA PooledOn ==
    ASSUME TypeOK, NEW r \in Requests,
           RequestStep(r),
           NEW c \in Ids \ dead, NEW k \in Keys, pool[k] = c
    PROVE  pool'[k] = c
<1>1. CASE Acquire(r)
  <2>1. Pruned[k] = c
    BY DEF Pruned
  <2>2. pool' \in {pool, Pruned}
    BY <1>1 DEF Acquire
  <2>. QED BY <2>1, <2>2
<1>2. CASE Pool(r)
  <2>1. c # None
    BY NoneAssumption
  <2>2. k = KeyOf[r] => Usable(pool, KeyOf[r], dead)
    BY <2>1 DEF Usable
  <2>. QED BY <1>2, <2>2 DEF Pool, TypeOK
<1>. QED BY <1>1, <1>2
         DEF RequestStep, ChoosePath, PathFails, OpenChannel, AttemptFails,
             OfferChannel, DropChannel, Build, DropCircuit, Connect, StreamEnds,
             Release, tableVars

LEMMA RequestCircuits ==
    ASSUME TypeOK, Bookkeeping, CircuitsOwned, NEW r \in Requests,
           RequestStep(r)
    PROVE  CircuitsOwned'
<1>. SUFFICES ASSUME NEW c \in built' \ dead'
              PROVE  \/ ~closed' /\ \E k \in Keys : pool'[k] = c
                     \/ Tended(c)'
                     \/ \E k \in Droppers : c \in oldCircuits'[k]
  BY DEF CircuitsOwned, Tended
<1>0. TypeOK' /\ c \in Ids /\ c[1] \in Requests
  BY RequestType, IdRequest DEF TypeOK
<1>1. CASE Build(r) /\ c = Mine(r)
  <2>1. c[1] = r /\ Mine(r)' = c /\ got'[r] = c
    BY <1>1 DEF Build, Mine, TypeOK
  <2>2. pc'[r] = IF KeyOf[r] = NoKey THEN "connect" ELSE "pool"
    BY <1>1, RequestsApart DEF Build, Goto, TypeOK
  <2>. QED BY <2>1, <2>2 DEF Tended
<1>2. CASE ~(Build(r) /\ c = Mine(r))
  <2>1. c \in built
    <3>1. CASE Build(r) BY <3>1, <1>2 DEF Build
    <3>2. CASE ~Build(r)
      BY <3>2 DEF RequestStep, Acquire, ChoosePath, PathFails, OpenChannel,
                  AttemptFails, OfferChannel, DropChannel, Pool, DropCircuit,
                  Connect, StreamEnds, Release,
                  networkVars
    <3>. QED BY <3>1, <3>2
  <2>2. c \notin dead /\ UNCHANGED <<closed, oldCircuits>>
    BY RequestLocal
  <2>3. CASE \E k \in Droppers : c \in oldCircuits[k]
    BY <2>2, <2>3
  <2>4. CASE ~closed /\ \E k \in Keys : pool[k] = c
    BY <1>0, <2>2, <2>4, PooledOn
  <2>5. CASE Tended(c) /\ c[1] = r
    BY <1>0, <2>5, TendedOn
  <2>6. CASE Tended(c) /\ c[1] # r
    BY <1>0, <2>6, RequestLocal DEF Tended, Mine
  <2>. QED BY <2>1, <2>2, <2>3, <2>4, <2>5, <2>6, OwnedMeans
<1>. QED BY <1>1, <1>2

LEMMA DropCircuits ==
    ASSUME TypeOK, NothingLeft, CircuitsOwned,
           \/ \E k \in Identities : EmptyPool(k)
           \/ \E k \in Closers : EmptyTables(k)
           \/ \E k \in Droppers : DropStep(k)
    PROVE  CircuitsOwned'
<1>. SUFFICES ASSUME NEW c \in built' \ dead'
              PROVE  \/ ~closed' /\ \E k \in Keys : pool'[k] = c
                     \/ Tended(c)'
                     \/ \E k \in Droppers : c \in oldCircuits'[k]
  BY DEF CircuitsOwned, Tended
<1>1. PICK k \in Droppers : EmptyPool(k) \/ EmptyTables(k) \/ DropStep(k)
  BY DEF Droppers
<1>2. /\ \A q \in Requests : pc'[q] = pc[q]
      /\ UNCHANGED <<tries, got, built>> /\ dead \subseteq dead'
  BY <1>1, DropLocal
<1>3. c \in built \ dead /\ c \in Ids /\ c[1] \in Requests
  BY <1>2, IdRequest DEF TypeOK
<1>4. CASE Tended(c)
  BY <1>2, <1>3, <1>4 DEF Tended, Mine
<1>5. CASE ~closed /\ \E i \in Keys : pool[i] = c
  <2>1. c \in Entries(pool)
    <3>1. c # None
      BY <1>3, NoneAssumption
    <3>. QED BY <1>5, <3>1 DEF Entries, Range, TypeOK
  <2>2. CASE EmptyPool(k)
    BY <2>1, <2>2 DEF EmptyPool, TypeOK
  <2>3. CASE EmptyTables(k)
    BY <1>5, <2>1, <2>3 DEF EmptyTables, TypeOK
  <2>4. CASE DropStep(k)
    <3>1. UNCHANGED <<closed, pool>>
      BY <2>4 DEF DropStep, CloseOldChannel, CloseOldCircuit, DropReturns,
                  tableVars
    <3>. QED BY <1>5, <3>1
  <2>. QED BY <1>1, <2>2, <2>3, <2>4
<1>6. CASE \E j \in Droppers : c \in oldCircuits[j]
  <2>1. PICK j \in Droppers : c \in oldCircuits[j]
    BY <1>6
  <2>2. pc[j] # "new"
    BY <2>1 DEF NothingLeft
  <2>3. CASE j # k
    BY <1>1, <2>1, <2>3, DropLocal
  <2>4. CASE j = k /\ CloseOldCircuit(k)
    <3>1. PICK i \in oldCircuits[k] :
             /\ oldCircuits' = [oldCircuits EXCEPT ![k] = @ \ {i}]
             /\ dead' = dead \cup {i}
      BY <2>4 DEF CloseOldCircuit, Destroy
    <3>2. c # i
      BY <3>1
    <3>. QED BY <2>1, <2>4, <3>1, <3>2 DEF TypeOK
  <2>5. CASE j = k /\ ~CloseOldCircuit(k)
    <3>1. UNCHANGED oldCircuits
      BY <1>1, <2>2, <2>5 DEF EmptyPool, EmptyTables, DropStep, CloseOldChannel,
                  DropReturns, dropVars
    <3>. QED BY <2>1, <3>1
  <2>. QED BY <2>3, <2>4, <2>5
<1>. QED BY <1>3, <1>4, <1>5, <1>6, OwnedMeans

LEMMA NetworkCircuits ==
    ASSUME CircuitsOwned, NetworkStep
    PROVE  CircuitsOwned'
BY NetworkLocal DEF CircuitsOwned, Mine, tableVars, requestVars, dropVars

-------------------------------------------------------------------------------
(* The theorems.                                                             *)

LEMMA InitIInv == Init => IInv
<1>1. Init => Bookkeeping
  BY PoolAssumption DEF Init, Bookkeeping, Threads
<1>2. Init => NothingLeft
  BY DEF Init, NothingLeft
<1>3. Init => ChannelsOwned /\ CircuitsOwned
  BY DEF Init, ChannelsOwned, CircuitsOwned
<1>. QED BY <1>1, <1>2, <1>3, InitType DEF IInv

(* Every step keeps the inductive invariant.                                 *)
LEMMA NextIInv == IInv /\ [Next]_vars => IInv'
<1>. SUFFICES ASSUME IInv, [Next]_vars PROVE IInv'
  OBVIOUS
<1>. USE DEF IInv
<1>1. ASSUME NEW r \in Requests, RequestStep(r)
      PROVE  IInv'
  <2>1. NothingLeft'
    BY <1>1, RequestLocal DEF NothingLeft
  <2>. QED BY <1>1, <2>1, RequestType, RequestBookkeeping, RequestChannels,
              RequestCircuits
<1>2. CASE \/ \E k \in Identities : EmptyPool(k)
           \/ \E k \in Closers : EmptyTables(k)
           \/ \E k \in Droppers : DropStep(k)
  <2>1. PICK k \in Droppers : EmptyPool(k) \/ EmptyTables(k) \/ DropStep(k)
    BY <1>2 DEF Droppers
  <2>2. TypeOK' /\ NothingLeft'
    BY <2>1, DropType, DropTaken
  <2>3. Bookkeeping'
    BY <2>1, DropLocal DEF Bookkeeping, Mine
  <2>. QED BY <1>2, <2>2, <2>3, DropChannels, DropCircuits
<1>3. CASE NetworkStep
  <2>1. Bookkeeping' /\ NothingLeft'
    BY <1>3, NetworkLocal
       DEF Bookkeeping, NothingLeft, Mine, requestVars, dropVars
  <2>. QED BY <1>3, <2>1, NetworkType, NetworkChannels, NetworkCircuits
<1>4. CASE UNCHANGED vars
  BY <1>4 DEF vars, tableVars, networkVars, requestVars, dropVars, historyVars,
              TypeOK, Bookkeeping, NothingLeft, ChannelsOwned,
              CircuitsOwned, Mine
<1>. QED BY <1>1, <1>2, <1>3, <1>4 DEF Next

(* The inductive invariant holds in every reachable state.                   *)
THEOREM PoolInvariant == Spec => []IInv
BY InitIInv, NextIInv, PTL DEF Spec

(* TypeOK for all constants.                                                 *)
THEOREM PoolTypeCorrect == Spec => []TypeOK
<1>1. IInv => TypeOK
  BY DEF IInv
<1>. QED BY <1>1, PoolInvariant, PTL

(* Whatever threads race for a guard, and whenever the client is closed,     *)
(* every open channel has somebody who will close it (_ensure_channel,       *)
(* close).                                                                   *)
THEOREM NoChannelOrphaned == Spec => []ChannelsOwned
<1>1. IInv => ChannelsOwned
  BY DEF IInv
<1>. QED BY <1>1, PoolInvariant, PTL

(* The same for every live circuit: in the pool of a client that is not      *)
(* closed, with its request, or with the thread that drops it                *)
(* (_acquire_circuit, new_identity, close).                                  *)
THEOREM NoCircuitOrphaned == Spec => []CircuitsOwned
<1>1. IInv => CircuitsOwned
  BY DEF IInv
<1>. QED BY <1>1, PoolInvariant, PTL

(* A closed client, once its threads are done, has closed every channel it   *)
(* ever opened and every circuit it ever built: what is owned at that moment *)
(* has no owner left.                                                        *)
THEOREM NothingOutlivesTheClient == Spec => []ClosedClientIsEmpty
<1>1. IInv => ClosedClientIsEmpty
  <2>. SUFFICES ASSUME IInv, closed,
                       \A t \in Threads : pc[t] \in {"new", "ended", "failed"}
                PROVE  opened \subseteq shut /\ built \subseteq dead
    BY DEF ClosedClientIsEmpty
  <2>1. \A k \in Droppers : oldChannels[k] = {} /\ oldCircuits[k] = {}
    BY DEF IInv, NothingLeft, Threads
  <2>2. opened \subseteq shut
    <3>. SUFFICES ASSUME NEW h \in opened \ shut PROVE FALSE
      OBVIOUS
    <3>1. h[1] \in Threads
      BY IdRequest DEF IInv, TypeOK, Threads
    <3>. QED BY <2>1, <3>1 DEF IInv, ChannelsOwned, Droppers
  <2>3. built \subseteq dead
    <3>. SUFFICES ASSUME NEW c \in built \ dead PROVE FALSE
      OBVIOUS
    <3>1. c[1] \in Threads
      BY IdRequest DEF IInv, TypeOK, Threads
    <3>. QED BY <2>1, <3>1 DEF IInv, CircuitsOwned
  <2>. QED BY <2>2, <2>3
<1>. QED BY <1>1, PoolInvariant, PTL

-------------------------------------------------------------------------------
(***************************************************************************)
(* Isolation.  Every circuit was built for one key, and goes nowhere else; *)
(* a live circuit of a key that is in use is the one in the pool, or one   *)
(* that new_identity or close() has taken out of it.                       *)
(***************************************************************************)
BuiltFor(c) == KeyOf[c[1]]

PoolByKey == \A k \in Keys : pool[k] # None => BuiltFor(pool[k]) = k

GivenByKey ==
    \A r \in Requests :
        got[r] # None =>
            /\ BuiltFor(got[r]) = KeyOf[r]
            /\ KeyOf[r] = NoKey => got[r][1] = r

(* Shares(r): r has been given the circuit of its key.                       *)
Shares(r) ==
    /\ pc[r] \in {"dropCircuit", "connect", "using"}
    /\ KeyOf[r] # NoKey
    /\ got[r] # None /\ got[r] \notin dead

SharedIsPooled ==
    \A r \in Requests :
        Shares(r) => pool[KeyOf[r]] = got[r] \/ Retired(got[r])

IsolationInv == PoolByKey /\ GivenByKey /\ SharedIsPooled

LEMMA MineIsMine == \A r \in Requests : Mine(r)[1] = r
BY DEF Mine

LEMMA RequestIsolated ==
    ASSUME TypeOK, Bookkeeping, IsolationInv, NEW r \in Requests,
           RequestStep(r)
    PROVE  IsolationInv'
<1>0. TypeOK' /\ UNCHANGED oldCircuits /\ dead \subseteq dead'
      /\ \A q \in Requests \ {r} : pc'[q] = pc[q] /\ got'[q] = got[q]
  BY RequestType, RequestLocal
<1>1. CASE Acquire(r)
  <2>1. pool' \in {pool, Pruned}
    BY <1>1 DEF Acquire
  <2>2. \A k \in Keys : Pruned[k] # None => Pruned[k] = pool[k]
    BY DEF Pruned
  <2>3. PoolByKey'
    BY <2>1, <2>2 DEF IsolationInv, PoolByKey, BuiltFor
  <2>4. CASE got' = got /\ pc'[r] \in {"failed", "path"}
    <3>1. GivenByKey'
      BY <2>4 DEF IsolationInv, GivenByKey, BuiltFor
    <3>2. ASSUME NEW q \in Requests, Shares(q)'
          PROVE  pool'[KeyOf[q]] = got'[q] \/ Retired(got[q])'
      <4>1. Shares(q)
        BY <1>0, <2>4, <3>2 DEF Shares
      <4>2. KeyOf[q] \in Keys /\ got[q] \in Ids \ dead
        BY <4>1, PoolAssumption DEF Shares, TypeOK
      <4>3. pool[KeyOf[q]] = got[q] => pool'[KeyOf[q]] = got[q]
        BY <1>1, <4>2, PooledOn DEF RequestStep
      <4>. QED BY <1>0, <2>4, <4>1, <4>3
               DEF IsolationInv, SharedIsPooled, Retired
    <3>. QED BY <2>3, <3>1, <3>2 DEF IsolationInv, SharedIsPooled
  <2>5. CASE /\ KeyOf[r] # NoKey /\ pool' = Pruned
             /\ got' = [got EXCEPT ![r] = Pruned[KeyOf[r]]]
    <3>1. KeyOf[r] \in Keys /\ got'[r] = pool'[KeyOf[r]]
      BY <2>5, PoolAssumption DEF TypeOK
    <3>2. GivenByKey'
      <4>1. got'[r] # None => BuiltFor(got'[r]) = KeyOf[r]
        BY <3>1, <2>3 DEF PoolByKey, BuiltFor
      <4>. QED BY <1>0, <2>5, <4>1 DEF IsolationInv, GivenByKey, BuiltFor
    <3>3. ASSUME NEW q \in Requests \ {r}, Shares(q)'
          PROVE  pool'[KeyOf[q]] = got'[q] \/ Retired(got[q])'
      <4>1. Shares(q)
        BY <1>0, <3>3 DEF Shares
      <4>2. KeyOf[q] \in Keys /\ got[q] \in Ids \ dead
        BY <4>1, PoolAssumption DEF Shares, TypeOK
      <4>3. pool[KeyOf[q]] = got[q] => pool'[KeyOf[q]] = got[q]
        BY <1>1, <4>2, PooledOn DEF RequestStep
      <4>. QED BY <1>0, <4>1, <4>3 DEF IsolationInv, SharedIsPooled, Retired
    <3>. QED BY <2>3, <3>1, <3>2, <3>3 DEF IsolationInv, SharedIsPooled
  <2>6. \/ got' = got /\ pc'[r] \in {"failed", "path"}
        \/ /\ KeyOf[r] # NoKey /\ pool' = Pruned
           /\ got' = [got EXCEPT ![r] = Pruned[KeyOf[r]]]
    BY <1>1, RequestsApart DEF Acquire, Goto, TypeOK
  <2>. QED BY <2>4, <2>5, <2>6
<1>2. CASE Pool(r)
  <2>1. /\ Mine(r) \in Ids /\ Mine(r)[1] = r /\ got[r] = Mine(r)
        /\ KeyOf[r] \in Keys /\ KeyOf[r] # NoKey
    BY <1>2, MineType, MineIsMine, PoolAssumption DEF Pool, Bookkeeping
  <2>2. \/ pool' = pool /\ got' = [got EXCEPT ![r] = None]
        \/ pool' = pool /\ got' = [got EXCEPT ![r] = pool[KeyOf[r]]]
        \/ pool' = [pool EXCEPT ![KeyOf[r]] = Mine(r)] /\ got' = got
    BY <1>2 DEF Pool
  <2>3. got'[r] # None => got'[r] = pool'[KeyOf[r]]
    BY <2>1, <2>2 DEF TypeOK
  <2>4. PoolByKey'
    BY <2>1, <2>2 DEF IsolationInv, PoolByKey, BuiltFor, TypeOK
  <2>5. GivenByKey'
    <3>1. got'[r] # None => BuiltFor(got'[r]) = KeyOf[r]
      BY <2>1, <2>3, <2>4 DEF PoolByKey, BuiltFor
    <3>. QED BY <1>0, <2>1, <3>1 DEF IsolationInv, GivenByKey, BuiltFor
  <2>6. ASSUME NEW q \in Requests \ {r}, Shares(q)'
        PROVE  pool'[KeyOf[q]] = got'[q] \/ Retired(got[q])'
    <3>1. Shares(q)
      BY <1>0, <2>6 DEF Shares
    <3>2. KeyOf[q] \in Keys /\ got[q] \in Ids \ dead
      BY <3>1, PoolAssumption DEF Shares, TypeOK
    <3>3. pool[KeyOf[q]] = got[q] => pool'[KeyOf[q]] = got[q]
      BY <1>2, <3>2, PooledOn DEF RequestStep
    <3>. QED BY <1>0, <3>1, <3>3 DEF IsolationInv, SharedIsPooled, Retired
  <2>7. Shares(r)' => pool'[KeyOf[r]] = got'[r]
    BY <2>3 DEF Shares
  <2>. QED BY <2>4, <2>5, <2>6, <2>7 DEF IsolationInv, SharedIsPooled
<1>3. CASE ~Acquire(r) /\ ~Pool(r)
  <2>1. pool' = pool
    BY <1>3 DEF RequestStep, ChoosePath, PathFails, OpenChannel, AttemptFails,
                OfferChannel, DropChannel, Build, DropCircuit, Connect,
                StreamEnds, Release, tableVars
  <2>2. CASE Build(r)
    <3>1. got' = [got EXCEPT ![r] = Mine(r)]
          /\ (KeyOf[r] # NoKey => pc'[r] = "pool")
      BY <2>2, RequestsApart DEF Build, Goto, TypeOK
    <3>2. GivenByKey'
      <4>1. got'[r] # None => BuiltFor(got'[r]) = KeyOf[r] /\ got'[r][1] = r
        BY <3>1, MineIsMine DEF BuiltFor, TypeOK
      <4>. QED BY <1>0, <4>1 DEF IsolationInv, GivenByKey, BuiltFor
    <3>3. \A q \in Requests : Shares(q)' => Shares(q) /\ got'[q] = got[q]
      BY <1>0, <3>1 DEF Shares
    <3>. QED BY <1>0, <2>1, <3>2, <3>3
             DEF IsolationInv, PoolByKey, SharedIsPooled, BuiltFor, Retired
  <2>3. CASE ~Build(r)
    <3>1. got' = got
      BY <1>3, <2>3
         DEF RequestStep, ChoosePath, PathFails, OpenChannel, AttemptFails,
             OfferChannel, DropChannel, DropCircuit, Connect, StreamEnds,
             Release, requestVars
    <3>2. pc'[r] \in {"dropCircuit", "connect", "using"}
             => pc[r] \in {"dropCircuit", "connect", "using"}
      BY <1>3, <2>3, RequestsApart
         DEF RequestStep, ChoosePath, PathFails, OpenChannel, AttemptFails,
             OfferChannel, DropChannel, DropCircuit, Connect, StreamEnds,
             Release, Goto, TypeOK
    <3>3. \A q \in Requests : Shares(q)' => Shares(q)
      BY <1>0, <3>1, <3>2 DEF Shares
    <3>. QED BY <1>0, <2>1, <3>1, <3>3
             DEF IsolationInv, PoolByKey, GivenByKey, SharedIsPooled, BuiltFor,
                 Retired
  <2>. QED BY <2>2, <2>3
<1>. QED BY <1>1, <1>2, <1>3

LEMMA DropIsolated ==
    ASSUME TypeOK, NothingLeft, IsolationInv, NEW k \in Droppers,
           EmptyPool(k) \/ EmptyTables(k) \/ DropStep(k)
    PROVE  IsolationInv'
<1>1. /\ \A q \in Requests : pc'[q] = pc[q]
      /\ UNCHANGED got /\ dead \subseteq dead'
  BY DropLocal
<1>2. \A q \in Requests : Shares(q)' => Shares(q)
  BY <1>1 DEF Shares
<1>3. GivenByKey'
  BY <1>1 DEF IsolationInv, GivenByKey, BuiltFor
<1>4. CASE EmptyPool(k) \/ (EmptyTables(k) /\ ~closed)
  <2>1. /\ pool' = [i \in Keys |-> None]
        /\ oldCircuits' = [oldCircuits EXCEPT ![k] = Entries(pool)]
    BY <1>4 DEF EmptyPool, EmptyTables
  <2>2. oldCircuits[k] = {}
    BY <1>4 DEF EmptyPool, EmptyTables, NothingLeft
  <2>3. ASSUME NEW q \in Requests, Shares(q)' PROVE Retired(got[q])'
    <3>1. Shares(q) /\ KeyOf[q] \in Keys
      BY <1>2, <2>3, PoolAssumption DEF Shares
    <3>2. CASE pool[KeyOf[q]] = got[q]
      <4>1. got[q] \in Entries(pool)
        BY <3>1, <3>2 DEF Entries, Range, Shares, TypeOK
      <4>. QED BY <1>1, <2>1, <4>1 DEF Retired, TypeOK
    <3>3. CASE Retired(got[q])
      <4>1. PICK j \in Droppers : got[q] \in oldCircuits[j]
        BY <3>3 DEF Retired
      <4>2. j # k
        BY <2>2, <4>1
      <4>. QED BY <1>1, <2>1, <4>1, <4>2 DEF Retired, TypeOK
    <3>. QED BY <3>1, <3>2, <3>3 DEF IsolationInv, SharedIsPooled
  <2>4. PoolByKey'
    BY <2>1 DEF PoolByKey
  <2>. QED BY <1>3, <2>3, <2>4 DEF IsolationInv, SharedIsPooled
<1>5. CASE CloseOldCircuit(k)
  <2>1. PICK i \in oldCircuits[k] :
           /\ oldCircuits' = [oldCircuits EXCEPT ![k] = @ \ {i}]
           /\ dead' = dead \cup {i} /\ pool' = pool
    BY <1>5 DEF CloseOldCircuit, Destroy, tableVars
  <2>2. ASSUME NEW q \in Requests, Shares(q)', Retired(got[q])
        PROVE  Retired(got[q])'
    <3>1. got[q] # i
      BY <1>1, <2>1, <2>2 DEF Shares
    <3>. QED BY <1>1, <2>1, <2>2, <3>1 DEF Retired, TypeOK
  <2>. QED BY <1>1, <1>2, <1>3, <2>1, <2>2
           DEF IsolationInv, PoolByKey, SharedIsPooled, BuiltFor
<1>6. CASE (EmptyTables(k) /\ closed) \/ CloseOldChannel(k) \/ DropReturns(k)
  <2>1. pool' = pool /\ oldCircuits' = oldCircuits
    BY <1>6 DEF EmptyTables, CloseOldChannel, DropReturns, tableVars, dropVars
  <2>. QED BY <1>1, <1>2, <1>3, <2>1
           DEF IsolationInv, PoolByKey, SharedIsPooled, BuiltFor, Retired
<1>. QED BY <1>4, <1>5, <1>6 DEF DropStep

LEMMA NextIsolation == IInv /\ IsolationInv /\ [Next]_vars => IsolationInv'
<1>. SUFFICES ASSUME IInv, IsolationInv, [Next]_vars PROVE IsolationInv'
  OBVIOUS
<1>1. ASSUME NEW r \in Requests, RequestStep(r) PROVE IsolationInv'
  BY <1>1, RequestIsolated DEF IInv
<1>2. ASSUME NEW k \in Droppers,
             EmptyPool(k) \/ EmptyTables(k) \/ DropStep(k)
      PROVE  IsolationInv'
  BY <1>2, DropIsolated DEF IInv
<1>3. CASE NetworkStep \/ UNCHANGED vars
  <2>1. UNCHANGED <<pool, pc, got, oldCircuits>> /\ dead \subseteq dead'
    BY <1>3, NetworkLocal DEF vars, tableVars, networkVars, requestVars, dropVars
  <2>. QED BY <2>1 DEF IsolationInv, PoolByKey, GivenByKey, SharedIsPooled,
                       BuiltFor, Shares, Retired
<1>. QED BY <1>1, <1>2, <1>3 DEF Next, Droppers

(* Requests of different keys never share a circuit, one without a key       *)
(* shares with nobody, and requests of one key share theirs unless           *)
(* new_identity or close() has taken it out of the pool (_acquire_circuit).  *)
THEOREM CircuitsAreIsolated == Spec => []Isolation
<1>1. Init => IsolationInv
  BY DEF Init, IsolationInv, PoolByKey, GivenByKey, SharedIsPooled, Shares
<1>2. IInv /\ IsolationInv => Isolation
  <2>. SUFFICES ASSUME IInv, IsolationInv, NEW r \in Requests,
                       NEW q \in Requests, r # q, Holds(r), Holds(q)
                PROVE  /\ got[r] = got[q]
                            => KeyOf[r] = KeyOf[q] /\ KeyOf[r] # NoKey
                       /\ KeyOf[r] = KeyOf[q] /\ KeyOf[r] # NoKey
                            => \/ got[r] = got[q]
                               \/ Retired(got[r]) \/ Retired(got[q])
    BY DEF Isolation
  <2>1. got[r] # None /\ got[q] # None
    BY DEF IInv, Bookkeeping, Holds
  <2>2. got[r] = got[q] => KeyOf[r] = KeyOf[q] /\ KeyOf[r] # NoKey
    BY <2>1 DEF IsolationInv, GivenByKey
  <2>3. KeyOf[r] # NoKey => Shares(r)
    BY <2>1 DEF Shares, Holds
  <2>4. KeyOf[q] # NoKey => Shares(q)
    BY <2>1 DEF Shares, Holds
  <2>. QED BY <2>2, <2>3, <2>4 DEF IsolationInv, SharedIsPooled
<1>. QED BY <1>1, <1>2, NextIsolation, PoolInvariant, PTL DEF Spec

===============================================================================
