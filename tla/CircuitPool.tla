----------------------------- MODULE CircuitPool -----------------------------
(***************************************************************************)
(* The pool of circuits and the table of guard channels of a TorClient     *)
(* (src/torquests/_client/torclient.py), as the threads that open streams, *)
(* rotate the identity and close the client race for them.  Every block    *)
(* under TorClient._lock is one step; channels are opened and circuits     *)
(* built between the blocks.  The client has no directory tunnel, and what *)
(* happens inside a circuit is CircuitLife's matter.                       *)
(***************************************************************************)
EXTENDS FiniteSets, Functions, Naturals

CONSTANTS
    Requests,       \* threads in connect_stream, one request each
    Identities,     \* threads that call new_identity()
    Closers,        \* threads that call close()
    Keys,           \* the isolation keys of the pool
    NoKey,          \* isolation_key None: "request" isolation
    KeyOf,          \* KeyOf[r]: the isolation key of request r
    Guards,         \* the guards a path may start with
    None,           \* no entry in a table
    Attempts,       \* circuit_build_attempts
    MaxDeaths       \* bound: circuits and channels that end on their own

ASSUME PoolAssumption ==
    /\ Requests \cap Identities = {} /\ Requests \cap Closers = {}
    /\ Identities \cap Closers = {}
    /\ IsFiniteSet(Identities)
    /\ NoKey \notin Keys
    /\ KeyOf \in [Requests -> Keys \cup {NoKey}]
    /\ Attempts \in Nat \ {0}
    /\ MaxDeaths \in Nat

(* A channel and a circuit are named after the attempt they are made in.     *)
Ids == Requests \X (1 .. Attempts)

ASSUME NoneAssumption == None \notin Ids /\ None \notin Guards

Droppers == Identities \cup Closers
Threads  == Requests \cup Droppers

VARIABLES
    closed,         \* TorClient._closed
    pool,           \* TorClient._circuits
    channels,       \* TorClient._channels
    opened, shut,   \* channels that were opened, and those that are closed
    built, dead,    \* circuits that were built, and those that are destroyed
    on,             \* on[c]: the channel of circuit c
    pc,             \* pc[t]: where thread t stands
    tries,          \* tries[r]: attempts of _build_with_retry so far
    guard,          \* guard[r]: the guard of the path r has chosen
    via,            \* via[r]: the channel _ensure_channel gives r
    got,            \* got[r]: the circuit _acquire_circuit gives r
    oldChannels,    \* oldChannels[k]: channels k has taken out and not closed
    oldCircuits,    \* oldCircuits[k]: the same for circuits
    deaths,         \* bound: circuits and channels that ended on their own
    rotations,      \* history: how often new_identity emptied the pool
    chosenIn,       \* history: rotations when the path of a circuit was chosen
    startedIn       \* history: new_identity calls that had returned by then

tableVars   == <<closed, pool, channels>>
networkVars == <<opened, shut, built, dead, on>>
requestVars == <<tries, guard, via, got>>
dropVars    == <<oldChannels, oldCircuits>>
historyVars == <<rotations, chosenIn, startedIn>>
vars == <<tableVars, networkVars, pc, requestVars, dropVars, deaths,
          historyVars>>

Init ==
    /\ closed = FALSE
    /\ pool = [k \in Keys |-> None]
    /\ channels = [g \in Guards |-> None]
    /\ opened = {} /\ shut = {}
    /\ built = {} /\ dead = {}
    /\ on = [c \in Ids |-> None]
    /\ pc = [t \in Threads |-> "new"]
    /\ tries = [r \in Requests |-> 0]
    /\ guard = [r \in Requests |-> None]
    /\ via = [r \in Requests |-> None]
    /\ got = [r \in Requests |-> None]
    /\ oldChannels = [k \in Droppers |-> {}]
    /\ oldCircuits = [k \in Droppers |-> {}]
    /\ deaths = 0
    /\ rotations = 0
    /\ chosenIn = [c \in Ids |-> 0]
    /\ startedIn = [r \in Requests |-> 0]

Mine(r) == <<r, tries[r]>>

Goto(t, label) == pc' = [pc EXCEPT ![t] = label]

(* Circuit.close, up to the end of its _teardown.                            *)
Destroy(c) == dead' = dead \cup {c}

Usable(table, key, gone) == table[key] # None /\ table[key] \notin gone

-------------------------------------------------------------------------------
(***************************************************************************)
(* connect_stream and _acquire_circuit.                                    *)
(***************************************************************************)

(* The pool does not keep circuits that are destroyed.                       *)
Pruned == [k \in Keys |-> IF pool[k] \in dead THEN None ELSE pool[k]]

(* The first block of _acquire_circuit.                                      *)
Acquire(r) ==
    /\ pc[r] = "new"
    /\ startedIn' = [startedIn EXCEPT
           ![r] = Cardinality({k \in Identities : pc[k] = "ended"})]
    /\ IF closed
       THEN Goto(r, "failed") /\ UNCHANGED <<pool, got>>
       ELSE IF KeyOf[r] = NoKey
       THEN Goto(r, "path") /\ UNCHANGED <<pool, got>>
       ELSE /\ pool' = Pruned
            /\ got' = [got EXCEPT ![r] = Pruned[KeyOf[r]]]
            /\ Goto(r, IF Pruned[KeyOf[r]] = None THEN "path" ELSE "connect")
    /\ UNCHANGED <<closed, channels, networkVars, tries, guard, via, dropVars,
                   deaths, rotations, chosenIn>>

(* _build_with_retry draws a path, and _ensure_channel looks for a channel   *)
(* to its guard.                                                             *)
ChoosePath(r) ==
    /\ pc[r] = "path"
    /\ tries' = [tries EXCEPT ![r] = @ + 1]
    /\ chosenIn' = [chosenIn EXCEPT ![<<r, tries[r] + 1>>] = rotations]
    /\ \E g \in Guards :
        /\ guard' = [guard EXCEPT ![r] = g]
        /\ IF Usable(channels, g, shut)
           THEN via' = [via EXCEPT ![r] = channels[g]] /\ Goto(r, "build")
           ELSE via' = [via EXCEPT ![r] = None] /\ Goto(r, "open")
    /\ UNCHANGED <<tableVars, networkVars, got, dropVars, deaths, rotations,
                   startedIn>>

(* No usable path, or the directory fails: an error that is not retried.     *)
PathFails(r) ==
    /\ pc[r] = "path"
    /\ Goto(r, "failed")
    /\ UNCHANGED <<tableVars, networkVars, requestVars, dropVars, deaths,
                   historyVars>>

OpenChannel(r) ==
    /\ pc[r] = "open"
    /\ opened' = opened \cup {Mine(r)}
    /\ Goto(r, "offer")
    /\ UNCHANGED <<tableVars, shut, built, dead, on, requestVars,
                   dropVars, deaths, historyVars>>

(* Channel.open or build_circuit fails; another path, or the error.          *)
AttemptFails(r) ==
    /\ pc[r] \in {"open", "build"}
    /\ Goto(r, IF tries[r] < Attempts THEN "path" ELSE "failed")
    /\ UNCHANGED <<tableVars, networkVars, requestVars, dropVars, deaths,
                   historyVars>>

(* Whatever happened while the channel was opened, it is put into the table. *)
OfferChannelUnchecked(r) ==
    /\ pc[r] = "offer"
    /\ via' = [via EXCEPT ![r] = Mine(r)]
    /\ channels' = [channels EXCEPT ![guard[r]] = Mine(r)]
    /\ Goto(r, "build")
    /\ UNCHANGED <<closed, pool, networkVars, tries, guard, got, dropVars,
                   deaths, historyVars>>

(* The second block of _ensure_channel: the client may have been closed, or  *)
(* another thread may have opened a channel to the guard.                    *)
OfferChannel(r) ==
    /\ pc[r] = "offer"
    /\ IF closed
       THEN /\ via' = [via EXCEPT ![r] = None]
            /\ Goto(r, "dropChannel") /\ UNCHANGED channels
       ELSE IF Usable(channels, guard[r], shut)
       THEN /\ via' = [via EXCEPT ![r] = channels[guard[r]]]
            /\ Goto(r, "dropChannel") /\ UNCHANGED channels
       ELSE /\ via' = [via EXCEPT ![r] = Mine(r)]
            /\ channels' = [channels EXCEPT ![guard[r]] = Mine(r)]
            /\ Goto(r, "build")
    /\ UNCHANGED <<closed, pool, networkVars, tries, guard, got, dropVars,
                   deaths, historyVars>>

DropChannel(r) ==
    /\ pc[r] = "dropChannel"
    /\ shut' = shut \cup {Mine(r)}
    /\ Goto(r, IF via[r] = None THEN "failed" ELSE "build")
    /\ UNCHANGED <<tableVars, opened, built, dead, on, requestVars,
                   dropVars, deaths, historyVars>>

(* build_circuit succeeds on a channel that still works.                     *)
Build(r) ==
    /\ pc[r] = "build"
    /\ via[r] \notin shut
    /\ built' = built \cup {Mine(r)}
    /\ on' = [on EXCEPT ![Mine(r)] = via[r]]
    /\ got' = [got EXCEPT ![r] = Mine(r)]
    /\ Goto(r, IF KeyOf[r] = NoKey THEN "connect" ELSE "pool")
    /\ UNCHANGED <<tableVars, opened, shut, dead, tries, guard, via,
                   dropVars, deaths, historyVars>>

(* The circuit goes into the pool whatever is there.                         *)
PoolUnchecked(r) ==
    /\ pc[r] = "pool"
    /\ pool' = [pool EXCEPT ![KeyOf[r]] = Mine(r)]
    /\ Goto(r, "connect")
    /\ UNCHANGED <<closed, channels, networkVars, requestVars, dropVars, deaths,
                   historyVars>>

(* The circuit that lost is used all the same.                               *)
PoolKeepsOwn(r) ==
    /\ pc[r] = "pool"
    /\ IF ~closed /\ ~Usable(pool, KeyOf[r], dead)
       THEN pool' = [pool EXCEPT ![KeyOf[r]] = Mine(r)]
       ELSE UNCHANGED pool
    /\ Goto(r, "connect")
    /\ UNCHANGED <<closed, channels, networkVars, requestVars, dropVars, deaths,
                   historyVars>>

(* The second block of _acquire_circuit: the re-check under the lock.        *)
Pool(r) ==
    /\ pc[r] = "pool"
    /\ IF closed
       THEN /\ got' = [got EXCEPT ![r] = None]
            /\ Goto(r, "dropCircuit") /\ UNCHANGED pool
       ELSE IF Usable(pool, KeyOf[r], dead)
       THEN /\ got' = [got EXCEPT ![r] = pool[KeyOf[r]]]
            /\ Goto(r, "dropCircuit") /\ UNCHANGED pool
       ELSE /\ pool' = [pool EXCEPT ![KeyOf[r]] = Mine(r)]
            /\ Goto(r, "connect") /\ UNCHANGED got
    /\ UNCHANGED <<closed, channels, networkVars, tries, guard, via, dropVars,
                   deaths, historyVars>>

(* The circuit that is of no use is closed.                                  *)
DropCircuit(r) ==
    /\ pc[r] = "dropCircuit"
    /\ Destroy(Mine(r))
    /\ Goto(r, IF got[r] = None THEN "failed" ELSE "connect")
    /\ UNCHANGED <<tableVars, opened, shut, built, on, requestVars,
                   dropVars, deaths, historyVars>>

Connect(r) ==
    /\ pc[r] = "connect"
    /\ got[r] \notin dead
    /\ Goto(r, "using")
    /\ UNCHANGED <<tableVars, networkVars, requestVars, dropVars, deaths,
                   historyVars>>

(* The stream does not open, or is over; a circuit of its own goes with it,  *)
(* closed by connect_stream or because it is idle.                           *)
StreamEnds(r) ==
    /\ pc[r] \in {"connect", "using"}
    /\ Goto(r, IF KeyOf[r] = NoKey THEN "release" ELSE "ended")
    /\ UNCHANGED <<tableVars, networkVars, requestVars, dropVars, deaths,
                   historyVars>>

Release(r) ==
    /\ pc[r] = "release"
    /\ Destroy(got[r])
    /\ Goto(r, "ended")
    /\ UNCHANGED <<tableVars, opened, shut, built, on, requestVars,
                   dropVars, deaths, historyVars>>

-------------------------------------------------------------------------------
(***************************************************************************)
(* new_identity and close.                                                 *)
(***************************************************************************)

Entries(table) == Range(table) \ {None}

(* The block under the lock of new_identity.                                 *)
EmptyPool(k) ==
    /\ pc[k] = "new"
    /\ oldCircuits' = [oldCircuits EXCEPT ![k] = Entries(pool)]
    /\ pool' = [i \in Keys |-> None]
    /\ rotations' = rotations + 1
    /\ Goto(k, "dropping")
    /\ UNCHANGED <<closed, channels, networkVars, requestVars, oldChannels,
                   deaths, chosenIn, startedIn>>

(* The block under the lock of close(); a second call returns at once.       *)
EmptyTables(k) ==
    /\ pc[k] = "new"
    /\ IF closed
       THEN Goto(k, "ended") /\ UNCHANGED <<tableVars, dropVars>>
       ELSE /\ closed' = TRUE
            /\ oldCircuits' = [oldCircuits EXCEPT ![k] = Entries(pool)]
            /\ oldChannels' = [oldChannels EXCEPT ![k] = Entries(channels)]
            /\ pool' = [i \in Keys |-> None]
            /\ channels' = [g \in Guards |-> None]
            /\ Goto(k, "dropping")
    /\ UNCHANGED <<networkVars, requestVars, deaths, historyVars>>

CloseOldChannel(k) ==
    \E h \in oldChannels[k] :
        /\ pc[k] = "dropping"
        /\ oldChannels' = [oldChannels EXCEPT ![k] = @ \ {h}]
        /\ shut' = shut \cup {h}
        /\ UNCHANGED <<tableVars, opened, built, dead, on, pc,
                       requestVars, oldCircuits, deaths, historyVars>>

(* "Close channels first."                                                   *)
CloseOldCircuit(k) ==
    \E c \in oldCircuits[k] :
        /\ pc[k] = "dropping" /\ oldChannels[k] = {}
        /\ oldCircuits' = [oldCircuits EXCEPT ![k] = @ \ {c}]
        /\ Destroy(c)
        /\ UNCHANGED <<tableVars, opened, shut, built, on, pc,
                       requestVars, oldChannels, deaths, historyVars>>

DropReturns(k) ==
    /\ pc[k] = "dropping"
    /\ oldChannels[k] = {} /\ oldCircuits[k] = {}
    /\ Goto(k, "ended")
    /\ UNCHANGED <<tableVars, networkVars, requestVars, dropVars, deaths,
                   historyVars>>

-------------------------------------------------------------------------------
(***************************************************************************)
(* Circuits and channels that end on their own.                            *)
(***************************************************************************)

CircuitDies(c) ==
    /\ c \in built \ dead
    /\ deaths < MaxDeaths
    /\ deaths' = deaths + 1
    /\ dead' = dead \cup {c}
    /\ UNCHANGED <<tableVars, opened, shut, built, on, pc, requestVars,
                   dropVars, historyVars>>

ChannelFails(h) ==
    /\ h \in opened \ shut
    /\ deaths < MaxDeaths
    /\ deaths' = deaths + 1
    /\ shut' = shut \cup {h}
    /\ UNCHANGED <<tableVars, opened, built, dead, on, pc, requestVars,
                   dropVars, historyVars>>

(* The receiver of a closed channel runs _shutdown, if it ever wakes.        *)
Cascade(c) ==
    /\ c \in built \ dead /\ on[c] \in shut
    /\ dead' = dead \cup {c}
    /\ UNCHANGED <<tableVars, opened, shut, built, on, pc, requestVars,
                   dropVars, deaths, historyVars>>

-------------------------------------------------------------------------------
RequestStep(r) ==
    \/ Acquire(r) \/ ChoosePath(r) \/ PathFails(r) \/ OpenChannel(r)
    \/ AttemptFails(r) \/ OfferChannel(r) \/ DropChannel(r) \/ Build(r)
    \/ Pool(r) \/ DropCircuit(r) \/ Connect(r) \/ StreamEnds(r) \/ Release(r)

DropStep(k) == CloseOldChannel(k) \/ CloseOldCircuit(k) \/ DropReturns(k)

NetworkStep ==
    \/ \E c \in Ids : CircuitDies(c) \/ Cascade(c)
    \/ \E h \in Ids : ChannelFails(h)

Next ==
    \/ \E r \in Requests : RequestStep(r)
    \/ \E k \in Identities : EmptyPool(k)
    \/ \E k \in Closers : EmptyTables(k)
    \/ \E k \in Droppers : DropStep(k)
    \/ NetworkStep

Spec == Init /\ [][Next]_vars

-------------------------------------------------------------------------------
(***************************************************************************)
(* Properties.                                                             *)
(***************************************************************************)

RequestPCs == {"new", "path", "open", "offer", "dropChannel", "build", "pool",
               "dropCircuit", "connect", "using", "release",
               "ended", "failed"}

PCs == RequestPCs \cup {"dropping"}

(* The type of every variable.                                               *)
TypeOK ==
    /\ closed \in BOOLEAN
    /\ pool \in [Keys -> Ids \cup {None}]
    /\ channels \in [Guards -> Ids \cup {None}]
    /\ opened \subseteq Ids /\ shut \subseteq Ids
    /\ built \subseteq Ids /\ dead \subseteq Ids
    /\ on \in [Ids -> Ids \cup {None}]
    /\ pc \in [Threads -> PCs]
    /\ tries \in [Requests -> 0 .. Attempts]
    /\ guard \in [Requests -> Guards \cup {None}]
    /\ via \in [Requests -> Ids \cup {None}]
    /\ got \in [Requests -> Ids \cup {None}]
    /\ oldChannels \in [Droppers -> SUBSET Ids]
    /\ oldCircuits \in [Droppers -> SUBSET Ids]
    /\ deaths \in Nat /\ rotations \in Nat
    /\ chosenIn \in [Ids -> Nat] /\ startedIn \in [Requests -> Nat]

(* What is known of a request's variables at each place: attempts remain     *)
(* before one begins, and what is used there has been set.                   *)
Bookkeeping ==
    \A r \in Requests :
        /\ pc[r] \in {"new", "path"} => tries[r] < Attempts
        /\ pc[r] \in {"open", "offer", "dropChannel", "build", "pool",
                     "dropCircuit"} => tries[r] > 0 /\ guard[r] # None
        /\ pc[r] \in {"pool", "dropCircuit"} => KeyOf[r] # NoKey
        /\ pc[r] = "pool" => got[r] = Mine(r)
        /\ pc[r] \in {"connect", "using", "release"}
                => got[r] # None

(* Only a thread that is dropping old entries has any.                       *)
NothingLeft ==
    \A k \in Droppers :
        pc[k] # "dropping" => oldChannels[k] = {} /\ oldCircuits[k] = {}

(* Every open channel is in the table of a client that is not closed, or in  *)
(* the hands of one thread that will close or offer it.                      *)
ChannelsOwned ==
    \A h \in opened \ shut :
        \/ ~closed /\ \E g \in Guards : channels[g] = h
        \/ pc[h[1]] \in {"offer", "dropChannel"} /\ Mine(h[1]) = h
        \/ \E k \in Closers : h \in oldChannels[k]

(* The same for circuits: a live circuit is in the pool, in use by the       *)
(* request it belongs to, or about to be closed.  Neither the race of two    *)
(* threads that build for one key, nor new_identity or close() in the middle *)
(* of a build, leaves a circuit that nobody will close.                      *)
CircuitsOwned ==
    \A c \in built \ dead :
        \/ ~closed /\ \E k \in Keys : pool[k] = c
        \/ /\ Mine(c[1]) = c
           /\ \/ pc[c[1]] \in {"pool", "dropCircuit"}
              \/ /\ KeyOf[c[1]] = NoKey /\ got[c[1]] = c
                 /\ pc[c[1]] \in {"connect", "using", "release"}
        \/ \E k \in Droppers : c \in oldCircuits[k]

(* The inductive invariant: what is owned, and what the proof of it needs to *)
(* know about counters and about threads that have not begun.                *)
IInv ==
    TypeOK /\ Bookkeeping /\ NothingLeft /\ ChannelsOwned /\ CircuitsOwned

Holds(r) == pc[r] \in {"connect", "using"} /\ got[r] \notin dead

Retired(c) == \E k \in Droppers : c \in oldCircuits[k]

(* Circuit isolation: requests of different keys never share a circuit, one  *)
(* without a key shares with nobody, and requests of the same key share one, *)
(* apart from a circuit that is about to be closed.                          *)
Isolation ==
    \A r, q \in Requests :
        r # q /\ Holds(r) /\ Holds(q) =>
            /\ got[r] = got[q] => KeyOf[r] = KeyOf[q] /\ KeyOf[r] # NoKey
            /\ KeyOf[r] = KeyOf[q] /\ KeyOf[r] # NoKey
                => got[r] = got[q] \/ Retired(got[r]) \/ Retired(got[q])

(* "Drop all pooled circuits so subsequent requests take fresh paths": a     *)
(* request that starts after new_identity has returned gets no circuit whose *)
(* path was chosen before.                                                   *)
FreshAfterNewIdentity ==
    \A r \in Requests : Holds(r) => chosenIn[got[r]] >= startedIn[r]

(* When the last thread of a closed client is done, the client has no        *)
(* channel and no circuit any more, whatever was being opened or built when  *)
(* it was closed.                                                            *)
ClosedClientIsEmpty ==
    closed /\ (\A t \in Threads : pc[t] \in {"new", "ended", "failed"})
        => opened \subseteq shut /\ built \subseteq dead

===============================================================================
