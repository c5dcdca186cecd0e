------------------------------- MODULE DirTunnel -------------------------------
(***************************************************************************)
(* Directory fetches over Tor (src/torquests/_client/bootstrap.py and      *)
(* torclient.py).  The directory of a process is shared by its clients.    *)
(* Each client installs a tunnel, a circuit to a directory cache that      *)
(* whoever needs it builds again when it is dead; the directory uses the   *)
(* newest tunnel installed, and fetches in cleartext when there is none or *)
(* when it fails.  A tunnel stands for its client.                         *)
(***************************************************************************)
EXTENDS FiniteSets, Naturals, Sequences

CONSTANTS
    Clients,        \* the clients, each one the thread that bootstraps it
    Closers,        \* threads that call close()
    Of,             \* Of[k]: the client that k closes
    Fetchers,       \* threads that need a directory document
    None,           \* no tunnel, no circuit, no thread
    Attempts,       \* circuit_build_attempts
    MaxDeaths       \* bound: circuits that end on their own

ASSUME TunnelAssumption ==
    /\ Clients \cap Closers = {} /\ Clients \cap Fetchers = {}
    /\ Closers \cap Fetchers = {}
    /\ None \notin Clients \cup Closers \cup Fetchers \cup (Clients \X Nat)
    /\ Of \in [Closers -> Clients]
    /\ Attempts \in Nat \ {0} /\ MaxDeaths \in Nat

Builders == Clients \cup Fetchers
Threads  == Builders \cup Closers

VARIABLES
    closed,     \* clients whose _closed is set
    down,       \* clients whose channels close() has closed
    lock,       \* lock[c]: the thread that keeps TorClient._lock
    hooked,     \* clients whose _dir_tunnel and _dir_tunnel_fetch are set
    tunnels,    \* LiveDirectory._dir_tunnels
    active,     \* LiveDirectory._dir_tunnel
    busy,       \* busy[c]: the thread that keeps _DirTunnel._lock
    circuit,    \* circuit[c]: _DirTunnel._circuit
    live,       \* circuits that are built and not destroyed
    built,      \* built[c]: how many circuits the tunnel has had
    pc,         \* pc[t]: where thread t stands
    tries,      \* tries[t]: attempts of _build_with_retry so far
    got,        \* got[t]: the circuit t uses or is about to close
    via,        \* via[f]: the tunnel that f has read
    unlucky,    \* history: fetchers whose own build or fetch failed
    deaths      \* bound: circuits that ended on their own

clientVars == <<closed, down, lock, hooked>>
dirVars    == <<tunnels, active>>
tunnelVars == <<busy, circuit, live, built>>
vars == <<clientVars, dirVars, tunnelVars, pc, tries, got, via, unlucky,
          deaths>>

Init ==
    /\ closed = {} /\ down = {} /\ hooked = {}
    /\ lock = [c \in Clients |-> None]
    /\ tunnels = <<>>
    /\ active = None
    /\ busy = [c \in Clients |-> None]
    /\ circuit = [c \in Clients |-> None]
    /\ live = {}
    /\ built = [c \in Clients |-> 0]
    /\ pc = [t \in Threads |-> IF t \in Clients THEN "ensure" ELSE "new"]
    /\ tries = [t \in Builders |-> 0]
    /\ got = [t \in Threads |-> None]
    /\ via = [f \in Fetchers |-> None]
    /\ unlucky = {}
    /\ deaths = 0

Goto(t, label) == pc' = [pc EXCEPT ![t] = label]

Tunnel(t) == IF t \in Clients THEN t
             ELSE IF t \in Closers THEN Of[t] ELSE via[t]

-------------------------------------------------------------------------------
(***************************************************************************)
(* _DirTunnel.ensure_circuit, by the client's own thread or by a fetcher:  *)
(* the lock is kept while the circuit is built.                            *)
(***************************************************************************)

(* Where an error leads to: the client goes without a tunnel, the fetcher    *)
(* falls back to cleartext.                                                  *)
Fallback(t) == IF t \in Clients THEN "ended" ELSE "clear"

(* A circuit that is there is used, dead or not.                             *)
EnsureOnce(t) ==
    LET c == Tunnel(t)
    IN  /\ pc[t] = "ensure"
        /\ busy[c] = None
        /\ IF circuit[c] # None
           THEN /\ got' = [got EXCEPT ![t] = circuit[c]]
                /\ Goto(t, "use")
                /\ UNCHANGED <<busy, tries>>
           ELSE /\ busy' = [busy EXCEPT ![c] = t]
                /\ tries' = [tries EXCEPT ![t] = 0]
                /\ Goto(t, "path")
                /\ UNCHANGED got
        /\ UNCHANGED <<clientVars, dirVars, circuit, live, built, via, unlucky,
                       deaths>>

(* The lock is not kept.                                                     *)
EnsureUnlocked(t) ==
    LET c == Tunnel(t)
    IN  /\ pc[t] = "ensure"
        /\ busy[c] = None
        /\ IF circuit[c] \in live
           THEN /\ got' = [got EXCEPT ![t] = circuit[c]]
                /\ Goto(t, "use")
                /\ UNCHANGED tries
           ELSE /\ tries' = [tries EXCEPT ![t] = 0]
                /\ Goto(t, "path")
                /\ UNCHANGED got
        /\ UNCHANGED <<clientVars, dirVars, tunnelVars, via, unlucky, deaths>>

EnsureCircuit(t) ==
    LET c == Tunnel(t)
    IN  /\ pc[t] = "ensure"
        /\ busy[c] = None
        /\ IF circuit[c] \in live
           THEN /\ got' = [got EXCEPT ![t] = circuit[c]]
                /\ Goto(t, "use")
                /\ UNCHANGED <<busy, tries>>
           ELSE /\ busy' = [busy EXCEPT ![c] = t]
                /\ tries' = [tries EXCEPT ![t] = 0]
                /\ Goto(t, "path")
                /\ UNCHANGED got
        /\ UNCHANGED <<clientVars, dirVars, circuit, live, built, via, unlucky,
                       deaths>>

(* dir_circuit_path asks for its relays in cleartext, allow_tunnel=False.    *)
DirCircuitPath(t) ==
    /\ pc[t] = "path"
    /\ tries' = [tries EXCEPT ![t] = @ + 1]
    /\ Goto(t, "channel")
    /\ UNCHANGED <<clientVars, dirVars, tunnelVars, got, via, unlucky, deaths>>

(* An error leaves ensure_circuit, and with it the lock.                     *)
Raise(t) ==
    /\ busy' = [busy EXCEPT ![Tunnel(t)] = None]
    /\ Goto(t, Fallback(t))

(* No cache in the consensus, or no document: not tried again.               *)
PathFails(t) ==
    /\ pc[t] = "path"
    /\ Raise(t)
    /\ unlucky' = unlucky \cup ({t} \cap Fetchers)
    /\ UNCHANGED <<clientVars, dirVars, circuit, live, built, tries, got, via,
                   deaths>>

(* _ensure_channel takes the client's lock; a closed client gives none, and  *)
(* a channel that is opened for it meanwhile is closed again.                *)
EnsureChannel(t) ==
    LET c == Tunnel(t)
    IN  /\ pc[t] = "channel"
        /\ lock[c] = None
        /\ IF c \in closed THEN Raise(t)
           ELSE Goto(t, "build") /\ UNCHANGED busy
        /\ UNCHANGED <<clientVars, dirVars, circuit, live, built, tries, got,
                       via, unlucky, deaths>>

(* The channel does not open, or the circuit is not built.                   *)
AttemptFails(t) ==
    /\ pc[t] = "build"
    /\ IF tries[t] < Attempts
       THEN Goto(t, "path") /\ UNCHANGED <<busy, unlucky>>
       ELSE /\ Raise(t)
            /\ unlucky' = unlucky \cup ({t} \cap Fetchers)
    /\ UNCHANGED <<clientVars, dirVars, circuit, live, built, tries, got, via,
                   deaths>>

BuildCircuit(t) ==
    LET c == Tunnel(t)
        new == <<c, built[c] + 1>>
    IN  /\ pc[t] = "build"
        /\ c \notin down
        /\ built' = [built EXCEPT ![c] = @ + 1]
        /\ live' = live \cup {new}
        /\ circuit' = [circuit EXCEPT ![c] = new]
        /\ busy' = [busy EXCEPT ![c] = None]
        /\ got' = [got EXCEPT ![t] = new]
        /\ Goto(t, "use")
        /\ UNCHANGED <<clientVars, dirVars, tries, via, unlucky, deaths>>

-------------------------------------------------------------------------------
(***************************************************************************)
(* _install_dir_tunnel, after its ensure_circuit.                          *)
(***************************************************************************)

(* The hook is installed whether the client is closed or not.                *)
InstallUnchecked(c) ==
    /\ pc[c] = "use"
    /\ lock[c] = None
    /\ hooked' = hooked \cup {c}
    /\ tunnels' = Append(tunnels, c)
    /\ active' = c
    /\ Goto(c, "ended")
    /\ UNCHANGED <<closed, down, lock, tunnelVars, tries, got, via, unlucky,
                   deaths>>

(* Under the client's lock: the hook is installed, or the tunnel of a client *)
(* closed meanwhile is closed, with the lock kept.                           *)
InstallDirTunnel(c) ==
    /\ pc[c] = "use"
    /\ lock[c] = None
    /\ IF c \in closed
       THEN /\ lock' = [lock EXCEPT ![c] = c]
            /\ Goto(c, "take")
            /\ UNCHANGED <<hooked, dirVars>>
       ELSE /\ hooked' = hooked \cup {c}
            /\ tunnels' = Append(tunnels, c)
            /\ active' = c
            /\ Goto(c, "ended")
            /\ UNCHANGED lock
    /\ UNCHANGED <<closed, down, tunnelVars, tries, got, via, unlucky, deaths>>

-------------------------------------------------------------------------------
(***************************************************************************)
(* TorClient.close and _DirTunnel.close.                                   *)
(***************************************************************************)

(* With the client's lock kept until the tunnel is closed.                   *)
CloseTablesLocked(k) ==
    LET c == Of[k]
    IN  /\ pc[k] = "new"
        /\ lock[c] = None
        /\ closed' = closed \cup {c}
        /\ hooked' = hooked \ {c}
        /\ IF c \in hooked \ closed
           THEN Goto(k, "restore") /\ lock' = [lock EXCEPT ![c] = k]
           ELSE /\ Goto(k, IF c \in closed THEN "ended" ELSE "only channels")
                /\ UNCHANGED lock
        /\ UNCHANGED <<down, dirVars, tunnelVars, tries, got, via, unlucky,
                       deaths>>

(* The block of close() under the client's lock.                             *)
CloseTables(k) ==
    LET c == Of[k]
    IN  /\ pc[k] = "new"
        /\ lock[c] = None
        /\ closed' = closed \cup {c}
        /\ hooked' = hooked \ {c}
        /\ Goto(k, IF c \in closed THEN "ended"
                   ELSE IF c \in hooked THEN "restore" ELSE "only channels")
        /\ UNCHANGED <<down, lock, dirVars, tunnelVars, tries, got, via,
                       unlucky, deaths>>

(* The tunnel that comes last is dropped, as if clients closed in turn.      *)
RestoreLast(k) ==
    LET left == SubSeq(tunnels, 1, Len(tunnels) - 1)
    IN  /\ pc[k] = "restore"
        /\ tunnels' = left
        /\ active' = IF left = <<>> THEN None ELSE left[Len(left)]
        /\ Goto(k, "channels")
        /\ UNCHANGED <<clientVars, tunnelVars, tries, got, via, unlucky, deaths>>

(* The registry without the first entry that is c, if there is one.          *)
Dropped(c) ==
    LET first == CHOOSE i \in DOMAIN tunnels :
                    tunnels[i] = c /\ \A j \in 1 .. i - 1 : tunnels[j] # c
    IN  IF \E i \in DOMAIN tunnels : tunnels[i] = c
        THEN SubSeq(tunnels, 1, first - 1) \o SubSeq(tunnels, first + 1, Len(tunnels))
        ELSE tunnels

(* restore_dir_tunnel: the hook is dropped wherever it stands, and the       *)
(* newest of the others is active.                                           *)
RestoreDirTunnel(k) ==
    LET left == Dropped(Of[k])
    IN  /\ pc[k] = "restore"
        /\ tunnels' = left
        /\ active' = IF left = <<>> THEN None ELSE left[Len(left)]
        /\ Goto(k, "channels")
        /\ UNCHANGED <<clientVars, tunnelVars, tries, got, via, unlucky, deaths>>

CloseChannels(k) ==
    /\ pc[k] \in {"channels", "only channels"}
    /\ down' = down \cup {Of[k]}
    /\ Goto(k, IF pc[k] = "channels" THEN "take" ELSE "ended")
    /\ UNCHANGED <<closed, lock, hooked, dirVars, tunnelVars, tries, got, via,
                   unlucky, deaths>>

(* _DirTunnel.close: the circuit is taken out under the tunnel's lock ...    *)
TakeCircuit(t) ==
    LET c == Tunnel(t)
    IN  /\ pc[t] = "take"
        /\ busy[c] = None
        /\ got' = [got EXCEPT ![t] = circuit[c]]
        /\ circuit' = [circuit EXCEPT ![c] = None]
        /\ Goto(t, "destroy")
        /\ UNCHANGED <<clientVars, dirVars, busy, live, built, tries, via,
                       unlucky, deaths>>

(* ... and closed without it.                                                *)
DestroyCircuit(t) ==
    LET c == Tunnel(t)
    IN  /\ pc[t] = "destroy"
        /\ live' = live \ {got[t]}
        /\ lock' = [lock EXCEPT ![c] = IF @ = t THEN None ELSE @]
        /\ Goto(t, "ended")
        /\ UNCHANGED <<closed, down, hooked, dirVars, busy, circuit, built,
                       tries, got, via, unlucky, deaths>>

-------------------------------------------------------------------------------
(***************************************************************************)
(* LiveDirectory._fetch_dir.                                               *)
(***************************************************************************)

(* The active tunnel is read without the lock.                               *)
FetchDir(f) ==
    /\ pc[f] = "new"
    /\ via' = [via EXCEPT ![f] = active]
    /\ Goto(f, IF active = None THEN "clear" ELSE "ensure")
    /\ UNCHANGED <<clientVars, dirVars, tunnelVars, tries, got, unlucky, deaths>>

FetchOverTor(f) ==
    /\ pc[f] = "use"
    /\ got[f] \in live
    /\ Goto(f, "done")
    /\ UNCHANGED <<clientVars, dirVars, tunnelVars, tries, got, via, unlucky,
                   deaths>>

(* The stream's circuit is gone.                                             *)
FetchLost(f) ==
    /\ pc[f] = "use"
    /\ got[f] \notin live
    /\ Goto(f, "clear")
    /\ UNCHANGED <<clientVars, dirVars, tunnelVars, tries, got, via, unlucky,
                   deaths>>

(* A refusal, a deadline or a bad answer of the cache.                       *)
FetchFails(f) ==
    /\ pc[f] = "use"
    /\ Goto(f, "clear")
    /\ unlucky' = unlucky \cup {f}
    /\ UNCHANGED <<clientVars, dirVars, tunnelVars, tries, got, via, deaths>>

-------------------------------------------------------------------------------
(* A relay destroys the circuit, under whoever uses it.                      *)
CircuitDies(r) ==
    /\ deaths < MaxDeaths
    /\ r \in live
    /\ deaths' = deaths + 1
    /\ live' = live \ {r}
    /\ unlucky' = unlucky \cup {f \in Fetchers : pc[f] = "use" /\ got[f] = r}
    /\ UNCHANGED <<clientVars, dirVars, busy, circuit, built, pc, tries, got,
                   via>>

(* The receiver of a channel that close() has closed runs _shutdown.         *)
Cascade(r) ==
    /\ r \in live /\ r[1] \in down
    /\ live' = live \ {r}
    /\ UNCHANGED <<clientVars, dirVars, busy, circuit, built, pc, tries, got,
                   via, unlucky, deaths>>

-------------------------------------------------------------------------------
BuildStep(t) ==
    \/ EnsureCircuit(t) \/ DirCircuitPath(t) \/ PathFails(t)
    \/ EnsureChannel(t) \/ AttemptFails(t) \/ BuildCircuit(t)

TunnelCloseStep(t) == TakeCircuit(t) \/ DestroyCircuit(t)

InstallStep(c) == BuildStep(c) \/ InstallDirTunnel(c) \/ TunnelCloseStep(c)

CloseStep(k) ==
    \/ RestoreDirTunnel(k) \/ CloseChannels(k) \/ TunnelCloseStep(k)

FetchStep(f) ==
    \/ BuildStep(f) \/ FetchOverTor(f) \/ FetchLost(f) \/ FetchFails(f)

Next ==
    \/ \E c \in Clients : InstallStep(c)
    \/ \E k \in Closers : CloseTables(k) \/ CloseStep(k)
    \/ \E f \in Fetchers : FetchDir(f) \/ FetchStep(f)
    \/ \E r \in live : CircuitDies(r) \/ Cascade(r)

Spec == Init /\ [][Next]_vars

(* The scheduler runs every thread that can move, and opening a channel,     *)
(* building a circuit and fetching a document end, well or badly, since each *)
(* has a deadline.  Nobody has to call close() or to need a document.        *)
Fairness ==
    /\ \A c \in Clients : WF_vars(InstallStep(c))
    /\ \A k \in Closers : WF_vars(CloseStep(k))
    /\ \A f \in Fetchers : WF_vars(FetchStep(f))

FairSpec == Spec /\ Fairness

-------------------------------------------------------------------------------
(***************************************************************************)
(* Properties.                                                             *)
(***************************************************************************)

PCs == {"new", "ensure", "path", "channel", "build", "use", "take", "destroy",
        "restore", "channels", "only channels", "clear", "done", "ended"}

Circuits == Clients \X Nat

(* The type of every variable.                                               *)
TypeOK ==
    /\ closed \subseteq Clients /\ down \subseteq closed
    /\ hooked \subseteq Clients
    /\ lock \in [Clients -> Clients \cup {None}]
    /\ tunnels \in Seq(Clients)
    /\ active \in Clients \cup {None}
    /\ busy \in [Clients -> Builders \cup {None}]
    /\ circuit \in [Clients -> Circuits \cup {None}]
    /\ live \subseteq Circuits
    /\ built \in [Clients -> Nat]
    /\ pc \in [Threads -> PCs]
    /\ tries \in [Builders -> 0 .. Attempts]
    /\ got \in [Threads -> Circuits \cup {None}]
    /\ via \in [Fetchers -> Clients \cup {None}]
    /\ unlucky \subseteq Fetchers
    /\ deaths \in Nat

(* A client's hook is in the registry from its installation until close()    *)
(* takes it out.                                                             *)
Installed(c) ==
    c \in hooked \/ \E k \in Closers : Of[k] = c /\ pc[k] = "restore"

(* "any close order leaves the active tunnel on a live circuit and never     *)
(* reverts a surviving client to cleartext": the active tunnel is one whose  *)
(* client has not closed its channels, and there is one as long as any       *)
(* client has one, in whatever order clients come and go.                    *)
ActiveTunnelSurvives ==
    /\ active # None => Installed(active) /\ active \notin down
    /\ active = None => \A c \in Clients : ~Installed(c)

(* A fetch falls back to cleartext only if it found no tunnel, if the client *)
(* whose tunnel it found has been closed since, or if its own circuit or     *)
(* fetch failed: not because an earlier circuit has died.                    *)
CleartextOnlyIfUnlucky ==
    \A f \in Fetchers :
        pc[f] = "clear" => via[f] = None \/ via[f] \in closed \/ f \in unlucky

(* The threads that need a dead tunnel build one circuit, and no live one is *)
(* ever without an owner: it is the tunnel's, or about to be closed.         *)
TunnelCircuitOwned ==
    \A r \in live :
        \/ circuit[r[1]] = r
        \/ \E t \in Threads : pc[t] = "destroy" /\ got[t] = r

(* A tunnel ends with its client: once the client is closed, every close()   *)
(* of it has returned and the bootstrapping thread is done, it has no        *)
(* circuit, whatever fetches were and are being made.                        *)
ClosedTunnelStaysClosed ==
    \A c \in closed :
        pc[c] = "ended" /\ (\A k \in Closers : Of[k] = c => pc[k] \in {"new", "ended"})
            => circuit[c] = None

(* The locks of client, tunnel and directory never wait for one another in a *)
(* circle: every fetch, installation and close() comes to an end.            *)
EverybodyReturns ==
    \A t \in Threads :
        (pc[t] # "new") ~> (pc[t] \in {"clear", "done", "ended"})

===============================================================================
