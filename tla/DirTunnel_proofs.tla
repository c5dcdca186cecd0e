---------------------------- MODULE DirTunnel_proofs ----------------------------
(* Proofs about DirTunnel, for any clients, closers and fetchers, any number *)
(* of attempts and of circuits that die.                                     *)
EXTENDS DirTunnel, SequenceTheorems, TLAPS

-------------------------------------------------------------------------------
(* The invariant                                                             *)

ClientPCs  == {"ensure", "path", "channel", "build", "use", "take", "destroy", "ended"}
FetcherPCs == {"new", "ensure", "path", "channel", "build", "use", "clear", "done"}
CloserPCs  == {"new", "restore", "channels", "only channels", "take", "destroy", "ended"}

RolesInv ==
    /\ \A c \in Clients : pc[c] \in ClientPCs
    /\ \A f \in Fetchers : pc[f] \in FetcherPCs
    /\ \A k \in Closers : pc[k] \in CloserPCs

Building == {"path", "channel", "build"}

(* Who builds a circuit keeps the tunnel's lock, and the tunnel has no live  *)
(* circuit meanwhile.                                                        *)
BuilderInv(t) ==
    /\ pc[t] \in Building \cup {"ensure", "use"} => Tunnel(t) \in Clients
    /\ pc[t] \in Building => busy[Tunnel(t)] = t /\ circuit[Tunnel(t)] \notin live
    /\ pc[t] = "path" => tries[t] < Attempts

(* A circuit that somebody uses or is about to close is one of his tunnel,   *)
(* and only the tunnel of a closed client is closed.                         *)
GotInv(t) ==
    /\ pc[t] = "use" => got[t] \in Circuits /\ got[t][1] = Tunnel(t)
    /\ pc[t] = "destroy" => got[t] = None \/ got[t][1] = Tunnel(t)
    /\ pc[t] \in {"take", "destroy"} => Tunnel(t) \in closed

Idle(k) == pc[k] \in {"new", "ended"}

(* One thread closes a client; the others find it closed.                    *)
CloserInv(k) ==
    /\ pc[k] # "new" => Of[k] \in closed
    /\ ~Idle(k) => \A j \in Closers : Of[j] = Of[k] /\ j # k => Idle(j)
    /\ pc[k] \in {"restore", "channels", "only channels"} => Of[k] \notin down

(* The registry holds each installed hook once, and its last entry is active. *)
RegistryInv ==
    /\ hooked \cap closed = {}
    /\ \A i \in DOMAIN tunnels : Installed(tunnels[i])
    /\ \A i, j \in DOMAIN tunnels : tunnels[i] = tunnels[j] => i = j
    /\ \A c \in Clients : Installed(c) => \E i \in DOMAIN tunnels : tunnels[i] = c
    /\ active = IF tunnels = <<>> THEN None ELSE tunnels[Len(tunnels)]
    /\ \A c \in Clients : Installed(c) => pc[c] = "ended"

At(c, label) == \E k \in Closers : Of[k] = c /\ pc[k] = label

(* A tunnel has a circuit as long as somebody still has to take it out.      *)
CircuitInv(c) ==
    circuit[c] # None =>
        /\ circuit[c][1] = c
        /\ \/ pc[c] \in {"use", "take"}
           \/ Installed(c) \/ At(c, "channels") \/ At(c, "take")

(* A tunnel that a fetcher has read has been installed, and serves until the *)
(* channels of its client are closed.                                        *)
FetcherInv(f) ==
    /\ via[f] # None => /\ pc[via[f]] = "ended"
                        /\ Installed(via[f]) \/ At(via[f], "channels") \/ via[f] \in down
    /\ pc[f] = "use" => got[f] \in live \/ via[f] \in closed \/ f \in unlucky
    /\ pc[f] = "clear" => via[f] = None \/ via[f] \in closed \/ f \in unlucky

TunnelInv ==
    /\ TypeOK /\ RolesInv /\ RegistryInv /\ TunnelCircuitOwned
    /\ \A t \in Threads : GotInv(t)
    /\ \A t \in Builders : BuilderInv(t)
    /\ \A c \in Clients : CircuitInv(c)
    /\ \A k \in Closers : CloserInv(k)
    /\ \A f \in Fetchers : FetcherInv(f)

-------------------------------------------------------------------------------
(* Threads, types and frames                                                 *)

LEMMA ThreadsAre ==
    /\ \A c \in Clients : /\ c \in Threads /\ c \in Builders /\ c \notin Closers /\ c \notin Fetchers
                          /\ Tunnel(c) = c /\ Tunnel(c)' = c
    /\ \A k \in Closers : /\ k \in Threads /\ k \notin Builders /\ k \notin Clients /\ k \notin Fetchers
                          /\ Of[k] \in Clients /\ Tunnel(k) = Of[k] /\ Tunnel(k)' = Of[k]
    /\ \A f \in Fetchers : /\ f \in Threads /\ f \in Builders /\ f \notin Closers /\ f \notin Clients
                           /\ Tunnel(f) = via[f] /\ Tunnel(f)' = via'[f]
    /\ None \notin Clients /\ None \notin Builders /\ None \notin Circuits
BY TunnelAssumption DEF Threads, Builders, Tunnel, Circuits

LEMMA TunnelStays == ASSUME via' = via PROVE \A t : Tunnel(t)' = Tunnel(t)
BY DEF Tunnel

LEMMA Moves ==
    ASSUME TypeOK, NEW t \in Threads, NEW l, Goto(t, l)
    PROVE  pc'[t] = l /\ \A u \in Threads : u # t => pc'[u] = pc[u]
BY DEF TypeOK, Goto

(* A hook stands as long as nobody installs one and no closer moves.         *)
LEMMA HooksStand ==
    ASSUME hooked' = hooked, \A k \in Closers : pc'[k] = pc[k]
    PROVE  /\ \A c : Installed(c)' <=> Installed(c)
           /\ \A c, l : At(c, l)' <=> At(c, l)
BY DEF Installed, At

ClientsTyped ==
    /\ closed \subseteq Clients /\ down \subseteq closed /\ hooked \subseteq Clients
    /\ lock \in [Clients -> Clients \cup {None}]
DirTyped == tunnels \in Seq(Clients) /\ active \in Clients \cup {None}
TunnelsTyped ==
    /\ busy \in [Clients -> Builders \cup {None}]
    /\ circuit \in [Clients -> Circuits \cup {None}]
    /\ live \subseteq Circuits /\ built \in [Clients -> Nat]
ThreadsTyped ==
    /\ pc \in [Threads -> PCs]
    /\ tries \in [Builders -> 0 .. Attempts]
    /\ got \in [Threads -> Circuits \cup {None}]
    /\ via \in [Fetchers -> Clients \cup {None}]
    /\ unlucky \subseteq Fetchers /\ deaths \in Nat

LEMMA TypeParts == TypeOK <=> ClientsTyped /\ DirTyped /\ TunnelsTyped /\ ThreadsTyped
BY DEF TypeOK, ClientsTyped, DirTyped, TunnelsTyped, ThreadsTyped

LEMMA TypePartsNext ==
    ASSUME ClientsTyped', DirTyped', TunnelsTyped', ThreadsTyped' PROVE TypeOK'
BY DEF TypeOK, ClientsTyped, DirTyped, TunnelsTyped, ThreadsTyped

-------------------------------------------------------------------------------
(* ensure_circuit                                                            *)

(* What a step of ensure_circuit does, by kind.                              *)
Reuses(t) ==
    /\ pc[t] = "ensure" /\ circuit[Tunnel(t)] \in live
    /\ pc'[t] = "use" /\ got' = [got EXCEPT ![t] = circuit[Tunnel(t)]]
    /\ UNCHANGED <<tunnelVars, tries, unlucky>>
StartsToBuild(t) ==
    /\ pc[t] = "ensure" /\ circuit[Tunnel(t)] \notin live /\ busy[Tunnel(t)] = None
    /\ pc'[t] = "path" /\ busy' = [busy EXCEPT ![Tunnel(t)] = t]
    /\ tries' = [tries EXCEPT ![t] = 0]
    /\ UNCHANGED <<circuit, live, built, got, unlucky>>
GoesOn(t) ==
    /\ pc[t] \in Building /\ pc'[t] \in Building
    /\ \/ pc'[t] # "path" /\ pc[t] = "path" /\ tries' = [tries EXCEPT ![t] = @ + 1]
       \/ pc'[t] # "path" /\ tries' = tries
       \/ tries[t] < Attempts /\ tries' = tries
    /\ UNCHANGED <<tunnelVars, got, unlucky>>
GivesUp(t) ==
    /\ pc[t] \in Building /\ pc'[t] = Fallback(t)
    /\ busy' = [busy EXCEPT ![Tunnel(t)] = None]
    /\ \/ Tunnel(t) \in closed /\ unlucky' = unlucky
       \/ unlucky' = unlucky \cup ({t} \cap Fetchers)
    /\ UNCHANGED <<circuit, live, built, got, tries>>
Builds(t) ==
    LET c == Tunnel(t)
        new == <<c, built[c] + 1>>
    IN  /\ pc[t] = "build" /\ pc'[t] = "use" /\ c \notin down
        /\ built' = [built EXCEPT ![c] = @ + 1]
        /\ live' = live \cup {new}
        /\ circuit' = [circuit EXCEPT ![c] = new]
        /\ busy' = [busy EXCEPT ![c] = None]
        /\ got' = [got EXCEPT ![t] = new]
        /\ UNCHANGED <<tries, unlucky>>

LEMMA BuildMoves ==
    ASSUME TunnelInv, NEW t \in Builders, BuildStep(t)
    PROVE  /\ t \in Threads /\ Tunnel(t) \in Clients
           /\ pc[t] \in Building \cup {"ensure"}
           /\ \A u \in Threads : u # t => pc'[u] = pc[u]
           /\ UNCHANGED <<clientVars, dirVars, via, deaths>>
           /\ Reuses(t) \/ StartsToBuild(t) \/ GoesOn(t) \/ GivesUp(t) \/ Builds(t)
<1>. USE DEF tunnelVars
<1>0. TypeOK /\ t \in Threads /\ BuilderInv(t)
  BY DEF TunnelInv, Threads
<1>1. CASE EnsureCircuit(t)
  BY <1>0, <1>1, Moves DEF EnsureCircuit, Reuses, StartsToBuild, BuilderInv
<1>2. CASE DirCircuitPath(t)
  BY <1>0, <1>2, Moves DEF DirCircuitPath, GoesOn, BuilderInv, Building
<1>3. CASE PathFails(t)
  BY <1>0, <1>3, Moves DEF PathFails, Raise, GivesUp, BuilderInv, Building
<1>4. CASE EnsureChannel(t)
  BY <1>0, <1>4, Moves DEF EnsureChannel, Raise, GoesOn, GivesUp, BuilderInv, Building
<1>5. CASE AttemptFails(t)
  BY <1>0, <1>5, Moves DEF AttemptFails, Raise, GoesOn, GivesUp, BuilderInv, Building
<1>6. CASE BuildCircuit(t)
  BY <1>0, <1>6, Moves DEF BuildCircuit, Builds, BuilderInv, Building
<1>. QED BY <1>1, <1>2, <1>3, <1>4, <1>5, <1>6 DEF BuildStep

LEMMA BuildKeepsTypes ==
    ASSUME TunnelInv, NEW t \in Builders, BuildStep(t)
    PROVE  TypeOK' /\ RolesInv'
<1>0. /\ ClientsTyped /\ DirTyped /\ TunnelsTyped /\ ThreadsTyped /\ RolesInv
      /\ BuilderInv(t) /\ Attempts \in Nat \ {0}
  BY TypeParts, TunnelAssumption DEF TunnelInv
<1>1. /\ t \in Threads /\ Tunnel(t) \in Clients
      /\ \A u \in Threads : u # t => pc'[u] = pc[u]
      /\ UNCHANGED <<closed, down, lock, hooked, tunnels, active, via, deaths>>
      /\ Reuses(t) \/ StartsToBuild(t) \/ GoesOn(t) \/ GivesUp(t) \/ Builds(t)
  BY BuildMoves DEF clientVars, dirVars
<1>. USE DEF Reuses, StartsToBuild, GoesOn, GivesUp, Builds, tunnelVars
<1>2. ClientsTyped' /\ DirTyped'
  BY <1>0, <1>1 DEF ClientsTyped, DirTyped
<1>3. TunnelsTyped'
  <2>1. \A n \in Nat : <<Tunnel(t), n + 1>> \in Circuits
    BY <1>1 DEF Circuits
  <2>. QED BY <1>0, <1>1, <2>1 DEF TunnelsTyped
<1>4. pc' \in [Threads -> PCs]
  <2>1. pc' = [pc EXCEPT ![t] = pc'[t]]
    BY DEF BuildStep, EnsureCircuit, DirCircuitPath, PathFails, EnsureChannel, AttemptFails,
       BuildCircuit, Raise, Goto
  <2>2. pc'[t] \in PCs
    BY <1>1 DEF PCs, Building, Fallback
  <2>. QED BY <1>0, <1>1, <2>1, <2>2 DEF ThreadsTyped
<1>5. tries' \in [Builders -> 0 .. Attempts]
  BY <1>0, <1>1 DEF ThreadsTyped, BuilderInv
<1>6. ThreadsTyped'
  <2>1. got' \in [Threads -> Circuits \cup {None}]
    <3>1. \A n \in Nat : <<Tunnel(t), n + 1>> \in Circuits
      BY <1>1 DEF Circuits
    <3>. QED BY <1>0, <1>1, <3>1 DEF ThreadsTyped, TunnelsTyped
  <2>. QED BY <1>0, <1>1, <1>4, <1>5, <2>1 DEF ThreadsTyped
<1>7. RolesInv'
  <2>1. pc'[t] \in Building \cup {"use", Fallback(t)}
    BY <1>1 DEF Building
  <2>. QED BY <1>0, <1>1, <2>1, ThreadsAre DEF RolesInv, ClientPCs, FetcherPCs, Building, Fallback, Builders
<1>. QED BY <1>2, <1>3, <1>6, <1>7, TypePartsNext

LEMMA BuildKeepsOwners ==
    ASSUME TunnelInv, NEW t \in Builders, BuildStep(t)
    PROVE  /\ RegistryInv' /\ TunnelCircuitOwned'
           /\ \A u \in Threads : GotInv(u)'
           /\ \A u \in Builders : BuilderInv(u)'
<1>. DEFINE c == Tunnel(t)
<1>0. /\ TunnelsTyped /\ ThreadsTyped /\ RegistryInv /\ TunnelCircuitOwned /\ BuilderInv(t)
      /\ None \notin Circuits /\ None \notin Builders
  BY TypeParts, ThreadsAre DEF TunnelInv
<1>1. /\ t \in Threads /\ c \in Clients
      /\ pc[t] \in Building \cup {"ensure"}
      /\ \A u \in Threads : u # t => pc'[u] = pc[u] /\ got'[u] = got[u]
      /\ UNCHANGED <<closed, down, hooked, tunnels, active, via>>
      /\ \A u : Tunnel(u)' = Tunnel(u)
      /\ Reuses(t) \/ StartsToBuild(t) \/ GoesOn(t) \/ GivesUp(t) \/ Builds(t)
  BY <1>0, BuildMoves, TunnelStays
     DEF clientVars, dirVars, Reuses, StartsToBuild, GoesOn, GivesUp, Builds, ThreadsTyped
<1>2. pc[t] \notin {"new", "use", "take", "destroy", "ended"}
  BY <1>1 DEF Building
<1>3. /\ \A d : Installed(d)' <=> Installed(d)
      /\ \A k \in Closers : pc'[k] = pc[k]
  BY <1>1, HooksStand, ThreadsAre
<1>4. RegistryInv'
  <2>1. ASSUME NEW d \in Clients, Installed(d)' PROVE pc'[d] = "ended"
    BY <1>0, <1>1, <1>2, <1>3, <2>1, ThreadsAre DEF RegistryInv
  <2>. QED BY <1>0, <1>1, <1>3, <2>1 DEF RegistryInv
(* Only BuildCircuit adds a circuit, when the tunnel has no live one.        *)
<1>. DEFINE new == <<c, built[c] + 1>>
<1>5. \/ live' = live /\ circuit' = circuit
      \/ /\ live' = live \cup {new} /\ circuit' = [circuit EXCEPT ![c] = new]
         /\ pc[t] \in Building /\ circuit[c] \notin live
  BY <1>0, <1>1 DEF Reuses, StartsToBuild, GoesOn, GivesUp, Builds, BuilderInv, Building, tunnelVars
<1>6. new \in Circuits /\ new[1] = c
  BY <1>0, <1>1 DEF Circuits, TunnelsTyped
<1>. HIDE DEF new
<1>7. TunnelCircuitOwned'
  <2>1. ASSUME NEW r \in live
        PROVE  circuit'[r[1]] = r \/ \E u \in Threads : pc'[u] = "destroy" /\ got'[u] = r
    <3>1. CASE circuit[r[1]] = r
      <4>1. r[1] \in Clients
        BY <1>0, <2>1 DEF TunnelsTyped, Circuits
      <4>. QED BY <1>0, <1>5, <2>1, <3>1, <4>1 DEF TunnelsTyped
    <3>2. CASE \E u \in Threads : pc[u] = "destroy" /\ got[u] = r
      BY <1>1, <1>2, <3>2
    <3>. QED BY <1>0, <2>1, <3>1, <3>2 DEF TunnelCircuitOwned
  <2>2. live' = live \cup {new} => circuit'[c] = new \/ new \in live
    BY <1>0, <1>1, <1>5 DEF TunnelsTyped
  <2>. QED BY <1>5, <1>6, <2>1, <2>2 DEF TunnelCircuitOwned
<1>8. ASSUME NEW u \in Threads PROVE GotInv(u)'
  <2>1. CASE u # t
    BY <1>1, <2>1 DEF TunnelInv, GotInv
  <2>2. CASE u = t /\ pc'[t] = "use"
    <3>1. CASE Reuses(t)
      <4>1. circuit[c] \in Circuits /\ circuit[c] # None
        BY <1>0, <3>1 DEF Reuses, TunnelsTyped
      <4>2. circuit[c][1] = c
        BY <1>1, <4>1 DEF TunnelInv, CircuitInv
      <4>. QED BY <1>0, <1>1, <2>2, <3>1, <4>1, <4>2 DEF Reuses, GotInv, ThreadsTyped
    <3>2. CASE Builds(t)
      <4>1. got'[t] = new
        BY <1>0, <1>1, <3>2 DEF Builds, ThreadsTyped, new
      <4>. QED BY <1>1, <1>6, <2>2, <4>1 DEF GotInv
    <3>. QED BY <1>1, <2>2, <3>1, <3>2 DEF StartsToBuild, GoesOn, GivesUp, Building, Fallback
  <2>3. CASE u = t /\ pc'[t] # "use"
    <3>1. pc'[t] \notin {"use", "take", "destroy"}
      BY <1>1, <2>3 DEF Reuses, StartsToBuild, GoesOn, GivesUp, Builds, Building, Fallback
    <3>. QED BY <2>3, <3>1 DEF GotInv
  <2>. QED BY <2>1, <2>2, <2>3
<1>9. ASSUME NEW u \in Builders PROVE BuilderInv(u)'
  <2>1. CASE u = t
    <3>1. CASE Reuses(t) \/ Builds(t)
      BY <1>1, <2>1, <3>1 DEF Reuses, Builds, BuilderInv, Building
    <3>2. CASE StartsToBuild(t)
      BY <1>0, <1>1, <2>1, <3>2, TunnelAssumption
         DEF StartsToBuild, BuilderInv, Building, TunnelsTyped, ThreadsTyped
    <3>3. CASE GoesOn(t)
      BY <1>0, <1>1, <2>1, <3>3 DEF GoesOn, BuilderInv, Building, tunnelVars
    <3>4. CASE GivesUp(t)
      BY <1>1, <2>1, <3>4 DEF GivesUp, BuilderInv, Building, Fallback
    <3>. QED BY <1>1, <3>1, <3>2, <3>3, <3>4
  <2>2. CASE u # t
    <3>0. u \in Threads /\ BuilderInv(u)
      BY ThreadsAre DEF TunnelInv, Builders
    <3>1. tries'[u] = tries[u] /\ pc'[u] = pc[u]
      BY <1>0, <1>1, <2>2, <3>0
         DEF Reuses, StartsToBuild, GoesOn, GivesUp, Builds, ThreadsTyped
    <3>2. ASSUME pc[u] \in Building
          PROVE  busy'[Tunnel(u)] = u /\ circuit'[Tunnel(u)] \notin live'
      <4>1. busy[Tunnel(u)] = u /\ circuit[Tunnel(u)] \notin live /\ Tunnel(u) \in Clients
        BY <3>0, <3>2 DEF BuilderInv
      <4>2. CASE Tunnel(u) = c
        <5>1. Reuses(t)
          BY <1>0, <1>1, <2>2, <4>1, <4>2
             DEF StartsToBuild, GoesOn, GivesUp, Builds, BuilderInv, Building
        <5>. QED BY <4>1, <5>1 DEF Reuses, tunnelVars
      <4>3. CASE Tunnel(u) # c
        <5>1. busy'[Tunnel(u)] = busy[Tunnel(u)]
          BY <1>0, <1>1, <4>1, <4>3
             DEF Reuses, StartsToBuild, GoesOn, GivesUp, Builds, tunnelVars, TunnelsTyped
        <5>2. circuit'[Tunnel(u)] = circuit[Tunnel(u)]
          BY <1>0, <1>5, <4>1, <4>3 DEF TunnelsTyped
        <5>3. circuit[Tunnel(u)] # new
          BY <1>0, <1>6, <4>1, <4>3 DEF TunnelInv, CircuitInv
        <5>. QED BY <1>5, <4>1, <5>1, <5>2, <5>3
      <4>. QED BY <4>2, <4>3
    <3>. QED BY <1>1, <3>0, <3>1, <3>2 DEF BuilderInv
  <2>. QED BY <2>1, <2>2
<1>. QED BY <1>4, <1>7, <1>8, <1>9

LEMMA BuildKeepsTunnels ==
    ASSUME TunnelInv, NEW t \in Builders, BuildStep(t)
    PROVE  /\ \A c \in Clients : CircuitInv(c)'
           /\ \A k \in Closers : CloserInv(k)'
           /\ \A f \in Fetchers : FetcherInv(f)'
<1>0. /\ TunnelsTyped /\ ThreadsTyped /\ BuilderInv(t) /\ None \notin Circuits
  BY TypeParts, ThreadsAre DEF TunnelInv
<1>1. /\ t \in Threads /\ Tunnel(t) \in Clients
      /\ pc[t] \in Building \cup {"ensure"}
      /\ \A u \in Threads : u # t => pc'[u] = pc[u]
      /\ UNCHANGED <<closed, down, hooked, via>>
      /\ Reuses(t) \/ StartsToBuild(t) \/ GoesOn(t) \/ GivesUp(t) \/ Builds(t)
  BY BuildMoves DEF clientVars
<1>2. pc[t] \notin {"new", "use", "take", "destroy", "ended"}
  BY <1>1 DEF Building
<1>3. /\ \A d : Installed(d)' <=> Installed(d)
      /\ \A d, l : At(d, l)' <=> At(d, l)
      /\ \A k \in Closers : pc'[k] = pc[k]
  BY <1>1, HooksStand, ThreadsAre
<1>4. ASSUME NEW c \in Clients PROVE CircuitInv(c)'
  <2>1. CASE circuit'[c] = circuit[c]
    <3>1. pc[c] \in {"use", "take"} => pc'[c] = pc[c]
      BY <1>1, <1>2, ThreadsAre
    <3>. QED BY <1>3, <2>1, <3>1 DEF TunnelInv, CircuitInv
  <2>2. CASE c = Tunnel(t) /\ Builds(t)
    <3>1. circuit'[c] = <<c, built[c] + 1>> /\ pc'[t] = "use" /\ c \notin down
      BY <1>0, <2>2 DEF Builds, TunnelsTyped
    <3>2. CASE t \in Clients
      BY <2>2, <3>1, <3>2, ThreadsAre DEF CircuitInv
    <3>3. CASE t \in Fetchers
      <4>1. via[t] = c /\ via[t] # None
        BY <1>1, <2>2, <3>3, ThreadsAre
      <4>2. Installed(c) \/ At(c, "channels")
        BY <3>1, <3>3, <4>1 DEF TunnelInv, FetcherInv
      <4>. QED BY <1>3, <3>1, <4>2 DEF CircuitInv
    <3>. QED BY <3>2, <3>3 DEF Builders
  <2>3. CASE circuit'[c] # circuit[c]
    <3>1. Builds(t)
      BY <1>1, <2>3 DEF Reuses, StartsToBuild, GoesOn, GivesUp, tunnelVars
    <3>2. c = Tunnel(t)
      BY <1>0, <2>3, <3>1 DEF Builds, TunnelsTyped
    <3>. QED BY <2>2, <3>1, <3>2
  <2>. QED BY <2>1, <2>3
<1>5. ASSUME NEW k \in Closers PROVE CloserInv(k)'
  BY <1>1, <1>3 DEF TunnelInv, CloserInv, Idle
<1>6. ASSUME NEW f \in Fetchers PROVE FetcherInv(f)'
  <2>0. FetcherInv(f) /\ f \in Threads /\ Tunnel(f) = via[f]
    BY ThreadsAre DEF TunnelInv
  <2>1. via[f] # None => pc'[via[f]] = "ended"
    <3>1. via[f] # None => via[f] \in Clients /\ pc[via[f]] = "ended"
      BY <1>0, <2>0 DEF FetcherInv, ThreadsTyped
    <3>. QED BY <1>1, <1>2, <3>1, ThreadsAre
  <2>2. live \subseteq live' /\ unlucky \subseteq unlucky'
    BY <1>1 DEF Reuses, StartsToBuild, GoesOn, GivesUp, Builds, tunnelVars
  <2>3. CASE f # t
    <3>1. pc'[f] = pc[f] /\ got'[f] = got[f]
      BY <1>0, <1>1, <2>0, <2>3
         DEF Reuses, StartsToBuild, GoesOn, GivesUp, Builds, ThreadsTyped
    <3>. QED BY <1>1, <1>3, <2>0, <2>1, <2>2, <3>1 DEF FetcherInv
  <2>4. CASE f = t
    <3>1. pc'[f] = "use" => got'[f] \in live'
      BY <1>0, <1>1, <2>4
         DEF Reuses, StartsToBuild, GoesOn, GivesUp, Builds, ThreadsTyped, Building, Fallback,
             tunnelVars
    <3>2. pc'[f] = "clear" => via[f] \in closed \/ f \in unlucky'
      BY <1>1, <2>0, <2>4
         DEF Reuses, StartsToBuild, GoesOn, GivesUp, Builds, Building, Fallback
    <3>. QED BY <1>1, <1>3, <2>0, <2>1, <3>1, <3>2 DEF FetcherInv
  <2>. QED BY <2>3, <2>4
<1>. QED BY <1>4, <1>5, <1>6

-------------------------------------------------------------------------------
(* The registry of tunnels                                                   *)

(* Dropped takes out the one entry that is c and keeps the order of others.  *)
LEMMA DroppedIs ==
    ASSUME tunnels \in Seq(Clients), NEW c \in Clients, NEW n \in DOMAIN tunnels, tunnels[n] = c,
           \A i, j \in DOMAIN tunnels : tunnels[i] = tunnels[j] => i = j
    PROVE  /\ Dropped(c) \in Seq(Clients)
           /\ Len(Dropped(c)) = Len(tunnels) - 1
           /\ \A i \in 1 .. Len(tunnels) - 1 :
                Dropped(c)[i] = IF i < n THEN tunnels[i] ELSE tunnels[i + 1]
<1>. DEFINE first == CHOOSE i \in DOMAIN tunnels :
                       tunnels[i] = c /\ \A j \in 1 .. i - 1 : tunnels[j] # c
            front == SubSeq(tunnels, 1, n - 1)
            rear == SubSeq(tunnels, n + 1, Len(tunnels))
<1>1. Len(tunnels) \in Nat /\ DOMAIN tunnels = 1..Len(tunnels) /\ n \in 1..Len(tunnels)
  BY LenProperties
<1>2. \A j \in 1 .. n - 1 : tunnels[j] # c
  BY <1>1
<1>3. first = n
  <2>1. first \in DOMAIN tunnels /\ tunnels[first] = c
    BY <1>2
  <2>. HIDE DEF first
  <2>. QED BY <2>1
<1>4. Dropped(c) = front \o rear
  BY <1>3, Zenon DEF Dropped
<1>5. /\ front \in Seq(Clients) /\ Len(front) = n - 1
      /\ \A i \in 1 .. n - 1 : front[i] = tunnels[i]
  BY <1>1, SubSeqProperties
<1>6. /\ rear \in Seq(Clients) /\ Len(rear) = Len(tunnels) - n
      /\ \A i \in 1 .. Len(tunnels) - n : rear[i] = tunnels[n + i]
  BY <1>1, SubSeqProperties
<1>. HIDE DEF first, front, rear
<1>7. /\ front \o rear \in Seq(Clients)
      /\ Len(front \o rear) = Len(tunnels) - 1
      /\ \A i \in 1 .. Len(front) + Len(rear) :
            (front \o rear)[i] = IF i <= Len(front) THEN front[i] ELSE rear[i - Len(front)]
  <2>1. /\ front \o rear \in Seq(Clients)
        /\ Len(front \o rear) = Len(front) + Len(rear)
        /\ \A i \in 1 .. Len(front) + Len(rear) :
              (front \o rear)[i] = IF i <= Len(front) THEN front[i] ELSE rear[i - Len(front)]
    <3>1. front \in Seq(Clients) /\ rear \in Seq(Clients)
      BY <1>5, <1>6
    <3>. QED BY <3>1, ConcatProperties, Zenon
  <2>2. Len(front) + Len(rear) = Len(tunnels) - 1
    BY <1>1, <1>5, <1>6
  <2>. QED BY <2>1, <2>2
<1>8. ASSUME NEW i \in 1 .. Len(tunnels) - 1
      PROVE  (front \o rear)[i] = IF i < n THEN tunnels[i] ELSE tunnels[i + 1]
  <2>1. CASE i < n
    <3>1. i \in 1 .. n - 1 /\ i <= Len(front) /\ i \in 1 .. Len(front) + Len(rear)
      BY <1>1, <1>5, <1>6, <2>1
    <3>. QED BY <1>5, <1>7, <2>1, <3>1
  <2>2. CASE ~(i < n)
    <3>1. /\ i \in 1 .. Len(front) + Len(rear) /\ ~(i <= Len(front))
          /\ i - Len(front) \in 1 .. Len(tunnels) - n /\ n + (i - Len(front)) = i + 1
      BY <1>1, <1>5, <1>6, <2>2
    <3>. QED BY <1>6, <1>7, <2>2, <3>1
  <2>. QED BY <2>1, <2>2
<1>. QED BY <1>4, <1>7, <1>8

(* The steps of the tunnel's own life change neither circuits nor fetches.   *)
LEMMA RestStands ==
    ASSUME TunnelInv, NEW t \in Threads, \A u \in Threads : u # t => pc'[u] = pc[u],
           UNCHANGED <<tunnelVars, tries, got, via, unlucky>>, closed \subseteq closed'
    PROVE  /\ \A u \in Threads : u # t => GotInv(u)'
           /\ \A u \in Builders : u # t => BuilderInv(u)'
           /\ pc[t] # "destroy" => TunnelCircuitOwned'
<1>. USE DEF tunnelVars
<1>1. \A u : Tunnel(u)' = Tunnel(u)
  BY TunnelStays
<1>2. ASSUME NEW u \in Threads, u # t PROVE GotInv(u)'
  BY <1>1, <1>2 DEF TunnelInv, GotInv
<1>3. ASSUME NEW u \in Builders, u # t PROVE BuilderInv(u)'
  BY <1>1, <1>3 DEF TunnelInv, BuilderInv, Threads
<1>4. ASSUME pc[t] # "destroy" PROVE TunnelCircuitOwned'
  BY <1>4 DEF TunnelInv, TunnelCircuitOwned
<1>. QED BY <1>2, <1>3, <1>4

LEMMA InstallKeeps ==
    ASSUME TunnelInv, NEW c \in Clients, InstallDirTunnel(c)
    PROVE  TunnelInv'
<1>. USE DEF dirVars
<1>0. /\ ClientsTyped /\ DirTyped /\ TunnelsTyped /\ ThreadsTyped /\ RolesInv /\ RegistryInv
      /\ c \in Threads /\ c \notin Closers /\ c \notin Fetchers /\ c \in Builders
      /\ Tunnel(c)' = c /\ TypeOK /\ None \notin Clients
  BY TypeParts, ThreadsAre DEF TunnelInv
<1>1. /\ \A u \in Threads : u # c => pc'[u] = pc[u]
      /\ pc[c] = "use"
      /\ UNCHANGED <<tunnelVars, tries, got, via, unlucky, closed, down, deaths>>
      /\ \/ /\ c \in closed /\ pc'[c] = "take" /\ UNCHANGED <<hooked, tunnels, active>>
            /\ lock' = [lock EXCEPT ![c] = c]
         \/ /\ c \notin closed /\ pc'[c] = "ended" /\ hooked' = hooked \cup {c} /\ lock' = lock
            /\ tunnels' = Append(tunnels, c) /\ active' = c
  BY <1>0, Moves DEF InstallDirTunnel
<1>2. TypeOK'
  <2>1. ClientsTyped'
    BY <1>0, <1>1 DEF ClientsTyped
  <2>2. DirTyped'
    BY <1>0, <1>1, AppendProperties DEF DirTyped
  <2>3. TunnelsTyped'
    BY <1>0, <1>1 DEF TunnelsTyped, tunnelVars
  <2>4. ThreadsTyped'
    <3>1. pc' \in [Threads -> PCs]
      BY <1>0 DEF InstallDirTunnel, Goto, ThreadsTyped, PCs
    <3>. QED BY <1>0, <1>1, <3>1 DEF ThreadsTyped
  <2>. QED BY <2>1, <2>2, <2>3, <2>4, TypePartsNext
<1>3. RolesInv'
  BY <1>0, <1>1, ThreadsAre DEF RolesInv, ClientPCs
<1>4. \A k \in Closers : pc'[k] = pc[k]
  BY <1>0, <1>1, ThreadsAre
<1>5. ~Installed(c)
  BY <1>0, <1>1 DEF RegistryInv
<1>6. /\ \A d, l : At(d, l)' <=> At(d, l)
      /\ \A d : Installed(d)' <=> Installed(d) \/ (d = c /\ c \notin closed)
  BY <1>1, <1>4 DEF At, Installed
<1>7. RegistryInv'
  <2>1. CASE c \in closed
    <3>1. \A d \in Clients : Installed(d)' => pc'[d] = "ended"
      BY <1>0, <1>1, <1>5, <1>6, <2>1, ThreadsAre DEF RegistryInv
    <3>. QED BY <1>0, <1>1, <1>6, <2>1, <3>1 DEF RegistryInv
  <2>2. CASE c \notin closed
    <3>. DEFINE n == Len(tunnels) + 1
    <3>1. /\ Len(tunnels) \in Nat /\ DOMAIN tunnels = 1..Len(tunnels)
          /\ DOMAIN tunnels' = 1..n /\ Len(tunnels') = n /\ tunnels'[n] = c /\ tunnels' # <<>>
          /\ \A i \in 1..Len(tunnels) : tunnels'[i] = tunnels[i]
      BY <1>0, <1>1, <2>2, LenProperties, AppendProperties DEF DirTyped
    <3>2. \A i \in DOMAIN tunnels : tunnels[i] # c /\ tunnels[i] \in Clients
      BY <1>0, <1>5, <3>1 DEF RegistryInv, DirTyped
    <3>3. \A i \in 1..n : i \in 1..Len(tunnels) \/ i = n
      BY <3>1
    <3>4. n \in 1..n /\ \A i \in 1..Len(tunnels) : i \in 1..n
      BY <3>1
    <3>. HIDE DEF n
    <3>5. \A i \in DOMAIN tunnels' : Installed(tunnels[i])'
      BY <1>0, <1>6, <2>2, <3>1, <3>3 DEF RegistryInv
    <3>6. \A i, j \in DOMAIN tunnels' : tunnels'[i] = tunnels'[j] => i = j
      BY <1>0, <3>1, <3>2, <3>3 DEF RegistryInv
    <3>7. \A d \in Clients : Installed(d)' => \E i \in DOMAIN tunnels' : tunnels'[i] = d
      BY <1>0, <1>6, <3>1, <3>4 DEF RegistryInv
    <3>8. \A d \in Clients : Installed(d)' => pc'[d] = "ended"
      BY <1>0, <1>1, <1>6, <2>2, ThreadsAre DEF RegistryInv
    <3>9. hooked' \cap closed' = {}
      BY <1>0, <1>1, <2>2 DEF RegistryInv
    <3>. QED BY <1>1, <2>2, <3>1, <3>5, <3>6, <3>7, <3>8, <3>9 DEF RegistryInv
  <2>. QED BY <2>1, <2>2
<1>8. TunnelCircuitOwned' /\ (\A t \in Threads : GotInv(t)') /\ \A t \in Builders : BuilderInv(t)'
  <2>1. GotInv(c)' /\ BuilderInv(c)'
    BY <1>0, <1>1 DEF GotInv, BuilderInv, Building
  <2>. QED BY <1>0, <1>1, <2>1, RestStands
<1>9. ASSUME NEW d \in Clients PROVE CircuitInv(d)'
  <2>1. d # c => pc'[d] = pc[d]
    BY <1>1, ThreadsAre
  <2>. QED BY <1>1, <1>6, <2>1 DEF TunnelInv, CircuitInv, tunnelVars
<1>10. ASSUME NEW k \in Closers PROVE CloserInv(k)'
  BY <1>1, <1>4 DEF TunnelInv, CloserInv, Idle
<1>11. ASSUME NEW f \in Fetchers PROVE FetcherInv(f)'
  <2>0. FetcherInv(f) /\ pc'[f] = pc[f] /\ (via[f] # None => via[f] \in Clients)
    BY <1>0, <1>1, ThreadsAre DEF TunnelInv, ThreadsTyped
  <2>1. via[f] # None => pc'[via[f]] = "ended"
    BY <1>1, <2>0, ThreadsAre DEF FetcherInv
  <2>. QED BY <1>1, <1>6, <2>0, <2>1 DEF FetcherInv, tunnelVars
<1>. QED BY <1>2, <1>3, <1>7, <1>8, <1>9, <1>10, <1>11 DEF TunnelInv

-------------------------------------------------------------------------------
(* TorClient.close                                                           *)

(* The steps of close() before the tunnel's circuit is taken out: the first  *)
(* three parts of what they keep.                                            *)
LEMMA CloserTypes ==
    ASSUME TunnelInv, NEW k \in Closers,
           CloseTables(k) \/ RestoreDirTunnel(k) \/ CloseChannels(k)
    PROVE  /\ k \in Threads /\ Of[k] \in Clients /\ k \notin Builders
           /\ \A u \in Threads : u # k => pc'[u] = pc[u]
           /\ UNCHANGED <<tunnelVars, tries, got, via, unlucky, deaths>>
           /\ ClientsTyped' /\ TunnelsTyped' /\ ThreadsTyped' /\ RolesInv'
           /\ GotInv(k)'
<1>0. /\ ClientsTyped /\ DirTyped /\ TunnelsTyped /\ ThreadsTyped /\ RolesInv /\ TypeOK
      /\ k \in Threads /\ Of[k] \in Clients /\ k \notin Builders /\ Tunnel(k)' = Of[k]
      /\ CloserInv(k)
  BY TypeParts, ThreadsAre DEF TunnelInv
<1>. USE DEF CloseTables, RestoreDirTunnel, CloseChannels, clientVars, dirVars
<1>1. /\ \A u \in Threads : u # k => pc'[u] = pc[u]
      /\ UNCHANGED <<tunnelVars, tries, got, via, unlucky, deaths>>
  BY <1>0, Moves
<1>2. ClientsTyped'
  <2>1. CASE CloseTables(k)
    BY <1>0, <2>1 DEF ClientsTyped
  <2>2. CASE RestoreDirTunnel(k)
    BY <1>0, <2>2 DEF ClientsTyped
  <2>3. CASE CloseChannels(k)
    BY <1>0, <2>3 DEF ClientsTyped, CloserInv
  <2>. QED BY <2>1, <2>2, <2>3
<1>3. TunnelsTyped'
  BY <1>0, <1>1 DEF TunnelsTyped, tunnelVars
<1>4. ThreadsTyped'
  <2>1. pc' \in [Threads -> PCs]
    BY <1>0 DEF Goto, ThreadsTyped, PCs
  <2>. QED BY <1>0, <1>1, <2>1 DEF ThreadsTyped
<1>5. pc'[k] \in {"restore", "channels", "only channels", "take", "ended"}
  BY <1>0, Moves
<1>6. RolesInv'
  BY <1>0, <1>1, <1>5, ThreadsAre DEF RolesInv, CloserPCs
<1>7. GotInv(k)'
  <2>1. pc'[k] = "take" => Of[k] \in closed /\ closed' = closed
    <3>1. CASE CloseTables(k) \/ RestoreDirTunnel(k)
      <4>1. \E l \in {"ended", "restore", "only channels", "channels"} : Goto(k, l)
        BY <3>1
      <4>2. pc'[k] # "take"
        BY <1>0, <4>1, Moves
      <4>. QED BY <4>2
    <3>2. CASE CloseChannels(k)
      <4>1. pc[k] # "new" /\ closed' = closed
        BY <3>2
      <4>. QED BY <1>0, <4>1 DEF CloserInv
    <3>. QED BY <3>1, <3>2
  <2>. QED BY <1>0, <1>5, <2>1 DEF GotInv
<1>. QED BY <1>0, <1>1, <1>2, <1>3, <1>4, <1>6, <1>7

LEMMA CloseTablesKeeps ==
    ASSUME TunnelInv, NEW k \in Closers, CloseTables(k)
    PROVE  TunnelInv'
<1>. DEFINE c == Of[k]
<1>0. /\ k \in Threads /\ c \in Clients /\ k \notin Builders
      /\ \A u \in Threads : u # k => pc'[u] = pc[u]
      /\ UNCHANGED <<tunnelVars, tries, got, via, unlucky, deaths>>
      /\ ClientsTyped' /\ TunnelsTyped' /\ ThreadsTyped' /\ RolesInv' /\ GotInv(k)'
  BY CloserTypes
<1>1. /\ DirTyped /\ ClientsTyped /\ ThreadsTyped /\ RegistryInv /\ TypeOK
      /\ \A j \in Closers : CloserInv(j)
  BY TypeParts DEF TunnelInv
<1>2. /\ pc[k] = "new" /\ closed' = closed \cup {c} /\ hooked' = hooked \ {c}
      /\ pc'[k] = IF c \in closed THEN "ended"
                  ELSE IF c \in hooked THEN "restore" ELSE "only channels"
      /\ UNCHANGED <<down, tunnels, active>>
  BY <1>0, <1>1, Moves DEF CloseTables, dirVars
<1>3. TypeOK'
  BY <1>0, <1>1, <1>2, TypePartsNext DEF DirTyped
<1>4. /\ \A j \in Closers : j \in Threads /\ (j # k => pc'[j] = pc[j])
      /\ \A d \in Clients : d \in Threads /\ pc'[d] = pc[d]
  BY <1>0, ThreadsAre
<1>5. ASSUME NEW d PROVE Installed(d)' <=> Installed(d)
  <2>1. CASE d # c
    BY <1>2, <1>4, <2>1 DEF Installed
  <2>2. CASE d = c /\ c \in hooked
    <3>1. c \notin closed
      BY <1>1, <2>2 DEF RegistryInv
    <3>. QED BY <1>2, <2>2, <3>1 DEF Installed
  <2>3. CASE d = c /\ c \notin hooked
    <3>1. pc'[k] # "restore" /\ hooked' = hooked
      BY <1>2, <2>3
    <3>. QED BY <1>2, <1>4, <3>1 DEF Installed
  <2>. QED BY <2>1, <2>2, <2>3
<1>6. \A d : /\ At(d, "channels")' <=> At(d, "channels")
             /\ At(d, "take")' <=> At(d, "take")
  <2>1. pc'[k] \notin {"channels", "take"}
    BY <1>2
  <2>. QED BY <1>2, <1>4, <2>1 DEF At
<1>7. RegistryInv'
  <2>1. hooked' \cap closed' = {}
    BY <1>1, <1>2 DEF RegistryInv
  <2>2. \A d \in Clients : Installed(d)' => pc'[d] = "ended"
    BY <1>1, <1>4, <1>5 DEF RegistryInv
  <2>. QED BY <1>1, <1>2, <1>5, <2>1, <2>2 DEF RegistryInv
<1>8. TunnelCircuitOwned' /\ (\A t \in Threads : GotInv(t)') /\ \A t \in Builders : BuilderInv(t)'
  BY <1>0, <1>2, RestStands
<1>9. ASSUME NEW d \in Clients PROVE CircuitInv(d)'
  BY <1>0, <1>4, <1>5, <1>6 DEF TunnelInv, CircuitInv, tunnelVars
<1>10. ASSUME NEW j \in Closers PROVE CloserInv(j)'
  <2>1. CASE c \in closed
    <3>1. pc'[k] = "ended" /\ closed' = closed
      BY <1>2, <2>1
    <3>. QED BY <1>1, <1>2, <1>4, <2>1, <3>1 DEF CloserInv, Idle
  <2>2. CASE c \notin closed
    <3>1. \A i \in Closers : Of[i] = c => pc[i] = "new"
      BY <1>1, <2>2 DEF CloserInv
    <3>2. c \notin down
      BY <1>1, <2>2 DEF ClientsTyped
    <3>3. CASE j = k
      BY <1>2, <1>4, <3>1, <3>2, <3>3 DEF CloserInv, Idle
    <3>4. CASE j # k
      <4>1. pc[j] # "new" => Of[j] # c
        BY <3>1
      <4>. QED BY <1>1, <1>2, <1>4, <3>4, <4>1 DEF CloserInv, Idle
    <3>. QED BY <3>3, <3>4
  <2>. QED BY <2>1, <2>2
<1>11. ASSUME NEW f \in Fetchers PROVE FetcherInv(f)'
  <2>0. FetcherInv(f) /\ pc'[f] = pc[f] /\ (via[f] # None => via[f] \in Clients)
    BY <1>0, <1>1, ThreadsAre DEF TunnelInv, ThreadsTyped
  <2>. QED BY <1>0, <1>2, <1>4, <1>5, <1>6, <2>0 DEF FetcherInv, tunnelVars
<1>. QED BY <1>0, <1>3, <1>7, <1>8, <1>9, <1>10, <1>11 DEF TunnelInv

LEMMA RestoreKeeps ==
    ASSUME TunnelInv, NEW k \in Closers, RestoreDirTunnel(k)
    PROVE  TunnelInv'
<1>. DEFINE c == Of[k]
<1>0. /\ k \in Threads /\ c \in Clients /\ k \notin Builders
      /\ \A u \in Threads : u # k => pc'[u] = pc[u]
      /\ UNCHANGED <<tunnelVars, tries, got, via, unlucky, deaths>>
      /\ ClientsTyped' /\ TunnelsTyped' /\ ThreadsTyped' /\ RolesInv' /\ GotInv(k)'
  BY CloserTypes
<1>1. /\ DirTyped /\ ClientsTyped /\ ThreadsTyped /\ RegistryInv /\ TypeOK
      /\ \A j \in Closers : CloserInv(j)
  BY TypeParts DEF TunnelInv
<1>2. /\ pc[k] = "restore" /\ pc'[k] = "channels"
      /\ UNCHANGED <<closed, down, hooked>>
      /\ tunnels' = Dropped(c)
      /\ active' = IF tunnels' = <<>> THEN None ELSE tunnels'[Len(tunnels')]
  BY <1>0, <1>1, Moves DEF RestoreDirTunnel, clientVars
<1>4. /\ \A j \in Closers : j \in Threads /\ (j # k => pc'[j] = pc[j])
      /\ \A d \in Clients : d \in Threads /\ pc'[d] = pc[d]
  BY <1>0, ThreadsAre
<1>5. ASSUME NEW d PROVE Installed(d)' <=> Installed(d) /\ d # c
  <2>1. c \notin hooked
    BY <1>1, <1>2 DEF RegistryInv, CloserInv
  <2>2. \A j \in Closers : Of[j] = c /\ j # k => pc[j] # "restore"
    BY <1>1, <1>2 DEF CloserInv, Idle
  <2>3. CASE d = c
    BY <1>2, <1>4, <2>1, <2>2, <2>3 DEF Installed
  <2>4. CASE d # c
    BY <1>2, <1>4, <2>4 DEF Installed
  <2>. QED BY <2>3, <2>4
<1>6. /\ \A d : At(d, "channels")' <=> At(d, "channels") \/ d = c
      /\ \A d : At(d, "take")' <=> At(d, "take")
  BY <1>2, <1>4 DEF At
<1>7. Installed(c)
  BY <1>2 DEF Installed
<1>8. PICK n \in DOMAIN tunnels : tunnels[n] = c
  BY <1>0, <1>1, <1>7 DEF RegistryInv
<1>9. /\ tunnels' \in Seq(Clients)
      /\ Len(tunnels) \in Nat /\ DOMAIN tunnels = 1..Len(tunnels)
      /\ DOMAIN tunnels' = 1..(Len(tunnels) - 1)
      /\ \A i \in 1 .. Len(tunnels) - 1 :
           tunnels'[i] = IF i < n THEN tunnels[i] ELSE tunnels[i + 1]
  <2>1. /\ tunnels' \in Seq(Clients) /\ Len(tunnels') = Len(tunnels) - 1
        /\ \A i \in 1 .. Len(tunnels) - 1 :
             tunnels'[i] = IF i < n THEN tunnels[i] ELSE tunnels[i + 1]
    BY <1>0, <1>1, <1>2, <1>8, DroppedIs DEF RegistryInv, DirTyped
  <2>. QED BY <1>1, <2>1, LenProperties DEF DirTyped
(* Each entry that is left stood at one place other than n before.           *)
<1>. DEFINE at == [i \in 1 .. Len(tunnels) - 1 |-> IF i < n THEN i ELSE i + 1]
<1>10. /\ \A i \in DOMAIN tunnels' : at[i] \in DOMAIN tunnels /\ at[i] # n /\ tunnels'[i] = tunnels[at[i]]
       /\ \A i, j \in DOMAIN tunnels' : at[i] = at[j] => i = j
       /\ \A m \in DOMAIN tunnels : m # n => \E i \in DOMAIN tunnels' : at[i] = m
  <2>1. n \in 1..Len(tunnels)
    BY <1>8, <1>9
  <2>2. ASSUME NEW i \in DOMAIN tunnels'
        PROVE  at[i] \in DOMAIN tunnels /\ at[i] # n /\ tunnels'[i] = tunnels[at[i]]
    BY <1>9, <2>1, <2>2
  <2>3. ASSUME NEW i \in DOMAIN tunnels', NEW j \in DOMAIN tunnels', at[i] = at[j] PROVE i = j
    BY <1>9, <2>1, <2>3
  <2>4. ASSUME NEW m \in DOMAIN tunnels, m # n PROVE \E i \in DOMAIN tunnels' : at[i] = m
    <3>1. CASE m < n
      <4>1. m \in DOMAIN tunnels' /\ at[m] = m
        BY <1>9, <2>1, <3>1
      <4>. QED BY <4>1
    <3>2. CASE ~(m < n)
      <4>1. m - 1 \in DOMAIN tunnels' /\ at[m - 1] = m
        BY <1>9, <2>1, <2>4, <3>2
      <4>. QED BY <4>1
    <3>. QED BY <3>1, <3>2
  <2>. QED BY <2>2, <2>3, <2>4
<1>. HIDE DEF at
<1>11. RegistryInv'
  <2>1. \A i \in DOMAIN tunnels' : tunnels'[i] # c
    BY <1>1, <1>8, <1>10 DEF RegistryInv
  <2>2. \A i \in DOMAIN tunnels' : Installed(tunnels[i])'
    BY <1>1, <1>5, <1>10, <2>1 DEF RegistryInv
  <2>3. \A i, j \in DOMAIN tunnels' : tunnels'[i] = tunnels'[j] => i = j
    BY <1>1, <1>10 DEF RegistryInv
  <2>4. ASSUME NEW d \in Clients, Installed(d)' PROVE \E i \in DOMAIN tunnels' : tunnels'[i] = d
    <3>1. Installed(d) /\ d # c
      BY <1>5, <2>4
    <3>2. PICK m \in DOMAIN tunnels : tunnels[m] = d
      BY <1>1, <3>1 DEF RegistryInv
    <3>3. m # n
      BY <1>8, <3>1, <3>2
    <3>. QED BY <1>10, <3>2, <3>3
  <2>5. \A d \in Clients : Installed(d)' => pc'[d] = "ended"
    BY <1>1, <1>4, <1>5 DEF RegistryInv
  <2>. QED BY <1>1, <1>2, <2>2, <2>3, <2>4, <2>5 DEF RegistryInv
<1>12. TypeOK'
  <2>1. DirTyped'
    BY <1>2, <1>9, LenProperties, EmptySeq DEF DirTyped
  <2>. QED BY <1>0, <2>1, TypePartsNext
<1>13. TunnelCircuitOwned' /\ (\A t \in Threads : GotInv(t)') /\ \A t \in Builders : BuilderInv(t)'
  BY <1>0, <1>2, RestStands
<1>14. ASSUME NEW d \in Clients PROVE CircuitInv(d)'
  BY <1>0, <1>4, <1>5, <1>6 DEF TunnelInv, CircuitInv, tunnelVars
<1>15. ASSUME NEW j \in Closers PROVE CloserInv(j)'
  BY <1>1, <1>2, <1>4 DEF CloserInv, Idle
<1>16. ASSUME NEW f \in Fetchers PROVE FetcherInv(f)'
  <2>0. FetcherInv(f) /\ pc'[f] = pc[f] /\ (via[f] # None => via[f] \in Clients)
    BY <1>0, <1>1, ThreadsAre DEF TunnelInv, ThreadsTyped
  <2>. QED BY <1>0, <1>2, <1>4, <1>5, <1>6, <2>0 DEF FetcherInv, tunnelVars
<1>. QED BY <1>0, <1>11, <1>12, <1>13, <1>14, <1>15, <1>16 DEF TunnelInv

LEMMA CloseChannelsKeeps ==
    ASSUME TunnelInv, NEW k \in Closers, CloseChannels(k)
    PROVE  TunnelInv'
<1>. DEFINE c == Of[k]
<1>0. /\ k \in Threads /\ c \in Clients /\ k \notin Builders
      /\ \A u \in Threads : u # k => pc'[u] = pc[u]
      /\ UNCHANGED <<tunnelVars, tries, got, via, unlucky, deaths>>
      /\ ClientsTyped' /\ TunnelsTyped' /\ ThreadsTyped' /\ RolesInv' /\ GotInv(k)'
  BY CloserTypes
<1>1. /\ DirTyped /\ ClientsTyped /\ ThreadsTyped /\ RegistryInv /\ TypeOK
      /\ \A j \in Closers : CloserInv(j)
  BY TypeParts DEF TunnelInv
<1>2. /\ pc[k] \in {"channels", "only channels"}
      /\ pc'[k] = IF pc[k] = "channels" THEN "take" ELSE "ended"
      /\ down' = down \cup {c}
      /\ UNCHANGED <<closed, hooked, tunnels, active>>
  BY <1>0, <1>1, Moves DEF CloseChannels, dirVars
<1>4. /\ \A j \in Closers : j \in Threads /\ (j # k => pc'[j] = pc[j])
      /\ \A d \in Clients : d \in Threads /\ pc'[d] = pc[d]
  BY <1>0, ThreadsAre
<1>5. /\ \A d : Installed(d)' <=> Installed(d)
      /\ \A d : d # c => (At(d, "channels")' <=> At(d, "channels"))
      /\ \A d : At(d, "take") => At(d, "take")'
  BY <1>2, <1>4 DEF Installed, At
<1>6. At(c, "channels") => At(c, "take")'
  <2>1. \A j \in Closers : Of[j] = c /\ j # k => pc[j] # "channels"
    BY <1>1, <1>2 DEF CloserInv, Idle
  <2>. QED BY <1>2, <1>4, <2>1 DEF At
<1>7. RegistryInv'
  BY <1>1, <1>2, <1>4, <1>5 DEF RegistryInv
<1>8. TypeOK'
  BY <1>0, <1>1, <1>2, TypePartsNext DEF DirTyped
<1>9. TunnelCircuitOwned' /\ (\A t \in Threads : GotInv(t)') /\ \A t \in Builders : BuilderInv(t)'
  BY <1>0, <1>2, RestStands
<1>10. ASSUME NEW d \in Clients PROVE CircuitInv(d)'
  BY <1>0, <1>4, <1>5, <1>6 DEF TunnelInv, CircuitInv, tunnelVars
<1>11. ASSUME NEW j \in Closers PROVE CloserInv(j)'
  <2>1. Of[j] = c /\ j # k => Idle(j)
    BY <1>1, <1>2 DEF CloserInv, Idle
  <2>. QED BY <1>1, <1>2, <1>4, <2>1 DEF CloserInv, Idle
<1>12. ASSUME NEW f \in Fetchers PROVE FetcherInv(f)'
  <2>0. FetcherInv(f) /\ pc'[f] = pc[f] /\ (via[f] # None => via[f] \in Clients)
    BY <1>0, <1>1, ThreadsAre DEF TunnelInv, ThreadsTyped
  <2>. QED BY <1>0, <1>2, <1>4, <1>5, <2>0 DEF FetcherInv, tunnelVars
<1>. QED BY <1>0, <1>7, <1>8, <1>9, <1>10, <1>11, <1>12 DEF TunnelInv

-------------------------------------------------------------------------------
(* _DirTunnel.close, by a closer or by the thread that bootstraps            *)

LEMMA TakeDestroyTypes ==
    ASSUME TunnelInv, NEW t \in Clients \cup Closers, TunnelCloseStep(t)
    PROVE  /\ t \in Threads /\ Tunnel(t) \in Clients
           /\ \A u \in Threads : u # t => pc'[u] = pc[u] /\ (got'[u] = got[u])
           /\ UNCHANGED <<closed, down, hooked, tunnels, active, busy, built, tries, via, unlucky>>
           /\ TypeOK' /\ RolesInv' /\ RegistryInv'
           /\ \A d : Installed(d)' <=> Installed(d)
           /\ \A d : At(d, "channels")' <=> At(d, "channels")
           /\ \A j \in Closers : CloserInv(j)'
<1>0. /\ ClientsTyped /\ DirTyped /\ TunnelsTyped /\ ThreadsTyped /\ RolesInv /\ TypeOK
      /\ RegistryInv
      /\ t \in Threads /\ Tunnel(t) \in Clients
  BY TypeParts, ThreadsAre DEF TunnelInv
<1>. USE DEF TunnelCloseStep, TakeCircuit, DestroyCircuit, clientVars, dirVars
<1>1. /\ \A u \in Threads : u # t => pc'[u] = pc[u] /\ got'[u] = got[u]
      /\ UNCHANGED <<closed, down, hooked, tunnels, active, busy, built, tries, via, unlucky, deaths>>
      /\ \/ pc[t] = "take" /\ pc'[t] = "destroy"
         \/ pc[t] = "destroy" /\ pc'[t] = "ended"
  BY <1>0, Moves DEF ThreadsTyped
<1>2. TypeOK'
  <2>1. ClientsTyped'
    <3>1. CASE TakeCircuit(t)
      BY <1>0, <3>1 DEF ClientsTyped
    <3>2. CASE DestroyCircuit(t)
      <4>1. lock'= [lock EXCEPT ![Tunnel(t)] = IF lock[Tunnel(t)] = t THEN None ELSE lock[Tunnel(t)]]
        BY <3>2
      <4>. QED BY <1>0, <1>1, <4>1 DEF ClientsTyped
    <3>. QED BY <3>1, <3>2
  <2>2. TunnelsTyped'
    BY <1>0, <1>1 DEF TunnelsTyped
  <2>3. ThreadsTyped'
    <3>1. pc' \in [Threads -> PCs]
      BY <1>0 DEF Goto, ThreadsTyped, PCs
    <3>2. got' \in [Threads -> Circuits \cup {None}]
      BY <1>0 DEF ThreadsTyped, TunnelsTyped
    <3>. QED BY <1>0, <1>1, <3>1, <3>2 DEF ThreadsTyped
  <2>4. DirTyped'
    BY <1>0, <1>1 DEF DirTyped
  <2>. QED BY <2>1, <2>2, <2>3, <2>4, TypePartsNext
<1>3. RolesInv'
  <2>1. pc'[t] \in {"destroy", "ended"}
    BY <1>1
  <2>2. \A f \in Fetchers : pc'[f] \in FetcherPCs
    BY <1>0, <1>1, ThreadsAre DEF RolesInv
  <2>3. \A c \in Clients : pc'[c] \in ClientPCs
    BY <1>0, <1>1, <2>1, ThreadsAre DEF RolesInv, ClientPCs
  <2>4. \A k \in Closers : pc'[k] \in CloserPCs
    BY <1>0, <1>1, <2>1, ThreadsAre DEF RolesInv, CloserPCs
  <2>. QED BY <2>2, <2>3, <2>4 DEF RolesInv
<1>4. /\ \A d : Installed(d)' <=> Installed(d)
      /\ \A d : At(d, "channels")' <=> At(d, "channels")
  BY <1>1, ThreadsAre DEF Installed, At
<1>5. RegistryInv'
  <2>1. \A d \in Clients : Installed(d)' => pc'[d] = "ended"
    BY <1>0, <1>1, <1>4, ThreadsAre DEF RegistryInv
  <2>. QED BY <1>0, <1>1, <1>4, <2>1 DEF RegistryInv
<1>6. ASSUME NEW j \in Closers PROVE CloserInv(j)'
  <2>1. \A i \in Closers : CloserInv(i) /\ i \in Threads
    BY ThreadsAre DEF TunnelInv
  <2>. QED BY <1>1, <2>1 DEF CloserInv, Idle
<1>. QED BY <1>0, <1>1, <1>2, <1>3, <1>4, <1>5, <1>6

LEMMA TakeKeeps ==
    ASSUME TunnelInv, NEW t \in Clients \cup Closers, TakeCircuit(t)
    PROVE  TunnelInv'
<1>. DEFINE c == Tunnel(t)
<1>0. /\ t \in Threads /\ c \in Clients /\ None \notin Builders
      /\ \A u \in Threads : u # t => pc'[u] = pc[u] /\ (got'[u] = got[u])
      /\ UNCHANGED <<closed, down, hooked, tunnels, active, busy, built, tries, via, unlucky>>
      /\ TypeOK' /\ RolesInv' /\ RegistryInv'
      /\ \A d : Installed(d)' <=> Installed(d)
      /\ \A d : At(d, "channels")' <=> At(d, "channels")
      /\ \A j \in Closers : CloserInv(j)'
  BY TakeDestroyTypes, ThreadsAre DEF TunnelCloseStep
<1>1. TunnelsTyped /\ ThreadsTyped /\ TypeOK /\ \A u : Tunnel(u)' = Tunnel(u)
  BY <1>0, TypeParts, TunnelStays DEF TunnelInv
<1>2. /\ pc[t] = "take" /\ pc'[t] = "destroy" /\ busy[c] = None /\ live' = live
      /\ got'[t] = circuit[c] /\ circuit' = [circuit EXCEPT ![c] = None]
  BY <1>0, <1>1, Moves DEF TakeCircuit, ThreadsTyped
<1>3. TunnelCircuitOwned'
  <2>1. ASSUME NEW r \in live
        PROVE  circuit'[r[1]] = r \/ \E u \in Threads : pc'[u] = "destroy" /\ got'[u] = r
    <3>1. CASE circuit[r[1]] = r /\ r[1] # c
      <4>1. r[1] \in Clients
        BY <1>1, <2>1 DEF TunnelsTyped, Circuits
      <4>. QED BY <1>1, <1>2, <3>1, <4>1 DEF TunnelsTyped
    <3>2. CASE circuit[r[1]] = r /\ r[1] = c
      BY <1>0, <1>2, <3>2
    <3>3. CASE \E u \in Threads : pc[u] = "destroy" /\ got[u] = r
      BY <1>0, <1>2, <3>3
    <3>. QED BY <2>1, <3>1, <3>2, <3>3 DEF TunnelInv, TunnelCircuitOwned
  <2>. QED BY <1>2, <2>1 DEF TunnelCircuitOwned
<1>4. ASSUME NEW u \in Threads PROVE GotInv(u)'
  <2>1. CASE u # t
    BY <1>0, <1>1, <2>1 DEF TunnelInv, GotInv
  <2>2. CASE u = t
    <3>1. circuit[c] = None \/ circuit[c][1] = c
      BY <1>0 DEF TunnelInv, CircuitInv
    <3>2. c \in closed
      BY <1>0, <1>2 DEF TunnelInv, GotInv
    <3>. QED BY <1>0, <1>1, <1>2, <2>2, <3>1, <3>2 DEF GotInv
  <2>. QED BY <2>1, <2>2
<1>5. ASSUME NEW u \in Builders PROVE BuilderInv(u)'
  <2>0. u \in Threads /\ BuilderInv(u)
    BY DEF TunnelInv, Threads
  <2>1. CASE u = t
    BY <1>2, <2>1 DEF BuilderInv, Building
  <2>2. CASE u # t /\ pc[u] \in Building
    <3>1. busy[Tunnel(u)] = u /\ Tunnel(u) \in Clients /\ circuit[Tunnel(u)] \notin live
      BY <2>0, <2>2 DEF BuilderInv
    <3>2. Tunnel(u) # c
      BY <1>0, <1>2, <3>1
    <3>3. circuit'[Tunnel(u)] = circuit[Tunnel(u)]
      BY <1>1, <1>2, <3>1, <3>2 DEF TunnelsTyped
    <3>. QED BY <1>0, <1>1, <1>2, <2>0, <2>2, <3>1, <3>3 DEF BuilderInv
  <2>3. CASE u # t /\ pc[u] \notin Building
    BY <1>0, <1>1, <2>0, <2>3 DEF BuilderInv, Building
  <2>. QED BY <2>1, <2>2, <2>3
<1>6. ASSUME NEW d \in Clients PROVE CircuitInv(d)'
  <2>1. CASE d = c
    BY <1>0, <1>1, <1>2, <2>1 DEF CircuitInv, TunnelsTyped
  <2>2. CASE d # c
    <3>1. /\ circuit'[d] = circuit[d] /\ d \in Threads
          /\ d # t
      BY <1>1, <1>2, <2>2, ThreadsAre DEF TunnelsTyped
    <3>2. At(d, "take") => At(d, "take")'
      BY <1>0, <2>2, ThreadsAre DEF At
    <3>. QED BY <1>0, <3>1, <3>2 DEF TunnelInv, CircuitInv
  <2>. QED BY <2>1, <2>2
<1>7. ASSUME NEW f \in Fetchers PROVE FetcherInv(f)'
  <2>0. FetcherInv(f) /\ f \in Threads /\ f # t /\ (via[f] # None => via[f] \in Threads)
    BY <1>1, ThreadsAre DEF TunnelInv, ThreadsTyped
  <2>1. via[f] # None => pc'[via[f]] = "ended"
    BY <1>0, <1>2, <2>0 DEF FetcherInv
  <2>. QED BY <1>0, <1>2, <2>0, <2>1 DEF FetcherInv
<1>. QED BY <1>0, <1>3, <1>4, <1>5, <1>6, <1>7 DEF TunnelInv

LEMMA DestroyKeeps ==
    ASSUME TunnelInv, NEW t \in Clients \cup Closers, DestroyCircuit(t)
    PROVE  TunnelInv'
<1>. DEFINE c == Tunnel(t)
<1>0. /\ t \in Threads /\ c \in Clients
      /\ \A u \in Threads : u # t => pc'[u] = pc[u] /\ (got'[u] = got[u])
      /\ UNCHANGED <<closed, down, hooked, tunnels, active, busy, built, tries, via, unlucky>>
      /\ TypeOK' /\ RolesInv' /\ RegistryInv'
      /\ \A d : Installed(d)' <=> Installed(d)
      /\ \A d : At(d, "channels")' <=> At(d, "channels")
      /\ \A j \in Closers : CloserInv(j)'
  BY TakeDestroyTypes DEF TunnelCloseStep
<1>1. /\ TunnelsTyped /\ ThreadsTyped /\ TypeOK /\ \A u : Tunnel(u)' = Tunnel(u)
      /\ None \notin Circuits
  BY <1>0, TypeParts, TunnelStays, ThreadsAre DEF TunnelInv
<1>2. /\ pc[t] = "destroy" /\ pc'[t] = "ended" /\ live' = live \ {got[t]}
      /\ UNCHANGED <<circuit, got>>
  BY <1>0, <1>1, Moves DEF DestroyCircuit
<1>3. TunnelCircuitOwned'
  BY <1>0, <1>2 DEF TunnelInv, TunnelCircuitOwned
<1>4. ASSUME NEW u \in Threads PROVE GotInv(u)'
  BY <1>0, <1>1, <1>2 DEF TunnelInv, GotInv
<1>5. ASSUME NEW u \in Builders PROVE BuilderInv(u)'
  <2>0. u \in Threads /\ BuilderInv(u)
    BY DEF TunnelInv, Threads
  <2>. QED BY <1>0, <1>1, <1>2, <2>0 DEF BuilderInv, Building
<1>6. ASSUME NEW d \in Clients PROVE CircuitInv(d)'
  <2>1. /\ pc[d] \in {"use", "take"} => pc'[d] = pc[d]
        /\ At(d, "take") => At(d, "take")'
    BY <1>0, <1>2, ThreadsAre DEF At
  <2>. QED BY <1>0, <1>2, <2>1 DEF TunnelInv, CircuitInv
<1>7. ASSUME NEW f \in Fetchers PROVE FetcherInv(f)'
  <2>0. /\ FetcherInv(f) /\ f \in Threads /\ f # t /\ (via[f] # None => via[f] \in Threads)
        /\ Tunnel(f) = via[f]
    BY <1>1, ThreadsAre DEF TunnelInv, ThreadsTyped
  <2>1. via[f] # None => pc'[via[f]] = "ended"
    BY <1>0, <1>2, <2>0 DEF FetcherInv
  <2>2. pc[f] = "use" /\ got[f] = got[t] => via[f] \in closed
    <3>1. c \in closed /\ (got[t] = None \/ got[t][1] = c)
      BY <1>0, <1>2 DEF TunnelInv, GotInv
    <3>2. pc[f] = "use" => got[f] # None /\ got[f][1] = via[f]
      BY <1>1, <2>0 DEF TunnelInv, GotInv
    <3>. QED BY <3>1, <3>2
  <2>. QED BY <1>0, <1>2, <2>0, <2>1, <2>2 DEF FetcherInv
<1>. QED BY <1>0, <1>3, <1>4, <1>5, <1>6, <1>7 DEF TunnelInv

-------------------------------------------------------------------------------
(* The fetches, and the circuits that die                                    *)

LEMMA FetchDirKeeps ==
    ASSUME TunnelInv, NEW f \in Fetchers, FetchDir(f)
    PROVE  TunnelInv'
<1>0. /\ ClientsTyped /\ DirTyped /\ TunnelsTyped /\ ThreadsTyped /\ RolesInv /\ TypeOK
      /\ RegistryInv /\ f \in Threads /\ f \notin Closers /\ f \notin Clients
  BY TypeParts, ThreadsAre DEF TunnelInv
<1>1. /\ \A u \in Threads : u # f => pc'[u] = pc[u]
      /\ pc[f] = "new" /\ pc'[f] = IF active = None THEN "clear" ELSE "ensure"
      /\ via' = [via EXCEPT ![f] = active]
      /\ UNCHANGED <<closed, down, lock, hooked, tunnels, active, busy, circuit, live, built,
                     tries, got, unlucky, deaths>>
  BY <1>0, Moves DEF FetchDir, clientVars, dirVars, tunnelVars
<1>2. TypeOK' /\ RolesInv'
  <2>1. pc' \in [Threads -> PCs]
    BY <1>0 DEF FetchDir, Goto, ThreadsTyped, PCs
  <2>2. ThreadsTyped'
    BY <1>0, <1>1, <2>1 DEF ThreadsTyped, DirTyped
  <2>3. ClientsTyped' /\ DirTyped' /\ TunnelsTyped'
    BY <1>0, <1>1 DEF ClientsTyped, DirTyped, TunnelsTyped
  <2>4. RolesInv'
    BY <1>0, <1>1, ThreadsAre DEF RolesInv, FetcherPCs
  <2>. QED BY <2>2, <2>3, <2>4, TypePartsNext
<1>3. /\ \A d : Installed(d)' <=> Installed(d)
      /\ \A d, l : At(d, l)' <=> At(d, l)
      /\ \A j \in Closers : pc'[j] = pc[j]
      /\ \A d \in Clients : pc'[d] = pc[d]
  BY <1>1, HooksStand, ThreadsAre
<1>4. \A u \in Threads : u # f => Tunnel(u)' = Tunnel(u)
  BY <1>0, <1>1 DEF Tunnel, ThreadsTyped, Threads, Builders
<1>5. RegistryInv' /\ TunnelCircuitOwned'
  <2>1. RegistryInv'
    BY <1>0, <1>1, <1>3 DEF RegistryInv
  <2>2. TunnelCircuitOwned'
    BY <1>1 DEF TunnelInv, TunnelCircuitOwned
  <2>. QED BY <2>1, <2>2
<1>6. ASSUME NEW u \in Threads PROVE GotInv(u)'
  BY <1>1, <1>4 DEF TunnelInv, GotInv
<1>7. ASSUME NEW u \in Builders PROVE BuilderInv(u)'
  <2>1. CASE u # f
    BY <1>1, <1>4, <2>1 DEF TunnelInv, BuilderInv, Threads
  <2>2. CASE u = f
    <3>1. Tunnel(f)' = active
      BY <1>0, <1>1, ThreadsAre DEF ThreadsTyped
    <3>. QED BY <1>0, <1>1, <2>2, <3>1 DEF BuilderInv, Building, DirTyped
  <2>. QED BY <2>1, <2>2
<1>8. ASSUME NEW d \in Clients PROVE CircuitInv(d)'
  BY <1>1, <1>3 DEF TunnelInv, CircuitInv
<1>9. ASSUME NEW j \in Closers PROVE CloserInv(j)'
  BY <1>1, <1>3 DEF TunnelInv, CloserInv, Idle
<1>10. ASSUME NEW g \in Fetchers PROVE FetcherInv(g)'
  <2>1. CASE g # f
    <3>1. /\ FetcherInv(g) /\ pc'[g] = pc[g] /\ via'[g] = via[g]
          /\ (via[g] # None => via[g] \in Clients)
      BY <1>0, <1>1, <2>1, ThreadsAre DEF TunnelInv, ThreadsTyped
    <3>. QED BY <1>1, <1>3, <3>1 DEF FetcherInv
  <2>2. CASE g = f
    <3>1. via'[f] = active
      BY <1>0, <1>1 DEF ThreadsTyped
    <3>2. active # None => Installed(active) /\ active \in Clients /\ pc[active] = "ended"
      <4>1. active # None => /\ Len(tunnels) \in DOMAIN tunnels
                             /\ active = tunnels[Len(tunnels)]
        BY <1>0, LenProperties, EmptySeq DEF RegistryInv, DirTyped
      <4>. QED BY <1>0, <4>1 DEF RegistryInv, DirTyped
    <3>. QED BY <1>1, <1>3, <2>2, <3>1, <3>2 DEF FetcherInv
  <2>. QED BY <2>1, <2>2
<1>. QED BY <1>2, <1>5, <1>6, <1>7, <1>8, <1>9, <1>10 DEF TunnelInv

LEMMA FetchEndKeeps ==
    ASSUME TunnelInv, NEW f \in Fetchers, FetchOverTor(f) \/ FetchLost(f) \/ FetchFails(f)
    PROVE  TunnelInv'
<1>0. /\ ClientsTyped /\ DirTyped /\ TunnelsTyped /\ ThreadsTyped /\ RolesInv /\ TypeOK
      /\ RegistryInv /\ f \in Threads /\ f \notin Closers /\ f \notin Clients
  BY TypeParts, ThreadsAre DEF TunnelInv
<1>. USE DEF FetchOverTor, FetchLost, FetchFails
<1>1. /\ \A u \in Threads : u # f => pc'[u] = pc[u]
      /\ pc[f] = "use"
      /\ pc'[f] = "done" \/ (pc'[f] = "clear" /\ (got[f] \notin live \/ f \in unlucky'))
      /\ unlucky \subseteq unlucky'
      /\ UNCHANGED <<closed, down, lock, hooked, tunnels, active, busy, circuit, live, built,
                     tries, got, via, deaths>>
  BY <1>0, Moves DEF clientVars, dirVars, tunnelVars
<1>2. TypeOK' /\ RolesInv'
  <2>1. pc' \in [Threads -> PCs]
    BY <1>0 DEF Goto, ThreadsTyped, PCs
  <2>2. ThreadsTyped'
    BY <1>0, <1>1, <2>1 DEF ThreadsTyped
  <2>3. ClientsTyped' /\ DirTyped' /\ TunnelsTyped'
    BY <1>0, <1>1 DEF ClientsTyped, DirTyped, TunnelsTyped
  <2>4. RolesInv'
    BY <1>0, <1>1, ThreadsAre DEF RolesInv, FetcherPCs
  <2>. QED BY <2>2, <2>3, <2>4, TypePartsNext
<1>3. /\ \A d : Installed(d)' <=> Installed(d)
      /\ \A d, l : At(d, l)' <=> At(d, l)
      /\ \A j \in Closers : pc'[j] = pc[j]
      /\ \A d \in Clients : pc'[d] = pc[d]
      /\ \A u : Tunnel(u)' = Tunnel(u)
  BY <1>1, HooksStand, ThreadsAre, TunnelStays
<1>4. RegistryInv' /\ TunnelCircuitOwned'
  <2>1. RegistryInv'
    BY <1>0, <1>1, <1>3 DEF RegistryInv
  <2>2. TunnelCircuitOwned'
    BY <1>1 DEF TunnelInv, TunnelCircuitOwned
  <2>. QED BY <2>1, <2>2
<1>5. ASSUME NEW u \in Threads PROVE GotInv(u)'
  BY <1>1, <1>3 DEF TunnelInv, GotInv
<1>6. ASSUME NEW u \in Builders PROVE BuilderInv(u)'
  BY <1>1, <1>3 DEF TunnelInv, BuilderInv, Building, Threads
<1>7. ASSUME NEW d \in Clients PROVE CircuitInv(d)'
  BY <1>1, <1>3 DEF TunnelInv, CircuitInv
<1>8. ASSUME NEW j \in Closers PROVE CloserInv(j)'
  BY <1>1, <1>3 DEF TunnelInv, CloserInv, Idle
<1>9. ASSUME NEW g \in Fetchers PROVE FetcherInv(g)'
  <2>1. FetcherInv(g) /\ g \in Threads /\ (via[g] # None => via[g] \in Clients)
    BY <1>0, ThreadsAre DEF TunnelInv, ThreadsTyped
  <2>. QED BY <1>1, <1>3, <2>1 DEF FetcherInv
<1>. QED BY <1>2, <1>4, <1>5, <1>6, <1>7, <1>8, <1>9 DEF TunnelInv

LEMMA DeathKeeps ==
    ASSUME TunnelInv, NEW r \in live, CircuitDies(r) \/ Cascade(r)
    PROVE  TunnelInv'
<1>0. /\ ClientsTyped /\ DirTyped /\ TunnelsTyped /\ ThreadsTyped /\ RolesInv
      /\ RegistryInv
  BY TypeParts DEF TunnelInv
<1>1. /\ live' = live \ {r} /\ unlucky \subseteq unlucky' /\ unlucky' \subseteq Fetchers
      /\ \/ r[1] \in down
         \/ \A f \in Fetchers : pc[f] = "use" /\ got[f] = r => f \in unlucky'
      /\ deaths' \in Nat
      /\ UNCHANGED <<closed, down, lock, hooked, tunnels, active, busy, circuit, built,
                     pc, tries, got, via>>
  BY <1>0 DEF CircuitDies, Cascade, clientVars, dirVars, ThreadsTyped
<1>2. TypeOK' /\ RolesInv'
  <2>1. ThreadsTyped' /\ ClientsTyped' /\ DirTyped' /\ TunnelsTyped'
    BY <1>0, <1>1 DEF ClientsTyped, DirTyped, TunnelsTyped, ThreadsTyped
  <2>2. RolesInv'
    BY <1>0, <1>1 DEF RolesInv
  <2>. QED BY <2>1, <2>2, TypePartsNext
<1>3. /\ \A d : Installed(d)' <=> Installed(d)
      /\ \A d, l : At(d, l)' <=> At(d, l)
      /\ \A u : Tunnel(u)' = Tunnel(u)
  BY <1>1, HooksStand, TunnelStays
<1>4. RegistryInv' /\ TunnelCircuitOwned'
  <2>1. RegistryInv'
    BY <1>0, <1>1, <1>3 DEF RegistryInv
  <2>2. TunnelCircuitOwned'
    BY <1>1 DEF TunnelInv, TunnelCircuitOwned
  <2>. QED BY <2>1, <2>2
<1>5. ASSUME NEW u \in Threads PROVE GotInv(u)'
  BY <1>1, <1>3 DEF TunnelInv, GotInv
<1>6. ASSUME NEW u \in Builders PROVE BuilderInv(u)'
  BY <1>1, <1>3 DEF TunnelInv, BuilderInv
<1>7. ASSUME NEW d \in Clients PROVE CircuitInv(d)'
  BY <1>1, <1>3 DEF TunnelInv, CircuitInv
<1>8. ASSUME NEW j \in Closers PROVE CloserInv(j)'
  BY <1>1, <1>3 DEF TunnelInv, CloserInv, Idle
<1>9. ASSUME NEW f \in Fetchers PROVE FetcherInv(f)'
  <2>0. FetcherInv(f) /\ GotInv(f) /\ Tunnel(f) = via[f]
    BY ThreadsAre DEF TunnelInv
  <2>1. pc[f] = "use" /\ got[f] = r => via[f] \in closed \/ f \in unlucky'
    BY <1>0, <1>1, <2>0 DEF GotInv, ClientsTyped
  <2>. QED BY <1>1, <1>3, <2>0, <2>1 DEF FetcherInv
<1>. QED BY <1>2, <1>4, <1>5, <1>6, <1>7, <1>8, <1>9 DEF TunnelInv

-------------------------------------------------------------------------------
(* The invariant holds                                                       *)

LEMMA TunnelInvInit == ASSUME Init PROVE TunnelInv
<1>. USE DEF Init
<1>1. \A t \in Threads : pc[t] = IF t \in Clients THEN "ensure" ELSE "new"
  OBVIOUS
<1>2. \A k \in Closers : pc[k] = "new"
  BY <1>1, ThreadsAre
<1>3. TypeOK
  <2>1. pc \in [Threads -> PCs]
    BY DEF PCs
  <2>. QED BY <2>1, TunnelAssumption, EmptySeq DEF TypeOK
<1>4. RolesInv
  BY <1>1, <1>2, ThreadsAre DEF RolesInv, ClientPCs, FetcherPCs, CloserPCs
<1>5. \A c : ~Installed(c)
  BY <1>2 DEF Installed
<1>6. RegistryInv
  <2>1. DOMAIN tunnels = {}
    BY EmptySeq
  <2>. QED BY <1>5, <2>1 DEF RegistryInv
<1>7. TunnelCircuitOwned
  BY DEF TunnelCircuitOwned
<1>8. ASSUME NEW t \in Threads PROVE GotInv(t)
  BY <1>1 DEF GotInv
<1>9. ASSUME NEW t \in Builders PROVE BuilderInv(t)
  BY <1>1, ThreadsAre DEF BuilderInv, Building, Builders
<1>10. \A k \in Closers : CloserInv(k)
  BY <1>2 DEF CloserInv, Idle
<1>11. \A f \in Fetchers : FetcherInv(f)
  BY <1>1, ThreadsAre DEF FetcherInv
<1>12. \A c \in Clients : CircuitInv(c)
  BY DEF CircuitInv
<1>. QED BY <1>3, <1>4, <1>6, <1>7, <1>8, <1>9, <1>10, <1>11, <1>12 DEF TunnelInv

LEMMA TunnelInvStep == ASSUME TunnelInv, [Next]_vars PROVE TunnelInv'
<1>1. ASSUME NEW t \in Builders, BuildStep(t) PROVE TunnelInv'
  <2>1. TypeOK' /\ RolesInv'
    BY <1>1, BuildKeepsTypes
  <2>2. /\ RegistryInv' /\ TunnelCircuitOwned'
        /\ \A u \in Threads : GotInv(u)'
        /\ \A u \in Builders : BuilderInv(u)'
    BY <1>1, BuildKeepsOwners
  <2>3. /\ \A c \in Clients : CircuitInv(c)'
        /\ \A k \in Closers : CloserInv(k)'
        /\ \A f \in Fetchers : FetcherInv(f)'
    BY <1>1, BuildKeepsTunnels
  <2>. QED BY <2>1, <2>2, <2>3 DEF TunnelInv
<1>2. ASSUME NEW c \in Clients, InstallStep(c) PROVE TunnelInv'
  BY <1>1, <1>2, InstallKeeps, TakeKeeps, DestroyKeeps DEF InstallStep, TunnelCloseStep, Builders
<1>3. ASSUME NEW k \in Closers, CloseTables(k) \/ CloseStep(k) PROVE TunnelInv'
  BY <1>3, CloseTablesKeeps, RestoreKeeps, CloseChannelsKeeps, TakeKeeps, DestroyKeeps
     DEF CloseStep, TunnelCloseStep
<1>4. ASSUME NEW f \in Fetchers, FetchDir(f) \/ FetchStep(f) PROVE TunnelInv'
  BY <1>1, <1>4, FetchDirKeeps, FetchEndKeeps DEF FetchStep, Builders
<1>5. ASSUME NEW r \in live, CircuitDies(r) \/ Cascade(r) PROVE TunnelInv'
  BY <1>5, DeathKeeps
<1>6. CASE UNCHANGED vars
  <2>1. UNCHANGED <<closed, down, lock, hooked, tunnels, active, busy, circuit, live, built,
                    pc, tries, got, via, unlucky, deaths>>
    BY <1>6 DEF vars, clientVars, dirVars, tunnelVars
  <2>2. /\ \A d : Installed(d)' <=> Installed(d)
        /\ \A d, l : At(d, l)' <=> At(d, l)
        /\ \A u : Tunnel(u)' = Tunnel(u)
    BY <2>1, HooksStand, TunnelStays
  <2>3. TypeOK' /\ RolesInv' /\ RegistryInv' /\ TunnelCircuitOwned'
    BY <2>1, <2>2 DEF TunnelInv, TypeOK, RolesInv, RegistryInv, TunnelCircuitOwned
  <2>4. (\A t \in Threads : GotInv(t)') /\ \A t \in Builders : BuilderInv(t)'
    BY <2>1, <2>2 DEF TunnelInv, GotInv, BuilderInv
  <2>5. /\ \A c \in Clients : CircuitInv(c)'
        /\ \A k \in Closers : CloserInv(k)'
        /\ \A f \in Fetchers : FetcherInv(f)'
    BY <2>1, <2>2 DEF TunnelInv, CircuitInv, CloserInv, FetcherInv, Idle
  <2>. QED BY <2>3, <2>4, <2>5 DEF TunnelInv
<1>. QED BY <1>2, <1>3, <1>4, <1>5, <1>6 DEF Next

(* What tunnels, registry and threads hold of each other, under which lock,  *)
(* holds in every reachable state.                                           *)
THEOREM TunnelInvariant == Spec => []TunnelInv
<1>1. Init => TunnelInv
  BY TunnelInvInit
<1>2. TunnelInv /\ [Next]_vars => TunnelInv'
  BY TunnelInvStep
<1>. QED BY <1>1, <1>2, PTL DEF Spec

-------------------------------------------------------------------------------
(* The theorems                                                              *)

(* Whatever the order in which clients install their tunnels and are closed, *)
(* the directory's active tunnel is that of a client whose channels are      *)
(* open, and it has one as long as a client has (install_dir_tunnel and      *)
(* restore_dir_tunnel).                                                      *)
THEOREM ActiveTunnelIsAlive == Spec => []ActiveTunnelSurvives
<1>1. TunnelInv => ActiveTunnelSurvives
  <2>. SUFFICES ASSUME TunnelInv PROVE ActiveTunnelSurvives
    OBVIOUS
  <2>0. /\ RegistryInv /\ \A k \in Closers : CloserInv(k) /\ Of[k] \in Clients
        /\ tunnels \in Seq(Clients) /\ down \subseteq closed
    BY ThreadsAre DEF TunnelInv, TypeOK
  <2>1. ASSUME NEW c, Installed(c) PROVE c \notin down
    <3>1. CASE c \in hooked
      BY <2>0, <3>1 DEF RegistryInv
    <3>2. ASSUME NEW k \in Closers, Of[k] = c, pc[k] = "restore" PROVE c \notin down
      BY <2>0, <3>2 DEF CloserInv
    <3>. QED BY <2>1, <3>1, <3>2 DEF Installed
  <2>2. active # None => Installed(active)
    <3>1. tunnels # <<>> => Len(tunnels) \in DOMAIN tunnels
      BY <2>0, LenProperties, EmptySeq
    <3>. QED BY <2>0, <3>1 DEF RegistryInv
  <2>3. ASSUME active = None, NEW c \in Clients PROVE ~Installed(c)
    <3>1. tunnels = <<>>
      <4>1. tunnels # <<>> => tunnels[Len(tunnels)] \in Clients
        BY <2>0, LenProperties, EmptySeq
      <4>. QED BY <2>0, <2>3, <4>1, ThreadsAre DEF RegistryInv
    <3>. QED BY <2>0, <3>1, EmptySeq DEF RegistryInv
  <2>. QED BY <2>1, <2>2, <2>3 DEF ActiveTunnelSurvives
<1>. QED BY <1>1, TunnelInvariant, PTL

(* A document is fetched in cleartext only where no tunnel was installed, its *)
(* client has been closed, or this very build or fetch failed (_fetch_dir,   *)
(* ensure_circuit).                                                          *)
THEOREM CleartextIsTheLastResort == Spec => []CleartextOnlyIfUnlucky
<1>1. TunnelInv => CleartextOnlyIfUnlucky
  BY DEF TunnelInv, FetcherInv, CleartextOnlyIfUnlucky
<1>. QED BY <1>1, TunnelInvariant, PTL

(* A live directory circuit is its tunnel's, or in the hands of the thread   *)
(* that is about to close it: none is built over another one.                *)
THEOREM NoTunnelCircuitOrphaned == Spec => []TunnelCircuitOwned
<1>1. TunnelInv => TunnelCircuitOwned
  BY DEF TunnelInv
<1>. QED BY <1>1, TunnelInvariant, PTL

(* Once its client is closed, for good, a tunnel has no circuit, although    *)
(* fetchers may still hold it and try to build one.                          *)
THEOREM NothingReopensATunnel == Spec => []ClosedTunnelStaysClosed
<1>1. TunnelInv => ClosedTunnelStaysClosed
  <2>. SUFFICES ASSUME TunnelInv, NEW c \in closed, pc[c] = "ended",
                       \A k \in Closers : Of[k] = c => pc[k] \in {"new", "ended"}
       PROVE  circuit[c] = None
    BY DEF ClosedTunnelStaysClosed
  <2>1. c \in Clients /\ c \notin hooked
    BY DEF TunnelInv, TypeOK, RegistryInv
  <2>2. ~Installed(c) /\ ~At(c, "channels") /\ ~At(c, "take")
    BY <2>1 DEF Installed, At
  <2>. QED BY <2>1, <2>2 DEF TunnelInv, CircuitInv
<1>. QED BY <1>1, TunnelInvariant, PTL

===============================================================================
