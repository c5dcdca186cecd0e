----------------------------- MODULE Edges_proofs -----------------------------
(* Proofs about the edges of the client, for every value of the constants:   *)
(* PathChoice, HsDirRing, LinkHandshake, HttpExchange, RedirectChain and     *)
(* SocksRelay.                                                               *)
EXTENDS PathChoice, HsDirRing, LinkHandshake, HttpExchange, RedirectChain, SocksRelay,
        SequenceTheorems, FiniteSetTheorems, WellFoundedInduction, TLAPS

-------------------------------------------------------------------------------
(* RedirectChain: what the thread-local knows of a chain.                    *)

RedirectTypeOK ==
    /\ active \in [Users -> BOOLEAN] /\ prevOnion \in [Users -> BOOLEAN]
    /\ at \in [Users -> {"idle", "send", "fetch"}]
    /\ request \in [Users -> Kinds] /\ trail \in [Users -> Seq(Kinds)]
    /\ refused \in [Users -> BOOLEAN] /\ calls \in [Users -> Nat]

(* The host fetched last in the call.                                        *)
LastOnion(t) == trail[t] # <<>> /\ trail[t][Len(trail[t])] = "onion"

SafeTrail(t) ==
    \A i \in 1..Len(trail[t]) - 1 : trail[t][i] = "onion" => trail[t][i + 1] = "onion"

(* The flag is up exactly inside a chain, and what is remembered is the host *)
(* of the hop before or, once send was entered, that of the hop in progress. *)
SlotMatches(t) ==
    /\ at[t] = "idle" => ~active[t]
    /\ at[t] = "send" => /\ active[t] = (trail[t] # <<>>)
                         /\ trail[t] # <<>> => prevOnion[t] = LastOnion(t)
    /\ at[t] = "fetch" => /\ active[t] /\ prevOnion[t] = (request[t] = "onion")
                          /\ LastOnion(t) => request[t] = "onion"
    /\ refused[t] => at[t] = "idle" /\ LastOnion(t)

RedirectInv == RedirectTypeOK /\ \A t \in Users : SafeTrail(t) /\ SlotMatches(t)

LEMMA RedirectInvInit == RedirectInit => RedirectInv
BY DEF RedirectInit, RedirectInv, RedirectTypeOK, SafeTrail, SlotMatches, LastOnion, Kinds

(* What a thread's step leaves of the other threads.                         *)
OthersKeep(t) ==
    \A u \in Users \ {t} :
        /\ active'[u] = active[u] /\ prevOnion'[u] = prevOnion[u] /\ at'[u] = at[u]
        /\ request'[u] = request[u] /\ trail'[u] = trail[u] /\ refused'[u] = refused[u]

LEMMA OthersUnmoved ==
    ASSUME RedirectInv, NEW t \in Users, OthersKeep(t)
    PROVE  \A u \in Users \ {t} : (SafeTrail(u) /\ SlotMatches(u))'
BY DEF OthersKeep, RedirectInv, SafeTrail, SlotMatches, LastOnion

LEMMA StartCallKeeps ==
    ASSUME RedirectInv, NEW t \in Users, StartCall(t)
    PROVE  RedirectInv'
<1>1. RedirectTypeOK'
  BY DEF RedirectInv, RedirectTypeOK, StartCall, Kinds
<1>2. OthersKeep(t)
  BY DEF OthersKeep, StartCall, RedirectInv, RedirectTypeOK
<1>3. (SafeTrail(t) /\ SlotMatches(t))'
  BY DEF StartCall, RedirectInv, RedirectTypeOK, SafeTrail, SlotMatches, LastOnion
<1>. QED BY <1>1, <1>2, <1>3, OthersUnmoved DEF RedirectInv

LEMMA EnterSendKeeps ==
    ASSUME RedirectInv, NEW t \in Users, EnterSend(t)
    PROVE  RedirectInv'
<1>. USE DEF EnterSend, Leave, Remembers, Slot, RedirectInv
<1>1. RedirectTypeOK'
  BY DEF RedirectTypeOK, Kinds
<1>2. OthersKeep(t)
  BY DEF OthersKeep, RedirectTypeOK
<1>3. SafeTrail(t)'
  BY DEF SafeTrail, RedirectTypeOK
<1>4. SlotMatches(t)'
  BY DEF RedirectTypeOK, SlotMatches, LastOnion, Kinds
<1>. QED BY <1>1, <1>2, <1>3, <1>4, OthersUnmoved

LEMMA FetchKeeps ==
    ASSUME RedirectInv, NEW t \in Users, Fetch(t)
    PROVE  RedirectInv'
<1>. USE DEF Fetch, Leave, Slot, RedirectInv
<1>1. /\ trail' = [trail EXCEPT ![t] = Append(@, request[t])]
      /\ trail[t] \in Seq(Kinds) /\ request[t] \in Kinds
      /\ trail'[t] = Append(trail[t], request[t])
  BY DEF RedirectTypeOK
<1>2. /\ trail'[t] \in Seq(Kinds) /\ trail'[t] # <<>> /\ Len(trail'[t]) = Len(trail[t]) + 1
      /\ trail'[t][Len(trail'[t])] = request[t]
      /\ \A i \in 1..Len(trail[t]) : trail'[t][i] = trail[t][i]
      /\ Len(trail[t]) \in Nat
  BY <1>1, AppendProperties, LenProperties
<1>3. RedirectTypeOK'
  <2>1. trail' \in [Users -> Seq(Kinds)]
    BY <1>1, <1>2 DEF RedirectTypeOK
  <2>2. active' \in [Users -> BOOLEAN] /\ at' \in [Users -> {"idle", "send", "fetch"}]
    BY DEF RedirectTypeOK
  <2>3. request' \in [Users -> Kinds] /\ UNCHANGED <<prevOnion, refused, calls>>
    BY DEF RedirectTypeOK
  <2>. QED BY <2>1, <2>2, <2>3 DEF RedirectTypeOK
<1>4. OthersKeep(t)
  BY DEF OthersKeep, RedirectTypeOK
<1>5. SafeTrail(t)'
  <2>. SUFFICES ASSUME NEW i \in 1..Len(trail'[t]) - 1, trail'[t][i] = "onion"
                PROVE  trail'[t][i + 1] = "onion"
    BY DEF SafeTrail
  <2>1. CASE i < Len(trail[t])
    BY <1>2, <2>1 DEF SafeTrail
  <2>2. CASE i = Len(trail[t])
    <3>1. LastOnion(t)
      BY <1>1, <1>2, <2>2, EmptySeq DEF LastOnion
    <3>. QED BY <1>2, <2>2, <3>1 DEF SlotMatches
  <2>. QED BY <1>2, <2>1, <2>2
<1>6. SlotMatches(t)'
  BY <1>1, <1>2 DEF RedirectTypeOK, SlotMatches, LastOnion
<1>. QED BY <1>3, <1>4, <1>5, <1>6, OthersUnmoved

(* No chain ever leaves an onion service, for any threads, any length of     *)
(* chain and any number of calls: sessions.py:138-166.                       *)
THEOREM ChainsStayOnion == RedirectSpec => []OnionChainStaysOnion
<1>1. RedirectInv /\ [RedirectNext]_redirectVars => RedirectInv'
  <2>1. ASSUME RedirectInv, UNCHANGED redirectVars PROVE RedirectInv'
    BY <2>1 DEF redirectVars, RedirectInv, RedirectTypeOK, SafeTrail, SlotMatches, LastOnion
  <2>. QED BY <2>1, StartCallKeeps, EnterSendKeeps, FetchKeeps DEF RedirectNext
<1>2. RedirectInv => OnionChainStaysOnion
  BY DEF RedirectInv, SafeTrail, SlotMatches, LastOnion, OnionChainStaysOnion
<1>. QED BY RedirectInvInit, <1>1, <1>2, PTL DEF RedirectSpec

-------------------------------------------------------------------------------
(* LinkHandshake: who may be at the other end of an open channel.            *)

Underway == {"versions", "cells", "validate", "reply"}

(* What is true of a handshake that has come so far.                         *)
LinkInv ==
    /\ linkPhase \in {"tcp", "open", "failed"} \cup Underway
    /\ peer \in Peers /\ expected \in {Identity[Relay], Nothing}
    /\ certs \in CertLists \cup {Nothing} /\ receiver \in BOOLEAN /\ deadline \in BOOLEAN
    /\ linkPhase = "tcp" => socket = "none" /\ ~receiver
    /\ linkPhase \in Underway => socket = "connected" /\ ~receiver
    /\ linkPhase = "open" => socket = "connected" /\ receiver /\ ~deadline
    /\ linkPhase = "failed" => socket # "connected" /\ ~receiver
    /\ linkPhase \in {"cells", "validate", "reply", "open"} => linkVersion \in Supported
    /\ linkPhase \in {"reply", "open"} =>
         relayIdentity = Identity[peer] /\ expected \in {Nothing, relayIdentity}

(* A set of naturals that is not empty has a least member, and one that is   *)
(* bounded a greatest: the highest version both sides speak exists.          *)
LEMMA LeastExists ==
    ASSUME NEW S \in SUBSET Nat, S # {}
    PROVE  \E m \in S : \A n \in S : m <= n
<1>. DEFINE R == {ss \in Nat \X Nat : ss[1] < ss[2]}
<1>1. IsWellFoundedOn(R, Nat)
  BY NatLessThanWellFounded, SMT DEF OpToRel
<1>2. PICK m \in S : \A n \in S : ~ (<<n, m>> \in R)
  BY <1>1, WFMin, Zenon
<1>3. ASSUME NEW n \in S PROVE m <= n
  <2>1. m \in Nat /\ n \in Nat /\ <<n, m>> \in Nat \X Nat /\ ~ (<<n, m>> \in R)
    BY <1>2
  <2>. QED BY <2>1
<1>. QED BY <1>3

LEMMA GreatestExists ==
    ASSUME NEW b \in Nat, NEW S \in SUBSET (0..b), S # {}
    PROVE  \E m \in S : \A n \in S : m >= n
<1>. DEFINE T == {k \in Nat : b - k \in S}
<1>1. T # {}
  <2>1. PICK n \in S : TRUE
    OBVIOUS
  <2>2. b - n \in Nat /\ b - (b - n) = n
    BY <2>1
  <2>. QED BY <2>2
<1>. HIDE DEF T
<1>2. PICK k \in T : \A j \in T : k <= j
  BY <1>1, LeastExists DEF T
<1>3. ASSUME NEW n \in S PROVE b - k >= n
  <2>1. b - n \in Nat /\ b - (b - n) = n /\ k \in Nat
    BY <1>2 DEF T
  <2>2. k <= b - n
    BY <2>1, <1>2 DEF T
  <2>. QED BY <2>1, <2>2
<1>. QED BY <1>2, <1>3 DEF T

LEMMA HighestCommon ==
    ASSUME NEW offered, offered \cap Supported # {}
    PROVE  (CHOOSE v \in offered \cap Supported : \A w \in offered \cap Supported : v >= w)
             \in Supported
<1>. DEFINE common == offered \cap Supported
<1>0. common \subseteq Supported
  OBVIOUS
<1>1. common \in SUBSET (0..MaxVersion)
  <2>. HIDE DEF common
  <2>. QED BY <1>0, VersionAssumption
<1>2. common # {}
  OBVIOUS
<1>3. \E v \in common : \A w \in common : v >= w
  <2>1. MaxVersion \in Nat
    BY DEF MaxVersion
  <2>. HIDE DEF common
  <2>. QED BY <1>1, <1>2, <2>1, GreatestExists
<1>4. (CHOOSE v \in common : \A w \in common : v >= w) \in common
  <2>. HIDE DEF common
  <2>. QED BY <1>3, Zenon
<1>. QED BY <1>4

(* by_type finds a certificate of the cell or none.                          *)
LEMMA ByTypeFinds ==
    ASSUME NEW list, NEW slot, ByType(list, slot) # Nothing
    PROVE  \E i \in DOMAIN list : ByType(list, slot) = list[i].cert
<1>. DEFINE first(i) == list[i].slot = slot /\ \A j \in 1..(i - 1) : list[j].slot # slot
<1>1. \E i \in DOMAIN list : first(i)
  BY Zenon DEF ByType
<1>2. (CHOOSE i \in DOMAIN list : first(i)) \in DOMAIN list
  BY <1>1, Zenon
<1>. QED BY <1>1, <1>2, Zenon DEF ByType

(* A chain that holds was made by the one who answered.                      *)
LEMMA ChainNamesPeer ==
    ASSUME NEW list \in CertLists, peer \in Peers,
           NEW a, NEW b, a = ByType(list, "identity-v-signing"), b = ByType(list, "signing-v-tls"),
           ChainHolds(a, b)
    PROVE  a.names = Identity[peer]
<1>1. /\ a # Nothing /\ b # Nothing
      /\ a.by = a.names /\ b.by = a.certifies /\ b.certifies = TlsDigest[peer]
  BY DEF ChainHolds, Parses, SelfSigned, VerifiesUnder
<1>2. SignedByHolder(a) /\ SignedByHolder(b)
  BY <1>1, ByTypeFinds, CertAssumption
<1>3. PICK p \in Peers : \/ a.by = Identity[p] /\ a.certifies = Signing[p]
                         \/ a.by = Signing[p] /\ a.certifies = TlsDigest[p]
  BY <1>2 DEF SignedByHolder
<1>4. PICK q \in Peers : \/ b.by = Identity[q] /\ b.certifies = Signing[q]
                         \/ b.by = Signing[q] /\ b.certifies = TlsDigest[q]
  BY <1>2 DEF SignedByHolder
<1>5. b.by = Signing[q] /\ b.certifies = TlsDigest[q] /\ q = peer
  BY <1>1, <1>4, KeyAssumption
<1>6. a.by = Identity[p] /\ p = q
  BY <1>1, <1>3, <1>5, KeyAssumption
<1>. QED BY <1>1, <1>5, <1>6

LEMMA LinkInvStep == LinkInv /\ [LinkNext]_linkVars => LinkInv'
<1>. SUFFICES ASSUME LinkInv, [LinkNext]_linkVars PROVE LinkInv'
  OBVIOUS
<1>. USE DEF LinkInv, Underway
<1>0. ASSUME Fails, linkPhase \in {"tcp"} \cup Underway PROVE LinkInv'
  BY <1>0 DEF Fails
<1>1. CASE Connect
  BY <1>0, <1>1 DEF Connect
<1>2. CASE ReadFails
  BY <1>0, <1>2 DEF ReadFails
<1>3. CASE ReadVersions
  <2>1. PICK offered \in SUBSET (Supported \cup {3}) :
          LET common == offered \cap Supported
          IN  IF common = {} THEN Fails
              ELSE /\ linkVersion' = CHOOSE v \in common : \A w \in common : v >= w
                   /\ linkPhase' = "cells"
                   /\ UNCHANGED <<peer, expected, certs, relayIdentity, socket, deadline, receiver>>
    BY <1>3 DEF ReadVersions
  <2>. DEFINE common == offered \cap Supported
  <2>2. CASE common # {}
    <3>1. /\ linkVersion' = CHOOSE v \in common : \A w \in common : v >= w
          /\ linkPhase = "versions" /\ linkPhase' = "cells"
          /\ UNCHANGED <<peer, expected, certs, relayIdentity, socket, deadline, receiver>>
      BY <1>3, <2>1, <2>2, Zenon DEF ReadVersions
    <3>2. linkVersion' \in Supported
      BY <2>2, <3>1, HighestCommon, Zenon
    <3>. HIDE DEF common
    <3>. QED BY <3>1, <3>2
  <2>. QED BY <1>0, <1>3, <2>1, <2>2 DEF ReadVersions
<1>4. CASE ReadCerts
  BY <1>4 DEF ReadCerts
<1>5. CASE ReadNetinfo
  BY <1>5 DEF ReadNetinfo
<1>6. CASE Validate
  <2>. DEFINE a == IF certs = Nothing THEN Nothing ELSE ByType(certs, "identity-v-signing")
              b == IF certs = Nothing THEN Nothing ELSE ByType(certs, "signing-v-tls")
  <2>1. CASE ChainHolds(a, b) /\ expected \in {Nothing, a.names}
    <3>1. certs # Nothing
      BY <2>1, Zenon DEF ChainHolds, Parses
    <3>2. /\ relayIdentity' = a.names /\ linkPhase' = "reply" /\ linkPhase = "validate"
          /\ UNCHANGED <<peer, expected, linkVersion, certs, socket, deadline, receiver>>
      BY <1>6, <2>1, Zenon DEF Validate
    <3>3. a.names = Identity[peer]
      BY <2>1, <3>1, ChainNamesPeer
    <3>. HIDE DEF a, b
    <3>. QED BY <2>1, <3>2, <3>3
  <2>2. CASE ~(ChainHolds(a, b) /\ expected \in {Nothing, a.names})
    <3>1. Fails
      BY <1>6, <2>2, Zenon DEF Validate
    <3>. QED BY <1>0, <1>6, <3>1 DEF Validate
  <2>. QED BY <2>1, <2>2, Zenon
<1>7. CASE Reply
  BY <1>0, <1>7 DEF Reply
<1>8. CASE UNCHANGED linkVars
  BY <1>8 DEF linkVars
<1>. QED BY <1>1, <1>2, <1>3, <1>4, <1>5, <1>6, <1>7, <1>8 DEF LinkNext

(* Whoever holds keys, whatever CERTS cells are made of what they signed and *)
(* however the cells come: an open channel ends at the relay it reports, the *)
(* expected one (link.py:65-133).                                            *)
THEOREM ChannelsEndAtTheRelay == LinkSpec => []LinkAuthenticated
<1>1. LinkInit => LinkInv
  BY DEF LinkInit, LinkInv, Underway
<1>2. ASSUME LinkInv PROVE LinkAuthenticated
  <2>1. ASSUME linkPhase = "open", expected # Nothing PROVE peer = Relay
    <3>1. Identity[peer] = Identity[Relay] /\ peer \in Peers
      BY <1>2, <2>1 DEF LinkInv
    <3>. QED BY <3>1, KeyAssumption
  <2>. QED BY <1>2, <2>1 DEF LinkInv, LinkAuthenticated, Underway
<1>. QED BY <1>1, <1>2, LinkInvStep, PTL DEF LinkSpec

-------------------------------------------------------------------------------
(* HttpExchange: a body that says where it ends.                             *)

(* Nothing is given before the body, and the body's end closes the stream.   *)
HttpInv ==
    /\ phase \in {"send", "tls", "request", "header", "body", "read", "raised"}
    /\ framing \in Framings /\ given \in 0..Parts
    /\ phase \in {"send", "tls", "request", "header"} => given = 0
    /\ phase = "read" => given = Parts
    /\ phase = "read" \/ (phase = "raised" /\ given > 0) => ~attached

LEMMA HttpInvStep ==
    ASSUME "close" \notin Framings
    PROVE  HttpInv /\ [HttpNext]_httpVars => HttpInv'
<1>. SUFFICES ASSUME HttpInv, [HttpNext]_httpVars PROVE HttpInv'
  OBVIOUS
<1>. USE HttpAssumption DEF HttpInv, bodyVars, reqVars
<1>1. framing # "close"
  OBVIOUS
<1>2. CASE Send
  <2>1. /\ phase = "send" /\ phase' \in {"raised", "tls", "request"}
        /\ framing' = framing /\ given' = given
    BY <1>2 DEF Send
  <2>. QED BY <2>1
<1>3. CASE TlsHandshake
  BY <1>3 DEF TlsHandshake
<1>4. CASE SendRequest
  BY <1>4 DEF SendRequest
<1>5. CASE ReadHeader
  BY <1>5 DEF ReadHeader
<1>6. CASE HeaderFails
  BY <1>6 DEF HeaderFails
<1>7. CASE ReadPart
  BY <1>7 DEF ReadPart
<1>8. CASE BodyRead
  BY <1>1, <1>8 DEF BodyRead, BodyEnds, CloseBody
<1>9. CASE BodyFails
  BY <1>9 DEF BodyFails, CloseBody
<1>10. CASE UnitArrives
  BY <1>10 DEF UnitArrives
<1>11. CASE StreamEnds
  BY <1>11 DEF StreamEnds
<1>12. CASE UNCHANGED httpVars
  BY <1>12 DEF httpVars
<1>. QED
  BY <1>2, <1>3, <1>4, <1>5, <1>6, <1>7, <1>8, <1>9, <1>10, <1>11, <1>12 DEF HttpNext

(* Where the body says its length or has chunks, who reads it to its end has *)
(* all of it, and its stream is closed, for bodies of any number of parts:   *)
(* connection.py:5-6, response.py:59-61.                                     *)
THEOREM DelimitedBodyComplete ==
    ASSUME "close" \notin Framings
    PROVE  HttpSpec => []BodyComplete
<1>1. HttpInit => HttpInv
  <2>1. HttpInit => phase = "send" /\ framing \in Framings /\ given = 0
    BY Zenon DEF HttpInit
  <2>. QED BY <2>1, HttpAssumption DEF HttpInv
<1>2. HttpInv /\ [HttpNext]_httpVars => HttpInv'
  BY HttpInvStep
<1>3. HttpInv => BodyComplete
  BY DEF HttpInv, BodyComplete
<1>. QED BY <1>1, <1>2, <1>3, PTL DEF HttpSpec

-------------------------------------------------------------------------------
(* SocksRelay: what the stream brought is with the client, in the thread's   *)
(* hands, or in the stream's buffer.                                         *)

Negotiating == {"greeting", "methods", "request", "address", "port", "connect", "success"}
Leaving == {"close", "shutdown", "join", "done"}

TorStreams == [opened : BOOLEAN, eof : BOOLEAN, error : BOOLEAN, closed : BOOLEAN,
               arrived : Nat, buffered : Nat, window : Nat, deadline : BOOLEAN, silent : BOOLEAN]

SocksTypeOK ==
    /\ handler \in Negotiating \cup Leaving \cup {"recv", "sendall"}
    /\ pump \in {"none", "recv", "send", "ended"}
    /\ client \in {"open", "half", "gone"}
    /\ holding \in Nat /\ delivered \in Nat
    /\ stream \in TorStreams

SocksInv ==
    /\ SocksTypeOK
    /\ handler \in Negotiating => pump = "none"
    /\ handler # "sendall" => holding = 0
    /\ client # "gone" => stream.arrived = delivered + holding + stream.buffered
    /\ handler \in Leaving /\ pump # "none" /\ client # "gone" /\ ~stream.silent =>
         stream.buffered = 0 /\ stream.eof

LEMMA SocksInvStep == SocksInv /\ [SocksNext]_socksVars => SocksInv'
<1>. SUFFICES ASSUME SocksInv, [SocksNext]_socksVars PROVE SocksInv'
  OBVIOUS
<1>. USE DEF SocksInv, SocksTypeOK, TorStreams, Negotiating, Leaving, clientSide
<1>1. CASE NegotiationFails
  BY <1>1 DEF NegotiationFails
<1>2. CASE Negotiate
  BY <1>2 DEF Negotiate, NegotiationAnswers
<1>3. CASE ConnectStream
  BY <1>3 DEF ConnectStream, NegotiationAnswers
<1>4. CASE ReplySuccess
  BY <1>4 DEF ReplySuccess
<1>5. CASE RecvFromTor
  <2>0. /\ handler = "recv" /\ holding = 0 /\ delivered' = delivered
        /\ pump' = pump /\ client' = client
    BY <1>5 DEF RecvFromTor
  <2>1. ASSUME NEW n \in 1..stream.buffered, holding' = n, handler' = "sendall",
               stream' = [stream EXCEPT !.buffered = @ - n]
        PROVE  SocksInv'
    <3>. USE <2>1
    <3>1. /\ stream' \in TorStreams
          /\ stream'.arrived = stream.arrived /\ stream'.buffered = stream.buffered - n
          /\ n \in Nat
      OBVIOUS
    <3>. QED BY <2>0, <3>1
  <2>2. CASE stream.buffered = 0 /\ stream.eof /\ handler' = "close" /\ UNCHANGED <<holding, stream>>
    BY <2>0, <2>2
  <2>3. CASE ReadTimesOut
    BY <2>0, <2>3 DEF ReadTimesOut
  <2>. QED BY <1>5, <2>1, <2>2, <2>3, Zenon DEF RecvFromTor
<1>6. CASE SendToClient
  BY <1>6 DEF SendToClient
<1>7. CASE CloseTorStream
  BY <1>7 DEF CloseTorStream
<1>8. CASE ShutdownClient
  BY <1>8 DEF ShutdownClient
<1>9. CASE JoinPump
  BY <1>9 DEF JoinPump
<1>10. CASE PumpRecv
  BY <1>10 DEF PumpRecv
<1>11. CASE PumpSend
  BY <1>11 DEF PumpSend
<1>12. CASE ClientSends
  BY <1>12 DEF ClientSends
<1>13. CASE ClientStops
  BY <1>13 DEF ClientStops
<1>14. CASE Receive
  <2>0. /\ ~stream.eof /\ UNCHANGED <<handler, pump, holding, delivered, client>>
    BY <1>14 DEF Receive
  <2>1. CASE stream' = [stream EXCEPT !.arrived = @ + 1, !.buffered = @ + 1]
    <3>1. /\ stream.arrived \in Nat /\ stream.buffered \in Nat
          /\ stream'.arrived = stream.arrived + 1 /\ stream'.buffered = stream.buffered + 1
          /\ stream'.silent = stream.silent
      BY <2>1
    <3>2. SocksTypeOK'
      <4>1. stream \in TorStreams
        OBVIOUS
      <4>. HIDE DEF SocksInv, SocksTypeOK
      <4>2. stream.arrived + 1 \in Nat /\ stream.buffered + 1 \in Nat
        BY <3>1
      <4>3. stream' = [[stream EXCEPT !.arrived = stream.arrived + 1]
                                EXCEPT !.buffered = stream.buffered + 1]
        BY <2>1, <4>1 DEF TorStreams
      <4>4. stream' \in TorStreams
        BY <4>1, <4>2, <4>3 DEF TorStreams
      <4>. QED BY <2>0, <4>4 DEF SocksInv, SocksTypeOK
    <3>3. handler \in Leaving /\ pump # "none" /\ client # "gone" => stream.silent
      BY <2>0
    <3>4. client # "gone" => stream'.arrived = delivered + holding + stream'.buffered
      BY <3>1
    <3>. QED BY <2>0, <3>1, <3>2, <3>3, <3>4
  <2>2. CASE stream' = [stream EXCEPT !.window = @ + 1]
    BY <2>0, <2>2
  <2>3. CASE stream' = [stream EXCEPT !.eof = TRUE]
    BY <2>0, <2>3
  <2>4. CASE stream' = [stream EXCEPT !.eof = TRUE, !.error = TRUE]
    BY <2>0, <2>4
  <2>. QED BY <1>14, <2>1, <2>2, <2>3, <2>4, Zenon DEF Receive
<1>15. CASE UNCHANGED socksVars
  BY <1>15 DEF socksVars
<1>. QED
  BY <1>1, <1>2, <1>3, <1>4, <1>5, <1>6, <1>7, <1>8, <1>9, <1>10, <1>11, <1>12, <1>13,
     <1>14, <1>15 DEF SocksNext, Handle, Pump

(* A client that stays is sent all that came, for downloads and uploads of   *)
(* any size and any window: socks.py:122-150.                                *)
THEOREM DownloadsAreWhole == SocksSpec => []DownloadWhole
<1>1. SocksInit => SocksInv
  BY SocksAssumption DEF SocksInit, SocksInv, SocksTypeOK, TorStreams, Negotiating, Leaving
<1>2. SocksInv /\ [SocksNext]_socksVars => SocksInv'
  BY SocksInvStep
<1>3. SocksInv => DownloadWhole
  BY DEF SocksInv, SocksTypeOK, Leaving, DownloadWhole
<1>. QED BY <1>1, <1>2, <1>3, PTL DEF SocksSpec

-------------------------------------------------------------------------------
(* PathChoice: the guards, and the hops drawn so far.                        *)

(* The sample is what was drawn, in that order, and knows who is offered.    *)
SampleMatches(c, sample, drawings) ==
    /\ drawings \in Seq(Relays)
    /\ sample \in Seq([relay : Relays, listed : BOOLEAN])
    /\ Len(sample) = Len(drawings)
    /\ \A i \in 1..Len(sample) :
         sample[i].relay = drawings[i] /\ (sample[i].listed <=> drawings[i] \in Eligible(c))

(* The first k roles have a hop.                                             *)
DrawnUpTo(k) ==
    \A role \in Roles : drawn[role] # NoRelay <=> \E i \in 1..k : DrawOrder[i] = role

RolesInTurn ==
    /\ step \in {"idle", "exits"} => DrawnUpTo(0)
    /\ step = "draw" => \E k \in 0..(Len(DrawOrder) - 1) : DrawnUpTo(k)
    /\ step \in {"judge", "resolve", "done"} => DrawnUpTo(Len(DrawOrder))

(* The places in the history of the guards the last hop allows.              *)
Admitted ==
    {i \in Primary({k \in DOMAIN seniority : seniority[k] \in Eligible(consensus)}) :
       purpose \in {"exit", "to", "dir"} => ~Conflicts(seniority[i], drawn["last"])}

HopsSound ==
    /\ drawn \in [Roles -> Relays \cup {NoRelay}]
    /\ \A role \in Roles : drawn[role] # NoRelay => drawn[role] \in Routers(consensus)
    /\ \A a, b \in Roles : a # b /\ NoRelay \notin {drawn[a], drawn[b]} =>
         ~Conflicts(drawn[a], drawn[b])
    /\ drawn["guard"] # NoRelay =>
         /\ GuardFlags \subseteq Flags(consensus, drawn["guard"])
         /\ Admitted # {} => drawn["guard"] = seniority[First(Admitted)]
    /\ purpose = "exit" /\ drawn["last"] # NoRelay =>
         Facts[drawn["last"]].opensPort /\ IsExit(consensus, drawn["last"])

Judged ==
    /\ step \in {"resolve", "done"} /\ HasFamilyConflict(held) => attempt = FamilyAttempts
    /\ step = "done" => \A r \in Excluded : r \in held /\ Facts[r].hasIdentity

PathInv ==
    /\ consensus \in Consensuses /\ purpose \in Purposes
    /\ step \in {"idle", "exits", "draw", "judge", "resolve", "done", "failed"}
    /\ attempt \in 0..FamilyAttempts
    /\ step = "idle" => purpose = "exit"
    /\ purpose = "to" => target \in Routers(consensus)
    /\ SampleMatches(consensus, entries, seniority)
    /\ RolesInTurn /\ HopsSound /\ Judged

LEMMA ChoiceIsACandidate ==
    ASSUME NEW c, NEW candidates, NEW position
    PROVE  Choice(c, candidates, position) \subseteq candidates
BY DEF Choice

LEMMA FirstIsOne ==
    ASSUME NEW places \in SUBSET Nat, places # {}
    PROVE  First(places) \in places
<1>. \E i \in places : \A k \in places : i <= k
  BY LeastExists
<1>. QED BY DEF First

LEMMA PickIsApart ==
    ASSUME NEW required, NEW position, NEW r \in Pick(required, position)
    PROVE  /\ r \in Routers(consensus)
           /\ required \subseteq Flags(consensus, r)
           /\ \A x \in Excluded : ~Conflicts(r, x)
BY ChoiceIsACandidate DEF Pick

(* Drawing more guards, if any, keeps the sample in step with the history.   *)
LEMMA UpdateMatches ==
    ASSUME NEW b, NEW c \in Consensuses, NEW sample, NEW drawings,
           SampleMatches(b, sample, drawings), NEW picks \in Drawings(c, sample)
    PROVE  /\ SampleMatches(c, Updated(c, sample, picks), drawings \o picks)
           /\ picks \in Seq(Relays)
<1>. DEFINE remaining == Eligible(c) \ Sampled(sample)
            listed    == Listed(Relist(c, sample))
            missing   == IF Cardinality(listed) < SampleSize
                         THEN SampleSize - Cardinality(listed) ELSE 0
            n         == AtMost(missing, Cardinality(remaining))
            fresh     == [i \in DOMAIN picks |-> [relay |-> picks[i], listed |-> TRUE]]
<1>1. remaining \subseteq Relays /\ remaining \subseteq Eligible(c)
  BY PathAssumption DEF Eligible, Routers
<1>2. Cardinality(remaining) \in Nat
  BY <1>1, PathAssumption, FS_Subset, FS_CardinalityType
<1>3. listed \subseteq 1..Len(sample) /\ Len(sample) \in Nat
  BY DEF Listed, Relist, SampleMatches
<1>4. Cardinality(listed) \in Nat
  <2>1. IsFiniteSet(1..Len(sample))
    BY <1>3, FS_Interval
  <2>2. IsFiniteSet(listed)
    BY <2>1, <1>3, FS_Subset
  <2>. QED BY <2>2, FS_CardinalityType
<1>5. n \in Nat
  BY <1>2, <1>4, PathAssumption DEF AtMost
<1>6. picks \in [1..n -> remaining]
  BY DEF Drawings
<1>. HIDE DEF n, remaining, listed, missing
<1>7. picks \in Seq(Relays) /\ Len(picks) = n /\ \A i \in 1..n : picks[i] \in Eligible(c)
  BY <1>1, <1>5, <1>6
<1>8. fresh \in Seq([relay : Relays, listed : BOOLEAN]) /\ Len(fresh) = n
  BY <1>5, <1>7
<1>9. /\ Relist(c, sample) \in Seq([relay : Relays, listed : BOOLEAN])
      /\ Len(Relist(c, sample)) = Len(sample)
      /\ \A i \in 1..Len(sample) :
           /\ Relist(c, sample)[i].relay = sample[i].relay
           /\ Relist(c, sample)[i].listed <=> sample[i].relay \in Eligible(c)
  <2>1. ASSUME NEW i \in 1..Len(sample)
        PROVE  /\ Relist(c, sample)[i] \in [relay : Relays, listed : BOOLEAN]
               /\ Relist(c, sample)[i].relay = sample[i].relay
               /\ Relist(c, sample)[i].listed <=> sample[i].relay \in Eligible(c)
    <3>1. sample[i] \in [relay : Relays, listed : BOOLEAN] /\ i \in DOMAIN sample
      <4>1. sample \in Seq([relay : Relays, listed : BOOLEAN])
        BY DEF SampleMatches
      <4>. QED BY <4>1, ElementOfSeq, LenProperties
    <3>2. Relist(c, sample)[i] = [sample[i] EXCEPT !.listed = sample[i].relay \in Eligible(c)]
      BY <3>1 DEF Relist
    <3>3. (sample[i].relay \in Eligible(c)) \in BOOLEAN
      OBVIOUS
    <3>. QED BY <3>1, <3>2, <3>3, Zenon
  <2>2. Relist(c, sample) = [i \in 1..Len(sample) |-> Relist(c, sample)[i]]
    BY DEF Relist, SampleMatches
  <2>. QED BY <1>3, <2>1, <2>2
<1>10. Updated(c, sample, picks) = Relist(c, sample) \o fresh
  BY DEF Updated
<1>. HIDE DEF fresh
<1>11. /\ drawings \in Seq(Relays) /\ Len(drawings) = Len(sample)
       /\ Len(sample) \in Nat /\ n \in Nat
  BY <1>3, <1>5 DEF SampleMatches
<1>12. ASSUME NEW i \in 1..(Len(sample) + n)
       PROVE  /\ (Relist(c, sample) \o fresh)[i].relay = (drawings \o picks)[i]
              /\ (Relist(c, sample) \o fresh)[i].listed <=> (drawings \o picks)[i] \in Eligible(c)
  <2>1. CASE i <= Len(sample)
    <3>1. /\ (Relist(c, sample) \o fresh)[i] = Relist(c, sample)[i]
          /\ (drawings \o picks)[i] = drawings[i]
      BY <2>1, <1>7, <1>8, <1>9, <1>11, ConcatProperties
    <3>2. sample[i].relay = drawings[i] /\ i \in 1..Len(sample)
      BY <2>1, <1>3 DEF SampleMatches
    <3>. QED BY <3>1, <3>2, <1>9, <2>1, <1>3
  <2>2. CASE i > Len(sample)
    <3>. DEFINE j == i - Len(sample)
    <3>1. j \in 1..n
      BY <2>2, <1>3, <1>5
    <3>2. /\ (Relist(c, sample) \o fresh)[i] = fresh[j]
          /\ (drawings \o picks)[i] = picks[j]
      BY <2>2, <1>7, <1>8, <1>9, <1>11, ConcatProperties
    <3>3. fresh[j] = [relay |-> picks[j], listed |-> TRUE]
      BY <3>1, <1>6 DEF fresh
    <3>. QED BY <3>1, <3>2, <3>3, <1>7
  <2>3. i <= Len(sample) \/ i > Len(sample)
    BY <1>11
  <2>. QED BY <2>1, <2>2, <2>3
<1>13. /\ Relist(c, sample) \o fresh \in Seq([relay : Relays, listed : BOOLEAN])
       /\ Len(Relist(c, sample) \o fresh) = Len(sample) + n
       /\ drawings \o picks \in Seq(Relays)
       /\ Len(drawings \o picks) = Len(sample) + n
  <2>1. /\ Relist(c, sample) \o fresh \in Seq([relay : Relays, listed : BOOLEAN])
        /\ Len(Relist(c, sample) \o fresh) = Len(sample) + n
    <3>. DEFINE R == [relay : Relays, listed : BOOLEAN]
    <3>1. Relist(c, sample) \in Seq(R) /\ fresh \in Seq(R)
      BY <1>8, <1>9
    <3>2. Len(Relist(c, sample)) = Len(sample) /\ Len(fresh) = n
      BY <1>8, <1>9
    <3>. HIDE DEF R
    <3>3. /\ Relist(c, sample) \o fresh \in Seq(R)
          /\ Len(Relist(c, sample) \o fresh) = Len(Relist(c, sample)) + Len(fresh)
      BY <3>1, ConcatProperties, Zenon
    <3>. QED BY <3>2, <3>3, Zenon DEF R
  <2>2. drawings \o picks \in Seq(Relays) /\ Len(drawings \o picks) = Len(sample) + n
    <3>1. picks \in Seq(Relays) /\ Len(picks) = n
      BY <1>7
    <3>2. drawings \in Seq(Relays) /\ Len(drawings) = Len(sample)
      BY <1>11
    <3>3. /\ drawings \o picks \in Seq(Relays)
          /\ Len(drawings \o picks) = Len(drawings) + Len(picks)
      BY <3>1, <3>2, ConcatProperties, Zenon
    <3>. QED BY <3>1, <3>2, <3>3, Zenon
  <2>. QED BY <2>1, <2>2
<1>. QED BY <1>7, <1>10, <1>12, <1>13 DEF SampleMatches

LEMMA PathInvInit == PathInit => PathInv
<1>. SUFFICES ASSUME PathInit PROVE PathInv
  OBVIOUS
<1>1. SampleMatches(consensus, <<>>, <<>>)
  BY DEF SampleMatches
<1>2. SampleMatches(consensus, entries, seniority)
  <2>1. consensus \in Consensuses /\ seniority \in Drawings(consensus, <<>>)
        /\ entries = Updated(consensus, <<>>, seniority)
    BY DEF PathInit
  <2>2. SampleMatches(consensus, entries, <<>> \o seniority) /\ seniority \in Seq(Relays)
    BY <1>1, <2>1, UpdateMatches
  <2>. QED BY <2>2
<1>3. DrawnUpTo(0) /\ HopsSound /\ Excluded = {}
  BY PathAssumption DEF PathInit, DrawnUpTo, HopsSound, Excluded, NoDraw, Roles
<1>. QED BY <1>2, <1>3, PathAssumption DEF PathInit, PathInv, RolesInTurn, Judged, Purposes


(* The sample offers what the history offers, place by place.                *)
LEMMA PlacesAgree ==
    ASSUME PathInv
    PROVE  /\ PrimaryGuards(consensus, entries)
                = Primary({k \in DOMAIN seniority : seniority[k] \in Eligible(consensus)})
           /\ PrimaryGuards(consensus, entries) \subseteq DOMAIN seniority
           /\ DOMAIN seniority \subseteq Nat
           /\ \A i \in PrimaryGuards(consensus, entries) :
                entries[i].relay = seniority[i] /\ seniority[i] \in Eligible(consensus)
<1>. DEFINE offered == {k \in DOMAIN seniority : seniority[k] \in Eligible(consensus)}
<1>1. DOMAIN entries = 1..Len(entries) /\ DOMAIN seniority = 1..Len(entries)
      /\ Len(entries) \in Nat
  BY LenProperties DEF PathInv, SampleMatches
<1>2. \A i \in 1..Len(entries) : entries[i].relay = seniority[i]
                                 /\ (entries[i].listed <=> seniority[i] \in Eligible(consensus))
  BY DEF PathInv, SampleMatches
<1>3. {i \in Listed(entries) : entries[i].relay \in Routers(consensus)} = offered
  BY <1>1, <1>2 DEF Listed, Eligible
<1>4. PrimaryGuards(consensus, entries) = Primary(offered)
  BY <1>3 DEF PrimaryGuards
<1>5. Primary(offered) \subseteq offered
  BY DEF Primary
<1>. QED BY <1>1, <1>2, <1>4, <1>5

LEMMA PairCounted ==
    ASSUME NEW x, NEW y, x # y
    PROVE  Cardinality({x, y}) = 2
<1>1. IsFiniteSet({x}) /\ Cardinality({x}) = 1
  BY FS_Singleton, Zenon
<1>2. Cardinality({x} \cup {y}) = Cardinality({x}) + 1
  BY <1>1, FS_AddElement, Zenon
<1>3. {x} \cup {y} = {x, y}
  OBVIOUS
<1>. QED BY <1>1, <1>2, <1>3

(* The next role is that after as many as there are hops.                    *)
LEMMA HopsCounted ==
    ASSUME PathInv, NEW k \in 0..2, DrawnUpTo(k), k <= Len(DrawOrder)
    PROVE  /\ Cardinality(Excluded) = k
           /\ k = 0 => Excluded = {}
           /\ k = 1 => Excluded = {drawn[DrawOrder[1]]}
           /\ k = 2 => Excluded = {drawn[DrawOrder[1]], drawn[DrawOrder[2]]}
<1>1. \A i, j \in 1..k : i # j => DrawOrder[i] # DrawOrder[j]
  BY DEF DrawOrder
<1>2. \A i \in 1..k : DrawOrder[i] \in Roles
  BY DEF DrawOrder, Roles
<1>3. \A i \in 1..k : drawn[DrawOrder[i]] # NoRelay
  BY <1>2 DEF DrawnUpTo
<1>4. Excluded = {drawn[DrawOrder[i]] : i \in 1..k}
  BY <1>2, <1>3 DEF DrawnUpTo, Excluded
<1>5. CASE k = 0
  BY <1>4, <1>5, FS_EmptySet
<1>6. CASE k = 1
  <2>1. Excluded = {drawn[DrawOrder[1]]}
    BY <1>4, <1>6
  <2>2. Cardinality({drawn[DrawOrder[1]]}) = 1
    BY FS_Singleton, Zenon
  <2>. QED BY <2>1, <2>2, <1>6
<1>7. CASE k = 2
  <2>1. Excluded = {drawn[DrawOrder[1]], drawn[DrawOrder[2]]}
    BY <1>4, <1>7
  <2>2. drawn[DrawOrder[1]] # drawn[DrawOrder[2]]
    BY <1>1, <1>2, <1>3, <1>7 DEF PathInv, HopsSound, Conflicts
  <2>3. Cardinality({drawn[DrawOrder[1]], drawn[DrawOrder[2]]}) = 2
    BY <2>2, PairCounted, Zenon
  <2>. QED BY <2>1, <2>3, <1>7
<1>. QED BY <1>5, <1>6, <1>7

(* A guard is apart from the hops drawn, and the first of the sample that is *)
(* admitted, if any is.                                                      *)
LEMMA GuardIsSound ==
    ASSUME PathInv, NEW r \in SelectGuard,
           Excluded = IF purpose \in {"exit", "to", "dir"} THEN {drawn["last"]} ELSE {}
    PROVE  /\ r \in Routers(consensus) /\ GuardFlags \subseteq Flags(consensus, r)
           /\ \A x \in Excluded : ~Conflicts(r, x)
           /\ Admitted # {} => r = seniority[First(Admitted)]
<1>. DEFINE usable == {i \in PrimaryGuards(consensus, entries) :
                         /\ GuardFlags \subseteq Flags(consensus, entries[i].relay)
                         /\ \A x \in Excluded : ~Conflicts(entries[i].relay, x)}
<1>1. usable = Admitted
  BY PlacesAgree DEF Admitted, Eligible
<1>2. SelectGuard = IF usable # {} THEN {entries[First(usable)].relay} ELSE Pick(GuardFlags, "guard")
  BY DEF SelectGuard
<1>3. CASE usable = {}
  BY <1>1, <1>2, <1>3, PickIsApart
<1>4. CASE usable # {}
  <2>1. First(usable) \in usable
    BY <1>4, PlacesAgree, FirstIsOne
  <2>2. r = entries[First(usable)].relay
    BY <1>2, <1>4
  <2>3. entries[First(usable)].relay = seniority[First(usable)]
        /\ seniority[First(usable)] \in Eligible(consensus)
    BY <2>1, PlacesAgree
  <2>. QED BY <1>1, <2>1, <2>2, <2>3 DEF Eligible
<1>. QED BY <1>3, <1>4

LEMMA NewConsensusKeeps ==
    ASSUME PathInv, NEW c \in Consensuses, NewConsensus(c)
    PROVE  PathInv'
<1>1. PICK picks \in Drawings(c, entries) :
        entries' = Updated(c, entries, picks) /\ seniority' = seniority \o picks
  BY DEF NewConsensus
<1>2. SampleMatches(c, entries', seniority')
  BY <1>1, UpdateMatches DEF PathInv
<1>3. SampleMatches(consensus, entries, seniority)'
  BY <1>2 DEF NewConsensus, SampleMatches
<1>4. step = "idle" /\ step' = "idle" /\ \A role \in Roles : drawn[role] = NoRelay
  BY DEF NewConsensus, requestVars, PathInv, RolesInTurn, DrawnUpTo
<1>5. RolesInTurn' /\ HopsSound'
  BY <1>4 DEF NewConsensus, requestVars, PathInv, RolesInTurn, DrawnUpTo, HopsSound, Roles, DrawOrder
<1>. QED BY <1>3, <1>4, <1>5 DEF NewConsensus, requestVars, PathInv, Judged

LEMMA AskKeeps ==
    ASSUME PathInv, NEW kind \in Purposes, NEW r, Ask(kind, r),
           kind = "to" => r \in Routers(consensus)
    PROVE  PathInv'
<1>1. HopsSound' /\ DrawnUpTo(0)'
  BY PathAssumption DEF Ask, NoDraw, HopsSound, DrawnUpTo, Roles
<1>2. Len(DrawOrder)' \in 2..3
  BY DEF DrawOrder
<1>3. RolesInTurn'
  BY <1>1, <1>2 DEF Ask, RolesInTurn
<1>4. SampleMatches(consensus, entries, seniority)'
  BY DEF Ask, PathInv
<1>5. 1 \in 0..FamilyAttempts
  BY PathAssumption
<1>. QED BY <1>1, <1>3, <1>4, <1>5 DEF Ask, PathInv, Judged


(* What is drawn for the next role suits it.                                 *)
LEMMA SelectedIsSound ==
    ASSUME PathInv, step = "draw", NEW k \in 0..(Len(DrawOrder) - 1), DrawnUpTo(k),
           NEW role, role = DrawOrder[k + 1], NEW r \in Select(role)
    PROVE  /\ r \in Routers(consensus) /\ \A x \in Excluded : ~Conflicts(r, x)
           /\ role = "guard" => /\ GuardFlags \subseteq Flags(consensus, r)
                                /\ Admitted # {} => r = seniority[First(Admitted)]
           /\ role = "last" /\ purpose = "exit" => Facts[r].opensPort /\ IsExit(consensus, r)
<1>1. k \in 0..2 /\ k <= Len(DrawOrder) /\ role \in Roles
  BY DEF DrawOrder, Roles
<1>2. /\ k = 0 => Excluded = {}
      /\ k = 1 => Excluded = {drawn[DrawOrder[1]]}
  BY <1>1, HopsCounted
<1>3. CASE role = "guard"
  <2>1. purpose \in {"exit", "to", "dir"} => k = 1 /\ DrawOrder[1] = "last"
    BY <1>1, <1>3 DEF DrawOrder
  <2>2. purpose \notin {"exit", "to", "dir"} => k = 0
    BY <1>1, <1>3 DEF DrawOrder
  <2>3. Excluded = IF purpose \in {"exit", "to", "dir"} THEN {drawn["last"]} ELSE {}
    BY <1>2, <2>1, <2>2
  <2>4. r \in SelectGuard
    BY <1>3 DEF Select
  <2>. QED BY <1>3, <2>3, <2>4, GuardIsSound
<1>4. CASE role = "middle"
  <2>1. r \in Pick(MiddleFlags, "middle")
    BY <1>4 DEF Select
  <2>. QED BY <1>4, <2>1, PickIsApart
<1>5. CASE role = "last"
  <2>1. r \in SelectLast
    BY <1>5 DEF Select
  <2>2. CASE purpose \in {"exit", "to", "dir"}
    <3>1. Excluded = {}
      BY <1>1, <1>2, <1>5, <2>2 DEF DrawOrder
    <3>2. CASE purpose = "exit"
      BY <2>1, <3>1, <3>2, <1>5, ChoiceIsACandidate DEF SelectLast
    <3>3. CASE purpose = "dir"
      BY <2>1, <3>1, <3>3, <1>5, ChoiceIsACandidate DEF SelectLast
    <3>4. CASE purpose = "to"
      BY <2>1, <3>1, <3>4, <1>5 DEF SelectLast, PathInv
    <3>. QED BY <2>2, <3>2, <3>3, <3>4
  <2>3. CASE purpose \notin {"exit", "to", "dir"}
    <3>1. r \in Pick(MiddleFlags, "middle")
      BY <2>1, <2>3 DEF SelectLast
    <3>. QED BY <1>5, <2>3, <3>1, PickIsApart
  <2>. QED BY <2>2, <2>3
<1>. QED BY <1>1, <1>3, <1>4, <1>5 DEF Roles

LEMMA FailKeeps ==
    ASSUME PathInv, Fail, step # "idle"
    PROVE  PathInv'
<1>1. HopsSound' /\ SampleMatches(consensus, entries, seniority)'
  BY DEF PathInv, Fail, HopsSound, Admitted
<1>. QED BY <1>1 DEF PathInv, Fail, RolesInTurn, Judged

LEMMA DrawHopKeeps ==
    ASSUME PathInv, DrawHop
    PROVE  PathInv'
<1>1. PICK k \in 0..(Len(DrawOrder) - 1) : DrawnUpTo(k)
  BY DEF DrawHop, PathInv, RolesInTurn
<1>2. Len(DrawOrder) \in 2..3 /\ k \in 0..2 /\ k <= Len(DrawOrder) /\ step = "draw"
  BY <1>1 DEF DrawOrder, DrawHop
<1>3. Cardinality(Excluded) = k
  BY <1>1, <1>2, HopsCounted
<1>. DEFINE role == DrawOrder[k + 1]
<1>4. role \in Roles
  BY <1>1 DEF DrawOrder, Roles
<1>5. CASE Select(role) = {}
  BY <1>2, <1>3, <1>5, FailKeeps DEF DrawHop
<1>6. CASE Select(role) # {}
  <2>1. PICK r \in Select(role) : drawn' = [drawn EXCEPT ![role] = r]
    BY <1>3, <1>6 DEF DrawHop
  <2>2. /\ step' = IF k + 1 = Len(DrawOrder) THEN "judge" ELSE "draw"
        /\ UNCHANGED <<consensus, entries, held, purpose, target, attempt, seniority>>
    BY <1>3, <1>6 DEF DrawHop
  <2>3. /\ r \in Routers(consensus) /\ \A x \in Excluded : ~Conflicts(r, x)
        /\ role = "guard" => /\ GuardFlags \subseteq Flags(consensus, r)
                             /\ Admitted # {} => r = seniority[First(Admitted)]
        /\ role = "last" /\ purpose = "exit" => Facts[r].opensPort /\ IsExit(consensus, r)
    BY <1>1, <1>2, SelectedIsSound
  <2>. HIDE DEF role
  <2>4. r \in Relays /\ r # NoRelay
    BY <2>3, PathAssumption DEF PathInv, Routers
  <2>5. /\ drawn' \in [Roles -> Relays \cup {NoRelay}] /\ drawn'[role] = r
        /\ \A other \in Roles \ {role} : drawn'[other] = drawn[other]
    BY <1>4, <2>1, <2>4 DEF PathInv, HopsSound
  <2>6. DrawOrder' = DrawOrder
    BY <2>2 DEF DrawOrder
  <2>7. DrawnUpTo(k + 1)'
    <3>1. \A other \in Roles : (\E i \in 1..(k + 1) : DrawOrder[i] = other)
                               <=> other = role \/ \E i \in 1..k : DrawOrder[i] = other
      BY <1>1, <1>2 DEF role
    <3>. QED BY <1>1, <2>4, <2>5, <2>6, <3>1 DEF DrawnUpTo
  <2>8. RolesInTurn'
    BY <1>1, <1>2, <2>2, <2>6, <2>7 DEF RolesInTurn
  <2>9. \A other \in Roles \ {role} : drawn[other] # NoRelay =>
          ~Conflicts(r, drawn[other]) /\ ~Conflicts(drawn[other], r)
    BY <2>3 DEF Excluded, Conflicts
  <2>10. drawn'["guard"] # NoRelay /\ Admitted' # {} =>
            drawn'["guard"] = seniority[First(Admitted')]
    <3>1. CASE role = "last" /\ purpose \in {"exit", "to", "dir"}
      <4>1. k = 0
        BY <1>1, <3>1 DEF role, DrawOrder
      <4>2. drawn["guard"] = NoRelay
        BY <1>1, <4>1 DEF DrawnUpTo, Roles
      <4>. QED BY <3>1, <4>2, <2>5 DEF Roles
    <3>2. CASE ~(role = "last" /\ purpose \in {"exit", "to", "dir"})
      <4>1. Admitted' = Admitted
        BY <2>2, <2>5, <3>2 DEF Admitted, Roles
      <4>. QED BY <4>1, <2>3, <2>5, <1>4 DEF PathInv, HopsSound, Roles
    <3>. QED BY <3>1, <3>2
  <2>11. HopsSound'
    <3>1. \A other \in Roles : drawn'[other] # NoRelay => drawn'[other] \in Routers(consensus)
      BY <2>3, <2>5 DEF PathInv, HopsSound
    <3>2. \A a, b \in Roles : a # b /\ NoRelay \notin {drawn'[a], drawn'[b]} =>
            ~Conflicts(drawn'[a], drawn'[b])
      BY <2>5, <2>9 DEF PathInv, HopsSound
    <3>3. drawn'["guard"] # NoRelay => GuardFlags \subseteq Flags(consensus, drawn'["guard"])
      BY <2>3, <2>5 DEF PathInv, HopsSound, Roles
    <3>4. purpose = "exit" /\ drawn'["last"] # NoRelay =>
            Facts[drawn'["last"]].opensPort /\ IsExit(consensus, drawn'["last"])
      BY <2>3, <2>5 DEF PathInv, HopsSound, Roles
    <3>. QED BY <2>2, <2>5, <2>10, <3>1, <3>2, <3>3, <3>4 DEF HopsSound
  <2>12. Judged' /\ step' \in {"judge", "draw"}
    BY <2>2 DEF Judged
  <2>13. SampleMatches(consensus, entries, seniority)'
    BY <2>2 DEF PathInv
  <2>. QED BY <2>2, <2>8, <2>11, <2>12, <2>13 DEF PathInv
<1>. QED BY <1>5, <1>6

LEMMA JudgeKeeps ==
    ASSUME PathInv, Judge
    PROVE  PathInv'
<1>1. SampleMatches(consensus, entries, seniority)'
  BY DEF PathInv, Judge
<1>2. CASE attempt < FamilyAttempts /\ HasFamilyConflict(held')
  <2>1. drawn' = NoDraw /\ attempt' = attempt + 1 /\ step' \in {"exits", "draw"}
    BY <1>2 DEF Judge
  <2>2. HopsSound' /\ DrawnUpTo(0)'
    BY <2>1, PathAssumption DEF NoDraw, HopsSound, DrawnUpTo, Roles
  <2>3. Len(DrawOrder)' \in 2..3
    BY DEF DrawOrder
  <2>4. RolesInTurn' /\ Judged'
    BY <2>1, <2>2, <2>3 DEF RolesInTurn, Judged
  <2>5. attempt' \in 0..FamilyAttempts
    BY <1>2, <2>1, PathAssumption DEF PathInv
  <2>. QED BY <1>1, <2>1, <2>2, <2>4, <2>5 DEF PathInv, Judge
<1>3. CASE ~(attempt < FamilyAttempts /\ HasFamilyConflict(held'))
  <2>1. step' = "resolve" /\ UNCHANGED <<drawn, attempt, consensus, entries, purpose, target, seniority>>
    BY <1>3 DEF Judge
  <2>2. HopsSound'
    BY <2>1 DEF PathInv, HopsSound, Admitted
  <2>3. RolesInTurn'
    BY <2>1 DEF Judge, PathInv, RolesInTurn, DrawnUpTo, DrawOrder
  <2>4. HasFamilyConflict(held)' => attempt' = FamilyAttempts
    BY <1>3, <2>1, PathAssumption DEF PathInv, HasFamilyConflict, Excluded
  <2>. QED BY <1>1, <2>1, <2>2, <2>3, <2>4 DEF PathInv, Judged
<1>. QED BY <1>2, <1>3

LEMMA OtherStepsKeep ==
    ASSUME PathInv, FetchExits \/ Resolve \/ Return \/ UNCHANGED pathVars
    PROVE  PathInv'
<1>1. CASE FetchExits
  <2>1. HopsSound' /\ SampleMatches(consensus, entries, seniority)'
    BY <1>1 DEF FetchExits, PathInv, HopsSound, Admitted
  <2>2. RolesInTurn'
    BY <1>1 DEF FetchExits, PathInv, RolesInTurn, DrawnUpTo, DrawOrder
  <2>. QED BY <1>1, <2>1, <2>2 DEF FetchExits, PathInv, Judged
<1>2. CASE Resolve
  <2>1. HopsSound' /\ SampleMatches(consensus, entries, seniority)'
    BY <1>2 DEF Resolve, PathInv, HopsSound, Admitted
  <2>2. RolesInTurn'
    BY <1>2 DEF Resolve, PathInv, RolesInTurn, DrawnUpTo, DrawOrder
  <2>3. Judged'
    BY <1>2 DEF Resolve, PathInv, Judged, HasFamilyConflict, Excluded
  <2>. QED BY <1>2, <2>1, <2>2, <2>3 DEF Resolve, PathInv
<1>3. CASE Return
  <2>1. HopsSound' /\ DrawnUpTo(0)'
    BY <1>3, PathAssumption DEF Return, NoDraw, HopsSound, DrawnUpTo, Roles
  <2>2. SampleMatches(consensus, entries, seniority)' /\ 0 \in 0..FamilyAttempts
    BY <1>3, PathAssumption DEF Return, PathInv
  <2>. QED BY <1>3, <2>1, <2>2 DEF Return, PathInv, RolesInTurn, Judged, Purposes
<1>4. CASE UNCHANGED pathVars
  <2>1. HopsSound' /\ SampleMatches(consensus, entries, seniority)'
    BY <1>4 DEF pathVars, PathInv, HopsSound, Admitted
  <2>2. RolesInTurn'
    BY <1>4 DEF pathVars, PathInv, RolesInTurn, DrawnUpTo, DrawOrder
  <2>3. Judged'
    BY <1>4 DEF pathVars, PathInv, Judged, HasFamilyConflict, Excluded
  <2>. QED BY <1>4, <2>1, <2>2, <2>3 DEF pathVars, PathInv
<1>. QED BY <1>1, <1>2, <1>3, <1>4

LEMMA PathInvStep == PathInv /\ [PathNext]_pathVars => PathInv'
<1>. SUFFICES ASSUME PathInv, [PathNext]_pathVars PROVE PathInv'
  OBVIOUS
<1>1. ASSUME NEW c \in Consensuses, NewConsensus(c) PROVE PathInv'
  BY <1>1, NewConsensusKeeps
<1>2. ASSUME NEW kind \in Purposes \ {"to"}, Ask(kind, NoRelay) PROVE PathInv'
  BY <1>2, AskKeeps
<1>3. ASSUME NEW r \in Routers(consensus), Ask("to", r) PROVE PathInv'
  BY <1>3, AskKeeps DEF Purposes
<1>4. CASE FetchFails
  BY <1>4, FailKeeps DEF FetchFails
<1>. QED BY <1>1, <1>2, <1>3, <1>4, DrawHopKeeps, JudgeKeeps, OtherStepsKeep DEF PathNext, PathStep

LEMMA PathInvariant == PathSpec => []PathInv
BY PathInvInit, PathInvStep, PTL DEF PathSpec

(* Every finished path keeps its relays apart, for every consensus, sample   *)
(* and number of attempts, whatever microdescriptors were withheld:          *)
(* bootstrap.py:310-434, pathselect.py:158-238.                              *)
THEOREM PathsAreApart == PathSpec => []HopsApart
<1>1. ASSUME PathInv, step = "done" PROVE HopsApart
  <2>1. DrawnUpTo(Len(DrawOrder)) /\ HopsSound /\ Judged
    BY <1>1 DEF PathInv, RolesInTurn
  <2>2. drawn["guard"] # NoRelay
    BY <2>1 DEF DrawnUpTo, DrawOrder, Roles
  <2>3. purpose = "exit" => drawn["last"] # NoRelay
    BY <2>1 DEF DrawnUpTo, DrawOrder, Roles
  <2>4. ASSUME NEW a \in Roles, NEW b \in Roles, a # b, NoRelay \notin {drawn[a], drawn[b]}
        PROVE  /\ drawn[a] # drawn[b]
               /\ Facts[drawn[a]].subnet # Facts[drawn[b]].subnet
               /\ FamilyConflict(drawn[a], drawn[b]) => attempt = FamilyAttempts
    <3>1. ~Conflicts(drawn[a], drawn[b])
      BY <2>1, <2>4 DEF HopsSound
    <3>2. {drawn[a], drawn[b]} \subseteq Excluded /\ Excluded \subseteq held
      BY <1>1, <2>1, <2>4 DEF Excluded, Judged
    <3>3. HasFamilyConflict(held) => attempt = FamilyAttempts
      BY <1>1, <2>1 DEF Judged
    <3>. QED BY <3>1, <3>2, <3>3 DEF Conflicts, FamilyConflict, HasFamilyConflict
  <2>5. \A r \in Excluded : Facts[r].hasIdentity /\ "NoEdConsensus" \notin Flags(consensus, r)
    BY <1>1, <2>1 DEF Judged, HopsSound, Excluded, Routers
  <2>. QED BY <2>1, <2>2, <2>3, <2>4, <2>5 DEF HopsSound, HopsApart
<1>2. PathInv => HopsApart
  BY <1>1 DEF HopsApart
<1>. QED BY <1>2, PathInvariant, PTL

(* The entry is the guard sampled first of those on offer that the last hop  *)
(* allows, for every sequence of consensuses: guards.py:49-91,               *)
(* pathselect.py:212-234.                                                    *)
THEOREM EntryIsTheOldestGuard == PathSpec => []EntryStaysFirst
<1>1. ASSUME PathInv PROVE EntryStaysFirst
  <2>1. {entries[i].relay : i \in PrimaryGuards(consensus, entries)}
          = {seniority[i] : i \in Primary({k \in DOMAIN seniority : seniority[k] \in Eligible(consensus)})}
    BY <1>1, PlacesAgree
  <2>2. step = "done" => drawn["guard"] # NoRelay
    BY <1>1 DEF PathInv, RolesInTurn, DrawnUpTo, DrawOrder, Roles
  <2>3. step = "done" /\ Admitted # {} => drawn["guard"] = seniority[First(Admitted)]
    BY <1>1, <2>2 DEF PathInv, HopsSound
  <2>. QED BY <2>1, <2>3 DEF EntryStaysFirst, Admitted
<1>. QED BY <1>1, PathInvariant, PTL

-------------------------------------------------------------------------------
(* HsDirRing: the walk takes the nodes in clockwise order.                   *)

(* What is nearer to the target than the node the walk stands at.            *)
Behind == {m \in nodes : Clockwise(targets[replica], m)
                         < Clockwise(targets[replica], Ordered(pos))}

FirstPos(to) == IF BisectLeft(to) = Total THEN 0 ELSE BisectLeft(to)

(* What was chosen for earlier replicas, and what they have left.            *)
Before == ReferenceAfter[replica - 1]
Left   == nodes \ {Before[i] : i \in DOMAIN Before}

(* The replica has added the nearest of what was left, as far as it walked.  *)
AddedNearest ==
    /\ replica <= Replicas
    /\ start = FirstPos(targets[replica]) /\ pos \in 0..(Total - 1)
    /\ added \in 0..SpreadFetch
    /\ Before \in Seq(nodes) /\ Len(selected) = Len(Before) + added
    /\ \A i \in 1..Len(Before) : selected[i] = Before[i]
    /\ \A i \in 1..added : selected[Len(Before) + i] = NearestFirst(targets[replica], Left)[i]
    /\ {selected[Len(Before) + i] : i \in 1..added} = Left \cap Behind
    /\ Cardinality(Left \cap Behind) = added

RingInv ==
    /\ nodes \subseteq Places /\ targets \in [1..Replicas -> Places]
    /\ replica \in 1..(Replicas + 1) /\ selected \in Seq(nodes)
    /\ walk \in {"replica", "node", "returned"}
    /\ walk # "returned" => nodes # {}
    /\ walk = "returned" => selected = ReferenceAfter[Replicas]
    /\ walk = "replica" => selected = Before
    /\ walk = "node" => AddedNearest

(* Ranks in a finite set whose members have distinct keys.                   *)
Rank(S, key, n) == Cardinality({m \in S : key[m] < key[n]})

LEMMA RankGrows ==
    ASSUME NEW S, IsFiniteSet(S), NEW key \in [S -> Nat], NEW a \in S, NEW b \in S, key[a] < key[b]
    PROVE  /\ Rank(S, key, a) \in Nat /\ Rank(S, key, b) \in Nat
           /\ Rank(S, key, a) < Rank(S, key, b)
<1>. DEFINE A == {m \in S : key[m] < key[a]}
            B == {m \in S : key[m] < key[b]}
<1>1. A \cup {a} \subseteq B /\ a \notin A
  OBVIOUS
<1>2. IsFiniteSet(A) /\ IsFiniteSet(B)
  BY FS_Subset
<1>. HIDE DEF A, B
<1>3. Cardinality(A \cup {a}) = Cardinality(A) + 1 /\ IsFiniteSet(A \cup {a})
  BY <1>1, <1>2, FS_AddElement, Zenon
<1>4. Cardinality(A \cup {a}) <= Cardinality(B)
  BY <1>1, <1>2, FS_Subset, Zenon
<1>5. Cardinality(A) \in Nat /\ Cardinality(B) \in Nat
  BY <1>2, FS_CardinalityType
<1>6. Cardinality(A) < Cardinality(B)
  BY <1>3, <1>4, <1>5
<1>. QED BY <1>5, <1>6 DEF Rank, A, B

Distinct(S, key) == \A a, b \in S : key[a] = key[b] => a = b

LEMMA RankIdentifies ==
    ASSUME NEW S, IsFiniteSet(S), NEW key \in [S -> Nat], Distinct(S, key),
           NEW a \in S, NEW b \in S, Rank(S, key, a) = Rank(S, key, b)
    PROVE  a = b
<1>1. ~(key[a] < key[b]) /\ ~(key[b] < key[a])
  BY RankGrows
<1>. QED BY <1>1 DEF Distinct

(* Who comes before the next in rank: who came before, and that one.         *)
LEMMA RankSteps ==
    ASSUME NEW S, IsFiniteSet(S), NEW key \in [S -> Nat], Distinct(S, key),
           NEW a \in S, NEW b \in S, Rank(S, key, b) = Rank(S, key, a) + 1
    PROVE  {m \in S : key[m] < key[b]} = {m \in S : key[m] < key[a]} \cup {a}
<1>. DEFINE A == {m \in S : key[m] < key[a]}
            B == {m \in S : key[m] < key[b]}
<1>1. Rank(S, key, a) \in Nat /\ Rank(S, key, b) \in Nat
  BY FS_Subset, FS_CardinalityType DEF Rank
<1>2. key[a] < key[b]
  <2>1. key[a] # key[b]
    BY <1>1 DEF Distinct
  <2>2. ~(key[b] < key[a])
    BY <1>1, RankGrows
  <2>. QED BY <2>1, <2>2
<1>3. ASSUME NEW m \in B PROVE m \in A \cup {a}
  <2>1. m \in S /\ Rank(S, key, m) < Rank(S, key, a) + 1 /\ Rank(S, key, m) \in Nat
    BY RankGrows
  <2>2. ~(key[a] < key[m])
    BY <1>1, <2>1, RankGrows
  <2>. QED BY <2>1, <2>2 DEF Distinct
<1>4. A \cup {a} \subseteq B
  BY <1>2
<1>. QED BY <1>3, <1>4

(* The last in rank comes after all the others.                              *)
LEMMA RankEnds ==
    ASSUME NEW S, IsFiniteSet(S), NEW key \in [S -> Nat], Distinct(S, key),
           NEW a \in S, Rank(S, key, a) = Cardinality(S) - 1
    PROVE  S = {m \in S : key[m] < key[a]} \cup {a}
<1>. DEFINE A == {m \in S : key[m] < key[a]}
<1>1. IsFiniteSet(A) /\ A \subseteq S /\ a \notin A /\ IsFiniteSet(A \cup {a})
  BY FS_Subset, FS_AddElement
<1>2. Cardinality(A) = Cardinality(S) - 1
  BY DEF Rank
<1>. HIDE DEF A
<1>3. Cardinality(A \cup {a}) = Cardinality(A) + 1
  BY <1>1, FS_AddElement, Zenon
<1>4. Cardinality(S) \in Nat /\ Cardinality(A) \in Nat
  BY <1>1, FS_CardinalityType
<1>5. Cardinality(A \cup {a}) = Cardinality(S)
  BY <1>2, <1>3, <1>4
<1>6. A \cup {a} = S
  BY <1>1, <1>5, FS_Subset, Zenon
<1>. QED BY <1>6 DEF A

(* Every rank below the number of elements is somebody's.                    *)
LEMMA RankTaken ==
    ASSUME NEW b \in Nat, NEW S \in SUBSET (0..b), NEW k \in Nat, k < Cardinality(S)
    PROVE  \E n \in S : Cardinality({m \in S : m < n}) = k
<1>. DEFINE Smaller(n) == {m \in S : m < n}
            T == {n \in S : Cardinality(Smaller(n)) >= k}
<1>. IsFiniteSet(S)
  <2>1. IsFiniteSet(0..b) /\ S \subseteq 0..b
    BY FS_Interval
  <2>. QED BY <2>1, FS_Subset
<1>1. \A n \in S : IsFiniteSet(Smaller(n)) /\ Cardinality(Smaller(n)) \in Nat
  BY FS_Subset, FS_CardinalityType
<1>2. ASSUME NEW R \in SUBSET S, R # {}
      PROVE  \E m \in R : /\ \A n \in R : n <= m
                          /\ IsFiniteSet(R) /\ Cardinality(R) \in Nat
                          /\ (\A n \in S, r \in R : n < r => n \in R) =>
                               Cardinality(R) = Cardinality(Smaller(m)) + 1
  <2>1. IsFiniteSet(R) /\ Cardinality(R) \in Nat
    BY FS_Subset, FS_CardinalityType
  <2>2. PICK m \in R : \A n \in R : m >= n
    BY <1>2, GreatestExists
  <2>3. ASSUME \A n \in S, r \in R : n < r => n \in R
        PROVE  Cardinality(R) = Cardinality(Smaller(m)) + 1
    <3>1. R = Smaller(m) \cup {m} /\ m \notin Smaller(m)
      <4>1. ASSUME NEW n \in R PROVE n \in Smaller(m) \cup {m}
        BY <2>2
      <4>2. ASSUME NEW n \in Smaller(m) PROVE n \in R /\ n # m
        BY <2>3
      <4>. QED BY <4>1, <4>2
    <3>. HIDE DEF Smaller
    <3>. QED BY <3>1, <1>1, FS_AddElement, Zenon
  <2>. QED BY <2>1, <2>2, <2>3
<1>3. T # {}
  <2>1. S # {}
    BY FS_EmptySet
  <2>2. PICK m \in S : Cardinality(S) = Cardinality(Smaller(m)) + 1
    BY <1>2, <2>1
  <2>3. Cardinality(S) \in Nat /\ Cardinality(Smaller(m)) \in Nat
    BY <1>1, FS_CardinalityType
  <2>4. Cardinality(Smaller(m)) >= k
    BY <2>2, <2>3
  <2>. QED BY <2>4
<1>4. PICK n \in T : \A m \in T : n <= m
  <2>1. T \subseteq S /\ S \subseteq Nat
    OBVIOUS
  <2>. HIDE DEF T
  <2>. QED BY <2>1, <1>3, LeastExists
<1>5. Cardinality(Smaller(n)) <= k
  <2>1. CASE Smaller(n) = {}
    BY <2>1, FS_EmptySet
  <2>2. CASE Smaller(n) # {}
    <3>1. PICK m \in Smaller(n) : Cardinality(Smaller(n)) = Cardinality(Smaller(m)) + 1
      <4>1. Smaller(n) \in SUBSET S /\ \A x \in S, r \in Smaller(n) : x < r => x \in Smaller(n)
        OBVIOUS
      <4>. QED BY <1>2, <2>2, <4>1
    <3>2. m \notin T /\ m \in S
      BY <1>4, <3>1
    <3>3. Cardinality(Smaller(m)) < k /\ Cardinality(Smaller(m)) \in Nat
      BY <1>1, <3>2
    <3>. QED BY <3>1, <3>3
  <2>. QED BY <2>1, <2>2
<1>6. Cardinality(Smaller(n)) = k
  BY <1>1, <1>4, <1>5
<1>. QED BY <1>4, <1>6


LEMMA ClockwiseIs ==
    ASSUME NEW from \in Places, NEW n \in Places
    PROVE  /\ Clockwise(from, n) = IF n >= from THEN n - from ELSE n - from + RingSize
           /\ Clockwise(from, n) \in Nat
<1>1. RingSize \in Nat \ {0}
  BY RingAssumption
<1>2. \A x \in 0..(RingSize - 1) : x % RingSize = x /\ (x + RingSize) % RingSize = x
  BY <1>1
<1>3. CASE n >= from
  BY <1>1, <1>2, <1>3 DEF Places, Clockwise
<1>4. CASE n < from
  BY <1>1, <1>2, <1>4 DEF Places, Clockwise
<1>. QED BY <1>1, <1>3, <1>4 DEF Places


LEMMA PlacesFinite ==
    ASSUME NEW S \in SUBSET Places
    PROVE  IsFiniteSet(S) /\ Cardinality(S) \in Nat
<1>1. IsFiniteSet(Places)
  BY RingAssumption, FS_Interval DEF Places
<1>. QED BY <1>1, FS_Subset, FS_CardinalityType

(* Places by their distance from one of them.                                *)
Distance(from, S) == [m \in S |-> Clockwise(from, m)]

LEMMA DistanceKey ==
    ASSUME NEW from \in Places, NEW S \in SUBSET Places
    PROVE  /\ Distance(from, S) \in [S -> Nat] /\ Distinct(S, Distance(from, S))
           /\ \A n \in S : /\ Distance(from, S)[n] = Clockwise(from, n)
                           /\ Rank(S, Distance(from, S), n)
                                = Cardinality({m \in S : Clockwise(from, m) < Clockwise(from, n)})
           /\ \A n \in S : {m \in S : Distance(from, S)[m] < Distance(from, S)[n]}
                             = {m \in S : Clockwise(from, m) < Clockwise(from, n)}
<1>1. \A n \in S : Distance(from, S)[n] = Clockwise(from, n)
  BY DEF Distance
<1>2. Distance(from, S) \in [S -> Nat]
  BY ClockwiseIs DEF Distance
<1>3. Distinct(S, Distance(from, S))
  <2>. SUFFICES ASSUME NEW a \in S, NEW b \in S, Clockwise(from, a) = Clockwise(from, b)
                PROVE  a = b
    BY <1>1 DEF Distinct
  <2>1. \A n \in {a, b} :
          Clockwise(from, n) = IF n >= from THEN n - from ELSE n - from + RingSize
    BY ClockwiseIs
  <2>2. a \in 0..(RingSize - 1) /\ b \in 0..(RingSize - 1) /\ from \in 0..(RingSize - 1)
        /\ RingSize \in Nat
    BY RingAssumption DEF Places
  <2>. QED BY <2>1, <2>2
<1>4. \A n \in S : {m \in S : Distance(from, S)[m] < Distance(from, S)[n]}
                     = {m \in S : Clockwise(from, m) < Clockwise(from, n)}
  BY <1>1
<1>. QED BY <1>1, <1>2, <1>3, <1>4 DEF Rank

(* The node with k smaller ones is there.                                    *)
LEMMA OrderedIs ==
    ASSUME nodes \subseteq Places, NEW k \in 0..(Total - 1)
    PROVE  Ordered(k) \in nodes /\ Cardinality({m \in nodes : m < Ordered(k)}) = k
<1>1. Total \in Nat
  BY PlacesFinite DEF Total
<1>2. \E n \in nodes : Cardinality({m \in nodes : m < n}) = k
  <2>1. RingSize - 1 \in Nat /\ nodes \in SUBSET (0..(RingSize - 1))
    BY RingAssumption DEF Places
  <2>2. k \in Nat /\ k < Cardinality(nodes)
    BY <1>1 DEF Total
  <2>. QED BY <2>1, <2>2, RankTaken, Zenon
<1>. QED BY <1>2 DEF Ordered

(* How many nodes are nearer to a target than one with r smaller ones.       *)
LEMMA ClockwiseRank ==
    ASSUME nodes \subseteq Places, NEW from \in Places, NEW n \in nodes, NEW r,
           r = Cardinality({m \in nodes : m < n})
    PROVE  /\ Cardinality({m \in nodes : Clockwise(from, m) < Clockwise(from, n)})
                = IF r >= BisectLeft(from) THEN r - BisectLeft(from)
                                           ELSE Total - BisectLeft(from) + r
           /\ r \in Nat /\ BisectLeft(from) \in 0..Total /\ Total \in Nat
<1>. DEFINE X == {m \in nodes : Clockwise(from, m) < Clockwise(from, n)}
            L == {m \in nodes : m < n}
            B == {m \in nodes : m < from}
<1>1. IsFiniteSet(nodes) /\ Total \in Nat
  BY PlacesFinite DEF Total
<1>2. /\ IsFiniteSet(L) /\ Cardinality(L) \in Nat /\ r = Cardinality(L)
      /\ IsFiniteSet(B) /\ Cardinality(B) \in Nat /\ BisectLeft(from) = Cardinality(B)
      /\ Cardinality(B) <= Total
  BY <1>1, FS_Subset, FS_CardinalityType DEF BisectLeft, Total
<1>3. \A m \in nodes : m \in Places /\ m \in Nat
  BY DEF Places
<1>4. from \in Nat /\ n \in Nat /\ RingSize \in Nat
  BY <1>3, RingAssumption DEF Places
<1>5. CASE n >= from
  <2>1. X = L \ B
    <3>1. \A m \in nodes : Clockwise(from, m) < Clockwise(from, n) <=> m < n /\ ~(m < from)
      BY <1>3, <1>4, <1>5, ClockwiseIs, RingAssumption DEF Places
    <3>. QED BY <3>1
  <2>2. L \cap B = B
    <3>1. \A m \in nodes : m < from => m < n
      BY <1>3, <1>4, <1>5
    <3>. QED BY <3>1
  <2>. HIDE DEF X, L, B
  <2>3. Cardinality(X) = r - BisectLeft(from)
    <3>1. Cardinality(L \ B) = Cardinality(L) - Cardinality(L \cap B)
      BY <1>2, FS_Difference, Zenon
    <3>. QED BY <1>2, <2>1, <2>2, <3>1
  <2>4. Cardinality(B) <= Cardinality(L)
    <3>1. B \in SUBSET L
      BY <2>2
    <3>. QED BY <1>2, <3>1, FS_Subset, Zenon
  <2>. QED BY <1>1, <1>2, <2>3, <2>4 DEF X, L, B
<1>6. CASE n < from
  <2>1. X = L \cup (nodes \ B) /\ L \cap (nodes \ B) = {} /\ nodes \cap B = B
    <3>1. \A m \in nodes : Clockwise(from, m) < Clockwise(from, n) <=> m < n \/ ~(m < from)
      BY <1>3, <1>4, <1>6, ClockwiseIs, RingAssumption DEF Places
    <3>2. \A m \in nodes : ~(m < n /\ ~(m < from))
      BY <1>3, <1>4, <1>6
    <3>. QED BY <3>1, <3>2
  <2>2. L \subseteq B /\ n \in B /\ n \notin L
    <3>1. \A m \in nodes : m < n => m < from
      BY <1>3, <1>4, <1>6
    <3>2. ~(n < n)
      BY <1>4
    <3>. QED BY <3>1, <3>2, <1>6
  <2>. HIDE DEF X, L, B
  <2>3. /\ IsFiniteSet(nodes \ B)
        /\ Cardinality(nodes \ B) = Cardinality(nodes) - Cardinality(nodes \cap B)
    BY <1>1, FS_Difference, Zenon
  <2>4. Cardinality(X) = Cardinality(L) + Cardinality(nodes \ B) - Cardinality(L \cap (nodes \ B))
    BY <1>2, <2>1, <2>3, FS_Union, Zenon
  <2>5. Cardinality(L \cap (nodes \ B)) = 0
    BY <2>1, FS_EmptySet
  <2>6. Cardinality(X) = Cardinality(L) + (Total - Cardinality(B))
    <3>1. Cardinality(nodes \ B) = Total - Cardinality(B)
      BY <2>1, <2>3 DEF Total
    <3>2. Cardinality(L) \in Nat /\ Cardinality(B) \in Nat /\ Total \in Nat
      BY <1>1, <1>2
    <3>. QED BY <2>4, <2>5, <3>1, <3>2
  <2>7. Cardinality(L) <= Cardinality(B) /\ Cardinality(L) # Cardinality(B)
    <3>1. L \in SUBSET B /\ L # B
      BY <2>2
    <3>. QED BY <1>2, <3>1, FS_Subset, Zenon
  <2>. QED BY <1>1, <1>2, <2>6, <2>7 DEF X, L, B
<1>. QED BY <1>4, <1>5, <1>6

(* Nearest first: a place stands where its rank says.                        *)
LEMMA NearestAt ==
    ASSUME NEW S \in SUBSET Places, NEW from \in Places, NEW n \in S, NEW nearer, NEW r,
           \A m : m \in nearer <=> m \in S /\ Clockwise(from, m) < Clockwise(from, n),
           r = Cardinality(nearer)
    PROVE  r \in 0..(Cardinality(S) - 1) /\ NearestFirst(from, S)[r + 1] = n
<1>0. r = Cardinality({m \in S : Clockwise(from, m) < Clockwise(from, n)})
  <2>1. nearer = {m \in S : Clockwise(from, m) < Clockwise(from, n)}
    OBVIOUS
  <2>. QED BY <2>1
<1>1. IsFiniteSet(S) /\ Cardinality(S) \in Nat
  BY PlacesFinite
<1>2. Rank(S, Distance(from, S), n) = r
  BY <1>0, DistanceKey
<1>3. r \in Nat /\ r < Cardinality(S)
  <2>. DEFINE X == {m \in S : Clockwise(from, m) < Clockwise(from, n)}
  <2>1. X \in SUBSET S /\ X # S
    BY ClockwiseIs
  <2>. HIDE DEF X
  <2>2. /\ Cardinality(X) <= Cardinality(S) /\ Cardinality(X) # Cardinality(S)
        /\ IsFiniteSet(X)
    BY <1>1, <2>1, FS_Subset, Zenon
  <2>3. Cardinality(X) \in Nat
    BY <2>2, FS_CardinalityType
  <2>. QED BY <1>0, <1>1, <2>2, <2>3 DEF X
<1>4. NearestFirst(from, S)[r + 1]
        = CHOOSE c \in S : Cardinality({m \in S : Clockwise(from, m) < Clockwise(from, c)}) = (r + 1) - 1
  <2>1. r + 1 \in 1..Cardinality(S)
    BY <1>1, <1>3
  <2>. QED BY <2>1 DEF NearestFirst
<1>5. (r + 1) - 1 = r
  BY <1>3
<1>6. \A c \in S : Cardinality({m \in S : Clockwise(from, m) < Clockwise(from, c)}) = r => c = n
  <2>. SUFFICES ASSUME NEW c \in S,
                       Cardinality({m \in S : Clockwise(from, m) < Clockwise(from, c)}) = r
                PROVE  c = n
    OBVIOUS
  <2>1. Rank(S, Distance(from, S), c) = Rank(S, Distance(from, S), n)
    BY <1>2, DistanceKey
  <2>. QED BY <1>1, <2>1, DistanceKey, RankIdentifies
<1>7. (CHOOSE c \in S : Cardinality({m \in S : Clockwise(from, m) < Clockwise(from, c)}) = r) = n
  BY <1>6
<1>. QED BY <1>1, <1>3, <1>4, <1>5, <1>7


(* What a replica appends to the choice of those before it.                  *)
Onward(before, r) ==
    before \o Leading(NearestFirst(targets[r], nodes \ {before[i] : i \in DOMAIN before}), SpreadFetch)

LEMMA ReferenceIs ==
    /\ ReferenceAfter[0] = <<>>
    /\ \A r \in 1..Replicas : ReferenceAfter[r] = Onward(ReferenceAfter[r - 1], r)
<1>. DEFINE Recurs(f, n) == f = [r \in 0..n |-> IF r = 0 THEN <<>> ELSE Onward(f[r - 1], r)]
            T == {n \in Nat : ~ \E f : Recurs(f, n)}
<1>1. T = {}
  <2>. SUFFICES ASSUME T # {} PROVE FALSE
    OBVIOUS
  <2>1. PICK n \in T : \A m \in T : n <= m
    BY LeastExists
  <2>2. CASE n = 0
    <3>1. Recurs([r \in 0..0 |-> <<>>], 0)
      OBVIOUS
    <3>. QED BY <2>1, <2>2, <3>1
  <2>3. CASE n # 0
    <3>1. n - 1 \in Nat /\ n - 1 \notin T
      <4>1. n \in Nat
        OBVIOUS
      <4>. HIDE DEF T
      <4>. QED BY <2>1, <2>3, <4>1
    <3>2. PICK f : Recurs(f, n - 1)
      BY <3>1
    <3>. DEFINE g == [r \in 0..n |-> IF r = n THEN Onward(f[n - 1], n) ELSE f[r]]
    <3>3. ASSUME NEW r \in 0..n
          PROVE  g[r] = IF r = 0 THEN <<>> ELSE Onward(g[r - 1], r)
      <4>1. CASE r = n
        <5>1. g[r - 1] = f[n - 1] /\ g[r] = Onward(f[n - 1], n)
          BY <2>1, <2>3, <4>1
        <5>. QED BY <2>3, <4>1, <5>1
      <4>2. CASE r # n
        <5>1. r \in 0..(n - 1) /\ g[r] = f[r]
          BY <2>1, <4>2
        <5>2. f[r] = IF r = 0 THEN <<>> ELSE Onward(f[r - 1], r)
          BY <3>2, <5>1
        <5>3. r # 0 => g[r - 1] = f[r - 1]
          BY <2>1, <4>2
        <5>. QED BY <5>1, <5>2, <5>3
      <4>. QED BY <4>1, <4>2
    <3>4. Recurs(g, n)
      <4>1. g = [r \in 0..n |-> g[r]]
        OBVIOUS
      <4>. HIDE DEF g
      <4>. QED BY <3>3, <4>1
    <3>. QED BY <2>1, <3>4
  <2>. QED BY <2>2, <2>3
<1>2. Recurs(ReferenceAfter, Replicas)
  <2>1. \E f : Recurs(f, Replicas)
    BY <1>1, RingAssumption
  <2>2. ReferenceAfter = CHOOSE f : Recurs(f, Replicas)
    BY DEF ReferenceAfter, Onward
  <2>. HIDE DEF Recurs
  <2>. QED BY <2>1, <2>2
<1>. QED BY <1>2, RingAssumption

(* With no nodes nobody is responsible.                                      *)
LEMMA NobodyResponsible ==
    ASSUME nodes = {}
    PROVE  ReferenceAfter[Replicas] = <<>>
<1>. DEFINE T == {r \in 0..Replicas : ReferenceAfter[r] # <<>>}
<1>. SUFFICES ASSUME T # {} PROVE FALSE
  BY RingAssumption
<1>1. PICK r \in T : \A q \in T : r <= q
  <2>1. T \in SUBSET Nat
    BY RingAssumption
  <2>. QED BY <2>1, LeastExists
<1>2. r \in 1..Replicas /\ ReferenceAfter[r - 1] = <<>>
  <2>1. r # 0
    BY <1>1, ReferenceIs
  <2>2. r - 1 \in 0..Replicas /\ r - 1 \notin T
    BY <1>1, <2>1, RingAssumption
  <2>. QED BY <1>1, <2>1, <2>2, RingAssumption
<1>3. NearestFirst(targets[r], {}) = <<>>
  <2>1. Cardinality({}) = 0
    BY FS_EmptySet
  <2>. QED BY <2>1 DEF NearestFirst
<1>4. Leading(<<>>, SpreadFetch) = <<>>
  BY RingAssumption DEF Leading
<1>5. Onward(<<>>, r) = <<>>
  BY <1>3, <1>4 DEF Onward
<1>. QED BY <1>1, <1>2, <1>5, ReferenceIs


LEMMA RingInvInit == RingInit => RingInv
<1>. SUFFICES ASSUME RingInit PROVE RingInv
  OBVIOUS
<1>1. nodes \subseteq Places /\ targets \in [1..Replicas -> Places]
  BY DEF RingInit
<1>2. walk = "returned" => selected = ReferenceAfter[Replicas]
  BY NobodyResponsible DEF RingInit
<1>3. walk = "replica" => selected = Before
  BY ReferenceIs DEF RingInit, Before
<1>4. selected \in Seq(nodes) /\ replica \in 1..(Replicas + 1)
  BY RingAssumption DEF RingInit
<1>. QED BY <1>1, <1>2, <1>3, <1>4 DEF RingInit, RingInv

(* The reference looks at nodes and targets only.                            *)
LEMMA ReferenceStays ==
    ASSUME UNCHANGED <<nodes, targets>>
    PROVE  ReferenceAfter' = ReferenceAfter
BY DEF ReferenceAfter, NearestFirst

LEMMA RingSizes ==
    ASSUME RingInv
    PROVE  /\ IsFiniteSet(nodes) /\ Total \in Nat /\ (nodes # {} => Total > 0)
           /\ Replicas \in Nat \ {0} /\ SpreadFetch \in Nat \ {0}
           /\ \A S \in SUBSET nodes : IsFiniteSet(S) /\ Cardinality(S) \in Nat
<1>1. nodes \in SUBSET Places
  BY DEF RingInv
<1>2. IsFiniteSet(nodes) /\ Total \in Nat
  BY <1>1, PlacesFinite DEF Total
<1>3. nodes # {} => Total # 0
  BY <1>2, FS_EmptySet DEF Total
<1>. QED BY <1>2, <1>3, FS_Subset, FS_CardinalityType, RingAssumption

(* How far round the walk is.                                                *)
LEMMA WalkRank ==
    ASSUME RingInv, nodes # {}, replica <= Replicas, NEW k \in 0..(Total - 1)
    PROVE  /\ Ordered(k) \in nodes
           /\ Rank(nodes, Distance(targets[replica], nodes), Ordered(k))
                = IF k >= BisectLeft(targets[replica]) THEN k - BisectLeft(targets[replica])
                  ELSE Total - BisectLeft(targets[replica]) + k
           /\ BisectLeft(targets[replica]) \in 0..Total
<1>1. targets[replica] \in Places /\ nodes \subseteq Places
  BY RingSizes DEF RingInv
<1>2. Ordered(k) \in nodes /\ Cardinality({m \in nodes : m < Ordered(k)}) = k
  BY <1>1, OrderedIs
<1>3. /\ Cardinality({m \in nodes : Clockwise(targets[replica], m)
                                    < Clockwise(targets[replica], Ordered(k))})
           = IF k >= BisectLeft(targets[replica]) THEN k - BisectLeft(targets[replica])
             ELSE Total - BisectLeft(targets[replica]) + k
      /\ BisectLeft(targets[replica]) \in 0..Total
  BY <1>1, <1>2, ClockwiseRank
<1>. QED BY <1>1, <1>2, <1>3, DistanceKey

LEMMA StartReplicaKeeps ==
    ASSUME RingInv, StartReplica
    PROVE  RingInv'
<1>1. walk = "replica" /\ nodes # {} /\ selected = Before
      /\ UNCHANGED <<nodes, targets, replica, selected>>
  BY DEF StartReplica, RingInv
<1>2. Before' = Before /\ Left' = Left
  BY <1>1, ReferenceStays DEF Before, Left
<1>3. CASE replica > Replicas
  <2>1. replica - 1 = Replicas /\ walk' = "returned"
    BY <1>3, RingSizes DEF StartReplica, RingInv
  <2>2. selected' = ReferenceAfter'[Replicas]
    BY <1>1, <2>1, ReferenceStays DEF Before
  <2>. QED BY <1>1, <2>1, <2>2 DEF RingInv
<1>4. CASE ~(replica > Replicas)
  <2>1. replica <= Replicas /\ walk' = "node" /\ pos' = start' /\ added' = 0
        /\ start' = FirstPos(targets[replica])
    BY <1>4, RingSizes DEF StartReplica, RingInv, FirstPos
  <2>2. start' = FirstPos(targets[replica])'
    BY <1>1, <2>1 DEF FirstPos, BisectLeft, Total
  <2>3. Total' = Total /\ Total > 0 /\ Total \in Nat
    BY <1>1, RingSizes DEF Total
  <2>4. start' \in 0..(Total - 1)
    <3>1. 0 \in 0..(Total - 1) /\ BisectLeft(targets[replica]) \in 0..Total
      BY <1>1, <2>1, <2>3, WalkRank
    <3>. QED BY <2>1, <2>3, <3>1 DEF FirstPos
  <2>5. Rank(nodes, Distance(targets[replica], nodes), Ordered(start')) = 0
    <3>1. BisectLeft(targets[replica]) \in 0..Total
          /\ Rank(nodes, Distance(targets[replica], nodes), Ordered(start'))
                = IF start' >= BisectLeft(targets[replica]) THEN start' - BisectLeft(targets[replica])
                  ELSE Total - BisectLeft(targets[replica]) + start'
      BY <1>1, <2>1, <2>4, WalkRank
    <3>. QED BY <2>1, <2>3, <3>1 DEF FirstPos
  <2>6. Behind' = {}
    <3>. DEFINE X == {m \in nodes : Clockwise(targets[replica], m)
                                    < Clockwise(targets[replica], Ordered(start'))}
    <3>1. Cardinality(X) = 0
      <4>1. targets[replica] \in Places /\ nodes \in SUBSET Places
        BY <2>1, RingSizes DEF RingInv
      <4>2. Ordered(start') \in nodes
        BY <1>1, <2>1, <2>4, WalkRank
      <4>. QED BY <4>1, <4>2, <2>5, DistanceKey
    <3>2. X = {}
      BY <3>1, RingSizes, FS_EmptySet
    <3>3. Behind' = X
      BY <1>1, <2>1 DEF Behind, Ordered, Clockwise
    <3>. QED BY <3>2, <3>3
  <2>7. AddedNearest'
    <3>1. Left' \cap Behind' = {} /\ Cardinality(Left' \cap Behind') = 0
      BY <2>6, FS_EmptySet
    <3>2. {selected'[Len(Before') + i] : i \in 1..added'} = {}
      BY <2>1
    <3>3. Before' \in Seq(nodes') /\ Len(selected') = Len(Before') + added'
          /\ \A i \in 1..Len(Before') : selected'[i] = Before'[i]
      BY <1>1, <1>2, <2>1 DEF RingInv
    <3>4. (pos \in 0..(Total - 1))' /\ (added \in 0..SpreadFetch)' /\ (replica <= Replicas)'
      BY <1>1, <2>1, <2>3, <2>4, RingSizes
    <3>5. \A i \in 1..added' : selected'[Len(Before') + i] = NearestFirst(targets[replica], Left)'[i]
      BY <2>1
    <3>. QED BY <2>1, <2>2, <3>1, <3>2, <3>3, <3>4, <3>5 DEF AddedNearest
  <2>. QED BY <1>1, <2>1, <2>7 DEF RingInv
<1>. QED BY <1>3, <1>4


LEMMA JoinIs ==
    ASSUME NEW S, NEW a \in Seq(S), NEW b \in Seq(S), NEW whole \in Seq(S),
           Len(whole) = Len(a) + Len(b),
           \A i \in 1..Len(a) : whole[i] = a[i],
           \A i \in 1..Len(b) : whole[Len(a) + i] = b[i]
    PROVE  whole = a \o b
<1>1. ASSUME NEW i \in 1..(Len(a) + Len(b)) PROVE whole[i] = (a \o b)[i]
  <2>1. CASE i <= Len(a)
    BY <2>1
  <2>2. CASE i > Len(a)
    <3>1. i - Len(a) \in 1..Len(b) /\ Len(a) + (i - Len(a)) = i
      BY <2>2
    <3>2. whole[Len(a) + (i - Len(a))] = b[i - Len(a)]
      BY <3>1
    <3>. QED BY <2>2, <3>1, <3>2
  <2>. QED BY <2>1, <2>2
<1>. QED BY <1>1

LEMMA NearestIsASequence ==
    ASSUME NEW from, NEW S, Cardinality(S) \in Nat
    PROVE  /\ NearestFirst(from, S) \in Seq({NearestFirst(from, S)[i] : i \in 1..Cardinality(S)})
           /\ Len(NearestFirst(from, S)) = Cardinality(S)
<1>. DEFINE near == NearestFirst(from, S)
            n    == Cardinality(S)
<1>1. near = [i \in 1..n |-> near[i]]
  <2>. DEFINE Who(i) ==
         CHOOSE p \in S : Cardinality({m \in S : Clockwise(from, m) < Clockwise(from, p)}) = i - 1
  <2>1. near = [i \in 1..n |-> Who(i)]
    BY DEF NearestFirst
  <2>. HIDE DEF near, n, Who
  <2>. QED BY <2>1
<1>. HIDE DEF near, n
<1>2. near \in [1..n -> {near[i] : i \in 1..n}]
  BY <1>1
<1>3. n \in Nat
  BY DEF n
<1>4. near \in Seq({near[i] : i \in 1..n}) /\ Len(near) = n
  BY <1>2, <1>3
<1>. QED BY <1>4 DEF near, n

LEMMA LeadingIs ==
    ASSUME NEW X, NEW s \in Seq(X), NEW k \in Nat, NEW taken \in 0..k, taken <= Len(s),
           taken = k \/ taken = Len(s)
    PROVE  /\ Leading(s, k) \in Seq(X) /\ Len(Leading(s, k)) = taken
           /\ \A i \in 1..taken : Leading(s, k)[i] = s[i]
BY DEF Leading

(* A replica is through when it has added enough, or all that was left.      *)
LEMMA ReplicaEnds ==
    ASSUME RingInv, walk = "node", UNCHANGED <<nodes, targets>>,
           replica' = replica + 1, selected' \in Seq(nodes), NEW taken \in 0..SpreadFetch,
           Len(selected') = Len(Before) + taken,
           \A i \in 1..Len(Before) : selected'[i] = Before[i],
           \A i \in 1..taken :
             selected'[Len(Before) + i] = NearestFirst(targets[replica], Left)[i],
           taken <= Cardinality(Left),
           taken = SpreadFetch \/ taken = Cardinality(Left)
    PROVE  selected' = Before' /\ replica' \in 1..(Replicas + 1)
<1>. DEFINE near == NearestFirst(targets[replica], Left)
            X    == {near[i] : i \in 1..Cardinality(Left)}
            tail == Leading(near, SpreadFetch)
<1>1. replica \in 1..Replicas /\ Before \in Seq(nodes)
  BY RingSizes DEF RingInv, AddedNearest
<1>2. Cardinality(Left) \in Nat /\ SpreadFetch \in Nat /\ Replicas \in Nat
  BY RingSizes DEF Left
<1>3. near \in Seq(X) /\ Len(near) = Cardinality(Left)
  BY <1>2, NearestIsASequence
<1>. HIDE DEF near, X
<1>4. /\ tail \in Seq(X) /\ Len(tail) = taken
      /\ \A i \in 1..taken : tail[i] = near[i]
  <2>1. taken <= Len(near) /\ (taken = SpreadFetch \/ taken = Len(near))
    BY <1>3
  <2>2. /\ Leading(near, SpreadFetch) \in Seq(X) /\ Len(Leading(near, SpreadFetch)) = taken
        /\ \A i \in 1..taken : Leading(near, SpreadFetch)[i] = near[i]
    BY <1>2, <1>3, <2>1, LeadingIs, Zenon
  <2>. QED BY <2>2
<1>5. Before' = Before \o tail
  <2>1. Before' = ReferenceAfter[replica]
    BY <1>1, ReferenceStays DEF Before
  <2>2. ReferenceAfter[replica] = Onward(Before, replica)
    BY <1>1, ReferenceIs DEF Before
  <2>. QED BY <2>1, <2>2 DEF Onward, Left, near
<1>. HIDE DEF tail
<1>6. selected' = Before \o tail
  <2>1. Before \in Seq(nodes \cup X) /\ tail \in Seq(nodes \cup X) /\ selected' \in Seq(nodes \cup X)
    BY <1>1, <1>4
  <2>2. \A i \in 1..Len(tail) : selected'[Len(Before) + i] = tail[i]
    BY <1>4 DEF near
  <2>3. Len(selected') = Len(Before) + Len(tail)
    BY <1>4
  <2>. QED BY <2>1, <2>2, <2>3, JoinIs
<1>. QED BY <1>1, <1>2, <1>5, <1>6

LEMMA EndReplicaKeeps ==
    ASSUME RingInv, EndReplica
    PROVE  RingInv'
<1>1. walk = "node" /\ AddedNearest /\ walk' = "replica" /\ replica' = replica + 1
      /\ UNCHANGED <<nodes, targets, start, pos, added, selected>> /\ added >= SpreadFetch
  BY DEF EndReplica, RingInv
<1>2. added = SpreadFetch /\ added \in 0..SpreadFetch
  BY <1>1, RingSizes DEF AddedNearest
<1>3. added <= Cardinality(Left)
  <2>1. IsFiniteSet(Left) /\ Left \cap Behind \in SUBSET Left
    BY RingSizes DEF Left
  <2>2. Cardinality(Left \cap Behind) <= Cardinality(Left)
    BY <2>1, FS_Subset
  <2>. QED BY <1>1, <2>2 DEF AddedNearest
<1>4. selected' = Before' /\ replica' \in 1..(Replicas + 1)
  <2>1. /\ Len(selected') = Len(Before) + added /\ selected' \in Seq(nodes)
        /\ \A i \in 1..Len(Before) : selected'[i] = Before[i]
        /\ \A i \in 1..added :
             selected'[Len(Before) + i] = NearestFirst(targets[replica], Left)[i]
    BY <1>1 DEF AddedNearest, RingInv
  <2>. QED BY <1>1, <1>2, <1>3, <2>1, ReplicaEnds
<1>. QED BY <1>1, <1>4 DEF RingInv


(* One more node seen: it is added if it is left, and nothing else.          *)
LEMMA VisitAdds ==
    ASSUME RingInv, VisitNode, NEW n, n = Ordered(pos), NEW taken,
           taken = IF n \in Left THEN added + 1 ELSE added
    PROVE  /\ added' = taken /\ taken \in 0..SpreadFetch /\ selected' \in Seq(nodes)
           /\ Len(selected') = Len(Before) + taken
           /\ \A i \in 1..Len(Before) : selected'[i] = Before[i]
           /\ \A i \in 1..taken :
                selected'[Len(Before) + i] = NearestFirst(targets[replica], Left)[i]
           /\ {selected'[Len(Before) + i] : i \in 1..taken} = Left \cap (Behind \cup {n})
           /\ Cardinality(Left \cap (Behind \cup {n})) = taken
<1>1. AddedNearest /\ added < SpreadFetch /\ nodes # {}
  BY DEF VisitNode, RingInv
<1>2. added \in Nat /\ SpreadFetch \in Nat /\ Before \in Seq(nodes) /\ selected \in Seq(nodes)
      /\ Len(selected) = Len(Before) + added
  <2>1. SpreadFetch \in Nat
    BY RingSizes
  <2>2. added \in 0..SpreadFetch /\ Before \in Seq(nodes) /\ Len(selected) = Len(Before) + added
    BY <1>1 DEF AddedNearest
  <2>3. selected \in Seq(nodes)
    BY DEF RingInv
  <2>. QED BY <2>1, <2>2, <2>3
<1>3. n \in nodes /\ n \notin Behind /\ targets[replica] \in Places
  <2>1. replica \in 1..Replicas /\ pos \in 0..(Total - 1)
    BY <1>1, RingSizes DEF AddedNearest, RingInv
  <2>2. n \in nodes /\ targets[replica] \in Places
    BY <1>1, <2>1, WalkRank DEF RingInv
  <2>3. Clockwise(targets[replica], n) \in Nat
    BY <2>2, ClockwiseIs DEF RingInv
  <2>. QED BY <2>2, <2>3 DEF Behind
<1>4. Chosen = {Before[i] : i \in DOMAIN Before} \cup (Left \cap Behind)
  <2>1. DOMAIN selected = 1..(Len(Before) + added) /\ DOMAIN Before = 1..Len(Before)
        /\ Len(Before) \in Nat
    BY <1>2, LenProperties
  <2>2. \A i \in 1..Len(Before) : selected[i] = Before[i]
    BY <1>1 DEF AddedNearest
  <2>3. {selected[Len(Before) + i] : i \in 1..added} = Left \cap Behind
    BY <1>1 DEF AddedNearest
  <2>4. ASSUME NEW j \in 1..(Len(Before) + added)
        PROVE  j \in 1..Len(Before) \/ \E i \in 1..added : j = Len(Before) + i
    <3>1. CASE j > Len(Before)
      <4>1. j - Len(Before) \in 1..added /\ j = Len(Before) + (j - Len(Before))
        BY <1>2, <2>1, <3>1
      <4>. QED BY <4>1
    <3>. QED BY <2>1, <1>2, <3>1
  <2>5. \A i \in 1..added : Len(Before) + i \in 1..(Len(Before) + added)
    BY <1>2, <2>1
  <2>6. \A i \in 1..Len(Before) : i \in 1..(Len(Before) + added)
    BY <1>2, <2>1
  <2>7. Chosen = {selected[j] : j \in 1..(Len(Before) + added)}
    BY <2>1 DEF Chosen
  <2>8. {selected[j] : j \in 1..(Len(Before) + added)}
          = {Before[i] : i \in 1..Len(Before)} \cup {selected[Len(Before) + i] : i \in 1..added}
    BY <2>2, <2>4, <2>5, <2>6
  <2>. QED BY <2>1, <2>3, <2>7, <2>8
<1>5. n \in Chosen <=> n \notin Left
  BY <1>3, <1>4 DEF Left
<1>6. Cardinality(Left \cap Behind) = added /\ IsFiniteSet(Left \cap Behind)
  BY <1>1, RingSizes DEF AddedNearest, Left
<1>7. CASE n \notin Left
  <2>1. selected' = selected /\ added' = added /\ taken = added
    BY <1>5, <1>7 DEF VisitNode
  <2>2. Left \cap (Behind \cup {n}) = Left \cap Behind
    BY <1>7
  <2>. QED BY <1>1, <1>2, <1>6, <2>1, <2>2 DEF AddedNearest
<1>8. CASE n \in Left
  <2>1. selected' = Append(selected, n) /\ added' = added + 1 /\ taken = added + 1
    BY <1>5, <1>8 DEF VisitNode
  <2>2. Left \cap (Behind \cup {n}) = (Left \cap Behind) \cup {n} /\ n \notin Left \cap Behind
    BY <1>3, <1>8
  <2>3. Cardinality(Left \cap (Behind \cup {n})) = taken
    BY <1>6, <2>1, <2>2, FS_AddElement, Zenon
  <2>4. NearestFirst(targets[replica], Left)[added + 1] = n
    <3>1. \A m : m \in Left \cap Behind
                <=> m \in Left /\ Clockwise(targets[replica], m) < Clockwise(targets[replica], n)
      BY DEF Left, Behind
    <3>2. Left \in SUBSET Places
      BY DEF RingInv, Left
    <3>. QED BY <1>3, <1>6, <1>8, <3>1, <3>2, NearestAt
  <2>5. /\ selected' \in Seq(nodes) /\ Len(selected') = Len(selected) + 1
        /\ \A i \in 1..Len(selected) : selected'[i] = selected[i]
        /\ selected'[Len(selected) + 1] = n
    BY <1>2, <1>3, <2>1
  <2>6. Len(Before) \in Nat /\ Len(selected') = Len(Before) + taken
    BY <1>2, <2>1, <2>5
  <2>7. selected'[Len(Before) + (added + 1)] = n
    <3>1. Len(Before) + (added + 1) = Len(selected) + 1
      BY <1>2, <2>6
    <3>. QED BY <2>5, <3>1
  <2>8. \A i \in 1..Len(Before) : selected'[i] = Before[i]
    <3>1. \A i \in 1..Len(Before) : i \in 1..Len(selected) /\ selected[i] = Before[i]
      BY <1>1, <1>2, <2>6 DEF AddedNearest
    <3>. QED BY <2>5, <3>1
  <2>9. \A i \in 1..added : selected'[Len(Before) + i] = selected[Len(Before) + i]
    <3>1. \A i \in 1..added : Len(Before) + i \in 1..Len(selected)
      BY <1>2, <2>6
    <3>. QED BY <2>5, <3>1
  <2>10. \A i \in 1..added :
           selected[Len(Before) + i] = NearestFirst(targets[replica], Left)[i]
    BY <1>1 DEF AddedNearest
  <2>11. \A i \in 1..taken : i \in 1..added \/ i = added + 1
    BY <1>2, <2>1
  <2>12. \A i \in 1..taken :
           selected'[Len(Before) + i] = NearestFirst(targets[replica], Left)[i]
    BY <2>4, <2>7, <2>9, <2>10, <2>11
  <2>13. {selected'[Len(Before) + i] : i \in 1..taken} = Left \cap (Behind \cup {n})
    <3>1. {selected[Len(Before) + i] : i \in 1..added} = Left \cap Behind
      BY <1>1 DEF AddedNearest
    <3>2. 1..added \subseteq 1..taken /\ added + 1 \in 1..taken
      BY <1>2, <2>1
    <3>3. {selected'[Len(Before) + i] : i \in 1..taken}
            = {selected[Len(Before) + i] : i \in 1..added} \cup {n}
      BY <2>7, <2>9, <2>11, <3>2
    <3>. QED BY <2>2, <3>1, <3>3
  <2>14. taken \in 0..SpreadFetch
    BY <1>1, <1>2, <2>1
  <2>. QED BY <2>1, <2>3, <2>5, <2>6, <2>8, <2>12, <2>13, <2>14
<1>. QED BY <1>7, <1>8

(* A step of the walk goes one rank further, or comes back to the start from *)
(* the last.                                                                 *)
LEMMA WalkSteps ==
    ASSUME RingInv, VisitNode
    PROVE  /\ pos' \in 0..(Total - 1)
           /\ pos' = start =>
                Rank(nodes, Distance(targets[replica], nodes), Ordered(pos)) = Total - 1
           /\ pos' # start =>
                Rank(nodes, Distance(targets[replica], nodes), Ordered(pos'))
                  = Rank(nodes, Distance(targets[replica], nodes), Ordered(pos)) + 1
<1>. DEFINE T     == Total
            left  == BisectLeft(targets[replica])
            R(k)  == Rank(nodes, Distance(targets[replica], nodes), Ordered(k))
<1>1. nodes # {} /\ replica <= Replicas /\ pos \in 0..(T - 1) /\ T \in Nat /\ T > 0
      /\ start = IF left = T THEN 0 ELSE left
  BY RingSizes DEF VisitNode, RingInv, AddedNearest, FirstPos
<1>2. pos' = IF pos + 1 = T THEN 0 ELSE pos + 1
  BY DEF VisitNode
<1>3. pos' \in 0..(T - 1)
  BY <1>1, <1>2
<1>4. \A k \in 0..(T - 1) : R(k) = IF k >= left THEN k - left ELSE T - left + k
  BY <1>1, WalkRank
<1>5. left \in 0..T
  BY <1>1, WalkRank
<1>. HIDE DEF T, left, R
<1>6. R(pos) = IF pos >= left THEN pos - left ELSE T - left + pos
  BY <1>1, <1>4
<1>7. R(pos') = IF pos' >= left THEN pos' - left ELSE T - left + pos'
  BY <1>3, <1>4
<1>8. pos' = start => R(pos) = T - 1
  BY <1>1, <1>2, <1>5, <1>6
<1>9. pos' # start => R(pos') = R(pos) + 1
  BY <1>1, <1>2, <1>3, <1>5, <1>6, <1>7
<1>. QED BY <1>3, <1>8, <1>9 DEF T, R

(* What lies behind the walk after a step.                                   *)
LEMMA VisitPasses ==
    ASSUME RingInv, VisitNode
    PROVE  /\ Ordered(pos) \in nodes
           /\ pos' = start => nodes = Behind \cup {Ordered(pos)}
           /\ pos' # start /\ UNCHANGED replica => Behind' = Behind \cup {Ordered(pos)}
<1>. DEFINE to  == targets[replica]
            key == Distance(to, nodes)
            n   == Ordered(pos)
            o   == Ordered(pos')
            B(p) == {m \in nodes : key[m] < key[p]}
<1>1. pos \in 0..(Total - 1) /\ pos' \in 0..(Total - 1) /\ nodes # {} /\ replica <= Replicas
  BY WalkSteps DEF RingInv, AddedNearest, VisitNode
<1>2. n \in nodes /\ o \in nodes
  BY <1>1, WalkRank
<1>3. to \in Places /\ nodes \in SUBSET Places /\ IsFiniteSet(nodes)
  BY <1>1, RingSizes DEF RingInv
<1>4. key \in [nodes -> Nat] /\ Distinct(nodes, key)
  BY <1>3, DistanceKey
<1>5. Behind = B(n)
  BY <1>2, <1>3, DistanceKey DEF Behind
<1>6. UNCHANGED replica => Behind' = B(o)
  <2>1. UNCHANGED replica =>
          Behind' = {m \in nodes : Clockwise(to, m) < Clockwise(to, o)}
    BY DEF VisitNode, Behind, Ordered, Clockwise
  <2>2. {m \in nodes : Clockwise(to, m) < Clockwise(to, o)} = B(o)
    BY <1>2, <1>3, DistanceKey
  <2>. HIDE DEF to, key, n, o, B
  <2>. QED BY <2>1, <2>2
<1>7. pos' = start => Rank(nodes, key, n) = Cardinality(nodes) - 1
  BY WalkSteps DEF Total
<1>8. pos' # start => Rank(nodes, key, o) = Rank(nodes, key, n) + 1
  BY WalkSteps
<1>. HIDE DEF to, key, n, o
<1>9. pos' = start => nodes = B(n) \cup {n}
  BY <1>2, <1>3, <1>4, <1>7, RankEnds
<1>10. pos' # start => B(o) = B(n) \cup {n}
  BY <1>2, <1>3, <1>4, <1>8, RankSteps
<1>. QED BY <1>2, <1>5, <1>6, <1>9, <1>10 DEF n

LEMMA VisitNodeKeeps ==
    ASSUME RingInv, VisitNode
    PROVE  RingInv'
<1>. DEFINE n     == Ordered(pos)
            taken == IF n \in Left THEN added + 1 ELSE added
<1>1. walk = "node" /\ AddedNearest /\ nodes # {} /\ UNCHANGED <<nodes, targets, start>>
  BY DEF VisitNode, RingInv
<1>2. /\ added' = taken /\ taken \in 0..SpreadFetch /\ selected' \in Seq(nodes)
      /\ Len(selected') = Len(Before) + taken
      /\ \A i \in 1..Len(Before) : selected'[i] = Before[i]
      /\ \A i \in 1..taken :
           selected'[Len(Before) + i] = NearestFirst(targets[replica], Left)[i]
      /\ {selected'[Len(Before) + i] : i \in 1..taken} = Left \cap (Behind \cup {n})
      /\ Cardinality(Left \cap (Behind \cup {n})) = taken
  BY VisitAdds
<1>. HIDE DEF n, taken
<1>3. CASE pos' = start
  <2>1. walk' = "replica" /\ replica' = replica + 1
    BY <1>3 DEF VisitNode
  <2>2. Left \cap (Behind \cup {n}) = Left
    BY <1>3, VisitPasses DEF Left, n
  <2>3. taken = Cardinality(Left) /\ Cardinality(Left) \in Nat
    BY <1>2, <2>2, RingSizes DEF Left
  <2>4. selected' = Before' /\ replica' \in 1..(Replicas + 1)
    BY <1>1, <1>2, <2>1, <2>3, ReplicaEnds
  <2>. QED BY <1>1, <1>2, <2>1, <2>4 DEF RingInv
<1>4. CASE pos' # start
  <2>1. UNCHANGED <<walk, replica>>
    BY <1>4 DEF VisitNode
  <2>2. Behind' = Behind \cup {n}
    BY <1>4, <2>1, VisitPasses DEF n
  <2>3. Before' = Before /\ Left' = Left
    BY <1>1, <2>1, ReferenceStays DEF Before, Left
  <2>4. NearestFirst(targets[replica], Left)' = NearestFirst(targets[replica], Left)
    BY <1>1, <2>1, <2>3 DEF NearestFirst, Clockwise
  <2>5. FirstPos(targets[replica])' = FirstPos(targets[replica]) /\ Total' = Total
    BY <1>1, <2>1 DEF FirstPos, BisectLeft, Total
  <2>6. (pos \in 0..(Total - 1))'
    BY <2>5, WalkSteps
  <2>7. AddedNearest'
    <3>1. (replica <= Replicas)' /\ (start = FirstPos(targets[replica]))'
      BY <1>1, <2>1, <2>5 DEF AddedNearest
    <3>2. (added \in 0..SpreadFetch)' /\ (Before \in Seq(nodes))'
          /\ (Len(selected) = Len(Before) + added)'
      BY <1>1, <1>2, <2>3 DEF AddedNearest
    <3>3. (\A i \in 1..Len(Before) : selected[i] = Before[i])'
      BY <1>2, <2>3
    <3>4. (\A i \in 1..added :
             selected[Len(Before) + i] = NearestFirst(targets[replica], Left)[i])'
      BY <1>2, <2>3, <2>4
    <3>5. ({selected[Len(Before) + i] : i \in 1..added} = Left \cap Behind)'
      BY <1>2, <2>2, <2>3
    <3>6. (Cardinality(Left \cap Behind) = added)'
      BY <1>2, <2>2, <2>3
    <3>. QED BY <2>6, <3>1, <3>2, <3>3, <3>4, <3>5, <3>6 DEF AddedNearest
  <2>. QED BY <1>1, <1>2, <2>1, <2>7 DEF RingInv
<1>. QED BY <1>3, <1>4

(* The walk keeps to the choice without a walk.                              *)
LEMMA RingInvariant == RingSpec => []RingInv
<1>1. RingInit => RingInv
  BY RingInvInit
<1>2. RingInv /\ [RingNext]_ringVars => RingInv'
  <2>. SUFFICES ASSUME RingInv, [RingNext]_ringVars PROVE RingInv'
    OBVIOUS
  <2>1. CASE StartReplica
    BY <2>1, StartReplicaKeeps
  <2>2. CASE VisitNode
    BY <2>2, VisitNodeKeeps
  <2>3. CASE EndReplica
    BY <2>3, EndReplicaKeeps
  <2>4. CASE UNCHANGED ringVars
    <3>1. UNCHANGED <<nodes, targets, replica, start, pos, added, selected, walk>>
      BY <2>4 DEF ringVars
    <3>2. Before' = Before /\ Left' = Left /\ ReferenceAfter' = ReferenceAfter
      BY <3>1, ReferenceStays DEF Before, Left
    <3>3. NearestFirst(targets[replica], Left)' = NearestFirst(targets[replica], Left)
      BY <3>1, <3>2 DEF NearestFirst, Clockwise
    <3>4. Behind' = Behind /\ FirstPos(targets[replica])' = FirstPos(targets[replica])
          /\ Total' = Total
      BY <3>1 DEF Behind, Ordered, Clockwise, FirstPos, BisectLeft, Total
    <3>5. AddedNearest => AddedNearest'
      BY <3>1, <3>2, <3>3, <3>4 DEF AddedNearest
    <3>. QED BY <3>1, <3>2, <3>5 DEF RingInv
  <2>. QED BY <2>1, <2>2, <2>3, <2>4 DEF RingNext
<1>. QED BY <1>1, <1>2, PTL DEF RingSpec

(* For every ring, every set of HSDirs and every descriptor place, what the  *)
(* walk returns is what the service computes without one (hsdir.py:127-160).  *)
THEOREM HsDirsAreTheResponsible == RingSpec => []RingChoice
<1>1. RingInv => RingChoice
  BY DEF RingInv, RingChoice
<1>. QED BY <1>1, RingInvariant, PTL

===============================================================================
