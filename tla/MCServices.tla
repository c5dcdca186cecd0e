------------------------------ MODULE MCServices ------------------------------
(***************************************************************************)
(* Streams and what is built upon them, on small instances.  Parts have no *)
(* state in common: a behaviour is one of `part`, the others are at rest.  *)
(***************************************************************************)
EXTENDS StreamDelivery, DirBootstrap, PathChoice, OnionConnect, HsDirRing,
        LinkHandshake, HttpExchange, RedirectChain, SocksRelay, TLC

VARIABLE part

-----------------------------------------------------------------------------
(* DirBootstrap: two threads, in one process or in two that share the disk;  *)
(* four authorities, so that three are more than half.                       *)
CONSTANTS t1, t2, p1, p2, a1, a2, a3, a4

Consensus(parses, from, until, signatures) ==
    [wellFormed |-> parses, validAfter |-> from, validUntil |-> until, signatures |-> signatures]
SignedBy(S) == [identity : S, algorithm : {"sha256"}, good : {TRUE}]
Padded == [identity : {a1}, algorithm : {"sha1", "sha256"}, good : {TRUE}]
            \cup SignedBy({a2, Stranger})
            \cup [identity : {a3}, algorithm : {"unknown"}, good : {TRUE}]
            \cup [identity : {a4}, algorithm : {"sha1"}, good : {FALSE}]

OneProcessOrTwo == {t1 :> p1 @@ t2 :> p1, t1 :> p1 @@ t2 :> p2}
SomeTexts == {Consensus(TRUE, 0, 1, SignedBy({a1, a2, a3})), Consensus(TRUE, 0, 2, Padded),
              Consensus(TRUE, 1, 2, SignedBy({a1, a2, a3, a4}))}

BootAtRest == BootInit /\ cacheFile = NoText /\ home = (t1 :> p1 @@ t2 :> p1)

-----------------------------------------------------------------------------
(* PathChoice: six relays in five subnets, one family, and a network that    *)
(* gains and loses guards.                                                   *)
CONSTANTS r1, r2, r3, r4, r5, r6

Guard == {"Guard", "Stable", "Fast", "V2Dir", "Running", "Valid"}
Plain == {"Running", "Valid"}
Exit  == Plain \cup {"Exit"}
View(f1, f2, f3, weights) ==
    [flags |-> r1 :> f1 @@ r2 :> f2 @@ r3 :> f3 @@ r4 :> Plain @@ r5 :> Exit @@ r6 :> Plain,
     weights |-> weights]
Weights == [Wgg |-> 1, Wgd |-> 0, Wmg |-> 1, Wmm |-> 1, Wme |-> 0, Wmd |-> 0,
            Weg |-> 0, Wee |-> 1, Wed |-> 1, Wgm |-> 1, Wem |-> 1]
RelayFacts(subnet, bandwidth, family, hasIdentity, opensPort) ==
    [subnet |-> subnet, bandwidth |-> bandwidth, family |-> family,
     hasIdentity |-> hasIdentity, opensPort |-> opensPort]

SomeFacts ==
    r1 :> RelayFacts(1, 1, {}, TRUE, FALSE) @@ r2 :> RelayFacts(2, 1, {r5}, TRUE, FALSE)
    @@ r3 :> RelayFacts(3, 1, {}, TRUE, TRUE) @@ r4 :> RelayFacts(1, 1, {}, TRUE, FALSE)
    @@ r5 :> RelayFacts(4, 1, {}, TRUE, TRUE) @@ r6 :> RelayFacts(5, 0, {}, FALSE, FALSE)
SomeViews ==
    {View(Guard, Guard, Guard \cup {"Exit"}, Weights), View(Plain, Guard, Guard, <<>>),
     View(Guard, Plain, Guard, <<>>),
     View(Guard \cup {"NoEdConsensus"}, Guard, Exit, Weights)}
NothingOrR6 == {{}, {r6}}

PathAtRest ==
    /\ PathInit /\ consensus = (CHOOSE c \in Consensuses : TRUE)
    /\ seniority = (CHOOSE picks \in Drawings(consensus, <<>>) : TRUE)

-----------------------------------------------------------------------------
(* OnionConnect and HsDescriptor: three HSDirs, up to three introduction     *)
(* points, and documents that are sound, expired, forged, restricted, or     *)
(* have introduction points that lack something.                             *)
CONSTANTS alice, mallory, srv1, srv2, h1, h2, h3

Point == [specs |-> "full", onionKey |-> TRUE, encKey |-> "usable",
          authCert |-> [type |-> "ip-auth", verifies |-> TRUE],
          encCert |-> [type |-> "ip-enc", verifies |-> TRUE]]
Sound == [author |-> "service", version |-> 3, integers |-> TRUE, expired |-> FALSE,
          fields |-> {"hs-descriptor", "descriptor-lifetime", "descriptor-signing-key-cert",
                      "revision-counter", "superencrypted", "signature"},
          cert |-> [type |-> "desc-signing", verifies |-> TRUE], byBlindedKey |-> TRUE,
          hasObject |-> TRUE, signed |-> TRUE, outerMac |-> TRUE, encrypted |-> TRUE,
          ephemeral |-> FALSE, authClients |-> {}, restricted |-> FALSE, text |-> TRUE,
          create2 |-> "ntor", points |-> <<Point, Point, Point>>]

ThreeDirs == srv1 :> <<h1, h2>> @@ srv2 :> <<h3>>
SomeDocuments ==
    {Sound, [Sound EXCEPT !.expired = TRUE], [Sound EXCEPT !.points = <<>>],
     [Sound EXCEPT !.author = "stranger", !.cert.verifies = FALSE],
     [Sound EXCEPT !.author = "stranger", !.signed = FALSE],
     [Sound EXCEPT !.author = "stranger", !.byBlindedKey = FALSE],
     [Sound EXCEPT !.restricted = TRUE, !.ephemeral = TRUE, !.authClients = {alice},
                   !.points = <<Point>>],
     [Sound EXCEPT !.points = <<[Point EXCEPT !.specs = "partial"],
                                [Point EXCEPT !.encKey = "wrong-size"]>>],
     [Sound EXCEPT !.points = <<Point, [Point EXCEPT !.encCert.type = "ip-auth"]>>]}

OnionAtRest == OnionInit /\ srvs = [which \in {"current", "previous"} |-> srv1] /\ authKey = NoKey

-----------------------------------------------------------------------------
(* HsDirRing: up to five nodes anywhere on a ring of six places.             *)
RingAtRest == RingInit /\ nodes = {} /\ targets = [r \in 1..Replicas |-> 0]

-----------------------------------------------------------------------------
(* LinkHandshake: the relay, or somebody who has seen its certificates and   *)
(* mixes them with his own, with the wrong type, expired or cut short.       *)
CONSTANTS relay, middle, relayTls, middleTls, relayId, middleId, relaySigning, middleSigning

LinkCert(type, by, names, certifies, expired) ==
    [type |-> type, by |-> by, names |-> names, certifies |-> certifies, expired |-> expired]
IdentityCerts ==
    {LinkCert("identity-v-signing", relayId, relayId, relaySigning, FALSE),
     LinkCert("identity-v-signing", middleId, middleId, middleSigning, FALSE),
     LinkCert("identity-v-signing", middleId, relayId, middleSigning, FALSE),
     LinkCert("identity-v-signing", relayId, relayId, relaySigning, TRUE),
     LinkCert("signing-v-tls", relayId, relayId, relaySigning, FALSE),
     LinkCert("identity-v-signing", relayId, Nothing, relaySigning, FALSE)}
TlsCerts ==
    {LinkCert("signing-v-tls", relaySigning, Nothing, relayTls, FALSE),
     LinkCert("signing-v-tls", middleSigning, Nothing, middleTls, FALSE),
     LinkCert("identity-v-signing", relaySigning, Nothing, relayTls, FALSE)}
InSlot(slot, cert) == [slot |-> slot, cert |-> cert]
Mixed(a, b, c) == <<InSlot("signing-v-tls", b), InSlot("signing-v-tls", c),
                    InSlot("identity-v-signing", a)>>

SomeCertLists ==
    {<<>>} \cup {Mixed(a, b, c) : a \in IdentityCerts, b \in TlsCerts, c \in TlsCerts}
      \cup {<<InSlot("identity-v-signing", a), InSlot("signing-v-tls", b)>> :
              a \in IdentityCerts, b \in TlsCerts \cup {Nothing}}
TlsDigests == relay :> relayTls @@ middle :> middleTls
Identities == relay :> relayId @@ middle :> middleId
SigningKeys == relay :> relaySigning @@ middle :> middleSigning

LinkAtRest == LinkInit /\ peer = relay /\ expected = Nothing /\ ~deadline

-----------------------------------------------------------------------------
(* HttpExchange: a body of three parts that says where it ends.              *)
HttpAtRest ==
    /\ HttpInit /\ framing = (CHOOSE f \in Framings : TRUE) /\ ~closes
    /\ prepared = [proxies |-> FALSE, host |-> "clearnet", https |-> FALSE]

-----------------------------------------------------------------------------
(* StreamDelivery: one stream, cells and reads of every size, closed or torn *)
(* down at any moment.  RedirectChain: two threads, two calls each, chains   *)
(* of three hops.  SocksRelay: two cells down, three up, through a window of *)
(* two.  Their parameters are in the configuration.                          *)

SocksAtRest == SocksInit /\ ~stream.deadline

-----------------------------------------------------------------------------
servicesVars == <<part, vars, bootVars, pathVars, onionVars, ringVars, linkVars, httpVars,
                  redirectVars, socksVars>>

ServicesInit ==
    /\ part \in {"cells", "boot", "path", "onion", "ring", "link", "http", "redirect", "socks"}
    /\ Init /\ RedirectInit
    /\ IF part = "boot" THEN BootInit ELSE BootAtRest
    /\ IF part = "path" THEN PathInit ELSE PathAtRest
    /\ IF part = "onion" THEN OnionInit ELSE OnionAtRest
    /\ IF part = "ring" THEN RingInit ELSE RingAtRest
    /\ IF part = "link" THEN LinkInit ELSE LinkAtRest
    /\ IF part = "http" THEN HttpInit ELSE HttpAtRest
    /\ IF part = "socks" THEN SocksInit ELSE SocksAtRest

(* The parts but one stand still.                                            *)
Only(p) ==
    /\ part = p /\ part' = part
    /\ p # "cells" => UNCHANGED vars
    /\ p # "boot" => UNCHANGED bootVars
    /\ p # "path" => UNCHANGED pathVars
    /\ p # "onion" => UNCHANGED onionVars
    /\ p # "ring" => UNCHANGED ringVars
    /\ p # "link" => UNCHANGED linkVars
    /\ p # "http" => UNCHANGED httpVars
    /\ p # "redirect" => UNCHANGED redirectVars
    /\ p # "socks" => UNCHANGED socksVars

ServicesNext ==
    \/ part = "cells" /\ Next /\ Only("cells")
    \/ part = "boot" /\ BootNext /\ Only("boot")
    \/ part = "path" /\ PathNext /\ Only("path")
    \/ part = "onion" /\ OnionNext /\ Only("onion")
    \/ part = "ring" /\ RingNext /\ Only("ring")
    \/ part = "link" /\ LinkNext /\ Only("link")
    \/ part = "http" /\ HttpNext /\ Only("http")
    \/ part = "redirect" /\ RedirectNext /\ Only("redirect")
    \/ part = "socks" /\ SocksNext /\ Only("socks")

(* Both threads of a SOCKS connection run: what they wait for is listed in   *)
(* their guards, and every wait for the window has a deadline.               *)
FairServices ==
    /\ ServicesInit /\ [][ServicesNext]_servicesVars
    /\ WF_servicesVars(part = "socks" /\ Handle /\ Only("socks"))
    /\ WF_servicesVars(part = "socks" /\ Pump /\ Only("socks"))

===============================================================================
