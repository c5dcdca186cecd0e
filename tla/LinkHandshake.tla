----------------------------- MODULE LinkHandshake -----------------------------
(***************************************************************************)
(* Channel.open: a TCP connection to a guard, TLS without X.509, and the   *)
(* link handshake that authenticates the relay by its CERTS chain.  Who    *)
(* answers may be the relay or somebody on the path to it, and sends cells *)
(* in any order, again, or not at all.  Keys are symbolic.                 *)
(***************************************************************************)
EXTENDS Naturals, Sequences, FiniteSets

CONSTANTS
    Peers,      \* who holds keys; one of them answers at the address
    Relay,      \* the relay that is expected there
    TlsDigest,  \* TlsDigest[p]: of the TLS certificate p presents
    Identity,   \* Identity[p], Signing[p]: the ed25519 keys p holds
    Signing,
    CertLists,  \* what a CERTS cell may carry: sequences of [slot, cert]
    Supported,  \* SUPPORTED_LINK_VERSIONS
    Nothing     \* no certificate, no key, no cell yet

(* A certificate is [type, by, names, certifies, expired]; by: the key that  *)
(* really signed it; names: the signing key that its extension names.  One   *)
(* that is cut short is Nothing.                                             *)

(* A link version is two bytes.                                              *)
MaxVersion == 65535
ASSUME VersionAssumption == Supported \subseteq 0..MaxVersion

(* The keys and digests of a holder, and of two holders, differ.             *)
ASSUME KeyAssumption ==
    /\ Relay \in Peers /\ Nothing \notin Peers
    /\ \A p, q \in Peers :
         /\ Signing[p] # Identity[q] /\ TlsDigest[p] \notin {Identity[q], Signing[q]}
         /\ p # q => /\ TlsDigest[p] # TlsDigest[q]
                     /\ Identity[p] # Identity[q] /\ Signing[p] # Signing[q]

(* Nobody signs with a key he does not hold, so every certificate is signed  *)
(* by somebody's identity key, and certifies his signing key, or by his      *)
(* signing key, and certifies his TLS certificate.                           *)
SignedByHolder(cert) ==
    \E p \in Peers : \/ cert.by = Identity[p] /\ cert.certifies = Signing[p]
                     \/ cert.by = Signing[p] /\ cert.certifies = TlsDigest[p]

ASSUME CertAssumption ==
    \A list \in CertLists : \A i \in DOMAIN list :
        list[i].cert # Nothing => SignedByHolder(list[i].cert)

VARIABLES
    linkPhase,    \* of open(): "tcp", "versions", "cells", "validate", "reply", "open", "failed"
    peer,         \* who answered
    expected,     \* expected_identity
    linkVersion,  \* 0 until negotiated
    certs,        \* the last CERTS cell
    relayIdentity,\* what _validate_certs returned
    socket,       \* "none", "connected", "closed"
    deadline,     \* whether reads have one
    receiver      \* whether the receiver thread runs

linkVars == <<linkPhase, peer, expected, linkVersion, certs, relayIdentity, socket, deadline, receiver>>

LinkInit ==
    /\ linkPhase = "tcp" /\ peer \in Peers
    /\ expected \in {Identity[Relay], Nothing}
    /\ linkVersion = 0 /\ certs = Nothing /\ relayIdentity = Nothing
    /\ socket = "none" /\ deadline \in BOOLEAN /\ receiver = FALSE

(* What is left of a failure: a closed connection and an exception.          *)
Fails ==
    /\ linkPhase' = "failed"
    /\ socket' = IF socket = "connected" THEN "closed" ELSE socket
    /\ UNCHANGED <<peer, expected, linkVersion, certs, relayIdentity, deadline, receiver>>

(* TlsTransport.connect: no connection, no TLS, no certificate.              *)
Connect ==
    /\ linkPhase = "tcp"
    /\ \/ Fails
       \/ /\ socket' = "connected" /\ linkPhase' = "versions"
          /\ UNCHANGED <<peer, expected, linkVersion, certs, relayIdentity, deadline, receiver>>

(* An EOF, an error, a read past its deadline, a cell that does not parse.   *)
ReadFails ==
    /\ linkPhase \in {"versions", "cells"}
    /\ Fails

ReadVersions ==
    /\ linkPhase = "versions"
    /\ \E offered \in SUBSET (Supported \cup {3}) :
         LET common == offered \cap Supported
         IN  IF common = {} THEN Fails
             ELSE /\ linkVersion' = CHOOSE v \in common : \A w \in common : v >= w
                  /\ linkPhase' = "cells"
                  /\ UNCHANGED <<peer, expected, certs, relayIdentity, socket, deadline, receiver>>

(* AUTH_CHALLENGE, VPADDING and what else comes: a step that changes nothing.*)
ReadCerts ==
    /\ linkPhase = "cells"
    /\ certs' \in CertLists
    /\ UNCHANGED <<linkPhase, peer, expected, linkVersion, relayIdentity, socket, deadline, receiver>>

ReadNetinfo ==
    /\ linkPhase = "cells"
    /\ linkPhase' = "validate"
    /\ UNCHANGED <<peer, expected, linkVersion, certs, relayIdentity, socket, deadline, receiver>>

-----------------------------------------------------------------------------
(* _validate_certs                                                           *)

(* CertsCell.by_type: the first of that slot.                                *)
ByType(list, slot) ==
    LET first(i) == list[i].slot = slot /\ \A j \in 1..(i - 1) : list[j].slot # slot
    IN  IF \E i \in DOMAIN list : first(i)
        THEN list[CHOOSE i \in DOMAIN list : first(i)].cert ELSE Nothing

(* Ed25519Certificate.parse, verify and verify_self_signed.                  *)
Parses(cert) == cert # Nothing
VerifiesUnder(cert, key) == cert.by = key
SelfSigned(cert) == cert.names # Nothing /\ VerifiesUnder(cert, cert.names)

(* The chain without its tie to the connection.                              *)
ChainUnbound(identityCert, tlsCert) ==
    /\ Parses(identityCert) /\ Parses(tlsCert)
    /\ identityCert.type = "identity-v-signing" /\ tlsCert.type = "signing-v-tls"
    /\ ~identityCert.expired /\ ~tlsCert.expired
    /\ SelfSigned(identityCert) /\ VerifiesUnder(tlsCert, identityCert.certifies)

ChainHolds(identityCert, tlsCert) ==
    /\ Parses(identityCert) /\ Parses(tlsCert)
    /\ identityCert.type = "identity-v-signing" /\ tlsCert.type = "signing-v-tls"
    /\ ~identityCert.expired /\ ~tlsCert.expired
    /\ SelfSigned(identityCert) /\ VerifiesUnder(tlsCert, identityCert.certifies)
    /\ tlsCert.certifies = TlsDigest[peer]

Validate ==
    /\ linkPhase = "validate"
    /\ LET identityCert == IF certs = Nothing THEN Nothing ELSE ByType(certs, "identity-v-signing")
           tlsCert      == IF certs = Nothing THEN Nothing ELSE ByType(certs, "signing-v-tls")
           accepted     == /\ ChainHolds(identityCert, tlsCert)
                           /\ expected \in {Nothing, identityCert.names}
       IN  IF ~accepted THEN Fails
           ELSE /\ relayIdentity' = identityCert.names /\ linkPhase' = "reply"
                /\ UNCHANGED <<peer, expected, linkVersion, certs, socket, deadline, receiver>>

(* NETINFO goes out, reads lose their deadline, the receiver takes over.     *)
Reply ==
    /\ linkPhase = "reply"
    /\ \/ Fails
       \/ /\ linkPhase' = "open" /\ deadline' = FALSE /\ receiver' = TRUE
          /\ UNCHANGED <<peer, expected, linkVersion, certs, relayIdentity, socket>>

LinkNext ==
    Connect \/ ReadFails \/ ReadVersions \/ ReadCerts \/ ReadNetinfo \/ Validate \/ Reply

LinkSpec == LinkInit /\ [][LinkNext]_linkVars

-----------------------------------------------------------------------------
(* An open channel ends at the holder of the identity it reports, and that   *)
(* is the one expected: nobody who replays the relay's certificates, or      *)
(* mixes them with his own, in whatever order and however often, gets there; *)
(* and an attempt that fails leaves no connection (link.py:65-133,           *)
(* channel.py:56-67).                                                        *)
LinkAuthenticated ==
    /\ linkPhase = "open" =>
         /\ relayIdentity = Identity[peer]
         /\ expected # Nothing => peer = Relay
         /\ linkVersion \in Supported /\ socket = "connected" /\ receiver /\ ~deadline
    /\ linkPhase = "failed" => socket # "connected" /\ ~receiver

===============================================================================
