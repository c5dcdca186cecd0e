----------------------------- MODULE HsDescriptor -----------------------------
(***************************************************************************)
(* What the client makes of a v3 onion-service descriptor: the outer       *)
(* wrapper's certificate and signature, the two encrypted layers, and the  *)
(* introduction points inside.  A document is a record of what is true of  *)
(* each part; keys and ciphers are symbolic.                               *)
(***************************************************************************)
EXTENDS Naturals, Sequences

CONSTANTS
    Documents,  \* what an HSDir may serve, see DocumentType
    Clients,    \* x25519 client-authorization keys
    NoKey       \* no key, or no cookie

CertType == [type : {"desc-signing", "ip-auth", "ip-enc"}, verifies : BOOLEAN]

(* One introduction-point section: the fields collected for it.              *)
PointType == [specs : {"missing", "malformed", "partial", "full"}, onionKey : BOOLEAN,
              encKey : {"missing", "wrong-size", "usable"}, authCert : CertType, encCert : CertType]

(* author is who made the document; the client only sees the other fields.   *)
DocumentType ==
    [author : {"service", "stranger"},
     fields : SUBSET {"hs-descriptor", "descriptor-lifetime", "descriptor-signing-key-cert",
                      "revision-counter", "superencrypted", "signature"},
     version : Nat, integers : BOOLEAN,
     cert : CertType, expired : BOOLEAN, byBlindedKey : BOOLEAN, hasObject : BOOLEAN,
     signed : BOOLEAN, outerMac : BOOLEAN, encrypted : BOOLEAN,
     ephemeral : BOOLEAN, authClients : SUBSET Clients, restricted : BOOLEAN,
     text : BOOLEAN, create2 : {"missing", "no-ntor", "ntor"}, points : Seq(PointType)]

OuterFields == {"hs-descriptor", "descriptor-lifetime", "descriptor-signing-key-cert",
                "revision-counter", "superencrypted", "signature"}

(* Signatures cannot be forged: who does not hold the blinded key can alter  *)
(* or replay what it has signed, and not sign a document of his own.         *)
ASSUME DescriptorAssumption ==
    /\ NoKey \notin Clients
    /\ \A d \in Documents :
         /\ d.points \in Seq(PointType)
         /\ d.byBlindedKey /\ d.cert.verifies /\ d.signed => d.author = "service"

-----------------------------------------------------------------------------
(* _parse_and_verify_outer: does the wrapper stand?                          *)

(* The certificate's own signature is left to the document's.                *)
OuterWithoutCertSignature(d) ==
    /\ d.fields = OuterFields /\ d.version = 3 /\ d.integers
    /\ d.cert.type = "desc-signing" /\ ~d.expired /\ d.byBlindedKey
    /\ d.hasObject /\ d.signed

OuterVerifies(d) ==
    /\ d.fields = OuterFields
    /\ d.version = 3
    /\ d.integers
    /\ d.cert.type = "desc-signing"
    /\ ~d.expired
    /\ d.byBlindedKey /\ d.cert.verifies
    /\ d.hasObject
    /\ d.signed

(* The superencrypted layer, and the parts the client needs of it.           *)
FirstLayerReads(d) == d.outerMac /\ d.encrypted

(* derive_descriptor_cookie: none for a client that is not in the list.      *)
DescriptorCookie(d, key) ==
    IF key # NoKey /\ d.ephemeral /\ key \in d.authClients THEN key ELSE NoKey

(* The cookie goes into the inner layer's keys, so an open service cannot be *)
(* read with one and a restricted one not without.                           *)
SecondLayerDecrypts(d, cookie) == d.restricted <=> cookie # NoKey

(* _finalize_intro_point                                                     *)
PointStands(p) ==
    /\ p.specs \notin {"missing", "malformed"} /\ p.onionKey /\ p.encKey # "missing"
    /\ p.authCert.type = "ip-auth" /\ p.authCert.verifies
    /\ p.encCert.type = "ip-enc" /\ p.encCert.verifies

(* One bad section spoils the document.                                      *)
IntroPointsParse(d) ==
    /\ d.text
    /\ \A i \in DOMAIN d.points : PointStands(d.points[i])
    /\ d.create2 = "ntor"

(* parse_descriptor_with_auth: "parsed", "bad" or "auth-required".           *)
ParseDescriptor(d, key) ==
    LET cookie == DescriptorCookie(d, key)
    IN  CASE ~OuterVerifies(d) \/ ~FirstLayerReads(d) -> "bad"
          [] OuterVerifies(d) /\ FirstLayerReads(d) /\ ~SecondLayerDecrypts(d, cookie) ->
               IF cookie = NoKey THEN "auth-required" ELSE "bad"
          [] OTHER -> IF IntroPointsParse(d) THEN "parsed" ELSE "bad"

===============================================================================
