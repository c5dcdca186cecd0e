----------------------------- MODULE HttpExchange -----------------------------
(***************************************************************************)
(* TorAdapter.send and the body of the response it returns: a stream, TLS  *)
(* over it for https, http.client over that, and urllib3 as the reader of  *)
(* the body.  The header of the response and each part of its body arrive  *)
(* one by one, and the stream may end or fail between any two.             *)
(***************************************************************************)
EXTENDS Naturals

CONSTANTS
    Framings,   \* of the responses: subset of {"length", "chunked", "close"}
    Parts       \* the parts of a whole body

ASSUME HttpAssumption ==
    Framings \subseteq {"length", "chunked", "close"} /\ Parts \in Nat

VARIABLES
    phase,      \* of the call: "send", "tls", "request", "header", "body", "read", "raised"
    prepared,   \* the request: proxies?, host, scheme
    framing,    \* how the response ends: "length", "chunked", "close"
    closes,     \* whether it says "Connection: close"
    wire,       \* units (the header, then the parts) that have not arrived
    inbox,      \* units in the stream's buffer
    ahead,      \* units in the reader that http.client keeps over the socket
    given,      \* parts the caller was given
    ended,      \* Stream._eof, Stream._error
    error,
    attached,   \* whether the circuit hands the stream its cells
    cut         \* history: the server's side ended too early

httpVars == <<phase, prepared, framing, closes, wire, inbox, ahead, given, ended, error,
              attached, cut>>
bodyVars == <<wire, inbox, ahead, given, ended, error, attached, cut>>
reqVars == <<prepared, framing, closes>>

HttpInit ==
    /\ phase = "send"
    /\ prepared \in [proxies : BOOLEAN, host : {"clearnet", "onion", "bad onion"}, https : BOOLEAN]
    /\ framing \in Framings /\ closes \in BOOLEAN
    /\ wire = Parts + 1 /\ inbox = 0 /\ ahead = 0 /\ given = 0
    /\ ended = FALSE /\ error = FALSE /\ attached = FALSE /\ cut = FALSE

(* proxies= is refused, an onion address that does not verify as well; the   *)
(* connector opens a stream or raises.                                       *)
Send ==
    /\ phase = "send"
    /\ \/ phase' = "raised" /\ UNCHANGED attached
       \/ /\ ~prepared.proxies /\ prepared.host # "bad onion"
          /\ attached' = TRUE
          /\ phase' = IF prepared.https THEN "tls" ELSE "request"
    /\ UNCHANGED <<reqVars, wire, inbox, ahead, given, ended, error, cut>>

(* The handshake over the stream; when it fails the stream stays open.       *)
TlsHandshake ==
    /\ phase = "tls" /\ phase' \in {"request", "raised"}
    /\ UNCHANGED <<reqVars, bodyVars>>

(* perform_request up to endheaders; the same when it fails.                 *)
SendRequest ==
    /\ phase = "request" /\ phase' \in {"header", "raised"}
    /\ UNCHANGED <<reqVars, bodyVars>>

(* Stream.close: what is buffered stays, what is on its way is lost.         *)
CloseBody == ended' = TRUE /\ attached' = FALSE

-----------------------------------------------------------------------------
(* getresponse: the buffered reader takes what there is, and a response      *)
(* after which the connection closes has the socket closed at once: that of  *)
(* HTTP/1.0, of "Connection: close", and one without length or chunks.       *)
WillClose == closes \/ framing = "close"

ReadHeader ==
    /\ phase = "header" /\ inbox > 0
    /\ phase' = "body"
    /\ \E n \in 1..inbox : inbox' = inbox - n /\ ahead' = n - 1
    /\ IF WillClose THEN CloseBody ELSE UNCHANGED <<ended, attached>>
    /\ UNCHANGED <<reqVars, wire, given, error, cut>>

(* Before a header came: EOF, an error, a read past its deadline, or a       *)
(* header that does not parse.                                               *)
HeaderFails ==
    /\ phase = "header" /\ phase' = "raised"
    /\ UNCHANGED <<reqVars, bodyVars>>

-----------------------------------------------------------------------------
(* The body: whoever reads it, or fails to, has the closer end the stream.   *)

ReadPart ==
    /\ phase = "body" /\ given < Parts
    /\ \/ ahead > 0 /\ ahead' = ahead - 1 /\ UNCHANGED inbox
       \/ ahead = 0 /\ inbox > 0 /\ \E n \in 1..inbox : inbox' = inbox - n /\ ahead' = n - 1
    /\ given' = given + 1
    /\ UNCHANGED <<phase, reqVars, wire, ended, error, attached, cut>>

NothingToRead == ahead = 0 /\ inbox = 0

(* EOF ends every body: what was announced is not looked at.                 *)
EofEndsBody == NothingToRead /\ ended /\ ~error

(* The length is reached, or the last chunk; or EOF where nothing else tells.*)
BodyEnds ==
    \/ framing # "close" /\ given = Parts
    \/ framing = "close" /\ NothingToRead /\ ended /\ ~error

BodyRead ==
    /\ phase = "body" /\ BodyEnds
    /\ phase' = "read" /\ CloseBody
    /\ UNCHANGED <<reqVars, wire, inbox, ahead, given, error, cut>>

(* EOF inside a body that says its length, an error, a read past its         *)
(* deadline; or the caller closes the response.                              *)
BodyFails ==
    /\ phase = "body" /\ ~BodyEnds
    /\ phase' = "raised" /\ CloseBody
    /\ UNCHANGED <<reqVars, wire, inbox, ahead, given, error, cut>>

-----------------------------------------------------------------------------
(* The server, the exit and the circuit                                      *)

(* A unit is delivered if the stream is registered, and dropped otherwise.   *)
UnitArrives ==
    /\ phase \in {"header", "body"} /\ wire > 0 /\ ~cut /\ ~error
    /\ wire' = wire - 1
    /\ inbox' = IF attached THEN inbox + 1 ELSE inbox
    /\ UNCHANGED <<phase, reqVars, ahead, given, ended, error, attached, cut>>

(* END, after the response or inside it; the circuit's end is an error.      *)
StreamEnds ==
    /\ attached /\ ~ended
    /\ \/ ended' = TRUE /\ cut' = (wire > 0) /\ UNCHANGED error
       \/ ended' = TRUE /\ error' = TRUE /\ UNCHANGED cut
    /\ UNCHANGED <<phase, reqVars, wire, inbox, ahead, given, attached>>

HttpNext ==
    \/ Send \/ TlsHandshake \/ SendRequest \/ ReadHeader \/ HeaderFails \/ ReadPart
    \/ BodyRead \/ BodyFails \/ UnitArrives \/ StreamEnds

HttpSpec == HttpInit /\ [][HttpNext]_httpVars

-----------------------------------------------------------------------------
(* Who reads a response to its end without an error has the whole body,      *)
(* unless the server itself broke off a body that only its end delimits; and *)
(* the stream of a response that was read or given up is closed              *)
(* (connection.py:5-6, response.py:59-61).                                   *)
BodyComplete ==
    /\ phase = "read" => given = Parts \/ cut
    /\ phase = "read" \/ (phase = "raised" /\ given > 0) => ~attached

===============================================================================
