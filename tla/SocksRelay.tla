------------------------------ MODULE SocksRelay ------------------------------
(***************************************************************************)
(* One connection of the SOCKS5 server: its thread negotiates, opens a     *)
(* stream and pumps from Tor to the client; a second thread pumps from the *)
(* client to Tor.  The client may stop sending, leave or reset at any time,*)
(* the stream end or its circuit die.  Data are counted in cells.          *)
(***************************************************************************)
EXTENDS Naturals

CONSTANTS
    Downloads,  \* cells the other side sends at most
    Uploads,    \* cells the client sends at most
    SendWindow  \* the stream's package window

ASSUME SocksAssumption ==
    Downloads \in Nat /\ Uploads \in Nat /\ SendWindow \in Nat \ {0}

VARIABLES
    handler,    \* of the connection's thread: what it does next
    pump,       \* of client_to_tor: "none", "recv", "send", "ended"
    socksReply, \* the last SOCKS reply sent
    named,      \* whether the request's address could be read
    client,     \* "open", "half" (done sending), "gone"
    shut,       \* whether our side shut the socket
    unread,     \* cells the client sent and the pump has not taken
    uploaded,   \* cells the client sent
    holding,    \* cells the connection's thread took from the stream
    delivered,  \* cells the client was sent
    stream      \* the Tor stream; deadline: whether TorConfig.read_timeout is set,
                \* silent: history, whether a read ran into it

socksVars == <<handler, pump, socksReply, named, client, shut, unread, uploaded,
               holding, delivered, stream>>

clientSide == <<client, unread, uploaded>>

SocksInit ==
    /\ handler = "greeting" /\ pump = "none" /\ socksReply = "none" /\ named = FALSE
    /\ client = "open" /\ shut = FALSE /\ unread = 0 /\ uploaded = 0
    /\ holding = 0 /\ delivered = 0
    /\ \E deadline \in BOOLEAN :
         stream = [opened |-> FALSE, eof |-> FALSE, error |-> FALSE, closed |-> FALSE,
                   arrived |-> 0, buffered |-> 0, window |-> SendWindow,
                   deadline |-> deadline, silent |-> FALSE]

-----------------------------------------------------------------------------
(* _negotiate                                                                *)

(* A peer that closes early, a version that is not 5, an exception: nothing  *)
(* is answered; socketserver closes the socket.                              *)
NegotiationFails ==
    /\ handler \in {"greeting", "methods", "request", "address", "port"}
    /\ handler' = "done"
    /\ UNCHANGED <<pump, socksReply, named, shut, holding, delivered, stream, clientSide>>

NegotiationAnswers(code) ==
    /\ handler' = "done" /\ socksReply' = code
    /\ UNCHANGED <<pump, named, shut, holding, delivered, stream, clientSide>>

(* A missing address is answered after the port was read.                    *)
Negotiate ==
    \/ /\ handler = "greeting" /\ handler' = "methods"
       /\ UNCHANGED <<pump, socksReply, named, shut, holding, delivered, stream, clientSide>>
    \/ /\ handler = "methods" /\ handler' = "request" /\ socksReply' = "no auth"
       /\ UNCHANGED <<pump, named, shut, holding, delivered, stream, clientSide>>
    \/ /\ handler = "request"
       /\ \/ NegotiationAnswers("command not supported")
          \/ NegotiationAnswers("address type not supported")
          \/ /\ handler' = "address"
             /\ UNCHANGED <<pump, socksReply, named, shut, holding, delivered, stream, clientSide>>
    \/ /\ handler = "address" /\ handler' = "port" /\ named' \in BOOLEAN
       /\ UNCHANGED <<pump, socksReply, shut, holding, delivered, stream, clientSide>>
    \/ /\ handler = "port"
       /\ \/ NegotiationAnswers("general failure")
          \/ /\ named /\ handler' = "connect"
             /\ UNCHANGED <<pump, socksReply, named, shut, holding, delivered, stream, clientSide>>

(* connect_stream, whatever it raises.                                       *)
ConnectStream ==
    /\ handler = "connect"
    /\ \/ NegotiationAnswers("host unreachable")
       \/ /\ handler' = "success" /\ stream' = [stream EXCEPT !.opened = TRUE]
          /\ UNCHANGED <<pump, socksReply, named, shut, holding, delivered, clientSide>>

(* The reply may meet a client that left: the exception leaves the handler,  *)
(* and nobody closes the stream.                                             *)
ReplySuccess ==
    /\ handler = "success"
    /\ \/ handler' = "recv" /\ socksReply' = "success" /\ pump' = "recv"
       \/ client = "gone" /\ handler' = "done" /\ UNCHANGED <<socksReply, pump>>
    /\ UNCHANGED <<named, shut, holding, delivered, stream, clientSide>>

-----------------------------------------------------------------------------
(* _relay: the connection's thread                                           *)

(* TorReadTimeout: the proxy asks for no deadline, which means the default's.*)
ReadTimesOut ==
    /\ stream.deadline /\ stream.buffered = 0 /\ ~stream.eof
    /\ stream' = [stream EXCEPT !.silent = TRUE]
    /\ handler' = "close" /\ UNCHANGED holding

(* A recv that looks at EOF before its buffer.                               *)
RecvEofFirst ==
    /\ handler = "recv"
    /\ \/ /\ ~stream.eof
          /\ \E n \in 1..stream.buffered :
               /\ holding' = n /\ stream' = [stream EXCEPT !.buffered = @ - n]
               /\ handler' = "sendall"
       \/ stream.eof /\ handler' = "close" /\ UNCHANGED <<holding, stream>>
       \/ ReadTimesOut
    /\ UNCHANGED <<pump, socksReply, named, shut, delivered, clientSide>>

(* Stream.recv: what is buffered first, then the error, then EOF.            *)
RecvFromTor ==
    /\ handler = "recv"
    /\ \/ \E n \in 1..stream.buffered :
            /\ holding' = n /\ stream' = [stream EXCEPT !.buffered = @ - n]
            /\ handler' = "sendall"
       \/ /\ stream.buffered = 0 /\ stream.eof
          /\ handler' = "close" /\ UNCHANGED <<holding, stream>>
       \/ ReadTimesOut
    /\ UNCHANGED <<pump, socksReply, named, shut, delivered, clientSide>>

SendToClient ==
    /\ handler = "sendall" /\ holding' = 0
    /\ \/ delivered' = delivered + holding /\ handler' = "recv"
       \/ client = "gone" /\ handler' = "close" /\ UNCHANGED delivered
    /\ UNCHANGED <<pump, socksReply, named, shut, stream, clientSide>>

(* Stream.close wakes who waits for data or for the package window.          *)
CloseTorStream ==
    /\ handler = "close" /\ handler' = "shutdown"
    /\ stream' = [stream EXCEPT !.closed = TRUE, !.eof = TRUE]
    /\ UNCHANGED <<pump, socksReply, named, shut, holding, delivered, clientSide>>

(* Leaves the client's end of the socket as it is.                           *)
SkipShutdown ==
    /\ handler = "shutdown" /\ handler' = "join"
    /\ UNCHANGED <<pump, socksReply, named, shut, holding, delivered, stream, clientSide>>

ShutdownClient ==
    /\ handler = "shutdown" /\ handler' = "join" /\ shut' = TRUE
    /\ UNCHANGED <<pump, socksReply, named, holding, delivered, stream, clientSide>>

(* The pump has ended, or the five seconds are over.                         *)
JoinPump ==
    /\ handler = "join" /\ handler' = "done"
    /\ UNCHANGED <<pump, socksReply, named, shut, holding, delivered, stream, clientSide>>

-----------------------------------------------------------------------------
(* _relay: client_to_tor, which suppresses every exception                   *)

PumpRecv ==
    /\ pump = "recv"
    /\ \/ unread > 0 /\ pump' = "send" /\ unread' = unread - 1
       \/ /\ (client = "half" /\ unread = 0) \/ client = "gone" \/ shut
          /\ pump' = "ended" /\ UNCHANGED unread
    /\ UNCHANGED <<handler, socksReply, named, client, shut, uploaded, holding, delivered, stream>>

(* The window is consumed, or it is closed, or the wait for it times out:    *)
(* then the pump ends and nobody is told.                                    *)
PumpSend ==
    /\ pump = "send"
    /\ \/ /\ ~stream.closed /\ ~stream.error /\ stream.window > 0
          /\ pump' = "recv" /\ stream' = [stream EXCEPT !.window = @ - 1]
       \/ /\ stream.closed \/ stream.error \/ stream.window = 0
          /\ pump' = "ended" /\ UNCHANGED stream
    /\ UNCHANGED <<handler, socksReply, named, shut, holding, delivered, clientSide>>

-----------------------------------------------------------------------------
(* The client and the circuit                                                *)

ClientSends ==
    /\ client = "open" /\ uploaded < Uploads
    /\ unread' = unread + 1 /\ uploaded' = uploaded + 1
    /\ UNCHANGED <<handler, pump, socksReply, named, client, shut, holding, delivered, stream>>

ClientStops ==
    /\ \/ client = "open" /\ client' = "half"
       \/ client # "gone" /\ client' = "gone"
    /\ UNCHANGED <<handler, pump, socksReply, named, shut, unread, uploaded, holding, delivered, stream>>

(* DATA, SENDME, END and the end of the circuit, as Stream handles them.     *)
Receive ==
    /\ stream.opened /\ ~stream.closed /\ ~stream.eof
    /\ \/ /\ stream.arrived < Downloads
          /\ stream' = [stream EXCEPT !.arrived = @ + 1, !.buffered = @ + 1]
       \/ /\ stream.window < SendWindow
          /\ stream' = [stream EXCEPT !.window = @ + 1]
       \/ stream' = [stream EXCEPT !.eof = TRUE]
       \/ stream' = [stream EXCEPT !.eof = TRUE, !.error = TRUE]
    /\ UNCHANGED <<handler, pump, socksReply, named, shut, holding, delivered, clientSide>>

Handle ==
    \/ NegotiationFails \/ Negotiate \/ ConnectStream \/ ReplySuccess \/ RecvFromTor
    \/ SendToClient \/ CloseTorStream \/ ShutdownClient \/ JoinPump
Pump == PumpRecv \/ PumpSend
SocksNext == Handle \/ Pump \/ ClientSends \/ ClientStops \/ Receive

SocksSpec == SocksInit /\ [][SocksNext]_socksVars

-----------------------------------------------------------------------------
(* A client that stays is sent everything the stream brought before its end, *)
(* an error or its own half-close notwithstanding, unless the stream was     *)
(* silent past its deadline (socks.py:122-150, stream.py:106-151).           *)
DownloadWhole ==
    handler \in {"close", "shutdown", "join", "done"} /\ pump # "none" /\ client # "gone"
      /\ ~stream.silent => delivered = stream.arrived

(* Once the stream has ended, or the client is gone and reads have a         *)
(* deadline, both threads of the connection end (socks.py:123, 141-150).     *)
TornDown == handler = "done" /\ pump \in {"none", "ended"}
SocksTearsDown == stream.eof \/ (client = "gone" /\ stream.deadline) ~> TornDown

===============================================================================
