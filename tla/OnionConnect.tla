----------------------------- MODULE OnionConnect -----------------------------
(***************************************************************************)
(* One connection to an onion service: a descriptor from the responsible   *)
(* HSDirs, a rendezvous circuit, introductions one after the other, and    *)
(* the service's hop spliced onto the rendezvous circuit.  Relays refuse,  *)
(* stay silent and answer late; the HSDirs and the rendezvous point may    *)
(* send what they like.                                                    *)
(***************************************************************************)
EXTENDS HsDescriptor, FiniteSets

CONSTANTS
    Srvs,         \* shared-random values, NoSrv among them
    NoSrv,        \* the consensus has none
    Disaster,     \* the value used then
    Responsible,  \* Responsible[srv]: the HSDirs of the service, in fetch order
    NoDoc         \* no descriptor yet

ASSUME OnionAssumption ==
    /\ NoSrv \in Srvs /\ Disaster \in Srvs \ {NoSrv}
    /\ NoDoc \notin Documents
    /\ \A srv \in Srvs \ {NoSrv} :
         Responsible[srv] \in Seq({Responsible[srv][i] : i \in DOMAIN Responsible[srv]})

VARIABLES
    stage,       \* what the connecting thread is about to do
    srvs,        \* the consensus's shared-random values, current and previous
    authKey,     \* the client-authorization key configured for the service
    previous,    \* use_previous, of the outer loop
    turn,        \* the HSDir of the inner loop
    asked,       \* HSDirs that were asked
    document,    \* the document adopted
    intro,       \* the introduction point of the loop
    waiter,      \* _relay_waiters[RENDEZVOUS2]: the introduction it was armed for, 0: none
    reply,       \* what the current waiter was given
    introduced,  \* introductions whose INTRODUCE1 was sent
    flight,      \* RENDEZVOUS2 cells on their way: [to, genuine]
    circuitGone, \* whether the rendezvous circuit was destroyed
    introOpen,   \* introduction circuits that are open
    hop,         \* the reply that keys the service's hop
    reason       \* why the call raised

onionVars == <<stage, srvs, authKey, previous, turn, asked, document, intro, waiter, reply,
               introduced, flight, circuitGone, introOpen, hop, reason>>
dirVars   == <<srvs, authKey, previous, turn, asked, document>>
introVars == <<intro, waiter, reply, introduced, flight, introOpen, hop>>

Silence == [to |-> 0, genuine |-> FALSE]

OnionInit ==
    /\ stage = "fetch"
    /\ srvs \in [{"current", "previous"} -> Srvs] /\ authKey \in Clients \cup {NoKey}
    /\ previous = FALSE /\ turn = 1 /\ asked = {} /\ document = NoDoc
    /\ intro = 1 /\ waiter = 0 /\ reply = Silence /\ introduced = {} /\ flight = {}
    /\ circuitGone = FALSE /\ introOpen = {} /\ hop = Silence /\ reason = "none"

Raise(why) == stage' = "raised" /\ reason' = why

-----------------------------------------------------------------------------
(* The descriptor.                                                           *)

Srv(usePrevious) ==
    LET srv == srvs[IF usePrevious THEN "previous" ELSE "current"]
    IN  IF srv = NoSrv THEN Disaster ELSE srv

HsDirs == Responsible[Srv(previous)]

(* What is caught: no circuit, no stream, a refusal, a document in pieces.   *)
NextHsDir ==
    /\ turn' = turn + 1 /\ asked' = asked \cup {<<previous, turn>>}
    /\ UNCHANGED <<stage, document, previous, reason>>

(* And what is not: an answer that does not come (TorReadTimeout), a         *)
(* consensus without a path (ConsensusError), a descriptor for others.       *)
AskHsDir ==
    /\ stage = "fetch" /\ turn <= Len(HsDirs)
    /\ \/ NextHsDir
       \/ /\ \E why \in {"silent", "no-path"} : Raise(why)
          /\ UNCHANGED <<turn, asked, document, previous>>
       \/ \E d \in Documents :
            \/ /\ ParseDescriptor(d, authKey) = "bad"
               /\ NextHsDir
            \/ /\ ParseDescriptor(d, authKey) = "auth-required"
               /\ Raise("auth-required")
               /\ UNCHANGED <<turn, asked, document, previous>>
            \/ /\ ParseDescriptor(d, authKey) = "parsed"
               /\ document' = d /\ stage' = "rendezvous"
               /\ UNCHANGED <<turn, asked, previous, reason>>
    /\ UNCHANGED <<srvs, authKey, introVars, circuitGone>>

(* One list of HSDirs is asked and no more.                                  *)
GiveUpAfterOneList ==
    /\ stage = "fetch" /\ turn > Len(HsDirs)
    /\ Raise("not-found")
    /\ UNCHANGED <<dirVars, introVars, circuitGone>>

EndOfList ==
    /\ stage = "fetch" /\ turn > Len(HsDirs)
    /\ IF ~previous
       THEN previous' = TRUE /\ turn' = 1 /\ UNCHANGED <<stage, reason>>
       ELSE Raise("not-found") /\ UNCHANGED <<previous, turn>>
    /\ UNCHANGED <<srvs, authKey, asked, document, introVars, circuitGone>>

-----------------------------------------------------------------------------
(* The rendezvous.                                                           *)

BuildRendezvous ==
    /\ stage = "rendezvous"
    /\ \/ stage' = "establish" /\ UNCHANGED reason
       \/ Raise("no-rendezvous")
    /\ UNCHANGED <<dirVars, introVars, circuitGone>>

Establish ==
    /\ stage = "establish"
    /\ \/ ~circuitGone /\ stage' = "introduce" /\ UNCHANGED reason
       \/ Raise("not-established")
    /\ UNCHANGED <<dirVars, introVars, circuitGone>>

NextIntro == intro' = intro + 1 /\ stage' = "introduce" /\ UNCHANGED reason

Points == IF document = NoDoc THEN <<>> ELSE document.points

(* intro_point_relay_info: an address, a fingerprint and an identity.        *)
Reachable(p) == p.specs = "full"

(* _introduce up to its INTRODUCE1.  The keys are checked first, then the    *)
(* waiter is armed, then the circuit is built.                               *)
Introduce ==
    /\ stage = "introduce" /\ intro <= Len(Points)
    /\ reply' = Silence
    /\ IF Points[intro].encKey # "usable"
       THEN Raise("ValueError") /\ UNCHANGED <<intro, waiter, introduced, introOpen>>
       ELSE IF circuitGone
       THEN NextIntro /\ UNCHANGED <<waiter, introduced, introOpen>>
       ELSE /\ waiter' = intro
            /\ \/ NextIntro /\ UNCHANGED <<introduced, introOpen>>
               \/ /\ Reachable(Points[intro])
                  /\ Raise("no-path")
                  /\ UNCHANGED <<intro, introduced, introOpen>>
               \/ /\ Reachable(Points[intro])
                  /\ introduced' = introduced \cup {intro}
                  /\ introOpen' = introOpen \cup {intro}
                  /\ stage' = "ack" /\ UNCHANGED <<intro, reason>>
    /\ UNCHANGED <<dirVars, flight, hop, circuitGone>>

(* INTRODUCE_ACK: refused, garbled, late or well.  The circuit is closed.    *)
IntroduceAck ==
    /\ stage = "ack"
    /\ introOpen' = introOpen \ {intro}
    /\ \/ NextIntro
       \/ stage' = "reply" /\ UNCHANGED <<intro, reason>>
    /\ UNCHANGED <<dirVars, waiter, reply, introduced, flight, hop, circuitGone>>

AllIntrosFailed ==
    /\ stage = "introduce" /\ intro > Len(Points)
    /\ Raise("intros-failed")
    /\ UNCHANGED <<dirVars, introVars, circuitGone>>

(* complete_rendezvous: the keys must be those of the introduction that is   *)
(* being waited for, made by the holder of the service's key.                *)
Completes(cell) == cell.to = intro /\ cell.genuine

TakeReply ==
    /\ stage = "reply" /\ reply # Silence
    /\ IF Completes(reply)
       THEN hop' = reply /\ stage' = "joined" /\ UNCHANGED <<intro, reason>>
       ELSE NextIntro /\ UNCHANGED hop
    /\ UNCHANGED <<dirVars, waiter, reply, introduced, flight, introOpen, circuitGone>>

(* The deadline passes, or the circuit is destroyed.                         *)
ReplyTimesOut ==
    /\ stage = "reply" /\ reply = Silence
    /\ NextIntro
    /\ UNCHANGED <<dirVars, waiter, reply, introduced, flight, introOpen, hop, circuitGone>>

(* stream.connect through the hop.                                           *)
OpenStream ==
    /\ stage = "joined"
    /\ \/ ~circuitGone /\ stage' = "connected" /\ UNCHANGED reason
       \/ Raise("stream")
    /\ UNCHANGED <<dirVars, introVars, circuitGone>>

-----------------------------------------------------------------------------
(* The network.                                                              *)

(* The service answers an introduction, or a relay makes an answer up.       *)
Answer(i, genuine) ==
    /\ stage \in {"introduce", "ack", "reply"} /\ i \in introduced
    /\ \A cell \in flight : cell.to # i
    /\ flight' = flight \cup {[to |-> i, genuine |-> genuine]}
    /\ introduced' = introduced \ {i}
    /\ UNCHANGED <<stage, dirVars, intro, waiter, reply, introOpen, hop, circuitGone, reason>>

(* _route_relay pops the waiter; without one the cell is dropped.            *)
Deliver(cell) ==
    /\ cell \in flight
    /\ flight' = flight \ {cell}
    /\ reply' = IF waiter = intro /\ ~circuitGone THEN cell ELSE reply
    /\ waiter' = IF circuitGone THEN waiter ELSE 0
    /\ UNCHANGED <<stage, dirVars, intro, introduced, introOpen, hop, circuitGone, reason>>

RendezvousDies ==
    /\ stage \in {"establish", "introduce", "ack", "reply", "joined"} /\ ~circuitGone
    /\ circuitGone' = TRUE
    /\ UNCHANGED <<stage, dirVars, introVars, reason>>

OnionStep ==
    \/ AskHsDir \/ EndOfList \/ BuildRendezvous \/ Establish \/ Introduce \/ IntroduceAck
    \/ AllIntrosFailed \/ TakeReply \/ ReplyTimesOut \/ OpenStream

OnionNext ==
    \/ OnionStep
    \/ \E i \in introduced, genuine \in BOOLEAN : Answer(i, genuine)
    \/ \E cell \in flight : Deliver(cell)
    \/ RendezvousDies

OnionSpec == OnionInit /\ [][OnionNext]_onionVars

-----------------------------------------------------------------------------
(* Properties.                                                               *)

(* The hop that carries the application's bytes is keyed with the service:   *)
(* its introduction points come from a document the service signed and that  *)
(* has not expired, the answer is the service's own and to the introduction  *)
(* whose keys are used, whatever came late or was made up, and no            *)
(* introduction circuit stays behind (descriptor.py:228-507,                 *)
(* rendezvous.py:98-162).                                                    *)
JoinedTheService ==
    stage \in {"joined", "connected"} =>
        /\ document.author = "service" /\ ~document.expired
        /\ hop.genuine /\ hop.to = intro
        /\ introOpen = {}

(* A service is given up for lost only when every HSDir of the current and   *)
(* the previous shared-random value was asked, and its introduction points   *)
(* only when each had its turn (torclient.py:315-344, rendezvous.py:143-164).*)
NothingLeftUntried ==
    /\ reason = "not-found" =>
         asked = UNION {{<<p, i>> : i \in DOMAIN Responsible[Srv(p)]} : p \in BOOLEAN}
    /\ reason = "intros-failed" => intro = Len(document.points) + 1 /\ introOpen = {}

===============================================================================
