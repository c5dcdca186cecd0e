-------------------------- MODULE OnionConnect_proofs --------------------------
(* Proofs about OnionConnect: whom the client is joined with, and what it    *)
(* has tried when it gives up, for any documents, HSDirs and answers.        *)
EXTENDS OnionConnect, SequenceTheorems, TLAPS

Adopted == {"rendezvous", "establish", "introduce", "ack", "reply", "joined", "connected"}

OnionTyped ==
    /\ stage \in Adopted \cup {"fetch", "raised"}
    /\ srvs \in [{"current", "previous"} -> Srvs]
    /\ previous \in BOOLEAN /\ turn \in Nat \ {0} /\ intro \in Nat \ {0}

(* The turns of a list, and what was asked on the way through the lists.     *)
Turns(p) == {<<p, i>> : i \in DOMAIN Responsible[Srv(p)]}
AskedSoFar ==
    (IF previous THEN Turns(FALSE) ELSE {}) \cup {<<previous, i>> : i \in 1..(turn - 1)}

FetchOnItsWay ==
    stage = "fetch" => turn <= Len(HsDirs) + 1 /\ asked = AskedSoFar /\ intro = 1

DocumentStands ==
    stage \in Adopted =>
      document \in Documents /\ ParseDescriptor(document, authKey) = "parsed"

(* A point's turn comes when those before had theirs; only the circuit to    *)
(* the point of the turn is open, and only until its answer.                 *)
IntrosInTurn ==
    /\ stage \in {"rendezvous", "establish"} => intro = 1
    /\ stage = "introduce" => intro <= Len(document.points) + 1
    /\ stage \in {"ack", "reply"} => intro <= Len(document.points)
    /\ introOpen \subseteq (IF stage = "ack" THEN {intro} ELSE {})

HopIsTheServices == stage \in {"joined", "connected"} => hop.genuine /\ hop.to = intro

(* What a call that raised left behind.                                      *)
RaisedRightly ==
    /\ stage # "raised" => reason = "none"
    /\ reason = "not-found" => asked = Turns(FALSE) \cup Turns(TRUE)
    /\ reason = "intros-failed" => intro = Len(document.points) + 1

OnionInv ==
    /\ OnionTyped /\ FetchOnItsWay /\ DocumentStands /\ IntrosInTurn
    /\ HopIsTheServices /\ RaisedRightly

-------------------------------------------------------------------------------
(* Operators                                                                 *)

(* Every shared-random value, and the one for its absence, has its list.     *)
LEMMA ListsAreSequences ==
    ASSUME OnionTyped, NEW p \in BOOLEAN
    PROVE  /\ Len(Responsible[Srv(p)]) \in Nat
           /\ DOMAIN Responsible[Srv(p)] = 1..Len(Responsible[Srv(p)])
<1>1. Srv(p) \in Srvs \ {NoSrv}
  BY OnionAssumption DEF Srv, OnionTyped
<1>2. Responsible[Srv(p)] \in Seq({Responsible[Srv(p)][i] : i \in DOMAIN Responsible[Srv(p)]})
  BY <1>1, OnionAssumption
<1>. QED BY <1>2, LenProperties

LEMMA PointsAreASequence ==
    ASSUME NEW d \in Documents
    PROVE  Len(d.points) \in Nat /\ DOMAIN d.points = 1..Len(d.points)
<1>1. d.points \in Seq(PointType)
  BY DescriptorAssumption
<1>. QED BY <1>1, LenProperties

(* A document that is parsed is the service's and has not expired: the       *)
(* checks of the outer wrapper leave no way round a signature.               *)
LEMMA ParsedIsTheServices ==
    ASSUME NEW d \in Documents, NEW key, ParseDescriptor(d, key) = "parsed"
    PROVE  d.author = "service" /\ ~d.expired
<1>1. OuterVerifies(d)
  BY DEF ParseDescriptor
<1>. QED BY <1>1, DescriptorAssumption DEF OuterVerifies

-------------------------------------------------------------------------------
(* The steps                                                                 *)

LEMMA AskHsDirKeeps == OnionInv /\ AskHsDir => OnionInv'
<1>. SUFFICES ASSUME OnionInv, AskHsDir PROVE OnionInv'
  OBVIOUS
<1>. USE DEF OnionInv, OnionTyped, Adopted, introVars
<1>1. /\ stage = "fetch" /\ turn <= Len(HsDirs) /\ reason = "none" /\ intro = 1
      /\ asked = AskedSoFar /\ introOpen = {}
      /\ UNCHANGED <<srvs, authKey, intro, introOpen, hop>>
  BY DEF AskHsDir, FetchOnItsWay, RaisedRightly, IntrosInTurn
<1>2. Len(HsDirs) \in Nat
  BY ListsAreSequences DEF HsDirs
<1>3. CASE NextHsDir
  <2>1. /\ turn' = turn + 1 /\ asked' = asked \cup {<<previous, turn>>}
        /\ UNCHANGED <<stage, document, previous, reason>>
    BY <1>3, Zenon DEF NextHsDir
  <2>2. HsDirs' = HsDirs /\ Turns(FALSE)' = Turns(FALSE)
    BY <1>1, <2>1 DEF HsDirs, Turns, Srv
  <2>3. asked' = AskedSoFar'
    <3>1. 1..(turn' - 1) = 1..(turn - 1) \cup {turn}
      BY <2>1
    <3>2. {<<previous, i>> : i \in 1..(turn' - 1)}
            = {<<previous, i>> : i \in 1..(turn - 1)} \cup {<<previous, turn>>}
      BY <3>1
    <3>. DEFINE first == IF previous THEN Turns(FALSE) ELSE {}
                before == {<<previous, i>> : i \in 1..(turn - 1)}
                after == {<<previous, i>> : i \in 1..(turn' - 1)}
    <3>3. AskedSoFar' = first \cup after
      BY <2>1, <2>2, Zenon DEF AskedSoFar
    <3>4. AskedSoFar = first \cup before
      BY Zenon DEF AskedSoFar
    <3>. HIDE DEF first, before, after
    <3>5. after = before \cup {<<previous, turn>>}
      BY <3>2, Zenon DEF before, after
    <3>. QED BY <1>1, <2>1, <3>3, <3>4, <3>5, Zenon
  <2>4. FetchOnItsWay'
    BY <1>1, <1>2, <2>1, <2>2, <2>3 DEF FetchOnItsWay
  <2>. QED
    BY <1>1, <2>1, <2>4 DEF DocumentStands, IntrosInTurn, HopIsTheServices, RaisedRightly
<1>4. ASSUME NEW why \in {"silent", "no-path", "auth-required"}, Raise(why),
             UNCHANGED <<turn, asked, document, previous>>
      PROVE  OnionInv'
  BY <1>1, <1>4 DEF Raise, FetchOnItsWay, DocumentStands, IntrosInTurn, HopIsTheServices,
     RaisedRightly
<1>5. ASSUME NEW d \in Documents, ParseDescriptor(d, authKey) = "parsed",
             document' = d, stage' = "rendezvous", UNCHANGED <<turn, asked, previous, reason>>
      PROVE  OnionInv'
  <2>1. ParseDescriptor(document', authKey') = "parsed" /\ document' \in Documents
    BY <1>1, <1>5, Zenon
  <2>2. DocumentStands'
    BY <2>1, Zenon DEF DocumentStands
  <2>. QED
    BY <1>1, <1>5, <2>2 DEF FetchOnItsWay, IntrosInTurn, HopIsTheServices, RaisedRightly
<1>. QED BY <1>3, <1>4, <1>5 DEF AskHsDir

LEMMA EndOfListKeeps == OnionInv /\ EndOfList => OnionInv'
<1>. SUFFICES ASSUME OnionInv, EndOfList PROVE OnionInv'
  OBVIOUS
<1>. USE DEF OnionInv, OnionTyped, Adopted, introVars
<1>1. /\ stage = "fetch" /\ turn > Len(HsDirs) /\ reason = "none" /\ intro = 1
      /\ asked = AskedSoFar /\ introOpen = {} /\ turn <= Len(HsDirs) + 1
      /\ UNCHANGED <<srvs, authKey, asked, document, intro, introOpen, hop>>
  BY DEF EndOfList, FetchOnItsWay, RaisedRightly, IntrosInTurn
<1>2. Len(HsDirs) \in Nat /\ DOMAIN HsDirs = 1..Len(HsDirs)
  BY ListsAreSequences DEF HsDirs
<1>3. {<<previous, i>> : i \in 1..(turn - 1)} = Turns(previous)
  <2>1. 1..(turn - 1) = DOMAIN HsDirs
    BY <1>1, <1>2
  <2>. QED BY <2>1 DEF Turns, HsDirs
<1>4. Turns(FALSE)' = Turns(FALSE) /\ Turns(TRUE)' = Turns(TRUE)
  BY <1>1 DEF Turns, Srv
<1>5. CASE ~previous
  <2>1. previous' = TRUE /\ turn' = 1 /\ UNCHANGED <<stage, reason>>
    BY <1>5 DEF EndOfList
  <2>2. asked = Turns(FALSE)
    BY <1>1, <1>3, <1>5 DEF AskedSoFar
  <2>3. asked' = AskedSoFar'
    <3>. DEFINE after == {<<previous', i>> : i \in 1..(turn' - 1)}
    <3>1. AskedSoFar' = Turns(FALSE) \cup after
      BY <1>4, <2>1, Zenon DEF AskedSoFar
    <3>2. 1..(turn' - 1) = {}
      BY <2>1
    <3>. HIDE <2>1
    <3>3. after = {}
      BY <3>2, Zenon
    <3>. HIDE DEF after
    <3>. QED BY <1>1, <2>2, <3>1, <3>3
  <2>4. HsDirs' = Responsible[Srv(TRUE)]
    BY <1>1, <2>1 DEF HsDirs, Srv
  <2>5. FetchOnItsWay'
    <3>1. Len(Responsible[Srv(TRUE)]) \in Nat
      BY ListsAreSequences
    <3>2. turn' = 1 /\ intro' = 1 /\ Len(HsDirs') \in Nat
      BY <1>1, <2>1, <2>4, <3>1, Zenon
    <3>3. turn' <= Len(HsDirs') + 1
      BY <3>2
    <3>. QED BY <2>3, <3>2, <3>3, Zenon DEF FetchOnItsWay
  <2>. QED
    BY <1>1, <2>1, <2>5 DEF DocumentStands, IntrosInTurn, HopIsTheServices, RaisedRightly
<1>6. CASE previous
  <2>1. Raise("not-found") /\ UNCHANGED <<previous, turn>>
    BY <1>6 DEF EndOfList
  <2>2. asked' = Turns(FALSE)' \cup Turns(TRUE)'
    BY <1>1, <1>3, <1>4, <1>6 DEF AskedSoFar
  <2>. QED
    BY <1>1, <2>1, <2>2 DEF Raise, FetchOnItsWay, DocumentStands, IntrosInTurn,
       HopIsTheServices, RaisedRightly
<1>. QED BY <1>5, <1>6

(* Once the document is adopted nothing touches the lists any more.          *)
Later ==
    /\ stage \in Adopted /\ stage' \in Adopted \cup {"raised"}
    /\ UNCHANGED dirVars
    /\ stage' # "raised" => reason' = reason
    /\ stage' = "raised" => reason' \notin {"not-found"}

LEMMA LaterKeeps ==
    ASSUME OnionInv, Later, intro' \in Nat \ {0}
    PROVE  /\ OnionTyped' /\ FetchOnItsWay' /\ DocumentStands'
           /\ document \in Documents /\ Points = document.points /\ Len(document.points) \in Nat
           /\ reason = "none" /\ document' = document
<1>. USE DEF OnionInv, Later, OnionTyped, Adopted, dirVars
<1>1. OnionTyped' /\ FetchOnItsWay'
  BY DEF FetchOnItsWay
<1>2. document \in Documents /\ reason = "none"
  BY DEF DocumentStands, RaisedRightly
<1>3. Points = document.points /\ Len(document.points) \in Nat
  BY <1>2, OnionAssumption, PointsAreASequence DEF Points
<1>4. DocumentStands'
  BY Zenon DEF DocumentStands
<1>. QED BY <1>1, <1>2, <1>3, <1>4

LEMMA RendezvousKeeps ==
    ASSUME OnionInv, BuildRendezvous \/ Establish \/ OpenStream
    PROVE  OnionInv'
<1>. USE DEF BuildRendezvous, Establish, OpenStream, Raise, introVars
<1>1. Later /\ intro' = intro /\ intro' \in Nat \ {0}
  BY DEF Later, OnionInv, OnionTyped, Adopted
<1>2. /\ OnionTyped' /\ FetchOnItsWay' /\ DocumentStands' /\ document' = document
      /\ Len(document.points) \in Nat /\ reason = "none"
  BY <1>1, LaterKeeps
<1>3. IntrosInTurn'
  <2>1. introOpen' = {} /\ stage \in {"rendezvous", "establish", "joined"}
    BY DEF OnionInv, IntrosInTurn
  <2>2. stage' \in {"establish", "introduce"} => intro = 1
    BY DEF OnionInv, IntrosInTurn
  <2>3. stage' \in {"establish", "introduce", "connected", "raised"}
    BY <2>1
  <2>. HIDE DEF BuildRendezvous, Establish, OpenStream
  <2>. QED BY <1>1, <1>2, <2>1, <2>2, <2>3 DEF IntrosInTurn
<1>4. HopIsTheServices'
  BY <1>1 DEF OnionInv, HopIsTheServices
<1>5. RaisedRightly'
  BY <1>1, <1>2 DEF RaisedRightly
<1>. QED BY <1>2, <1>3, <1>4, <1>5 DEF OnionInv

LEMMA IntroduceKeeps == ASSUME OnionInv, Introduce PROVE OnionInv'
<1>1. /\ stage = "introduce" /\ intro <= Len(Points) /\ hop' = hop
      /\ UNCHANGED dirVars /\ introOpen = {} /\ intro \in Nat \ {0}
  BY DEF Introduce, OnionInv, OnionTyped, IntrosInTurn
<1>2. \/ /\ stage' = "raised" /\ reason' \in {"ValueError", "no-path"}
         /\ intro' = intro /\ introOpen' = introOpen
      \/ stage' = "introduce" /\ reason' = reason /\ intro' = intro + 1 /\ introOpen' = introOpen
      \/ stage' = "ack" /\ reason' = reason /\ intro' = intro /\ introOpen' = {intro}
  BY <1>1 DEF Introduce, Raise, NextIntro
<1>3. Later /\ intro' \in Nat \ {0}
  BY <1>1, <1>2 DEF Later, Adopted
<1>4. /\ OnionTyped' /\ FetchOnItsWay' /\ DocumentStands' /\ document' = document
      /\ Len(document.points) \in Nat /\ reason = "none" /\ intro <= Len(document.points)
  BY <1>1, <1>3, LaterKeeps
<1>5. IntrosInTurn'
  BY <1>1, <1>2, <1>4 DEF IntrosInTurn
<1>6. HopIsTheServices'
  BY <1>2 DEF HopIsTheServices
<1>7. RaisedRightly'
  BY <1>2, <1>4 DEF RaisedRightly
<1>. QED BY <1>4, <1>5, <1>6, <1>7 DEF OnionInv

LEMMA AnswersKeep ==
    ASSUME OnionInv, IntroduceAck \/ TakeReply \/ ReplyTimesOut \/ AllIntrosFailed
    PROVE  OnionInv'
<1>. USE DEF IntroduceAck, TakeReply, ReplyTimesOut, AllIntrosFailed
<1>1. /\ stage \in {"introduce", "ack", "reply"} /\ UNCHANGED dirVars /\ intro \in Nat \ {0}
      /\ stage = "introduce" => intro > Len(Points)
      /\ introOpen' = {}
  BY DEF OnionInv, OnionTyped, IntrosInTurn, introVars
<1>2. \/ stage # "introduce" /\ NextIntro
      \/ stage' = "reply" /\ UNCHANGED <<intro, reason>> /\ stage = "ack"
      \/ stage' = "joined" /\ UNCHANGED <<intro, reason>> /\ hop' = reply /\ Completes(reply)
      \/ Raise("intros-failed") /\ intro' = intro /\ stage = "introduce"
  BY DEF introVars
<1>3. Later /\ intro' \in Nat \ {0}
  BY <1>1, <1>2 DEF Later, Adopted, NextIntro, Raise
<1>4. /\ OnionTyped' /\ FetchOnItsWay' /\ DocumentStands' /\ document' = document
      /\ Len(document.points) \in Nat /\ reason = "none" /\ Points = document.points
  BY <1>3, LaterKeeps
<1>5. /\ stage \in {"ack", "reply"} => intro <= Len(document.points)
      /\ stage = "introduce" => intro = Len(document.points) + 1
  BY <1>1, <1>4 DEF OnionInv, IntrosInTurn
<1>. HIDE DEF IntroduceAck, TakeReply, ReplyTimesOut, AllIntrosFailed
<1>6. IntrosInTurn'
  BY <1>1, <1>2, <1>4, <1>5 DEF IntrosInTurn, NextIntro, Raise
<1>7. HopIsTheServices'
  BY <1>2 DEF HopIsTheServices, NextIntro, Raise, Completes
<1>8. RaisedRightly'
  BY <1>2, <1>4, <1>5 DEF RaisedRightly, NextIntro, Raise
<1>. QED BY <1>4, <1>6, <1>7, <1>8 DEF OnionInv

(* The network's steps change nothing that was checked.                      *)
LEMMA NetworkKeeps ==
    ASSUME OnionInv, UNCHANGED <<stage, dirVars, intro, introOpen, hop, reason>>
    PROVE  OnionInv'
<1>. USE DEF OnionInv, dirVars
<1>1. OnionTyped' /\ IntrosInTurn' /\ HopIsTheServices'
  BY DEF OnionTyped, IntrosInTurn, HopIsTheServices
<1>2. FetchOnItsWay' /\ RaisedRightly'
  BY DEF FetchOnItsWay, RaisedRightly, AskedSoFar, Turns, HsDirs, Srv
<1>3. DocumentStands'
  BY Zenon DEF DocumentStands
<1>. QED BY <1>1, <1>2, <1>3

LEMMA OnionInvStep == OnionInv /\ [OnionNext]_onionVars => OnionInv'
<1>. SUFFICES ASSUME OnionInv, [OnionNext]_onionVars PROVE OnionInv'
  OBVIOUS
<1>1. ASSUME OnionStep PROVE OnionInv'
  BY <1>1, AskHsDirKeeps, EndOfListKeeps, RendezvousKeeps, IntroduceKeeps, AnswersKeep, Zenon
     DEF OnionStep
<1>2. ASSUME NEW i \in introduced, NEW genuine \in BOOLEAN, Answer(i, genuine) PROVE OnionInv'
  BY <1>2, NetworkKeeps DEF Answer
<1>3. ASSUME NEW cell \in flight, Deliver(cell) PROVE OnionInv'
  BY <1>3, NetworkKeeps DEF Deliver
<1>4. CASE RendezvousDies
  BY <1>4, NetworkKeeps DEF RendezvousDies, introVars
<1>5. CASE UNCHANGED onionVars
  BY <1>5, NetworkKeeps DEF onionVars, dirVars
<1>. QED BY <1>1, <1>2, <1>3, <1>4, <1>5 DEF OnionNext

LEMMA OnionInvInit == OnionInit => OnionInv
<1>. SUFFICES ASSUME OnionInit PROVE OnionInv
  OBVIOUS
<1>. USE DEF OnionInit
<1>0. /\ stage = "fetch" /\ srvs \in [{"current", "previous"} -> Srvs] /\ introOpen = {}
      /\ previous = FALSE /\ turn = 1 /\ intro = 1
  OBVIOUS
<1>1. OnionTyped /\ DocumentStands /\ IntrosInTurn
  <2>. HIDE DEF OnionInit
  <2>1. OnionTyped
    <3>1. previous \in BOOLEAN
      BY <1>0, Zenon
    <3>2. turn \in Nat \ {0} /\ intro \in Nat \ {0}
      BY <1>0
    <3>. QED BY <1>0, <3>1, <3>2, Zenon DEF OnionTyped
  <2>2. DocumentStands /\ IntrosInTurn
    BY <1>0 DEF DocumentStands, IntrosInTurn, Adopted
  <2>. QED BY <2>1, <2>2
<1>4. HopIsTheServices /\ RaisedRightly
  BY DEF HopIsTheServices, RaisedRightly
<1>2. Len(HsDirs) \in Nat
  BY <1>1, ListsAreSequences DEF HsDirs
<1>3. FetchOnItsWay
  BY <1>2 DEF FetchOnItsWay, AskedSoFar
<1>. QED BY <1>1, <1>3, <1>4 DEF OnionInv

-------------------------------------------------------------------------------
(* Theorems                                                                  *)

(* Whatever documents the HSDirs serve and whatever answers come late or are *)
(* made up, a client that is joined is joined with the service, by a         *)
(* document of its own and an answer to the introduction it waits for:       *)
(* descriptor.py:228-507, rendezvous.py:98-162.                              *)
THEOREM JoinedIsTheService == OnionSpec => []JoinedTheService
<1>1. OnionInv => JoinedTheService
  BY ParsedIsTheServices
     DEF OnionInv, Adopted, DocumentStands, IntrosInTurn, HopIsTheServices, JoinedTheService
<1>. QED BY OnionInvInit, OnionInvStep, <1>1, PTL DEF OnionSpec

(* A service is given up for lost after every HSDir of both lists, and its   *)
(* introductions after the last, for lists of any length:                    *)
(* torclient.py:315-344, rendezvous.py:143-164.                              *)
THEOREM EverythingWasTried == OnionSpec => []NothingLeftUntried
<1>1. ASSUME OnionInv PROVE NothingLeftUntried
  <2>1. UNION {Turns(p) : p \in BOOLEAN} = Turns(FALSE) \cup Turns(TRUE)
    OBVIOUS
  <2>2. reason = "not-found" => asked = UNION {Turns(p) : p \in BOOLEAN}
    BY <1>1, <2>1 DEF OnionInv, RaisedRightly
  <2>3. reason = "intros-failed" => intro = Len(document.points) + 1 /\ introOpen = {}
    BY <1>1 DEF OnionInv, RaisedRightly, IntrosInTurn
  <2>. QED BY <2>2, <2>3, Zenon DEF NothingLeftUntried, Turns
<1>. QED BY OnionInvInit, OnionInvStep, <1>1, PTL DEF OnionSpec

===============================================================================
