------------------------------ MODULE PathChoice ------------------------------
(***************************************************************************)
(* Which relays a circuit goes through.  A LiveDirectory draws a path hop  *)
(* by hop from its consensus: the entry from the primary guards of a       *)
(* GuardManager, every other hop bandwidth-weighted, none in conflict with *)
(* a hop already drawn.  Families are only known from microdescriptors,    *)
(* which are fetched after the draw, so a draw is judged and repeated.     *)
(***************************************************************************)
EXTENDS Naturals, FiniteSets, Sequences

CONSTANTS
    Relays,
    NoRelay,
    Consensuses,    \* [flags, weights]: the flags of the relays it lists, and Wxy
    Facts,          \* of a relay: [subnet, bandwidth, family, hasIdentity, opensPort]
    Unanswered,     \* sets of relays whose microdescriptors a mirror leaves out
    SampleSize,     \* GuardManager's sample_size, 3
    FamilyAttempts  \* _FAMILY_SELECT_ATTEMPTS, 8

Roles == {"guard", "middle", "last"}
Purposes == {"exit", "to", "rendezvous", "ending", "dir"}

ASSUME PathAssumption ==
    /\ NoRelay \notin Relays
    /\ IsFiniteSet(Relays)
    /\ \A c \in Consensuses : DOMAIN c.flags \subseteq Relays
    /\ SampleSize \in Nat \ {0} /\ FamilyAttempts \in Nat \ {0}

VARIABLES
    consensus,    \* the view of the network
    entries,      \* GuardManager._entries: [relay, listed]
    held,         \* relays whose microdescriptor is in _microdescriptors
    purpose,      \* what the path is for
    target,       \* the relay path_to is called with
    step,         \* "idle", "exits", "draw", "judge", "resolve", "done", "failed"
    drawn,        \* the relay drawn for each role
    attempt,      \* draws so far
    seniority     \* history: every guard drawn, in order

pathVars == <<consensus, entries, held, purpose, target, step, drawn, attempt, seniority>>
requestVars == <<purpose, target, step, drawn, attempt>>

-----------------------------------------------------------------------------
(* Relays, flags and weights.                                                *)

GuardFlags  == {"Guard", "Stable", "Fast", "V2Dir", "Running", "Valid"}
MiddleFlags == {"Running", "Valid"}

Flags(c, r) == c.flags[r]
IsExit(c, r) == "Exit" \in Flags(c, r) /\ "BadExit" \notin Flags(c, r)

(* LiveDirectory._routers                                                    *)
Routers(c) == {r \in DOMAIN c.flags : "NoEdConsensus" \notin Flags(c, r)}

FlagClass(c, r) ==
    LET isGuard == "Guard" \in Flags(c, r)
    IN  CASE isGuard /\ IsExit(c, r) -> "dual"
          [] isGuard /\ ~IsExit(c, r) -> "guard"
          [] ~isGuard /\ IsExit(c, r) -> "exit"
          [] OTHER -> "middle"

PositionWeightKeys ==
    [guard  |-> [guard |-> "Wgg", middle |-> "Wgm", exit |-> "none", dual |-> "Wgd"],
     middle |-> [guard |-> "Wmg", middle |-> "Wmm", exit |-> "Wme", dual |-> "Wmd"],
     exit   |-> [guard |-> "Weg", middle |-> "Wem", exit |-> "Wee", dual |-> "Wed"]]

WeightKey(c, r, position) == PositionWeightKeys[position][FlagClass(c, r)]

Weight(c, r, position) ==
    IF DOMAIN c.weights = {} THEN Facts[r].bandwidth
    ELSE IF WeightKey(c, r, position) = "none" THEN 0
    ELSE Facts[r].bandwidth * c.weights[WeightKey(c, r, position)]

(* The relays a bandwidth-weighted choice may return; none when it raises    *)
(* ConsensusError, for want of a candidate or of a weight it needs.          *)
Choice(c, candidates, position) ==
    LET keys == {WeightKey(c, r, position) : r \in candidates} \ {"none"}
        heavy == {r \in candidates : Weight(c, r, position) > 0}
    IN  IF DOMAIN c.weights # {} /\ ~ keys \subseteq DOMAIN c.weights THEN {}
        ELSE IF heavy # {} THEN heavy ELSE candidates

FamilyConflict(a, b) == a \in Facts[b].family \/ b \in Facts[a].family

(* RouterStatus.microdescriptor is never filled in, so the selector itself   *)
(* sees no family.                                                           *)
Conflicts(a, b) == a = b \/ Facts[a].subnet = Facts[b].subnet

-----------------------------------------------------------------------------
(* Guards.                                                                   *)

Eligible(c) == {r \in Routers(c) : GuardFlags \subseteq Flags(c, r)}

(* A guard that leaves the consensus loses its place.                        *)
ForgetUnlisted(c, sample) == SelectSeq(sample, LAMBDA e : e.relay \in Eligible(c))

Relist(c, sample) ==
    [i \in DOMAIN sample |-> [sample[i] EXCEPT !.listed = sample[i].relay \in Eligible(c)]]

Sampled(sample) == {sample[i].relay : i \in DOMAIN sample}
Listed(sample) == {i \in DOMAIN sample : sample[i].listed}
AtMost(n, m) == IF n < m THEN n ELSE m

(* The guards update() may draw for a sample, one at a time, until enough    *)
(* are listed or none is left.                                               *)
Drawings(c, sample) ==
    LET remaining == Eligible(c) \ Sampled(sample)
        listed    == Cardinality(Listed(Relist(c, sample)))
        missing   == IF listed < SampleSize THEN SampleSize - listed ELSE 0
    IN  {picks \in [1..AtMost(missing, Cardinality(remaining)) -> remaining] :
           \A i \in DOMAIN picks :
             picks[i] \in Choice(c, remaining \ {picks[k] : k \in 1..(i-1)}, "guard")}

Updated(c, sample, picks) ==
    Relist(c, sample) \o [i \in DOMAIN picks |-> [relay |-> picks[i], listed |-> TRUE]]

(* The first SampleSize of some places of a sequence.                        *)
Primary(places) ==
    {i \in places : Cardinality({k \in places : k <= i}) <= SampleSize}

(* Their places in the sample.                                               *)
PrimaryGuards(c, sample) ==
    Primary({i \in Listed(sample) : sample[i].relay \in Routers(c)})

First(places) == CHOOSE i \in places : \A k \in places : i <= k

-----------------------------------------------------------------------------
NoDraw == [role \in Roles |-> NoRelay]

PathInit ==
    /\ consensus \in Consensuses
    /\ seniority \in Drawings(consensus, <<>>)
    /\ entries = Updated(consensus, <<>>, seniority)
    /\ held = {} /\ purpose = "exit" /\ target = NoRelay /\ step = "idle"
    /\ drawn = NoDraw /\ attempt = 0

NewConsensus(c) ==
    /\ step = "idle" /\ c # consensus
    /\ consensus' = c
    /\ \E picks \in Drawings(c, entries) :
         /\ entries' = Updated(c, entries, picks)
         /\ seniority' = seniority \o picks
    /\ UNCHANGED <<held, requestVars>>

Ask(kind, relay) ==
    /\ step = "idle"
    /\ purpose' = kind /\ target' = relay /\ drawn' = NoDraw /\ attempt' = 1
    /\ step' = IF kind = "exit" THEN "exits" ELSE "draw"
    /\ UNCHANGED <<consensus, entries, held, seniority>>

Fail ==
    /\ step' = "failed"
    /\ UNCHANGED <<consensus, entries, held, purpose, target, drawn, attempt, seniority>>

(* _fetch_microdescriptors: what is missing is asked for, and some of it may *)
(* not come; a mirror set that does not answer at all raises.                *)
Fetched(wanted) == {held \cup (wanted \ withheld) : withheld \in Unanswered}

FetchFails ==
    /\ step \in {"exits", "judge"}
    /\ LET wanted == IF step = "exits" THEN {r \in Routers(consensus) : IsExit(consensus, r)}
                     ELSE {drawn[role] : role \in Roles} \ {NoRelay}
       IN  ~ wanted \subseteq held
    /\ Fail

FetchExits ==
    /\ step = "exits"
    /\ held' \in Fetched({r \in Routers(consensus) : IsExit(consensus, r)})
    /\ step' = "draw"
    /\ UNCHANGED <<consensus, entries, purpose, target, drawn, attempt, seniority>>

(* The order in which select() draws the hops.                               *)
DrawOrder ==
    CASE purpose \in {"exit", "to", "dir"} -> <<"last", "guard", "middle">>
      [] purpose = "rendezvous" -> <<"guard", "middle", "last">>
      [] OTHER -> <<"guard", "middle">>

Excluded == {drawn[role] : role \in Roles} \ {NoRelay}

Pick(required, position) ==
    Choice(consensus,
           {r \in Routers(consensus) :
              required \subseteq Flags(consensus, r) /\ \A x \in Excluded : ~Conflicts(r, x)},
           position)

SelectGuard ==
    LET usable == {i \in PrimaryGuards(consensus, entries) :
                     /\ GuardFlags \subseteq Flags(consensus, entries[i].relay)
                     /\ \A x \in Excluded : ~Conflicts(entries[i].relay, x)}
    IN  IF usable # {} THEN {entries[First(usable)].relay} ELSE Pick(GuardFlags, "guard")

SelectLast ==
    CASE purpose = "exit" ->
           Choice(consensus, {r \in Routers(consensus) : /\ IsExit(consensus, r) /\ r \in held
                                                         /\ Facts[r].opensPort}, "exit")
      [] purpose = "dir" ->
           Choice(consensus, {r \in Routers(consensus) : "V2Dir" \in Flags(consensus, r)}, "middle")
      [] purpose = "to" -> {target}
      [] OTHER -> Pick(MiddleFlags, "middle")

Select(role) ==
    CASE role = "guard" -> SelectGuard
      [] role = "middle" -> Pick(MiddleFlags, "middle")
      [] role = "last" -> SelectLast

DrawHop ==
    /\ step = "draw"
    /\ LET role == DrawOrder[Cardinality(Excluded) + 1]
       IN  IF Select(role) = {} THEN Fail
           ELSE /\ \E r \in Select(role) : drawn' = [drawn EXCEPT ![role] = r]
                /\ step' = IF Cardinality(Excluded) + 1 = Len(DrawOrder) THEN "judge" ELSE "draw"
                /\ UNCHANGED <<consensus, entries, held, purpose, target, attempt, seniority>>

(* Families looked up before the microdescriptors are asked for.             *)
FamilyConflictBefore(have) ==
    \E a \in Excluded \cap held, b \in Excluded : a # b /\ b \in Facts[a].family

(* A family is empty as long as its microdescriptor is not held.             *)
HasFamilyConflict(have) ==
    \E a \in Excluded \cap have, b \in Excluded : a # b /\ b \in Facts[a].family

Judge ==
    /\ step = "judge"
    /\ held' \in Fetched(Excluded)
    /\ IF attempt < FamilyAttempts /\ HasFamilyConflict(held')
       THEN /\ drawn' = NoDraw /\ attempt' = attempt + 1
            /\ step' = IF purpose = "exit" THEN "exits" ELSE "draw"
       ELSE /\ step' = "resolve"
            /\ UNCHANGED <<drawn, attempt>>
    /\ UNCHANGED <<consensus, entries, purpose, target, seniority>>

(* _relay_info of every hop drawn.                                           *)
Resolve ==
    /\ step = "resolve"
    /\ step' = IF \A r \in Excluded : r \in held /\ Facts[r].hasIdentity THEN "done" ELSE "failed"
    /\ UNCHANGED <<consensus, entries, held, purpose, target, drawn, attempt, seniority>>

(* The caller has its answer; the next one may ask.                          *)
Return ==
    /\ step \in {"done", "failed"}
    /\ step' = "idle" /\ drawn' = NoDraw /\ attempt' = 0
    /\ purpose' = "exit" /\ target' = NoRelay
    /\ UNCHANGED <<consensus, entries, held, seniority>>

PathStep ==
    FetchFails \/ FetchExits \/ DrawHop \/ Judge \/ Resolve \/ Return

PathNext ==
    \/ \E c \in Consensuses : NewConsensus(c)
    \/ \E kind \in Purposes \ {"to"} : Ask(kind, NoRelay)
    \/ \E r \in Routers(consensus) : Ask("to", r)
    \/ PathStep

PathSpec == PathInit /\ [][PathNext]_pathVars

-----------------------------------------------------------------------------
(* Properties.                                                               *)

(* A finished path enters by a guard and keeps its relays apart, whatever    *)
(* order they were drawn in and however often: no relay twice, no /16 twice, *)
(* no two that either calls family unless the attempts ran out, an identity  *)
(* to pin for each, and an exit that takes the port                          *)
(* (bootstrap.py:324-434, pathselect.py:174-238).                            *)
HopsApart ==
    step = "done" =>
        /\ GuardFlags \subseteq Flags(consensus, drawn["guard"])
        /\ \A a, b \in Roles : a # b /\ NoRelay \notin {drawn[a], drawn[b]} =>
             /\ drawn[a] # drawn[b]
             /\ Facts[drawn[a]].subnet # Facts[drawn[b]].subnet
             /\ FamilyConflict(drawn[a], drawn[b]) => attempt = FamilyAttempts
        /\ \A r \in Excluded : Facts[r].hasIdentity /\ "NoEdConsensus" \notin Flags(consensus, r)
        /\ purpose = "exit" => Facts[drawn["last"]].opensPort /\ IsExit(consensus, drawn["last"])

(* The primary guards are the relays sampled first of those the consensus    *)
(* still offers, whatever relays came, went and came back; and a path enters *)
(* through the first of them that its last hop allows (guards.py:49-91,      *)
(* pathselect.py:218-234).                                                   *)
EntryStaysFirst ==
    LET offered == {i \in DOMAIN seniority : seniority[i] \in Eligible(consensus)}
        open    == {i \in Primary(offered) :
                      purpose \in {"exit", "to", "dir"} =>
                        ~Conflicts(seniority[i], drawn["last"])}
    IN  /\ {entries[i].relay : i \in PrimaryGuards(consensus, entries)}
             = {seniority[i] : i \in Primary(offered)}
        /\ step = "done" /\ open # {} => drawn["guard"] = seniority[First(open)]

===============================================================================
