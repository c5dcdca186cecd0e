-------------------------- MODULE DirBootstrap_proofs --------------------------
(* Proofs about DirBootstrap: what a caller is handed and what stands in the *)
(* cache was verified, for any callers, processes, authorities and texts.    *)
EXTENDS DirBootstrap, FiniteSetTheorems, TLAPS

(* A document worth having.                                                  *)
Verified(text) == text \in Texts /\ text.wellFormed /\ Endorsed(text)

Judging == {"load", "fetch", "save", "write", "replace", "finish"}
Holding == {"save", "write", "replace", "finish"}

BootTyped ==
    /\ clock \in Nat
    /\ bootStage \in [Callers -> Stages]
    /\ began \in [Callers -> Nat] /\ now \in [Callers -> Nat]
    /\ keyed \in [Callers -> SUBSET Authorities]
    /\ got \in [Callers -> Texts \cup {NoText}]
    /\ temp \in [Callers -> Texts \cup {NoText, Partial}]
    /\ directory \in [Processes -> Texts \cup {NoText}]
    /\ home \in [Callers -> Processes]

DirectoriesVerified == \A p \in Processes : directory[p] # NoText => Verified(directory[p])

(* What holds of a caller, wherever it is in its call: it judges by an       *)
(* instant of the call, and what it holds passed by that instant.            *)
CallerSound(t) ==
    /\ began[t] <= clock /\ now[t] <= clock
    /\ bootStage[t] \in Judging => began[t] <= now[t]
    /\ bootStage[t] \in Holding => Verified(got[t]) /\ IsLive(got[t], now[t])
    /\ bootStage[t] = "returned" =>
         Verified(got[t]) /\ \E time \in began[t]..clock : IsLive(got[t], time)
    /\ temp[t] # NoText => bootStage[t] \in Saving
    /\ bootStage[t] = "replace" => temp[t] = got[t]

BootInv == BootTyped /\ DirectoriesVerified /\ \A t \in Callers : CallerSound(t)

-------------------------------------------------------------------------------
(* Operators                                                                 *)

(* Fewer keys verify no more signatures: a majority of ALL authorities that  *)
(* was reached with some keys is reached with every key.                     *)
LEMMA MoreKeysVerifyMore ==
    ASSUME NEW text, NEW keys \in SUBSET Authorities, MoreThanHalf(VerifiedBy(text, keys))
    PROVE  Endorsed(text)
<1>. DEFINE some == VerifiedBy(text, keys)
            all == VerifiedBy(text, Authorities)
<1>1. some \subseteq all /\ all \subseteq Authorities
  BY DEF VerifiedBy
<1>2. IsFiniteSet(all) /\ IsFiniteSet(Authorities)
  BY <1>1, FS_Subset, BootstrapAssumption
<1>3. /\ Cardinality(some) <= Cardinality(all)
      /\ Cardinality(some) \in Nat /\ Cardinality(all) \in Nat /\ Cardinality(Authorities) \in Nat
  BY <1>1, <1>2, FS_Subset, FS_CardinalityType
<1>4. 2 * Cardinality(some) > Cardinality(Authorities)
  BY DEF MoreThanHalf
<1>. HIDE DEF some, all
<1>5. 2 * Cardinality(all) > Cardinality(Authorities)
  BY <1>3, <1>4
<1>. QED BY <1>5 DEF Endorsed, MoreThanHalf, all

LEMMA VerifyIsEnough ==
    ASSUME NEW text \in Texts, NEW keys \in SUBSET Authorities, NEW time,
           VerifyConsensus(text, keys, time)
    PROVE  Verified(text) /\ IsLive(text, time)
BY MoreKeysVerifyMore DEF VerifyConsensus, Verified

(* What load gives is nothing or has passed.                                 *)
LEMMA LoadVerifies ==
    ASSUME NEW file, NEW keys \in SUBSET Authorities, NEW time, Load(file, keys, time) # NoText
    PROVE  LET text == Load(file, keys, time) IN Verified(text) /\ IsLive(text, time)
BY VerifyIsEnough DEF Load

-------------------------------------------------------------------------------
(* The steps                                                                 *)

(* A caller whose own state is as before is as sound as before, later.       *)
LEMMA SoundBystander ==
    ASSUME BootTyped, NEW t \in Callers, CallerSound(t), clock' \in Nat, clock' >= clock,
           bootStage'[t] = bootStage[t], began'[t] = began[t], now'[t] = now[t],
           got'[t] = got[t], temp'[t] = temp[t]
    PROVE  CallerSound(t)'
<1>. USE DEF CallerSound
<1>1. /\ began[t] \in Nat /\ now[t] \in Nat /\ clock \in Nat
  BY DEF BootTyped
<1>2. (began[t] <= clock /\ now[t] <= clock)'
  BY <1>1
<1>3. began[t]..clock \subseteq began'[t]..clock'
  BY <1>1
<1>4. (bootStage[t] = "returned" =>
         Verified(got[t]) /\ \E time \in began[t]..clock : IsLive(got[t], time))'
  BY <1>3 DEF Verified, Endorsed, IsLive
<1>5. (bootStage[t] \in Holding => Verified(got[t]) /\ IsLive(got[t], now[t]))'
  BY DEF Verified, Endorsed, IsLive
<1>. QED BY <1>2, <1>4, <1>5

(* What a step of t leaves alone in the others.                              *)
OthersStand(t) ==
    /\ clock' = clock /\ home' = home
    /\ \A u \in Callers \ {t} :
         /\ bootStage'[u] = bootStage[u] /\ began'[u] = began[u] /\ now'[u] = now[u]
         /\ got'[u] = got[u] /\ temp'[u] = temp[u]

LEMMA StepOfOne ==
    ASSUME BootInv, NEW t \in Callers, OthersStand(t),
           BootTyped', DirectoriesVerified', CallerSound(t)'
    PROVE  BootInv'
<1>1. \A u \in Callers \ {t} : CallerSound(u)'
  <2>. TAKE u \in Callers \ {t}
  <2>1. /\ CallerSound(u) /\ BootTyped /\ u \in Callers
        /\ clock' \in Nat /\ clock' >= clock
    BY DEF BootInv, BootTyped, OthersStand
  <2>2. /\ bootStage'[u] = bootStage[u] /\ began'[u] = began[u] /\ now'[u] = now[u]
        /\ got'[u] = got[u] /\ temp'[u] = temp[u]
    BY Zenon DEF OthersStand
  <2>. QED BY <2>1, <2>2, SoundBystander
<1>. QED BY <1>1 DEF BootInv

LEMMA SameDirectories ==
    ASSUME BootInv, directory' = directory
    PROVE  DirectoriesVerified'
BY DEF BootInv, DirectoriesVerified, Verified, Endorsed

(* Steps that only move the caller on.                                       *)
LEMMA CallKeeps == ASSUME BootInv, NEW t \in Callers, Call(t) PROVE BootInv'
<1>. USE DEF Call, Goto
<1>1. OthersStand(t)
  BY DEF OthersStand, BootInv, BootTyped
<1>2. BootTyped'
  BY DEF BootInv, BootTyped, Stages
<1>3. DirectoriesVerified'
  BY SameDirectories
<1>4. CallerSound(t)'
  BY DEF BootInv, BootTyped, CallerSound, Judging, Holding, Saving
<1>. QED BY <1>1, <1>2, <1>3, <1>4, StepOfOne

LEMMA GiveUpKeeps ==
    ASSUME BootInv, NEW t \in Callers, bootStage[t] \notin Saving, GiveUp(t) PROVE BootInv'
<1>. USE DEF GiveUp, Release, Goto
<1>1. OthersStand(t)
  BY DEF OthersStand, BootInv, BootTyped
<1>2. BootTyped'
  BY DEF BootInv, BootTyped, Stages
<1>3. DirectoriesVerified'
  BY SameDirectories
<1>4. CallerSound(t)'
  BY DEF BootInv, BootTyped, CallerSound, Judging, Holding, Saving
<1>. QED BY <1>1, <1>2, <1>3, <1>4, StepOfOne

LEMMA EnterKeeps == ASSUME BootInv, NEW t \in Callers, Enter(t) PROVE BootInv'
<1>. DEFINE cached == directory[home[t]]
<1>1. PICK refresh \in BOOLEAN :
        IF Usable(t, refresh)
        THEN /\ got' = [got EXCEPT ![t] = cached]
             /\ Goto(t, "returned")
             /\ UNCHANGED lockHolder
        ELSE /\ lockHolder' = [lockHolder EXCEPT ![home[t]] = t]
             /\ Goto(t, "keys")
             /\ UNCHANGED got
  BY Zenon DEF Enter
<1>2. /\ bootStage[t] = "called"
      /\ UNCHANGED <<clock, cacheFile, began, keyed, now, temp, directory, home>>
  BY Zenon DEF Enter
<1>3. DirectoriesVerified'
  BY <1>2, SameDirectories
<1>4. CASE Usable(t, refresh)
  <2>1. got' = [got EXCEPT ![t] = cached] /\ Goto(t, "returned")
    BY <1>1, <1>4, Zenon
  <2>2. Verified(cached) /\ IsLive(cached, clock)
    BY <1>4 DEF Usable, BootInv, BootTyped, DirectoriesVerified
  <2>3. OthersStand(t)
    BY <1>2, <2>1 DEF OthersStand, BootInv, BootTyped, Goto
  <2>4. BootTyped'
    BY <1>2, <2>1 DEF BootInv, BootTyped, Stages, Goto
  <2>5. CallerSound(t)'
    <3>1. /\ began'[t] = began[t] /\ now'[t] = now[t] /\ clock' = clock
          /\ temp'[t] = temp[t] /\ got'[t] = cached /\ bootStage'[t] = "returned"
      BY <1>2, <2>1 DEF BootInv, BootTyped, Goto
    <3>2. clock \in began[t]..clock /\ CallerSound(t)
      BY DEF BootInv, BootTyped, CallerSound
    <3>3. temp[t] = NoText
      BY <1>2, <3>2 DEF CallerSound, Saving
    <3>4. \E time \in began[t]..clock : IsLive(cached, time)
      BY <2>2, <3>2
    <3>. QED
      BY <2>2, <3>1, <3>2, <3>3, <3>4 DEF CallerSound, Verified, Endorsed, IsLive, Judging, Holding
  <2>. QED BY <1>3, <2>3, <2>4, <2>5, StepOfOne
<1>5. CASE ~Usable(t, refresh)
  <2>1. UNCHANGED got /\ Goto(t, "keys")
    BY <1>1, <1>5, Zenon
  <2>2. OthersStand(t)
    BY <1>2, <2>1 DEF OthersStand, BootInv, BootTyped, Goto
  <2>3. BootTyped'
    BY <1>2, <2>1 DEF BootInv, BootTyped, Stages, Goto
  <2>4. CallerSound(t)'
    BY <1>2, <2>1 DEF BootInv, BootTyped, CallerSound, Goto, Judging, Holding, Saving
  <2>. QED BY <1>3, <2>2, <2>3, <2>4, StepOfOne
<1>. QED BY <1>4, <1>5

LEMMA FetchKeysKeeps == ASSUME BootInv, NEW t \in Callers, FetchKeys(t) PROVE BootInv'
<1>1. PICK certified \in SUBSET Authorities :
        IF MoreThanHalf(certified)
        THEN /\ keyed' = [keyed EXCEPT ![t] = certified]
             /\ now' = [now EXCEPT ![t] = clock]
             /\ Goto(t, "load")
             /\ UNCHANGED <<clock, cacheFile, began, got, temp, directory, home, lockHolder, crashes>>
        ELSE GiveUp(t)
  BY Zenon DEF FetchKeys
<1>2. bootStage[t] = "keys"
  BY DEF FetchKeys
<1>3. CASE GiveUp(t)
  BY <1>2, <1>3, GiveUpKeeps DEF Saving
<1>4. CASE /\ keyed' = [keyed EXCEPT ![t] = certified] /\ now' = [now EXCEPT ![t] = clock]
           /\ Goto(t, "load")
           /\ UNCHANGED <<clock, cacheFile, began, got, temp, directory, home>>
  <2>1. OthersStand(t)
    BY <1>4 DEF OthersStand, BootInv, BootTyped, Goto
  <2>2. BootTyped'
    BY <1>4 DEF BootInv, BootTyped, Stages, Goto
  <2>3. DirectoriesVerified'
    BY <1>4, SameDirectories
  <2>4. CallerSound(t)'
    BY <1>2, <1>4 DEF BootInv, BootTyped, CallerSound, Goto, Judging, Holding, Saving
  <2>. QED BY <2>1, <2>2, <2>3, <2>4, StepOfOne
<1>. QED BY <1>1, <1>3, <1>4, Zenon

(* What the caller holds after a load or a fetch has passed at its instant.  *)
LEMMA LoadCacheKeeps == ASSUME BootInv, NEW t \in Callers, LoadCache(t) PROVE BootInv'
<1>. DEFINE cached == Load(cacheFile, keyed[t], now[t])
<1>1. /\ bootStage[t] = "load" /\ got' = [got EXCEPT ![t] = cached]
      /\ Goto(t, IF cached = NoText THEN "fetch" ELSE "finish")
      /\ UNCHANGED <<clock, cacheFile, began, keyed, now, temp, directory, home>>
  BY Zenon DEF LoadCache
<1>2. keyed[t] \in SUBSET Authorities
  BY DEF BootInv, BootTyped
<1>3. cached # NoText => Verified(cached) /\ IsLive(cached, now[t])
  BY <1>2, LoadVerifies
<1>. HIDE DEF cached
<1>4. cached \in Texts \cup {NoText}
  BY <1>3 DEF Verified
<1>5. OthersStand(t)
  BY <1>1 DEF OthersStand, BootInv, BootTyped, Goto
<1>6. BootTyped'
  BY <1>1, <1>4 DEF BootInv, BootTyped, Stages, Goto
<1>7. DirectoriesVerified'
  BY <1>1, SameDirectories
<1>8. CallerSound(t)'
  <2>1. /\ began'[t] = began[t] /\ now'[t] = now[t] /\ clock' = clock /\ temp'[t] = temp[t]
        /\ got'[t] = cached /\ bootStage'[t] = IF cached = NoText THEN "fetch" ELSE "finish"
    BY <1>1 DEF BootInv, BootTyped, Goto
  <2>2. began[t] <= clock /\ now[t] <= clock /\ began[t] <= now[t] /\ temp[t] = NoText
    BY <1>1 DEF BootInv, CallerSound, Judging, Saving
  <2>. QED
    BY <1>3, <2>1, <2>2 DEF CallerSound, Verified, Endorsed, IsLive, Judging, Holding
<1>. QED BY <1>5, <1>6, <1>7, <1>8, StepOfOne

LEMMA FetchConsensusKeeps == ASSUME BootInv, NEW t \in Callers, FetchConsensus(t) PROVE BootInv'
<1>1. PICK text \in Texts :
        IF VerifyConsensus(text, keyed[t], now[t])
        THEN /\ got' = [got EXCEPT ![t] = text]
             /\ Goto(t, "save")
             /\ UNCHANGED <<clock, cacheFile, began, keyed, now, temp, directory, home, lockHolder, crashes>>
        ELSE GiveUp(t)
  BY Zenon DEF FetchConsensus
<1>2. bootStage[t] = "fetch" /\ keyed[t] \in SUBSET Authorities
  BY DEF FetchConsensus, BootInv, BootTyped
<1>3. CASE GiveUp(t)
  BY <1>2, <1>3, GiveUpKeeps DEF Saving
<1>4. CASE VerifyConsensus(text, keyed[t], now[t])
  <2>1. /\ got' = [got EXCEPT ![t] = text] /\ Goto(t, "save")
        /\ UNCHANGED <<clock, cacheFile, began, keyed, now, temp, directory, home>>
    BY <1>1, <1>4, Zenon
  <2>2. Verified(text) /\ IsLive(text, now[t])
    BY <1>2, <1>4, VerifyIsEnough
  <2>3. OthersStand(t)
    BY <2>1 DEF OthersStand, BootInv, BootTyped, Goto
  <2>4. BootTyped'
    BY <2>1 DEF BootInv, BootTyped, Stages, Goto
  <2>5. DirectoriesVerified'
    BY <2>1, SameDirectories
  <2>6. CallerSound(t)'
    <3>1. /\ began'[t] = began[t] /\ now'[t] = now[t] /\ clock' = clock /\ temp'[t] = temp[t]
          /\ got'[t] = text /\ bootStage'[t] = "save"
      BY <2>1 DEF BootInv, BootTyped, Goto
    <3>2. began[t] <= clock /\ now[t] <= clock /\ began[t] <= now[t] /\ temp[t] = NoText
      BY <1>2 DEF BootInv, CallerSound, Judging, Saving
    <3>. QED
      BY <2>2, <3>1, <3>2 DEF CallerSound, Verified, Endorsed, IsLive, Judging, Holding
  <2>. QED BY <2>3, <2>4, <2>5, <2>6, StepOfOne
<1>. QED BY <1>1, <1>3, <1>4, Zenon

(* A step of the save keeps what the caller holds; its temporary file is its *)
(* own, and it is there only while the save lasts.                           *)
LEMMA SaveKeeps ==
    ASSUME BootInv, NEW t \in Callers, MakeTemp(t) \/ WriteTemp(t) \/ ReplaceCache(t) \/ SaveFails(t)
    PROVE  BootInv'
<1>1. PICK s \in {"write", "replace", "finish"}, file \in Texts \cup {NoText, Partial} :
        /\ bootStage[t] \in Holding /\ Goto(t, s)
        /\ temp' = [temp EXCEPT ![t] = file]
        /\ s = "replace" => file = got[t]
        /\ s = "finish" => file = NoText
  BY DEF MakeTemp, WriteTemp, ReplaceCache, SaveFails, BootInv, BootTyped, Holding, Saving
<1>2. UNCHANGED <<clock, began, keyed, now, got, directory, home>>
  BY DEF MakeTemp, WriteTemp, ReplaceCache, SaveFails
<1>3. OthersStand(t)
  BY <1>1, <1>2 DEF OthersStand, BootInv, BootTyped, Goto
<1>4. BootTyped'
  BY <1>1, <1>2 DEF BootInv, BootTyped, Stages, Saving, Goto
<1>5. DirectoriesVerified'
  BY <1>2, SameDirectories
<1>6. CallerSound(t)'
  <2>1. /\ began'[t] = began[t] /\ now'[t] = now[t] /\ clock' = clock /\ got'[t] = got[t]
        /\ temp'[t] = file /\ bootStage'[t] = s
    BY <1>1, <1>2 DEF BootInv, BootTyped, Goto
  <2>2. /\ began[t] <= clock /\ now[t] <= clock /\ began[t] <= now[t]
        /\ Verified(got[t]) /\ IsLive(got[t], now[t])
    BY <1>1 DEF BootInv, CallerSound, Judging, Holding
  <2>. QED
    BY <1>1, <2>1, <2>2 DEF CallerSound, Verified, Endorsed, IsLive, Judging, Holding, Saving
<1>. QED BY <1>3, <1>4, <1>5, <1>6, StepOfOne

LEMMA FinishKeeps == ASSUME BootInv, NEW t \in Callers, Finish(t) PROVE BootInv'
<1>1. /\ bootStage[t] = "finish" /\ Goto(t, "returned")
      /\ directory' = [directory EXCEPT ![home[t]] = got[t]]
      /\ keyed' = [keyed EXCEPT ![t] = {}] /\ now' = [now EXCEPT ![t] = 0]
      /\ UNCHANGED <<clock, cacheFile, began, got, temp, home>>
  BY DEF Finish, Release
<1>2. /\ began[t] <= now[t] /\ now[t] <= clock /\ Verified(got[t]) /\ IsLive(got[t], now[t])
      /\ temp[t] = NoText /\ now[t] \in Nat /\ began[t] \in Nat /\ clock \in Nat
  BY <1>1 DEF BootInv, BootTyped, CallerSound, Judging, Holding, Saving
<1>3. OthersStand(t)
  BY <1>1 DEF OthersStand, BootInv, BootTyped, Goto
<1>4. BootTyped'
  BY <1>1, <1>2 DEF BootInv, BootTyped, Stages, Goto
<1>5. DirectoriesVerified'
  <2>. SUFFICES ASSUME NEW p \in Processes, directory'[p] # NoText
                PROVE  Verified(directory'[p])
    BY DEF DirectoriesVerified, Verified, Endorsed
  <2>1. directory'[p] = directory[p] \/ directory'[p] = got[t]
    BY <1>1 DEF BootInv, BootTyped
  <2>. QED BY <1>2, <2>1 DEF BootInv, DirectoriesVerified
<1>6. CallerSound(t)'
  <2>1. /\ began'[t] = began[t] /\ now'[t] = 0 /\ clock' = clock /\ got'[t] = got[t]
        /\ temp'[t] = temp[t] /\ bootStage'[t] = "returned"
    BY <1>1 DEF BootInv, BootTyped, Goto
  <2>2. \E time \in began[t]..clock : IsLive(got[t], time)
    BY <1>2
  <2>. QED
    BY <1>2, <2>1, <2>2 DEF CallerSound, Verified, Endorsed, IsLive, Judging, Holding
<1>. QED BY <1>3, <1>4, <1>5, <1>6, StepOfOne

(* A process that dies forgets everything; whoever runs elsewhere does not   *)
(* notice.                                                                   *)
LEMMA CrashKeeps == ASSUME BootInv, NEW p \in Processes, Crash(p) PROVE BootInv'
<1>. USE DEF Crash
<1>1. BootTyped'
  BY DEF BootInv, BootTyped, Stages
<1>2. DirectoriesVerified'
  BY DEF BootInv, BootTyped, DirectoriesVerified, Verified, Endorsed
<1>3. ASSUME NEW t \in Callers PROVE CallerSound(t)'
  <2>1. CASE home[t] = p
    BY <2>1 DEF BootInv, BootTyped, CallerSound, Judging, Holding, Saving
  <2>2. CASE home[t] # p
    <3>1. /\ bootStage'[t] = bootStage[t] /\ began'[t] = began[t] /\ now'[t] = now[t]
          /\ got'[t] = got[t] /\ temp'[t] = temp[t] /\ clock' = clock
      BY <2>2
    <3>2. CallerSound(t) /\ BootTyped /\ clock' \in Nat /\ clock' >= clock
      BY <3>1 DEF BootInv, BootTyped
    <3>. QED BY <3>1, <3>2, SoundBystander
  <2>. QED BY <2>1, <2>2
<1>. QED BY <1>1, <1>2, <1>3 DEF BootInv

LEMMA TickKeeps == ASSUME BootInv, Tick PROVE BootInv'
<1>. USE DEF Tick
<1>1. BootTyped'
  BY DEF BootInv, BootTyped
<1>2. DirectoriesVerified'
  BY SameDirectories
<1>3. ASSUME NEW t \in Callers PROVE CallerSound(t)'
  <2>1. CallerSound(t) /\ BootTyped /\ clock' \in Nat /\ clock' >= clock
    BY DEF BootInv, BootTyped
  <2>. QED BY <2>1, SoundBystander
<1>. QED BY <1>1, <1>2, <1>3 DEF BootInv

LEMMA BootInvStep == BootInv /\ [BootNext]_bootVars => BootInv'
<1>. SUFFICES ASSUME BootInv, [BootNext]_bootVars PROVE BootInv'
  OBVIOUS
<1>1. ASSUME NEW t \in Callers, Call(t) \/ Proceed(t) PROVE BootInv'
  <2>1. CASE MirrorsFail(t)
    BY <2>1, GiveUpKeeps DEF MirrorsFail, Saving
  <2>. QED
    BY <1>1, <2>1, CallKeeps, EnterKeeps, FetchKeysKeeps, LoadCacheKeeps, FetchConsensusKeeps,
       SaveKeeps, FinishKeeps, Zenon DEF Proceed
<1>2. CASE UNCHANGED bootVars
  <2>1. BootTyped'
    BY <1>2 DEF bootVars, BootInv, BootTyped
  <2>2. DirectoriesVerified'
    BY <1>2, SameDirectories DEF bootVars
  <2>3. ASSUME NEW t \in Callers PROVE CallerSound(t)'
    <3>1. CallerSound(t) /\ BootTyped /\ clock' \in Nat /\ clock' >= clock
      BY <1>2 DEF BootInv, BootTyped, bootVars
    <3>. QED BY <1>2, <3>1, SoundBystander DEF bootVars
  <2>. QED BY <2>1, <2>2, <2>3 DEF BootInv
<1>. QED BY <1>1, <1>2, CrashKeeps, TickKeeps DEF BootNext

LEMMA BootInvInit == BootInit => BootInv
<1>. SUFFICES ASSUME BootInit PROVE BootInv
  OBVIOUS
<1>1. home \in [Callers -> Processes]
  BY BootstrapAssumption DEF BootInit
<1>. QED
  BY <1>1 DEF BootInit, BootInv, BootTyped, Stages, DirectoriesVerified, CallerSound, Judging,
     Holding, Saving

-------------------------------------------------------------------------------
(* Theorems                                                                  *)

(* Every document a caller is given carries the signatures of more than half *)
(* of all authorities and was live during the call, for any authorities,     *)
(* callers, processes and documents, and whatever keys the mirrors withheld: *)
(* bootstrap.py:538-554, 579-584.                                            *)
THEOREM AdoptedIsVerified == BootSpec => []AdoptedOnMerit
<1>1. BootInv => AdoptedOnMerit
  BY DEF BootInv, CallerSound, Verified, AdoptedOnMerit
<1>. QED BY BootInvInit, BootInvStep, <1>1, PTL DEF BootSpec

(* The cache goes from whole file to whole file, each verified, and          *)
(* temporary files live no longer than a save: consensus_store.py:102.       *)
THEOREM CacheStaysWhole == BootSpec => CacheWhole
<1>1. BootInv /\ [BootNext]_bootVars =>
        [cacheFile' # cacheFile =>
           cacheFile' \in Texts /\ cacheFile'.wellFormed /\ Endorsed(cacheFile')]_bootVars
  <2>. SUFFICES ASSUME BootInv, BootNext, cacheFile' # cacheFile
                PROVE  cacheFile' \in Texts /\ cacheFile'.wellFormed /\ Endorsed(cacheFile')
    OBVIOUS
  <2>1. PICK t \in Callers : ReplaceCache(t)
    BY DEF BootNext, Proceed, Call, Enter, MirrorsFail, GiveUp, FetchKeys, LoadCache,
       FetchConsensus, MakeTemp, WriteTemp, SaveFails, Finish, Crash, Tick
  <2>2. Verified(got[t]) /\ cacheFile' = got[t]
    BY <2>1 DEF ReplaceCache, BootInv, CallerSound, Holding
  <2>. QED BY <2>2 DEF Verified
<1>2. BootInv => \A t \in Callers : temp[t] # NoText => bootStage[t] \in Saving
  BY DEF BootInv, CallerSound
<1>. QED BY BootInvInit, BootInvStep, <1>1, <1>2, PTL DEF BootSpec, CacheWhole

===============================================================================
