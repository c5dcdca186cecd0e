----------------------------- MODULE DirBootstrap -----------------------------
(***************************************************************************)
(* How a process comes to its view of the network.  get_directory hands    *)
(* out the process's directory and bootstraps a new one under _cache_lock  *)
(* when there is none, when it is no longer live or when the caller asks:  *)
(* key certificates, the consensus cache on disk, the network, and a save  *)
(* of what the network gave.  Several processes share the cache directory, *)
(* a process may die between any two steps, mirrors answer what they like  *)
(* and time passes.                                                        *)
(***************************************************************************)
EXTENDS Naturals, FiniteSets

CONSTANTS
    Callers,      \* threads that call get_directory
    Processes,    \* processes that share the cache directory
    Placements,   \* the ways the callers may be spread over them
    Authorities,  \* DEFAULT_AUTHORITIES, the full trusted set
    Texts,        \* what a mirror may send or a disk may hold, see TextType
    NoText,       \* nothing: no file, no directory yet
    Partial,      \* a file that is not written to its end
    Stranger,     \* a signer that is no authority
    MaxTime,      \* bound on the clock
    MaxCrashes    \* bound on the processes that die

(* A document: whether parse_consensus takes it, when it is live, and its   *)
(* signatures: by whom, of which digest, and whether the one it names is    *)
(* that authority's signing key and the signature good.                     *)
Signature == [identity : Authorities \cup {Stranger},
              algorithm : {"sha1", "sha256", "unknown"}, good : BOOLEAN]
TextType == [wellFormed : BOOLEAN, validAfter : Nat, validUntil : Nat,
             signatures : SUBSET Signature]

ASSUME BootstrapAssumption ==
    /\ Authorities # {} /\ IsFiniteSet(Authorities)
    /\ Stranger \notin Authorities /\ NoText \notin Callers
    /\ Texts \subseteq TextType /\ NoText \notin Texts /\ Partial \notin Texts
    /\ Placements \subseteq [Callers -> Processes]
    /\ MaxTime \in Nat /\ MaxCrashes \in Nat

VARIABLES
    clock,        \* the time
    cacheFile,    \* cached-microdesc-consensus in the cache directory
    bootStage,    \* where each caller is in its call
    began,        \* when the call was made
    keyed,        \* authorities whose signing key the call has verified
    now,          \* the instant the call judges documents by
    got,          \* the document the call has accepted
    temp,         \* the caller's temporary file: NoText, Partial or a document
    directory,    \* _cached_directory of each process
    home,         \* the process each caller runs in
    lockHolder,   \* who holds the process's _cache_lock
    crashes

bootVars == <<clock, cacheFile, bootStage, began, keyed, now, got, temp,
              directory, home, lockHolder, crashes>>

Saving == {"write", "replace"}
Stages == {"idle", "called", "keys", "load", "fetch", "save"} \cup Saving
             \cup {"finish", "returned", "raised"}

BootTypeOK ==
    /\ clock \in 0..MaxTime /\ crashes \in 0..MaxCrashes
    /\ cacheFile \in Texts \cup {NoText}
    /\ bootStage \in [Callers -> Stages]
    /\ began \in [Callers -> 0..MaxTime] /\ now \in [Callers -> 0..MaxTime]
    /\ keyed \in [Callers -> SUBSET Authorities]
    /\ got \in [Callers -> Texts \cup {NoText}]
    /\ temp \in [Callers -> Texts \cup {NoText, Partial}]
    /\ directory \in [Processes -> Texts \cup {NoText}]
    /\ home \in [Callers -> Processes]
    /\ \A p \in Processes : lockHolder[p] \in {t \in Callers : home[t] = p} \cup {NoText}

(* A cache left by anybody: nothing, a good document, a bad or an old one.   *)
BootInit ==
    /\ clock = 0 /\ crashes = 0
    /\ cacheFile \in Texts \cup {NoText}
    /\ bootStage = [t \in Callers |-> "idle"]
    /\ began = [t \in Callers |-> 0] /\ now = [t \in Callers |-> 0]
    /\ keyed = [t \in Callers |-> {}]
    /\ got = [t \in Callers |-> NoText]
    /\ temp = [t \in Callers |-> NoText]
    /\ directory = [p \in Processes |-> NoText]
    /\ home \in Placements
    /\ lockHolder = [p \in Processes |-> NoText]

-----------------------------------------------------------------------------
(* Judging documents.                                                        *)

MoreThanHalf(S) == 2 * Cardinality(S) > Cardinality(Authorities)

IsLive(text, time) == text.validAfter <= time /\ time <= text.validUntil

(* The authorities that signed, each once however many signatures it left.   *)
(* One without a verified key cannot be checked and stays in the set the     *)
(* majority is taken of (_authorities_with_keys).                            *)
VerifiedBy(text, keys) ==
    {sig.identity : sig \in {s \in text.signatures :
        /\ s.algorithm # "unknown" /\ s.identity \in keys /\ s.good}}

Endorsed(text) == MoreThanHalf(VerifiedBy(text, Authorities))

(* The majority of the authorities whose keys came.                          *)
VerifyAgainstKeyed(text, keys, time) ==
    /\ text.wellFormed /\ IsLive(text, time)
    /\ 2 * Cardinality(VerifiedBy(text, keys)) > Cardinality(keys)

VerifyConsensus(text, keys, time) ==
    /\ text.wellFormed
    /\ IsLive(text, time)
    /\ MoreThanHalf(VerifiedBy(text, keys))

(* ConsensusStore.load: every way a file can be unusable comes to nothing.   *)
Load(file, keys, time) ==
    IF file \in Texts /\ VerifyConsensus(file, keys, time) THEN file ELSE NoText

-----------------------------------------------------------------------------
(* get_directory.                                                            *)

Goto(t, s) == bootStage' = [bootStage EXCEPT ![t] = s]

(* Leaving the locked section; the locals of bootstrap are gone.             *)
Release(t) ==
    /\ lockHolder' = [lockHolder EXCEPT ![home[t]] = NoText]
    /\ keyed' = [keyed EXCEPT ![t] = {}] /\ now' = [now EXCEPT ![t] = 0]

Call(t) ==
    /\ bootStage[t] = "idle"
    /\ Goto(t, "called")
    /\ began' = [began EXCEPT ![t] = clock]
    /\ UNCHANGED <<clock, cacheFile, keyed, now, got, temp, directory, home, lockHolder, crashes>>

Usable(t, refresh) ==
    LET cached == directory[home[t]]
    IN  cached # NoText /\ ~refresh /\ IsLive(cached, clock)

(* The lock, and the decision under it.                                      *)
Enter(t) ==
    /\ bootStage[t] = "called" /\ lockHolder[home[t]] = NoText
    /\ \E refresh \in BOOLEAN :
         IF Usable(t, refresh)
         THEN /\ got' = [got EXCEPT ![t] = directory[home[t]]]
              /\ Goto(t, "returned")
              /\ UNCHANGED lockHolder
         ELSE /\ lockHolder' = [lockHolder EXCEPT ![home[t]] = t]
              /\ Goto(t, "keys")
              /\ UNCHANGED got
    /\ UNCHANGED <<clock, cacheFile, began, keyed, now, temp, directory, home, crashes>>

(* An exception leaves get_directory and frees the lock.                     *)
GiveUp(t) ==
    /\ Goto(t, "raised") /\ Release(t)
    /\ UNCHANGED <<clock, cacheFile, began, got, temp, directory, home, crashes>>

(* Every mirror fails, for the keys or for the consensus.                    *)
MirrorsFail(t) == bootStage[t] \in {"keys", "fetch"} /\ GiveUp(t)

(* Certificates that do not check out or were withheld are not there; too    *)
(* few of them end the bootstrap.  Then the clock is read.                   *)
FetchKeys(t) ==
    /\ bootStage[t] = "keys"
    /\ \E certified \in SUBSET Authorities :
         IF MoreThanHalf(certified)
         THEN /\ keyed' = [keyed EXCEPT ![t] = certified]
              /\ now' = [now EXCEPT ![t] = clock]
              /\ Goto(t, "load")
              /\ UNCHANGED <<clock, cacheFile, began, got, temp, directory, home, lockHolder, crashes>>
         ELSE GiveUp(t)

LoadCache(t) ==
    /\ bootStage[t] = "load"
    /\ LET cached == Load(cacheFile, keyed[t], now[t])
       IN  /\ got' = [got EXCEPT ![t] = cached]
           /\ Goto(t, IF cached = NoText THEN "fetch" ELSE "finish")
    /\ UNCHANGED <<clock, cacheFile, began, keyed, now, temp, directory, home, lockHolder, crashes>>

(* The first mirror that answers decides; another is not asked.              *)
FetchConsensus(t) ==
    /\ bootStage[t] = "fetch"
    /\ \E text \in Texts :
         IF VerifyConsensus(text, keyed[t], now[t])
         THEN /\ got' = [got EXCEPT ![t] = text]
              /\ Goto(t, "save")
              /\ UNCHANGED <<clock, cacheFile, began, keyed, now, temp, directory, home, lockHolder, crashes>>
         ELSE GiveUp(t)

-----------------------------------------------------------------------------
(* ConsensusStore.save: a temporary file of its own, then an atomic replace. *)

(* The cache opened for writing in place.                                    *)
OpenInPlace(t) ==
    /\ bootStage[t] = "save"
    /\ cacheFile' = Partial /\ temp' = [temp EXCEPT ![t] = Partial]
    /\ Goto(t, "write")
    /\ UNCHANGED <<clock, began, keyed, now, got, directory, home, lockHolder, crashes>>

MakeTemp(t) ==
    /\ bootStage[t] = "save"
    /\ temp' = [temp EXCEPT ![t] = Partial]
    /\ Goto(t, "write")
    /\ UNCHANGED <<clock, cacheFile, began, keyed, now, got, directory, home, lockHolder, crashes>>

WriteTemp(t) ==
    /\ bootStage[t] = "write"
    /\ temp' = [temp EXCEPT ![t] = got[t]]
    /\ Goto(t, "replace")
    /\ UNCHANGED <<clock, cacheFile, began, keyed, now, got, directory, home, lockHolder, crashes>>

ReplaceCache(t) ==
    /\ bootStage[t] = "replace"
    /\ cacheFile' = temp[t]
    /\ temp' = [temp EXCEPT ![t] = NoText]
    /\ Goto(t, "finish")
    /\ UNCHANGED <<clock, began, keyed, now, got, directory, home, lockHolder, crashes>>

(* An OSError anywhere in it: the temporary file goes, a warning is logged.  *)
SaveFails(t) ==
    /\ bootStage[t] \in {"save"} \cup Saving
    /\ temp' = [temp EXCEPT ![t] = NoText]
    /\ Goto(t, "finish")
    /\ UNCHANGED <<clock, cacheFile, began, keyed, now, got, directory, home, lockHolder, crashes>>

Finish(t) ==
    /\ bootStage[t] = "finish"
    /\ directory' = [directory EXCEPT ![home[t]] = got[t]]
    /\ Release(t)
    /\ Goto(t, "returned")
    /\ UNCHANGED <<clock, cacheFile, began, got, temp, home, crashes>>

-----------------------------------------------------------------------------
(* A process dies and starts again.  Its memory is gone, the disk stays.     *)
Crash(p) ==
    /\ crashes < MaxCrashes
    /\ crashes' = crashes + 1
    /\ LET Reset(f, v) == [t \in Callers |-> IF home[t] = p THEN v ELSE f[t]]
       IN  /\ bootStage' = Reset(bootStage, "idle")
           /\ began' = Reset(began, 0) /\ now' = Reset(now, 0)
           /\ keyed' = Reset(keyed, {})
           /\ got' = Reset(got, NoText) /\ temp' = Reset(temp, NoText)
    /\ directory' = [directory EXCEPT ![p] = NoText]
    /\ lockHolder' = [lockHolder EXCEPT ![p] = NoText]
    /\ UNCHANGED <<clock, cacheFile, home>>

Tick ==
    /\ clock < MaxTime
    /\ clock' = clock + 1
    /\ UNCHANGED <<cacheFile, bootStage, began, keyed, now, got, temp, directory, home, lockHolder, crashes>>

Proceed(t) ==
    \/ Enter(t) \/ MirrorsFail(t) \/ FetchKeys(t) \/ LoadCache(t) \/ FetchConsensus(t)
    \/ MakeTemp(t) \/ WriteTemp(t) \/ ReplaceCache(t) \/ SaveFails(t) \/ Finish(t)

BootNext ==
    \/ \E t \in Callers : Call(t) \/ Proceed(t)
    \/ \E p \in Processes : Crash(p)
    \/ Tick

BootSpec == BootInit /\ [][BootNext]_bootVars

-----------------------------------------------------------------------------
(* Properties.                                                               *)

(* Whatever a caller is given, from memory, disk or network, bears the       *)
(* signatures of more than half of ALL authorities, however few keys the     *)
(* mirrors let through, and was live at some moment of the call             *)
(* (bootstrap.py:538-554, 579-584).                                          *)
AdoptedOnMerit ==
    \A t \in Callers : bootStage[t] = "returned" =>
        /\ got[t].wellFormed /\ Endorsed(got[t])
        /\ \E time \in began[t]..clock : IsLive(got[t], time)

(* The cache only ever changes from one whole file to another that had been  *)
(* verified, whoever dies or writes at the same time; and no temporary file  *)
(* outlives a save but by the death of its process (consensus_store.py:102). *)
CacheWhole ==
    /\ [][cacheFile' # cacheFile =>
             cacheFile' \in Texts /\ cacheFile'.wellFormed /\ Endorsed(cacheFile')]_bootVars
    /\ [](\A t \in Callers : temp[t] # NoText => bootStage[t] \in Saving)

===============================================================================
