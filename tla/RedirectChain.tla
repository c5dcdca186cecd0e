----------------------------- MODULE RedirectChain -----------------------------
(***************************************************************************)
(* MixedSession: onion hosts through Tor, the rest directly.  requests     *)
(* follows a redirect by calling send again from within send; the host of  *)
(* the hop before is kept in a thread-local, and threads share a session.  *)
(***************************************************************************)
EXTENDS Naturals, Sequences

CONSTANTS
    Users,   \* threads that use the session
    MaxHops, \* requests in a chain at most
    MaxCalls \* bound: calls of a thread

ASSUME RedirectAssumption == MaxHops \in Nat \ {0} /\ MaxCalls \in Nat \ {0}

Kinds == {"onion", "clearnet"}

VARIABLES
    active,    \* of the threading.local: whether this is a hop
    prevOnion, \* prev_onion
    at,        \* at[t]: "idle", "send" (send is entered), "fetch" (the adapter runs)
    request,   \* request[t]: the kind of host asked for
    trail,     \* trail[t]: the kinds fetched in the call
    refused,   \* refused[t]: whether the last call ended in OnionRedirectError
    calls      \* calls[t]: made so far

redirectVars == <<active, prevOnion, at, request, trail, refused, calls>>

RedirectInit ==
    /\ active = [t \in Users |-> FALSE] /\ prevOnion = [t \in Users |-> FALSE]
    /\ at = [t \in Users |-> "idle"] /\ request = [t \in Users |-> "clearnet"]
    /\ trail = [t \in Users |-> <<>>] /\ refused = [t \in Users |-> FALSE]
    /\ calls = [t \in Users |-> 0]

(* One attribute object for all threads.                                     *)
SharedSlot(t) == CHOOSE u \in Users : TRUE

(* threading.local                                                           *)
Slot(t) == t

StartCall(t) ==
    /\ at[t] = "idle" /\ calls[t] < MaxCalls
    /\ calls' = [calls EXCEPT ![t] = @ + 1]
    /\ \E kind \in Kinds : request' = [request EXCEPT ![t] = kind]
    /\ at' = [at EXCEPT ![t] = "send"]
    /\ trail' = [trail EXCEPT ![t] = <<>>] /\ refused' = [refused EXCEPT ![t] = FALSE]
    /\ UNCHANGED <<active, prevOnion>>

(* The call ends, well or not: the outermost send clears the flag.           *)
Leave(t) == at' = [at EXCEPT ![t] = "idle"] /\ active' = [active EXCEPT ![Slot(t)] = FALSE]

Remembers(t, kind) == prevOnion' = [prevOnion EXCEPT ![Slot(t)] = kind = "onion"]

EnterSend(t) ==
    /\ at[t] = "send"
    /\ IF active[Slot(t)] /\ prevOnion[Slot(t)] /\ request[t] = "clearnet"
       THEN Leave(t) /\ refused' = [refused EXCEPT ![t] = TRUE] /\ UNCHANGED prevOnion
       ELSE /\ active' = [active EXCEPT ![Slot(t)] = TRUE]
            /\ Remembers(t, request[t])
            /\ at' = [at EXCEPT ![t] = "fetch"] /\ UNCHANGED refused
    /\ UNCHANGED <<request, trail, calls>>

(* A redirect has send entered again; anything else ends the call.           *)
Fetch(t) ==
    /\ at[t] = "fetch"
    /\ trail' = [trail EXCEPT ![t] = Append(@, request[t])]
    /\ \/ /\ Len(trail[t]) + 1 < MaxHops
          /\ \E kind \in Kinds : request' = [request EXCEPT ![t] = kind]
          /\ at' = [at EXCEPT ![t] = "send"] /\ UNCHANGED active
       \/ Leave(t) /\ UNCHANGED request
    /\ UNCHANGED <<prevOnion, refused, calls>>

RedirectNext == \E t \in Users : StartCall(t) \/ EnterSend(t) \/ Fetch(t)

RedirectSpec == RedirectInit /\ [][RedirectNext]_redirectVars

-----------------------------------------------------------------------------
(* No hop of a chain is fetched directly after an onion service, at any      *)
(* place of the chain and whatever other threads do with the session; and    *)
(* only such a hop is refused (sessions.py:138-166).                         *)
OnionChainStaysOnion ==
    \A t \in Users :
        /\ \A i \in 1..Len(trail[t]) - 1 : trail[t][i] = "onion" => trail[t][i + 1] = "onion"
        /\ refused[t] => trail[t] # <<>> /\ trail[t][Len(trail[t])] = "onion"

===============================================================================
