--------------------------- MODULE PoolDiscovery ---------------------------
(***************************************************************************)
(* onchain-discovery: pools the Raydium watcher sees, pairs that trend and *)
(* migrations become token candidates.  A pool event asks for its pair,    *)
(* again and again on timers, counting the attempts per pool; the counts   *)
(* and the debounce map are shared by all handlers of the pool, and every  *)
(* listener of the watcher brings the event once more.  A mint has one     *)
(* pool here; prices and the fields of a candidate are left out.           *)
(*                                                                         *)
(* The watcher's log subscription comes first.  The socket reports a lost  *)
(* connection as 'close', as 'error' or as both, and each report starts a  *)
(* restart of its own: wait, remove the subscription there is, subscribe   *)
(* again.  stop neither waits for restarts nor ends them.  The library     *)
(* forgets a listener as soon as its removal is called and gives a new one *)
(* its id at once; how long the backoff is, is left out.                   *)
(***************************************************************************)
EXTENDS Naturals, FiniteSets

CONSTANTS
    Restart,        \* calls of restartWithBackoff that may overlap
    MaxListener     \* bound: subscriptions made

ASSUME RaydiumConstants == MaxListener \in Nat \ {0}

VARIABLES
    stopped,
    subscriptionId, \* 0 for null
    registered,     \* listeners the library calls
    lastId,         \* ids given out
    restart,        \* per call: "idle", "waiting", "removing"
    removing,       \* stop awaits the removal
    disturbed       \* history: two restarts at once, or a stop during one

raydiumVars == <<stopped, subscriptionId, registered, lastId, restart, removing,
                 disturbed>>

-----------------------------------------------------------------------------
(* The Raydium watcher's subscription *)

RaydiumInit ==
    /\ stopped = FALSE /\ removing = FALSE /\ disturbed = FALSE
    /\ subscriptionId = 1 /\ registered = {1} /\ lastId = 1
    /\ restart = [r \in Restart |-> "idle"]

\* onWsClose
SocketLost(r) ==
    /\ ~stopped /\ restart[r] = "idle"
    /\ lastId < MaxListener
    /\ restart' = [restart EXCEPT ![r] = "waiting"]
    /\ disturbed' = (disturbed \/ \E q \in Restart : restart[q] # "idle")
    /\ UNCHANGED <<stopped, subscriptionId, registered, lastId, removing>>

\* subscribe: onLogs succeeds, or throws and leads to another restart.
Subscribe(r) ==
    /\ UNCHANGED <<stopped, removing, disturbed>>
    /\ \/ /\ lastId < MaxListener
          /\ lastId' = lastId + 1
          /\ subscriptionId' = lastId'
          /\ registered' = registered \union {lastId'}
          /\ restart' = [restart EXCEPT ![r] = "idle"]
       \/ /\ subscriptionId' = 0
          /\ restart' = [restart EXCEPT ![r] = IF stopped THEN "idle" ELSE "waiting"]
          /\ UNCHANGED <<registered, lastId>>

\* Bug: the subscription that is there is not removed.
BackoffOver_SubscribesAtOnce(r) ==
    /\ restart[r] = "waiting"
    /\ Subscribe(r)

\* The backoff is over; stopped is not looked at again.
BackoffOver(r) ==
    /\ restart[r] = "waiting"
    /\ IF subscriptionId = 0 THEN Subscribe(r)
       ELSE /\ registered' = registered \ {subscriptionId}
            /\ restart' = [restart EXCEPT ![r] = "removing"]
            /\ UNCHANGED <<stopped, subscriptionId, lastId, removing, disturbed>>

\* The removal is through, or failed.
RestartRemoved(r) ==
    /\ restart[r] = "removing"
    /\ Subscribe(r)

Stop ==
    /\ ~stopped
    /\ stopped' = TRUE
    /\ removing' = (subscriptionId # 0)
    /\ registered' = registered \ {subscriptionId}
    /\ disturbed' = (disturbed \/ \E q \in Restart : restart[q] # "idle")
    /\ UNCHANGED <<subscriptionId, lastId, restart>>

StopRemoved ==
    /\ removing
    /\ removing' = FALSE
    /\ subscriptionId' = 0
    /\ UNCHANGED <<stopped, registered, lastId, restart, disturbed>>

RaydiumNext ==
    \/ Stop \/ StopRemoved
    \/ \E r \in Restart : SocketLost(r) \/ BackoffOver(r) \/ RestartRemoved(r)

-----------------------------------------------------------------------------
(* Pools and their candidates *)

CONSTANTS
    NewPool,        \* the pools that appear
    MaxAttempts,    \* 8
    MaxExpiries     \* bound: none runs out once one key's did so often

ASSUME DiscoveryConstants == MaxAttempts \in Nat \ {0} /\ MaxExpiries \in Nat

VARIABLES
    handler,    \* per listener and pool: the log handler, then handlePoolInit
    attempt,    \* its attempt
    attempts,   \* pendingPoolAttempts, 0 for no entry
    raw,        \* handleRawPairEvent, and the trending loop, per pool
    lastEmitted,\* keys whose debounce time has not run out
    candidates, \* history: candidates emitted under each key
    expiries,   \* history: debounce times of the key that ran out
    asked       \* history: attempts made for the pool

discoveryVars == <<handler, attempt, attempts, raw, lastEmitted, candidates,
                   expiries, asked>>
feedVars == <<raydiumVars, discoveryVars>>

Event == (1..MaxListener) \X NewPool

\* A candidate is debounced under its mint, or under mint and pool when it
\* came from the migration stream.
Key == {"mint", "mint:pool"} \X NewPool

\* What each other source of a pool's candidates goes through.
Other == {"trending", "migration"} \X NewPool
KeyOf(o) == <<IF o[1] = "trending" THEN "mint" ELSE "mint:pool", o[2]>>

DiscoveryInit ==
    /\ RaydiumInit
    /\ handler = [e \in Event |-> "none"]
    /\ attempt = [e \in Event |-> 0]
    /\ attempts = [p \in NewPool |-> 0]
    /\ raw = [o \in Other |-> "none"]
    /\ lastEmitted = {}
    /\ candidates = [k \in Key |-> 0] /\ expiries = [k \in Key |-> 0]
    /\ asked = [p \in NewPool |-> 0]

-----------------------------------------------------------------------------
(* Pool events *)

To(e, stage) == handler' = [handler EXCEPT ![e] = stage]
Forget(p) == attempts' = [attempts EXCEPT ![p] = 0]

\* handleLogs up to its await
InitializeSeen(e) ==
    /\ e[1] \in registered /\ handler[e] = "none"
    /\ To(e, "fetching")
    /\ UNCHANGED <<attempt, attempts, raw, lastEmitted, candidates, expiries, asked>>

\* The transaction is missing or cannot be decoded: the pool is not announced.
FetchFails(e) ==
    /\ handler[e] = "fetching"
    /\ To(e, "done")
    /\ UNCHANGED <<attempt, attempts, raw, lastEmitted, candidates, expiries, asked>>

\* handlePoolInit up to its await: called by the bus, or by a retry's timer.
HandlePoolInit(e) ==
    /\ handler[e] \in {"fetching", "retrying"}
    /\ To(e, "asking")
    /\ attempt' = [attempt EXCEPT ![e] = attempts[e[2]] + 1]
    /\ attempts' = [attempts EXCEPT ![e[2]] = @ + 1]
    /\ asked' = [asked EXCEPT ![e[2]] = @ + 1]
    /\ UNCHANGED <<raw, lastEmitted, candidates, expiries>>

\* Bug: the count starts over with each retry.
NoPair_ForgetsCount(e) ==
    /\ handler[e] = "asking"
    /\ To(e, IF attempt[e] < MaxAttempts THEN "retrying" ELSE "done")
    /\ Forget(e[2])
    /\ UNCHANGED <<attempt, raw, lastEmitted, candidates, expiries, asked>>

NoPair(e) ==
    /\ handler[e] = "asking"
    /\ IF attempt[e] < MaxAttempts THEN To(e, "retrying") /\ UNCHANGED attempts
       ELSE To(e, "done") /\ Forget(e[2])
    /\ UNCHANGED <<attempt, raw, lastEmitted, candidates, expiries, asked>>

\* The request fails: no retry, and the count stays.
AskFails(e) ==
    /\ handler[e] = "asking"
    /\ To(e, "done")
    /\ UNCHANGED <<attempt, attempts, raw, lastEmitted, candidates, expiries, asked>>

\* shouldEmit, when it says yes
Claim(k) == k \notin lastEmitted /\ lastEmitted' = lastEmitted \union {k}

PairFound(e) ==
    /\ handler[e] = "asking"
    /\ \/ Claim(<<"mint", e[2]>>) /\ To(e, "building") /\ UNCHANGED attempts
       \/ /\ <<"mint", e[2]>> \in lastEmitted
          /\ To(e, "done") /\ Forget(e[2])
          /\ UNCHANGED lastEmitted
    /\ UNCHANGED <<attempt, raw, candidates, expiries, asked>>

\* emitCandidateFromPair after its await: a candidate, or none and the key is free.
Outcome(k) ==
    \/ /\ candidates' = [candidates EXCEPT ![k] = @ + 1]
       /\ UNCHANGED lastEmitted
    \/ /\ lastEmitted' = lastEmitted \ {k}
       /\ UNCHANGED candidates

Build(e) ==
    /\ handler[e] = "building"
    /\ Outcome(<<"mint", e[2]>>)
    /\ To(e, "done") /\ Forget(e[2])
    /\ UNCHANGED <<attempt, raw, expiries, asked>>

-----------------------------------------------------------------------------
(* Trending pairs and migrations *)

\* Bug: the key is set only once the candidate is out.
RawEvent_ClaimsLate(o) ==
    /\ raw[o] = "none" /\ KeyOf(o) \notin lastEmitted
    /\ raw' = [raw EXCEPT ![o] = "building"]
    /\ UNCHANGED <<handler, attempt, attempts, lastEmitted, candidates, expiries, asked>>

RawEvent(o) ==
    /\ raw[o] = "none" /\ Claim(KeyOf(o))
    /\ raw' = [raw EXCEPT ![o] = "building"]
    /\ UNCHANGED <<handler, attempt, attempts, candidates, expiries, asked>>

RawBuild(o) ==
    /\ raw[o] = "building"
    /\ Outcome(KeyOf(o))
    /\ raw' = [raw EXCEPT ![o] = "none"]
    /\ UNCHANGED <<handler, attempt, attempts, expiries, asked>>

\* The 20 minutes of a key are over; nobody is still working under it.
DebounceExpires(k) ==
    /\ k \in lastEmitted /\ \A j \in Key : expiries[j] < MaxExpiries
    /\ \A e \in Event : k = <<"mint", e[2]>> => handler[e] # "building"
    /\ \A o \in Other : k = KeyOf(o) => raw[o] # "building"
    /\ lastEmitted' = lastEmitted \ {k}
    /\ expiries' = [expiries EXCEPT ![k] = @ + 1]
    /\ UNCHANGED <<handler, attempt, attempts, raw, candidates, asked>>

DiscoveryNext ==
    \/ RaydiumNext /\ UNCHANGED discoveryVars
    \/ \E e \in Event :
        /\ UNCHANGED raydiumVars
        /\ \/ InitializeSeen(e) \/ FetchFails(e) \/ HandlePoolInit(e)
           \/ NoPair(e) \/ AskFails(e) \/ PairFound(e) \/ Build(e)
    \/ \E o \in Other : UNCHANGED raydiumVars /\ (RawEvent(o) \/ RawBuild(o))
    \/ \E k \in Key : UNCHANGED raydiumVars /\ DebounceExpires(k)

DiscoverySpec == DiscoveryInit /\ [][DiscoveryNext]_feedVars

-----------------------------------------------------------------------------
(* Properties *)

\* The watcher knows its listener: one that subscriptionId does not name, which
\* nobody will remove, is left only when restarts overlapped or stop came
\* during one; without that a stopped watcher has none.
ListenerIsKnown ==
    disturbed \/ (/\ registered \subseteq {subscriptionId}
                  /\ stopped => registered = {})

\* However many handlers of a pool share its count, retries end: there are no
\* more than MaxAttempts for each handler that began, although one that gives
\* up clears the count of the others and a failed request leaves it behind.
AttemptsAreBounded ==
    \A p \in NewPool :
        asked[p] <= MaxAttempts
                      * Cardinality({l \in 1..MaxListener : attempt[<<l, p>>] > 0})

\* One key, one candidate per debounce time: neither the extra events of a
\* leaked listener nor a trending pair in the middle of a pool's retries bring
\* a second one, and a failed build lets another try.
OneCandidatePerDebounce ==
    \A k \in Key : candidates[k] <= 1 + expiries[k]

\* A pool is tried a bounded number of times and gives one candidate per debounce, and
\* whatever listens for pools can be taken away again.
PoolsAreHandledOnce ==
    AttemptsAreBounded /\ OneCandidatePerDebounce /\ ListenerIsKnown
=============================================================================
