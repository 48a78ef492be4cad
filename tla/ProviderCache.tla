---------------------------- MODULE ProviderCache ----------------------------
(***************************************************************************)
(* createCachedFetcher: answers kept for a while, and a token bucket in    *)
(* front of the requests.  Callers overlap; a caller that finds no token   *)
(* takes one in advance and waits for it, so the bucket may be in debt.    *)
(* Tokens are counted in parts: a tick is the time in which one part comes *)
(* in, a request takes Cost parts, a debt is a negative number of them.    *)
(***************************************************************************)
EXTENDS Integers, FiniteSets

CONSTANTS
    Caller,         \* one call each
    Url,
    Cost,           \* a token is Cost parts
    Capacity,       \* in parts
    CacheTtl,
    MaxTicks        \* bound: the clock

ASSUME CacheConstants ==
    /\ {Cost, Capacity, CacheTtl, MaxTicks} \subseteq Nat
    /\ Cost > 0 /\ Cost <= Capacity     \* Math.max(1, rpmLimit) tokens
    /\ IsFiniteSet(Caller)

VARIABLES
    tick,
    tokens, refilledAt,     \* the bucket
    store,                  \* TtlCache: by url, when the value was stored, or None
    call                    \* of each caller: stage, url, due

cacheVars == <<tick, tokens, refilledAt, store, call>>

None == -1

CacheInit ==
    /\ tick = 0 /\ tokens = Capacity /\ refilledAt = 0
    /\ store = [u \in Url |-> None]
    /\ call = [k \in Caller |-> [stage |-> "idle", due |-> None]]

\* get: present and not past its time.
Cached(u) == store[u] # None /\ tick <= store[u] + CacheTtl

\* Bug: an idle bucket fills beyond its capacity.
Refilled_NoCap == tokens + (tick - refilledAt)

Refilled ==
    LET all == tokens + (tick - refilledAt)
    IN  IF all > Capacity THEN Capacity ELSE all

\* Until a debt is paid.
WaitFor(held) == IF held >= 0 THEN 0 ELSE -held

Hit(k) ==
    /\ call[k].stage = "idle"
    /\ \E u \in Url : Cached(u)
    /\ call' = [call EXCEPT ![k].stage = "done"]
    /\ UNCHANGED <<tick, tokens, refilledAt, store>>

\* A miss reserves its token at once; another miss of the same url does the same.
Miss(k) ==
    /\ call[k].stage = "idle"
    /\ \E u \in Url :
        /\ ~Cached(u)
        /\ tokens' = Refilled - Cost
        /\ refilledAt' = tick
        /\ call' = [call EXCEPT ![k] = [stage |-> "waiting", url |-> u,
                                        due |-> tick + WaitFor(tokens')]]
        /\ store' = [store EXCEPT ![u] = None]
    /\ UNCHANGED tick

\* The delay is over; a timer may be late.
Send(k) ==
    /\ call[k].stage = "waiting" /\ tick >= call[k].due
    /\ call' = [call EXCEPT ![k].stage = "sent"]
    /\ UNCHANGED <<tick, tokens, refilledAt, store>>

Answered(k) ==
    /\ call[k].stage = "sent"
    /\ store' = [store EXCEPT ![call[k].url] = tick]
    /\ call' = [call EXCEPT ![k].stage = "done"]
    /\ UNCHANGED <<tick, tokens, refilledAt>>

\* An error, of the network or of the service, is thrown and not kept.
AnswerFails(k) ==
    /\ call[k].stage = "sent"
    /\ call' = [call EXCEPT ![k].stage = "failed"]
    /\ UNCHANGED <<tick, tokens, refilledAt, store>>

Tick ==
    /\ tick < MaxTicks
    /\ tick' = tick + 1
    /\ UNCHANGED <<tokens, refilledAt, store, call>>

CacheNext ==
    \/ Tick
    \/ \E k \in Caller : \/ Hit(k) \/ Miss(k) \/ Send(k)
                         \/ Answered(k) \/ AnswerFails(k)

CacheSpec == CacheInit /\ [][CacheNext]_cacheVars

-----------------------------------------------------------------------------
(* Property *)

\* Requests fall due at the rate of the limit: from one of them to another there are
\* no more than the full bucket and what comes in meanwhile, however many callers miss
\* at once and however long the bucket was idle or in debt.
RateKept ==
    \A j, k \in Caller :
        LET from == call[j].due
            to == call[k].due
        IN  from # None /\ from <= to =>
                Cost * Cardinality({i \in Caller : call[i].due \in from..to})
                    <= Capacity + (to - from)
=============================================================================
