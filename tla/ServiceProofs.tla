--------------------------- MODULE ServiceProofs ---------------------------
(***************************************************************************)
(* Proofs about what serves the others: the cached fetcher with its token  *)
(* bucket, agent-core's health answers and the dashboard's rates, for any  *)
(* callers, requests, limits and times; about what the narrative miner     *)
(* watches and counts, for any topics, phrases, posts and faults; about    *)
(* the jobs on timers and the model files, for any samples, ticks, runs,   *)
(* rows, restarts and versions; about the file they all share, for any     *)
(* processes that open it and any faults; and about the configuration and  *)
(* agent-core's controls, for any edits, requests, listeners and restarts. *)
(***************************************************************************)
EXTENDS DashboardFeed, WatchWindows, ModelFiles, SchemaBootstrap, FiniteSetTheorems,
        SequenceTheorems, WellFoundedInduction, TLAPS

-----------------------------------------------------------------------------
(* The token bucket *)

CallTypes ==
    /\ tick \in Nat /\ refilledAt \in Nat /\ refilledAt <= tick
    /\ tokens \in Int
    /\ DOMAIN call = Caller
    /\ \A k \in Caller : call[k].due \in Nat \union {None}

DueFrom(from) == {k \in Caller : call[k].due # None /\ from <= call[k].due}
Between(from, to) == {k \in Caller : call[k].due \in from..to}

\* When the bucket is out of debt; nobody waits longer.
LastDue == refilledAt + WaitFor(tokens)
NoneLater == \A k \in Caller : call[k].due # None => call[k].due <= LastDue

\* The calls due from some time on are paid for by what the bucket lacks and by what
\* came in until it was filled up last.
PaidFor ==
    \A from \in 0..LastDue :
        Cost * Cardinality(DueFrom(from)) <= Capacity - tokens + refilledAt - from
RateAlways ==
    \A from, to \in Nat :
        from <= to => Cost * Cardinality(Between(from, to)) <= Capacity + (to - from)

CacheInv == CallTypes /\ NoneLater /\ PaidFor /\ RateAlways

LEMMA SetsOfCalls ==
    ASSUME NEW from, NEW to
    PROVE  /\ IsFiniteSet(DueFrom(from)) /\ Cardinality(DueFrom(from)) \in Nat
           /\ IsFiniteSet(Between(from, to)) /\ Cardinality(Between(from, to)) \in Nat
<1>1. DueFrom(from) \subseteq Caller /\ Between(from, to) \subseteq Caller
  BY DEF DueFrom, Between
<1>. QED
  BY <1>1, CacheConstants, FS_Subset, FS_CardinalityType DEF CacheConstants

\* Calls are due as before.
LEMMA DuesKept ==
    ASSUME CacheInv, UNCHANGED <<tokens, refilledAt>>, tick' \in Nat, tick <= tick',
           DOMAIN call' = Caller, \A k \in Caller : call'[k].due = call[k].due
    PROVE  CacheInv'
<1>1. CallTypes' /\ NoneLater'
  BY DEF CacheInv, CallTypes, NoneLater, LastDue, WaitFor
<1>2. \A from : DueFrom(from)' = DueFrom(from)
  BY DEF DueFrom
<1>3. \A from, to : Between(from, to)' = Between(from, to)
  BY DEF Between
<1>4. PaidFor'
  BY <1>2 DEF CacheInv, PaidFor, LastDue, WaitFor
<1>5. RateAlways'
  BY <1>3 DEF CacheInv, RateAlways
<1>. QED
  BY <1>1, <1>4, <1>5 DEF CacheInv

LEMMA Missed ==
    ASSUME CacheInv, NEW k \in Caller, Miss(k)
    PROVE  CacheInv'
<1>. USE CacheConstants DEF CacheConstants, CacheInv
<1>. DEFINE level == Refilled   last == LastDue   due == tick + WaitFor(level - Cost)
<1>1. /\ tick \in Nat /\ refilledAt \in Nat /\ refilledAt <= tick /\ tokens \in Int
      /\ Cost \in Nat /\ Cost > 0 /\ Capacity \in Nat /\ Cost <= Capacity
  BY DEF CallTypes
<1>2. PICK u \in Url :
        /\ tokens' = level - Cost /\ refilledAt' = tick /\ tick' = tick
        /\ call' = [call EXCEPT ![k] = [stage |-> "waiting", url |-> u,
                                        due |-> tick + WaitFor(tokens')]]
  BY DEF Miss
<1>3. /\ level \in Int /\ level <= Capacity /\ level <= tokens + (tick - refilledAt)
  BY <1>1 DEF Refilled
<1>4. /\ last \in Nat /\ due \in Nat /\ last <= due /\ tick <= due
      /\ level >= Cost => due = tick
      /\ level < Cost => due = tick - level + Cost
  BY <1>1 DEF Refilled, LastDue, WaitFor
<1>5. LastDue' = due
  BY <1>2 DEF LastDue, WaitFor
<1>6. \A i \in Caller : call'[i].due = IF i = k THEN due ELSE call[i].due
  BY <1>2 DEF CallTypes
<1>7. DOMAIN call' = Caller
  BY <1>2 DEF CallTypes
<1>8. CallTypes'
  BY <1>1, <1>2, <1>3, <1>4, <1>6, <1>7 DEF CallTypes
<1>9. call[k].due \in Nat \union {None} /\ None \notin Nat
  BY DEF CallTypes, None
<1>10. \A i \in Caller : call[i].due # None => call[i].due \in Nat /\ call[i].due <= due
  <2>. SUFFICES ASSUME NEW i \in Caller, call[i].due # None
                PROVE  call[i].due \in Nat /\ call[i].due <= due
    OBVIOUS
  <2>1. call[i].due \in Nat /\ call[i].due <= last
    BY DEF CallTypes, NoneLater
  <2>. HIDE DEF last, due
  <2>. QED
    BY <1>4, <2>1
<1>. HIDE DEF level, last, due
<1>11. NoneLater'
  BY <1>4, <1>5, <1>6, <1>10 DEF NoneLater
\* One more at most is due from a time on.
<1>12. ASSUME NEW from \in Nat
       PROVE  Cardinality(DueFrom(from)') <= Cardinality(DueFrom(from)) + 1
  <2>1. DueFrom(from)' \subseteq DueFrom(from) \union {k}
    BY <1>6 DEF DueFrom
  <2>2. /\ IsFiniteSet(DueFrom(from) \union {k})
        /\ Cardinality(DueFrom(from) \union {k}) <= Cardinality(DueFrom(from)) + 1
        /\ Cardinality(DueFrom(from) \union {k}) \in Nat
    <3>. DEFINE S == DueFrom(from)
    <3>1. IsFiniteSet(S) /\ Cardinality(S) \in Nat
      BY SetsOfCalls
    <3>. HIDE DEF S
    <3>2. /\ IsFiniteSet(S \union {k})
          /\ Cardinality(S \union {k}) = IF k \in S THEN Cardinality(S) ELSE Cardinality(S) + 1
      BY <3>1, FS_AddElement
    <3>. QED
      BY <3>1, <3>2 DEF S
  <2>3. /\ Cardinality(DueFrom(from)') <= Cardinality(DueFrom(from) \union {k})
        /\ Cardinality(DueFrom(from)') \in Nat
    BY <2>1, <2>2, FS_Subset, FS_CardinalityType
  <2>. QED
    BY <2>2, <2>3, SetsOfCalls
<1>13. ASSUME NEW from \in Nat
       PROVE  Cardinality(DueFrom(from)') \in Nat /\ Cardinality(DueFrom(from)) \in Nat
  <2>1. DueFrom(from)' \subseteq Caller
    BY DEF DueFrom
  <2>2. IsFiniteSet(DueFrom(from)')
    BY <2>1, FS_Subset
  <2>. QED
    BY <2>2, SetsOfCalls, FS_CardinalityType
<1>14. ASSUME NEW from \in Nat, from <= due
       PROVE  Cost * Cardinality(DueFrom(from)') <= Capacity - level + Cost + tick - from
  <2>. DEFINE n == Cardinality(DueFrom(from))   m == Cardinality(DueFrom(from)')
  <2>1. n \in Nat /\ m \in Nat /\ m <= n + 1
    BY <1>12, <1>13
  <2>2. Cost * n <= Capacity - level + tick - from
    <3>1. CASE from <= last
      <4>1. from \in 0..last
        BY <1>4, <3>1
      <4>2. Cost * n <= Capacity - tokens + refilledAt - from
        BY <4>1 DEF PaidFor, last
      <4>. HIDE DEF n
      <4>3. Cost * n \in Nat
        BY <1>1, <2>1
      <4>. QED
        BY <1>1, <1>3, <4>2, <4>3
    <3>2. CASE last < from
      <4>1. DueFrom(from) = {}
        BY <1>4, <3>2 DEF DueFrom, NoneLater, CallTypes, last
      <4>2. n = 0
        BY <4>1, FS_EmptySet
      <4>3. Cost * n = 0
        BY <1>1, <4>2
      <4>4. 0 <= Capacity - level + tick - from
        BY <1>1, <1>3, <1>4, <1>14
      <4>. QED
        BY <4>3, <4>4
    <3>. QED
      BY <1>4, <3>1, <3>2
  <2>. HIDE DEF n, m
  <2>3. Cost * m <= Cost * (n + 1) /\ Cost * (n + 1) = Cost * n + Cost
        /\ Cost * m \in Nat /\ Cost * n \in Nat
    BY <1>1, <2>1
  <2>. QED
    BY <1>1, <1>3, <1>4, <2>2, <2>3 DEF m
<1>15. PaidFor'
  <2>. SUFFICES ASSUME NEW from \in 0..LastDue'
                PROVE  Cost * Cardinality(DueFrom(from)') <= Capacity - tokens' + refilledAt' - from
    BY DEF PaidFor
  <2>1. from \in Nat /\ from <= due
    BY <1>4, <1>5
  <2>2. Cost * Cardinality(DueFrom(from)') <= Capacity - level + Cost + tick - from
    BY <1>14, <2>1
  <2>3. Cost * Cardinality(DueFrom(from)') \in Nat
    BY <1>1, <1>13, <2>1
  <2>. QED
    BY <1>1, <1>2, <1>3, <2>1, <2>2, <2>3
<1>16. RateAlways'
  <2>. SUFFICES ASSUME NEW from \in Nat, NEW to \in Nat, from <= to
                PROVE  Cost * Cardinality(Between(from, to)') <= Capacity + (to - from)
    BY DEF RateAlways
  <2>1. CASE to < due
    <3>1. Between(from, to)' \subseteq Between(from, to)
      BY <1>4, <1>6, <2>1 DEF Between
    <3>2. /\ Cardinality(Between(from, to)') <= Cardinality(Between(from, to))
          /\ Cardinality(Between(from, to)') \in Nat
      BY <3>1, SetsOfCalls, FS_Subset, FS_CardinalityType
    <3>3. Cost * Cardinality(Between(from, to)) <= Capacity + (to - from)
      BY DEF RateAlways
    <3>. DEFINE n == Cardinality(Between(from, to))   m == Cardinality(Between(from, to)')
    <3>4. n \in Nat /\ m \in Nat /\ m <= n /\ Cost * n <= Capacity + (to - from)
      BY <3>2, <3>3, SetsOfCalls
    <3>. HIDE DEF n, m
    <3>5. Cost * m <= Cost * n /\ Cost * m \in Nat /\ Cost * n \in Nat
      BY <1>1, <3>4
    <3>6. Cost * m <= Capacity + (to - from)
      BY <1>1, <3>4, <3>5
    <3>. QED
      BY <3>6 DEF m
  <2>2. CASE due <= to /\ from <= due
    <3>. DEFINE n == Cardinality(DueFrom(from)')   m == Cardinality(Between(from, to)')
    <3>1. Between(from, to)' \subseteq DueFrom(from)'
      BY <1>9 DEF Between, DueFrom
    <3>2. DueFrom(from)' \subseteq Caller
      BY DEF DueFrom
    <3>3. n \in Nat /\ m \in Nat /\ m <= n
      BY <3>1, <3>2, FS_Subset, FS_CardinalityType
    <3>4. Cost * n <= Capacity - level + Cost + tick - from
      BY <1>14, <2>2
    <3>. HIDE DEF n, m
    <3>5. Cost * m <= Cost * n /\ Cost * m \in Nat /\ Cost * n \in Nat
      BY <1>1, <3>3
    <3>6. Capacity - level + Cost + tick - from <= Capacity + (to - from)
      BY <1>1, <1>3, <1>4, <2>2
    <3>7. Cost * m <= Capacity + (to - from)
      BY <1>1, <1>3, <3>4, <3>5, <3>6
    <3>. QED
      BY <3>7 DEF m
  <2>3. CASE due < from
    <3>1. Between(from, to)' = {}
      BY <1>4, <1>6, <1>9, <1>10, <2>3 DEF Between
    <3>2. Cost * Cardinality(Between(from, to)') = 0
      BY <1>1, <3>1, FS_EmptySet
    <3>. QED
      BY <1>1, <3>2
  <2>. QED
    BY <1>4, <2>1, <2>2, <2>3
<1>. QED
  BY <1>8, <1>11, <1>15, <1>16

LEMMA CacheSteps ==
    ASSUME CacheInv, [CacheNext]_cacheVars
    PROVE  CacheInv'
<1>1. CASE UNCHANGED cacheVars
  BY <1>1, DuesKept DEF cacheVars, CacheInv, CallTypes
<1>2. CASE Tick
  BY <1>2, DuesKept DEF Tick, CacheInv, CallTypes
<1>3. ASSUME NEW k \in Caller, Hit(k) \/ Send(k) \/ Answered(k) \/ AnswerFails(k)
      PROVE  CacheInv'
  <2>1. UNCHANGED <<tokens, refilledAt, tick>>
    BY <1>3 DEF Hit, Send, Answered, AnswerFails
  <2>2. \E s \in {"sent", "done", "failed"} : call' = [call EXCEPT ![k].stage = s]
    BY <1>3 DEF Hit, Send, Answered, AnswerFails
  <2>3. DOMAIN call' = Caller /\ \A i \in Caller : call'[i].due = call[i].due
    BY <2>2 DEF CacheInv, CallTypes
  <2>. QED
    BY <2>1, <2>3, DuesKept DEF CacheInv, CallTypes
<1>4. ASSUME NEW k \in Caller, Miss(k) PROVE CacheInv'
  BY <1>4, Missed
<1>. QED
  BY <1>1, <1>2, <1>3, <1>4 DEF CacheNext

LEMMA CacheInvariant == CacheSpec => []CacheInv
<1>1. CacheInit => CacheInv
  <2>. SUFFICES ASSUME CacheInit PROVE CacheInv
    OBVIOUS
  <2>1. CallTypes /\ NoneLater /\ LastDue = 0 /\ tokens = Capacity /\ refilledAt = 0
    BY CacheConstants DEF CacheInit, CallTypes, NoneLater, LastDue, WaitFor, CacheConstants
  <2>2. \A from, to : DueFrom(from) = {} /\ (from \in Nat => Between(from, to) = {})
    BY DEF CacheInit, DueFrom, Between, None
  <2>3. Cost * Cardinality({}) = 0
    BY CacheConstants, FS_EmptySet DEF CacheConstants
  <2>4. PaidFor
    <3>1. Capacity \in Nat
      BY CacheConstants DEF CacheConstants
    <3>. SUFFICES ASSUME NEW from \in 0..0
                  PROVE  Cost * Cardinality(DueFrom(from)) <= Capacity - Capacity + 0 - from
      BY <2>1 DEF PaidFor
    <3>2. DueFrom(from) = {}
      BY <2>2
    <3>3. from = 0 /\ Cost * Cardinality(DueFrom(from)) = 0
      BY <2>3, <3>2
    <3>. QED
      BY <3>1, <3>3
  <2>5. RateAlways
    <3>1. Capacity \in Nat
      BY CacheConstants DEF CacheConstants
    <3>. SUFFICES ASSUME NEW from \in Nat, NEW to \in Nat, from <= to
                  PROVE  Cost * Cardinality(Between(from, to)) <= Capacity + (to - from)
      BY DEF RateAlways
    <3>2. Cost * Cardinality(Between(from, to)) = 0
      BY <2>2, <2>3
    <3>. QED
      BY <3>1, <3>2
  <2>. QED
    BY <2>1, <2>4, <2>5 DEF CacheInv
<1>. QED
  BY <1>1, CacheSteps, PTL DEF CacheSpec

LEMMA RateFollows == CacheInv => RateKept
<1>. SUFFICES ASSUME CacheInv, NEW j \in Caller, NEW k \in Caller,
                     call[j].due # None, call[j].due <= call[k].due
              PROVE  Cost * Cardinality(Between(call[j].due, call[k].due))
                        <= Capacity + (call[k].due - call[j].due)
  BY DEF RateKept, Between
<1>1. call[j].due \in Nat /\ call[k].due \in Nat
  BY DEF CacheInv, CallTypes, None
<1>. QED
  BY <1>1 DEF CacheInv, RateAlways

-----------------------------------------------------------------------------
(* Health answers *)

HealthEntry == [data : Nat, fetchedAt : Nat, error : BOOLEAN]

Dated(entry) == entry.fetchedAt > 0 /\ ~ entry.error => entry.data >= entry.fetchedAt

AgentInv ==
    /\ clockTime \in Nat
    /\ healthCache \in [Service -> HealthEntry]
    /\ request \in [Request -> [stage : Service \union {"idle", "done"}, since : Nat,
                                cached : HealthEntry, told : [Service -> HealthEntry]]]
    /\ \A r \in Request : request[r].since > 0 => request[r].stage \in Service
    /\ \A s \in Service : Dated(healthCache[s]) /\ \A r \in Request : Dated(request[r].told[s])

\* A request that is told a dated answer goes on.
LEMMA ToldDated ==
    ASSUME AgentInv, NEW r \in Request, request[r].stage \in Service,
           NEW entry \in HealthEntry, Dated(entry), Told(r, entry), UNCHANGED clockTime,
           \/ UNCHANGED healthCache
           \/ healthCache' = [healthCache EXCEPT ![request[r].stage] = entry]
    PROVE  AgentInv'
<1>. USE DEF AgentInv
<1>1. healthCache' \in [Service -> HealthEntry] /\ \A s \in Service : Dated(healthCache'[s])
  OBVIOUS
<1>2. PICK z \in Service : z = request[r].stage
  OBVIOUS
<1>3. request' = [request EXCEPT ![r] =
                    [request[r] EXCEPT !.stage = After(z), !.since = 0, !.told[z] = entry]]
  BY <1>2 DEF Told
<1>4. /\ request'[r].stage = After(z) /\ request'[r].since = 0
      /\ request'[r].cached = request[r].cached
      /\ request'[r].told = [request[r].told EXCEPT ![z] = entry]
      /\ \A q \in Request : q # r => request'[q] = request[q]
  BY <1>2, <1>3
<1>5. After(z) \in Service \union {"idle", "done"}
  BY DEF After, Service
<1>6. request' \in [Request -> [stage : Service \union {"idle", "done"}, since : Nat,
                               cached : HealthEntry, told : [Service -> HealthEntry]]]
  <2>. DEFINE T == [stage : Service \union {"idle", "done"}, since : Nat,
                    cached : HealthEntry, told : [Service -> HealthEntry]]
              old == request[r]
              step1 == [old EXCEPT !.stage = After(z)]
              step2 == [step1 EXCEPT !.since = 0]
              step3 == [step2 EXCEPT !.told[z] = entry]
  <2>1. old \in T
    OBVIOUS
  <2>2. step1 \in T /\ step2 \in T
    BY <1>5, <2>1
  <2>3. step3 \in T
    <3>. HIDE DEF step2
    <3>. QED
      BY <2>2
  <2>4. request' = [request EXCEPT ![r] = step3]
    BY <1>3
  <2>. HIDE DEF step3
  <2>. QED
    BY <2>3, <2>4
<1>7. \A s \in Service, q \in Request : Dated(request'[q].told[s])
  BY <1>4
<1>8. \A q \in Request : request'[q].since > 0 => request'[q].stage \in Service
  BY <1>4
<1>. QED
  BY <1>1, <1>6, <1>7, <1>8

LEMMA AgentSteps ==
    ASSUME AgentInv, [AgentNext]_agentVars
    PROVE  AgentInv'
<1>. USE DEF AgentInv
<1>1. CASE UNCHANGED agentVars
  BY <1>1 DEF agentVars
<1>2. CASE AgentClock
  BY <1>2 DEF AgentClock
<1>3. ASSUME NEW r \in Request, BeginRequest(r) PROVE AgentInv'
  <2>1. /\ request' = [request EXCEPT ![r].stage = "social-ingestor"]
        /\ UNCHANGED <<clockTime, healthCache>>
    BY <1>3 DEF BeginRequest
  <2>2. "social-ingestor" \in Service
    BY DEF Service
  <2>. QED
    BY <2>1, <2>2
<1>4. ASSUME NEW r \in Request, UseCached(r) PROVE AgentInv'
  <2>1. /\ request[r].stage \in Service /\ Told(r, healthCache[request[r].stage])
        /\ UNCHANGED <<clockTime, healthCache>>
    BY <1>4 DEF UseCached, Asking
  <2>. QED
    BY <2>1, ToldDated
<1>5. ASSUME NEW r \in Request, Ask(r) PROVE AgentInv'
  <2>1. /\ request[r].stage \in Service
        /\ request' = [request EXCEPT ![r].since = clockTime,
                                      ![r].cached = healthCache[request[r].stage]]
        /\ UNCHANGED <<clockTime, healthCache>>
    BY <1>5 DEF Ask, Asking
  <2>. QED
    BY <2>1
<1>6. ASSUME NEW r \in Request, NextRequest(r) PROVE AgentInv'
  <2>1. /\ request' = [request EXCEPT ![r] =
                        [stage |-> "idle", since |-> 0, cached |-> Nothing,
                         told |-> [s \in Service |-> Nothing]]]
        /\ UNCHANGED <<clockTime, healthCache>>
    BY <1>6 DEF NextRequest
  <2>2. Nothing \in HealthEntry /\ Dated(Nothing)
    BY DEF Nothing, HealthEntry, Dated
  <2>. QED
    BY <2>1, <2>2
<1>7. ASSUME NEW r \in Request, HealthArrives(r) PROVE AgentInv'
  <2>1. PICK seen \in request[r].since..clockTime : Keep(r, Entry(r, seen, FALSE))
    BY <1>7 DEF HealthArrives
  <2>2. request[r].since > 0 /\ request[r].since \in Nat /\ request[r].stage \in Service
    BY <1>7 DEF HealthArrives, Waits
  <2>3. Entry(r, seen, FALSE) \in HealthEntry /\ Dated(Entry(r, seen, FALSE))
    BY <2>1, <2>2 DEF Entry, HealthEntry, Dated
  <2>. QED
    BY <2>1, <2>2, <2>3, ToldDated DEF Keep
<1>8. ASSUME NEW r \in Request, HealthFails(r) PROVE AgentInv'
  <2>1. Keep(r, Entry(r, request[r].cached.data, TRUE))
    BY <1>8 DEF HealthFails
  <2>2. request[r].since > 0 /\ request[r].since \in Nat /\ request[r].stage \in Service
    BY <1>8 DEF HealthFails, Waits
  <2>3. /\ Entry(r, request[r].cached.data, TRUE) \in HealthEntry
        /\ Dated(Entry(r, request[r].cached.data, TRUE))
    BY <2>2 DEF Entry, HealthEntry, Dated
  <2>. QED
    BY <2>1, <2>2, <2>3, ToldDated DEF Keep
<1>. QED
  BY <1>1, <1>2, <1>3, <1>4, <1>5, <1>6, <1>7, <1>8 DEF AgentNext

LEMMA AgentInvariant == AgentSpec => []AgentInv
<1>1. AgentInit => AgentInv
  BY DEF AgentInit, AgentInv, Nothing, HealthEntry, Dated, Service
<1>. QED
  BY <1>1, AgentSteps, PTL DEF AgentSpec

LEMMA HealthFollows == AgentInv => HealthIsDated
  BY DEF AgentInv, HealthIsDated, Dated

-----------------------------------------------------------------------------
(* The dashboard's rates *)

Totalled == [now : Nat, ever : Nat]

FeedTypes ==
    /\ feed \in {"route", "summary"}
    /\ counter \in Totalled
    /\ loads \in [LoadSlot -> [stage : {"idle", "asked", "answered"}, now : Nat, ever : Nat]]
    /\ previous \in [known : BOOLEAN, total : Nat]
    /\ increases \in Nat /\ since \in Nat /\ upTo \in Nat /\ ends \in Nat
    /\ dipped \in BOOLEAN /\ overtaken \in BOOLEAN

OneLoad ==
    \A p, q \in LoadSlot : loads[p].stage # "idle" /\ loads[q].stage # "idle" => p = q

\* A count of a moment goes on from that of an earlier one, or from zero.
GoesOn(now, ever, now0, ever0) ==
    /\ ever0 <= ever /\ now <= now0 + (ever - ever0)
    /\ ends = 0 => now = ever /\ now0 = ever0

\* The moments of the totals, the answer under way and the service follow each other.
MomentsInOrder ==
    /\ upTo <= counter.ever /\ since <= upTo
    /\ previous.known => GoesOn(counter.now, counter.ever, previous.total, upTo)
    /\ \A p \in LoadSlot : loads[p].stage = "answered" =>
        /\ GoesOn(counter.now, counter.ever, loads[p].now, loads[p].ever)
        /\ previous.known => GoesOn(loads[p].now, loads[p].ever, previous.total, upTo)
    /\ ends = 0 => counter.now = counter.ever

FeedInv ==
    /\ FeedTypes
    /\ ~ overtaken => OneLoad /\ (~ dipped => MomentsInOrder)
    /\ RatesAddUp

LEMMA FeedSteps ==
    ASSUME FeedInv, [FeedNext]_rateVars
    PROVE  FeedInv'
<1>. USE DEF FeedInv
<1>1. CASE UNCHANGED rateVars
  BY <1>1 DEF rateVars, FeedTypes, OneLoad, MomentsInOrder, GoesOn, RatesAddUp
<1>2. CASE Count
  <2>1. /\ counter' = [now |-> counter.now + 1, ever |-> counter.ever + 1]
        /\ UNCHANGED <<feed, loads, previous, increases, since, upTo, ends, dipped, overtaken>>
    BY <1>2 DEF Count
  <2>2. FeedTypes' /\ (OneLoad => OneLoad') /\ RatesAddUp'
    BY <2>1 DEF FeedTypes, Totalled, OneLoad, RatesAddUp
  <2>3. MomentsInOrder => MomentsInOrder'
    BY <2>1 DEF FeedTypes, Totalled, MomentsInOrder, GoesOn
  <2>. QED
    BY <2>1, <2>2, <2>3
<1>3. CASE ServiceEnds
  <2>1. /\ ends' = ends + 1 /\ counter' = [counter EXCEPT !.now = 0]
        /\ UNCHANGED <<feed, loads, previous, increases, since, upTo, dipped, overtaken>>
    BY <1>3 DEF ServiceEnds
  <2>2. FeedTypes' /\ (OneLoad => OneLoad') /\ RatesAddUp'
    BY <2>1 DEF FeedTypes, Totalled, OneLoad, RatesAddUp
  <2>3. MomentsInOrder => MomentsInOrder'
    BY <2>1 DEF FeedTypes, Totalled, MomentsInOrder, GoesOn
  <2>. QED
    BY <2>1, <2>2, <2>3
<1>4. ASSUME NEW p \in LoadSlot, BeginLoad(p) PROVE FeedInv'
  <2>1. /\ loads[p].stage = "idle" /\ loads' = [loads EXCEPT ![p].stage = "asked"]
        /\ overtaken' = (overtaken \/ \E q \in LoadSlot : loads[q].stage # "idle")
        /\ UNCHANGED <<feed, counter, previous, increases, since, upTo, ends, dipped>>
    BY <1>4 DEF BeginLoad
  <2>2. FeedTypes' /\ RatesAddUp'
    BY <2>1 DEF FeedTypes, RatesAddUp
  <2>3. ~ overtaken' => OneLoad'
    BY <2>1 DEF FeedTypes, OneLoad
  <2>4. MomentsInOrder => MomentsInOrder'
    BY <2>1 DEF FeedTypes, MomentsInOrder, GoesOn
  <2>. QED
    BY <2>1, <2>2, <2>3, <2>4
<1>5. ASSUME NEW p \in LoadSlot, AnswerTaken(p) PROVE FeedInv'
  <2>1. /\ loads[p].stage = "asked"
        /\ loads' = [loads EXCEPT ![p] = [stage |-> "answered", now |-> counter.now,
                                          ever |-> counter.ever]]
        /\ UNCHANGED <<feed, counter, previous, increases, since, upTo, ends, dipped, overtaken>>
    BY <1>5 DEF AnswerTaken
  <2>2. FeedTypes' /\ RatesAddUp'
    BY <2>1 DEF FeedTypes, Totalled, RatesAddUp
  <2>3. OneLoad => OneLoad'
    BY <2>1 DEF FeedTypes, OneLoad
  <2>4. MomentsInOrder => MomentsInOrder'
    BY <2>1 DEF FeedTypes, Totalled, MomentsInOrder, GoesOn
  <2>. QED
    BY <2>1, <2>2, <2>3, <2>4
<1>6. ASSUME NEW p \in LoadSlot, Shown(p) PROVE FeedInv'
  <2>. DEFINE l == loads[p]
  <2>1. /\ l.stage = "answered" /\ previous' = [known |-> TRUE, total |-> l.now]
        /\ increases' = IF previous.known THEN increases + Increase(l.now) ELSE 0
        /\ since' = IF previous.known THEN since ELSE l.ever
        /\ upTo' = l.ever /\ loads' = [loads EXCEPT ![p] = NoAnswer]
        /\ UNCHANGED <<feed, counter, ends, dipped, overtaken>>
    BY <1>6 DEF Shown, Totals
  <2>2. /\ l.now \in Nat /\ l.ever \in Nat /\ previous.total \in Nat /\ previous.known \in BOOLEAN
        /\ increases \in Nat /\ since \in Nat /\ upTo \in Nat
    BY DEF FeedTypes
  <2>3. Increase(l.now) \in Nat
    BY <2>2 DEF Increase
  <2>4. FeedTypes'
    BY <2>1, <2>2, <2>3 DEF FeedTypes, NoAnswer
  <2>5. OneLoad => OneLoad'
    BY <2>1 DEF FeedTypes, OneLoad, NoAnswer
  <2>6. ASSUME ~ overtaken, ~ dipped PROVE MomentsInOrder'
    <3>1. \A q \in LoadSlot : loads'[q].stage # "answered"
      BY <2>1, <2>6 DEF FeedTypes, OneLoad, NoAnswer
    <3>2. /\ GoesOn(counter.now, counter.ever, l.now, l.ever)
          /\ previous.known => upTo <= l.ever
          /\ since <= upTo /\ (ends = 0 => counter.now = counter.ever)
      BY <2>1, <2>6 DEF MomentsInOrder, GoesOn
    <3>3. since' <= upTo' /\ upTo' <= counter'.ever
      BY <2>1, <2>2, <3>2 DEF GoesOn
    <3>. QED
      BY <2>1, <3>1, <3>2, <3>3 DEF MomentsInOrder, GoesOn
  <2>7. RatesAddUp'
    <3>. SUFFICES ASSUME ~ overtaken, ~ dipped
                  PROVE  increases' <= upTo' - since' /\ (ends = 0 => increases' = upTo' - since')
      BY <2>1 DEF RatesAddUp
    <3>1. CASE previous.known
      <4>1. /\ GoesOn(l.now, l.ever, previous.total, upTo)
            /\ increases <= upTo - since /\ (ends = 0 => increases = upTo - since)
        BY <2>1, <3>1 DEF MomentsInOrder, RatesAddUp
      <4>2. /\ Increase(l.now) <= l.ever - upTo
            /\ ends = 0 => Increase(l.now) = l.ever - upTo
        BY <2>2, <4>1 DEF GoesOn, Increase
      <4>3. increases' = increases + Increase(l.now) /\ since' = since /\ upTo' = l.ever
        BY <2>1, <3>1
      <4>. HIDE DEF l
      <4>. QED
        BY <2>2, <2>3, <4>1, <4>2, <4>3
    <3>2. CASE ~ previous.known
      BY <2>1, <2>2, <3>2
    <3>. QED
      BY <3>1, <3>2
  <2>. QED
    BY <2>1, <2>4, <2>5, <2>6, <2>7
<1>7. ASSUME NEW p \in LoadSlot, ScrapeFails(p) PROVE FeedInv'
  <2>1. /\ dipped' = TRUE /\ previous' = [known |-> TRUE, total |-> 0]
        /\ loads' = [loads EXCEPT ![p] = NoAnswer]
        /\ UNCHANGED <<feed, counter, increases, since, upTo, ends, overtaken>>
    BY <1>7 DEF ScrapeFails, PollFault, Totals
  <2>2. FeedTypes' /\ RatesAddUp'
    BY <2>1 DEF FeedTypes, RatesAddUp, NoAnswer
  <2>3. OneLoad => OneLoad'
    BY <2>1 DEF FeedTypes, OneLoad, NoAnswer
  <2>. QED
    BY <2>1, <2>2, <2>3
<1>8. ASSUME NEW p \in LoadSlot, SummaryFails(p) PROVE FeedInv'
  <2>1. /\ previous' \in {previous, [known |-> FALSE, total |-> 0]}
        /\ loads' = [loads EXCEPT ![p] = NoAnswer]
        /\ UNCHANGED <<feed, counter, increases, since, upTo, ends, dipped, overtaken>>
    BY <1>8 DEF SummaryFails, PollFault, Forgotten, NoTotals
  <2>2. FeedTypes' /\ RatesAddUp'
    <3>1. previous' \in [known : BOOLEAN, total : Nat]
      <4>1. [known |-> FALSE, total |-> 0] \in [known : BOOLEAN, total : Nat]
        OBVIOUS
      <4>2. previous \in [known : BOOLEAN, total : Nat]
        BY DEF FeedTypes
      <4>3. previous' = previous \/ previous' = [known |-> FALSE, total |-> 0]
        BY <2>1
      <4>. QED
        BY <4>1, <4>2, <4>3
    <3>2. loads' \in [LoadSlot -> [stage : {"idle", "asked", "answered"}, now : Nat, ever : Nat]]
      BY <2>1 DEF FeedTypes, NoAnswer
    <3>. QED
      BY <2>1, <3>1, <3>2 DEF FeedTypes, RatesAddUp
  <2>3. OneLoad => OneLoad'
    BY <2>1 DEF FeedTypes, OneLoad, NoAnswer
  <2>4. MomentsInOrder => MomentsInOrder'
    BY <2>1 DEF FeedTypes, MomentsInOrder, GoesOn, NoAnswer
  <2>. QED
    BY <2>1, <2>2, <2>3, <2>4
<1>. QED
  BY <1>1, <1>2, <1>3, <1>4, <1>5, <1>6, <1>7, <1>8 DEF FeedNext

LEMMA FeedInvariant == FeedSpec => []FeedInv
<1>1. FeedInit => FeedInv
  <2>. SUFFICES ASSUME FeedInit PROVE FeedInv
    OBVIOUS
  <2>1. FeedTypes
    BY DEF FeedInit, FeedTypes, Totalled, NoAnswer, NoTotals
  <2>2. OneLoad
    BY DEF FeedInit, OneLoad, NoAnswer
  <2>3. MomentsInOrder
    <3>1. ~ previous.known /\ \A p \in LoadSlot : loads[p].stage # "answered"
      BY DEF FeedInit, NoAnswer, NoTotals
    <3>2. upTo = 0 /\ since = 0 /\ counter.ever = 0 /\ counter.now = 0
      BY DEF FeedInit
    <3>. QED
      BY <3>1, <3>2 DEF MomentsInOrder
  <2>4. RatesAddUp
    BY DEF FeedInit, RatesAddUp
  <2>. QED
    BY <2>1, <2>2, <2>3, <2>4 DEF FeedInv
<1>. QED
  BY <1>1, FeedSteps, PTL DEF FeedSpec

-----------------------------------------------------------------------------

\* However many callers miss at once, however long the bucket was idle or in debt, the
\* provider is asked at the rate of its limit; what agent-core tells without an error
\* mark is no older than its date, although requests overlap; and the dashboard's
\* increases add up to what was counted, but for answers that overtook each other and
\* scrapes that failed (tokenBucket.ts, cacheClient.ts; agent-core; ui-gateway).
THEOREM ServingSound == CacheSpec /\ AgentSpec /\ FeedSpec => []ServingIsSound
<1>1. CacheInv /\ AgentInv /\ FeedInv => ServingIsSound
  BY RateFollows, HealthFollows DEF ServingIsSound, FeedInv
<1>. QED
  BY <1>1, CacheInvariant, AgentInvariant, FeedInvariant, PTL

-----------------------------------------------------------------------------
(* The windows of the narrative miner *)

WindowOf ==
    [on : {TRUE}, opened : Nat, refreshed : Nat, expires : Nat,
     score : {"low", "high", "higher"}]
WindowTypes ==
    /\ windows \in [Topic -> WindowOf \union {Absent}]
    /\ windowRows \in [Topic -> WindowOf \union {Absent}]
    /\ guard \in [Topic -> Nat]
    /\ time \in Nat

\* The guard of a topic that is not watched is open: the next window is written.
GuardIsOpen == \A t \in Topic : ~windows[t].on => guard[t] = 0

WindowInv == WindowTypes /\ GuardIsOpen /\ RowsFollowWindows

LEMMA OnOrOff ==
    /\ \A w \in WindowOf : w.on = TRUE
    /\ Absent.on = FALSE
  BY DEF WindowOf, Absent

\* A window that was opened or refreshed and written, unless the write throws.
LEMMA WrittenWindow ==
    ASSUME WindowInv, NEW t \in Topic, NEW w \in WindowOf,
           windows' = [windows EXCEPT ![t] = w], time' \in Nat,
           guard' = [guard EXCEPT ![t] = w.refreshed],
           WriteRows({t}, [x \in {t} |-> w])
    PROVE  WindowInv'
<1>1. PICK failing \in SUBSET {t} :
         /\ windowRows' = [x \in Topic |->
                IF x \in {t} \ failing THEN [y \in {t} |-> w][x] ELSE windowRows[x]]
         /\ unsaved' = (unsaved \ {t}) \union failing
  BY DEF WriteRows
<1>2. /\ windows'[t] = w /\ guard'[t] = w.refreshed
      /\ t \notin failing => windowRows'[t] = w
      /\ t \in failing => windowRows'[t] = windowRows[t] /\ t \in unsaved'
      /\ w.refreshed \in Nat /\ w.on = TRUE
  BY <1>1, OnOrOff DEF WindowInv, WindowTypes, WindowOf
<1>3. \A x \in Topic \ {t} :
         /\ windows'[x] = windows[x] /\ guard'[x] = guard[x]
         /\ windowRows'[x] = windowRows[x] /\ (x \in unsaved' <=> x \in unsaved)
  BY <1>1 DEF WindowInv, WindowTypes
<1>4. WindowTypes'
  <2>1. \A x \in Topic : windowRows'[x] \in WindowOf \union {Absent}
    BY <1>2, <1>3 DEF WindowInv, WindowTypes
  <2>2. windowRows' \in [Topic -> WindowOf \union {Absent}]
    BY <1>1, <2>1
  <2>. QED
    BY <1>2, <2>2 DEF WindowInv, WindowTypes
<1>5. GuardIsOpen'
  BY <1>2, <1>3 DEF WindowInv, GuardIsOpen
<1>6. RowsFollowWindows'
  BY <1>2, <1>3 DEF WindowInv, RowsFollowWindows
<1>. QED
  BY <1>4, <1>5, <1>6 DEF WindowInv

\* A window that goes on without being written.
LEMMA UnwrittenWindow ==
    ASSUME WindowInv, NEW t \in Topic, NEW w \in WindowOf, windows[t].on,
           w.opened = windows[t].opened,
           windows' = [windows EXCEPT ![t] = w],
           UNCHANGED <<guard, windowRows, time, unsaved>>
    PROVE  WindowInv'
<1>1. windows'[t] = w /\ w.on = TRUE /\ \A x \in Topic \ {t} : windows'[x] = windows[x]
  BY OnOrOff DEF WindowInv, WindowTypes
<1>2. WindowTypes'
  BY DEF WindowInv, WindowTypes
<1>3. GuardIsOpen' /\ RowsFollowWindows'
  BY <1>1 DEF WindowInv, GuardIsOpen, RowsFollowWindows
<1>. QED
  BY <1>2, <1>3 DEF WindowInv

LEMMA OpensWindow ==
    ASSUME WindowConstants, WindowInv, NEW t \in Topic, NEW score \in Opening, NEW at \in 1..time,
           Open(t, score, at)
    PROVE  WindowInv'
<1>. DEFINE w == [on |-> TRUE, opened |-> at, refreshed |-> at,
                  expires |-> at + Duration, score |-> score]
<1>1. w \in WindowOf /\ time \in Nat /\ time' = time
  BY DEF WindowOf, Opening, WindowConstants, WindowInv, WindowTypes, Open
<1>2. windows' = [windows EXCEPT ![t] = w] /\ windows'[t] = w
  BY DEF Open, WindowInv, WindowTypes
<1>3. guard[t] = 0
  BY DEF Open, WindowInv, GuardIsOpen
<1>4. guard' = [guard EXCEPT ![t] = w.refreshed] /\ WriteRows({t}, [x \in {t} |-> w])
  BY <1>2, <1>3 DEF Open, Record
<1>. QED
  BY <1>1, <1>2, <1>4, WrittenWindow

LEMMA ExtendsWindow ==
    ASSUME WindowConstants, WindowInv, NEW t \in Topic, NEW score \in Opening, NEW at \in 1..time,
           Extend(t, score, at)
    PROVE  WindowInv'
<1>. DEFINE w == windows'[t]
<1>1. windows[t] \in WindowOf /\ time \in Nat /\ time' = time
  BY OnOrOff DEF Extend, WindowInv, WindowTypes
<1>2. /\ w = [windows[t] EXCEPT !.refreshed = at, !.score = score, !.expires = at + Duration]
      /\ windows' = [windows EXCEPT ![t] = w]
  BY DEF Extend, WindowInv, WindowTypes
<1>3. w \in WindowOf /\ w.opened = windows[t].opened
  <2>1. at \in Nat /\ at + Duration \in Nat /\ score \in {"low", "high", "higher"}
    BY <1>1 DEF Opening, WindowConstants
  <2>. HIDE DEF w
  <2>. QED
    BY <1>1, <1>2, <2>1 DEF WindowOf
<1>4. \/ Record(t, w)
      \/ UNCHANGED <<guard, windowRows, unsaved, faults>>
  BY DEF Extend
<1>5. \/ guard' = [guard EXCEPT ![t] = w.refreshed] /\ WriteRows({t}, [x \in {t} |-> w])
      \/ UNCHANGED <<guard, windowRows, unsaved>>
  BY <1>4 DEF Record
<1>6. CASE guard' = [guard EXCEPT ![t] = w.refreshed] /\ WriteRows({t}, [x \in {t} |-> w])
  <2>. HIDE DEF w
  <2>. QED
    BY <1>1, <1>2, <1>3, <1>6, WrittenWindow
<1>7. CASE UNCHANGED <<guard, windowRows, unsaved>>
  <2>1. windows[t].on
    BY DEF Extend
  <2>. HIDE DEF w
  <2>. QED
    BY <1>1, <1>2, <1>3, <1>7, <2>1, UnwrittenWindow
<1>. QED
  BY <1>5, <1>6, <1>7

LEMMA FadesWindow ==
    ASSUME WindowInv, NEW t \in Topic, Fade(t)
    PROVE  WindowInv'
<1>. DEFINE w == [windows[t] EXCEPT !.score = "low"]
<1>1. windows[t] \in WindowOf
  BY OnOrOff DEF Fade, WindowInv, WindowTypes
<1>2. w \in WindowOf /\ w.opened = windows[t].opened
  BY <1>1 DEF WindowOf
<1>3. windows' = [windows EXCEPT ![t] = w]
  BY DEF Fade
<1>4. windows[t].on /\ UNCHANGED <<guard, windowRows, time, unsaved>>
  BY DEF Fade
<1>. HIDE DEF w
<1>. QED
  BY <1>2, <1>3, <1>4, UnwrittenWindow

LEMMA PrunesWindows ==
    ASSUME WindowInv, Prune
    PROVE  WindowInv'
<1>. DEFINE gone == Expired(windows)
<1>1. PICK failing \in SUBSET gone :
         /\ windowRows' = [t \in Topic |->
                IF t \in gone \ failing THEN [x \in gone |-> Absent][t] ELSE windowRows[t]]
         /\ unsaved' = (unsaved \ gone) \union failing
  BY DEF Prune, Closed, WriteRows
<1>2. /\ windows' = [t \in Topic |-> IF t \in gone THEN Absent ELSE windows[t]]
      /\ guard' = [t \in Topic |-> IF t \in gone THEN 0 ELSE guard[t]]
      /\ time' = time
  BY DEF Prune, Closed
<1>. HIDE DEF gone
<1>3. WindowTypes'
  BY <1>1, <1>2 DEF WindowInv, WindowTypes
<1>4. GuardIsOpen'
  BY <1>2 DEF WindowInv, GuardIsOpen
<1>5. RowsFollowWindows'
  <2>1. SUFFICES ASSUME NEW t \in Topic \ unsaved'
                 PROVE  /\ windows'[t].on <=> windowRows'[t].on
                        /\ windows'[t].on => /\ windowRows'[t].opened = windows'[t].opened
                                             /\ windowRows'[t].refreshed = guard'[t]
    BY DEF RowsFollowWindows
  <2>2. CASE t \in gone
    BY <1>1, <1>2, <2>2 DEF Absent
  <2>3. CASE t \notin gone
    <3>1. t \notin unsaved
      BY <1>1, <2>3
    <3>2. windowRows'[t] = windowRows[t] /\ windows'[t] = windows[t] /\ guard'[t] = guard[t]
      BY <1>1, <1>2, <2>3
    <3>. QED
      BY <3>1, <3>2 DEF WindowInv, RowsFollowWindows
  <2>. QED
    BY <2>2, <2>3
<1>. QED
  BY <1>3, <1>4, <1>5 DEF WindowInv

LEMMA RebootsWindows ==
    ASSUME WindowInv, Reboot
    PROVE  WindowInv'
<1>. DEFINE gone == Expired(windowRows)
<1>1. PICK failing \in SUBSET gone :
         /\ windowRows' = [t \in Topic |->
                IF t \in gone \ failing THEN Absent ELSE windowRows[t]]
         /\ unsaved' = failing
  BY DEF Reboot
<1>2. /\ windows' = [t \in Topic |-> IF t \in gone THEN Absent ELSE windowRows[t]]
      /\ guard' = [t \in Topic |-> IF t \in Saved \ gone THEN windowRows[t].refreshed ELSE 0]
      /\ time' = time
  BY DEF Reboot
<1>. HIDE DEF gone
<1>3. \A t \in Saved : windowRows[t] \in WindowOf /\ windowRows[t].refreshed \in Nat
  BY OnOrOff DEF Saved, WindowInv, WindowTypes, WindowOf
<1>4. WindowTypes'
  BY <1>1, <1>2, <1>3 DEF WindowInv, WindowTypes
<1>5. GuardIsOpen'
  <2>1. \A t \in Topic : t \in Saved \ gone => windows'[t].on
    BY <1>2 DEF Saved
  <2>. QED
    BY <1>2, <2>1 DEF GuardIsOpen
<1>6. RowsFollowWindows'
  <2>1. SUFFICES ASSUME NEW t \in Topic, t \notin failing
                 PROVE  /\ windows'[t].on <=> windowRows'[t].on
                        /\ windows'[t].on => /\ windowRows'[t].opened = windows'[t].opened
                                             /\ windowRows'[t].refreshed = guard'[t]
    BY <1>1 DEF RowsFollowWindows
  <2>2. windows'[t] = windowRows'[t]
    BY <1>1, <1>2, <2>1
  <2>3. windows'[t].on => t \in Saved \ gone /\ windowRows'[t] = windowRows[t]
    BY <1>1, <1>2, <2>1 DEF Saved, Absent
  <2>. QED
    BY <1>2, <2>2, <2>3
<1>. QED
  BY <1>4, <1>5, <1>6 DEF WindowInv

LEMMA WindowInvariant == ASSUME WindowConstants PROVE WindowSpec => []WindowInv
<1>1. WindowInit => WindowInv
  BY DEF WindowInit, WindowInv, WindowTypes, GuardIsOpen, RowsFollowWindows, Absent
<1>2. WindowInv /\ [WindowNext]_windowVars => WindowInv'
  <2>. SUFFICES ASSUME WindowInv, [WindowNext]_windowVars PROVE WindowInv'
    OBVIOUS
  <2>1. CASE Prune
    BY <2>1, PrunesWindows
  <2>2. CASE Reboot
    BY <2>2, RebootsWindows
  <2>3. CASE WindowClock
    BY <2>3 DEF WindowClock, WindowInv, WindowTypes, GuardIsOpen, RowsFollowWindows
  <2>4. ASSUME NEW t \in Topic, Fade(t) PROVE WindowInv'
    BY <2>4, FadesWindow
  <2>5. ASSUME NEW t \in Topic, NEW at \in 1..time, NEW score \in Opening,
               Open(t, score, at) \/ Extend(t, score, at)
        PROVE  WindowInv'
    BY <2>5, OpensWindow, ExtendsWindow
  <2>6. CASE UNCHANGED windowVars
    BY <2>6 DEF windowVars, WindowInv, WindowTypes, GuardIsOpen, RowsFollowWindows
  <2>. QED
    BY <2>1, <2>2, <2>3, <2>4, <2>5, <2>6 DEF WindowNext
<1>. QED
  BY <1>1, <1>2, PTL DEF WindowSpec

-----------------------------------------------------------------------------
(* What the narrative miner counts *)

Times == Seq(Nat)
StatOf == [events : Times, head : Nat, posts : Int]
GoodStat(s) == s \in StatOf /\ s.head <= Len(s.events)

\* The posts that a phrase counts beyond those in its window.
Surplus(s) == s.posts - (Len(s.events) - s.head)

StatisticsTypes ==
    /\ tracked \in Seq(Phrase)
    /\ DOMAIN stat = Phrase /\ \A p \in Phrase : GoodStat(stat[p])
    /\ cutLive \in [Phrase -> Nat]
    /\ DOMAIN baseline = Phrase /\ DOMAIN baselineRows = Phrase

StatisticsInv ==
    /\ StatisticsTypes
    /\ \A p \in Phrase : Surplus(stat[p]) = cutLive[p]
    /\ DirtyUntilFlushed

LEMMA LeastNumber ==
    ASSUME NEW S, S \subseteq Nat, S # {}
    PROVE  Min(S) \in S /\ \A k \in S : Min(S) <= k
<1>1. PICK n \in S : \A k \in S : ~ (<<k, n>> \in OpToRel(<, Nat))
  BY NatLessThanWellFounded, WFMin
<1>2. \A k \in S : ~ (k < n)
  BY <1>1 DEF OpToRel
<1>3. n \in S /\ \A k \in S : n <= k
  BY <1>2
<1>. QED
  BY <1>3 DEF Min

LEMMA CutFront ==
    ASSUME NEW e \in Times, NEW n \in 0..Len(e)
    PROVE  SubSeq(e, n + 1, Len(e)) \in Times /\ Len(SubSeq(e, n + 1, Len(e))) = Len(e) - n
<1>1. e \in Seq(Nat) /\ Len(e) \in Nat
  BY LenProperties DEF Times
<1>2. \A i \in n + 1..Len(e) : e[i] \in Nat
  BY <1>1, ElementOfSeq
<1>3. /\ SubSeq(e, n + 1, Len(e)) \in Times
      /\ Len(SubSeq(e, n + 1, Len(e))) = IF n + 1 <= Len(e) THEN Len(e) - (n + 1) + 1 ELSE 0
  BY <1>1, <1>2, SubSeqProperties DEF Times
<1>. QED
  BY <1>1, <1>3

LEMMA CompactedKeeps ==
    ASSUME StatisticsConstants, NEW s, GoodStat(s)
    PROVE  GoodStat(Compacted(s)) /\ Surplus(Compacted(s)) = Surplus(s)
<1>. DEFINE e == SubSeq(s.events, s.head + 1, Len(s.events))
<1>1. /\ s.events \in Times /\ s.head \in 0..Len(s.events) /\ s.posts \in Int
      /\ Len(s.events) \in Nat /\ s \in StatOf
  BY DEF GoodStat, StatOf, Times
<1>2. CASE s.head > CompactAbove /\ 2 * s.head > Len(s.events)
  <2>1. Compacted(s) = [s EXCEPT !.events = e, !.head = 0]
    BY <1>2 DEF Compacted
  <2>2. e \in Times /\ Len(e) = Len(s.events) - s.head
    BY <1>1, CutFront
  <2>. HIDE DEF e
  <2>3. /\ Compacted(s) \in StatOf
        /\ Compacted(s).events = e /\ Compacted(s).head = 0 /\ Compacted(s).posts = s.posts
    <3>1. Compacted(s) = [s EXCEPT !.events = e, !.head = 0, !.posts = s.posts]
      BY <1>1, <2>1 DEF StatOf
    <3>2. e \in Times /\ 0 \in Nat /\ s.posts \in Int
      BY <1>1, <2>2
    <3>. DEFINE c == Compacted(s)
    <3>. HIDE DEF c
    <3>3. c = [s EXCEPT !.events = e, !.head = 0, !.posts = s.posts]
      BY <3>1 DEF c
    <3>4. c \in StatOf /\ c.events = e /\ c.head = 0 /\ c.posts = s.posts
      BY <1>1, <3>2, <3>3 DEF StatOf
    <3>. QED
      BY <3>4 DEF c
  <2>. QED
    BY <1>1, <2>2, <2>3 DEF GoodStat, Surplus
<1>3. CASE ~(s.head > CompactAbove /\ 2 * s.head > Len(s.events))
  BY <1>3 DEF Compacted
<1>. QED
  BY <1>2, <1>3

LEMMA PrunedKeeps ==
    ASSUME StatisticsConstants, NEW s, GoodStat(s), NEW now
    PROVE  GoodStat(Pruned(s, now)) /\ Surplus(Pruned(s, now)) = Surplus(s)
<1>. DEFINE H == {i \in s.head..Len(s.events) :
                    i = Len(s.events) \/ s.events[i + 1] + Span >= now}
            h == Min(H)
            r == [s EXCEPT !.head = h, !.posts = @ - (h - s.head)]
<1>1. /\ s.events \in Times /\ s.head \in 0..Len(s.events) /\ s.posts \in Int
      /\ Len(s.events) \in Nat /\ s \in StatOf
  BY DEF GoodStat, StatOf, Times
<1>2. H \subseteq Nat /\ Len(s.events) \in H
  BY <1>1
<1>3. h \in H
  <2>. HIDE DEF H
  <2>. QED
    BY <1>2, LeastNumber
<1>4. h \in s.head..Len(s.events)
  BY <1>3
<1>. HIDE DEF h
<1>5. /\ r \in StatOf /\ r.events = s.events /\ r.head = h
      /\ r.posts = s.posts - (h - s.head)
  <2>1. r = [s EXCEPT !.events = s.events, !.head = h, !.posts = s.posts - (h - s.head)]
    BY <1>1 DEF StatOf
  <2>2. h \in Nat /\ s.posts - (h - s.head) \in Int
    BY <1>1, <1>4
  <2>. HIDE DEF r
  <2>. QED
    BY <1>1, <2>1, <2>2 DEF StatOf
<1>6. Pruned(s, now) = Compacted(r)
  BY DEF Pruned, h
<1>. HIDE DEF r
<1>7. GoodStat(r) /\ Surplus(r) = Surplus(s)
  <2>1. r.head <= Len(r.events)
    BY <1>1, <1>4, <1>5
  <2>2. r.posts - (Len(r.events) - r.head) = s.posts - (Len(s.events) - s.head)
    <3>1. s.posts \in Int /\ h \in Int /\ s.head \in Int /\ Len(s.events) \in Int
      BY <1>1, <1>4
    <3>2. \A p, i, j, n \in Int : p - (j - i) - (n - j) = p - (n - i)
      OBVIOUS
    <3>3. s.posts - (h - s.head) - (Len(s.events) - h) = s.posts - (Len(s.events) - s.head)
      BY ONLY <3>1, <3>2
    <3>. QED
      BY ONLY <1>5, <3>3
  <2>. QED
    BY <1>5, <2>1, <2>2 DEF GoodStat, Surplus
<1>. QED
  BY <1>6, <1>7, CompactedKeeps

StatIs(s, e, h, n) == s \in StatOf /\ s.events = e /\ s.head = h /\ s.posts = n

LEMMA StatWith ==
    ASSUME NEW s \in StatOf, NEW e \in Times, NEW h \in Nat, NEW n \in Int
    PROVE  StatIs([s EXCEPT !.events = e, !.head = h, !.posts = n], e, h, n)
  BY DEF StatOf, StatIs

LEMMA SurplusIs ==
    ASSUME NEW s, NEW e, NEW h, NEW n, StatIs(s, e, h, n)
    PROVE  Surplus(s) = n - (Len(e) - h)
  BY DEF StatIs, Surplus

\* What the limit cuts of what is in the window.
CutOf(s) == IF Len(s.events) >= MaxKept /\ CutSize > s.head THEN CutSize - s.head ELSE 0

LEMMA LimitedCuts ==
    ASSUME StatisticsConstants, NEW s, GoodStat(s)
    PROVE  /\ GoodStat(Limited(s)) /\ CutOf(s) \in Nat
           /\ Surplus(Limited(s)) = Surplus(s) + CutOf(s)
<1>. DEFINE e == SubSeq(s.events, CutSize + 1, Len(s.events))
            h == IF s.head > CutSize THEN s.head - CutSize ELSE 0
<1>1. /\ s.events \in Times /\ s.head \in 0..Len(s.events) /\ s.posts \in Int
      /\ Len(s.events) \in Nat /\ s \in StatOf /\ CutSize \in Nat /\ MaxKept \in Nat
      /\ CutSize <= MaxKept
  BY DEF GoodStat, StatOf, Times, StatisticsConstants
<1>2. CutOf(s) \in Nat
  BY <1>1 DEF CutOf
<1>3. CASE Len(s.events) < MaxKept
  <2>1. Limited(s) = s /\ CutOf(s) = 0
    BY <1>1, <1>3 DEF Limited, CutOf
  <2>. QED
    BY <1>1, <2>1 DEF Surplus
<1>4. CASE ~(Len(s.events) < MaxKept)
  <2>1. CutSize \in 0..Len(s.events)
    BY <1>1, <1>4
  <2>2. e \in Times /\ Len(e) = Len(s.events) - CutSize
    BY <1>1, <2>1, CutFront
  <2>3. h \in Nat /\ h <= Len(s.events) - CutSize
    BY <1>1, <2>1
  <2>4. Limited(s) = [s EXCEPT !.events = e, !.head = h]
    BY <1>4 DEF Limited
  <2>5. h - s.head = CutOf(s) - CutSize
    BY <1>1, <1>4 DEF CutOf
  <2>. HIDE DEF e, h
  <2>6. StatIs(Limited(s), e, h, s.posts)
    <3>1. Limited(s) = [s EXCEPT !.events = e, !.head = h, !.posts = s.posts]
      BY <1>1, <2>4 DEF StatOf
    <3>2. e \in Times /\ h \in Nat /\ s.posts \in Int /\ s \in StatOf
      BY <1>1, <2>2, <2>3
    <3>3. StatIs([s EXCEPT !.events = e, !.head = h, !.posts = s.posts], e, h, s.posts)
      BY <3>2, StatWith
    <3>. QED
      BY <3>1, <3>3
  <2>7. GoodStat(Limited(s))
    BY <2>2, <2>3, <2>6 DEF GoodStat, StatIs
  <2>8. Surplus(Limited(s)) = Surplus(s) + CutOf(s)
    <3>1. CutOf(s) \in Nat /\ h = s.head + CutOf(s) - CutSize
      BY <1>1, <1>2, <2>3, <2>5
    <3>. DEFINE lenS == Len(s.events)
                lenE == Len(e)
                cut == CutOf(s)
                head == s.head
                posts == s.posts
    <3>2. /\ lenE = lenS - CutSize /\ h = head + cut - CutSize
          /\ lenS \in Int /\ cut \in Int /\ head \in Int /\ posts \in Int /\ CutSize \in Int
      BY <1>1, <2>2, <3>1
    <3>3. posts - (lenE - h) = posts - (lenS - head) + cut
      <4>. HIDE DEF lenS, lenE, cut, head, posts
      <4>. QED
        BY <3>2
    <3>4. Surplus(Limited(s)) = posts - (lenE - h)
      BY <2>6, SurplusIs
    <3>. QED
      BY <3>3, <3>4 DEF Surplus
  <2>. QED
    BY <1>2, <2>7, <2>8
<1>. QED
  BY <1>2, <1>3, <1>4

LEMMA CountedKeeps ==
    ASSUME NEW s, GoodStat(s), NEW now \in Nat
    PROVE  GoodStat(Counted(s, now)) /\ Surplus(Counted(s, now)) = Surplus(s)
<1>1. /\ s.events \in Times /\ s.head \in 0..Len(s.events) /\ s.posts \in Int
      /\ Len(s.events) \in Nat /\ s \in StatOf
  BY DEF GoodStat, StatOf, Times
<1>. DEFINE e == Append(s.events, now)
<1>2. e \in Times /\ Len(e) = Len(s.events) + 1
  BY <1>1 DEF Times
<1>3. Counted(s, now) = [s EXCEPT !.events = e, !.posts = @ + 1]
  BY DEF Counted
<1>. HIDE DEF e
<1>. DEFINE n == s.posts + 1
            h == s.head
<1>4. n \in Int /\ h \in Nat /\ h <= Len(e) /\ n - (Len(e) - h) = s.posts - (Len(s.events) - h)
  BY <1>1, <1>2
<1>5. Counted(s, now) = [s EXCEPT !.events = e, !.head = h, !.posts = n]
  BY <1>1, <1>3 DEF StatOf
<1>. HIDE DEF n
<1>6. StatIs(Counted(s, now), e, h, n)
  <2>. HIDE DEF h
  <2>1. s \in StatOf /\ e \in Times /\ h \in Nat /\ n \in Int
    BY <1>1, <1>2, <1>4
  <2>2. StatIs([s EXCEPT !.events = e, !.head = h, !.posts = n], e, h, n)
    BY <2>1, StatWith
  <2>. QED
    BY <1>5, <2>2
<1>7. GoodStat(Counted(s, now))
  BY <1>4, <1>6 DEF GoodStat, StatIs
<1>8. Surplus(Counted(s, now)) = n - (Len(e) - h)
  BY <1>6, SurplusIs
<1>. QED
  BY <1>4, <1>7, <1>8 DEF Surplus

LEMMA MakesRoom ==
    ASSUME StatisticsConstants, StatisticsTypes, NEW p \in Phrase
    PROVE  Inserted(p) \in Seq(Phrase) /\ p \notin Evicted(p)
<1>1. tracked \in Seq(Phrase) /\ Len(tracked) \in Nat /\ MaxPhrases \in Nat /\ 0 < MaxPhrases
  BY DEF StatisticsTypes, StatisticsConstants
<1>2. p \notin Evicted(p)
  <2>1. SUFFICES ASSUME ~IsTracked(p), Len(tracked) >= MaxPhrases, p = Head(tracked)
                 PROVE  FALSE
    BY DEF Evicted
  <2>2. 1 \in 1..Len(tracked) /\ tracked[1] = p
    BY <1>1, <2>1
  <2>. QED
    BY <2>1, <2>2 DEF IsTracked
<1>3. Inserted(p) \in Seq(Phrase)
  <2>1. CASE IsTracked(p)
    BY <1>1, <2>1 DEF Inserted
  <2>2. CASE ~IsTracked(p) /\ Evicted(p) = {}
    BY <1>1, <2>2 DEF Inserted
  <2>3. CASE ~IsTracked(p) /\ Evicted(p) # {}
    <3>1. Len(tracked) >= MaxPhrases
      BY <2>3 DEF Evicted
    <3>2. tracked # <<>>
      BY <1>1, <3>1
    <3>3. Tail(tracked) \in Seq(Phrase)
      BY <1>1, <3>2
    <3>. QED
      BY <2>3, <3>3 DEF Inserted
  <2>. QED
    BY <2>1, <2>2, <2>3
<1>. QED
  BY <1>2, <1>3

LEMMA Observes ==
    ASSUME StatisticsConstants, StatisticsInv, NEW p \in Phrase, NEW at \in 0..MaxPosts,
           Observe(p, at)
    PROVE  StatisticsInv'
<1>. DEFINE pruned == Pruned(stat[p], at)
<1>1. at \in Nat
  BY DEF StatisticsConstants
<1>2. GoodStat(pruned) /\ Surplus(pruned) = cutLive[p]
  BY PrunedKeeps DEF StatisticsInv, StatisticsTypes
<1>3. GoodStat(Limited(pruned)) /\ CutOf(pruned) \in Nat
      /\ Surplus(Limited(pruned)) = cutLive[p] + CutOf(pruned)
  <2>. HIDE DEF pruned
  <2>. QED
    BY <1>2, LimitedCuts
<1>4. p \notin Evicted(p) /\ Inserted(p) \in Seq(Phrase)
  BY MakesRoom DEF StatisticsInv
<1>5. /\ stat' = [q \in Phrase |-> IF q = p THEN Counted(Limited(pruned), at)
                                   ELSE IF q \in Evicted(p) THEN NoStat ELSE stat[q]]
      /\ cutLive' = [q \in Phrase |->
                        IF q \in Evicted(p) THEN 0
                        ELSE IF q = p /\ Len(pruned.events) >= MaxKept /\ CutSize > pruned.head
                             THEN cutLive[q] + CutSize - pruned.head
                             ELSE cutLive[q]]
      /\ tracked' = Inserted(p)
  BY DEF Observe
<1>. HIDE DEF pruned
<1>6. GoodStat(NoStat) /\ Surplus(NoStat) = 0
  <2>1. <<>> \in Times /\ Len(<<>>) = 0
    BY DEF Times
  <2>. QED
    BY <2>1 DEF GoodStat, StatOf, NoStat, Surplus
<1>7. cutLive \in [Phrase -> Nat]
  BY DEF StatisticsInv, StatisticsTypes
<1>8. GoodStat(stat'[p]) /\ Surplus(stat'[p]) = cutLive'[p] /\ cutLive'[p] \in Nat
  <2>1. stat'[p] = Counted(Limited(pruned), at)
    BY <1>5
  <2>2. GoodStat(stat'[p]) /\ Surplus(stat'[p]) = cutLive[p] + CutOf(pruned)
    BY <1>1, <1>3, <2>1, CountedKeeps
  <2>3. pruned.head \in Nat /\ CutSize \in Nat /\ cutLive[p] \in Nat
    BY <1>2, <1>7 DEF GoodStat, StatOf, StatisticsConstants
  <2>4. cutLive'[p] = cutLive[p] + CutOf(pruned)
    BY <1>4, <1>5, <2>3 DEF CutOf
  <2>. QED
    BY <1>3, <2>2, <2>3, <2>4
<1>9. \A q \in Phrase \ {p} :
         GoodStat(stat'[q]) /\ Surplus(stat'[q]) = cutLive'[q] /\ cutLive'[q] \in Nat
  <2>1. TAKE q \in Phrase \ {p}
  <2>2. CASE q \in Evicted(p)
    BY <1>5, <1>6, <2>2
  <2>3. CASE q \notin Evicted(p)
    BY <1>5, <1>7, <2>3 DEF StatisticsInv, StatisticsTypes
  <2>. QED
    BY <2>2, <2>3
<1>10. StatisticsTypes'
  <2>1. cutLive' \in [Phrase -> Nat]
    BY <1>5, <1>8, <1>9
  <2>2. DOMAIN baseline' = Phrase /\ DOMAIN baselineRows' = Phrase
    BY DEF Observe, StatisticsInv, StatisticsTypes
  <2>. QED
    BY <1>4, <1>5, <1>8, <1>9, <2>1, <2>2 DEF StatisticsTypes
<1>11. DirtyUntilFlushed'
  <2>1. /\ \A q \in Phrase \ {p} : baseline'[q] = baseline[q] /\ baselineRows'[q] = baselineRows[q]
        /\ dirty' = dirty \union {p} /\ unflushed' = unflushed \ {p}
    BY DEF Observe, StatisticsInv, StatisticsTypes
  <2>. QED
    BY <2>1 DEF StatisticsInv, DirtyUntilFlushed
<1>. QED
  BY <1>8, <1>9, <1>10, <1>11 DEF StatisticsInv

LEMMA FlushKeeps ==
    ASSUME StatisticsInv, Flush
    PROVE  StatisticsInv'
<1>1. PICK failing \in SUBSET dirty :
         /\ unflushed' = unflushed \union failing
         /\ UpsertBaselines(dirty \ failing)
  BY DEF Flush
<1>2. /\ baselineRows' = [p \in Phrase |-> IF p \in dirty \ failing THEN baseline[p]
                                           ELSE baselineRows[p]]
      /\ UNCHANGED <<tracked, stat, cutLive, baseline>>
  BY <1>1 DEF UpsertBaselines, Flush
<1>3. StatisticsTypes' /\ \A p \in Phrase : Surplus(stat'[p]) = cutLive'[p]
  BY <1>2 DEF StatisticsInv, StatisticsTypes
<1>4. DirtyUntilFlushed'
  BY <1>1, <1>2 DEF StatisticsInv, DirtyUntilFlushed
<1>. QED
  BY <1>3, <1>4 DEF StatisticsInv

LEMMA StatisticsInvariant == ASSUME StatisticsConstants PROVE StatisticsSpec => []StatisticsInv
<1>1. StatisticsInit => StatisticsInv
  <2>1. ASSUME StatisticsInit
        PROVE  StatisticsTypes /\ DirtyUntilFlushed
               /\ \A p \in Phrase : Surplus(stat[p]) = cutLive[p]
    <3>1. <<>> \in Times /\ Len(<<>>) = 0 /\ <<>> \in Seq(Phrase)
      BY DEF Times
    <3>. QED
      BY <2>1, <3>1 DEF StatisticsInit, StatisticsTypes, DirtyUntilFlushed, GoodStat, StatOf,
                        NoStat, Surplus
  <2>. QED
    BY <2>1 DEF StatisticsInv
<1>2. StatisticsInv /\ [StatisticsNext]_statisticsVars => StatisticsInv'
  <2>1. ASSUME StatisticsInv, UNCHANGED statisticsVars PROVE StatisticsInv'
    BY <2>1 DEF StatisticsInv, statisticsVars, StatisticsTypes, DirtyUntilFlushed
  <2>. QED
    BY <2>1, Observes, FlushKeeps DEF StatisticsNext
<1>. QED
  BY <1>1, <1>2, PTL DEF StatisticsSpec

LEMMA StatisticsFollow == ASSUME StatisticsInv PROVE StatisticsKept
<1>1. CountsMatchWindow
  <2>1. SUFFICES ASSUME NEW p \in Phrase
                 PROVE  stat[p].posts = Len(stat[p].events) - stat[p].head + cutLive[p]
    BY DEF CountsMatchWindow
  <2>2. /\ stat[p].posts \in Int /\ stat[p].head \in Nat /\ Len(stat[p].events) \in Nat
        /\ cutLive[p] \in Nat
    BY DEF StatisticsInv, StatisticsTypes, GoodStat, StatOf, Times
  <2>. QED
    BY <2>2 DEF StatisticsInv, Surplus
<1>. QED
  BY <1>1 DEF StatisticsInv, StatisticsKept

\* NarrativesAreKept: whatever posts come late, whatever windows and phrases are dropped,
\* cut or compacted, and whatever writes throw, the database has what the miner watches
\* and counts, except where the last write failed.
THEOREM NarrativesKept == WindowSpec /\ StatisticsSpec => []NarrativesAreKept
<1>1. WindowInv /\ StatisticsInv => NarrativesAreKept
  BY StatisticsFollow DEF WindowInv, NarrativesAreKept
<1>. QED
  BY <1>1, WindowConstants, StatisticsConstants, WindowInvariant, StatisticsInvariant, PTL

-----------------------------------------------------------------------------
(* The error rate *)

Samples == Nat \ {0}
Ended == ToSet(ended)

\* A window that a sample may leave: of samples that ended, each of them once.
WindowsOf == {w \in Seq(Samples) :
                /\ Len(w) <= ErrorWindow
                /\ \A i, j \in 1..Len(w) : w[i] = w[j] => i = j
                /\ \A i \in 1..Len(w) : w[i] \in Ended}

\* The last results of the samples that ended.
LastOf(w, e) ==
    /\ Len(w) <= Len(e)
    /\ \A i \in 1..Len(w) : w[i] = e[Len(e) - Len(w) + i]
    /\ Len(w) < ErrorWindow => Len(w) = Len(e)

MonitorTypes ==
    /\ ended \in Seq(Samples)
    /\ sampleWindow \in WindowsOf
    /\ \A s \in DOMAIN sampling : sampling[s] \in WindowsOf
    /\ overlapping \in BOOLEAN

\* The samples are numbered without gaps, and one that waits has not ended.
Numbered ==
    /\ \E n \in Nat : Begun = 1..n
    /\ DOMAIN sampling \intersect Ended = {}

InOrder ==
    ~overlapping =>
        /\ \A s, r \in DOMAIN sampling : s = r
        /\ \A s \in DOMAIN sampling : sampling[s] = sampleWindow
        /\ LastOf(sampleWindow, ended)

MonitorInv ==
    /\ MonitorTypes /\ Numbered /\ InOrder
    /\ ended # <<>> => sampleWindow # <<>> /\ Last(sampleWindow) = Last(ended)

\* What one more sample makes of a window it is not in.
LEMMA RecordedIs ==
    ASSUME MonitorAssumption, NEW w \in Seq(Samples), Len(w) <= ErrorWindow, NEW s \in Samples
    PROVE  LET r == Recorded(w, s)
               d == IF Len(w) = ErrorWindow THEN 1 ELSE 0
           IN  /\ r \in Seq(Samples) /\ Len(r) = Len(w) + 1 - d /\ Len(r) > 0
               /\ Len(r) <= ErrorWindow
               /\ \A i \in 1..Len(r) : r[i] = IF i = Len(r) THEN s ELSE w[i + d]
<1>. DEFINE next == Append(w, s)
            r == Recorded(w, s)
<1>1. /\ next \in Seq(Samples) /\ Len(next) = Len(w) + 1 /\ Len(w) \in Nat
      /\ next[Len(w) + 1] = s /\ \A i \in 1..Len(w) : next[i] = w[i]
      /\ ErrorWindow \in Nat \ {0}
  BY AppendProperties, LenProperties DEF MonitorAssumption
<1>2. r = IF Len(next) > ErrorWindow THEN Tail(next) ELSE next
  BY DEF Recorded
<1>. HIDE DEF next, r
<1>3. CASE Len(w) = ErrorWindow
  <2>1. next # <<>> /\ Len(next) > ErrorWindow
    BY <1>1, <1>3
  <2>2. /\ r \in Seq(Samples) /\ Len(r) = Len(next) - 1
        /\ \A i \in 1..Len(r) : r[i] = next[i + 1]
    BY <1>1, <1>2, <2>1, HeadTailProperties
  <2>3. ASSUME NEW i \in 1..Len(r) PROVE r[i] = IF i = Len(r) THEN s ELSE w[i + 1]
    <3>1. i + 1 \in 1..Len(w) + 1 /\ (i # Len(r) => i + 1 \in 1..Len(w))
      BY <1>1, <2>2
    <3>. QED
      BY <1>1, <2>2, <3>1
  <2>4. Len(r) = Len(w) /\ Len(r) > 0 /\ Len(r) <= ErrorWindow
    BY <1>1, <1>3, <2>2
  <2>. QED
    BY <1>1, <1>3, <2>2, <2>3, <2>4 DEF r
<1>4. CASE Len(w) # ErrorWindow
  <2>1. r = next /\ Len(r) = Len(w) + 1 /\ Len(r) > 0 /\ Len(r) <= ErrorWindow
    BY <1>1, <1>2, <1>4
  <2>2. \A i \in 1..Len(r) : r[i] = IF i = Len(r) THEN s ELSE w[i + 0]
    BY <1>1, <2>1
  <2>. QED
    BY <1>1, <1>4, <2>1, <2>2 DEF r
<1>. QED
  BY <1>3, <1>4

LEMMA ShiftedIndex ==
    ASSUME NEW lenW \in Nat, NEW lenE \in Nat, NEW shift \in Nat, NEW k \in Nat,
           lenW <= lenE, k + shift >= 1, k + shift <= lenW
    PROVE  /\ lenE + 1 - (lenW + 1 - shift) + k = lenE - lenW + (k + shift)
           /\ lenE - lenW + (k + shift) \in 1..lenE
  OBVIOUS

LEMMA SampleEnds ==
    ASSUME MonitorAssumption, MonitorInv, NEW s \in 1..MaxSamples, EndSample(s)
    PROVE  MonitorInv'
<1>. DEFINE w == sampling[s]
            r == Recorded(w, s)
            d == IF Len(w) = ErrorWindow THEN 1 ELSE 0
<1>1. /\ s \in DOMAIN sampling /\ s \in Samples
      /\ sampleWindow' = r /\ ended' = Append(ended, s)
      /\ sampling' = [x \in DOMAIN sampling \ {s} |-> sampling[x]]
      /\ overlapping' = overlapping
  BY DEF EndSample, MonitorAssumption, Samples
<1>2. /\ w \in Seq(Samples) /\ Len(w) \in Nat /\ Len(w) <= ErrorWindow /\ d \in {0, 1}
      /\ \A i, j \in 1..Len(w) : w[i] = w[j] => i = j
      /\ \A i \in 1..Len(w) : w[i] \in Ended
  BY <1>1, LenProperties DEF MonitorInv, MonitorTypes, WindowsOf
<1>3. s \notin Ended
  BY <1>1 DEF MonitorInv, Numbered
<1>4. /\ r \in Seq(Samples) /\ Len(r) = Len(w) + 1 - d /\ Len(r) > 0 /\ Len(r) <= ErrorWindow
      /\ \A i \in 1..Len(r) : r[i] = IF i = Len(r) THEN s ELSE w[i + d]
  BY <1>1, <1>2, RecordedIs
<1>5. /\ ended' \in Seq(Samples) /\ Len(ended') = Len(ended) + 1 /\ Len(ended) \in Nat
      /\ ended'[Len(ended) + 1] = s /\ \A i \in 1..Len(ended) : ended'[i] = ended[i]
  BY <1>1, AppendProperties, LenProperties DEF MonitorInv, MonitorTypes
<1>6. Ended' = Ended \union {s}
  <2>1. DOMAIN ended = 1..Len(ended) /\ DOMAIN ended' = 1..Len(ended) + 1
    BY <1>5 DEF MonitorInv, MonitorTypes
  <2>2. 1..Len(ended) + 1 = 1..Len(ended) \union {Len(ended) + 1}
    BY <1>5
  <2>3. \A x : x \in Ended' <=> \E i \in 1..Len(ended) + 1 : x = ended'[i]
    BY <2>1 DEF Ended, ToSet
  <2>4. \A x : x \in Ended <=> \E i \in 1..Len(ended) : x = ended[i]
    BY <2>1 DEF Ended, ToSet
  <2>5. \A x : x \in Ended' <=> x \in Ended \/ x = s
    BY <1>5, <2>2, <2>3, <2>4
  <2>. QED
    BY <2>5
<1>. HIDE DEF w, r
<1>7. \A i \in 1..Len(r) : i # Len(r) => i + d \in 1..Len(w)
  BY <1>2, <1>4
<1>8. r \in WindowsOf'
  <2>1. \A i \in 1..Len(r) : r[i] \in Ended'
    BY <1>2, <1>4, <1>6, <1>7
  <2>2. ASSUME NEW i \in 1..Len(r), NEW j \in 1..Len(r), r[i] = r[j] PROVE i = j
    <3>1. i # Len(r) => r[i] \in Ended /\ r[i] = w[i + d] /\ i + d \in 1..Len(w)
      BY <1>2, <1>4, <1>7
    <3>2. j # Len(r) => r[j] \in Ended /\ r[j] = w[j + d] /\ j + d \in 1..Len(w)
      BY <1>2, <1>4, <1>7
    <3>3. CASE i = Len(r) \/ j = Len(r)
      BY <1>3, <1>4, <2>2, <3>1, <3>2, <3>3
    <3>4. CASE i # Len(r) /\ j # Len(r)
      <4>1. i + d = j + d
        BY <1>2, <2>2, <3>1, <3>2, <3>4
      <4>. QED
        BY <1>2, <1>4, <4>1
    <3>. QED
      BY <3>3, <3>4
  <2>. QED
    BY <1>4, <2>1, <2>2 DEF WindowsOf
<1>9. WindowsOf \subseteq WindowsOf'
  BY <1>6 DEF WindowsOf
<1>10. MonitorTypes'
  BY <1>1, <1>5, <1>8, <1>9 DEF MonitorInv, MonitorTypes
<1>11. Numbered'
  <2>1. DOMAIN sampling' = DOMAIN sampling \ {s}
    BY <1>1
  <2>2. Begun = Ended \union DOMAIN sampling /\ Begun' = Ended' \union DOMAIN sampling'
    BY DEF Begun, Ended, ToSet
  <2>3. Begun' = Begun
    BY <1>1, <1>6, <2>1, <2>2
  <2>4. DOMAIN sampling' \intersect Ended' = {}
    BY <1>6, <2>1 DEF MonitorInv, Numbered
  <2>. QED
    BY <2>3, <2>4 DEF MonitorInv, Numbered
<1>12. InOrder'
  <2>1. SUFFICES ASSUME ~overlapping
                 PROVE  /\ DOMAIN sampling' = {}
                        /\ LastOf(r, ended')
    BY <1>1 DEF InOrder, LastOf
  <2>2. DOMAIN sampling' = {}
    BY <1>1, <2>1 DEF MonitorInv, InOrder
  <2>3. w = sampleWindow
    BY <1>1, <2>1 DEF MonitorInv, InOrder, w
  <2>4. /\ Len(w) <= Len(ended)
        /\ \A i \in 1..Len(w) : w[i] = ended[Len(ended) - Len(w) + i]
        /\ Len(w) < ErrorWindow => Len(w) = Len(ended)
    BY <2>1, <2>3 DEF MonitorInv, InOrder, LastOf
  <2>5. Len(r) <= Len(ended') /\ (Len(r) < ErrorWindow => Len(r) = Len(ended'))
    BY <1>2, <1>4, <1>5, <2>4 DEF MonitorAssumption
  <2>6. ASSUME NEW i \in 1..Len(r) PROVE r[i] = ended'[Len(ended') - Len(r) + i]
    <3>1. CASE i = Len(r)
      <4>1. Len(ended') - Len(r) + i = Len(ended) + 1
        BY <1>4, <1>5, <3>1
      <4>. QED
        BY <1>4, <1>5, <3>1, <4>1
    <3>2. CASE i # Len(r)
      <4>1. r[i] = w[i + d] /\ i + d \in 1..Len(w)
        BY <1>4, <1>7, <3>2
      <4>2. /\ Len(ended') - Len(r) + i = Len(ended) - Len(w) + (i + d)
            /\ Len(ended) - Len(w) + (i + d) \in 1..Len(ended)
        <5>1. /\ Len(r) = Len(w) + 1 - d /\ Len(ended') = Len(ended) + 1
              /\ {Len(w), Len(ended), d, i} \subseteq Nat /\ Len(w) <= Len(ended)
          BY <1>2, <1>4, <1>5, <2>4
        <5>2. i + d >= 1 /\ i + d <= Len(w)
          BY <1>2, <4>1
        <5>3. /\ Len(ended) + 1 - (Len(w) + 1 - d) + i = Len(ended) - Len(w) + (i + d)
              /\ Len(ended) - Len(w) + (i + d) \in 1..Len(ended)
          <6>. HIDE DEF d, w
          <6>. QED
            BY <5>1, <5>2, ShiftedIndex
        <5>. QED
          BY <5>1, <5>3
      <4>3. w[i + d] = ended[Len(ended) - Len(w) + (i + d)]
        BY <2>4, <4>1
      <4>. QED
        BY <1>5, <4>1, <4>2, <4>3
    <3>. QED
      BY <3>1, <3>2
  <2>. QED
    BY <1>1, <2>2, <2>5, <2>6 DEF LastOf
<1>13. sampleWindow' # <<>> /\ Last(sampleWindow') = Last(ended')
  <2>1. Len(r) \in 1..Len(r) /\ r # <<>>
    BY <1>4, LenProperties
  <2>2. r[Len(r)] = s /\ ended'[Len(ended')] = s
    BY <1>4, <1>5, <2>1
  <2>. QED
    BY <1>1, <2>1, <2>2 DEF Last
<1>. QED
  BY <1>10, <1>11, <1>12, <1>13 DEF MonitorInv

LEMMA SampleBegins ==
    ASSUME MonitorInv, BeginSample
    PROVE  MonitorInv'
<1>. DEFINE n == Cardinality(Begun) + 1
<1>1. /\ sampling' = [s \in DOMAIN sampling \union {n} |->
                        IF s = n THEN sampleWindow ELSE sampling[s]]
      /\ overlapping' = (overlapping \/ DOMAIN sampling # {})
      /\ UNCHANGED <<sampleWindow, timerOn, ended>>
  BY DEF BeginSample
<1>2. PICK k \in Nat : Begun = 1..k
  BY DEF MonitorInv, Numbered
<1>3. n = k + 1
  <2>1. Cardinality(1..k) = IF 1 > k THEN 0 ELSE k - 1 + 1
    BY FS_Interval
  <2>. QED
    BY <1>2, <2>1
<1>. HIDE DEF n
<1>4. Begun = Ended \union DOMAIN sampling /\ Begun' = Ended \union DOMAIN sampling'
  BY <1>1 DEF Begun, Ended, ToSet
<1>5. n \notin Begun /\ n \notin DOMAIN sampling /\ n \notin Ended
  BY <1>2, <1>3, <1>4
<1>6. Ended' = Ended /\ WindowsOf' = WindowsOf
  BY <1>1 DEF Ended, WindowsOf
<1>7. MonitorTypes'
  BY <1>1, <1>6 DEF MonitorInv, MonitorTypes
<1>8. Numbered'
  <2>1. Begun' = Begun \union {n}
    BY <1>1, <1>4
  <2>2. Begun' = 1..n /\ n \in Nat
    BY <1>2, <1>3, <2>1
  <2>3. DOMAIN sampling' \intersect Ended' = {}
    BY <1>1, <1>5, <1>6 DEF MonitorInv, Numbered
  <2>. QED
    BY <2>2, <2>3 DEF Numbered
<1>9. InOrder'
  <2>1. SUFFICES ASSUME ~overlapping'
                 PROVE  /\ \A s, r \in DOMAIN sampling' : s = r
                        /\ \A s \in DOMAIN sampling' : sampling'[s] = sampleWindow'
                        /\ LastOf(sampleWindow', ended')
    BY DEF InOrder
  <2>2. ~overlapping /\ DOMAIN sampling = {}
    BY <1>1, <2>1
  <2>3. DOMAIN sampling' = {n} /\ sampling'[n] = sampleWindow
    BY <1>1, <2>2
  <2>4. LastOf(sampleWindow', ended')
    BY <1>1, <2>2 DEF MonitorInv, InOrder, LastOf
  <2>. QED
    BY <1>1, <2>3, <2>4
<1>. QED
  BY <1>1, <1>7, <1>8, <1>9 DEF MonitorInv

LEMMA MonitorInvariant == ASSUME MonitorAssumption PROVE MonitorSpec => []MonitorInv
<1>1. MonitorInit => MonitorInv
  <2>. SUFFICES ASSUME MonitorInit PROVE MonitorInv
    OBVIOUS
  <2>1. /\ sampleWindow = <<>> /\ sampling = <<>> /\ ended = <<>> /\ overlapping \in BOOLEAN
    BY DEF MonitorInit
  <2>2. /\ <<>> \in Seq(Samples) /\ Len(<<>>) = 0 /\ DOMAIN <<>> = {} /\ 1..0 = {}
        /\ ErrorWindow \in Nat
    BY DEF MonitorAssumption
  <2>3. MonitorTypes
    BY <2>1, <2>2 DEF MonitorTypes, WindowsOf
  <2>4. Numbered
    <3>1. Begun = 1..0 /\ Ended = {}
      BY <2>1, <2>2 DEF Begun, Ended, ToSet
    <3>. QED
      BY <3>1 DEF Numbered
  <2>5. InOrder
    BY <2>1, <2>2 DEF InOrder, LastOf
  <2>. QED
    BY <2>1, <2>3, <2>4, <2>5 DEF MonitorInv
<1>2. MonitorInv /\ [MonitorNext]_monitorVars => MonitorInv'
  <2>1. ASSUME MonitorInv, UNCHANGED monitorVars PROVE MonitorInv'
    BY <2>1 DEF monitorVars, MonitorInv, MonitorTypes, WindowsOf, Ended, Numbered, Begun, InOrder,
                LastOf
  <2>. QED
    BY <2>1, SampleBegins, SampleEnds DEF MonitorNext
<1>. QED
  BY <1>1, <1>2, PTL DEF MonitorSpec

LEMMA SuffixIs ==
    ASSUME NEW S, NEW s \in Seq(S), NEW t \in Seq(S), Len(s) <= Len(t),
           \A i \in 1..Len(s) : s[i] = t[Len(t) - Len(s) + i]
    PROVE  IsSuffix(s, t) /\ (Len(s) = Len(t) => s = t)
<1>. DEFINE a == Reverse(s)
            b == Reverse(t)
<1>1. Len(s) \in Nat /\ Len(t) \in Nat /\ DOMAIN s = 1..Len(s) /\ DOMAIN t = 1..Len(t)
  BY LenProperties
<1>2. /\ a = [i \in 1..Len(s) |-> s[(Len(s) - i) + 1]]
      /\ b = [i \in 1..Len(t) |-> t[(Len(t) - i) + 1]]
  BY DEF Reverse
<1>3. Len(a) = Len(s) /\ Len(b) = Len(t)
  BY <1>1, <1>2
<1>4. \A i \in 1..Len(s) : a[i] = b[i]
  <2>1. TAKE i \in 1..Len(s)
  <2>2. Len(s) - i + 1 \in 1..Len(s) /\ i \in 1..Len(t)
        /\ Len(t) - Len(s) + (Len(s) - i + 1) = Len(t) - i + 1
    BY <1>1
  <2>3. s[Len(s) - i + 1] = t[Len(t) - i + 1]
    BY <2>2
  <2>. QED
    BY <1>2, <2>2, <2>3
<1>. HIDE DEF a, b
<1>5. a \in Seq(S) /\ b \in Seq(S)
  <2>1. \A i \in 1..Len(s) : (Len(s) - i) + 1 \in 1..Len(s)
    BY <1>1
  <2>2. \A i \in 1..Len(t) : (Len(t) - i) + 1 \in 1..Len(t)
    BY <1>1
  <2>3. (\A i \in 1..Len(s) : s[i] \in S) /\ (\A i \in 1..Len(t) : t[i] \in S)
    BY ElementOfSeq
  <2>4. a \in [1..Len(s) -> S] /\ b \in [1..Len(t) -> S]
    BY <1>2, <2>1, <2>2, <2>3
  <2>5. \A n \in Nat : \A f \in [1..n -> S] : f \in Seq(S)
    OBVIOUS
  <2>. QED
    BY <1>1, <2>4, <2>5
<1>6. ASSUME NEW c \in Seq(S), Len(s) <= Len(c)
      PROVE  SubSeq(c, 1, Len(s)) = [i \in 1..Len(s) |-> c[i]]
  <2>. DEFINE h == SubSeq(c, 1, Len(s))
  <2>1. Len(c) \in Nat /\ \A i \in 1..Len(s) : c[i] \in S
    BY <1>1, <1>6, ElementOfSeq, LenProperties
  <2>2. h \in Seq(S) /\ Len(h) = Len(s) /\ \A i \in 1..Len(h) : h[i] = c[i]
    BY <1>1, <1>6, <2>1, SubSeqProperties
  <2>. HIDE DEF h
  <2>3. h = [i \in 1..Len(h) |-> h[i]]
    BY <2>2
  <2>4. h = [i \in 1..Len(s) |-> c[i]]
    BY <2>2, <2>3
  <2>. QED
    BY <2>4 DEF h
<1>7. SubSeq(a, 1, Len(a)) = SubSeq(b, 1, Len(a))
  <2>1. SubSeq(a, 1, Len(s)) = [i \in 1..Len(s) |-> a[i]]
    BY <1>1, <1>3, <1>5, <1>6
  <2>2. SubSeq(b, 1, Len(s)) = [i \in 1..Len(s) |-> b[i]]
    BY <1>3, <1>5, <1>6
  <2>3. [i \in 1..Len(s) |-> a[i]] = [i \in 1..Len(s) |-> b[i]]
    BY <1>4
  <2>. QED
    BY <1>3, <2>1, <2>2, <2>3
<1>8. IsSuffix(s, t)
  BY <1>3, <1>7 DEF IsSuffix, IsPrefix, a, b
<1>9. Len(s) = Len(t) => s = t
  <2>1. SUFFICES ASSUME Len(s) = Len(t) PROVE s = t
    OBVIOUS
  <2>2. \A i \in 1..Len(s) : s[i] = t[i]
    BY <1>1, <2>1
  <2>3. s = [i \in 1..Len(s) |-> s[i]] /\ t = [i \in 1..Len(t) |-> t[i]]
    BY <1>1
  <2>. QED
    BY <2>1, <2>2, <2>3
<1>. QED
  BY <1>8, <1>9

LEMMA RatesFollow == ASSUME MonitorInv PROVE RateOfLastSamples
<1>1. /\ sampleWindow \in Seq(Samples) /\ ended \in Seq(Samples)
      /\ Len(sampleWindow) <= ErrorWindow
      /\ DOMAIN sampleWindow = 1..Len(sampleWindow)
  BY LenProperties DEF MonitorInv, MonitorTypes, WindowsOf
<1>2. IsInjective(sampleWindow)
  BY <1>1 DEF IsInjective, MonitorInv, MonitorTypes, WindowsOf
<1>3. ASSUME ~overlapping
      PROVE  /\ IsSuffix(sampleWindow, ended)
             /\ Len(sampleWindow) < ErrorWindow => sampleWindow = ended
  <2>1. LastOf(sampleWindow, ended)
    BY <1>3 DEF MonitorInv, InOrder
  <2>. QED
    BY <1>1, <2>1, SuffixIs DEF LastOf
<1>. QED
  BY <1>1, <1>2, <1>3 DEF MonitorInv, RateOfLastSamples

-----------------------------------------------------------------------------
(* The prices *)

PriceInv ==
    /\ {priceTime, quotes, reads, lastSuccess} \subseteq Nat
    /\ priceTime > 0 /\ crossed \in BOOLEAN
    /\ \A r \in reading : r.price \in Nat /\ r.price <= quotes
    /\ \A p \in prices : {p.ts, p.price} \subseteq Nat /\ p.price <= quotes
    /\ \A p \in prices : p.ts <= priceTime /\ p.ts <= lastSuccess
    /\ lastSuccess > 0 <=> prices # {}
    /\ lastSuccess > 0 => \E p \in prices : p.ts = lastSuccess
    /\ ~crossed => \A r, s \in reading : r = s
    /\ ~crossed => \A r \in reading, p \in prices : p.price <= r.price
    /\ ~crossed => \A p, q \in prices : p.ts < q.ts => p.price <= q.price
    /\ staleGauge.at > 0 /\ lastSuccess > 0 /\ staleGauge.at >= lastSuccess =>
          staleGauge.age = staleGauge.at - lastSuccess

LEMMA Stores ==
    ASSUME PriceInv, NEW r \in reading, StorePrice(r)
    PROVE  PriceInv'
<1>. DEFINE row == [ts |-> priceTime, price |-> r.price]
<1>1. row.ts = priceTime /\ row.price = r.price
  OBVIOUS
<1>. HIDE DEF row
<1>2. /\ reading' = reading \ {r} /\ prices' = prices \union {row}
      /\ lastSuccess' = priceTime
      /\ UNCHANGED <<priceTime, quotes, reads, crossed>>
  BY DEF StorePrice, row
<1>3. staleGauge'.age = priceTime' - lastSuccess' /\ staleGauge'.at = priceTime'
  <2>1. staleGauge' = [age |-> priceTime - priceTime, at |-> priceTime]
    BY DEF StorePrice, Stale, PriceInv
  <2>. QED
    BY <1>2, <2>1
<1>4. {priceTime, quotes, r.price} \subseteq Nat /\ priceTime > 0 /\ r.price <= quotes
  BY DEF PriceInv
<1>5. \A s \in reading' : s \in reading
  BY <1>2
<1>6. ~crossed => reading' = {}
  BY <1>2 DEF PriceInv
<1>7. ~crossed' => \A p, q \in prices' : p.ts < q.ts => p.price <= q.price
  <2>1. SUFFICES ASSUME ~crossed, NEW p \in prices', NEW q \in prices', p.ts < q.ts
                 PROVE  p.price <= q.price
    BY <1>2
  <2>2. CASE p = row
    <3>1. q.ts <= priceTime
      BY <1>1, <1>2, <1>4 DEF PriceInv
    <3>. QED
      BY <1>1, <1>2, <1>4, <2>1, <2>2, <3>1 DEF PriceInv
  <2>3. CASE p # row /\ q = row
    BY <1>1, <1>2, <2>1, <2>3 DEF PriceInv
  <2>4. CASE p # row /\ q # row
    BY <1>2, <2>1, <2>4 DEF PriceInv
  <2>. QED
    BY <2>2, <2>3, <2>4
<1>8. \A p \in prices' : {p.ts, p.price} \subseteq Nat /\ p.price <= quotes /\ p.ts <= priceTime
  BY <1>1, <1>2, <1>4 DEF PriceInv
<1>9. row \in prices'
  BY <1>2
<1>. QED
  BY <1>1, <1>2, <1>3, <1>4, <1>5, <1>6, <1>7, <1>8, <1>9 DEF PriceInv

LEMMA PriceInvariant == ASSUME PriceAssumption PROVE PriceSpec => []PriceInv
<1>1. PriceInit => PriceInv
  <2>. SUFFICES ASSUME PriceInit PROVE PriceInv
    OBVIOUS
  <2>1. reading = {} /\ prices = {} /\ lastSuccess = 0 /\ priceTime = 1
        /\ ~ (lastSuccess > 0) /\ priceTime > 0
        /\ {priceTime, quotes, reads, lastSuccess} \subseteq Nat
    BY DEF PriceInit
  <2>2. crossed \in BOOLEAN
    BY DEF PriceInit
  <2>. QED
    BY <2>1, <2>2 DEF PriceInv
<1>2. PriceInv /\ [PriceNext]_priceVars => PriceInv'
  <2>. SUFFICES ASSUME PriceInv, [PriceNext]_priceVars PROVE PriceInv'
    OBVIOUS
  <2>1. CASE PriceClock
    <3>1. quotes' \in Nat /\ quotes <= quotes' /\ priceTime' = priceTime + 1
      BY <2>1 DEF PriceClock, PriceInv
    <3>2. /\ \A r \in reading : r.price <= quotes'
          /\ \A p \in prices : p.price <= quotes' /\ p.ts <= priceTime'
      BY <3>1 DEF PriceInv
    <3>. QED
      BY <2>1, <3>1, <3>2 DEF PriceClock, PriceInv
  <2>2. CASE BeginRead
    <3>. DEFINE read == [tick |-> reads', price |-> quotes]
    <3>1. read.price = quotes
      OBVIOUS
    <3>. HIDE DEF read
    <3>2. /\ reading' = reading \union {read} /\ crossed' = (crossed \/ reading # {})
          /\ reads' = reads + 1
          /\ UNCHANGED <<priceTime, quotes, prices, lastSuccess, staleGauge>>
      BY <2>2 DEF BeginRead, read
    <3>3. ~crossed' => \A r, s \in reading' : r = s
      BY <3>2
    <3>4. ~crossed' => \A r \in reading', p \in prices : p.price <= r.price
      BY <3>1, <3>2 DEF PriceInv
    <3>. QED
      BY <3>1, <3>2, <3>3, <3>4 DEF PriceInv
  <2>3. ASSUME NEW r \in reading, StorePrice(r) PROVE PriceInv'
    BY <2>3, Stores
  <2>4. ASSUME NEW r \in reading, ReadThrows(r) PROVE PriceInv'
    <3>1. \/ lastSuccess = 0
          \/ lastSuccess # 0 /\ staleGauge' = [age |-> priceTime - lastSuccess, at |-> priceTime]
      BY <2>4 DEF ReadThrows, Stale
    <3>2. lastSuccess' > 0 => staleGauge'.age = staleGauge'.at - lastSuccess'
      BY <2>4, <3>1 DEF ReadThrows, PriceInv
    <3>. QED
      BY <2>4, <3>2 DEF ReadThrows, PriceInv
  <2>5. ASSUME NEW r \in reading, ReadsNothing(r) PROVE PriceInv'
    BY <2>5 DEF ReadsNothing, PriceInv
  <2>6. CASE UNCHANGED priceVars
    BY <2>6 DEF priceVars, PriceInv
  <2>. QED
    BY <2>1, <2>2, <2>3, <2>4, <2>5, <2>6 DEF PriceNext
<1>. QED
  BY <1>1, <1>2, PTL DEF PriceSpec

LEMMA PricesFollow == ASSUME PriceInv PROVE PricesAreCurrent
<1>1. ASSUME prices # {} PROVE lastSuccess = Max({p.ts : p \in prices})
  <2>. DEFINE S == {p.ts : p \in prices}
  <2>1. lastSuccess \in S /\ S \subseteq Nat /\ \A x \in S : x <= lastSuccess
    BY <1>1 DEF PriceInv
  <2>. HIDE DEF S
  <2>2. \A x \in S : lastSuccess >= x
    BY <2>1
  <2>3. Max(S) \in S /\ \A x \in S : Max(S) >= x
    BY <2>1, <2>2 DEF Max
  <2>4. lastSuccess = Max(S)
    <3>1. Max(S) \in Nat /\ lastSuccess \in Nat /\ Max(S) >= lastSuccess /\ lastSuccess >= Max(S)
      BY <2>1, <2>2, <2>3
    <3>. QED
      BY <3>1
  <2>. QED
    BY <2>4 DEF S
<1>. QED
  BY <1>1 DEF PriceInv, PricesAreCurrent

-----------------------------------------------------------------------------
(* The author features *)

JobInv ==
    /\ jobTime \in Nat
    /\ \A r \in jobRuns : r.at \in Nat /\ r.at <= jobTime
    /\ authorRows \in [Author -> Nat] /\ \A a \in Author : authorRows[a] <= jobTime
    /\ lastStats.at \in Nat /\ lastStats.at <= jobTime /\ lastStats.authors \subseteq Author
    /\ {runsOverlapped, wentBack} \subseteq BOOLEAN
    /\ ~runsOverlapped =>
        /\ \A r, s \in jobRuns : r = s
        /\ \A r \in jobRuns, a \in Author : authorRows[a] <= r.at
        /\ lastStats.authors # {} => \A r \in jobRuns : lastStats.at <= r.at
    /\ FeaturesAreDated

LEMMA RunBegins ==
    ASSUME JobInv, NEW S \in SUBSET SocialPost, BeginRun(S)
    PROVE  JobInv'
<1>1. UNCHANGED <<jobTime, authorRows, wentBack>>
  BY DEF BeginRun
<1>2. CASE S = {}
  <2>1. /\ lastStats'.at = jobTime /\ lastStats'.authors = {}
        /\ UNCHANGED <<jobRuns, runsOverlapped>>
    BY <1>2 DEF BeginRun
  <2>. QED
    BY <1>1, <2>1 DEF JobInv, FeaturesAreDated
<1>3. CASE S # {}
  <2>. DEFINE run == [at |-> jobTime, posts |-> S]
  <2>1. run.at = jobTime
    OBVIOUS
  <2>. HIDE DEF run
  <2>2. /\ jobRuns' = jobRuns \union {run} /\ lastStats' = lastStats
        /\ runsOverlapped' = (runsOverlapped \/ jobRuns # {})
    BY <1>3 DEF BeginRun, run
  <2>3. ~runsOverlapped' => ~runsOverlapped /\ jobRuns' = {run}
    BY <2>2
  <2>4. \A r \in jobRuns' : r.at \in Nat /\ r.at <= jobTime
    BY <2>1, <2>2 DEF JobInv
  <2>5. runsOverlapped' \in BOOLEAN
    BY <2>2 DEF JobInv
  <2>. QED
    BY <1>1, <2>1, <2>2, <2>3, <2>4, <2>5 DEF JobInv, FeaturesAreDated
<1>. QED
  BY <1>2, <1>3

LEMMA RunEnds ==
    ASSUME JobInv, NEW r \in jobRuns, NEW done \in SUBSET Author, EndRun(r, done)
    PROVE  JobInv'
<1>1. /\ jobRuns' = jobRuns \ {r}
      /\ authorRows' = [a \in Author |-> IF a \in done THEN r.at ELSE authorRows[a]]
      /\ wentBack' = (wentBack \/ \E a \in done : authorRows[a] > r.at)
      /\ UNCHANGED <<jobTime, runsOverlapped>>
  BY DEF EndRun, WriteFeatures
<1>2. \/ lastStats'.at = r.at /\ lastStats'.authors = done
      \/ lastStats' = lastStats
  BY DEF EndRun
<1>3. r.at \in Nat /\ r.at <= jobTime
  BY DEF JobInv
<1>4. /\ authorRows' \in [Author -> Nat] /\ \A a \in Author : authorRows'[a] <= jobTime
      /\ wentBack' \in BOOLEAN
      /\ lastStats'.at \in Nat /\ lastStats'.at <= jobTime /\ lastStats'.authors \subseteq Author
  BY <1>1, <1>2, <1>3 DEF JobInv
<1>5. ASSUME ~runsOverlapped
      PROVE  /\ jobRuns' = {} /\ ~wentBack'
             /\ \A a \in lastStats'.authors : authorRows'[a] >= lastStats'.at
  <2>1. /\ \A a \in Author : authorRows[a] \in Nat /\ authorRows[a] <= r.at
        /\ \A s \in jobRuns : r = s
    BY <1>5 DEF JobInv
  <2>2. ~wentBack' /\ jobRuns' = {}
    BY <1>1, <1>3, <1>5, <2>1 DEF JobInv, FeaturesAreDated
  <2>3. CASE lastStats'.at = r.at /\ lastStats'.authors = done
    <3>1. \A a \in done : authorRows'[a] = r.at
      BY <1>1
    <3>. QED
      BY <1>3, <2>2, <2>3, <3>1
  <2>4. CASE lastStats' = lastStats
    <3>1. \A a \in lastStats.authors : a \in Author /\ lastStats.at <= r.at
                                       /\ authorRows[a] >= lastStats.at
      BY <1>5 DEF JobInv, FeaturesAreDated
    <3>2. lastStats.at \in Nat
      BY DEF JobInv
    <3>3. \A a \in lastStats.authors : authorRows'[a] >= lastStats.at
      <4>1. TAKE a \in lastStats.authors
      <4>2. authorRows'[a] = r.at \/ authorRows'[a] = authorRows[a]
        BY <1>1, <3>1
      <4>. QED
        BY <1>3, <3>1, <3>2, <4>2
    <3>. QED
      BY <2>2, <2>4, <3>3
  <2>. QED
    BY <1>2, <2>2, <2>3, <2>4
<1>. QED
  BY <1>1, <1>3, <1>4, <1>5 DEF JobInv, FeaturesAreDated

LEMMA JobInvariant == JobSpec => []JobInv
<1>1. JobInit => JobInv
  <2>. SUFFICES ASSUME JobInit PROVE JobInv
    OBVIOUS
  <2>1. /\ jobTime = 1 /\ jobRuns = {} /\ lastStats.at = 0 /\ lastStats.authors = {}
        /\ authorRows = [a \in Author |-> 0]
        /\ {runsOverlapped, wentBack} \subseteq BOOLEAN /\ ~wentBack
    BY DEF JobInit
  <2>2. authorRows \in [Author -> Nat] /\ \A a \in Author : authorRows[a] <= jobTime
    BY <2>1
  <2>3. FeaturesAreDated
    BY <2>1 DEF FeaturesAreDated
  <2>4. jobTime \in Nat /\ lastStats.at \in Nat /\ lastStats.at <= jobTime
        /\ lastStats.authors \subseteq Author
    BY <2>1
  <2>. QED
    BY <2>1, <2>2, <2>3, <2>4 DEF JobInv
<1>2. JobInv /\ [JobNext]_jobVars => JobInv'
  <2>. SUFFICES ASSUME JobInv, [JobNext]_jobVars PROVE JobInv'
    OBVIOUS
  <2>1. CASE JobClock
    <3>1. jobTime' = jobTime + 1 /\ jobTime \in Nat
      BY <2>1 DEF JobClock, JobInv
    <3>. QED
      BY <2>1, <3>1 DEF JobClock, JobInv, FeaturesAreDated
  <2>2. ASSUME NEW p \in SocialPost, StoreSocialPost(p) PROVE JobInv'
    BY <2>2 DEF StoreSocialPost, JobInv, FeaturesAreDated
  <2>3. CASE UNCHANGED jobVars
    BY <2>3 DEF jobVars, JobInv, FeaturesAreDated
  <2>. QED
    BY <2>1, <2>2, <2>3, RunBegins, RunEnds DEF JobNext
<1>. QED
  BY <1>1, <1>2, PTL DEF JobSpec

-----------------------------------------------------------------------------
(* The exported rows *)

Windows == 1..MaxRolls
Exported == UNION {files[w].rows : w \in Windows}

ParquetTypes ==
    /\ recorded \in Nat /\ rollWindow \in Windows /\ fileOf \in Windows \union {0}
    /\ fileOf <= rollWindow /\ rejected \in BOOLEAN
    /\ files \in [Windows -> [rows : SUBSET Nat, footer : BOOLEAN]]
    /\ pending \in Seq(1..recorded)
    /\ \A w \in Windows : files[w].rows \subseteq 1..recorded

\* A row waits once, and is in no file yet.
WaitsOnce ==
    /\ \A i, j \in DOMAIN pending : pending[i] = pending[j] => i = j
    /\ \A w \in Windows : files[w].rows \intersect ToSet(pending) = {}

\* The clock's own file is never complete, so what opening it empties was lost before.
LastIsOpen == \A w \in Windows : w >= rollWindow => ~files[w].footer

Accounted ==
    \A n \in 1..recorded :
        n \in Exported \union ToSet(pending) \union afterFailure \union inOpenFile
              \union inChain
FilesApart == \A v, w \in Windows : v # w => files[v].rows \intersect files[w].rows = {}
FootersRight ==
    \A w \in Windows :
        /\ files[w].rows # {} /\ ~files[w].footer =>
              fileOf = w \/ files[w].rows \subseteq inOpenFile
        /\ fileOf = w => ~files[w].footer

ParquetInv ==
    ParquetTypes /\ WaitsOnce /\ LastIsOpen /\ Accounted /\ FilesApart /\ FootersRight

LEMMA ExportFollows == ASSUME ParquetInv PROVE RowsAreExported
  BY DEF ParquetInv, RowsAreExported, Accounted, Exported, FilesApart, FootersRight, Windows

\* The first of the rows that wait leaves the chain.
LEMMA LeavesChain ==
    ASSUME ParquetTypes, WaitsOnce, pending # <<>>
    PROVE  /\ Head(pending) \in 1..recorded /\ Tail(pending) \in Seq(1..recorded)
           /\ Head(pending) \in ToSet(pending)
           /\ \A n : n \in ToSet(pending) <=> n = Head(pending) \/ n \in ToSet(Tail(pending))
           /\ Head(pending) \notin ToSet(Tail(pending))
           /\ \A i, j \in DOMAIN Tail(pending) : Tail(pending)[i] = Tail(pending)[j] => i = j
<1>. DEFINE t == Tail(pending)
<1>1. /\ pending \in Seq(1..recorded) /\ Len(pending) \in Nat /\ Len(pending) > 0
      /\ DOMAIN pending = 1..Len(pending)
  BY DEF ParquetTypes
<1>2. /\ t \in Seq(1..recorded) /\ Len(t) = Len(pending) - 1 /\ DOMAIN t = 1..Len(t)
      /\ \A i \in 1..Len(t) : t[i] = pending[i + 1]
      /\ Head(pending) = pending[1] /\ pending[1] \in 1..recorded
  <2>1. 1 \in 1..Len(pending)
    BY <1>1
  <2>2. Head(pending) = pending[1] /\ pending[1] \in 1..recorded
    <3>1. pending[1] \in 1..recorded
      BY <1>1, <2>1, ElementOfSeq
    <3>2. Head(pending) = pending[1]
      BY <1>1
    <3>. QED
      BY <3>1, <3>2
  <2>. DEFINE R == 1..recorded
  <2>3. pending \in Seq(R) /\ pending # <<>>
    BY <1>1
  <2>. HIDE DEF R
  <2>4. /\ Tail(pending) \in Seq(R) /\ Len(Tail(pending)) = Len(pending) - 1
        /\ \A i \in 1..Len(Tail(pending)) : Tail(pending)[i] = pending[i + 1]
    BY <2>3, HeadTailProperties
  <2>. QED
    BY <2>2, <2>4 DEF R
<1>. HIDE DEF t
<1>3. \A n : n \in ToSet(pending) => n = Head(pending) \/ n \in ToSet(t)
  <2>1. SUFFICES ASSUME NEW i \in 1..Len(pending), i # 1 PROVE pending[i] \in ToSet(t)
    BY <1>1, <1>2 DEF ToSet
  <2>2. i - 1 \in 1..Len(t) /\ t[i - 1] = pending[i]
    BY <1>1, <1>2, <2>1
  <2>. QED
    BY <1>2, <2>2 DEF ToSet
<1>4. \A n : n \in ToSet(t) => n \in ToSet(pending) /\ n # Head(pending)
  <2>1. SUFFICES ASSUME NEW i \in 1..Len(t)
                 PROVE  t[i] \in ToSet(pending) /\ t[i] # pending[1]
    BY <1>2 DEF ToSet
  <2>2. i + 1 \in 1..Len(pending) /\ 1 \in 1..Len(pending) /\ i + 1 # 1 /\ t[i] = pending[i + 1]
    BY <1>1, <1>2
  <2>. QED
    BY <1>1, <2>2 DEF ToSet, WaitsOnce
<1>5. Head(pending) \in ToSet(pending)
  <2>1. 1 \in 1..Len(pending)
    BY <1>1
  <2>. QED
    BY <1>1, <1>2, <2>1 DEF ToSet
<1>6. \A i, j \in DOMAIN t : t[i] = t[j] => i = j
  <2>1. SUFFICES ASSUME NEW i \in 1..Len(t), NEW j \in 1..Len(t), t[i] = t[j] PROVE i = j
    BY <1>2
  <2>2. i + 1 \in DOMAIN pending /\ j + 1 \in DOMAIN pending
    BY <1>1, <1>2
  <2>3. pending[i + 1] = pending[j + 1]
    BY <1>2, <2>1
  <2>4. i + 1 = j + 1
    BY <2>2, <2>3 DEF WaitsOnce
  <2>. QED
    BY <2>4
<1>. QED
  BY <1>2, <1>3, <1>4, <1>5, <1>6 DEF t

\* A rotation: the old file gets its footer, and what opening the new one empties was
\* lost when a process ended.
LEMMA OpensFile ==
    ASSUME ParquetInv, Rotates, NEW opened,
           opened = [CloseFile(fileOf) EXCEPT ![rollWindow] = NoFile]
    PROVE  /\ opened \in [Windows -> [rows : SUBSET Nat, footer : BOOLEAN]]
           /\ opened[rollWindow].rows = {} /\ ~opened[rollWindow].footer
           /\ \A w \in Windows \ {rollWindow} :
                 /\ opened[w].rows = files[w].rows
                 /\ w # fileOf => opened[w].footer = files[w].footer
                 /\ w = fileOf => opened[w].footer
           /\ files[rollWindow].rows \subseteq inOpenFile
<1>1. /\ files \in [Windows -> [rows : SUBSET Nat, footer : BOOLEAN]]
      /\ rollWindow \in Windows /\ fileOf \in Windows \union {0} /\ fileOf # rollWindow
      /\ 0 \notin Windows /\ rollWindow \in Nat
  BY DEF ParquetInv, ParquetTypes, Rotates, Windows
<1>. DEFINE closed == CloseFile(fileOf)
<1>2. /\ closed \in [Windows -> [rows : SUBSET Nat, footer : BOOLEAN]]
      /\ \A w \in Windows :
            /\ closed[w].rows = files[w].rows
            /\ w # fileOf => closed[w].footer = files[w].footer
            /\ w = fileOf => closed[w].footer
  <2>1. CASE fileOf = 0
    BY <1>1, <2>1 DEF CloseFile
  <2>2. CASE fileOf # 0
    BY <1>1, <2>2 DEF CloseFile
  <2>. QED
    BY <2>1, <2>2
<1>. HIDE DEF closed
<1>3. NoFile \in [rows : SUBSET Nat, footer : BOOLEAN] /\ NoFile.rows = {} /\ ~NoFile.footer
  BY DEF NoFile
<1>4. opened = [closed EXCEPT ![rollWindow] = NoFile]
  BY DEF closed
<1>5. files[rollWindow].rows \subseteq inOpenFile
  <2>1. ~files[rollWindow].footer
    BY <1>1 DEF ParquetInv, LastIsOpen
  <2>. QED
    BY <1>1, <2>1 DEF ParquetInv, FootersRight
<1>6. /\ opened[rollWindow] = NoFile
      /\ \A w \in Windows \ {rollWindow} : opened[w] = closed[w]
      /\ opened \in [Windows -> [rows : SUBSET Nat, footer : BOOLEAN]]
  <2>. DEFINE FileState == [rows : SUBSET Nat, footer : BOOLEAN]
  <2>1. closed \in [Windows -> FileState] /\ NoFile \in FileState /\ rollWindow \in Windows
    BY <1>1, <1>2, <1>3
  <2>. HIDE DEF FileState
  <2>2. /\ opened[rollWindow] = NoFile /\ opened \in [Windows -> FileState]
        /\ \A w \in Windows \ {rollWindow} : opened[w] = closed[w]
    BY <1>4, <2>1
  <2>. QED
    BY <2>2 DEF FileState
<1>. QED
  BY <1>2, <1>3, <1>5, <1>6

LEMMA Appends ==
    ASSUME ParquetInv, AppendRow
    PROVE  ParquetInv'
<1>. DEFINE row == Head(pending)
            opened == IF Rotates THEN [CloseFile(fileOf) EXCEPT ![rollWindow] = NoFile] ELSE files
            w0 == IF Rotates THEN rollWindow ELSE fileOf
<1>1. w0 = rollWindow
  BY DEF Rotates
<1>2. /\ files' = [opened EXCEPT ![rollWindow].rows = @ \union {row}]
      /\ fileOf' = rollWindow /\ pending' = Tail(pending) /\ pending # <<>>
      /\ UNCHANGED <<rollWindow, recorded, rejected, afterFailure, inOpenFile, inChain>>
  BY <1>1 DEF AppendRow
<1>3. /\ opened \in [Windows -> [rows : SUBSET Nat, footer : BOOLEAN]]
      /\ ~opened[rollWindow].footer
      /\ opened[rollWindow].rows \subseteq files[rollWindow].rows
      /\ \A n \in files[rollWindow].rows : n \in opened[rollWindow].rows \union inOpenFile
      /\ \A w \in Windows \ {rollWindow} :
            /\ opened[w].rows = files[w].rows
            /\ w # fileOf => opened[w].footer = files[w].footer
            /\ w = fileOf => opened[w].footer
  <2>1. CASE Rotates
    <3>1. opened = [CloseFile(fileOf) EXCEPT ![rollWindow] = NoFile]
      BY <2>1
    <3>. HIDE DEF opened
    <3>2. /\ opened \in [Windows -> [rows : SUBSET Nat, footer : BOOLEAN]]
          /\ opened[rollWindow].rows = {} /\ ~opened[rollWindow].footer
          /\ \A w \in Windows \ {rollWindow} :
                /\ opened[w].rows = files[w].rows
                /\ w # fileOf => opened[w].footer = files[w].footer
                /\ w = fileOf => opened[w].footer
          /\ files[rollWindow].rows \subseteq inOpenFile
      BY <2>1, <3>1, OpensFile
    <3>. QED
      BY <3>2
  <2>2. CASE ~Rotates
    <3>1. opened = files /\ fileOf = rollWindow /\ rollWindow \in Windows
      BY <2>2 DEF Rotates, ParquetInv, ParquetTypes
    <3>. HIDE DEF opened
    <3>. QED
      BY <3>1 DEF ParquetInv, ParquetTypes, FootersRight
  <2>. QED
    BY <2>1, <2>2
<1>. HIDE DEF opened, row, w0
<1>4. /\ row \in 1..recorded /\ Tail(pending) \in Seq(1..recorded) /\ row \in Nat
      /\ row \in ToSet(pending) /\ row \notin ToSet(Tail(pending))
      /\ \A n : n \in ToSet(pending) <=> n = row \/ n \in ToSet(Tail(pending))
      /\ \A i, j \in DOMAIN Tail(pending) : Tail(pending)[i] = Tail(pending)[j] => i = j
  BY <1>2, LeavesChain DEF ParquetInv, row
<1>5. rollWindow \in Windows /\ rollWindow \in Nat /\ 0 \notin Windows
  BY DEF ParquetInv, ParquetTypes, Windows
<1>6. /\ files' \in [Windows -> [rows : SUBSET Nat, footer : BOOLEAN]]
      /\ files'[rollWindow].rows = opened[rollWindow].rows \union {row}
      /\ ~files'[rollWindow].footer
      /\ \A w \in Windows \ {rollWindow} : files'[w] = opened[w]
  BY <1>2, <1>3, <1>4, <1>5
<1>7. \A w \in Windows : files'[w].rows \subseteq files[w].rows \union {row}
  BY <1>3, <1>6
<1>8. ParquetTypes'
  <2>1. \A w \in Windows : files'[w].rows \subseteq 1..recorded
    BY <1>4, <1>7 DEF ParquetInv, ParquetTypes
  <2>. QED
    BY <1>2, <1>4, <1>5, <1>6, <2>1 DEF ParquetInv, ParquetTypes, Windows
<1>9. WaitsOnce'
  <2>1. \A w \in Windows : files'[w].rows \intersect ToSet(Tail(pending)) = {}
    BY <1>4, <1>7 DEF ParquetInv, WaitsOnce
  <2>. QED
    BY <1>2, <1>4, <2>1 DEF WaitsOnce, Windows
<1>10. LastIsOpen'
  <2>1. ASSUME NEW w \in Windows, w >= rollWindow PROVE ~files'[w].footer
    <3>1. CASE w = rollWindow
      BY <1>6, <3>1
    <3>2. CASE w # rollWindow
      <4>1. w # fileOf
        BY <1>5, <2>1, <3>2 DEF ParquetInv, ParquetTypes, Windows
      <4>. QED
        BY <1>3, <1>6, <2>1, <3>2, <4>1 DEF ParquetInv, LastIsOpen
    <3>. QED
      BY <3>1, <3>2
  <2>. QED
    BY <1>2, <2>1 DEF LastIsOpen, Windows
<1>11. Accounted'
  <2>1. \A n \in Exported : n \in Exported' \union inOpenFile
    <3>1. SUFFICES ASSUME NEW w \in Windows, NEW n \in files[w].rows
                   PROVE  n \in Exported' \union inOpenFile
      BY DEF Exported
    <3>2. n \in files'[w].rows \union inOpenFile
      BY <1>3, <1>6
    <3>. QED
      BY <3>2 DEF Exported, Windows
  <2>2. row \in Exported'
    BY <1>5, <1>6 DEF Exported, Windows
  <2>. QED
    BY <1>2, <1>4, <2>1, <2>2 DEF ParquetInv, Accounted
<1>12. FilesApart'
  <2>1. \A w \in Windows : row \notin files[w].rows
    BY <1>4 DEF ParquetInv, WaitsOnce
  <2>2. ASSUME NEW v \in Windows, NEW w \in Windows, v # w
        PROVE  files'[v].rows \intersect files'[w].rows = {}
    <3>1. files[v].rows \intersect files[w].rows = {}
      BY <2>2 DEF ParquetInv, FilesApart
    <3>2. /\ v # rollWindow => files'[v].rows = files[v].rows
          /\ w # rollWindow => files'[w].rows = files[w].rows
      BY <1>3, <1>6
    <3>. QED
      BY <1>7, <2>1, <2>2, <3>1, <3>2
  <2>. QED
    BY <2>2 DEF FilesApart, Windows
<1>13. FootersRight'
  <2>1. ASSUME NEW w \in Windows
        PROVE  /\ files'[w].rows # {} /\ ~files'[w].footer =>
                    rollWindow = w \/ files'[w].rows \subseteq inOpenFile
               /\ rollWindow = w => ~files'[w].footer
    BY <1>3, <1>6 DEF ParquetInv, FootersRight
  <2>. QED
    BY <1>2, <2>1 DEF FootersRight, Windows
<1>. QED
  BY <1>8, <1>9, <1>10, <1>11, <1>12, <1>13 DEF ParquetInv

LEMMA AppendsFail ==
    ASSUME ParquetInv, AppendFails
    PROVE  ParquetInv'
<1>. DEFINE row == Head(pending)
<1>1. /\ pending' = Tail(pending) /\ pending # <<>> /\ rejected' = TRUE
      /\ afterFailure' = afterFailure \union {row}
      /\ UNCHANGED <<rollWindow, recorded, inOpenFile, inChain>>
  BY DEF AppendFails
<1>2. /\ row \in 1..recorded /\ Tail(pending) \in Seq(1..recorded)
      /\ \A n : n \in ToSet(pending) <=> n = row \/ n \in ToSet(Tail(pending))
      /\ \A i, j \in DOMAIN Tail(pending) : Tail(pending)[i] = Tail(pending)[j] => i = j
  BY <1>1, LeavesChain DEF ParquetInv
<1>. HIDE DEF row
<1>3. rollWindow \in Windows /\ rollWindow \in Nat /\ fileOf \in Windows \union {0} /\ 0 \notin Windows
      /\ fileOf <= rollWindow
      /\ files \in [Windows -> [rows : SUBSET Nat, footer : BOOLEAN]]
  BY DEF ParquetInv, ParquetTypes, Windows
<1>. DEFINE Kept ==
         \A w \in Windows : \/ files'[w].rows = files[w].rows
                            \/ files'[w].rows = {} /\ files[w].rows \subseteq inOpenFile
            Typed ==
                /\ files' \in [Windows -> [rows : SUBSET Nat, footer : BOOLEAN]]
                /\ fileOf' \in Windows \union {0} /\ fileOf' <= rollWindow
<1>4. Kept /\ Typed /\ LastIsOpen' /\ FootersRight'
  <2>1. CASE UNCHANGED <<fileOf, files>>
    BY <1>1, <1>3, <2>1 DEF ParquetInv, LastIsOpen, FootersRight, Windows
  <2>2. CASE Rotates /\ fileOf # 0 /\ fileOf' = 0 /\ files' = CloseFile(fileOf)
    <3>1. /\ files' \in [Windows -> [rows : SUBSET Nat, footer : BOOLEAN]]
          /\ \A w \in Windows :
                /\ files'[w].rows = files[w].rows
                /\ w # fileOf => files'[w].footer = files[w].footer
                /\ w = fileOf => files'[w].footer
      BY <1>3, <2>2 DEF CloseFile
    <3>2. \A w \in Windows : w >= rollWindow => w # fileOf
      BY <1>3, <2>2 DEF Rotates, Windows
    <3>3. LastIsOpen'
      BY <1>1, <3>1, <3>2 DEF ParquetInv, LastIsOpen, Windows
    <3>4. FootersRight'
      <4>1. \A w \in Windows :
               files'[w].rows # {} /\ ~files'[w].footer => files'[w].rows \subseteq inOpenFile
        BY <3>1 DEF ParquetInv, FootersRight
      <4>. QED
        BY <1>1, <1>3, <2>2, <4>1 DEF FootersRight, Windows
    <3>5. Kept
      BY <3>1
    <3>6. Typed
      BY <1>3, <2>2, <3>1
    <3>. HIDE DEF Kept, Typed
    <3>. QED
      BY <3>3, <3>4, <3>5, <3>6
  <2>3. CASE /\ Rotates /\ fileOf' = rollWindow
             /\ files' = [CloseFile(fileOf) EXCEPT ![rollWindow] = NoFile]
    <3>1. /\ files' \in [Windows -> [rows : SUBSET Nat, footer : BOOLEAN]]
          /\ files'[rollWindow].rows = {} /\ ~files'[rollWindow].footer
          /\ \A w \in Windows \ {rollWindow} :
                /\ files'[w].rows = files[w].rows
                /\ w # fileOf => files'[w].footer = files[w].footer
                /\ w = fileOf => files'[w].footer
          /\ files[rollWindow].rows \subseteq inOpenFile
      BY <2>3, OpensFile
    <3>2. \A w \in Windows \ {rollWindow} : w >= rollWindow => w # fileOf
      BY <1>3 DEF Windows
    <3>3. LastIsOpen'
      BY <1>1, <3>1, <3>2 DEF ParquetInv, LastIsOpen, Windows
    <3>4. FootersRight'
      <4>1. \A w \in Windows \ {rollWindow} :
               files'[w].rows # {} /\ ~files'[w].footer => files'[w].rows \subseteq inOpenFile
        BY <3>1 DEF ParquetInv, FootersRight
      <4>. QED
        BY <1>1, <2>3, <3>1, <4>1 DEF FootersRight, Windows
    <3>5. Kept
      BY <3>1
    <3>6. Typed
      BY <1>3, <2>3, <3>1
    <3>. HIDE DEF Kept, Typed
    <3>. QED
      BY <3>3, <3>4, <3>5, <3>6
  <2>. HIDE DEF Kept, Typed
  <2>. QED
    BY <2>1, <2>2, <2>3 DEF AppendFails
<1>5. \A w \in Windows : files'[w].rows \subseteq files[w].rows
  BY <1>4
<1>6. ParquetTypes'
  <2>1. \A w \in Windows : files'[w].rows \subseteq 1..recorded
    BY <1>5 DEF ParquetInv, ParquetTypes
  <2>. QED
    BY <1>1, <1>2, <1>3, <1>4, <2>1 DEF ParquetInv, ParquetTypes, Windows
<1>7. WaitsOnce'
  <2>1. \A w \in Windows : files'[w].rows \intersect ToSet(Tail(pending)) = {}
    BY <1>2, <1>5 DEF ParquetInv, WaitsOnce
  <2>. QED
    BY <1>1, <1>2, <2>1 DEF WaitsOnce, Windows
<1>8. LastIsOpen' /\ FootersRight'
  BY <1>1, <1>4 DEF LastIsOpen, FootersRight, Windows
<1>9. Accounted'
  <2>1. \A n \in Exported : n \in Exported' \union inOpenFile
    BY <1>4 DEF Exported, Windows
  <2>. QED
    BY <1>1, <1>2, <2>1 DEF ParquetInv, Accounted
<1>10. FilesApart'
  BY <1>5 DEF ParquetInv, FilesApart, Windows
<1>. QED
  BY <1>6, <1>7, <1>8, <1>9, <1>10 DEF ParquetInv

LEMMA RejectionKeeps ==
    ASSUME ParquetInv, AppendRejected
    PROVE  ParquetInv'
<1>1. /\ pending' = Tail(pending) /\ pending # <<>>
      /\ afterFailure' = afterFailure \union {Head(pending)}
      /\ UNCHANGED <<rollWindow, recorded, rejected, fileOf, files, inOpenFile, inChain>>
  BY DEF AppendRejected
<1>2. /\ Tail(pending) \in Seq(1..recorded)
      /\ \A n : n \in ToSet(pending) <=> n = Head(pending) \/ n \in ToSet(Tail(pending))
      /\ \A i, j \in DOMAIN Tail(pending) : Tail(pending)[i] = Tail(pending)[j] => i = j
  BY <1>1, LeavesChain DEF ParquetInv
<1>3. ParquetTypes'
  BY <1>1, <1>2 DEF ParquetInv, ParquetTypes, Windows
<1>4. WaitsOnce'
  <2>1. \A w \in Windows : files[w].rows \intersect ToSet(Tail(pending)) = {}
    BY <1>2 DEF ParquetInv, WaitsOnce
  <2>. QED
    BY <1>1, <1>2, <2>1 DEF WaitsOnce, Windows
<1>5. Accounted'
  <2>1. Exported' = Exported
    BY <1>1 DEF Exported, Windows
  <2>. QED
    BY <1>1, <1>2, <2>1 DEF ParquetInv, Accounted
<1>6. LastIsOpen' /\ FilesApart' /\ FootersRight'
  BY <1>1 DEF ParquetInv, LastIsOpen, FilesApart, FootersRight, Windows
<1>. QED
  BY <1>3, <1>4, <1>5, <1>6 DEF ParquetInv

LEMMA RecordsRow ==
    ASSUME ParquetInv, RecordRow
    PROVE  ParquetInv'
<1>. DEFINE n0 == recorded + 1
            R == 1..recorded
            S == 1..n0
<1>1. /\ recorded' = n0 /\ pending' = Append(pending, n0)
      /\ UNCHANGED <<rollWindow, rejected, fileOf, files, afterFailure, inOpenFile, inChain>>
  BY DEF RecordRow
<1>2. /\ recorded \in Nat /\ n0 \in Nat /\ R \subseteq S /\ n0 \in S /\ n0 \notin R
      /\ \A n \in S : n = n0 \/ n \in R
      /\ pending \in Seq(R) /\ Len(pending) \in Nat
  BY DEF ParquetInv, ParquetTypes
<1>3. \A w \in Windows : files[w].rows \subseteq R
  BY DEF ParquetInv, ParquetTypes
<1>. HIDE DEF R, S, n0
<1>4. \A i \in 1..Len(pending) : pending[i] \in R
  BY <1>2
<1>5. pending \in Seq(S)
  <2>1. pending = [i \in 1..Len(pending) |-> pending[i]]
    BY <1>2
  <2>2. pending \in [1..Len(pending) -> S]
    BY <1>2, <1>4, <2>1
  <2>. QED
    BY <1>2, <2>2
<1>6. /\ pending' \in Seq(S) /\ Len(pending') = Len(pending) + 1
      /\ DOMAIN pending' = 1..Len(pending) + 1
      /\ \A i \in 1..Len(pending) : pending'[i] = pending[i]
      /\ pending'[Len(pending) + 1] = n0
  <2>1. Append(pending, n0) \in Seq(S)
    BY <1>2, <1>5, AppendProperties
  <2>. QED
    BY <1>1, <1>2, <1>5, <2>1, AppendProperties
<1>7. \A n : n \in ToSet(pending') <=> n = n0 \/ n \in ToSet(pending)
  <2>1. DOMAIN pending = 1..Len(pending)
    BY <1>2
  <2>2. \A i \in 1..Len(pending) + 1 : i = Len(pending) + 1 \/ i \in 1..Len(pending)
    BY <1>2
  <2>3. Len(pending) + 1 \in 1..Len(pending) + 1 /\ 1..Len(pending) \subseteq 1..Len(pending) + 1
    BY <1>2
  <2>. QED
    BY <1>6, <2>1, <2>2, <2>3 DEF ToSet
<1>8. ParquetTypes'
  <2>1. \A w \in Windows : files[w].rows \subseteq S
    BY <1>2, <1>3
  <2>. QED
    BY <1>1, <1>2, <1>6, <2>1 DEF ParquetInv, ParquetTypes, Windows, S
<1>9. WaitsOnce'
  <2>1. ASSUME NEW i \in DOMAIN pending', NEW j \in DOMAIN pending', pending'[i] = pending'[j]
        PROVE  i = j
    <3>1. DOMAIN pending = 1..Len(pending)
      BY <1>2
    <3>2. i = Len(pending) + 1 \/ i \in 1..Len(pending)
      BY <1>2, <1>6
    <3>3. j = Len(pending) + 1 \/ j \in 1..Len(pending)
      BY <1>2, <1>6
    <3>. QED
      BY <1>2, <1>4, <1>6, <2>1, <3>1, <3>2, <3>3 DEF ParquetInv, WaitsOnce
  <2>2. \A w \in Windows : files[w].rows \intersect ToSet(pending') = {}
    BY <1>2, <1>3, <1>7 DEF ParquetInv, WaitsOnce
  <2>. QED
    BY <1>1, <2>1, <2>2 DEF WaitsOnce, Windows
<1>10. Accounted'
  <2>1. Exported' = Exported
    BY <1>1 DEF Exported, Windows
  <2>2. \A n \in S : n \in Exported \union ToSet(pending') \union afterFailure \union inOpenFile
                          \union inChain
    BY <1>2, <1>7 DEF ParquetInv, Accounted, R
  <2>. QED
    BY <1>1, <2>1, <2>2 DEF Accounted, S
<1>11. LastIsOpen' /\ FilesApart' /\ FootersRight'
  BY <1>1 DEF ParquetInv, LastIsOpen, FilesApart, FootersRight, Windows
<1>. QED
  BY <1>8, <1>9, <1>10, <1>11 DEF ParquetInv

LEMMA RestartKeeps ==
    ASSUME ParquetInv, WriterEnds
    PROVE  ParquetInv'
<1>1. /\ inChain' = inChain \union ToSet(pending)
      /\ inOpenFile' = inOpenFile \union (IF fileOf = 0 THEN {} ELSE files[fileOf].rows)
      /\ pending' = <<>> /\ rejected' = FALSE /\ fileOf' = 0
      /\ UNCHANGED <<rollWindow, recorded, files, afterFailure>>
  BY DEF WriterEnds
<1>2. /\ recorded \in Nat /\ rollWindow \in Windows /\ rollWindow \in Nat /\ 0 \notin Windows
      /\ files \in [Windows -> [rows : SUBSET Nat, footer : BOOLEAN]]
      /\ \A w \in Windows : files[w].rows \subseteq 1..recorded
  BY DEF ParquetInv, ParquetTypes, Windows
<1>3. <<>> \in Seq(1..recorded) /\ DOMAIN <<>> = {} /\ 0 <= rollWindow
  BY <1>2
<1>4. ParquetTypes'
  <2>1. rejected' \in BOOLEAN
    BY <1>1
  <2>. QED
    BY <1>1, <1>2, <1>3, <2>1 DEF ParquetTypes, Windows
<1>5. WaitsOnce'
  BY <1>1, <1>3 DEF WaitsOnce, ToSet
<1>6. Accounted'
  <2>1. Exported' = Exported
    BY <1>1 DEF Exported, Windows
  <2>. QED
    BY <1>1, <2>1 DEF ParquetInv, Accounted
<1>7. LastIsOpen' /\ FilesApart'
  BY <1>1 DEF ParquetInv, LastIsOpen, FilesApart, Windows
<1>8. FootersRight'
  <2>1. ASSUME NEW w \in Windows, files[w].rows # {}, ~files[w].footer
        PROVE  files[w].rows \subseteq inOpenFile'
    <3>1. CASE fileOf = w
      BY <1>1, <1>2, <3>1
    <3>2. CASE fileOf # w
      BY <1>1, <2>1, <3>2 DEF ParquetInv, FootersRight
    <3>. QED
      BY <3>1, <3>2
  <2>. QED
    BY <1>1, <1>2, <2>1 DEF FootersRight, Windows
<1>. QED
  BY <1>4, <1>5, <1>6, <1>7, <1>8 DEF ParquetInv

LEMMA ParquetInvariant == ASSUME ParquetAssumption PROVE ParquetSpec => []ParquetInv
<1>1. ParquetInit => ParquetInv
  <2>. SUFFICES ASSUME ParquetInit PROVE ParquetInv
    OBVIOUS
  <2>1. /\ rollWindow = 1 /\ recorded = 0 /\ pending = <<>> /\ fileOf = 0
        /\ files = [w \in Windows |-> NoFile] /\ rejected \in BOOLEAN
    BY DEF ParquetInit, Windows
  <2>2. NoFile \in [rows : SUBSET Nat, footer : BOOLEAN] /\ NoFile.rows = {} /\ ~NoFile.footer
    BY DEF NoFile
  <2>3. 1 \in Windows /\ 0 \notin Windows /\ 1..0 = {} /\ <<>> \in Seq(1..0) /\ DOMAIN <<>> = {}
    BY DEF ParquetAssumption, Windows
  <2>4. ParquetTypes
    BY <2>1, <2>2, <2>3 DEF ParquetTypes
  <2>5. WaitsOnce /\ LastIsOpen /\ Accounted /\ FilesApart /\ FootersRight
    BY <2>1, <2>2, <2>3 DEF WaitsOnce, LastIsOpen, Accounted, FilesApart, FootersRight, ToSet
  <2>. QED
    BY <2>4, <2>5 DEF ParquetInv
<1>2. ParquetInv /\ [ParquetNext]_parquetVars => ParquetInv'
  <2>. SUFFICES ASSUME ParquetInv, [ParquetNext]_parquetVars PROVE ParquetInv'
    OBVIOUS
  <2>1. CASE NextRoll
    <3>1. /\ rollWindow' = rollWindow + 1 /\ rollWindow' \in Windows
          /\ UNCHANGED <<recorded, pending, rejected, fileOf, files, afterFailure, inOpenFile,
                         inChain>>
      BY <2>1 DEF NextRoll, ParquetInv, ParquetTypes, Windows
    <3>2. fileOf <= rollWindow' /\ \A w \in Windows : w >= rollWindow' => w >= rollWindow
      BY <3>1 DEF ParquetInv, ParquetTypes, Windows
    <3>3. ParquetTypes'
      BY <3>1, <3>2 DEF ParquetInv, ParquetTypes, Windows
    <3>4. LastIsOpen'
      BY <3>1, <3>2 DEF ParquetInv, LastIsOpen, Windows
    <3>5. WaitsOnce' /\ FilesApart' /\ FootersRight'
      BY <3>1 DEF ParquetInv, WaitsOnce, FilesApart, FootersRight, Windows
    <3>6. Accounted'
      BY <3>1 DEF ParquetInv, Accounted, Exported, Windows
    <3>. QED
      BY <3>3, <3>4, <3>5, <3>6 DEF ParquetInv
  <2>2. CASE UNCHANGED parquetVars
    <3>1. ParquetTypes' /\ WaitsOnce' /\ LastIsOpen'
      BY <2>2 DEF parquetVars, ParquetInv, ParquetTypes, WaitsOnce, LastIsOpen, Windows
    <3>2. Accounted' /\ FilesApart'
      BY <2>2 DEF parquetVars, ParquetInv, Accounted, Exported, FilesApart, Windows
    <3>3. FootersRight'
      BY <2>2 DEF parquetVars, ParquetInv, FootersRight, Windows
    <3>. QED
      BY <3>1, <3>2, <3>3 DEF ParquetInv
  <2>. QED
    BY <2>1, <2>2, RecordsRow, Appends, AppendsFail, RejectionKeeps, RestartKeeps
       DEF ParquetNext
<1>. QED
  BY <1>1, <1>2, PTL DEF ParquetSpec

-----------------------------------------------------------------------------
(* The model files *)

Versioned(f) ==
    /\ f \in [version : Nat, state : {"gone", "half", "whole"}]
    /\ f.state # "gone" => f.version > 0

ModelInv ==
    /\ Versioned(modelFile)
    /\ inUse \in Nat
    /\ watcher \in {"none", "live", "deaf"}
    /\ {noticed, debounce, unwatched, slipped} \subseteq BOOLEAN
    /\ status = "ok" <=> inUse > 0
    /\ model = "alpha" /\ unwatched /\ ~slipped =>
          inUse > 0 /\ modelFile = File(inUse, "whole")
    /\ model = "alpha" /\ inUse > 0 /\ ~unwatched /\ ~noticed /\ ~debounce /\ ~slipped =>
          modelFile = File(inUse, "whole") /\ watcher = "live"
    /\ model # "alpha" => watcher = "none" /\ ~noticed /\ ~debounce /\ ~unwatched

LEMMA FileChanges ==
    ASSUME ModelInv, NEW version \in Nat, NEW state \in {"gone", "half", "whole"},
           state # "gone" => version > 0, Becomes(version, state)
    PROVE  ModelInv'
<1>1. Versioned(modelFile')
  BY DEF Becomes, Versioned, File
<1>2. /\ watcher' \in {"none", "live", "deaf"}
      /\ watcher = "live" => noticed' = TRUE
      /\ watcher # "live" => noticed' = noticed /\ watcher' = watcher
      /\ unwatched => slipped' = TRUE
      /\ ~unwatched => slipped' = slipped
      /\ {noticed', slipped'} \subseteq BOOLEAN
      /\ UNCHANGED <<model, inUse, status, debounce, unwatched>>
  BY DEF Becomes, ModelInv
<1>. QED
  BY <1>1, <1>2 DEF ModelInv

LEMMA LoadIs ==
    ASSUME ModelInv, Load
    PROVE  /\ inUse' \in Nat /\ (status' = "ok" <=> inUse' > 0)
           /\ Whole => inUse' > 0 /\ modelFile' = File(inUse', "whole")
           /\ ~Whole => inUse' = 0
           /\ model' = model /\ modelFile' = modelFile
<1>1. CASE Whole
  <2>1. modelFile.version \in Nat /\ modelFile.version > 0 /\ modelFile.state = "whole"
    BY <1>1 DEF ModelInv, Versioned, Whole
  <2>2. modelFile = File(modelFile.version, "whole")
    BY <2>1 DEF ModelInv, Versioned, File
  <2>3. inUse' = modelFile.version /\ modelFile' = modelFile /\ model' = model
    BY <1>1 DEF Load
  <2>4. status' = "ok"
    BY <1>1, <2>1 DEF Load, Whole
  <2>. QED
    BY <1>1, <2>1, <2>2, <2>3, <2>4
<1>2. CASE ~Whole
  <2>1. status' \in {"error", "missing"}
    <3>1. CASE modelFile.state = "half"
      BY <1>2, <3>1 DEF Load
    <3>2. CASE modelFile.state # "half"
      BY <1>2, <3>2 DEF Load
    <3>. QED
      BY <3>1, <3>2
  <2>2. inUse' = 0 /\ modelFile' = modelFile /\ model' = model
    BY <1>2 DEF Load
  <2>. QED
    BY <1>2, <2>1, <2>2
<1>. QED
  BY <1>1, <1>2

LEMMA LoadsAlpha ==
    ASSUME ModelInv, LoadAlpha, debounce' \in BOOLEAN, model = "alpha"
    PROVE  ModelInv'
<1>1. Load /\ unwatched' = Whole /\ slipped' = FALSE /\ UNCHANGED <<watcher, noticed>>
  BY DEF LoadAlpha
<1>2. Whole \in BOOLEAN
  BY DEF Whole
<1>3. /\ inUse' \in Nat /\ (status' = "ok" <=> inUse' > 0)
      /\ Whole => inUse' > 0 /\ modelFile' = File(inUse', "whole")
      /\ ~Whole => inUse' = 0
      /\ model' = "alpha" /\ modelFile' = modelFile
  BY <1>1, LoadIs
<1>4. /\ {noticed', debounce', unwatched', slipped'} \subseteq BOOLEAN
      /\ watcher' \in {"none", "live", "deaf"} /\ Versioned(modelFile')
  BY <1>1, <1>2, <1>3 DEF ModelInv
<1>5. ~ (inUse' > 0) \/ Whole
  BY <1>3
<1>. HIDE DEF Whole
<1>. QED
  BY <1>1, <1>3, <1>4, <1>5, Zenon DEF ModelInv

LEMMA LoadsOther ==
    ASSUME ModelInv, Load, model # "alpha",
           UNCHANGED <<watcher, noticed, debounce, unwatched, slipped>>
    PROVE  ModelInv'
  BY LoadIs DEF ModelInv

LEMMA WatchesAlpha ==
    ASSUME ModelInv, WatchAlpha
    PROVE  ModelInv'
<1>1. /\ unwatched /\ unwatched' = FALSE /\ noticed' = FALSE
      /\ watcher' = IF modelFile.state = "gone" THEN "none" ELSE "live"
      /\ UNCHANGED <<model, modelFile, inUse, status, debounce, slipped>>
  BY DEF WatchAlpha
<1>2. model = "alpha" /\ ~slipped => modelFile = File(inUse, "whole") /\ watcher' = "live"
  <2>1. File(inUse, "whole").state = "whole"
    BY DEF File
  <2>. QED
    BY <1>1, <2>1 DEF ModelInv
<1>3. watcher' \in {"none", "live", "deaf"} /\ {noticed', unwatched'} \subseteq BOOLEAN
  BY <1>1
<1>4. model = "alpha"
  BY <1>1 DEF ModelInv
<1>. QED
  BY <1>1, <1>2, <1>3, <1>4 DEF ModelInv

LEMMA ModelInvariant == ModelSpec => []ModelInv
<1>1. ModelInit => ModelInv
  <2>. SUFFICES ASSUME ModelInit PROVE ModelInv
    OBVIOUS
  <2>1. Versioned(modelFile)
    BY DEF ModelInit, Versioned, File
  <2>2. inUse = 0 /\ ~ (inUse > 0) /\ inUse \in Nat /\ status # "ok"
    BY DEF ModelInit
  <2>. QED
    BY <2>1, <2>2 DEF ModelInit, ModelInv
<1>2. ModelInv /\ [ModelNext]_modelVars => ModelInv'
  <2>. SUFFICES ASSUME ModelInv, [ModelNext]_modelVars PROVE ModelInv'
    OBVIOUS
  <2>1. modelFile.version \in Nat /\ modelFile.version + 1 \in Nat
        /\ (modelFile.state # "gone" => modelFile.version > 0)
    BY DEF ModelInv, Versioned
  <2>2. CASE BeginWrite \/ EndWrite \/ Unlink
    BY <2>1, <2>2, FileChanges DEF BeginWrite, EndWrite, Unlink
  <2>3. CASE ReloadAlpha
    BY <2>3, LoadsAlpha DEF ReloadAlpha, ModelInv
  <2>4. CASE DebounceEnds
    <3>1. model = "alpha"
      BY <2>4 DEF DebounceEnds, ModelInv
    <3>. QED
      BY <2>4, <3>1, LoadsAlpha DEF DebounceEnds
  <2>5. CASE WatchAlpha
    BY <2>5, WatchesAlpha
  <2>6. CASE ScheduleAlphaReload
    BY <2>6 DEF ScheduleAlphaReload, ModelInv
  <2>7. CASE EnsureModel \/ ReloadFillnet
    BY <2>7, LoadsOther DEF EnsureModel, ReloadFillnet
  <2>8. CASE UNCHANGED modelVars
    BY <2>8 DEF modelVars, ModelInv
  <2>. QED
    BY <2>2, <2>3, <2>4, <2>5, <2>6, <2>7, <2>8 DEF ModelNext
<1>. QED
  BY <1>1, <1>2, PTL DEF ModelSpec

\* JobsAreCurrent: however samples, prices, runs and exports overlap themselves and
\* whatever fails, what they leave behind is of the last one, unless one took longer than
\* its interval; rows are in one file or were lost with a process, and models are those
\* of their files.
THEOREM JobsFollow ==
    MonitorSpec /\ PriceSpec /\ JobSpec /\ ParquetSpec /\ ModelSpec => []JobsAreCurrent
<1>1. MonitorInv /\ PriceInv /\ JobInv /\ ParquetInv /\ ModelInv => JobsAreCurrent
  <2>. SUFFICES ASSUME MonitorInv, PriceInv, JobInv, ParquetInv, ModelInv PROVE JobsAreCurrent
    OBVIOUS
  <2>1. RateOfLastSamples /\ PricesAreCurrent /\ RowsAreExported
    BY RatesFollow, PricesFollow, ExportFollows
  <2>2. FeaturesAreDated
    BY DEF JobInv
  <2>3. ModelsFollowFiles
    BY DEF ModelInv, ModelsFollowFiles
  <2>. QED
    BY <2>1, <2>2, <2>3 DEF JobsAreCurrent
<1>. QED
  BY <1>1, MonitorAssumption, PriceAssumption, ParquetAssumption, MonitorInvariant,
     PriceInvariant, JobInvariant, ParquetInvariant, ModelInvariant, PTL

-----------------------------------------------------------------------------
(* SchemaBootstrap: what the migrations bring *)

Numbers == 1..18
ViewObjects == {View(k) : k \in 1..4}

LEMMA EighteenMigrations ==
    /\ DOMAIN MIGRATIONS = Numbers /\ Len(MIGRATIONS) = 18
    /\ MIGRATIONS[1] = M0001_init /\ MIGRATIONS[2] = M0002_social_posts
    /\ MIGRATIONS[3] = M0003_candidate_enrichment /\ MIGRATIONS[4] = M0004_policy_engine
    /\ MIGRATIONS[5] = M0005_orders_enrich /\ MIGRATIONS[6] = M0006_narrative_miner
    /\ MIGRATIONS[7] = M0007_topic_metadata /\ MIGRATIONS[8] = M0008_pvp_phase_a
    /\ MIGRATIONS[9] = M0009_pvp_phase_b /\ MIGRATIONS[10] = M0010_pvp_phase_c
    /\ MIGRATIONS[11] = M0011_pvp_phase_d /\ MIGRATIONS[12] = M0012_pvp_phase_e
    /\ MIGRATIONS[13] = M0013_preflight_mae /\ MIGRATIONS[14] = M0014_phase_f_route_stats
    /\ MIGRATIONS[15] = M0015_phase_f_leader_wallets
    /\ MIGRATIONS[16] = M0016_housekeeping_indices
    /\ MIGRATIONS[17] = M0017_offline_features /\ MIGRATIONS[18] = M0018_training_views
  BY DEF MIGRATIONS, Numbers

LEMMA OneToFour == ASSUME NEW k \in 1..4 PROVE k = 1 \/ k = 2 \/ k = 3 \/ k = 4
  OBVIOUS

LEMMA EachNumber ==
    ASSUME NEW i \in Numbers
    PROVE  /\ i \in {1, 3, 5, 7, 10, 12, 13, 18} \/ i \in {2, 4, 6, 8, 9, 11, 14, 15, 16, 17}
           /\ 1 \in 1..i /\ (i \in {12, 18} => 9 \in 1..i)
  BY DEF Numbers

LEMMA FourViews == DOMAIN TrainingViews = 1..4 /\ Len(TrainingViews) = 4
  BY DEF TrainingViews

LEMMA ThreeColumns == Len(OutcomeColumns) = 3
  BY DEF OutcomeColumns

Table(t) == [table |-> t, column |-> ""]

LEMMA TablesHaveNoColumn ==
    ASSUME NEW names, NEW o \in Tables(names)
    PROVE  o.column = "" /\ \E t \in names : o = Table(t)
<1>1. PICK t \in names : o = Table(t)
  BY DEF Tables, Table
<1>2. Table(t).column = ""
  BY DEF Table
<1>. QED
  BY <1>1, <1>2

LEMMA ColumnsHaveTables ==
    ASSUME NEW t, NEW names, NEW o \in Columns(t, names)
    PROVE  [o EXCEPT !.column = ""] = Table(t)
<1>1. PICK c \in names : o = [table |-> t, column |-> c]
  BY DEF Columns
<1>2. [o EXCEPT !.column = ""] \in [table : {t}, column : {""}]
  BY <1>1
<1>3. ASSUME NEW x \in [table : {t}, column : {""}] PROVE x = [table |-> t, column |-> ""]
  OBVIOUS
<1>. QED
  BY <1>2, <1>3 DEF Table

\* A column is added to a table that the same migration or an earlier one brings, and
\* which is no view.
LEMMA ColumnsHaveTheirTable ==
    ASSUME NEW i \in Numbers, NEW o \in MIGRATIONS[i], o.column # ""
    PROVE  \E j \in 1..i : [o EXCEPT !.column = ""] \in MIGRATIONS[j] \ ViewObjects
<1>. DEFINE bare == [o EXCEPT !.column = ""]
<1>1. /\ {Table("candidates"), Table("orders"), Table("topics"), Table("sizing_decisions"),
          Table("positions")} \subseteq MIGRATIONS[1] \ ViewObjects
      /\ Table("exec_outcomes") \in MIGRATIONS[9] \ ViewObjects
  <2>1. /\ {Table("candidates"), Table("orders"), Table("topics"), Table("sizing_decisions"),
            Table("positions")} \subseteq M0001_init
        /\ Table("exec_outcomes") \in M0009_pvp_phase_b
    BY DEF M0001_init, M0009_pvp_phase_b, Tables, Table
  <2>2. \A k \in 1..4 : View(k).table \in
          {"fill_training_view", "alpha_training_view", "rug_training_view",
           "survival_training_view"}
    <3>1. \A k \in 1..4 : View(k).table = TrainingViews[k]
      BY DEF View
    <3>2. /\ TrainingViews[1] = "fill_training_view" /\ TrainingViews[2] = "alpha_training_view"
          /\ TrainingViews[3] = "rug_training_view" /\ TrainingViews[4] = "survival_training_view"
      BY DEF TrainingViews
    <3>3. \A k \in 1..4 : k = 1 \/ k = 2 \/ k = 3 \/ k = 4
      BY OneToFour
    <3>. QED
      BY <3>1, <3>2, <3>3
  <2>3. \A t \in {"candidates", "orders", "topics", "sizing_decisions", "positions",
                  "exec_outcomes"} : Table(t) \notin ViewObjects
    <3>1. \A t : Table(t).table = t
      BY DEF Table
    <3>. QED
      BY <2>2, <3>1 DEF ViewObjects
  <2>. QED
    BY <2>1, <2>3, EighteenMigrations
<1>2. \/ bare \in {Table("candidates"), Table("orders"), Table("topics"),
                    Table("sizing_decisions"), Table("positions")}
      \/ i \in {12, 18} /\ bare = Table("exec_outcomes")
  <2>1. CASE i = 1
    <3>1. o \in M0001_init
      BY <2>1, EighteenMigrations
    <3>2. \E names : o \in Columns("positions", names)
      BY <3>1, TablesHaveNoColumn DEF M0001_init
    <3>3. bare = Table("positions")
      BY <3>2, ColumnsHaveTables
    <3>. QED
      BY <2>1, <3>3
  <2>2. CASE i = 3
    <3>1. o \in M0003_candidate_enrichment
      BY <2>2, EighteenMigrations
    <3>2. \E names : o \in Columns("candidates", names)
      BY <3>1 DEF M0003_candidate_enrichment
    <3>3. bare = Table("candidates")
      BY <3>2, ColumnsHaveTables
    <3>. QED
      BY <2>2, <3>3
  <2>3. CASE i = 5
    <3>1. o \in M0005_orders_enrich
      BY <2>3, EighteenMigrations
    <3>2. \E names : o \in Columns("orders", names)
      BY <3>1 DEF M0005_orders_enrich
    <3>3. bare = Table("orders")
      BY <3>2, ColumnsHaveTables
    <3>. QED
      BY <2>3, <3>3
  <2>4. CASE i = 7
    <3>1. o \in M0007_topic_metadata
      BY <2>4, EighteenMigrations
    <3>2. \E names : o \in Columns("topics", names)
      BY <3>1 DEF M0007_topic_metadata
    <3>3. bare = Table("topics")
      BY <3>2, ColumnsHaveTables
    <3>. QED
      BY <2>4, <3>3
  <2>5. CASE i = 10
    <3>1. o \in M0010_pvp_phase_c
      BY <2>5, EighteenMigrations
    <3>2. \E names : o \in Columns("sizing_decisions", names)
      BY <3>1, TablesHaveNoColumn DEF M0010_pvp_phase_c
    <3>3. bare = Table("sizing_decisions")
      BY <3>2, ColumnsHaveTables
    <3>. QED
      BY <2>5, <3>3
  <2>6. CASE i = 12
    <3>1. o \in M0012_pvp_phase_e
      BY <2>6, EighteenMigrations
    <3>2. \E names : o \in Columns("exec_outcomes", names)
      BY <3>1, TablesHaveNoColumn DEF M0012_pvp_phase_e
    <3>3. bare = Table("exec_outcomes")
      BY <3>2, ColumnsHaveTables
    <3>. QED
      BY <2>6, <3>3
  <2>7. CASE i = 13
    <3>1. o \in M0013_preflight_mae
      BY <2>7, EighteenMigrations
    <3>2. \E names : o \in Columns("positions", names)
      BY <3>1 DEF M0013_preflight_mae
    <3>3. bare = Table("positions")
      BY <3>2, ColumnsHaveTables
    <3>. QED
      BY <2>7, <3>3
  <2>8. CASE i = 18
    <3>1. o \in M0018_training_views
      BY <2>8, EighteenMigrations
    <3>2. \A k \in 1..4 : View(k).column = ""
      BY DEF View
    <3>3. PICK k \in 1..3 : o = OutcomeColumn(k)
      BY <3>1, <3>2 DEF M0018_training_views
    <3>4. o \in Columns("exec_outcomes", {OutcomeColumns[k]})
      BY <3>3 DEF OutcomeColumn, Columns
    <3>5. bare = Table("exec_outcomes")
      BY <3>4, ColumnsHaveTables
    <3>. QED
      BY <2>8, <3>5
  <2>9. CASE i \in {2, 4, 6, 8, 9, 11, 14, 15, 16, 17}
    <3>1. \E names : MIGRATIONS[i] = Tables(names)
      <4>1. CASE i \in {2, 4, 6, 8, 9}
        BY <4>1, EighteenMigrations DEF M0002_social_posts, M0004_policy_engine,
           M0006_narrative_miner, M0008_pvp_phase_a, M0009_pvp_phase_b
      <4>2. CASE i \in {11, 14, 15, 17}
        BY <4>2, EighteenMigrations DEF M0011_pvp_phase_d, M0014_phase_f_route_stats,
           M0015_phase_f_leader_wallets, M0017_offline_features
      <4>3. CASE i = 16
        <5>1. Tables({}) = {}
          BY DEF Tables
        <5>. QED
          BY <4>3, <5>1, EighteenMigrations DEF M0016_housekeeping_indices
      <4>. QED
        BY <2>9, <4>1, <4>2, <4>3
    <3>2. PICK names : o \in Tables(names)
      BY <3>1
    <3>. QED
      BY <3>2, TablesHaveNoColumn
  <2>. QED
    <3>1. i \in {1, 3, 5, 7, 10, 12, 13, 18} \/ i \in {2, 4, 6, 8, 9, 11, 14, 15, 16, 17}
      BY EachNumber
    <3>. QED
      BY <2>1, <2>2, <2>3, <2>4, <2>5, <2>6, <2>7, <2>8, <2>9, <3>1
<1>. HIDE DEF bare
<1>. QED
  BY <1>1, <1>2, EachNumber DEF bare

-----------------------------------------------------------------------------
(* SchemaBootstrap: the invariant *)

Stage == {"closed", "bootstrap", "backfill", "table", "check", "apply", "record",
          "simTable", "look", "alter", "drop", "create", "open"}
BootstrapDraft == BootstrapTables \union BootstrapColumns \union CanonicalColumns
Drafts == {{}, BootstrapDraft} \union {MIGRATIONS[i] : i \in Numbers}
OpenerState == [at : Stage, next : Nat \ {0}, draft : Drafts,
                overtaken : BOOLEAN, hurt : BOOLEAN]

SchemaTypes ==
    /\ applied \subseteq Numbers /\ mishaps \in Nat
    /\ opener \in [Process -> OpenerState]

\* How far one is that nothing hurt: it has passed over no migration.
HasApplied(s) ==
    /\ s.at \in {"check", "apply", "record"} => \A i \in Numbers : i < s.next => i \in applied
    /\ s.at = "apply" /\ s.overtaken => s.next \in applied
    /\ s.at \in {"simTable", "look", "alter", "drop", "create", "open"} => Numbers \subseteq applied
InPlace(s) ==
    /\ s.at = "record" => s.draft = MIGRATIONS[s.next]
    /\ s.at \in {"apply", "record"} => s.next \in Numbers
    /\ s.at = "alter" => s.next \in 1..3
    /\ s.at \in {"drop", "create"} => s.next \in 1..4
    /\ s.at \in {"check", "apply", "record"} => MigrationsTable \subseteq schema
EachOnItsWay == \A p \in Process :
    InPlace(opener[p]) /\ (~opener[p].hurt => HasApplied(opener[p]))

Kept == \A i \in applied : MIGRATIONS[i] \ ViewObjects \subseteq schema
Rooted == \A o \in schema \ MadeOutside : \E j \in applied : o \in MIGRATIONS[j]
HurtTogether == \A p, q \in Process :
    IsOpening(opener[p]) /\ IsOpening(opener[q]) => opener[p].hurt = opener[q].hurt
NoneHurt == mishaps = 0 => \A p \in Process : ~opener[p].hurt
Comes(k) == View(k) \in schema \/ \E q \in Process : opener[q].at = "create" /\ opener[q].next = k
ViewsCome == mishaps = 0 /\ 18 \in applied => \A k \in 1..4 : Comes(k)

SchemaInv ==
    /\ SchemaTypes /\ EachOnItsWay /\ Kept /\ Rooted /\ HurtTogether /\ NoneHurt /\ ViewsCome

LEMMA NoObjectsOfViews ==
    /\ MigrationsTable \intersect ViewObjects = {} /\ SimOutcomes \notin ViewObjects
    /\ ViewObjects \subseteq MadeOutside /\ ViewObjects \subseteq MIGRATIONS[18]
    /\ \A k \in 1..3 : OutcomeColumn(k) \notin ViewObjects
    /\ \A k \in 1..3 : OutcomeColumn(k) \in MadeOutside
    /\ MigrationsTable \subseteq MadeOutside /\ SimOutcomes \in MadeOutside
<1>1. /\ \A k \in 1..4 : View(k).column = ""
      /\ \A k \in 1..4 : View(k).table \in
            {"fill_training_view", "alpha_training_view", "rug_training_view",
             "survival_training_view"}
  <2>1. \A k \in 1..4 : View(k).column = "" /\ View(k).table = TrainingViews[k]
    BY DEF View
  <2>2. /\ TrainingViews[1] = "fill_training_view" /\ TrainingViews[2] = "alpha_training_view"
        /\ TrainingViews[3] = "rug_training_view" /\ TrainingViews[4] = "survival_training_view"
    BY DEF TrainingViews
  <2>. QED
    BY <2>1, <2>2, OneToFour
<1>2. \A o \in MigrationsTable : o.table = "migrations"
  <2>. SUFFICES ASSUME NEW o \in MigrationsTable PROVE o.table = "migrations"
    OBVIOUS
  <2>1. \E t \in {"migrations"} : o = Table(t)
    BY DEF MigrationsTable, Tables, Table
  <2>2. \A t : Table(t).table = t
    BY DEF Table
  <2>. QED
    BY <2>1, <2>2
<1>3. SimOutcomes.table = "sim_exec_outcomes"
  BY DEF SimOutcomes
<1>4. \A k \in 1..3 : OutcomeColumn(k).table = "exec_outcomes"
  BY DEF OutcomeColumn
<1>5. \A k \in 1..3 : OutcomeColumn(k) \notin ViewObjects
  BY <1>1, <1>4 DEF ViewObjects
<1>6. MigrationsTable \intersect ViewObjects = {} /\ SimOutcomes \notin ViewObjects
  BY <1>1, <1>2, <1>3 DEF ViewObjects
<1>7. ViewObjects \subseteq M0018_training_views
  BY DEF ViewObjects, M0018_training_views
<1>8. \A k \in 1..3 : OutcomeColumn(k) \in M0018_training_views
  BY DEF M0018_training_views
<1>. QED
  BY <1>5, <1>6, <1>7, <1>8, EighteenMigrations DEF MadeOutside

LEMMA SomeDrafts ==
    /\ {} \in Drafts /\ BootstrapDraft \in Drafts
    /\ \A i \in Numbers : MIGRATIONS[i] \in Drafts
  BY DEF Drafts

LEMMA GivesUpIs ==
    ASSUME NEW s \in OpenerState
    PROVE  /\ GivesUp(s) \in OpenerState /\ GivesUp(s).at = "check"
           /\ GivesUp(s).next = s.next + 1 /\ ~GivesUp(s).overtaken /\ GivesUp(s).hurt = s.hurt
<1>. DEFINE n == s.next + 1
<1>1. n \in Nat \ {0} /\ "check" \in Stage /\ {} \in Drafts
  BY SomeDrafts DEF OpenerState, Stage
<1>2. GivesUp(s) = [s EXCEPT !.at = "check", !.next = n, !.draft = {}, !.overtaken = FALSE]
  BY DEF GivesUp
<1>. HIDE DEF n
<1>3. /\ GivesUp(s) \in OpenerState /\ GivesUp(s).at = "check"
      /\ GivesUp(s).next = n /\ ~GivesUp(s).overtaken /\ GivesUp(s).hurt = s.hurt
  BY <1>1, <1>2 DEF OpenerState
<1>. QED
  BY <1>3 DEF n

LEMMA AfterViewIs ==
    ASSUME NEW s \in OpenerState
    PROVE  /\ AfterView(s) \in OpenerState /\ AfterView(s).hurt = s.hurt
           /\ \/ s.next = 4 /\ AfterView(s).at = "open"
              \/ s.next # 4 /\ AfterView(s).at = "drop" /\ AfterView(s).next = s.next + 1
<1>1. CASE s.next = 4
  BY <1>1, FourViews DEF AfterView, OpenerState, Stage
<1>2. CASE s.next # 4
  <2>. DEFINE n == s.next + 1
  <2>1. n \in Nat \ {0} /\ "drop" \in Stage
    BY DEF OpenerState, Stage
  <2>2. AfterView(s) = [s EXCEPT !.at = "drop", !.next = n]
    BY <1>2, FourViews DEF AfterView
  <2>. HIDE DEF n
  <2>3. /\ AfterView(s) \in OpenerState /\ AfterView(s).hurt = s.hurt
        /\ AfterView(s).at = "drop" /\ AfterView(s).next = n
    BY <2>1, <2>2 DEF OpenerState
  <2>. QED
    BY <1>2, <2>3 DEF n
<1>. QED
  BY <1>1, <1>2

LEMMA OvertakeIs ==
    ASSUME NEW procs \in [Process -> OpenerState]
    PROVE  /\ Overtake(procs) \in [Process -> OpenerState]
           /\ \A q \in Process :
                /\ Overtake(procs)[q].at = procs[q].at /\ Overtake(procs)[q].next = procs[q].next
                /\ Overtake(procs)[q].draft = procs[q].draft
                /\ Overtake(procs)[q].hurt = procs[q].hurt
                /\ Overtake(procs)[q].overtaken = (procs[q].overtaken \/ procs[q].at = "apply")
  BY DEF Overtake, OpenerState

LEMMA HurtIs ==
    ASSUME NEW procs \in [Process -> OpenerState]
    PROVE  /\ Hurt(procs) \in [Process -> OpenerState]
           /\ \A q \in Process :
                /\ Hurt(procs)[q].at = procs[q].at /\ Hurt(procs)[q].next = procs[q].next
                /\ Hurt(procs)[q].draft = procs[q].draft
                /\ Hurt(procs)[q].overtaken = procs[q].overtaken
                /\ Hurt(procs)[q].hurt = (procs[q].hurt \/ IsOpening(procs[q]))
  BY DEF Hurt, OpenerState, IsOpening

-----------------------------------------------------------------------------
(* SchemaBootstrap: what a step of one process leaves of the others *)

\* q is where it was; only an overtaking commit may have been added.
StaysPut(q) ==
    /\ opener'[q].at = opener[q].at /\ opener'[q].next = opener[q].next
    /\ opener'[q].draft = opener[q].draft
StaysAsItWas(q) ==
    /\ StaysPut(q) /\ opener'[q].hurt = opener[q].hurt
    /\ \/ opener'[q].overtaken = opener[q].overtaken
       \/ opener[q].at = "apply" /\ (~opener[q].hurt => opener[q].next \in applied')

LEMMA StaysInPlace ==
    ASSUME SchemaInv, NEW q \in Process, StaysPut(q), schema \ ViewObjects \subseteq schema'
    PROVE  InPlace(opener[q])'
  BY NoObjectsOfViews DEF SchemaInv, EachOnItsWay, InPlace, StaysPut

LEMMA StaysOnItsWay ==
    ASSUME SchemaInv, NEW q \in Process, StaysAsItWas(q), applied \subseteq applied',
           schema \ ViewObjects \subseteq schema'
    PROVE  InPlace(opener[q])' /\ (~opener'[q].hurt => HasApplied(opener[q])')
<1>1. InPlace(opener[q])'
  BY StaysInPlace DEF StaysAsItWas
<1>2. ASSUME ~opener'[q].hurt PROVE HasApplied(opener[q])'
  BY <1>2 DEF SchemaInv, EachOnItsWay, HasApplied, StaysAsItWas, StaysPut
<1>. QED
  BY <1>1, <1>2

\* A process that goes on hurts nobody.
LEMMA HurtAsBefore ==
    ASSUME SchemaInv, NEW p \in Process, IsOpening(opener[p]), UNCHANGED mishaps,
           \A q \in Process : opener'[q].hurt = opener[q].hurt,
           \A q \in Process \ {p} : opener'[q].at = opener[q].at
    PROVE  HurtTogether' /\ NoneHurt'
  BY DEF SchemaInv, HurtTogether, NoneHurt, IsOpening

\* A view that was there or was about to be made still is, but for the one p drops.
LEMMA ViewsAsBefore ==
    ASSUME SchemaInv, NEW p \in Process, UNCHANGED mishaps,
           applied' = applied \/ 18 \notin applied',
           \A q \in Process \ {p} : opener'[q].at = opener[q].at /\ opener'[q].next = opener[q].next,
           \A k \in 1..4 : View(k) \in schema /\ View(k) \notin schema' =>
                             opener'[p].at = "create" /\ opener'[p].next = k,
           opener[p].at = "create" =>
              View(opener[p].next) \in schema'
    PROVE  ViewsCome'
<1>. SUFFICES ASSUME mishaps = 0, 18 \in applied, applied' = applied, NEW k \in 1..4 PROVE Comes(k)'
  BY DEF ViewsCome
<1>1. CASE View(k) \in schema
  BY <1>1 DEF Comes
<1>2. ASSUME NEW q \in Process, opener[q].at = "create", opener[q].next = k PROVE Comes(k)'
  BY <1>2 DEF Comes
<1>. QED
  BY <1>1, <1>2 DEF SchemaInv, ViewsCome, Comes

\* What is committed stays, and what comes without a migration is made outside of them.
LEMMA SchemaAsBefore ==
    ASSUME SchemaInv, UNCHANGED applied, schema \ ViewObjects \subseteq schema',
           schema' \subseteq schema \union MadeOutside
    PROVE  Kept' /\ Rooted'
<1>1. Kept'
  BY DEF SchemaInv, Kept
<1>2. Rooted'
  BY DEF SchemaInv, Rooted
<1>. QED
  BY <1>1, <1>2

\* An opening process goes on and commits no migration.
LEMMA OpeningGoesOn ==
    ASSUME SchemaInv, NEW p \in Process, IsOpening(opener[p]), UNCHANGED <<mishaps, applied>>,
           opener' \in [Process -> OpenerState], opener'[p].hurt = opener[p].hurt,
           \A q \in Process \ {p} : StaysAsItWas(q),
           schema \ ViewObjects \subseteq schema', schema' \subseteq schema \union MadeOutside,
           InPlace(opener[p])', ~opener[p].hurt => HasApplied(opener[p])',
           \A k \in 1..4 : View(k) \in schema /\ View(k) \notin schema' =>
                             opener'[p].at = "create" /\ opener'[p].next = k,
           opener[p].at = "create" => View(opener[p].next) \in schema'
    PROVE  SchemaInv'
<1>1. SchemaTypes'
  BY DEF SchemaInv, SchemaTypes
<1>2. EachOnItsWay'
  <2>1. \A q \in Process \ {p} : InPlace(opener[q])' /\ (~opener'[q].hurt => HasApplied(opener[q])')
    BY StaysOnItsWay
  <2>. QED
    BY <2>1 DEF EachOnItsWay
<1>3. Kept' /\ Rooted'
  BY SchemaAsBefore
<1>4. HurtTogether' /\ NoneHurt'
  <2>1. /\ \A q \in Process : opener'[q].hurt = opener[q].hurt
        /\ \A q \in Process \ {p} : opener'[q].at = opener[q].at
    BY DEF StaysAsItWas, StaysPut
  <2>. QED
    BY <2>1, HurtAsBefore
<1>5. ViewsCome'
  <2>1. \A q \in Process \ {p} : opener'[q].at = opener[q].at /\ opener'[q].next = opener[q].next
    BY DEF StaysAsItWas, StaysPut
  <2>. QED
    BY <2>1, ViewsAsBefore
<1>. QED
  BY <1>1, <1>2, <1>3, <1>4, <1>5 DEF SchemaInv

\* An autocommitted statement of p: those whose transaction it overtakes are hurt or will
\* find their migration recorded.
LEMMA WritesAre ==
    ASSUME SchemaInv, NEW p \in Process, IsOpening(opener[p]), UNCHANGED applied,
           NEW procs \in [Process -> OpenerState], \A q \in Process \ {p} : procs[q] = opener[q],
           procs[p].at # "apply", procs[p].hurt = opener[p].hurt,
           NEW objects, Writes(objects, procs),
           \/ objects = schema
           \/ ~opener[p].hurt => Numbers \subseteq applied
    PROVE  /\ schema' = objects /\ opener' \in [Process -> OpenerState]
           /\ \A q \in Process \ {p} : StaysAsItWas(q)
           /\ opener'[p].at = procs[p].at /\ opener'[p].next = procs[p].next
           /\ opener'[p].draft = procs[p].draft /\ opener'[p].hurt = procs[p].hurt
<1>1. CASE objects = schema
  <2>1. schema' = objects /\ opener' = procs
    BY <1>1 DEF Writes
  <2>. QED
    BY <2>1 DEF StaysAsItWas, StaysPut
<1>2. CASE objects # schema
  <2>1. schema' = objects /\ opener' = Overtake(procs)
    BY <1>2 DEF Writes
  <2>2. ASSUME NEW q \in Process \ {p} PROVE StaysAsItWas(q)
    <3>1. StaysPut(q) /\ opener'[q].hurt = opener[q].hurt
      BY <2>1, OvertakeIs DEF StaysPut
    <3>2. opener'[q].overtaken = (opener[q].overtaken \/ opener[q].at = "apply")
      BY <2>1, OvertakeIs
    <3>3. ASSUME opener[q].at = "apply", ~opener[q].hurt PROVE opener[q].next \in applied'
      <4>1. IsOpening(opener[q]) /\ ~opener[p].hurt
        BY <3>3 DEF IsOpening, SchemaInv, HurtTogether
      <4>2. opener[q].next \in Numbers
        BY <3>3 DEF SchemaInv, EachOnItsWay, InPlace
      <4>. QED
        BY <1>2, <4>1, <4>2
    <3>4. opener[q].overtaken \in BOOLEAN
      BY DEF SchemaInv, SchemaTypes, OpenerState
    <3>. QED
      BY <3>1, <3>2, <3>3, <3>4 DEF StaysAsItWas
  <2>. QED
    BY <2>1, <2>2, OvertakeIs
<1>. QED
  BY <1>1, <1>2

-----------------------------------------------------------------------------
(* SchemaBootstrap: openDb, bootstrapDb and runMigrations keep the invariant *)

LEMMA OpeningStages ==
    ASSUME NEW proc
    PROVE  proc.at \in {"bootstrap", "backfill", "table", "check", "apply", "record",
                        "simTable", "look", "alter", "drop", "create"} => IsOpening(proc)
  BY DEF IsOpening

\* A step that only moves p.
LEMMA MovesOnly ==
    ASSUME SchemaInv, NEW p \in Process, IsOpening(opener[p]),
           UNCHANGED <<schema, mishaps, applied>>,
           NEW s \in OpenerState, opener' = [opener EXCEPT ![p] = s], s.hurt = opener[p].hurt,
           InPlace(opener[p])', ~opener[p].hurt => HasApplied(opener[p])',
           opener[p].at # "create"
    PROVE  SchemaInv'
<1>1. opener \in [Process -> OpenerState]
  BY DEF SchemaInv, SchemaTypes
<1>2. opener' \in [Process -> OpenerState] /\ opener'[p].hurt = opener[p].hurt
  BY <1>1
<1>3. \A q \in Process \ {p} : StaysAsItWas(q)
  BY <1>1 DEF StaysAsItWas, StaysPut
<1>. QED
  BY <1>2, <1>3, OpeningGoesOn

LEMMA StatesTyped ==
    ASSUME SchemaInv, NEW p \in Process
    PROVE  /\ opener \in [Process -> OpenerState] /\ opener[p] \in OpenerState
           /\ opener[p].at \in Stage /\ opener[p].next \in Nat \ {0}
           /\ opener[p].draft \in Drafts
           /\ opener[p].overtaken \in BOOLEAN /\ opener[p].hurt \in BOOLEAN
  BY DEF SchemaInv, SchemaTypes, OpenerState

LEMMA BootstrapWritesKeeps ==
    ASSUME SchemaInv, NEW p \in Process, BootstrapWrites(p) PROVE SchemaInv'
<1>. DEFINE s == [opener[p] EXCEPT !.at = "backfill", !.draft = BootstrapDraft]
<1>1. opener' = [opener EXCEPT ![p] = s] /\ UNCHANGED <<schema, applied, mishaps>>
  BY StatesTyped DEF BootstrapWrites, BootstrapDraft
<1>2. s \in OpenerState /\ s.hurt = opener[p].hurt /\ s.at = "backfill"
  BY StatesTyped, SomeDrafts DEF OpenerState, Stage
<1>. HIDE DEF s
<1>3. opener'[p] = s
  BY <1>1, StatesTyped
<1>4. IsOpening(opener[p]) /\ opener[p].at # "create"
  BY OpeningStages DEF BootstrapWrites, OpenerAt
<1>5. InPlace(opener[p])' /\ HasApplied(opener[p])'
  BY <1>2, <1>3 DEF InPlace, HasApplied
<1>. QED
  BY <1>1, <1>2, <1>4, <1>5, MovesOnly

LEMMA BackfillKeeps ==
    ASSUME SchemaInv, NEW p \in Process, Backfill(p) PROVE SchemaInv'
<1>. DEFINE s == [opener[p] EXCEPT !.at = "table", !.draft = {}]
<1>1. opener' = [opener EXCEPT ![p] = s] /\ UNCHANGED <<schema, applied, mishaps>>
  BY StatesTyped DEF Backfill
<1>2. s \in OpenerState /\ s.hurt = opener[p].hurt /\ s.at = "table"
  BY StatesTyped, SomeDrafts DEF OpenerState, Stage
<1>. HIDE DEF s
<1>3. opener'[p] = s
  BY <1>1, StatesTyped
<1>4. IsOpening(opener[p]) /\ opener[p].at # "create"
  BY OpeningStages DEF Backfill, OpenerAt
<1>5. InPlace(opener[p])' /\ HasApplied(opener[p])'
  BY <1>2, <1>3 DEF InPlace, HasApplied
<1>. QED
  BY <1>1, <1>2, <1>4, <1>5, MovesOnly

\* CREATE TABLE IF NOT EXISTS writes only while nobody has come to the migrations.
LEMMA CreateMigrationsTableKeeps ==
    ASSUME SchemaInv, NEW p \in Process, CreateMigrationsTable(p) PROVE SchemaInv'
<1>. DEFINE procs == [opener EXCEPT ![p].at = "check", ![p].next = 1]
            objects == schema \union MigrationsTable
<1>1. Writes(objects, procs) /\ UNCHANGED <<applied, mishaps>> /\ opener[p].at = "table"
  BY DEF CreateMigrationsTable, OpenerAt
<1>2. /\ procs \in [Process -> OpenerState] /\ \A q \in Process \ {p} : procs[q] = opener[q]
      /\ procs[p].at = "check" /\ procs[p].next = 1 /\ procs[p].hurt = opener[p].hurt
  BY StatesTyped DEF OpenerState, Stage
<1>3. IsOpening(opener[p])
  BY <1>1, OpeningStages
<1>. HIDE DEF procs, objects
<1>4. /\ schema' = objects /\ opener' \in [Process -> OpenerState]
      /\ \A q \in Process \ {p} : StaysAsItWas(q)
      /\ opener'[p].at = "check" /\ opener'[p].next = 1 /\ opener'[p].hurt = opener[p].hurt
  <2>1. CASE \E q \in Process : opener[q].at = "apply"
    <3>1. MigrationsTable \subseteq schema
      BY <2>1 DEF SchemaInv, EachOnItsWay, InPlace
    <3>2. objects = schema
      BY <3>1 DEF objects
    <3>. QED
      BY <1>1, <1>2, <1>3, <3>2, WritesAre
  <2>2. CASE \A q \in Process : opener[q].at # "apply"
    <3>1. CASE objects = schema
      BY <1>1, <1>2, <1>3, <3>1, WritesAre
    <3>2. CASE objects # schema
      <4>1. schema' = objects /\ opener' = Overtake(procs)
        BY <1>1, <3>2 DEF Writes
      <4>2. ASSUME NEW q \in Process \ {p} PROVE StaysAsItWas(q)
        <5>1. opener'[q].overtaken = (opener[q].overtaken \/ opener[q].at = "apply")
          BY <1>2, <4>1, OvertakeIs
        <5>2. opener[q].overtaken \in BOOLEAN
          BY StatesTyped
        <5>3. opener'[q].overtaken = opener[q].overtaken
          BY <2>2, <5>1, <5>2
        <5>. QED
          BY <1>2, <4>1, <5>3, OvertakeIs DEF StaysAsItWas, StaysPut
      <4>. QED
        BY <1>2, <4>1, <4>2, OvertakeIs
    <3>. QED
      BY <3>1, <3>2
  <2>. QED
    BY <2>1, <2>2
<1>5. InPlace(opener[p])' /\ HasApplied(opener[p])'
  <2>1. \A i \in Numbers : ~(i < 1)
    BY DEF Numbers
  <2>2. MigrationsTable \subseteq schema'
    BY <1>4 DEF objects
  <2>. QED
    BY <1>4, <2>1, <2>2 DEF InPlace, HasApplied
<1>6. schema \subseteq schema' /\ schema' \subseteq schema \union MadeOutside
  BY <1>4, NoObjectsOfViews DEF objects
<1>. QED
  BY <1>1, <1>3, <1>4, <1>5, <1>6, OpeningGoesOn

LEMMA CheckMigrationKeeps ==
    ASSUME SchemaInv, NEW p \in Process, CheckMigration(p) PROVE SchemaInv'
<1>. DEFINE todo == {i \in opener[p].next..18 : i \notin applied}
            n == Min(todo)
            s == IF todo = {} THEN [opener[p] EXCEPT !.at = "simTable", !.next = 1]
                 ELSE [opener[p] EXCEPT !.at = "apply", !.next = n, !.overtaken = FALSE]
<1>1. opener' = [opener EXCEPT ![p] = s] /\ UNCHANGED <<schema, applied, mishaps>>
  BY StatesTyped, EighteenMigrations DEF CheckMigration
<1>2. opener[p].at = "check" /\ IsOpening(opener[p])
  BY OpeningStages DEF CheckMigration, OpenerAt
<1>3. todo \in SUBSET Nat /\ todo \subseteq Numbers /\ \A i \in todo : i \in Nat \ {0}
  BY StatesTyped DEF Numbers
<1>4. \A i \in Numbers : i \in todo \/ i < opener[p].next \/ i \in applied
  BY StatesTyped DEF Numbers
<1>5. ~opener[p].hurt => \A i \in Numbers : i \in todo \/ i \in applied
  BY <1>2, <1>4 DEF SchemaInv, EachOnItsWay, HasApplied
<1>. HIDE DEF todo
<1>6. todo # {} => n \in todo /\ \A k \in todo : n <= k
  BY <1>3, LeastNumber
<1>. HIDE DEF n
<1>7. /\ s \in OpenerState /\ s.hurt = opener[p].hurt
      /\ \/ todo = {} /\ s.at = "simTable"
         \/ todo # {} /\ s.at = "apply" /\ s.next = n /\ ~s.overtaken
  <2>1. CASE todo = {}
    <3>1. s = [opener[p] EXCEPT !.at = "simTable", !.next = 1]
      BY <2>1
    <3>2. 1 \in Nat \ {0} /\ "simTable" \in Stage
      BY DEF Stage
    <3>. HIDE DEF s
    <3>3. s \in OpenerState /\ s.hurt = opener[p].hurt /\ s.at = "simTable"
      BY <3>1, <3>2, StatesTyped DEF OpenerState
    <3>. QED
      BY <2>1, <3>3
  <2>2. CASE todo # {}
    <3>1. n \in Nat \ {0}
      BY <1>3, <1>6, <2>2
    <3>. QED
      BY <2>2, <3>1, StatesTyped DEF OpenerState, Stage
  <2>. QED
    BY <2>1, <2>2
<1>. HIDE DEF s
<1>9. opener'[p] = s
  BY <1>1, StatesTyped
<1>10. InPlace(opener[p])'
  BY <1>1, <1>2, <1>3, <1>6, <1>7, <1>9 DEF InPlace, SchemaInv, EachOnItsWay
<1>11. ASSUME ~opener[p].hurt PROVE HasApplied(opener[p])'
  <2>1. CASE todo = {}
    BY <1>1, <1>5, <1>7, <1>9, <1>11, <2>1 DEF HasApplied
  <2>2. CASE todo # {}
    <3>1. ASSUME NEW i \in Numbers, i < n PROVE i \in applied
      <4>1. n \in Nat
        BY <1>3, <1>6, <2>2
      <4>2. ~(n <= i)
        BY <3>1, <4>1 DEF Numbers
      <4>. QED
        BY <1>5, <1>6, <1>11, <2>2, <4>2
    <3>. QED
      BY <1>1, <1>7, <1>9, <1>11, <2>2, <3>1 DEF HasApplied
  <2>. QED
    BY <2>1, <2>2
<1>. QED
  BY <1>1, <1>2, <1>7, <1>10, <1>11, MovesOnly

\* Whoever passed over no migration finds the tables of the columns it adds.
LEMMA ColumnsCanBeAdded ==
    ASSUME SchemaInv, NEW p \in Process, opener[p].at = "apply", ~opener[p].hurt
    PROVE  Applicable(opener[p].next)
<1>. DEFINE i == opener[p].next
<1>1. i \in Numbers /\ \A j \in Numbers : j < i => j \in applied
  BY DEF SchemaInv, EachOnItsWay, InPlace, HasApplied
<1>. HIDE DEF i
<1>2. ASSUME NEW o \in MIGRATIONS[i], o.column # ""
      PROVE  [o EXCEPT !.column = ""] \in schema \union MIGRATIONS[i]
  <2>1. PICK j \in 1..i : [o EXCEPT !.column = ""] \in MIGRATIONS[j] \ ViewObjects
    BY <1>1, <1>2, ColumnsHaveTheirTable
  <2>2. j = i \/ (j \in Numbers /\ j < i)
    <3>1. i \in 1..18 /\ j \in 1..i
      BY <1>1, <2>1 DEF Numbers
    <3>2. j = i \/ (j \in 1..18 /\ j < i)
      BY <3>1
    <3>. QED
      BY <3>2 DEF Numbers
  <2>. QED
    BY <1>1, <2>1, <2>2 DEF SchemaInv, Kept
<1>. QED
  BY <1>2 DEF Applicable, i

LEMMA GivesUpKeeps ==
    ASSUME SchemaInv, NEW p \in Process, opener[p].at \in {"apply", "record"},
           opener' = [opener EXCEPT ![p] = GivesUp(@)], UNCHANGED <<schema, mishaps, applied>>,
           ~opener[p].hurt => opener[p].next \in applied
    PROVE  SchemaInv'
<1>. DEFINE s == GivesUp(opener[p])
<1>1. opener' = [opener EXCEPT ![p] = s] /\ IsOpening(opener[p]) /\ opener[p].at # "create"
  BY OpeningStages, StatesTyped
<1>2. /\ s \in OpenerState /\ s.at = "check" /\ s.next = opener[p].next + 1 /\ ~s.overtaken
      /\ s.hurt = opener[p].hurt
  BY StatesTyped, GivesUpIs
<1>. HIDE DEF s
<1>3. opener'[p] = s
  BY <1>1, StatesTyped
<1>4. InPlace(opener[p])'
  BY <1>2, <1>3 DEF InPlace, SchemaInv, EachOnItsWay
<1>5. ASSUME ~opener[p].hurt PROVE HasApplied(opener[p])'
  <2>1. ASSUME NEW j \in Numbers, j < opener[p].next + 1 PROVE j \in applied
    <3>1. j < opener[p].next \/ j = opener[p].next
      BY <2>1, StatesTyped DEF Numbers
    <3>. QED
      BY <1>5, <3>1 DEF SchemaInv, EachOnItsWay, HasApplied
  <2>. QED
    BY <1>2, <1>3, <2>1 DEF HasApplied
<1>. QED
  BY <1>1, <1>2, <1>4, <1>5, MovesOnly

LEMMA ApplyMigrationKeeps ==
    ASSUME SchemaInv, NEW p \in Process, ApplyMigration(p) PROVE SchemaInv'
<1>1. UNCHANGED <<schema, mishaps, applied>> /\ opener[p].at = "apply"
  BY DEF ApplyMigration, OpenerAt
<1>2. CASE ~Applicable(opener[p].next)
  <2>1. opener' = [opener EXCEPT ![p] = GivesUp(@)] /\ opener[p].hurt
    BY <1>1, <1>2, ColumnsCanBeAdded DEF ApplyMigration
  <2>. QED
    BY <1>1, <2>1, GivesUpKeeps
<1>3. CASE Applicable(opener[p].next)
  <2>. DEFINE m == MIGRATIONS[opener[p].next]
              s == [opener[p] EXCEPT !.at = "record", !.draft = m]
  <2>1. opener' = [opener EXCEPT ![p] = s]
    BY <1>3, StatesTyped DEF ApplyMigration
  <2>2. m \in Drafts /\ opener[p].next \in Numbers
    BY <1>1, SomeDrafts DEF SchemaInv, EachOnItsWay, InPlace
  <2>. HIDE DEF m
  <2>3. /\ s \in OpenerState /\ s.at = "record" /\ s.draft = m /\ s.next = opener[p].next
        /\ s.hurt = opener[p].hurt
    BY <2>2, StatesTyped DEF OpenerState, Stage
  <2>. HIDE DEF s
  <2>4. opener'[p] = s
    BY <2>1, StatesTyped
  <2>5. InPlace(opener[p])'
    BY <1>1, <2>2, <2>3, <2>4 DEF InPlace, SchemaInv, EachOnItsWay, m
  <2>6. ~opener[p].hurt => HasApplied(opener[p])'
    BY <1>1, <2>3, <2>4 DEF HasApplied, SchemaInv, EachOnItsWay
  <2>7. IsOpening(opener[p]) /\ opener[p].at # "create"
    BY <1>1, OpeningStages
  <2>. QED
    BY <1>1, <2>1, <2>3, <2>5, <2>6, <2>7, MovesOnly
<1>. QED
  BY <1>2, <1>3

\* Who is refused was overtaken, and then its migration has been recorded.
LEMMA ApplyRefusedKeeps ==
    ASSUME SchemaInv, NEW p \in Process, ApplyRefused(p) PROVE SchemaInv'
<1>1. /\ UNCHANGED <<schema, mishaps, applied>> /\ opener[p].at = "apply" /\ opener[p].overtaken
      /\ opener' = [opener EXCEPT ![p] = GivesUp(@)]
  BY DEF ApplyRefused, OpenerAt
<1>2. ~opener[p].hurt => opener[p].next \in applied
  BY <1>1 DEF SchemaInv, EachOnItsWay, HasApplied
<1>. QED
  BY <1>1, <1>2, GivesUpKeeps

LEMMA RecordMigrationKeeps ==
    ASSUME SchemaInv, NEW p \in Process, RecordMigration(p) PROVE SchemaInv'
<1>. DEFINE i == opener[p].next
            s == GivesUp(opener[p])
<1>1. UNCHANGED mishaps /\ opener[p].at = "record" /\ IsOpening(opener[p])
  BY OpeningStages DEF RecordMigration, OpenerAt
<1>2. CASE i \in applied
  <2>1. UNCHANGED <<schema, applied>> /\ opener' = [opener EXCEPT ![p] = GivesUp(@)]
    BY <1>2 DEF RecordMigration
  <2>. QED
    BY <1>1, <1>2, <2>1, GivesUpKeeps
<1>3. CASE i \notin applied
  <2>1. /\ schema' = schema \union opener[p].draft /\ applied' = applied \union {i}
        /\ opener' = [Overtake(opener) EXCEPT ![p] = GivesUp(@)]
    BY <1>3 DEF RecordMigration
  <2>2. opener[p].draft = MIGRATIONS[i] /\ i \in Numbers
    BY <1>1 DEF SchemaInv, EachOnItsWay, InPlace
  <2>3. /\ opener' \in [Process -> OpenerState] /\ opener'[p].at = "check"
        /\ opener'[p].next = i + 1 /\ ~opener'[p].overtaken /\ opener'[p].hurt = opener[p].hurt
    <3>. DEFINE o == Overtake(opener)
    <3>1. o \in [Process -> OpenerState] /\ o[p].next = i /\ o[p].hurt = opener[p].hurt
      BY StatesTyped, OvertakeIs
    <3>2. opener' = [o EXCEPT ![p] = GivesUp(o[p])]
      BY <2>1
    <3>. HIDE DEF o, i, s
    <3>3. /\ GivesUp(o[p]) \in OpenerState /\ GivesUp(o[p]).at = "check"
          /\ GivesUp(o[p]).next = o[p].next + 1 /\ ~GivesUp(o[p]).overtaken
          /\ GivesUp(o[p]).hurt = o[p].hurt
      BY <3>1, GivesUpIs
    <3>. QED
      BY <3>1, <3>2, <3>3
  <2>4. \A q \in Process \ {p} :
          /\ opener'[q].at = opener[q].at /\ opener'[q].next = opener[q].next
          /\ opener'[q].draft = opener[q].draft /\ opener'[q].hurt = opener[q].hurt
          /\ opener'[q].overtaken = (opener[q].overtaken \/ opener[q].at = "apply")
    <3>1. \A q \in Process \ {p} : opener'[q] = Overtake(opener)[q]
      BY <2>1, StatesTyped, OvertakeIs
    <3>. QED
      BY <3>1, StatesTyped, OvertakeIs
  <2>. HIDE DEF i, s
  <2>5. ASSUME NEW q \in Process \ {p} PROVE StaysAsItWas(q)
    <3>1. ASSUME opener[q].at = "apply", ~opener[q].hurt PROVE opener[q].next \in applied'
      <4>1. IsOpening(opener[q]) /\ ~opener[p].hurt
        BY <1>1, <3>1 DEF IsOpening, SchemaInv, HurtTogether
      <4>2. \A j \in Numbers : j < i => j \in applied
        BY <1>1, <4>1 DEF SchemaInv, EachOnItsWay, HasApplied, i
      <4>3. \A j \in Numbers : j < opener[q].next => j \in applied
        BY <3>1 DEF SchemaInv, EachOnItsWay, HasApplied
      <4>4. opener[q].next \in Numbers
        BY <3>1 DEF SchemaInv, EachOnItsWay, InPlace
      <4>5. opener[q].next < i \/ opener[q].next = i
        <5>1. ~(i < opener[q].next)
          BY <1>3, <2>2, <4>3
        <5>. QED
          BY <2>2, <4>4, <5>1 DEF Numbers
      <4>. QED
        BY <2>1, <4>2, <4>4, <4>5
    <3>2. opener[q].overtaken \in BOOLEAN
      BY StatesTyped
    <3>. QED
      BY <2>4, <3>1, <3>2 DEF StaysAsItWas, StaysPut
  <2>6. SchemaTypes'
    BY <1>1, <2>1, <2>2, <2>3 DEF SchemaInv, SchemaTypes
  <2>7. EachOnItsWay'
    <3>1. \A q \in Process \ {p} : InPlace(opener[q])' /\ (~opener'[q].hurt => HasApplied(opener[q])')
      BY <2>1, <2>5, StaysOnItsWay
    <3>2. InPlace(opener[p])'
      BY <1>1, <2>1, <2>3 DEF InPlace, SchemaInv, EachOnItsWay
    <3>3. ASSUME ~opener[p].hurt PROVE HasApplied(opener[p])'
      <4>1. ASSUME NEW j \in Numbers, j < i + 1 PROVE j \in applied'
        <5>1. j < i \/ j = i
          BY <2>2, <4>1 DEF Numbers
        <5>2. j < i => j \in applied
          BY <1>1, <3>3 DEF SchemaInv, EachOnItsWay, HasApplied, i
        <5>. QED
          BY <2>1, <5>1, <5>2
      <4>. QED
        BY <2>3, <4>1 DEF HasApplied
    <3>. QED
      BY <2>3, <3>1, <3>2, <3>3 DEF EachOnItsWay
  <2>8. Kept' /\ Rooted'
    <3>1. Kept'
      BY <2>1, <2>2 DEF SchemaInv, Kept
    <3>2. Rooted'
      BY <2>1, <2>2 DEF SchemaInv, Rooted
    <3>. QED
      BY <3>1, <3>2
  <2>9. HurtTogether' /\ NoneHurt'
    BY <1>1, <2>3, <2>4, HurtAsBefore
  <2>10. ViewsCome'
    <3>1. CASE i = 18
      BY <2>1, <2>2, <3>1, NoObjectsOfViews DEF ViewsCome, Comes, ViewObjects
    <3>2. CASE i # 18
      <4>1. 18 \in applied' => 18 \in applied
        BY <2>1, <3>2
      <4>2. \A k \in 1..4 : Comes(k) => Comes(k)'
        <5>. SUFFICES ASSUME NEW k \in 1..4, Comes(k) PROVE Comes(k)'
          OBVIOUS
        <5>1. \A q \in Process : opener[q].at = "create" => q \in Process \ {p}
          BY <1>1
        <5>. QED
          BY <2>1, <2>4, <5>1 DEF Comes
      <4>. QED
        BY <1>1, <4>1, <4>2 DEF SchemaInv, ViewsCome
    <3>. QED
      BY <3>1, <3>2
  <2>. QED
    BY <2>6, <2>7, <2>8, <2>9, <2>10 DEF SchemaInv
<1>. QED
  BY <1>2, <1>3

-----------------------------------------------------------------------------
(* SchemaBootstrap: ensureTrainingViews keeps the invariant *)

\* Whoever is through the migrations unhurt has them all.
LEMMA ThroughMigrations ==
    ASSUME SchemaInv, NEW p \in Process,
           opener[p].at \in {"simTable", "look", "alter", "drop", "create"}
    PROVE  IsOpening(opener[p]) /\ (~opener[p].hurt => Numbers \subseteq applied)
  BY OpeningStages DEF SchemaInv, EachOnItsWay, HasApplied

LEMMA EnsureSimTableKeeps ==
    ASSUME SchemaInv, NEW p \in Process, EnsureSimTable(p) PROVE SchemaInv'
<1>. DEFINE procs == [opener EXCEPT ![p].at = "look", ![p].next = 1]
            objects == schema \union {SimOutcomes}
<1>1. Writes(objects, procs) /\ UNCHANGED <<applied, mishaps>> /\ opener[p].at = "simTable"
  BY DEF EnsureSimTable, OpenerAt
<1>2. /\ procs \in [Process -> OpenerState] /\ \A q \in Process \ {p} : procs[q] = opener[q]
      /\ procs[p].at = "look" /\ procs[p].hurt = opener[p].hurt
  BY StatesTyped DEF OpenerState, Stage
<1>3. IsOpening(opener[p]) /\ (~opener[p].hurt => Numbers \subseteq applied)
  BY <1>1, ThroughMigrations
<1>. HIDE DEF procs, objects
<1>4. /\ schema' = objects /\ opener' \in [Process -> OpenerState]
      /\ \A q \in Process \ {p} : StaysAsItWas(q)
      /\ opener'[p].at = "look" /\ opener'[p].hurt = opener[p].hurt
  BY <1>1, <1>2, <1>3, WritesAre
<1>5. InPlace(opener[p])' /\ (~opener[p].hurt => HasApplied(opener[p])')
  BY <1>1, <1>3, <1>4 DEF InPlace, HasApplied
<1>6. schema \subseteq schema' /\ schema' \subseteq schema \union MadeOutside
  BY <1>4, NoObjectsOfViews DEF objects
<1>. QED
  BY <1>1, <1>3, <1>4, <1>5, <1>6, OpeningGoesOn

LEMMA LookForColumnKeeps ==
    ASSUME SchemaInv, NEW p \in Process, LookForColumn(p) PROVE SchemaInv'
<1>. DEFINE missing == {k \in opener[p].next..3 : OutcomeColumn(k) \notin schema}
            n == Min(missing)
            s == IF missing = {} THEN [opener[p] EXCEPT !.at = "drop", !.next = 1]
                 ELSE [opener[p] EXCEPT !.at = "alter", !.next = n]
<1>1. opener' = [opener EXCEPT ![p] = s] /\ UNCHANGED <<schema, applied, mishaps>>
  BY StatesTyped, ThreeColumns DEF LookForColumn
<1>2. opener[p].at = "look"
  BY DEF LookForColumn, OpenerAt
<1>3. missing \in SUBSET Nat /\ missing \subseteq 1..3
  BY StatesTyped
<1>. HIDE DEF missing
<1>4. missing # {} => n \in 1..3
  BY <1>3, LeastNumber
<1>. HIDE DEF n
<1>5. /\ s \in OpenerState /\ s.hurt = opener[p].hurt
      /\ \/ s.at = "drop" /\ s.next = 1
         \/ s.at = "alter" /\ s.next \in 1..3
  <2>1. CASE missing = {}
    <3>1. s = [opener[p] EXCEPT !.at = "drop", !.next = 1]
      BY <2>1
    <3>2. 1 \in Nat \ {0} /\ "drop" \in Stage
      BY DEF Stage
    <3>. HIDE DEF s
    <3>3. s \in OpenerState /\ s.hurt = opener[p].hurt /\ s.at = "drop" /\ s.next = 1
      BY <3>1, <3>2, StatesTyped DEF OpenerState
    <3>. QED
      BY <3>3
  <2>2. CASE missing # {}
    <3>1. s = [opener[p] EXCEPT !.at = "alter", !.next = n]
      BY <2>2
    <3>2. n \in Nat \ {0} /\ "alter" \in Stage
      BY <1>4, <2>2 DEF Stage
    <3>. HIDE DEF s
    <3>3. s \in OpenerState /\ s.hurt = opener[p].hurt /\ s.at = "alter" /\ s.next = n
      BY <3>1, <3>2, StatesTyped DEF OpenerState
    <3>. QED
      BY <1>4, <2>2, <3>3
  <2>. QED
    BY <2>1, <2>2
<1>. HIDE DEF s
<1>6. opener'[p] = s
  BY <1>1, StatesTyped
<1>7. IsOpening(opener[p]) /\ (~opener[p].hurt => Numbers \subseteq applied)
  BY <1>2, ThroughMigrations
<1>8. InPlace(opener[p])' /\ (~opener[p].hurt => HasApplied(opener[p])')
  <2>1. 1 \in 1..4
    OBVIOUS
  <2>. QED
    BY <1>1, <1>5, <1>6, <1>7, <2>1 DEF InPlace, HasApplied
<1>. QED
  BY <1>1, <1>2, <1>5, <1>7, <1>8, MovesOnly

LEMMA AlterOutcomesKeeps ==
    ASSUME SchemaInv, NEW p \in Process, AlterOutcomes(p) PROVE SchemaInv'
<1>. DEFINE o == OutcomeColumn(opener[p].next)
<1>1. UNCHANGED <<applied, mishaps>> /\ opener[p].at = "alter"
  BY DEF AlterOutcomes, OpenerAt
<1>2. o \in MadeOutside
  BY <1>1, NoObjectsOfViews DEF SchemaInv, EachOnItsWay, InPlace
<1>3. IsOpening(opener[p]) /\ (~opener[p].hurt => Numbers \subseteq applied)
  BY <1>1, ThroughMigrations
<1>4. CASE opener' = [opener EXCEPT ![p].at = "open"] /\ UNCHANGED schema
  <2>. DEFINE s == [opener[p] EXCEPT !.at = "open"]
  <2>1. opener' = [opener EXCEPT ![p] = s]
    BY <1>4, StatesTyped
  <2>2. s \in OpenerState /\ s.hurt = opener[p].hurt /\ s.at = "open"
    BY StatesTyped DEF OpenerState, Stage
  <2>. HIDE DEF s
  <2>3. opener'[p] = s
    BY <2>1, StatesTyped
  <2>4. InPlace(opener[p])' /\ (~opener[p].hurt => HasApplied(opener[p])')
    BY <1>1, <1>3, <2>2, <2>3 DEF InPlace, HasApplied
  <2>. QED
    BY <1>1, <1>3, <1>4, <2>1, <2>2, <2>4, MovesOnly
<1>5. CASE Writes(schema \union {o}, [opener EXCEPT ![p].at = "look"])
  <2>. DEFINE procs == [opener EXCEPT ![p].at = "look"]
              objects == schema \union {o}
  <2>1. /\ procs \in [Process -> OpenerState] /\ \A q \in Process \ {p} : procs[q] = opener[q]
        /\ procs[p].at = "look" /\ procs[p].hurt = opener[p].hurt
    BY StatesTyped DEF OpenerState, Stage
  <2>. HIDE DEF procs
  <2>2. Writes(objects, procs)
    BY <1>5 DEF procs
  <2>. HIDE DEF o, objects
  <2>3. /\ schema' = objects /\ opener' \in [Process -> OpenerState]
        /\ \A q \in Process \ {p} : StaysAsItWas(q)
        /\ opener'[p].at = "look" /\ opener'[p].hurt = opener[p].hurt
    BY <1>1, <1>3, <2>1, <2>2, WritesAre
  <2>4. InPlace(opener[p])' /\ (~opener[p].hurt => HasApplied(opener[p])')
    BY <1>1, <1>3, <2>3 DEF InPlace, HasApplied
  <2>5. schema \subseteq schema' /\ schema' \subseteq schema \union MadeOutside
    BY <1>2, <2>3 DEF objects
  <2>. QED
    BY <1>1, <1>3, <2>3, <2>4, <2>5, OpeningGoesOn
<1>. QED
  BY <1>4, <1>5 DEF AlterOutcomes

LEMMA DropViewKeeps ==
    ASSUME SchemaInv, NEW p \in Process, DropView(p) PROVE SchemaInv'
<1>. DEFINE procs == [opener EXCEPT ![p].at = "create"]
            objects == schema \ {View(opener[p].next)}
<1>1. Writes(objects, procs) /\ UNCHANGED <<applied, mishaps>> /\ opener[p].at = "drop"
  BY DEF DropView, OpenerAt
<1>2. /\ procs \in [Process -> OpenerState] /\ \A q \in Process \ {p} : procs[q] = opener[q]
      /\ procs[p].at = "create" /\ procs[p].next = opener[p].next
      /\ procs[p].hurt = opener[p].hurt
  BY StatesTyped DEF OpenerState, Stage
<1>3. IsOpening(opener[p]) /\ (~opener[p].hurt => Numbers \subseteq applied)
  BY <1>1, ThroughMigrations
<1>4. opener[p].next \in 1..4
  BY <1>1 DEF SchemaInv, EachOnItsWay, InPlace
<1>. HIDE DEF procs, objects
<1>5. /\ schema' = objects /\ opener' \in [Process -> OpenerState]
      /\ \A q \in Process \ {p} : StaysAsItWas(q)
      /\ opener'[p].at = "create" /\ opener'[p].next = opener[p].next
      /\ opener'[p].hurt = opener[p].hurt
  BY <1>1, <1>2, <1>3, WritesAre
<1>6. InPlace(opener[p])' /\ (~opener[p].hurt => HasApplied(opener[p])')
  BY <1>1, <1>3, <1>4, <1>5 DEF InPlace, HasApplied
<1>7. schema \ ViewObjects \subseteq schema' /\ schema' \subseteq schema \union MadeOutside
  BY <1>4, <1>5 DEF objects, ViewObjects
<1>8. \A k \in 1..4 : View(k) \in schema /\ View(k) \notin schema' =>
          opener'[p].at = "create" /\ opener'[p].next = k
  <2>1. ASSUME NEW k \in 1..4, View(k) = View(opener[p].next) PROVE k = opener[p].next
    <3>1. \A j \in 1..4 : View(j).table = TrainingViews[j]
      BY DEF View
    <3>2. TrainingViews[k] = TrainingViews[opener[p].next]
      BY <1>4, <2>1, <3>1
    <3>3. /\ TrainingViews[1] = "fill_training_view" /\ TrainingViews[2] = "alpha_training_view"
          /\ TrainingViews[3] = "rug_training_view" /\ TrainingViews[4] = "survival_training_view"
      BY DEF TrainingViews
    <3>. QED
      BY <1>4, <3>2, <3>3, OneToFour
  <2>. QED
    BY <1>5, <2>1 DEF objects
<1>. QED
  BY <1>1, <1>3, <1>5, <1>6, <1>7, <1>8, OpeningGoesOn

LEMMA CreateViewKeeps ==
    ASSUME SchemaInv, NEW p \in Process, CreateView(p) PROVE SchemaInv'
<1>. DEFINE s == AfterView(opener[p])
            procs == [opener EXCEPT ![p] = s]
            objects == schema \union {View(opener[p].next)}
<1>1. Writes(objects, procs) /\ UNCHANGED <<applied, mishaps>> /\ opener[p].at = "create"
  BY StatesTyped DEF CreateView, OpenerAt
<1>2. opener[p].next \in 1..4
  BY <1>1 DEF SchemaInv, EachOnItsWay, InPlace
<1>3. /\ s \in OpenerState /\ s.hurt = opener[p].hurt
      /\ s.at = "open" \/ (s.at = "drop" /\ s.next \in 1..4)
  <2>1. opener[p].next # 4 => opener[p].next + 1 \in 1..4
    BY <1>2
  <2>2. /\ s \in OpenerState /\ s.hurt = opener[p].hurt
        /\ \/ opener[p].next = 4 /\ s.at = "open"
           \/ opener[p].next # 4 /\ s.at = "drop" /\ s.next = opener[p].next + 1
    BY StatesTyped, AfterViewIs
  <2>. HIDE DEF s
  <2>. QED
    BY <2>1, <2>2
<1>. HIDE DEF s
<1>4. /\ procs \in [Process -> OpenerState] /\ \A q \in Process \ {p} : procs[q] = opener[q]
      /\ procs[p] = s
  BY <1>3, StatesTyped
<1>5. IsOpening(opener[p]) /\ (~opener[p].hurt => Numbers \subseteq applied)
  BY <1>1, ThroughMigrations
<1>. HIDE DEF procs, objects
<1>6. /\ schema' = objects /\ opener' \in [Process -> OpenerState]
      /\ \A q \in Process \ {p} : StaysAsItWas(q)
      /\ opener'[p].at = s.at /\ opener'[p].next = s.next /\ opener'[p].hurt = opener[p].hurt
  BY <1>1, <1>3, <1>4, <1>5, WritesAre
<1>7. InPlace(opener[p])' /\ (~opener[p].hurt => HasApplied(opener[p])')
  BY <1>1, <1>3, <1>5, <1>6 DEF InPlace, HasApplied
<1>8. /\ schema \subseteq schema' /\ schema' \subseteq schema \union MadeOutside
      /\ View(opener[p].next) \in schema'
  BY <1>2, <1>6, NoObjectsOfViews DEF objects, ViewObjects
<1>. QED
  BY <1>1, <1>5, <1>6, <1>7, <1>8, OpeningGoesOn

-----------------------------------------------------------------------------
(* SchemaBootstrap: beginning, and what goes wrong *)

\* Whoever begins while another is hurt counts as hurt: it meets what that one left.
LEMMA OpenDbKeeps ==
    ASSUME SchemaInv, NEW p \in Process, OpenDb(p) PROVE SchemaInv'
<1>. DEFINE h == \E q \in Process : IsOpening(opener[q]) /\ opener[q].hurt
            s == [opener[p] EXCEPT !.at = "bootstrap", !.hurt = h]
<1>1. /\ opener' = [opener EXCEPT ![p] = s] /\ UNCHANGED <<schema, applied, mishaps>>
      /\ opener[p].at = "closed"
  BY StatesTyped DEF OpenDb, OpenerAt
<1>2. h \in BOOLEAN
  OBVIOUS
<1>3. /\ h => \E q \in Process : IsOpening(opener[q]) /\ opener[q].hurt
      /\ ~h => \A q \in Process : IsOpening(opener[q]) => ~opener[q].hurt
  OBVIOUS
<1>. HIDE DEF h
<1>4. s \in OpenerState /\ s.at = "bootstrap" /\ s.hurt = h
  BY <1>2, StatesTyped DEF OpenerState, Stage
<1>. HIDE DEF s
<1>5. opener'[p] = s /\ \A q \in Process \ {p} : opener'[q] = opener[q]
  BY <1>1, StatesTyped
<1>6. SchemaTypes'
  BY <1>1, <1>4, StatesTyped DEF SchemaInv, SchemaTypes
<1>7. EachOnItsWay'
  <2>1. InPlace(opener[p])' /\ HasApplied(opener[p])'
    BY <1>4, <1>5 DEF InPlace, HasApplied
  <2>2. \A q \in Process \ {p} : StaysAsItWas(q)
    BY <1>5 DEF StaysAsItWas, StaysPut
  <2>3. \A q \in Process \ {p} : InPlace(opener[q])' /\ (~opener'[q].hurt => HasApplied(opener[q])')
    BY <1>1, <2>2, StaysOnItsWay
  <2>. QED
    BY <2>1, <2>3 DEF EachOnItsWay
<1>8. Kept' /\ Rooted'
  BY <1>1, SchemaAsBefore
<1>9. HurtTogether'
  <2>1. \A q \in Process : IsOpening(opener[q]) => opener[q].hurt = h
    BY <1>2, <1>3, StatesTyped DEF SchemaInv, HurtTogether
  <2>2. \A q \in Process : IsOpening(opener[q])' => opener'[q].hurt = h
    BY <1>4, <1>5, <2>1 DEF IsOpening
  <2>. QED
    BY <2>2 DEF HurtTogether
<1>10. NoneHurt'
  BY <1>1, <1>3, <1>4, <1>5 DEF SchemaInv, NoneHurt
<1>11. ViewsCome'
  <2>1. ASSUME NEW k \in 1..4, Comes(k) PROVE Comes(k)'
    BY <1>1, <1>5, <2>1 DEF Comes
  <2>. QED
    BY <1>1, <2>1 DEF SchemaInv, ViewsCome
<1>. QED
  BY <1>6, <1>7, <1>8, <1>9, <1>10, <1>11 DEF SchemaInv

LEMMA MishapHappened ==
    ASSUME SchemaInv, mishaps' = mishaps + 1 PROVE mishaps' \in Nat /\ mishaps' # 0
  BY DEF SchemaInv, SchemaTypes

\* A process stays where it is, as hurt as before or hurt now.
LEMMA HurtOnItsWay ==
    ASSUME SchemaInv, NEW q \in Process, StaysPut(q), UNCHANGED <<schema, applied>>,
           opener'[q].hurt = (opener[q].hurt \/ IsOpening(opener[q]))
    PROVE  InPlace(opener[q])' /\ (~opener'[q].hurt => HasApplied(opener[q])')
<1>1. InPlace(opener[q])'
  BY StaysInPlace
<1>2. ASSUME ~opener'[q].hurt PROVE HasApplied(opener[q])'
  <2>1. ~IsOpening(opener[q]) /\ ~opener[q].hurt
    BY <1>2
  <2>. QED
    BY <2>1 DEF SchemaInv, EachOnItsWay, HasApplied, StaysPut, IsOpening
<1>. QED
  BY <1>1, <1>2

LEMMA TimesOutKeeps ==
    ASSUME SchemaInv, NEW p \in Process, TimesOut(p) PROVE SchemaInv'
<1>. DEFINE hurt == Hurt(opener)
<1>1. mishaps' = mishaps + 1 /\ UNCHANGED <<schema, applied>>
  BY DEF TimesOut, Mishap
<1>2. /\ hurt \in [Process -> OpenerState]
      /\ \A q \in Process :
           /\ hurt[q].at = opener[q].at /\ hurt[q].next = opener[q].next
           /\ hurt[q].draft = opener[q].draft /\ hurt[q].overtaken = opener[q].overtaken
           /\ hurt[q].hurt = (opener[q].hurt \/ IsOpening(opener[q]))
  BY StatesTyped, HurtIs
<1>3. \E s \in OpenerState :
        /\ opener' = [hurt EXCEPT ![p] = s] /\ s.hurt = hurt[p].hurt /\ IsOpening(opener[p])
        /\ \/ s.at \in {"backfill", "open"}
           \/ s.at = "check" /\ opener[p].at = "apply"
           \/ s.at = "create" /\ s.next = opener[p].next /\ opener[p].at = "drop"
           \/ s.at = "drop" /\ s.next \in 1..4
  <2>1. \/ opener[p].at = "bootstrap" /\ opener' = [hurt EXCEPT ![p].at = "backfill"]
        \/ opener[p].at = "apply" /\ opener' = [hurt EXCEPT ![p] = GivesUp(@)]
        \/ opener[p].at = "drop" /\ opener' = [hurt EXCEPT ![p].at = "create"]
        \/ opener[p].at = "create" /\ opener' = [hurt EXCEPT ![p] = AfterView(@)]
        \/ opener[p].at \in {"table", "simTable", "alter"} /\ opener' = [hurt EXCEPT ![p].at = "open"]
    BY DEF TimesOut, OpenerAt
  <2>2. IsOpening(opener[p])
    BY <2>1, OpeningStages
  <2>. HIDE DEF hurt
  <2>3. CASE opener[p].at = "bootstrap" /\ opener' = [hurt EXCEPT ![p].at = "backfill"]
    <3>. DEFINE s == [hurt[p] EXCEPT !.at = "backfill"]
    <3>1. opener' = [hurt EXCEPT ![p] = s] /\ s \in OpenerState /\ s.at = "backfill" /\ s.hurt = hurt[p].hurt
      BY <1>2, <2>3 DEF OpenerState, Stage
    <3>. QED
      BY <2>2, <3>1
  <2>4. CASE opener[p].at = "apply" /\ opener' = [hurt EXCEPT ![p] = GivesUp(@)]
    <3>. DEFINE s == GivesUp(hurt[p])
    <3>1. opener' = [hurt EXCEPT ![p] = s]
      BY <1>2, <2>4
    <3>2. s \in OpenerState /\ s.at = "check" /\ s.hurt = hurt[p].hurt
      BY <1>2, GivesUpIs
    <3>. QED
      BY <2>2, <2>4, <3>1, <3>2
  <2>5. CASE opener[p].at = "drop" /\ opener' = [hurt EXCEPT ![p].at = "create"]
    <3>. DEFINE s == [hurt[p] EXCEPT !.at = "create"]
    <3>1. opener' = [hurt EXCEPT ![p] = s]
      BY <1>2, <2>5
    <3>2. s \in OpenerState /\ s.at = "create" /\ s.next = opener[p].next /\ s.hurt = hurt[p].hurt
      BY <1>2 DEF OpenerState, Stage
    <3>. QED
      BY <2>2, <2>5, <3>1, <3>2
  <2>6. CASE opener[p].at = "create" /\ opener' = [hurt EXCEPT ![p] = AfterView(@)]
    <3>. DEFINE s == AfterView(hurt[p])
    <3>1. opener' = [hurt EXCEPT ![p] = s]
      BY <1>2, <2>6
    <3>2. opener[p].next \in 1..4
      BY <2>6 DEF SchemaInv, EachOnItsWay, InPlace
    <3>3. /\ s \in OpenerState /\ s.hurt = hurt[p].hurt
          /\ \/ hurt[p].next = 4 /\ s.at = "open"
             \/ hurt[p].next # 4 /\ s.at = "drop" /\ s.next = hurt[p].next + 1
      BY <1>2, AfterViewIs
    <3>4. hurt[p].next = opener[p].next
      BY <1>2
    <3>. HIDE DEF s
    <3>5. s.at = "open" \/ (s.at = "drop" /\ s.next \in 1..4)
      BY <3>2, <3>3, <3>4
    <3>. QED
      BY <2>2, <3>1, <3>3, <3>5
  <2>7. CASE /\ opener[p].at \in {"table", "simTable", "alter"}
             /\ opener' = [hurt EXCEPT ![p].at = "open"]
    <3>. DEFINE s == [hurt[p] EXCEPT !.at = "open"]
    <3>1. opener' = [hurt EXCEPT ![p] = s] /\ s \in OpenerState /\ s.at = "open" /\ s.hurt = hurt[p].hurt
      BY <1>2, <2>7 DEF OpenerState, Stage
    <3>. QED
      BY <2>2, <3>1
  <2>. QED
    BY <2>1, <2>3, <2>4, <2>5, <2>6, <2>7
<1>. HIDE DEF hurt
<1>4. PICK s \in OpenerState :
        /\ opener' = [hurt EXCEPT ![p] = s] /\ s.hurt = hurt[p].hurt /\ IsOpening(opener[p])
        /\ \/ s.at \in {"backfill", "open"}
           \/ s.at = "check" /\ opener[p].at = "apply"
           \/ s.at = "create" /\ s.next = opener[p].next /\ opener[p].at = "drop"
           \/ s.at = "drop" /\ s.next \in 1..4
  BY <1>3
<1>5. /\ opener' \in [Process -> OpenerState] /\ opener'[p] = s /\ s.hurt
      /\ \A q \in Process \ {p} : opener'[q] = hurt[q]
  BY <1>2, <1>4
<1>6. SchemaTypes'
  BY <1>1, <1>5, MishapHappened DEF SchemaInv, SchemaTypes
<1>7. EachOnItsWay'
  <2>1. ASSUME NEW q \in Process \ {p}
        PROVE  InPlace(opener[q])' /\ (~opener'[q].hurt => HasApplied(opener[q])')
    <3>1. StaysPut(q) /\ opener'[q].hurt = (opener[q].hurt \/ IsOpening(opener[q]))
      BY <1>2, <1>5 DEF StaysPut
    <3>. QED
      BY <1>1, <3>1, HurtOnItsWay
  <2>2. InPlace(opener[p])'
    BY <1>1, <1>4, <1>5 DEF SchemaInv, EachOnItsWay, InPlace
  <2>. QED
    BY <1>5, <2>1, <2>2 DEF EachOnItsWay
<1>8. Kept' /\ Rooted'
  BY <1>1, SchemaAsBefore
<1>9. HurtTogether'
  <2>1. \A q \in Process : IsOpening(opener[q])' => opener'[q].hurt
    BY <1>2, <1>5 DEF IsOpening
  <2>2. \A q \in Process : opener'[q].hurt \in BOOLEAN
    BY <1>5 DEF OpenerState
  <2>. QED
    BY <2>1, <2>2 DEF HurtTogether
<1>10. NoneHurt' /\ ViewsCome'
  BY <1>1, MishapHappened DEF NoneHurt, ViewsCome
<1>. QED
  BY <1>6, <1>7, <1>8, <1>9, <1>10 DEF SchemaInv

LEMMA KillProcessKeeps ==
    ASSUME SchemaInv, NEW p \in Process, KillProcess(p) PROVE SchemaInv'
<1>1. /\ mishaps' = mishaps + 1 /\ UNCHANGED <<schema, applied>>
      /\ opener' = [opener EXCEPT ![p] = NotOpened]
  BY DEF KillProcess, Mishap
<1>2. NotOpened \in OpenerState /\ NotOpened.at = "closed"
  BY SomeDrafts DEF NotOpened, OpenerState, Stage
<1>3. /\ opener' \in [Process -> OpenerState] /\ opener'[p] = NotOpened
      /\ \A q \in Process \ {p} : opener'[q] = opener[q]
  BY <1>1, <1>2, StatesTyped
<1>4. SchemaTypes'
  BY <1>1, <1>3, MishapHappened DEF SchemaInv, SchemaTypes
<1>5. EachOnItsWay'
  <2>1. InPlace(opener[p])' /\ HasApplied(opener[p])'
    BY <1>2, <1>3 DEF InPlace, HasApplied
  <2>2. \A q \in Process \ {p} : StaysAsItWas(q)
    BY <1>3 DEF StaysAsItWas, StaysPut
  <2>3. \A q \in Process \ {p} : InPlace(opener[q])' /\ (~opener'[q].hurt => HasApplied(opener[q])')
    BY <1>1, <2>2, StaysOnItsWay
  <2>. QED
    BY <2>1, <2>3 DEF EachOnItsWay
<1>6. Kept' /\ Rooted'
  BY <1>1, SchemaAsBefore
<1>7. HurtTogether'
  BY <1>2, <1>3 DEF SchemaInv, HurtTogether, IsOpening
<1>8. NoneHurt' /\ ViewsCome'
  BY <1>1, MishapHappened DEF NoneHurt, ViewsCome
<1>. QED
  BY <1>4, <1>5, <1>6, <1>7, <1>8 DEF SchemaInv

LEMMA ForeignWriteKeeps ==
    ASSUME SchemaInv, ForeignWrite PROVE SchemaInv'
<1>. DEFINE o == Overtake(opener)
<1>1. mishaps' = mishaps + 1 /\ UNCHANGED <<schema, applied>> /\ opener' = Hurt(o)
  BY DEF ForeignWrite, Mishap
<1>2. /\ o \in [Process -> OpenerState]
      /\ \A q \in Process :
           /\ o[q].at = opener[q].at /\ o[q].next = opener[q].next
           /\ o[q].draft = opener[q].draft /\ o[q].hurt = opener[q].hurt
  <2>1. opener \in [Process -> OpenerState]
    BY DEF SchemaInv, SchemaTypes
  <2>. QED
    BY <2>1, OvertakeIs
<1>. HIDE DEF o
<1>3. /\ opener' \in [Process -> OpenerState]
      /\ \A q \in Process :
           /\ StaysPut(q) /\ opener'[q].hurt = (opener[q].hurt \/ IsOpening(opener[q]))
  BY <1>1, <1>2, HurtIs DEF StaysPut, IsOpening
<1>4. SchemaTypes'
  BY <1>1, <1>3, MishapHappened DEF SchemaInv, SchemaTypes
<1>5. EachOnItsWay'
  BY <1>1, <1>3, HurtOnItsWay DEF EachOnItsWay
<1>6. Kept' /\ Rooted'
  BY <1>1, SchemaAsBefore
<1>7. HurtTogether'
  <2>1. \A q \in Process : IsOpening(opener[q])' => opener'[q].hurt
    BY <1>3 DEF IsOpening, StaysPut
  <2>2. \A q \in Process : opener'[q].hurt \in BOOLEAN
    BY <1>3 DEF OpenerState
  <2>. QED
    BY <2>1, <2>2 DEF HurtTogether
<1>8. NoneHurt' /\ ViewsCome'
  BY <1>1, MishapHappened DEF NoneHurt, ViewsCome
<1>. QED
  BY <1>4, <1>5, <1>6, <1>7, <1>8 DEF SchemaInv

LEMMA SchemaBegins == SchemaInit => SchemaInv
<1>. SUFFICES ASSUME SchemaInit PROVE SchemaInv
  OBVIOUS
<1>1. PICK n \in Releases :
        /\ applied = 1..n
        /\ schema = (UNION {MIGRATIONS[i] : i \in 1..n})
                        \union (IF n = 18 THEN {SimOutcomes} ELSE {})
        /\ opener = [p \in Process |-> NotOpened] /\ mishaps = 0
  BY DEF SchemaInit
<1>2. n \in 0..18 /\ 1..n \subseteq Numbers /\ (18 \in 1..n => n = 18)
  BY SchemaAssumption DEF Numbers
<1>3. NotOpened \in OpenerState /\ NotOpened.at = "closed" /\ ~NotOpened.hurt
  BY SomeDrafts DEF NotOpened, OpenerState, Stage
<1>4. SchemaTypes
  BY <1>1, <1>2, <1>3 DEF SchemaTypes
<1>5. EachOnItsWay
  BY <1>1, <1>3 DEF EachOnItsWay, InPlace, HasApplied
<1>6. Kept
  BY <1>1 DEF Kept
<1>7. Rooted
  BY <1>1, NoObjectsOfViews DEF Rooted
<1>8. HurtTogether /\ NoneHurt
  BY <1>1, <1>3 DEF HurtTogether, NoneHurt, IsOpening
<1>9. ViewsCome
  <2>1. 18 \in applied => MIGRATIONS[18] \subseteq schema
    BY <1>1
  <2>. QED
    BY <2>1, NoObjectsOfViews DEF ViewsCome, Comes, ViewObjects
<1>. QED
  BY <1>4, <1>5, <1>6, <1>7, <1>8, <1>9 DEF SchemaInv

LEMMA SchemaStep == SchemaInv /\ [SchemaNext]_schemaVars => SchemaInv'
<1>1. ASSUME SchemaInv, UNCHANGED schemaVars PROVE SchemaInv'
  BY <1>1 DEF schemaVars, SchemaInv, SchemaTypes, EachOnItsWay, InPlace, HasApplied, Kept, Rooted,
     HurtTogether, NoneHurt, ViewsCome, Comes
<1>2. ASSUME SchemaInv, NEW p \in Process,
             \/ OpenDb(p) \/ BootstrapWrites(p) \/ Backfill(p)
             \/ CreateMigrationsTable(p) \/ CheckMigration(p)
             \/ ApplyMigration(p) \/ ApplyRefused(p) \/ RecordMigration(p)
             \/ EnsureSimTable(p) \/ LookForColumn(p) \/ AlterOutcomes(p)
             \/ DropView(p) \/ CreateView(p) \/ TimesOut(p) \/ KillProcess(p)
      PROVE  SchemaInv'
  BY <1>2, OpenDbKeeps, BootstrapWritesKeeps, BackfillKeeps, CreateMigrationsTableKeeps,
     CheckMigrationKeeps, ApplyMigrationKeeps, ApplyRefusedKeeps, RecordMigrationKeeps,
     EnsureSimTableKeeps, LookForColumnKeeps, AlterOutcomesKeeps, DropViewKeeps, CreateViewKeeps,
     TimesOutKeeps, KillProcessKeeps
<1>. QED
  BY <1>1, <1>2, ForeignWriteKeeps DEF SchemaNext

LEMMA SchemaInvSuffices == SchemaInv => SchemaIsWhole
<1>. SUFFICES ASSUME SchemaInv PROVE SchemaIsWhole
  OBVIOUS
<1>1. MigrationsAreWhole
  <2>1. ASSUME NEW i \in DOMAIN MIGRATIONS, i \in applied
        PROVE  MIGRATIONS[i] \ {View(k) : k \in 1..4} \subseteq schema
    BY <2>1 DEF SchemaInv, Kept, ViewObjects
  <2>2. ASSUME NEW i \in DOMAIN MIGRATIONS, i \notin applied
        PROVE  \A o \in (MIGRATIONS[i] \ MadeOutside) \intersect schema :
                   \E j \in applied : o \in MIGRATIONS[j]
    BY DEF SchemaInv, Rooted
  <2>. QED
    BY <2>1, <2>2 DEF MigrationsAreWhole
<1>2. OpenIsComplete
  BY EighteenMigrations DEF OpenIsComplete, OpenerAt, SchemaInv, SchemaTypes, EachOnItsWay, HasApplied
<1>3. ViewsComeBack
  <2>1. ASSUME NEW p \in Process, opener[p].at = "open", mishaps = 0, NEW k \in 1..4
        PROVE  Comes(k)
    <3>1. Numbers \subseteq applied
      BY <2>1 DEF SchemaInv, NoneHurt, EachOnItsWay, HasApplied
    <3>. QED
      BY <2>1, <3>1 DEF SchemaInv, ViewsCome, Numbers
  <2>. QED
    BY <2>1, FourViews DEF ViewsComeBack, OpenerAt, Comes
<1>. QED
  BY <1>1, <1>2, <1>3 DEF SchemaIsWhole

\* However many processes open the file at once, whatever release it is from and whatever is
\* killed, refused or times out: all that a recorded migration brings is there and one that is
\* not recorded has left nothing of its own; an opening that nothing hurt leaves no migration
\* out; and where nothing went wrong the views are there or about to be made.
THEOREM SchemaStaysWhole == SchemaSpec => []SchemaIsWhole
<1>1. SchemaSpec => []SchemaInv
  BY SchemaBegins, SchemaStep, PTL DEF SchemaSpec
<1>. QED
  BY <1>1, SchemaInvSuffices, PTL

-----------------------------------------------------------------------------
(* ConfigLoading *)

Place == 1..Len(EnvMap)
Giver == EnvKey \union {"baked", "file"}
Value == [from : Giver, set : BOOLEAN, valid : BOOLEAN]
EnvValue == {"unset", "yes", "empty", "garbled"}
KeyValue == {"absent", "yes", "no", "wrong"}

LEMMA MapOfVariables ==
    /\ \A i \in Place : EnvMap[i] \in [key : ConfigKey, env : EnvKey]
    /\ Len(EnvMap) \in Nat
    /\ DOMAIN EnvMap = Place
    /\ "file" \notin EnvKey
    /\ "killSwitchToken" \in ConfigKey /\ "SOLANA_RPC_HTTP_HEADERS" \in EnvKey
<1>1. Len(EnvMap) = 9 /\ DOMAIN EnvMap = 1..9
  BY DEF EnvMap
<1>. DEFINE Variable == {"SOLANA_WS_URL", "SOLANA_RPC_HTTP_HEADERS", "PYTH_SOL_USD_PRICE_ACCOUNT",
                        "SQLITE_DB_PATH", "PERSISTENCE_SQLITE_PATH", "KILL_SWITCH_TOKEN",
                        "JITO_BUNDLE_URL", "SIZING_MIN_FREE_SOL"}
<1>2. ASSUME NEW i \in 1..9
      PROVE  EnvMap[i] = [key |-> EnvMap[i].key, env |-> EnvMap[i].env] /\ EnvMap[i].env \in Variable
  <2>1. /\ EnvMap[1] = [key |-> "wsUrl", env |-> "SOLANA_WS_URL"]
        /\ EnvMap[2] = [key |-> "httpHeaders", env |-> "SOLANA_RPC_HTTP_HEADERS"]
        /\ EnvMap[3] = [key |-> "pythAccount", env |-> "PYTH_SOL_USD_PRICE_ACCOUNT"]
        /\ EnvMap[4] = [key |-> "sqlitePath", env |-> "SQLITE_DB_PATH"]
        /\ EnvMap[5] = [key |-> "sqlitePath", env |-> "PERSISTENCE_SQLITE_PATH"]
        /\ EnvMap[6] = [key |-> "killSwitchToken", env |-> "KILL_SWITCH_TOKEN"]
        /\ EnvMap[7] = [key |-> "bundleUrl", env |-> "JITO_BUNDLE_URL"]
        /\ EnvMap[8] = [key |-> "updaterAccount", env |-> "PYTH_SOL_USD_PRICE_ACCOUNT"]
        /\ EnvMap[9] = [key |-> "minFreeSol", env |-> "SIZING_MIN_FREE_SOL"]
    BY DEF EnvMap
  <2>2. CASE i = 1
    BY <2>1, <2>2
  <2>3. CASE i = 2
    BY <2>1, <2>3
  <2>4. CASE i = 3
    BY <2>1, <2>4
  <2>5. CASE i = 4
    BY <2>1, <2>5
  <2>6. CASE i = 5
    BY <2>1, <2>6
  <2>7. CASE i = 6
    BY <2>1, <2>7
  <2>8. CASE i = 7
    BY <2>1, <2>8
  <2>9. CASE i = 8
    BY <2>1, <2>9
  <2>10. CASE i = 9
    BY <2>1, <2>10
  <2>. QED
    BY <2>2, <2>3, <2>4, <2>5, <2>6, <2>7, <2>8, <2>9, <2>10
<1>3. EnvMap[6].key = "killSwitchToken" /\ EnvMap[2].env = "SOLANA_RPC_HTTP_HEADERS"
  BY DEF EnvMap
<1>4. \A i \in 1..9 : EnvMap[i] \in [key : ConfigKey, env : EnvKey]
  BY <1>1, <1>2 DEF ConfigKey, EnvKey
<1>5. "file" \notin Variable
  OBVIOUS
<1>6. EnvKey \subseteq Variable
  BY <1>1, <1>2 DEF EnvKey
<1>7. "file" \notin EnvKey
  <2>. HIDE DEF Variable
  <2>. QED
    BY <1>5, <1>6
<1>. QED
  BY <1>1, <1>3, <1>4, <1>7 DEF Place, ConfigKey, EnvKey

LEMMA KeysOfFlags == {"wsUrl", "bundleUrl"} \subseteq {EnvMap[i].key : i \in DOMAIN EnvMap}
<1>1. EnvMap[1].key = "wsUrl" /\ EnvMap[7].key = "bundleUrl" /\ DOMAIN EnvMap = 1..9
  BY DEF EnvMap
<1>. QED
  BY <1>1

LEMMA LastPlace ==
    ASSUME NEW s \in SUBSET Place, s # {} PROVE Max(s) \in s /\ \A i \in s : i <= Max(s)
<1>. DEFINE bounds == {k \in Nat : \A i \in s : i <= k}
<1>1. Len(EnvMap) \in Nat
  BY MapOfVariables
<1>2. Len(EnvMap) \in bounds /\ bounds \subseteq Nat
  BY <1>1 DEF Place
<1>3. Min(bounds) \in bounds /\ \A m \in bounds : Min(bounds) <= m
  <2>. HIDE DEF bounds
  <2>. QED
    BY <1>2, LeastNumber
<1>. DEFINE k == Min(bounds)
<1>4. k \in Nat /\ \A i \in s : i <= k
  BY <1>3
<1>5. \A m \in bounds : k <= m
  BY <1>3
<1>. HIDE DEF k
<1>6. k \in s
  <2>. SUFFICES ASSUME k \notin s PROVE FALSE
    OBVIOUS
  <2>1. \A i \in s : i \in Nat /\ i > 0 /\ i <= k - 1
    BY <1>1, <1>4 DEF Place
  <2>2. k - 1 \in Nat
    BY <1>4, <2>1
  <2>3. k - 1 \in bounds
    BY <2>1, <2>2
  <2>. QED
    BY <1>4, <1>5, <2>3
<1>7. \A i \in s : k >= i
  BY <1>1, <1>4, <1>6 DEF Place
<1>8. \E x \in s : \A i \in s : x >= i
  BY <1>6, <1>7
<1>9. Max(s) \in s /\ \A i \in s : Max(s) >= i
  BY <1>8 DEF Max
<1>. QED
  BY <1>1, <1>9 DEF Place

\* What the variables at the places s make of a configuration.
Overridden(config, s, c) ==
    /\ c \in [ConfigKey -> Value]
    /\ \A k \in ConfigKey :
        \/ SetsKey(k) \intersect s = {} /\ c[k] = config[k]
        \/ \E i \in SetsKey(k) \intersect s :
            /\ \A j \in SetsKey(k) \intersect s : j <= i
            /\ c[k] = Cast(EnvMap[i].env)

EnvTypes == env \in [EnvKey -> EnvValue]

Override(c, m) == IF env[m.env] \in {"unset", "empty"} THEN c ELSE [c EXCEPT ![m.key] = Cast(m.env)]

LEMMA OneVariable ==
    ASSUME EnvTypes, NEW config, NEW s \in SUBSET Place, s # {}, NEW c,
           Overridden(config, s \ {Max(s)}, c)
    PROVE  Overridden(config, s, Override(c, EnvMap[Max(s)]))
<1>. DEFINE last == Max(s)
            key == EnvMap[last].key
            var == EnvMap[last].env
<1>1. last \in s /\ \A i \in s : i <= last
  BY LastPlace
<1>2. last \in Place /\ EnvMap[last] \in [key : ConfigKey, env : EnvKey] /\ Place \subseteq Nat
  <2>1. last \in Place
    BY <1>1
  <2>2. \A i \in Place : EnvMap[i] \in [key : ConfigKey, env : EnvKey]
    BY MapOfVariables DEF Place
  <2>3. Place \subseteq Nat
    BY MapOfVariables DEF Place
  <2>. QED
    BY <2>1, <2>2, <2>3
<1>3. key \in ConfigKey /\ var \in EnvKey
  BY <1>2
<1>4. \A k : last \in SetsKey(k) <=> k = key /\ IsGiven(var)
  BY <1>2, MapOfVariables DEF SetsKey
<1>5. env[var] \in {"unset", "empty"} <=> ~IsGiven(var)
  BY <1>3 DEF EnvTypes, EnvValue, IsGiven
<1>. HIDE DEF last
<1>6. CASE ~IsGiven(var)
  <2>1. Override(c, EnvMap[last]) = c
    BY <1>5, <1>6 DEF Override
  <2>2. \A k : SetsKey(k) \intersect s = SetsKey(k) \intersect (s \ {last})
    BY <1>4, <1>6
  <2>. QED
    BY <2>1, <2>2 DEF Overridden, last
<1>7. CASE IsGiven(var)
  <2>. DEFINE d == [c EXCEPT ![key] = Cast(var)]
  <2>1. Override(c, EnvMap[last]) = d
    BY <1>5, <1>7 DEF Override
  <2>2. Cast(var) \in Value
    BY <1>3 DEF Cast, Value, Giver, EnvTypes
  <2>3. d \in [ConfigKey -> Value] /\ d[key] = Cast(var) /\ \A k \in ConfigKey \ {key} : d[k] = c[k]
    BY <1>3, <2>2 DEF Overridden, last
  <2>4. last \in SetsKey(key) \intersect s
    BY <1>1, <1>4, <1>7
  <2>5. \A k \in ConfigKey \ {key} : SetsKey(k) \intersect s = SetsKey(k) \intersect (s \ {last})
    BY <1>4
  <2>. HIDE DEF d, key, var
  <2>6. Overridden(config, s \ {last}, c)
    BY DEF last
  <2>7. ASSUME NEW k \in ConfigKey
        PROVE  \/ SetsKey(k) \intersect s = {} /\ d[k] = config[k]
               \/ \E i \in SetsKey(k) \intersect s :
                     /\ \A j \in SetsKey(k) \intersect s : j <= i
                     /\ d[k] = Cast(EnvMap[i].env)
    <3>1. CASE k = key
      BY <1>1, <2>3, <2>4, <3>1 DEF var
    <3>2. CASE k # key
      BY <2>3, <2>5, <2>6, <3>2 DEF Overridden
    <3>. QED
      BY <3>1, <3>2
  <2>. QED
    BY <2>1, <2>3, <2>7 DEF Overridden, last
<1>. QED
  BY <1>6, <1>7 DEF last

LEMMA VariablesApplied ==
    ASSUME EnvTypes, NEW config \in [ConfigKey -> Value]
    PROVE  Overridden(config, Place, ApplyEnv(config))
<1>. DEFINE S == DOMAIN EnvMap
            Step(g, s) == IF s = {} THEN config
                          ELSE Override(g[s \ {Max(s)}], EnvMap[Max(s)])
            iter == CHOOSE g : g = [s \in SUBSET S |-> Step(g, s)]
<1>1. ApplyEnv(config) = iter[S]
  BY DEF ApplyEnv, Override, FoldLeft, MapThenFoldSet
<1>2. S = Place /\ Len(EnvMap) \in Nat
  BY MapOfVariables
<1>3. ASSUME NEW s \in SUBSET S
      PROVE  /\ IsFiniteSet(s) /\ Cardinality(s) \in Nat /\ (Cardinality(s) = 0 => s = {})
             /\ s # {} => /\ Max(s) \in s /\ s \ {Max(s)} \in SUBSET S
                          /\ Cardinality(s \ {Max(s)}) = Cardinality(s) - 1
  <2>1. IsFiniteSet(s) /\ Cardinality(s) \in Nat /\ (Cardinality(s) = 0 => s = {})
    <3>1. IsFiniteSet(Place)
      BY <1>2, FS_Interval DEF Place
    <3>2. IsFiniteSet(s)
      BY <1>2, <3>1, FS_Subset
    <3>. QED
      BY <3>2, FS_CardinalityType, FS_EmptySet
  <2>2. s # {} => Max(s) \in s
    BY <1>2, LastPlace
  <2>3. s # {} => Cardinality(s \ {Max(s)}) = Cardinality(s) - 1
    BY <2>1, <2>2, FS_RemoveElement
  <2>. QED
    BY <2>1, <2>2, <2>3
<1>. DEFINE Unfolds(n) == \E g : \A s \in SUBSET S : Cardinality(s) <= n => g[s] = Step(g, s)
            Stuck == {n \in Nat : ~Unfolds(n)}
<1>4. Unfolds(0)
  <2>. DEFINE g == [s \in SUBSET S |-> config]
  <2>1. ASSUME NEW s \in SUBSET S, Cardinality(s) <= 0 PROVE g[s] = Step(g, s)
    <3>1. Cardinality(s) \in Nat
      BY <1>3
    <3>2. Cardinality(s) = 0
      BY <2>1, <3>1
    <3>3. s = {}
      BY <1>3, <3>2
    <3>. QED
      BY <3>3
  <2>. QED
    BY <2>1
<1>5. ASSUME NEW n \in Nat, Unfolds(n) PROVE Unfolds(n + 1)
  <2>1. PICK g : \A s \in SUBSET S : Cardinality(s) <= n => g[s] = Step(g, s)
    BY <1>5
  <2>. DEFINE h == [s \in SUBSET S |-> Step(g, s)]
  <2>2. ASSUME NEW s \in SUBSET S, Cardinality(s) <= n + 1 PROVE h[s] = Step(h, s)
    <3>1. CASE s = {}
      BY <3>1
    <3>2. CASE s # {}
      <4>. DEFINE t == s \ {Max(s)}
      <4>0. t \in SUBSET S /\ Cardinality(t) = Cardinality(s) - 1 /\ Cardinality(s) \in Nat
        BY <1>3, <3>2
      <4>1. t \in SUBSET S /\ Cardinality(t) <= n
        BY <2>2, <4>0
      <4>2. h[t] = g[t]
        BY <2>1, <4>1
      <4>. QED
        BY <3>2, <4>2
    <3>. QED
      BY <3>1, <3>2
  <2>. QED
    BY <2>2
<1>. HIDE DEF Unfolds
<1>6. \A n \in Nat : Unfolds(n)
  <2>. SUFFICES ASSUME Stuck # {} PROVE FALSE
    OBVIOUS
  <2>1. PICK n \in Stuck : \A m \in Stuck : n <= m
    <3>1. Stuck \subseteq Nat
      OBVIOUS
    <3>. HIDE DEF Stuck
    <3>. QED
      BY <3>1, LeastNumber
  <2>2. n # 0 /\ n \in Nat
    BY <1>4, <2>1
  <2>3. n - 1 \in Nat /\ n - 1 \notin Stuck
    BY <2>1, <2>2
  <2>. QED
    BY <1>5, <2>1, <2>2, <2>3
<1>7. \E g : g = [s \in SUBSET S |-> Step(g, s)]
  <2>1. PICK g : \A s \in SUBSET S : Cardinality(s) <= Cardinality(S) => g[s] = Step(g, s)
    <3>1. Cardinality(S) \in Nat
      BY <1>3
    <3>. QED
      BY <1>6, <3>1 DEF Unfolds
  <2>2. ASSUME NEW s \in SUBSET S PROVE g[s] = Step(g, s)
    <3>1. Cardinality(s) <= Cardinality(S)
      BY <1>3, FS_Subset
    <3>. QED
      BY <2>1, <3>1
  <2>. DEFINE h == [s \in SUBSET S |-> g[s]]
  <2>3. ASSUME NEW s \in SUBSET S PROVE h[s] = Step(h, s)
    <3>1. CASE s = {}
      BY <2>2, <3>1
    <3>2. CASE s # {}
      <4>1. h[s \ {Max(s)}] = g[s \ {Max(s)}]
        BY <1>3, <3>2
      <4>. QED
        BY <2>2, <3>2, <4>1
    <3>. QED
      BY <3>1, <3>2
  <2>4. h = [s \in SUBSET S |-> Step(h, s)]
    BY <2>3
  <2>. QED
    BY <2>4
<1>8. iter = [s \in SUBSET S |-> Step(iter, s)]
  BY <1>7
<1>. HIDE DEF iter
<1>9. ASSUME NEW s \in SUBSET S PROVE Overridden(config, s, iter[s])
  <2>. SUFFICES ASSUME ~Overridden(config, s, iter[s]) PROVE FALSE
    OBVIOUS
  <2>. DEFINE Bad == {n \in Nat : \E t \in SUBSET S : Cardinality(t) = n /\ ~Overridden(config, t, iter[t])}
  <2>1. Cardinality(s) \in Bad /\ Bad \subseteq Nat
    BY <1>3
  <2>2. PICK n \in Bad : \A m \in Bad : n <= m
    <3>. HIDE DEF Bad
    <3>. QED
      BY <2>1, LeastNumber
  <2>3. PICK t \in SUBSET S : Cardinality(t) = n /\ ~Overridden(config, t, iter[t])
    BY <2>2
  <2>4. iter[t] = Step(iter, t)
    BY <1>8
  <2>5. t # {}
    <3>1. t = {} => iter[t] = config
      BY <2>4
    <3>. QED
      BY <2>3, <3>1 DEF Overridden
  <2>. DEFINE rest == t \ {Max(t)}
  <2>6. rest \in SUBSET S /\ Cardinality(rest) = n - 1 /\ n \in Nat /\ n - 1 \in Nat
    BY <1>3, <2>3, <2>5
  <2>7. Overridden(config, rest, iter[rest])
    BY <2>2, <2>6
  <2>8. iter[t] = Override(iter[rest], EnvMap[Max(t)])
    BY <2>4, <2>5
  <2>9. t \in SUBSET Place
    BY <1>2
  <2>. HIDE DEF iter, Step
  <2>. QED
    BY <2>3, <2>5, <2>7, <2>8, <2>9, OneVariable
<1>. QED
  BY <1>1, <1>2, <1>9

-----------------------------------------------------------------------------
KeysAre(file) == file.keys \in [ConfigKey -> KeyValue]
Flag == [jitoEnabled : BOOLEAN, wsEnabled : BOOLEAN, simpleMode : BOOLEAN]
ConfigTypes ==
    /\ environment \in [EnvKey -> EnvValue] /\ EnvTypes
    /\ configFile = [state |-> configFile.state, keys |-> configFile.keys] /\ KeysAre(configFile)
    /\ cachedConfig = [loaded |-> cachedConfig.loaded, values |-> cachedConfig.values,
                       flags |-> cachedConfig.flags]
    /\ cachedConfig.values \in [ConfigKey -> Value]

ConfigInv == ConfigTypes /\ ConfigInEffect

LEMMA ConfigBegins == ConfigInit => ConfigInv
<1>. SUFFICES ASSUME ConfigInit PROVE ConfigInv
  OBVIOUS
<1>1. BaseConfig \in [ConfigKey -> Value]
  BY DEF BaseConfig, Value, Giver
<1>2. ConfigTypes
  BY <1>1 DEF ConfigInit, ConfigTypes, EnvTypes, EnvValue, KeysAre, KeyValue, Unloaded
<1>3. ConfigInEffect
  BY DEF ConfigInit, ConfigInEffect, Unloaded
<1>. QED
  BY <1>2, <1>3 DEF ConfigInv

LEMMA LoadedIsGiven ==
    ASSUME ConfigInv, LoadConfig PROVE ConfigInv'
<1>. DEFINE keys == FileConfig
            base == Merged(keys)
            c == ApplyEnv(base)
<1>1. ~FileThrows /\ ~SchemaThrows(keys) /\ ~CastThrows /\ fileRead' = configFile
      /\ cachedConfig' = [loaded |-> TRUE, values |-> c, flags |-> Flags(c)]
      /\ UNCHANGED <<configFile, environment, env, located, edits, served>>
  BY DEF LoadConfig
<1>2. keys \in [ConfigKey -> KeyValue] /\ (configFile.state = "there" => keys = configFile.keys)
      /\ (configFile.state # "there" => keys = [k \in ConfigKey |-> "absent"])
  BY DEF ConfigInv, ConfigTypes, KeysAre, FileConfig, KeyValue
<1>3. base \in [ConfigKey -> Value]
  <2>1. BaseConfig \in [ConfigKey -> Value]
    BY DEF BaseConfig, Value, Giver
  <2>. HIDE DEF keys
  <2>. QED
    BY <2>1 DEF Merged, Value, Giver
<1>4. Overridden(base, Place, c)
  BY <1>3, VariablesApplied DEF ConfigInv, ConfigTypes
<1>. HIDE DEF c, keys
<1>5. ConfigTypes'
  BY <1>1, <1>4 DEF ConfigInv, ConfigTypes, EnvTypes, KeysAre, Overridden
<1>6. ASSUME NEW k \in ConfigKey, SetsKey(k) # {}
      PROVE  /\ c[k].from = Origin(k)' /\ c[k].from \in EnvKey
             /\ (~c[k].valid => IsGiven(c[k].from))
  <2>1. SetsKey(k) \subseteq Place
    BY MapOfVariables DEF SetsKey
  <2>2. PICK i \in SetsKey(k) : (\A j \in SetsKey(k) : j <= i) /\ c[k] = Cast(EnvMap[i].env)
    <3>1. SetsKey(k) \intersect Place = SetsKey(k)
      BY <2>1
    <3>. QED
      BY <1>4, <1>6, <3>1 DEF Overridden
  <2>3. Origin(k)' = EnvMap[CHOOSE l \in SetsKey(k) : \A j \in SetsKey(k) : j <= l].env
    BY <1>1, <1>6 DEF Origin, SetsKey, IsGiven
  <2>4. (CHOOSE l \in SetsKey(k) : \A j \in SetsKey(k) : j <= l) = i
    <3>. DEFINE l == CHOOSE l \in SetsKey(k) : \A j \in SetsKey(k) : j <= l
    <3>1. l \in SetsKey(k) /\ \A j \in SetsKey(k) : j <= l
      BY <2>2
    <3>2. l <= i /\ i <= l
      BY <2>2, <3>1
    <3>3. l \in Nat /\ i \in Nat
      BY <2>1, <3>1, MapOfVariables DEF Place
    <3>. HIDE DEF l
    <3>4. l = i
      BY <3>2, <3>3
    <3>. QED
      BY <3>4 DEF l
  <2>5. IsGiven(EnvMap[i].env) /\ EnvMap[i].env \in EnvKey
    BY <2>1, <2>2, MapOfVariables DEF SetsKey
  <2>6. c[k].from = EnvMap[i].env
    BY <2>2 DEF Cast
  <2>7. IsGiven(c[k].from)
    BY <2>5, <2>6
  <2>. QED
    BY <2>3, <2>4, <2>5, <2>6, <2>7
<1>7. ASSUME NEW k \in ConfigKey, SetsKey(k) = {}
      PROVE  /\ c[k].from = Origin(k)' /\ c[k].valid /\ SetsKey(k)' = {}
             /\ c[k].from = "file" => configFile.keys[k] = (IF c[k].set THEN "yes" ELSE "no")
  <2>1. c[k] = base[k]
    BY <1>4, <1>7 DEF Overridden
  <2>2. SetsKey(k)' = {}
    BY <1>1, <1>7 DEF SetsKey, IsGiven
  <2>3. CASE keys[k] = "absent"
    <3>1. c[k] = BaseConfig[k]
      BY <2>1, <2>3 DEF Merged
    <3>2. c[k].from = "baked" /\ c[k].valid
      BY <3>1 DEF BaseConfig
    <3>3. Origin(k)' = "baked"
      BY <1>1, <1>2, <2>2, <2>3 DEF Origin
    <3>. QED
      BY <2>2, <3>2, <3>3
  <2>4. CASE keys[k] # "absent"
    <3>1. c[k] = [from |-> "file", set |-> keys[k] # "no", valid |-> TRUE]
      BY <2>1, <2>4 DEF Merged
    <3>2. configFile.state = "there" /\ keys = configFile.keys
      BY <1>2, <2>4
    <3>3. Origin(k)' = "file"
      BY <1>1, <2>2, <2>4, <3>2 DEF Origin
    <3>4. keys[k] = "yes" \/ keys[k] = "no"
      BY <1>1, <1>2, <2>4 DEF SchemaThrows, KeyValue
    <3>5. c[k].set = (keys[k] # "no")
      BY <3>1
    <3>6. configFile.keys[k] = (IF c[k].set THEN "yes" ELSE "no")
      BY <3>2, <3>4, <3>5, Zenon
    <3>. QED
      BY <2>2, <3>1, <3>3, <3>6
  <2>. QED
    BY <2>3, <2>4
<1>8. located # "empty"
  BY <1>1 DEF FileThrows
<1>9. ConfigInEffect'
  <2>1. ASSUME NEW k \in ConfigKey
        PROVE  /\ c[k].from = Origin(k)'
               /\ ~c[k].valid => IsGiven(c[k].from)
               /\ c[k].from = "file" => configFile.keys[k] = (IF c[k].set THEN "yes" ELSE "no")
    <3>1. CASE SetsKey(k) = {}
      BY <1>7, <3>1
    <3>2. CASE SetsKey(k) # {}
      BY <1>6, <3>2, MapOfVariables
    <3>. QED
      BY <3>1, <3>2
  <2>2. cachedConfig'.values = c /\ cachedConfig'.flags = Flags(c)
    BY <1>1
  <2>3. cachedConfig'.flags = Flags(cachedConfig'.values)
    BY <2>2
  <2>4. \A k \in ConfigKey :
          /\ cachedConfig'.values[k].from = Origin(k)'
          /\ ~cachedConfig'.values[k].valid => IsGiven(cachedConfig.values[k].from)'
          /\ cachedConfig'.values[k].from = "file" =>
                fileRead'.keys[k] = (IF cachedConfig'.values[k].set THEN "yes" ELSE "no")
    BY <1>1, <2>1, <2>2 DEF IsGiven
  <2>. QED
    BY <1>1, <1>8, <2>3, <2>4 DEF ConfigInEffect
<1>. QED
  BY <1>5, <1>9 DEF ConfigInv

LEMMA ServedIsGiven ==
    ASSUME ConfigInv, ServeSafeConfig PROVE ConfigInv'
<1>. DEFINE old == cachedConfig.values
            new == cachedConfig'.values
            key == "killSwitchToken"
<1>1. /\ cachedConfig.loaded /\ served'
      /\ UNCHANGED <<configFile, environment, env, located, edits, fileRead>>
  BY DEF ServeSafeConfig
<1>2. /\ new = [old EXCEPT ![key].set = FALSE] /\ cachedConfig'.loaded = cachedConfig.loaded
      /\ cachedConfig'.flags = cachedConfig.flags
      /\ cachedConfig' = [loaded |-> cachedConfig'.loaded, values |-> cachedConfig'.values,
                          flags |-> cachedConfig'.flags]
  BY DEF ServeSafeConfig, ConfigInv, ConfigTypes
<1>3. new \in [ConfigKey -> Value] /\ \A k \in ConfigKey : new[k].from = old[k].from /\ new[k].valid = old[k].valid
  <2>1. old \in [ConfigKey -> Value] /\ key \in ConfigKey
    BY MapOfVariables DEF ConfigInv, ConfigTypes
  <2>. DEFINE hidden == [old[key] EXCEPT !.set = FALSE]
  <2>2. new = [old EXCEPT ![key] = hidden]
    BY <1>2
  <2>3. hidden \in Value /\ hidden.from = old[key].from /\ hidden.valid = old[key].valid
    BY <2>1 DEF Value
  <2>. HIDE DEF old, hidden, key, new
  <2>. QED
    BY <2>1, <2>2, <2>3
<1>4. \A k \in ConfigKey \ {key} : new[k] = old[k]
  BY <1>2, MapOfVariables DEF ConfigInv, ConfigTypes
<1>5. Flags(new) = Flags(old)
  <2>1. "features.jito" # key /\ "execution.jito" # key /\ "bundleUrl" # key /\ "wsUrl" # key
    OBVIOUS
  <2>2. {"features.jito", "execution.jito", "bundleUrl", "wsUrl"} \subseteq ConfigKey
    BY KeysOfFlags DEF ConfigKey
  <2>3. /\ new["features.jito"] = old["features.jito"] /\ new["execution.jito"] = old["execution.jito"]
        /\ new["bundleUrl"] = old["bundleUrl"] /\ new["wsUrl"] = old["wsUrl"]
    BY <1>4, <2>1, <2>2
  <2>. HIDE DEF new, old
  <2>. QED
    BY <2>3 DEF Flags
<1>6. \A k : Origin(k)' = Origin(k)
  BY <1>1 DEF Origin, SetsKey, IsGiven
<1>7. ConfigTypes'
  BY <1>1, <1>2, <1>3 DEF ConfigInv, ConfigTypes, EnvTypes, KeysAre
<1>8. ConfigInEffect'
  <2>1. /\ \A k \in ConfigKey : new[k].from = Origin(k)'
        /\ \A k \in ConfigKey : ~new[k].valid => IsGiven(new[k].from)
    BY <1>1, <1>3, <1>6 DEF ConfigInv, ConfigInEffect
  <2>2. ASSUME NEW k \in ConfigKey, new[k].from = "file",
               fileRead.keys[k] # (IF new[k].set THEN "yes" ELSE "no")
        PROVE  k = key
    <3>. SUFFICES ASSUME k # key PROVE FALSE
      OBVIOUS
    <3>1. new[k] = old[k]
      BY <1>4
    <3>. QED
      BY <1>1, <2>2, <3>1 DEF ConfigInv, ConfigInEffect
  <2>3. cachedConfig'.flags = Flags(new) /\ located' # "empty"
    BY <1>1, <1>2, <1>5 DEF ConfigInv, ConfigInEffect
  <2>4. \A k \in ConfigKey : ~new[k].valid => IsGiven(cachedConfig.values[k].from)'
    BY <1>1, <2>1 DEF IsGiven
  <2>5. \A k \in ConfigKey :
          new[k].from = "file" /\ fileRead'.keys[k] # (IF new[k].set THEN "yes" ELSE "no")
            => k = key /\ served'
    BY <1>1, <2>2
  <2>6. \A k \in ConfigKey : new[k].from = Origin(k)'
    BY <2>1
  <2>. HIDE DEF old
  <2>. QED
    BY <2>3, <2>4, <2>5, <2>6 DEF ConfigInEffect
<1>. QED
  BY <1>7, <1>8 DEF ConfigInv

LEMMA ConfigStep == ConfigInv /\ [ConfigNext]_configVars => ConfigInv'
<1>. SUFFICES ASSUME ConfigInv, [ConfigNext]_configVars PROVE ConfigInv'
  OBVIOUS
<1>1. ASSUME UNCHANGED <<env, located, cachedConfig, fileRead, served>> PROVE ConfigInEffect'
  <2>1. \A k : Origin(k)' = Origin(k)
    BY <1>1 DEF Origin, SetsKey, IsGiven
  <2>2. Flags(cachedConfig.values)' = Flags(cachedConfig.values)
    BY <1>1 DEF Flags
  <2>3. \A k : IsGiven(cachedConfig.values[k].from)' = IsGiven(cachedConfig.values[k].from)
    BY <1>1 DEF IsGiven
  <2>. QED
    BY <1>1, <2>1, <2>2, <2>3 DEF ConfigInv, ConfigInEffect
<1>2. CASE \E k \in ConfigKey, v \in {"yes", "no", "wrong"} : EditFile(k, v)
  <2>1. PICK k \in ConfigKey, v \in {"yes", "no", "wrong"} : EditFile(k, v)
    BY <1>2
  <2>2. configFile' = [configFile EXCEPT !.keys[k] = v] /\ UNCHANGED environment /\ Changes
    BY <2>1 DEF EditFile
  <2>3. /\ configFile' = [state |-> configFile'.state, keys |-> configFile'.keys]
        /\ configFile'.keys = [configFile.keys EXCEPT ![k] = v]
    BY <2>2 DEF ConfigInv, ConfigTypes
  <2>4. KeysAre(configFile')
    BY <2>3 DEF ConfigInv, ConfigTypes, KeysAre, KeyValue
  <2>5. ConfigTypes'
    BY <2>2, <2>3, <2>4 DEF ConfigInv, ConfigTypes, EnvTypes, Changes, KeysAre
  <2>. QED
    BY <1>1, <2>2, <2>5 DEF ConfigInv, Changes
<1>3. CASE \E s \in {"there", "missing", "garbled"} : BreakFile(s)
  <2>1. ConfigTypes'
    BY <1>3 DEF BreakFile, ConfigInv, ConfigTypes, EnvTypes, Changes, KeysAre
  <2>. QED
    BY <1>1, <1>3, <2>1 DEF ConfigInv, BreakFile, Changes
<1>4. CASE \E e \in EnvKey, v \in {"yes", "empty", "garbled"} : Export(e, v)
  <2>1. ConfigTypes'
    BY <1>4 DEF Export, ConfigInv, ConfigTypes, EnvTypes, EnvValue, Changes, KeysAre
  <2>. QED
    BY <1>1, <1>4, <2>1 DEF ConfigInv, Export, Changes
<1>5. CASE StartProcess
  <2>1. BaseConfig \in [ConfigKey -> Value]
    BY DEF BaseConfig, Value, Giver
  <2>2. ConfigTypes'
    BY <1>5, <2>1 DEF StartProcess, ConfigInv, ConfigTypes, EnvTypes, Unloaded, KeysAre
  <2>3. ConfigInEffect'
    BY <1>5 DEF StartProcess, ConfigInEffect, Unloaded
  <2>. QED
    BY <2>2, <2>3 DEF ConfigInv
<1>6. CASE UNCHANGED configVars
  <2>1. ConfigTypes'
    BY <1>6 DEF configVars, ConfigInv, ConfigTypes, EnvTypes, KeysAre
  <2>. QED
    BY <1>1, <1>6, <2>1 DEF ConfigInv, configVars
<1>. QED
  BY <1>2, <1>3, <1>4, <1>5, <1>6, LoadedIsGiven, ServedIsGiven DEF ConfigNext

-----------------------------------------------------------------------------
(* agent-core's controls *)

\* A request that is being probed had the token, a forwarded one an answer to its probe too,
\* and position-manager hears of it only then; and the shutdown is past its first step only
\* when nothing is answered.
ControlInv ==
    /\ core \in {"up", "closing", "closed", "metrics", "parquet", "gone"}
    /\ heartbeat => core = "up"
    /\ core \notin {"up", "closing"} => ~Answering /\ listening = {}
    /\ \A f \in Flatten : /\ flatten[f] \in {"probing", "forwarding"} => f \in authorised
                          /\ flatten[f] = "forwarding" =>
                               \E w \in {"ready", "missing"} : <<f, w>> \in probed
                          /\ flatten[f] \in {"none", "probing", "forwarding"} => f \notin flattened
    /\ flatten = [f \in Flatten |-> flatten[f]]
    /\ wallet \in {"ready", "missing", "unreachable"}
    /\ ControlsAreSound

LEMMA ControlStep == ControlInv /\ [ControlNext]_controlVars => ControlInv'
<1>. SUFFICES ASSUME ControlInv, [ControlNext]_controlVars PROVE ControlInv'
  OBVIOUS
<1>. USE DEF ControlInv, ControlsAreSound, Answering, TurnedDown
<1>1. CASE Healthz \/ HeartbeatTick \/ Pause \/ ResumeTrading \/ \E m \in {"SHADOW", "FULL"} : SetMode(m)
  BY <1>1 DEF Healthz, HeartbeatTick, Pause, ResumeTrading, SetMode, RecordHeartbeat, NoFlatten
<1>2. CASE \E d \in Dashboard : OpenEvents(d) \/ StopListening(d)
  BY <1>2 DEF OpenEvents, StopListening, NoFlatten
<1>3. ASSUME NEW f \in Flatten, AskFlatten(f) PROVE ControlInv'
  BY <1>3 DEF AskFlatten, CoreStays
<1>4. ASSUME NEW f \in Flatten, Probed(f) PROVE ControlInv'
  <2>1. ProbeAnswer = "forwarding" => wallet \in {"ready", "missing"}
    BY DEF ProbeAnswer
  <2>2. ProbeAnswer \in {"forwarding"} \union TurnedDown
    BY DEF ProbeAnswer
  <2>3. probed \subseteq probed' /\ (wallet # "unreachable" => <<f, wallet>> \in probed')
    BY <1>4 DEF Probed
  <2>. QED
    BY <1>4, <2>1, <2>2, <2>3 DEF Probed, CoreStays
<1>5. ASSUME NEW f \in Flatten, Forward(f) PROVE ControlInv'
  BY <1>5 DEF Forward, CoreStays
<1>6. CASE Kill \/ Shutdown
  BY <1>6 DEF Kill, Shutdown, NoFlatten
<1>7. CASE ShutdownGoesOn
  BY <1>7 DEF ShutdownGoesOn, ShutdownStep, NoFlatten
<1>8. CASE StartAgain
  BY <1>8 DEF StartAgain, Boot
<1>9. CASE \E w \in {"ready", "missing", "unreachable"} : WalletChanges(w)
  BY <1>9 DEF WalletChanges
<1>10. CASE UNCHANGED controlVars
  BY <1>10 DEF controlVars
<1>. QED
  BY <1>1, <1>2, <1>3, <1>4, <1>5, <1>6, <1>7, <1>8, <1>9, <1>10 DEF ControlNext

\* OperatorIsObeyed: for any number of changes of the file and the environment, of requests,
\* dashboards and restarts, a process goes by the configuration that its variables and its
\* file gave it, and agent-core flattens only what someone it knows asked for while the
\* policy engine answered, tells the truth when it refuses, and writes to no closed database.
THEOREM OperatorObeyed == ConfigSpec /\ ControlSpec => []OperatorIsObeyed
<1>1. ConfigSpec => []ConfigInv
  BY ConfigBegins, ConfigStep, PTL DEF ConfigSpec
<1>2. ControlInit => ControlInv
  BY DEF ControlInit, ControlInv, ControlsAreSound, Answering, TurnedDown
<1>3. ControlSpec => []ControlInv
  BY <1>2, ControlStep, PTL DEF ControlSpec
<1>4. ConfigInv /\ ControlInv => OperatorIsObeyed
  BY DEF ConfigInv, ControlInv, OperatorIsObeyed
<1>. QED
  BY <1>1, <1>3, <1>4, PTL
=============================================================================
