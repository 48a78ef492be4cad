------------------------------ MODULE AgentCore ------------------------------
(***************************************************************************)
(* What agent-core answers about the other services.  A request for the    *)
(* snapshot or the metrics summary asks two services for their health, one *)
(* after the other, through a cache that keeps each answer, a failed one   *)
(* too, for a while.  Requests overlap, and none waits for the question    *)
(* another one has already asked.  A service's state at a time stands for  *)
(* itself: its health, asked at some time, is that time.                   *)
(***************************************************************************)
EXTENDS ConfigLoading

CONSTANTS
    Request,
    HealthTtl,  \* PROVIDER_STATUS_TTL_MS
    Patience,   \* SUMMARY_FETCH_TIMEOUT_MS
    LastTime    \* bound: the clock

ASSUME AgentConstants == {HealthTtl, Patience, LastTime} \subseteq Nat

VARIABLES
    clockTime,
    healthCache,    \* providerHealthCache, by service
    request         \* of each request: stage, since (of its question), cached, told

agentVars == <<clockTime, healthCache, request>>

Service == {"social-ingestor", "onchain-discovery"}

\* data 0: none.
Nothing == [data |-> 0, fetchedAt |-> 0, error |-> FALSE]

AgentInit ==
    /\ clockTime = 1
    /\ healthCache = [s \in Service |-> Nothing]
    /\ request = [r \in Request |->
                    [stage |-> "idle", since |-> 0, cached |-> Nothing,
                     told |-> [s \in Service |-> Nothing]]]

\* collectProviderStatuses asks the second service when the first is answered.
After(stage) == IF stage = "social-ingestor" THEN "onchain-discovery" ELSE "done"

BeginRequest(r) ==
    /\ request[r].stage = "idle"
    /\ request' = [request EXCEPT ![r].stage = "social-ingestor"]
    /\ UNCHANGED <<clockTime, healthCache>>

Told(r, entry) ==
    LET s == request[r].stage
    IN  request' = [request EXCEPT ![r] = [@ EXCEPT !.stage = After(s), !.since = 0,
                                                    !.told[s] = entry]]

Asking(r) == request[r].stage \in Service /\ request[r].since = 0

Recent(entry) == entry.fetchedAt > 0 /\ clockTime <= entry.fetchedAt + HealthTtl

UseCached(r) ==
    /\ Asking(r) /\ Recent(healthCache[request[r].stage])
    /\ Told(r, healthCache[request[r].stage])
    /\ UNCHANGED <<clockTime, healthCache>>

\* now and cached are read, then the fetch is awaited.
Ask(r) ==
    /\ Asking(r) /\ ~Recent(healthCache[request[r].stage])
    /\ request' = [request EXCEPT ![r].since = clockTime,
                                  ![r].cached = healthCache[request[r].stage]]
    /\ UNCHANGED <<clockTime, healthCache>>

Waits(r) == request[r].since > 0

\* Bug: the entry is dated when the answer is there.
Entry_DatedLate(r, data, error) == [data |-> data, fetchedAt |-> clockTime, error |-> error]

\* The entry has the date of the question.
Entry(r, data, error) == [data |-> data, fetchedAt |-> request[r].since, error |-> error]

Keep(r, entry) ==
    /\ healthCache' = [healthCache EXCEPT ![request[r].stage] = entry]
    /\ Told(r, entry)
    /\ UNCHANGED clockTime

\* The service looked at itself at some time since it was asked.
HealthArrives(r) ==
    /\ Waits(r)
    /\ \E seen \in request[r].since..clockTime : Keep(r, Entry(r, seen, FALSE))

\* No answer, a bad one or the timeout: the data that was cached when the
\* question was asked, marked as an error.
HealthFails(r) ==
    /\ Waits(r)
    /\ Keep(r, Entry(r, request[r].cached.data, TRUE))

\* A fetch is aborted when its time is over.
AgentClock ==
    /\ clockTime < LastTime
    /\ \A r \in Request : Waits(r) => clockTime < request[r].since + Patience
    /\ clockTime' = clockTime + 1
    /\ UNCHANGED <<healthCache, request>>

\* The next request.
NextRequest(r) ==
    /\ request[r].stage = "done"
    /\ request' = [request EXCEPT ![r] =
                    [stage |-> "idle", since |-> 0, cached |-> Nothing,
                     told |-> [s \in Service |-> Nothing]]]
    /\ UNCHANGED <<clockTime, healthCache>>

AgentNext ==
    \/ AgentClock
    \/ \E r \in Request : \/ BeginRequest(r) \/ UseCached(r) \/ Ask(r) \/ NextRequest(r)
                          \/ HealthArrives(r) \/ HealthFails(r)

AgentSpec == AgentInit /\ [][AgentNext]_agentVars

-----------------------------------------------------------------------------
(* Property *)

\* What is told or kept without an error mark is the service's state at a time no
\* earlier than the date it is given: overlapping requests, whose answers come in
\* any order, and failures that put older data back do not make old data look new.
HealthIsDated ==
    \A s \in Service :
        \A entry \in {healthCache[s]} \union {request[r].told[s] : r \in Request} :
            entry.fetchedAt > 0 /\ ~entry.error => entry.data >= entry.fetchedAt

-----------------------------------------------------------------------------
(***************************************************************************)
(* agent-core's controls and its end.  The controls set flags of its own   *)
(* and write heartbeat rows; flatten alone reaches another service, after  *)
(* asking the policy engine for its health.  Handlers overlap              *)
(* at their awaits.  The shutdown, by a signal or by /kill, closes the     *)
(* HTTP server first, which waits for the requests that are being answered *)
(* and for the dashboards that listen to events, and the database last.    *)
(***************************************************************************)

CONSTANTS
    Flatten,        \* requests to flatten
    Dashboard,      \* listeners of /events/agent
    MaxBoots        \* bound: processes of agent-core and of the policy engine

ASSUME ControlConstants == MaxBoots \in Nat

VARIABLES
    core,           \* "up", the steps of its shutdown, "gone"
    killSwitchArmed,
    mode,           \* modeOverride, "none" when there is none
    heartbeat,      \* clearInterval has not been called
    heartbeatRow,   \* agent-core's row
    listening,      \* sseClients
    flatten,        \* of each request: "none", "probing", "forwarding", or its answer
    wallet,         \* of the policy engine, which has one or not as long as it runs
    boots,
    flattened,      \* history: the requests position-manager has heard of
    probed,         \* history: the requests whose probe was answered, with the wallet then
    authorised,     \* history: the requests that had the token
    usedClosed      \* history: the database was used after it was closed

controlVars == <<core, killSwitchArmed, mode, heartbeat, heartbeatRow, listening, flatten,
                 wallet, boots, flattened, probed, authorised, usedClosed>>

ControlInit ==
    /\ core = "up" /\ killSwitchArmed = FALSE /\ mode = "none"
    /\ heartbeat = TRUE /\ heartbeatRow = "STARTED"
    /\ listening = {}
    /\ flatten = [f \in Flatten |-> "none"]
    /\ wallet \in {"ready", "missing", "unreachable"}
    /\ boots = 0
    /\ flattened = {} /\ probed = {} /\ authorised = {} /\ usedClosed = FALSE

\* recordHeartbeat throws when the database is closed; the timer's is caught.
RecordHeartbeat(status) ==
    /\ heartbeatRow' = IF core = "gone" THEN heartbeatRow ELSE status
    /\ usedClosed' = (usedClosed \/ core = "gone")

NoFlatten == UNCHANGED <<flatten, wallet, boots, flattened, probed, authorised>>

-----------------------------------------------------------------------------
(* Health, heartbeat and the flags *)

Healthz ==
    /\ core = "up"
    /\ RecordHeartbeat("OK")
    /\ UNCHANGED <<core, killSwitchArmed, mode, heartbeat, listening>> /\ NoFlatten

HeartbeatTick ==
    /\ heartbeat
    /\ RecordHeartbeat(IF killSwitchArmed THEN "PAUSED" ELSE "OK")
    /\ UNCHANGED <<core, killSwitchArmed, mode, heartbeat, listening>> /\ NoFlatten

Pause ==
    /\ core = "up"
    /\ killSwitchArmed' = TRUE
    /\ RecordHeartbeat("PAUSED")
    /\ UNCHANGED <<core, mode, heartbeat, listening>> /\ NoFlatten

ResumeTrading ==
    /\ core = "up"
    /\ killSwitchArmed' = FALSE
    /\ RecordHeartbeat("OK")
    /\ UNCHANGED <<core, mode, heartbeat, listening>> /\ NoFlatten

SetMode(m) ==
    /\ core = "up"
    /\ mode' = m
    /\ RecordHeartbeat("OK")
    /\ UNCHANGED <<core, killSwitchArmed, heartbeat, listening>> /\ NoFlatten

OpenEvents(d) ==
    /\ core = "up" /\ d \notin listening
    /\ listening' = listening \union {d}
    /\ UNCHANGED <<core, killSwitchArmed, mode, heartbeat, heartbeatRow, usedClosed>>
    /\ NoFlatten

StopListening(d) ==
    /\ d \in listening
    /\ listening' = listening \ {d}
    /\ UNCHANGED <<core, killSwitchArmed, mode, heartbeat, heartbeatRow, usedClosed>>
    /\ NoFlatten

-----------------------------------------------------------------------------
(* Flatten *)

CoreStays ==
    UNCHANGED <<core, killSwitchArmed, mode, heartbeat, heartbeatRow, listening, wallet, boots,
                usedClosed>>

AskFlatten(f) ==
    /\ core = "up" /\ flatten[f] = "none"
    /\ \E token \in BOOLEAN :
        /\ flatten' = [flatten EXCEPT ![f] = IF token THEN "probing" ELSE "forbidden"]
        /\ authorised' = authorised \union {g \in {f} : token}
    /\ CoreStays /\ UNCHANGED <<flattened, probed>>

\* /healthz of the policy engine: without a wallet it is degraded, and what it says of
\* the wallet is an object, never a string that the probe looks for.
PolicyHealth == [status |-> IF wallet = "ready" THEN "ok" ELSE "degraded", wallet |-> "object"]

\* Bug: a policy engine that cannot be reached does not stop the request.
ProbeAnswer_CatchesNothing == "forwarding"

ProbeAnswer ==
    IF wallet = "unreachable" THEN "policy_engine_unreachable"
    ELSE IF PolicyHealth.status = "awaiting_credentials" \/ PolicyHealth.wallet = "missing_keystore"
    THEN "awaiting_credentials"
    ELSE "forwarding"

Probed(f) ==
    /\ flatten[f] = "probing"
    /\ flatten' = [flatten EXCEPT ![f] = ProbeAnswer]
    /\ probed' = probed \union ({f} \X ({wallet} \ {"unreachable"}))
    /\ CoreStays /\ UNCHANGED <<flattened, authorised>>

\* The answer of the position manager may be lost when it has heard of the request.
Forward(f) ==
    /\ flatten[f] = "forwarding"
    /\ \E heard, answered \in BOOLEAN :
        /\ answered => heard
        /\ flatten' = [flatten EXCEPT ![f] =
                        IF answered THEN "accepted" ELSE "position_manager_unreachable"]
        /\ flattened' = flattened \union {g \in {f} : heard}
    /\ CoreStays /\ UNCHANGED <<probed, authorised>>

WalletChanges(w) ==
    /\ boots < MaxBoots /\ boots' = boots + 1
    /\ wallet' = w
    /\ UNCHANGED <<core, killSwitchArmed, mode, heartbeat, heartbeatRow, listening, flatten,
                   flattened, probed, authorised, usedClosed>>

-----------------------------------------------------------------------------
(* Shutdown *)

ShutdownStep == <<"closing", "closed", "metrics", "parquet", "gone">>

Answering == \E f \in Flatten : flatten[f] \in {"probing", "forwarding"}

\* The shutdown that it asks for is one as by a signal.
Kill ==
    /\ core = "up"
    /\ killSwitchArmed' = TRUE
    /\ UNCHANGED <<core, mode, heartbeat, heartbeatRow, listening, usedClosed>> /\ NoFlatten

Shutdown ==
    /\ core = "up"
    /\ core' = "closing" /\ heartbeat' = FALSE
    /\ UNCHANGED <<killSwitchArmed, mode, heartbeatRow, listening, usedClosed>> /\ NoFlatten

\* Each step is tried whether or not the one before failed, but app.close waits.
ShutdownGoesOn ==
    \E i \in 1..4 :
        /\ core = ShutdownStep[i]
        /\ core = "closing" => ~Answering /\ listening = {}
        /\ core' = ShutdownStep[i + 1]
        /\ UNCHANGED <<killSwitchArmed, mode, heartbeat, heartbeatRow, listening, usedClosed>>
        /\ NoFlatten

Boot ==
    /\ core' = "up" /\ killSwitchArmed' = FALSE /\ mode' = "none"
    /\ heartbeat' = TRUE /\ heartbeatRow' = "STARTED"
    /\ listening' = {}
    /\ flatten' = [f \in Flatten |-> "none"]
    /\ flattened' = {} /\ probed' = {} /\ authorised' = {}
    /\ UNCHANGED <<wallet, usedClosed>>

\* Started again, or killed and started again.
StartAgain ==
    /\ boots < MaxBoots /\ boots' = boots + 1
    /\ Boot

ControlNext ==
    \/ Healthz \/ HeartbeatTick \/ Pause \/ ResumeTrading
    \/ Kill \/ Shutdown \/ ShutdownGoesOn \/ StartAgain
    \/ \E m \in {"SHADOW", "FULL"} : SetMode(m)
    \/ \E d \in Dashboard : OpenEvents(d) \/ StopListening(d)
    \/ \E f \in Flatten : AskFlatten(f) \/ Probed(f) \/ Forward(f)
    \/ \E w \in {"ready", "missing", "unreachable"} : WalletChanges(w)

ControlSpec == ControlInit /\ [][ControlNext]_controlVars

\* The service as a whole: what it tells, its controls and its configuration.
CoreInit == AgentInit /\ ControlInit /\ ConfigInit
CoreNext ==
    \/ AgentNext /\ UNCHANGED <<controlVars, configVars>>
    \/ ControlNext /\ UNCHANGED <<agentVars, configVars>>
    \/ ConfigNext /\ UNCHANGED <<agentVars, controlVars>>

CoreSpec == CoreInit /\ [][CoreNext]_<<agentVars, controlVars, configVars>>

-----------------------------------------------------------------------------
(* Property *)

\* What an answer says of the flatten: it was asked for, it was not, or nobody knows.
TurnedDown == {"forbidden", "policy_engine_unreachable", "awaiting_credentials"}

\* Positions are flattened only for a request that had the token and whose probe was
\* answered, whatever changes at its awaits, and an operator who is refused may rely on
\* it; and the database, which requests and the heartbeat write to, is closed only when
\* nothing is left that would.
ControlsAreSound ==
    /\ \A f \in flattened : f \in authorised /\ \E w \in {"ready", "missing"} : <<f, w>> \in probed
    /\ \A f \in Flatten : /\ flatten[f] \in TurnedDown => f \notin flattened
                          /\ flatten[f] = "accepted" => f \in flattened
    /\ core = "gone" => ~Answering /\ listening = {}
    /\ ~usedClosed

\* VERIFICATION.md:73, "Wallet missing: policy-engine /healthz shows awaiting_credentials;
\* agent /control/flatten returns 503 awaiting_credentials": no request is forwarded
\* when the policy engine has said that it has no wallet.
FlattenNeedsWallet ==
    \A f \in flattened : <<f, "ready">> \in probed

\* A process goes by the configuration it was given, and agent-core by the operator's
\* requests, until it ends.
OperatorIsObeyed == ConfigInEffect /\ ControlsAreSound
=============================================================================
