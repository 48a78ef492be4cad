---------------------------- MODULE LunarOverlay ----------------------------
(***************************************************************************)
(* LunarCrushOverlay of the narrative miner: a poll that tries the header  *)
(* schemes in turn and fills two lists one after the other, and the bias   *)
(* that the lists give to a post's score, in thousandths.                  *)
(***************************************************************************)
EXTENDS Integers, FiniteSets

CONSTANTS
    OpenThreshold, TopicBoost, InfluencerBoost, MaxBoost,
    MaxLunarPolls   \* bound: polls

ASSUME OverlayAssumption ==
    {OpenThreshold, TopicBoost, InfluencerBoost, MaxBoost, MaxLunarPolls} \subseteq Nat

VARIABLES
    accepted,       \* the scheme the server accepts
    headerScheme,
    pollAt,         \* the request the poll waits for
    retried,        \* it is the second round of the poll
    hotTopics, hotHandles,  \* the poll each was last filled by
    lastFullPoll,   \* lastPollTs
    lunarPolls,
    healthMsg,
    bias            \* the last post: its score, without and with the bias

overlayVars == <<accepted, headerScheme, pollAt, retried, hotTopics, hotHandles,
                 lastFullPoll, lunarPolls, healthMsg, bias>>

OverlayInit ==
    /\ accepted \in {"bearer", "x-api-key", "lc-api-key"} /\ headerScheme = "bearer"
    /\ pollAt = "idle" /\ retried = FALSE
    /\ hotTopics = 0 /\ hotHandles = 0 /\ lastFullPoll = 0 /\ lunarPolls = 0
    /\ healthMsg = "" /\ bias = [base |-> 0, boosted |-> 0]

-----------------------------------------------------------------------------
(* loop *)

BeginLunarPoll ==
    /\ pollAt = "idle" /\ lunarPolls < MaxLunarPolls
    /\ lunarPolls' = lunarPolls + 1
    /\ pollAt' = "topics" /\ retried' = FALSE
    /\ UNCHANGED <<accepted, headerScheme, hotTopics, hotHandles, lastFullPoll, healthMsg,
                   bias>>

TopicsArrive ==
    /\ pollAt = "topics" /\ headerScheme = accepted
    /\ hotTopics' = lunarPolls /\ pollAt' = "influencers"
    /\ UNCHANGED <<accepted, headerScheme, retried, hotHandles, lastFullPoll, lunarPolls,
                   healthMsg, bias>>

InfluencersArrive ==
    /\ pollAt = "influencers" /\ headerScheme = accepted
    /\ hotHandles' = lunarPolls /\ lastFullPoll' = lunarPolls /\ pollAt' = "idle"
    /\ UNCHANGED <<accepted, headerScheme, retried, hotTopics, lunarPolls, healthMsg, bias>>

Rotated ==
    CASE headerScheme = "bearer" -> "x-api-key"
      [] headerScheme = "x-api-key" -> "lc-api-key"
      [] headerScheme = "lc-api-key" -> "bearer"

\* Bug: no second round with the next scheme.
Refused_NoSecondRound ==
    /\ pollAt # "idle" /\ headerScheme # accepted
    /\ headerScheme' = IF headerScheme = "bearer" THEN "x-api-key" ELSE "bearer"
    /\ healthMsg' = "unauthorized" /\ pollAt' = "idle"
    /\ UNCHANGED <<accepted, retried, hotTopics, hotHandles, lastFullPoll, lunarPolls, bias>>

\* 401 or 403: the next scheme and a second round; when that is refused too, the flip
\* at the end of the poll.
Refused ==
    /\ pollAt # "idle" /\ headerScheme # accepted
    /\ IF retried
       THEN /\ headerScheme' = IF headerScheme = "bearer" THEN "x-api-key" ELSE "bearer"
            /\ healthMsg' = "unauthorized" /\ pollAt' = "idle" /\ UNCHANGED retried
       ELSE /\ headerScheme' = Rotated
            /\ retried' = TRUE /\ pollAt' = "topics" /\ UNCHANGED healthMsg
    /\ UNCHANGED <<accepted, hotTopics, hotHandles, lastFullPoll, lunarPolls, bias>>

\* Any other error ends the poll.
LunarPollFails ==
    /\ pollAt # "idle"
    /\ pollAt' = "idle"
    /\ UNCHANGED <<accepted, headerScheme, retried, hotTopics, hotHandles, lastFullPoll,
                   lunarPolls, healthMsg, bias>>

-----------------------------------------------------------------------------
(* What processSocial adds to a score *)

AtMost(a, b) == IF a < b THEN a ELSE b
AtLeast(a, b) == IF a < b THEN b ELSE a

Biased(base, topic, influencer) ==
    LET add == AtMost((IF topic THEN TopicBoost ELSE 0)
                        + (IF influencer THEN InfluencerBoost ELSE 0), MaxBoost)
    IN IF base < OpenThreshold /\ base + add >= OpenThreshold
       THEN AtLeast(base, AtMost(OpenThreshold - 1, base + MaxBoost))
       ELSE base + add

\* A post whose topic or author may be on a list that has been filled.
ScorePost(base) ==
    \E topic \in {FALSE, hotTopics > 0}, influencer \in {FALSE, hotHandles > 0} :
        /\ bias' = [base |-> base, boosted |-> Biased(base, topic, influencer)]
        /\ UNCHANGED <<accepted, headerScheme, pollAt, retried, hotTopics, hotHandles,
                       lastFullPoll, lunarPolls, healthMsg>>

OverlayNext ==
    \/ BeginLunarPoll \/ TopicsArrive \/ InfluencersArrive \/ Refused \/ LunarPollFails
    \/ \E base \in 0..OpenThreshold + 1 : ScorePost(base)

OverlaySpec == OverlayInit /\ [][OverlayNext]_overlayVars

-----------------------------------------------------------------------------
(* Properties *)

\* A poll finds the scheme the server accepts, whatever else failed in the rounds before,
\* unless it is the third one: the flip at the end of a poll goes back to the first.
SchemeIsFound == healthMsg = "unauthorized" => accepted = "lc-api-key"

\* A poll that fails between its two lists leaves the topics ahead of the influencers,
\* never behind, and the time of the last poll is that of both.
ListsMoveTogether == lastFullPoll = hotHandles /\ hotHandles <= hotTopics

\* The bias alone opens no window, and never lowers a score.
BiasOpensNothing ==
    /\ bias.base < OpenThreshold => bias.boosted < OpenThreshold
    /\ bias.boosted >= bias.base

OverlaySound == SchemeIsFound /\ ListsMoveTogether /\ BiasOpensNothing
=============================================================================
