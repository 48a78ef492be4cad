------------------------------ MODULE AlphaGate ------------------------------
(***************************************************************************)
(* The gate by which the policy engine lets only the best scored           *)
(* candidates through.  It keeps, in alphaMap, the score each candidate    *)
(* had when it was last looked at, and drops what is older than the TTL    *)
(* when the next candidate comes.  The scores are those of the alpha       *)
(* client, which hides and deletes those that are too old; a candidate has *)
(* the best of its horizons, of which there is one here.  The handler does *)
(* all of this before its first await.                                     *)
(***************************************************************************)
EXTENDS Naturals, FiniteSets

CONSTANTS
    GateMint,
    Score,          \* the scores there are
    AlphaMin,       \* alpha.minScore
    AlphaTopK,      \* alpha.topK
    RankBoost,      \* leaderWallets.rankBoost
    EntryTtl,       \* ALPHA_ENTRY_TTL_MS
    MaxGateTime     \* bound: the clock

ASSUME GateConstants ==
    /\ Score \subseteq Nat \ {0}
    /\ {AlphaMin, AlphaTopK, RankBoost, EntryTtl, MaxGateTime} \subseteq Nat

VARIABLES
    gateTime,
    latest,     \* the client's latest score of each mint; score 0 is none
    alphaMap,   \* of each mint; score 0 is no entry
    verdict,    \* of the last candidate: its score and what became of it; history:
                \* how many others were looked at with a better one, or as good a one
    lookedAt    \* history: the score each mint was last looked at with

gateVars == <<gateTime, latest, alphaMap, verdict, lookedAt>>

NoEntry == [score |-> 0, ts |-> 0]

GateInit ==
    /\ gateTime = 1
    /\ latest = [m \in GateMint |-> NoEntry]
    /\ alphaMap = latest /\ lookedAt = latest
    /\ verdict = [score |-> 0, why |-> "none", better |-> 0, asGood |-> 0]

GateTick ==
    /\ gateTime < MaxGateTime
    /\ gateTime' = gateTime + 1
    /\ UNCHANGED <<latest, alphaMap, verdict, lookedAt>>

ScoreArrives(m, s) ==
    /\ latest' = [latest EXCEPT ![m] = [score |-> s, ts |-> gateTime]]
    /\ UNCHANGED <<gateTime, alphaMap, verdict, lookedAt>>

IsFresh(e) == e.score > 0 /\ gateTime <= e.ts + EntryTtl

\* Bug: an entry stays until its mint is looked at again.
Unexpired_All == alphaMap

Unexpired == [m \in GateMint |-> IF IsFresh(alphaMap[m]) THEN alphaMap[m] ELSE NoEntry]

Rivals(entries, m, score) ==
    {n \in GateMint \ {m} : entries[n].score > 0 /\ entries[n].score >= score}
Better(entries, m, score) == {n \in Rivals(entries, m, score) : entries[n].score > score}

\* Equal scores keep the order in which their entries came: either may be first.
WhyNot(entries, m, score) ==
    IF score < AlphaMin THEN {"alpha_below_min"}
    ELSE (IF Cardinality(Better(entries, m, score)) < AlphaTopK THEN {"passed"} ELSE {})
         \union (IF Cardinality(Rivals(entries, m, score)) >= AlphaTopK
                 THEN {"alpha_not_topk"} ELSE {})

Known(m, least) ==
    Cardinality({n \in GateMint \ {m} : IsFresh(lookedAt[n]) /\ lookedAt[n].score >= least})

\* The mint has a score that is fresh; leaders that trade in its pool raise it.
Rank(m) ==
    /\ IsFresh(latest[m])
    /\ \E applied \in BOOLEAN :
        LET entry == [latest[m] EXCEPT !.score = @ + (IF applied THEN RankBoost ELSE 0)]
            entries == [Unexpired EXCEPT ![m] = entry]
        IN  /\ alphaMap' = entries
            /\ lookedAt' = [lookedAt EXCEPT ![m] = entry]
            /\ \E w \in WhyNot(entries, m, entry.score) :
                verdict' = [score |-> entry.score, why |-> w,
                            better |-> Known(m, entry.score + 1),
                            asGood |-> Known(m, entry.score)]
    /\ UNCHANGED <<gateTime, latest>>

\* Without a score the gate is open.  getLatestScore deletes a score by the age that
\* the gate would turn a candidate away for, so alpha_stale is never met.
NoRank(m) ==
    /\ ~IsFresh(latest[m])
    /\ latest' = [latest EXCEPT ![m] = NoEntry]
    /\ alphaMap' = [Unexpired EXCEPT ![m] = NoEntry]
    /\ lookedAt' = [lookedAt EXCEPT ![m] = NoEntry]
    /\ verdict' = [score |-> 0, why |-> "passed", better |-> 0, asGood |-> 0]
    /\ UNCHANGED gateTime

GateNext ==
    \/ GateTick
    \/ \E m \in GateMint : Rank(m) \/ NoRank(m)
    \/ \E m \in GateMint, s \in Score : ScoreArrives(m, s)

GateSpec == GateInit /\ [][GateNext]_gateVars

-----------------------------------------------------------------------------
(* Property *)

\* The verdict of a candidate is about the candidates that were looked at with scores
\* that were not too old then: one that passes with a score is among the best of them,
\* and one is turned away as not the best only when enough of them are as good.
RankedAmongFresh ==
    verdict.score > 0 =>
        /\ verdict.why = "passed" => verdict.score >= AlphaMin /\ verdict.better < AlphaTopK
        /\ verdict.why = "alpha_not_topk" => verdict.asGood >= AlphaTopK
=============================================================================
