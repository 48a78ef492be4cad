---------------------------- MODULE SafetyEngine ----------------------------
(***************************************************************************)
(* The safety engine, for one mint: each candidate that comes in is        *)
(* evaluated against the chain, one awaited check after another, and the   *)
(* verdict is kept for 30 s and given to the mint's next candidates.       *)
(* Handlers overlap and nobody waits for an evaluation that is under way.  *)
(* The fast-entry path makes the same checks with thresholds of its own.   *)
(* What is wrong on the chain stays wrong; whether a candidate's numbers   *)
(* and the classifier give a reason is open, and an error of the           *)
(* classifier gives none.                                                  *)
(***************************************************************************)
EXTENDS Naturals, SequencesExt

CONSTANT Candidate      \* the mint's candidates

VARIABLES
    evaluation, \* per candidate: "new", the check awaited, "done"
    reasons,    \* its reasons so far
    published,  \* "none", "safe", "blocked"
    cached,     \* the candidate whose verdict is in the cache, or NoVerdict
    row,        \* safety_ok of the mint's row: "none", "pending", "safe", "blocked"
    wrong,      \* what is wrong on the chain
    wrongThen,  \* history: what was wrong when the candidate's evaluation began
    verdictOf   \* history: whose evaluation the published verdict is from

safetyVars == <<evaluation, reasons, published, cached, row, wrong, wrongThen,
                verdictOf>>

NoVerdict == "no verdict"
ChainCheck == {"token", "lp", "holder"}
NextCheck == [token |-> "lp", lp |-> "holder", holder |-> "rug"]

SafetyInit ==
    /\ evaluation = [c \in Candidate |-> "new"]
    /\ reasons = [c \in Candidate |-> {}]
    /\ published = [c \in Candidate |-> "none"]
    /\ cached = NoVerdict /\ row = "none"
    /\ wrong = {} /\ wrongThen = [c \in Candidate |-> {}]
    /\ verdictOf = [c \in Candidate |-> NoVerdict]

TurnsWrong(k) ==
    /\ k \notin wrong
    /\ wrong' = wrong \union {k}
    /\ UNCHANGED <<evaluation, reasons, published, cached, row, wrongThen, verdictOf>>

\* onchain-discovery stores the candidate it announces as pending.
Announced(c) ==
    /\ evaluation[c] = "new" /\ row # "pending"
    /\ row' = "pending"
    /\ UNCHANGED <<evaluation, reasons, published, cached, wrong, wrongThen, verdictOf>>

\* The decorated candidate is stored and goes out.
Publish(c, by, why) ==
    LET verdict == IF why = {} THEN "safe" ELSE "blocked"
    IN  /\ published' = [published EXCEPT ![c] = verdict]
        /\ verdictOf' = [verdictOf EXCEPT ![c] = by]
        /\ row' = verdict

Begin(c) ==
    /\ evaluation[c] = "new"
    /\ IF cached = NoVerdict
       THEN /\ evaluation' = [evaluation EXCEPT ![c] = "token"]
            /\ wrongThen' = [wrongThen EXCEPT ![c] = wrong]
            /\ UNCHANGED <<published, row, verdictOf>>
       ELSE /\ evaluation' = [evaluation EXCEPT ![c] = "done"]
            /\ Publish(c, cached, reasons[cached])
            /\ UNCHANGED wrongThen
    /\ UNCHANGED <<reasons, cached, wrong>>

Checked(c) ==
    /\ evaluation[c] \in ChainCheck
    /\ reasons' = [reasons EXCEPT ![c] = @ \union ({evaluation[c]} \cap wrong)]
    /\ evaluation' = [evaluation EXCEPT ![c] = NextCheck[@]]
    /\ UNCHANGED <<published, cached, row, wrong, wrongThen, verdictOf>>

\* Bug: a check that throws counts as passed.
CheckThrows_Passes(c) ==
    /\ evaluation[c] \in ChainCheck
    /\ evaluation' = [evaluation EXCEPT ![c] = NextCheck[@]]
    /\ UNCHANGED <<reasons, published, cached, row, wrong, wrongThen, verdictOf>>

\* The node's error ends the evaluation: nothing is cached, nothing goes out.
CheckThrows(c) ==
    /\ evaluation[c] \in ChainCheck
    /\ evaluation' = [evaluation EXCEPT ![c] = "done"]
    /\ UNCHANGED <<reasons, published, cached, row, wrong, wrongThen, verdictOf>>

\* classify, and the end of the evaluation.
Classified(c) ==
    /\ evaluation[c] = "rug"
    /\ \E more \in {{}, {"numbers"}} :
        /\ reasons' = [reasons EXCEPT ![c] = @ \union more]
        /\ Publish(c, c, reasons[c] \union more)
    /\ cached' = c
    /\ evaluation' = [evaluation EXCEPT ![c] = "done"]
    /\ UNCHANGED <<wrong, wrongThen>>

VerdictExpires ==
    /\ cached # NoVerdict
    /\ cached' = NoVerdict
    /\ UNCHANGED <<evaluation, reasons, published, row, wrong, wrongThen, verdictOf>>

SafetyNext ==
    \/ VerdictExpires
    \/ \E k \in ChainCheck : TurnsWrong(k)
    \/ \E c \in Candidate :
        Announced(c) \/ Begin(c) \/ Checked(c) \/ CheckThrows(c) \/ Classified(c)

SafetySpec == SafetyInit /\ [][SafetyNext]_safetyVars

-----------------------------------------------------------------------------
\* A candidate goes out as safe only on an evaluation of the mint, its own or
\* one of a candidate before it, that began when nothing was wrong and whose
\* every chain check was made: neither a failed check, nor an evaluation that
\* overtakes another, nor the cache turns into a pass.
SafeWasVerified ==
    \A c \in Candidate : published[c] = "safe" =>
        LET e == verdictOf[c] IN
        evaluation[e] = "done" /\ wrongThen[e] = {} /\ reasons[e] = {}

-----------------------------------------------------------------------------
(***************************************************************************)
(* What the safety engine asks the chain about one mint, in the order of   *)
(* evaluateCandidate: the token's account, where its liquidity tokens are, *)
(* who holds the mint, the candidate's own numbers and the authorities.    *)
(* The liquidity check looks up one large account after the other and goes *)
(* on when a lookup fails.  Amounts are parts of the supply.  An account   *)
(* is of the kind the code can tell apart: the incinerator's address, an   *)
(* account that a locker program owns, any other.                          *)
(***************************************************************************)

CONSTANTS
    Supply,         \* of the liquidity token and of the mint
    BurnThreshold,  \* safety.lpBurnThreshold
    HolderTopCap,   \* safety.holderTopCap
    LookedAt,       \* 10, the largest accounts that count
    ManyErrors,     \* 3, failed lookups that are a reason of their own
    FlowMin,        \* gating.buysSellRatioMin
    ChainFacts      \* what can be so of a mint: see MCServices

ASSUME CheckConstants ==
    /\ {Supply, BurnThreshold, HolderTopCap, LookedAt, ManyErrors, FlowMin} \subseteq Nat
    \* lp and holders are the largest accounts of the liquidity token and of the mint,
    \* largest first; low are the other gates that fail.
    /\ \A f \in ChainFacts :
        /\ f.token \in {"missing", "legacy", "token2022"} /\ f.lpMint \in BOOLEAN
        /\ f.traits \subseteq {"mint", "freeze", "hook", "fee", "frozen"}
        /\ {f.supply, f.minted, f.buys, f.sells} \subseteq Nat
        /\ f.low \subseteq {"lp", "uniques", "age", "spread"}
        /\ {f.lp, f.holders} \subseteq
            Seq([kind : {"incinerator", "locker", "ignored", "other"}, amount : Nat])

VARIABLES
    facts,      \* of the chain and the candidate
    checkAt,    \* the check that comes next
    lookup,     \* number of accounts looked up
    errors,     \* lookupErrors
    lockerSeen, \* lockerDetected
    refusals,   \* the reasons
    unclassified \* history: RugGuard was not asked, or failed

checkVars == <<facts, checkAt, lookup, errors, lockerSeen, refusals, unclassified>>

CheckInit ==
    /\ facts \in ChainFacts
    /\ checkAt = "token" /\ lookup = 0 /\ errors = 0 /\ lockerSeen = FALSE
    /\ refusals = {} /\ unclassified = FALSE

Refuse(why, next) ==
    /\ refusals' = refusals \union why
    /\ checkAt' = next
    /\ UNCHANGED <<facts, unclassified>>

-----------------------------------------------------------------------------
(* checkTokenSafety: a legacy token has no extensions to look at. *)

TokenReasons(f) ==
    CASE f.token = "missing" -> {"mint_missing"}
      [] f.token = "legacy" -> {}
      [] f.token = "token2022" -> f.traits \ {"mint"}

CheckToken ==
    /\ checkAt = "token"
    /\ Refuse(TokenReasons(facts), "lp")
    /\ UNCHANGED <<lookup, errors, lockerSeen>>

-----------------------------------------------------------------------------
(* checkLpSafety *)

\* The incinerator is one account.
Burned(f) ==
    LET incinerators == {i \in DOMAIN f.lp : f.lp[i].kind = "incinerator"}
    IN  IF incinerators = {} THEN 0 ELSE f.lp[CHOOSE i \in incinerators : TRUE].amount
ToLookUp(f) == SubSeq(f.lp, 1, IF Len(f.lp) < LookedAt THEN Len(f.lp) ELSE LookedAt)

\* The two answers before the loop; a supply that was burned is no supply.
LpBegin ==
    /\ checkAt = "lp"
    /\ \/ ~facts.lpMint /\ Refuse({"missing_lp_mint"}, "holders")
       \/ facts.lpMint /\ facts.supply = 0 /\ Refuse({"lp_supply_zero"}, "holders")
       \/ /\ facts.lpMint /\ facts.supply > 0
          /\ Refuse({}, IF Burned(facts) >= BurnThreshold THEN "holders" ELSE "lookup")
    /\ UNCHANGED <<lookup, errors, lockerSeen>>

Looking == checkAt = "lookup" /\ lookup < Len(ToLookUp(facts))
Account == facts.lp[lookup + 1]

LookUp ==
    /\ Looking
    /\ lookup' = lookup + 1
    /\ lockerSeen' = (lockerSeen \/ Account.kind = "locker")
    /\ checkAt' = IF Account.kind = "locker" /\ Account.amount >= BurnThreshold
                  THEN "holders" ELSE checkAt
    /\ UNCHANGED <<facts, errors, refusals, unclassified>>

LookUpFails ==
    /\ Looking
    /\ lookup' = lookup + 1 /\ errors' = errors + 1
    /\ UNCHANGED <<facts, checkAt, lockerSeen, refusals, unclassified>>

LpReason ==
    CASE errors >= ManyErrors /\ ~lockerSeen -> "lp_locker_lookup_failed"
      [] lockerSeen -> "lp_locker_insufficient"
      [] OTHER -> "lp_not_burned_or_locked"

\* Bug: an account that could not be looked up is taken for a locked one.
LpEnd_FailuresPass ==
    /\ checkAt = "lookup" /\ ~Looking
    /\ Refuse(IF errors > 0 THEN {} ELSE {LpReason}, "holders")
    /\ UNCHANGED <<lookup, errors, lockerSeen>>

LpEnd ==
    /\ checkAt = "lookup" /\ ~Looking
    /\ Refuse({LpReason}, "holders")
    /\ UNCHANGED <<lookup, errors, lockerSeen>>

-----------------------------------------------------------------------------
(* checkHolderSkew, evaluateGating and the authorities of classify *)

TopTen(f) ==
    LET held == SelectSeq(f.holders, LAMBDA a : a.kind # "ignored")
        top == SubSeq(held, 1, IF Len(held) < LookedAt THEN Len(held) ELSE LookedAt)
    IN  FoldSeq(LAMBDA a, n : a.amount + n, 0, top)

CheckHolders ==
    /\ checkAt = "holders"
    /\ Refuse(CASE facts.minted = 0 -> {"holder_supply_zero"}
                [] facts.minted > 0 /\ TopTen(facts) > HolderTopCap -> {"holder_top_concentration"}
                [] OTHER -> {}, "gating")
    /\ UNCHANGED <<lookup, errors, lockerSeen>>

LowFlow(f) == f.buys < FlowMin * (IF f.sells = 0 THEN 1 ELSE f.sells)

CheckNumbers ==
    /\ checkAt = "gating"
    /\ Refuse(facts.low \union IF LowFlow(facts) THEN {"flow_ratio_low"} ELSE {},
              "authority")
    /\ UNCHANGED <<lookup, errors, lockerSeen>>

\* A mint whose account shows no authority has none, one that is not there too;
\* without an answer it counts as active.
CheckAuthority ==
    /\ checkAt = "authority"
    /\ \E answered \in BOOLEAN :
        Refuse(IF answered /\ (facts.token = "missing" \/ facts.traits \cap {"mint", "freeze"} = {})
               THEN {} ELSE {"mint_or_freeze_active"}, "done")
    /\ UNCHANGED <<lookup, errors, lockerSeen>>

\* RugGuard is switched off, or its verdict cannot be stored, which comes before its
\* reason is added.
NoVerdictStored ==
    /\ checkAt = "authority"
    /\ checkAt' = "done" /\ unclassified' = TRUE
    /\ UNCHANGED <<facts, lookup, errors, lockerSeen, refusals>>

CheckNext ==
    \/ CheckToken \/ LpBegin \/ LookUp \/ LookUpFails \/ LpEnd
    \/ CheckHolders \/ CheckNumbers \/ CheckAuthority \/ NoVerdictStored

CheckSpec == CheckInit /\ [][CheckNext]_checkVars

-----------------------------------------------------------------------------
(* Property *)

LockReasons == {"lp_locker_lookup_failed", "lp_locker_insufficient", "lp_not_burned_or_locked"}

Locked(f, accounts) == \E i \in DOMAIN accounts :
    accounts[i].kind = "locker" /\ accounts[i].amount >= BurnThreshold

\* A mint passes only when its liquidity is burned or locked in one account, nobody
\* can mint, freeze or tax it, as far as RugGuard gave a verdict, and no ten accounts
\* hold too much, and, if the gate asks for that, it is bought more often than sold,
\* whichever lookups failed; and the check of its locks refuses it although one account
\* locks enough only when a lookup failed or the account is not among those looked at.
ChecksAreRight ==
    /\ checkAt = "done" /\ refusals = {} =>
        /\ facts.lpMint /\ facts.supply > 0 /\ facts.minted > 0
        /\ Burned(facts) >= BurnThreshold \/ Locked(facts, facts.lp)
        /\ facts.token # "missing"
        /\ unclassified \/ facts.traits \cap {"mint", "freeze"} = {}
        /\ facts.token = "token2022" => facts.traits \subseteq {"mint"}
        /\ ~ (TopTen(facts) > HolderTopCap) /\ (FlowMin > 1 => facts.buys > facts.sells)
    /\ refusals \cap LockReasons # {} =>
        /\ Burned(facts) < BurnThreshold
        /\ Locked(facts, ToLookUp(facts)) => errors > 0

\* The safety engine serves as safe only what it verified since it started, and what it
\* verified is so of the chain, whichever lookups failed.
SafetyIsVerified == SafeWasVerified /\ ChecksAreRight
=============================================================================
