-------------------------- MODULE AdmissionProofs --------------------------
(***************************************************************************)
(* Proofs about the way of a candidate from the safety engine to the plan  *)
(* of an order, for any mints, candidates, thresholds, caps and bounds:    *)
(* SafetyEngine and PolicyAdmission with its gate, sizing and terms.       *)
(***************************************************************************)
EXTENDS SafetyEngine, PolicyAdmission, FiniteSetTheorems,
        WellFoundedInduction, TLAPS

-----------------------------------------------------------------------------
(* The verdict on a candidate *)

Passed(at) ==
    CASE at = "new" -> {} [] at = "token" -> {} [] at = "lp" -> {"token"}
      [] at = "holder" -> {"token", "lp"} [] at = "rug" -> ChainCheck
      [] at = "done" -> {}

SafetyTypes ==
    /\ evaluation \in [Candidate -> {"new", "token", "lp", "holder", "rug", "done"}]
    /\ reasons \in [Candidate -> SUBSET (ChainCheck \union {"numbers"})]
    /\ wrongThen \in [Candidate -> SUBSET ChainCheck] /\ wrong \subseteq ChainCheck
    /\ published \in [Candidate -> {"none", "safe", "blocked"}]
    /\ DOMAIN verdictOf = Candidate

\* What was wrong when the evaluation began still is, and is a reason once its
\* check is made.
ReasonsFollow ==
    \A c \in Candidate :
        /\ wrongThen[c] \subseteq wrong
        /\ wrongThen[c] \cap Passed(evaluation[c]) \subseteq reasons[c]

\* The verdict that is kept is that of an evaluation that made every check.
CacheIsComplete ==
    cached # NoVerdict =>
        /\ cached \in Candidate /\ evaluation[cached] = "done"
        /\ wrongThen[cached] \subseteq reasons[cached]

SafeIsOfCandidate ==
    \A c \in Candidate : published[c] = "safe" => verdictOf[c] \in Candidate

VerdictInv ==
    /\ SafetyTypes /\ ReasonsFollow /\ CacheIsComplete
    /\ SafeIsOfCandidate /\ SafeWasVerified

\* An evaluation that has ended keeps what it ended with.
LEMMA VerdictsStay ==
    ASSUME VerdictInv, UNCHANGED <<published, verdictOf>>, SafetyTypes',
           NEW d \in Candidate, evaluation[d] # "done",
           \A c \in Candidate \ {d} :
               /\ evaluation'[c] = evaluation[c] /\ wrongThen'[c] = wrongThen[c]
               /\ reasons'[c] = reasons[c]
    PROVE  SafeIsOfCandidate' /\ SafeWasVerified'
  BY DEF VerdictInv, SafeIsOfCandidate, SafeWasVerified

LEMMA VerdictKept ==
    ASSUME VerdictInv, [SafetyNext]_safetyVars
    PROVE  VerdictInv'
<1>. USE DEF VerdictInv
<1>1. CASE UNCHANGED safetyVars
  BY <1>1 DEF safetyVars, SafetyTypes, ReasonsFollow, CacheIsComplete, SafeIsOfCandidate,
              SafeWasVerified, Passed
<1>2. CASE VerdictExpires
  BY <1>2 DEF VerdictExpires, SafetyTypes, ReasonsFollow, CacheIsComplete,
              SafeIsOfCandidate, SafeWasVerified, Passed
<1>3. ASSUME NEW k \in ChainCheck, TurnsWrong(k) PROVE VerdictInv'
  BY <1>3 DEF TurnsWrong, SafetyTypes, ReasonsFollow, CacheIsComplete,
              SafeIsOfCandidate, SafeWasVerified, Passed
<1>4. ASSUME NEW c \in Candidate, Announced(c) PROVE VerdictInv'
  BY <1>4 DEF Announced, SafetyTypes, ReasonsFollow, CacheIsComplete,
              SafeIsOfCandidate, SafeWasVerified, Passed
<1>5. ASSUME NEW c \in Candidate, Begin(c) PROVE VerdictInv'
  <2>1. CASE cached = NoVerdict
    <3>1. SafetyTypes'
      BY <1>5, <2>1 DEF Begin, SafetyTypes
    <3>2. ReasonsFollow'
      BY <1>5, <2>1 DEF Begin, SafetyTypes, ReasonsFollow, Passed
    <3>3. CacheIsComplete'
      BY <1>5, <2>1 DEF Begin, CacheIsComplete
    <3>. QED
      BY <1>5, <2>1, <3>1, <3>2, <3>3, VerdictsStay DEF Begin, SafetyTypes
  <2>2. CASE cached # NoVerdict
    <3>1. cached \in Candidate /\ cached # c /\ evaluation[cached] = "done"
      BY <1>5, <2>2 DEF CacheIsComplete, Begin
    <3>2. /\ evaluation' = [evaluation EXCEPT ![c] = "done"]
          /\ UNCHANGED <<wrongThen, reasons, cached, wrong>>
          /\ published' = [published EXCEPT ![c] =
                              IF reasons[cached] = {} THEN "safe" ELSE "blocked"]
          /\ verdictOf' = [verdictOf EXCEPT ![c] = cached]
      BY <1>5, <2>2 DEF Begin, Publish
    <3>3. SafetyTypes'
      BY <3>2 DEF SafetyTypes
    <3>4. ReasonsFollow'
      BY <3>2 DEF SafetyTypes, ReasonsFollow, Passed
    <3>5. CacheIsComplete'
      BY <3>1, <3>2 DEF CacheIsComplete, SafetyTypes
    <3>6. SafeIsOfCandidate'
      BY <3>1, <3>2 DEF SafeIsOfCandidate, SafetyTypes
    <3>7. SafeWasVerified'
      BY <3>1, <3>2, <2>2 DEF SafeWasVerified, SafeIsOfCandidate, SafetyTypes, CacheIsComplete
    <3>. QED
      BY <3>3, <3>4, <3>5, <3>6, <3>7
  <2>. QED
    BY <2>1, <2>2
<1>6. ASSUME NEW c \in Candidate, Checked(c) PROVE VerdictInv'
  <2>1. SafetyTypes'
    BY <1>6 DEF Checked, SafetyTypes, ChainCheck, NextCheck
  <2>2. ReasonsFollow'
    BY <1>6 DEF Checked, SafetyTypes, ReasonsFollow, Passed, ChainCheck, NextCheck
  <2>3. CacheIsComplete'
    BY <1>6 DEF Checked, CacheIsComplete, SafetyTypes, ChainCheck
  <2>4. \A d \in Candidate \ {c} : evaluation'[d] = evaluation[d] /\ reasons'[d] = reasons[d]
    BY <1>6 DEF Checked, SafetyTypes
  <2>5. UNCHANGED <<published, verdictOf, wrongThen>> /\ evaluation[c] # "done"
    BY <1>6 DEF Checked, ChainCheck
  <2>. QED
    BY <2>1, <2>2, <2>3, <2>4, <2>5, VerdictsStay
<1>7. ASSUME NEW c \in Candidate, CheckThrows(c) PROVE VerdictInv'
  <2>1. SafetyTypes'
    BY <1>7 DEF CheckThrows, SafetyTypes
  <2>2. ReasonsFollow'
    BY <1>7 DEF CheckThrows, SafetyTypes, ReasonsFollow, Passed
  <2>3. CacheIsComplete'
    BY <1>7 DEF CheckThrows, CacheIsComplete, SafetyTypes, ChainCheck
  <2>4. UNCHANGED <<published, verdictOf, wrongThen, reasons>> /\ evaluation[c] # "done"
    BY <1>7 DEF CheckThrows, ChainCheck
  <2>5. \A d \in Candidate \ {c} : evaluation'[d] = evaluation[d]
    BY <1>7 DEF CheckThrows, SafetyTypes
  <2>. QED
    BY <2>1, <2>2, <2>3, <2>4, <2>5, VerdictsStay
<1>8. ASSUME NEW c \in Candidate, Classified(c) PROVE VerdictInv'
  <2>1. PICK more \in {{}, {"numbers"}} :
            /\ reasons' = [reasons EXCEPT ![c] = @ \union more]
            /\ Publish(c, c, reasons[c] \union more)
    BY <1>8 DEF Classified
  <2>2. /\ evaluation[c] = "rug" /\ evaluation' = [evaluation EXCEPT ![c] = "done"]
        /\ cached' = c /\ UNCHANGED <<wrong, wrongThen>>
    BY <1>8 DEF Classified
  <2>3. /\ published' = [published EXCEPT ![c] =
                            IF reasons[c] \union more = {} THEN "safe" ELSE "blocked"]
        /\ verdictOf' = [verdictOf EXCEPT ![c] = c]
    BY <2>1 DEF Publish
  <2>4. SafetyTypes'
    BY <2>1, <2>2, <2>3 DEF SafetyTypes
  <2>5. wrongThen[c] \subseteq reasons[c]
    BY <2>2 DEF ReasonsFollow, SafetyTypes, Passed
  <2>6. ReasonsFollow'
    BY <2>1, <2>2, <2>3 DEF ReasonsFollow, SafetyTypes, Passed
  <2>7. CacheIsComplete'
    BY <2>1, <2>2, <2>5 DEF CacheIsComplete, SafetyTypes
  <2>8. SafeIsOfCandidate'
    BY <2>3 DEF SafeIsOfCandidate, SafetyTypes
  <2>9. SafeWasVerified'
    BY <2>1, <2>2, <2>3, <2>5 DEF SafeWasVerified, SafeIsOfCandidate, SafetyTypes
  <2>. QED
    BY <2>4, <2>6, <2>7, <2>8, <2>9
<1>. QED
  BY <1>1, <1>2, <1>3, <1>4, <1>5, <1>6, <1>7, <1>8 DEF SafetyNext

LEMMA VerdictInvariant == SafetySpec => []VerdictInv
<1>1. SafetyInit => VerdictInv
  BY DEF SafetyInit, VerdictInv, SafetyTypes, ReasonsFollow, CacheIsComplete,
         SafeIsOfCandidate, SafeWasVerified, Passed
<1>. QED
  BY <1>1, VerdictKept, PTL DEF SafetySpec

-----------------------------------------------------------------------------
(* What the checks of a verdict say of the chain *)

Held(f) == Burned(f) >= BurnThreshold \/ Locked(f, f.lp)
FineToken(f) == f.token # "missing" /\ (f.token = "token2022" => f.traits \subseteq {"mint"})
EnoughBought(f) == FlowMin > 1 => f.buys > f.sells
Sound(f) == f.lpMint /\ f.supply > 0 /\ Held(f)
NotHoarded(f) == f.minted > 0 /\ ~ (TopTen(f) > HolderTopCap)

CheckTypes ==
    /\ facts \in ChainFacts /\ lockerSeen \in BOOLEAN
    /\ unclassified \in BOOLEAN /\ lookup \in Nat /\ errors \in Nat
    /\ checkAt \in {"token", "lp", "lookup", "holders", "gating", "authority", "done"}

\* Each check that has been made without a reason found what it asks for.
NoReasonNoFault ==
    refusals = {} =>
        /\ checkAt # "token" => FineToken(facts)
        /\ checkAt \in {"holders", "gating", "authority", "done"} => Sound(facts)
        /\ checkAt \in {"gating", "authority", "done"} => NotHoarded(facts)
        /\ checkAt \in {"authority", "done"} => EnoughBought(facts)
        /\ checkAt = "done" => unclassified \/ facts.traits \cap {"mint", "freeze"} = {}

\* The accounts that were looked up without an error lock too little.
LooksAtLocks ==
    /\ checkAt \in {"token", "lp"} => lookup = 0 /\ errors = 0
    /\ checkAt \in {"token", "lp", "lookup"} => refusals \cap LockReasons = {}
    /\ checkAt = "lookup" =>
        /\ facts.lpMint /\ facts.supply > 0
        /\ Burned(facts) < BurnThreshold /\ lookup <= Len(ToLookUp(facts))
        /\ errors = 0 => ~ Locked(facts, SubSeq(facts.lp, 1, lookup))

LockedButRefused ==
    refusals \cap LockReasons # {} =>
        Burned(facts) < BurnThreshold /\ (Locked(facts, ToLookUp(facts)) => errors > 0)

ChecksInv == CheckTypes /\ NoReasonNoFault /\ LooksAtLocks /\ LockedButRefused

LEMMA LpFacts ==
    ASSUME NEW f \in ChainFacts
    PROVE  /\ f.lp \in Seq([kind : {"incinerator", "locker", "ignored", "other"}, amount : Nat])
           /\ Burned(f) \in Nat
           /\ ToLookUp(f) \in Seq([kind : {"incinerator", "locker", "ignored", "other"},
                                   amount : Nat])
           /\ Len(ToLookUp(f)) <= Len(f.lp)
           /\ \A i \in 1..Len(ToLookUp(f)) : ToLookUp(f)[i] = f.lp[i]
<1>. DEFINE Account_ == [kind : {"incinerator", "locker", "ignored", "other"}, amount : Nat]
<1>1. f.lp \in Seq(Account_)
  BY CheckConstants DEF CheckConstants
<1>2. Burned(f) \in Nat
  <2>. DEFINE S == {i \in DOMAIN f.lp : f.lp[i].kind = "incinerator"}
  <2>1. CASE S = {}
    BY <2>1 DEF Burned
  <2>2. CASE S # {}
    <3>1. PICK i : i = CHOOSE j \in S : TRUE
      OBVIOUS
    <3>2. i \in S
      BY <2>2, <3>1
    <3>3. f.lp[i] \in Account_
      <4>1. i \in DOMAIN f.lp
        BY <3>2
      <4>. HIDE DEF Account_, S
      <4>. QED
        BY <1>1, <4>1
    <3>4. Burned(f) = IF S = {} THEN 0 ELSE f.lp[CHOOSE j \in S : TRUE].amount
      BY DEF Burned
    <3>. HIDE DEF S
    <3>. QED
      BY <2>2, <3>1, <3>3, <3>4
  <2>. QED
    BY <2>1, <2>2
<1>3. LookedAt \in Nat
  BY CheckConstants DEF CheckConstants
<1>. DEFINE n == IF Len(f.lp) < LookedAt THEN Len(f.lp) ELSE LookedAt
<1>4. n \in Nat /\ n <= Len(f.lp)
  BY <1>1, <1>3
<1>5. ToLookUp(f) = SubSeq(f.lp, 1, n)
  BY DEF ToLookUp
<1>6. /\ SubSeq(f.lp, 1, n) \in Seq(Account_) /\ Len(SubSeq(f.lp, 1, n)) = n
      /\ \A i \in 1..n : SubSeq(f.lp, 1, n)[i] = f.lp[i]
  <2>. HIDE DEF Account_, n
  <2>. QED
    BY <1>1, <1>4
<1>. QED
  BY <1>1, <1>2, <1>4, <1>5, <1>6

LEMMA ChecksKept ==
    ASSUME ChecksInv, [CheckNext]_checkVars
    PROVE  ChecksInv'
<1>. USE DEF ChecksInv
<1>1. CASE UNCHANGED checkVars
  BY <1>1 DEF checkVars, CheckTypes, NoReasonNoFault, LooksAtLocks, LockedButRefused
<1>2. facts \in ChainFacts /\ facts' = facts /\ unclassified' \in BOOLEAN
  BY DEF CheckNext, checkVars, CheckTypes, CheckToken, LpBegin, LookUp, LookUpFails, LpEnd,
         CheckHolders, CheckNumbers, CheckAuthority, NoVerdictStored, Refuse
<1>3. CASE CheckToken
  <2>1. /\ checkAt = "token" /\ checkAt' = "lp" /\ refusals' = refusals \union TokenReasons(facts)
        /\ UNCHANGED <<facts, unclassified, lookup, errors, lockerSeen>>
    BY <1>3 DEF CheckToken, Refuse
  <2>2. /\ facts.token \in {"missing", "legacy", "token2022"}
        /\ facts.traits \subseteq {"mint", "freeze", "hook", "fee", "frozen"}
    BY <1>2, CheckConstants DEF CheckConstants
  <2>3. /\ TokenReasons(facts) = {} => FineToken(facts)
        /\ TokenReasons(facts) \cap LockReasons = {}
    BY <2>2 DEF TokenReasons, FineToken, LockReasons
  <2>. QED
    BY <1>2, <2>1, <2>3
       DEF CheckTypes, NoReasonNoFault, LooksAtLocks, LockedButRefused
<1>4. CASE LpBegin
  <2>1. checkAt = "lp" /\ UNCHANGED <<facts, unclassified, lookup, errors, lockerSeen>>
    BY <1>4 DEF LpBegin, Refuse
  <2>2. facts.lpMint \in BOOLEAN /\ facts.supply \in Nat /\ BurnThreshold \in Nat
    BY <1>2, CheckConstants DEF CheckConstants
  <2>3. Burned(facts) \in Nat
    BY <1>2, LpFacts
  <2>4. refusals \cap LockReasons = {} /\ lookup = 0 /\ errors = 0
    BY <2>1 DEF LooksAtLocks
  <2>5. CASE ~ facts.lpMint \/ facts.supply = 0
    <3>1. /\ checkAt' = "holders"
          /\ \E r \in {"missing_lp_mint", "lp_supply_zero"} : refusals' = refusals \union {r}
      BY <1>4, <2>5, <2>2 DEF LpBegin, Refuse
    <3>. QED
      BY <1>2, <2>1, <2>4, <3>1
         DEF CheckTypes, NoReasonNoFault, LooksAtLocks, LockedButRefused, LockReasons
  <2>6. CASE facts.lpMint /\ facts.supply > 0
    <3>1. /\ checkAt' = IF Burned(facts) >= BurnThreshold THEN "holders" ELSE "lookup"
          /\ refusals' = refusals
      BY <1>4, <2>6, <2>2 DEF LpBegin, Refuse
    <3>2. CASE Burned(facts) >= BurnThreshold
      BY <1>2, <2>1, <2>4, <2>6, <3>1, <3>2
         DEF CheckTypes, NoReasonNoFault, LooksAtLocks, LockedButRefused, Sound, Held
    <3>3. CASE Burned(facts) < BurnThreshold
      <4>1. checkAt' = "lookup"
        BY <3>1, <3>3, <2>2, <2>3
      <4>2. ~ Locked(facts, SubSeq(facts.lp, 1, lookup))
        BY <1>2, <2>4, LpFacts DEF Locked
      <4>3. lookup <= Len(ToLookUp(facts))
        BY <1>2, <2>4, LpFacts
      <4>4. LooksAtLocks'
        BY <2>1, <2>4, <2>6, <3>1, <3>3, <4>1, <4>2, <4>3 DEF LooksAtLocks
      <4>. QED
        BY <1>2, <2>1, <2>4, <3>1, <4>1, <4>4
           DEF CheckTypes, NoReasonNoFault, LockedButRefused
    <3>. QED
      BY <2>2, <2>3, <3>2, <3>3
  <2>. QED
    BY <2>2, <2>5, <2>6
<1>5. CASE LookUp \/ LookUpFails
  <2>1. /\ checkAt = "lookup" /\ lookup < Len(ToLookUp(facts)) /\ lookup' = lookup + 1
        /\ UNCHANGED <<facts, refusals, unclassified>>
    BY <1>5 DEF LookUp, LookUpFails, Looking
  <2>2. lookup \in Nat /\ errors \in Nat /\ refusals \cap LockReasons = {}
    BY <2>1 DEF CheckTypes, LooksAtLocks
  <2>3. /\ lookup + 1 \in 1..Len(facts.lp) /\ facts.lp[lookup + 1].amount \in Nat
        /\ BurnThreshold \in Nat
    <3>1. Len(ToLookUp(facts)) <= Len(facts.lp) /\ Len(facts.lp) \in Nat /\ Len(ToLookUp(facts)) \in Nat
      BY <1>2, LpFacts
    <3>2. lookup + 1 \in 1..Len(facts.lp)
      BY <2>1, <2>2, <3>1
    <3>3. facts.lp[lookup + 1] \in [kind : {"incinerator", "locker", "ignored", "other"},
                                   amount : Nat]
      <4>. DEFINE Account_ == [kind : {"incinerator", "locker", "ignored", "other"}, amount : Nat]
      <4>1. facts.lp \in Seq(Account_)
        BY <1>2, LpFacts
      <4>. HIDE DEF Account_
      <4>2. facts.lp[lookup + 1] \in Account_
        BY <3>2, <4>1
      <4>. QED
        BY <4>2 DEF Account_
    <3>4. BurnThreshold \in Nat
      BY CheckConstants DEF CheckConstants
    <3>. QED
      BY <3>2, <3>3, <3>4
  <2>4. CASE LookUp /\ Account.kind = "locker" /\ Account.amount >= BurnThreshold
    <3>1. checkAt' = "holders" /\ errors' = errors /\ lockerSeen' \in BOOLEAN
      BY <2>4 DEF LookUp, CheckTypes
    <3>2. Locked(facts, facts.lp)
      BY <2>3, <2>4, <1>2, LpFacts DEF Locked, Account
    <3>3. facts.lpMint /\ facts.supply > 0
      BY <2>1 DEF LooksAtLocks
    <3>. QED
      BY <1>2, <2>1, <2>2, <3>1, <3>2, <3>3
         DEF CheckTypes, NoReasonNoFault, LooksAtLocks, LockedButRefused, Sound, Held
  <2>5. CASE LookUpFails \/ ~ (Account.kind = "locker" /\ Account.amount >= BurnThreshold)
    <3>1. checkAt' = checkAt /\ lockerSeen' \in BOOLEAN /\ errors' \in {errors, errors + 1}
      BY <1>5, <2>5 DEF LookUp, LookUpFails, CheckTypes
    <3>2. lookup + 1 <= Len(ToLookUp(facts))
      BY <2>1, <2>2, <1>2, LpFacts
    <3>3. ASSUME errors' = 0 PROVE ~ Locked(facts, SubSeq(facts.lp, 1, lookup + 1))
      <4>1. errors = 0 /\ ~ LookUpFails
        BY <2>2, <3>1, <3>3 DEF LookUpFails
      <4>2. ~ Locked(facts, SubSeq(facts.lp, 1, lookup))
        BY <2>1, <4>1 DEF LooksAtLocks
      <4>3. ~ (facts.lp[lookup + 1].kind = "locker" /\ facts.lp[lookup + 1].amount >= BurnThreshold)
        BY <2>5, <4>1 DEF Account
      <4>4. facts.lp \in Seq([kind : {"incinerator", "locker", "ignored", "other"}, amount : Nat])
        BY <1>2, LpFacts
      <4>5. \A i \in 1..(lookup + 1) : SubSeq(facts.lp, 1, lookup + 1)[i] = facts.lp[i]
        BY <2>2, <2>3, <4>4
      <4>6. \A i \in 1..lookup : SubSeq(facts.lp, 1, lookup)[i] = facts.lp[i]
        BY <2>2, <2>3, <4>4
      <4>7. /\ DOMAIN SubSeq(facts.lp, 1, lookup + 1) = 1..(lookup + 1)
            /\ DOMAIN SubSeq(facts.lp, 1, lookup) = 1..lookup
        BY <2>2, <2>3, <4>4
      <4>8. \A i \in 1..lookup : ~ (facts.lp[i].kind = "locker" /\ facts.lp[i].amount >= BurnThreshold)
        BY <4>2, <4>6, <4>7 DEF Locked
      <4>9. \A i \in 1..(lookup + 1) : i \in 1..lookup \/ i = lookup + 1
        BY <2>2
      <4>. QED
        BY <4>3, <4>5, <4>7, <4>8, <4>9 DEF Locked
    <3>4. Burned(facts) < BurnThreshold
      BY <2>1 DEF LooksAtLocks
    <3>5. LooksAtLocks'
      BY <2>1, <2>2, <3>1, <3>2, <3>3, <3>4 DEF LooksAtLocks
    <3>. QED
      BY <1>2, <2>1, <2>2, <3>1, <3>5
         DEF CheckTypes, NoReasonNoFault, LockedButRefused
  <2>. QED
    BY <1>5, <2>4, <2>5
<1>6. CASE LpEnd
  <2>1. /\ checkAt = "lookup" /\ checkAt' = "holders" /\ refusals' = refusals \union {LpReason}
        /\ ~ (lookup < Len(ToLookUp(facts)))
        /\ UNCHANGED <<facts, unclassified, lookup, errors, lockerSeen>>
    BY <1>6 DEF LpEnd, Looking, Refuse
  <2>2. refusals' # {}
    BY <2>1
  <2>3. lookup = Len(ToLookUp(facts))
    BY <1>2, <2>1, LpFacts DEF LooksAtLocks, CheckTypes
  <2>4. Locked(facts, ToLookUp(facts)) => errors # 0
    <3>. SUFFICES ASSUME errors = 0 PROVE ~ Locked(facts, ToLookUp(facts))
      OBVIOUS
    <3>1. ~ Locked(facts, SubSeq(facts.lp, 1, lookup))
      BY <2>1 DEF LooksAtLocks
    <3>. HIDE DEF ChecksInv
    <3>2. /\ facts.lp \in Seq([kind : {"incinerator", "locker", "ignored", "other"}, amount : Nat])
          /\ lookup \in 1..Len(facts.lp) \/ lookup = 0
      BY <1>2, <2>3, LpFacts
    <3>3. /\ DOMAIN SubSeq(facts.lp, 1, lookup) = 1..lookup
          /\ \A i \in 1..lookup : SubSeq(facts.lp, 1, lookup)[i] = facts.lp[i]
      BY <3>2
    <3>4. /\ DOMAIN ToLookUp(facts) = 1..lookup
          /\ \A i \in 1..lookup : ToLookUp(facts)[i] = facts.lp[i]
      BY <1>2, <2>3, LpFacts
    <3>. QED
      BY <3>1, <3>3, <3>4 DEF Locked
  <2>5. errors \in Nat /\ Burned(facts) < BurnThreshold
    BY <2>1 DEF CheckTypes, LooksAtLocks
  <2>6. LockedButRefused'
    BY <2>1, <2>4, <2>5 DEF LockedButRefused
  <2>. QED
    BY <1>2, <2>1, <2>2, <2>6 DEF CheckTypes, NoReasonNoFault, LooksAtLocks
<1>7. CASE CheckHolders
  <2>1. /\ checkAt = "holders" /\ checkAt' = "gating"
        /\ UNCHANGED <<facts, unclassified, lookup, errors, lockerSeen>>
    BY <1>7 DEF CheckHolders, Refuse
  <2>2. facts.minted \in Nat
    BY <1>2, CheckConstants DEF CheckConstants
  <2>3. \/ \E r \in {"holder_supply_zero", "holder_top_concentration"} :
                refusals' = refusals \union {r}
        \/ refusals' = refusals /\ NotHoarded(facts)
    <3>1. CASE facts.minted = 0
      BY <1>7, <3>1 DEF CheckHolders, Refuse
    <3>2. CASE facts.minted > 0 /\ TopTen(facts) > HolderTopCap
      BY <1>7, <3>2 DEF CheckHolders, Refuse
    <3>3. CASE facts.minted > 0 /\ ~ (TopTen(facts) > HolderTopCap)
      BY <1>7, <3>3 DEF CheckHolders, Refuse, NotHoarded
    <3>. QED
      BY <2>2, <3>1, <3>2, <3>3
  <2>. QED
    BY <1>2, <2>1, <2>3
       DEF CheckTypes, NoReasonNoFault, LooksAtLocks, LockedButRefused, LockReasons
<1>8. CASE CheckNumbers
  <2>1. /\ checkAt = "gating" /\ checkAt' = "authority"
        /\ refusals' = refusals \union (facts.low \union
                          IF LowFlow(facts) THEN {"flow_ratio_low"} ELSE {})
        /\ UNCHANGED <<facts, unclassified, lookup, errors, lockerSeen>>
    BY <1>8 DEF CheckNumbers, Refuse
  <2>2. /\ facts.low \subseteq {"lp", "uniques", "age", "spread"}
        /\ facts.buys \in Nat /\ facts.sells \in Nat /\ FlowMin \in Nat
    BY <1>2, CheckConstants DEF CheckConstants
  <2>3. ~ LowFlow(facts) => EnoughBought(facts)
    <3>. DEFINE b == facts.buys   s == facts.sells
    <3>. SUFFICES ASSUME ~ LowFlow(facts), FlowMin > 1 PROVE b > s
      BY DEF EnoughBought
    <3>1. b \in Nat /\ s \in Nat
      BY <2>2
    <3>2. ~ (b < FlowMin * (IF s = 0 THEN 1 ELSE s))
      BY DEF LowFlow
    <3>. HIDE DEF b, s
    <3>3. CASE s = 0
      BY <2>2, <3>1, <3>2, <3>3
    <3>4. CASE s # 0
      <4>1. FlowMin * s >= 2 * s
        BY <2>2, <3>1
      <4>. QED
        BY <2>2, <3>1, <3>2, <3>4, <4>1
    <3>. QED
      BY <3>3, <3>4
  <2>4. /\ refusals' = {} => refusals = {} /\ ~ LowFlow(facts)
        /\ refusals' \cap LockReasons = refusals \cap LockReasons
    BY <2>1, <2>2 DEF LockReasons
  <2>5. NoReasonNoFault'
    BY <2>1, <2>3, <2>4 DEF NoReasonNoFault
  <2>. QED
    BY <1>2, <2>1, <2>4, <2>5 DEF CheckTypes, LooksAtLocks, LockedButRefused
<1>9. CASE CheckAuthority
  <2>1. PICK answered \in BOOLEAN :
            Refuse(IF answered /\ (facts.token = "missing" \/ facts.traits \cap {"mint", "freeze"} = {})
                   THEN {} ELSE {"mint_or_freeze_active"}, "done")
    BY <1>9 DEF CheckAuthority
  <2>2. /\ checkAt = "authority" /\ checkAt' = "done"
        /\ UNCHANGED <<facts, unclassified, lookup, errors, lockerSeen>>
    BY <1>9 DEF CheckAuthority, Refuse
  <2>3. \/ /\ refusals' = refusals
           /\ facts.token = "missing" \/ facts.traits \cap {"mint", "freeze"} = {}
        \/ refusals' = refusals \union {"mint_or_freeze_active"}
    BY <2>1 DEF Refuse
  <2>4. refusals = {} => facts.token # "missing"
    BY <2>2 DEF NoReasonNoFault, FineToken
  <2>5. /\ refusals' = {} => refusals = {} /\ facts.traits \cap {"mint", "freeze"} = {}
        /\ refusals' \cap LockReasons = refusals \cap LockReasons
    BY <2>3, <2>4 DEF LockReasons
  <2>6. NoReasonNoFault'
    BY <2>2, <2>5 DEF NoReasonNoFault
  <2>. QED
    BY <1>2, <2>2, <2>5, <2>6 DEF CheckTypes, LooksAtLocks, LockedButRefused
<1>10. CASE NoVerdictStored
  BY <1>2, <1>10
     DEF NoVerdictStored, CheckTypes, NoReasonNoFault, LooksAtLocks, LockedButRefused
<1>. QED
  BY <1>1, <1>3, <1>4, <1>5, <1>6, <1>7, <1>8, <1>9, <1>10 DEF CheckNext

LEMMA ChecksInvariant == CheckSpec => []ChecksInv
<1>1. CheckInit => ChecksInv
  <2>. SUFFICES ASSUME CheckInit PROVE ChecksInv
    OBVIOUS
  <2>1. CheckTypes /\ NoReasonNoFault
    BY DEF CheckInit, CheckTypes, NoReasonNoFault
  <2>2. LooksAtLocks /\ LockedButRefused
    BY DEF CheckInit, LooksAtLocks, LockedButRefused
  <2>. QED
    BY <2>1, <2>2 DEF ChecksInv
<1>. QED
  BY <1>1, ChecksKept, PTL DEF CheckSpec

\* A candidate goes out as safe only on an evaluation that made every check when nothing
\* was wrong, however evaluations overlap and expire, and an evaluation without a reason
\* found a mint whose liquidity is burned or locked, that nobody can mint, freeze or tax
\* and that is not hoarded, whichever lookups failed.
THEOREM OnlyVerifiedIsSafe == SafetySpec /\ CheckSpec => []SafetyIsVerified
<1>1. VerdictInv => SafeWasVerified
  BY DEF VerdictInv
<1>2. ChecksInv => ChecksAreRight
  BY DEF ChecksInv, NoReasonNoFault, LockedButRefused, ChecksAreRight, FineToken, Sound,
         Held, NotHoarded, EnoughBought
<1>3. VerdictInv /\ ChecksInv => SafetyIsVerified
  BY <1>1, <1>2 DEF SafetyIsVerified
<1>. QED
  BY <1>3, VerdictInvariant, ChecksInvariant, PTL

-----------------------------------------------------------------------------
(* The caps *)

Snapshots == [equity : Nat, used : Nat, open : Nat, known : SUBSET Buyable]

AdmissionTypes ==
    /\ stage \in [Buyable -> {"new", "reading", "sizing", "sized", "done"}]
    /\ basis \in [Buyable -> Snapshots] /\ snapshot \in Snapshots
    /\ size \in [Buyable -> Nat]
    /\ fresh \in BOOLEAN /\ raced \in BOOLEAN
    /\ balance \in Nat /\ spent \in Nat /\ bought \in Nat
    /\ order \in [Buyable -> {"none", "sent", "filled", "failed"}]
    /\ position \in [Buyable -> {"none", "open", "closed"}]

\* The order has ended and, if it brought a position, the position manager has heard.
Heard(c) == order[c] = "failed" \/ (order[c] = "filled" /\ position[c] # "none")

\* A plan that still can change what a snapshot shows.
Pending == {c \in Buyable : order[c] = "sent" \/ (order[c] = "filled" /\ position[c] = "none")}

\* A snapshot that knows every plan that was emitted is no better than what it shows.
Shows(s) ==
    /\ \A c \in s.known : Heard(c)
    /\ Emitted \subseteq s.known =>
        /\ s.equity <= balance /\ spent <= s.used
        /\ Cardinality(OpenPositions) <= s.open

\* The balance is read before the rest.
ShowsBalance(s) ==
    /\ s.known \subseteq Settled
    /\ Emitted \subseteq s.known => s.equity <= balance

SnapshotsShow ==
    /\ fresh => Shows(snapshot)
    /\ \A c \in Buyable :
        /\ stage[c] # "done" => order[c] = "none"
        /\ stage[c] = "reading" => ShowsBalance(basis[c])
        /\ stage[c] \in {"sizing", "sized"} => Shows(basis[c])
        /\ stage[c] = "sized" => size[c] \in SizeLimit(basis[c])

\* One plan at a time, for which there is room under every cap.
OneFits ==
    ~ raced =>
        /\ \A c, d \in Pending : c = d
        /\ \A c \in Buyable : order[c] = "sent" =>
            /\ Reserves + size[c] <= balance /\ spent + size[c] <= DailyCap
            /\ bought + 1 <= MaxDailyNew
        /\ balance >= Reserves /\ spent <= DailyCap /\ bought <= MaxDailyNew
        /\ Cardinality(OpenPositions \union Pending) <= MaxOpen
        /\ Constrained \/ Cardinality(OpenPositions \union Pending) <= ConcurrencyCap

CapsInv == AdmissionTypes /\ SnapshotsShow /\ OneFits

LEMMA CountFacts ==
    /\ IsFiniteSet(OpenPositions) /\ IsFiniteSet(Pending)
    /\ Cardinality(OpenPositions) \in Nat
    /\ IsFiniteSet(OpenPositions \union Pending)
    /\ Cardinality(OpenPositions \union Pending) \in Nat
    /\ Cardinality(OpenPositions) <= Cardinality(OpenPositions \union Pending)
<1>1. IsFiniteSet(Buyable)
  BY AdmissionConstants DEF AdmissionConstants
<1>2. IsFiniteSet(OpenPositions \union Pending)
  BY <1>1, FS_Subset DEF OpenPositions, Pending
<1>. QED
  BY <1>2, FS_Subset, FS_CardinalityType

\* What Shows says of a snapshot is kept when nothing known is undone and nothing is
\* spent or opened.
LEMMA ShowsOn ==
    ASSUME AdmissionTypes, AdmissionTypes', NEW s \in Snapshots, Shows(s),
           Emitted' = Emitted,
           \A c \in Buyable : Heard(c) => Heard(c)',
           Emitted \subseteq s.known =>
               /\ balance <= balance' /\ spent' <= spent /\ OpenPositions' \subseteq OpenPositions
    PROVE  Shows(s)'
<1>1. \A c \in s.known : Heard(c)'
  BY DEF Shows, Snapshots
<1>2. ASSUME Emitted' \subseteq s.known
      PROVE  /\ s.equity <= balance' /\ spent' <= s.used
             /\ Cardinality(OpenPositions') <= s.open
  <2>1. s.equity <= balance /\ spent <= s.used /\ Cardinality(OpenPositions) <= s.open
    BY <1>2 DEF Shows
  <2>2. balance <= balance' /\ spent' <= spent /\ OpenPositions' \subseteq OpenPositions
    BY <1>2
  <2>3. Cardinality(OpenPositions') <= Cardinality(OpenPositions)
    BY <2>2, CountFacts, FS_Subset
  <2>4. Cardinality(OpenPositions') \in Nat /\ Cardinality(OpenPositions) \in Nat
    BY <2>2, CountFacts, FS_Subset, FS_CardinalityType
  <2>5. s.equity \in Nat /\ s.used \in Nat /\ s.open \in Nat
    BY DEF Snapshots
  <2>6. s.equity <= balance'
    BY <2>1, <2>2, <2>5 DEF AdmissionTypes
  <2>7. spent' <= s.used
    BY <2>1, <2>2, <2>5 DEF AdmissionTypes
  <2>8. Cardinality(OpenPositions') <= s.open
    BY <2>1, <2>3, <2>4, <2>5
  <2>. QED
    BY <2>6, <2>7, <2>8
<1>. QED
  BY <1>1, <1>2 DEF Shows

\* The handlers' own steps leave the world as it is.
LEMMA HandlerKeepsFit ==
    ASSUME AdmissionTypes, OneFits,
           UNCHANGED <<balance, order, spent, bought, position, raced>>,
           \A c \in Buyable : order[c] = "sent" => size'[c] = size[c]
    PROVE  OneFits'
<1>1. Pending' = Pending /\ OpenPositions' = OpenPositions
  BY DEF Pending, OpenPositions
<1>. QED
  BY <1>1 DEF OneFits

LEMMA HandlerKeepsShown ==
    ASSUME AdmissionTypes, UNCHANGED <<balance, order, spent, position>>, NEW s \in Snapshots
    PROVE  (Shows(s) => Shows(s)') /\ (ShowsBalance(s) => ShowsBalance(s)')
<1>1. Emitted' = Emitted /\ OpenPositions' = OpenPositions /\ Settled' = Settled
  BY DEF Emitted, OpenPositions, Settled
<1>. QED
  BY <1>1 DEF Shows, ShowsBalance, Heard

\* The steps of the others leave the handlers as they are.
LEMMA WorldKeepsShown ==
    ASSUME AdmissionTypes, SnapshotsShow,
           UNCHANGED <<stage, basis, size, snapshot, fresh>>,
           \A c \in Buyable : order[c] = "none" => order'[c] = "none",
           \A s \in Snapshots : Shows(s) => Shows(s)',
           \A s \in Snapshots : ShowsBalance(s) => ShowsBalance(s)'
    PROVE  SnapshotsShow'
<1>1. fresh' => Shows(snapshot)'
  <2>. PICK z \in Snapshots : z = snapshot
    BY DEF AdmissionTypes
  <2>1. fresh => Shows(z)'
    BY DEF SnapshotsShow
  <2>. QED
    BY <2>1
<1>2. ASSUME NEW c \in Buyable
      PROVE  /\ stage'[c] # "done" => order'[c] = "none"
             /\ stage'[c] = "reading" => ShowsBalance(basis[c])'
             /\ stage'[c] \in {"sizing", "sized"} => Shows(basis[c])'
             /\ stage'[c] = "sized" => size'[c] \in SizeLimit(basis'[c])
  <2>. PICK z \in Snapshots : z = basis[c]
    BY DEF AdmissionTypes
  <2>1. /\ stage[c] = "reading" => ShowsBalance(z)'
        /\ stage[c] \in {"sizing", "sized"} => Shows(z)'
    BY DEF SnapshotsShow
  <2>2. basis'[c] = z
    OBVIOUS
  <2>3. /\ stage'[c] # "done" => order'[c] = "none"
        /\ stage'[c] = "sized" => size'[c] \in SizeLimit(basis'[c])
    BY DEF SnapshotsShow
  <2>. QED
    BY <2>1, <2>2, <2>3
<1>. QED
  BY <1>1, <1>2 DEF SnapshotsShow

LEMMA HandlerSteps ==
    ASSUME CapsInv, NEW c \in Buyable,
           \/ Rejected(c) \/ TakeSnapshot(c) \/ ReadBalance(c) \/ Refresh(c) \/ Sized(c)
    PROVE  CapsInv'
<1>. USE DEF CapsInv
<1>1. UNCHANGED <<balance, order, spent, bought, position, raced>>
  BY DEF Rejected, TakeSnapshot, ReadBalance, Refresh, Sized
<1>2. stage[c] # "done" /\ order[c] = "none"
  BY DEF Rejected, TakeSnapshot, ReadBalance, Refresh, Sized, SnapshotsShow
<1>3. \A d \in Buyable \ {c} :
          stage'[d] = stage[d] /\ basis'[d] = basis[d] /\ size'[d] = size[d]
  BY DEF Rejected, TakeSnapshot, ReadBalance, Refresh, Sized, At, WithSnapshot, AdmissionTypes
<1>4. OneFits'
  BY <1>1, <1>2, <1>3, HandlerKeepsFit
\* It is left to show what the handler itself works on, and the snapshot.
<1>5. ASSUME AdmissionTypes', fresh' => Shows(snapshot)',
             stage'[c] = "reading" => ShowsBalance(basis[c])',
             stage'[c] \in {"sizing", "sized"} => Shows(basis[c])',
             stage'[c] = "sized" => size'[c] \in SizeLimit(basis'[c])
      PROVE  CapsInv'
  <2>1. ASSUME NEW d \in Buyable, d # c
        PROVE  /\ stage'[d] # "done" => order'[d] = "none"
               /\ stage'[d] = "reading" => ShowsBalance(basis[d])'
               /\ stage'[d] \in {"sizing", "sized"} => Shows(basis[d])'
               /\ stage'[d] = "sized" => size'[d] \in SizeLimit(basis'[d])
    <3>. PICK z \in Snapshots : z = basis[d]
      BY DEF AdmissionTypes
    <3>1. /\ stage[d] = "reading" => ShowsBalance(z)'
          /\ stage[d] \in {"sizing", "sized"} => Shows(z)'
      BY <1>1, HandlerKeepsShown DEF SnapshotsShow
    <3>2. basis'[d] = z /\ stage'[d] = stage[d] /\ size'[d] = size[d]
      BY <1>3, <2>1
    <3>3. /\ stage'[d] # "done" => order'[d] = "none"
          /\ stage'[d] = "sized" => size'[d] \in SizeLimit(basis'[d])
      BY <1>1, <3>2 DEF SnapshotsShow
    <3>. QED
      BY <3>1, <3>2, <3>3
  <2>2. order'[c] = "none"
    BY <1>1, <1>2
  <2>. QED
    BY <1>4, <1>5, <2>1, <2>2 DEF SnapshotsShow
<1>6. fresh /\ fresh' /\ snapshot' = snapshot => Shows(snapshot)'
  <2>. PICK z \in Snapshots : z = snapshot
    BY DEF AdmissionTypes
  <2>1. fresh => Shows(z)'
    BY <1>1, HandlerKeepsShown DEF SnapshotsShow
  <2>. QED
    BY <2>1
<1>7. CASE Rejected(c)
  <2>1. AdmissionTypes' /\ stage'[c] = "done"
    BY <1>7 DEF Rejected, AdmissionTypes, At
  <2>. QED
    BY <1>5, <1>6, <1>7, <2>1 DEF Rejected, AdmissionTypes
<1>8. CASE TakeSnapshot(c)
  <2>1. /\ AdmissionTypes' /\ stage'[c] \in {"sizing", "done"} /\ basis'[c] = snapshot
        /\ fresh /\ snapshot' = snapshot
    BY <1>8 DEF TakeSnapshot, WithSnapshot, AdmissionTypes, At
  <2>2. Shows(basis[c])'
    <3>. PICK z \in Snapshots : z = snapshot
      BY DEF AdmissionTypes
    <3>1. Shows(z)'
      BY <1>1, <2>1, HandlerKeepsShown DEF SnapshotsShow
    <3>. QED
      BY <2>1, <3>1
  <2>. QED
    BY <1>5, <1>6, <2>1, <2>2
<1>9. CASE ReadBalance(c)
  <2>1. /\ AdmissionTypes' /\ stage'[c] = "reading" /\ fresh' = FALSE
        /\ basis'[c] = [equity |-> balance, used |-> 0, open |-> 0, known |-> Settled]
    BY <1>9 DEF ReadBalance, AdmissionTypes, At, Snapshots, NoSnapshot, Settled
  <2>2. ShowsBalance(basis[c])'
    <3>. PICK z \in Snapshots :
                z = [equity |-> balance, used |-> 0, open |-> 0, known |-> Settled]
      BY DEF AdmissionTypes, Snapshots, Settled
    <3>1. ShowsBalance(z)'
      BY <1>1 DEF ShowsBalance, AdmissionTypes, Settled
    <3>. QED
      BY <2>1, <3>1
  <2>. QED
    BY <1>5, <2>1, <2>2
<1>10. CASE Refresh(c)
  <2>. DEFINE b == basis[c]
              s == [equity |-> b.equity, used |-> spent, open |-> Cardinality(OpenPositions),
                    known |-> b.known \ Unheard]
  <2>1. b \in Snapshots /\ ShowsBalance(b)
    BY <1>10 DEF AdmissionTypes, Refresh, SnapshotsShow
  <2>2. snapshot' = s
    BY <1>10, <2>1 DEF Refresh, Snapshots
  <2>3. s \in Snapshots
    BY <2>1, CountFacts DEF Snapshots, AdmissionTypes
  <2>4. /\ basis' = [basis EXCEPT ![c] = s] /\ size' = size /\ fresh' = TRUE
        /\ \E w \in {"sizing", "done"} : stage' = [stage EXCEPT ![c] = w]
    BY <1>10, <2>2 DEF Refresh, WithSnapshot, At
  <2>. HIDE DEF s
  <2>5. AdmissionTypes' /\ stage'[c] \in {"sizing", "done"}
    BY <1>1, <2>2, <2>3, <2>4 DEF AdmissionTypes
  <2>. USE DEF s
  <2>6. PICK z \in Snapshots : z = s
    BY <2>3
  <2>7. Shows(z)
    <3>1. \A d \in z.known : Heard(d)
      BY <2>1, <2>6 DEF ShowsBalance, Settled, Unheard, Heard
    <3>2. Emitted \subseteq z.known => z.equity <= balance
      BY <2>1, <2>6 DEF ShowsBalance
    <3>3. spent <= z.used /\ Cardinality(OpenPositions) <= z.open
      BY <2>6, CountFacts DEF AdmissionTypes
    <3>. QED
      BY <3>1, <3>2, <3>3 DEF Shows
  <2>8. Shows(z)'
    BY <1>1, <2>7, HandlerKeepsShown
  <2>9. basis'[c] = z /\ snapshot' = z
    BY <2>2, <2>4, <2>6 DEF AdmissionTypes
  <2>10. Shows(basis[c])' /\ Shows(snapshot)'
    BY <2>8, <2>9
  <2>. QED
    BY <1>5, <2>5, <2>10
<1>11. CASE Sized(c)
  <2>1. PICK n \in SizeLimit(basis[c]) : size' = [size EXCEPT ![c] = n]
    BY <1>11 DEF Sized
  <2>2. n \in Nat
    BY <2>1 DEF SizeLimit
  <2>3. /\ stage[c] = "sizing" /\ stage' = [stage EXCEPT ![c] = "sized"]
        /\ UNCHANGED <<basis, snapshot, fresh>>
    BY <1>11 DEF Sized, At
  <2>4. AdmissionTypes' /\ stage'[c] = "sized" /\ size'[c] \in SizeLimit(basis'[c])
    BY <1>1, <2>1, <2>2, <2>3 DEF AdmissionTypes
  <2>5. Shows(basis[c])'
    <3>. PICK z \in Snapshots : z = basis[c]
      BY DEF AdmissionTypes
    <3>1. Shows(z)'
      BY <1>1, <2>3, HandlerKeepsShown DEF SnapshotsShow
    <3>. QED
      BY <2>3, <3>1
  <2>. QED
    BY <1>5, <1>6, <2>3, <2>4, <2>5 DEF AdmissionTypes
<1>. QED
  BY <1>7, <1>8, <1>9, <1>10, <1>11

LEMMA EmitStep ==
    ASSUME CapsInv, NEW c \in Buyable, EmitPlan(c)
    PROVE  CapsInv'
<1>. USE DEF CapsInv
<1>1. /\ stage[c] = "sized" /\ order[c] = "none" /\ WithinTradingCaps
      /\ stage' = [stage EXCEPT ![c] = "done"] /\ order' = [order EXCEPT ![c] = "sent"]
      /\ raced' = (raced \/ ~ (Emitted \subseteq basis[c].known) \/ Unheard # {})
      /\ UNCHANGED <<basis, size, snapshot, fresh, balance, spent, bought, position>>
  BY DEF EmitPlan, At, SnapshotsShow
<1>2. AdmissionTypes'
  BY <1>1 DEF AdmissionTypes
<1>3. Emitted' = Emitted \union {c} /\ OpenPositions' = OpenPositions /\ Settled' = Settled
  BY <1>1 DEF Emitted, OpenPositions, Settled, AdmissionTypes
\* No snapshot knows the new plan.
<1>4. \A s \in Snapshots : (Shows(s) => Shows(s)') /\ (ShowsBalance(s) => ShowsBalance(s)')
  <2>1. \A d \in Buyable : Heard(d) => Heard(d)' /\ d # c
    BY <1>1 DEF Heard, AdmissionTypes
  <2>2. c \notin Settled
    BY <1>1 DEF Settled
  <2>. QED
    BY <1>3, <2>1, <2>2 DEF Shows, ShowsBalance, Snapshots
<1>5. SnapshotsShow'
  <2>1. fresh' => Shows(snapshot)'
    <3>. PICK z \in Snapshots : z = snapshot
      BY DEF AdmissionTypes
    <3>1. fresh => Shows(z)'
      BY <1>4 DEF SnapshotsShow
    <3>. QED
      BY <1>1, <3>1
  <2>2. ASSUME NEW d \in Buyable
        PROVE  /\ stage'[d] # "done" => order'[d] = "none"
               /\ stage'[d] = "reading" => ShowsBalance(basis[d])'
               /\ stage'[d] \in {"sizing", "sized"} => Shows(basis[d])'
               /\ stage'[d] = "sized" => size'[d] \in SizeLimit(basis'[d])
    <3>. PICK z \in Snapshots : z = basis[d]
      BY DEF AdmissionTypes
    <3>1. /\ stage[d] = "reading" => ShowsBalance(z)'
          /\ stage[d] \in {"sizing", "sized"} => Shows(z)'
      BY <1>4 DEF SnapshotsShow
    <3>2. basis'[d] = z /\ size'[d] = size[d] /\ (stage'[d] # "done" => stage'[d] = stage[d])
      BY <1>1 DEF AdmissionTypes
    <3>3. stage'[d] # "done" => order'[d] = "none"
      BY <1>1 DEF SnapshotsShow, AdmissionTypes
    <3>4. stage'[d] = "sized" => size'[d] \in SizeLimit(basis'[d])
      BY <1>1, <3>2 DEF SnapshotsShow
    <3>. QED
      BY <3>1, <3>2, <3>3, <3>4
  <2>. QED
    BY <2>1, <2>2 DEF SnapshotsShow
<1>6. OneFits'
  <2>. SUFFICES ASSUME ~ raced' PROVE OneFits'
    BY DEF OneFits
  <2>. DEFINE b == basis[c]   n == size[c]
  <2>1. ~ raced /\ Emitted \subseteq b.known /\ Unheard = {}
    BY <1>1
  <2>2. Shows(b) /\ n \in SizeLimit(b) /\ b \in Snapshots /\ n \in Nat
    BY <1>1 DEF SnapshotsShow, AdmissionTypes
  <2>3. Pending = {}
    BY <2>1, <2>2 DEF Shows, Heard, Pending, Emitted, AdmissionTypes
  <2>4. Pending' = {c}
    BY <1>1, <2>3 DEF Pending, AdmissionTypes
  <2>5. \A d \in Buyable : order[d] # "sent"
    BY <2>3 DEF Pending
  <2>6. /\ b.equity <= balance /\ spent <= b.used
        /\ Cardinality(OpenPositions) <= b.open
    BY <2>1, <2>2 DEF Shows
  <2>7. /\ b.equity \in Nat /\ b.used \in Nat /\ b.open \in Nat /\ balance \in Nat
        /\ spent \in Nat /\ bought \in Nat /\ {Reserves, DailyCap, ConcurrencyCap, MaxOpen, MaxDailyNew, ArmSize} \subseteq Nat
    BY <2>2, AdmissionConstants DEF Snapshots, AdmissionTypes, AdmissionConstants
  <2>8. /\ n \in 1..ArmSize /\ n <= Free(b) /\ n <= SpendRemaining(b)
        /\ Constrained \/ ~ (b.open >= ConcurrencyCap)
    BY <2>2, AdmissionConstants DEF SizeLimit, AdmissionConstants
  <2>9. Reserves + n <= b.equity
    BY <2>7, <2>8 DEF Free, Less
  <2>10. b.used + n <= DailyCap
    BY <2>7, <2>8 DEF SpendRemaining, Less
  <2>11. Reserves + n <= balance /\ spent + n <= DailyCap
    BY <2>2, <2>6, <2>7, <2>9, <2>10
  <2>12. bought + 1 <= MaxDailyNew /\ Cardinality(OpenPositions) + 1 <= MaxOpen
    BY <1>1, <2>7, CountFacts DEF WithinTradingCaps
  <2>13. Constrained \/ Cardinality(OpenPositions) + 1 <= ConcurrencyCap
    <3>1. CASE Constrained
      BY <3>1
    <3>2. CASE ~ (b.open >= ConcurrencyCap)
      BY <2>6, <2>7, <3>2, CountFacts
    <3>. QED
      BY <2>8, <3>1, <3>2
  <2>14. /\ Cardinality(OpenPositions \union {c}) \in Nat
         /\ Cardinality(OpenPositions \union {c}) <= Cardinality(OpenPositions) + 1
    <3>1. IsFiniteSet(OpenPositions) /\ Cardinality(OpenPositions) \in Nat
      BY CountFacts
    <3>2. Cardinality(OpenPositions \union {c}) =
            IF c \in OpenPositions THEN Cardinality(OpenPositions)
            ELSE Cardinality(OpenPositions) + 1
      BY <3>1, FS_AddElement
    <3>. QED
      BY <3>1, <3>2
  <2>15. OpenPositions' \union Pending' = OpenPositions \union {c}
    BY <1>3, <2>4
  <2>. HIDE DEF b, n
  <2>16. Cardinality(OpenPositions' \union Pending') <= MaxOpen
    <3>1. MaxOpen \in Nat /\ Cardinality(OpenPositions) \in Nat
      BY <2>7, CountFacts
    <3>2. Cardinality(OpenPositions \union {c}) <= MaxOpen
      BY <2>12, <2>14, <3>1
    <3>. QED
      BY <2>15, <3>2
  <2>17. Constrained \/ Cardinality(OpenPositions' \union Pending') <= ConcurrencyCap
    <3>1. CASE Constrained
      BY <3>1
    <3>2. CASE Cardinality(OpenPositions) + 1 <= ConcurrencyCap
      <4>1. ConcurrencyCap \in Nat /\ Cardinality(OpenPositions) \in Nat
        BY <2>7, CountFacts
      <4>2. Cardinality(OpenPositions \union {c}) <= ConcurrencyCap
        BY <2>14, <3>2, <4>1
      <4>. QED
        BY <2>15, <4>2
    <3>. QED
      BY <2>13, <3>1, <3>2
  <2>. USE DEF b, n
  <2>18. \A d \in Buyable : order'[d] = "sent" => d = c
    BY <1>1, <2>5 DEF AdmissionTypes
  <2>19. \A d \in Buyable : order'[d] = "sent" =>
            /\ Reserves + size'[d] <= balance' /\ spent' + size'[d] <= DailyCap
            /\ bought' + 1 <= MaxDailyNew
    BY <1>1, <2>11, <2>12, <2>18
  <2>20. balance' >= Reserves /\ spent' <= DailyCap /\ bought' <= MaxDailyNew
    BY <1>1, <2>1 DEF OneFits
  <2>. QED
    BY <2>4, <2>16, <2>17, <2>19, <2>20 DEF OneFits
<1>. QED
  BY <1>2, <1>5, <1>6

LEMMA WorldSteps ==
    ASSUME CapsInv, NEW c \in Buyable,
           \/ Fill(c) \/ NoFill(c) \/ PositionOpens(c) \/ PositionCloses(c)
    PROVE  CapsInv'
<1>. USE DEF CapsInv
<1>1. UNCHANGED <<stage, basis, size, snapshot, fresh, raced>>
  BY DEF Fill, NoFill, PositionOpens, PositionCloses
<1>2. \A d \in Buyable : order[d] = "none" => order'[d] = "none"
  BY DEF Fill, NoFill, PositionOpens, PositionCloses, AdmissionTypes
<1>3. size[c] \in Nat /\ size \in [Buyable -> Nat]
  BY DEF AdmissionTypes
<1>4. /\ IsFiniteSet(OpenPositions \union Pending)
      /\ Cardinality(OpenPositions \union Pending) \in Nat
  BY CountFacts
<1>5. MaxOpen \in Nat /\ ConcurrencyCap \in Nat /\ MaxDailyNew \in Nat /\ Reserves \in Nat /\ DailyCap \in Nat
  BY AdmissionConstants DEF AdmissionConstants
<1>6. CASE Fill(c)
  <2>1. /\ order[c] = "sent" /\ order' = [order EXCEPT ![c] = "filled"]
        /\ balance' = Less(balance, size[c]) /\ spent' = spent + size[c]
        /\ bought' = bought + 1 /\ position' = position
    BY <1>6 DEF Fill
  <2>2. AdmissionTypes'
    BY <1>1, <1>3, <2>1 DEF AdmissionTypes, Less
  <2>3. Emitted' = Emitted /\ OpenPositions' = OpenPositions /\ c \in Emitted
    BY <2>1 DEF Emitted, OpenPositions, AdmissionTypes
  <2>4. \A d \in Buyable : Heard(d) => Heard(d)' /\ d # c
    BY <2>1 DEF Heard, AdmissionTypes
  <2>5. Settled \subseteq Settled' /\ c \notin Settled
    BY <2>1 DEF Settled, AdmissionTypes
  <2>6. \A s \in Snapshots : (Shows(s) => Shows(s)') /\ (ShowsBalance(s) => ShowsBalance(s)')
    BY <2>3, <2>4, <2>5 DEF Shows, ShowsBalance, Snapshots
  <2>7. SnapshotsShow'
    BY <1>1, <1>2, <2>6, WorldKeepsShown
  <2>8. OneFits'
    <3>. SUFFICES ASSUME ~ raced PROVE OneFits'
      BY <1>1 DEF OneFits
    <3>1. \A d \in Pending : d = c
      BY <2>1 DEF OneFits, Pending
    <3>2. Pending' \subseteq Pending
      BY <2>1 DEF Pending, AdmissionTypes
    <3>3. OpenPositions' \union Pending' \subseteq OpenPositions \union Pending
      BY <2>3, <3>2
    <3>4. Cardinality(OpenPositions' \union Pending') <= Cardinality(OpenPositions \union Pending)
      BY <1>4, <3>3, FS_Subset
    <3>5. Cardinality(OpenPositions' \union Pending') \in Nat
      BY <1>4, <3>3, FS_Subset, FS_CardinalityType
    <3>6. Cardinality(OpenPositions' \union Pending') <= MaxOpen
      BY <1>4, <1>5, <3>4, <3>5 DEF OneFits
    <3>7. Constrained \/ Cardinality(OpenPositions' \union Pending') <= ConcurrencyCap
      <4>1. CASE Constrained
        BY <4>1
      <4>2. CASE Cardinality(OpenPositions \union Pending) <= ConcurrencyCap
        BY <1>4, <1>5, <3>4, <3>5, <4>2
      <4>. QED
        BY <4>1, <4>2 DEF OneFits
    <3>8. \A d \in Buyable : order'[d] # "sent"
      <4>. SUFFICES ASSUME NEW d \in Buyable, order'[d] = "sent" PROVE FALSE
        OBVIOUS
      <4>1. d \in Pending'
        BY DEF Pending
      <4>2. d = c
        BY <3>1, <3>2, <4>1
      <4>. QED
        BY <2>1, <4>2 DEF AdmissionTypes
    <3>9. /\ Reserves + size[c] <= balance /\ spent + size[c] <= DailyCap
          /\ bought + 1 <= MaxDailyNew
      BY <2>1 DEF OneFits
    <3>10. balance' >= Reserves /\ spent' <= DailyCap /\ bought' <= MaxDailyNew
      BY <1>3, <1>5, <2>1, <3>9 DEF Less, AdmissionTypes
    <3>11. \A d, e \in Pending' : d = e
      BY <3>1, <3>2
    <3>. QED
      BY <3>6, <3>7, <3>8, <3>10, <3>11 DEF OneFits
  <2>. QED
    BY <2>2, <2>7, <2>8
<1>7. CASE NoFill(c) \/ PositionOpens(c) \/ PositionCloses(c)
  <2>1. /\ UNCHANGED <<spent, bought>> /\ balance' \in Nat /\ balance <= balance'
        /\ AdmissionTypes'
    <3>1. PositionCloses(c) => \E got \in {0, size[c]} : balance' = balance + got
      BY DEF PositionCloses
    <3>2. balance' \in Nat /\ balance <= balance'
      BY <1>3, <1>7, <3>1 DEF NoFill, PositionOpens, AdmissionTypes
    <3>. QED
      BY <1>1, <1>7, <3>2 DEF NoFill, PositionOpens, PositionCloses, AdmissionTypes
  <2>2. Emitted' = Emitted /\ Settled \subseteq Settled'
    BY <1>7 DEF Emitted, Settled, NoFill, PositionOpens, PositionCloses, AdmissionTypes
  <2>3. \A d \in Buyable : Heard(d) => Heard(d)'
    BY <1>7 DEF Heard, NoFill, PositionOpens, PositionCloses, AdmissionTypes
  <2>4. /\ Pending' \subseteq Pending
        /\ OpenPositions' \union Pending' \subseteq OpenPositions \union Pending
    BY <1>7 DEF Pending, OpenPositions, NoFill, PositionOpens, PositionCloses, AdmissionTypes
  \* A position opens of an order that no snapshot knows.
  <2>5. ASSUME NEW s \in Snapshots, Shows(s), Emitted \subseteq s.known
        PROVE  OpenPositions' \subseteq OpenPositions
    <3>1. PositionOpens(c) => FALSE
      BY <2>5 DEF PositionOpens, Shows, Heard, Emitted
    <3>. QED
      BY <1>7, <3>1 DEF OpenPositions, NoFill, PositionCloses, AdmissionTypes
  <2>6. \A s \in Snapshots : Shows(s) => Shows(s)'
    <3>. SUFFICES ASSUME NEW s \in Snapshots, Shows(s) PROVE Shows(s)'
      OBVIOUS
    <3>1. Emitted \subseteq s.known =>
            balance <= balance' /\ spent' <= spent /\ OpenPositions' \subseteq OpenPositions
      BY <2>1, <2>5 DEF AdmissionTypes
    <3>. QED
      BY <2>1, <2>2, <2>3, <3>1, ShowsOn
  <2>7. \A s \in Snapshots : ShowsBalance(s) => ShowsBalance(s)'
    <3>. SUFFICES ASSUME NEW s \in Snapshots, ShowsBalance(s) PROVE ShowsBalance(s)'
      OBVIOUS
    <3>1. s.known \subseteq Settled'
      BY <2>2 DEF ShowsBalance
    <3>2. Emitted' \subseteq s.known => s.equity <= balance'
      BY <2>1, <2>2 DEF ShowsBalance, Snapshots, AdmissionTypes
    <3>. QED
      BY <3>1, <3>2 DEF ShowsBalance
  <2>8. SnapshotsShow'
    BY <1>1, <1>2, <2>6, <2>7, WorldKeepsShown
  <2>9. OneFits'
    <3>. SUFFICES ASSUME ~ raced PROVE OneFits'
      BY <1>1 DEF OneFits
    <3>1. \A d, e \in Pending' : d = e
      BY <2>4 DEF OneFits
    <3>2. Cardinality(OpenPositions' \union Pending') <= Cardinality(OpenPositions \union Pending)
      BY <1>4, <2>4, FS_Subset
    <3>3. Cardinality(OpenPositions' \union Pending') \in Nat
      BY <1>4, <2>4, FS_Subset, FS_CardinalityType
    <3>4. Cardinality(OpenPositions' \union Pending') <= MaxOpen
      BY <1>4, <1>5, <3>2, <3>3 DEF OneFits
    <3>5. Constrained \/ Cardinality(OpenPositions' \union Pending') <= ConcurrencyCap
      <4>1. CASE Constrained
        BY <4>1
      <4>2. CASE Cardinality(OpenPositions \union Pending) <= ConcurrencyCap
        BY <1>4, <1>5, <3>2, <3>3, <4>2
      <4>. QED
        BY <4>1, <4>2 DEF OneFits
    <3>6. ASSUME NEW d \in Buyable, order'[d] = "sent"
          PROVE  /\ Reserves + size'[d] <= balance' /\ spent' + size'[d] <= DailyCap
                 /\ bought' + 1 <= MaxDailyNew
      <4>1. order[d] = "sent"
        BY <1>7, <3>6 DEF NoFill, PositionOpens, PositionCloses, AdmissionTypes
      <4>2. /\ Reserves + size[d] <= balance /\ spent + size[d] <= DailyCap
            /\ bought + 1 <= MaxDailyNew
        BY <4>1 DEF OneFits
      <4>. QED
        BY <1>1, <1>3, <1>5, <2>1, <4>2 DEF AdmissionTypes
    <3>7. balance' >= Reserves /\ spent' <= DailyCap /\ bought' <= MaxDailyNew
      BY <1>5, <2>1 DEF OneFits, AdmissionTypes
    <3>. QED
      BY <3>1, <3>4, <3>5, <3>6, <3>7 DEF OneFits
  <2>. QED
    BY <2>1, <2>8, <2>9
<1>. QED
  BY <1>6, <1>7

LEMMA CapsKept ==
    ASSUME CapsInv, [AdmissionNext]_admissionVars
    PROVE  CapsInv'
<1>. USE DEF CapsInv
<1>1. CASE UNCHANGED admissionVars
  <2>. USE <1>1 DEF admissionVars
  <2>1. AdmissionTypes'
    BY DEF AdmissionTypes
  <2>2. OneFits'
    BY HandlerKeepsFit
  <2>3. \A s \in Snapshots : (Shows(s) => Shows(s)') /\ (ShowsBalance(s) => ShowsBalance(s)')
    BY HandlerKeepsShown
  <2>4. SnapshotsShow'
    BY <2>3, WorldKeepsShown
  <2>. QED
    BY <2>1, <2>2, <2>4
<1>2. CASE SnapshotAges
  <2>1. /\ fresh' = FALSE
        /\ UNCHANGED <<stage, basis, size, snapshot, balance, order, spent, bought, position, raced>>
    BY <1>2 DEF SnapshotAges
  <2>2. AdmissionTypes' /\ OneFits'
    BY <2>1, HandlerKeepsFit DEF AdmissionTypes
  <2>3. ASSUME NEW c \in Buyable
        PROVE  /\ stage'[c] = "reading" => ShowsBalance(basis[c])'
               /\ stage'[c] \in {"sizing", "sized"} => Shows(basis[c])'
    <3>. PICK z \in Snapshots : z = basis[c]
      BY DEF AdmissionTypes
    <3>1. /\ stage[c] = "reading" => ShowsBalance(z)'
          /\ stage[c] \in {"sizing", "sized"} => Shows(z)'
      BY <2>1, HandlerKeepsShown DEF SnapshotsShow
    <3>. QED
      BY <2>1, <3>1
  <2>4. SnapshotsShow'
    BY <2>1, <2>3 DEF SnapshotsShow
  <2>. QED
    BY <2>2, <2>4
<1>3. CASE Midnight
  <2>1. /\ spent' = 0 /\ bought' = 0
        /\ UNCHANGED <<stage, basis, size, snapshot, fresh, balance, order, position, raced>>
    BY <1>3 DEF Midnight
  <2>2. AdmissionTypes'
    BY <2>1 DEF AdmissionTypes
  <2>3. /\ Emitted' = Emitted /\ OpenPositions' = OpenPositions /\ Pending' = Pending
        /\ Settled' = Settled /\ \A c \in Buyable : Heard(c) => Heard(c)'
    BY <2>1 DEF Emitted, OpenPositions, Pending, Settled, Heard
  <2>4. balance <= balance' /\ spent' <= spent
    BY <2>1 DEF AdmissionTypes
  <2>5. \A s \in Snapshots : Shows(s) => Shows(s)'
    BY <2>2, <2>3, <2>4, ShowsOn
  <2>6. \A s \in Snapshots : ShowsBalance(s) => ShowsBalance(s)'
    BY <2>1, <2>3 DEF ShowsBalance
  <2>7. SnapshotsShow'
    BY <2>1, <2>5, <2>6, WorldKeepsShown
  <2>8. OneFits'
    <3>. SUFFICES ASSUME ~ raced PROVE OneFits'
      BY <2>1 DEF OneFits
    <3>1. DailyCap \in Nat /\ MaxDailyNew \in Nat
      BY AdmissionConstants DEF AdmissionConstants
    <3>2. ASSUME NEW c \in Buyable, order'[c] = "sent"
          PROVE  /\ Reserves + size'[c] <= balance' /\ spent' + size'[c] <= DailyCap
                 /\ bought' + 1 <= MaxDailyNew
      <4>1. /\ Reserves + size[c] <= balance /\ spent + size[c] <= DailyCap
            /\ bought + 1 <= MaxDailyNew
        BY <2>1, <3>2 DEF OneFits
      <4>2. size[c] \in Nat
        BY DEF AdmissionTypes
      <4>. QED
        BY <2>1, <3>1, <4>1, <4>2 DEF AdmissionTypes
    <3>. QED
      BY <2>1, <2>3, <3>1, <3>2 DEF OneFits
  <2>. QED
    BY <2>2, <2>7, <2>8
<1>. QED
  BY <1>1, <1>2, <1>3, HandlerSteps, EmitStep, WorldSteps DEF AdmissionNext

LEMMA CapsInvariant == AdmissionSpec => []CapsInv
<1>1. AdmissionInit => CapsInv
  <2>. SUFFICES ASSUME AdmissionInit PROVE CapsInv
    OBVIOUS
  <2>. USE AdmissionConstants DEF AdmissionConstants
  <2>1. AdmissionTypes
    BY DEF AdmissionInit, AdmissionTypes, Snapshots, NoSnapshot
  <2>2. SnapshotsShow
    BY DEF AdmissionInit, SnapshotsShow
  <2>3. Pending = {} /\ OpenPositions = {}
    BY DEF AdmissionInit, Pending, OpenPositions
  <2>4. Cardinality(OpenPositions \union Pending) = 0
    BY <2>3, FS_EmptySet
  <2>5. OneFits
    BY <2>3, <2>4 DEF AdmissionInit, OneFits
  <2>. QED
    BY <2>1, <2>2, <2>5 DEF CapsInv
<1>. QED
  BY <1>1, CapsKept, PTL DEF AdmissionSpec

LEMMA CapsFollow == CapsInv => CapsHold
<1>. SUFFICES ASSUME CapsInv, ~ raced PROVE CapsHold
  BY DEF CapsHold
<1>1. MaxOpen \in Nat /\ ConcurrencyCap \in Nat
  BY AdmissionConstants DEF AdmissionConstants
<1>2. Cardinality(OpenPositions) <= MaxOpen
  BY <1>1, CountFacts DEF CapsInv, OneFits
<1>3. Constrained \/ Cardinality(OpenPositions) <= ConcurrencyCap
  <2>1. CASE Constrained
    BY <2>1
  <2>2. CASE Cardinality(OpenPositions \union Pending) <= ConcurrencyCap
    BY <1>1, <2>2, CountFacts
  <2>. QED
    BY <2>1, <2>2 DEF CapsInv, OneFits
<1>. QED
  BY <1>2, <1>3 DEF CapsHold, CapsInv, OneFits

-----------------------------------------------------------------------------
(* The gate *)

Entries == [score : Nat, ts : Nat]

GateTypes ==
    /\ gateTime \in Nat
    /\ latest \in [GateMint -> Entries] /\ alphaMap \in [GateMint -> Entries]
    /\ lookedAt \in [GateMint -> Entries]

\* The map has what each mint was last looked at with, or dropped it as too old.
MapIsLookedAt ==
    \A m \in GateMint :
        alphaMap[m] = lookedAt[m] \/ (alphaMap[m] = NoEntry /\ ~ IsFresh(lookedAt[m]))

GateInv == GateTypes /\ MapIsLookedAt /\ RankedAmongFresh

LEMMA RivalsKnown ==
    ASSUME GateInv, NEW m \in GateMint, NEW e \in Entries, e.score > 0
    PROVE  LET entries == [Unexpired EXCEPT ![m] = e] IN
           /\ Rivals(entries, m, e.score) =
                {n \in GateMint \ {m} : IsFresh(lookedAt[n]) /\ lookedAt[n].score >= e.score}
           /\ Better(entries, m, e.score) =
                {n \in GateMint \ {m} : IsFresh(lookedAt[n]) /\ lookedAt[n].score >= e.score + 1}
<1>. DEFINE entries == [Unexpired EXCEPT ![m] = e]
<1>1. ASSUME NEW n \in GateMint \ {m}
      PROVE  entries[n] = IF IsFresh(lookedAt[n]) THEN lookedAt[n] ELSE NoEntry
  <2>1. entries[n] = IF IsFresh(alphaMap[n]) THEN alphaMap[n] ELSE NoEntry
    BY DEF Unexpired
  <2>2. ~ IsFresh(NoEntry)
    BY DEF IsFresh, NoEntry
  <2>. QED
    BY <2>1, <2>2 DEF GateInv, MapIsLookedAt
<1>2. ASSUME NEW n \in GateMint \ {m}
      PROVE  /\ lookedAt[n].score \in Nat
             /\ IsFresh(lookedAt[n]) => lookedAt[n].score > 0
  BY DEF GateInv, GateTypes, Entries, IsFresh
<1>3. e.score \in Nat
  BY DEF Entries
<1>. HIDE DEF entries
<1>4. ASSUME NEW n \in GateMint \ {m}
      PROVE  /\ (entries[n].score > 0 /\ entries[n].score >= e.score) <=>
                  (IsFresh(lookedAt[n]) /\ lookedAt[n].score >= e.score)
             /\ (entries[n].score > 0 /\ entries[n].score >= e.score /\ entries[n].score > e.score)
                  <=> (IsFresh(lookedAt[n]) /\ lookedAt[n].score >= e.score + 1)
  <2>1. CASE IsFresh(lookedAt[n])
    BY <1>1, <1>2, <1>3, <2>1
  <2>2. CASE ~ IsFresh(lookedAt[n])
    <3>1. entries[n].score = 0
      BY <1>1, <2>2 DEF NoEntry
    <3>. QED
      BY <2>2, <3>1
  <2>. QED
    BY <2>1, <2>2
<1>5. Rivals(entries, m, e.score) =
        {n \in GateMint \ {m} : IsFresh(lookedAt[n]) /\ lookedAt[n].score >= e.score}
  BY <1>4 DEF Rivals
<1>6. Better(entries, m, e.score) =
        {n \in GateMint \ {m} : IsFresh(lookedAt[n]) /\ lookedAt[n].score >= e.score + 1}
  BY <1>4 DEF Rivals, Better
<1>. QED
  BY <1>5, <1>6 DEF entries

LEMMA GateKept ==
    ASSUME GateInv, [GateNext]_gateVars
    PROVE  GateInv'
<1>. USE GateConstants DEF GateInv, GateConstants
<1>1. CASE UNCHANGED gateVars
  BY <1>1 DEF gateVars, GateTypes, MapIsLookedAt, IsFresh, RankedAmongFresh
<1>2. CASE GateTick
  <2>1. GateTypes'
    BY <1>2 DEF GateTick, GateTypes
  <2>2. MapIsLookedAt'
    <3>1. ASSUME NEW m \in GateMint, ~ IsFresh(lookedAt[m]) PROVE ~ IsFresh(lookedAt[m])'
      BY <1>2, <3>1 DEF GateTick, IsFresh, GateTypes, Entries
    <3>. QED
      BY <1>2, <3>1 DEF GateTick, MapIsLookedAt
  <2>3. RankedAmongFresh'
    BY <1>2 DEF GateTick, RankedAmongFresh
  <2>. QED
    BY <2>1, <2>2, <2>3
<1>3. ASSUME NEW m \in GateMint, NEW s \in Score, ScoreArrives(m, s) PROVE GateInv'
  BY <1>3 DEF ScoreArrives, GateTypes, Entries, MapIsLookedAt, IsFresh, RankedAmongFresh
\* What is dropped is too old, here and where the mint was looked at.
<1>4. ASSUME NEW m \in GateMint, NEW e \in Entries, gateTime' = gateTime,
             alphaMap' = [Unexpired EXCEPT ![m] = e], lookedAt' = [lookedAt EXCEPT ![m] = e]
      PROVE  MapIsLookedAt' /\ alphaMap' \in [GateMint -> Entries]
                            /\ lookedAt' \in [GateMint -> Entries]
  <2>1. NoEntry \in Entries
    BY DEF NoEntry, Entries
  <2>2. Unexpired \in [GateMint -> Entries]
    BY <2>1 DEF Unexpired, GateTypes
  <2>3. ASSUME NEW n \in GateMint, n # m
        PROVE  \/ alphaMap'[n] = lookedAt'[n]
               \/ alphaMap'[n] = NoEntry /\ ~ IsFresh(lookedAt[n])'
    <3>1. alphaMap'[n] = (IF IsFresh(alphaMap[n]) THEN alphaMap[n] ELSE NoEntry)
      BY <1>4, <2>3 DEF Unexpired
    <3>2. lookedAt'[n] = lookedAt[n] /\ (IsFresh(lookedAt[n])' <=> IsFresh(lookedAt[n]))
      BY <1>4, <2>3 DEF IsFresh, GateTypes
    <3>. QED
      BY <3>1, <3>2 DEF MapIsLookedAt
  <2>4. alphaMap'[m] = lookedAt'[m]
    BY <1>4, <2>2 DEF GateTypes
  <2>. QED
    BY <1>4, <2>2, <2>3, <2>4 DEF MapIsLookedAt, GateTypes
<1>5. ASSUME NEW m \in GateMint, Rank(m) PROVE GateInv'
  <2>1. PICK applied \in BOOLEAN :
            LET entry == [latest[m] EXCEPT !.score = @ + (IF applied THEN RankBoost ELSE 0)]
                entries == [Unexpired EXCEPT ![m] = entry]
            IN  /\ alphaMap' = entries
                /\ lookedAt' = [lookedAt EXCEPT ![m] = entry]
                /\ \E w \in WhyNot(entries, m, entry.score) :
                    verdict' = [score |-> entry.score, why |-> w,
                                better |-> Known(m, entry.score + 1),
                                asGood |-> Known(m, entry.score)]
    BY <1>5 DEF Rank
  <2>. DEFINE e == [latest[m] EXCEPT !.score = @ + (IF applied THEN RankBoost ELSE 0)]
              entries == [Unexpired EXCEPT ![m] = e]
  <2>2. e \in Entries /\ e.score > 0
    BY <1>5 DEF Rank, IsFresh, GateTypes, Entries
  <2>3. PICK w \in WhyNot(entries, m, e.score) :
            verdict' = [score |-> e.score, why |-> w, better |-> Known(m, e.score + 1),
                        asGood |-> Known(m, e.score)]
    BY <2>1
  <2>4. /\ Known(m, e.score) = Cardinality(Rivals(entries, m, e.score))
        /\ Known(m, e.score + 1) = Cardinality(Better(entries, m, e.score))
    BY <2>2, RivalsKnown DEF Known
  <2>5. GateTypes' /\ MapIsLookedAt'
    BY <1>4, <1>5, <2>1, <2>2 DEF Rank, GateTypes
  <2>6. RankedAmongFresh'
    <3>. DEFINE R == Cardinality(Rivals(entries, m, e.score))
                B == Cardinality(Better(entries, m, e.score))
    <3>1. w \in IF e.score < AlphaMin THEN {"alpha_below_min"}
                ELSE (IF B < AlphaTopK THEN {"passed"} ELSE {})
                     \union (IF R >= AlphaTopK THEN {"alpha_not_topk"} ELSE {})
      BY <2>3 DEF WhyNot
    <3>2. verdict' = [score |-> e.score, why |-> w, better |-> B, asGood |-> R]
      BY <2>3, <2>4
    <3>3. e.score \in Nat
      BY <2>2 DEF Entries
    <3>. HIDE DEF R, B, e
    <3>4. w = "passed" => ~ (e.score < AlphaMin) /\ B < AlphaTopK
      BY <3>1
    <3>5. w = "alpha_not_topk" => R >= AlphaTopK
      BY <3>1
    <3>6. w = "passed" => e.score >= AlphaMin
      BY <3>3, <3>4
    <3>. QED
      BY <3>2, <3>4, <3>5, <3>6 DEF RankedAmongFresh
  <2>. QED
    BY <2>5, <2>6
<1>6. ASSUME NEW m \in GateMint, NoRank(m) PROVE GateInv'
  <2>1. NoEntry \in Entries
    BY DEF NoEntry, Entries
  <2>2. GateTypes' /\ MapIsLookedAt'
    BY <1>4, <1>6, <2>1 DEF NoRank, GateTypes
  <2>3. RankedAmongFresh'
    BY <1>6 DEF NoRank, RankedAmongFresh
  <2>. QED
    BY <2>2, <2>3
<1>. QED
  BY <1>1, <1>2, <1>3, <1>5, <1>6 DEF GateNext

LEMMA GateInvariant == GateSpec => []GateInv
<1>1. GateInit => GateInv
  BY DEF GateInit, GateInv, GateTypes, Entries, NoEntry, MapIsLookedAt, RankedAmongFresh
<1>. QED
  BY <1>1, GateKept, PTL DEF GateSpec

-----------------------------------------------------------------------------
(* Quotients *)

LEMMA Quotient ==
    ASSUME NEW a \in Nat, NEW b \in Nat, b > 0
    PROVE  a \div b \in Nat /\ b * (a \div b) <= a /\ a < b * (a \div b) + b
  OBVIOUS

LEMMA FactorOut ==
    ASSUME NEW a \in Nat, NEW b \in Nat, NEW c \in Nat, c > 0, c * a < c * b
    PROVE  a < b
  OBVIOUS

LEMMA QuotientBelow ==
    ASSUME NEW a \in Nat, NEW b \in Nat, b > 0, NEW m \in Nat, a < b * (m + 1)
    PROVE  a \div b <= m
<1>. DEFINE q == a \div b
<1>1. q \in Nat /\ b * q <= a
  BY Quotient
<1>. HIDE DEF q
<1>2. b * q < b * (m + 1)
  BY <1>1
<1>3. q < m + 1
  BY <1>1, <1>2, FactorOut
<1>. QED
  BY <1>1, <1>3 DEF q

LEMMA QuotientGrows ==
    ASSUME NEW a \in Nat, NEW c \in Nat, NEW b \in Nat, b > 0, a <= c
    PROVE  a \div b <= c \div b
<1>. DEFINE q == c \div b
<1>1. q \in Nat /\ c < b * q + b
  BY Quotient
<1>. HIDE DEF q
<1>2. a < b * (q + 1)
  BY <1>1
<1>. QED
  BY <1>1, <1>2, QuotientBelow DEF q

LEMMA HalvedFacts ==
    ASSUME NEW x \in Nat, NEW d \in Nat \ {0}
    PROVE  /\ Halved(x, d) \in Nat
           /\ \A m \in Nat : x <= d * m => Halved(x, d) <= m
           /\ \A y \in Nat : x <= y => Halved(x, d) <= Halved(y, d)
<1>1. 2 * x + d \in Nat /\ 2 * d \in Nat /\ 2 * d > 0
  OBVIOUS
<1>2. Halved(x, d) \in Nat
  BY <1>1, Quotient DEF Halved
<1>3. ASSUME NEW m \in Nat, x <= d * m PROVE Halved(x, d) <= m
  <2>1. d * m \in Nat
    OBVIOUS
  <2>2. 2 * x + d < (2 * d) * (m + 1)
    <3>1. (2 * d) * (m + 1) = 2 * (d * m) + 2 * d
      OBVIOUS
    <3>. QED
      BY <1>3, <2>1, <3>1
  <2>. QED
    BY <1>1, <2>2, QuotientBelow DEF Halved
<1>4. ASSUME NEW y \in Nat, x <= y PROVE Halved(x, d) <= Halved(y, d)
  <2>1. 2 * y + d \in Nat /\ 2 * x + d <= 2 * y + d
    BY <1>4
  <2>. QED
    BY <1>1, <2>1, QuotientGrows DEF Halved
<1>. QED
  BY <1>2, <1>3, <1>4

LEMMA FactorGrows ==
    ASSUME NEW a \in Nat, NEW b \in Nat, NEW c \in Nat, a <= b
    PROVE  a * c \in Nat /\ b * c \in Nat /\ c * a <= c * b /\ a * c <= b * c
  OBVIOUS

-----------------------------------------------------------------------------
(* The terms *)

ArmTerms == [cuPrice : Nat, slippage : Nat]

\* What an attempt at time t offers with arm i after a migration at m.
Weight(m, t) == IF m = 0 THEN 0 ELSE PresetWeight(t - m)
OfferedSlippage(i, m, t) ==
    IF Weight(m, t) = 0 THEN FeeArms[i].slippage
    ELSE Larger(FeeArms[i].slippage,
                Halved(Preset.minSlippage * Weight(m, t)
                       + FeeArms[i].slippage * (Preset.decay - Weight(m, t)), Preset.decay))
OfferedPrice(i, m, t) ==
    IF Weight(m, t) = 0 THEN FeeArms[i].cuPrice
    ELSE FeeArms[i].cuPrice + Halved(Preset.bump * Weight(m, t), Preset.decay)

LEMMA TermNumbers ==
    /\ {Preset.duration, Preset.decay, Preset.bump, Preset.minSlippage} \subseteq Nat
    /\ Preset.decay > 0
    /\ {Priority.base, Priority.floor, Priority.max, Priority.perSol} \subseteq Nat
    /\ \A i \in DOMAIN FeeArms : FeeArms[i].cuPrice \in Nat /\ FeeArms[i].slippage \in Nat
<1>1. FeeArms \in Seq(ArmTerms)
  BY TermConstants DEF TermConstants, ArmTerms
<1>2. \A i \in DOMAIN FeeArms : FeeArms[i] \in ArmTerms
  BY <1>1
<1>. QED
  BY <1>2, TermConstants DEF TermConstants, ArmTerms

LEMMA WeightFacts ==
    ASSUME NEW m \in Nat, NEW t \in Nat, m <= t
    PROVE  /\ Weight(m, t) \in Nat /\ Weight(m, t) <= Preset.decay
           /\ \A u \in Nat : t <= u => Weight(m, u) <= Weight(m, t)
  BY TermNumbers DEF Weight, PresetWeight

LEMMA OfferFacts ==
    ASSUME NEW i \in DOMAIN FeeArms, NEW m \in Nat, NEW t \in Nat, m <= t
    PROVE  /\ OfferedSlippage(i, m, t) \in Nat /\ OfferedPrice(i, m, t) \in Nat
           /\ FeeArms[i].slippage <= OfferedSlippage(i, m, t)
           /\ OfferedSlippage(i, m, t) <= Larger(FeeArms[i].slippage, Preset.minSlippage)
           /\ FeeArms[i].cuPrice <= OfferedPrice(i, m, t)
           /\ OfferedPrice(i, m, t) <= FeeArms[i].cuPrice + Preset.bump
           /\ \A u \in Nat : t <= u =>
                /\ OfferedSlippage(i, m, u) <= OfferedSlippage(i, m, t)
                /\ OfferedPrice(i, m, u) <= OfferedPrice(i, m, t)
<1>. DEFINE D == Preset.decay   s == FeeArms[i].slippage   p == FeeArms[i].cuPrice
            low == Preset.minSlippage   bump == Preset.bump
            Blend(w) == low * w + s * (D - w)
<1>1. D \in Nat \ {0} /\ s \in Nat /\ p \in Nat /\ low \in Nat /\ bump \in Nat
  BY TermNumbers
<1>. DEFINE Slip(w) == IF w = 0 THEN s ELSE Larger(s, Halved(Blend(w), D))
            Price(w) == IF w = 0 THEN p ELSE p + Halved(bump * w, D)
<1>2. \A u \in Nat : /\ OfferedSlippage(i, m, u) = Slip(Weight(m, u))
                     /\ OfferedPrice(i, m, u) = Price(Weight(m, u))
  BY DEF OfferedSlippage, OfferedPrice
<1>. HIDE DEF D, s, p, low, bump
<1>3. ASSUME NEW w \in Nat, w <= D
      PROVE  /\ Blend(w) \in Nat
             /\ s >= low => Blend(w) <= D * s
             /\ s <= low => Blend(w) <= D * low
             /\ \A v \in Nat : v <= w /\ s <= low => Blend(v) <= Blend(w)
  <2>1. D - w \in Nat /\ D = w + (D - w)
    BY <1>1, <1>3
  <2>2. /\ low * w \in Nat /\ s * (D - w) \in Nat /\ s * w \in Nat /\ low * (D - w) \in Nat
        /\ s * w + s * (D - w) = D * s /\ low * w + low * (D - w) = D * low
    BY <1>1, <2>1
  <2>3. s >= low => low * w <= s * w
    BY <1>1, FactorGrows
  <2>4. s <= low => s * (D - w) <= low * (D - w)
    BY <1>1, <2>1, FactorGrows
  <2>5. ASSUME NEW v \in Nat, v <= w, s <= low PROVE Blend(v) <= Blend(w)
    <3>1. D - v \in Nat /\ w - v \in Nat
      BY <1>1, <1>3, <2>5
    <3>2. s * (w - v) <= low * (w - v) /\ s * (w - v) \in Nat /\ low * (w - v) \in Nat
      BY <1>1, <2>5, <3>1, FactorGrows
    <3>3. /\ low * w = low * v + low * (w - v)
          /\ s * (D - v) = s * (D - w) + s * (w - v)
      BY <1>1, <2>1, <3>1
    <3>4. low * v \in Nat /\ s * (D - v) \in Nat
      BY <1>1, <3>1
    <3>. QED
      BY <2>2, <3>2, <3>3, <3>4
  <2>. QED
    BY <2>2, <2>3, <2>4, <2>5
<1>4. ASSUME NEW w \in Nat, w <= D
      PROVE  /\ Slip(w) \in Nat /\ s <= Slip(w) /\ Slip(w) <= Larger(s, low)
             /\ \A v \in Nat : v <= w => Slip(v) <= Slip(w)
  <2>. DEFINE h == Halved(Blend(w), D)
  <2>1. /\ h \in Nat
        /\ s >= low => h <= s
        /\ s <= low => h <= low
    BY <1>1, <1>3, <1>4, HalvedFacts
  <2>2. ASSUME NEW v \in Nat, v <= w PROVE Slip(v) <= Slip(w)
    <3>1. v <= D
      BY <1>1, <1>4, <2>2
    <3>2. Halved(Blend(v), D) \in Nat
      BY <1>1, <1>3, <3>1, HalvedFacts
    <3>3. s >= low => Halved(Blend(v), D) <= s
      BY <1>1, <1>3, <3>1, HalvedFacts
    <3>4. s <= low => Halved(Blend(v), D) <= h
      <4>1. Blend(v) \in Nat /\ Blend(w) \in Nat /\ (s <= low => Blend(v) <= Blend(w))
        BY <1>3, <1>4, <2>2, <3>1
      <4>. HIDE DEF Blend
      <4>. QED
        BY <1>1, <4>1, HalvedFacts
    <3>. HIDE DEF h
    <3>5. /\ Slip(v) = IF v = 0 THEN s ELSE Larger(s, Halved(Blend(v), D))
          /\ Slip(w) = IF w = 0 THEN s ELSE Larger(s, h)
      BY DEF h
    <3>. HIDE DEF Blend, Slip
    <3>. QED
      BY <1>1, <2>1, <2>2, <3>2, <3>3, <3>4, <3>5 DEF Larger
  <2>3. Slip(w) = IF w = 0 THEN s ELSE Larger(s, h)
    OBVIOUS
  <2>. HIDE DEF h
  <2>4. Slip(w) \in Nat /\ s <= Slip(w) /\ Slip(w) <= Larger(s, low)
    BY <1>1, <2>1, <2>3 DEF Larger
  <2>. QED
    BY <2>2, <2>4
<1>5. ASSUME NEW w \in Nat, w <= D
      PROVE  /\ Price(w) \in Nat /\ p <= Price(w) /\ Price(w) <= p + bump
             /\ \A v \in Nat : v <= w => Price(v) <= Price(w)
  <2>1. bump * w \in Nat /\ bump * w <= D * bump
    BY <1>1, <1>5, FactorGrows
  <2>2. Halved(bump * w, D) \in Nat /\ Halved(bump * w, D) <= bump
    BY <1>1, <2>1, HalvedFacts
  <2>3. ASSUME NEW v \in Nat, v <= w PROVE Price(v) <= Price(w)
    <3>1. bump * v \in Nat /\ bump * v <= bump * w
      BY <1>1, <2>3, FactorGrows
    <3>2. Halved(bump * v, D) \in Nat /\ Halved(bump * v, D) <= Halved(bump * w, D)
      BY <1>1, <2>1, <3>1, HalvedFacts
    <3>. QED
      BY <1>1, <2>2, <2>3, <3>2
  <2>. QED
    BY <1>1, <2>2, <2>3
<1>6. /\ Weight(m, t) \in Nat /\ Weight(m, t) <= D
      /\ \A u \in Nat : t <= u => Weight(m, u) \in Nat /\ Weight(m, u) <= Weight(m, t)
  <2>1. \A u \in Nat : t <= u => m <= u
    OBVIOUS
  <2>. QED
    BY <2>1, WeightFacts DEF D
<1>. HIDE DEF Slip, Price
<1>. QED
  BY <1>2, <1>4, <1>5, <1>6 DEF s, p, low, bump

\* The floor, before it is rounded to tenths.
LEMMA FeeFacts ==
    ASSUME NEW size_ \in Nat
    PROVE  /\ \A l \in Level : PriorityFee(l, size_) \in Nat
           /\ \A l \in Level : PriorityFee("p25", size_) <= PriorityFee(l, size_)
           /\ PriorityFee("p75", size_) <= PriorityFee("p90", size_)
<1>. DEFINE x == Priority.base + size_ * Priority.perSol
            Raw(k) == Halved(x * k, 10)
            Floored(n) == Smaller(Larger(Priority.floor, n), Larger(Priority.floor, Priority.max))
<1>1. x \in Nat /\ Priority.floor \in Nat /\ Priority.max \in Nat
  BY TermNumbers
<1>2. \A l \in Level : PriorityFee(l, size_) = Floored(Raw(CongestionMultiplier(l)))
  BY DEF PriorityFee
<1>. HIDE DEF x
<1>3. ASSUME NEW k \in Nat, NEW n \in Nat, k <= n
      PROVE  Raw(k) \in Nat /\ Raw(n) \in Nat /\ Raw(k) <= Raw(n)
  <2>1. x * k \in Nat /\ x * n \in Nat /\ x * k <= x * n
    BY <1>1, <1>3, FactorGrows
  <2>. QED
    BY <2>1, HalvedFacts
<1>4. ASSUME NEW k \in Nat, NEW n \in Nat, k <= n
      PROVE  Floored(k) \in Nat /\ Floored(k) <= Floored(n)
  BY <1>1, <1>4 DEF Smaller, Larger
<1>. HIDE DEF Raw, Floored
<1>5. \A l \in Level : CongestionMultiplier(l) \in Nat /\ 6 <= CongestionMultiplier(l)
  BY DEF Level, CongestionMultiplier
<1>6. CongestionMultiplier("p25") = 6 /\ CongestionMultiplier("p75") = 15 /\ CongestionMultiplier("p90") = 20
  BY DEF CongestionMultiplier
<1>7. {"p25", "p75", "p90"} \subseteq Level
  BY DEF Level
<1>8. ASSUME NEW l \in Level
      PROVE  PriorityFee(l, size_) \in Nat /\ PriorityFee("p25", size_) <= PriorityFee(l, size_)
  <2>1. Raw(6) \in Nat /\ Raw(CongestionMultiplier(l)) \in Nat /\ Raw(6) <= Raw(CongestionMultiplier(l))
    BY <1>3, <1>5
  <2>2. Floored(Raw(6)) <= Floored(Raw(CongestionMultiplier(l))) /\ Floored(Raw(CongestionMultiplier(l))) \in Nat
    BY <1>4, <2>1
  <2>. QED
    BY <1>2, <1>6, <1>7, <2>2
<1>9. PriorityFee("p75", size_) <= PriorityFee("p90", size_)
  <2>1. Raw(15) \in Nat /\ Raw(20) \in Nat /\ Raw(15) <= Raw(20)
    BY <1>3
  <2>2. Floored(Raw(15)) <= Floored(Raw(20))
    BY <1>4, <2>1
  <2>. QED
    BY <1>2, <1>6, <1>7, <2>2
<1>. QED
  BY <1>8, <1>9

LEMMA LeastOf ==
    ASSUME NEW T, T \subseteq Nat, T # {}
    PROVE  \E n \in T : \A k \in T : n <= k
<1>1. PICK n \in T : \A k \in T : ~ (<<k, n>> \in OpToRel(<, Nat))
  BY NatLessThanWellFounded, WFMin
<1>2. \A k \in T : ~ (k < n)
  BY <1>1 DEF OpToRel
<1>. QED
  BY <1>2

\* There is a first one among the longest arms.
LEMMA SelectedIsAnArm == SelectArm \in DOMAIN FeeArms
<1>. DEFINE Len_(i) == ArmLength(FeeArms[i])
            Most == 30000 * 30000 + 30000 * 30000
            Short == {Most - Len_(i) : i \in DOMAIN FeeArms}
<1>1. DOMAIN FeeArms \subseteq Nat /\ DOMAIN FeeArms # {}
  <2>1. FeeArms \in Seq(ArmTerms) /\ FeeArms # <<>>
    BY TermConstants DEF TermConstants, ArmTerms
  <2>2. Len(FeeArms) \in Nat /\ Len(FeeArms) # 0 /\ DOMAIN FeeArms = 1..Len(FeeArms)
    BY <2>1
  <2>. QED
    BY <2>2
<1>2. ASSUME NEW i \in DOMAIN FeeArms PROVE Len_(i) \in Nat /\ Len_(i) <= Most
  <2>. DEFINE cu == 300 * Smaller(100, FeeArms[i].cuPrice)
              slip == 100 * Smaller(300, FeeArms[i].slippage)
  <2>1. cu \in Nat /\ cu <= 30000 /\ slip \in Nat /\ slip <= 30000
    BY TermNumbers DEF Smaller
  <2>2. Len_(i) = cu * cu + slip * slip
    BY DEF ArmLength
  <2>. HIDE DEF cu, slip, Len_
  <2>3. /\ cu * cu \in Nat /\ cu * cu <= 30000 * cu /\ 30000 * cu <= 30000 * 30000
        /\ slip * slip \in Nat /\ slip * slip <= 30000 * slip /\ 30000 * slip <= 30000 * 30000
    BY <2>1, FactorGrows
  <2>. QED
    BY <2>1, <2>2, <2>3
<1>. HIDE DEF Len_
<1>3. PICK i \in DOMAIN FeeArms : \A j \in DOMAIN FeeArms : Len_(j) <= Len_(i)
  <2>1. Short \subseteq Nat /\ Short # {}
    BY <1>1, <1>2
  <2>2. PICK n \in Short : \A k \in Short : n <= k
    <3>. HIDE DEF Short
    <3>. QED
      BY <2>1, LeastOf
  <2>3. PICK i \in DOMAIN FeeArms : n = Most - Len_(i)
    OBVIOUS
  <2>4. \A j \in DOMAIN FeeArms : Most - Len_(i) <= Most - Len_(j)
    BY <2>2, <2>3
  <2>5. \A j \in DOMAIN FeeArms : Len_(j) <= Len_(i)
    BY <1>2, <2>4
  <2>. QED
    BY <2>5
<1>. DEFINE Longest == {k \in DOMAIN FeeArms : Len_(k) = Len_(i)}
<1>4. PICK k \in Longest : \A j \in Longest : k <= j
  <2>1. Longest \subseteq Nat /\ Longest # {}
    BY <1>1, <1>3
  <2>. HIDE DEF Longest
  <2>. QED
    BY <2>1, LeastOf
<1>5. ASSUME NEW j \in 1..(k - 1) PROVE Len_(j) < Len_(k)
  <2>1. j \in DOMAIN FeeArms
    BY <1>4, <1>5, TermConstants DEF TermConstants
  <2>2. j \notin Longest
    BY <1>1, <1>4, <1>5, <2>1
  <2>. QED
    BY <1>2, <1>3, <1>4, <2>1, <2>2
<1>6. \A j \in DOMAIN FeeArms : Len_(j) <= Len_(k)
  BY <1>3, <1>4
<1>. QED
  BY <1>4, <1>5, <1>6 DEF SelectArm, Len_

-----------------------------------------------------------------------------
(* Plans and attempts *)

Attempts == [attempt : 0..2, arm : Nat, cuPrice : Nat, slippage : Nat, migration : Nat,
             level : Level, size : Nat]

TermTypes ==
    /\ feeBandit \in BOOLEAN /\ termTime \in Nat /\ termTime > 0
    /\ migrated \in Nat /\ migrated <= termTime
    /\ terms \in Attempts /\ formerly \in Attempts
    /\ planTerms # NoPlan => planTerms.level \in Level

\* The first attempt is as its arm, the migration it knew and the time of some moment
\* until now made it, and the bandit's is the arm it would select again.
FirstAttempt ==
    /\ terms.attempt > 0 =>
        /\ terms.arm \in DOMAIN FeeArms /\ (migrated = 0 => terms.migration = 0)
        /\ feeBandit => terms.arm = SelectArm
    /\ terms.attempt = 1 => \E t \in terms.migration..termTime :
        /\ terms.slippage = OfferedSlippage(terms.arm, terms.migration, t)
        /\ terms.cuPrice = Larger(OfferedPrice(terms.arm, terms.migration, t),
                                  PriorityFee(terms.level, terms.size))

\* The bounds of one attempt, whichever it is.
OneAttempt ==
    terms.attempt > 0 =>
        LET a == FeeArms[terms.arm]
        IN  /\ terms.slippage \in a.slippage..Larger(a.slippage, Preset.minSlippage)
            /\ terms.cuPrice >= a.cuPrice
            /\ terms.cuPrice <=
                Larger(a.cuPrice + Preset.bump, PriorityFee(terms.level, terms.size))
            /\ migrated = 0 => terms.slippage = a.slippage
            /\ terms.attempt = 1 =>
                /\ PriorityFee("p25", terms.size) <= terms.cuPrice
                /\ terms.level = "p90" => PriorityFee("p75", terms.size) <= terms.cuPrice

NoHigherRetry ==
    terms.attempt = 2 =>
        /\ formerly.arm = terms.arm /\ formerly.migration = terms.migration =>
            terms.slippage <= formerly.slippage /\ terms.cuPrice <= formerly.cuPrice
        /\ feeBandit => formerly.arm = terms.arm

OldPool == planTerms.age >= 120 => planTerms.slippage <= 150

TermInv == TermTypes /\ FirstAttempt /\ OneAttempt /\ NoHigherRetry /\ OldPool

LEMMA AttemptMade ==
    ASSUME TermTypes, NEW n \in 1..2, NEW l \in Level, NEW z \in Nat, Attempt(n, l, z)
    PROVE  /\ terms' \in Attempts /\ terms'.attempt = n
           /\ terms'.arm \in DOMAIN FeeArms /\ (feeBandit => terms'.arm = SelectArm)
           /\ terms'.migration = migrated /\ terms'.level = l /\ terms'.size = z
           /\ terms'.slippage = OfferedSlippage(terms'.arm, migrated, termTime)
           /\ terms'.cuPrice = IF n = 1
                THEN Larger(OfferedPrice(terms'.arm, migrated, termTime), PriorityFee(l, z))
                ELSE OfferedPrice(terms'.arm, migrated, termTime)
<1>1. PICK i \in IF feeBandit THEN {SelectArm} ELSE DOMAIN FeeArms :
        terms' = [attempt |-> n, arm |-> i, slippage |-> Adjusted(FeeArms[i]).slippage,
                  migration |-> migrated, level |-> l, size |-> z,
                  cuPrice |-> IF n = 1
                              THEN Larger(Adjusted(FeeArms[i]).cuPrice, PriorityFee(l, z))
                              ELSE Adjusted(FeeArms[i]).cuPrice]
  BY DEF Attempt
<1>2. i \in DOMAIN FeeArms /\ (feeBandit => i = SelectArm)
  BY <1>1, SelectedIsAnArm
<1>3. i \in Nat
  <2>1. FeeArms \in Seq(ArmTerms)
    BY TermConstants DEF TermConstants, ArmTerms
  <2>. QED
    BY <1>2, <2>1
<1>4. /\ Adjusted(FeeArms[i]).slippage = OfferedSlippage(i, migrated, termTime)
      /\ Adjusted(FeeArms[i]).cuPrice = OfferedPrice(i, migrated, termTime)
  BY DEF Adjusted, OfferedSlippage, OfferedPrice, Weight
<1>5. /\ OfferedSlippage(i, migrated, termTime) \in Nat
      /\ OfferedPrice(i, migrated, termTime) \in Nat
  BY <1>2, OfferFacts DEF TermTypes
<1>6. PriorityFee(l, z) \in Nat
  BY FeeFacts
<1>7. terms' = [attempt |-> n, arm |-> i, slippage |-> OfferedSlippage(i, migrated, termTime),
                migration |-> migrated, level |-> l, size |-> z,
                cuPrice |-> IF n = 1
                            THEN Larger(OfferedPrice(i, migrated, termTime), PriorityFee(l, z))
                            ELSE OfferedPrice(i, migrated, termTime)]
  BY <1>1, <1>4
<1>8. terms' \in Attempts
  BY <1>3, <1>5, <1>6, <1>7 DEF Attempts, Larger, TermTypes
<1>. QED
  BY <1>2, <1>7, <1>8

LEMMA AttemptBounded ==
    ASSUME TermTypes, NEW n \in 1..2, NEW l \in Level, NEW z \in Nat, Attempt(n, l, z),
           UNCHANGED migrated
    PROVE  OneAttempt'
<1>. DEFINE i == terms'.arm
            p == OfferedPrice(i, migrated, termTime)
            s == OfferedSlippage(i, migrated, termTime)
            a == FeeArms[i]
            fee == PriorityFee(l, z)
<1>1. /\ terms'.attempt = n /\ i \in DOMAIN FeeArms
      /\ terms'.level = l /\ terms'.size = z /\ terms'.slippage = s
      /\ terms'.cuPrice = IF n = 1 THEN Larger(p, fee) ELSE p
  BY AttemptMade
<1>2. /\ s \in Nat /\ p \in Nat /\ a.slippage <= s
      /\ s <= Larger(a.slippage, Preset.minSlippage)
      /\ a.cuPrice <= p /\ p <= a.cuPrice + Preset.bump
  BY <1>1, OfferFacts DEF TermTypes
<1>3. a.slippage \in Nat /\ a.cuPrice \in Nat /\ Preset.bump \in Nat /\ Preset.minSlippage \in Nat
  BY <1>1, TermNumbers
<1>4. /\ fee \in Nat /\ PriorityFee("p25", z) \in Nat /\ PriorityFee("p75", z) \in Nat
      /\ PriorityFee("p25", z) <= fee /\ (l = "p90" => PriorityFee("p75", z) <= fee)
  BY FeeFacts DEF Level
<1>5. migrated = 0 => s = a.slippage
  BY DEF OfferedSlippage, Weight
<1>6. /\ terms'.slippage \in a.slippage..Larger(a.slippage, Preset.minSlippage)
      /\ migrated' = 0 => terms'.slippage = a.slippage
  <2>. HIDE DEF i, s, a
  <2>. QED
    BY <1>1, <1>2, <1>3, <1>5 DEF Larger
<1>7. /\ terms'.cuPrice >= a.cuPrice
      /\ terms'.cuPrice <= Larger(a.cuPrice + Preset.bump, fee)
      /\ n = 1 => terms'.cuPrice >= fee
  <2>. HIDE DEF i, p, a, fee
  <2>. QED
    BY <1>1, <1>2, <1>3, <1>4 DEF Larger
<1>8. n = 1 => /\ PriorityFee("p25", z) <= terms'.cuPrice
               /\ l = "p90" => PriorityFee("p75", z) <= terms'.cuPrice
  <2>1. terms'.cuPrice \in Nat
    BY AttemptMade DEF Attempts
  <2>. HIDE DEF fee
  <2>. QED
    BY <1>4, <1>7, <2>1
<1>. QED
  BY <1>1, <1>6, <1>7, <1>8 DEF OneAttempt

LEMMA TermsKept ==
    ASSUME TermInv, [TermNext]_termVars
    PROVE  TermInv'
<1>. USE DEF TermInv
<1>1. CASE UNCHANGED termVars
  BY <1>1 DEF termVars, TermTypes, FirstAttempt, OneAttempt, NoHigherRetry, OldPool
\* As time passes the moment of the first attempt stays in the past.
<1>2. CASE TermTick \/ Migrates
  <2>1. /\ UNCHANGED <<feeBandit, planTerms, terms, formerly>>
        /\ termTime' \in Nat /\ termTime <= termTime'
        /\ migrated' \in Nat /\ migrated' <= termTime' /\ (migrated' = 0 => migrated = 0)
    BY <1>2 DEF TermTick, Migrates, TermTypes
  <2>2. TermTypes'
    BY <2>1 DEF TermTypes
  <2>3. FirstAttempt'
    <3>1. terms.migration..termTime \subseteq terms.migration..termTime'
      BY <2>1 DEF TermTypes, Attempts
    <3>. QED
      BY <2>1, <3>1 DEF FirstAttempt
  <2>4. OneAttempt' /\ NoHigherRetry' /\ OldPool'
    BY <2>1 DEF OneAttempt, NoHigherRetry, OldPool
  <2>. QED
    BY <2>2, <2>3, <2>4
<1>3. ASSUME NEW age \in {29, 30, 60, 120}, NEW wanted \in {100, 850},
             NEW level \in {"p25", "p90"}, Plan(age, wanted, level)
      PROVE  TermInv'
  <2>1. PICK tip \in PickTip(level) :
            planTerms' = [age |-> age, slippage |-> PickSlippage(age, wanted), tip |-> tip,
                          level |-> level]
    BY <1>3 DEF Plan
  <2>2. terms' = NoTerms /\ formerly' = NoTerms /\ UNCHANGED <<feeBandit, termTime, migrated>>
    BY <1>3 DEF Plan
  <2>3. TermTypes'
    BY <2>1, <2>2 DEF TermTypes, Attempts, NoTerms, Level
  <2>4. FirstAttempt' /\ OneAttempt' /\ NoHigherRetry'
    BY <2>2 DEF FirstAttempt, OneAttempt, NoHigherRetry, NoTerms
  <2>5. OldPool'
    <3>1. age >= 120 => PickSlippage(age, wanted) <= 150
      BY DEF PickSlippage, SlippageByPoolAge, Smaller, Larger
    <3>. QED
      BY <2>1, <3>1 DEF OldPool
  <2>. QED
    BY <2>3, <2>4, <2>5
<1>4. ASSUME NEW z \in {0, 2}, Execute(z) PROVE TermInv'
  <2>1. /\ planTerms.level \in Level /\ Attempt(1, planTerms.level, z)
        /\ planTerms' = NoPlan /\ UNCHANGED <<feeBandit, termTime, migrated, formerly>>
    BY <1>4 DEF Execute, TermTypes
  <2>2. PICK l \in Level : l = planTerms.level
    BY <2>1
  <2>3. Attempt(1, l, z)
    BY <2>1, <2>2
  <2>4. /\ terms' \in Attempts /\ terms'.attempt = 1
        /\ terms'.arm \in DOMAIN FeeArms /\ (feeBandit => terms'.arm = SelectArm)
        /\ terms'.migration = migrated /\ terms'.level = l /\ terms'.size = z
        /\ terms'.slippage = OfferedSlippage(terms'.arm, migrated, termTime)
        /\ terms'.cuPrice =
                Larger(OfferedPrice(terms'.arm, migrated, termTime), PriorityFee(l, z))
    BY <2>3, AttemptMade
  <2>5. TermTypes'
    BY <2>1, <2>4 DEF TermTypes
  <2>6. FirstAttempt'
    <3>1. termTime \in migrated..termTime
      BY DEF TermTypes
    <3>2. termTime \in terms'.migration..termTime'
      BY <2>1, <2>4, <3>1
    <3>3. /\ terms'.slippage = OfferedSlippage(terms'.arm, terms'.migration, termTime)
          /\ terms'.cuPrice = Larger(OfferedPrice(terms'.arm, terms'.migration, termTime),
                                     PriorityFee(terms'.level, terms'.size))
      BY <2>4
    <3>4. /\ terms'.arm \in DOMAIN FeeArms /\ (migrated' = 0 => terms'.migration = 0)
          /\ feeBandit' => terms'.arm = SelectArm
      BY <2>1, <2>4
    <3>. QED
      BY <3>2, <3>3, <3>4 DEF FirstAttempt
  <2>7. OneAttempt'
    BY <2>1, <2>3, AttemptBounded
  <2>8. NoHigherRetry' /\ OldPool'
    BY <2>1, <2>4 DEF NoHigherRetry, OldPool, NoPlan
  <2>. QED
    BY <2>5, <2>6, <2>7, <2>8
<1>5. CASE RetryOnce
  <2>1. /\ terms.attempt = 1 /\ formerly' = terms
        /\ UNCHANGED <<feeBandit, termTime, migrated, planTerms>>
        /\ terms \in Attempts /\ OldPool'
    BY <1>5 DEF RetryOnce, TermTypes, OldPool
  <2>2. PICK l \in Level : l = terms.level
    BY <2>1 DEF Attempts
  <2>3. PICK z \in Nat : z = terms.size
    BY <2>1 DEF Attempts
  <2>4. CASE Attempt(2, l, z)
    <3>1. /\ terms' \in Attempts /\ terms'.attempt = 2
          /\ terms'.arm \in DOMAIN FeeArms /\ (feeBandit => terms'.arm = SelectArm)
          /\ terms'.migration = migrated
          /\ terms'.slippage = OfferedSlippage(terms'.arm, migrated, termTime)
          /\ terms'.cuPrice = OfferedPrice(terms'.arm, migrated, termTime)
      BY <2>4, AttemptMade
    <3>2. TermTypes' /\ FirstAttempt'
      BY <2>1, <3>1 DEF TermTypes, FirstAttempt
    <3>3. OneAttempt'
      BY <2>1, <2>4, AttemptBounded
    <3>4. ASSUME terms.arm = terms'.arm, terms.migration = terms'.migration
          PROVE  terms'.slippage <= terms.slippage /\ terms'.cuPrice <= terms.cuPrice
      <4>1. PICK t \in terms.migration..termTime :
                /\ terms.slippage = OfferedSlippage(terms.arm, terms.migration, t)
                /\ terms.cuPrice = Larger(OfferedPrice(terms.arm, terms.migration, t),
                                          PriorityFee(terms.level, terms.size))
        BY <2>1 DEF FirstAttempt
      <4>. DEFINE i == terms'.arm
      <4>2. i \in DOMAIN FeeArms /\ migrated \in Nat /\ t \in Nat /\ migrated <= t
            /\ termTime \in Nat /\ t <= termTime
        BY <3>1, <3>4, <4>1 DEF TermTypes, Attempts
      <4>3. /\ OfferedSlippage(i, migrated, termTime) <= OfferedSlippage(i, migrated, t)
            /\ OfferedPrice(i, migrated, termTime) <= OfferedPrice(i, migrated, t)
        BY <4>2, OfferFacts
      <4>4. OfferedPrice(i, migrated, t) \in Nat /\ OfferedPrice(i, migrated, termTime) \in Nat
        BY <4>2, OfferFacts DEF TermTypes
      <4>5. PriorityFee(l, z) \in Nat
        BY FeeFacts
      <4>6. /\ terms.slippage = OfferedSlippage(i, migrated, t)
            /\ terms.cuPrice = Larger(OfferedPrice(i, migrated, t), PriorityFee(l, z))
        BY <2>2, <2>3, <3>1, <3>4, <4>1
      <4>. HIDE DEF i
      <4>7. OfferedPrice(i, migrated, termTime) <= terms.cuPrice
        BY <4>3, <4>4, <4>5, <4>6 DEF Larger
      <4>. QED
        BY <3>1, <4>3, <4>6, <4>7 DEF i
    <3>5. feeBandit => terms.arm = terms'.arm
      BY <2>1, <3>1 DEF FirstAttempt
    <3>6. NoHigherRetry'
      BY <2>1, <3>4, <3>5 DEF NoHigherRetry
    <3>. QED
      BY <2>1, <3>2, <3>3, <3>6
  <2>5. CASE terms' = [terms EXCEPT !.attempt = 2]
    <3>1. /\ terms' \in Attempts /\ terms'.attempt = 2 /\ terms'.arm = terms.arm
          /\ terms'.slippage = terms.slippage /\ terms'.cuPrice = terms.cuPrice
          /\ terms'.migration = terms.migration /\ terms'.level = terms.level
          /\ terms'.size = terms.size
      BY <2>1, <2>5 DEF Attempts
    <3>2. TermTypes' /\ FirstAttempt'
      BY <2>1, <3>1 DEF TermTypes, FirstAttempt
    <3>3. OneAttempt'
      BY <2>1, <3>1 DEF OneAttempt
    <3>4. NoHigherRetry'
      BY <2>1, <3>1 DEF NoHigherRetry, Attempts
    <3>. QED
      BY <2>1, <3>2, <3>3, <3>4
  <2>. QED
    BY <1>5, <2>2, <2>3, <2>4, <2>5 DEF RetryOnce
<1>. QED
  BY <1>1, <1>2, <1>3, <1>4, <1>5 DEF TermNext

LEMMA TermInvariant == TermSpec => []TermInv
<1>1. TermInit => TermInv
  BY DEF TermInit, TermInv, TermTypes, FirstAttempt, OneAttempt, NoHigherRetry, OldPool,
         Attempts, NoTerms, NoPlan, Level
<1>. QED
  BY <1>1, TermsKept, PTL DEF TermSpec

LEMMA TermsFollow == TermInv => TermsAreBounded
  BY DEF TermInv, TermsAreBounded, OneAttempt, NoHigherRetry, OldPool

-----------------------------------------------------------------------------
(* The size of one order *)

LEMMA QuotientIs ==
    ASSUME NEW a \in Nat, NEW b \in Nat, b > 0, NEW k \in Nat, b * k <= a, a < b * k + b
    PROVE  a \div b = k
<1>1. a \div b <= k
  BY QuotientBelow
<1>. DEFINE q == a \div b
<1>2. q \in Nat /\ a < b * q + b
  BY Quotient
<1>. HIDE DEF q
<1>3. b * k < b * (q + 1)
  BY <1>2
<1>4. k < q + 1
  BY <1>2, <1>3, FactorOut
<1>. QED
  BY <1>1, <1>2, <1>4 DEF q

LEMMA RoundedFacts ==
    ASSUME NEW n \in Nat
    PROVE  /\ Rounded(n) \in Nat /\ Rounded(n) <= n + Step \div 2
           /\ Rounded(Rounded(n)) = Rounded(n)
           /\ \A m \in Nat : n <= m => Rounded(n) <= Rounded(m)
           /\ Rounded(n) < MinOrder => n < MinOrder
           /\ n = 0 => Rounded(n) = 0
<1>1. Step \in Nat /\ Step > 0 /\ MinOrder \in Nat
  BY SizingConstants DEF SizingConstants
<1>. DEFINE h == Step \div 2   q == (n + h) \div Step
<1>2. h \in Nat /\ h < Step /\ 2 * h <= Step
  BY <1>1, Quotient
<1>3. Rounded(n) = q * Step
  BY DEF Rounded
<1>. HIDE DEF h
<1>4. q \in Nat /\ Step * q <= n + h /\ n + h < Step * q + Step
  BY <1>1, <1>2, Quotient
<1>5. \A m \in Nat : n <= m => Rounded(n) <= Rounded(m)
  <2>. SUFFICES ASSUME NEW m \in Nat, n <= m PROVE Rounded(n) <= Rounded(m)
    OBVIOUS
  <2>. DEFINE p == (m + h) \div Step
  <2>1. q <= p /\ p \in Nat /\ Rounded(m) = p * Step
    BY <1>1, <1>2, Quotient, QuotientGrows DEF Rounded, h
  <2>. HIDE DEF p, q
  <2>. QED
    BY <1>1, <1>3, <1>4, <2>1, FactorGrows
<1>. HIDE DEF q
<1>6. q * Step = Step * q /\ q * Step \in Nat
  BY <1>1, <1>4
<1>7. Rounded(q * Step) = q * Step
  <2>1. (q * Step + h) \div Step = q
    BY <1>1, <1>2, <1>4, <1>6, QuotientIs
  <2>. QED
    BY <2>1 DEF Rounded, h
<1>8. Rounded(n) < MinOrder => n < MinOrder
  <2>. SUFFICES ASSUME Rounded(n) < MinOrder PROVE n < MinOrder
    OBVIOUS
  <2>1. PICK k \in Nat : MinOrder = Step * k
    BY <1>1, SizingConstants DEF SizingConstants
  <2>2. Step * q < Step * k
    BY <1>3, <1>6, <2>1
  <2>3. q < k
    BY <1>1, <1>4, <2>2, FactorOut
  <2>4. Step * (q + 1) <= Step * k
    BY <1>1, <1>4, <2>3, FactorGrows
  <2>. QED
    BY <1>1, <1>2, <1>4, <2>1, <2>4
<1>9. n = 0 => Rounded(n) = 0
  <2>. SUFFICES ASSUME n = 0 PROVE q = 0
    BY <1>1, <1>3
  <2>1. Step * q < Step * 1
    BY <1>1, <1>2, <1>4
  <2>. QED
    BY <1>1, <1>4, <2>1, FactorOut
<1>. QED
  BY <1>3, <1>4, <1>5, <1>6, <1>7, <1>8, <1>9 DEF h

LEMMA LeastMin ==
    ASSUME NEW S, S \subseteq Nat, S # {}
    PROVE  Min(S) \in S /\ \A x \in S : Min(S) <= x
  BY LeastOf DEF Min

Numbers(a) ==
    /\ {a.constrained, a.full, a.leader} \subseteq BOOLEAN
    /\ {a.equity, a.pct, a.absolute, a.used, a.arm, a.perName, a.usd, a.impact, a.flow,
        a.multiplier} \subseteq Nat
    /\ a.constrained => a.multiplier = 8 /\ ~ a.full
    /\ a.equity < NoCap /\ (~ a.constrained => a.usd = NoCap)

CapsOf(a) == {AvailableSol(a), DailyRemaining(a), a.perName, a.arm, a.usd}
Base(a) == Min({a.arm, a.perName, a.impact, a.flow, DailyRemaining(a)})

\* The size before a leader's boost.
SizedAs(a) ==
    IF a.constrained THEN Rounded(Min(CapsOf(a)))
    ELSE IF a.full THEN 0
    ELSE Min({(Base(a) * a.multiplier) \div 4, Base(a), AvailableSol(a)})

Boosted(n, a) ==
    /\ a.leader /\ 0 < SizedAs(a)
    /\ n <= SizedAs(a) + SizedAs(a) \div 4 /\ SizedAs(a) < n /\ n <= BoostLimit(a)

SizingInv ==
    /\ Numbers(ask) /\ notional \in Nat
    /\ sizingAt \in {"size", "boost", "round"} => AvailableSol(ask) > 0 /\ DailyRemaining(ask) > 0
    /\ sizingAt = "boost" => notional = SizedAs(ask)
    /\ sizingAt = "round" => notional > 0 /\ (notional = SizedAs(ask) \/ Boosted(notional, ask))
    /\ SizeWithinCaps

LEMMA CapFacts ==
    ASSUME NEW a, Numbers(a)
    PROVE  /\ AvailableSol(a) \in Nat /\ AvailableSol(a) < NoCap /\ DailyRemaining(a) \in Nat
           /\ CapsOf(a) \subseteq Nat /\ CapsOf(a) # {}
           /\ Base(a) \in {a.arm, a.perName, a.impact, a.flow, DailyRemaining(a)}
           /\ \A x \in {a.arm, a.perName, a.impact, a.flow, DailyRemaining(a)} : Base(a) <= x
<1>1. Withheld \in Nat /\ NoCap \in Nat
  BY SizingConstants DEF SizingConstants
<1>2. AvailableSol(a) \in Nat /\ AvailableSol(a) < NoCap
  BY <1>1 DEF AvailableSol, Above, Numbers
<1>3. ResolveDailySpendCap(a) \in Nat
  <2>1. a.equity * a.pct \in Nat
    BY DEF Numbers
  <2>2. (a.equity * a.pct) \div 100 \in Nat
    BY <2>1, Quotient
  <2>3. CASE a.pct > 0 /\ a.equity > 0
    BY <2>2, <2>3 DEF ResolveDailySpendCap
  <2>4. CASE ~ (a.pct > 0 /\ a.equity > 0) /\ a.absolute > 0
    BY <2>4 DEF ResolveDailySpendCap, Numbers
  <2>5. CASE ~ (a.pct > 0 /\ a.equity > 0) /\ ~ (a.absolute > 0)
    BY <1>1, <2>5 DEF ResolveDailySpendCap
  <2>. QED
    BY <2>3, <2>4, <2>5
<1>4. DailyRemaining(a) \in Nat
  BY <1>1, <1>3 DEF DailyRemaining, Above, Numbers
<1>5. CapsOf(a) \subseteq Nat /\ CapsOf(a) # {}
  BY <1>2, <1>4 DEF CapsOf, Numbers
<1>. DEFINE S == {a.arm, a.perName, a.impact, a.flow, DailyRemaining(a)}
<1>6. S \subseteq Nat /\ S # {} /\ Base(a) = Min(S)
  BY <1>4 DEF Numbers, Base
<1>7. Base(a) \in S /\ \A x \in S : Base(a) <= x
  <2>. HIDE DEF S
  <2>. QED
    BY <1>6, LeastMin
<1>. QED
  BY <1>2, <1>4, <1>5, <1>7

\* The first of the smallest caps is as small as they come.
LEMMA LimitIs ==
    ASSUME NEW a, Numbers(a)
    PROVE  ConstrainedCaps(a)[Limiting(ConstrainedCaps(a))].value = Min(CapsOf(a))
<1>. DEFINE A == AvailableSol(a)   D == DailyRemaining(a)   m == Min({A, a.arm})
            v == [i \in 1..5 |-> CASE i = 1 -> m [] i = 2 -> A [] i = 3 -> a.perName
                                   [] i = 4 -> D [] OTHER -> a.usd]
            c == ConstrainedCaps(a)
<1>1. A \in Nat /\ D \in Nat /\ a.perName \in Nat /\ a.arm \in Nat /\ a.usd \in Nat
  BY CapFacts DEF Numbers
<1>2. m \in {A, a.arm} /\ m <= A /\ m <= a.arm
  <2>. DEFINE S == {A, a.arm}
  <2>1. S \subseteq Nat /\ S # {} /\ A \in S /\ a.arm \in S
    BY <1>1
  <2>. HIDE DEF S
  <2>2. Min(S) \in S /\ Min(S) <= A /\ Min(S) <= a.arm
    BY <2>1, LeastMin
  <2>. QED
    BY <2>2 DEF S
<1>. HIDE DEF m, A, D
<1>3. /\ DOMAIN c = 1..5
      /\ c[1].value = m /\ c[2].value = A /\ c[3].value = a.perName
      /\ c[4].value = D /\ c[5].value = a.usd
  BY DEF ConstrainedCaps, m, A, D
<1>. HIDE DEF c
<1>4. \A i \in 1..5 : c[i].value \in Nat
  <2>1. m \in Nat
    BY <1>1, <1>2
  <2>2. \A i \in 1..5 : i = 1 \/ i = 2 \/ i = 3 \/ i = 4 \/ i = 5
    OBVIOUS
  <2>. QED
    BY <1>1, <1>3, <2>1, <2>2
<1>5. PICK i \in 1..5 : \A j \in 1..5 : c[i].value <= c[j].value
  <2>. DEFINE S == {c[j].value : j \in 1..5}
  <2>1. S \subseteq Nat /\ S # {}
    BY <1>4
  <2>2. PICK n \in S : \A k \in S : n <= k
    <3>. HIDE DEF S
    <3>. QED
      BY <2>1, LeastOf
  <2>. QED
    BY <2>2
<1>. DEFINE Smallest == {j \in 1..5 : c[j].value = c[i].value}
<1>6. PICK k \in Smallest : \A j \in Smallest : k <= j
  <2>1. Smallest \subseteq Nat /\ Smallest # {}
    OBVIOUS
  <2>. HIDE DEF Smallest
  <2>. QED
    BY <2>1, LeastOf
<1>7. \A j \in 1..(k - 1) : c[j].value > c[k].value
  <2>. SUFFICES ASSUME NEW j \in 1..(k - 1) PROVE c[j].value > c[k].value
    OBVIOUS
  <2>1. j \in 1..5 /\ j \notin Smallest
    BY <1>6
  <2>. QED
    BY <1>4, <1>5, <1>6, <2>1
<1>8. k \in DOMAIN c /\ \A j \in DOMAIN c : c[k].value <= c[j].value
  BY <1>3, <1>5, <1>6
<1>. DEFINE l == Limiting(c)
<1>9. l \in 1..5 /\ \A j \in 1..5 : c[l].value <= c[j].value
  BY <1>3, <1>7, <1>8 DEF Limiting
<1>. HIDE DEF l
<1>10. c[l].value \in CapsOf(a) /\ \A x \in CapsOf(a) : c[l].value <= x
  <2>1. CapsOf(a) = {A, D, a.perName, a.arm, a.usd}
    BY DEF CapsOf, A, D
  <2>2. c[l].value \in {m, A, a.perName, D, a.usd}
    <3>1. l = 1 \/ l = 2 \/ l = 3 \/ l = 4 \/ l = 5
      BY <1>9
    <3>. QED
      BY <1>3, <3>1
  <2>3. /\ c[l].value <= m /\ c[l].value <= A /\ c[l].value <= a.perName
        /\ c[l].value <= D /\ c[l].value <= a.usd /\ c[l].value \in Nat
    BY <1>3, <1>4, <1>9
  <2>4. c[l].value <= a.arm
    BY <1>1, <1>2, <2>3
  <2>. QED
    BY <1>2, <2>1, <2>2, <2>3, <2>4
<1>11. Min(CapsOf(a)) \in CapsOf(a) /\ \A x \in CapsOf(a) : Min(CapsOf(a)) <= x
  BY CapFacts, LeastMin
<1>12. CapsOf(a) \subseteq Nat
  BY CapFacts
<1>13. c[l].value \in Nat /\ Min(CapsOf(a)) \in Nat
  BY <1>10, <1>11, <1>12
<1>14. c[l].value <= Min(CapsOf(a)) /\ Min(CapsOf(a)) <= c[l].value
  BY <1>10, <1>11
<1>. QED
  BY <1>13, <1>14 DEF c, l

\* The size before the boost keeps within every cap, and rounding it again adds no more
\* than the rounding once.
LEMMA SizedFacts ==
    ASSUME NEW a, Numbers(a)
    PROVE  /\ SizedAs(a) \in Nat
           /\ \A cap \in CapsOf(a) :
                /\ cap \in Nat /\ SizedAs(a) <= cap + Step \div 2
                /\ Rounded(SizedAs(a)) <= cap + Step \div 2
                /\ cap = 0 => SizedAs(a) = 0
           /\ ~ a.constrained => \A cap \in {a.impact, a.flow} :
                /\ cap \in Nat /\ Rounded(SizedAs(a)) <= cap + Step \div 2
                /\ cap = 0 => SizedAs(a) = 0
<1>. DEFINE h == Step \div 2
<1>1. h \in Nat
  BY SizingConstants, Quotient DEF SizingConstants
<1>. HIDE DEF h
<1>2. CapsOf(a) \subseteq Nat /\ {a.impact, a.flow} \subseteq Nat
  BY CapFacts DEF Numbers
<1>3. CASE a.constrained
  <2>. DEFINE v == Min(CapsOf(a))
  <2>1. v \in CapsOf(a) /\ \A x \in CapsOf(a) : v <= x
    BY CapFacts, LeastMin
  <2>2. v \in Nat
    BY <1>2, <2>1
  <2>3. SizedAs(a) = Rounded(v)
    BY <1>3 DEF SizedAs
  <2>. HIDE DEF v
  <2>4. Rounded(v) \in Nat /\ Rounded(v) <= v + h /\ Rounded(Rounded(v)) = Rounded(v)
        /\ (v = 0 => Rounded(v) = 0)
    BY <2>2, RoundedFacts DEF h
  <2>5. ASSUME NEW cap \in CapsOf(a)
        PROVE  cap \in Nat /\ Rounded(v) <= cap + h /\ (cap = 0 => Rounded(v) = 0)
    <3>1. cap \in Nat /\ v <= cap
      BY <1>2, <2>1
    <3>. QED
      BY <1>1, <2>2, <2>4, <3>1
  <2>. QED
    BY <1>3, <2>3, <2>4, <2>5 DEF h
<1>4. CASE ~ a.constrained /\ a.full
  <2>1. SizedAs(a) = 0 /\ Rounded(0) = 0
    BY <1>4, RoundedFacts DEF SizedAs
  <2>2. ASSUME NEW cap \in CapsOf(a) \union {a.impact, a.flow}
        PROVE  cap \in Nat /\ 0 <= cap + h
    BY <1>1, <1>2
  <2>. QED
    BY <2>1, <2>2 DEF h
<1>5. CASE ~ a.constrained /\ ~ a.full
  <2>. DEFINE n == SizedAs(a)   A == AvailableSol(a)
              S == {(Base(a) * a.multiplier) \div 4, Base(a), A}
              B == {a.arm, a.perName, a.impact, a.flow, DailyRemaining(a)}
  <2>1. A \in Nat /\ A < NoCap /\ Base(a) \in B /\ B \subseteq Nat /\ \A x \in B : Base(a) <= x
    BY CapFacts DEF Numbers
  <2>2. Base(a) \in Nat /\ a.multiplier \in Nat
    BY <2>1 DEF Numbers
  <2>3. (Base(a) * a.multiplier) \div 4 \in Nat
    BY <2>2, Quotient
  <2>4. n = Min(S)
    BY <1>5 DEF SizedAs
  <2>5. S \subseteq Nat /\ S # {}
    BY <2>1, <2>2, <2>3
  <2>6. n \in Nat /\ n <= Base(a) /\ n <= A
    <3>1. Base(a) \in S /\ A \in S
      OBVIOUS
    <3>. HIDE DEF S, n, A
    <3>. QED
      BY <2>4, <2>5, <3>1, LeastMin
  <2>7. a.usd = NoCap /\ NoCap \in Nat
    BY <1>5, SizingConstants DEF Numbers, SizingConstants
  <2>. HIDE DEF n
  <2>8. ASSUME NEW x \in B PROVE n <= x
    <3>1. Base(a) <= x /\ x \in Nat
      BY <2>1
    <3>. QED
      BY <2>2, <2>6, <3>1
  <2>9. \A cap \in CapsOf(a) \union {a.impact, a.flow} : n <= cap
    BY <2>1, <2>6, <2>7, <2>8 DEF CapsOf
  <2>10. Rounded(n) \in Nat /\ Rounded(n) <= n + h
    BY <2>6, RoundedFacts DEF h
  <2>11. ASSUME NEW cap \in CapsOf(a) \union {a.impact, a.flow}
         PROVE  cap \in Nat /\ n <= cap + h /\ Rounded(n) <= cap + h /\ (cap = 0 => n = 0)
    <3>1. cap \in Nat /\ n <= cap
      BY <1>2, <2>9
    <3>. QED
      BY <1>1, <2>6, <2>10, <3>1
  <2>. QED
    BY <2>6, <2>11 DEF n, h
<1>. QED
  BY <1>3, <1>4, <1>5

\* A size too small to send came of a cap below the smallest order.
LEMMA TooSmall ==
    ASSUME NEW a, Numbers(a), Rounded(SizedAs(a)) < MinOrder, ~ a.full
    PROVE  Min(CapsOf(a) \union IF a.constrained THEN {} ELSE {a.impact, a.flow})
               * Min({4, a.multiplier}) < 4 * MinOrder
<1>. DEFINE L == CapsOf(a) \union IF a.constrained THEN {} ELSE {a.impact, a.flow}
            l == Min(L)   M == {4, a.multiplier}   m == Min(M)
<1>1. L \subseteq Nat /\ L # {} /\ M \subseteq Nat /\ M # {} /\ 4 \in M /\ a.multiplier \in M
  BY CapFacts DEF Numbers
<1>2. l \in Nat /\ (\A x \in L : l <= x)
  <2>. HIDE DEF L
  <2>. QED
    BY <1>1, LeastMin
<1>3. m \in Nat /\ m <= 4 /\ m <= a.multiplier /\ a.multiplier \in Nat
  <2>. HIDE DEF M
  <2>. QED
    BY <1>1, LeastMin
<1>4. MinOrder \in Nat
  BY SizingConstants DEF SizingConstants
<1>. HIDE DEF l, m
<1>5. \A x \in Nat : l <= x => l * m <= 4 * x
  <2>. SUFFICES ASSUME NEW x \in Nat, l <= x PROVE l * m <= 4 * x
    OBVIOUS
  <2>1. m * l <= 4 * l
    BY <1>2, <1>3, FactorGrows
  <2>2. m * l \in Nat /\ l * m = m * l
    BY <1>2, <1>3
  <2>. QED
    BY <1>2, <2>1, <2>2
<1>6. CASE a.constrained
  <2>1. L = CapsOf(a)
    BY <1>6
  <2>2. l \in Nat /\ SizedAs(a) = Rounded(l)
    BY <1>2, <1>6, <2>1 DEF SizedAs, l
  <2>3. Rounded(Rounded(l)) = Rounded(l) /\ (Rounded(l) < MinOrder => l < MinOrder)
    BY <2>2, RoundedFacts
  <2>4. l < MinOrder
    BY <2>2, <2>3
  <2>5. l * m <= 4 * l /\ l * m \in Nat
    BY <1>2, <1>3, <1>5
  <2>. QED
    BY <1>2, <1>4, <2>4, <2>5 DEF l, m
<1>7. CASE ~ a.constrained
  <2>. DEFINE n == SizedAs(a)   b == Base(a)   q == (b * a.multiplier) \div 4
              A == AvailableSol(a)   S == {q, b, A}
  <2>1. A \in Nat /\ b \in L /\ A \in L
    BY <1>7, CapFacts DEF CapsOf
  <2>2. b \in Nat
    BY <1>1, <2>1
  <2>3. b * a.multiplier \in Nat
    BY <1>3, <2>2
  <2>4. q \in Nat /\ b * a.multiplier < 4 * q + 4
    BY <2>3, Quotient
  <2>5. n = Min(S)
    BY <1>7 DEF SizedAs
  <2>6. n \in S
    <3>1. S \subseteq Nat /\ S # {}
      BY <2>1, <2>2, <2>4
    <3>. HIDE DEF S, n
    <3>. QED
      BY <2>5, <3>1, LeastMin
  <2>7. n \in Nat
    BY SizedFacts
  <2>8. n < MinOrder
    BY <2>7, RoundedFacts
  <2>9. l <= b /\ l <= A
    BY <1>2, <2>1
  <2>. HIDE DEF n, b, A, S
  <2>10. l * m \in Nat
    BY <1>2, <1>3
  <2>11. CASE n = b \/ n = A
    <3>1. l <= n
      BY <2>9, <2>11
    <3>2. l * m <= 4 * n
      BY <1>5, <2>7, <3>1
    <3>. QED
      BY <1>4, <2>7, <2>8, <2>10, <3>2 DEF l, m
  <2>12. CASE n = q
    <3>1. m * l <= a.multiplier * l /\ l * a.multiplier <= b * a.multiplier
      BY <1>2, <1>3, <2>2, <2>9, FactorGrows
    <3>2. l * m = m * l /\ a.multiplier * l = l * a.multiplier /\ l * a.multiplier \in Nat
      BY <1>2, <1>3
    <3>3. l * m <= b * a.multiplier
      BY <2>3, <2>10, <3>1, <3>2
    <3>4. 4 * q + 4 <= 4 * MinOrder
      <4>. HIDE DEF q
      <4>. QED
        BY <1>4, <2>4, <2>7, <2>8, <2>12
    <3>. QED
      BY <1>4, <2>3, <2>4, <2>10, <3>3, <3>4 DEF l, m
  <2>. QED
    BY <2>6, <2>11, <2>12 DEF S
<1>. QED
  BY <1>6, <1>7

\* A leader's boost stops at the free balance, the day and the caps of the pool, and
\* raises a size by no more than its quarter.
LEMMA BoostedWithin ==
    ASSUME NEW a, Numbers(a), AvailableSol(a) > 0, DailyRemaining(a) > 0,
           NEW n \in Nat, Boosted(n, a)
    PROVE  /\ \A cap \in {AvailableSol(a), DailyRemaining(a), a.perName} :
                Rounded(n) <= cap + Step \div 2
           /\ \A cap \in {a.arm, a.usd} :
                4 * Rounded(n) <= 5 * (cap + Step \div 2) + 2 * Step
<1>. DEFINE h == Step \div 2   s == SizedAs(a)
            S == {x \in {NoCap, AvailableSol(a), DailyRemaining(a), a.perName, a.impact,
                         a.flow} : x > 0}
<1>1. h \in Nat /\ 2 * h <= Step /\ Step \in Nat
  BY SizingConstants, Quotient DEF SizingConstants
<1>2. Rounded(n) \in Nat /\ Rounded(n) <= n + h
  BY RoundedFacts
<1>3. s \in Nat /\ a.perName \in Nat /\ a.perName \in CapsOf(a)
  BY SizedFacts DEF Numbers, CapsOf
<1>4. 0 < s /\ n <= s + s \div 4 /\ n <= BoostLimit(a)
  BY DEF Boosted
<1>5. a.perName > 0
  <2>1. a.perName = 0 => s = 0
    BY <1>3, SizedFacts
  <2>. HIDE DEF s
  <2>. QED
    BY <1>3, <1>4, <2>1
<1>6. BoostLimit(a) \in Nat /\ \A x \in S : BoostLimit(a) <= x
  <2>1. BoostLimit(a) = Min(S)
    BY DEF BoostLimit
  <2>2. S \subseteq Nat /\ S # {}
    BY CapFacts, SizingConstants DEF Numbers, SizingConstants
  <2>. HIDE DEF S
  <2>. QED
    BY <2>1, <2>2, LeastMin
<1>7. ASSUME NEW cap \in {AvailableSol(a), DailyRemaining(a), a.perName}
      PROVE  Rounded(n) <= cap + h
  <2>1. cap \in S /\ cap \in Nat
    BY <1>3, <1>5, CapFacts
  <2>2. n <= cap
    BY <1>4, <1>6, <2>1
  <2>. HIDE DEF h
  <2>. QED
    BY <1>1, <1>2, <2>1, <2>2
<1>8. ASSUME NEW cap \in {a.arm, a.usd}
      PROVE  4 * Rounded(n) <= 5 * (cap + h) + 2 * Step
  <2>1. cap \in Nat /\ s <= cap + h
    BY SizedFacts DEF CapsOf
  <2>2. s \div 4 \in Nat /\ 4 * (s \div 4) <= s
    BY <1>3, Quotient
  <2>. DEFINE q == s \div 4
  <2>. HIDE DEF h, s, q
  <2>3. q \in Nat /\ 4 * q <= s /\ n <= s + q
    BY <1>4, <2>2 DEF q
  <2>. QED
    BY <1>1, <1>2, <1>3, <2>1, <2>3
<1>. QED
  BY <1>7, <1>8 DEF h

\* What SizeWithinCaps says of a size that is sent.
Keeps(a, n) ==
    /\ \A cap \in {AvailableSol(a), DailyRemaining(a), a.perName} : n <= cap + Step \div 2
    /\ ~ a.constrained /\ ~ a.leader =>
        n <= a.impact + Step \div 2 /\ n <= a.flow + Step \div 2
    /\ \A cap \in {a.arm, a.usd} :
        /\ ~ a.leader => n <= cap + Step \div 2
        /\ 4 * n <= 5 * (cap + Step \div 2) + 2 * Step

\* What is sent keeps the promise, whether or not it was boosted.
LEMMA SentWithin ==
    ASSUME SizingInv, sizingAt = "round", GoTo("sent", Rounded(notional), why)
    PROVE  SizeWithinCaps'
<1>. USE DEF SizingInv
<1>. DEFINE h == Step \div 2   r == Rounded(notional)
<1>1. ask' = ask /\ notional' = r /\ sizingAt' = "sent"
  BY DEF GoTo
<1>2. Numbers(ask) /\ notional \in Nat /\ AvailableSol(ask) > 0 /\ DailyRemaining(ask) > 0
  OBVIOUS
<1>3. h \in Nat /\ Step \in Nat /\ r \in Nat
  BY <1>2, RoundedFacts, SizingConstants, Quotient DEF SizingConstants
<1>4. \A cap \in CapsOf(ask) : cap \in Nat
  BY CapFacts
<1>7. ASSUME Keeps(ask, r) PROVE SizeWithinCaps'
  <2>. DEFINE n == notional'   a == ask'
  <2>1. Keeps(a, n) /\ sizingAt' # "suppressed"
    BY <1>1, <1>7
  <2>2. /\ n <= AvailableSol(a) + Step \div 2 /\ n <= DailyRemaining(a) + Step \div 2
        /\ n <= a.perName + Step \div 2
    BY <2>1 DEF Keeps
  <2>3. ~ a.constrained /\ ~ a.leader =>
            n <= a.impact + Step \div 2 /\ n <= a.flow + Step \div 2
    BY <2>1 DEF Keeps
  <2>4. \A cap \in {a.arm, a.usd} :
            /\ ~ a.leader => n <= cap + Step \div 2
            /\ 4 * n <= 5 * (cap + Step \div 2) + 2 * Step
    BY <2>1 DEF Keeps
  <2>. QED
    BY <2>1, <2>2, <2>3, <2>4 DEF SizeWithinCaps, Within
<1>5. CASE notional = SizedAs(ask)
  <2>1. \A cap \in CapsOf(ask) : r <= cap + h
    BY <1>2, <1>5, SizedFacts
  <2>2. \A cap \in CapsOf(ask) : 4 * r <= 5 * (cap + h) + 2 * Step
    <3>. SUFFICES ASSUME NEW cap \in CapsOf(ask) PROVE 4 * r <= 5 * (cap + h) + 2 * Step
      OBVIOUS
    <3>1. r <= cap + h /\ cap \in Nat
      BY <1>4, <2>1
    <3>. HIDE DEF r, h
    <3>. QED
      BY <1>3, <3>1
  <2>3. ~ ask.constrained => r <= ask.impact + h /\ r <= ask.flow + h
    BY <1>2, <1>5, SizedFacts
  <2>. HIDE DEF r, h
  <2>4. Keeps(ask, r)
    BY <2>1, <2>2, <2>3 DEF Keeps, CapsOf, h
  <2>. QED
    BY <1>1, <1>7, <2>4
<1>6. CASE Boosted(notional, ask)
  <2>1. ask.leader
    BY <1>6 DEF Boosted
  <2>2. /\ \A cap \in {AvailableSol(ask), DailyRemaining(ask), ask.perName} : r <= cap + h
        /\ \A cap \in {ask.arm, ask.usd} : 4 * r <= 5 * (cap + h) + 2 * Step
    BY <1>2, <1>6, BoostedWithin
  <2>. HIDE DEF r, h
  <2>3. Keeps(ask, r)
    BY <2>1, <2>2 DEF Keeps, h
  <2>. QED
    BY <1>1, <1>7, <2>3
<1>. QED
  BY <1>2, <1>5, <1>6

\* Whatever was not sent had no place, or a cap below the smallest order.
LEMMA SuppressedFor ==
    ASSUME SizingInv, ask' = ask, sizingAt' = "suppressed",
           \/ AvailableSol(ask) = 0
           \/ DailyRemaining(ask) = 0
           \/ Rounded(SizedAs(ask)) < MinOrder
    PROVE  SizeWithinCaps'
<1>. USE DEF SizingInv
<1>. DEFINE L == CapsOf(ask) \union IF ask.constrained THEN {} ELSE {ask.impact, ask.flow}
            M == {4, ask.multiplier}
            Smallest == Min(L) * Min(M)
<1>1. MinOrder \in Nat /\ MinOrder > 0
  BY SizingConstants DEF SizingConstants
<1>2. ~ ask.full => Smallest < 4 * MinOrder
  <2>1. CASE AvailableSol(ask) = 0 \/ DailyRemaining(ask) = 0
    <3>1. L \subseteq Nat /\ 0 \in L
      BY <2>1, CapFacts DEF CapsOf, Numbers
    <3>2. M \subseteq Nat /\ M # {}
      BY DEF Numbers
    <3>. HIDE DEF L, M
    <3>3. Min(L) = 0 /\ Min(M) \in Nat
      <4>1. Min(L) \in L /\ Min(L) <= 0
        BY <3>1, LeastMin
      <4>2. Min(L) \in Nat
        BY <3>1, <4>1
      <4>3. Min(M) \in M
        BY <3>2, LeastMin
      <4>4. Min(L) = 0
        BY <4>1, <4>2
      <4>. QED
        BY <3>2, <4>3, <4>4
    <3>. QED
      BY <1>1, <3>3
  <2>2. CASE Rounded(SizedAs(ask)) < MinOrder
    BY <2>2, TooSmall
  <2>. QED
    BY <2>1, <2>2
<1>3. ask'.full \/ Smallest < 4 * MinOrder
  BY <1>2
<1>. QED
  BY <1>3 DEF SizeWithinCaps, CapsOf

LEMMA SizesKept ==
    ASSUME SizingInv, [SizingNext]_sizingVars
    PROVE  SizingInv'
<1>. USE DEF SizingInv
<1>0. Numbers(ask) /\ notional \in Nat
  OBVIOUS
<1>1. CASE UNCHANGED sizingVars
  BY <1>1 DEF sizingVars, SizeWithinCaps, Boosted, SizedAs
<1>2. CASE Gate
  <2>1. ask' = ask /\ notional' = 0
    BY <1>2 DEF Gate, GoTo
  <2>2. CASE sizingAt' = "suppressed"
    <3>1. AvailableSol(ask) = 0 \/ DailyRemaining(ask) = 0
      BY <1>2, <2>2 DEF Gate, GoTo
    <3>2. SizeWithinCaps'
      BY <2>1, <2>2, <3>1, SuppressedFor
    <3>. QED
      BY <2>1, <2>2, <3>2
  <2>3. CASE sizingAt' = "size"
    <3>1. AvailableSol(ask) > 0 /\ DailyRemaining(ask) > 0
      BY <1>2, <2>3 DEF Gate, GoTo
    <3>2. SizeWithinCaps'
      BY <2>3 DEF SizeWithinCaps
    <3>. QED
      BY <2>1, <2>3, <3>1, <3>2
  <2>. QED
    BY <1>2, <2>2, <2>3 DEF Gate, GoTo
<1>3. CASE ChooseSize
  <2>. DEFINE limit == ConstrainedCaps(ask)[Limiting(ConstrainedCaps(ask))]
  <2>1. /\ ask' = ask /\ sizingAt' = "boost" /\ sizingAt = "size"
        /\ ask.constrained /\ notional' = Rounded(limit.value)
    BY <1>3 DEF ChooseSize, GoTo
  <2>2. limit.value = Min(CapsOf(ask))
    BY <1>0, LimitIs
  <2>3. notional' = SizedAs(ask)
    BY <2>1, <2>2 DEF SizedAs
  <2>4. SizedAs(ask) \in Nat
    BY <1>0, SizedFacts
  <2>5. SizeWithinCaps'
    BY <2>1 DEF SizeWithinCaps
  <2>. HIDE DEF limit
  <2>. QED
    BY <2>1, <2>3, <2>4, <2>5
<1>4. CASE ComputeSizing
  <2>1. /\ ask' = ask /\ sizingAt' = "boost" /\ sizingAt = "size"
        /\ ~ ask.constrained
        /\ notional' = IF ask.full THEN 0
                       ELSE Min({(Base(ask) * ask.multiplier) \div 4, Base(ask),
                                 AvailableSol(ask)})
    BY <1>4 DEF ComputeSizing, GoTo, Base
  <2>2. notional' = SizedAs(ask)
    BY <2>1 DEF SizedAs
  <2>3. SizedAs(ask) \in Nat
    BY <1>0, SizedFacts
  <2>4. SizeWithinCaps'
    BY <2>1 DEF SizeWithinCaps
  <2>. QED
    BY <2>1, <2>2, <2>3, <2>4
<1>5. CASE LeaderBoost
  <2>. DEFINE s == SizedAs(ask)   more == {s + s \div 4, BoostLimit(ask)}
              boosted == Min(more)
              final == IF ask.leader /\ s > 0 /\ boosted > s THEN boosted ELSE s
  <2>1. /\ ask' = ask /\ sizingAt = "boost" /\ notional' = final
        /\ sizingAt' = IF final > 0 THEN "round" ELSE "suppressed"
    BY <1>5 DEF LeaderBoost, GoTo
  <2>2. s \in Nat /\ s \div 4 \in Nat
    BY <1>0, SizedFacts, Quotient
  <2>3. BoostLimit(ask) \in Nat
    <3>. DEFINE S == {x \in {NoCap, AvailableSol(ask), DailyRemaining(ask), ask.perName,
                             ask.impact, ask.flow} : x > 0}
    <3>1. BoostLimit(ask) = Min(S)
      BY DEF BoostLimit
    <3>2. S \subseteq Nat /\ S # {}
      BY <1>0, <2>1, CapFacts, SizingConstants DEF Numbers, SizingConstants
    <3>. HIDE DEF S
    <3>. QED
      BY <3>1, <3>2, LeastMin
  <2>4. boosted \in Nat /\ boosted <= s + s \div 4 /\ boosted <= BoostLimit(ask)
    <3>1. more \subseteq Nat /\ more # {} /\ s + s \div 4 \in more /\ BoostLimit(ask) \in more
      BY <2>2, <2>3
    <3>. HIDE DEF more
    <3>. QED
      BY <3>1, LeastMin
  <2>5. final \in Nat /\ (final = s \/ Boosted(final, ask))
    <3>. HIDE DEF boosted
    <3>. QED
      BY <2>2, <2>4 DEF Boosted
  <2>6. CASE final > 0
    <3>1. sizingAt' = "round" /\ SizeWithinCaps'
      BY <2>1, <2>6 DEF SizeWithinCaps
    <3>2. final = SizedAs(ask)' \/ Boosted(final, ask)'
      BY <2>1, <2>5 DEF SizedAs, Boosted
    <3>. HIDE DEF final
    <3>. QED
      BY <2>1, <2>5, <2>6, <3>1 DEF SizedAs, Boosted
  <2>7. CASE ~ (final > 0)
    <3>1. s = 0
      <4>. HIDE DEF boosted, s
      <4>. QED
        BY <2>2, <2>4, <2>7
    <3>2. Rounded(s) < MinOrder
      BY <3>1, RoundedFacts, SizingConstants DEF SizingConstants
    <3>3. sizingAt' = "suppressed"
      BY <2>1, <2>7
    <3>4. SizeWithinCaps'
      BY <2>1, <3>2, <3>3, SuppressedFor
    <3>. HIDE DEF final
    <3>. QED
      BY <2>1, <2>5, <3>3, <3>4
  <2>. QED
    BY <2>6, <2>7
<1>6. CASE Round
  <2>1. sizingAt = "round" /\ ask' = ask
    BY <1>6 DEF Round, GoTo
  <2>2. SizedAs(ask) \in Nat /\ SizedAs(ask) <= notional
    <3>1. SizedAs(ask) \in Nat
      BY <1>0, SizedFacts
    <3>. QED
      BY <2>1, <3>1 DEF Boosted
  <2>3. CASE Rounded(notional) < MinOrder
    <3>1. sizingAt' = "suppressed" /\ notional' = 0
      BY <1>6, <2>3 DEF Round, GoTo
    <3>2. Rounded(SizedAs(ask)) <= Rounded(notional)
      BY <1>0, <2>2, RoundedFacts
    <3>3. Rounded(SizedAs(ask)) < MinOrder
      <4>1. Rounded(SizedAs(ask)) \in Nat /\ Rounded(notional) \in Nat /\ MinOrder \in Nat
        BY <1>0, <2>2, RoundedFacts, SizingConstants DEF SizingConstants
      <4>. QED
        BY <2>3, <3>2, <4>1
    <3>4. SizeWithinCaps'
      BY <2>1, <3>1, <3>3, SuppressedFor
    <3>. QED
      BY <2>1, <3>1, <3>4
  <2>4. CASE ~ (Rounded(notional) < MinOrder)
    <3>1. GoTo("sent", Rounded(notional), why)
      BY <1>6, <2>4 DEF Round
    <3>2. SizeWithinCaps'
      BY <2>1, <3>1, SentWithin
    <3>3. notional' \in Nat /\ sizingAt' = "sent"
      BY <1>0, <3>1, RoundedFacts DEF GoTo
    <3>. QED
      BY <2>1, <3>2, <3>3
  <2>. QED
    BY <2>3, <2>4
<1>. QED
  BY <1>1, <1>2, <1>3, <1>4, <1>5, <1>6 DEF SizingNext

LEMMA SizingInvariant == SizingSpec => []SizingInv
<1>1. SizingInit => SizingInv
  <2>. SUFFICES ASSUME SizingInit PROVE SizingInv
    OBVIOUS
  <2>1. /\ Amount \subseteq Nat /\ Equity \subseteq Nat /\ NoCap \in Nat
        /\ \A x \in Equity : x < NoCap
    BY SizingConstants DEF SizingConstants
  <2>2. ask \in [constrained : BOOLEAN, equity : Equity, pct : {0, 50},
                absolute : {0, 20}, used : {0, 12}, arm : Amount, perName : Amount,
                usd : {12, NoCap}, impact : Amount, flow : {0, 20},
                multiplier : {2, 8}, full : BOOLEAN, leader : BOOLEAN]
        /\ (ask.constrained => ask.multiplier = 8 /\ ~ ask.full)
        /\ (~ ask.constrained => ask.usd = NoCap)
    BY DEF SizingInit
  <2>3. Numbers(ask)
    <3>1. /\ ask.constrained \in BOOLEAN /\ ask.full \in BOOLEAN /\ ask.leader \in BOOLEAN
          /\ ask.equity \in Equity /\ ask.pct \in {0, 50} /\ ask.absolute \in {0, 20}
          /\ ask.used \in {0, 12} /\ ask.arm \in Amount /\ ask.perName \in Amount
          /\ ask.usd \in {12, NoCap} /\ ask.impact \in Amount /\ ask.flow \in {0, 20}
          /\ ask.multiplier \in {2, 8}
      BY <2>2
    <3>2. {ask.equity, ask.pct, ask.absolute, ask.used, ask.arm, ask.perName, ask.usd,
           ask.impact, ask.flow, ask.multiplier} \subseteq Nat
      <4>1. ask.arm \in Nat /\ ask.perName \in Nat /\ ask.impact \in Nat /\ ask.equity \in Nat
        BY <2>1, <3>1
      <4>2. /\ ask.pct \in Nat /\ ask.absolute \in Nat /\ ask.used \in Nat
            /\ ask.usd \in Nat /\ ask.flow \in Nat /\ ask.multiplier \in Nat
        BY <2>1, <3>1
      <4>. QED
        BY <4>1, <4>2
    <3>3. ask.equity < NoCap
      BY <2>1, <3>1
    <3>. QED
      BY <2>2, <3>1, <3>2, <3>3 DEF Numbers
  <2>. QED
    BY <2>3 DEF SizingInit, SizingInv, SizeWithinCaps
<1>. QED
  BY <1>1, SizesKept, PTL DEF SizingSpec

LEMMA SizesFollow == SizingInv => SizeWithinCaps
  BY DEF SizingInv

LEMMA GateFollows == GateInv => RankedAmongFresh
  BY DEF GateInv

-----------------------------------------------------------------------------

\* No order the policy engine sends is larger than a cap it knows of but for the rounding
\* and a leader's boost, no plan is admitted over a cap its snapshot shows, none is ranked
\* among other than fresh scores, and no attempt is made at a slippage or a price out of
\* its arm's and its preset's bounds: whatever the wallet, the caps and the arms are, and
\* in every interleaving of the admissions, fills and refreshes (policy-engine index.ts,
\* sizing.ts and risk.ts; the executor's fee terms).
THEOREM OrdersKeepBounds ==
    AdmissionSpec /\ GateSpec /\ SizingSpec /\ TermSpec => []OrdersAreBounded
<1>1. CapsInv /\ GateInv /\ SizingInv /\ TermInv => OrdersAreBounded
  BY CapsFollow, GateFollows, SizesFollow, TermsFollow DEF OrdersAreBounded
<1>. QED
  BY <1>1, CapsInvariant, GateInvariant, SizingInvariant, TermInvariant, PTL
=============================================================================
