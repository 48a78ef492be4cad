------------------------------ MODULE FeeTerms ------------------------------
(***************************************************************************)
(* The terms an order is sent with: what the policy engine puts in its     *)
(* plan by the age of the pool, and what the executor decides at each      *)
(* attempt, which is a fee arm, raised for some time after the mint's      *)
(* migration, and at the first attempt a floor by congestion and size.     *)
(* Orders of one mint follow each other; migrations of it may come         *)
(* between them and between their attempts.  Prices are in hundreds of     *)
(* micro-lamports, slippages in parts of the bound, times in parts of the  *)
(* preset's duration.                                                      *)
(***************************************************************************)
EXTENDS Naturals, SequencesExt

CONSTANTS
    FeeArms,        \* execution.feeArms; without any no attempt is made
    Preset,         \* duration, decay, bump, minSlippage
    Priority,       \* base, floor, max, perSol
    MaxTermTime     \* bound: the clock

ASSUME TermConstants ==
    /\ MaxTermTime \in Nat
    /\ FeeArms \in Seq([cuPrice : Nat, slippage : Nat]) /\ FeeArms # <<>>
    /\ Preset \in [duration : Nat, decay : Nat \ {0}, bump : Nat, minSlippage : Nat]
    /\ Priority \in [base : Nat, floor : Nat, max : Nat, perSol : Nat]

Level == {"p25", "p50", "p75", "p90"}

VARIABLES
    feeBandit,  \* features.feeBandit
    termTime,
    migrated,   \* getLatestMigrationEvent: its time, 0 when there is none
    planTerms,  \* of the plan that comes next: slippage, tip and congestion
    terms,      \* of the last attempt
    formerly    \* history: of the attempt before it

termVars == <<feeBandit, termTime, migrated, planTerms, terms, formerly>>

NoTerms == [attempt |-> 0, arm |-> 0, cuPrice |-> 0, slippage |-> 0, migration |-> 0,
            level |-> "p50", size |-> 0]

NoPlan == [age |-> 0, slippage |-> 0, tip |-> 0, level |-> "none"]

TermInit ==
    /\ feeBandit \in BOOLEAN
    /\ termTime = 1 /\ migrated = 0
    /\ planTerms = NoPlan
    /\ terms = NoTerms /\ formerly = NoTerms

Larger(a, b) == IF a > b THEN a ELSE b
Smaller(a, b) == IF a < b THEN a ELSE b

TermTick ==
    /\ termTime < MaxTermTime
    /\ termTime' = termTime + 1
    /\ UNCHANGED <<feeBandit, migrated, planTerms, terms, formerly>>

Migrates ==
    /\ migrated' = termTime /\ migrated # termTime
    /\ UNCHANGED <<feeBandit, termTime, planTerms, terms, formerly>>

-----------------------------------------------------------------------------
(* The plan *)

SlippageByPoolAge(age) ==
    CASE age < 30 -> <<500, 800>>
      [] age \in 30..59 -> <<300, 500>>
      [] age \in 60..119 -> <<100, 200>>
      [] age >= 120 -> <<50, 150>>

PickSlippage(age, wanted) ==
    Smaller(Larger(wanted, SlippageByPoolAge(age)[1]), SlippageByPoolAge(age)[2])

\* Of the range of the level, in hundreds of thousands of lamports: the most, or none
\* without Jito.
PickTip(level) ==
    CASE level = "p25" -> {0, 3} [] level = "p50" -> {0, 9}
      [] level = "p75" -> {0, 24} [] level = "p90" -> {0, 39}

Plan(age, wanted, level) ==
    /\ planTerms = NoPlan
    /\ \E tip \in PickTip(level) :
        planTerms' = [age |-> age, slippage |-> PickSlippage(age, wanted), tip |-> tip,
                      level |-> level]
    /\ terms' = NoTerms /\ formerly' = NoTerms
    /\ UNCHANGED <<feeBandit, termTime, migrated>>

-----------------------------------------------------------------------------
(* The attempts *)

\* selectArm: what was learned has no part for the arms' own features, which come last,
\* so that only their length decides; the first of the longest is taken, whether or not
\* it is among the eligible ones.
ArmLength(a) ==
    LET cu == 300 * Smaller(100, a.cuPrice)
        slip == 100 * Smaller(300, a.slippage)
    IN  cu * cu + slip * slip

SelectArm ==
    CHOOSE i \in DOMAIN FeeArms :
        /\ \A j \in DOMAIN FeeArms : ArmLength(FeeArms[j]) <= ArmLength(FeeArms[i])
        /\ \A j \in 1..(i - 1) : ArmLength(FeeArms[j]) < ArmLength(FeeArms[i])

\* Bug: the decay runs the wrong way.
PresetWeight_Grows(age) == age - Preset.duration

\* What is left of the preset, in parts of its decay.
PresetWeight(age) ==
    IF age <= Preset.duration THEN Preset.decay
    ELSE IF age <= Preset.duration + Preset.decay THEN Preset.duration + Preset.decay - age
    ELSE 0

Halved(n, d) == (2 * n + d) \div (2 * d)

\* applyMigrationPresetAdjustment
Adjusted(a) ==
    LET w == PresetWeight(termTime - migrated)
        blended == Halved(Preset.minSlippage * w + a.slippage * (Preset.decay - w), Preset.decay)
    IN  IF migrated = 0 \/ w = 0 THEN a
        ELSE [cuPrice |-> a.cuPrice + Halved(Preset.bump * w, Preset.decay),
              slippage |-> Larger(a.slippage, blended)]

CongestionMultiplier(level) ==
    CASE level = "p25" -> 6 [] level = "p50" -> 10 [] level = "p75" -> 15 [] level = "p90" -> 20

\* computePriorityFeeMicroLamports
PriorityFee(level, size) ==
    LET raw == Halved((Priority.base + size * Priority.perSol) * CongestionMultiplier(level), 10)
    IN  Smaller(Larger(Priority.floor, raw), Larger(Priority.floor, Priority.max))

\* The floor is that of the first attempt: a retry has the arm and the preset only.
Attempt(n, level, size) ==
    \E i \in IF feeBandit THEN {SelectArm} ELSE DOMAIN FeeArms :
        LET a == Adjusted(FeeArms[i])
        IN  terms' = [attempt |-> n, arm |-> i, slippage |-> a.slippage,
                      migration |-> migrated, level |-> level, size |-> size,
                      cuPrice |-> IF n = 1 THEN Larger(a.cuPrice, PriorityFee(level, size))
                                  ELSE a.cuPrice]

Execute(size) ==
    /\ planTerms # NoPlan
    /\ Attempt(1, planTerms.level, size)
    /\ planTerms' = NoPlan
    /\ UNCHANGED <<feeBandit, termTime, migrated, formerly>>

\* Without a route and an arm that are eligible the terms stay.
RetryOnce ==
    /\ terms.attempt = 1
    /\ Attempt(2, terms.level, terms.size) \/ terms' = [terms EXCEPT !.attempt = 2]
    /\ formerly' = terms
    /\ UNCHANGED <<feeBandit, termTime, migrated, planTerms>>

TermNext ==
    \/ TermTick \/ Migrates \/ RetryOnce
    \/ \E age \in {29, 30, 60, 120}, wanted \in {100, 850}, level \in {"p25", "p90"} :
        Plan(age, wanted, level)
    \/ \E size \in {0, 2} : Execute(size)

TermSpec == TermInit /\ [][TermNext]_termVars

-----------------------------------------------------------------------------
(* Property *)

\* An attempt's slippage and price are those of its arm, raised by at most the preset
\* and, the price, the floor; what an order offers does not rise from its first attempt
\* to its retry when the arm is the same and the mint has not migrated again; more
\* congestion never makes the floor lower; the plan's slippage suits the pool's age; and
\* with the bandit both attempts have the same arm, for nothing it learns tells arms apart.
TermsAreBounded ==
    /\ terms.attempt > 0 =>
        LET a == FeeArms[terms.arm]
        IN  /\ terms.slippage \in a.slippage..Larger(a.slippage, Preset.minSlippage)
            /\ terms.cuPrice >= a.cuPrice
            /\ terms.cuPrice <=
                Larger(a.cuPrice + Preset.bump, PriorityFee(terms.level, terms.size))
            /\ migrated = 0 => terms.slippage = a.slippage
    /\ terms.attempt = 2 /\ formerly.arm = terms.arm /\ formerly.migration = terms.migration =>
        terms.slippage <= formerly.slippage /\ terms.cuPrice <= formerly.cuPrice
    /\ feeBandit /\ terms.attempt = 2 => formerly.arm = terms.arm
    /\ terms.attempt = 1 =>
        /\ PriorityFee("p25", terms.size) <= terms.cuPrice
        /\ terms.level = "p90" => PriorityFee("p75", terms.size) <= terms.cuPrice
    /\ planTerms.age >= 120 => planTerms.slippage <= 150
=============================================================================
