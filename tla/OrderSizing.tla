----------------------------- MODULE OrderSizing -----------------------------
(***************************************************************************)
(* The size of one order, computed by the policy engine from the wallet    *)
(* snapshot and the candidate: chooseSize or computeSizing, then the boost *)
(* for pools that leader wallets trade in, then the rounding.  A cap that  *)
(* is a fraction of something is given as the amount it comes to.  Amounts *)
(* are in parts of the rounding step.  Risk scaling is left out: the       *)
(* handler hands chooseSize none of the figures it scales by.              *)
(***************************************************************************)
EXTENDS Naturals, FiniteSetsExt

CONSTANTS
    Amount,     \* the values a cap can have
    Equity,     \* the wallet's balances
    Withheld,   \* wallet.reservesSol
    Step,       \* of the rounding, four decimals: a multiple of two
    MinOrder,   \* MIN_ORDER_SIZE_SOL, ten times the rounding step
    NoCap       \* Infinity: more than any amount

ASSUME SizingConstants ==
    /\ Amount \subseteq Nat /\ Equity \subseteq Nat
    /\ {Withheld, MinOrder, NoCap} \subseteq Nat /\ Step \in Nat \ {0}
    /\ \E k \in 1..MinOrder : MinOrder = k * Step
    /\ \A a \in Amount \union Equity : a < NoCap

VARIABLES
    ask,        \* what the order is sized by
    sizingAt,   \* the step that comes next
    notional,   \* the size so far
    why         \* the reason noted with the size

sizingVars == <<ask, sizingAt, notional, why>>

\* usd is the amount of the cap per mint, NoCap when there is no price of SOL: the cap
\* is suspended then.  arm is the notional of the largest arm, or the risk cap.
SizingInit ==
    /\ ask \in [constrained : BOOLEAN, equity : Equity, pct : {0, 50},
                absolute : {0, 20}, used : {0, 12}, arm : Amount, perName : Amount,
                usd : {12, NoCap}, impact : Amount, flow : {0, 20},
                multiplier : {2, 8}, full : BOOLEAN, leader : BOOLEAN]
    /\ ask.constrained => ask.multiplier = 8 /\ ~ask.full
    /\ ~ask.constrained => ask.usd = NoCap
    /\ sizingAt = "gate" /\ notional = 0 /\ why = "none"

Above(a, b) == IF a > b THEN a - b ELSE 0
AvailableSol(a) == Above(a.equity, Withheld)

\* resolveDailySpendCap, which refresh and computeSizing repeat.
ResolveDailySpendCap(a) ==
    CASE a.pct > 0 /\ a.equity > 0 -> (a.equity * a.pct) \div 100
      [] ~(a.pct > 0 /\ a.equity > 0) /\ a.absolute > 0 -> a.absolute
      [] OTHER -> NoCap

DailyRemaining(a) ==
    IF ResolveDailySpendCap(a) = NoCap THEN NoCap
    ELSE Above(ResolveDailySpendCap(a), a.used)

GoTo(step, n, reason) ==
    /\ sizingAt' = step /\ notional' = n /\ why' = reason
    /\ UNCHANGED ask

-----------------------------------------------------------------------------
(* The steps *)

\* The handler's own gates, on the snapshot.
Gate ==
    /\ sizingAt = "gate"
    /\ \/ AvailableSol(ask) = 0 /\ GoTo("suppressed", 0, "min_free_sol")
       \/ /\ AvailableSol(ask) > 0 /\ DailyRemaining(ask) = 0
          /\ GoTo("suppressed", 0, "daily_cap_exhausted")
       \/ AvailableSol(ask) > 0 /\ DailyRemaining(ask) > 0 /\ GoTo("size", 0, "none")

Rounded(n) == ((n + Step \div 2) \div Step) * Step

\* The caps of chooseSize, in its order; the first of the smallest is the reason.
ConstrainedCaps(a) == <<
    [reason |-> "arm_cap", value |-> Min({AvailableSol(a), a.arm})],
    [reason |-> "wallet_free", value |-> AvailableSol(a)],
    [reason |-> "per_name_max", value |-> a.perName],
    [reason |-> "daily_cap", value |-> DailyRemaining(a)],
    [reason |-> "usd_cap", value |-> a.usd]>>

Limiting(caps) ==
    CHOOSE i \in DOMAIN caps :
        /\ \A j \in DOMAIN caps : caps[i].value <= caps[j].value
        /\ \A j \in 1..(i - 1) : caps[j].value > caps[i].value

ChooseSize ==
    LET limit == ConstrainedCaps(ask)[Limiting(ConstrainedCaps(ask))]
        n == Rounded(limit.value)
    IN  /\ sizingAt = "size" /\ ask.constrained
        /\ GoTo("boost", n, CASE n > 0 /\ limit.reason = "arm_cap" ->
                                    IF ask.usd = NoCap THEN "usd_cap_suspended" ELSE "ok"
                            [] n = 0 /\ limit.reason = "arm_cap" -> "no_available_size"
                            [] OTHER -> limit.reason)

\* The scaled size is cut at what it was scaled from.
ComputeSizing ==
    LET base == Min({ask.arm, ask.perName, ask.impact, ask.flow, DailyRemaining(ask)})
        n == Min({(base * ask.multiplier) \div 4, base, AvailableSol(ask)})
    IN  /\ sizingAt = "size" /\ ~ask.constrained
        /\ IF ask.full THEN GoTo("boost", 0, "concurrency_cap")
           ELSE GoTo("boost", n, IF n > 0 THEN "ok" ELSE "no_available_size")

\* Bug: the boosted size is held to the caps of the pool only.
BoostLimit_Pool(a) == Min({x \in {NoCap, a.perName, a.impact, a.flow} : x > 0})

\* A cap that is zero does not limit the boost.
BoostLimit(a) ==
    Min({x \in {NoCap, AvailableSol(a), DailyRemaining(a), a.perName, a.impact, a.flow} : x > 0})

\* applyLeaderSizeBoost by one tier, and the handler takes the larger size.
LeaderBoost ==
    LET boosted == Min({notional + notional \div 4, BoostLimit(ask)})
        final == IF ask.leader /\ notional > 0 /\ boosted > notional THEN boosted ELSE notional
    IN  /\ sizingAt = "boost"
        /\ GoTo(IF final > 0 THEN "round" ELSE "suppressed", final, why)

Round ==
    /\ sizingAt = "round"
    /\ IF Rounded(notional) < MinOrder THEN GoTo("suppressed", 0, "min_order_size")
       ELSE GoTo("sent", Rounded(notional), why)

SizingNext == Gate \/ ChooseSize \/ ComputeSizing \/ LeaderBoost \/ Round

SizingSpec == SizingInit /\ [][SizingNext]_sizingVars

-----------------------------------------------------------------------------
(* Property *)

Within(n, cap) == n <= cap + Step \div 2

\* A size that is sent keeps, but for the rounding, within the free balance, what is
\* left of the day and the cap per name; within the arm or the risk and the cap in USD
\* too, unless a leader's boost raised it over them by at most its quarter; and an
\* order the handler did not send had a cap below the smallest order or no place.
SizeWithinCaps ==
    /\ sizingAt = "sent" =>
        /\ Within(notional, AvailableSol(ask)) /\ Within(notional, DailyRemaining(ask))
        /\ Within(notional, ask.perName)
        /\ ~ask.constrained /\ ~ask.leader =>
            Within(notional, ask.impact) /\ Within(notional, ask.flow)
        /\ \A cap \in {ask.arm, ask.usd} :
            /\ ~ask.leader => Within(notional, cap)
            /\ 4 * notional <= 5 * (cap + Step \div 2) + 2 * Step
    /\ sizingAt = "suppressed" =>
        \/ ask.full
        \/ Min({AvailableSol(ask), DailyRemaining(ask), ask.perName, ask.arm, ask.usd}
               \union IF ask.constrained THEN {} ELSE {ask.impact, ask.flow})
            * Min({4, ask.multiplier}) < 4 * MinOrder
=============================================================================
