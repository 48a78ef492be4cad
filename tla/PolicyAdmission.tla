-------------------------- MODULE PolicyAdmission --------------------------
(***************************************************************************)
(* The policy engine's candidate handler up to the plan it emits.  Each    *)
(* candidate has a handler of its own; they overlap.  A handler takes the  *)
(* wallet snapshot, its own or a cached one, awaits the congestion level,  *)
(* sizes the order on that snapshot, looks at the trading caps in the      *)
(* database and emits.  What it emitted reaches the snapshot only when the *)
(* executor has recorded a fill, and the position caps only when the       *)
(* position manager has heard of it.  Scores and probabilities decide      *)
(* whether a candidate is rejected and how far its size stays below the    *)
(* caps: both are open here.  Amounts are in units of the smallest order.  *)
(* The gate, the size of an order by itself and its terms are modules of   *)
(* their own, which share no state with this one.                          *)
(***************************************************************************)
EXTENDS Naturals, FiniteSets, AlphaGate, OrderSizing, FeeTerms

CONSTANTS
    Buyable,        \* the candidates, each of a mint of its own
    Constrained,    \* features.constrainedSizing
    Funds,          \* the wallet's balance at the start
    Reserves,       \* wallet.reservesSol
    DailyCap,       \* dailySpendCapSol
    ArmSize,        \* the largest sizing arm
    ConcurrencyCap, \* wallet.concurrencyCap
    MaxOpen,        \* trading.maxOpenPositions
    MaxDailyNew,    \* trading.maxDailyNew
    MaxDays         \* bound: midnights

ASSUME AdmissionConstants ==
    /\ Constrained \in BOOLEAN
    /\ {Funds, Reserves, DailyCap, ArmSize, ConcurrencyCap, MaxOpen, MaxDailyNew,
        MaxDays} \subseteq Nat
    /\ Reserves <= Funds /\ IsFiniteSet(Buyable)

VARIABLES
    stage,      \* of each handler
    basis,      \* the snapshot the handler works on
    size,       \* the size it arrived at
    snapshot,   \* WalletManager.lastSnapshot
    fresh,      \* lastWalletRefresh is less than 5 s ago
    balance,    \* the wallet, on chain
    order,      \* of each candidate: "none", "sent", "filled", "failed"
    spent,      \* getDailyExecutedSpendSince midnight
    bought,     \* countNewPositionsToday
    position,   \* of each candidate's mint: "none", "open", "closed"
    days,
    raced       \* history: emitted although some plan was not in the basis yet

admissionVars == <<stage, basis, size, snapshot, fresh, balance, order, spent,
                   bought, position, days, raced>>

\* known: history, the orders that were settled when the balance was read and
\* whose positions, if any, were in the database when it was.
NoSnapshot == [equity |-> 0, used |-> 0, open |-> 0, known |-> {}]

AdmissionInit ==
    /\ stage = [c \in Buyable |-> "new"]
    /\ basis = [c \in Buyable |-> NoSnapshot]
    /\ size = [c \in Buyable |-> 0]
    /\ snapshot = NoSnapshot /\ fresh = FALSE
    /\ balance = Funds
    /\ order = [c \in Buyable |-> "none"]
    /\ spent = 0 /\ bought = 0
    /\ position = [c \in Buyable |-> "none"]
    /\ days = 0 /\ raced = FALSE

Less(a, b) == IF a > b THEN a - b ELSE 0
Free(s) == Less(s.equity, Reserves)
SpendRemaining(s) == Less(DailyCap, s.used)

OpenPositions == {c \in Buyable : position[c] = "open"}
Settled == {c \in Buyable : order[c] \in {"filled", "failed"}}
Unheard == {c \in Buyable : order[c] = "filled" /\ position[c] = "none"}
Emitted == {c \in Buyable : order[c] # "none"}

At(c, where) == stage' = [stage EXCEPT ![c] = where]

-----------------------------------------------------------------------------
(* The handler *)

\* A gate closes, before or after the awaits: alpha, rug, safety, no wallet,
\* the realized loss, an order too small.
Rejected(c) ==
    /\ stage[c] \in {"new", "sizing", "sized"}
    /\ At(c, "done")
    /\ UNCHANGED <<basis, size, snapshot, fresh, balance, order, spent, bought,
                   position, days, raced>>

\* After the await of refreshWallet: minFreeSol (taken as one unit) and the
\* daily cap.
WithSnapshot(c, s) ==
    /\ basis' = [basis EXCEPT ![c] = s]
    /\ At(c, IF Free(s) > 0 /\ SpendRemaining(s) > 0 THEN "sizing" ELSE "done")

TakeSnapshot(c) ==
    /\ stage[c] = "new" /\ fresh
    /\ WithSnapshot(c, snapshot)
    /\ UNCHANGED <<size, snapshot, fresh, balance, order, spent, bought, position,
                   days, raced>>

\* WalletManager.refresh asks for the balance; handlers do not wait for each other.
ReadBalance(c) ==
    /\ stage[c] = "new" /\ ~fresh
    /\ At(c, "reading")
    /\ basis' = [basis EXCEPT ![c] = [NoSnapshot EXCEPT !.equity = balance,
                                                        !.known = Settled]]
    /\ UNCHANGED <<size, snapshot, fresh, balance, order, spent, bought, position,
                   days, raced>>

\* The balance is there: the rest is read from the database.
Refresh(c) ==
    /\ stage[c] = "reading"
    /\ snapshot' = [basis[c] EXCEPT !.used = spent, !.open = Cardinality(OpenPositions),
                                    !.known = @ \ Unheard]
    /\ fresh' = TRUE
    /\ WithSnapshot(c, snapshot')
    /\ UNCHANGED <<size, balance, order, spent, bought, position, days, raced>>

SnapshotAges ==
    /\ fresh
    /\ fresh' = FALSE
    /\ UNCHANGED <<stage, basis, size, snapshot, balance, order, spent, bought,
                   position, days, raced>>

\* Bug: the day's spending is left out of the limit.
SizeLimit_IgnoresSpend(s) ==
    IF ~Constrained /\ s.open >= ConcurrencyCap THEN {}
    ELSE {n \in 1..ArmSize : n <= Free(s)}

\* chooseSize or computeSizing, then the leader boost: each keeps within the
\* free balance and what is left of the daily cap; only computeSizing looks at
\* the positions.
SizeLimit(s) ==
    IF ~Constrained /\ s.open >= ConcurrencyCap THEN {}
    ELSE {n \in 1..ArmSize : n <= Free(s) /\ n <= SpendRemaining(s)}

\* The congestion level is there; an import is awaited after the sizing.
Sized(c) ==
    /\ stage[c] = "sizing"
    /\ \E n \in SizeLimit(basis[c]) : size' = [size EXCEPT ![c] = n]
    /\ At(c, "sized")
    /\ UNCHANGED <<basis, snapshot, fresh, balance, order, spent, bought, position,
                   days, raced>>

WithinTradingCaps == Cardinality(OpenPositions) < MaxOpen /\ bought < MaxDailyNew

EmitPlan(c) ==
    /\ stage[c] = "sized" /\ WithinTradingCaps
    /\ At(c, "done")
    /\ order' = [order EXCEPT ![c] = "sent"]
    /\ raced' = (\/ raced \/ ~(Emitted \subseteq basis[c].known)
                 \/ Unheard # {})
    /\ UNCHANGED <<basis, size, snapshot, fresh, balance, spent, bought, position, days>>

-----------------------------------------------------------------------------
(* The executor and the position manager, in the order their rows appear *)

Fill(c) ==
    /\ order[c] = "sent"
    /\ order' = [order EXCEPT ![c] = "filled"]
    /\ balance' = Less(balance, size[c])
    /\ spent' = spent + size[c]
    /\ bought' = bought + 1
    /\ UNCHANGED <<stage, basis, size, snapshot, fresh, position, days, raced>>

NoFill(c) ==
    /\ order[c] = "sent"
    /\ order' = [order EXCEPT ![c] = "failed"]
    /\ UNCHANGED <<stage, basis, size, snapshot, fresh, balance, spent, bought,
                   position, days, raced>>

PositionOpens(c) ==
    /\ order[c] = "filled" /\ position[c] = "none"
    /\ position' = [position EXCEPT ![c] = "open"]
    /\ UNCHANGED <<stage, basis, size, snapshot, fresh, balance, order, spent, bought,
                   days, raced>>

PositionCloses(c) ==
    /\ position[c] = "open"
    /\ position' = [position EXCEPT ![c] = "closed"]
    /\ \E got \in {0, size[c]} : balance' = balance + got
    /\ UNCHANGED <<stage, basis, size, snapshot, fresh, order, spent, bought, days, raced>>

\* The daily sums start at midnight, UTC.
Midnight ==
    /\ days < MaxDays
    /\ days' = days + 1
    /\ spent' = 0 /\ bought' = 0
    /\ UNCHANGED <<stage, basis, size, snapshot, fresh, balance, order, position, raced>>

AdmissionNext ==
    \/ SnapshotAges \/ Midnight
    \/ \E c \in Buyable :
        \/ Rejected(c) \/ TakeSnapshot(c) \/ ReadBalance(c) \/ Refresh(c)
        \/ Sized(c) \/ EmitPlan(c)
        \/ Fill(c) \/ NoFill(c) \/ PositionOpens(c) \/ PositionCloses(c)

AdmissionSpec == AdmissionInit /\ [][AdmissionNext]_admissionVars

-----------------------------------------------------------------------------
(* Properties *)

\* The day's spending, the reserves and the numbers of positions keep their
\* caps, over restarts of the snapshot, exits and midnights, unless a plan was
\* emitted while another one was still missing from what its handler looked at:
\* the awaits and the cached snapshot break the caps in that way only.
CapsHold ==
    \/ raced
    \/ /\ spent <= DailyCap /\ balance >= Reserves
       /\ bought <= MaxDailyNew /\ Cardinality(OpenPositions) <= MaxOpen
       /\ Constrained \/ Cardinality(OpenPositions) <= ConcurrencyCap

\* What the policy engine orders passed its gates by numbers that held at the time, is
\* sized within the caps, and is sent on terms that are bounded.
OrdersAreBounded == CapsHold /\ RankedAmongFresh /\ SizeWithinCaps /\ TermsAreBounded
=============================================================================
