--------------------------- MODULE OrderExecution ---------------------------
(***************************************************************************)
(* The executor: executePlan, the transaction sender it calls and the      *)
(* route statistics it keeps, for orders that are executed concurrently.   *)
(* The plan stream and POST /execute start executions; each is suspended   *)
(* at its awaits while others run.  Between two awaits the event loop      *)
(* belongs to one execution: its database writes are steps of their own    *)
(* because the process can die between them, but no other execution moves. *)
(*                                                                         *)
(* Every attempt signs a new transaction, named by order and attempt.  The *)
(* chain decides its fate whatever the executor believes.  Amounts, fees,  *)
(* quotes and the tip transaction are left out: none changes which step    *)
(* comes next.  All plans carry the one route 'jupiter'.                   *)
(***************************************************************************)
EXTENDS Naturals, FiniteSets

CONSTANTS
    Order,          \* clientOrderIds
    MaxAttempts,    \* MAX_RETRIES
    MinAttempts,    \* routeQuarantine.minAttempts
    ThresholdNum,   \* routeQuarantine.failRateThreshold is
    ThresholdDen,   \*     ThresholdNum / ThresholdDen
    JitoEnabled,    \* execution.jitoEnabled, with a Jito URL
    ShadowMode,     \* EXECUTOR_SHADOW_MODE and ENABLE_SHADOW_OUTCOMES
    MaxWindow,      \* bound: statistics windows
    MaxFaults,      \* bound: database writes that fail, per order
    MaxCrash        \* bound: times the executor's process dies

ASSUME ConstantsAssumption ==
    /\ IsFiniteSet(Order)
    /\ MaxAttempts \in Nat \ {0} /\ MinAttempts \in Nat
    /\ ThresholdNum \in Nat /\ ThresholdDen \in Nat \ {0}
    /\ JitoEnabled \in BOOLEAN /\ ShadowMode \in BOOLEAN
    /\ MaxWindow \in Nat \ {0} /\ MaxFaults \in Nat /\ MaxCrash \in Nat

VARIABLES
    pc,         \* where each execution is; see Waiting and Running
    attempt,    \* the attempt it is in, 0 before the first
    windowOf,   \* its windowStartTs
    status,     \* orders.status, "NONE" while there is no row
    chain,      \* what became of each transaction on chain
    fills,      \* the fills table, keyed by transaction
    outcomes,   \* the exec_outcomes table: rows [order, attempt, filled]
    events,     \* fill events emitted to the trade stream, by transaction
    stats,      \* the route_stats table: attempts and fails per window
    window,     \* computeWindowStart(Date.now())
    faults,     \* history: database writes that failed, per order
    doubt,      \* history: transactions a send or a confirmation threw for
    lost,       \* history: orders whose execution died with the process
    crashes

vars == <<pc, attempt, windowOf, status, chain, fills, outcomes, events,
          stats, window, faults, doubt, lost, crashes>>

Waiting == {"quote", "build", "bundle", "bundleConfirm", "send", "confirm", "meta"}
Running == {"outcome", "order", "route", "caught", "giveUp"}
Window == 1..MaxWindow
Tx == Order \X (1..MaxAttempts)

TypeOK ==
    /\ pc \in [Order -> {"new", "done"} \cup Waiting \cup Running]
    /\ attempt \in [Order -> 0..MaxAttempts]
    /\ windowOf \in [Order -> Window]
    /\ status \in [Order -> {"NONE", "PENDING", "FILLED", "FAILED"}]
    /\ chain \in [Tx -> {"unsent", "live", "landed", "reverted", "expired"}]
    /\ fills \in SUBSET Tx
    /\ outcomes \in SUBSET [order : Order, attempt : 1..MaxAttempts, filled : BOOLEAN]
    /\ events \in SUBSET Tx
    /\ stats \in [Window -> [attempts : Nat, fails : Nat]]
    /\ window \in Window
    /\ faults \in [Order -> 0..MaxFaults]
    /\ doubt \in SUBSET Tx
    /\ lost \in SUBSET Order
    /\ crashes \in 0..MaxCrash

Init ==
    /\ pc = [o \in Order |-> "new"]
    /\ attempt = [o \in Order |-> 0]
    /\ windowOf = [o \in Order |-> 1]
    /\ status = [o \in Order |-> "NONE"]
    /\ chain = [t \in Tx |-> "unsent"]
    /\ fills = {}
    /\ outcomes = {}
    /\ events = {}
    /\ stats = [w \in Window |-> [attempts |-> 0, fails |-> 0]]
    /\ window = 1
    /\ faults = [o \in Order |-> 0]
    /\ doubt = {}
    /\ lost = {}
    /\ crashes = 0

-----------------------------------------------------------------------------
CurrentTx(o) == <<o, attempt[o]>>
Goto(o, next) == pc' = [pc EXCEPT ![o] = next]

\* An execution resumes at an await when no other one is between two awaits.
Resume(o, at) == pc[o] \in at /\ \A p \in Order : pc[p] \notin Running

\* The quarantine rule of loadRouteStats and recordRouteAttempt.
Excluded(s) ==
    /\ s.attempts >= MinAttempts
    /\ s.fails * ThresholdDen > ThresholdNum * s.attempts

\* Mutant of Counted: an attempt is counted in the window it ends in.
Counted_WindowNow(o, ok) ==
    [stats EXCEPT ![window] = [attempts |-> @.attempts + 1,
                               fails |-> IF ok THEN @.fails ELSE @.fails + 1]]

\* recordRouteAttempt, in the window the execution started in.
Counted(o, ok) ==
    [stats EXCEPT ![windowOf[o]] = [attempts |-> @.attempts + 1,
                                    fails |-> IF ok THEN @.fails ELSE @.fails + 1]]

WriteFails(o) ==
    /\ faults[o] < MaxFaults
    /\ faults' = [faults EXCEPT ![o] = @ + 1]

recordVars == <<status, fills, outcomes, events>>
historyVars == <<doubt, lost, crashes>>

-----------------------------------------------------------------------------
(* executePlan, before the attempts *)

\* The handler skips the plan: no wallet, no candidate.
Skip(o) ==
    /\ Resume(o, {"new"})
    /\ Goto(o, "done")
    /\ UNCHANGED <<attempt, windowOf, chain, recordVars, stats, window, faults, historyVars>>

\* The order is recorded as PENDING and the statistics of the window are read.
\* A quarantined route ends the execution here, and so may an invalid amount
\* or fee arms that all miss the bar.
Accept(o) ==
    /\ Resume(o, {"new"})
    /\ status' = [status EXCEPT ![o] = "PENDING"]
    /\ windowOf' = [windowOf EXCEPT ![o] = window]
    /\ \/ ~ Excluded(stats[window]) /\ Goto(o, "quote")
       \/ Goto(o, "done")
    /\ UNCHANGED <<attempt, chain, fills, outcomes, events, stats, window, faults, historyVars>>

\* The order's row cannot be written.
AcceptFault(o) ==
    /\ Resume(o, {"new"})
    /\ WriteFails(o)
    /\ Goto(o, "done")
    /\ UNCHANGED <<attempt, windowOf, chain, recordVars, stats, window, historyVars>>

StartAttempts(o) ==
    /\ attempt' = [attempt EXCEPT ![o] = 1]
    /\ Goto(o, "build")

\* The first quote: its failure is not caught, the order stays PENDING.
Quote(o) ==
    /\ Resume(o, {"quote"})
    /\ \/ ~ ShadowMode /\ StartAttempts(o)
       \/ Goto(o, "done") /\ UNCHANGED attempt
    /\ UNCHANGED <<windowOf, chain, recordVars, stats, window, faults, historyVars>>

\* In shadow mode the quote is followed by a synthetic outcome and a return.
\* When the outcome cannot be recorded the error is logged and the attempts
\* begin, as they do outside shadow mode.
ShadowFault(o) ==
    /\ Resume(o, {"quote"})
    /\ ShadowMode
    /\ WriteFails(o)
    /\ StartAttempts(o)
    /\ UNCHANGED <<windowOf, chain, recordVars, stats, window, historyVars>>

-----------------------------------------------------------------------------
(* One attempt: build, send and confirm *)

\* A new transaction is built from the quote and signed, or the build throws.
Build(o) ==
    /\ Resume(o, {"build"})
    /\ \/ Goto(o, IF JitoEnabled THEN "bundle" ELSE "send")
       \/ Goto(o, "caught")
    /\ UNCHANGED <<attempt, windowOf, chain, recordVars, stats, window, faults, historyVars>>

\* What a request that carries the transaction does to it, answered or not.
Broadcast(o) ==
    chain' = [chain EXCEPT ![CurrentTx(o)] = IF @ = "unsent" THEN "live" ELSE @]

\* The bundle is posted and accepted.
SendBundle(o) ==
    /\ Resume(o, {"bundle"})
    /\ Broadcast(o)
    /\ Goto(o, "bundleConfirm")
    /\ UNCHANGED <<attempt, windowOf, recordVars, stats, window, faults, historyVars>>

\* The post throws, before or after the bundle was accepted: the same
\* transaction goes to the primary RPC.
SendBundleThrows(o) ==
    /\ Resume(o, {"bundle"})
    /\ Broadcast(o) \/ UNCHANGED chain
    /\ doubt' = doubt \cup {CurrentTx(o)}
    /\ Goto(o, "send")
    /\ UNCHANGED <<attempt, windowOf, recordVars, stats, window, faults, lost, crashes>>

\* sendTransaction: its preflight accepts a transaction that is not settled.
SendPrimary(o) ==
    /\ Resume(o, {"send"})
    /\ chain[CurrentTx(o)] \in {"unsent", "live"}
    /\ Broadcast(o)
    /\ Goto(o, "confirm")
    /\ UNCHANGED <<attempt, windowOf, recordVars, stats, window, faults, historyVars>>

\* sendTransaction throws: the preflight refuses a settled transaction; a
\* request that fails may or may not have been forwarded.
SendPrimaryThrows(o) ==
    /\ Resume(o, {"send"})
    /\ Broadcast(o) \/ UNCHANGED chain
    /\ doubt' = IF chain[CurrentTx(o)] \in {"unsent", "live"}
                THEN doubt \cup {CurrentTx(o)} ELSE doubt
    /\ Goto(o, "caught")
    /\ UNCHANGED <<attempt, windowOf, recordVars, stats, window, faults, lost, crashes>>

\* Where a failure of the send that is being confirmed leads.
Fallback(o) == IF pc[o] = "bundleConfirm" THEN "send" ELSE "caught"

\* Mutant of Confirmed: a bundle's confirmation does not end the send.
Confirmed_BundleFallsThrough(o) ==
    /\ Resume(o, {"bundleConfirm", "confirm"})
    /\ chain[CurrentTx(o)] = "landed"
    /\ Goto(o, IF pc[o] = "confirm" THEN "meta" ELSE "send")
    /\ UNCHANGED <<attempt, windowOf, chain, recordVars, stats, window, faults, historyVars>>

\* confirmTransaction reports that the transaction landed.
Confirmed(o) ==
    /\ Resume(o, {"bundleConfirm", "confirm"})
    /\ chain[CurrentTx(o)] = "landed"
    /\ Goto(o, "meta")
    /\ UNCHANGED <<attempt, windowOf, chain, recordVars, stats, window, faults, historyVars>>

\* Mutant of ConfirmedErr: value.err is not looked at.
ConfirmedErr_Ignored(o) ==
    /\ Resume(o, {"bundleConfirm", "confirm"})
    /\ chain[CurrentTx(o)] = "reverted"
    /\ Goto(o, "meta")
    /\ UNCHANGED <<attempt, windowOf, chain, recordVars, stats, window, faults, historyVars>>

\* confirmTransaction reports that it failed on chain.
ConfirmedErr(o) ==
    /\ Resume(o, {"bundleConfirm", "confirm"})
    /\ chain[CurrentTx(o)] = "reverted"
    /\ Goto(o, Fallback(o))
    /\ UNCHANGED <<attempt, windowOf, chain, recordVars, stats, window, faults, historyVars>>

\* Mutant of ConfirmThrows: without a block height the wait has no end.
ConfirmThrows_NeverExpires(o) ==
    /\ Resume(o, {"bundleConfirm", "confirm"})
    /\ chain[CurrentTx(o)] # "expired"
    /\ doubt' = doubt \cup {CurrentTx(o)}
    /\ Goto(o, Fallback(o))
    /\ UNCHANGED <<attempt, windowOf, chain, recordVars, stats, window, faults, lost, crashes>>

\* confirmTransaction throws: the block height passed lastValidBlockHeight or
\* the RPC failed.  The transaction may have landed, or may yet.
ConfirmThrows(o) ==
    /\ Resume(o, {"bundleConfirm", "confirm"})
    /\ doubt' = doubt \cup {CurrentTx(o)}
    /\ Goto(o, Fallback(o))
    /\ UNCHANGED <<attempt, windowOf, chain, recordVars, stats, window, faults, lost, crashes>>

-----------------------------------------------------------------------------
(* One attempt: recording the fill, in one turn of the event loop *)

\* Mutant of RecordFill: no row when the transaction's meta is unavailable.
RecordFill_OnlyWithMeta(o) ==
    /\ Resume(o, {"meta"})
    /\ fills' = fills \cup {CurrentTx(o)} \/ UNCHANGED fills
    /\ Goto(o, "outcome")
    /\ UNCHANGED <<attempt, windowOf, chain, status, outcomes, events, stats, window, faults,
                   historyVars>>

\* The execution resumes after fetching the transaction's meta, present or not.
RecordFill(o) ==
    /\ Resume(o, {"meta"})
    /\ fills' = fills \cup {CurrentTx(o)}
    /\ Goto(o, "outcome")
    /\ UNCHANGED <<attempt, windowOf, chain, status, outcomes, events, stats, window, faults,
                   historyVars>>

\* logTradeEvent and insertExecOutcome.
RecordOutcome(o) ==
    /\ pc[o] = "outcome"
    /\ outcomes' = outcomes \cup {[order |-> o, attempt |-> attempt[o], filled |-> TRUE]}
    /\ Goto(o, "order")
    /\ UNCHANGED <<attempt, windowOf, chain, status, fills, events, stats, window, faults,
                   historyVars>>

\* The fill is emitted and the order's row becomes FILLED.  What is emitted
\* leaves the process when the turn ends.
RecordOrder(o) ==
    /\ pc[o] = "order"
    /\ events' = events \cup {CurrentTx(o)}
    /\ status' = [status EXCEPT ![o] = "FILLED"]
    /\ Goto(o, "route")
    /\ UNCHANGED <<attempt, windowOf, chain, fills, outcomes, stats, window, faults, historyVars>>

\* Mutant of RecordRoute: the loop is not left after a success.
RecordRoute_NoReturn(o) ==
    /\ pc[o] = "route"
    /\ stats' = Counted(o, TRUE)
    /\ IF attempt[o] < MaxAttempts
       THEN attempt' = [attempt EXCEPT ![o] = @ + 1] /\ Goto(o, "build")
       ELSE UNCHANGED attempt /\ Goto(o, "giveUp")
    /\ UNCHANGED <<windowOf, chain, recordVars, window, faults, historyVars>>

\* The attempt is counted as a success and executePlan returns.
RecordRoute(o) ==
    /\ pc[o] = "route"
    /\ stats' = Counted(o, TRUE)
    /\ Goto(o, "done")
    /\ UNCHANGED <<attempt, windowOf, chain, recordVars, window, faults, historyVars>>

\* One of the four writes throws: the attempt has failed like any other.
RecordFault(o) ==
    /\ pc[o] \in {"outcome", "order", "route"} \/ Resume(o, {"meta"})
    /\ WriteFails(o)
    /\ events' = IF pc[o] = "order" THEN events \cup {CurrentTx(o)} ELSE events
    /\ Goto(o, "caught")
    /\ UNCHANGED <<attempt, windowOf, chain, status, fills, outcomes, stats, window, historyVars>>

-----------------------------------------------------------------------------
(* The end of an attempt that failed *)

\* Mutant of Caught: the loop runs once too often.
Caught_OneTooMany(o) ==
    /\ pc[o] = "caught"
    /\ stats' = Counted(o, FALSE)
    /\ \/ /\ Excluded(stats'[windowOf[o]])
          /\ Goto(o, "done")
          /\ UNCHANGED attempt
       \/ /\ ~ Excluded(stats'[windowOf[o]])
          /\ attempt[o] <= MaxAttempts
          /\ attempt' = [attempt EXCEPT ![o] = @ + 1]
          /\ Goto(o, "build")
    /\ UNCHANGED <<windowOf, chain, recordVars, window, faults, historyVars>>

\* Mutant of Caught: quarantine is judged on the statistics read before.
Caught_StaleStats(o) ==
    /\ pc[o] = "caught"
    /\ stats' = Counted(o, FALSE)
    /\ \/ /\ Excluded(stats[windowOf[o]])
          /\ Goto(o, "done")
          /\ UNCHANGED attempt
       \/ /\ ~ Excluded(stats[windowOf[o]])
          /\ attempt[o] < MaxAttempts
          /\ attempt' = [attempt EXCEPT ![o] = @ + 1]
          /\ Goto(o, "build")
       \/ /\ ~ Excluded(stats[windowOf[o]])
          /\ attempt[o] = MaxAttempts
          /\ Goto(o, "giveUp")
          /\ UNCHANGED attempt
    /\ UNCHANGED <<windowOf, chain, recordVars, window, faults, historyVars>>

\* The attempt is counted as a failure.  The failure that quarantines the
\* route ends the execution; otherwise the next attempt begins, if there is one.
Caught(o) ==
    /\ pc[o] = "caught"
    /\ stats' = Counted(o, FALSE)
    /\ \/ /\ Excluded(stats'[windowOf[o]])
          /\ Goto(o, "done")
          /\ UNCHANGED attempt
       \/ /\ ~ Excluded(stats'[windowOf[o]])
          /\ attempt[o] < MaxAttempts
          /\ attempt' = [attempt EXCEPT ![o] = @ + 1]
          /\ Goto(o, "build")
       \/ /\ ~ Excluded(stats'[windowOf[o]])
          /\ attempt[o] = MaxAttempts
          /\ Goto(o, "giveUp")
          /\ UNCHANGED attempt
    /\ UNCHANGED <<windowOf, chain, recordVars, window, faults, historyVars>>

\* The order's row becomes FAILED.  The insertExecOutcome that follows leaves
\* four named parameters of its statement unbound, which better-sqlite3
\* refuses: no row is written, and the execution ends by that error instead.
GiveUp(o) ==
    /\ pc[o] = "giveUp"
    /\ status' = [status EXCEPT ![o] = "FAILED"]
    /\ Goto(o, "done")
    /\ UNCHANGED <<attempt, windowOf, chain, fills, outcomes, events, stats, window, faults,
                   historyVars>>

\* A write outside the attempt's try block throws out of executePlan: that of
\* the statistics, of the FAILED status, or of the fee decision of a retry.
EndFault(o) ==
    /\ pc[o] \in {"caught", "giveUp"} \/ (attempt[o] > 1 /\ Resume(o, {"build"}))
    /\ WriteFails(o)
    /\ Goto(o, "done")
    /\ UNCHANGED <<attempt, windowOf, chain, recordVars, stats, window, historyVars>>

-----------------------------------------------------------------------------
(* The chain, the clock and the process *)

\* A transaction that was broadcast lands, fails or outlives its blockhash.
Settle(t) ==
    /\ chain[t] = "live"
    /\ \E c \in {"landed", "reverted", "expired"} : chain' = [chain EXCEPT ![t] = c]
    /\ UNCHANGED <<pc, attempt, windowOf, recordVars, stats, window, faults, historyVars>>

RollWindow ==
    /\ window < MaxWindow
    /\ window' = window + 1
    /\ UNCHANGED <<pc, attempt, windowOf, chain, recordVars, stats, faults, historyVars>>

\* The process dies and starts again.  Nothing reads the orders table back, so
\* what was being executed is not taken up again.
Crash ==
    /\ crashes < MaxCrash
    /\ crashes' = crashes + 1
    /\ lost' = lost \cup {o \in Order : pc[o] \in Waiting \cup Running}
    /\ pc' = [o \in Order |-> IF pc[o] = "new" THEN "new" ELSE "done"]
    /\ UNCHANGED <<attempt, windowOf, chain, recordVars, stats, window, faults, doubt>>

Start(o) == Skip(o) \/ Accept(o) \/ AcceptFault(o)

Attempt(o) ==
    \/ Quote(o) \/ ShadowFault(o) \/ Build(o)
    \/ SendBundle(o) \/ SendBundleThrows(o)
    \/ SendPrimary(o) \/ SendPrimaryThrows(o)
    \/ Confirmed(o) \/ ConfirmedErr(o) \/ ConfirmThrows(o)
    \/ RecordFill(o) \/ RecordOutcome(o) \/ RecordOrder(o) \/ RecordRoute(o) \/ RecordFault(o)
    \/ Caught(o) \/ GiveUp(o) \/ EndFault(o)

Next ==
    \/ \E o \in Order : Start(o) \/ Attempt(o)
    \/ \E t \in Tx : Settle(t)
    \/ RollWindow
    \/ Crash

Spec == Init /\ [][Next]_vars

\* Requests are answered or fail, and a transaction settles.  A confirmation
\* that is waiting for a live transaction may go on waiting.
Fairness ==
    /\ \A o \in Order :
          WF_vars(Attempt(o) /\ (pc[o] \in {"bundleConfirm", "confirm"}
                                    => chain[CurrentTx(o)] # "live"))
    /\ \A t \in Tx : WF_vars(Settle(t))

FairSpec == Spec /\ Fairness
-----------------------------------------------------------------------------
(* Safety *)

TxOf(o) == {t \in Tx : t[1] = o}
Landed == {t \in Tx : chain[t] = "landed"}

\* The record is true: what the fills table, the outcomes and the trade stream
\* say was traded was traded on chain, and each is written only after the one
\* before it, whatever fails and whenever the process dies.
RecordedOnlyIfLanded ==
    /\ fills \subseteq Landed
    /\ \A r \in outcomes : r.filled => <<r.order, r.attempt>> \in fills
    /\ \A t \in events : [order |-> t[1], attempt |-> t[2], filled |-> TRUE] \in outcomes

\* A transaction that landed is missing from the fills table only while its
\* execution is still on it, or when a send or a confirmation threw for it, a
\* write failed, or the process died.
LandedIsRecorded ==
    \A t \in Landed \ fills :
        \/ t[2] = attempt[t[1]] /\ pc[t[1]] \in {"bundleConfirm", "confirm", "send", "meta"}
        \/ t \in doubt
        \/ faults[t[1]] > 0
        \/ t[1] \in lost

\* An attempt is followed by another although its own transaction landed only
\* if a send or a confirmation threw for it or a write failed: a retry never
\* trades twice on a clear answer.
RetryOnlyInDoubt ==
    \A t \in Landed :
        t[2] < attempt[t[1]] => t \in doubt \/ faults[t[1]] > 0

\* An order has one fill, and one more at most for each write that failed.
FillsPerOrder ==
    \A o \in Order : Cardinality(fills \cap TxOf(o)) <= 1 + faults[o]

\* The final status and the fills table agree: FILLED needs a fill at any
\* time, and when executePlan has ended undisturbed a fill implies FILLED.
StatusTellsFills ==
    \A o \in Order :
        /\ status[o] = "FILLED" => fills \cap TxOf(o) # {}
        /\ pc[o] = "done" /\ fills \cap TxOf(o) # {} /\ faults[o] = 0 /\ o \notin lost
              => status[o] = "FILLED"

\* Route statistics count every attempt that has ended once, in the window its
\* execution started in, although attempts end in other windows and executions
\* of both sides interleave.
Ended(o) ==
    IF pc[o] \in {"new", "quote", "done", "giveUp"} THEN attempt[o] ELSE attempt[o] - 1
RouteStatsExact ==
    (\A o \in Order : faults[o] = 0 /\ o \notin lost) =>
        \A w \in Window :
            /\ stats[w].attempts =
                  Cardinality({t \in Tx : windowOf[t[1]] = w /\ t[2] <= Ended(t[1])})
            /\ stats[w].attempts - stats[w].fails =
                  Cardinality({o \in Order : /\ windowOf[o] = w /\ pc[o] = "done"
                                             /\ status[o] = "FILLED"})

\* No execution goes on to another attempt in a window whose statistics say
\* the route is quarantined, whichever execution's failure tipped them.
RetryAllowed ==
    \A o \in Order :
        attempt'[o] > attempt[o] /\ attempt[o] > 0 => ~ Excluded(stats'[windowOf[o]])
NoRetryIntoQuarantine == [][RetryAllowed]_vars

-----------------------------------------------------------------------------
(* Liveness *)

\* Every execution ends: no chain of failures keeps one for ever.
EveryExecutionEnds ==
    \A o \in Order : pc[o] \in Waiting \cup Running ~> pc[o] = "done"

-----------------------------------------------------------------------------
(* Refinement *)

Lifecycle == INSTANCE OrderLifecycle WITH
    traded <- {t[1] : t \in fills},
    announced <- {t[1] : t \in events}

\* When no write fails, the executor keeps the promises of OrderLifecycle.
RefinesLifecycle == Lifecycle!Spec

-----------------------------------------------------------------------------
(* What comments and documents say of it *)

\* "In shadow mode, record synthetic outcome and skip real execution"
\* (services/executor/src/index.ts): no transaction is broadcast.
ShadowSendsNothing == ShadowMode => \A t \in Tx : chain[t] = "unsent"
=============================================================================
