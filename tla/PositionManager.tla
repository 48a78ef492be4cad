-------------------------- MODULE PositionManager --------------------------
(***************************************************************************)
(* The position manager, for one mint: positions share nothing between     *)
(* mints.  Fills from the executor's trade stream change the position; a   *)
(* 7 s timer starts sweeps that evaluate it and submit exits; a flatten    *)
(* request submits one too.  A sweep waits for the executor to finish the  *)
(* order, which can take longer than 7 s, so sweeps overlap.               *)
(*                                                                         *)
(* What a sweep decides depends on prices, flow and hazard.  They are left *)
(* out: any check may find its condition true, except where the position's *)
(* own marks (ladderHits, trailActive) rule it out.  A sweep begins when   *)
(* it has a price and the module survival_stops is loaded.  Amounts are    *)
(* raw token units.  Writes to the database do not fail.                   *)
(***************************************************************************)
EXTENDS Naturals, Sequences, FiniteSets, FiniteSetsExt

CONSTANTS
    Sweep,          \* refreshPrices calls that may overlap
    Flatten,        \* the /control/flatten request
    SurvivalRungs,  \* survival.ladderLevels: how many
    LadderRungs,    \* ladders.multiplierPercents: how many
    BuyQty,         \* tokens a buy brings
    MaxBuys,        \* bound: buys
    MaxExits,       \* bound: exits submitted
    MaxFaults       \* bound: fills or answers that do not arrive, restarts

ASSUME ConstantsAssumption ==
    /\ Flatten \notin Sweep
    /\ SurvivalRungs \in Nat /\ LadderRungs \in Nat \ {0}
    /\ BuyQty \in Nat \ {0}
    /\ MaxBuys \in Nat /\ MaxExits \in Nat /\ MaxFaults \in Nat

VARIABLES
    quantity,   \* state.quantity, 0 as well while there is no entry
    hits,       \* state.ladderHits
    trail,      \* state.trailActive
    saved,      \* the row of the positions table
    pending,    \* pendingCache: the reasons whose key is there
    warm,       \* the mint's decimals are cached
    caller,     \* each caller of triggerExit: where, at which check, for which exit
    stream,     \* trade events under way to this process
    handling,   \* fills whose handler waits: for decimals, or for the SOL price
    running,    \* exits the executor is working on
    exits,      \* exits submitted so far
    fired,      \* history: the rungs among them, with the position they were for
    opened,     \* history: positions of the mint so far
    wallet,     \* tokens in the wallet, on chain
    missed,     \* history: a fill never reached the position
    buys,
    faults

positionVars == <<quantity, hits, trail, saved>>
exitVars == <<running, exits, fired>>
boundVars == <<buys, faults>>
vars == <<positionVars, pending, warm, caller, stream, handling, exitVars,
          opened, wallet, missed, boundVars>>

-----------------------------------------------------------------------------
(* The checks of evaluatePosition, in their order *)

Kill == 1
Panic == 2
HazardTrail == 3
FirstLadder == 4 + SurvivalRungs
Trail == FirstLadder + LadderRungs
HardStop == Trail + 1
ManualFlatten == 0
Check == ManualFlatten..HardStop

InSurvival(k) == HazardTrail < k /\ k < FirstLadder
InLadder(k) == FirstLadder <= k /\ k < Trail
IsRung(k) == InSurvival(k) \/ InLadder(k)

\* The index a rung is marked under: the two ladders share ladderHits.
Mark(k) == IF InSurvival(k) THEN k - HazardTrail ELSE k - FirstLadder + 1

\* The reason, by the first check that gives it.
Reason(k) == CASE k = Panic -> Kill [] k = Trail -> HazardTrail [] OTHER -> k

\* All of the position, or a quarter of it.
WholeShare(k) == ~ IsRung(k) \/ k = FirstLadder - 1 \/ k = Trail - 1
Amount(k, q) == IF WholeShare(k) THEN q ELSE IF q < 4 THEN 1 ELSE q \div 4

Caller == Sweep \cup {Flatten}
Rung == 1..(SurvivalRungs + LadderRungs)
Row == [quantity : Nat, hits : SUBSET Rung, trail : BOOLEAN]
\* exposed: the pending key is gone; unseen: submitted behind a wait for decimals.
Exit == [id : 1..MaxExits, check : Check, amount : Nat,
         exposed : BOOLEAN, unseen : BOOLEAN]
Fill == [side : {"buy", "sell"}, n : Nat, qty : Nat]

TypeOK ==
    /\ quantity \in Nat
    /\ hits \in SUBSET Rung
    /\ trail \in BOOLEAN
    /\ saved \in Row
    /\ pending \in SUBSET Check
    /\ warm \in BOOLEAN
    /\ caller \in [Caller -> [at : {"idle", "evaluating", "decimals", "answer"},
                             check : 0..HardStop + 1, exit : 0..MaxExits]]
    /\ stream \in Seq(Fill)
    /\ handling \in SUBSET [fill : Fill, at : {"decimals", "solPrice"}]
    /\ running \in SUBSET Exit
    /\ exits \in 0..MaxExits
    /\ fired \in SUBSET [id : 1..MaxExits, check : Check, position : Nat]
    /\ opened \in Nat
    /\ wallet \in Nat
    /\ missed \in BOOLEAN
    /\ buys \in 0..MaxBuys
    /\ faults \in 0..MaxFaults

Idle == [at |-> "idle", check |-> 0, exit |-> 0]

Init ==
    /\ quantity = 0
    /\ hits = {}
    /\ trail = FALSE
    /\ saved = [quantity |-> 0, hits |-> {}, trail |-> FALSE]
    /\ pending = {}
    /\ warm = FALSE
    /\ caller = [c \in Caller |-> Idle]
    /\ stream = <<>>
    /\ handling = {}
    /\ running = {}
    /\ exits = 0
    /\ fired = {}
    /\ opened = 0
    /\ wallet = 0
    /\ missed = FALSE
    /\ buys = 0
    /\ faults = 0

-----------------------------------------------------------------------------
(* The end and the interruption of a turn of the event loop *)

\* No sweep is between two awaits, so a handler may start or resume.  A sweep
\* that is shows nothing to the outside, and asks once for each reason in a
\* turn, so clocks and other processes wait for it as well.
Ready == \A c \in Caller : caller[c].at # "evaluating"

Fault == faults < MaxFaults /\ faults' = faults + 1

\* upsertPosition: the row of the mint, whatever it held.
UpsertPosition(row) == saved' = row

\* persistPosition.
Persist == UpsertPosition([quantity |-> quantity', hits |-> hits', trail |-> trail'])

Goto(c, at, k) == caller' = [caller EXCEPT ![c] = [at |-> at, check |-> k, exit |-> 0]]
Leave(c) == caller' = [caller EXCEPT ![c] = Idle]

\* Bug: the marks of a sweep are not saved behind it.
EndSweep_SavesNothing(c) ==
    /\ Leave(c)
    /\ UNCHANGED saved

\* The sweep saves the position behind evaluatePosition, however that returned.
EndSweep(c) ==
    /\ Leave(c)
    /\ Persist

\* The exits xs lose their pending keys.
Expose(xs) == running' = (running \ xs) \cup {[x EXCEPT !.exposed = TRUE] : x \in xs}

\* listOpenPositions: the row, unless it is CLOSED.
OpenPositions == {row \in {saved} : row.quantity > 0}

\* hydratePositions: the open rows, and the decimals of their mints.
Hydrate ==
    /\ warm' = (OpenPositions # {})
    /\ quantity' = saved.quantity
    /\ hits' = UNION {row.hits : row \in OpenPositions}
    /\ trail' = \E row \in OpenPositions : row.trail
    /\ UNCHANGED saved

\* The process dies and starts again; what it had not handled is gone with it.
Restart ==
    /\ Ready
    /\ Fault
    /\ Hydrate
    /\ pending' = {}
    /\ Expose(running)
    /\ caller' = [c \in Caller |-> Idle]
    /\ stream' = <<>>
    /\ handling' = {}
    /\ missed' = (missed \/ stream # <<>> \/ handling # {})
    /\ UNCHANGED <<exits, fired, opened, wallet, buys>>

-----------------------------------------------------------------------------
(* triggerExit *)

\* What follows triggerExit when it returns to check k: a rung is marked, a
\* trailing stop disarmed; all but a rung end the sweep.
AfterExit(c, k) ==
    /\ hits' = IF IsRung(k) THEN hits \cup {Mark(k)} ELSE hits
    /\ trail' = (trail /\ Reason(k) # HazardTrail)
    /\ UNCHANGED quantity
    /\ CASE IsRung(k) -> Goto(c, "evaluating", k + 1) /\ UNCHANGED saved
         [] k = ManualFlatten -> Leave(c) /\ UNCHANGED saved
         [] OTHER -> EndSweep(c)

\* The plan is posted to the executor; the key is set on the way.
Submit(c, k, unseen) ==
    /\ exits < MaxExits
    /\ exits' = exits + 1
    /\ pending' = pending \cup {Reason(k)}
    /\ running' = running \cup {[id |-> exits', check |-> k, amount |-> Amount(k, quantity),
                                 exposed |-> FALSE, unseen |-> unseen]}
    /\ fired' = IF IsRung(k)
                THEN fired \cup {[id |-> exits', check |-> k, position |-> opened]}
                ELSE fired
    /\ caller' = [caller EXCEPT ![c] = [at |-> "answer", check |-> k, exit |-> exits']]

\* Bug: the pending key is not looked up.
Suppressed_IgnoresPending(k) == quantity = 0

Suppressed(k) == Reason(k) \in pending \/ quantity = 0

\* triggerExit is called: it returns, submits or waits for the decimals.
Trigger(c, k) ==
    /\ \/ /\ Suppressed(k)
          /\ AfterExit(c, k)
          /\ UNCHANGED <<pending, exitVars>>
       \/ /\ ~ Suppressed(k)
          /\ warm
          /\ Submit(c, k, FALSE)
          /\ UNCHANGED positionVars
       \/ /\ ~ Suppressed(k)
          /\ ~ warm
          /\ Goto(c, "decimals", k)
          /\ UNCHANGED <<positionVars, pending, exitVars>>
    /\ UNCHANGED <<warm, stream, handling, opened, wallet, missed, boundVars>>

\* The decimals arrive.  The key is not looked at again.
DecimalsForExit(c) ==
    /\ Ready
    /\ caller[c].at = "decimals"
    /\ warm' = TRUE
    /\ \/ /\ quantity > 0
          /\ Submit(c, caller[c].check, TRUE)
          /\ UNCHANGED positionVars
       \/ /\ quantity = 0
          /\ AfterExit(c, caller[c].check)
          /\ UNCHANGED <<pending, exitVars>>
    /\ UNCHANGED <<stream, handling, opened, wallet, missed, boundVars>>

\* They do not, and triggerExit rejects.  The autokill and survival blocks
\* catch that and the evaluation goes on behind them; so does flatten.
DecimalsForExitFail(c) ==
    /\ Ready
    /\ caller[c].at = "decimals"
    /\ caller[c].check < FirstLadder
    /\ CASE caller[c].check = ManualFlatten -> Leave(c)
         [] caller[c].check = Kill -> Goto(c, "evaluating", Panic)
         [] OTHER -> Goto(c, "evaluating", FirstLadder)
    /\ UNCHANGED <<positionVars, pending, warm, stream, handling, exitVars,
                   opened, wallet, missed, boundVars>>

\* Nothing catches it behind these blocks: the timer's promise is rejected and
\* the process dies of the unhandled rejection.
DecimalsForLadderFail(c) ==
    /\ Ready
    /\ caller[c].at = "decimals"
    /\ caller[c].check >= FirstLadder
    /\ Restart

\* The executor answers when the order is done; an answer in front of that is a
\* request that failed.  Both are the same to triggerExit.
Answer(c) ==
    /\ Ready
    /\ caller[c].at = "answer"
    /\ IF \E x \in running : x.id = caller[c].exit THEN Fault ELSE UNCHANGED faults
    /\ AfterExit(c, caller[c].check)
    /\ UNCHANGED <<pending, warm, stream, handling, exitVars, opened,
                   wallet, missed, buys>>

-----------------------------------------------------------------------------
(* refreshPrices, evaluatePosition and flatten *)

idleUnchanged == UNCHANGED <<pending, warm, stream, handling, exitVars,
                             opened, wallet, missed, boundVars>>

\* A sweep reaches the mint.
BeginSweep(c) ==
    /\ Ready
    /\ caller[c].at = "idle"
    /\ quantity > 0
    /\ Goto(c, "evaluating", Kill)
    /\ UNCHANGED positionVars
    /\ idleUnchanged

\* The next check that finds its condition true.
Evaluate(c) ==
    /\ caller[c].at = "evaluating"
    /\ \E k \in caller[c].check..HardStop :
          /\ IsRung(k) => Mark(k) \notin hits
          /\ Reason(k) = HazardTrail => trail
          /\ Trigger(c, k)

\* The gain arms the trailing stop, in front of either trailing check.
Activate(c) ==
    /\ caller[c].at = "evaluating"
    /\ ~ trail
    /\ trail' = TRUE
    /\ \E k \in {HazardTrail, Trail} :
          caller[c].check <= k /\ Goto(c, "evaluating", k)
    /\ UNCHANGED <<quantity, hits, saved>>
    /\ idleUnchanged

\* No further condition is true.
Finish(c) ==
    /\ caller[c].at = "evaluating"
    /\ UNCHANGED <<quantity, hits, trail>>
    /\ EndSweep(c)
    /\ idleUnchanged

RequestFlatten ==
    /\ Ready
    /\ caller[Flatten].at = "idle"
    /\ quantity > 0
    /\ Trigger(Flatten, ManualFlatten)

-----------------------------------------------------------------------------
(* handleFillEvent *)

\* A fill of the mint forgets what is pending.
ForgetPending ==
    /\ pending' = {}
    /\ Expose(running)

ApplyBuy(f) ==
    /\ f.side = "buy"
    /\ quantity' = quantity + f.qty
    /\ opened' = IF quantity = 0 THEN opened + 1 ELSE opened
    /\ UNCHANGED <<hits, trail>>
    /\ Persist
    /\ ForgetPending

\* Bug: a sell is not cut to what the position holds.
ApplySell_Uncut(f) ==
    /\ f.side = "sell"
    /\ quantity' = quantity - f.qty
    /\ UNCHANGED <<hits, trail, opened>>
    /\ Persist
    /\ ForgetPending

ApplySell(f) ==
    /\ f.side = "sell"
    /\ f.qty < quantity
    /\ quantity' = quantity - f.qty
    /\ UNCHANGED <<hits, trail, opened>>
    /\ Persist
    /\ ForgetPending

\* The sell that closes the position: its marks go, and the handler waits for
\* the SOL price before it does the rest.
ApplyClose(f) ==
    /\ f.side = "sell"
    /\ f.qty >= quantity
    /\ quantity' = 0
    /\ hits' = {}
    /\ trail' = FALSE
    /\ UNCHANGED <<saved, pending, running, opened>>

Apply(f, others) ==
    /\ \/ (ApplyBuy(f) \/ ApplySell(f)) /\ handling' = others
       \/ ApplyClose(f) /\ handling' = others \cup {[fill |-> f, at |-> "solPrice"]}
    /\ UNCHANGED <<caller, exits, fired, wallet, buys>>

\* An event arrives: its fill is applied, or waits for the mint's decimals.
Deliver ==
    /\ Ready
    /\ stream # <<>>
    /\ stream' = Tail(stream)
    /\ \/ warm /\ Apply(Head(stream), handling)
       \/ /\ ~ warm
          /\ handling' = handling \cup {[fill |-> Head(stream), at |-> "decimals"]}
          /\ UNCHANGED <<positionVars, pending, caller, exitVars, opened,
                         wallet, buys>>
    /\ UNCHANGED <<warm, missed, faults>>

\* Handlers wait for the decimals independently of each other.
DecimalsForFill(h) ==
    /\ Ready
    /\ h \in handling /\ h.at = "decimals"
    /\ warm' = TRUE
    /\ Apply(h.fill, handling \ {h})
    /\ UNCHANGED <<stream, missed, faults>>

lossUnchanged == UNCHANGED <<positionVars, pending, warm, caller, exitVars,
                             opened, wallet, buys>>

\* The decimals cannot be had: the handler rejects and the fill is dropped.
DecimalsForFillFail(h) ==
    /\ Ready
    /\ h \in handling /\ h.at = "decimals"
    /\ Fault
    /\ handling' = handling \ {h}
    /\ missed' = TRUE
    /\ UNCHANGED stream
    /\ lossUnchanged

\* The stream is down when the fill is emitted: nothing sends it again.
LoseFill ==
    /\ Ready
    /\ stream # <<>>
    /\ Fault
    /\ stream' = Tail(stream)
    /\ missed' = TRUE
    /\ UNCHANGED handling
    /\ lossUnchanged

\* Bug: the position is emptied behind the wait for the SOL price.
FinishClose_EmptiesLate(h) ==
    /\ Ready
    /\ h \in handling /\ h.at = "solPrice"
    /\ handling' = handling \ {h}
    /\ quantity' = 0 /\ hits' = {} /\ trail' = FALSE
    /\ Persist
    /\ ForgetPending
    /\ UNCHANGED <<warm, caller, stream, exits, fired, opened, wallet, missed, boundVars>>

\* The handler of a closing sell goes on.
FinishClose(h) ==
    /\ Ready
    /\ h \in handling /\ h.at = "solPrice"
    /\ handling' = handling \ {h}
    /\ UNCHANGED <<quantity, hits, trail>>
    /\ Persist
    /\ ForgetPending
    /\ UNCHANGED <<warm, caller, stream, exits, fired, opened, wallet, missed, boundVars>>

-----------------------------------------------------------------------------
(* Caches, the executor and the process *)

\* A pending key is 10 s old.
PendingExpires(r) ==
    /\ Ready
    /\ r \in pending
    /\ pending' = pending \ {r}
    /\ Expose({x \in running : Reason(x.check) = r})
    /\ UNCHANGED <<positionVars, warm, caller, stream, handling, exits, fired, opened,
                   wallet, missed, boundVars>>

\* The cached decimals are 60 s old.
DecimalsExpire ==
    /\ Ready
    /\ warm
    /\ warm' = FALSE
    /\ UNCHANGED <<positionVars, pending, caller, stream, handling, exitVars,
                   opened, wallet, missed, boundVars>>

externalUnchanged == UNCHANGED <<positionVars, pending, warm, caller, handling,
                                 exits, fired, opened, missed, faults>>

\* The executor fills a plan of the policy engine.
Buy ==
    /\ Ready
    /\ buys < MaxBuys
    /\ buys' = buys + 1
    /\ wallet' = wallet + BuyQty
    /\ stream' = Append(stream, [side |-> "buy", n |-> buys', qty |-> BuyQty])
    /\ UNCHANGED running
    /\ externalUnchanged

Done(x) ==
    /\ Ready
    /\ running' = running \ {x}

\* The executor is done with an exit: sold, if the wallet holds that much, or
\* given up.
ExitSold(x) ==
    /\ x.amount <= wallet
    /\ Done(x)
    /\ wallet' = wallet - x.amount
    /\ stream' = Append(stream, [side |-> "sell", n |-> x.id, qty |-> x.amount])
    /\ UNCHANGED buys
    /\ externalUnchanged

ExitFails(x) ==
    /\ Done(x)
    /\ UNCHANGED <<wallet, stream, buys>>
    /\ externalUnchanged

SweepStep(c) == BeginSweep(c) \/ Evaluate(c) \/ Activate(c) \/ Finish(c)

CallerStep(c) ==
    \/ DecimalsForExit(c) \/ DecimalsForExitFail(c) \/ DecimalsForLadderFail(c)
    \/ Answer(c)

FillStep ==
    \/ Deliver \/ LoseFill
    \/ \E h \in handling : DecimalsForFill(h) \/ DecimalsForFillFail(h) \/ FinishClose(h)

Next ==
    \/ \E c \in Sweep : SweepStep(c)
    \/ \E c \in Caller : CallerStep(c)
    \/ RequestFlatten
    \/ FillStep
    \/ \E r \in pending : PendingExpires(r)
    \/ DecimalsExpire
    \/ Buy
    \/ \E x \in running : ExitSold(x) \/ ExitFails(x)
    \/ Restart

Spec == Init /\ [][Next]_vars

-----------------------------------------------------------------------------
(* Safety *)

\* The position is what the wallet holds, up to the fills under way: no fill
\* is applied twice or cut short, although exits of several reasons run at
\* once and handlers wait for decimals.  With a second buy it may be more: a
\* sell applied before the buy in front of it is cut short.  It is never less,
\* so nothing is left in the wallet unseen.  It ends with the first fill missed.
UnderWay(side) ==
    {f \in {stream[i] : i \in 1..Len(stream)} \cup {h.fill : h \in {g \in handling : g.at = "decimals"}} :
        f.side = side}
Total(fills) == MapThenSumSet(LAMBDA f : f.qty, fills)
HoldingsFollowFills ==
    LET held == quantity + Total(UnderWay("buy"))
        real == wallet + Total(UnderWay("sell"))
    IN  ~ missed => /\ held >= real
                    /\ buys <= 1 => held = real

\* A restart finds the position as it was, unless it dies in an evaluation or
\* between a close and the answer of the price oracle.
SavedIsCurrent ==
    /\ saved.quantity # quantity => \E h \in handling : h.at = "solPrice"
    /\ quantity > 0 /\ saved # [quantity |-> quantity, hits |-> hits, trail |-> trail] =>
          \/ \E h \in handling : h.at = "solPrice"
          \/ \E c \in Sweep : caller[c].at # "idle"

\* pendingCache does its work: two exits run for one reason only if the key of
\* the first was dropped (by a fill, by its age, by a restart) or the second
\* had passed it by while it waited for decimals.
SuppressedWhilePending ==
    \A x, y \in running :
        x.id < y.id /\ Reason(x.check) = Reason(y.check) => x.exposed \/ y.unseen

-----------------------------------------------------------------------------
(* What the documentation says of it *)

\* VERIFICATION.md: "Ladders fire at +50/+100/+200/+400 with shares
\* 25/25/25/close": each rung sells its share of a position once.
RungFiresOnce ==
    \A x, y \in fired :
        InLadder(x.check) /\ x.check = y.check /\ x.position = y.position => x = y
=============================================================================
