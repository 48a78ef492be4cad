---------------------------- MODULE PriceUpdater ----------------------------
(***************************************************************************)
(* price-updater: a timer reads the price account and stores the price     *)
(* under the time it arrived.  A price is the number of the publication    *)
(* that was read; what cannot be decoded or is not positive has none.      *)
(***************************************************************************)
EXTENDS Naturals, FiniteSetsExt

CONSTANTS
    MaxPriceTime,   \* bound: the clock
    MaxReads        \* bound: ticks of the timer

ASSUME PriceAssumption == {MaxPriceTime, MaxReads} \subseteq Nat

VARIABLES
    priceTime,
    quotes,         \* the publication the account holds
    reads,          \* ticks that began
    reading,        \* ticks that wait, with what the RPC read for them
    prices,         \* table prices
    lastSuccess,    \* lastSuccessSec
    staleGauge,     \* staleSeconds, as the time of the success it was taken from
    crossed         \* history: a tick began while another was waiting

priceVars == <<priceTime, quotes, reads, reading, prices, lastSuccess, staleGauge,
               crossed>>

PriceInit ==
    /\ priceTime = 1 /\ quotes = 1 /\ reads = 0 /\ reading = {}
    /\ prices = {} /\ lastSuccess = 0 /\ staleGauge = [age |-> 0, at |-> 0]
    /\ crossed = FALSE

PriceClock ==
    /\ priceTime < MaxPriceTime
    /\ priceTime' = priceTime + 1
    /\ quotes' \in {quotes, quotes + 1}
    /\ UNCHANGED <<reads, reading, prices, lastSuccess, staleGauge, crossed>>

\* The timer fires; getAccountInfo is answered with what the account holds then.
BeginRead ==
    /\ reads < MaxReads
    /\ reads' = reads + 1
    /\ reading' = reading \union {[tick |-> reads', price |-> quotes]}
    /\ crossed' = (crossed \/ reading # {})
    /\ UNCHANGED <<priceTime, quotes, prices, lastSuccess, staleGauge>>

\* computeStaleSeconds
Stale(success) == [age |-> IF success = 0 THEN MaxPriceTime ELSE priceTime - success,
                   at |-> priceTime]

\* Bug: the success is noted although the row was not written.
StorePrice_NotedFirst(r) ==
    /\ r \in reading
    /\ reading' = reading \ {r}
    /\ prices' \in {prices, prices \union {[ts |-> priceTime, price |-> r.price]}}
    /\ lastSuccess' = priceTime
    /\ staleGauge' = Stale(lastSuccess')
    /\ UNCHANGED <<priceTime, quotes, reads, crossed>>

StorePrice(r) ==
    /\ r \in reading
    /\ reading' = reading \ {r}
    /\ prices' = prices \union {[ts |-> priceTime, price |-> r.price]}
    /\ lastSuccess' = priceTime
    /\ staleGauge' = Stale(lastSuccess')
    /\ UNCHANGED <<priceTime, quotes, reads, crossed>>

\* The RPC or the insert throws, or the price is not positive: the gauge is set all
\* the same.
ReadThrows(r) ==
    /\ r \in reading
    /\ reading' = reading \ {r}
    /\ staleGauge' = Stale(lastSuccess)
    /\ UNCHANGED <<priceTime, quotes, reads, prices, lastSuccess, crossed>>

\* No data or nothing that decodes: the tick returns before the gauge.
ReadsNothing(r) ==
    /\ r \in reading
    /\ reading' = reading \ {r}
    /\ UNCHANGED <<priceTime, quotes, reads, prices, lastSuccess, staleGauge, crossed>>

PriceNext ==
    \/ PriceClock \/ BeginRead
    \/ \E r \in reading : StorePrice(r) \/ ReadThrows(r) \/ ReadsNothing(r)

PriceSpec == PriceInit /\ [][PriceNext]_priceVars

-----------------------------------------------------------------------------
(* Property *)

\* What getNearestPrice finds last is the time of the last success, no newer price was
\* overtaken by an older one unless a tick took longer than the interval, and the gauge
\* told the age of the last success when a tick last set it.
PricesAreCurrent ==
    /\ prices # {} => lastSuccess = Max({p.ts : p \in prices})
    /\ crossed \/ \A p, q \in prices : p.ts < q.ts => p.price <= q.price
    /\ staleGauge.at > 0 /\ lastSuccess > 0 /\ staleGauge.at >= lastSuccess =>
          staleGauge.age = staleGauge.at - lastSuccess
    /\ lastSuccess > 0 => prices # {}
=============================================================================
