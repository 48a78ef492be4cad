------------------------ MODULE RewardMatchingProofs ------------------------
(***************************************************************************)
(* Proofs about RewardMatching, for every set of orders, mints and rows,   *)
(* every timeout and both matching modes.                                  *)
(*                                                                         *)
(* The properties rest on one inductive invariant, IInv.  Besides the      *)
(* properties it says what the code relies on without writing it down:     *)
(* rows have distinct ids and ascend in time, the rows of a batch have not *)
(* been read before and are the oldest of those left, whatever was read is *)
(* not younger than the cursor, the cursor stands at the process start or  *)
(* at a row that was read, entries are pushed in creation order, and a row *)
(* that has rewarded a selection has its mint and had a reason to take it. *)
(* The last section shows that the queue implements RewardLedger.          *)
(***************************************************************************)
EXTENDS RewardMatching, FiniteSetTheorems, TLAPS

TableOK ==
    /\ IsFiniteSet(outcomes)
    /\ \A r \in outcomes : r.id <= Cardinality(outcomes) /\ r.ts <= now
    /\ \A r, s \in outcomes : r.id = s.id => r = s
    /\ \A r \in outcomes : r.order \in Order => r.order \in Issued

CursorOK ==
    /\ read \subseteq outcomes
    /\ batch \subseteq outcomes
    /\ batch \cap read = {}
    /\ \A r \in read : r.ts <= lastTs
    /\ lastTs <= now
    /\ \A r \in outcomes \ (read \cup batch), s \in batch :
           lastTs < r.ts => s.ts <= r.ts

RewardsFromRead ==
    \A w \in rewards : w.by # Timeout => \E r \in read : r.id = w.by

PushedInOrder ==
    /\ \A o \in Order : arrival[o] <= Cardinality(Issued)
    /\ \A o \in Order : createdAt[o] <= now
    /\ \A o, p \in Issued : arrival[o] <= arrival[p] => createdAt[o] <= createdAt[p]

\* The cursor stands where the process started or at a row that was read, and
\* there is a batch only while it is worked through.
CursorIsRead ==
    /\ polling # "rows" => batch = {}
    /\ lastTs = startTs \/ \E s \in read : s.ts = lastTs

\* What Row r may have rewarded when w names it.
RightlyRewarded(w, r) ==
    /\ MintOf[r.order] = MintOf[w.order]
    /\ OrderIdMatching => \/ r.order = w.order
                          \/ r.order \in ForeignOrder
                          \/ r.order \in Settled \cup forgotten

AttributionOK ==
    \A w \in rewards, r \in read : w.by = r.id => RightlyRewarded(w, r)

IInv ==
    /\ TypeOK
    /\ IndexesAgree
    /\ RewardedOnce
    /\ TableOK
    /\ CursorOK
    /\ RewardsFromRead
    /\ RowUsedOnce
    /\ PushedInOrder
    /\ CursorIsRead
    /\ OnlyTiesAreSkipped
    /\ AttributionOK

-----------------------------------------------------------------------------
(* Type correctness *)

LEMMA IssuedFinite == IsFiniteSet(Issued) /\ Cardinality(Issued) \in Nat
<1>1. IsFiniteSet(Order)
  BY ConstantsAssumption DEF ConstantsAssumption
<1>2. Issued \subseteq Order
  BY DEF Issued
<1>. QED
  BY <1>1, <1>2, FS_Subset, FS_CardinalityType

\* The engine's and the executor's steps keep every variable in its set.
LEMMA TypeStep ==
    ASSUME TypeOK, IsFiniteSet(outcomes), [Next]_vars
    PROVE  TypeOK'
<1>. USE ConstantsAssumption DEF ConstantsAssumption
<1>. SUFFICES ASSUME Next PROVE TypeOK'
  BY DEF TypeOK, vars
<1>1. ASSUME NEW o \in Order, Enqueue(o) PROVE TypeOK'
  BY <1>1, IssuedFinite DEF TypeOK, Enqueue, pollVars
<1>2. CASE PollStart
  <2>1. PICK B \in SUBSET Unread : batch' = B
    BY <1>2 DEF PollStart
  <2>2. batch' \in SUBSET Outcome
    BY <2>1 DEF TypeOK, Unread
  <2>. QED
    BY <1>2, <2>2 DEF TypeOK, PollStart, queueVars
<1>3. ASSUME NEW r \in batch, PollMiss(r) PROVE TypeOK'
  BY <1>3 DEF TypeOK, PollMiss, TakeRow, queueVars, Outcome
<1>4. ASSUME NEW r \in batch, NEW o \in Order, PollMatch(r, o) PROVE TypeOK'
  <2>1. [order |-> o, by |-> r.id] \in Reward
    BY DEF TypeOK, Outcome, Reward
  <2>. QED
    BY <1>4, <2>1 DEF TypeOK, PollMatch, TakeRow, Remove, Outcome
<1>5. ASSUME NEW S \in SUBSET Order PROVE TimeoutRewards(S) \subseteq Reward
  BY <1>5 DEF TimeoutRewards, Reward
<1>6. Expired(now) \in SUBSET Order
  BY DEF Expired, TypeOK
<1>7. CASE PollEnd
  BY <1>5, <1>6, <1>7 DEF TypeOK, PollEnd, PruneExpired, Remove
<1>8. CASE Sweep
  BY <1>5, <1>6, <1>8 DEF TypeOK, Sweep, PruneExpired, Remove, pollVars
<1>9. ASSUME NEW S \in SUBSET Order, Restart(S) PROVE TypeOK'
  BY <1>5, <1>9 DEF TypeOK, Restart
<1>10. ASSUME NEW x \in AnyOrder, NEW ts \in 0..MaxTime, WriteOutcome(x, ts) PROVE TypeOK'
  <2>1. Cardinality(outcomes) \in Nat
    BY FS_CardinalityType
  <2>2. [id |-> Cardinality(outcomes) + 1, order |-> x, ts |-> ts] \in Outcome
    BY <1>10, <2>1 DEF WriteOutcome, Outcome, RowId
  <2>. QED
    BY <1>10, <2>2 DEF TypeOK, WriteOutcome, queueVars, pollVars
<1>11. CASE Tick
  BY <1>11 DEF TypeOK, Tick, queueVars, pollVars
<1>. QED
  BY <1>1, <1>2, <1>3, <1>4, <1>6, <1>7, <1>8, <1>9, <1>10, <1>11
     DEF Next, PolicyEngine, Crash, Shutdown

-----------------------------------------------------------------------------
(* Facts about single operations *)

\* A new plan adds exactly its order to the issued ones and is pushed last.
LEMMA EnqueueIssues ==
    ASSUME TypeOK, NEW o \in Order, Enqueue(o)
    PROVE  /\ Issued' = Issued \cup {o}
           /\ Cardinality(Issued') = Cardinality(Issued) + 1
           /\ arrival'[o] = Cardinality(Issued) + 1
           /\ createdAt'[o] = now
           /\ \A p \in Order \ {o} : arrival'[p] = arrival[p] /\ createdAt'[p] = createdAt[p]
<1>1. Cardinality(Issued) \in Nat /\ IsFiniteSet(Issued)
  BY IssuedFinite
<1>2. arrival' = [arrival EXCEPT ![o] = Cardinality(Issued) + 1]
  BY DEF Enqueue
<1>3. arrival'[o] = Cardinality(Issued) + 1 /\ \A p \in Order \ {o} : arrival'[p] = arrival[p]
  BY <1>2 DEF TypeOK
<1>4. Issued' = Issued \cup {o}
  BY <1>1, <1>3 DEF Issued, TypeOK
<1>5. o \notin Issued
  BY DEF Enqueue
<1>6. Cardinality(Issued') = Cardinality(Issued) + 1
  BY <1>1, <1>4, <1>5, FS_AddElement
<1>7. createdAt'[o] = now /\ \A p \in Order \ {o} : createdAt'[p] = createdAt[p]
  BY DEF Enqueue, TypeOK
<1>. QED
  BY <1>3, <1>4, <1>6, <1>7

\* Only Enqueue touches the creation times and the arrival order.
LEMMA IssuedSame ==
    ASSUME arrival' = arrival
    PROVE  Issued' = Issued
BY DEF Issued

\* A row rewards a pending selection of its own mint.
LEMMA MatchedIsPending ==
    ASSUME TypeOK, IndexesAgree, NEW r \in Outcome, NEW o \in Order, Matched(r, o)
    PROVE  o \in byId /\ MintOf[o] = MintOf[r.order]
<1>1. MintOf[r.order] \in Mint
  BY ConstantsAssumption DEF ConstantsAssumption, Outcome, AnyOrder
<1>2. CASE OwnSelection(r, o)
  BY <1>2 DEF OwnSelection
<1>3. CASE FallbackSelection(r, o)
  <2>1. o \in byMint[MintOf[r.order]]
    BY <1>3 DEF FallbackSelection, ShiftChoice, FirstOf
  <2>. QED
    BY <1>1, <2>1 DEF IndexesAgree
<1>. QED
  BY <1>2, <1>3 DEF Matched

\* New rewards add their orders to the settled ones.
LEMMA SettledGrows ==
    ASSUME NEW W, rewards' = rewards \cup W
    PROVE  Settled' = Settled \cup {w.order : w \in W}
BY DEF Settled

LEMMA OrderOfOne ==
    ASSUME NEW o, NEW b
    PROVE  {w.order : w \in {[order |-> o, by |-> b]}} = {o}
OBVIOUS

LEMMA OrdersOfTimeouts ==
    ASSUME NEW S
    PROVE  {w.order : w \in TimeoutRewards(S)} = S
<1>1. \A w \in TimeoutRewards(S) : w.order \in S
  BY DEF TimeoutRewards
<1>2. ASSUME NEW o \in S PROVE \E w \in TimeoutRewards(S) : w.order = o
  <2>1. [order |-> o, by |-> Timeout] \in TimeoutRewards(S)
    BY DEF TimeoutRewards
  <2>. QED
    BY <2>1
<1>. QED
  BY <1>1, <1>2

-----------------------------------------------------------------------------
(* The parts of the invariant, one lemma each *)

LEMMA IndexesStep ==
    ASSUME TypeOK, IndexesAgree, [Next]_vars
    PROVE  IndexesAgree'
<1>. USE ConstantsAssumption DEF ConstantsAssumption, IndexesAgree
<1>1. ASSUME NEW o \in Order, Enqueue(o) PROVE IndexesAgree'
  BY <1>1 DEF Enqueue, TypeOK
<1>2. ASSUME NEW S, Remove(S) PROVE IndexesAgree'
  BY <1>2 DEF Remove, TypeOK
<1>3. ASSUME NEW S, Restart(S) PROVE IndexesAgree'
  BY <1>3 DEF Restart
<1>4. ASSUME UNCHANGED queueVars PROVE IndexesAgree'
  BY <1>4 DEF queueVars
<1>5. [Next]_vars => \/ \E o \in Order : Enqueue(o)
                     \/ \E S \in SUBSET Order : Remove(S) \/ Restart(S)
                     \/ UNCHANGED queueVars
  BY DEF Next, PolicyEngine, PollStart, PollMiss, PollMatch, PollEnd, Sweep, PruneExpired,
         Crash, Shutdown, WriteOutcome, Tick, vars, queueVars, Expired, TypeOK
<1>. QED
  BY <1>1, <1>2, <1>3, <1>4, <1>5

LEMMA RewardedOnceStep ==
    ASSUME TypeOK, IndexesAgree, RewardedOnce, [Next]_vars
    PROVE  RewardedOnce'
<1>1. ASSUME NEW o \in Order, Enqueue(o) PROVE RewardedOnce'
  <2>1. Issued' = Issued \cup {o} /\ o \notin Issued
    BY <1>1, EnqueueIssues DEF Enqueue
  <2>. QED
    BY <1>1, <2>1 DEF Enqueue, RewardedOnce, Settled
<1>2. ASSUME NEW r \in batch, NEW o \in Order, PollMatch(r, o) PROVE RewardedOnce'
  <2>1. o \in byId
    BY <1>2, MatchedIsPending DEF PollMatch, TypeOK
  <2>2. byId' = byId \ {o} /\ Issued' = Issued /\ forgotten' = forgotten
    BY <1>2, IssuedSame DEF PollMatch, Remove, TakeRow
  <2>3. rewards' = rewards \cup {[order |-> o, by |-> r.id]}
    BY <1>2 DEF PollMatch
  <2>4. Settled' = Settled \cup {o}
    BY <2>3, SettledGrows, OrderOfOne
  <2>5. o \notin Settled
    BY <2>1 DEF RewardedOnce
  <2>6. \A v, w \in rewards' : v.order = w.order => v = w
    BY <2>3, <2>5 DEF Settled, RewardedOnce
  <2>. QED
    BY <2>1, <2>2, <2>4, <2>5, <2>6 DEF RewardedOnce
<1>3. ASSUME NEW S \in SUBSET byId, NEW T \in SUBSET byId, S \cap T = {},
             byId' = byId \ (S \cup T), rewards' = rewards \cup TimeoutRewards(S),
             forgotten' = forgotten \cup T, arrival' = arrival
      PROVE  RewardedOnce'
  <2>1. Issued' = Issued
    BY <1>3, IssuedSame
  <2>2. Settled' = Settled \cup S
    BY <1>3, SettledGrows, OrdersOfTimeouts
  <2>3. \A v, w \in TimeoutRewards(S) : v.order = w.order => v = w
    BY DEF TimeoutRewards
  <2>4. \A v \in TimeoutRewards(S), w \in rewards : v.order # w.order
    BY DEF TimeoutRewards, RewardedOnce, Settled
  <2>5. \A v, w \in rewards' : v.order = w.order => v = w
    BY <1>3, <2>3, <2>4 DEF RewardedOnce
  <2>6. Issued' = byId' \cup Settled' \cup forgotten'
    <3>1. byId = byId' \cup S \cup T
      BY <1>3
    <3>. QED
      BY <1>3, <2>1, <2>2, <3>1 DEF RewardedOnce
  <2>7. byId' \cap (Settled' \cup forgotten') = {}
    BY <1>3, <2>2 DEF RewardedOnce
  <2>8. Settled' \cap forgotten' = {}
    BY <1>3, <2>2 DEF RewardedOnce
  <2>. QED
    BY <2>5, <2>6, <2>7, <2>8 DEF RewardedOnce
<1>4. CASE PollEnd \/ Sweep
  <2>. DEFINE S == Expired(now)
  <2>1. S \in SUBSET byId /\ byId' = byId \ (S \cup {})
    BY <1>4 DEF PollEnd, Sweep, PruneExpired, Remove, Expired
  <2>2. /\ rewards' = rewards \cup TimeoutRewards(S)
        /\ forgotten' = forgotten \cup {}
        /\ arrival' = arrival
    BY <1>4 DEF PollEnd, Sweep, PruneExpired, Remove
  <2>. HIDE DEF S
  <2>3. {} \in SUBSET byId /\ S \cap {} = {}
    OBVIOUS
  <2>. QED
    BY <1>3, <2>1, <2>2, <2>3
<1>5. ASSUME NEW S \in SUBSET byId, Restart(S) PROVE RewardedOnce'
  BY <1>5, <1>3 DEF Restart
<1>6. ASSUME UNCHANGED <<byId, rewards, forgotten, arrival>> PROVE RewardedOnce'
  BY <1>6 DEF RewardedOnce, Settled, Issued
<1>7. CASE PollStart \/ (\E r \in batch : PollMiss(r)) \/ Tick \/ UNCHANGED vars
           \/ \E x \in AnyOrder, ts \in 0..MaxTime : WriteOutcome(x, ts)
  BY <1>6, <1>7 DEF PollStart, PollMiss, TakeRow, Tick, WriteOutcome, vars, queueVars
<1>. QED
  BY <1>1, <1>2, <1>4, <1>5, <1>7 DEF Next, PolicyEngine, Crash, Shutdown, Expired

LEMMA TableStep ==
    ASSUME TypeOK, TableOK, [Next]_vars
    PROVE  TableOK'
<1>1. ASSUME NEW x \in AnyOrder, NEW ts \in 0..MaxTime, WriteOutcome(x, ts) PROVE TableOK'
  <2>. DEFINE row == [id |-> Cardinality(outcomes) + 1, order |-> x, ts |-> ts]
  <2>1. outcomes' = outcomes \cup {row} /\ now' = now /\ Issued' = Issued
    BY <1>1, IssuedSame DEF WriteOutcome, queueVars
  <2>2. Cardinality(outcomes) \in Nat /\ row \notin outcomes
    BY FS_CardinalityType DEF TableOK
  <2>3. IsFiniteSet(outcomes') /\ Cardinality(outcomes') = Cardinality(outcomes) + 1
    BY <2>1, <2>2, FS_AddElement DEF TableOK
  <2>4. \A r \in outcomes : r.id \in Nat
    BY DEF TypeOK, Outcome, RowId
  <2>5. row.ts <= now /\ (row.order \in Order => row.order \in Issued)
    BY <1>1 DEF WriteOutcome
  <2>6. \A r \in outcomes' : r.id <= Cardinality(outcomes') /\ r.ts <= now'
    BY <2>1, <2>2, <2>3, <2>4, <2>5 DEF TableOK
  <2>7. \A r, s \in outcomes' : r.id = s.id => r = s
    BY <2>1, <2>2, <2>4 DEF TableOK
  <2>. QED
    BY <2>1, <2>3, <2>5, <2>6, <2>7 DEF TableOK
<1>2. CASE Tick
  BY <1>2, IssuedSame DEF Tick, queueVars, TableOK, TypeOK, Outcome
<1>3. ASSUME NEW o \in Order, Enqueue(o) PROVE TableOK'
  BY <1>3, EnqueueIssues DEF Enqueue, TableOK
<1>4. ASSUME UNCHANGED <<outcomes, now, arrival>> PROVE TableOK'
  BY <1>4, IssuedSame DEF TableOK
<1>5. CASE PollStart \/ PollEnd \/ Sweep \/ Crash \/ Shutdown \/ UNCHANGED vars
           \/ \E r \in batch : PollMiss(r) \/ \E o \in Order : PollMatch(r, o)
  BY <1>4, <1>5 DEF PollStart, PollEnd, Sweep, Crash, Shutdown, Restart, PollMiss, PollMatch,
                    TakeRow, PruneExpired, Remove, vars, queueVars
<1>. QED
  BY <1>1, <1>2, <1>3, <1>5 DEF Next, PolicyEngine

LEMMA CursorStep ==
    ASSUME TypeOK, TableOK, CursorOK, [Next]_vars
    PROVE  CursorOK'
<1>0. /\ \A r \in outcomes : r.ts \in Nat /\ r.ts <= now
      /\ lastTs \in Nat /\ now \in Nat
  BY ConstantsAssumption DEF TypeOK, TableOK, Outcome, ConstantsAssumption
<1>1. CASE PollStart
  <2>1. PICK B \in SUBSET Unread : /\ batch' = B
                                   /\ \A r \in B, s \in Unread \ B : r.ts <= s.ts
    BY <1>1 DEF PollStart
  <2>2. UNCHANGED <<outcomes, read, lastTs, now>>
    BY <1>1 DEF PollStart
  <2>3. batch' \subseteq outcomes' /\ \A r \in batch' : lastTs < r.ts
    BY <2>1, <2>2 DEF Unread
  <2>4. batch' \cap read' = {}
    BY <1>0, <2>2, <2>3 DEF CursorOK
  <2>5. ASSUME NEW r \in outcomes' \ (read' \cup batch'), NEW s \in batch', lastTs' < r.ts
        PROVE  s.ts <= r.ts
    BY <2>1, <2>2, <2>5 DEF Unread
  <2>. QED
    BY <2>2, <2>3, <2>4, <2>5 DEF CursorOK
<1>2. ASSUME NEW r \in batch, TakeRow(r) PROVE CursorOK'
  <2>1. /\ batch' = batch \ {r}
        /\ read' = read \cup {r}
        /\ lastTs' = IF r.ts > lastTs THEN r.ts ELSE lastTs
        /\ UNCHANGED <<outcomes, now>>
        /\ \A s \in batch : r.ts <= s.ts
    BY <1>2 DEF TakeRow, NextRow
  <2>2. r \in outcomes /\ lastTs <= lastTs' /\ r.ts <= lastTs' /\ lastTs' <= now /\ lastTs' \in Nat
    BY <1>0, <2>1 DEF CursorOK
  <2>3. /\ read' \subseteq outcomes' /\ batch' \subseteq outcomes' /\ batch' \cap read' = {}
        /\ outcomes' \ (read' \cup batch') = outcomes \ (read \cup batch)
    BY <2>1, <2>2 DEF CursorOK
  <2>4. \A s \in read' : s.ts <= lastTs'
    BY <1>0, <2>1, <2>2 DEF CursorOK
  <2>5. \A u \in outcomes' \ (read' \cup batch'), s \in batch' : lastTs' < u.ts => s.ts <= u.ts
    BY <1>0, <2>1, <2>2, <2>3 DEF CursorOK
  <2>. QED
    BY <2>1, <2>2, <2>3, <2>4, <2>5 DEF CursorOK
<1>3. ASSUME NEW S, Restart(S) PROVE CursorOK'
  BY <1>0, <1>3 DEF Restart, CursorOK
<1>4. ASSUME NEW x \in AnyOrder, NEW ts \in 0..MaxTime, WriteOutcome(x, ts) PROVE CursorOK'
  <2>. DEFINE row == [id |-> Cardinality(outcomes) + 1, order |-> x, ts |-> ts]
  <2>1. /\ outcomes' = outcomes \cup {row}
        /\ UNCHANGED <<read, batch, lastTs, now>>
        /\ \A r \in outcomes : r.ts <= ts
    BY <1>4 DEF WriteOutcome, pollVars
  <2>2. \A s \in batch' : s.ts <= row.ts
    BY <2>1 DEF CursorOK
  <2>. QED
    BY <2>1, <2>2 DEF CursorOK
<1>5. CASE Tick
  BY <1>0, <1>5 DEF Tick, pollVars, CursorOK
<1>6. ASSUME UNCHANGED <<outcomes, read, batch, lastTs, now>> PROVE CursorOK'
  BY <1>6 DEF CursorOK
<1>7. CASE PollEnd \/ Sweep \/ UNCHANGED vars \/ \E o \in Order : Enqueue(o)
  BY <1>6, <1>7 DEF PollEnd, Sweep, Enqueue, vars, pollVars
<1>. QED
  BY <1>1, <1>2, <1>3, <1>4, <1>5, <1>7
     DEF Next, PolicyEngine, PollMiss, PollMatch, Crash, Shutdown

\* A poll step adds at most one reward, by a row that was never read before;
\* the other steps add none, or timeouts.
LEMMA RewardStepKinds ==
    ASSUME TypeOK, [Next]_vars
    PROVE  \/ \E r \in batch, o \in Order :
                  /\ read' = read \cup {r}
                  /\ rewards' = rewards \cup {[order |-> o, by |-> r.id]}
           \/ /\ read \subseteq read'
              /\ \E S \in SUBSET Order : rewards' = rewards \cup TimeoutRewards(S)
<1>1. CASE \E r \in batch, o \in Order : PollMatch(r, o)
  BY <1>1 DEF PollMatch, TakeRow
<1>2. TimeoutRewards({}) = {}
  BY DEF TimeoutRewards
<1>3. ASSUME read \subseteq read', rewards' = rewards
      PROVE  \E S \in SUBSET Order : rewards' = rewards \cup TimeoutRewards(S)
  BY <1>2, <1>3
<1>4. CASE PollStart \/ Tick \/ UNCHANGED vars \/ (\E o \in Order : Enqueue(o))
           \/ (\E r \in batch : PollMiss(r))
           \/ \E x \in AnyOrder, ts \in 0..MaxTime : WriteOutcome(x, ts)
  BY <1>3, <1>4 DEF PollStart, Tick, Enqueue, PollMiss, TakeRow, WriteOutcome, vars, pollVars
<1>5. Expired(now) \in SUBSET Order
  BY DEF Expired, TypeOK
<1>6. CASE PollEnd \/ Sweep \/ Crash \/ Shutdown
  BY <1>5, <1>6 DEF PollEnd, Sweep, Crash, Shutdown, PruneExpired, Restart, pollVars
<1>. QED
  BY <1>1, <1>4, <1>6 DEF Next, PolicyEngine

LEMMA RowUsedOnceStep ==
    ASSUME TypeOK, TableOK, CursorOK, RewardsFromRead, RowUsedOnce, [Next]_vars
    PROVE  RewardsFromRead' /\ RowUsedOnce'
<1>1. ASSUME NEW r \in batch, NEW o \in Order, read' = read \cup {r},
             rewards' = rewards \cup {[order |-> o, by |-> r.id]}
      PROVE  RewardsFromRead' /\ RowUsedOnce'
  <2>1. \A s \in read : s.id # r.id
    BY DEF CursorOK, TableOK
  <2>2. \A w \in rewards : w.by # Timeout => w.by # r.id
    BY <2>1 DEF RewardsFromRead
  <2>3. RewardsFromRead'
    BY <1>1 DEF RewardsFromRead
  <2>4. RowUsedOnce'
    BY <1>1, <2>2 DEF RowUsedOnce
  <2>. QED
    BY <2>3, <2>4
<1>2. ASSUME NEW S \in SUBSET Order, read \subseteq read', rewards' = rewards \cup TimeoutRewards(S)
      PROVE  RewardsFromRead' /\ RowUsedOnce'
  <2>1. \A w \in TimeoutRewards(S) : w.by = Timeout
    BY DEF TimeoutRewards
  <2>. QED
    BY <1>2, <2>1 DEF RewardsFromRead, RowUsedOnce
<1>. QED
  BY <1>1, <1>2, RewardStepKinds

LEMMA PushedInOrderStep ==
    ASSUME TypeOK, PushedInOrder, [Next]_vars
    PROVE  PushedInOrder'
<1>0. /\ now \in Nat
      /\ \A p \in Order : arrival[p] \in Nat /\ createdAt[p] \in Nat
      /\ Cardinality(Issued) \in Nat
  BY ConstantsAssumption, IssuedFinite DEF TypeOK, ConstantsAssumption
<1>1. ASSUME NEW o \in Order, Enqueue(o) PROVE PushedInOrder'
  <2>1. /\ Issued' = Issued \cup {o} /\ now' = now
        /\ Cardinality(Issued') = Cardinality(Issued) + 1
        /\ arrival'[o] = Cardinality(Issued) + 1
        /\ createdAt'[o] = now
        /\ \A p \in Order \ {o} : arrival'[p] = arrival[p] /\ createdAt'[p] = createdAt[p]
    BY <1>1, EnqueueIssues DEF Enqueue
  <2>2. o \notin Issued /\ Issued \subseteq Order
    BY <1>1 DEF Enqueue, Issued
  <2>3. \A p \in Order : arrival'[p] <= Cardinality(Issued')
    BY <1>0, <2>1 DEF PushedInOrder
  <2>4. \A p \in Order : createdAt'[p] <= now'
    BY <1>0, <2>1 DEF PushedInOrder
  <2>5. ASSUME NEW p \in Issued', NEW q \in Issued', arrival'[p] <= arrival'[q]
        PROVE  createdAt'[p] <= createdAt'[q]
    <3>1. CASE q = o
      BY <2>1, <2>2, <2>4, <3>1
    <3>2. CASE q # o /\ p = o
      BY <1>0, <2>1, <2>2, <2>5, <3>2 DEF PushedInOrder
    <3>3. CASE q # o /\ p # o
      BY <2>1, <2>2, <2>5, <3>3 DEF PushedInOrder
    <3>. QED
      BY <3>1, <3>2, <3>3
  <2>. QED
    BY <2>3, <2>4, <2>5 DEF PushedInOrder
<1>2. CASE Tick
  BY <1>0, <1>2, IssuedSame DEF Tick, queueVars, PushedInOrder
<1>3. ASSUME UNCHANGED <<now, createdAt, arrival>> PROVE PushedInOrder'
  BY <1>3, IssuedSame DEF PushedInOrder
<1>4. CASE PollStart \/ PollEnd \/ Sweep \/ Crash \/ Shutdown \/ UNCHANGED vars
           \/ (\E r \in batch : PollMiss(r) \/ \E o \in Order : PollMatch(r, o))
           \/ \E x \in AnyOrder, ts \in 0..MaxTime : WriteOutcome(x, ts)
  BY <1>3, <1>4 DEF PollStart, PollEnd, Sweep, Crash, Shutdown, Restart, PollMiss, PollMatch,
                    TakeRow, PruneExpired, Remove, WriteOutcome, vars, queueVars
<1>. QED
  BY <1>1, <1>2, <1>4 DEF Next, PolicyEngine

-----------------------------------------------------------------------------
(* What a poll passes over, and what a row rewards *)

LEMMA TimesAreNumbers ==
    ASSUME TypeOK
    PROVE  /\ \A r \in outcomes \cup read \cup batch : r.ts \in Nat
           /\ lastTs \in Nat /\ startTs \in Nat /\ now \in Nat
BY ConstantsAssumption DEF TypeOK, Outcome, ConstantsAssumption

\* A step of the poll that takes row r leaves behind it only rows that are
\* younger than r or have its timestamp.
LEMMA TakeRowSkips ==
    ASSUME TypeOK, TableOK, CursorOK, CursorIsRead, OnlyTiesAreSkipped,
           NEW r \in batch, TakeRow(r)
    PROVE  CursorIsRead' /\ OnlyTiesAreSkipped'
<1>1. /\ polling = "rows" /\ batch' = batch \ {r} /\ read' = read \cup {r}
      /\ lastTs' = IF r.ts > lastTs THEN r.ts ELSE lastTs
      /\ polling' = IF batch = {r} THEN "prune" ELSE "rows"
      /\ UNCHANGED <<outcomes, startTs>>
  BY DEF TakeRow
<1>2. CursorIsRead'
  BY <1>1 DEF CursorIsRead
<1>3. ASSUME NEW u \in outcomes' \ (read' \cup batch'), u.ts <= lastTs'
      PROVE  u.ts <= startTs' \/ \E s \in read' : s.ts = u.ts
  <2>1. u \in outcomes \ (read \cup batch)
    BY <1>1, <1>3
  <2>2. CASE u.ts <= lastTs
    BY <1>1, <2>1, <2>2 DEF OnlyTiesAreSkipped
  <2>3. CASE ~ (u.ts <= lastTs)
    <3>1. lastTs < u.ts /\ u.ts <= r.ts
      BY <1>1, <1>3, <2>1, <2>3, TimesAreNumbers
    <3>2. r.ts <= u.ts
      BY <2>1, <3>1 DEF CursorOK
    <3>. QED
      BY <1>1, <2>1, <3>1, <3>2, TimesAreNumbers
  <2>. QED
    BY <2>2, <2>3
<1>. QED
  BY <1>2, <1>3 DEF OnlyTiesAreSkipped

LEMMA SkippedStep ==
    ASSUME TypeOK, TableOK, CursorOK, CursorIsRead, OnlyTiesAreSkipped, [Next]_vars
    PROVE  CursorIsRead' /\ OnlyTiesAreSkipped'
<1>1. CASE PollStart
  <2>1. batch = {} /\ polling' = "rows" /\ UNCHANGED <<outcomes, read, lastTs, startTs>>
    BY <1>1 DEF PollStart, CursorIsRead
  <2>. QED
    BY <2>1 DEF CursorIsRead, OnlyTiesAreSkipped
<1>2. ASSUME NEW r \in batch, TakeRow(r) PROVE CursorIsRead' /\ OnlyTiesAreSkipped'
  BY <1>2, TakeRowSkips
<1>3. ASSUME NEW S, Restart(S) PROVE CursorIsRead' /\ OnlyTiesAreSkipped'
  <2>1. batch' = {} /\ lastTs' = now /\ startTs' = now /\ UNCHANGED outcomes
    BY <1>3 DEF Restart
  <2>. QED
    BY <2>1 DEF CursorIsRead, OnlyTiesAreSkipped, TableOK
<1>4. ASSUME NEW x \in AnyOrder, NEW ts \in 0..MaxTime, WriteOutcome(x, ts)
      PROVE  CursorIsRead' /\ OnlyTiesAreSkipped'
  <2>. DEFINE row == [id |-> Cardinality(outcomes) + 1, order |-> x, ts |-> ts]
  <2>1. /\ outcomes' = outcomes \cup {row}
        /\ \A r \in outcomes : r.ts <= ts
        /\ UNCHANGED <<polling, batch, lastTs, startTs, read>>
    BY <1>4 DEF WriteOutcome, pollVars
  <2>2. ts <= lastTs => ts <= startTs \/ \E s \in read : s.ts = ts
    <3>1. ts \in Nat
      BY ConstantsAssumption DEF ConstantsAssumption
    <3>2. \A s \in read : s.ts <= ts
      BY <2>1 DEF CursorOK
    <3>. QED
      BY <3>1, <3>2, TimesAreNumbers DEF CursorIsRead
  <2>3. row.ts = ts
    OBVIOUS
  <2>. QED
    BY <2>1, <2>2, <2>3 DEF CursorIsRead, OnlyTiesAreSkipped
<1>5. CASE PollEnd
  BY <1>5 DEF PollEnd, CursorIsRead, OnlyTiesAreSkipped
<1>6. ASSUME UNCHANGED <<outcomes, polling, batch, lastTs, startTs, read>>
      PROVE  CursorIsRead' /\ OnlyTiesAreSkipped'
  BY <1>6 DEF CursorIsRead, OnlyTiesAreSkipped
<1>7. CASE Sweep \/ Tick \/ UNCHANGED vars \/ \E o \in Order : Enqueue(o)
  BY <1>6, <1>7 DEF Sweep, Tick, Enqueue, vars, pollVars
<1>. QED
  BY <1>1, <1>2, <1>3, <1>4, <1>5, <1>7
     DEF Next, PolicyEngine, PollMiss, PollMatch, Crash, Shutdown

\* What a step does to the rows read and the rewards given by rows.
LEMMA AttributionKinds ==
    ASSUME TypeOK, [Next]_vars
    PROVE  /\ rewards \subseteq rewards' /\ forgotten \subseteq forgotten'
           /\ \/ \E r \in batch :
                   /\ read' = read \cup {r}
                   /\ \/ rewards' = rewards
                      \/ \E o \in Order : /\ Matched(r, o)
                                          /\ rewards' = rewards \cup {[order |-> o, by |-> r.id]}
              \/ /\ read' = read
                 /\ \A w \in rewards' \ rewards : w.by = Timeout
<1>1. CASE \E r \in batch : PollMiss(r) \/ \E o \in Order : PollMatch(r, o)
  BY <1>1 DEF PollMiss, PollMatch, TakeRow
<1>2. CASE PollStart \/ Tick \/ UNCHANGED vars \/ (\E o \in Order : Enqueue(o))
           \/ \E x \in AnyOrder, ts \in 0..MaxTime : WriteOutcome(x, ts)
  BY <1>2 DEF PollStart, Tick, Enqueue, WriteOutcome, vars, pollVars
<1>3. \A S : \A w \in TimeoutRewards(S) : w.by = Timeout
  BY DEF TimeoutRewards
<1>4. CASE PollEnd \/ Sweep \/ Crash \/ Shutdown
  BY <1>3, <1>4 DEF PollEnd, Sweep, Crash, Shutdown, PruneExpired, Restart, pollVars
<1>. QED
  BY <1>1, <1>2, <1>4 DEF Next, PolicyEngine

\* A row that is matched with a selection may reward it.
LEMMA MatchIsRight ==
    ASSUME TypeOK, IndexesAgree, RewardedOnce, TableOK, CursorOK,
           NEW r \in batch, NEW o \in Order, Matched(r, o)
    PROVE  RightlyRewarded([order |-> o, by |-> r.id], r)
<1>1. r \in Outcome /\ r \in outcomes
  BY DEF TypeOK, CursorOK
<1>2. MintOf[r.order] = MintOf[o]
  BY <1>1, MatchedIsPending
<1>3. ASSUME OrderIdMatching, r.order # o
      PROVE  r.order \in ForeignOrder \cup Settled \cup forgotten
  <2>1. r.order \notin byId
    BY <1>3 DEF Matched, OwnSelection, FallbackSelection
  <2>2. r.order \in Order => r.order \in byId \cup Settled \cup forgotten
    BY <1>1 DEF TableOK, RewardedOnce
  <2>. QED
    BY <1>1, <2>1, <2>2 DEF Outcome, AnyOrder
<1>. QED
  BY <1>2, <1>3 DEF RightlyRewarded

LEMMA AttributionStep ==
    ASSUME TypeOK, IndexesAgree, RewardedOnce, TableOK, CursorOK, RewardsFromRead,
           AttributionOK, [Next]_vars
    PROVE  AttributionOK'
<1>1. rewards \subseteq rewards' /\ forgotten \subseteq forgotten' /\ Settled \subseteq Settled'
  BY AttributionKinds DEF Settled
<1>2. \A w, r : RightlyRewarded(w, r) => RightlyRewarded(w, r)'
  BY <1>1 DEF RightlyRewarded
<1>3. \A r \in read \cup batch : r \in outcomes /\ r.id # Timeout
  BY ConstantsAssumption DEF CursorOK, TypeOK, Outcome, RowId, Timeout, ConstantsAssumption
<1>4. ASSUME NEW r \in batch, read' = read \cup {r}, NEW w \in rewards, NEW s \in read', w.by = s.id
      PROVE  RightlyRewarded(w, s)
  <2>1. w.by # Timeout
    BY <1>3, <1>4
  <2>2. PICK t \in read : t.id = w.by
    BY <2>1 DEF RewardsFromRead
  <2>3. s = t
    BY <1>3, <1>4, <2>2 DEF TableOK
  <2>. QED
    BY <1>4, <2>2, <2>3 DEF AttributionOK
<1>5. ASSUME NEW r \in batch, read' = read \cup {r}, NEW o \in Order, Matched(r, o),
             NEW s \in read', r.id = s.id
      PROVE  RightlyRewarded([order |-> o, by |-> r.id], s)
  <2>1. s = r
    BY <1>3, <1>5 DEF TableOK
  <2>. QED
    BY <1>5, <2>1, MatchIsRight
<1>6. CASE \E r \in batch : /\ read' = read \cup {r}
                            /\ \/ rewards' = rewards
                               \/ \E o \in Order :
                                    /\ Matched(r, o)
                                    /\ rewards' = rewards \cup {[order |-> o, by |-> r.id]}
  BY <1>2, <1>4, <1>5, <1>6 DEF AttributionOK
<1>7. CASE read' = read /\ \A w \in rewards' \ rewards : w.by = Timeout
  BY <1>2, <1>3, <1>7 DEF AttributionOK
<1>. QED
  BY <1>6, <1>7, AttributionKinds

-----------------------------------------------------------------------------
(* The theorems *)

LEMMA InitIInv == Init => IInv
<1>. SUFFICES ASSUME Init PROVE IInv
  OBVIOUS
<1>1. TypeOK
  BY ConstantsAssumption DEF Init, TypeOK, ConstantsAssumption
<1>2. Issued = {} /\ Settled = {}
  BY DEF Init, Issued, Settled
<1>3. IndexesAgree /\ RewardedOnce /\ RowUsedOnce /\ RewardsFromRead
  BY <1>2 DEF Init, IndexesAgree, RewardedOnce, RowUsedOnce, RewardsFromRead
<1>4. TableOK /\ CursorOK
  BY FS_EmptySet DEF Init, TableOK, CursorOK
<1>5. PushedInOrder
  BY <1>2, FS_EmptySet DEF Init, PushedInOrder
<1>6. CursorIsRead /\ OnlyTiesAreSkipped /\ AttributionOK
  BY DEF Init, CursorIsRead, OnlyTiesAreSkipped, AttributionOK
<1>. QED
  BY <1>1, <1>3, <1>4, <1>5, <1>6 DEF IInv

LEMMA NextIInv == IInv /\ [Next]_vars => IInv'
BY TypeStep, IndexesStep, RewardedOnceStep, TableStep, CursorStep, RowUsedOnceStep,
   PushedInOrderStep, SkippedStep, AttributionStep DEF IInv, TableOK

LEMMA SpecIInv == Spec => []IInv
BY InitIInv, NextIInv, PTL DEF Spec

\* Every variable stays in its set: ids, timestamps and matches are always
\* those of rows and plans that exist.
THEOREM TypeCorrect == Spec => []TypeOK
<1>1. IInv => TypeOK
  BY DEF IInv
<1>. QED
  BY SpecIInv, <1>1, PTL

\* The two indexes of the pending queue never disagree.
THEOREM IndexesAlwaysAgree == Spec => []IndexesAgree
<1>1. IInv => IndexesAgree
  BY DEF IInv
<1>. QED
  BY SpecIInv, <1>1, PTL

\* Each selection is pending, rewarded exactly once, or lost with its process.
THEOREM EachSelectionOnce == Spec => []RewardedOnce
<1>1. IInv => RewardedOnce
  BY DEF IInv
<1>. QED
  BY SpecIInv, <1>1, PTL

\* No exec_outcomes row ever rewards two selections.
THEOREM EachRowOnce == Spec => []RowUsedOnce
<1>1. IInv => RowUsedOnce
  BY DEF IInv
<1>. QED
  BY SpecIInv, <1>1, PTL

\* shiftByMint is first in, first out.
THEOREM MintQueueIsFifo == Spec => []ShiftIsFifo
<1>1. IInv => ShiftIsFifo
  <2>. SUFFICES ASSUME IInv, NEW m \in Mint, NEW o \in Order, NEW ts \in 0..MaxTime,
                       ShiftChoice(m, ts, o)
                PROVE  FirstOf(byMint[m], o)
    BY DEF ShiftIsFifo
  <2>. DEFINE early == {p \in byMint[m] : createdAt[p] <= ts + MatchJitter}
  <2>1. CASE early = {}
    BY <2>1 DEF ShiftChoice
  <2>2. CASE early # {}
    <3>1. o \in early /\ \A p \in early : arrival[o] <= arrival[p]
      BY <2>2 DEF ShiftChoice, FirstOf
    <3>2. byMint[m] \subseteq Issued
      BY DEF IInv, IndexesAgree, RewardedOnce
    <3>3. ts + MatchJitter \in Nat
      BY ConstantsAssumption DEF ConstantsAssumption
    <3>4. \A p \in Order : arrival[p] \in Nat /\ createdAt[p] \in Nat
      BY ConstantsAssumption DEF IInv, TypeOK, ConstantsAssumption
    <3>5. ASSUME NEW p \in byMint[m], p \notin early PROVE arrival[o] <= arrival[p]
      <4>1. p \in Order /\ o \in Issued /\ p \in Issued
        BY <3>1, <3>2 DEF Issued
      <4>2. ~ (createdAt[p] <= createdAt[o])
        BY <3>1, <3>3, <3>4, <3>5, <4>1
      <4>. QED
        BY <3>4, <4>1, <4>2 DEF IInv, PushedInOrder
    <3>. QED
      BY <3>1, <3>5 DEF FirstOf
  <2>. QED
    BY <2>1, <2>2
<1>. QED
  BY SpecIInv, <1>1, PTL

\* The row RowOfOrder picks for a reward is one that was read and has its id.
LEMMA RowIsFound ==
    ASSUME RewardsFromRead, NEW w \in rewards, w.by # Timeout
    PROVE  RowOfOrder(w) \in read /\ RowOfOrder(w).id = w.by
BY DEF RewardsFromRead, RowOfOrder

\* The cursor passes over a row only when the row is as old as the process or
\* shares its timestamp with a row that was read.
THEOREM SkipsOnlyTies == Spec => []OnlyTiesAreSkipped
<1>1. IInv => OnlyTiesAreSkipped
  BY DEF IInv
<1>. QED
  BY SpecIInv, <1>1, PTL

\* No row rewards a selection that traded another mint.
THEOREM MintsMatch == Spec => []RewardedBySameMint
<1>1. IInv => RewardedBySameMint
  BY RowIsFound DEF IInv, AttributionOK, RightlyRewarded, RewardedBySameMint
<1>. QED
  BY SpecIInv, <1>1, PTL

\* With matching by order id, a selection gets another order's row only when
\* that order has no selection left to reward.
THEOREM WrongRowOnlyWhenAbsent == Spec => []MisattributedOnlyWhenAbsent
<1>1. IInv => MisattributedOnlyWhenAbsent
  <2>. SUFFICES ASSUME IInv, OrderIdMatching, NEW w \in rewards, w.by # Timeout
                PROVE  \/ RowOfOrder(w).order = w.order
                       \/ RowOfOrder(w).order \in ForeignOrder
                       \/ RowOfOrder(w).order \in Settled \cup forgotten
    BY DEF MisattributedOnlyWhenAbsent
  <2>1. RowOfOrder(w) \in read /\ w.by = RowOfOrder(w).id
    BY RowIsFound DEF IInv
  <2>2. RightlyRewarded(w, RowOfOrder(w))
    BY <2>1 DEF IInv, AttributionOK
  <2>. QED
    BY <2>2 DEF RightlyRewarded
<1>. QED
  BY SpecIInv, <1>1, PTL

-----------------------------------------------------------------------------
(* The queue implements the ledger *)

\* The rows the ledger counts as used.
UsedRows == {w.by : w \in rewards} \ {Timeout}

LEMMA UsedWithRow ==
    ASSUME NEW o, NEW b, b # Timeout,
           rewards' = rewards \cup {[order |-> o, by |-> b]}
    PROVE  UsedRows' = UsedRows \cup {b}
<1>. DEFINE w0 == [order |-> o, by |-> b]
<1>1. w0.by = b
  OBVIOUS
<1>2. rewards' = rewards \cup {w0}
  OBVIOUS
<1>. HIDE DEF w0
<1>3. {w.by : w \in rewards'} = {w.by : w \in rewards} \cup {b}
  BY <1>1, <1>2
<1>. QED
  BY <1>3 DEF UsedRows, Timeout

LEMMA UsedWithTimeouts ==
    ASSUME NEW S, rewards' = rewards \cup TimeoutRewards(S)
    PROVE  UsedRows' = UsedRows
<1>1. \A w \in TimeoutRewards(S) : w.by = Timeout
  BY DEF TimeoutRewards
<1>. QED
  BY <1>1 DEF UsedRows

\* The row that is worked through has rewarded nobody yet.
LEMMA RowIsUnused ==
    ASSUME TypeOK, TableOK, CursorOK, RewardsFromRead, NEW r \in batch
    PROVE  r.id \in RowId /\ r.id # Timeout /\ r.id \notin UsedRows
<1>1. r.id \in RowId /\ r.id # Timeout
  BY ConstantsAssumption DEF TypeOK, Outcome, RowId, Timeout, ConstantsAssumption
<1>2. ASSUME NEW w \in rewards, w.by = r.id PROVE FALSE
  <2>1. PICK s \in read : s.id = w.by
    BY <1>1, <1>2 DEF RewardsFromRead
  <2>. QED
    BY <1>2, <2>1 DEF TableOK, CursorOK
<1>. QED
  BY <1>1, <1>2 DEF UsedRows

\* Each step of the queue is a step of the ledger or leaves it alone.
LEMMA StepSettles ==
    ASSUME IInv, [Next]_vars
    PROVE  [Ledger!Next]_(Ledger!ledgerVars)
<1>. USE DEF UsedRows
<1>1. ASSUME NEW o \in Order, Enqueue(o) PROVE Ledger!Issue(o)
  <2>1. o \notin byId \cup Settled \cup forgotten
    BY <1>1 DEF Enqueue, IInv, RewardedOnce
  <2>2. rewards' = rewards /\ forgotten' = forgotten /\ byId' = byId \cup {o}
    BY <1>1 DEF Enqueue
  <2>. QED
    BY <2>1, <2>2 DEF Ledger!Issue, Settled
<1>2. ASSUME NEW r \in batch, NEW o \in Order, PollMatch(r, o)
      PROVE  r.id \in RowId /\ Ledger!Settle(o, r.id)
  <2>1. o \in byId
    BY <1>2, MatchedIsPending DEF PollMatch, IInv, TypeOK
  <2>2. r.id \in RowId /\ r.id # Timeout /\ r.id \notin UsedRows
    BY RowIsUnused DEF IInv
  <2>3. rewards' = rewards \cup {[order |-> o, by |-> r.id]}
    BY <1>2 DEF PollMatch
  <2>4. Settled' = Settled \cup {o}
    BY <2>3, SettledGrows, OrderOfOne
  <2>5. UsedRows' = UsedRows \cup {r.id}
    BY <2>2, <2>3, UsedWithRow
  <2>6. byId' = byId \ {o} /\ forgotten' = forgotten
    BY <1>2 DEF PollMatch, Remove, TakeRow
  <2>. QED
    BY <2>1, <2>2, <2>4, <2>5, <2>6 DEF Ledger!Settle
<1>3. CASE PollEnd \/ Sweep
  <2>. DEFINE S == Expired(now)
  <2>1. S \subseteq byId /\ S \in SUBSET Order
    BY DEF Expired, IInv, TypeOK
  <2>2. /\ byId' = byId \ S
        /\ rewards' = rewards \cup TimeoutRewards(S)
        /\ forgotten' = forgotten
    BY <1>3 DEF PollEnd, Sweep, PruneExpired, Remove
  <2>. HIDE DEF S
  <2>3. Settled' = Settled \cup S
    BY <2>2, SettledGrows, OrdersOfTimeouts
  <2>4. UsedRows' = UsedRows
    BY <2>2, UsedWithTimeouts
  <2>5. Ledger!Expire(S)
    BY <2>1, <2>2, <2>3, <2>4 DEF Ledger!Expire
  <2>. QED
    BY <2>1, <2>5 DEF Ledger!Next
<1>4. ASSUME NEW S \in SUBSET byId, Restart(S) PROVE S \in SUBSET Order /\ Ledger!Stop(S)
  <2>1. /\ byId' = {}
        /\ rewards' = rewards \cup TimeoutRewards(S)
        /\ forgotten' = forgotten \cup (byId \ S)
    BY <1>4 DEF Restart
  <2>2. Settled' = Settled \cup S
    BY <2>1, SettledGrows, OrdersOfTimeouts
  <2>3. UsedRows' = UsedRows
    BY <2>1, UsedWithTimeouts
  <2>. QED
    BY <2>1, <2>2, <2>3 DEF Ledger!Stop, IInv, TypeOK
<1>5. CASE Crash \/ Shutdown
  <2>1. PICK S \in SUBSET byId : Restart(S)
    BY <1>5 DEF Crash, Shutdown, Expired
  <2>. QED
    BY <1>4, <2>1 DEF Ledger!Next
<1>6. CASE PollStart \/ (\E r \in batch : PollMiss(r)) \/ Tick \/ UNCHANGED vars
           \/ \E x \in AnyOrder, ts \in 0..MaxTime : WriteOutcome(x, ts)
  <2>1. byId' = byId /\ rewards' = rewards /\ forgotten' = forgotten
    BY <1>6 DEF PollStart, PollMiss, TakeRow, Tick, WriteOutcome, vars, queueVars
  <2>. QED
    BY <2>1 DEF Ledger!ledgerVars, Settled
<1>. QED
  BY <1>1, <1>2, <1>3, <1>5, <1>6 DEF Next, PolicyEngine, Ledger!Next

\* Polls, sweeps, shutdowns and crashes together keep the ledger's promise: a
\* selection is settled once, by one row that settles nothing else or by a
\* timeout, or it is lost with the process that held it.
THEOREM ImplementsLedger == Spec => RefinesLedger
<1>1. Init => Ledger!Init
  BY DEF Init, Ledger!Init, Settled
<1>. QED
  BY <1>1, StepSettles, SpecIInv, PTL DEF Spec, RefinesLedger, Ledger!Spec
=============================================================================
