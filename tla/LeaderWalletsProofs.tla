------------------------ MODULE LeaderWalletsProofs ------------------------
(***************************************************************************)
(* Proofs about LeaderWallets, for any pools, transactions, swaps, sweeps  *)
(* and bounds: what the polls miss, which listeners there are and how the  *)
(* scores lag.                                                             *)
(***************************************************************************)
EXTENDS LeaderWallets, WellFoundedInduction, SequenceTheorems, TLAPS

USE WatcherConstants, LeaderConstants DEF WatcherConstants, LeaderConstants

-----------------------------------------------------------------------------
(* The invariant *)

Migration == [pool : Pool, ts : Nat \ {0}]

\* What the migration watcher has: a row has the time of a block there was.
WatcherTypes ==
    /\ clock \in Nat \ {0}
    /\ blockTime \in [Transaction -> Nat]
    /\ callback \in [Notice -> {"none", "asked", "done"}]
    /\ rowWrites \in Seq(Transaction)
    /\ migrations \in Seq(Migration)
TimesArePast ==
    /\ \A x \in Transaction : blockTime[x] <= clock
    /\ \A n \in Notice : callback[n] = "asked" => blockTime[n[1]] > 0
    /\ \A i \in 1..Len(rowWrites) : blockTime[rowWrites[i]] > 0
    /\ \A i \in 1..Len(migrations) : migrations[i].ts <= clock

SweepState == [now : Nat, left : SUBSET Subscription, awaits : SUBSET Subscription]

PoolTypes ==
    /\ made \in [Pool -> 0..MaxListeners]
    /\ until \in [Subscription -> Nat]
    /\ active \in [Pool -> Nat] /\ \A p \in Pool : active[p] \in {0, made[p]}
    /\ listeners \subseteq Subscription /\ lateExtended \subseteq Subscription
    /\ sweeping \in [Sweep -> SweepState]
    /\ overlapped \in BOOLEAN
    /\ lastMigrationTs \in Nat
    /\ polls \in Seq(Nat)

\* lastMigrationTs is the time of a row an earlier poll has passed.
MarkIsPolled ==
    /\ \A k \in 1..Len(polls) : polls[k] \in 1..Len(migrations)
    /\ \A k \in 1..(Len(polls) - 1) : polls[k] < polls[k + 1]
    /\ polls = <<>> => lastMigrationTs = 0
    /\ polls # <<>> =>
         \E j \in 1..polls[Len(polls)] : migrations[j].ts = lastMigrationTs

-----------------------------------------------------------------------------
(* The migration watcher *)

QueuedAfter(p, q, task) ==
    /\ p \in Seq(Transaction) /\ Len(p) \in Nat \ {0} /\ p[Len(p)] = task
    /\ \A i \in 1..(Len(p) - 1) : \E j \in 1..Len(q) : p[i] = q[j]

LEMMA PushedOnto ==
    ASSUME NEW q \in Seq(Transaction), NEW task \in Transaction
    PROVE  QueuedAfter(Pushed(q, task), q, task)
<1>1. CASE Len(q) >= MaxQueueSize
  <2>. DEFINE t == Tail(q)
  <2>1. q # <<>> /\ Len(q) \in Nat
    BY <1>1
  <2>2. t \in Seq(Transaction) /\ Len(t) \in Nat /\ Len(t) = Len(q) - 1
        /\ \A i \in 1..Len(t) : i + 1 \in 1..Len(q) /\ t[i] = q[i + 1]
    BY <2>1
  <2>3. Pushed(q, task) = Append(t, task)
    BY <1>1 DEF Pushed
  <2>. HIDE DEF t
  <2>4. /\ Append(t, task) \in Seq(Transaction) /\ Len(Append(t, task)) = Len(t) + 1
        /\ Append(t, task)[Len(t) + 1] = task
        /\ \A i \in 1..Len(t) : Append(t, task)[i] = t[i]
    BY <2>2
  <2>. QED
    BY <2>2, <2>3, <2>4 DEF QueuedAfter
<1>2. CASE ~ (Len(q) >= MaxQueueSize)
  <2>1. Pushed(q, task) = Append(q, task)
    BY <1>2 DEF Pushed
  <2>2. /\ Append(q, task) \in Seq(Transaction) /\ Len(Append(q, task)) = Len(q) + 1 /\ Len(q) \in Nat
        /\ Append(q, task)[Len(q) + 1] = task
        /\ \A i \in 1..Len(q) : Append(q, task)[i] = q[i]
    OBVIOUS
  <2>. QED
    BY <2>1, <2>2 DEF QueuedAfter
<1>. QED
  BY <1>1, <1>2

\* Rows are only added, and time does not go back.
TableGrows ==
    /\ clock <= clock'
    /\ Len(migrations) <= Len(migrations')
    /\ \A i \in 1..Len(migrations) : migrations'[i] = migrations[i]

LEMMA WatcherStep ==
    ASSUME WatcherTypes, TimesArePast, WatcherNext
    PROVE  WatcherTypes' /\ TimesArePast' /\ TableGrows
<1>. USE DEF WatcherTypes
<1>0. \A n \in Notice : n[1] \in Transaction
  BY DEF Notice
<1>t. Len(migrations) \in Nat /\ Len(rowWrites) \in Nat
  OBVIOUS
<1>1. ASSUME ClockTicks PROVE WatcherTypes' /\ TimesArePast' /\ TableGrows
  <2>1. /\ clock' = clock + 1
        /\ UNCHANGED <<blockTime, callback, rowWrites, migrations>>
    BY <1>1 DEF ClockTicks
  <2>2. \A t \in Nat : t <= clock => t <= clock'
    BY <2>1
  <2>3. \A i \in 1..Len(migrations) : migrations[i].ts \in Nat
    <3>1. \A i \in 1..Len(migrations) : migrations[i] \in Migration
      OBVIOUS
    <3>. QED
      BY <3>1 DEF Migration
  <2>4. TimesArePast'
    BY <2>1, <2>2, <2>3 DEF TimesArePast
  <2>. QED
    BY <2>1, <2>4, <1>t DEF TableGrows
<1>2. ASSUME NEW x \in Transaction, Mined(x) PROVE WatcherTypes' /\ TimesArePast' /\ TableGrows
  <2>1. /\ blockTime[x] = 0 /\ blockTime' = [blockTime EXCEPT ![x] = clock]
        /\ UNCHANGED <<clock, callback, rowWrites, migrations>>
    BY <1>2 DEF Mined
  <2>2. /\ blockTime' \in [Transaction -> Nat]
        /\ \A y \in Transaction : blockTime'[y] <= clock /\ (blockTime[y] > 0 => blockTime'[y] > 0)
    BY <2>1 DEF TimesArePast
  <2>3. TimesArePast'
    BY <1>0, <2>1, <2>2 DEF TimesArePast
  <2>. QED
    BY <1>t, <2>1, <2>2, <2>3 DEF TableGrows
<1>3. ASSUME NEW n \in Notice, LogSeen(n) PROVE WatcherTypes' /\ TimesArePast' /\ TableGrows
  <2>1. /\ blockTime[n[1]] > 0
        /\ callback' = [callback EXCEPT ![n] = IF n[1] \in seen THEN "done" ELSE "asked"]
        /\ UNCHANGED <<clock, blockTime, rowWrites, migrations>>
    BY <1>3 DEF LogSeen
  <2>2. TimesArePast'
    BY <2>1 DEF TimesArePast
  <2>. QED
    BY <1>t, <2>1, <2>2 DEF TableGrows
<1>4. ASSUME NEW n \in Notice, TransactionFetched(n)
      PROVE  WatcherTypes' /\ TimesArePast' /\ TableGrows
  <2>1. /\ callback[n] = "asked" /\ callback' = [callback EXCEPT ![n] = "done"]
        /\ rowWrites' = Pushed(rowWrites, n[1])
        /\ UNCHANGED <<clock, blockTime, migrations>>
    BY <1>4 DEF TransactionFetched
  <2>2. n[1] \in Transaction /\ blockTime[n[1]] > 0
    BY <1>0, <2>1 DEF TimesArePast
  <2>. DEFINE q == Pushed(rowWrites, n[1])
  <2>3. /\ q \in Seq(Transaction) /\ Len(q) \in Nat \ {0} /\ q[Len(q)] = n[1]
        /\ \A i \in 1..(Len(q) - 1) : \E j \in 1..Len(rowWrites) : q[i] = rowWrites[j]
    <3>1. QueuedAfter(q, rowWrites, n[1])
      BY <2>2, PushedOnto
    <3>. QED
      BY <3>1 DEF QueuedAfter
  <2>. HIDE DEF q
  <2>4. ASSUME NEW i \in 1..Len(q) PROVE blockTime[q[i]] > 0
    <3>1. CASE i = Len(q)
      BY <2>2, <2>3, <3>1
    <3>2. CASE i # Len(q)
      <4>1. i \in 1..(Len(q) - 1)
        BY <2>3, <3>2
      <4>. QED
        BY <2>3, <4>1 DEF TimesArePast
    <3>. QED
      BY <3>1, <3>2
  <2>5. rowWrites' = q
    BY <2>1 DEF q
  <2>6. TimesArePast'
    BY <2>1, <2>4, <2>5 DEF TimesArePast
  <2>. QED
    BY <1>t, <2>1, <2>3, <2>5, <2>6 DEF TableGrows
<1>5. ASSUME NEW n \in Notice, TransactionMissing(n)
      PROVE  WatcherTypes' /\ TimesArePast' /\ TableGrows
  <2>1. /\ callback' = [callback EXCEPT ![n] = "done"]
        /\ UNCHANGED <<clock, blockTime, rowWrites, migrations>>
    BY <1>5 DEF TransactionMissing
  <2>2. TimesArePast'
    BY <2>1 DEF TimesArePast
  <2>. QED
    BY <1>t, <2>1, <2>2 DEF TableGrows
<1>6. ASSUME InsertMigration PROVE WatcherTypes' /\ TimesArePast' /\ TableGrows
  <2>. DEFINE x == Head(rowWrites)
              row == [pool |-> PoolOf[x], ts |-> blockTime[x]]
              table == Append(migrations, row)
  <2>1. /\ rowWrites # <<>> /\ migrations' = table /\ rowWrites' = Tail(rowWrites)
        /\ UNCHANGED <<clock, blockTime, callback>>
    BY <1>6 DEF InsertMigration
  <2>2. /\ x \in Transaction /\ x = rowWrites[1] /\ 1 \in 1..Len(rowWrites)
        /\ rowWrites' \in Seq(Transaction)
        /\ \A i \in 1..Len(rowWrites') : i + 1 \in 1..Len(rowWrites) /\ rowWrites'[i] = rowWrites[i + 1]
    BY <2>1
  <2>3. blockTime[x] \in Nat /\ blockTime[x] > 0 /\ blockTime[x] <= clock
    BY <2>2 DEF TimesArePast
  <2>. HIDE DEF x
  <2>4. row \in Migration /\ row.ts <= clock
    BY <2>2, <2>3 DEF Migration
  <2>. HIDE DEF row
  <2>5. /\ table \in Seq(Migration) /\ Len(table) = Len(migrations) + 1
        /\ table[Len(migrations) + 1] = row
        /\ \A i \in 1..Len(migrations) : table[i] = migrations[i]
    BY <2>4
  <2>. HIDE DEF table
  <2>6. ASSUME NEW i \in 1..Len(table) PROVE table[i].ts <= clock
    <3>1. CASE i = Len(migrations) + 1
      BY <2>4, <2>5, <3>1
    <3>2. CASE i # Len(migrations) + 1
      <4>1. i \in 1..Len(migrations)
        BY <1>t, <2>5, <3>2
      <4>. QED
        BY <2>5, <4>1 DEF TimesArePast
    <3>. QED
      BY <3>1, <3>2
  <2>7. \A i \in 1..Len(rowWrites') : blockTime[rowWrites'[i]] > 0
    BY <2>2 DEF TimesArePast
  <2>8. TimesArePast'
    BY <2>1, <2>6, <2>7 DEF TimesArePast
  <2>9. Len(migrations) <= Len(table)
    BY <1>t, <2>5
  <2>. QED
    BY <2>1, <2>2, <2>5, <2>8, <2>9 DEF TableGrows
<1>7. ASSUME RouteTakes PROVE WatcherTypes' /\ TimesArePast' /\ TableGrows
  <2>1. UNCHANGED <<clock, blockTime, callback, rowWrites, migrations>>
    BY <1>7 DEF RouteTakes
  <2>2. TimesArePast'
    BY <2>1 DEF TimesArePast
  <2>. QED
    BY <1>t, <2>1, <2>2 DEF TableGrows
<1>. QED
  BY <1>1, <1>2, <1>3, <1>4, <1>5, <1>6, <1>7 DEF WatcherNext

-----------------------------------------------------------------------------
(* Polls *)

LEMMA Greatest ==
    ASSUME NEW S, S \subseteq Nat, S # {}, NEW b \in Nat, \A x \in S : x <= b
    PROVE  MaxOf(S) \in S /\ \A x \in S : x <= MaxOf(S)
<1>. DEFINE Bounds == {n \in Nat : \A x \in S : x <= n}
<1>1. PICK n \in Bounds : \A m \in Bounds : ~ (<<m, n>> \in OpToRel(<, Nat))
  <2>1. b \in Bounds
    OBVIOUS
  <2>2. Bounds # {} /\ Bounds \subseteq Nat
    BY <2>1
  <2>. HIDE DEF Bounds
  <2>. QED
    BY <2>2, NatLessThanWellFounded, WFMin
<1>2. n \in Nat /\ (\A x \in S : x <= n) /\ \A m \in Bounds : ~ (m < n)
  BY <1>1 DEF OpToRel
<1>3. n \in S
  <2>1. CASE n = 0
    <3>1. PICK x \in S : TRUE
      OBVIOUS
    <3>2. x \in Nat /\ x <= n
      BY <1>2
    <3>3. x = n
      BY <2>1, <3>2
    <3>. QED
      BY <3>3
  <2>2. CASE n # 0 /\ n \notin S
    <3>1. n - 1 \in Nat /\ n - 1 < n
      BY <1>2, <2>2
    <3>2. ASSUME NEW x \in S PROVE x <= n - 1
      <4>1. x \in Nat /\ x <= n /\ x # n
        BY <1>2, <2>2
      <4>. QED
        BY <1>2, <4>1
    <3>3. n - 1 \in Bounds
      BY <3>1, <3>2
    <3>. QED
      BY <1>2, <3>1, <3>3
  <2>. QED
    BY <2>1, <2>2
<1>. QED
  BY <1>2, <1>3 DEF MaxOf

\* What Ensure makes of the entries: each only grows, nothing is forgotten, and
\* every pool of the rows is watched for the window of each of its rows.
Extended(rows) ==
    /\ PoolTypes'
    /\ \A p \in Pool : made[p] <= made'[p]
    /\ \A s \in Subscription : until[s] <= until'[s]
    /\ \A r \in rows :
          \E n \in 1..made'[r.pool] : until'[<<r.pool, n>>] >= r.ts + Window

LEMMA EnsureExtends ==
    ASSUME WatcherTypes, TimesArePast, PoolTypes, Ensure(Fresh),
           lastMigrationTs' \in Nat, polls' \in Seq(Nat), UNCHANGED <<sweeping, overlapped>>
    PROVE  Extended(Fresh)
<1>. DEFINE rows == Fresh
            New == {r.pool : r \in rows} \ {p \in Pool : active[p] > 0}
            Entry(p) == IF p \in New THEN <<p, made[p] + 1>> ELSE <<p, active[p]>>
            Times(p) == {r.ts + Window : r \in {q \in rows : q.pool = p}}
            Touched == {Entry(r.pool) : r \in rows}
<1>1. /\ \A p \in New : made[p] < MaxListeners
      /\ made' = [p \in Pool |-> made[p] + IF p \in New THEN 1 ELSE 0]
      /\ active' = [p \in Pool |-> IF p \in New THEN made'[p] ELSE active[p]]
      /\ until' = [s \in Subscription |->
                      IF s \in Touched THEN MaxOf({until[s]} \union Times(s[1]))
                      ELSE until[s]]
      /\ listeners' = listeners \union {Entry(p) : p \in New}
      /\ lateExtended' = lateExtended \union (Touched \cap BeingRemoved)
  BY DEF Ensure
<1>2. \A r \in rows : r \in Migration /\ r.pool \in Pool /\ r.ts \in Nat /\ r.ts <= clock
  <2>1. \A i \in 1..Len(migrations) : migrations[i] \in Migration /\ migrations[i].ts <= clock
    BY DEF WatcherTypes, TimesArePast
  <2>2. DOMAIN migrations = 1..Len(migrations)
    BY DEF WatcherTypes
  <2>3. \A r \in rows : r \in Migration /\ r.ts <= clock
    BY <2>1, <2>2 DEF Fresh
  <2>. QED
    BY <2>3 DEF Migration
<1>. HIDE DEF rows
<1>3. /\ made \in [Pool -> 0..MaxListeners] /\ until \in [Subscription -> Nat]
      /\ active \in [Pool -> Nat] /\ \A p \in Pool : active[p] \in {0, made[p]}
      /\ listeners \subseteq Subscription /\ lateExtended \subseteq Subscription
      /\ New \subseteq Pool /\ clock \in Nat
  BY <1>2 DEF PoolTypes, WatcherTypes
<1>4. \A p \in New : active[p] = 0
  BY <1>3
<1>5. \A r \in rows : r.pool \in New \/ active[r.pool] > 0
  BY <1>2
<1>. HIDE DEF New
<1>6. /\ made' \in [Pool -> 0..MaxListeners] /\ \A p \in Pool : made[p] <= made'[p]
      /\ \A p \in New : made'[p] = made[p] + 1
      /\ \A p \in Pool \ New : made'[p] = made[p]
  <2>1. \A p \in Pool : made[p] \in 0..MaxListeners /\ (p \in New => made[p] < MaxListeners)
    BY <1>1, <1>3
  <2>2. \A p \in Pool : made'[p] = made[p] + IF p \in New THEN 1 ELSE 0
    BY <1>1
  <2>3. ASSUME NEW p \in Pool
        PROVE  /\ made'[p] \in 0..MaxListeners /\ made[p] <= made'[p]
               /\ p \in New => made'[p] = made[p] + 1
               /\ p \notin New => made'[p] = made[p]
    <3>1. made[p] \in Nat /\ made[p] <= MaxListeners /\ (p \in New => made[p] < MaxListeners)
      BY <2>1
    <3>2. CASE p \in New
      BY <2>2, <3>1, <3>2
    <3>3. CASE p \notin New
      BY <2>2, <3>1, <3>3
    <3>. QED
      BY <3>2, <3>3
  <2>4. made' \in [Pool -> 0..MaxListeners]
    BY <1>1, <2>2, <2>3
  <2>. QED
    BY <1>3, <2>3, <2>4
<1>7. active' \in [Pool -> Nat] /\ \A p \in Pool : active'[p] \in {0, made'[p]}
  <2>1. \A p \in Pool : made'[p] \in Nat
    BY <1>6
  <2>2. \A p \in Pool : active'[p] = IF p \in New THEN made'[p] ELSE active[p]
    BY <1>1
  <2>3. ASSUME NEW p \in Pool PROVE active'[p] \in {0, made'[p]}
    <3>1. CASE p \in New
      BY <2>2, <3>1
    <3>2. CASE p \notin New
      <4>1. active'[p] = active[p] /\ made'[p] = made[p]
        BY <1>6, <2>2, <3>2
      <4>2. active[p] \in {0, made[p]}
        BY <1>3
      <4>. QED
        BY <4>1, <4>2
    <3>. QED
      BY <3>1, <3>2
  <2>. QED
    BY <1>1, <1>3, <2>1, <2>3
<1>8. ASSUME NEW p \in Pool, p \in New \/ active[p] > 0
      PROVE  Entry(p) \in Subscription /\ Entry(p) = <<p, made'[p]>> /\ made'[p] \in 1..made'[p]
  <2>0. made[p] \in Nat /\ made'[p] \in 0..MaxListeners
    BY <1>3, <1>6
  <2>1. CASE p \in New
    <3>1. made'[p] = made[p] + 1 /\ Entry(p) = <<p, made'[p]>>
      BY <1>6, <2>1
    <3>. QED
      BY <2>0, <3>1 DEF Subscription
  <2>2. CASE p \notin New
    <3>1. active[p] > 0 /\ active[p] \in {0, made[p]} /\ active[p] \in Nat
      BY <1>3, <1>8, <2>2
    <3>2. active[p] = made[p]
      BY <2>0, <3>1
    <3>3. made'[p] = made[p]
      BY <1>6, <2>2
    <3>4. Entry(p) = <<p, made'[p]>>
      BY <2>2, <3>2, <3>3
    <3>5. made'[p] \in 1..MaxListeners
      BY <2>0, <3>1, <3>2, <3>3
    <3>. QED
      BY <3>4, <3>5 DEF Subscription
  <2>. QED
    BY <2>1, <2>2
<1>. HIDE DEF Entry
<1>9. ASSUME NEW s \in Subscription
      PROVE  LET S == {until[s]} \union Times(s[1])
             IN  MaxOf(S) \in S /\ MaxOf(S) \in Nat /\ \A x \in S : x <= MaxOf(S)
  <2>. DEFINE S == {until[s]} \union Times(s[1])
              b == until[s] + clock + Window
  <2>1. until[s] \in Nat /\ b \in Nat
    BY <1>3
  <2>2. \A x \in Times(s[1]) : x \in Nat /\ x <= clock + Window
    BY <1>2, <1>3
  <2>. HIDE DEF Times
  <2>a. clock + Window \in Nat /\ until[s] <= b /\ clock + Window <= b
    BY <1>3, <2>1
  <2>. HIDE DEF b
  <2>3. S \subseteq Nat /\ S # {} /\ \A x \in S : x <= b
    <3>1. S \subseteq Nat /\ S # {}
      BY <2>1, <2>2
    <3>2. ASSUME NEW x \in S PROVE x <= b
      <4>1. CASE x = until[s]
        BY <2>a, <4>1
      <4>2. CASE x \in Times(s[1])
        <5>1. x \in Nat /\ x <= clock + Window
          BY <2>2, <4>2
        <5>. QED
          BY <2>1, <2>a, <5>1
      <4>. QED
        BY <4>1, <4>2
    <3>. QED
      BY <3>1, <3>2
  <2>. HIDE DEF S, b
  <2>4. MaxOf(S) \in S /\ \A x \in S : x <= MaxOf(S)
    BY <2>1, <2>3, Greatest
  <2>. QED
    BY <2>3, <2>4 DEF S
<1>10. until' \in [Subscription -> Nat] /\ \A s \in Subscription : until[s] <= until'[s]
  <2>1. ASSUME NEW s \in Subscription PROVE until'[s] \in Nat /\ until[s] <= until'[s]
    <3>1. CASE s \in Touched
      BY <1>1, <1>9, <3>1
    <3>2. CASE s \notin Touched
      BY <1>1, <1>3, <3>2
    <3>. QED
      BY <3>1, <3>2
  <2>. QED
    BY <1>1, <2>1
<1>11. ASSUME NEW r \in rows
       PROVE  \E n \in 1..made'[r.pool] : until'[<<r.pool, n>>] >= r.ts + Window
  <2>1. /\ r.pool \in Pool /\ Entry(r.pool) \in Touched /\ Entry(r.pool) \in Subscription
        /\ Entry(r.pool) = <<r.pool, made'[r.pool]>> /\ made'[r.pool] \in 1..made'[r.pool]
    BY <1>2, <1>5, <1>8
  <2>. DEFINE s == Entry(r.pool)
  <2>2. s[1] = r.pool
    BY <2>1
  <2>3. r.ts + Window \in {until[s]} \union Times(s[1])
    BY <2>2
  <2>. HIDE DEF s
  <2>4. until'[s] = MaxOf({until[s]} \union Times(s[1]))
    BY <1>1, <2>1 DEF s
  <2>5. s \in Subscription
    BY <2>1 DEF s
  <2>6. r.ts + Window <= until'[s] /\ until'[s] \in Nat
    BY <1>9, <2>3, <2>4, <2>5
  <2>7. r.ts \in Nat
    BY <1>2
  <2>8. until'[s] >= r.ts + Window
    BY <2>6, <2>7
  <2>9. until'[s] = until'[<<r.pool, made'[r.pool]>>]
    BY <2>1 DEF s
  <2>. QED
    BY <2>1, <2>8, <2>9
<1>12. listeners' \subseteq Subscription /\ lateExtended' \subseteq Subscription
  <2>1. \A p \in New : Entry(p) \in Subscription
    BY <1>3, <1>8
  <2>2. Touched \subseteq Subscription
    BY <1>2, <1>5, <1>8
  <2>. HIDE DEF Touched
  <2>. QED
    BY <1>1, <1>3, <2>1, <2>2
<1>. QED
  BY <1>6, <1>7, <1>10, <1>11, <1>12 DEF Extended, PoolTypes, rows

-----------------------------------------------------------------------------
(* What the polls miss *)

Before(k) == IF k = 1 THEN 0 ELSE polls[k - 1]

\* What OnlyLateMigrationsAreMissed says of row i, which poll k passed.
Accounted(k, i) ==
    \/ \E n \in 1..made[migrations[i].pool] :
          until[<<migrations[i].pool, n>>] >= migrations[i].ts + Window
    \/ \E j \in 1..Before(k) : migrations[j].ts >= migrations[i].ts
    \/ k = 1 /\ migrations[i].ts + Window < clock

LEMMA Missed ==
    ASSUME polls \in Seq(Nat)
    PROVE  OnlyLateMigrationsAreMissed <=>
              \A k \in 1..Len(polls) : \A i \in (Before(k) + 1)..polls[k] : Accounted(k, i)
<1>1. DOMAIN polls = 1..Len(polls)
  OBVIOUS
<1>. QED
  BY <1>1 DEF OnlyLateMigrationsAreMissed, Accounted, Before

EntriesGrow ==
    /\ \A p \in Pool : made[p] <= made'[p]
    /\ \A s \in Subscription : until[s] <= until'[s]

\* A row that is accounted for stays so.
LEMMA StaysAccounted ==
    ASSUME WatcherTypes, TimesArePast, WatcherTypes', PoolTypes, PoolTypes', MarkIsPolled,
           TableGrows, EntriesGrow,
           NEW k \in 1..Len(polls), polls'[k] = polls[k], Before(k)' = Before(k),
           NEW i \in (Before(k) + 1)..polls[k], Accounted(k, i)
    PROVE  Accounted(k, i)'
<1>1. /\ Len(polls) \in Nat /\ polls[k] \in 1..Len(migrations) /\ Len(migrations) \in Nat
      /\ Before(k) \in 0..Len(migrations)
  <2>1. Len(polls) \in Nat /\ Len(migrations) \in Nat /\ polls[k] \in 1..Len(migrations)
    <3>1. polls \in Seq(Nat) /\ migrations \in Seq(Migration)
      BY DEF PoolTypes, WatcherTypes
    <3>2. Len(polls) \in Nat /\ Len(migrations) \in Nat
      BY <3>1
    <3>3. polls[k] \in 1..Len(migrations)
      BY DEF MarkIsPolled
    <3>. QED
      BY <3>2, <3>3
  <2>2. CASE k = 1
    BY <2>1, <2>2 DEF Before
  <2>3. CASE k # 1
    <3>1. k - 1 \in 1..Len(polls)
      BY <2>1, <2>3
    <3>. QED
      BY <2>1, <2>3, <3>1 DEF Before, MarkIsPolled
  <2>. QED
    BY <2>1, <2>2, <2>3
<1>2. i \in 1..Len(migrations) /\ \A j \in 1..Before(k) : j \in 1..Len(migrations)
  BY <1>1
<1>3. \A j \in 1..Len(migrations) : migrations'[j] = migrations[j]
  BY DEF TableGrows
<1>4. \A j \in 1..Len(migrations) : migrations[j] \in Migration
  BY DEF WatcherTypes
<1>. DEFINE p == migrations[i].pool
            t == migrations[i].ts
<1>5. p \in Pool /\ t \in Nat /\ migrations'[i].pool = p /\ migrations'[i].ts = t
  BY <1>2, <1>3, <1>4 DEF Migration
<1>. HIDE DEF p, t
<1>6. CASE \E n \in 1..made[p] : until[<<p, n>>] >= t + Window
  <2>1. PICK n \in 1..made[p] : until[<<p, n>>] >= t + Window
    BY <1>6
  <2>2. /\ made[p] \in 0..MaxListeners /\ made'[p] \in 0..MaxListeners
        /\ made[p] <= made'[p]
    BY <1>5 DEF PoolTypes, EntriesGrow
  <2>3. n \in 1..made'[p] /\ <<p, n>> \in Subscription
    BY <1>5, <2>2 DEF Subscription
  <2>4. /\ until[<<p, n>>] \in Nat /\ until'[<<p, n>>] \in Nat /\ until[<<p, n>>] <= until'[<<p, n>>]
    BY <2>3 DEF PoolTypes, EntriesGrow
  <2>5. t + Window \in Nat
    BY <1>5
  <2>6. until'[<<p, n>>] >= t + Window
    BY <2>1, <2>4, <2>5
  <2>. QED
    BY <1>5, <2>3, <2>6 DEF Accounted
<1>7. CASE \E j \in 1..Before(k) : migrations[j].ts >= t
  <2>1. \E j \in 1..Before(k)' : migrations'[j].ts >= migrations'[i].ts
    BY <1>2, <1>3, <1>5, <1>7
  <2>. QED
    BY <2>1 DEF Accounted
<1>8. CASE k = 1 /\ t + Window < clock
  <2>1. clock \in Nat /\ clock' \in Nat /\ clock <= clock'
    BY DEF WatcherTypes, TableGrows
  <2>2. t + Window < clock'
    BY <1>5, <1>8, <2>1
  <2>. QED
    BY <1>5, <1>8, <2>2 DEF Accounted
<1>. QED
  BY <1>6, <1>7, <1>8 DEF Accounted, p, t

MissInv ==
    WatcherTypes /\ TimesArePast /\ PoolTypes /\ MarkIsPolled /\ OnlyLateMigrationsAreMissed

\* Steps that poll nothing.
LEMMA MissKept ==
    ASSUME MissInv, WatcherTypes', PoolTypes', TableGrows,
           UNCHANGED <<made, until, polls, lastMigrationTs>>
    PROVE  MarkIsPolled' /\ OnlyLateMigrationsAreMissed'
<1>1. EntriesGrow
  BY DEF MissInv, PoolTypes, EntriesGrow
<1>2. polls \in Seq(Nat) /\ polls' \in Seq(Nat) /\ polls' = polls /\ Len(polls) \in Nat
  BY DEF MissInv, PoolTypes
<1>3. \A k \in 1..Len(polls) : Before(k)' = Before(k)
  BY <1>2 DEF Before
<1>4. \A k \in 1..Len(polls) : \A i \in (Before(k) + 1)..polls[k] : Accounted(k, i)'
  <2>1. \A k \in 1..Len(polls) : \A i \in (Before(k) + 1)..polls[k] : Accounted(k, i)
    BY <1>2, Missed DEF MissInv
  <2>. QED
    BY <1>1, <1>2, <1>3, <2>1, StaysAccounted DEF MissInv
<1>5. OnlyLateMigrationsAreMissed'
  <2>1. \A k \in 1..Len(polls') : \A i \in (Before(k)' + 1)..polls'[k] : Accounted(k, i)'
    BY <1>2, <1>3, <1>4
  <2>2. DOMAIN polls' = 1..Len(polls')
    BY <1>2
  <2>. QED
    BY <2>1, <2>2 DEF OnlyLateMigrationsAreMissed, Accounted, Before
<1>6. MarkIsPolled'
  <2>1. Len(migrations) \in Nat /\ Len(migrations') \in Nat /\ Len(migrations) <= Len(migrations')
    BY DEF MissInv, WatcherTypes, TableGrows
  <2>2. \A k \in 1..Len(polls) : polls[k] \in 1..Len(migrations) /\ polls[k] \in 1..Len(migrations')
    BY <2>1 DEF MissInv, MarkIsPolled
  <2>3. polls # <<>> => \E j \in 1..polls[Len(polls)] : migrations'[j].ts = lastMigrationTs'
    <3>1. SUFFICES ASSUME polls # <<>> PROVE \E j \in 1..polls[Len(polls)] : migrations'[j].ts = lastMigrationTs'
      OBVIOUS
    <3>2. Len(polls) \in 1..Len(polls)
      BY <1>2, <3>1
    <3>3. PICK j \in 1..polls[Len(polls)] : migrations[j].ts = lastMigrationTs
      BY <3>1 DEF MissInv, MarkIsPolled
    <3>4. polls[Len(polls)] \in 1..Len(migrations)
      BY <2>2, <3>2
    <3>5. j \in 1..Len(migrations)
      BY <2>1, <3>4
    <3>. QED
      BY <3>3, <3>5 DEF TableGrows
  <2>4. polls' = <<>> => lastMigrationTs' = 0
    BY <1>2 DEF MissInv, MarkIsPolled
  <2>5. \A k \in 1..(Len(polls) - 1) : polls[k] < polls[k + 1]
    BY DEF MissInv, MarkIsPolled
  <2>. QED
    BY <1>2, <2>2, <2>3, <2>4, <2>5 DEF MarkIsPolled
<1>. QED
  BY <1>5, <1>6

\* A poll accounts for the rows it passes.
LEMMA MissPolled ==
    ASSUME MissInv, PollMigrations, UNCHANGED watcherVars
    PROVE  PoolTypes' /\ MarkIsPolled' /\ OnlyLateMigrationsAreMissed'
<1>. DEFINE rows == {migrations[i] : i \in DOMAIN migrations}
            T == {lastMigrationTs} \union {r.ts : r \in rows}
            l == Len(polls)
            m == Len(migrations)
            last == IF polls = <<>> THEN 0 ELSE polls[l]
<1>1. /\ Ensure(Fresh) /\ lastMigrationTs' = MaxOf(T) /\ polls' = Append(polls, m)
      /\ migrations # <<>> /\ m > last
      /\ UNCHANGED <<hitVars, sweeping, overlapped>>
      /\ clock' = clock /\ migrations' = migrations
  BY DEF PollMigrations, Mark, watcherVars
<1>2. /\ WatcherTypes /\ TimesArePast /\ PoolTypes /\ MarkIsPolled
      /\ polls \in Seq(Nat) /\ l \in Nat /\ m \in Nat /\ m > 0 /\ lastMigrationTs \in Nat
      /\ clock \in Nat
  BY <1>1 DEF MissInv, PoolTypes, WatcherTypes
<1>3. \A i \in 1..m : migrations[i] \in rows /\ migrations[i] \in Migration
                      /\ migrations[i].ts \in Nat \ {0} /\ migrations[i].pool \in Pool
                      /\ migrations[i].ts <= clock
  <2>1. \A i \in 1..m : i \in DOMAIN migrations /\ migrations[i] \in Migration
                        /\ migrations[i].ts <= clock
    BY <1>2 DEF WatcherTypes, TimesArePast
  <2>. QED
    BY <2>1 DEF Migration
<1>4. \A r \in rows : \E i \in 1..m : r = migrations[i]
  <2>1. DOMAIN migrations = 1..m
    BY <1>2 DEF WatcherTypes
  <2>. QED
    BY <2>1
<1>5. /\ polls' \in Seq(Nat) /\ Len(polls') = l + 1 /\ polls'[l + 1] = m /\ polls' # <<>>
      /\ \A k \in 1..l : polls'[k] = polls[k]
  <2>. HIDE DEF m
  <2>. QED
    BY <1>1, <1>2
<1>6. MaxOf(T) \in T /\ MaxOf(T) \in Nat /\ \A x \in T : x <= MaxOf(T)
  <2>. DEFINE b == lastMigrationTs + clock
  <2>1. b \in Nat
    BY <1>2
  <2>2. ASSUME NEW x \in T PROVE x \in Nat /\ x <= b
    <3>1. CASE x = lastMigrationTs
      BY <1>2, <3>1
    <3>2. CASE \E r \in rows : x = r.ts
      <4>1. PICK i \in 1..m : x = migrations[i].ts
        BY <1>4, <3>2
      <4>2. x \in Nat /\ x <= clock
        BY <1>3, <4>1
      <4>. QED
        BY <1>2, <4>2
    <3>. QED
      BY <3>1, <3>2
  <2>. HIDE DEF b
  <2>3. T # {} /\ T \subseteq Nat
    BY <2>2
  <2>. HIDE DEF T
  <2>4. MaxOf(T) \in T /\ \A x \in T : x <= MaxOf(T)
    BY <2>1, <2>2, <2>3, Greatest
  <2>. QED
    BY <2>3, <2>4
<1>. HIDE DEF l, m, last
<1>7. Extended(Fresh)
  BY <1>1, <1>2, <1>5, <1>6, EnsureExtends
<1>8. MarkIsPolled'
  <2>1. \A k \in 1..(l + 1) : polls'[k] \in 1..m
    <3>1. \A k \in 1..l : polls[k] \in 1..m
      BY <1>2 DEF MarkIsPolled, l, m
    <3>. QED
      BY <1>2, <1>5, <3>1
  <2>2. ASSUME NEW k \in 1..l PROVE polls'[k] < polls'[k + 1]
    <3>1. CASE k = l
      <4>1. polls # <<>> /\ last = polls[l]
        BY <1>2, <3>1 DEF l, last
      <4>. QED
        BY <1>1, <1>2, <1>5, <2>1, <3>1, <4>1
    <3>2. CASE k # l
      <4>1. k \in 1..(l - 1) /\ k + 1 \in 1..l
        BY <1>2, <3>2
      <4>2. polls[k] < polls[k + 1]
        BY <1>2, <4>1 DEF MarkIsPolled, l
      <4>. QED
        BY <1>5, <4>1, <4>2
    <3>. QED
      BY <3>1, <3>2
  <2>3. \E j \in 1..m : migrations[j].ts = MaxOf(T)
    <3>1. CASE \E r \in rows : MaxOf(T) = r.ts
      BY <1>4, <3>1
    <3>2. CASE MaxOf(T) = lastMigrationTs
      <4>1. polls # <<>>
        <5>1. SUFFICES ASSUME polls = <<>> PROVE FALSE
          OBVIOUS
        <5>2. lastMigrationTs = 0
          BY <1>2, <5>1 DEF MarkIsPolled
        <5>3. migrations[1].ts \in T /\ migrations[1].ts \in Nat \ {0}
          BY <1>2, <1>3
        <5>. QED
          BY <1>6, <3>2, <5>2, <5>3
      <4>2. PICK j \in 1..polls[l] : migrations[j].ts = lastMigrationTs
        BY <1>2, <4>1 DEF MarkIsPolled, l
      <4>3. l \in 1..l
        BY <1>2, <4>1 DEF l
      <4>4. polls[l] \in 1..m
        BY <1>2, <4>3 DEF MarkIsPolled, l, m
      <4>5. j \in 1..m
        BY <1>2, <4>4
      <4>. QED
        BY <3>2, <4>2, <4>5
    <3>. QED
      BY <1>6, <3>1, <3>2
  <2>4. Len(migrations') = m /\ migrations' = migrations /\ polls' # <<>>
    BY <1>1, <1>5 DEF m
  <2>5. Len(polls') - 1 = l /\ Len(polls') = l + 1 /\ polls'[Len(polls')] = m
    BY <1>2, <1>5
  <2>. QED
    BY <1>1, <2>1, <2>2, <2>3, <2>4, <2>5 DEF MarkIsPolled
<1>9. PoolTypes' /\ EntriesGrow
  BY <1>7 DEF Extended, EntriesGrow
<1>10. TableGrows /\ WatcherTypes'
  <2>1. WatcherTypes'
    BY <1>2 DEF WatcherTypes, watcherVars
  <2>. QED
    BY <1>1, <1>2, <2>1 DEF TableGrows, m
<1>11. ASSUME NEW k \in 1..l, NEW i \in (Before(k) + 1)..polls[k]
       PROVE  Accounted(k, i)' /\ Before(k)' = Before(k)
  <2>1. Accounted(k, i)
    BY <1>2, <1>11, Missed DEF MissInv, l
  <2>2. Before(k)' = Before(k) /\ polls'[k] = polls[k]
    <3>1. CASE k = 1
      BY <1>5, <3>1 DEF Before
    <3>2. CASE k # 1
      <4>1. k - 1 \in 1..l
        BY <1>2, <3>2
      <4>. QED
        BY <1>5, <3>2, <4>1 DEF Before
    <3>. QED
      BY <3>1, <3>2
  <2>. QED
    BY <1>2, <1>9, <1>10, <1>11, <2>1, <2>2, StaysAccounted DEF l
<1>z. PICK z \in Nat : z = l + 1
  BY <1>2
<1>12. ASSUME NEW i \in (last + 1)..m PROVE Accounted(z, i)'
  <2>. DEFINE r == migrations[i]
  <2>1. last \in Nat /\ i \in 1..m
    <3>1. last \in 0..m
      <4>1. CASE polls = <<>>
        BY <1>2, <4>1 DEF last
      <4>2. CASE polls # <<>>
        <5>1. l \in 1..l
          BY <1>2, <4>2 DEF l
        <5>. QED
          BY <1>2, <4>2, <5>1 DEF last, l, m, MarkIsPolled
      <4>. QED
        BY <4>1, <4>2
    <3>. QED
      BY <1>2, <3>1
  <2>2. r \in rows /\ r.ts \in Nat \ {0} /\ r.pool \in Pool /\ migrations'[i] = r
    BY <1>1, <1>3, <2>1
  <2>3. CASE r \in Fresh
    <3>1. \E n \in 1..made'[r.pool] : until'[<<r.pool, n>>] >= r.ts + Window
      BY <1>7, <2>3 DEF Extended
    <3>. QED
      BY <2>2, <3>1 DEF Accounted
  <2>4. CASE r \notin Fresh /\ lastMigrationTs = 0
    <3>1. ~ (r.ts + Window >= clock)
      BY <2>2, <2>4 DEF Fresh
    <3>2. r.ts + Window < clock'
      BY <1>1, <1>2, <2>2, <3>1
    <3>3. polls = <<>>
      <4>1. SUFFICES ASSUME polls # <<>> PROVE FALSE
        OBVIOUS
      <4>2. PICK j \in 1..polls[l] : migrations[j].ts = 0
        BY <1>2, <2>4, <4>1 DEF MarkIsPolled, l
      <4>3. l \in 1..l
        BY <1>2, <4>1 DEF l
      <4>4. polls[l] \in 1..m
        BY <1>2, <4>3 DEF MarkIsPolled, l, m
      <4>5. j \in 1..m
        BY <1>2, <4>4
      <4>. QED
        BY <1>3, <4>2, <4>5
    <3>4. z = 1
      BY <1>z, <3>3 DEF l
    <3>. QED
      BY <2>2, <3>2, <3>4 DEF Accounted
  <2>5. CASE r \notin Fresh /\ lastMigrationTs # 0
    <3>1. ~ (r.ts > lastMigrationTs)
      BY <2>2, <2>5 DEF Fresh
    <3>2. polls # <<>>
      BY <1>2, <2>5 DEF MarkIsPolled
    <3>3. PICK j \in 1..polls[l] : migrations[j].ts = lastMigrationTs
      BY <1>2, <3>2 DEF MarkIsPolled, l
    <3>4. l \in 1..l /\ z # 1 /\ z - 1 = l
      BY <1>2, <1>z, <3>2 DEF l
    <3>5. Before(z)' = polls[l]
      BY <1>5, <3>4 DEF Before
    <3>6. migrations'[j].ts >= migrations'[i].ts
      BY <1>1, <1>2, <2>2, <3>1, <3>3
    <3>. QED
      BY <3>3, <3>5, <3>6 DEF Accounted
  <2>. QED
    BY <2>3, <2>4, <2>5
<1>13. ASSUME NEW k \in 1..Len(polls'), NEW i \in (Before(k)' + 1)..polls'[k]
       PROVE  Accounted(k, i)'
  <2>1. CASE k = z
    <3>1. Before(k)' = last
      <4>1. CASE polls = <<>>
        BY <1>z, <2>1, <4>1 DEF Before, l, last
      <4>2. CASE polls # <<>>
        <5>1. l \in 1..l /\ k # 1 /\ k - 1 = l
          BY <1>2, <1>z, <2>1, <4>2 DEF l
        <5>. QED
          BY <1>5, <4>2, <5>1 DEF Before, last
      <4>. QED
        BY <4>1, <4>2
    <3>2. i \in (last + 1)..m
      BY <1>5, <1>z, <2>1, <3>1
    <3>. QED
      BY <1>12, <2>1, <3>2
  <2>2. CASE k # z
    <3>1. k \in 1..l
      BY <1>2, <1>5, <1>z, <2>2
    <3>2. Before(k)' = Before(k) /\ polls'[k] = polls[k]
      <4>1. polls'[k] = polls[k]
        BY <1>5, <3>1
      <4>2. CASE k = 1
        BY <4>1, <4>2 DEF Before
      <4>3. CASE k # 1
        <5>1. k - 1 \in 1..l
          BY <1>2, <3>1, <4>3
        <5>. QED
          BY <1>5, <4>1, <4>3, <5>1 DEF Before
      <4>. QED
        BY <4>1, <4>2, <4>3
    <3>3. i \in (Before(k) + 1)..polls[k]
      BY <3>2
    <3>. QED
      BY <1>11, <3>1, <3>3
  <2>. QED
    BY <2>1, <2>2
<1>14. OnlyLateMigrationsAreMissed'
  <2>1. DOMAIN polls' = 1..Len(polls')
    BY <1>5
  <2>. QED
    BY <1>13, <2>1 DEF OnlyLateMigrationsAreMissed, Accounted, Before
<1>. QED
  BY <1>8, <1>9, <1>14

-----------------------------------------------------------------------------
(* Sweeps *)

LEMMA SubscriptionPairs ==
    ASSUME NEW s \in Subscription
    PROVE  /\ s[1] \in Pool /\ s[2] \in 1..MaxListeners /\ s = <<s[1], s[2]>>
           /\ \A t \in Subscription : s[1] = t[1] /\ s[2] = t[2] => s = t
BY DEF Subscription

Sweeping(w) == sweeping[w] # NoSweep

SweepsArePast ==
    \A w \in Sweep : sweeping[w].now <= clock /\ (sweeping[w].now = 0 => ~ Sweeping(w))

\* The pool's newest listener is there, or its time is up and its entry is gone
\* or going, or it was extended while it was being removed.
NewestIsKept ==
    \A p \in Pool : LET s == <<p, made[p]>> IN
        made[p] > 0 =>
            \/ s \in listeners \/ s \in lateExtended
            \/ until[s] <= clock /\ (active[p] = made[p] => s \in BeingRemoved)

\* While sweeps do not overlap, the entries a sweep is at are the pools' own.
EntriesAreOwn ==
    ~ overlapped =>
        /\ \A s \in listeners : active[s[1]] = s[2]
        /\ \A v, w \in Sweep : Sweeping(v) /\ Sweeping(w) => v = w
        /\ \A w \in Sweep :
              /\ \A e \in sweeping[w].left \union sweeping[w].awaits : active[e[1]] = e[2]
              /\ sweeping[w].left \cap sweeping[w].awaits = {}
              /\ listeners \cap sweeping[w].awaits = {}

SweepInv == SweepsArePast /\ NewestIsKept /\ EntriesAreOwn

LEMMA WatchesFollow ==
    ASSUME WatcherTypes, PoolTypes, SweepInv
    PROVE  WatchesWhatIsDue
<1>1. overlapped \/ \A s \in listeners : active[s[1]] = s[2]
  BY DEF SweepInv, EntriesAreOwn
<1>2. ASSUME NEW p \in Pool, made[p] > 0, until[<<p, made[p]>>] > clock
      PROVE  <<p, made[p]>> \in listeners \/ <<p, made[p]>> \in lateExtended
  <2>1. made[p] \in 1..MaxListeners
    BY <1>2 DEF PoolTypes
  <2>2. <<p, made[p]>> \in Subscription
    BY <2>1 DEF Subscription
  <2>3. until[<<p, made[p]>>] \in Nat /\ clock \in Nat
    BY <2>2 DEF PoolTypes, WatcherTypes
  <2>4. ~ (until[<<p, made[p]>>] <= clock)
    BY <1>2, <2>3
  <2>. QED
    BY <1>2, <2>4 DEF SweepInv, NewestIsKept
<1>. QED
  BY <1>1, <1>2 DEF WatchesWhatIsDue

\* Steps of the migration watcher, and of hits and scores.
LEMMA SweepKept ==
    ASSUME WatcherTypes, WatcherTypes', PoolTypes, SweepInv, clock <= clock',
           UNCHANGED <<active, until, made, listeners, sweeping, overlapped, lateExtended>>
    PROVE  SweepInv'
<1>1. clock \in Nat /\ clock' \in Nat
  BY DEF WatcherTypes
<1>2. SweepsArePast'
  <2>1. ASSUME NEW w \in Sweep PROVE sweeping[w].now <= clock'
    <3>1. sweeping[w].now \in Nat /\ sweeping[w].now <= clock
      BY DEF PoolTypes, SweepState, SweepInv, SweepsArePast
    <3>. QED
      BY <1>1, <3>1
  <2>. QED
    BY <2>1 DEF SweepInv, SweepsArePast, Sweeping
<1>3. NewestIsKept'
  <2>1. ASSUME NEW p \in Pool, made[p] > 0, until[<<p, made[p]>>] <= clock
        PROVE  until[<<p, made[p]>>] <= clock'
    <3>1. made[p] \in 1..MaxListeners
      BY <2>1 DEF PoolTypes
    <3>2. <<p, made[p]>> \in Subscription
      BY <3>1 DEF Subscription
    <3>3. until[<<p, made[p]>>] \in Nat
      BY <3>2 DEF PoolTypes
    <3>. QED
      BY <1>1, <2>1, <3>3
  <2>2. BeingRemoved' = BeingRemoved
    BY DEF BeingRemoved
  <2>3. \A p \in Pool : made[p] > 0 =>
            \/ <<p, made[p]>> \in listeners \/ <<p, made[p]>> \in lateExtended
            \/ /\ until[<<p, made[p]>>] <= clock'
               /\ active[p] = made[p] => <<p, made[p]>> \in BeingRemoved
    BY <2>1 DEF SweepInv, NewestIsKept
  <2>. QED
    BY <2>2, <2>3 DEF NewestIsKept
<1>4. EntriesAreOwn'
  BY DEF SweepInv, EntriesAreOwn, Sweeping
<1>. QED
  BY <1>2, <1>3, <1>4 DEF SweepInv

LEMMA SweepBegun ==
    ASSUME WatcherTypes, PoolTypes, SweepInv, NEW w \in Sweep, BeginSweep(w), UNCHANGED watcherVars
    PROVE  PoolTypes' /\ SweepInv'
<1>. DEFINE L == {<<p, active[p]>> : p \in {q \in Pool : active[q] > 0}}
            S == [now |-> clock, awaits |-> {}, left |-> L]
<1>1. /\ sweeping[w] = NoSweep /\ sweeping' = [sweeping EXCEPT ![w] = S]
      /\ overlapped' = (overlapped \/ \E v \in Sweep \ {w} : sweeping[v] # NoSweep)
      /\ UNCHANGED <<active, until, made, listeners, lastMigrationTs, polls, lateExtended>>
      /\ clock' = clock
  BY DEF BeginSweep, poolVars, watcherVars
<1>2. L \subseteq Subscription /\ \A e \in L : active[e[1]] = e[2]
  <2>1. ASSUME NEW p \in Pool, active[p] > 0
        PROVE  <<p, active[p]>> \in Subscription
    <3>1. active[p] \in {0, made[p]} /\ made[p] \in 0..MaxListeners
      BY DEF PoolTypes
    <3>2. active[p] \in 1..MaxListeners
      BY <2>1, <3>1
    <3>. QED
      BY <3>2 DEF Subscription
  <2>. QED
    BY <2>1
<1>. HIDE DEF L
<1>3. /\ S \in SweepState /\ S.now = clock /\ S.awaits = {} /\ S.left = L /\ clock \in Nat /\ clock > 0
  BY <1>2 DEF SweepState, WatcherTypes
<1>. HIDE DEF S
<1>4. sweeping' \in [Sweep -> SweepState] /\ sweeping'[w] = S
      /\ \A v \in Sweep \ {w} : sweeping'[v] = sweeping[v]
  BY <1>1, <1>3 DEF PoolTypes
<1>5. PoolTypes'
  <2>1. overlapped' \in BOOLEAN
    BY <1>1 DEF PoolTypes
  <2>. QED
    BY <1>1, <1>4, <2>1 DEF PoolTypes
<1>6. \A v \in Sweep : sweeping'[v].awaits = sweeping[v].awaits
  <2>1. sweeping[w].awaits = {}
    BY <1>1 DEF NoSweep
  <2>. QED
    BY <1>3, <1>4, <2>1
<1>7. BeingRemoved' = BeingRemoved
  BY <1>6 DEF BeingRemoved
<1>8. SweepsArePast'
  <2>1. ASSUME NEW v \in Sweep
        PROVE  sweeping'[v].now <= clock /\ (sweeping'[v].now = 0 => sweeping'[v] = NoSweep)
    <3>1. CASE v = w
      BY <1>3, <1>4, <3>1
    <3>2. CASE v # w
      BY <1>4, <3>2 DEF SweepInv, SweepsArePast, Sweeping
    <3>. QED
      BY <3>1, <3>2
  <2>. QED
    BY <1>1, <2>1 DEF SweepsArePast, Sweeping
<1>9. NewestIsKept'
  BY <1>1, <1>7 DEF SweepInv, NewestIsKept
<1>10. EntriesAreOwn'
  <2>. SUFFICES ASSUME ~ overlapped' PROVE EntriesAreOwn'
    BY DEF EntriesAreOwn
  <2>1. ~ overlapped /\ \A v \in Sweep \ {w} : sweeping[v] = NoSweep
    BY <1>1
  <2>2. \A s \in listeners' : active'[s[1]] = s[2]
    BY <1>1, <2>1 DEF SweepInv, EntriesAreOwn
  <2>3. \A u, v \in Sweep : sweeping'[u] # NoSweep /\ sweeping'[v] # NoSweep => u = v
    BY <1>4, <2>1
  <2>4. ASSUME NEW v \in Sweep
        PROVE  /\ \A e \in sweeping'[v].left \union sweeping'[v].awaits : active'[e[1]] = e[2]
               /\ sweeping'[v].left \cap sweeping'[v].awaits = {}
               /\ listeners' \cap sweeping'[v].awaits = {}
    <3>1. CASE v = w
      BY <1>1, <1>2, <1>3, <1>4, <3>1
    <3>2. CASE v # w
      <4>1. sweeping'[v].left = {} /\ sweeping'[v].awaits = {}
        BY <1>4, <2>1, <3>2 DEF NoSweep
      <4>. QED
        BY <4>1
    <3>. QED
      BY <3>1, <3>2
  <2>. QED
    BY <2>2, <2>3, <2>4 DEF EntriesAreOwn, Sweeping
<1>. QED
  BY <1>5, <1>8, <1>9, <1>10 DEF SweepInv

LEMMA SweepTakes ==
    ASSUME WatcherTypes, PoolTypes, SweepInv, NEW w \in Sweep, NEW e \in Subscription,
           SweepEntry(w, e), UNCHANGED watcherVars
    PROVE  PoolTypes' /\ SweepInv'
<1>. DEFINE S == [sweeping[w] EXCEPT !.left = @ \ {e}, !.awaits = {e}]
<1>1. /\ sweeping[w].now > 0 /\ sweeping[w].awaits = {} /\ e \in sweeping[w].left
      /\ until[e] <= sweeping[w].now
      /\ sweeping' = [sweeping EXCEPT ![w] = S] /\ listeners' = listeners \ {e}
      /\ UNCHANGED <<active, until, made, lastMigrationTs, polls, overlapped, lateExtended>>
      /\ clock' = clock
  BY DEF SweepEntry, watcherVars
<1>2. sweeping[w] \in SweepState /\ sweeping[w].now <= clock
  BY DEF PoolTypes, SweepInv, SweepsArePast
<1>3. /\ S \in SweepState /\ S.now = sweeping[w].now /\ S.awaits = {e}
      /\ S.left = sweeping[w].left \ {e} /\ sweeping[w].now \in Nat
  BY <1>2 DEF SweepState
<1>. HIDE DEF S
<1>4. sweeping' \in [Sweep -> SweepState] /\ sweeping'[w] = S
      /\ \A v \in Sweep \ {w} : sweeping'[v] = sweeping[v]
  BY <1>1, <1>3 DEF PoolTypes
<1>5. PoolTypes'
  BY <1>1, <1>4 DEF PoolTypes
<1>6. BeingRemoved \subseteq BeingRemoved' /\ e \in BeingRemoved'
  <2>1. \A v \in Sweep : sweeping[v].awaits \subseteq sweeping'[v].awaits
    BY <1>1, <1>4
  <2>. QED
    BY <1>3, <1>4, <2>1 DEF BeingRemoved
<1>7. SweepsArePast'
  <2>1. ASSUME NEW v \in Sweep
        PROVE  sweeping'[v].now <= clock /\ (sweeping'[v].now = 0 => sweeping'[v] = NoSweep)
    <3>1. CASE v = w
      BY <1>1, <1>2, <1>3, <1>4, <3>1
    <3>2. CASE v # w
      BY <1>4, <3>2 DEF SweepInv, SweepsArePast, Sweeping
    <3>. QED
      BY <3>1, <3>2
  <2>. QED
    BY <1>1, <2>1 DEF SweepsArePast, Sweeping
<1>8. until[e] <= clock
  <2>1. until[e] \in Nat /\ clock \in Nat
    BY DEF PoolTypes, WatcherTypes
  <2>. QED
    BY <1>1, <1>2, <1>3, <2>1
<1>9. NewestIsKept'
  <2>1. ASSUME NEW p \in Pool, made[p] > 0
        PROVE  \/ <<p, made[p]>> \in listeners' \/ <<p, made[p]>> \in lateExtended
               \/ /\ until[<<p, made[p]>>] <= clock
                  /\ active[p] = made[p] => <<p, made[p]>> \in BeingRemoved'
    <3>1. CASE <<p, made[p]>> = e
      BY <1>6, <1>8, <3>1
    <3>2. CASE <<p, made[p]>> # e
      <4>1. <<p, made[p]>> \in listeners => <<p, made[p]>> \in listeners'
        BY <1>1, <3>2
      <4>2. \/ <<p, made[p]>> \in listeners \/ <<p, made[p]>> \in lateExtended
            \/ /\ until[<<p, made[p]>>] <= clock
               /\ active[p] = made[p] => <<p, made[p]>> \in BeingRemoved
        BY <2>1 DEF SweepInv, NewestIsKept
      <4>. QED
        BY <1>6, <4>1, <4>2
    <3>. QED
      BY <3>1, <3>2
  <2>. QED
    BY <1>1, <2>1 DEF NewestIsKept
<1>10. EntriesAreOwn'
  <2>. SUFFICES ASSUME ~ overlapped PROVE EntriesAreOwn'
    BY <1>1 DEF EntriesAreOwn
  <2>1. /\ \A s \in listeners : active[s[1]] = s[2]
        /\ \A u, v \in Sweep : sweeping[u] # NoSweep /\ sweeping[v] # NoSweep => u = v
        /\ \A v \in Sweep :
              /\ \A x \in sweeping[v].left \union sweeping[v].awaits : active[x[1]] = x[2]
              /\ sweeping[v].left \cap sweeping[v].awaits = {}
              /\ listeners \cap sweeping[v].awaits = {}
    BY DEF SweepInv, EntriesAreOwn, Sweeping
  <2>2. sweeping[w] # NoSweep
    BY <1>1 DEF NoSweep
  <2>3. \A u, v \in Sweep : sweeping'[u] # NoSweep /\ sweeping'[v] # NoSweep => u = v
    BY <1>4, <2>1, <2>2
  <2>4. ASSUME NEW v \in Sweep
        PROVE  /\ \A x \in sweeping'[v].left \union sweeping'[v].awaits : active[x[1]] = x[2]
               /\ sweeping'[v].left \cap sweeping'[v].awaits = {}
               /\ listeners' \cap sweeping'[v].awaits = {}
    <3>1. CASE v = w
      BY <1>1, <1>3, <1>4, <2>1, <3>1
    <3>2. CASE v # w
      BY <1>1, <1>4, <2>1, <3>2
    <3>. QED
      BY <3>1, <3>2
  <2>. QED
    BY <1>1, <2>1, <2>3, <2>4 DEF EntriesAreOwn, Sweeping
<1>. QED
  BY <1>5, <1>7, <1>9, <1>10 DEF SweepInv

LEMMA SweepDeleted ==
    ASSUME WatcherTypes, PoolTypes, SweepInv, NEW w \in Sweep, NEW e \in Subscription,
           SweepDeletes(w, e), UNCHANGED watcherVars
    PROVE  PoolTypes' /\ SweepInv'
<1>. DEFINE S == [sweeping[w] EXCEPT !.awaits = {}]
<1>1. /\ sweeping[w].awaits = {e}
      /\ sweeping' = [sweeping EXCEPT ![w] = S] /\ active' = [active EXCEPT ![e[1]] = 0]
      /\ UNCHANGED <<until, made, listeners, lastMigrationTs, polls, overlapped, lateExtended>>
      /\ clock' = clock
  BY DEF SweepDeletes, watcherVars
<1>2. sweeping[w] \in SweepState /\ sweeping[w].now <= clock /\ sweeping[w].now # 0
  <2>1. sweeping[w] # NoSweep
    BY <1>1 DEF NoSweep
  <2>. QED
    BY <2>1 DEF PoolTypes, SweepInv, SweepsArePast, Sweeping
<1>3. /\ S \in SweepState /\ S.now = sweeping[w].now /\ S.awaits = {} /\ S.left = sweeping[w].left
  BY <1>2 DEF SweepState
<1>. HIDE DEF S
<1>4. sweeping' \in [Sweep -> SweepState] /\ sweeping'[w] = S
      /\ \A v \in Sweep \ {w} : sweeping'[v] = sweeping[v]
  BY <1>1, <1>3 DEF PoolTypes
<1>5. /\ e[1] \in Pool /\ active'[e[1]] = 0 /\ \A p \in Pool \ {e[1]} : active'[p] = active[p]
      /\ active' \in [Pool -> Nat]
  BY <1>1, SubscriptionPairs DEF PoolTypes
<1>6. PoolTypes'
  <2>1. \A p \in Pool : active'[p] \in {0, made[p]}
    BY <1>5 DEF PoolTypes
  <2>. QED
    BY <1>1, <1>4, <1>5, <2>1 DEF PoolTypes
<1>7. \A s \in BeingRemoved \ {e} : s \in BeingRemoved'
  <2>1. \A v \in Sweep : sweeping[v].awaits \ {e} \subseteq sweeping'[v].awaits
    BY <1>1, <1>4
  <2>. QED
    BY <2>1 DEF BeingRemoved
<1>8. SweepsArePast'
  <2>1. ASSUME NEW v \in Sweep
        PROVE  sweeping'[v].now <= clock /\ (sweeping'[v].now = 0 => sweeping'[v] = NoSweep)
    <3>1. CASE v = w
      BY <1>2, <1>3, <1>4, <3>1
    <3>2. CASE v # w
      BY <1>4, <3>2 DEF SweepInv, SweepsArePast, Sweeping
    <3>. QED
      BY <3>1, <3>2
  <2>. QED
    BY <1>1, <2>1 DEF SweepsArePast, Sweeping
<1>9. NewestIsKept'
  <2>1. ASSUME NEW p \in Pool, made[p] > 0
        PROVE  \/ <<p, made[p]>> \in listeners \/ <<p, made[p]>> \in lateExtended
               \/ /\ until[<<p, made[p]>>] <= clock
                  /\ active'[p] = made[p] => <<p, made[p]>> \in BeingRemoved'
    <3>0. \/ <<p, made[p]>> \in listeners \/ <<p, made[p]>> \in lateExtended
          \/ /\ until[<<p, made[p]>>] <= clock
             /\ active[p] = made[p] => <<p, made[p]>> \in BeingRemoved
      BY <2>1 DEF SweepInv, NewestIsKept
    <3>1. CASE p = e[1]
      <4>1. active'[p] # made[p]
        BY <1>5, <2>1, <3>1
      <4>. QED
        BY <3>0, <4>1
    <3>2. CASE p # e[1]
      <4>1. <<p, made[p]>> # e
        BY <3>2
      <4>2. active'[p] = active[p]
        BY <1>5, <3>2
      <4>. QED
        BY <1>7, <3>0, <4>1, <4>2
    <3>. QED
      BY <3>1, <3>2
  <2>. QED
    BY <1>1, <2>1 DEF NewestIsKept
<1>10. EntriesAreOwn'
  <2>. SUFFICES ASSUME ~ overlapped PROVE EntriesAreOwn'
    BY <1>1 DEF EntriesAreOwn
  <2>1. /\ \A s \in listeners : active[s[1]] = s[2]
        /\ \A u, v \in Sweep : sweeping[u] # NoSweep /\ sweeping[v] # NoSweep => u = v
        /\ \A v \in Sweep :
              /\ \A x \in sweeping[v].left \union sweeping[v].awaits : active[x[1]] = x[2]
              /\ sweeping[v].left \cap sweeping[v].awaits = {}
              /\ listeners \cap sweeping[v].awaits = {}
    BY DEF SweepInv, EntriesAreOwn, Sweeping
  <2>2. sweeping[w] # NoSweep
    BY <1>1 DEF NoSweep
  <2>3. \A u, v \in Sweep : sweeping'[u] # NoSweep /\ sweeping'[v] # NoSweep => u = v
    BY <1>4, <2>1, <2>2
  <2>4. active[e[1]] = e[2] /\ e \notin listeners /\ e \notin sweeping[w].left
    BY <1>1, <2>1
  <2>5. ASSUME NEW s \in Subscription, active[s[1]] = s[2], s # e PROVE active'[s[1]] = s[2]
    <3>1. s[1] # e[1]
      BY <2>4, <2>5, SubscriptionPairs
    <3>2. s[1] \in Pool
      BY SubscriptionPairs
    <3>. QED
      BY <1>5, <2>5, <3>1, <3>2
  <2>6. \A s \in listeners : active'[s[1]] = s[2]
    <3>1. listeners \subseteq Subscription
      BY DEF PoolTypes
    <3>. QED
      BY <2>1, <2>4, <2>5, <3>1
  <2>7. ASSUME NEW v \in Sweep
        PROVE  /\ \A x \in sweeping'[v].left \union sweeping'[v].awaits : active'[x[1]] = x[2]
               /\ sweeping'[v].left \cap sweeping'[v].awaits = {}
               /\ listeners \cap sweeping'[v].awaits = {}
    <3>1. CASE v = w
      <4>1. sweeping[w].left \subseteq Subscription
        BY <1>2 DEF SweepState
      <4>2. \A x \in sweeping[w].left : active'[x[1]] = x[2]
        BY <2>1, <2>4, <2>5, <4>1
      <4>. QED
        BY <1>3, <1>4, <3>1, <4>2
    <3>2. CASE v # w
      <4>1. sweeping'[v].left = {} /\ sweeping'[v].awaits = {}
        BY <1>4, <2>1, <2>2, <3>2 DEF NoSweep
      <4>. QED
        BY <4>1
    <3>. QED
      BY <3>1, <3>2
  <2>. QED
    BY <1>1, <2>3, <2>6, <2>7 DEF EntriesAreOwn, Sweeping
<1>. QED
  BY <1>6, <1>8, <1>9, <1>10 DEF SweepInv

LEMMA SweepEnded ==
    ASSUME WatcherTypes, PoolTypes, SweepInv, NEW w \in Sweep, SweepEnds(w), UNCHANGED watcherVars
    PROVE  PoolTypes' /\ SweepInv'
<1>1. /\ sweeping[w].awaits = {} /\ sweeping' = [sweeping EXCEPT ![w] = NoSweep]
      /\ UNCHANGED <<active, until, made, listeners, lastMigrationTs, polls, overlapped, lateExtended>>
      /\ clock' = clock
  BY DEF SweepEnds, poolVars, watcherVars
<1>2. NoSweep \in SweepState /\ NoSweep.now = 0 /\ NoSweep.awaits = {} /\ NoSweep.left = {}
  BY DEF NoSweep, SweepState
<1>3. sweeping' \in [Sweep -> SweepState] /\ sweeping'[w] = NoSweep
      /\ \A v \in Sweep \ {w} : sweeping'[v] = sweeping[v]
  BY <1>1, <1>2 DEF PoolTypes
<1>4. PoolTypes'
  BY <1>1, <1>3 DEF PoolTypes
<1>5. BeingRemoved' = BeingRemoved
  <2>1. \A v \in Sweep : sweeping'[v].awaits = sweeping[v].awaits
    BY <1>1, <1>2, <1>3
  <2>. QED
    BY <2>1 DEF BeingRemoved
<1>6. SweepsArePast'
  <2>1. ASSUME NEW v \in Sweep
        PROVE  sweeping'[v].now <= clock /\ (sweeping'[v].now = 0 => sweeping'[v] = NoSweep)
    <3>1. CASE v = w
      <4>1. clock \in Nat
        BY DEF WatcherTypes
      <4>. QED
        BY <1>2, <1>3, <3>1, <4>1
    <3>2. CASE v # w
      BY <1>3, <3>2 DEF SweepInv, SweepsArePast, Sweeping
    <3>. QED
      BY <3>1, <3>2
  <2>. QED
    BY <1>1, <2>1 DEF SweepsArePast, Sweeping
<1>7. NewestIsKept'
  BY <1>1, <1>5 DEF SweepInv, NewestIsKept
<1>8. EntriesAreOwn'
  <2>. SUFFICES ASSUME ~ overlapped PROVE EntriesAreOwn'
    BY <1>1 DEF EntriesAreOwn
  <2>1. /\ \A s \in listeners : active[s[1]] = s[2]
        /\ \A u, v \in Sweep : sweeping[u] # NoSweep /\ sweeping[v] # NoSweep => u = v
        /\ \A v \in Sweep :
              /\ \A x \in sweeping[v].left \union sweeping[v].awaits : active[x[1]] = x[2]
              /\ sweeping[v].left \cap sweeping[v].awaits = {}
              /\ listeners \cap sweeping[v].awaits = {}
    BY DEF SweepInv, EntriesAreOwn, Sweeping
  <2>2. ASSUME NEW v \in Sweep
        PROVE  /\ \A x \in sweeping'[v].left \union sweeping'[v].awaits : active[x[1]] = x[2]
               /\ sweeping'[v].left \cap sweeping'[v].awaits = {}
               /\ listeners \cap sweeping'[v].awaits = {}
    <3>1. CASE v = w
      BY <1>2, <1>3, <3>1
    <3>2. CASE v # w
      BY <1>3, <2>1, <3>2
    <3>. QED
      BY <3>1, <3>2
  <2>3. \A u, v \in Sweep : sweeping'[u] # NoSweep /\ sweeping'[v] # NoSweep => u = v
    BY <1>3, <2>1
  <2>. QED
    BY <1>1, <2>1, <2>2, <2>3 DEF EntriesAreOwn, Sweeping
<1>. QED
  BY <1>4, <1>6, <1>7, <1>8 DEF SweepInv

\* What a poll leaves of the entries: a pool without one gets one and a listener,
\* others keep theirs, and those being removed are known when they are extended.
EntriesAreKept ==
    /\ listeners \subseteq listeners' /\ lateExtended \subseteq lateExtended'
    /\ \A s \in listeners' \ listeners : active[s[1]] = 0 /\ active'[s[1]] = s[2]
    /\ \A p \in Pool :
          \/ /\ active[p] = 0 /\ active'[p] = made'[p] /\ <<p, made'[p]>> \in listeners'
          \/ /\ made'[p] = made[p] /\ active'[p] = active[p]
             /\ \/ made[p] = 0 \/ until'[<<p, made[p]>>] = until[<<p, made[p]>>]
                \/ /\ active[p] = made[p]
                   /\ <<p, made[p]>> \in BeingRemoved => <<p, made[p]>> \in lateExtended'

LEMMA EnsureKeeps ==
    ASSUME WatcherTypes, PoolTypes, Ensure(Fresh)
    PROVE  EntriesAreKept
<1>. DEFINE rows == Fresh
            New == {r.pool : r \in rows} \ {p \in Pool : active[p] > 0}
            Entry(p) == IF p \in New THEN <<p, made[p] + 1>> ELSE <<p, active[p]>>
            Times(p) == {r.ts + Window : r \in {q \in rows : q.pool = p}}
            Touched == {Entry(r.pool) : r \in rows}
<1>1. /\ made' = [p \in Pool |-> made[p] + IF p \in New THEN 1 ELSE 0]
      /\ active' = [p \in Pool |-> IF p \in New THEN made'[p] ELSE active[p]]
      /\ until' = [s \in Subscription |->
                      IF s \in Touched THEN MaxOf({until[s]} \union Times(s[1]))
                      ELSE until[s]]
      /\ listeners' = listeners \union {Entry(p) : p \in New}
      /\ lateExtended' = lateExtended \union (Touched \cap BeingRemoved)
  BY DEF Ensure
<1>2. \A r \in rows : r.pool \in Pool
  <2>1. \A i \in DOMAIN migrations : migrations[i] \in Migration
    BY DEF WatcherTypes
  <2>. QED
    BY <2>1 DEF Fresh, Migration
<1>. HIDE DEF rows, Times
<1>3. \A p \in Pool : /\ active[p] \in Nat /\ made[p] \in Nat /\ active[p] \in {0, made[p]}
                      /\ made[p] \in 0..MaxListeners
  BY DEF PoolTypes
<1>4. \A p \in New : p \in Pool /\ active[p] = 0
  BY <1>2, <1>3
<1>5. \A r \in rows : r.pool \notin New => active[r.pool] > 0
  BY <1>2
<1>. HIDE DEF New
<1>6. \A p \in New : made'[p] = made[p] + 1 /\ active'[p] = made'[p]
  BY <1>1, <1>3, <1>4
<1>7. \A p \in Pool : p \notin New => made'[p] = made[p] /\ active'[p] = active[p]
  <2>1. ASSUME NEW p \in Pool, p \notin New PROVE made'[p] = made[p] /\ active'[p] = active[p]
    <3>1. made'[p] = made[p] + 0
      BY <1>1, <2>1
    <3>2. made[p] + 0 = made[p]
      BY <1>3
    <3>3. active'[p] = active[p]
      BY <1>1, <2>1
    <3>. QED
      BY <3>1, <3>2, <3>3
  <2>. QED
    BY <2>1
<1>8. ASSUME NEW p \in New PROVE Entry(p) = <<p, made'[p]>>
  BY <1>6
<1>9. ASSUME NEW p \in Pool, p \notin New
      PROVE  \/ made[p] = 0 \/ until'[<<p, made[p]>>] = until[<<p, made[p]>>]
             \/ /\ active[p] = made[p]
                /\ <<p, made[p]>> \in BeingRemoved => <<p, made[p]>> \in lateExtended'
  <2>. DEFINE s == <<p, made[p]>>
  <2>1. CASE s \in Touched
    <3>1. PICK r \in rows : s = Entry(r.pool)
      BY <2>1
    <3>2. r.pool = p
      BY <3>1
    <3>3. active[p] = made[p]
      <4>1. active[p] > 0
        BY <1>5, <1>9, <3>2
      <4>. QED
        BY <1>3, <4>1
    <3>4. s \in BeingRemoved => s \in lateExtended'
      BY <1>1, <2>1
    <3>. QED
      BY <3>3, <3>4
  <2>2. CASE s \notin Touched /\ made[p] # 0
    <3>1. s \in Subscription
      <4>1. made[p] \in 0..MaxListeners /\ made[p] # 0
        BY <1>3, <2>2
      <4>2. made[p] \in 1..MaxListeners
        BY <4>1
      <4>. QED
        BY <4>2 DEF Subscription
    <3>. QED
      BY <1>1, <2>2, <3>1
  <2>. QED
    BY <2>1, <2>2
<1>10. \A s \in listeners' \ listeners : active[s[1]] = 0 /\ active'[s[1]] = s[2]
  <2>1. ASSUME NEW s \in listeners', s \notin listeners
        PROVE  active[s[1]] = 0 /\ active'[s[1]] = s[2]
    <3>1. PICK p \in New : s = Entry(p)
      BY <1>1, <2>1
    <3>2. s = <<p, made'[p]>>
      BY <1>8, <3>1
    <3>3. s[1] = p /\ s[2] = made'[p]
      BY <3>2
    <3>. QED
      BY <1>4, <1>6, <3>3
  <2>. QED
    BY <2>1
<1>11. \A p \in New : <<p, made'[p]>> \in listeners'
  <2>1. \A p \in New : Entry(p) \in listeners'
    BY <1>1
  <2>. QED
    BY <1>8, <2>1
<1>12. listeners \subseteq listeners' /\ lateExtended \subseteq lateExtended'
  BY <1>1
<1>. QED
  BY <1>4, <1>6, <1>7, <1>9, <1>10, <1>11, <1>12 DEF EntriesAreKept

LEMMA SweepPolled ==
    ASSUME WatcherTypes, PoolTypes, PoolTypes', SweepInv, PollMigrations, UNCHANGED watcherVars
    PROVE  SweepInv'
<1>1. /\ Ensure(Fresh) /\ UNCHANGED <<sweeping, overlapped>> /\ clock' = clock
  BY DEF PollMigrations, watcherVars
<1>2. EntriesAreKept
  BY <1>1, EnsureKeeps
<1>3. BeingRemoved' = BeingRemoved
  BY <1>1 DEF BeingRemoved
<1>4. SweepsArePast'
  BY <1>1 DEF SweepInv, SweepsArePast, Sweeping
<1>5. NewestIsKept'
  <2>1. ASSUME NEW p \in Pool, made'[p] > 0
        PROVE  \/ <<p, made'[p]>> \in listeners' \/ <<p, made'[p]>> \in lateExtended'
               \/ /\ until'[<<p, made'[p]>>] <= clock
                  /\ active'[p] = made'[p] => <<p, made'[p]>> \in BeingRemoved
    <3>1. CASE <<p, made'[p]>> \in listeners'
      BY <3>1
    <3>2. CASE <<p, made'[p]>> \notin listeners'
      <4>1. /\ made'[p] = made[p] /\ active'[p] = active[p]
            /\ \/ made[p] = 0 \/ until'[<<p, made[p]>>] = until[<<p, made[p]>>]
               \/ /\ active[p] = made[p]
                  /\ <<p, made[p]>> \in BeingRemoved => <<p, made[p]>> \in lateExtended'
        BY <1>2, <3>2 DEF EntriesAreKept
      <4>2. made[p] > 0 /\ made[p] # 0
        <5>1. made[p] \in Nat
          BY DEF PoolTypes
        <5>. QED
          BY <2>1, <4>1, <5>1
      <4>3. \/ <<p, made[p]>> \in listeners \/ <<p, made[p]>> \in lateExtended
            \/ /\ until[<<p, made[p]>>] <= clock
               /\ active[p] = made[p] => <<p, made[p]>> \in BeingRemoved
        BY <4>2 DEF SweepInv, NewestIsKept
      <4>4. listeners \subseteq listeners' /\ lateExtended \subseteq lateExtended'
        BY <1>2 DEF EntriesAreKept
      <4>. QED
        BY <3>2, <4>1, <4>2, <4>3, <4>4
    <3>. QED
      BY <3>1, <3>2
  <2>. QED
    BY <1>1, <1>3, <2>1 DEF NewestIsKept
<1>6. EntriesAreOwn'
  <2>. SUFFICES ASSUME ~ overlapped PROVE EntriesAreOwn'
    BY <1>1 DEF EntriesAreOwn
  <2>1. /\ \A s \in listeners : active[s[1]] = s[2]
        /\ \A u, v \in Sweep : sweeping[u] # NoSweep /\ sweeping[v] # NoSweep => u = v
        /\ \A v \in Sweep :
              /\ \A x \in sweeping[v].left \union sweeping[v].awaits : active[x[1]] = x[2]
              /\ sweeping[v].left \cap sweeping[v].awaits = {}
              /\ listeners \cap sweeping[v].awaits = {}
    BY DEF SweepInv, EntriesAreOwn, Sweeping
  <2>2. ASSUME NEW s \in Subscription, active[s[1]] = s[2] PROVE active'[s[1]] = s[2]
    <3>1. s[1] \in Pool /\ active[s[1]] # 0
      BY <2>2, SubscriptionPairs
    <3>. QED
      BY <1>2, <2>2, <3>1 DEF EntriesAreKept
  <2>3. \A s \in listeners' : active'[s[1]] = s[2]
    <3>1. listeners \subseteq Subscription
      BY DEF PoolTypes
    <3>2. \A s \in listeners : active'[s[1]] = s[2]
      BY <2>1, <2>2, <3>1
    <3>. QED
      BY <1>2, <3>2 DEF EntriesAreKept
  <2>4. ASSUME NEW v \in Sweep
        PROVE  /\ \A x \in sweeping[v].left \union sweeping[v].awaits : active'[x[1]] = x[2]
               /\ sweeping[v].left \cap sweeping[v].awaits = {}
               /\ listeners' \cap sweeping[v].awaits = {}
    <3>1. sweeping[v].left \subseteq Subscription /\ sweeping[v].awaits \subseteq Subscription
      BY DEF PoolTypes, SweepState
    <3>2. \A x \in sweeping[v].left \union sweeping[v].awaits : active'[x[1]] = x[2]
      BY <2>1, <2>2, <3>1
    <3>3. ASSUME NEW x \in sweeping[v].awaits PROVE x \notin listeners'
      <4>1. x \notin listeners /\ active[x[1]] # 0
        BY <2>1, <3>1, SubscriptionPairs
      <4>. QED
        BY <1>2, <4>1 DEF EntriesAreKept
    <3>. QED
      BY <2>1, <3>2, <3>3
  <2>. QED
    BY <1>1, <2>1, <2>3, <2>4 DEF EntriesAreOwn, Sweeping
<1>. QED
  BY <1>4, <1>5, <1>6 DEF SweepInv

-----------------------------------------------------------------------------
(* Hits and scores *)

\* The queue of hits and recomputations is never longer than its limit.
HitsAreQueued ==
    /\ hitWrites \in Seq(Signature \union {Scores})
    /\ Len(hitWrites) <= MaxQueueSize

\* What a push leaves: the new task is last, and only at the limit is one lost,
\* the oldest.
Kept(p, q, task) ==
    /\ p \in Seq(Signature \union {Scores}) /\ Len(p) <= MaxQueueSize
    /\ Len(p) \in Nat \ {0} /\ p[Len(p)] = task
    /\ \A i \in 1..Len(q) :
          (\E j \in 1..Len(p) : p[j] = q[i]) \/ (i = 1 /\ Len(q) = MaxQueueSize)

LEMMA PushKeeps ==
    ASSUME HitsAreQueued, NEW task \in Signature \union {Scores}
    PROVE  Kept(Pushed(hitWrites, task), hitWrites, task)
<1>. DEFINE Task == Signature \union {Scores}
            q == hitWrites
<1>0. q \in Seq(Task) /\ Len(q) \in Nat /\ Len(q) <= MaxQueueSize /\ task \in Task
  BY DEF HitsAreQueued
<1>. HIDE DEF Task, q
<1>1. CASE Len(q) >= MaxQueueSize
  <2>. DEFINE t == Tail(q)
              p == Append(t, task)
  <2>1. Len(q) = MaxQueueSize /\ q # <<>>
    BY <1>0, <1>1
  <2>2. t \in Seq(Task) /\ Len(t) \in Nat /\ Len(t) = Len(q) - 1
        /\ \A i \in 1..Len(t) : t[i] = q[i + 1]
    BY <1>0, <2>1
  <2>3. Pushed(q, task) = p
    BY <1>1 DEF Pushed
  <2>. HIDE DEF t
  <2>4. /\ p \in Seq(Task) /\ Len(p) = Len(t) + 1 /\ p[Len(t) + 1] = task
        /\ \A i \in 1..Len(t) : p[i] = t[i]
    BY <1>0, <2>2
  <2>. HIDE DEF p
  <2>5. ASSUME NEW i \in 1..Len(q), i # 1 PROVE \E j \in 1..Len(p) : p[j] = q[i]
    <3>1. i - 1 \in 1..Len(t) /\ (i - 1) + 1 = i
      BY <1>0, <2>2, <2>5
    <3>2. i - 1 \in 1..Len(p)
      BY <2>2, <2>4, <3>1
    <3>3. p[i - 1] = q[i]
      BY <2>2, <2>4, <3>1
    <3>. QED
      BY <3>2, <3>3
  <2>6. Len(p) <= MaxQueueSize /\ Len(p) \in Nat \ {0} /\ p[Len(p)] = task
    BY <1>0, <2>1, <2>2, <2>4
  <2>. QED
    BY <2>1, <2>3, <2>4, <2>5, <2>6 DEF Kept, Task, q
<1>2. CASE ~ (Len(q) >= MaxQueueSize)
  <2>. DEFINE p == Append(q, task)
  <2>1. Pushed(q, task) = p
    BY <1>2 DEF Pushed
  <2>2. /\ p \in Seq(Task) /\ Len(p) = Len(q) + 1 /\ p[Len(q) + 1] = task
        /\ \A i \in 1..Len(q) : p[i] = q[i]
    BY <1>0
  <2>. HIDE DEF p
  <2>3. Len(p) <= MaxQueueSize /\ Len(p) \in Nat \ {0} /\ p[Len(p)] = task
    BY <1>0, <1>2, <2>2
  <2>4. \A i \in 1..Len(q) : i \in 1..Len(p)
    BY <1>0, <2>2
  <2>. QED
    BY <2>1, <2>2, <2>3, <2>4 DEF Kept, Task, q
<1>. QED
  BY <1>1, <1>2 DEF q

ScoresInv == HitsAreQueued /\ scoresDropped \in BOOLEAN /\ ScoresFollowHits

LEMMA ScoresKept ==
    ASSUME ScoresInv, UNCHANGED hitVars
    PROVE  ScoresInv'
BY DEF ScoresInv, HitsAreQueued, ScoresFollowHits, hitVars, Scores

LEMMA ScoresPushed ==
    ASSUME ScoresInv, NEW task \in Signature \union {Scores}, Push(task), UNCHANGED <<hits, scored>>,
           task = Scores \/ UNCHANGED scoreDirty
    PROVE  ScoresInv'
<1>1. /\ hitWrites' = Pushed(hitWrites, task)
      /\ scoresDropped' = (scoresDropped
                              \/ (Len(hitWrites) = MaxQueueSize /\ Head(hitWrites) = Scores))
  BY DEF Push
<1>2. Kept(hitWrites', hitWrites, task)
  BY <1>1, PushKeeps DEF ScoresInv
<1>3. /\ hitWrites' \in Seq(Signature \union {Scores}) /\ Len(hitWrites') <= MaxQueueSize
      /\ Len(hitWrites') \in Nat \ {0} /\ hitWrites'[Len(hitWrites')] = task
      /\ \A i \in 1..Len(hitWrites) :
            \/ \E j \in 1..Len(hitWrites') : hitWrites'[j] = hitWrites[i]
            \/ i = 1 /\ Len(hitWrites) = MaxQueueSize
  BY <1>2 DEF Kept
<1>4. HitsAreQueued'
  BY <1>3 DEF HitsAreQueued
<1>5. scoresDropped' \in BOOLEAN
  BY <1>1 DEF ScoresInv
<1>6. DOMAIN hitWrites = 1..Len(hitWrites) /\ DOMAIN hitWrites' = 1..Len(hitWrites')
  BY <1>3 DEF ScoresInv, HitsAreQueued
<1>7. ScoresFollowHits'
  <2>1. CASE hits \subseteq scored \/ scoresDropped
    BY <1>1, <2>1 DEF ScoresFollowHits
  <2>2. CASE task = Scores
    <3>1. Len(hitWrites') \in DOMAIN hitWrites' /\ hitWrites'[Len(hitWrites')] = Scores
      <4>1. Len(hitWrites') \in 1..Len(hitWrites')
        BY <1>3
      <4>2. hitWrites'[Len(hitWrites')] = Scores
        BY <1>3, <2>2
      <4>. QED
        BY <1>6, <4>1, <4>2
    <3>. QED
      BY <3>1 DEF ScoresFollowHits, Scores
  <2>3. CASE scoreDirty /\ task # Scores
    BY <2>3 DEF ScoresFollowHits
  <2>4. CASE \E i \in DOMAIN hitWrites : hitWrites[i] = Scores
    <3>1. PICK i \in 1..Len(hitWrites) : hitWrites[i] = Scores
      BY <1>6, <2>4
    <3>2. CASE \E j \in 1..Len(hitWrites') : hitWrites'[j] = hitWrites[i]
      BY <1>6, <3>1, <3>2 DEF ScoresFollowHits, Scores
    <3>3. CASE i = 1 /\ Len(hitWrites) = MaxQueueSize
      <4>1. Head(hitWrites) = Scores
        BY <3>1, <3>3 DEF ScoresInv, HitsAreQueued
      <4>2. scoresDropped'
        BY <1>1, <3>3, <4>1
      <4>. QED
        BY <4>2 DEF ScoresFollowHits
    <3>. QED
      BY <1>3, <3>2, <3>3
  <2>. QED
    BY <2>1, <2>2, <2>3, <2>4 DEF ScoresInv, ScoresFollowHits
<1>. QED
  BY <1>4, <1>5, <1>7 DEF ScoresInv

LEMMA ScoresRun ==
    ASSUME ScoresInv, RunHitTask
    PROVE  ScoresInv'
<1>1. /\ hitWrites # <<>> /\ hitWrites' = Tail(hitWrites)
      /\ UNCHANGED scoresDropped
      /\ IF Head(hitWrites) = Scores THEN Recompute ELSE InsertHit(Head(hitWrites))
  BY DEF RunHitTask
<1>2. HitsAreQueued'
  <2>1. hitWrites \in Seq(Signature \union {Scores}) /\ Len(hitWrites) <= MaxQueueSize
    BY DEF ScoresInv, HitsAreQueued
  <2>2. hitWrites' \in Seq(Signature \union {Scores}) /\ Len(hitWrites') = Len(hitWrites) - 1
        /\ Len(hitWrites) \in Nat
    BY <1>1, <2>1
  <2>3. Len(hitWrites') <= MaxQueueSize
    BY <2>1, <2>2
  <2>. QED
    BY <2>2, <2>3 DEF HitsAreQueued, Scores
<1>3. hits' \subseteq scored' \/ scoreDirty'
  BY <1>1 DEF Recompute, InsertHit
<1>. QED
  BY <1>1, <1>2, <1>3 DEF ScoresInv, ScoresFollowHits

-----------------------------------------------------------------------------
(* The two together *)

LeaderInv == MissInv /\ SweepInv /\ ScoresInv

LEMMA LaunchStarts == LaunchInit => LeaderInv
<1>. SUFFICES ASSUME LaunchInit PROVE LeaderInv
  OBVIOUS
<1>1. /\ clock = 1 /\ blockTime = [x \in Transaction |-> 0] /\ callback = [n \in Notice |-> "none"]
      /\ rowWrites = <<>> /\ migrations = <<>>
      /\ active = [p \in Pool |-> 0] /\ until = [s \in Subscription |-> 0]
      /\ made = [p \in Pool |-> 0] /\ listeners = {} /\ lastMigrationTs = 0
      /\ sweeping = [w \in Sweep |-> NoSweep] /\ hitWrites = <<>> /\ scoreDirty = TRUE
      /\ scoresDropped = FALSE /\ polls = <<>> /\ overlapped = FALSE /\ lateExtended = {}
  BY DEF LaunchInit, WatcherInit
<1>2. WatcherTypes
  BY <1>1 DEF WatcherTypes
<1>3. TimesArePast
  BY <1>1 DEF TimesArePast
<1>4. NoSweep \in SweepState /\ NoSweep.now = 0 /\ NoSweep.left = {} /\ NoSweep.awaits = {}
  BY DEF NoSweep, SweepState
<1>5. PoolTypes
  <2>1. /\ made \in [Pool -> 0..MaxListeners] /\ until \in [Subscription -> Nat]
        /\ active \in [Pool -> Nat] /\ polls \in Seq(Nat)
    BY <1>1
  <2>2. \A p \in Pool : active[p] \in {0, made[p]}
    BY <1>1
  <2>3. sweeping \in [Sweep -> SweepState]
    BY <1>1, <1>4
  <2>4. overlapped \in BOOLEAN /\ lastMigrationTs \in Nat
    BY <1>1
  <2>5. listeners \subseteq Subscription /\ lateExtended \subseteq Subscription
    BY <1>1
  <2>. QED
    BY <2>1, <2>2, <2>3, <2>4, <2>5 DEF PoolTypes
<1>6. MarkIsPolled /\ OnlyLateMigrationsAreMissed
  BY <1>1 DEF MarkIsPolled, OnlyLateMigrationsAreMissed
<1>7. SweepsArePast /\ EntriesAreOwn
  BY <1>1, <1>4 DEF SweepsArePast, EntriesAreOwn, Sweeping
<1>8. NewestIsKept
  BY <1>1 DEF NewestIsKept
<1>9. ScoresInv
  <2>1. HitsAreQueued
    BY <1>1 DEF HitsAreQueued
  <2>2. scoreDirty /\ scoresDropped \in BOOLEAN
    BY <1>1
  <2>. QED
    BY <2>1, <2>2 DEF ScoresInv, ScoresFollowHits
<1>. QED
  BY <1>2, <1>3, <1>5, <1>6, <1>7, <1>8, <1>9 DEF LeaderInv, MissInv, SweepInv

LEMMA LaunchSteps == LeaderInv /\ [LaunchNext]_launchVars => LeaderInv'
<1>. SUFFICES ASSUME LeaderInv, [LaunchNext]_launchVars PROVE LeaderInv'
  OBVIOUS
<1>0. /\ MissInv /\ SweepInv /\ ScoresInv
      /\ WatcherTypes /\ TimesArePast /\ PoolTypes /\ clock \in Nat /\ Len(migrations) \in Nat
  BY DEF LeaderInv, MissInv, WatcherTypes
\* The watcher's own steps.
<1>1. ASSUME WatcherTypes', TimesArePast', TableGrows, UNCHANGED leaderVars PROVE LeaderInv'
  <2>1. UNCHANGED <<active, until, made, listeners, lastMigrationTs, polls, sweeping, overlapped, lateExtended>>
    BY <1>1 DEF leaderVars, poolVars
  <2>2. UNCHANGED hitVars
    BY <1>1 DEF leaderVars
  <2>3. PoolTypes'
    BY <1>0, <2>1 DEF PoolTypes
  <2>4. MarkIsPolled' /\ OnlyLateMigrationsAreMissed'
    BY <1>0, <1>1, <2>1, <2>3, MissKept
  <2>5. SweepInv'
    BY <1>0, <1>1, <2>1, SweepKept DEF TableGrows
  <2>6. ScoresInv'
    BY <1>0, <2>2, ScoresKept
  <2>. QED
    BY <1>1, <2>3, <2>4, <2>5, <2>6 DEF LeaderInv, MissInv
\* The leader watcher's.
<1>2. UNCHANGED watcherVars => WatcherTypes' /\ TimesArePast' /\ TableGrows
  BY <1>0 DEF WatcherTypes, TimesArePast, TableGrows, watcherVars
<1>3. ASSUME UNCHANGED watcherVars, UNCHANGED <<poolVars, sweeping, overlapped, lateExtended>>, ScoresInv'
      PROVE  LeaderInv'
  <2>1. UNCHANGED <<active, until, made, listeners, lastMigrationTs, polls, sweeping, overlapped, lateExtended>>
    BY <1>3 DEF poolVars
  <2>2. PoolTypes'
    BY <1>0, <2>1 DEF PoolTypes
  <2>3. MarkIsPolled' /\ OnlyLateMigrationsAreMissed'
    BY <1>0, <1>2, <1>3, <2>1, <2>2, MissKept
  <2>4. SweepInv'
    BY <1>0, <1>2, <1>3, <2>1, SweepKept DEF TableGrows
  <2>. QED
    BY <1>2, <1>3, <2>2, <2>3, <2>4 DEF LeaderInv, MissInv
<1>4. ASSUME UNCHANGED watcherVars, UNCHANGED <<made, until, polls, lastMigrationTs, hitVars>>,
             PoolTypes', SweepInv'
      PROVE  LeaderInv'
  <2>1. MarkIsPolled' /\ OnlyLateMigrationsAreMissed'
    BY <1>0, <1>2, <1>4, MissKept
  <2>2. ScoresInv'
    BY <1>0, <1>4, ScoresKept
  <2>. QED
    BY <1>2, <1>4, <2>1, <2>2 DEF LeaderInv, MissInv
<1>5. CASE WatcherNext /\ UNCHANGED leaderVars
  BY <1>0, <1>1, <1>5, WatcherStep
<1>6. CASE LeaderNext /\ UNCHANGED watcherVars
  <2>1. CASE PollMigrations
    <3>1. PoolTypes' /\ MarkIsPolled' /\ OnlyLateMigrationsAreMissed'
      BY <1>0, <1>6, <2>1, MissPolled
    <3>2. SweepInv'
      BY <1>0, <1>6, <2>1, <3>1, SweepPolled
    <3>3. ScoresInv'
      <4>1. UNCHANGED hitVars
        BY <2>1 DEF PollMigrations
      <4>. QED
        BY <1>0, <4>1, ScoresKept
    <3>. QED
      BY <1>2, <1>6, <3>1, <3>2, <3>3 DEF LeaderInv, MissInv
  <2>2. CASE RunHitTask
    <3>1. ScoresInv'
      BY <1>0, <2>2, ScoresRun
    <3>2. UNCHANGED <<poolVars, sweeping, overlapped, lateExtended>>
      BY <2>2 DEF RunHitTask
    <3>. QED
      BY <1>3, <1>6, <3>1, <3>2
  <2>3. CASE RefreshScoresIfDirty
    <3>1. /\ Push(Scores) /\ UNCHANGED <<hits, scored>>
          /\ UNCHANGED <<poolVars, sweeping, overlapped, lateExtended>>
      BY <2>3 DEF RefreshScoresIfDirty
    <3>2. ScoresInv'
      BY <1>0, <3>1, ScoresPushed
    <3>. QED
      BY <1>3, <1>6, <3>1, <3>2
  <2>4. ASSUME NEW w \in Sweep, BeginSweep(w) PROVE LeaderInv'
    <3>1. PoolTypes' /\ SweepInv'
      BY <1>0, <1>6, <2>4, SweepBegun
    <3>2. UNCHANGED <<made, until, polls, lastMigrationTs, hitVars>>
      BY <2>4 DEF BeginSweep, poolVars
    <3>. QED
      BY <1>4, <1>6, <3>1, <3>2
  <2>5. ASSUME NEW w \in Sweep, SweepEnds(w) PROVE LeaderInv'
    <3>1. PoolTypes' /\ SweepInv'
      BY <1>0, <1>6, <2>5, SweepEnded
    <3>2. UNCHANGED <<made, until, polls, lastMigrationTs, hitVars>>
      BY <2>5 DEF SweepEnds, poolVars
    <3>. QED
      BY <1>4, <1>6, <3>1, <3>2
  <2>6. ASSUME NEW w \in Sweep, NEW e \in Subscription, SweepEntry(w, e) PROVE LeaderInv'
    <3>1. PoolTypes' /\ SweepInv'
      BY <1>0, <1>6, <2>6, SweepTakes
    <3>2. UNCHANGED <<made, until, polls, lastMigrationTs, hitVars>>
      BY <2>6 DEF SweepEntry
    <3>. QED
      BY <1>4, <1>6, <3>1, <3>2
  <2>7. ASSUME NEW w \in Sweep, NEW e \in Subscription, SweepDeletes(w, e) PROVE LeaderInv'
    <3>1. PoolTypes' /\ SweepInv'
      BY <1>0, <1>6, <2>7, SweepDeleted
    <3>2. UNCHANGED <<made, until, polls, lastMigrationTs, hitVars>>
      BY <2>7 DEF SweepDeletes
    <3>. QED
      BY <1>4, <1>6, <3>1, <3>2
  <2>8. ASSUME NEW x \in Signature, NEW s \in Subscription, SwapSeen(x, s) PROVE LeaderInv'
    <3>1. /\ UNCHANGED <<hitWrites, hits, scored, scoreDirty, scoresDropped>>
          /\ UNCHANGED <<poolVars, sweeping, overlapped, lateExtended>>
      BY <2>8 DEF SwapSeen
    <3>2. ScoresInv'
      BY <1>0, <3>1 DEF ScoresInv, HitsAreQueued, ScoresFollowHits, Scores
    <3>. QED
      BY <1>3, <1>6, <3>1, <3>2
  <2>9. ASSUME NEW x \in Signature, SwapFetched(x) PROVE LeaderInv'
    <3>1. /\ Push(x) /\ UNCHANGED <<hits, scored, scoreDirty>>
          /\ UNCHANGED <<poolVars, sweeping, overlapped, lateExtended>>
      BY <2>9 DEF SwapFetched
    <3>2. ScoresInv'
      BY <1>0, <3>1, ScoresPushed
    <3>. QED
      BY <1>3, <1>6, <3>1, <3>2
  <2>10. ASSUME NEW x \in Signature, SwapMissing(x) PROVE LeaderInv'
    <3>1. /\ UNCHANGED <<hitWrites, hits, scored, scoreDirty, scoresDropped>>
          /\ UNCHANGED <<poolVars, sweeping, overlapped, lateExtended>>
      BY <2>10 DEF SwapMissing
    <3>2. ScoresInv'
      BY <1>0, <3>1 DEF ScoresInv, HitsAreQueued, ScoresFollowHits, Scores
    <3>. QED
      BY <1>3, <1>6, <3>1, <3>2
  <2>. QED
    BY <1>6, <2>1, <2>2, <2>3, <2>4, <2>5, <2>6, <2>7, <2>8, <2>9, <2>10 DEF LeaderNext
<1>7. CASE UNCHANGED launchVars
  BY <1>0, <1>2, <1>1, <1>7 DEF launchVars
<1>. QED
  BY <1>5, <1>6, <1>7 DEF LaunchNext

-----------------------------------------------------------------------------
(* The theorems *)

\* With any number of pools, sweeps and polls: a row a poll has passed had its pool
\* watched for its whole window, unless it came late (pollMigrations only takes what
\* is above lastMigrationTs) or was older than the window at the first poll.
THEOREM MissesOnlyLateRows == LaunchSpec => []OnlyLateMigrationsAreMissed
<1>1. LeaderInv => OnlyLateMigrationsAreMissed
  BY DEF LeaderInv, MissInv
<1>. QED
  BY <1>1, LaunchStarts, LaunchSteps, PTL DEF LaunchSpec

\* With any number of pools, sweeps and swaps: a pool that is due has its listener or
\* was extended while the sweep took the listener away, only overlapping sweeps leave
\* a listener behind, and scores lag only while their recomputation is due, queued or
\* was dropped.
THEOREM LeadersFollowed == LaunchSpec => []LeadersAreFollowed
<1>1. LeaderInv => LeadersAreFollowed
  BY WatchesFollow DEF LeaderInv, MissInv, ScoresInv, LeadersAreFollowed
<1>. QED
  BY <1>1, LaunchStarts, LaunchSteps, PTL DEF LaunchSpec
=============================================================================
