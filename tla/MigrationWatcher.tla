-------------------------- MODULE MigrationWatcher --------------------------
(***************************************************************************)
(* The migration watcher: a log callback per program and transaction       *)
(* fetches the transaction, remembers its signature, queues a row for the  *)
(* table migration_events and puts an event into the buffer the SSE routes *)
(* share.  A transaction that names two watched programs has two           *)
(* callbacks.  Which pool it is about is the transaction's.  The ten       *)
(* minutes a signature is remembered do not run out here.                  *)
(*                                                                         *)
(* Its database writes go through createWriteQueue of the persistence      *)
(* package, one after another.  A queue is the sequence of tasks that      *)
(* wait; push starts the loop at once when it is idle, so a queue that is  *)
(* not empty is being worked off, and its owner takes its head.  What a    *)
(* task throws is swallowed.                                               *)
(***************************************************************************)
EXTENDS Naturals, Sequences, FiniteSets

CONSTANTS
    Transaction,    \* the transactions that match
    ProgramsOf,     \* Transaction -> the watched programs it names
    PoolOf,         \* Transaction -> its pool
    MaxQueueSize,   \* MAX_QUEUE_SIZE of a write queue
    MaxClock        \* bound: the clock

ASSUME WatcherConstants == MaxQueueSize \in Nat \ {0} /\ MaxClock \in Nat

VARIABLES
    clock,      \* block time, in units of the row's resolution
    blockTime,  \* of each transaction; 0: not there yet
    callback,   \* per notice: "none", "asked", "done"
    seen,       \* the TTL cache of signatures
    rowWrites,  \* the write queue: inserts that wait
    migrations, \* the table, in the order of its inserts
    buffer      \* how many events no route has taken yet

watcherVars == <<clock, blockTime, callback, seen, rowWrites, migrations, buffer>>

\* What the node calls back for: a transaction, by each of its programs.
Notice == UNION {{x} \X ProgramsOf[x] : x \in Transaction}

WatcherInit ==
    /\ clock = 1
    /\ blockTime = [x \in Transaction |-> 0]
    /\ callback = [n \in Notice |-> "none"]
    /\ seen = {} /\ rowWrites = <<>> /\ migrations = <<>> /\ buffer = 0

\* push: at the limit the oldest task is dropped.
Pushed(q, task) ==
    Append(IF Len(q) >= MaxQueueSize THEN Tail(q) ELSE q, task)

ClockTicks ==
    /\ clock < MaxClock
    /\ clock' = clock + 1
    /\ UNCHANGED <<blockTime, callback, seen, rowWrites, migrations, buffer>>

\* The chain: a transaction is in a block.
Mined(x) ==
    /\ blockTime[x] = 0
    /\ blockTime' = [blockTime EXCEPT ![x] = clock]
    /\ UNCHANGED <<clock, callback, seen, rowWrites, migrations, buffer>>

\* The callback, up to its await.
LogSeen(n) ==
    /\ blockTime[n[1]] > 0 /\ callback[n] = "none"
    /\ callback' = [callback EXCEPT ![n] = IF n[1] \in seen THEN "done" ELSE "asked"]
    /\ UNCHANGED <<clock, blockTime, seen, rowWrites, migrations, buffer>>

\* The rest of it.
TransactionFetched(n) ==
    /\ callback[n] = "asked"
    /\ callback' = [callback EXCEPT ![n] = "done"]
    /\ seen' = seen \union {n[1]}
    /\ rowWrites' = Pushed(rowWrites, n[1])
    /\ buffer' = buffer + 1
    /\ UNCHANGED <<clock, blockTime, migrations>>

\* The node does not have it, or it cannot be read: the next program's
\* callback may still find it.
TransactionMissing(n) ==
    /\ callback[n] = "asked"
    /\ callback' = [callback EXCEPT ![n] = "done"]
    /\ UNCHANGED <<clock, blockTime, seen, rowWrites, migrations, buffer>>

\* insertMigrationEvent
InsertMigration ==
    /\ rowWrites # <<>>
    /\ migrations' =
        Append(migrations, [pool |-> PoolOf[Head(rowWrites)],
                            ts |-> blockTime[Head(rowWrites)]])
    /\ rowWrites' = Tail(rowWrites)
    /\ UNCHANGED <<clock, blockTime, callback, seen, buffer>>

\* The 50 ms timer of a route takes an event: no other route gets it.
RouteTakes ==
    /\ buffer > 0
    /\ buffer' = buffer - 1
    /\ UNCHANGED <<clock, blockTime, callback, seen, rowWrites, migrations>>

WatcherNext ==
    \/ ClockTicks \/ InsertMigration \/ RouteTakes
    \/ \E x \in Transaction : Mined(x)
    \/ \E n \in Notice : LogSeen(n) \/ TransactionFetched(n) \/ TransactionMissing(n)
=============================================================================
