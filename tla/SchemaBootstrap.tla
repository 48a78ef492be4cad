-------------------------- MODULE SchemaBootstrap --------------------------
(***************************************************************************)
(* How a service opens the shared SQLite file: getDb of the persistence    *)
(* package.  bootstrapDb writes every table and column in one transaction, *)
(* runMigrations applies what is not recorded yet, a transaction each, and *)
(* ensureTrainingViews makes the views again, statement by statement.      *)
(* Several processes do this on one file: SQLite lets one of them write,   *)
(* refuses a write after a read that another has overtaken, and gives up   *)
(* waiting after the busy timeout.                                         *)
(*                                                                         *)
(* An object is a table or a view (column "") or a column that is added.   *)
(* Indexes are left out: indexExists asks PRAGMA index_info, which does    *)
(* not throw for a name it does not know, so ensureIndex never makes one.  *)
(***************************************************************************)
EXTENDS Naturals, Sequences, FiniteSetsExt

CONSTANTS
    Process,        \* services that open the file
    Releases,       \* how many migrations the file may have seen before
    MaxMishaps      \* bound: timeouts, processes that end, writes of a connection
                    \* that is long open

CONSTANT nobody     \* the holder of a free write lock

ASSUME SchemaAssumption ==
    /\ Releases \subseteq 0..18
    /\ MaxMishaps \in Nat
    /\ nobody \notin Process

Tables(names) == {[table |-> t, column |-> ""] : t \in names}
Columns(t, names) == {[table |-> t, column |-> c] : c \in names}

-----------------------------------------------------------------------------
(* MIGRATIONS: what each of them brings *)

M0001_init ==
    Tables({"migrations", "topics", "candidates", "orders", "fills",
            "positions", "events", "sizing_decisions", "heartbeats"})
        \union Columns("positions", {"mae_bps"})
M0002_social_posts == Tables({"social_posts"})
M0003_candidate_enrichment ==
    Columns("candidates",
            {"pool_address", "lp_mint", "pool_coin_account", "pool_pc_account"})
M0004_policy_engine == Tables({"policy_actions", "bandit_state"})
M0005_orders_enrich == Columns("orders", {"side", "token_amount", "expected_sol"})
M0006_narrative_miner ==
    Tables({"topic_clusters", "topic_windows", "topic_matches", "phrase_baseline"})
M0007_topic_metadata ==
    Columns("topics",
            {"decayed_sss", "cluster_phrases", "cluster_added", "cluster_centroid"})
M0008_pvp_phase_a == Tables({"migration_events", "scores", "rug_verdicts"})
M0009_pvp_phase_b == Tables({"fill_preds", "fee_decisions", "exec_outcomes"})
M0010_pvp_phase_c ==
    Tables({"hazard_states", "sizing_outcomes"})
        \union Columns("sizing_decisions", {"ts", "arm", "notional", "ctx_json"})
M0011_pvp_phase_d ==
    Tables({"backtest_runs", "backtest_results",
            "shadow_decisions_fee", "shadow_decisions_sizing"})
M0012_pvp_phase_e ==
    Tables({"prices"})
        \union Columns("exec_outcomes", {"priority_fee_lamports", "amount_in",
                                         "amount_out", "fee_lamports_total"})
M0013_preflight_mae == Columns("positions", {"mae_bps"})
M0014_phase_f_route_stats == Tables({"route_stats"})
M0015_phase_f_leader_wallets == Tables({"leader_wallets", "leader_hits"})
M0016_housekeeping_indices == {}
M0017_offline_features == Tables({"author_features", "pump_signals"})

\* TRAINING_VIEW_DDLS: each view is dropped and made again.
TrainingViews == <<"fill_training_view", "alpha_training_view",
                   "rug_training_view", "survival_training_view">>
View(k) == [table |-> TrainingViews[k], column |-> ""]
OutcomeColumns == <<"mint", "order_id", "side">>
OutcomeColumn(k) == [table |-> "exec_outcomes", column |-> OutcomeColumns[k]]

M0018_training_views ==
    {OutcomeColumn(k) : k \in 1..3} \union {View(k) : k \in 1..4}

MIGRATIONS ==
    <<M0001_init, M0002_social_posts, M0003_candidate_enrichment,
      M0004_policy_engine, M0005_orders_enrich, M0006_narrative_miner,
      M0007_topic_metadata, M0008_pvp_phase_a, M0009_pvp_phase_b,
      M0010_pvp_phase_c, M0011_pvp_phase_d, M0012_pvp_phase_e,
      M0013_preflight_mae, M0014_phase_f_route_stats,
      M0015_phase_f_leader_wallets, M0016_housekeeping_indices,
      M0017_offline_features, M0018_training_views>>

SimOutcomes == [table |-> "sim_exec_outcomes", column |-> ""]

\* BOOTSTRAP_TABLE_DDLS: the tables of the migrations and one more.
BootstrapTables ==
    {o \in UNION {MIGRATIONS[i] : i \in 1..17} : o.column = ""} \union {SimOutcomes}
\* BOOTSTRAP_COLUMN_ADDITIONS: the columns of the migrations.
BootstrapColumns ==
    {o \in UNION {MIGRATIONS[i] : i \in 1..18} : o.column # ""}
\* CANONICAL_COLUMN_ADDITIONS: the columns no migration knows.
CanonicalColumns ==
    Columns("topics", {"id", "phrase", "score", "created_ts"})
        \union Columns("candidates",
                       {"ts", "pool", "age", "lpSol", "uniques", "buys", "sells"})
        \union Columns("orders",
                       {"created_ts", "size", "cu_price", "tokenAmount", "expectedSol"})
        \union Columns("fills", {"order_id", "ts", "amount_in", "amount_out", "exec_price"})
        \union Columns("positions", {"entry_price", "entry_ts", "size"})
        \union Columns("events", {"ts", "type", "payload_json"})

-----------------------------------------------------------------------------
VARIABLES
    schema,     \* the objects committed to the file
    applied,    \* rows of the table migrations
    writer,     \* who holds the write lock
    opener,     \* [Process -> where each is in getDb]
    mishaps

schemaVars == <<schema, applied, writer, opener, mishaps>>

\* at: the step a process is at; next: the migration, column or view it is about;
\* draft: what its transaction wrote; overtaken: another connection committed
\* since its transaction may have read.
\* History: hurt - a timeout or the write of a connection that migrates nothing fell into
\* its opening, or into that of a process which was still at it when it began.
NotOpened ==
    [at |-> "closed", next |-> 1, draft |-> {}, overtaken |-> FALSE, hurt |-> FALSE]

SchemaInit ==
    \E n \in Releases :
        /\ applied = 1..n
        /\ schema = (UNION {MIGRATIONS[i] : i \in 1..n})
                        \union (IF n = 18 THEN {SimOutcomes} ELSE {})
        /\ writer = nobody
        /\ opener = [p \in Process |-> NotOpened]
        /\ mishaps = 0

IsOpening(proc) == proc.at \notin {"closed", "open"}
Hurt(procs) == [q \in Process |-> [procs[q] EXCEPT !.hurt = @ \/ IsOpening(procs[q])]]
OpenerAt(p, step) == opener[p].at = step
\* A commit overtakes every transaction that is about to write.
Overtake(procs) ==
    [q \in Process |-> [procs[q] EXCEPT !.overtaken = @ \/ procs[q].at = "apply"]]
\* An autocommitted statement that leaves these objects; one that changes nothing
\* needs no lock and overtakes nobody.
Writes(objects, procs) ==
    /\ schema # objects => writer = nobody
    /\ schema' = objects
    /\ opener' = IF schema # objects THEN Overtake(procs) ELSE procs
Mishap == mishaps < MaxMishaps /\ mishaps' = mishaps + 1

-----------------------------------------------------------------------------
(* openDb and bootstrapDb *)

OpenDb(p) ==
    /\ OpenerAt(p, "closed")
    /\ opener' = [opener EXCEPT
          ![p].at = "bootstrap",
          ![p].hurt = \E q \in Process : IsOpening(opener[q]) /\ opener[q].hurt]
    /\ UNCHANGED <<schema, applied, writer, mishaps>>

\* BEGIN, then every table and every column, each in a try of its own.
BootstrapWrites(p) ==
    /\ OpenerAt(p, "bootstrap") /\ writer = nobody
    /\ writer' = p
    /\ opener' = [opener EXCEPT
          ![p].at = "backfill",
          ![p].draft = BootstrapTables \union BootstrapColumns \union CanonicalColumns]
    /\ UNCHANGED <<schema, applied, mishaps>>

\* The block that fills in the order ids starts with a BEGIN of its own, which
\* SQLite refuses within a transaction: its catch rolls back everything, and the
\* COMMIT after it finds no transaction.  What the block would write is left out.
Backfill(p) ==
    /\ OpenerAt(p, "backfill")
    /\ writer' = IF writer = p THEN nobody ELSE writer
    /\ opener' = [opener EXCEPT ![p].at = "table", ![p].draft = {}]
    /\ UNCHANGED <<schema, applied, mishaps>>

-----------------------------------------------------------------------------
(* runMigrations *)

MigrationsTable == Tables({"migrations"})

CreateMigrationsTable(p) ==
    /\ OpenerAt(p, "table")
    /\ Writes(schema \union MigrationsTable,
              [opener EXCEPT ![p].at = "check", ![p].next = 1])
    /\ UNCHANGED <<applied, writer, mishaps>>

\* The loop: a migration that is recorded is passed over.  Rows of the table only
\* come, so passing several over in one step reads nothing another order would not.
CheckMigration(p) ==
    /\ OpenerAt(p, "check")
    /\ LET todo == {i \in opener[p].next..Len(MIGRATIONS) : i \notin applied}
       IN opener' = [opener EXCEPT ![p] =
              IF todo = {} THEN [@ EXCEPT !.at = "simTable", !.next = 1]
              ELSE [@ EXCEPT !.at = "apply", !.next = Min(todo), !.overtaken = FALSE]]
    /\ UNCHANGED <<schema, applied, writer, mishaps>>

\* A column can be added only to a table that is there.
Applicable(i) ==
    \A o \in MIGRATIONS[i] :
        o.column # "" =>
            [o EXCEPT !.column = ""] \in schema \union MIGRATIONS[i]

\* The transaction is rolled back, the error logged, and the loop goes on.
GivesUp(proc) ==
    [proc EXCEPT !.at = "check", !.next = @ + 1, !.draft = {}, !.overtaken = FALSE]

\* Mutant: the statements of a migration run outside the transaction.
ApplyMigration_Unprotected(p) ==
    /\ OpenerAt(p, "apply") /\ writer = nobody
    /\ schema' = schema \union {o \in MIGRATIONS[opener[p].next] : o.column = ""}
    /\ IF Applicable(opener[p].next)
       THEN /\ writer' = p
            /\ opener' = [opener EXCEPT ![p].at = "record",
                                        ![p].draft = MIGRATIONS[opener[p].next]]
       ELSE /\ opener' = [opener EXCEPT ![p] = GivesUp(@)]
            /\ UNCHANGED writer
    /\ UNCHANGED <<applied, mishaps>>

ApplyMigration(p) ==
    /\ OpenerAt(p, "apply") /\ writer = nobody
    /\ IF Applicable(opener[p].next)
       THEN /\ writer' = p
            /\ opener' = [opener EXCEPT ![p].at = "record",
                                        ![p].draft = MIGRATIONS[opener[p].next]]
       ELSE /\ opener' = [opener EXCEPT ![p] = GivesUp(@)]
            /\ UNCHANGED writer
    /\ UNCHANGED <<schema, applied, mishaps>>

\* SQLITE_BUSY at once: the transaction has read and was overtaken since.
ApplyRefused(p) ==
    /\ OpenerAt(p, "apply") /\ opener[p].overtaken
    /\ opener' = [opener EXCEPT ![p] = GivesUp(@)]
    /\ UNCHANGED <<schema, applied, writer, mishaps>>

\* The insert that records the migration hits the primary key when another process
\* was faster.
RecordMigration(p) ==
    LET i == opener[p].next
    IN /\ OpenerAt(p, "record")
       /\ writer' = nobody
       /\ IF i \in applied
          THEN /\ opener' = [opener EXCEPT ![p] = GivesUp(@)]
               /\ UNCHANGED <<schema, applied>>
          ELSE /\ schema' = schema \union opener[p].draft
               /\ applied' = applied \union {i}
               /\ opener' = [Overtake(opener) EXCEPT ![p] = GivesUp(@)]
       /\ UNCHANGED mishaps

-----------------------------------------------------------------------------
(* ensureTrainingViews: what throws here leaves getDb, which has kept the *)
(* connection and returns it the next time as it is.                      *)

EnsureSimTable(p) ==
    /\ OpenerAt(p, "simTable")
    /\ Writes(schema \union {SimOutcomes},
              [opener EXCEPT ![p].at = "look", ![p].next = 1])
    /\ UNCHANGED <<applied, writer, mishaps>>

\* Columns only come, too.
LookForColumn(p) ==
    /\ OpenerAt(p, "look")
    /\ LET missing == {k \in opener[p].next..Len(OutcomeColumns) :
                          OutcomeColumn(k) \notin schema}
       IN opener' = [opener EXCEPT ![p] =
              IF missing = {} THEN [@ EXCEPT !.at = "drop", !.next = 1]
              ELSE [@ EXCEPT !.at = "alter", !.next = Min(missing)]]
    /\ UNCHANGED <<schema, applied, writer, mishaps>>

\* ALTER TABLE throws when the table is missing or the column has come meanwhile.
AlterOutcomes(p) ==
    LET o == OutcomeColumn(opener[p].next)
    IN /\ OpenerAt(p, "alter") /\ writer = nobody
       /\ IF o \in schema \/ [o EXCEPT !.column = ""] \notin schema
          THEN opener' = [opener EXCEPT ![p].at = "open"] /\ UNCHANGED schema
          ELSE Writes(schema \union {o}, [opener EXCEPT ![p].at = "look"])
       /\ UNCHANGED <<applied, writer, mishaps>>

DropView(p) ==
    /\ OpenerAt(p, "drop")
    /\ Writes(schema \ {View(opener[p].next)}, [opener EXCEPT ![p].at = "create"])
    /\ UNCHANGED <<applied, writer, mishaps>>

AfterView(proc) ==
    IF proc.next = Len(TrainingViews) THEN [proc EXCEPT !.at = "open"]
    ELSE [proc EXCEPT !.at = "drop", !.next = @ + 1]

\* CREATE VIEW fails, with a warning, when another process has made it.
CreateView(p) ==
    /\ OpenerAt(p, "create")
    /\ Writes(schema \union {View(opener[p].next)}, [opener EXCEPT ![p] = AfterView(@)])
    /\ UNCHANGED <<applied, writer, mishaps>>

-----------------------------------------------------------------------------
(* What goes wrong *)

\* The busy timeout ends while another process holds the lock: bootstrapDb and the
\* view statements go on with a warning, a migration is given up, and the other
\* statements throw out of getDb.
TimesOut(p) ==
    /\ writer \notin {nobody, p} /\ Mishap
    /\ LET hurt == Hurt(opener)
       IN \/ /\ OpenerAt(p, "bootstrap")
             /\ opener' = [hurt EXCEPT ![p].at = "backfill"]
          \/ /\ OpenerAt(p, "apply")
             /\ opener' = [hurt EXCEPT ![p] = GivesUp(@)]
          \/ /\ OpenerAt(p, "drop")
             /\ opener' = [hurt EXCEPT ![p].at = "create"]
          \/ /\ OpenerAt(p, "create")
             /\ opener' = [hurt EXCEPT ![p] = AfterView(@)]
          \/ /\ \/ OpenerAt(p, "table") /\ ~(MigrationsTable \subseteq schema)
                \/ OpenerAt(p, "simTable") /\ SimOutcomes \notin schema
                \/ OpenerAt(p, "alter")
             /\ opener' = [hurt EXCEPT ![p].at = "open"]
    /\ UNCHANGED <<schema, applied, writer>>

\* The process ends; SQLite rolls its transaction back.
KillProcess(p) ==
    /\ opener[p].at # "closed" /\ Mishap
    /\ opener' = [opener EXCEPT ![p] = NotOpened]
    /\ writer' = IF writer = p THEN nobody ELSE writer
    /\ UNCHANGED <<schema, applied>>

\* A service that has been up since before writes a row.
ForeignWrite ==
    /\ writer = nobody /\ Mishap
    /\ opener' = Hurt(Overtake(opener))
    /\ UNCHANGED <<schema, applied, writer>>

SchemaNext ==
    \/ \E p \in Process :
          \/ OpenDb(p) \/ BootstrapWrites(p) \/ Backfill(p)
          \/ CreateMigrationsTable(p) \/ CheckMigration(p)
          \/ ApplyMigration(p) \/ ApplyRefused(p) \/ RecordMigration(p)
          \/ EnsureSimTable(p) \/ LookForColumn(p) \/ AlterOutcomes(p)
          \/ DropView(p) \/ CreateView(p)
          \/ TimesOut(p) \/ KillProcess(p)
    \/ ForeignWrite

SchemaSpec == SchemaInit /\ [][SchemaNext]_schemaVars

-----------------------------------------------------------------------------
(* What should hold *)

\* What ensureTrainingViews and runMigrations make outside any migration.
MadeOutside == M0018_training_views \union {SimOutcomes} \union MigrationsTable

\* A migration that is recorded has left all it brings, and one that is not recorded
\* has left nothing that only it brings: whatever failed half way is undone.
MigrationsAreWhole ==
    \A i \in DOMAIN MIGRATIONS :
        IF i \in applied
        THEN MIGRATIONS[i] \ {View(k) : k \in 1..4} \subseteq schema
        ELSE \A o \in (MIGRATIONS[i] \ MadeOutside) \intersect schema :
                 \E j \in applied : o \in MIGRATIONS[j]

\* Services may start together: one that waited too long for nobody and met no write
\* but those of other openers finds every migration applied when it is through, the
\* ones it lost the race for included.
OpenIsComplete ==
    \A p \in Process :
        OpenerAt(p, "open") /\ ~opener[p].hurt => applied = DOMAIN MIGRATIONS

\* The views are there once a service is open, except while another is between
\* dropping and making one, however the statements of two of them mix.
ViewsComeBack ==
    (\E p \in Process : OpenerAt(p, "open")) /\ mishaps = 0 =>
        \A k \in DOMAIN TrainingViews :
            \/ View(k) \in schema
            \/ \E q \in Process : OpenerAt(q, "create") /\ opener[q].next = k

SchemaIsWhole == MigrationsAreWhole /\ OpenIsComplete /\ ViewsComeBack

\* packages/persistence/src/sqlite.ts:1067, "Best-effort backfill for
\* exec_outcomes.order_id, mint, and side": a backfill that fails takes nothing else
\* with it, so a service that opened the file undisturbed has the columns that only
\* bootstrapDb makes, orders.created_ts among them.
CanonicalColumnsCome ==
    \A p \in Process :
        OpenerAt(p, "open") /\ ~opener[p].hurt => CanonicalColumns \subseteq schema
=============================================================================
