----------------------------- MODULE ModelFiles -----------------------------
(***************************************************************************)
(* A model file that the training scripts write in place and a service     *)
(* reads: alpha-ranker, which watches its file and reloads it, FillNet in  *)
(* the executor, which reloads when it is told to, RugGuard, which reads   *)
(* its file once, or the pump classifier, which tries until a file is      *)
(* good.  The four share nothing, so a behaviour is about one of them.  A  *)
(* load is synchronous, but the writer is another process: it can write    *)
(* between alpha-ranker's read and its watch.  Which weights a file holds  *)
(* is left out, and so is what the heuristics that stand in for it give.   *)
(* What the jobs on timers and the watchers of files promise together is   *)
(* stated at the end.                                                      *)
(***************************************************************************)
EXTENDS RpcMonitor, PriceUpdater, FeaturesJob, ParquetExport

CONSTANT MaxVersion     \* bound: states of the file, removed ones included

ASSUME ModelConstants == MaxVersion \in Nat

VARIABLES
    model,      \* the service: "alpha", "fillnet", "rugguard", "pump"
    modelFile,  \* its file: a version, "gone", "half" written or "whole"
    inUse,      \* the version in use, 0 when the heuristics stand in for one
    status,     \* of the last load, for alpha and FillNet the status metric
    watcher,    \* alphaModelWatcher: "none", "live", "deaf" (its file was removed)
    noticed,    \* a change event of the watcher is on its way
    debounce,   \* alphaModelDebounce is set
    unwatched,  \* alpha has read its file and not watched it yet
    slipped     \* history: the file changed while it was unwatched

modelVars == <<model, modelFile, inUse, status, watcher, noticed, debounce,
               unwatched, slipped>>

File(version, state) == [version |-> version, state |-> state]
Whole == modelFile.state = "whole"

ModelInit ==
    /\ model \in {"alpha", "fillnet", "rugguard", "pump"}
    /\ modelFile \in {File(0, "gone"), File(1, "whole")}
    /\ inUse = 0 /\ status = "unknown"
    /\ watcher = "none" /\ noticed = FALSE /\ debounce = FALSE
    /\ unwatched = FALSE /\ slipped = FALSE

-----------------------------------------------------------------------------
(* The training scripts *)

\* The watcher of a file that is removed hears of it and of nothing more.
Becomes(version, state) ==
    /\ version <= MaxVersion
    /\ modelFile' = File(version, state)
    /\ noticed' = (noticed \/ watcher = "live")
    /\ watcher' = IF state = "gone" /\ watcher = "live" THEN "deaf" ELSE watcher
    /\ slipped' = (slipped \/ unwatched)
    /\ UNCHANGED <<model, inUse, status, debounce, unwatched>>

BeginWrite == Becomes(modelFile.version + 1, "half")
EndWrite == modelFile.state = "half" /\ Becomes(modelFile.version, "whole")
Unlink == modelFile.state # "gone" /\ Becomes(modelFile.version + 1, "gone")

-----------------------------------------------------------------------------
(* Loading *)

Load ==
    /\ inUse' = IF Whole THEN modelFile.version ELSE 0
    /\ status' = CASE Whole -> "ok"
                   [] modelFile.state = "half" -> "error"
                   [] OTHER -> "missing"
    /\ UNCHANGED <<model, modelFile>>

\* loadAlphaModel up to the parsed file; one that is not good leaves the watcher alone.
LoadAlpha ==
    /\ ~unwatched
    /\ Load
    /\ unwatched' = Whole /\ slipped' = FALSE
    /\ UNCHANGED <<watcher, noticed>>

\* At the start, by the reload endpoint, and by ensureAlphaModel for a candidate
\* when there is no model.
ReloadAlpha == model = "alpha" /\ LoadAlpha /\ UNCHANGED debounce

\* Bug: a watcher that is there is kept.
WatchAlpha_Once ==
    /\ unwatched
    /\ unwatched' = FALSE
    /\ watcher' = IF watcher = "none" THEN "live" ELSE watcher
    /\ UNCHANGED <<model, modelFile, inUse, status, noticed, debounce, slipped>>

\* applyAlphaWatcher: the old watcher is closed, with the events it had.  A file
\* that is gone by now cannot be watched.
WatchAlpha ==
    /\ unwatched
    /\ unwatched' = FALSE
    /\ watcher' = IF modelFile.state = "gone" THEN "none" ELSE "live"
    /\ noticed' = FALSE
    /\ UNCHANGED <<model, modelFile, inUse, status, debounce, slipped>>

\* scheduleAlphaReload
ScheduleAlphaReload ==
    /\ noticed /\ ~unwatched
    /\ noticed' = FALSE /\ debounce' = TRUE
    /\ UNCHANGED <<model, modelFile, inUse, status, watcher, unwatched, slipped>>

DebounceEnds == debounce /\ debounce' = FALSE /\ LoadAlpha

\* An empty model of FillNet or RugGuard is there; the pump classifier's is not.
EnsureModel ==
    /\ model # "alpha"
    /\ status = "unknown" \/ (model = "pump" /\ inUse = 0)
    /\ Load
    /\ UNCHANGED <<watcher, noticed, debounce, unwatched, slipped>>

\* POST /control/reload-models
ReloadFillnet ==
    /\ model = "fillnet"
    /\ Load
    /\ UNCHANGED <<watcher, noticed, debounce, unwatched, slipped>>

ModelNext ==
    \/ BeginWrite \/ EndWrite \/ Unlink
    \/ ReloadAlpha \/ WatchAlpha \/ ScheduleAlphaReload \/ DebounceEnds
    \/ EnsureModel \/ ReloadFillnet

ModelSpec == ModelInit /\ [][ModelNext]_modelVars

-----------------------------------------------------------------------------
(* Property *)

\* When alpha-ranker has nothing left to do, it scores with the whole file that is
\* there or with no model, unless the file changed between its read and its watch;
\* and what the status metric says of a model is so.
ModelsFollowFiles ==
    /\ model = "alpha" /\ inUse > 0 /\ ~unwatched /\ ~noticed /\ ~debounce /\ ~slipped =>
        modelFile = File(inUse, "whole")
    /\ status = "ok" <=> inUse > 0

\* What is done on timers and by watching files, overlapping itself, leaves behind what
\* was seen last: error rates, prices, author features, exported rows and models.
JobsAreCurrent ==
    RateOfLastSamples /\ PricesAreCurrent /\ FeaturesAreDated /\ RowsAreExported
    /\ ModelsFollowFiles
=============================================================================
