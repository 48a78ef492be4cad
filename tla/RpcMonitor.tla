----------------------------- MODULE RpcMonitor -----------------------------
(***************************************************************************)
(* rpc-monitor: a timer samples the RPC and keeps the last results for an  *)
(* error rate.  A sample starts from the window as it is when the sample   *)
(* begins and stores the longer one when it ends; samples are numbered in  *)
(* the order they begin.                                                   *)
(***************************************************************************)
EXTENDS Naturals, SequencesExt

CONSTANTS
    ErrorWindow,    \* ERROR_WINDOW
    MaxSamples      \* bound: samples

ASSUME MonitorAssumption == {ErrorWindow, MaxSamples} \subseteq Nat \ {0}

VARIABLES
    sampleWindow,   \* the samples in it
    sampling,       \* of each sample that waits for the RPC, the window it began with
    timerOn,        \* the interval, which starts behind the first sample
    ended,          \* history: samples that ended, in order
    overlapping     \* history: a sample began while another was waiting

monitorVars == <<sampleWindow, sampling, timerOn, ended, overlapping>>

Begun == {ended[i] : i \in DOMAIN ended} \union DOMAIN sampling

MonitorInit ==
    /\ sampleWindow = <<>> /\ sampling = <<>> /\ timerOn = FALSE
    /\ ended = <<>> /\ overlapping = FALSE

BeginSample ==
    LET n == Cardinality(Begun) + 1
    IN /\ Begun = {} \/ timerOn
       /\ n <= MaxSamples
       /\ sampling' = [s \in DOMAIN sampling \union {n} |->
              IF s = n THEN sampleWindow ELSE sampling[s]]
       /\ overlapping' = (overlapping \/ DOMAIN sampling # {})
       /\ UNCHANGED <<sampleWindow, timerOn, ended>>

\* Bug: the oldest result is dropped one sample too late.
Recorded_OneTooMany(window, s) ==
    LET next == Append(window, s)
    IN IF Len(next) > ErrorWindow + 1 THEN Tail(next) ELSE next

\* recordErrorSample
Recorded(window, s) ==
    LET next == Append(window, s)
    IN IF Len(next) > ErrorWindow THEN Tail(next) ELSE next

\* sampleRpc returns, with a slot lag or an error; either counts.
EndSample(s) ==
    /\ s \in DOMAIN sampling
    /\ sampleWindow' = Recorded(sampling[s], s)
    /\ sampling' = [r \in DOMAIN sampling \ {s} |-> sampling[r]]
    /\ timerOn' = TRUE /\ ended' = Append(ended, s)
    /\ UNCHANGED overlapping

MonitorNext == BeginSample \/ \E s \in 1..MaxSamples : EndSample(s)

MonitorSpec == MonitorInit /\ [][MonitorNext]_monitorVars

-----------------------------------------------------------------------------
(* Property *)

\* The error rate is that of the last samples: results are lost only when a sample took
\* longer than the interval, never repeated, and the last one to end is always in.
RateOfLastSamples ==
    /\ ended # <<>> => Last(sampleWindow) = Last(ended)
    /\ IsInjective(sampleWindow) /\ Len(sampleWindow) <= ErrorWindow
    /\ overlapping \/ IsSuffix(sampleWindow, ended)
    /\ ~overlapping /\ Len(sampleWindow) < ErrorWindow => sampleWindow = ended
=============================================================================
