------------------------- MODULE MCPositionManager -------------------------
(***************************************************************************)
(* Instances of PositionManager for TLC.  One run follows two scenes, for  *)
(* the bounds of both at once are too many states.                         *)
(***************************************************************************)
EXTENDS PositionManager, TLC

CONSTANTS s1, s2, flatten

\* Overlapping sweeps are interchangeable.
SweepSymmetry == Permutations(Sweep)

\* Which scene a behaviour plays in.
VARIABLE scene

Busy == {c \in Sweep : caller[c].at # "idle"}

\* One sweep at a time, with everything that fills, losses and restarts do to it.
OneSweep == scene = "one sweep" /\ Cardinality(Busy) <= 1
\* Sweeps that overlap, for one position and without faults.
Overlap == scene = "overlap" /\ buys <= 1 /\ faults = 0

InScene == OneSweep \/ Overlap

SceneInit == Init /\ scene \in {"one sweep", "overlap"}
SceneNext == Next /\ UNCHANGED scene /\ InScene'
SceneSpec == SceneInit /\ [][SceneNext]_<<vars, scene>>
=============================================================================
