-------------------------- MODULE MCRewardMatching --------------------------
(***************************************************************************)
(* Up to three plans and an exit.  Two plans and the exit share a mint, so *)
(* rows compete for selections; the clock is long enough for a selection   *)
(* to time out and for its row to come after that.                         *)
(***************************************************************************)
EXTENDS RewardMatching

CONSTANTS o1, o2, o3, x1, mA, mB

MCMintOf == [o \in AnyOrder |-> IF o = o3 THEN mB ELSE mA]
=============================================================================
