---------------------------- MODULE MCCowSandbox ----------------------------
(* Constants for the runs of the state graph: two branches that may be given *)
(* the same id, over one node, with one edge to add.                         *)
EXTENDS CowSandboxProperties, TLC

CONSTANTS x, i1, i2

TwoIds == {i1, i2}

\* The first id a caller gives is as good as the second.
EitherId == Permutations(TwoIds)

FirstCell == x :> 1
=============================================================================
