---------------------------- MODULE MCTrainSink -----------------------------
(* Instances of TrainSink for TLC: group ids are interchangeable as long as *)
(* the frozen ones stay among themselves.                                   *)
EXTENDS TrainSink, TLC

GroupSymmetry == Permutations(Group \ FrozenGroup)
=============================================================================
