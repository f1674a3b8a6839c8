---------------------------- MODULE MCDispatcher ----------------------------
(* Instances of Dispatcher for TLC: train group ids are interchangeable.   *)
EXTENDS Dispatcher, TLC

TrainSymmetry == Permutations(TrainGroup)
=============================================================================
