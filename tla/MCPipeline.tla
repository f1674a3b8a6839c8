----------------------------- MODULE MCPipeline -----------------------------
(* Instances of Pipeline for TLC.  Group ids are interchangeable and never *)
(* used twice: the safety runs use this as a symmetry, and the liveness    *)
(* run numbers the train groups and looks at the runs that open them in    *)
(* order, which are all runs up to a renaming of the ids.                  *)
EXTENDS Pipeline, TLC

GroupSymmetry == Permutations(TrainGroup) \cup Permutations(EvalGroup)

OpensInOrder ==
  \A g, h \in TrainGroup : g < h /\ gstate[h] # "fresh" => gstate[g] # "fresh"
=============================================================================
