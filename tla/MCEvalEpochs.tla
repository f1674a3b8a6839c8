---------------------------- MODULE MCEvalEpochs ----------------------------
(* An instance of EvalEpochs for TLC: two examples per environment, in     *)
(* "a" of two attempts, in "b" of one; steps 2, 3 and 4 are broadcast.     *)
EXTENDS EvalEpochs

OrderOfEnvs == <<"a", "b">>
IntervalOfEnv == [e \in {"a", "b"} |-> IF e = "a" THEN 2 ELSE 3]
ExamplesOfEnv == [e \in {"a", "b"} |-> 2]
GroupSizeOfEnv == [e \in {"a", "b"} |-> IF e = "a" THEN 2 ELSE 1]
=============================================================================
