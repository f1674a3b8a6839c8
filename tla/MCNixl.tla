------------------------------- MODULE MCNixl -------------------------------
(* An instance of Nixl for TLC.  Once the trainer or the receiver is down  *)
(* nothing ends any more and no engine that is resumed counts: such a      *)
(* state is checked, what follows it is not.                               *)
EXTENDS Nixl

Up == receiver # "failed" /\ at[Master] # "failed"
=============================================================================
