---------------------------- MODULE GroupLedger -----------------------------
(***************************************************************************)
(* What the dispatcher promises the sinks (dispatcher.py, module docstring *)
(* and drop_group): a group that is opened owes group_size attempts, every *)
(* message settles some of what its group still owes, and nothing else     *)
(* changes the account, except that train work may be abandoned without a  *)
(* message (the drain at max_steps, or a dispatch task that died).         *)
(***************************************************************************)
EXTENDS Integers

CONSTANTS Group, GroupSize

VARIABLES
  opened,   (* groups opened so far                                          *)
  owed,     (* attempts the group has neither settled nor abandoned          *)
  settled   (* attempts covered by the group's messages                      *)

ledger == <<opened, owed, settled>>

Init ==
  /\ opened = {}
  /\ owed = [g \in Group |-> 0]
  /\ settled = [g \in Group |-> 0]

Open(g) ==
  /\ g \notin opened
  /\ opened' = opened \cup {g}
  /\ owed' = [owed EXCEPT ![g] = GroupSize]
  /\ UNCHANGED settled

Settle(g) ==
  /\ g \in opened
  /\ settled[g] < settled'[g]
  /\ settled'[g] <= settled[g] + owed[g]
  /\ settled' = [settled EXCEPT ![g] = settled'[g]]
  /\ owed' = [owed EXCEPT ![g] = @ - (settled'[g] - settled[g])]
  /\ UNCHANGED opened

Abandon ==
  /\ UNCHANGED <<opened, settled>>
  /\ owed' \in [Group -> 0 .. GroupSize]
  /\ \A g \in Group : owed'[g] <= owed[g]

Next == Abandon \/ \E g \in Group : Open(g) \/ Settle(g)

Spec == Init /\ [][Next]_ledger
=============================================================================
