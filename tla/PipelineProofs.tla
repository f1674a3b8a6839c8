--------------------------- MODULE PipelineProofs ---------------------------
(***************************************************************************)
(* Proofs about Dispatcher and about Pipeline, which runs it.              *)
(*                                                                         *)
(* First the accounting of the dispatcher, for every set of groups, group  *)
(* size, cap, queue bound, staleness bound and number of concurrent cuts.  *)
(* The inductive invariant adds to the types, per group: a group not yet   *)
(* opened has no attempts; the attempts dispatched for a group are numbered*)
(* below those still to schedule, so an attempt is never dispatched twice; *)
(* and what an open group has emitted, in flight, in the limiter and still *)
(* to schedule never exceeds its size, so it closes only when nothing of   *)
(* it is in flight any more.  Then its other safety properties, and that   *)
(* it implements the group ledger.                                         *)
(*                                                                         *)
(* Then the pipeline: the orchestrator and the trainer stay in lockstep,   *)
(* the pipeline implements the dispatcher with its open environment, and a *)
(* clean exit leaves the trainer's handshake finished and, unless a rate   *)
(* limiter is configured, no eval undone.                                  *)
(***************************************************************************)
EXTENDS Pipeline, FiniteSetTheorems, SequenceTheorems, TLAPS

Of(S, g) == {t \in S : t[1] = g}
Fl(g) == Cardinality(InflightOf(g))
Wt(g) == Cardinality(WaitingOf(g))

(* A group has finitely many attempts, at most one per member.              *)
LEMMA GroupAttempts ==
  ASSUME NEW S \in SUBSET Task, NEW g \in Group
  PROVE  /\ IsFiniteSet(Of(S, g))
         /\ Cardinality(Of(S, g)) \in 0 .. GroupSize
<1> DEFINE f == [t \in Of(S, g) |-> t[2]]
<1>1. GroupSize \in Nat /\ IsFiniteSet(1 .. GroupSize) /\ Cardinality(1 .. GroupSize) = GroupSize
  BY FS_Interval, DispatcherAssumption DEF DispatcherAssumption
<1>2. f \in Injection(Of(S, g), 1 .. GroupSize)
  BY DEF Injection, IsInjective, Of, Task
<1>3. /\ IsFiniteSet(Of(S, g))
      /\ Cardinality(Of(S, g)) <= GroupSize
  BY <1>1, <1>2, FS_Injection
<1> QED BY <1>1, <1>3, FS_CardinalityType

(* Dispatching a new attempt adds one to its group and to the pool.         *)
LEMMA AddAttempt ==
  ASSUME NEW S \in SUBSET Task, NEW t \in Task \ S
  PROVE  /\ IsFiniteSet(S) => /\ IsFiniteSet(S \cup {t})
                              /\ Cardinality(S \cup {t}) = Cardinality(S) + 1
         /\ Cardinality(Of(S \cup {t}, t[1])) = Cardinality(Of(S, t[1])) + 1
         /\ \A h \in Group \ {t[1]} : Of(S \cup {t}, h) = Of(S, h)
<1>1. Of(S \cup {t}, t[1]) = Of(S, t[1]) \cup {t} /\ t \notin Of(S, t[1])
  BY DEF Of
<1>2. t[1] \in Group
  BY DEF Task
<1>3. \A h \in Group \ {t[1]} : Of(S \cup {t}, h) = Of(S, h)
  BY DEF Of
<1>4. IsFiniteSet(Of(S, t[1]))
  BY <1>2, GroupAttempts
<1>5. Cardinality(Of(S, t[1]) \cup {t}) = Cardinality(Of(S, t[1])) + 1
  BY <1>1, <1>4, FS_AddElement
<1>6. IsFiniteSet(S) => IsFiniteSet(S \cup {t}) /\ Cardinality(S \cup {t}) = Cardinality(S) + 1
  BY FS_AddElement
<1> QED BY <1>1, <1>3, <1>5, <1>6

(* Claiming an attempt takes one from its group and from the pool.          *)
LEMMA RemoveAttempt ==
  ASSUME NEW S \in SUBSET Task, NEW t \in S
  PROVE  /\ IsFiniteSet(S) => /\ IsFiniteSet(S \ {t})
                              /\ Cardinality(S \ {t}) = Cardinality(S) - 1
         /\ Cardinality(Of(S \ {t}, t[1])) = Cardinality(Of(S, t[1])) - 1
         /\ Cardinality(Of(S, t[1])) > 0
         /\ \A h \in Group \ {t[1]} : Of(S \ {t}, h) = Of(S, h)
<1>1. Of(S \ {t}, t[1]) = Of(S, t[1]) \ {t} /\ t \in Of(S, t[1])
  BY DEF Of
<1>2. t[1] \in Group
  BY DEF Task
<1>3. \A h \in Group \ {t[1]} : Of(S \ {t}, h) = Of(S, h)
  BY DEF Of
<1>4. IsFiniteSet(Of(S, t[1])) /\ Cardinality(Of(S, t[1])) \in Nat
  BY <1>2, GroupAttempts
<1>5. Cardinality(Of(S, t[1])) > 0
  BY <1>1, <1>4, FS_EmptySet
<1>6. Cardinality(Of(S, t[1]) \ {t}) = Cardinality(Of(S, t[1])) - 1
  BY <1>1, <1>4, FS_RemoveElement
<1>7. IsFiniteSet(S) => IsFiniteSet(S \ {t}) /\ Cardinality(S \ {t}) = Cardinality(S) - 1
  BY FS_RemoveElement
<1> QED BY <1>1, <1>3, <1>5, <1>6, <1>7

(* Claiming a set of attempts takes its size from the pool.                 *)
LEMMA RemoveAttempts ==
  ASSUME NEW S \in SUBSET Task, IsFiniteSet(S), NEW C \in SUBSET S
  PROVE  /\ IsFiniteSet(S \ C) /\ IsFiniteSet(C)
         /\ Cardinality(S \ C) = Cardinality(S) - Cardinality(C)
         /\ Cardinality(C) \in Nat
<1>1. S \cap C = C
  OBVIOUS
<1>2. IsFiniteSet(C)
  BY FS_Subset
<1>3. IsFiniteSet(S \ C) /\ Cardinality(S \ C) = Cardinality(S) - Cardinality(S \cap C)
  BY FS_Difference
<1>4. Cardinality(C) \in Nat
  BY <1>2, FS_CardinalityType
<1> QED BY <1>1, <1>2, <1>3, <1>4

(* Claiming a group's attempts leaves it none and the others theirs.        *)
LEMMA RemoveGroup ==
  ASSUME NEW S \in SUBSET Task, NEW g \in Group
  PROVE  /\ Of(S \ Of(S, g), g) = {}
         /\ \A h \in Group \ {g} : Of(S \ Of(S, g), h) = Of(S, h)
  BY DEF Of
-----------------------------------------------------------------------------
(* The account of one group.                                                *)
Counted(g) ==
  loop = "running" /\ gstate[g] # "fresh" /\ (g \in EvalGroup \/ ~trainDisabled)
GroupInv(g) ==
  /\ gstate[g] = "fresh" =>
       /\ toSchedule[g] = 0 /\ emitted[g] = 0 /\ posted[g] = 0
       /\ Fl(g) = 0 /\ Wt(g) = 0
  /\ Open(g) => emitted[g] + Fl(g) + Wt(g) + toSchedule[g] <= GroupSize
  /\ Counted(g) => SettledOnce(g)
  /\ \A t \in InflightOf(g) \cup WaitingOf(g) : t[2] <= GroupSize - toSchedule[g]

AttemptInv ==
  /\ inflight \cap waiting = {}
  /\ \A g \in Group : GroupInv(g)

IInv == TypeOK /\ PermitAccounting /\ AttemptInv

LEMMA CountTypes ==
  ASSUME TypeOK
  PROVE  \A g \in Group : Fl(g) \in 0 .. GroupSize /\ Wt(g) \in 0 .. GroupSize
  BY GroupAttempts DEF Fl, Wt, InflightOf, WaitingOf, Of, TypeOK

(* Initially no group is open and nothing is in flight.                     *)
LEMMA InitIInv == ASSUME Init PROVE IInv
<1> USE DispatcherAssumption DEF Init, DispatcherAssumption
<1>1. TypeOK
  <2>1. inflight \subseteq Task /\ IsFiniteSet(inflight) /\ waiting = {}
    BY FS_EmptySet
  <2>2. evalQueue \in Seq(Nat)
    <3>1. [i \in 1 .. EvalExamples |-> 0] \in [1 .. EvalExamples -> Nat]
      OBVIOUS
    <3>2. [i \in 1 .. EvalExamples |-> 0] \in Seq(Nat)
      BY <3>1, SeqDef
    <3>3. evalQueue = <<>> \/ evalQueue = [i \in 1 .. EvalExamples |-> 0]
      OBVIOUS
    <3>4. <<>> \in Seq(Nat)
      OBVIOUS
    <3> HIDE DEF Init
    <3> QED BY <3>2, <3>3, <3>4
  <2>3. outq \in Seq(Message) /\ putting \in [Proc -> {<<>>} \cup {<<m>> : m \in Message}]
    OBVIOUS
  <2>4. /\ victims \in [Proc -> SUBSET TrainGroup]
        /\ need \in [Cuts -> Nat \cup {-1}]
        /\ gstate \in [Group -> {"fresh", "open", "closed"}]
        /\ toSchedule \in [Group -> 0 .. GroupSize]
        /\ emitted \in [Group -> 0 .. GroupSize]
        /\ gversion \in [Group -> Nat] /\ posted \in [Group -> Nat]
    OBVIOUS
  <2>5. /\ currentInflight = 0 /\ maxInflight \in Limits /\ admissions = 0
        /\ mode \in {"train", "eval"}
        /\ trainDisabled \in BOOLEAN /\ dispatchAllowed \in BOOLEAN
        /\ updatePending \in BOOLEAN
        /\ loop = "running" /\ watcher = "idle" /\ target = 0 /\ version = 0
        /\ step = 1 /\ windowBase = 0
    OBVIOUS
  <2> HIDE DEF Init
  <2> QED BY <2>1, <2>2, <2>3, <2>4, <2>5 DEF TypeOK
<1>2. PermitAccounting
  BY FS_EmptySet DEF PermitAccounting
<1>3. \A g \in Group : InflightOf(g) = {} /\ WaitingOf(g) = {}
  BY DEF InflightOf, WaitingOf
<1>4. AttemptInv
  BY <1>3, FS_EmptySet DEF AttemptInv, GroupInv, Fl, Wt, Open, Counted
<1> QED BY <1>1, <1>2, <1>4 DEF IInv
-----------------------------------------------------------------------------
(* The types in three parts: the attempts, the queue, and the rest.         *)
AttemptTypes ==
  /\ gstate \in [Group -> {"fresh", "open", "closed"}]
  /\ toSchedule \in [Group -> 0 .. GroupSize]
  /\ emitted \in [Group -> 0 .. GroupSize]
  /\ gversion \in [Group -> Nat]
  /\ inflight \subseteq Task /\ IsFiniteSet(inflight)
  /\ waiting \subseteq Task /\ \A s, t \in waiting : s = t
  /\ currentInflight \in Int /\ admissions \in Nat /\ windowBase \in Int
  /\ posted \in [Group -> Nat]
QueueTypes ==
  /\ outq \in Seq(Message)
  /\ putting \in [Proc -> {<<>>} \cup {<<m>> : m \in Message}]
OtherTypes ==
  /\ maxInflight \in Limits
  /\ mode \in {"train", "eval"}
  /\ trainDisabled \in BOOLEAN /\ dispatchAllowed \in BOOLEAN
  /\ updatePending \in BOOLEAN
  /\ loop \in {"running", "dead"}
  /\ watcher \in {"idle", "barrier", "drop", "receive"}
  /\ victims \in [Proc -> SUBSET TrainGroup]
  /\ need \in [Cuts -> Nat \cup {-1}]
  /\ target \in Nat /\ version \in Nat /\ step \in Nat /\ step > 0
  /\ evalQueue \in Seq(Nat)

LEMMA TypeParts == TypeOK <=> AttemptTypes /\ QueueTypes /\ OtherTypes
  BY DEF TypeOK, AttemptTypes, QueueTypes, OtherTypes

LEMMA TypePartsNext == TypeOK' <=> AttemptTypes' /\ QueueTypes' /\ OtherTypes'
  BY DEF TypeOK, AttemptTypes, QueueTypes, OtherTypes

(* What the account of a group is made of.                                  *)
accountVars == <<gstate, toSchedule, emitted, inflight, waiting, currentInflight,
                 posted, loop, trainDisabled>>

(* A step that leaves the attempts alone keeps their account.               *)
LEMMA AccountFrame ==
  ASSUME PermitAccounting, AttemptInv, UNCHANGED accountVars
  PROVE  PermitAccounting' /\ AttemptInv'
  BY DEF PermitAccounting, AttemptInv, accountVars, GroupInv, Counted, SettledOnce,
     Unsettled, Fl, Wt, InflightOf, WaitingOf, Open

(* A step that leaves one group's attempts alone keeps that group's account,*)
(* also if the dispatch task dies or train work is disabled.                *)
LEMMA OtherGroup ==
  ASSUME NEW h \in Group, GroupInv(h),
         gstate'[h] = gstate[h], toSchedule'[h] = toSchedule[h],
         emitted'[h] = emitted[h], posted'[h] = posted[h],
         InflightOf(h)' = InflightOf(h), WaitingOf(h)' = WaitingOf(h),
         loop' = loop \/ loop' = "dead",
         trainDisabled => trainDisabled'
  PROVE  GroupInv(h)'
  BY DEF GroupInv, Counted, SettledOnce, Unsettled, Fl, Wt, Open

LEMMA OtherUnsettled ==
  ASSUME NEW h \in Group, gstate'[h] = gstate[h], toSchedule'[h] = toSchedule[h],
         InflightOf(h)' = InflightOf(h), WaitingOf(h)' = WaitingOf(h)
  PROVE  Unsettled(h)' = Unsettled(h)
  BY DEF Unsettled, Open

(* Handing a message to out_q, at once or when there is room.               *)
LEMMA PutTypes ==
  ASSUME QueueTypes, posted \in [Group -> Nat], NEW p \in Proc, NEW m \in Message,
         Put(p, m)
  PROVE  /\ QueueTypes'
         /\ posted' = [posted EXCEPT ![m.group] = @ + m.count]
         /\ posted' \in [Group -> Nat]
<1>1. m.group \in Group /\ m.count \in Nat
  BY DispatcherAssumption DEF Message, DispatcherAssumption
<1>2. posted' = [posted EXCEPT ![m.group] = @ + m.count] /\ posted' \in [Group -> Nat]
  BY <1>1 DEF Put
<1>3. \/ outq' = Append(outq, m) /\ UNCHANGED putting
      \/ putting' = [putting EXCEPT ![p] = <<m>>] /\ UNCHANGED outq
  BY DEF Put
<1>4. Append(outq, m) \in Seq(Message)
  BY AppendProperties DEF QueueTypes
<1> QED BY <1>2, <1>3, <1>4 DEF QueueTypes
-----------------------------------------------------------------------------
(* schedule_group_episode, for a group that continues or opens: the attempt *)
(* is new, and moves from "to schedule" to the limiter or the pool.         *)
LEMMA ScheduleKeeps ==
  ASSUME IInv, NEW g \in Group, NEW left \in 1 .. GroupSize, ScheduleEpisode(g, left),
         waiting = {}, UNCHANGED <<posted, loop>>,
         gversion' \in [Group -> Nat],
         \/ Open(g) /\ left = toSchedule[g] /\ UNCHANGED gstate
         \/ /\ gstate[g] = "fresh" /\ left = GroupSize
            /\ gstate' = [gstate EXCEPT ![g] = "open"]
  PROVE  /\ AttemptTypes' /\ PermitAccounting' /\ AttemptInv'
         /\ Unsettled(g)' = Fl(g) + left /\ Wt(g) = 0
         /\ \A h \in Group \ {g} : Unsettled(h)' = Unsettled(h)
<1> DEFINE t == <<g, GroupSize - left + 1>>
<1>0. TypeOK /\ PermitAccounting /\ AttemptInv /\ AttemptTypes /\ GroupInv(g)
  BY TypeParts DEF IInv, AttemptInv
<1>1. GroupSize \in Nat \ {0} /\ t \in Task
  BY DispatcherAssumption DEF DispatcherAssumption, Task
<1>2. Fl(g) \in Nat /\ InflightOf(g) = Of(inflight, g) /\ WaitingOf(g) = {}
  BY <1>0, CountTypes DEF InflightOf, Of, WaitingOf
<1>3. Wt(g) = 0
  BY <1>2, FS_EmptySet DEF Wt
<1>4. t \notin inflight
  <2>1. CASE Open(g) /\ left = toSchedule[g]
    <3>1. \A u \in InflightOf(g) : u[2] <= GroupSize - left
      BY <1>0, <2>1 DEF GroupInv
    <3> QED BY <3>1, <1>1 DEF InflightOf
  <2>2. CASE gstate[g] = "fresh"
    <3>1. IsFiniteSet(InflightOf(g)) /\ Fl(g) = 0
      BY <1>0, <1>2, <2>2, GroupAttempts DEF GroupInv, AttemptTypes
    <3>2. InflightOf(g) = {}
      BY <3>1, FS_EmptySet DEF Fl
    <3> QED BY <3>2 DEF InflightOf
  <2> QED BY <2>1, <2>2
<1>5. /\ toSchedule' = [toSchedule EXCEPT ![g] = left - 1]
      /\ UNCHANGED <<emitted, trainDisabled, windowBase>>
      /\ \/ Admit(t) /\ UNCHANGED waiting
         \/ waiting' = {t} /\ UNCHANGED permitVars
  BY DEF ScheduleEpisode
<1>6. /\ IsFiniteSet(inflight \cup {t})
      /\ Cardinality(inflight \cup {t}) = Cardinality(inflight) + 1
      /\ Cardinality(Of(inflight \cup {t}, g)) = Fl(g) + 1
      /\ \A h \in Group \ {g} : Of(inflight \cup {t}, h) = Of(inflight, h)
  <2>1. inflight \in SUBSET Task /\ IsFiniteSet(inflight) /\ t \in Task \ inflight /\ t[1] = g
    BY <1>0, <1>1, <1>4 DEF AttemptTypes
  <2> HIDE DEF t
  <2> QED BY <1>2, <2>1, AddAttempt DEF Fl
<1>7. /\ AttemptTypes' /\ PermitAccounting' /\ inflight' \cap waiting' = {}
      /\ (InflightOf(g) \cup WaitingOf(g))' = InflightOf(g) \cup WaitingOf(g) \cup {t}
      /\ Fl(g)' + Wt(g)' = Fl(g) + 1
      /\ Fl(g)' \in Nat /\ Wt(g)' \in Nat
      /\ \A h \in Group \ {g} : InflightOf(h)' = InflightOf(h) /\ WaitingOf(h)' = WaitingOf(h)
  <2>1. CASE Admit(t) /\ UNCHANGED waiting
    <3>1. /\ inflight' = inflight \cup {t} /\ waiting' = {}
          /\ currentInflight' = currentInflight + 1 /\ admissions' = admissions + 1
      BY <2>1 DEF Admit
    <3>2. AttemptTypes'
      BY <1>0, <1>1, <1>5, <1>6, <3>1 DEF AttemptTypes
    <3>3. PermitAccounting'
      BY <1>0, <1>6, <3>1 DEF PermitAccounting, AttemptTypes
    <3>4. InflightOf(g)' = InflightOf(g) \cup {t} /\ WaitingOf(g)' = {}
      BY <3>1 DEF InflightOf, WaitingOf
    <3>5. InflightOf(g)' = Of(inflight \cup {t}, g)
      BY <3>1 DEF InflightOf, Of
    <3>6. Fl(g)' = Fl(g) + 1 /\ Wt(g)' = 0
      BY <1>6, <3>4, <3>5, FS_EmptySet DEF Fl, Wt
    <3>7. \A h \in Group \ {g} : InflightOf(h)' = InflightOf(h) /\ WaitingOf(h)' = WaitingOf(h)
      BY <1>6, <3>1 DEF InflightOf, WaitingOf, Of
    <3> QED BY <1>2, <3>1, <3>2, <3>3, <3>4, <3>6, <3>7
  <2>2. CASE waiting' = {t} /\ UNCHANGED permitVars
    <3>1. UNCHANGED <<inflight, currentInflight, admissions>>
      BY <2>2 DEF permitVars
    <3>2. AttemptTypes'
      BY <1>0, <1>1, <1>5, <2>2, <3>1 DEF AttemptTypes
    <3>3. PermitAccounting'
      BY <1>0, <3>1 DEF PermitAccounting
    <3>4. InflightOf(g)' = InflightOf(g) /\ WaitingOf(g)' = {t}
      BY <2>2, <3>1 DEF InflightOf, WaitingOf
    <3>5. Fl(g)' = Fl(g) /\ Wt(g)' = 1
      BY <3>4, FS_Singleton DEF Fl, Wt
    <3>6. \A h \in Group \ {g} : InflightOf(h)' = InflightOf(h) /\ WaitingOf(h)' = WaitingOf(h)
      BY <2>2, <3>1 DEF InflightOf, WaitingOf
    <3>7. inflight' \cap waiting' = {}
      BY <1>4, <2>2, <3>1
    <3> QED BY <1>2, <3>2, <3>3, <3>4, <3>5, <3>6, <3>7
  <2> QED BY <1>5, <2>1, <2>2
<1>8. GroupInv(g)'
  <2>1. /\ toSchedule'[g] = left - 1 /\ gstate'[g] = "open"
        /\ emitted'[g] = emitted[g] /\ posted'[g] = posted[g]
    BY <1>0, <1>5 DEF AttemptTypes, Open
  <2>2. emitted[g] + Fl(g) + left <= GroupSize
    <3>1. CASE gstate[g] = "fresh"
      BY <1>0, <1>1, <3>1 DEF GroupInv, Open
    <3>2. CASE Open(g) /\ left = toSchedule[g]
      <4>1. emitted[g] + Fl(g) + Wt(g) + left <= GroupSize /\ emitted[g] \in Nat
        BY <1>0, <3>2 DEF GroupInv, AttemptTypes
      <4> QED BY <1>1, <1>2, <1>3, <4>1
    <3> QED BY <3>1, <3>2
  <2>3. Counted(g)' => posted[g] + Fl(g) + left = GroupSize
    <3>1. CASE gstate[g] = "fresh"
      BY <1>0, <1>1, <3>1 DEF GroupInv, Open
    <3>2. CASE Open(g) /\ left = toSchedule[g]
      <4>1. Unsettled(g) = Fl(g) + Wt(g) + left
        BY <3>2 DEF Unsettled, Fl, Wt
      <4>2. Counted(g)' => Counted(g)
        BY <1>5, <3>2 DEF Counted, Open
      <4>3. Counted(g) => posted[g] + Unsettled(g) = GroupSize
        BY <1>0 DEF GroupInv, SettledOnce
      <4>4. posted[g] \in Nat
        BY <1>0 DEF AttemptTypes
      <4> QED BY <1>2, <1>3, <4>1, <4>2, <4>3, <4>4
    <3> QED BY <3>1, <3>2
  <2>4. \A u \in (InflightOf(g) \cup WaitingOf(g))' : u[2] <= GroupSize - (left - 1)
    <3>1. \A u \in InflightOf(g) : u[2] <= GroupSize - left \/ gstate[g] = "fresh"
      BY <1>0 DEF GroupInv
    <3>2. gstate[g] = "fresh" => InflightOf(g) = {}
      BY <1>0, <1>2, GroupAttempts, FS_EmptySet DEF GroupInv, AttemptTypes, Fl
    <3>3. \A u \in InflightOf(g) : u[2] \in Nat
      BY <1>0 DEF InflightOf, AttemptTypes, Task
    <3> QED BY <1>1, <1>2, <1>7, <3>1, <3>2, <3>3
  <2>5. emitted[g] \in Nat /\ posted[g] \in Nat
    BY <1>0 DEF AttemptTypes
  <2>6. SettledOnce(g)' <=> posted[g] + (Fl(g)' + Wt(g)' + (left - 1)) = GroupSize
    <3>1. SettledOnce(g)' <=> posted'[g] + Unsettled(g)' = GroupSize
      BY DEF SettledOnce
    <3>2. Unsettled(g)' = Fl(g)' + Wt(g)' + (left - 1)
      BY <2>1 DEF Unsettled, Fl, Wt, Open
    <3> QED BY <2>1, <3>1, <3>2
  <2>7. Counted(g)' => SettledOnce(g)'
    BY <1>1, <1>2, <1>7, <2>3, <2>5, <2>6
  <2>8. emitted'[g] + Fl(g)' + Wt(g)' + toSchedule'[g] <= GroupSize
    BY <1>1, <1>2, <1>7, <2>1, <2>2, <2>5
  <2> QED
    BY <2>1, <2>4, <2>7, <2>8 DEF GroupInv
<1>9. \A h \in Group \ {g} : GroupInv(h)'
  BY <1>0, <1>5, <1>7, OtherGroup DEF AttemptInv, AttemptTypes
<1>10. Unsettled(g)' = Fl(g) + left
  <2>1. Unsettled(g)' = Fl(g)' + Wt(g)' + (left - 1)
    BY <1>0, <1>5 DEF Unsettled, Fl, Wt, Open, AttemptTypes
  <2> QED BY <1>2, <1>7, <2>1
<1>11. \A h \in Group \ {g} : Unsettled(h)' = Unsettled(h)
  BY <1>0, <1>5, <1>7, OtherUnsettled DEF AttemptTypes
<1> QED BY <1>3, <1>7, <1>8, <1>9, <1>10, <1>11 DEF AttemptInv

(* The limiter's attempt moves into the pool, whatever became of its group. *)
LEMMA LimiterGrantKeeps ==
  ASSUME IInv, LimiterGrant
  PROVE  /\ AttemptTypes' /\ PermitAccounting' /\ AttemptInv'
         /\ \A h \in Group : Unsettled(h)' = Unsettled(h)
<1>0. TypeOK /\ PermitAccounting /\ AttemptInv /\ AttemptTypes
  BY TypeParts DEF IInv
<1>1. PICK t \in waiting : Admit(t)
  BY DEF LimiterGrant
<1>2. /\ waiting' = {} /\ inflight' = inflight \cup {t}
      /\ currentInflight' = currentInflight + 1 /\ admissions' = admissions + 1
      /\ UNCHANGED <<gstate, toSchedule, emitted, gversion, posted, windowBase, loop,
                     trainDisabled>>
  BY <1>1 DEF LimiterGrant, Admit, groupVars, queueVars, flagVars
<1>3. t \in Task \ inflight /\ waiting = {t} /\ t[1] \in Group
  BY <1>0 DEF AttemptTypes, AttemptInv, Task
<1>4. /\ IsFiniteSet(inflight \cup {t})
      /\ Cardinality(inflight \cup {t}) = Cardinality(inflight) + 1
      /\ Cardinality(Of(inflight \cup {t}, t[1])) = Cardinality(Of(inflight, t[1])) + 1
      /\ \A h \in Group \ {t[1]} : Of(inflight \cup {t}, h) = Of(inflight, h)
  BY <1>0, <1>3, AddAttempt DEF AttemptTypes
<1>5. AttemptTypes'
  BY <1>0, <1>2, <1>3, <1>4 DEF AttemptTypes
<1>6. PermitAccounting'
  BY <1>0, <1>2, <1>4 DEF PermitAccounting
<1> DEFINE g == t[1]
<1>7. Fl(g)' = Fl(g) + 1 /\ Wt(g)' = 0 /\ Wt(g) = 1 /\ Fl(g) \in Nat
  <2>1. WaitingOf(g) = {t} /\ WaitingOf(g)' = {}
    BY <1>2, <1>3 DEF WaitingOf
  <2>2. Wt(g)' = 0 /\ Wt(g) = 1
    BY <2>1, FS_EmptySet, FS_Singleton DEF Wt
  <2>3. Fl(g)' = Fl(g) + 1
    BY <1>2, <1>4 DEF Fl, InflightOf, Of
  <2> QED BY <1>0, <1>3, <2>2, <2>3, CountTypes
<1>8. (InflightOf(g) \cup WaitingOf(g))' = InflightOf(g) \cup WaitingOf(g)
  BY <1>2, <1>3 DEF InflightOf, WaitingOf
<1>11. Unsettled(g)' = Unsettled(g)
  <2>1. Fl(g)' + Wt(g)' = Fl(g) + Wt(g)
    BY <1>7
  <2> QED BY <1>2, <2>1 DEF Unsettled, Open, Fl, Wt
<1>9. GroupInv(g)'
  <2>0. GroupInv(g)
    BY <1>0, <1>3 DEF AttemptInv
  <2>1. emitted[g] \in Nat /\ toSchedule[g] \in Nat /\ posted[g] \in Nat
    BY <1>0, <1>3, DispatcherAssumption DEF AttemptTypes, DispatcherAssumption
  <2>2. gstate[g] # "fresh"
    BY <1>7, <2>0 DEF GroupInv
  <2>3. Open(g)' => emitted'[g] + Fl(g)' + Wt(g)' + toSchedule'[g] <= GroupSize
    BY <1>2, <1>7, <2>0, <2>1, DispatcherAssumption DEF GroupInv, Open, DispatcherAssumption
  <2>5. Counted(g)' => SettledOnce(g)'
    BY <1>2, <1>11, <2>0 DEF GroupInv, Counted, SettledOnce
  <2> QED BY <1>2, <1>8, <2>0, <2>2, <2>3, <2>5 DEF GroupInv
<1>10. \A h \in Group \ {g} : GroupInv(h)' /\ Unsettled(h)' = Unsettled(h)
  <2>1. \A h \in Group \ {g} : InflightOf(h)' = InflightOf(h) /\ WaitingOf(h)' = WaitingOf(h)
    BY <1>2, <1>3, <1>4 DEF InflightOf, WaitingOf, Of
  <2> QED BY <1>0, <1>2, <2>1, OtherGroup, OtherUnsettled DEF AttemptInv
<1> QED BY <1>2, <1>3, <1>5, <1>6, <1>9, <1>10, <1>11 DEF AttemptInv

(* What claiming one attempt does to the pool and to its group.             *)
LEMMA ClaimEffect ==
  ASSUME IInv, NEW t \in inflight, Claim(t)
  PROVE  /\ inflight' = inflight \ {t} /\ inflight' \subseteq Task /\ IsFiniteSet(inflight')
         /\ PermitAccounting' /\ currentInflight' \in Int /\ admissions' \in Nat
         /\ t[1] \in Group /\ Fl(t[1])' = Fl(t[1]) - 1 /\ Fl(t[1]) \in Nat \ {0}
         /\ \A h \in Group \ {t[1]} : InflightOf(h)' = InflightOf(h)
<1>0. TypeOK /\ PermitAccounting /\ AttemptTypes
  BY TypeParts DEF IInv
<1>1. /\ inflight' = inflight \ {t} /\ currentInflight' = Released({t})
      /\ admissions' = RefundAdmission
  BY DEF Claim
<1>2. t[1] \in Group
  BY <1>0 DEF AttemptTypes, Task
<1>3. /\ IsFiniteSet(inflight \ {t})
      /\ Cardinality(inflight \ {t}) = Cardinality(inflight) - 1
      /\ Cardinality(Of(inflight \ {t}, t[1])) = Cardinality(Of(inflight, t[1])) - 1
      /\ Cardinality(Of(inflight, t[1])) > 0
      /\ \A h \in Group \ {t[1]} : Of(inflight \ {t}, h) = Of(inflight, h)
  BY <1>0, RemoveAttempt DEF AttemptTypes
<1>4. currentInflight' = currentInflight - 1
  BY <1>1, FS_Singleton DEF Released
<1>5. admissions' \in Nat
  BY <1>0, <1>1 DEF RefundAdmission, Larger, AttemptTypes
<1>6. Fl(t[1]) \in Nat
  BY <1>0, <1>2, CountTypes
<1>7. Fl(t[1])' = Fl(t[1]) - 1 /\ Fl(t[1]) > 0
  BY <1>1, <1>3 DEF Fl, InflightOf, Of
<1>8. \A h \in Group \ {t[1]} : InflightOf(h)' = InflightOf(h)
  BY <1>1, <1>3 DEF InflightOf, Of
<1>9. PermitAccounting'
  BY <1>0, <1>1, <1>3, <1>4 DEF PermitAccounting
<1> QED BY <1>0, <1>1, <1>2, <1>3, <1>4, <1>5, <1>6, <1>7, <1>8, <1>9 DEF AttemptTypes

(* handle_completed_request settles the attempt it claimed; a group that    *)
(* closes has nothing left to schedule.                                     *)
LEMMA CompletedKeeps ==
  ASSUME IInv, NEW t \in Task, HandleCompleted(t)
  PROVE  /\ AttemptTypes' /\ QueueTypes' /\ PermitAccounting' /\ AttemptInv'
         /\ posted' = [posted EXCEPT ![t[1]] = @ + 1]
         /\ Unsettled(t[1])' = Unsettled(t[1]) - 1 /\ Unsettled(t[1]) \in Nat \ {0}
         /\ \A h \in Group \ {t[1]} : Unsettled(h)' = Unsettled(h)
         /\ Open(t[1]) /\ ~Open(t[1])' => Fl(t[1])' = 0
<1>0. TypeOK /\ PermitAccounting /\ AttemptInv /\ AttemptTypes /\ QueueTypes
  BY TypeParts DEF IInv
<1> DEFINE g == t[1]
           m == [type |-> "result", group |-> g, count |-> 1]
<1>1. /\ t \in inflight /\ Claim(t) /\ CompleteMember(g) /\ Put("loop", m)
      /\ waiting = {}
      /\ UNCHANGED <<toSchedule, gversion, waiting, windowBase, loop, trainDisabled>>
  BY DEF HandleCompleted, LoopReady, LockHeld, flagVars
<1>2. /\ inflight' = inflight \ {t} /\ inflight' \subseteq Task /\ IsFiniteSet(inflight')
      /\ PermitAccounting' /\ currentInflight' \in Int /\ admissions' \in Nat
      /\ g \in Group /\ Fl(g)' = Fl(g) - 1 /\ Fl(g) \in Nat \ {0}
      /\ \A h \in Group \ {g} : InflightOf(h)' = InflightOf(h)
  BY <1>1, ClaimEffect
<1>3. QueueTypes' /\ posted' = [posted EXCEPT ![g] = @ + 1] /\ posted' \in [Group -> Nat]
  <2>1. m \in Message
    BY <1>2, DispatcherAssumption DEF Message, DispatcherAssumption
  <2> QED BY <1>0, <1>1, <2>1, PutTypes DEF Proc, AttemptTypes
<1>4. GroupSize \in Nat /\ GroupInv(g) /\ gstate[g] # "fresh"
  BY <1>0, <1>2, DispatcherAssumption DEF DispatcherAssumption, AttemptInv, GroupInv
<1>5. /\ emitted[g] \in Nat /\ toSchedule[g] \in Nat /\ posted[g] \in Nat
      /\ gstate[g] \in {"open", "closed"}
  BY <1>0, <1>2, <1>4 DEF AttemptTypes
<1>6. WaitingOf(g) = {} /\ WaitingOf(g)' = {} /\ Wt(g) = 0 /\ Wt(g)' = 0
  BY <1>1, FS_EmptySet DEF WaitingOf, Wt
<1>7. Open(g) => emitted[g] + Fl(g) + toSchedule[g] <= GroupSize
  BY <1>2, <1>4, <1>5, <1>6 DEF GroupInv
<1>8. /\ emitted' \in [Group -> 0 .. GroupSize]
      /\ gstate' \in [Group -> {"fresh", "open", "closed"}]
      /\ \A h \in Group \ {g} : gstate'[h] = gstate[h] /\ emitted'[h] = emitted[h]
      /\ Open(g) => emitted'[g] = emitted[g] + 1
      /\ Open(g) /\ gstate'[g] # "open" => gstate'[g] = "closed" /\ toSchedule[g] = 0
      /\ ~Open(g) => gstate'[g] = gstate[g]
  <2>1. CASE Open(g)
    <3>1. /\ emitted' = [emitted EXCEPT ![g] = @ + 1]
          /\ gstate' = [gstate EXCEPT ![g] = IF GroupDone(emitted[g] + 1) THEN "closed" ELSE @]
      BY <1>1, <2>1 DEF CompleteMember
    <3>2. emitted[g] + 1 <= GroupSize
      BY <1>2, <1>4, <1>5, <1>7, <2>1
    <3>3. GroupDone(emitted[g] + 1) => toSchedule[g] = 0
      BY <1>2, <1>4, <1>5, <1>7, <2>1 DEF GroupDone
    <3> QED BY <1>0, <1>2, <1>4, <1>5, <2>1, <3>1, <3>2, <3>3 DEF AttemptTypes, Open
  <2>2. CASE ~Open(g)
    BY <1>0, <1>1, <2>2 DEF CompleteMember, AttemptTypes
  <2> QED BY <2>1, <2>2
<1>9. AttemptTypes'
  BY <1>0, <1>1, <1>2, <1>3, <1>8 DEF AttemptTypes
<1>12. Unsettled(g)' = Unsettled(g) - 1 /\ Unsettled(g) \in Nat \ {0}
  <2> DEFINE left == IF Open(g) THEN toSchedule[g] ELSE 0
  <2>1. Unsettled(g) = Fl(g) + Wt(g) + left
    BY DEF Unsettled, Fl, Wt
  <2>2. Unsettled(g)' = Fl(g)' + Wt(g)' + left
    BY <1>1, <1>5, <1>8 DEF Unsettled, Fl, Wt, Open
  <2>3. left \in Nat
    BY <1>5
  <2> HIDE DEF left
  <2> QED BY <1>2, <1>6, <2>1, <2>2, <2>3
<1>10. GroupInv(g)'
  <2>1. gstate'[g] # "fresh"
    BY <1>4, <1>5, <1>8 DEF Open
  <2>2. Open(g)' => emitted'[g] + Fl(g)' + Wt(g)' + toSchedule'[g] <= GroupSize
    <3>1. Open(g)' => Open(g)
      BY <1>5, <1>8 DEF Open
    <3> QED BY <1>1, <1>2, <1>4, <1>5, <1>6, <1>7, <1>8, <3>1
  <2>3. posted'[g] + Unsettled(g)' = posted[g] + Unsettled(g)
    BY <1>0, <1>2, <1>3, <1>5, <1>12 DEF AttemptTypes
  <2>4. Counted(g)' => SettledOnce(g)'
    BY <1>1, <1>4, <2>3 DEF Counted, SettledOnce, GroupInv
  <2>5. \A u \in (InflightOf(g) \cup WaitingOf(g))' : u[2] <= GroupSize - toSchedule'[g]
    BY <1>1, <1>2, <1>4, <1>6 DEF GroupInv, InflightOf
  <2> QED BY <2>1, <2>2, <2>4, <2>5 DEF GroupInv
<1>11. \A h \in Group \ {g} : GroupInv(h)' /\ Unsettled(h)' = Unsettled(h)
  <2>1. \A h \in Group \ {g} : WaitingOf(h)' = WaitingOf(h) /\ posted'[h] = posted[h]
    BY <1>0, <1>1, <1>3 DEF WaitingOf, AttemptTypes
  <2> QED BY <1>0, <1>1, <1>2, <1>8, <2>1, OtherGroup, OtherUnsettled DEF AttemptInv
<1>13. Open(g) /\ ~Open(g)' => Fl(g)' = 0
  <2>1. Open(g) /\ ~Open(g)' => emitted[g] + 1 >= GroupSize
    BY <1>0, <1>1, <1>2 DEF CompleteMember, GroupDone, Open, AttemptTypes
  <2> QED BY <1>2, <1>4, <1>5, <1>7, <2>1
<1> QED BY <1>1, <1>2, <1>3, <1>9, <1>10, <1>11, <1>12, <1>13 DEF AttemptInv

(* A dispatch task that dies on a mismatched episode leaves an attempt      *)
(* unsettled, which the account no longer promises then.                    *)
LEMMA MismatchKeeps ==
  ASSUME IInv, NEW t \in Task, HandleMismatch(t)
  PROVE  /\ AttemptTypes' /\ PermitAccounting' /\ AttemptInv'
         /\ \A h \in Group : Unsettled(h)' <= Unsettled(h)
<1>0. TypeOK /\ PermitAccounting /\ AttemptInv /\ AttemptTypes
  BY TypeParts DEF IInv
<1> DEFINE g == t[1]
<1>1. /\ t \in inflight /\ Claim(t) /\ waiting = {} /\ loop' = "dead"
      /\ UNCHANGED <<gstate, toSchedule, emitted, gversion, posted, waiting, windowBase,
                     trainDisabled>>
  BY DEF HandleMismatch, LoopReady, LockHeld, flagVars, groupVars, queueVars
<1>2. /\ inflight' = inflight \ {t} /\ inflight' \subseteq Task /\ IsFiniteSet(inflight')
      /\ PermitAccounting' /\ currentInflight' \in Int /\ admissions' \in Nat
      /\ g \in Group /\ Fl(g)' = Fl(g) - 1 /\ Fl(g) \in Nat \ {0}
      /\ \A h \in Group \ {g} : InflightOf(h)' = InflightOf(h)
  BY <1>1, ClaimEffect
<1>3. AttemptTypes'
  BY <1>0, <1>1, <1>2 DEF AttemptTypes
<1>4. GroupInv(g)'
  <2>1. GroupInv(g) /\ gstate[g] # "fresh"
    BY <1>0, <1>2 DEF AttemptInv, GroupInv
  <2>2. emitted[g] \in Nat /\ toSchedule[g] \in Nat /\ GroupSize \in Nat
    BY <1>0, <1>2, DispatcherAssumption DEF AttemptTypes, DispatcherAssumption
  <2>3. Wt(g) = 0 /\ Wt(g)' = 0
    BY <1>1, FS_EmptySet DEF WaitingOf, Wt
  <2>4. Open(g) => emitted[g] + Fl(g) + Wt(g) + toSchedule[g] <= GroupSize
    BY <2>1 DEF GroupInv
  <2>5. Open(g)' => emitted'[g] + Fl(g)' + Wt(g)' + toSchedule'[g] <= GroupSize
    BY <1>1, <1>2, <2>2, <2>3, <2>4 DEF Open
  <2>6. \A u \in (InflightOf(g) \cup WaitingOf(g))' : u[2] <= GroupSize - toSchedule'[g]
    BY <1>1, <1>2, <2>1 DEF GroupInv, InflightOf, WaitingOf
  <2>7. ~Counted(g)' /\ gstate'[g] # "fresh"
    BY <1>1, <2>1 DEF Counted
  <2> QED BY <2>5, <2>6, <2>7 DEF GroupInv
<1>5. \A h \in Group \ {g} : GroupInv(h)' /\ Unsettled(h)' = Unsettled(h)
  <2>1. \A h \in Group \ {g} : WaitingOf(h)' = WaitingOf(h)
    BY <1>1 DEF WaitingOf
  <2> QED BY <1>0, <1>1, <1>2, <2>1, OtherGroup, OtherUnsettled DEF AttemptInv
<1>6. Unsettled(g)' <= Unsettled(g)
  <2> DEFINE left == IF Open(g) THEN toSchedule[g] ELSE 0
  <2>1. Unsettled(g) = Fl(g) + Wt(g) + left /\ Unsettled(g)' = Fl(g)' + Wt(g)' + left
    BY <1>1 DEF Unsettled, Fl, Wt, Open
  <2>2. left \in Nat /\ Wt(g)' = Wt(g) /\ Wt(g) \in Nat
    BY <1>0, <1>1, <1>2, CountTypes DEF AttemptTypes, Wt, WaitingOf
  <2> HIDE DEF left
  <2> QED BY <1>2, <2>1, <2>2
<1>7. \A h \in Group : Unsettled(h) \in Int
  BY <1>0, CountTypes DEF Unsettled, Fl, Wt, AttemptTypes
<1> QED BY <1>0, <1>1, <1>2, <1>3, <1>4, <1>5, <1>6, <1>7 DEF AttemptInv

(* drop_group settles all the group still owes, once.                       *)
LEMMA DropKeeps ==
  ASSUME IInv, NEW p \in Proc, NEW g \in TrainGroup, NEW reason \in {"stale", "overload"},
         DropGroup(p, g, reason), UNCHANGED <<waiting, loop, trainDisabled>>
  PROVE  /\ AttemptTypes' /\ QueueTypes' /\ PermitAccounting' /\ AttemptInv'
         /\ Owed(g) \in 0 .. GroupSize /\ Owed(g) <= Unsettled(g)
         /\ posted' = [posted EXCEPT ![g] = @ + Owed(g)]
         /\ Unsettled(g)' = Unsettled(g) - Owed(g)
         /\ \A h \in Group \ {g} : Unsettled(h)' = Unsettled(h)
         /\ InflightOf(g)' = {}
<1>0. TypeOK /\ PermitAccounting /\ AttemptInv /\ AttemptTypes /\ QueueTypes /\ g \in Group
  BY TypeParts DEF IInv, Group
<1> DEFINE claimed == InflightOf(g)
           m == [type |-> reason, group |-> g, count |-> Owed(g)]
           left == IF Open(g) THEN toSchedule[g] ELSE 0
<1>1. /\ gstate' = [gstate EXCEPT ![g] = IF Open(g) THEN "closed" ELSE @]
      /\ inflight' = inflight \ claimed
      /\ currentInflight' = currentInflight - Cardinality(claimed)
      /\ IF Owed(g) > 0 THEN Put(p, m) ELSE UNCHANGED queueVars
      /\ admissions' = admissions
      /\ windowBase' = windowBase - Cardinality(claimed)
      /\ UNCHANGED <<toSchedule, emitted, gversion>>
  BY DEF DropGroup, Released, KeepAdmissions
<1>2. claimed \in SUBSET inflight /\ claimed = Of(inflight, g)
  BY DEF InflightOf, Of
<1>3. /\ IsFiniteSet(inflight') /\ inflight' \subseteq Task
      /\ Cardinality(inflight') = Cardinality(inflight) - Cardinality(claimed)
      /\ Cardinality(claimed) \in Nat
  BY <1>0, <1>1, <1>2, RemoveAttempts DEF AttemptTypes
<1>4. /\ InflightOf(g)' = {}
      /\ \A h \in Group \ {g} : InflightOf(h)' = InflightOf(h)
  BY <1>0, <1>1, <1>2, RemoveGroup DEF InflightOf, Of, AttemptTypes
<1>5. GroupInv(g) /\ GroupSize \in Nat
  BY <1>0, DispatcherAssumption DEF AttemptInv, DispatcherAssumption
<1>6. /\ Fl(g) \in 0 .. GroupSize /\ Wt(g) \in 0 .. GroupSize /\ emitted[g] \in Nat
      /\ toSchedule[g] \in Nat /\ posted[g] \in Nat
  BY <1>0, <1>5, CountTypes DEF AttemptTypes
<1>7. Owed(g) = Fl(g) + left /\ Owed(g) \in 0 .. GroupSize /\ left \in Nat
  <2>1. Owed(g) = Fl(g) + left
    BY DEF Owed, Fl
  <2>2. Open(g) => emitted[g] + Fl(g) + Wt(g) + toSchedule[g] <= GroupSize
    BY <1>5 DEF GroupInv
  <2> QED BY <1>5, <1>6, <2>1, <2>2
<1>8. /\ QueueTypes' /\ posted' \in [Group -> Nat]
      /\ posted' = [posted EXCEPT ![g] = @ + Owed(g)]
  <2>1. CASE Owed(g) > 0
    <3>1. m \in Message
      BY <1>0, <1>5, <1>7, <2>1 DEF Message
    <3>2. posted \in [Group -> Nat] /\ Put(p, m)
      BY <1>0, <1>1, <2>1 DEF AttemptTypes
    <3> QED BY <1>0, <3>1, <3>2, PutTypes
  <2>2. CASE Owed(g) = 0
    BY <1>0, <1>1, <1>6, <2>2 DEF QueueTypes, queueVars, AttemptTypes
  <2> QED BY <1>7, <2>1, <2>2
<1>9. AttemptTypes'
  <2>1. gstate' \in [Group -> {"fresh", "open", "closed"}]
    BY <1>0, <1>1 DEF AttemptTypes
  <2> QED BY <1>0, <1>1, <1>3, <1>8, <2>1 DEF AttemptTypes
<1>10. PermitAccounting'
  BY <1>0, <1>1, <1>3 DEF PermitAccounting
<1>11. WaitingOf(g)' = WaitingOf(g) /\ Wt(g)' = Wt(g) /\ Fl(g)' = 0
  BY <1>4, FS_EmptySet DEF WaitingOf, Wt, Fl
<1>15. /\ Unsettled(g)' = Unsettled(g) - Owed(g) /\ Owed(g) <= Unsettled(g)
       /\ Unsettled(g) \in Nat
  <2>1. ~Open(g)'
    BY <1>0, <1>1 DEF Open, AttemptTypes
  <2>2. Unsettled(g) = Fl(g) + Wt(g) + left
    BY DEF Unsettled, Fl, Wt
  <2>3. Unsettled(g)' = Fl(g)' + Wt(g)' + 0
    BY <2>1 DEF Unsettled, Fl, Wt
  <2> HIDE DEF left
  <2> QED BY <1>6, <1>7, <1>11, <2>2, <2>3
<1>12. GroupInv(g)'
  <2>1. ~Open(g)' /\ (gstate'[g] = "fresh" <=> gstate[g] = "fresh")
    BY <1>0, <1>1 DEF Open, AttemptTypes
  <2>2. gstate[g] = "fresh" => Owed(g) = 0
    BY <1>5, <1>7 DEF GroupInv, Open
  <2>3. posted'[g] + Unsettled(g)' = posted[g] + Unsettled(g)
    BY <1>0, <1>6, <1>7, <1>8, <1>15 DEF AttemptTypes
  <2>4. Counted(g)' => SettledOnce(g)'
    BY <1>5, <2>1, <2>3 DEF Counted, SettledOnce, GroupInv
  <2>5. \A u \in (InflightOf(g) \cup WaitingOf(g))' : u[2] <= GroupSize - toSchedule'[g]
    BY <1>1, <1>4, <1>5, <1>11 DEF GroupInv
  <2>6. gstate'[g] = "fresh" =>
          /\ toSchedule'[g] = 0 /\ emitted'[g] = 0 /\ posted'[g] = 0
          /\ Fl(g)' = 0 /\ Wt(g)' = 0
    BY <1>0, <1>1, <1>5, <1>6, <1>8, <1>11, <2>1, <2>2 DEF GroupInv, AttemptTypes
  <2> QED BY <2>1, <2>4, <2>5, <2>6 DEF GroupInv
<1>13. \A h \in Group \ {g} : GroupInv(h)' /\ Unsettled(h)' = Unsettled(h)
  <2>1. \A h \in Group \ {g} : /\ WaitingOf(h)' = WaitingOf(h) /\ posted'[h] = posted[h]
                              /\ gstate'[h] = gstate[h]
    BY <1>0, <1>1, <1>8 DEF WaitingOf, AttemptTypes
  <2> QED BY <1>0, <1>1, <1>4, <2>1, OtherGroup, OtherUnsettled DEF AttemptInv
<1>14. inflight' \cap waiting' = {}
  BY <1>0, <1>1 DEF AttemptInv
<1> QED BY <1>4, <1>7, <1>8, <1>9, <1>10, <1>12, <1>13, <1>14, <1>15 DEF AttemptInv

(* The drain abandons the train attempts in flight; eval groups keep theirs.*)
LEMMA DrainKeeps ==
  ASSUME IInv, Drain
  PROVE  /\ AttemptTypes' /\ PermitAccounting' /\ AttemptInv'
         /\ \A g \in Group : Unsettled(g)' <= Unsettled(g)
<1>0. TypeOK /\ PermitAccounting /\ AttemptInv /\ AttemptTypes
  BY TypeParts DEF IInv
<1> DEFINE claimed == {t \in inflight : t[1] \in TrainGroup}
<1>1. /\ trainDisabled' = TRUE
      /\ inflight' = inflight \ claimed
      /\ currentInflight' = currentInflight - Cardinality(claimed)
      /\ windowBase' = windowBase - Cardinality(claimed)
      /\ gstate' = [g \in Group |-> IF Open(g) /\ \E t \in claimed : t[1] = g
                                    THEN "closed" ELSE gstate[g]]
      /\ UNCHANGED <<toSchedule, emitted, gversion, admissions, posted, loop, waiting>>
  BY DEF Drain, Released, queueVars
<1>2. /\ IsFiniteSet(inflight') /\ inflight' \subseteq Task
      /\ Cardinality(inflight') = Cardinality(inflight) - Cardinality(claimed)
      /\ Cardinality(claimed) \in Nat
  BY <1>0, <1>1, RemoveAttempts DEF AttemptTypes
<1>3. AttemptTypes'
  BY <1>0, <1>1, <1>2 DEF AttemptTypes
<1>4. PermitAccounting'
  BY <1>0, <1>1, <1>2 DEF PermitAccounting
<1>5. \A g \in Group : WaitingOf(g)' = WaitingOf(g) /\ Wt(g)' = Wt(g)
  BY <1>1 DEF WaitingOf, Wt
<1>6. ASSUME NEW g \in TrainGroup PROVE GroupInv(g)'
  <2>1. g \in Group /\ GroupInv(g) /\ GroupSize \in Nat
    BY <1>0, DispatcherAssumption DEF Group, AttemptInv, DispatcherAssumption
  <2>2. InflightOf(g)' = {} /\ Fl(g)' = 0
    BY <1>1, FS_EmptySet DEF InflightOf, Fl
  <2>3. ~Counted(g)'
    BY <1>1, DispatcherAssumption DEF Counted, DispatcherAssumption
  <2>4. gstate'[g] = "fresh" <=> gstate[g] = "fresh"
    BY <1>1, <2>1 DEF Open
  <2>5. Open(g)' => Open(g)
    BY <1>1, <2>1 DEF Open
  <2>6. /\ Fl(g) \in 0 .. GroupSize /\ Wt(g) \in 0 .. GroupSize
        /\ emitted[g] \in Nat /\ toSchedule[g] \in Nat
    BY <1>0, <2>1, CountTypes DEF AttemptTypes
  <2>7. Open(g)' => emitted'[g] + Fl(g)' + Wt(g)' + toSchedule'[g] <= GroupSize
    <3>1. Open(g) => emitted[g] + Fl(g) + Wt(g) + toSchedule[g] <= GroupSize
      BY <2>1 DEF GroupInv
    <3> QED BY <1>1, <1>5, <2>1, <2>2, <2>5, <2>6, <3>1
  <2> QED BY <1>1, <1>5, <2>1, <2>2, <2>3, <2>4, <2>7 DEF GroupInv
<1>7. ASSUME NEW g \in EvalGroup PROVE GroupInv(g)'
  <2>1. g \in Group /\ g \notin TrainGroup /\ GroupInv(g)
    BY <1>0, DispatcherAssumption DEF Group, AttemptInv, DispatcherAssumption
  <2>2. InflightOf(g)' = InflightOf(g) /\ gstate'[g] = gstate[g]
    BY <1>1, <2>1 DEF InflightOf
  <2> QED BY <1>1, <1>5, <2>1, <2>2, OtherGroup
<1>8. inflight' \cap waiting' = {}
  BY <1>0, <1>1 DEF AttemptInv
<1>9. ASSUME NEW g \in Group PROVE Unsettled(g)' <= Unsettled(g)
  <2>1. (Open(g)' => Open(g)) /\ toSchedule'[g] = toSchedule[g] /\ toSchedule[g] \in Nat
    BY <1>0, <1>1, DispatcherAssumption DEF Open, AttemptTypes, DispatcherAssumption
  <2>2. Fl(g) \in Nat /\ Wt(g) \in Nat /\ Wt(g)' = Wt(g)
    BY <1>0, <1>5, CountTypes
  <2>3. Fl(g)' \in Nat /\ Fl(g)' <= Fl(g)
    <3>1. Fl(g)' = Cardinality(Of(inflight', g)) /\ Fl(g) = Cardinality(Of(inflight, g))
      BY DEF Fl, InflightOf, Of
    <3>2. Of(inflight', g) \in SUBSET Of(inflight, g)
      BY <1>1 DEF Of
    <3>3. IsFiniteSet(Of(inflight, g))
      BY <1>0, GroupAttempts DEF AttemptTypes
    <3> QED BY <3>1, <3>2, <3>3, FS_Subset, FS_CardinalityType
  <2>4. Unsettled(g) = Fl(g) + Wt(g) + (IF Open(g) THEN toSchedule[g] ELSE 0)
    BY DEF Unsettled, Fl, Wt
  <2>5. Unsettled(g)' = Fl(g)' + Wt(g)' + (IF Open(g)' THEN toSchedule'[g] ELSE 0)
    BY DEF Unsettled, Fl, Wt
  <2> QED BY <2>1, <2>2, <2>3, <2>4, <2>5
<1> QED BY <1>3, <1>4, <1>6, <1>7, <1>8, <1>9 DEF AttemptInv, Group
-----------------------------------------------------------------------------
(* One attempt scheduled by fill_inflight, in either mode.                  *)
LEMMA FillKeeps ==
  ASSUME IInv, ContinueTrain \/ ContinueEval \/ OpenTrain \/ OpenEval
  PROVE  IInv'
<1>0. TypeOK /\ AttemptTypes /\ QueueTypes /\ OtherTypes
  BY TypeParts DEF IInv
<1>1. PICK g \in Group : (ContinueGroup(g) /\ g \in Partial(Group)) \/ OpenGroup(g)
  BY DEF ContinueTrain, ContinueEval, OpenTrain, OpenEval, Partial, Group
<1>2. waiting = {}
  BY DEF ContinueTrain, ContinueEval, OpenTrain, OpenEval, MayFillTrain, MayFillEval,
     MayFill, LoopReady, LockHeld
<1>3. PICK left \in 1 .. GroupSize :
        /\ ScheduleEpisode(g, left) /\ gversion' \in [Group -> Nat]
        /\ \/ Open(g) /\ left = toSchedule[g] /\ UNCHANGED gstate
           \/ /\ gstate[g] = "fresh" /\ left = GroupSize
              /\ gstate' = [gstate EXCEPT ![g] = "open"]
  <2>1. CASE ContinueGroup(g) /\ g \in Partial(Group)
    <3>1. toSchedule[g] \in 1 .. GroupSize /\ Open(g)
      BY <1>0, <2>1, DispatcherAssumption DEF Partial, AttemptTypes, DispatcherAssumption
    <3> QED BY <1>0, <2>1, <3>1 DEF ContinueGroup, AttemptTypes
  <2>2. CASE OpenGroup(g)
    <3>1. GroupSize \in 1 .. GroupSize
      BY DispatcherAssumption DEF DispatcherAssumption
    <3> QED BY <1>0, <2>2, <3>1 DEF OpenGroup, AttemptTypes, OtherTypes
  <2> QED BY <1>1, <2>1, <2>2
<1>4. /\ UNCHANGED <<queueVars, trainDisabled, dispatchAllowed, updatePending, watchVars,
                     dropVars, maxInflight, loop, step, mode>>
      /\ UNCHANGED posted
  BY <1>3 DEF ScheduleEpisode, queueVars
<1>5. AttemptTypes' /\ PermitAccounting' /\ AttemptInv'
  BY <1>2, <1>3, <1>4, ScheduleKeeps
<1>6. evalQueue' \in Seq(Nat)
  <2>1. UNCHANGED evalQueue \/ (evalQueue # <<>> /\ evalQueue' = Tail(evalQueue))
    BY DEF ContinueTrain, ContinueEval, OpenTrain, OpenEval, ContinueGroup
  <2> QED BY <1>0, <2>1, HeadTailProperties DEF OtherTypes
<1>7. QueueTypes' /\ OtherTypes'
  BY <1>0, <1>4, <1>6 DEF QueueTypes, OtherTypes, queueVars, watchVars, dropVars
<1> QED BY <1>5, <1>7, TypePartsNext DEF IInv

(* The other steps of the dispatch loop.                                    *)
LEMMA LoopKeeps == ASSUME IInv, LoopStep PROVE IInv'
<1>0. TypeOK /\ AttemptTypes /\ QueueTypes /\ OtherTypes /\ PermitAccounting /\ AttemptInv
  BY TypeParts DEF IInv
<1>1. CASE RollWindow
  <2>1. /\ admissions' = 0 /\ windowBase' = currentInflight
        /\ UNCHANGED <<groupVars, inflight, currentInflight, queueVars, flagVars,
                       watchVars, dropVars, waiting, maxInflight, loop, step, evalQueue>>
    BY <1>1 DEF RollWindow
  <2>2. AttemptTypes' /\ QueueTypes' /\ OtherTypes'
    BY <1>0, <2>1 DEF AttemptTypes, QueueTypes, OtherTypes, groupVars, queueVars,
       flagVars, watchVars, dropVars
  <2>3. UNCHANGED accountVars
    BY <2>1 DEF accountVars, groupVars, queueVars, flagVars
  <2> QED BY <1>0, <2>2, <2>3, AccountFrame, TypePartsNext DEF IInv
<1>2. CASE EvalDrained
  <2>1. /\ mode' = "train"
        /\ UNCHANGED <<groupVars, permitVars, queueVars, watchVars, dropVars, waiting,
                       maxInflight, loop, step, evalQueue, windowBase, trainDisabled,
                       dispatchAllowed, updatePending>>
    BY <1>2 DEF EvalDrained
  <2>2. AttemptTypes' /\ QueueTypes' /\ OtherTypes'
    BY <1>0, <2>1 DEF AttemptTypes, QueueTypes, OtherTypes, groupVars, queueVars,
       permitVars, watchVars, dropVars
  <2>3. UNCHANGED accountVars
    BY <2>1 DEF accountVars, groupVars, permitVars, queueVars
  <2> QED BY <1>0, <2>2, <2>3, AccountFrame, TypePartsNext DEF IInv
<1>3. CASE LimiterGrant
  <2>1. QueueTypes' /\ OtherTypes'
    BY <1>0, <1>3 DEF LimiterGrant, QueueTypes, OtherTypes, queueVars, flagVars,
       watchVars, dropVars
  <2> QED BY <1>3, <2>1, LimiterGrantKeeps, TypePartsNext DEF IInv
<1>4. ASSUME NEW t \in Task, HandleCompleted(t) PROVE IInv'
  <2>1. OtherTypes'
    BY <1>0, <1>4 DEF HandleCompleted, OtherTypes, flagVars, watchVars, dropVars
  <2> QED BY <1>4, <2>1, CompletedKeeps, TypePartsNext DEF IInv
<1>5. ASSUME NEW t \in Task, HandleMismatch(t) PROVE IInv'
  <2>1. OtherTypes' /\ QueueTypes'
    BY <1>0, <1>5 DEF HandleMismatch, OtherTypes, QueueTypes, queueVars, flagVars,
       watchVars, dropVars
  <2> QED BY <1>5, <2>1, MismatchKeeps, TypePartsNext DEF IInv
<1> QED BY <1>1, <1>2, <1>3, <1>4, <1>5, FillKeeps DEF LoopStep

(* The weight watcher's update, with the staleness drops it makes.          *)
LEMMA WatcherKeeps == ASSUME IInv, WatcherStep PROVE IInv'
<1>0. TypeOK /\ AttemptTypes /\ QueueTypes /\ OtherTypes /\ PermitAccounting /\ AttemptInv
  BY TypeParts DEF IInv
<1>1. CASE DropStale
  <2>1. PICK g \in victims["watcher"] : DropGroup("watcher", g, "stale")
    BY <1>1 DEF DropStale
  <2>2. "watcher" \in Proc /\ g \in TrainGroup
    BY <1>0, <2>1 DEF OtherTypes, Proc
  <2>3. /\ victims' \in [Proc -> SUBSET TrainGroup]
        /\ UNCHANGED <<need, waiting, maxInflight, flagVars, loop, watchVars, step, evalQueue>>
    BY <1>0, <1>1 DEF DropStale, OtherTypes
  <2>4. OtherTypes'
    BY <1>0, <2>3 DEF OtherTypes, flagVars, watchVars
  <2>5. AttemptTypes' /\ QueueTypes' /\ PermitAccounting' /\ AttemptInv'
    BY <2>1, <2>2, <2>3, DropKeeps DEF flagVars
  <2> QED BY <2>4, <2>5, TypePartsNext DEF IInv
<1>2. CASE VersionPending
  <2>1. /\ target' \in Nat
        /\ watcher' = "barrier" /\ updatePending' = TRUE
        /\ UNCHANGED <<groupVars, permitVars, queueVars, dropVars, waiting, maxInflight,
                       mode, trainDisabled, dispatchAllowed, loop, version, step,
                       evalQueue, windowBase>>
    BY <1>0, <1>2 DEF VersionPending, OtherTypes
  <2>2. AttemptTypes' /\ QueueTypes' /\ OtherTypes'
    BY <1>0, <2>1 DEF AttemptTypes, QueueTypes, OtherTypes, groupVars, permitVars,
       queueVars, dropVars
  <2>3. UNCHANGED accountVars
    BY <2>1 DEF accountVars, groupVars, permitVars, queueVars
  <2> QED BY <1>0, <2>2, <2>3, AccountFrame, TypePartsNext DEF IInv
<1>3. CASE PassBarrier
  <2>1. /\ watcher' = "drop"
        /\ victims' = [victims EXCEPT !["watcher"] = StaleGroups]
        /\ StaleGroups \subseteq TrainGroup
        /\ UNCHANGED <<groupVars, permitVars, queueVars, flagVars, need, waiting,
                       maxInflight, loop, target, version, step, evalQueue, windowBase>>
    BY <1>3 DEF PassBarrier, StaleGroups
  <2>2. AttemptTypes' /\ QueueTypes' /\ OtherTypes'
    BY <1>0, <2>1 DEF AttemptTypes, QueueTypes, OtherTypes, groupVars, permitVars,
       queueVars, flagVars
  <2>3. UNCHANGED accountVars
    BY <2>1 DEF accountVars, groupVars, permitVars, queueVars, flagVars
  <2> QED BY <1>0, <2>2, <2>3, AccountFrame, TypePartsNext DEF IInv
<1>4. CASE StartReceive
  <2>1. /\ watcher' = "receive"
        /\ UNCHANGED <<groupVars, permitVars, queueVars, flagVars, dropVars, waiting,
                       maxInflight, loop, target, version, step, evalQueue, windowBase>>
    BY <1>4 DEF StartReceive
  <2>2. AttemptTypes' /\ QueueTypes' /\ OtherTypes'
    BY <1>0, <2>1 DEF AttemptTypes, QueueTypes, OtherTypes, groupVars, permitVars,
       queueVars, flagVars, dropVars
  <2>3. UNCHANGED accountVars
    BY <2>1 DEF accountVars, groupVars, permitVars, queueVars, flagVars
  <2> QED BY <1>0, <2>2, <2>3, AccountFrame, TypePartsNext DEF IInv
<1>5. CASE FinishUpdate
  <2>1. /\ watcher' = "idle" /\ version' = target /\ updatePending' = FALSE
        /\ dispatchAllowed' \in BOOLEAN
        /\ mode' \in {"train", "eval"}
        /\ UNCHANGED <<groupVars, permitVars, queueVars, dropVars, waiting, maxInflight,
                       trainDisabled, loop, target, step, windowBase>>
    BY <1>0, <1>5 DEF FinishUpdate, GateFor, OtherTypes
  <2>2. evalQueue' \in Seq(Nat)
    <3> DEFINE epoch == [i \in 1 .. EvalExamples |-> target]
    <3>1. target \in Nat /\ EvalExamples \in Nat /\ evalQueue \in Seq(Nat)
      BY <1>0, DispatcherAssumption DEF OtherTypes, DispatcherAssumption
    <3>2. epoch \in Seq(Nat)
      BY <3>1, SeqDef
    <3>3. evalQueue' = evalQueue \/ evalQueue' = evalQueue \o epoch
      BY <1>5 DEF FinishUpdate
    <3> HIDE DEF epoch
    <3> QED BY <3>1, <3>2, <3>3, ConcatProperties
  <2>3. AttemptTypes' /\ QueueTypes' /\ OtherTypes'
    BY <1>0, <2>1, <2>2 DEF AttemptTypes, QueueTypes, OtherTypes, groupVars, permitVars,
       queueVars, dropVars
  <2>4. UNCHANGED accountVars
    BY <2>1 DEF accountVars, groupVars, permitVars, queueVars
  <2> QED BY <1>0, <2>3, <2>4, AccountFrame, TypePartsNext DEF IInv
<1> QED BY <1>1, <1>2, <1>3, <1>4, <1>5 DEF WatcherStep

(* The overload cuts, the main loop, the controller and the waiting putters.*)
LEMMA OthersKeep ==
  ASSUME IInv, CutStep \/ MainLoopStep \/ SetLimit \/ \E p \in Proc : FinishPut(p)
  PROVE  IInv'
<1>0. TypeOK /\ AttemptTypes /\ QueueTypes /\ OtherTypes /\ PermitAccounting /\ AttemptInv
  BY TypeParts DEF IInv
<1>1. ASSUME NEW c \in Cuts, CutDrop(c) PROVE IInv'
  <2>1. PICK g \in victims[c] :
          /\ DropGroup(c, g, "overload")
          /\ need' = [need EXCEPT ![c] = Larger(0, @ - Cardinality(InflightOf(g)))]
          /\ victims' = [victims EXCEPT ![c] = IF need'[c] = 0 THEN {} ELSE @ \ {g}]
    BY <1>1 DEF CutDrop
  <2>2. c \in Proc /\ g \in TrainGroup /\ g \in Group
    BY <1>0, <2>1 DEF OtherTypes, Proc, Group
  <2>3. UNCHANGED <<waiting, maxInflight, flagVars, loop, watchVars, step, evalQueue>>
    BY <1>1 DEF CutDrop
  <2>4. need' \in [Cuts -> Nat \cup {-1}]
    <3>1. Cardinality(InflightOf(g)) \in Nat /\ need[c] \in Int
      BY <1>0, <2>2, CountTypes, DispatcherAssumption DEF Fl, OtherTypes, DispatcherAssumption
    <3>2. Larger(0, need[c] - Cardinality(InflightOf(g))) \in Nat
      BY <3>1 DEF Larger
    <3> QED BY <1>0, <2>1, <3>2 DEF OtherTypes
  <2>5. victims' \in [Proc -> SUBSET TrainGroup]
    BY <1>0, <2>1, <2>2 DEF OtherTypes
  <2>6. OtherTypes'
    BY <1>0, <2>3, <2>4, <2>5 DEF OtherTypes, flagVars, watchVars
  <2>7. AttemptTypes' /\ QueueTypes' /\ PermitAccounting' /\ AttemptInv'
    BY <2>1, <2>2, <2>3, DropKeeps DEF flagVars
  <2> QED BY <2>6, <2>7, TypePartsNext DEF IInv
<1>2. ASSUME NEW c \in Cuts, NEW n \in CutSizes, StartCut(c, n) PROVE IInv'
  <2>1. /\ need' = [need EXCEPT ![c] = n]
        /\ victims' = [victims EXCEPT ![c] = {g \in TrainGroup : InflightOf(g) # {}}]
        /\ UNCHANGED <<groupVars, permitVars, queueVars, flagVars, watchVars, waiting,
                       maxInflight, loop, step, evalQueue, windowBase>>
    BY <1>2 DEF StartCut
  <2>2. n \in Nat
    BY DispatcherAssumption DEF DispatcherAssumption
  <2>3. AttemptTypes' /\ QueueTypes' /\ OtherTypes'
    BY <1>0, <2>1, <2>2 DEF AttemptTypes, QueueTypes, OtherTypes, groupVars, permitVars,
       queueVars, flagVars, watchVars
  <2>4. UNCHANGED accountVars
    BY <2>1 DEF accountVars, groupVars, permitVars, queueVars, flagVars
  <2> QED BY <1>0, <2>3, <2>4, AccountFrame, TypePartsNext DEF IInv
<1>3. CASE Drain
  <2>1. QueueTypes' /\ OtherTypes'
    BY <1>0, <1>3 DEF Drain, QueueTypes, OtherTypes, queueVars, watchVars, dropVars
  <2> QED BY <1>3, <2>1, DrainKeeps, TypePartsNext DEF IInv
<1>4. CASE Consume
  <2>1. /\ outq' = Tail(outq) /\ outq # <<>>
        /\ UNCHANGED <<groupVars, permitVars, flagVars, watchVars, dropVars, waiting,
                       maxInflight, loop, step, evalQueue, putting, posted, windowBase>>
    BY <1>4 DEF Consume
  <2>2. Tail(outq) \in Seq(Message)
    BY <1>0, <2>1, HeadTailProperties DEF QueueTypes
  <2>3. AttemptTypes' /\ QueueTypes' /\ OtherTypes'
    BY <1>0, <2>1, <2>2 DEF AttemptTypes, QueueTypes, OtherTypes, groupVars, permitVars,
       flagVars, watchVars, dropVars
  <2>4. UNCHANGED accountVars
    BY <2>1 DEF accountVars, groupVars, permitVars, flagVars
  <2> QED BY <1>0, <2>3, <2>4, AccountFrame, TypePartsNext DEF IInv
<1>5. CASE Ship
  <2>1. /\ step' = step + 1 /\ dispatchAllowed' \in BOOLEAN
        /\ UNCHANGED <<groupVars, permitVars, queueVars, watchVars, dropVars, waiting,
                       maxInflight, mode, trainDisabled, updatePending, loop, evalQueue,
                       windowBase>>
    BY <1>5 DEF Ship, GateFor
  <2>2. AttemptTypes' /\ QueueTypes' /\ OtherTypes'
    BY <1>0, <2>1 DEF AttemptTypes, QueueTypes, OtherTypes, groupVars, permitVars,
       queueVars, watchVars, dropVars
  <2>3. UNCHANGED accountVars
    BY <2>1 DEF accountVars, groupVars, permitVars, queueVars
  <2> QED BY <1>0, <2>2, <2>3, AccountFrame, TypePartsNext DEF IInv
<1>6. CASE SetLimit
  <2>1. /\ maxInflight' \in Limits
        /\ UNCHANGED <<groupVars, permitVars, queueVars, flagVars, watchVars, dropVars,
                       waiting, loop, step, evalQueue, windowBase>>
    BY <1>6 DEF SetLimit
  <2>2. AttemptTypes' /\ QueueTypes' /\ OtherTypes'
    BY <1>0, <2>1 DEF AttemptTypes, QueueTypes, OtherTypes, groupVars, permitVars,
       queueVars, flagVars, watchVars, dropVars
  <2>3. UNCHANGED accountVars
    BY <2>1 DEF accountVars, groupVars, permitVars, queueVars, flagVars
  <2> QED BY <1>0, <2>2, <2>3, AccountFrame, TypePartsNext DEF IInv
<1>7. ASSUME NEW p \in Proc, FinishPut(p) PROVE IInv'
  <2>1. /\ putting[p] # <<>> /\ outq' = Append(outq, putting[p][1])
        /\ putting' = [putting EXCEPT ![p] = <<>>]
        /\ UNCHANGED <<groupVars, permitVars, flagVars, watchVars, dropVars, waiting,
                       maxInflight, loop, step, evalQueue, posted, windowBase>>
    BY <1>7 DEF FinishPut, Runs
  <2>2. putting[p][1] \in Message
    BY <1>0, <2>1 DEF QueueTypes
  <2>3. Append(outq, putting[p][1]) \in Seq(Message)
    BY <1>0, <2>2, AppendProperties DEF QueueTypes
  <2>4. AttemptTypes' /\ QueueTypes' /\ OtherTypes'
    BY <1>0, <2>1, <2>3 DEF AttemptTypes, QueueTypes, OtherTypes, groupVars, permitVars,
       flagVars, watchVars, dropVars
  <2>5. UNCHANGED accountVars
    BY <2>1 DEF accountVars, groupVars, permitVars, flagVars
  <2> QED BY <1>0, <2>4, <2>5, AccountFrame, TypePartsNext DEF IInv
<1> QED BY <1>1, <1>2, <1>3, <1>4, <1>5, <1>6, <1>7 DEF CutStep, MainLoopStep

LEMMA NextIInv == ASSUME IInv, [Next]_vars PROVE IInv'
<1>1. CASE UNCHANGED vars
  <2>1. TypeOK'
    BY <1>1 DEF vars, TypeOK, IInv
  <2>2. UNCHANGED accountVars
    BY <1>1 DEF vars, accountVars
  <2> QED BY <2>1, <2>2, AccountFrame DEF IInv
<1> QED BY <1>1, LoopKeeps, WatcherKeeps, OthersKeep DEF Next

LEMMA Invariance == Spec => []IInv
  BY InitIInv, NextIInv, PTL DEF Spec
-----------------------------------------------------------------------------
(* Every variable keeps its type; the counters never go below zero.         *)
THEOREM DispatcherTyped == Spec => []TypeOK
  BY Invariance, PTL DEF IInv

(* current_inflight is the number of tasks in flight, whatever completions, *)
(* drops, cuts and drains interleave (acquire, release, drop_group).        *)
THEOREM PermitsMatchTasks == Spec => []PermitAccounting
  BY Invariance, PTL DEF IInv

(* "Every dispatched attempt reaches out_q exactly once": as long as the    *)
(* dispatch task lives, what a group has posted, has in flight, in the      *)
(* limiter and still to schedule is its size.                               *)
THEOREM AttemptsSettleOnce == Spec => []ExactlyOnce
<1>1. IInv => ExactlyOnce
  BY DEF IInv, AttemptInv, GroupInv, Counted, ExactlyOnce
<1> QED BY <1>1, Invariance, PTL
-----------------------------------------------------------------------------
(* NoOrphan holds when no rate limiter is configured: the attempt dispatched*)
(* for a group joins the pool before the group can be dropped, and a group  *)
(* that closes by its last completion has nothing else in flight.           *)
OrphanInv == NoOrphan /\ waiting = {}

LEMMA NoOrphanStep ==
  ASSUME ~RateLimited, IInv, OrphanInv, [Next]_vars
  PROVE  OrphanInv'
<1>0. AttemptTypes /\ NoOrphan /\ waiting = {}
  BY TypeParts DEF IInv, OrphanInv
<1>1. CASE ContinueTrain \/ ContinueEval \/ OpenTrain \/ OpenEval
  <2>1. PICK g \in Group : (ContinueGroup(g) /\ g \in Partial(Group)) \/ OpenGroup(g)
    BY <1>1 DEF ContinueTrain, ContinueEval, OpenTrain, OpenEval, Partial, Group
  <2>2. /\ \/ UNCHANGED gstate
           \/ gstate' = [gstate EXCEPT ![g] = "open"]
        /\ gstate'[g] = "open"
        /\ \E t : t[1] = g /\ inflight' = inflight \cup {t}
        /\ UNCHANGED waiting
    <3>1. ASSUME NEW left, ScheduleEpisode(g, left)
          PROVE  (\E t : t[1] = g /\ inflight' = inflight \cup {t}) /\ UNCHANGED waiting
      BY <3>1 DEF ScheduleEpisode, Admit
    <3>2. CASE ContinueGroup(g) /\ g \in Partial(Group)
      BY <3>1, <3>2 DEF ContinueGroup, Partial, Open
    <3>3. CASE OpenGroup(g)
      BY <1>0, <3>1, <3>3 DEF OpenGroup, AttemptTypes
    <3> QED BY <2>1, <3>2, <3>3
  <2> QED BY <1>0, <2>2 DEF OrphanInv, NoOrphan, Open, AttemptTypes, Task
<1>2. CASE LimiterGrant
  BY <1>0, <1>2 DEF LimiterGrant
<1>3. ASSUME NEW t \in Task, HandleCompleted(t) PROVE OrphanInv'
  <2>1. /\ t \in inflight /\ inflight' = inflight \ {t} /\ CompleteMember(t[1])
        /\ UNCHANGED waiting /\ t[1] \in Group
    BY <1>3 DEF HandleCompleted, Claim, Task
  <2>2. \A h \in Group \ {t[1]} : gstate'[h] = gstate[h]
    BY <1>0, <2>1 DEF CompleteMember, AttemptTypes
  <2>3. Open(t[1]) /\ ~Open(t[1])' => InflightOf(t[1])' = {}
    <3>1. Open(t[1]) /\ ~Open(t[1])' => Fl(t[1])' = 0
      BY <1>3, CompletedKeeps
    <3>2. InflightOf(t[1])' = Of(inflight', t[1]) /\ inflight' \in SUBSET Task
      BY <1>0, <2>1 DEF InflightOf, Of, AttemptTypes
    <3>3. Fl(t[1])' = 0 => InflightOf(t[1])' = {}
      BY <2>1, <3>2, GroupAttempts, FS_EmptySet DEF Fl
    <3> QED BY <3>1, <3>3
  <2>4. Open(t[1])
    BY <1>0, <2>1 DEF NoOrphan
  <2>5. \A u \in inflight' : Open(u[1])'
    <3> SUFFICES ASSUME NEW u \in inflight' PROVE Open(u[1])'
      OBVIOUS
    <3>1. u \in inflight /\ u[1] \in Group /\ Open(u[1])
      BY <1>0, <2>1 DEF AttemptTypes, Task, NoOrphan
    <3>2. CASE u[1] = t[1]
      BY <2>3, <2>4, <3>2 DEF InflightOf
    <3>3. CASE u[1] # t[1]
      BY <2>2, <3>1, <3>3 DEF Open
    <3> QED BY <3>2, <3>3
  <2> QED BY <1>0, <2>1, <2>5 DEF OrphanInv, NoOrphan
<1>4. ASSUME NEW p \in Proc, NEW g \in TrainGroup, NEW r \in {"stale", "overload"},
             DropGroup(p, g, r), UNCHANGED waiting
      PROVE  OrphanInv'
  <2>1. /\ gstate' = [gstate EXCEPT ![g] = IF Open(g) THEN "closed" ELSE @]
        /\ inflight' = inflight \ InflightOf(g)
    BY <1>4 DEF DropGroup
  <2> QED BY <1>0, <1>4, <2>1 DEF OrphanInv, NoOrphan, InflightOf, Open, AttemptTypes, Task
<1>5. CASE Drain
  <2>1. /\ inflight' = {t \in inflight : t[1] \notin TrainGroup}
        /\ \A g \in Group \ TrainGroup : gstate'[g] = gstate[g]
        /\ UNCHANGED waiting
    BY <1>5 DEF Drain
  <2> QED BY <1>0, <2>1 DEF OrphanInv, NoOrphan, Open, AttemptTypes, Task
<1>6. ASSUME NEW t \in Task, HandleMismatch(t) PROVE OrphanInv'
  BY <1>0, <1>6 DEF HandleMismatch, Claim, groupVars, OrphanInv, NoOrphan, Open
<1>7. ASSUME UNCHANGED <<gstate, inflight, waiting>> PROVE OrphanInv'
  BY <1>0, <1>7 DEF OrphanInv, NoOrphan, Open
<1>8. CASE RollWindow \/ EvalDrained
  BY <1>7, <1>8 DEF RollWindow, EvalDrained, groupVars, permitVars
<1>9. CASE WatcherStep
  <2>1. CASE DropStale
    <3>1. PICK g \in victims["watcher"] : DropGroup("watcher", g, "stale")
      BY <2>1 DEF DropStale
    <3>2. g \in TrainGroup /\ "watcher" \in Proc
      BY <3>1, TypeParts DEF IInv, OtherTypes, Proc
    <3> QED BY <1>4, <2>1, <3>1, <3>2 DEF DropStale
  <2>2. CASE VersionPending \/ PassBarrier \/ StartReceive \/ FinishUpdate
    BY <1>7, <2>2 DEF VersionPending, PassBarrier, StartReceive, FinishUpdate, groupVars,
       permitVars
  <2> QED BY <1>9, <2>1, <2>2 DEF WatcherStep
<1>10. CASE CutStep
  <2>1. ASSUME NEW c \in Cuts, CutDrop(c) PROVE OrphanInv'
    <3>1. PICK g \in victims[c] : DropGroup(c, g, "overload")
      BY <2>1 DEF CutDrop
    <3>2. g \in TrainGroup /\ c \in Proc
      BY <3>1, TypeParts DEF IInv, OtherTypes, Proc
    <3> QED BY <1>4, <2>1, <3>1, <3>2 DEF CutDrop
  <2>2. ASSUME NEW c \in Cuts, NEW n \in CutSizes, StartCut(c, n) PROVE OrphanInv'
    BY <1>7, <2>2 DEF StartCut, groupVars, permitVars
  <2> QED BY <1>10, <2>1, <2>2 DEF CutStep
<1>11. CASE Consume \/ Ship \/ SetLimit \/ (\E p \in Proc : FinishPut(p)) \/ UNCHANGED vars
  BY <1>7, <1>11 DEF Consume, Ship, SetLimit, FinishPut, groupVars, permitVars, vars
<1> QED BY <1>1, <1>2, <1>3, <1>5, <1>6, <1>8, <1>9, <1>10, <1>11
        DEF Next, LoopStep, MainLoopStep

THEOREM NoOrphanUnlessLimited ==
  ASSUME ~RateLimited
  PROVE  Spec => []NoOrphan
<1>1. Init => OrphanInv
  BY DEF Init, OrphanInv, NoOrphan
<1>2. IInv /\ OrphanInv /\ [Next]_vars => OrphanInv'
  BY NoOrphanStep
<1>3. OrphanInv => NoOrphan
  BY DEF OrphanInv
<1> QED BY <1>1, <1>2, <1>3, Invariance, PTL DEF Spec
-----------------------------------------------------------------------------
(* Only an opening or a continuation leaves a group partly dispatched; every *)
(* other step at most closes groups.                                         *)
OneAt(G) == \A g, h \in Partial(G) : g = h

LEMMA OpenOnlyNext ==
  ASSUME IInv, [Next]_vars
  PROVE  \/ ContinueTrain \/ ContinueEval \/ OpenTrain \/ OpenEval
         \/ UNCHANGED toSchedule /\ \A g \in Group : Open(g)' => Open(g)
<1>0. AttemptTypes
  BY TypeParts DEF IInv
<1> USE DEF Open
<1>1. ASSUME NEW p, NEW g, NEW r, DropGroup(p, g, r)
      PROVE  UNCHANGED toSchedule /\ \A h \in Group : Open(h)' => Open(h)
  <2>1. /\ gstate' = [gstate EXCEPT ![g] = IF Open(g) THEN "closed" ELSE @]
        /\ UNCHANGED toSchedule
    BY <1>1 DEF DropGroup
  <2> QED BY <1>0, <2>1 DEF AttemptTypes
<1>2. ASSUME NEW t \in Task, HandleCompleted(t)
      PROVE  UNCHANGED toSchedule /\ \A g \in Group : Open(g)' => Open(g)
  BY <1>0, <1>2 DEF HandleCompleted, CompleteMember, AttemptTypes
<1>3. ASSUME Drain
      PROVE  UNCHANGED toSchedule /\ \A g \in Group : Open(g)' => Open(g)
  BY <1>0, <1>3 DEF Drain, AttemptTypes
<1>4. ASSUME UNCHANGED groupVars
      PROVE  UNCHANGED toSchedule /\ \A g \in Group : Open(g)' => Open(g)
  BY <1>4 DEF groupVars
<1> HIDE DEF Open
<1>5. CASE LoopStep
  <2>1. CASE RollWindow \/ EvalDrained \/ LimiterGrant
    BY <1>4, <2>1 DEF RollWindow, EvalDrained, LimiterGrant
  <2>2. ASSUME NEW t \in Task, HandleMismatch(t) PROVE UNCHANGED groupVars
    BY <2>2 DEF HandleMismatch
  <2> QED BY <1>2, <1>4, <1>5, <2>1, <2>2 DEF LoopStep
<1>6. CASE WatcherStep
  <2>1. CASE DropStale
    BY <1>1, <2>1 DEF DropStale
  <2>2. CASE VersionPending \/ PassBarrier \/ StartReceive \/ FinishUpdate
    BY <1>4, <2>2 DEF VersionPending, PassBarrier, StartReceive, FinishUpdate
  <2> QED BY <1>6, <2>1, <2>2 DEF WatcherStep
<1>7. CASE CutStep
  <2>1. ASSUME NEW c \in Cuts, CutDrop(c)
        PROVE  UNCHANGED toSchedule /\ \A g \in Group : Open(g)' => Open(g)
    BY <1>1, <2>1 DEF CutDrop
  <2>2. ASSUME NEW c \in Cuts, NEW n \in CutSizes, StartCut(c, n) PROVE UNCHANGED groupVars
    BY <2>2 DEF StartCut
  <2> QED BY <1>4, <1>7, <2>1, <2>2 DEF CutStep
<1>8. CASE Consume \/ Ship \/ SetLimit \/ (\E p \in Proc : FinishPut(p)) \/ UNCHANGED vars
  BY <1>4, <1>8 DEF Consume, Ship, SetLimit, FinishPut, vars, groupVars
<1> QED BY <1>3, <1>5, <1>6, <1>7, <1>8 DEF Next, MainLoopStep

(* What is opened or continued is opened or continued among groups of one    *)
(* kind, and opened only when none of that kind is partly dispatched.        *)
LEMMA OnePartialStep ==
  ASSUME IInv, OnePartialGroup, [Next]_vars
  PROVE  OnePartialGroup'
<1>0. AttemptTypes /\ OneAt(TrainGroup) /\ OneAt(EvalGroup)
  BY TypeParts DEF IInv, OnePartialGroup, OneAt
<1>1. CASE UNCHANGED toSchedule /\ \A g \in Group : Open(g)' => Open(g)
  BY <1>0, <1>1 DEF OneAt, OnePartialGroup, Partial, Group
<1>2. ASSUME NEW G \in {TrainGroup, EvalGroup}, NEW g \in G, OpenGroup(g), Partial(G) = {}
      PROVE  OnePartialGroup'
  <2>1. /\ gstate[g] = "fresh" /\ gstate' = [gstate EXCEPT ![g] = "open"]
        /\ toSchedule' = [toSchedule EXCEPT ![g] = GroupSize - 1]
    BY <1>2 DEF OpenGroup, ScheduleEpisode
  <2>2. \A h \in Group \ {g} : toSchedule'[h] = toSchedule[h] /\ Open(h)' = Open(h)
    BY <1>0, <2>1 DEF AttemptTypes, Open
  <2>3. ASSUME NEW H \in {TrainGroup, EvalGroup}, NEW a \in Partial(H)', NEW b \in Partial(H)'
        PROVE  a = b
    <3>1. a \in Group /\ b \in Group
      BY <2>3 DEF Partial, Group
    <3>2. a # g => a \in Partial(H)
      BY <2>2, <2>3, <3>1 DEF Partial
    <3>3. b # g => b \in Partial(H)
      BY <2>2, <2>3, <3>1 DEF Partial
    <3>4. CASE H = G
      BY <1>2, <3>2, <3>3, <3>4
    <3>5. CASE H # G
      <4>1. g \notin H
        BY <3>5, DispatcherAssumption DEF DispatcherAssumption
      <4>2. a # g /\ b # g
        BY <2>3, <4>1 DEF Partial
      <4> QED BY <1>0, <3>2, <3>3, <4>2 DEF OneAt
    <3> QED BY <3>4, <3>5
  <2> QED BY <2>3 DEF OnePartialGroup
<1>3. ASSUME NEW g \in Group, g \in Partial(Group), ContinueGroup(g) PROVE OnePartialGroup'
  <2>1. UNCHANGED gstate /\ toSchedule' = [toSchedule EXCEPT ![g] = toSchedule[g] - 1]
    BY <1>3 DEF ContinueGroup, ScheduleEpisode
  <2>2. \A h \in Group : toSchedule'[h] > 0 => toSchedule[h] > 0
    BY <1>0, <1>3, <2>1 DEF AttemptTypes, Partial
  <2>3. \A h \in Group : h \in TrainGroup \/ h \in EvalGroup
    BY DEF Group
  <2>4. \A H \in {TrainGroup, EvalGroup} : Partial(H)' \subseteq Partial(H)
    BY <2>1, <2>2 DEF Partial, Open, Group
  <2> QED BY <1>0, <2>4 DEF OneAt, OnePartialGroup
<1>4. CASE ContinueTrain \/ ContinueEval
  BY <1>3, <1>4 DEF ContinueTrain, ContinueEval, Partial, Group
<1>5. CASE OpenTrain \/ OpenEval
  BY <1>2, <1>5 DEF OpenTrain, OpenEval, NothingToContinue
<1> QED BY <1>1, <1>4, <1>5, OpenOnlyNext

(* At most one train and one eval group is partly dispatched at any time     *)
(* (fill_inflight continues before it opens), whatever drops, cuts, drains   *)
(* and limiter waits come in between: members are dispatched back to back.   *)
THEOREM OnePartialAlways == Spec => []OnePartialGroup
<1>1. Init => OnePartialGroup
  BY DEF Init, OnePartialGroup, Partial, Open, Group
<1>2. IInv /\ OnePartialGroup /\ [Next]_vars => OnePartialGroup'
  BY OnePartialStep
<1> QED BY <1>1, <1>2, Invariance, PTL DEF Spec
-----------------------------------------------------------------------------
(* What a step does to the pool: an attempt is dispatched, below the cap and *)
(* with no other in the limiter; the limiter lets one through; or the pool   *)
(* does not grow.                                                            *)
LEMMA PoolStep ==
  ASSUME IInv, [Next]_vars
  PROVE  \/ /\ waiting = {} /\ currentInflight < maxInflight
            /\ UNCHANGED maxInflight
            /\ \/ currentInflight' = currentInflight + 1 /\ waiting' = {}
               \/ currentInflight' = currentInflight
         \/ waiting # {} /\ waiting' = {} /\ currentInflight' = currentInflight + 1
         \/ currentInflight' <= currentInflight /\ UNCHANGED waiting
<1>0. currentInflight \in Int /\ IsFiniteSet(inflight) /\ inflight \in SUBSET Task
  BY TypeParts DEF IInv, AttemptTypes
<1>1. ASSUME NEW C \in SUBSET inflight PROVE Released(C) \in Int /\ Released(C) <= currentInflight
  <2>1. Cardinality(C) \in Nat
    BY <1>0, RemoveAttempts
  <2> QED BY <1>0, <2>1 DEF Released
<1> DEFINE Shrinks == currentInflight' <= currentInflight /\ UNCHANGED waiting
<1>2. ASSUME UNCHANGED <<currentInflight, waiting>> PROVE Shrinks
  BY <1>0, <1>2
<1>3. ASSUME NEW p, NEW g, NEW r, DropGroup(p, g, r), UNCHANGED waiting PROVE Shrinks
  <2>1. InflightOf(g) \in SUBSET inflight /\ currentInflight' = Released(InflightOf(g))
    BY <1>3 DEF DropGroup, InflightOf
  <2> QED BY <1>1, <1>3, <2>1
<1>4. CASE ContinueTrain \/ ContinueEval \/ OpenTrain \/ OpenEval
  <2>1. waiting = {} /\ currentInflight < maxInflight
    BY <1>4 DEF ContinueTrain, ContinueEval, OpenTrain, OpenEval, MayFillTrain,
       MayFillEval, MayFill, LoopReady, LockHeld, PermitAvailable
  <2>2. \E g, left : ScheduleEpisode(g, left)
    BY <1>4 DEF ContinueTrain, ContinueEval, OpenTrain, OpenEval, ContinueGroup, OpenGroup
  <2> QED BY <2>1, <2>2 DEF ScheduleEpisode, Admit, permitVars
<1>5. CASE LimiterGrant
  BY <1>5 DEF LimiterGrant, Admit
<1>6. ASSUME NEW t \in Task, HandleCompleted(t) \/ HandleMismatch(t) PROVE Shrinks
  <2>1. t \in inflight /\ currentInflight' = Released({t}) /\ UNCHANGED waiting
    BY <1>6 DEF HandleCompleted, HandleMismatch, Claim
  <2> QED BY <1>1, <2>1
<1>7. CASE RollWindow \/ EvalDrained
  BY <1>2, <1>7 DEF RollWindow, EvalDrained, permitVars
<1>8. CASE WatcherStep
  <2>1. CASE DropStale
    BY <1>3, <2>1 DEF DropStale
  <2>2. CASE VersionPending \/ PassBarrier \/ StartReceive \/ FinishUpdate
    BY <1>2, <2>2 DEF VersionPending, PassBarrier, StartReceive, FinishUpdate, permitVars
  <2> QED BY <1>8, <2>1, <2>2 DEF WatcherStep
<1>9. CASE CutStep
  <2>1. ASSUME NEW c \in Cuts, CutDrop(c) PROVE Shrinks
    BY <1>3, <2>1 DEF CutDrop
  <2>2. ASSUME NEW c \in Cuts, NEW n \in CutSizes, StartCut(c, n) PROVE Shrinks
    BY <1>2, <2>2 DEF StartCut, permitVars
  <2> QED BY <1>9, <2>1, <2>2 DEF CutStep
<1>10. CASE Drain
  <2>1. \E C \in SUBSET inflight : currentInflight' = Released(C)
    BY <1>10 DEF Drain
  <2>2. UNCHANGED waiting
    BY <1>10 DEF Drain
  <2> QED BY <1>1, <2>1, <2>2
<1>11. CASE Consume \/ Ship \/ SetLimit \/ (\E p \in Proc : FinishPut(p)) \/ UNCHANGED vars
  BY <1>2, <1>11 DEF Consume, Ship, SetLimit, FinishPut, permitVars, vars
<1> QED BY <1>4, <1>5, <1>6, <1>7, <1>8, <1>9, <1>10, <1>11 DEF Next, LoopStep, MainLoopStep

(* A cap lowered later does not shrink the pool, and an attempt may wait in  *)
(* the limiter while it is lowered; but it was dispatched below some limit.  *)
PoolInv ==
  \E l \in Limits : currentInflight <= l /\ (waiting # {} => currentInflight < l)

(* The pool never outgrows every limit the controller may give, with or      *)
(* without a rate limiter, whenever the limits change (fill_inflight, which  *)
(* checks the cap, and acquire, which takes the permit).                     *)
THEOREM PoolWithinLimits == Spec => [](\E l \in Limits : currentInflight <= l)
<1>1. Init => PoolInv
  BY DispatcherAssumption DEF Init, PoolInv, DispatcherAssumption
<1>2. ASSUME IInv, PoolInv, [Next]_vars PROVE PoolInv'
  <2>1. PICK l \in Limits : currentInflight <= l /\ (waiting # {} => currentInflight < l)
    BY <1>2 DEF PoolInv
  <2>2. /\ l \in Nat /\ maxInflight \in Limits /\ maxInflight \in Nat
        /\ currentInflight \in Int
    BY <1>2, TypeParts, DispatcherAssumption
       DEF DispatcherAssumption, IInv, AttemptTypes, OtherTypes
  <2>3. CASE /\ waiting = {} /\ currentInflight < maxInflight
             /\ \/ currentInflight' = currentInflight + 1 /\ waiting' = {}
                \/ currentInflight' = currentInflight
    BY <2>2, <2>3 DEF PoolInv
  <2>4. CASE waiting # {} /\ waiting' = {} /\ currentInflight' = currentInflight + 1
    BY <2>1, <2>2, <2>4 DEF PoolInv
  <2>5. CASE currentInflight' <= currentInflight /\ UNCHANGED waiting
    <3>1. currentInflight' \in Int
      BY <1>2, NextIInv, TypePartsNext DEF IInv, AttemptTypes
    <3> QED BY <2>1, <2>2, <2>5, <3>1 DEF PoolInv
  <2> QED BY <1>2, <2>3, <2>4, <2>5, PoolStep
<1>3. PoolInv => \E l \in Limits : currentInflight <= l
  BY DEF PoolInv
<1> QED BY <1>1, <1>2, <1>3, Invariance, PTL DEF Spec

(* "admissions just stay blocked until enough episodes finish": without a    *)
(* rate limiter, whose wait sits between the check of the cap and the        *)
(* acquisition, no admission takes the pool above the cap then in force.     *)
THEOREM AdmitsWithinCapUnlessLimited ==
  ASSUME ~RateLimited
  PROVE  Spec => AdmitsWithinCap
<1>1. Init => OrphanInv
  BY DEF Init, OrphanInv, NoOrphan
<1>2. IInv /\ OrphanInv /\ [Next]_vars => OrphanInv'
  BY NoOrphanStep
<1>3. ASSUME IInv, OrphanInv, [Next]_vars
      PROVE  currentInflight' > currentInflight => currentInflight' <= maxInflight
  <2>1. currentInflight \in Int /\ maxInflight \in Limits
    BY <1>3, TypeParts DEF IInv, AttemptTypes, OtherTypes
  <2>2. waiting = {} /\ maxInflight \in Int
    BY <1>3, <2>1, DispatcherAssumption DEF DispatcherAssumption, OrphanInv
  <2>3. currentInflight' \in Int
    BY <1>3, NextIInv, TypePartsNext DEF IInv, AttemptTypes
  <2> QED BY <1>3, <2>1, <2>2, <2>3, PoolStep
<1> QED BY <1>1, <1>2, <1>3, Invariance, PTL DEF Spec, AdmitsWithinCap
-----------------------------------------------------------------------------
(* Dispatch is blocked from the moment the watcher sees a version, and the  *)
(* barrier waits for the one attempt that may still be in the limiter.      *)
SwapInv ==
  /\ updatePending <=> watcher # "idle"
  /\ watcher \in {"drop", "receive"} => waiting = {}

LEMMA SwapStep ==
  ASSUME IInv, SwapInv, [Next]_vars
  PROVE  /\ SwapInv'
         /\ watcher \in {"drop", "receive"} => inflight' \subseteq inflight
<1> USE DEF SwapInv
<1>0. OtherTypes
  BY TypeParts DEF IInv
<1>1. CASE ContinueTrain \/ ContinueEval \/ OpenTrain \/ OpenEval
  <2>1. ~updatePending
    BY <1>1 DEF ContinueTrain, ContinueEval, OpenTrain, OpenEval, MayFillTrain,
       MayFillEval, MayFill
  <2>2. PICK g, left : ScheduleEpisode(g, left)
    BY <1>1 DEF ContinueTrain, ContinueEval, OpenTrain, OpenEval, ContinueGroup, OpenGroup
  <2>3. UNCHANGED <<updatePending, watcher>>
    BY <2>2 DEF ScheduleEpisode, watchVars
  <2> QED BY <1>0, <2>1, <2>3
<1>2. CASE RollWindow \/ EvalDrained
  BY <1>2 DEF RollWindow, EvalDrained, flagVars, watchVars, permitVars
<1>3. CASE LimiterGrant
  BY <1>3 DEF LimiterGrant, flagVars, watchVars
<1>4. ASSUME NEW t \in Task, HandleCompleted(t) \/ HandleMismatch(t)
      PROVE  SwapInv' /\ inflight' \subseteq inflight
  BY <1>4 DEF HandleCompleted, HandleMismatch, Claim, flagVars, watchVars
<1>5. CASE WatcherStep
  <2>1. CASE VersionPending
    BY <2>1 DEF VersionPending, permitVars
  <2>2. CASE PassBarrier
    BY <2>2 DEF PassBarrier, LockFree, LockHeld, flagVars, permitVars
  <2>3. CASE DropStale
    BY <2>3 DEF DropStale, DropGroup, flagVars, watchVars
  <2>4. CASE StartReceive
    BY <2>4 DEF StartReceive, flagVars, permitVars
  <2>5. CASE FinishUpdate
    BY <2>5 DEF FinishUpdate, permitVars
  <2> QED BY <1>5, <2>1, <2>2, <2>3, <2>4, <2>5 DEF WatcherStep
<1>6. CASE CutStep
  <2>1. UNCHANGED <<updatePending, watcher, waiting>> /\ inflight' \subseteq inflight
    <3>1. ASSUME NEW c \in Cuts, CutDrop(c)
          PROVE  UNCHANGED <<updatePending, watcher, waiting>> /\ inflight' \subseteq inflight
      BY <3>1 DEF CutDrop, DropGroup, flagVars, watchVars
    <3>2. ASSUME NEW c \in Cuts, NEW n \in CutSizes, StartCut(c, n)
          PROVE  UNCHANGED <<updatePending, watcher, waiting>> /\ inflight' \subseteq inflight
      BY <3>2 DEF StartCut, flagVars, watchVars, permitVars
    <3> QED BY <1>6, <3>1, <3>2 DEF CutStep
  <2> QED BY <2>1
<1>7. CASE Consume \/ Ship \/ Drain \/ SetLimit \/ (\E p \in Proc : FinishPut(p))
  BY <1>7 DEF Consume, Ship, Drain, SetLimit, FinishPut, flagVars, watchVars, permitVars
<1>8. CASE UNCHANGED vars
  BY <1>8 DEF vars
<1> QED BY <1>1, <1>2, <1>3, <1>4, <1>5, <1>6, <1>7, <1>8
        DEF Next, LoopStep, MainLoopStep

(* "No rollout can cross the inference weight swap" (on_version_pending): an*)
(* attempt is never dispatched between the barrier and the new version, with*)
(* or without a rate limiter.                                               *)
THEOREM NoDispatchCrossesSwap == Spec => NoDispatchDuringSwap
<1>1. Init => SwapInv
  BY DEF Init, SwapInv
<1>2. IInv /\ SwapInv /\ [Next]_vars => SwapInv'
  BY SwapStep
<1>3. IInv /\ SwapInv /\ [Next]_vars =>
        [(watcher \in {"drop", "receive"}) => inflight' \subseteq inflight]_vars
  BY SwapStep
<1> QED BY <1>1, <1>2, <1>3, Invariance, PTL DEF Spec, NoDispatchDuringSwap
-----------------------------------------------------------------------------
(* While the watcher drops, a live group that is still open is on its list  *)
(* or may ship after the update: it was fresh when the list was made, at a  *)
(* step past the version that is coming.                                    *)
StaleInv ==
  /\ watcher # "idle" => target < step
  /\ watcher = "drop" =>
       \A g \in TrainGroup :
         Open(g) /\ Live(g) =>
           g \in victims["watcher"] \/ gversion[g] >= MinFreshVersion(target + 1)

(* The list stays complete through every step that opens no group, keeps    *)
(* the versions and strikes off only groups that it closes.                 *)
LEMMA StaleFrame ==
  ASSUME StaleInv, UNCHANGED <<watcher, target, gversion>>, step' >= step,
         step \in Nat, step' \in Nat, target \in Nat,
         \A g \in TrainGroup : Open(g)' =>
           Open(g) /\ (g \in victims["watcher"] => g \in victims'["watcher"])
  PROVE  StaleInv'
  BY DEF StaleInv, MinFreshVersion

LEMMA StaleStep == ASSUME IInv, SwapInv, StaleInv, [Next]_vars PROVE StaleInv'
<1>0. /\ OtherTypes /\ AttemptTypes /\ TrainGroup \subseteq Group
      /\ "watcher" \in Proc /\ \A c \in Cuts : c # "watcher" /\ c \in Proc
      /\ MaxOffPolicy \in Nat
  BY TypeParts, DispatcherAssumption DEF IInv, DispatcherAssumption, Proc, Group
<1>1. ASSUME UNCHANGED <<watcher, target, gversion, gstate, victims>>, step' \in {step, step + 1}
      PROVE  StaleInv'
  BY <1>0, <1>1, StaleFrame DEF OtherTypes, Open
<1>2. CASE ContinueTrain \/ ContinueEval \/ OpenTrain \/ OpenEval
  <2>1. watcher = "idle"
    BY <1>2 DEF ContinueTrain, ContinueEval, OpenTrain, OpenEval, MayFillTrain,
       MayFillEval, MayFill, SwapInv
  <2>2. watcher' = watcher
    BY <1>2 DEF ContinueTrain, ContinueEval, OpenTrain, OpenEval, ContinueGroup,
       OpenGroup, ScheduleEpisode, watchVars
  <2> QED BY <2>1, <2>2 DEF StaleInv
<1>3. CASE RollWindow \/ EvalDrained \/ LimiterGrant
  BY <1>1, <1>3 DEF RollWindow, EvalDrained, LimiterGrant, groupVars, watchVars, dropVars
<1>4. ASSUME NEW t \in Task, HandleCompleted(t) PROVE StaleInv'
  <2>1. /\ UNCHANGED <<watcher, target, gversion, victims, step>>
        /\ CompleteMember(t[1])
    BY <1>4 DEF HandleCompleted, watchVars, dropVars
  <2>2. \A g \in Group : Open(g)' => Open(g)
    BY <1>0, <2>1 DEF CompleteMember, Open, AttemptTypes
  <2> QED BY <1>0, <2>1, <2>2, StaleFrame DEF OtherTypes
<1>5. ASSUME NEW t \in Task, HandleMismatch(t) PROVE StaleInv'
  BY <1>1, <1>5 DEF HandleMismatch, groupVars, watchVars, dropVars
<1>6. CASE VersionPending
  <2>1. target' \in (version + 1) .. (step - 1) /\ watcher' = "barrier" /\ step' = step
    BY <1>6 DEF VersionPending
  <2> QED BY <1>0, <2>1 DEF StaleInv, OtherTypes
<1>7. CASE PassBarrier
  <2>1. /\ watcher = "barrier" /\ target < step
        /\ victims' = [victims EXCEPT !["watcher"] = StaleGroups]
        /\ UNCHANGED <<gstate, gversion, target, step>>
    BY <1>7 DEF PassBarrier, StaleInv, groupVars
  <2>2. victims'["watcher"] = StaleGroups
    BY <1>0, <2>1 DEF OtherTypes
  <2>3. \A g \in TrainGroup : Open(g) /\ Live(g) /\ g \notin StaleGroups =>
          gversion[g] >= MinFreshVersion(target + 1)
    BY <1>0, <2>1 DEF StaleGroups, MinFreshVersion, OtherTypes, AttemptTypes
  <2> QED BY <2>1, <2>2, <2>3 DEF StaleInv, Open, Live, MinFreshVersion
<1>8. CASE DropStale
  <2>1. PICK g \in victims["watcher"] :
          /\ DropGroup("watcher", g, "stale")
          /\ victims' = [victims EXCEPT !["watcher"] = @ \ {g}]
    BY <1>8 DEF DropStale
  <2>2. /\ gstate' = [gstate EXCEPT ![g] = IF Open(g) THEN "closed" ELSE @]
        /\ UNCHANGED <<watcher, target, gversion, step>>
    BY <1>8, <2>1 DEF DropStale, DropGroup, watchVars
  <2>3. \A h \in TrainGroup : Open(h)' => Open(h) /\ h # g
    BY <1>0, <2>1, <2>2 DEF Open, AttemptTypes
  <2>4. victims'["watcher"] = victims["watcher"] \ {g}
    BY <1>0, <2>1 DEF OtherTypes
  <2> QED BY <1>0, <2>2, <2>3, <2>4, StaleFrame DEF OtherTypes
<1>9. CASE StartReceive \/ FinishUpdate
  <2>1. /\ watcher # "idle" /\ watcher' \in {"receive", "idle"}
        /\ UNCHANGED <<target, step>>
    BY <1>9 DEF StartReceive, FinishUpdate
  <2> QED BY <2>1 DEF StaleInv
<1>10. ASSUME NEW c \in Cuts, CutDrop(c) PROVE StaleInv'
  <2>1. PICK g \in victims[c] :
          /\ DropGroup(c, g, "overload")
          /\ victims' = [victims EXCEPT ![c] = IF need'[c] = 0 THEN {} ELSE @ \ {g}]
    BY <1>10 DEF CutDrop
  <2>2. /\ gstate' = [gstate EXCEPT ![g] = IF Open(g) THEN "closed" ELSE @]
        /\ UNCHANGED <<watcher, target, gversion, step>>
    BY <1>10, <2>1 DEF CutDrop, DropGroup, watchVars
  <2>3. \A h \in TrainGroup : Open(h)' => Open(h)
    BY <1>0, <2>2 DEF Open, AttemptTypes
  <2>4. victims'["watcher"] = victims["watcher"]
    BY <1>0, <2>1 DEF OtherTypes
  <2> QED BY <1>0, <2>2, <2>3, <2>4, StaleFrame DEF OtherTypes
<1>11. ASSUME NEW c \in Cuts, NEW n \in CutSizes, StartCut(c, n) PROVE StaleInv'
  <2>1. victims' = [victims EXCEPT ![c] = {g \in TrainGroup : InflightOf(g) # {}}]
        /\ UNCHANGED <<watcher, target, gversion, gstate, step>>
    BY <1>11 DEF StartCut, groupVars, watchVars
  <2>2. victims'["watcher"] = victims["watcher"]
    BY <1>0, <2>1 DEF OtherTypes
  <2> QED BY <1>0, <2>1, <2>2, StaleFrame DEF OtherTypes, Open
<1>12. CASE Consume \/ Ship \/ SetLimit \/ (\E p \in Proc : FinishPut(p)) \/ UNCHANGED vars
  BY <1>1, <1>12 DEF Consume, Ship, SetLimit, FinishPut, groupVars, watchVars, dropVars, vars
<1>13. CASE Drain
  <2>1. /\ UNCHANGED <<watcher, target, gversion, victims, step>>
        /\ \A g \in Group : Open(g)' => Open(g)
    BY <1>13 DEF Drain, watchVars, dropVars, Open
  <2> QED BY <1>0, <2>1, StaleFrame DEF OtherTypes
<1> QED BY <1>2, <1>3, <1>4, <1>5, <1>6, <1>7, <1>8, <1>9, <1>10, <1>11, <1>12, <1>13
        DEF Next, LoopStep, WatcherStep, CutStep, MainLoopStep

(* No live group survives into the update with a policy version too old to  *)
(* ship in the first batch after it (on_version_pending, drop_group),       *)
(* whatever cuts, completions and ships run while the watcher works through *)
(* its list.                                                                *)
THEOREM StaleWorkIsCut == Spec => StaleWorkCut
<1>1. Init => SwapInv /\ StaleInv
  BY DEF Init, SwapInv, StaleInv
<1>2. IInv /\ SwapInv /\ StaleInv /\ [Next]_vars => (SwapInv /\ StaleInv)'
  BY SwapStep, StaleStep
<1>3. StaleInv => [StartReceive => \A g \in TrainGroup :
                     Open(g) /\ Live(g) => gversion[g] >= MinFreshVersion(target + 1)]_vars
  BY DEF StaleInv, StartReceive
<1> QED BY <1>1, <1>2, <1>3, Invariance, PTL DEF Spec, StaleWorkCut
-----------------------------------------------------------------------------
(* The burst window: an attempt waiting in the limiter still has its share  *)
(* of the window, since nothing else is admitted and no window opens then.  *)
Burst(l) == Larger(MinBurst, l \div 10)
MeterInv ==
  /\ currentInflight - windowBase <= admissions
  /\ \E l \in Limits : admissions <= Burst(l)
  /\ waiting # {} => \E l \in Limits : admissions < Burst(l)

LEMMA BurstTyped == \A l \in Limits : Burst(l) \in Nat \ {0}
  BY DispatcherAssumption DEF DispatcherAssumption, Burst, Larger

LEMMA MeterFrame ==
  ASSUME MeterInv, UNCHANGED <<currentInflight, windowBase, admissions>>, waiting' \subseteq waiting
  PROVE  MeterInv'
  BY DEF MeterInv

LEMMA MeterStep == ASSUME IInv, MeterInv, [Next]_vars PROVE MeterInv'
<1>0. /\ currentInflight \in Int /\ windowBase \in Int /\ admissions \in Nat
      /\ inflight \subseteq Task /\ IsFiniteSet(inflight) /\ maxInflight \in Limits
  BY DEF IInv, TypeOK
<1>1. CASE ContinueTrain \/ ContinueEval \/ OpenTrain \/ OpenEval
  <2>1. admissions < Burst(maxInflight)
    BY <1>1 DEF ContinueTrain, ContinueEval, OpenTrain, OpenEval, MayFillTrain,
       MayFillEval, MayFill, BurstCap, Burst
  <2>2. PICK g, left : ScheduleEpisode(g, left)
    BY <1>1 DEF ContinueTrain, ContinueEval, OpenTrain, OpenEval, ContinueGroup, OpenGroup
  <2>3. /\ windowBase' = windowBase
        /\ \/ /\ currentInflight' = currentInflight + 1 /\ admissions' = admissions + 1
              /\ waiting' = waiting
           \/ UNCHANGED <<currentInflight, admissions>>
    BY <2>2 DEF ScheduleEpisode, Admit, permitVars
  <2>4. waiting = {}
    BY <1>1 DEF ContinueTrain, ContinueEval, OpenTrain, OpenEval, MayFillTrain,
       MayFillEval, MayFill, LoopReady, LockHeld
  <2> QED BY <1>0, <2>1, <2>3, <2>4, BurstTyped DEF MeterInv
<1>2. CASE RollWindow
  <2>1. /\ admissions' = 0 /\ windowBase' = currentInflight
        /\ currentInflight' = currentInflight /\ waiting' = {}
    BY <1>2 DEF RollWindow, LoopReady, LockHeld
  <2> QED BY <1>0, <2>1, BurstTyped DEF MeterInv
<1>3. CASE LimiterGrant
  <2>1. /\ currentInflight' = currentInflight + 1 /\ admissions' = admissions + 1
        /\ windowBase' = windowBase /\ waiting' = {} /\ waiting # {}
    BY <1>3 DEF LimiterGrant, Admit
  <2> QED BY <1>0, <2>1, BurstTyped DEF MeterInv
<1>4. ASSUME NEW t \in Task, HandleCompleted(t) \/ HandleMismatch(t) PROVE MeterInv'
  <2>1. /\ currentInflight' = currentInflight - 1
        /\ admissions' = Larger(0, admissions - 1)
        /\ windowBase' = windowBase /\ waiting' = waiting
    BY <1>4, FS_Singleton DEF HandleCompleted, HandleMismatch, Claim, Released, RefundAdmission
  <2> QED BY <1>0, <2>1, BurstTyped DEF MeterInv, Larger
<1>5. ASSUME NEW C \in SUBSET inflight, admissions' = admissions, waiting' = waiting,
             currentInflight' = currentInflight - Cardinality(C),
             windowBase' = windowBase - Cardinality(C)
      PROVE  MeterInv'
  <2>1. Cardinality(C) \in Nat
    BY <1>0, RemoveAttempts
  <2> QED BY <1>0, <1>5, <2>1 DEF MeterInv
<1>6. ASSUME NEW p \in Proc, NEW g \in TrainGroup, NEW r \in {"stale", "overload"},
             DropGroup(p, g, r), UNCHANGED waiting
      PROVE  MeterInv'
  BY <1>5, <1>6 DEF DropGroup, Released, KeepAdmissions, InflightOf
<1>7. CASE Drain
  BY <1>5, <1>7 DEF Drain, Released
<1>8. CASE WatcherStep
  <2>1. CASE DropStale
    <3>1. PICK g \in victims["watcher"] : DropGroup("watcher", g, "stale")
      BY <2>1 DEF DropStale
    <3>2. g \in TrainGroup /\ "watcher" \in Proc
      BY <3>1, TypeParts DEF IInv, OtherTypes, Proc
    <3> QED BY <1>6, <2>1, <3>1, <3>2 DEF DropStale
  <2>2. CASE VersionPending \/ PassBarrier \/ StartReceive \/ FinishUpdate
    BY <2>2, MeterFrame DEF VersionPending, PassBarrier, StartReceive, FinishUpdate, permitVars
  <2> QED BY <1>8, <2>1, <2>2 DEF WatcherStep
<1>9. CASE CutStep
  <2>1. ASSUME NEW c \in Cuts, CutDrop(c) PROVE MeterInv'
    <3>1. PICK g \in victims[c] : DropGroup(c, g, "overload")
      BY <2>1 DEF CutDrop
    <3>2. g \in TrainGroup /\ c \in Proc
      BY <3>1, TypeParts DEF IInv, OtherTypes, Proc
    <3> QED BY <1>6, <2>1, <3>1, <3>2 DEF CutDrop
  <2>2. ASSUME NEW c \in Cuts, NEW n \in CutSizes, StartCut(c, n) PROVE MeterInv'
    BY <2>2, MeterFrame DEF StartCut, permitVars
  <2> QED BY <1>9, <2>1, <2>2 DEF CutStep
<1>10. CASE \/ EvalDrained \/ Consume \/ Ship \/ SetLimit
            \/ (\E p \in Proc : FinishPut(p)) \/ UNCHANGED vars
  BY <1>10, MeterFrame DEF EvalDrained, Consume, Ship, SetLimit, FinishPut, permitVars, vars
<1> QED BY <1>1, <1>2, <1>3, <1>4, <1>7, <1>8, <1>9, <1>10
        DEF Next, LoopStep, MainLoopStep

(* Within a burst window the pool grows by no more than the window admitted,*)
(* which stays within the burst cap, however many attempts a shed frees     *)
(* (admission_budget, release, drop_group).                                 *)
THEOREM PoolGrowthIsMetered == Spec => []GrowthIsMetered
<1>1. Init => MeterInv
  BY BurstTyped, DispatcherAssumption DEF Init, MeterInv, DispatcherAssumption
<1>2. IInv /\ MeterInv /\ [Next]_vars => MeterInv'
  BY MeterStep
<1>3. MeterInv => GrowthIsMetered
  BY DEF MeterInv, GrowthIsMetered, Burst
<1> QED BY <1>1, <1>2, <1>3, Invariance, PTL DEF Spec
-----------------------------------------------------------------------------
(* The dispatcher implements the group ledger, for every instance: each of  *)
(* its steps opens a group, settles part of what one group owes, abandons   *)
(* work, or leaves the account alone.                                       *)

(* A group never owes more than its size, even when it was dropped while    *)
(* one of its attempts waits in the limiter: that attempt is not among      *)
(* those in flight.                                                         *)
UnsettledTyped == \A g \in Group : Unsettled(g) \in 0 .. GroupSize
LEMMA UnsettledBound == IInv => UnsettledTyped
<1> SUFFICES ASSUME IInv, NEW g \in Group PROVE Unsettled(g) \in 0 .. GroupSize
  BY DEF UnsettledTyped
<1>1. AttemptTypes /\ AttemptInv /\ GroupInv(g) /\ GroupSize \in Nat
  BY TypeParts, DispatcherAssumption DEF IInv, AttemptInv, DispatcherAssumption
<1>2. /\ Fl(g) \in 0 .. GroupSize /\ Wt(g) \in 0 .. GroupSize
      /\ emitted[g] \in Nat /\ toSchedule[g] \in Nat
  BY <1>1, CountTypes DEF IInv, AttemptTypes
<1>3. CASE Open(g)
  <2>1. Unsettled(g) = Fl(g) + Wt(g) + toSchedule[g]
    BY <1>3 DEF Unsettled, Fl, Wt
  <2>2. emitted[g] + Fl(g) + Wt(g) + toSchedule[g] <= GroupSize
    BY <1>1, <1>3 DEF GroupInv
  <2> QED BY <1>1, <1>2, <2>1, <2>2
<1>4. CASE ~Open(g)
  <2>1. Unsettled(g) = Fl(g) + Wt(g)
    BY <1>2, <1>4 DEF Unsettled, Fl, Wt
  <2>2. CASE WaitingOf(g) = {}
    BY <1>2, <2>1, <2>2, FS_EmptySet DEF Wt
  <2>3. CASE WaitingOf(g) # {}
    <3>1. PICK t \in waiting : t[1] = g
      BY <2>3 DEF WaitingOf
    <3>2. WaitingOf(g) = {t} /\ t \in Task \ inflight /\ inflight \in SUBSET Task
      BY <1>1, <3>1 DEF WaitingOf, AttemptTypes, AttemptInv
    <3>3. Wt(g) = 1
      BY <3>2, FS_Singleton DEF Wt
    <3>4. Cardinality(Of(inflight \cup {t}, g)) = Fl(g) + 1
      <4>1. Cardinality(Of(inflight \cup {t}, t[1])) = Cardinality(Of(inflight, t[1])) + 1
        BY <3>2, AddAttempt
      <4> QED BY <3>1, <4>1 DEF Fl, InflightOf, Of
    <3>5. Cardinality(Of(inflight \cup {t}, g)) \in 0 .. GroupSize
      BY <3>2, GroupAttempts
    <3>6. Fl(g) + 1 <= GroupSize
      BY <3>4, <3>5
    <3> QED BY <1>1, <1>2, <2>1, <3>3, <3>6
  <2> QED BY <2>2, <2>3
<1> QED BY <1>3, <1>4
-----------------------------------------------------------------------------
(* The three kinds of step, on the dispatcher's own state.                  *)
Opens(g) ==
  /\ g \notin OpenedGroups
  /\ OpenedGroups' = OpenedGroups \cup {g}
  /\ posted' = posted
  /\ Unsettled(g)' = GroupSize
  /\ \A h \in Group \ {g} : Unsettled(h)' = Unsettled(h)
Settles(g, n) ==
  /\ g \in OpenedGroups
  /\ OpenedGroups' = OpenedGroups
  /\ posted' = [posted EXCEPT ![g] = @ + n]
  /\ Unsettled(g)' = Unsettled(g) - n
  /\ \A h \in Group \ {g} : Unsettled(h)' = Unsettled(h)
Gives ==
  /\ OpenedGroups' = OpenedGroups
  /\ posted' = posted
  /\ \A h \in Group : Unsettled(h)' <= Unsettled(h)

(* They are the ledger's actions under the refinement mapping.              *)
LEMMA LedgerMap ==
  ASSUME IInv, IInv',
         \/ \E g \in Group : Opens(g)
         \/ \E g \in Group : \E n \in 1 .. GroupSize : Settles(g, n)
         \/ Gives
  PROVE  Ledger!Next
<1> DEFINE owed == [g \in Group |-> Unsettled(g)]
<1>1. /\ \A g \in Group : Unsettled(g) \in 0 .. GroupSize
      /\ \A g \in Group : Unsettled(g)' \in 0 .. GroupSize
      /\ posted \in [Group -> Nat] /\ posted' \in [Group -> Nat]
      /\ GroupSize \in Nat
  <2>1. UnsettledTyped /\ UnsettledTyped'
    BY UnsettledBound, PTL
  <2> QED BY <2>1, DispatcherAssumption DEF UnsettledTyped, IInv, TypeOK, DispatcherAssumption
<1>2. owed' = [g \in Group |-> Unsettled(g)']
  OBVIOUS
<1>3. ASSUME NEW g \in Group, Opens(g) PROVE Ledger!Open(g)
  <2>1. owed' = [owed EXCEPT ![g] = GroupSize]
    BY <1>1, <1>2, <1>3 DEF Opens
  <2> QED BY <1>3, <2>1 DEF Opens, Ledger!Open
<1>4. ASSUME NEW g \in Group, NEW n \in 1 .. GroupSize, Settles(g, n) PROVE Ledger!Settle(g)
  <2>1. posted'[g] = posted[g] + n /\ n > 0
    BY <1>1, <1>4 DEF Settles
  <2>2. Unsettled(g)' = Unsettled(g) - (posted'[g] - posted[g])
    BY <1>1, <1>4, <2>1 DEF Settles
  <2>3. owed' = [owed EXCEPT ![g] = @ - (posted'[g] - posted[g])]
    BY <1>1, <1>2, <1>4, <2>2 DEF Settles
  <2>4. posted'[g] <= posted[g] + owed[g]
    BY <1>1, <2>1, <2>2
  <2>5. posted' = [posted EXCEPT ![g] = posted'[g]]
    BY <1>1, <1>4, <2>1 DEF Settles
  <2>6. posted[g] < posted'[g]
    BY <1>1, <2>1
  <2> QED BY <1>4, <2>3, <2>4, <2>5, <2>6 DEF Settles, Ledger!Settle
<1>5. CASE Gives
  <2>1. owed' \in [Group -> 0 .. GroupSize]
    BY <1>1, <1>2
  <2>2. \A g \in Group : owed'[g] <= owed[g]
    BY <1>1, <1>2, <1>5 DEF Gives
  <2> QED BY <1>5, <2>1, <2>2 DEF Gives, Ledger!Abandon, Ledger!Next
<1> QED BY <1>3, <1>4, <1>5 DEF Ledger!Next

LEMMA LedgerInit == Init => Ledger!Init
<1> SUFFICES ASSUME Init PROVE Ledger!Init
  OBVIOUS
<1>1. OpenedGroups = {}
  BY DEF Init, OpenedGroups
<1>2. \A g \in Group : Unsettled(g) = 0
  BY FS_EmptySet DEF Init, Unsettled, InflightOf, WaitingOf, Open
<1>3. posted = [g \in Group |-> 0]
  BY DEF Init
<1> QED BY <1>1, <1>2, <1>3 DEF Ledger!Init
-----------------------------------------------------------------------------
(* What the account of the ledger is made of.                               *)
LEMMA FrameGives ==
  ASSUME IInv, UNCHANGED <<gstate, toSchedule, inflight, waiting, posted>>
  PROVE  Gives
<1>1. \A h \in Group : Unsettled(h)' = Unsettled(h)
  BY DEF Unsettled, InflightOf, WaitingOf, Open
<1>2. \A h \in Group : Unsettled(h) \in Int
  BY UnsettledBound DEF UnsettledTyped
<1> QED BY <1>1, <1>2 DEF Gives, OpenedGroups

(* Dispatching a member of an open group only moves the attempt; dispatching*)
(* the first of a fresh one opens the account.                              *)
LEMMA FillMaps ==
  ASSUME IInv, ContinueTrain \/ ContinueEval \/ OpenTrain \/ OpenEval
  PROVE  Gives \/ \E g \in Group : Opens(g)
<1>0. AttemptTypes /\ AttemptInv /\ GroupSize \in Nat \ {0} /\ waiting = {}
  BY TypeParts, DispatcherAssumption DEF IInv, DispatcherAssumption, ContinueTrain,
     ContinueEval, OpenTrain, OpenEval, MayFillTrain, MayFillEval, MayFill, LoopReady,
     LockHeld
<1>1. PICK g \in Group : (ContinueGroup(g) /\ g \in Partial(Group)) \/ OpenGroup(g)
  BY DEF ContinueTrain, ContinueEval, OpenTrain, OpenEval, Partial, Group
<1>2. Fl(g) \in Nat /\ toSchedule[g] \in 0 .. GroupSize
  BY <1>0, CountTypes DEF IInv, AttemptTypes
<1>3. \A h \in Group : Unsettled(h) \in Int
  BY UnsettledBound DEF UnsettledTyped
<1>4. CASE ContinueGroup(g) /\ g \in Partial(Group)
  <2> DEFINE left == toSchedule[g]
  <2>1. /\ left \in 1 .. GroupSize /\ Open(g) /\ ScheduleEpisode(g, left)
        /\ UNCHANGED <<gstate, gversion>>
    BY <1>0, <1>2, <1>4 DEF Partial, ContinueGroup
  <2>2. UNCHANGED <<posted, loop>> /\ gversion' \in [Group -> Nat]
    BY <1>0, <2>1 DEF ScheduleEpisode, queueVars, AttemptTypes
  <2>3. /\ Unsettled(g)' = Fl(g) + left /\ Wt(g) = 0
        /\ \A h \in Group \ {g} : Unsettled(h)' = Unsettled(h)
    BY <1>0, <2>1, <2>2, ScheduleKeeps
  <2>4. Unsettled(g) = Fl(g) + left
    BY <1>2, <2>1, <2>3 DEF Unsettled, Fl, Wt
  <2> QED BY <1>3, <2>1, <2>2, <2>3, <2>4 DEF Gives, OpenedGroups
<1>5. CASE OpenGroup(g)
  <2>1. /\ GroupSize \in 1 .. GroupSize /\ ScheduleEpisode(g, GroupSize)
        /\ gstate[g] = "fresh" /\ gstate' = [gstate EXCEPT ![g] = "open"]
    BY <1>0, <1>5 DEF OpenGroup
  <2>2. UNCHANGED <<posted, loop>> /\ gversion' \in [Group -> Nat]
    <3>1. version \in Nat
      BY TypeParts DEF IInv, OtherTypes
    <3> QED BY <1>0, <1>5, <2>1, <3>1 DEF OpenGroup, ScheduleEpisode, queueVars, AttemptTypes
  <2>3. /\ Unsettled(g)' = Fl(g) + GroupSize
        /\ \A h \in Group \ {g} : Unsettled(h)' = Unsettled(h)
    BY <1>0, <2>1, <2>2, ScheduleKeeps
  <2>4. Fl(g) = 0
    BY <1>0, <2>1 DEF AttemptInv, GroupInv
  <2>5. g \notin OpenedGroups /\ OpenedGroups' = OpenedGroups \cup {g}
    BY <1>0, <2>1 DEF OpenedGroups, AttemptTypes
  <2>6. Unsettled(g)' = GroupSize
    BY <1>0, <2>3, <2>4
  <2> QED BY <2>2, <2>3, <2>5, <2>6 DEF Opens
<1> QED BY <1>1, <1>4, <1>5

(* A drop settles what the group owes, or nothing if it owes nothing.       *)
LEMMA DropMaps ==
  ASSUME IInv, NEW p \in Proc, NEW g \in TrainGroup, NEW r \in {"stale", "overload"},
         DropGroup(p, g, r), UNCHANGED <<waiting, loop, trainDisabled>>
  PROVE  Gives \/ \E n \in 1 .. GroupSize : Settles(g, n)
<1>0. AttemptTypes /\ AttemptInv /\ GroupSize \in Nat \ {0} /\ g \in Group
  BY TypeParts, DispatcherAssumption DEF IInv, DispatcherAssumption, Group
<1>1. /\ Owed(g) \in 0 .. GroupSize
      /\ posted' = [posted EXCEPT ![g] = @ + Owed(g)]
      /\ Unsettled(g)' = Unsettled(g) - Owed(g)
      /\ \A h \in Group \ {g} : Unsettled(h)' = Unsettled(h)
  BY DropKeeps
<1>2. OpenedGroups' = OpenedGroups
  BY <1>0 DEF DropGroup, OpenedGroups, Open, AttemptTypes
<1>3. \A h \in Group : Unsettled(h) \in Int
  BY UnsettledBound DEF UnsettledTyped
<1>4. CASE Owed(g) = 0
  <2>1. posted' = posted
    BY <1>0, <1>1, <1>4 DEF AttemptTypes
  <2>2. Unsettled(g)' <= Unsettled(g)
    BY <1>0, <1>1, <1>3, <1>4
  <2> QED BY <1>1, <1>2, <1>3, <2>1, <2>2 DEF Gives
<1>5. CASE Owed(g) # 0
  <2>1. Owed(g) \in 1 .. GroupSize
    BY <1>0, <1>1, <1>5
  <2>2. g \in OpenedGroups
    <3>1. CASE gstate[g] = "fresh"
      <4>1. Fl(g) = 0 /\ ~Open(g)
        BY <1>0, <3>1 DEF AttemptInv, GroupInv, Open
      <4> QED BY <1>5, <4>1 DEF Owed, Fl
    <3> QED BY <1>0, <3>1 DEF OpenedGroups
  <2> QED BY <1>1, <1>2, <2>1, <2>2 DEF Settles
<1> QED BY <1>4, <1>5

(* A completion settles one attempt of a group that has been opened.        *)
LEMMA CompletedMaps ==
  ASSUME IInv, NEW t \in Task, HandleCompleted(t)
  PROVE  \E g \in Group : \E n \in 1 .. GroupSize : Settles(g, n)
<1>0. AttemptTypes /\ AttemptInv /\ GroupSize \in Nat \ {0} /\ t[1] \in Group
  BY TypeParts, DispatcherAssumption DEF IInv, DispatcherAssumption, Task
<1>1. /\ posted' = [posted EXCEPT ![t[1]] = @ + 1]
      /\ Unsettled(t[1])' = Unsettled(t[1]) - 1
      /\ \A h \in Group \ {t[1]} : Unsettled(h)' = Unsettled(h)
  BY CompletedKeeps
<1>2. t \in inflight /\ Claim(t)
  BY DEF HandleCompleted
<1>3. gstate[t[1]] # "fresh"
  BY <1>0, <1>2, ClaimEffect DEF AttemptInv, GroupInv
<1>4. t[1] \in OpenedGroups /\ OpenedGroups' = OpenedGroups
  BY <1>0, <1>3 DEF HandleCompleted, CompleteMember, OpenedGroups, Open, AttemptTypes
<1>5. Settles(t[1], 1)
  BY <1>0, <1>1, <1>4 DEF Settles
<1>6. 1 \in 1 .. GroupSize
  BY <1>0
<1> QED BY <1>0, <1>5, <1>6

(* The drain and a dead dispatch task abandon work without a message.       *)
LEMMA AbandonMaps ==
  ASSUME IInv, Drain \/ (\E t \in Task : HandleMismatch(t)) \/ LimiterGrant
  PROVE  Gives
<1>1. CASE Drain
  BY <1>1, DrainKeeps DEF Drain, queueVars, Gives, OpenedGroups, Open
<1>2. CASE \E t \in Task : HandleMismatch(t)
  BY <1>2, MismatchKeeps DEF HandleMismatch, groupVars, queueVars, Gives, OpenedGroups
<1>3. CASE LimiterGrant
  <2>1. \A h \in Group : Unsettled(h) \in Int
    BY UnsettledBound DEF UnsettledTyped
  <2> QED BY <1>3, <2>1, LimiterGrantKeeps DEF LimiterGrant, groupVars, queueVars, Gives,
          OpenedGroups
<1> QED BY <1>1, <1>2, <1>3

LEMMA StepMaps == ASSUME IInv, IInv', [Next]_vars PROVE [Ledger!Next]_Ledger!ledger
<1>1. CASE LoopStep
  <2>1. CASE RollWindow \/ EvalDrained
    BY <2>1, FrameGives, LedgerMap DEF RollWindow, EvalDrained, groupVars, queueVars,
       permitVars
  <2>2. CASE ContinueTrain \/ ContinueEval \/ OpenTrain \/ OpenEval
    BY <2>2, FillMaps, LedgerMap
  <2>3. CASE LimiterGrant \/ \E t \in Task : HandleMismatch(t)
    BY <2>3, AbandonMaps, LedgerMap
  <2>4. CASE \E t \in Task : HandleCompleted(t)
    BY <2>4, CompletedMaps, LedgerMap
  <2> QED BY <1>1, <2>1, <2>2, <2>3, <2>4 DEF LoopStep
<1>2. CASE WatcherStep
  <2>1. CASE DropStale
    <3>1. PICK g \in victims["watcher"] : DropGroup("watcher", g, "stale")
      BY <2>1 DEF DropStale
    <3>2. "watcher" \in Proc /\ g \in TrainGroup /\ g \in Group
      BY <3>1, TypeParts DEF IInv, OtherTypes, Proc, Group
    <3>3. UNCHANGED <<waiting, loop, trainDisabled>>
      BY <2>1 DEF DropStale, flagVars
    <3> QED BY <3>1, <3>2, <3>3, DropMaps, LedgerMap
  <2>2. CASE VersionPending \/ PassBarrier \/ StartReceive \/ FinishUpdate
    BY <2>2, FrameGives, LedgerMap DEF VersionPending, PassBarrier, StartReceive,
       FinishUpdate, groupVars, permitVars, queueVars
  <2> QED BY <1>2, <2>1, <2>2 DEF WatcherStep
<1>3. CASE CutStep
  <2>1. ASSUME NEW c \in Cuts, CutDrop(c) PROVE Ledger!Next
    <3>1. PICK g \in victims[c] : DropGroup(c, g, "overload")
      BY <2>1 DEF CutDrop
    <3>2. c \in Proc /\ g \in TrainGroup /\ g \in Group
      BY <3>1, TypeParts DEF IInv, OtherTypes, Proc, Group
    <3>3. UNCHANGED <<waiting, loop, trainDisabled>>
      BY <2>1 DEF CutDrop, flagVars
    <3> QED BY <3>1, <3>2, <3>3, DropMaps, LedgerMap
  <2>2. ASSUME NEW c \in Cuts, NEW n \in CutSizes, StartCut(c, n) PROVE Ledger!Next
    BY <2>2, FrameGives, LedgerMap DEF StartCut, groupVars, permitVars, queueVars
  <2> QED BY <1>3, <2>1, <2>2 DEF CutStep
<1>4. CASE MainLoopStep
  <2>1. CASE Consume \/ Ship
    BY <2>1, FrameGives, LedgerMap DEF Consume, Ship, groupVars, permitVars, queueVars
  <2> QED BY <1>4, <2>1, AbandonMaps, LedgerMap DEF MainLoopStep
<1>5. CASE SetLimit \/ \E p \in Proc : FinishPut(p)
  BY <1>5, FrameGives, LedgerMap DEF SetLimit, FinishPut, groupVars, permitVars, queueVars
<1>6. CASE UNCHANGED vars
  BY <1>6, FrameGives, LedgerMap DEF vars
<1> QED BY <1>1, <1>2, <1>3, <1>4, <1>5, <1>6 DEF Next

(* The dispatcher implements the group ledger: whatever the sinks conclude  *)
(* from the ledger (a group is complete after group_size settled attempts,  *)
(* never earlier, never twice) holds of the dispatcher's messages, with or  *)
(* without a rate limiter.                                                  *)
THEOREM DispatcherKeepsLedger == Spec => LedgerSpec
<1>1. IInv /\ IInv' /\ [Next]_vars => [Ledger!Next]_Ledger!ledger
  BY StepMaps
<1> QED BY <1>1, LedgerInit, Invariance, PTL DEF Spec, LedgerSpec, Ledger!Spec
-----------------------------------------------------------------------------
(* The pipeline.                                                           *)

(* What the watcher applies is the trainer's version or the one before: it *)
(* is behind only while the trainer has nothing newer acknowledged.        *)
Lockstep ==
  /\ target = IF watcher = "idle" THEN version ELSE version + 1
  /\ tstep \in {target, target + 1}
  /\ trainer = "batch" => tstep = target + 1 /\ tstep <= step
  /\ trainer # "batch" => tstep < step
  /\ trainer \in {"offer", "dead"} /\ tstep = target => watcher # "idle"
  /\ trainer \in {"transfer", "done"} => tstep = target
  /\ trainer = "done" => tstep = MaxStep

ExitApplied == main = "stopped" /\ ~expired => Applied(MaxStep)

Counters ==
  /\ version \in Nat /\ target \in Nat /\ step \in Nat
  /\ watcher \in {"idle", "barrier", "drop", "receive"}

PInv == Counters /\ PipelineTypeOK /\ Lockstep /\ ExitApplied

Bounds == MaxStep \in Nat /\ MaxStep > 0

LEMMA BoundsHold == Bounds
BY DispatcherAssumption, PipelineAssumption
   DEF DispatcherAssumption, PipelineAssumption, Bounds
-----------------------------------------------------------------------------
(* The dispatch tasks move neither the version nor the step.               *)
counters == <<watcher, target, version, step>>

LEMMA DispatchFrame ==
  ASSUME LoopStep \/ CutStep \/ SetLimit \/ \E p \in Proc : FinishPut(p)
  PROVE  UNCHANGED counters
<1> USE DEF counters, watchVars
<1>1. CASE RollWindow \/ EvalDrained \/ LimiterGrant
  BY <1>1 DEF RollWindow, EvalDrained, LimiterGrant
<1>2. CASE ContinueTrain \/ ContinueEval \/ OpenTrain \/ OpenEval
  BY <1>2 DEF ContinueTrain, ContinueEval, OpenTrain, OpenEval, ContinueGroup,
     OpenGroup, ScheduleEpisode
<1>3. CASE \E t \in Task : HandleCompleted(t) \/ HandleMismatch(t)
  BY <1>3 DEF HandleCompleted, HandleMismatch
<1>4. CASE CutStep
  BY <1>4 DEF CutStep, CutDrop, StartCut
<1>5. CASE SetLimit \/ \E p \in Proc : FinishPut(p)
  BY <1>5 DEF SetLimit, FinishPut
<1> QED BY <1>1, <1>2, <1>3, <1>4, <1>5 DEF LoopStep

(* The main loop moves the step alone, and only forward.                   *)
LEMMA MainFrame ==
  ASSUME MainStep, PInv
  PROVE  /\ UNCHANGED <<watcher, target, version, trainer, tstep, watcherTask>>
         /\ step' \in {step, step + 1}
<1>1. CASE Poll \/ GetExpires \/ Stop \/ FailWaiting
  BY <1>1 DEF Poll, GetExpires, Stop, FailWaiting, vars, PInv, Counters
<1>2. CASE Take
  BY <1>2 DEF Take, Consume, watchVars, PInv, Counters
<1>3. CASE ShipHeld
  BY <1>3 DEF ShipHeld, Ship, watchVars, PInv, Counters
<1>4. CASE FinalDrain
  BY <1>4 DEF FinalDrain, DrainWhenApplied, DrainExpired, Drain, watchVars, PInv,
     Counters
<1> QED BY <1>1, <1>2, <1>3, <1>4 DEF MainStep

LEMMA MainTyped ==
  ASSUME MainStep, PInv
  PROVE  PipelineTypeOK' /\ ExitApplied'
<1>1. CASE Poll \/ GetExpires \/ Stop \/ FailWaiting
  BY <1>1, MainFrame DEF Poll, GetExpires, Stop, FailWaiting, vars, PInv,
     PipelineTypeOK, ExitApplied, Applied
<1>2. CASE Take \/ ShipHeld
  BY <1>2, MainFrame DEF Take, ShipHeld, PInv, PipelineTypeOK, ExitApplied, Applied
<1>3. CASE FinalDrain
  BY <1>3, MainFrame DEF FinalDrain, DrainWhenApplied, DrainExpired, PInv,
     PipelineTypeOK, ExitApplied, Applied
<1> QED BY <1>1, <1>2, <1>3 DEF MainStep
-----------------------------------------------------------------------------
LEMMA PInvInit == PipelineInit => PInv
<1> SUFFICES ASSUME PipelineInit PROVE PInv
  OBVIOUS
<1>1. watcher = "idle" /\ target = 0 /\ version = 0 /\ step = 1
  BY DEF PipelineInit, Init
<1>2. /\ main = "top" /\ trainer = "batch" /\ tstep = 1
      /\ watcherTask = "running" /\ expired = FALSE
  BY DEF PipelineInit
<1>3. Counters
  BY <1>1 DEF Counters
<1>4. Lockstep
  BY <1>1, <1>2 DEF Lockstep
<1>5. tstep \in 1 .. MaxStep
  BY <1>2, BoundsHold DEF Bounds
<1>6. PipelineTypeOK /\ ExitApplied
  BY <1>2, <1>5 DEF PipelineTypeOK, ExitApplied
<1> QED BY <1>3, <1>4, <1>6 DEF PInv

LEMMA MainKeeps ==
  ASSUME MainStep, PInv
  PROVE  PInv'
<1>1. Counters' /\ Lockstep'
  BY MainFrame, BoundsHold DEF PInv, Counters, PipelineTypeOK, Lockstep, Bounds
<1> QED BY <1>1, MainTyped DEF PInv

LEMMA DispatchKeeps ==
  ASSUME DispatchStep, PInv
  PROVE  PInv'
BY DispatchFrame DEF DispatchStep, pipeVars, counters, PInv, Counters, PipelineTypeOK,
   Lockstep, ExitApplied, Applied

LEMMA TrainerKeeps ==
  ASSUME TrainerStep, PInv
  PROVE  PInv'
<1> USE BoundsHold DEF Bounds, PInv, Counters, PipelineTypeOK, Lockstep, ExitApplied,
        Applied, vars
<1>1. CASE Train
  BY <1>1 DEF Train, BatchShipped
<1>2. CASE Commit
  BY <1>2 DEF Commit
<1>3. CASE OfferExpires
  BY <1>3 DEF OfferExpires
<1> QED BY <1>1, <1>2, <1>3 DEF TrainerStep

LEMMA UpdateKeeps ==
  ASSUME UpdateStep, PInv
  PROVE  PInv'
<1> USE BoundsHold DEF Bounds, PInv, Counters, PipelineTypeOK, Lockstep, ExitApplied,
        Applied
<1>1. CASE SeeOffer
  <2>1. watcher = "idle" /\ watcher' = "barrier" /\ target' = tstep /\ target = version
    BY <1>1 DEF SeeOffer, VersionPending
  <2>2. UNCHANGED <<version, step, main, trainer, tstep, watcherTask, expired>>
    BY <1>1 DEF SeeOffer, VersionPending, pipeVars
  <2>3. trainer = "offer" /\ tstep = target + 1
    BY <1>1, <2>1 DEF SeeOffer, Newer
  <2> QED BY <2>1, <2>2, <2>3
<1>2. CASE WatchStep
  BY <1>2 DEF WatchStep, PassBarrier, DropStale, StartReceive, pipeVars, watchVars
<1>3. CASE Ack
  BY <1>3 DEF Ack, vars
<1>4. CASE Swap
  <2>1. watcher = "receive" /\ watcher' = "idle" /\ version' = target
    BY <1>4 DEF Swap, FinishUpdate
  <2>2. UNCHANGED <<target, step, main, trainer, tstep, watcherTask, expired>>
    BY <1>4 DEF Swap, FinishUpdate, pipeVars
  <2>3. tstep > target \/ trainer \in {"transfer", "done"}
    BY <1>4 DEF Swap, EnginesHold, Finished, Acknowledged
  <2> QED BY <2>1, <2>2, <2>3
<1>5. CASE UpdateFails
  BY <1>5 DEF UpdateFails, vars
<1> QED BY <1>1, <1>2, <1>3, <1>4, <1>5 DEF UpdateStep

LEMMA PInvNext ==
  ASSUME PInv, [PipelineNext]_pvars
  PROVE  PInv'
<1>1. CASE PipelineNext
  BY <1>1, MainKeeps, UpdateKeeps, TrainerKeeps, DispatchKeeps DEF PipelineNext
<1>2. CASE UNCHANGED pvars
  BY <1>2 DEF pvars, PInv, Counters, PipelineTypeOK, Lockstep, ExitApplied, Applied
<1> QED BY <1>1, <1>2

LEMMA PInvAlways == PipelineSpec => []PInv
<1>1. PInv /\ [PipelineNext]_pvars => PInv'
  BY PInvNext
<1> QED BY PInvInit, <1>1, PTL DEF PipelineSpec
-----------------------------------------------------------------------------
(* The orchestrator and the trainer keep their types.                      *)
THEOREM PipelineTyped == PipelineSpec => []PipelineTypeOK
<1>1. PInv => PipelineTypeOK
  BY DEF PInv
<1> QED BY <1>1, PInvAlways, PTL

(* Every offer is new to inference and belongs to a shipped batch, for any  *)
(* number of groups, steps and failures.                                    *)
THEOREM OffersAlwaysDue == PipelineSpec => []OffersAreDue
<1>1. PInv => OffersAreDue
  BY DEF PInv, Counters, PipelineTypeOK, Lockstep, OffersAreDue
<1> QED BY <1>1, PInvAlways, PTL

(* A clean exit that did not time out leaves no trainer in its handshake.  *)
THEOREM ExitNeverStrands == PipelineSpec => []ExitFreesTrainer
<1>1. PInv => ExitFreesTrainer
  BY BoundsHold DEF PInv, Counters, PipelineTypeOK, Lockstep, ExitApplied, Applied,
     ExitFreesTrainer, Bounds
<1> QED BY <1>1, PInvAlways, PTL

(* Inference applies the trainer's versions one by one.                    *)
THEOREM VersionsInOrder == PipelineSpec => NoVersionSkipped
<1>1. ASSUME PInv, [PipelineNext]_pvars
      PROVE  [version' # version => version' = version + 1]_pvars
  <2>1. CASE MainStep
    BY <1>1, <2>1, MainFrame
  <2>2. CASE DispatchStep
    BY <2>2, DispatchFrame DEF DispatchStep, counters
  <2>3. CASE TrainerStep
    BY <2>3 DEF TrainerStep, Train, Commit, OfferExpires, vars
  <2>4. CASE UpdateStep
    <3>1. CASE Swap
      BY <1>1, <3>1 DEF Swap, FinishUpdate, PInv, Lockstep
    <3>2. CASE SeeOffer \/ WatchStep \/ Ack \/ UpdateFails
      BY <3>2 DEF SeeOffer, VersionPending, WatchStep, PassBarrier, DropStale,
         StartReceive, Ack, UpdateFails, vars, watchVars
    <3> QED BY <2>4, <3>1, <3>2 DEF UpdateStep
  <2> QED BY <1>1, <2>1, <2>2, <2>3, <2>4 DEF PipelineNext
<1> QED BY <1>1, PInvAlways, PTL DEF PipelineSpec, NoVersionSkipped

(* Every behaviour of the pipeline is one of the dispatcher, so what        *)
(* is proved of Spec above holds of the whole run.                         *)
THEOREM PipelineRunsDispatcher == PipelineSpec => Spec
<1>1. PipelineInit => Init
  BY DEF PipelineInit
<1>2. ASSUME [PipelineNext]_pvars
      PROVE  [Next]_vars
  <2>1. CASE MainStep
    BY <2>1 DEF MainStep, Poll, GetExpires, Take, ShipHeld, FinalDrain,
       DrainWhenApplied, DrainExpired, Stop, FailWaiting, Next, MainLoopStep
  <2>2. CASE UpdateStep
    BY <2>2 DEF UpdateStep, SeeOffer, WatchStep, Ack, Swap, UpdateFails, Next,
       WatcherStep
  <2>3. CASE TrainerStep
    BY <2>3 DEF TrainerStep, Train, Commit, OfferExpires
  <2>4. CASE DispatchStep
    BY <2>4 DEF DispatchStep, Next
  <2>5. CASE UNCHANGED pvars
    BY <2>5 DEF pvars, vars
  <2> QED BY <1>2, <2>1, <2>2, <2>3, <2>4, <2>5 DEF PipelineNext
<1> QED BY <1>1, <1>2, PTL DEF PipelineSpec, Spec
-----------------------------------------------------------------------------
(* From the moment the main loop finds the pipeline drained, nothing is in  *)
(* flight and the evals stay settled: the train sources are off, and the    *)
(* last version, whose eval was the last to be triggered, is applied.       *)
ExitInv ==
  /\ main \in {"broadcast", "stopped"} => trainDisabled
  /\ trainDisabled /\ ~expired => Applied(MaxStep)
  /\ main \in {"broadcast", "stopped"} /\ ~expired => inflight = {} /\ EvalSettled

(* With the last version applied the watcher rests, for good.               *)
LEMMA WatcherRests ==
  ASSUME PInv, Applied(MaxStep)
  PROVE  watcher = "idle" /\ ~UpdateStep
<1>1. version = MaxStep /\ target = MaxStep /\ tstep = MaxStep /\ watcher = "idle"
  BY BoundsHold DEF PInv, Counters, PipelineTypeOK, Lockstep, Applied, Bounds
<1>2. ~SeeOffer
  BY <1>1, BoundsHold DEF SeeOffer, Newer, Bounds
<1>3. ~WatchStep /\ ~Ack /\ ~Swap /\ ~UpdateFails
  BY <1>1 DEF WatchStep, PassBarrier, DropStale, StartReceive, Ack, Swap, FinishUpdate,
     UpdateFails
<1> QED BY <1>1, <1>2, <1>3 DEF UpdateStep

(* What the idle test of the main loop finds: every eval group that was     *)
(* opened has posted all its attempts.                                      *)
LEMMA DrainedIsSettled ==
  ASSUME IInv, waiting = {}, loop = "running", Drained
  PROVE  inflight = {} /\ EvalSettled
<1>1. inflight = {} /\ ~EvalHasWork
  BY DEF Drained, IsIdle
<1>2. ASSUME NEW g \in EvalGroup, gstate[g] # "fresh" PROVE posted[g] = GroupSize
  <2>1. g \in Group /\ SettledOnce(g)
    BY <1>2 DEF IInv, AttemptInv, GroupInv, Counted, Group
  <2>2. InflightOf(g) = {} /\ WaitingOf(g) = {}
    BY <1>1 DEF InflightOf, WaitingOf
  <2>3. posted[g] \in Nat /\ toSchedule[g] \in Nat
    BY <2>1, TypeParts DEF IInv, AttemptTypes
  <2>4. Open(g) => toSchedule[g] = 0
    BY <1>1, <1>2, <2>3 DEF EvalHasWork, Partial
  <2>5. Cardinality(InflightOf(g)) = 0 /\ Cardinality(WaitingOf(g)) = 0
    BY <2>2, FS_EmptySet
  <2>6. Unsettled(g) = 0
    BY <2>4, <2>5 DEF Unsettled
  <2> QED BY <2>1, <2>3, <2>6, DispatcherAssumption DEF SettledOnce, DispatcherAssumption
<1> QED BY <1>1, <1>2 DEF EvalSettled

(* Nothing the dispatcher still does once drained touches an eval group.    *)
LEMMA DispatchStaysSettled ==
  ASSUME IInv, waiting = {}, inflight = {}, EvalSettled, trainDisabled,
         LoopStep \/ CutStep \/ SetLimit \/ \E p \in Proc : FinishPut(p)
  PROVE  inflight' = {} /\ EvalSettled' /\ trainDisabled'
<1>1. ASSUME evalQueue' = evalQueue, inflight' = {}, trainDisabled' = trainDisabled,
             \A g \in EvalGroup : /\ gstate'[g] = gstate[g]
                                  /\ toSchedule'[g] = toSchedule[g]
                                  /\ posted'[g] = posted[g]
      PROVE  inflight' = {} /\ EvalSettled' /\ trainDisabled'
  BY <1>1 DEF EvalSettled, EvalHasWork, Partial, Open
<1>2. ~ContinueTrain /\ ~OpenTrain
  BY DEF ContinueTrain, OpenTrain, MayFillTrain
<1>3. ~ContinueEval /\ ~OpenEval
  BY DEF ContinueEval, OpenEval, MayFillEval, EvalSettled
<1>4. ~LimiterGrant
  BY DEF LimiterGrant
<1>5. \A t \in Task : ~HandleCompleted(t) /\ ~HandleMismatch(t)
  BY DEF HandleCompleted, HandleMismatch
<1>6. CASE RollWindow \/ EvalDrained
  BY <1>1, <1>6 DEF RollWindow, EvalDrained, groupVars, permitVars, queueVars, flagVars
<1>7. ASSUME NEW c \in Cuts, CutDrop(c)
      PROVE  inflight' = {} /\ EvalSettled' /\ trainDisabled'
  <2>1. PICK g \in victims[c] : DropGroup(c, g, "overload")
    BY <1>7 DEF CutDrop
  <2>2. g \in TrainGroup /\ g \notin EvalGroup /\ g \in Group
    <3>1. c \in Proc
      BY DEF Proc
    <3>2. victims[c] \subseteq TrainGroup
      BY <3>1, TypeParts DEF IInv, OtherTypes
    <3> QED BY <2>1, <3>2, DispatcherAssumption DEF DispatcherAssumption, Group
  <2>4. \A h \in EvalGroup : posted'[h] = posted[h] /\ gstate'[h] = gstate[h]
    <3>1. /\ gstate' = [gstate EXCEPT ![g] = IF Open(g) THEN "closed" ELSE @]
          /\ \/ Put(c, [type |-> "overload", group |-> g, count |-> Owed(g)])
             \/ UNCHANGED queueVars
      BY <2>1 DEF DropGroup
    <3>2. CASE Put(c, [type |-> "overload", group |-> g, count |-> Owed(g)])
      <4>1. posted' = [posted EXCEPT ![g] = @ + Owed(g)]
        BY <3>2 DEF Put
      <4> QED BY <2>2, <3>1, <4>1, TypeParts DEF IInv, AttemptTypes, Group
    <3>3. CASE UNCHANGED queueVars
      BY <2>2, <3>1, <3>3, TypeParts DEF IInv, AttemptTypes, Group, queueVars
    <3> QED BY <3>1, <3>2, <3>3
  <2>5. /\ toSchedule' = toSchedule /\ inflight' = {} /\ evalQueue' = evalQueue
        /\ trainDisabled' = trainDisabled
    BY <1>7, <2>1 DEF CutDrop, DropGroup, flagVars
  <2> QED BY <1>1, <2>4, <2>5
<1>8. ASSUME NEW c \in Cuts, NEW n \in CutSizes, StartCut(c, n)
      PROVE  inflight' = {} /\ EvalSettled' /\ trainDisabled'
  BY <1>1, <1>8 DEF StartCut, groupVars, permitVars, queueVars, flagVars
<1>9. CASE SetLimit \/ \E p \in Proc : FinishPut(p)
  BY <1>1, <1>9 DEF SetLimit, FinishPut, groupVars, permitVars, queueVars, flagVars
<1> QED BY <1>2, <1>3, <1>4, <1>5, <1>6, <1>7, <1>8, <1>9 DEF LoopStep, CutStep

(* Only the final drain turns the train sources off.                        *)
LEMMA TrainDisabledFrame ==
  ASSUME LoopStep \/ CutStep \/ SetLimit \/ (\E p \in Proc : FinishPut(p)) \/ UpdateStep
  PROVE  trainDisabled' = trainDisabled
<1> USE DEF flagVars
<1>1. CASE LoopStep
  <2>1. CASE RollWindow \/ EvalDrained \/ LimiterGrant
    BY <2>1 DEF RollWindow, EvalDrained, LimiterGrant
  <2>2. CASE ContinueTrain \/ ContinueEval \/ OpenTrain \/ OpenEval
    BY <2>2 DEF ContinueTrain, ContinueEval, OpenTrain, OpenEval, ContinueGroup,
       OpenGroup, ScheduleEpisode
  <2>3. CASE \E t \in Task : HandleCompleted(t) \/ HandleMismatch(t)
    BY <2>3 DEF HandleCompleted, HandleMismatch
  <2> QED BY <1>1, <2>1, <2>2, <2>3 DEF LoopStep
<1>2. CASE CutStep \/ SetLimit \/ \E p \in Proc : FinishPut(p)
  BY <1>2 DEF CutStep, CutDrop, StartCut, SetLimit, FinishPut
<1>3. CASE UpdateStep
  BY <1>3 DEF UpdateStep, SeeOffer, VersionPending, WatchStep, PassBarrier, DropStale,
     StartReceive, Ack, Swap, FinishUpdate, UpdateFails, vars
<1> QED BY <1>1, <1>2, <1>3

LEMMA ExitStep ==
  ASSUME ~RateLimited, IInv, waiting = {}, PInv, ExitInv, [PipelineNext]_pvars
  PROVE  ExitInv'
<1> USE DEF ExitInv
<1>1. CASE MainStep
  <2>0. version' = version
    BY <1>1, MainFrame
  <2>1. CASE Poll
    <3>1. UNCHANGED <<vars, expired>>
      BY <2>1 DEF Poll
    <3>2. main' \in {"broadcast", "stopped"} => Drained /\ loop = "running"
      BY <2>1 DEF Poll, ComponentsUp
    <3>3. main' \in {"broadcast", "stopped"} => inflight = {} /\ EvalSettled /\ trainDisabled
      BY <3>2, DrainedIsSettled DEF Drained
    <3> QED BY <3>1, <3>3 DEF vars, EvalSettled, EvalHasWork, Partial, Open, Applied
  <2>2. CASE GetExpires \/ Take \/ ShipHeld \/ FailWaiting
    <3>1. /\ main' \notin {"broadcast", "stopped"}
          /\ trainDisabled' = trainDisabled /\ expired' = expired
      BY <2>2 DEF GetExpires, Take, Consume, ShipHeld, Ship, FailWaiting, vars, flagVars
    <3> QED BY <2>0, <3>1 DEF Applied
  <2>3. CASE FinalDrain
    <3>1. main' = "top" /\ (Applied(MaxStep) \/ expired')
      BY <2>3 DEF FinalDrain, DrainWhenApplied, DrainExpired
    <3> QED BY <2>0, <3>1 DEF Applied
  <2>4. CASE Stop
    <3>1. /\ main = "broadcast" /\ main' = "stopped" /\ UNCHANGED vars
          /\ expired' = expired \/ expired' = TRUE
      BY <2>4 DEF Stop
    <3> QED BY <3>1 DEF vars, EvalSettled, EvalHasWork, Partial, Open, Applied
  <2> QED BY <1>1, <2>1, <2>2, <2>3, <2>4 DEF MainStep
<1>2. CASE DispatchStep
  <2>1. UNCHANGED <<main, expired, version>>
    BY <1>2, DispatchFrame DEF DispatchStep, pipeVars, counters
  <2>2. trainDisabled' = trainDisabled
    BY <1>2, TrainDisabledFrame DEF DispatchStep
  <2>3. trainDisabled /\ inflight = {} /\ EvalSettled => inflight' = {} /\ EvalSettled'
    BY <1>2, DispatchStaysSettled DEF DispatchStep
  <2> QED BY <2>1, <2>2, <2>3 DEF Applied
<1>3. CASE UpdateStep
  <2>1. ~Applied(MaxStep)
    BY <1>3, WatcherRests
  <2>2. UNCHANGED <<main, expired, trainDisabled>>
    BY <1>3, TrainDisabledFrame
       DEF UpdateStep, SeeOffer, WatchStep, Ack, Swap, UpdateFails, pipeVars
  <2> QED BY <2>1, <2>2
<1>4. CASE TrainerStep \/ UNCHANGED pvars
  <2>1. UNCHANGED <<main, expired, vars>>
    BY <1>4 DEF TrainerStep, Train, Commit, OfferExpires, pvars, vars
  <2> QED BY <2>1 DEF vars, EvalSettled, EvalHasWork, Partial, Open, Applied
<1> QED BY <1>1, <1>2, <1>3, <1>4 DEF PipelineNext

(* A clean exit leaves no triggered eval undone ("triggered eval epochs     *)
(* still run to completion", start_draining), unless a rate limiter hides   *)
(* an attempt from is_idle.                                                 *)
THEOREM ExitRunsEvals ==
  ASSUME ~RateLimited
  PROVE  PipelineSpec => []ExitLeavesNoEval
<1>1. Init => OrphanInv
  BY DEF Init, OrphanInv, NoOrphan
<1>2. IInv /\ OrphanInv /\ [Next]_vars => OrphanInv'
  BY NoOrphanStep
<1>3. PipelineInit => ExitInv
  BY DEF PipelineInit, Init, ExitInv
<1>4. IInv /\ OrphanInv /\ PInv /\ ExitInv /\ [PipelineNext]_pvars => ExitInv'
  BY ExitStep DEF OrphanInv
<1>5. ExitInv => ExitLeavesNoEval
  BY DEF ExitInv, ExitLeavesNoEval
<1>6. Spec => []OrphanInv
  BY <1>1, <1>2, Invariance, PTL DEF Spec
<1> QED BY <1>3, <1>4, <1>5, <1>6, Invariance, PInvAlways, PipelineRunsDispatcher, PTL
        DEF PipelineSpec
=============================================================================
