---------------------------- MODULE BatchProofs ----------------------------
(***************************************************************************)
(* Theorems about what becomes of a batch: in the train sink, which cuts   *)
(* it, and in the packer, which makes micro batches of it.                 *)
(*                                                                         *)
(* The train sink, for every number of groups, group size, batch target,   *)
(* staleness bound and lag.  FinalisedOnce needs the account of each       *)
(* group: what arrived and what is owed make up the group.  StalenessBound *)
(* is not inductive: that a batch is fresh when it is cut follows from the *)
(* queue being fresh once this step's sweep ran, which every later arrival *)
(* must keep, and which the step's advance voids only because the sweep is *)
(* never ahead of it.  BarrenBounded needs that a group that queues        *)
(* nothing costs at least one unit, hence that no set of tokens weighs     *)
(* nothing: a fact about the fold that adds them, proved by the least size *)
(* of a set it would fail for.  TokensMatch needs that no queued trace     *)
(* belongs to a group still pending, so that none is weighed twice, and    *)
(* that a fold over a set is the sum of the folds over its parts.          *)
(*                                                                         *)
(* Packing, for every number of samples and data ranks, seq_len, padding   *)
(* and cost.  The sorts, heaps and maxima of the code are all an order by  *)
(* lists of numbers that tell the elements apart, so that each is a        *)
(* bijection; the sums are folds that do not depend on the order.  Then    *)
(* two invariants: where every sample is while the bins are filled and     *)
(* split, and where every micro batch is while a modality is dealt,        *)
(* merged, swapped and handed out.                                         *)
(***************************************************************************)
EXTENDS TrainSink, Packing, FiniteSetTheorems, FunctionTheorems, SequenceTheorems,
        WellFoundedInduction, TLAPS

(* What the sink holds of a group plus what the group still owes is the     *)
(* group's size, until the last arrival finalises it.                       *)
Arrived(p) == p.good + p.barren + p.failed + p.cancelled

AccountInv ==
  /\ owed \in [Group -> -1 .. GroupSize]
  /\ pending \in [Group -> Pending]
  /\ finalised \in [Group -> Nat]
  /\ \A g \in Group :
       /\ pending[g].reason = "none" => pending[g].cancelled = 0
       /\ owed[g] > 0 => Arrived(pending[g]) + owed[g] = GroupSize /\ finalised[g] = 0
       /\ owed[g] = 0 => pending[g] = Nothing /\ finalised[g] = 1
       /\ owed[g] = -1 => pending[g] = Nothing /\ finalised[g] = 0

(* Init establishes the account: no group is opened.                        *)
LEMMA InitAccount == ASSUME Init PROVE AccountInv
  BY TrainSinkAssumption DEF Init, AccountInv, Pending, Nothing, TrainSinkAssumption

(* An arrival of n attempts moves them from owed to pending; the group is   *)
(* complete when, and only when, none is owed any more.                     *)
LEMMA ArriveAccount ==
  ASSUME AccountInv, NEW g \in Group, NEW p \in Pending, NEW n \in 1 .. GroupSize,
         n <= owed[g], Arrived(p) = Arrived(pending[g]) + n,
         p.reason = "none" => p.cancelled = 0,
         Arrive(g, p, n)
  PROVE  AccountInv'
<1> USE TrainSinkAssumption DEF AccountInv, TrainSinkAssumption
<1>1. /\ owed[g] \in 1 .. GroupSize
      /\ owed' = [owed EXCEPT ![g] = @ - n]
      /\ Arrived(p) + (owed[g] - n) = GroupSize
      /\ finalised[g] = 0
  BY DEF Arrive, Arrived, Pending
<1>2. GroupComplete(p) <=> owed[g] - n = 0
  BY <1>1 DEF GroupComplete, Arrived, Pending
<1>3. CASE GroupComplete(p)
  <2>1. /\ pending' = [pending EXCEPT ![g] = Nothing]
        /\ finalised' = [finalised EXCEPT ![g] = @ + 1]
    <3> HIDE DEF AccountInv
    <3>1. pending' = [pending EXCEPT ![g] = Nothing] /\ ProcessGroup(g, p)
      BY <1>3 DEF Arrive
    <3>2. finalised' = [finalised EXCEPT ![g] = @ + 1]
      BY <3>1, SMTT(30) DEF ProcessGroup
    <3> QED BY <3>1, <3>2
  <2>2. Nothing \in Pending /\ Nothing.cancelled = 0
    BY DEF Nothing, Pending
  <2> QED BY <1>1, <1>2, <1>3, <2>1, <2>2
<1>4. CASE ~GroupComplete(p)
  <2>1. pending' = [pending EXCEPT ![g] = p] /\ UNCHANGED finalised
    BY <1>4 DEF Arrive
  <2> QED BY <1>1, <1>2, <1>4, <2>1
<1> QED BY <1>3, <1>4

(* What an episode, a failure or a cancellation adds is again something the  *)
(* sink can hold of a group, and counts what the message settled.            *)
LEMMA ArrivalsAreTyped ==
  ASSUME AccountInv, NEW g \in Group, owed[g] > 0
  PROVE  /\ \A p \in {[pending[g] EXCEPT !.good = @ + 1],
                      [pending[g] EXCEPT !.barren = @ + 1],
                      [pending[g] EXCEPT !.failed = @ + 1]} :
              /\ p \in Pending
              /\ Arrived(p) = Arrived(pending[g]) + 1
              /\ p.reason = "none" => p.cancelled = 0
         /\ \A n \in 1 .. GroupSize, r \in {"overload", "stale"} :
              n <= owed[g] /\ pending[g].reason = "none" =>
                LET p == [pending[g] EXCEPT !.cancelled = n, !.reason = r]
                IN  /\ p \in Pending
                    /\ Arrived(p) = Arrived(pending[g]) + n
                    /\ p.reason # "none"
<1>1. pending[g] \in Pending /\ Arrived(pending[g]) + owed[g] = GroupSize
  BY DEF AccountInv
<1>2. owed[g] \in 1 .. GroupSize
  BY TrainSinkAssumption DEF AccountInv, TrainSinkAssumption
<1> DEFINE q == pending[g]
<1>3. /\ q.good \in 0 .. GroupSize - 1 /\ q.barren \in 0 .. GroupSize - 1
      /\ q.failed \in 0 .. GroupSize - 1 /\ q.cancelled \in 0 .. GroupSize
      /\ q.reason = "none" => q.cancelled = 0
  BY <1>1, <1>2, TrainSinkAssumption DEF AccountInv, Arrived, Pending, TrainSinkAssumption
<1>4. ASSUME NEW p \in {[q EXCEPT !.good = @ + 1], [q EXCEPT !.barren = @ + 1],
                        [q EXCEPT !.failed = @ + 1]}
      PROVE  /\ p \in Pending
             /\ Arrived(p) = Arrived(q) + 1
             /\ p.reason = "none" => p.cancelled = 0
  <2> HIDE DEF q
  <2>1. q \in Pending
    BY <1>1 DEF q
  <2> QED BY <1>3, <2>1, TrainSinkAssumption DEF Arrived, Pending, TrainSinkAssumption
<1>5. ASSUME NEW n \in 1 .. GroupSize, NEW r \in {"overload", "stale"}, q.reason = "none"
      PROVE  LET p == [q EXCEPT !.cancelled = n, !.reason = r]
             IN  /\ p \in Pending
                 /\ Arrived(p) = Arrived(q) + n
                 /\ p.reason # "none"
  <2> HIDE DEF q
  <2>1. q \in Pending
    BY <1>1 DEF q
  <2> DEFINE p == [q EXCEPT !.cancelled = n, !.reason = r]
  <2>2. /\ p.good = q.good /\ p.barren = q.barren /\ p.failed = q.failed
        /\ p.cancelled = n /\ p.reason = r /\ p \in Pending
    <3> DEFINE c == [q EXCEPT !.cancelled = n]
    <3>1. /\ c \in Pending /\ c.cancelled = n
          /\ c.good = q.good /\ c.barren = q.barren /\ c.failed = q.failed
      BY <2>1, TrainSinkAssumption DEF Pending, TrainSinkAssumption
    <3> HIDE DEF c
    <3>2. LET d == [c EXCEPT !.reason = r]
          IN  /\ d.good = c.good /\ d.barren = c.barren /\ d.failed = c.failed
              /\ d.cancelled = c.cancelled /\ d.reason = r /\ d \in Pending
      BY <3>1 DEF Pending
    <3> QED BY <3>1, <3>2 DEF c
  <2>3. q.cancelled = 0
    BY <1>3, <1>5
  <2> HIDE DEF p
  <2>4. Arrived(p) = Arrived(q) + n
    BY <1>3, <2>2, <2>3 DEF Arrived
  <2> QED BY <2>2, <2>4 DEF p
<1> QED BY <1>4, <1>5

(* Each message, in whatever order a group's messages come, keeps the        *)
(* account, and so does everything else the pipeline does.                   *)
LEMMA NextAccount == ASSUME AccountInv, [Next]_vars PROVE AccountInv'
<1>1. ASSUME NEW g \in Group, OpenGroup(g) PROVE AccountInv'
  BY <1>1, TrainSinkAssumption DEF OpenGroup, AccountInv, TrainSinkAssumption, Arrived,
     Nothing, Pending
<1>2. ASSUME NEW g \in Group, Add(g) PROVE AccountInv'
  <2>1. 1 \in 1 .. GroupSize /\ 1 <= owed[g] /\ owed[g] > 0
    BY <1>2, TrainSinkAssumption DEF Add, AccountInv, TrainSinkAssumption
  <2> QED BY <1>2, <2>1, ArrivalsAreTyped, ArriveAccount DEF Add
<1>3. ASSUME NEW g \in Group, Fail(g) PROVE AccountInv'
  <2>1. 1 \in 1 .. GroupSize /\ 1 <= owed[g] /\ owed[g] > 0
    BY <1>3, TrainSinkAssumption DEF Fail, AccountInv, TrainSinkAssumption
  <2> QED BY <1>3, <2>1, ArrivalsAreTyped, ArriveAccount DEF Fail
<1>4. ASSUME NEW g \in Group, NEW n \in 1 .. GroupSize, NEW r \in {"overload", "stale"},
             Cancel(g, n, r)
      PROVE  AccountInv'
  <2>1. n <= owed[g] /\ owed[g] > 0 /\ pending[g].reason = "none"
    BY <1>4, TrainSinkAssumption DEF Cancel, AccountInv, TrainSinkAssumption
  <2> QED BY <1>4, <2>1, ArrivalsAreTyped, ArriveAccount DEF Cancel
<1>5. CASE ShipBatch \/ AdvanceVersion \/ UNCHANGED vars
  BY <1>5 DEF ShipBatch, AdvanceVersion, vars, envVars, AccountInv
<1> QED BY <1>1, <1>2, <1>3, <1>4, <1>5 DEF Next

(* A group is finalised exactly once, exactly when nothing of it is owed     *)
(* any more, and leaves nothing behind (train_sink.py, _group_complete and   *)
(* the pops of process_group), in whatever order its messages arrive.        *)
THEOREM GroupsFinaliseOnce == Spec => []FinalisedOnce
<1>1. AccountInv => FinalisedOnce
  BY DEF AccountInv, FinalisedOnce
<1> QED BY InitAccount, NextAccount, <1>1, PTL DEF Spec
-----------------------------------------------------------------------------
(* A queued or held trace belongs to an opened group, whose version is no   *)
(* longer written; nothing is queued while the version is still to be set.  *)
OpenedOnly == \A t \in queue \cup batch : owed[t[1]] # -1

FreshInv ==
  /\ owed \in [Group -> Int]
  /\ gversion \in [Group -> Int]
  /\ queue \subseteq Trace /\ batch \subseteq Trace
  /\ step \in Nat \ {0} /\ sweptStep \in Nat /\ sweptStep <= step
  /\ version \in Int
  /\ OpenedOnly
  /\ SweptQueueIsFresh
  /\ StalenessBound

(* Init establishes the invariant: nothing is queued, and step is positive. *)
LEMMA InitFresh == ASSUME Init PROVE FreshInv
  BY TrainSinkAssumption DEF Init, FreshInv, OpenedOnly, SweptQueueIsFresh,
     StalenessBound, Trace, TrainSinkAssumption

(* _maybe_batch leaves in the queue, and cuts, only what it was given and    *)
(* what is fresh, if what it was given was fresh in case no sweep is due.    *)
LEMMA MaybeBatchFresh ==
  ASSUME NEW q, NEW w, NEW r, NEW tokens, NEW uids,
         batch = {},
         sweptStep = step => \A t \in q : ~IsStale(t),
         MaybeBatch(q, w, r, tokens, uids)
  PROVE  /\ sweptStep' = step
         /\ queue' \subseteq q /\ batch' \subseteq q
         /\ \A t \in queue' \cup batch' : ~IsStale(t)
<1> DEFINE swept == IF SweepDue THEN StaleIn(q) ELSE {}
           left == q \ swept
           tokensLeft == Discount(tokens, w, swept)
<1>1. sweptStep' = step
  BY DEF MaybeBatch
<1>2. \A t \in left : ~IsStale(t)
  BY DEF StaleIn, SweepDue
<1>3. queue' \subseteq left /\ batch' \subseteq left
  <2>1. \/ queue' = left /\ batch' = batch
        \/ CutBatch(left, w, r, tokensLeft, uids)
    BY DEF MaybeBatch
  <2>2. CASE queue' = left /\ batch' = batch
    BY <2>2
  <2>3. CASE CutBatch(left, w, r, tokensLeft, uids)
    <3> HIDE DEF left, tokensLeft
    <3>1. PICK S \in SUBSET left :
            /\ queue' = left \ S
            /\ \E shipped \in IF FilterZero THEN SUBSET S ELSE {S} :
                 Offer(shipped, uids)
      BY <2>3 DEF CutBatch
    <3>2. PICK shipped \in SUBSET S : Offer(shipped, uids)
      BY <3>1
    <3>3. batch' = batch \/ batch' = shipped
      BY <3>2 DEF Offer
    <3> QED BY <3>1, <3>2, <3>3
  <2> QED BY <2>1, <2>2, <2>3
<1> QED BY <1>1, <1>2, <1>3

(* process_group and _maybe_batch, whatever the algorithm and the curriculum *)
(* decide: what is then queued or cut was queued before or belongs to the    *)
(* group just finalised, and is fresh if this step's sweep ran.              *)
LEMMA ProcessGroupFresh ==
  ASSUME FreshInv, Running, NEW g \in Group, NEW p \in Pending, ProcessGroup(g, p)
  PROVE  /\ queue' \subseteq Trace /\ batch' \subseteq Trace
         /\ \A t \in queue' \cup batch' : t \in queue \/ t[1] = g
         /\ \/ sweptStep' = sweptStep /\ queue' = queue /\ batch' = {}
            \/ sweptStep' = step /\ \A t \in queue' \cup batch' : ~IsStale(t)
<1>1. batch = {}
  BY DEF Running
<1>2. PICK kept, sizes, order, tokens, uids :
        /\ kept \subseteq {g} \X (1 .. GroupSize)
        /\ \A t \in kept : ~IsStale(t)
        /\ \/ UNCHANGED <<queue, sweptStep, batch>>
           \/ MaybeBatch(queue \cup kept, sizes, order, tokens, uids)
  <2>1. PICK sampled \in SUBSET (1 .. p.good), admitted \in BOOLEAN,
             w \in [{g} \X (1 .. p.good + p.barren) -> Sizes] :
          ProcessGroup(g, p)!(sampled, admitted, w)
    BY DEF ProcessGroup
  <2> DEFINE new == IF admitted /\ ~(p.reason = "stale") THEN {g} \X sampled ELSE {}
             kept == new \ StaleIn(new)
  <2>2. kept \subseteq {g} \X (1 .. GroupSize)
    <3>1. p.good \in 0 .. GroupSize
      BY DEF Pending
    <3>2. sampled \subseteq 1 .. GroupSize
      BY <3>1, TrainSinkAssumption DEF TrainSinkAssumption
    <3> QED BY <3>2
  <2>3. \A t \in kept : ~IsStale(t)
    BY DEF StaleIn
  <2>4. \E sizes, order, tokens, uids :
          \/ UNCHANGED <<queue, sweptStep, batch>>
          \/ MaybeBatch(queue \cup kept, sizes, order, tokens, uids)
    BY <2>1
  <2> QED BY <2>2, <2>3, <2>4
<1>3. CASE UNCHANGED <<queue, sweptStep, batch>>
  BY <1>1, <1>3 DEF FreshInv
<1>4. CASE MaybeBatch(queue \cup kept, sizes, order, tokens, uids)
  <2>1. sweptStep = step => \A t \in queue \cup kept : ~IsStale(t)
    BY <1>2 DEF FreshInv, SweptQueueIsFresh
  <2>2. /\ sweptStep' = step
        /\ queue' \subseteq queue \cup kept /\ batch' \subseteq queue \cup kept
        /\ \A t \in queue' \cup batch' : ~IsStale(t)
    BY <1>1, <1>4, <2>1, MaybeBatchFresh
  <2>3. queue \cup kept \subseteq Trace
    BY <1>2 DEF FreshInv, Trace
  <2>4. \A t \in kept : t[1] = g
    BY <1>2
  <2> QED BY <2>2, <2>3, <2>4
<1> QED BY <1>2, <1>3, <1>4

(* An arrival, whether or not it completes its group, keeps the invariant.   *)
LEMMA ArriveFresh ==
  ASSUME FreshInv, Running, NEW g \in Group, NEW p \in Pending, NEW n \in Int,
         n <= owed[g], owed[g] >= 0, Arrive(g, p, n)
  PROVE  FreshInv'
<1> USE DEF FreshInv
<1>1. /\ owed' \in [Group -> Int]
      /\ owed'[g] # -1
      /\ \A h \in Group : h # g => owed'[h] = owed[h]
      /\ UNCHANGED <<gversion, step, version>>
  BY DEF Arrive
<1>2. \A t : IsStale(t)' = IsStale(t)
  BY <1>1 DEF IsStale, MinFreshVersion
<1>3. batch = {}
  BY DEF Running
<1>4. CASE GroupComplete(p)
  <2>1. ProcessGroup(g, p)
    BY <1>4 DEF Arrive
  <2>2. /\ queue' \subseteq Trace /\ batch' \subseteq Trace
        /\ \A t \in queue' \cup batch' : t \in queue \/ t[1] = g
        /\ \/ sweptStep' = sweptStep /\ queue' = queue /\ batch' = {}
           \/ sweptStep' = step /\ \A t \in queue' \cup batch' : ~IsStale(t)
    BY <2>1, ProcessGroupFresh
  <2>3. OpenedOnly'
    <3> SUFFICES ASSUME NEW t \in queue' \cup batch' PROVE owed'[t[1]] # -1
      BY DEF OpenedOnly
    <3>1. t[1] \in Group
      BY <2>2 DEF Trace
    <3>2. t \in queue => owed[t[1]] # -1
      BY DEF OpenedOnly
    <3> QED BY <1>1, <2>2, <3>1, <3>2
  <2>4. SweptQueueIsFresh' /\ StalenessBound'
    BY <1>1, <1>2, <2>2 DEF SweptQueueIsFresh, StalenessBound
  <2> QED BY <1>1, <2>2, <2>3, <2>4
<1>5. CASE ~GroupComplete(p)
  <2>1. UNCHANGED <<queue, batch, sweptStep>>
    BY <1>5 DEF Arrive, queueVars, batchVars
  <2>2. OpenedOnly'
    <3> SUFFICES ASSUME NEW t \in queue PROVE owed'[t[1]] # -1
      BY <2>1, <1>3 DEF OpenedOnly
    <3>1. t[1] \in Group /\ owed[t[1]] # -1
      BY DEF Trace, OpenedOnly
    <3> QED BY <1>1, <3>1
  <2>3. SweptQueueIsFresh' /\ StalenessBound'
    BY <1>1, <1>2, <2>1 DEF SweptQueueIsFresh, StalenessBound
  <2> QED BY <1>1, <2>1, <2>2, <2>3
<1> QED BY <1>4, <1>5

(* Every step keeps the invariant.  The ship voids the sweep of the step it  *)
(* ends, since the sweep is never ahead of progress.step.                    *)
LEMMA NextFresh == ASSUME AccountInv, FreshInv, [Next]_vars PROVE FreshInv'
<1>1. ASSUME NEW g \in Group, OpenGroup(g) PROVE FreshInv'
  <2>1. /\ UNCHANGED <<queue, batch, step, sweptStep, version>>
        /\ owed[g] = -1
        /\ \A h \in Group \ {g} : owed'[h] = owed[h] /\ gversion'[h] = gversion[h]
        /\ owed' \in [Group -> Int] /\ gversion' \in [Group -> Int]
    BY <1>1, TrainSinkAssumption
       DEF OpenGroup, queueVars, batchVars, TrainSinkAssumption, FreshInv
  <2>2. \A t \in queue \cup batch : t[1] \in Group \ {g}
    BY <2>1 DEF OpenedOnly, Trace, FreshInv
  <2>3. \A t \in queue \cup batch : IsStale(t)' = IsStale(t) /\ owed'[t[1]] = owed[t[1]]
    BY <2>1, <2>2 DEF IsStale, MinFreshVersion
  <2> QED BY <2>1, <2>3 DEF FreshInv, OpenedOnly, SweptQueueIsFresh, StalenessBound
<1>2. ASSUME NEW g \in Group, Add(g) PROVE FreshInv'
  <2>1. 1 \in Int /\ 1 <= owed[g] /\ owed[g] > 0 /\ owed[g] >= 0 /\ Running
    BY <1>2 DEF Add, FreshInv
  <2> QED BY <1>2, <2>1, ArrivalsAreTyped, ArriveFresh DEF Add
<1>3. ASSUME NEW g \in Group, Fail(g) PROVE FreshInv'
  <2>1. 1 \in Int /\ 1 <= owed[g] /\ owed[g] > 0 /\ owed[g] >= 0 /\ Running
    BY <1>3 DEF Fail, FreshInv
  <2> QED BY <1>3, <2>1, ArrivalsAreTyped, ArriveFresh DEF Fail
<1>4. ASSUME NEW g \in Group, NEW n \in 1 .. GroupSize, NEW r \in {"overload", "stale"},
             Cancel(g, n, r)
      PROVE  FreshInv'
  <2>1. /\ n \in Int /\ n <= owed[g] /\ owed[g] > 0 /\ owed[g] >= 0
        /\ pending[g].reason = "none" /\ Running
    BY <1>4, TrainSinkAssumption DEF Cancel, TrainSinkAssumption, FreshInv
  <2> QED BY <1>4, <2>1, ArrivalsAreTyped, ArriveFresh DEF Cancel
<1>5. CASE ShipBatch
  <2>1. /\ batch' = {} /\ step' = step + 1
        /\ UNCHANGED <<owed, gversion, queue, sweptStep, version>>
    BY <1>5 DEF ShipBatch, envVars, queueVars
  <2> QED BY <2>1 DEF FreshInv, OpenedOnly, SweptQueueIsFresh, StalenessBound
<1>6. CASE AdvanceVersion
  <2>1. /\ version' \in Int
        /\ UNCHANGED <<owed, gversion, queue, sweptStep, batch, step>>
    BY <1>6 DEF FreshInv, AdvanceVersion, envVars, queueVars, batchVars
  <2> QED BY <2>1 DEF FreshInv, OpenedOnly, SweptQueueIsFresh, StalenessBound, IsStale, MinFreshVersion
<1>7. CASE UNCHANGED vars
  BY <1>7 DEF FreshInv, vars, OpenedOnly, SweptQueueIsFresh, StalenessBound, IsStale, MinFreshVersion
<1> QED BY <1>1, <1>2, <1>3, <1>4, <1>5, <1>6, <1>7 DEF Next

(* Nothing that ships is older than max_off_policy_steps (_drop_stale: "This *)
(* sweep is the hard guarantee on trained staleness").                       *)
THEOREM NothingStaleShips == Spec => []StalenessBound
<1>1. Init => AccountInv /\ FreshInv
  BY InitAccount, InitFresh
<1>2. AccountInv /\ FreshInv /\ [Next]_vars => (AccountInv /\ FreshInv)'
  BY NextAccount, NextFresh
<1>3. FreshInv => StalenessBound
  BY DEF FreshInv
<1> QED BY <1>1, <1>2, <1>3, PTL DEF Spec

(* Once a step's sweep ran, the queue stays fresh until the next ship.       *)
THEOREM SweptQueueStaysFresh == Spec => []SweptQueueIsFresh
<1>1. Init => AccountInv /\ FreshInv
  BY InitAccount, InitFresh
<1>2. AccountInv /\ FreshInv /\ [Next]_vars => (AccountInv /\ FreshInv)'
  BY NextAccount, NextFresh
<1>3. FreshInv => SweptQueueIsFresh
  BY DEF FreshInv
<1> QED BY <1>1, <1>2, <1>3, PTL DEF Spec
-----------------------------------------------------------------------------
(* Every nonempty set of numbers has a least one.                            *)
LEMMA LeastNumber ==
  ASSUME NEW T \in SUBSET Nat, T # {}
  PROVE  \E n \in T : \A m \in T : n <= m
<1>1. PICK n \in T : \A m \in T : ~ (<<m, n>> \in OpToRel(<, Nat))
  BY NatLessThanWellFounded, WFMin, Zenon
<1>2. \A m \in T : ~ (m < n)
  BY <1>1 DEF OpToRel
<1> QED BY <1>2

(* f adds up the weights w of the elements of each subset of S.              *)
Adds(f, w, S) ==
  f = [s \in SUBSET S |->
         IF s = {} THEN 0
         ELSE w[CHOOSE x \in s : TRUE] + f[s \ {CHOOSE x \in s : TRUE}]]

(* The fold over the subsets of a finite set that Tokens is has a solution.  *)
LEMMA FoldExists ==
  ASSUME NEW S, IsFiniteSet(S), NEW w
  PROVE  \E f : Adds(f, w, S)
<1> DEFINE c(s) == CHOOSE x \in s : TRUE
           L(n) == {s \in SUBSET S : Cardinality(s) <= n}
           Part(f, n) == f = [s \in L(n) |-> IF s = {} THEN 0 ELSE w[c(s)] + f[s \ {c(s)}]]
           Bad == {n \in Nat : ~ \E f : Part(f, n)}
<1>0. \A s \in SUBSET S : IsFiniteSet(s) /\ Cardinality(s) \in Nat /\ Cardinality(s) <= Cardinality(S)
  BY FS_Subset, FS_CardinalityType
<1>c. \A s : s # {} => c(s) \in s
  OBVIOUS
<1>d. \A s \in SUBSET S : s # {} => s \ {c(s)} \in SUBSET S /\ Cardinality(s \ {c(s)}) = Cardinality(s) - 1
  BY <1>0, <1>c, FS_RemoveElement
<1>1. Part([s \in L(0) |-> 0], 0)
  <2>1. \A s \in L(0) : s = {}
    BY <1>0, FS_EmptySet
  <2> QED BY <2>1
<1>2. ASSUME NEW n \in Nat, \E f : Part(f, n)
      PROVE  \E f : Part(f, n + 1)
  <2>1. PICK f : Part(f, n)
    BY <1>2
  <2> DEFINE g == [s \in L(n + 1) |-> IF s = {} THEN 0 ELSE w[c(s)] + f[s \ {c(s)}]]
  <2>2. \A s \in L(n) : g[s] = f[s] /\ s \in L(n + 1)
    <3> HIDE DEF c
    <3>1. \A s \in L(n) : f[s] = IF s = {} THEN 0 ELSE w[c(s)] + f[s \ {c(s)}]
      BY <2>1
    <3>2. \A s \in L(n) : s \in L(n + 1)
      BY <1>0
    <3> QED BY <3>1, <3>2
  <2>3. \A s \in L(n + 1) : s # {} => s \ {c(s)} \in L(n)
    BY <1>0, <1>d
  <2>4. Part(g, n + 1)
    <3> HIDE DEF c, L
    <3> SUFFICES \A s \in L(n + 1) : s # {} => f[s \ {c(s)}] = g[s \ {c(s)}]
      OBVIOUS
    <3> QED BY <2>2, <2>3
  <2> QED BY <2>4
<1>3. Bad = {}
  <2> HIDE DEF Part
  <2> SUFFICES ASSUME Bad # {} PROVE FALSE
    OBVIOUS
  <2>1. PICK n \in Bad : \A m \in Bad : n <= m
    <3> HIDE DEF Bad
    <3>1. Bad \in SUBSET Nat
      BY DEF Bad
    <3> QED BY <3>1, LeastNumber
  <2>2. n # 0
    BY <1>1
  <2>3. n - 1 \in Nat /\ n - 1 \notin Bad
    BY <2>1, <2>2
  <2>4. \E f : Part(f, (n - 1) + 1)
    BY <2>3, <1>2
  <2> QED BY <2>1, <2>4
<1>4. PICK f : Part(f, Cardinality(S))
  BY <1>0, <1>3
<1>5. L(Cardinality(S)) = SUBSET S
  BY <1>0
<1> QED BY <1>4, <1>5 DEF Adds

(* What a finite set of traces weighs is a number, and not 0 if it has one: *)
(* none weighs less than a token.                                            *)
LEMMA TokensPositive ==
  ASSUME NEW S, IsFiniteSet(S), NEW w, \A t \in S : w[t] \in Nat \ {0}
  PROVE  Tokens(w, S) \in Nat /\ (S # {} => Tokens(w, S) > 0)
<1> DEFINE iter == CHOOSE f : Adds(f, w, S)
<1>1. Tokens(w, S) = iter[S]
  BY DEF Tokens, MapThenSumSet, MapThenFoldSet, Adds
<1>2. Adds(iter, w, S)
  <2>1. \E f : Adds(f, w, S)
    BY FoldExists
  <2> QED BY <2>1, Zenon
<1> HIDE DEF iter
<1> DEFINE c(s) == CHOOSE x \in s : TRUE
           Good(s) == iter[s] \in Nat /\ (s # {} => iter[s] > 0)
           Bad == {Cardinality(s) : s \in {s \in SUBSET S : ~ Good(s)}}
<1>3. \A s \in SUBSET S : iter[s] = IF s = {} THEN 0 ELSE w[c(s)] + iter[s \ {c(s)}]
  BY <1>2 DEF Adds
<1>4. \A s \in SUBSET S : /\ IsFiniteSet(s) /\ Cardinality(s) \in Nat
                          /\ s # {} => /\ c(s) \in s
                                       /\ Cardinality(s \ {c(s)}) = Cardinality(s) - 1
  BY FS_Subset, FS_CardinalityType, FS_RemoveElement
<1>5. Bad = {}
  <2> SUFFICES ASSUME Bad # {} PROVE FALSE
    OBVIOUS
  <2> HIDE DEF c
  <2>1. PICK n \in Bad : \A m \in Bad : n <= m
    <3>1. Bad \in SUBSET Nat
      BY <1>4
    <3> HIDE DEF Bad
    <3> QED BY <3>1, LeastNumber
  <2>2. PICK s \in SUBSET S : n = Cardinality(s) /\ ~ Good(s)
    BY <2>1
  <2>3. s # {}
    <3>1. s = {} => iter[s] = 0
      BY <1>3
    <3> QED BY <2>2, <3>1
  <2>4. Good(s \ {c(s)})
    <3>1. s \ {c(s)} \in SUBSET S
      OBVIOUS
    <3>2. Cardinality(s \ {c(s)}) < n
      BY <1>4, <2>2, <2>3
    <3>3. ~ (n <= Cardinality(s \ {c(s)}))
      BY <1>4, <2>2, <2>3
    <3>4. ~ Good(s \ {c(s)}) => Cardinality(s \ {c(s)}) \in Bad
      BY <3>1
    <3> QED BY <2>1, <3>3, <3>4
  <2>5. w[c(s)] \in Nat \ {0}
    BY <1>4, <2>3
  <2>6. iter[s] = w[c(s)] + iter[s \ {c(s)}]
    BY <1>3, <2>3
  <2> QED BY <2>2, <2>4, <2>5, <2>6
<1>6. Good(S)
  BY <1>5
<1> QED BY <1>1, <1>6

(* A group that queued nothing costs at least one unit, whatever it weighs. *)
LEMMA ZeroCostPositive ==
  ASSUME byTokens \in BOOLEAN, NEW g, NEW p \in Pending, Arrived(p) > 0,
         NEW w \in [{g} \X (1 .. p.good + p.barren) -> Sizes],
         NEW survivors \in {0, p.good}
  PROVE  ZeroCost(g, p, w, survivors) \in Nat \ {0}
<1> USE TrainSinkAssumption DEF TrainSinkAssumption
<1> DEFINE traces(n) == {<<g, k>> : k \in 1 .. n}
           b == Weight(w, traces(p.good + p.barren))
           a == Weight(w, traces(survivors))
           owes == p.good + p.barren + p.failed + p.cancelled
           c == IF byTokens THEN SeqLen * owes ELSE owes
<1>1. /\ p.good \in Nat /\ p.barren \in Nat /\ p.failed \in Nat /\ p.cancelled \in Nat
      /\ owes \in Nat \ {0}
  BY DEF Pending, Arrived
<1>2. ASSUME NEW n \in Nat, n <= p.good + p.barren
      PROVE  Weight(w, traces(n)) \in Nat
  <2>1. IsFiniteSet(traces(n))
    <3>1. traces(n) = {g} \X (1 .. n)
      OBVIOUS
    <3>2. IsFiniteSet(1 .. n) /\ IsFiniteSet({g})
      <4>1. IsFiniteSet(1 .. n)
        BY FS_Interval
      <4>2. IsFiniteSet({g})
        BY FS_Singleton
      <4> QED BY <4>1, <4>2
    <3>3. IsFiniteSet({g} \X (1 .. n))
      BY <3>2, FS_Product
    <3> QED BY <3>1, <3>3
  <2>2. Cardinality(traces(n)) \in Nat
    BY <2>1, FS_CardinalityType
  <2>3. byTokens => \A t \in traces(n) : w[t] \in Nat \ {0}
    <3>1. traces(n) \subseteq {g} \X (1 .. p.good + p.barren)
      BY <1>1, <1>2
    <3> QED BY <3>1 DEF Sizes
  <2> HIDE DEF traces
  <2>4. byTokens => Tokens(w, traces(n)) \in Nat
    BY <2>1, <2>3, TokensPositive
  <2> QED BY <2>2, <2>4 DEF Weight
<1>3. a \in Nat /\ b \in Nat
  BY <1>1, <1>2
<1>4. c \in Nat \ {0}
  BY <1>1
<1>5. ZeroCost(g, p, w, survivors) = FirstPositive(a, b, c)
  BY DEF ZeroCost
<1> HIDE DEF a, b, c
<1> QED BY <1>3, <1>4, <1>5 DEF FirstPositive

(* Every group that queued nothing is in the units counted since; the       *)
(* windows reported are the targets these fill, and the budget bounds them. *)
BarrenInv ==
  /\ byTokens \in BOOLEAN /\ target \in Nat \ {0}
  /\ zeroUnits \in Nat /\ barrenRun \in Nat /\ zeroWindows \in Nat
  /\ barrenRun <= zeroUnits
  /\ zeroWindows = Windows(zeroUnits)
  /\ ~aborted => zeroWindows < MaxZeroOutput

(* A target is filled as often as it fits; more units fill no fewer.        *)
LEMMA WindowsOf ==
  ASSUME NEW u \in Nat, NEW n \in Nat, NEW t \in Nat \ {0}
  PROVE  /\ u \div t \in Nat
         /\ u \div t <= (u + n) \div t
         /\ \A m \in Nat : u \div t < m => u < m * t
<1>1. /\ u \div t \in Int /\ u % t \in 0 .. (t - 1) /\ u = t * (u \div t) + (u % t)
  OBVIOUS
<1>2. /\ (u + n) \div t \in Int /\ (u + n) % t \in 0 .. (t - 1)
      /\ u + n = t * ((u + n) \div t) + ((u + n) % t)
  OBVIOUS
<1>3. ASSUME NEW x \in Int, NEW y \in Int, x < y PROVE t * x + t <= t * y
  <2>1. t * (x + 1) <= t * y
    <3>1. y - (x + 1) \in Nat
      BY <1>3
    <3>2. t * (y - (x + 1)) >= 0
      BY <3>1
    <3>3. t * (y - (x + 1)) = t * y - t * (x + 1)
      OBVIOUS
    <3> QED BY <3>2, <3>3
  <2> QED BY <2>1
<1>4. u \div t >= 0
  <2> DEFINE q == u \div t
  <2>1. q < 0 => t * q + t <= t * 0
    BY <1>1, <1>3
  <2> QED BY <1>1, <2>1
<1>5. u \div t <= (u + n) \div t
  <2>1. (u + n) \div t < u \div t => t * ((u + n) \div t) + t <= t * (u \div t)
    BY <1>1, <1>2, <1>3
  <2> QED BY <1>1, <1>2, <2>1
<1>6. ASSUME NEW m \in Nat, u \div t < m PROVE u < m * t
  <2>1. t * (u \div t) + t <= t * m
    BY <1>1, <1>3, <1>6
  <2> QED BY <1>1, <2>1
<1> QED BY <1>1, <1>4, <1>5, <1>6

(* process_group adds the group's cost or resets the count; past the budget  *)
(* it raises, so that units left unreported are below it.                     *)
LEMMA ProcessGroupBarren ==
  ASSUME BarrenInv, ~aborted, UNCHANGED configVars,
         NEW g \in Group, NEW p \in Pending, Arrived(p) > 0, ProcessGroup(g, p)
  PROVE  BarrenInv'
<1> USE DEF BarrenInv
<1>1. PICK sampled \in SUBSET (1 .. p.good), admitted \in BOOLEAN,
           w \in [{g} \X (1 .. p.good + p.barren) -> Sizes] :
        ProcessGroup(g, p)!(sampled, admitted, w)
  BY DEF ProcessGroup
<1> DEFINE voided == p.reason = "stale"
           new == IF admitted /\ ~voided THEN {g} \X sampled ELSE {}
           kept == new \ StaleIn(new)
           survivors == IF voided \/ new # {} THEN 0 ELSE p.good
           cost == ZeroCost(g, p, w, survivors)
<1>2. cost \in Nat \ {0}
  <2>1. survivors \in {0, p.good}
    OBVIOUS
  <2> HIDE DEF survivors
  <2> QED BY <2>1, ZeroCostPositive
<1>3. /\ CountOutput(new, kept, cost)
      /\ BudgetSpent(new, kept, cost) => aborted' = TRUE
  BY <1>1
<1> HIDE DEF new, kept, cost
<1>4. /\ target' = target /\ byTokens' = byTokens
      /\ target \in Nat \ {0}
  BY DEF configVars
<1>5. CASE kept = {}
  <2>1. /\ zeroUnits' = zeroUnits + cost /\ barrenRun' = barrenRun + 1
        /\ zeroWindows' = IF Windows(zeroUnits + cost) > zeroWindows
                          THEN Windows(zeroUnits + cost) ELSE zeroWindows
    BY <1>3, <1>4, <1>5 DEF CountOutput, QueuedNothing, Windows
  <2>2. /\ Windows(zeroUnits + cost) \in Nat
        /\ Windows(zeroUnits) <= Windows(zeroUnits + cost)
    BY <1>2, <1>4, WindowsOf DEF Windows
  <2>3. zeroWindows' = Windows(zeroUnits + cost)
    BY <2>1, <2>2
  <2>4. ~aborted' => zeroWindows' < MaxZeroOutput
    <3>1. ~aborted' => \/ ~ (Windows(zeroUnits + cost) > zeroWindows)
                       \/ ~ (Windows(zeroUnits + cost) >= MaxZeroOutput)
      BY <1>3, <1>5 DEF BudgetSpent, QueuedNothing
    <3> QED BY <2>2, <2>3, <3>1, TrainSinkAssumption DEF TrainSinkAssumption
  <2>5. Windows(zeroUnits)' = Windows(zeroUnits + cost)
    BY <1>4, <2>1 DEF Windows
  <2> QED BY <1>2, <1>4, <2>1, <2>2, <2>3, <2>4, <2>5
<1>6. CASE kept # {}
  <2>1. zeroUnits' = 0 /\ zeroWindows' = 0 /\ barrenRun' = 0
    BY <1>3, <1>6 DEF CountOutput, QueuedNothing
  <2>2. Windows(zeroUnits)' = 0
    BY <1>4, <2>1 DEF Windows
  <2> QED BY <1>4, <2>1, <2>2, TrainSinkAssumption DEF TrainSinkAssumption
<1> QED BY <1>5, <1>6

(* Init establishes the count: no group was finalised.                       *)
LEMMA InitBarren == ASSUME Init PROVE BarrenInv
<1> USE TrainSinkAssumption DEF TrainSinkAssumption
<1>1. target \in Nat \ {0} /\ byTokens \in BOOLEAN
  BY DEF Init
<1>2. 0 \div target = 0
  BY <1>1
<1> QED BY <1>1, <1>2 DEF Init, BarrenInv, Windows

(* An arrival leaves the count to process_group, or alone.                   *)
LEMMA ArriveBarren ==
  ASSUME BarrenInv, Running, NEW g \in Group, NEW p \in Pending, NEW n \in Int,
         Arrive(g, p, n)
  PROVE  BarrenInv'
<1>1. ~aborted /\ UNCHANGED configVars
  BY DEF Running, Arrive
<1>2. CASE GroupComplete(p)
  <2>1. ProcessGroup(g, p)
    BY <1>2 DEF Arrive
  <2>2. Arrived(p) > 0
    BY <1>2, TrainSinkAssumption DEF GroupComplete, Arrived, Pending, TrainSinkAssumption
  <2> QED BY <1>1, <2>1, <2>2, ProcessGroupBarren
<1>3. CASE ~GroupComplete(p)
  <2>1. UNCHANGED <<zeroVars, aborted, configVars>>
    BY <1>1, <1>3 DEF Arrive
  <2> QED BY <2>1 DEF BarrenInv, Windows, zeroVars, configVars
<1> QED BY <1>2, <1>3

(* Every step keeps the count.                                               *)
LEMMA NextBarren == ASSUME AccountInv, BarrenInv, [Next]_vars PROVE BarrenInv'
<1>1. ASSUME NEW g \in Group, Add(g) PROVE BarrenInv'
  <2>1. 1 \in Int /\ owed[g] > 0 /\ Running
    BY <1>1 DEF Add
  <2> QED BY <1>1, <2>1, ArrivalsAreTyped, ArriveBarren DEF Add
<1>2. ASSUME NEW g \in Group, Fail(g) PROVE BarrenInv'
  <2>1. 1 \in Int /\ owed[g] > 0 /\ Running
    BY <1>2 DEF Fail
  <2> QED BY <1>2, <2>1, ArrivalsAreTyped, ArriveBarren DEF Fail
<1>3. ASSUME NEW g \in Group, NEW n \in 1 .. GroupSize, NEW r \in {"overload", "stale"},
             Cancel(g, n, r)
      PROVE  BarrenInv'
  <2>1. /\ n \in Int /\ n <= owed[g] /\ owed[g] > 0
        /\ pending[g].reason = "none" /\ Running
    BY <1>3, TrainSinkAssumption DEF Cancel, TrainSinkAssumption, AccountInv
  <2> QED BY <1>3, <2>1, ArrivalsAreTyped, ArriveBarren DEF Cancel
<1>4. ASSUME \/ \E g \in Group : OpenGroup(g)
             \/ ShipBatch \/ AdvanceVersion \/ UNCHANGED vars
      PROVE  BarrenInv'
  <2>1. UNCHANGED <<configVars, zeroVars, aborted>>
    BY <1>4 DEF OpenGroup, ShipBatch, AdvanceVersion, vars, configVars, zeroVars
  <2> QED BY <2>1 DEF BarrenInv, Windows, zeroVars, configVars
<1> QED BY <1>1, <1>2, <1>3, <1>4 DEF Next

(* Groups cannot be voided or rejected without end: while the run goes on,   *)
(* fewer than MAX_CONSECUTIVE_ZERO_OUTPUT_BATCH_EQUIVALENTS targets' worth    *)
(* of groups in a row queued nothing (train_sink.py, _record_zero_output).   *)
THEOREM BarrenRunsEnd == Spec => []BarrenBounded
<1>1. Init => AccountInv /\ BarrenInv
  BY InitAccount, InitBarren
<1>2. AccountInv /\ BarrenInv /\ [Next]_vars => (AccountInv /\ BarrenInv)'
  BY NextAccount, NextBarren
<1>3. BarrenInv => BarrenBounded
  <2> SUFFICES ASSUME BarrenInv, ~aborted PROVE barrenRun < MaxZeroOutput * target
    BY DEF BarrenBounded
  <2>1. zeroUnits < MaxZeroOutput * target
    <3>1. zeroUnits \div target < MaxZeroOutput /\ MaxZeroOutput \in Nat
      BY TrainSinkAssumption DEF BarrenInv, Windows, TrainSinkAssumption
    <3> QED BY <3>1, WindowsOf DEF BarrenInv
  <2>2. MaxZeroOutput * target \in Nat
    BY TrainSinkAssumption DEF BarrenInv, TrainSinkAssumption
  <2> QED BY <2>1, <2>2 DEF BarrenInv
<1> QED BY <1>1, <1>2, <1>3, PTL DEF Spec
-----------------------------------------------------------------------------
(* What a fold of numbers w adds up to does not depend on the order.        *)
Sums(f, w, S) == \A s \in SUBSET S : f[s] \in Nat /\ \A x \in s : f[s] = w[x] + f[s \ {x}]

(* Two such folds add up to the same whichever element goes last.           *)
LEMMA SumParts ==
  ASSUME NEW S, IsFiniteSet(S), NEW w, \A x \in S : w[x] \in Nat, NEW f, Adds(f, w, S)
  PROVE  Sums(f, w, S)
<1> DEFINE c(s) == CHOOSE x \in s : TRUE
           Good(s) == f[s] \in Nat /\ \A x \in s : f[s] = w[x] + f[s \ {x}]
           Bad == {Cardinality(s) : s \in {s \in SUBSET S : ~Good(s)}}
<1>1. \A s \in SUBSET S : f[s] = IF s = {} THEN 0 ELSE w[c(s)] + f[s \ {c(s)}]
  BY DEF Adds
<1>2. \A s \in SUBSET S : /\ IsFiniteSet(s) /\ Cardinality(s) \in Nat
                          /\ s # {} => c(s) \in s
                          /\ \A x \in s : Cardinality(s \ {x}) = Cardinality(s) - 1
  BY FS_Subset, FS_CardinalityType, FS_RemoveElement
<1> HIDE DEF c
<1>3. Bad = {}
  <2> SUFFICES ASSUME Bad # {} PROVE FALSE
    OBVIOUS
  <2>1. PICK n \in Bad : \A m \in Bad : n <= m
    <3>1. Bad \in SUBSET Nat
      BY <1>2
    <3> HIDE DEF Bad
    <3> QED BY <3>1, LeastNumber
  <2>2. PICK s \in SUBSET S : n = Cardinality(s) /\ ~Good(s)
    BY <2>1
  <2>3. \A t \in SUBSET S : Cardinality(t) < n => Good(t)
    <3> SUFFICES ASSUME NEW t \in SUBSET S, ~Good(t) PROVE ~(Cardinality(t) < n)
      OBVIOUS
    <3>1. Cardinality(t) \in Bad
      OBVIOUS
    <3>2. n <= Cardinality(t) /\ n \in Nat /\ Cardinality(t) \in Nat
      BY <1>2, <2>1, <2>2, <3>1
    <3> HIDE DEF Bad, Good
    <3> QED BY <3>2
  <2> HIDE DEF Bad
  <2>4. s # {}
    <3>1. s = {} => f[s] = 0
      BY <1>1
    <3> QED BY <2>2, <3>1
  <2>5. \A x \in s : Good(s \ {x}) /\ s \ {x} \in SUBSET S
    <3> SUFFICES ASSUME NEW x \in s PROVE Good(s \ {x}) /\ s \ {x} \in SUBSET S
      OBVIOUS
    <3>1. s \ {x} \in SUBSET S
      OBVIOUS
    <3>2. Cardinality(s \ {x}) = Cardinality(s) - 1 /\ Cardinality(s) \in Nat
      BY <1>2
    <3>3. Cardinality(s \ {x}) < n
      BY <2>2, <3>2
    <3> HIDE DEF Good
    <3> QED BY <2>3, <3>1, <3>3
  <2>6. PICK d : d = c(s) /\ d \in s
    BY <1>2, <2>4
  <2>7. f[s] = w[d] + f[s \ {d}] /\ f[s] \in Nat
    <3>1. f[s] = w[d] + f[s \ {d}]
      BY <1>1, <2>4, <2>6
    <3>2. w[d] \in Nat /\ f[s \ {d}] \in Nat
      BY <2>5, <2>6
    <3> QED BY <3>1, <3>2
  <2>8. ASSUME NEW x \in s, x # d PROVE f[s] = w[x] + f[s \ {x}]
    <3>1. f[s \ {d}] = w[x] + f[(s \ {d}) \ {x}]
      BY <2>5, <2>6, <2>8
    <3>2. f[s \ {x}] = w[d] + f[(s \ {x}) \ {d}]
      BY <2>5, <2>6, <2>8
    <3>3. (s \ {d}) \ {x} = (s \ {x}) \ {d} /\ (s \ {d}) \ {x} \in SUBSET S
      OBVIOUS
    <3>4. f[(s \ {d}) \ {x}] \in Nat
      <4>1. Cardinality((s \ {d}) \ {x}) < n
        <5>1. s \ {d} \in SUBSET S /\ x \in s \ {d}
          BY <2>8
        <5>2. /\ Cardinality((s \ {d}) \ {x}) = Cardinality(s \ {d}) - 1
              /\ Cardinality(s \ {d}) = Cardinality(s) - 1 /\ Cardinality(s) \in Nat
          BY <1>2, <2>6, <5>1
        <5> QED BY <2>2, <5>2
      <4> QED BY <2>3, <3>3, <4>1
    <3>5. w[d] \in Nat /\ w[x] \in Nat
      BY <2>6
    <3>6. PICK q : q = f[(s \ {d}) \ {x}] /\ q \in Nat
      BY <3>4
    <3>7. f[s \ {d}] = w[x] + q /\ f[s \ {x}] = w[d] + q
      BY <3>1, <3>2, <3>3, <3>6
    <3> QED BY <2>7, <3>5, <3>6, <3>7
  <2>9. Good(s)
    BY <2>7, <2>8
  <2> QED BY <2>2, <2>9
<1>4. \A s \in SUBSET S : Good(s)
  BY <1>3
<1> QED BY <1>4 DEF Sums

(* On what two folds agree they add up to the same.                         *)
LEMMA SumsAgree ==
  ASSUME NEW S, IsFiniteSet(S), NEW T \in SUBSET S, NEW w, NEW v,
         \A x \in S : w[x] \in Nat, \A x \in T : v[x] = w[x],
         NEW f, Adds(f, w, S), NEW g, Adds(g, v, T)
  PROVE  f[T] = g[T]
<1> DEFINE Bad == {Cardinality(s) : s \in {s \in SUBSET T : f[s] # g[s]}}
<1>0. IsFiniteSet(T) /\ \A x \in T : v[x] \in Nat
  BY FS_Subset
<1>1. \A s \in SUBSET S : \A x \in s : f[s] = w[x] + f[s \ {x}]
  <2>1. Sums(f, w, S)
    BY SumParts
  <2> QED BY <2>1 DEF Sums
<1>2. \A s \in SUBSET T : \A x \in s : g[s] = v[x] + g[s \ {x}]
  <2>1. Sums(g, v, T)
    BY <1>0, SumParts
  <2> QED BY <2>1 DEF Sums
<1>3. f[{}] = 0 /\ g[{}] = 0
  BY DEF Adds
<1>4. \A s \in SUBSET T : /\ Cardinality(s) \in Nat
                          /\ \A x \in s : Cardinality(s \ {x}) = Cardinality(s) - 1
  BY <1>0, FS_Subset, FS_CardinalityType, FS_RemoveElement
<1>5. Bad = {}
  <2> SUFFICES ASSUME Bad # {} PROVE FALSE
    OBVIOUS
  <2>1. PICK n \in Bad : \A m \in Bad : n <= m
    <3>1. Bad \in SUBSET Nat
      BY <1>4
    <3> HIDE DEF Bad
    <3> QED BY <3>1, LeastNumber
  <2>2. PICK s \in SUBSET T : n = Cardinality(s) /\ f[s] # g[s]
    BY <2>1
  <2>3. PICK x : x \in s
    BY <1>3, <2>2
  <2>4. s \ {x} \in SUBSET T /\ Cardinality(s \ {x}) \in Nat
    BY <1>4
  <2>5. f[s \ {x}] = g[s \ {x}]
    <3>1. ~(n <= Cardinality(s \ {x}))
      BY <1>4, <2>2, <2>3
    <3>2. f[s \ {x}] # g[s \ {x}] => Cardinality(s \ {x}) \in Bad
      BY <2>4
    <3> HIDE DEF Bad
    <3> QED BY <2>1, <3>1, <3>2
  <2>6. f[s] = w[x] + f[s \ {x}]
    BY <1>1, <2>2, <2>3
  <2>7. g[s] = v[x] + g[s \ {x}] /\ v[x] = w[x]
    BY <1>2, <2>2, <2>3
  <2> QED BY <2>2, <2>5, <2>6, <2>7
<1> QED BY <1>5

(* What a finite set of traces weighs is the fold over its subsets.          *)
LEMMA TokensFold ==
  ASSUME NEW S, IsFiniteSet(S), NEW w
  PROVE  \E f : Adds(f, w, S) /\ Tokens(w, S) = f[S]
<1> DEFINE iter == CHOOSE f : Adds(f, w, S)
<1>1. Tokens(w, S) = iter[S]
  BY DEF Tokens, MapThenSumSet, MapThenFoldSet, Adds
<1>2. Adds(iter, w, S)
  <2>1. \E f : Adds(f, w, S)
    BY FoldExists
  <2> QED BY <2>1, Zenon
<1> HIDE DEF iter
<1> QED BY <1>1, <1>2

(* It depends only on what those traces weigh.                               *)
LEMMA TokensAgree ==
  ASSUME NEW S, IsFiniteSet(S), NEW w, NEW v,
         \A t \in S : w[t] \in Nat, \A t \in S : v[t] = w[t]
  PROVE  Tokens(v, S) = Tokens(w, S)
<1>1. PICK f : Adds(f, w, S) /\ Tokens(w, S) = f[S]
  BY TokensFold
<1>2. PICK h : Adds(h, v, S) /\ Tokens(v, S) = h[S]
  BY TokensFold
<1>3. S \in SUBSET S
  OBVIOUS
<1>4. f[S] = h[S]
  BY <1>1, <1>2, <1>3, SumsAgree
<1> QED BY <1>1, <1>2, <1>4

(* Two parts of a set weigh together what the set weighs.                    *)
LEMMA TokensSplit ==
  ASSUME NEW S, IsFiniteSet(S), NEW w, \A t \in S : w[t] \in Nat, NEW T \in SUBSET S
  PROVE  /\ Tokens(w, T) \in Nat /\ Tokens(w, S \ T) \in Nat
         /\ Tokens(w, S) = Tokens(w, T) + Tokens(w, S \ T)
<1>1. PICK f : Adds(f, w, S) /\ Tokens(w, S) = f[S]
  BY TokensFold
<1>2. Sums(f, w, S)
  BY <1>1, SumParts
<1>3. ASSUME NEW U \in SUBSET S PROVE Tokens(w, U) = f[U] /\ f[U] \in Nat
  <2>1. IsFiniteSet(U)
    BY FS_Subset
  <2>2. PICK h : Adds(h, w, U) /\ Tokens(w, U) = h[U]
    BY <2>1, TokensFold
  <2>3. f[U] = h[U]
    BY <1>1, <2>2, SumsAgree
  <2> QED BY <1>2, <2>2, <2>3 DEF Sums
<1> DEFINE Rest == S \ T
           Bad == {Cardinality(u) : u \in {u \in SUBSET Rest : f[T \cup u] # f[T] + f[u]}}
<1>4. \A u \in SUBSET Rest : /\ IsFiniteSet(u) /\ Cardinality(u) \in Nat
                             /\ \A x \in u : Cardinality(u \ {x}) = Cardinality(u) - 1
  BY FS_Subset, FS_CardinalityType, FS_RemoveElement
<1>5. Bad = {}
  <2> SUFFICES ASSUME Bad # {} PROVE FALSE
    OBVIOUS
  <2>1. PICK n \in Bad : \A m \in Bad : n <= m
    <3>1. Bad \in SUBSET Nat
      BY <1>4
    <3> HIDE DEF Bad
    <3> QED BY <3>1, LeastNumber
  <2>2. PICK u \in SUBSET Rest : n = Cardinality(u) /\ f[T \cup u] # f[T] + f[u]
    BY <2>1
  <2>3. f[{}] = 0 /\ f[T] \in Nat
    BY <1>1, <1>3 DEF Adds
  <2>4. u # {}
    <3> SUFFICES ASSUME u = {} PROVE FALSE
      OBVIOUS
    <3>1. T \cup u = T
      OBVIOUS
    <3>2. f[T \cup u] = f[T] /\ f[u] = 0
      BY <2>3, <3>1
    <3>3. f[T] = f[T] + 0
      BY <2>3
    <3> QED BY <2>2, <3>2, <3>3
  <2>5. PICK x : x \in u
    BY <2>4
  <2> DEFINE v == u \ {x}
  <2>6. v \in SUBSET Rest /\ Cardinality(v) \in Nat /\ Cardinality(v) = Cardinality(u) - 1
    BY <1>4, <2>5
  <2>7. f[T \cup v] = f[T] + f[v]
    <3>1. ~(n <= Cardinality(v))
      BY <1>4, <2>2, <2>6
    <3>2. f[T \cup v] # f[T] + f[v] => Cardinality(v) \in Bad
      BY <2>6
    <3> HIDE DEF Bad
    <3> QED BY <2>1, <3>1, <3>2
  <2>8. /\ T \cup u \in SUBSET S /\ u \in SUBSET S /\ v \in SUBSET S
        /\ x \in T \cup u /\ (T \cup u) \ {x} = T \cup v /\ x \in S
    BY <2>5
  <2>9. f[T \cup u] = w[x] + f[T \cup v] /\ f[u] = w[x] + f[v]
    BY <1>2, <2>5, <2>8 DEF Sums
  <2>10. w[x] \in Nat /\ f[v] \in Nat
    BY <1>3, <2>8
  <2> HIDE DEF v
  <2> QED BY <2>2, <2>3, <2>7, <2>9, <2>10
<1>6. f[T \cup Rest] = f[T] + f[Rest]
  BY <1>5
<1>7. T \cup Rest = S /\ Rest \in SUBSET S
  OBVIOUS
<1> QED BY <1>1, <1>3, <1>6, <1>7

(* Traces can only be queued of groups that were finalised, so the traces    *)
(* that process_group weighs anew are none of the queue's.                   *)
QueueInv ==
  /\ byTokens \in BOOLEAN
  /\ queue \subseteq Trace /\ size \in [Trace -> Nat]
  /\ \A t \in queue : finalised[t[1]] # 0
  /\ TokensMatch

(* The traces are finitely many.                                             *)
LEMMA TracesFinite == IsFiniteSet(Trace)
<1>1. IsFiniteSet(Group) /\ IsFiniteSet(1 .. GroupSize)
  BY TrainSinkAssumption, FS_Interval DEF TrainSinkAssumption
<1> QED BY <1>1, FS_Product DEF Trace

(* Init establishes the invariant: no trace is queued and none weighs.       *)
LEMMA InitQueue == ASSUME Init PROVE QueueInv
<1>1. Tokens(size, {}) = 0
  <2>1. PICK f : Adds(f, size, {}) /\ Tokens(size, {}) = f[{}]
    BY FS_EmptySet, TokensFold
  <2> QED BY <2>1 DEF Adds
<1> QED BY <1>1 DEF Init, QueueInv, TokensMatch

(* What a sweep or a cut takes out is discounted at its weight.              *)
LEMMA DiscountMatches ==
  ASSUME NEW w, NEW q \in SUBSET Trace, \A t \in q : w[t] \in Nat, NEW S \in SUBSET q,
         byTokens, NEW tokens, tokens = Tokens(w, q)
  PROVE  Discount(tokens, w, S) = Tokens(w, q \ S)
<1>1. IsFiniteSet(q)
  BY TracesFinite, FS_Subset
<1>2. /\ Tokens(w, S) \in Nat /\ Tokens(w, q \ S) \in Nat
      /\ Tokens(w, q) = Tokens(w, S) + Tokens(w, q \ S)
  BY <1>1, TokensSplit
<1> QED BY <1>2 DEF Discount

(* _maybe_batch, given a queue and what it weighs, keeps the two together.   *)
LEMMA MaybeBatchMatches ==
  ASSUME NEW q \in SUBSET Trace, NEW w \in [Trace -> Nat], NEW r, NEW tokens, NEW uids,
         byTokens => tokens = Tokens(w, q),
         MaybeBatch(q, w, r, tokens, uids)
  PROVE  queue' \subseteq q /\ (byTokens => pendingTokens' = Tokens(w, queue'))
<1> DEFINE swept == IF SweepDue THEN StaleIn(q) ELSE {}
           left == q \ swept
           tokensLeft == Discount(tokens, w, swept)
<1>1. swept \in SUBSET q
  BY DEF StaleIn
<1>2. byTokens => tokensLeft = Tokens(w, left)
  BY <1>1, DiscountMatches
<1>3. \/ queue' = left /\ pendingTokens' = tokensLeft
      \/ CutBatch(left, w, r, tokensLeft, uids)
  BY DEF MaybeBatch
<1> HIDE DEF tokensLeft
<1>4. CASE queue' = left /\ pendingTokens' = tokensLeft
  BY <1>2, <1>4
<1>5. CASE CutBatch(left, w, r, tokensLeft, uids)
  <2>1. left \in SUBSET q
    OBVIOUS
  <2> HIDE DEF left
  <2>2. PICK S \in SUBSET left :
          queue' = left \ S /\ pendingTokens' = Discount(tokensLeft, w, S)
    BY <1>5 DEF CutBatch
  <2>3. byTokens => pendingTokens' = Tokens(w, left \ S)
    BY <1>2, <2>1, <2>2, DiscountMatches
  <2> QED BY <2>1, <2>2, <2>3
<1> QED BY <1>3, <1>4, <1>5

(* process_group, whatever it is decided to admit: what it adds to the queue *)
(* it adds to pending_tokens, and no queued trace is weighed again.          *)
LEMMA ProcessGroupMatches ==
  ASSUME QueueInv, NEW g \in Group, finalised[g] = 0, NEW p \in Pending,
         ProcessGroup(g, p)
  PROVE  /\ queue' \subseteq Trace /\ size' \in [Trace -> Nat]
         /\ \A t \in queue' : t \in queue \/ t[1] = g
         /\ byTokens => pendingTokens' = Tokens(size', queue')
<1>1. PICK sampled \in SUBSET (1 .. p.good), admitted \in BOOLEAN,
           w \in [{g} \X (1 .. p.good + p.barren) -> Sizes] :
        ProcessGroup(g, p)!(sampled, admitted, w)
  BY DEF ProcessGroup
<1> DEFINE new == IF admitted /\ ~(p.reason = "stale") THEN {g} \X sampled ELSE {}
           stale == StaleIn(new)
           kept == new \ stale
           sizes == [t \in Trace |-> IF t \in new THEN w[t] ELSE size[t]]
           order == [rank EXCEPT ![g] = 1 + Cardinality({h \in Group : rank[h] > 0})]
           weighs == IF byTokens THEN Tokens(w, new) ELSE 0
           tokens == Discount(pendingTokens + weighs, w, stale)
           uids == window \cup {g}
<1>2. /\ size' = sizes
      /\ \/ UNCHANGED <<queue, pendingTokens>> /\ kept = {}
         \/ MaybeBatch(queue \cup kept, sizes, order, tokens, uids)
  BY <1>1 DEF BudgetSpent, QueuedNothing
<1>3. /\ new \in SUBSET Trace /\ stale \in SUBSET new
      /\ \A t \in new : w[t] \in Nat /\ t[1] = g
  <2>1. p.good \in 0 .. GroupSize /\ p.barren \in 0 .. GroupSize
    BY DEF Pending
  <2>2. GroupSize \in Nat /\ Sizes \subseteq Nat
    BY TrainSinkAssumption DEF TrainSinkAssumption, Sizes
  <2>3. sampled \subseteq 1 .. GroupSize /\ sampled \subseteq 1 .. p.good + p.barren
    BY <2>1, <2>2
  <2>4. stale \in SUBSET new
    BY DEF StaleIn
  <2> HIDE DEF stale
  <2>5. new \subseteq {g} \X sampled
    OBVIOUS
  <2> HIDE DEF new
  <2> QED BY <2>2, <2>3, <2>4, <2>5 DEF Trace
<1> HIDE DEF new, stale
<1>4. sizes \in [Trace -> Nat]
  BY <1>3 DEF QueueInv
<1>5. queue \cap new = {}
  BY <1>3 DEF QueueInv
<1>6. \A t \in queue : sizes[t] = size[t] /\ size[t] \in Nat
  BY <1>5 DEF QueueInv
<1>7. \A t \in new : sizes[t] = w[t]
  BY <1>3
<1> HIDE DEF sizes
<1>8. IsFiniteSet(queue) /\ IsFiniteSet(new)
  BY <1>3, TracesFinite, FS_Subset DEF QueueInv
<1>9. Tokens(sizes, queue) = Tokens(size, queue)
  BY <1>6, <1>8, TokensAgree
<1>10. byTokens => tokens = Tokens(sizes, queue \cup kept)
  <2> SUFFICES ASSUME byTokens PROVE tokens = Tokens(sizes, queue \cup kept)
    OBVIOUS
  <2>1. /\ Tokens(w, stale) \in Nat /\ Tokens(w, kept) \in Nat
        /\ Tokens(w, new) = Tokens(w, stale) + Tokens(w, kept)
    BY <1>3, <1>8, TokensSplit
  <2>2. Tokens(sizes, kept) = Tokens(w, kept)
    <3>1. IsFiniteSet(kept) /\ \A t \in kept : w[t] \in Nat /\ sizes[t] = w[t]
      BY <1>3, <1>7, <1>8, FS_Subset
    <3> QED BY <3>1, TokensAgree
  <2>3. /\ Tokens(sizes, queue) \in Nat
        /\ Tokens(sizes, queue \cup kept) = Tokens(sizes, queue) + Tokens(sizes, kept)
    <3> DEFINE both == queue \cup kept
    <3>1. queue \in SUBSET both /\ both \ queue = kept
      BY <1>5
    <3>2. IsFiniteSet(both) /\ \A t \in both : sizes[t] \in Nat
      <4>1. both \in SUBSET Trace
        BY <1>3 DEF QueueInv
      <4> QED BY <1>4, <4>1, TracesFinite, FS_Subset
    <3> HIDE DEF both, kept
    <3>3. /\ Tokens(sizes, queue) \in Nat
          /\ Tokens(sizes, both) = Tokens(sizes, queue) + Tokens(sizes, both \ queue)
      BY <3>1, <3>2, TokensSplit
    <3> QED BY <3>1, <3>3 DEF both
  <2>4. pendingTokens = Tokens(size, queue)
    BY DEF QueueInv, TokensMatch
  <2>5. tokens = (pendingTokens + Tokens(w, new)) - Tokens(w, stale)
    BY DEF Discount
  <2> HIDE DEF tokens, kept
  <2> QED BY <1>9, <2>1, <2>2, <2>3, <2>4, <2>5
<1> HIDE DEF tokens, order, uids
<1>11. CASE UNCHANGED <<queue, pendingTokens>> /\ kept = {}
  BY <1>2, <1>4, <1>9, <1>11 DEF QueueInv, TokensMatch
<1>12. CASE MaybeBatch(queue \cup kept, sizes, order, tokens, uids)
  <2>1. queue \cup kept \in SUBSET Trace
    BY <1>3 DEF QueueInv
  <2>2. /\ queue' \subseteq queue \cup kept
        /\ byTokens => pendingTokens' = Tokens(sizes, queue')
    BY <1>4, <1>10, <1>12, <2>1, MaybeBatchMatches
  <2> QED BY <1>2, <1>3, <1>4, <2>1, <2>2
<1> QED BY <1>2, <1>11, <1>12

(* An arrival, whether or not it completes its group, keeps the invariant.   *)
LEMMA ArriveQueue ==
  ASSUME AccountInv, QueueInv, NEW g \in Group, NEW p \in Pending, NEW n,
         owed[g] > 0, Arrive(g, p, n)
  PROVE  QueueInv'
<1>1. finalised[g] = 0 /\ finalised \in [Group -> Nat] /\ byTokens' = byTokens
  BY DEF AccountInv, Arrive, configVars
<1>2. CASE GroupComplete(p)
  <2>1. ProcessGroup(g, p)
    BY <1>2 DEF Arrive
  <2>2. finalised' = [finalised EXCEPT ![g] = @ + 1]
    BY <2>1, SMTT(30) DEF ProcessGroup
  <2>3. /\ queue' \subseteq Trace /\ size' \in [Trace -> Nat]
        /\ \A t \in queue' : t \in queue \/ t[1] = g
        /\ byTokens => pendingTokens' = Tokens(size', queue')
    BY <1>1, <2>1, ProcessGroupMatches
  <2>4. ASSUME NEW t \in queue' PROVE finalised'[t[1]] # 0
    <3>1. t[1] \in Group
      BY <2>3, <2>4 DEF Trace
    <3>2. t \in queue => finalised[t[1]] # 0
      BY DEF QueueInv
    <3> QED BY <1>1, <2>2, <2>3, <2>4, <3>1, <3>2
  <2> QED BY <1>1, <2>3, <2>4 DEF QueueInv, TokensMatch
<1>3. CASE ~GroupComplete(p)
  BY <1>1, <1>3 DEF Arrive, queueVars, QueueInv, TokensMatch
<1> QED BY <1>2, <1>3

(* Every step keeps the invariant.                                           *)
LEMMA NextQueue == ASSUME AccountInv, QueueInv, [Next]_vars PROVE QueueInv'
<1>1. ASSUME NEW g \in Group, Add(g) PROVE QueueInv'
  <2>1. owed[g] > 0 /\ \E p \in Pending : Arrive(g, p, 1)
    BY <1>1, ArrivalsAreTyped DEF Add
  <2> QED BY <2>1, ArriveQueue
<1>2. ASSUME NEW g \in Group, Fail(g) PROVE QueueInv'
  <2>1. owed[g] > 0 /\ \E p \in Pending : Arrive(g, p, 1)
    BY <1>2, ArrivalsAreTyped DEF Fail
  <2> QED BY <2>1, ArriveQueue
<1>3. ASSUME NEW g \in Group, NEW n \in 1 .. GroupSize, NEW r \in {"overload", "stale"},
             Cancel(g, n, r)
      PROVE  QueueInv'
  <2>1. n <= owed[g] /\ owed[g] > 0 /\ pending[g].reason = "none"
    BY <1>3, TrainSinkAssumption DEF Cancel, AccountInv, TrainSinkAssumption
  <2>2. \E p \in Pending : Arrive(g, p, n)
    BY <1>3, <2>1, ArrivalsAreTyped DEF Cancel
  <2> QED BY <2>1, <2>2, ArriveQueue
<1>4. ASSUME NEW g \in Group, OpenGroup(g) PROVE QueueInv'
  BY <1>4 DEF OpenGroup, configVars, queueVars, QueueInv, TokensMatch
<1>5. CASE ShipBatch \/ AdvanceVersion \/ UNCHANGED vars
  BY <1>5 DEF ShipBatch, AdvanceVersion, vars, configVars, queueVars, QueueInv, TokensMatch
<1> QED BY <1>1, <1>2, <1>3, <1>4, <1>5 DEF Next

(* pending_tokens is what the traces of pending_batch weigh, in every state  *)
(* of the sink: after every add, sweep and cut (train_sink.py).              *)
THEOREM PendingTokensMatch == Spec => []TokensMatch
<1>1. Init => AccountInv /\ QueueInv
  BY InitAccount, InitQueue
<1>2. AccountInv /\ QueueInv /\ [Next]_vars => (AccountInv /\ QueueInv)'
  BY NextAccount, NextQueue
<1>3. QueueInv => TokensMatch
  BY DEF QueueInv
<1> QED BY <1>1, <1>2, <1>3, PTL DEF Spec
-----------------------------------------------------------------------------
(* A group is counted where its episodes are: a drain drops what is held,    *)
(* and no group is recorded with a batch that is gone.                       *)
ReportInv ==
  /\ reported \in [Group -> Nat]
  /\ draining => batch = {}
  /\ batch = {} => episodes = {}
  /\ ReportedOnce

(* Init establishes the invariant: nothing is finalised, held or recorded.   *)
LEMMA InitReport == ASSUME Init PROVE ReportInv
  BY DEF Init, ReportInv, ReportedOnce

(* _maybe_batch records the groups it is given once: in the window still     *)
(* open or with the batch it cuts, unless the run drains.                    *)
LEMMA MaybeBatchReports ==
  ASSUME NEW q, NEW w, NEW r, NEW tokens, NEW uids, batch = {}, episodes = {},
         MaybeBatch(q, w, r, tokens, uids)
  PROVE  /\ reported' = reported
         /\ draining' => batch' = {}
         /\ batch' = {} => episodes' = {}
         /\ draining => draining'
         /\ ~draining' => \/ window' = uids /\ episodes' = {}
                          \/ window' = {} /\ episodes' = uids
<1>1. \/ /\ window' = uids
         /\ UNCHANGED <<batch, episodes, draining, reported>>
      \/ \E left, tokensLeft : CutBatch(left, w, r, tokensLeft, uids)
  BY DEF MaybeBatch
<1>2. CASE \E left, tokensLeft : CutBatch(left, w, r, tokensLeft, uids)
  <2>1. PICK shipped : /\ Offer(shipped, uids)
                       /\ window' = IF ClosesWindow(shipped) THEN {} ELSE uids
                       /\ UNCHANGED reported
    BY <1>2 DEF CutBatch
  <2> QED BY <2>1 DEF Offer, ClosesWindow
<1> QED BY <1>1, <1>2

(* process_group adds the group it finalises to the window first.            *)
LEMMA ProcessGroupReports ==
  ASSUME Running, ReportInv, NEW g, NEW p, ProcessGroup(g, p)
  PROVE  /\ reported' = reported
         /\ draining' => batch' = {}
         /\ batch' = {} => episodes' = {}
         /\ draining => draining'
         /\ ~draining' => \/ window' = window \cup {g} /\ episodes' = {}
                          \/ window' = {} /\ episodes' = window \cup {g}
<1>1. batch = {} /\ episodes = {}
  BY DEF Running, ReportInv
<1> DEFINE uids == window \cup {g}
<1>2. \/ window' = uids /\ UNCHANGED <<batch, episodes, draining, reported>>
      \/ \E q, w, r, tokens : MaybeBatch(q, w, r, tokens, uids)
  BY DEF ProcessGroup
<1>3. CASE window' = uids /\ UNCHANGED <<batch, episodes, draining, reported>>
  BY <1>1, <1>3
<1>4. CASE \E q, w, r, tokens : MaybeBatch(q, w, r, tokens, uids)
  BY <1>1, <1>4, MaybeBatchReports
<1> QED BY <1>2, <1>3, <1>4

(* An arrival, whether or not it completes its group, keeps the invariant.   *)
LEMMA ArriveReport ==
  ASSUME AccountInv, ReportInv, Running, NEW g \in Group, NEW p, NEW n,
         owed[g] > 0, Arrive(g, p, n)
  PROVE  ReportInv'
<1>1. finalised[g] = 0 /\ finalised \in [Group -> Nat]
  BY DEF AccountInv
<1>2. CASE GroupComplete(p)
  <2>1. ProcessGroup(g, p)
    BY <1>2 DEF Arrive
  <2>2. finalised' = [finalised EXCEPT ![g] = @ + 1]
    BY <2>1, SMTT(30) DEF ProcessGroup
  <2>3. /\ reported' = reported
        /\ draining' => batch' = {}
        /\ batch' = {} => episodes' = {}
        /\ draining => draining'
        /\ ~draining' => \/ window' = window \cup {g} /\ episodes' = {}
                         \/ window' = {} /\ episodes' = window \cup {g}
    BY <2>1, ProcessGroupReports
  <2>4. ReportedOnce'
    <3> SUFFICES ASSUME ~draining', NEW h \in Group
                 PROVE  finalised'[h] = reported'[h] + (IF h \in episodes' THEN 1 ELSE 0)
                                                     + (IF h \in window' THEN 1 ELSE 0)
      BY DEF ReportedOnce
    <3>1. ~draining /\ batch = {} /\ episodes = {}
      BY <2>3 DEF Running, ReportInv
    <3>2. \A i \in Group : /\ reported[i] \in Nat
                           /\ finalised[i] = reported[i] + (IF i \in window THEN 1 ELSE 0)
      BY <3>1 DEF ReportInv, ReportedOnce
    <3>3. reported[g] = 0 /\ g \notin window
      BY <1>1, <3>2
    <3>4. CASE h = g
      BY <1>1, <2>2, <2>3, <3>3, <3>4
    <3>5. CASE h # g
      <4>1. finalised'[h] = finalised[h] /\ (h \in window \cup {g} <=> h \in window)
        BY <1>1, <2>2, <3>5
      <4> QED BY <2>3, <3>2, <4>1
    <3> QED BY <3>4, <3>5
  <2> QED BY <2>3, <2>4 DEF ReportInv
<1>3. CASE ~GroupComplete(p)
  BY <1>3 DEF Arrive, batchVars, ReportInv, ReportedOnce
<1> QED BY <1>2, <1>3

(* The ship moves the batch's groups from the held to the reported.          *)
LEMMA ShipReport == ASSUME ReportInv, ShipBatch PROVE ReportInv'
<1>1. ~draining
  BY DEF ReportInv, ShipBatch
<1>2. \A g \in Group :
        finalised[g] = reported[g] + (IF g \in episodes THEN 1 ELSE 0)
                                   + (IF g \in window THEN 1 ELSE 0)
  BY <1>1 DEF ReportInv, ReportedOnce
<1>3. /\ reported' = [g \in Group |-> reported[g] + (IF g \in episodes THEN 1 ELSE 0)]
      /\ batch' = {} /\ episodes' = {} /\ UNCHANGED <<window, finalised>>
  BY DEF ShipBatch
<1>4. reported' \in [Group -> Nat]
  BY <1>3 DEF ReportInv
<1>5. \A g \in Group : reported'[g] + 0 = reported[g] + (IF g \in episodes THEN 1 ELSE 0)
  BY <1>3 DEF ReportInv
<1>6. ReportedOnce'
  BY <1>2, <1>3, <1>5 DEF ReportedOnce
<1> QED BY <1>3, <1>4, <1>6 DEF ReportInv

(* Every step keeps the invariant.                                           *)
LEMMA NextReport == ASSUME AccountInv, ReportInv, [Next]_vars PROVE ReportInv'
<1>1. ASSUME NEW g \in Group, Add(g) PROVE ReportInv'
  <2>1. owed[g] > 0 /\ Running /\ \E p : Arrive(g, p, 1)
    BY <1>1 DEF Add
  <2> QED BY <2>1, ArriveReport
<1>2. ASSUME NEW g \in Group, Fail(g) PROVE ReportInv'
  <2>1. owed[g] > 0 /\ Running /\ \E p : Arrive(g, p, 1)
    BY <1>2 DEF Fail
  <2> QED BY <2>1, ArriveReport
<1>3. ASSUME NEW g \in Group, NEW n \in 1 .. GroupSize, NEW r \in {"overload", "stale"},
             Cancel(g, n, r)
      PROVE  ReportInv'
  <2>1. owed[g] > 0 /\ Running /\ \E p : Arrive(g, p, n)
    BY <1>3, TrainSinkAssumption DEF Cancel, AccountInv, TrainSinkAssumption
  <2> QED BY <2>1, ArriveReport
<1>4. ASSUME NEW g \in Group, OpenGroup(g) PROVE ReportInv'
  BY <1>4 DEF OpenGroup, batchVars, ReportInv, ReportedOnce
<1>5. CASE AdvanceVersion \/ UNCHANGED vars
  BY <1>5 DEF AdvanceVersion, vars, batchVars, ReportInv, ReportedOnce
<1> QED BY <1>1, <1>2, <1>3, <1>4, <1>5, ShipReport DEF Next

(* Every finalised group is in the metrics of exactly one batch: one shipped *)
(* or held, or the one whose window is still open; until the drain, and also *)
(* across a batch that the zero-advantage filter left empty (train_sink.py,  *)
(* process_batch; orchestrator.py, finalize_train_batch).                    *)
THEOREM GroupsReportedOnce == Spec => []ReportedOnce
<1>1. Init => AccountInv /\ ReportInv
  BY InitAccount, InitReport
<1>2. AccountInv /\ ReportInv /\ [Next]_vars => (AccountInv /\ ReportInv)'
  BY NextAccount, NextReport
<1>3. ReportInv => ReportedOnce
  BY DEF ReportInv
<1> QED BY <1>1, <1>2, <1>3, PTL DEF Spec
-----------------------------------------------------------------------------
(* The types that the other invariants leave open; a run that has not been   *)
(* aborted has not seen MAX_CONSECUTIVE_EMPTY_BATCHES of them yet.           *)
SinkTypes ==
  /\ rank \in [Group -> Nat]
  /\ gversion \in [Group -> Nat] /\ version \in Nat /\ step \in Nat \ {0}
  /\ ~byTokens => pendingTokens \in Int
  /\ emptyBatches \in 0 .. MaxEmpty /\ (~aborted => emptyBatches < MaxEmpty)
  /\ window \subseteq Group /\ episodes \subseteq Group
  /\ draining \in BOOLEAN /\ aborted \in BOOLEAN

(* Init establishes the types.                                               *)
LEMMA InitSinkTypes == ASSUME Init PROVE SinkTypes
<1>1. step \in Nat \ {0} /\ version \in Nat /\ MaxEmpty \in Nat \ {0}
  BY TrainSinkAssumption DEF Init, TrainSinkAssumption
<1>2. draining \in BOOLEAN /\ aborted \in BOOLEAN
  BY DEF Init
<1>3. /\ rank \in [Group -> Nat] /\ gversion \in [Group -> Nat]
      /\ pendingTokens = 0 /\ emptyBatches = 0 /\ window = {} /\ episodes = {}
  BY DEF Init
<1> QED BY <1>1, <1>2, <1>3 DEF SinkTypes

(* What _maybe_batch and the offer of a batch assign has its type, and one   *)
(* empty batch more ends the run when it is one too many.                    *)
LEMMA MaybeBatchTypes ==
  ASSUME SinkTypes, ~aborted, NEW q, NEW w, NEW r, NEW tokens, ~byTokens => tokens \in Int,
         NEW uids \in SUBSET Group, MaybeBatch(q, w, r, tokens, uids)
  PROVE  /\ ~byTokens => pendingTokens' \in Int
         /\ emptyBatches' \in 0 .. MaxEmpty /\ (~aborted' => emptyBatches' < MaxEmpty)
         /\ window' \subseteq Group /\ episodes' \subseteq Group
         /\ draining' \in BOOLEAN /\ aborted' \in BOOLEAN
<1> USE DEF SinkTypes
<1>0. emptyBatches \in Nat /\ MaxEmpty \in Nat /\ emptyBatches < MaxEmpty
  BY TrainSinkAssumption DEF TrainSinkAssumption
<1> DEFINE swept == IF SweepDue THEN StaleIn(q) ELSE {}
           left == q \ swept
           tokensLeft == Discount(tokens, w, swept)
<1>1. ~byTokens => tokensLeft \in Int
  BY DEF Discount
<1>2. \/ /\ window' = uids /\ pendingTokens' = tokensLeft
         /\ UNCHANGED <<batch, episodes, emptyBatches, draining, reported, aborted>>
      \/ CutBatch(left, w, r, tokensLeft, uids)
  BY DEF MaybeBatch
<1> HIDE DEF tokensLeft, left
<1>3. CASE CutBatch(left, w, r, tokensLeft, uids)
  <2>1. PICK S, shipped :
          /\ pendingTokens' = Discount(tokensLeft, w, S)
          /\ Offer(shipped, uids)
          /\ window' = IF ClosesWindow(shipped) THEN {} ELSE uids
          /\ aborted' = GivesUp(emptyBatches')
    BY <1>3 DEF CutBatch
  <2>2. ~byTokens => pendingTokens' \in Int
    BY <1>1, <2>1 DEF Discount
  <2>3. /\ emptyBatches' \in {emptyBatches, emptyBatches + 1, 0}
        /\ episodes' \in {episodes, uids} /\ draining' \in {draining, TRUE}
    BY <2>1 DEF Offer
  <2>4. emptyBatches' \in 0 .. MaxEmpty
    BY <1>0, <2>3
  <2>5. (aborted' <=> emptyBatches' >= MaxEmpty) /\ aborted' \in BOOLEAN
    <3>1. aborted' = (emptyBatches' >= MaxEmpty)
      BY <2>1 DEF GivesUp
    <3>2. (emptyBatches' >= MaxEmpty) \in BOOLEAN
      OBVIOUS
    <3> QED BY <3>1, <3>2, Zenon
  <2>6. ~aborted' => emptyBatches' < MaxEmpty
    BY <1>0, <2>4, <2>5
  <2> QED BY <2>1, <2>2, <2>3, <2>4, <2>5, <2>6
<1> QED BY <1>1, <1>2, <1>3

(* So has what process_group assigns.                                        *)
LEMMA ProcessGroupTypes ==
  ASSUME SinkTypes, byTokens \in BOOLEAN, ~aborted, NEW g \in Group, NEW p, ProcessGroup(g, p)
  PROVE  /\ rank' \in [Group -> Nat]
         /\ ~byTokens => pendingTokens' \in Int
         /\ emptyBatches' \in 0 .. MaxEmpty /\ (~aborted' => emptyBatches' < MaxEmpty)
         /\ window' \subseteq Group /\ episodes' \subseteq Group
         /\ draining' \in BOOLEAN /\ aborted' \in BOOLEAN
<1> USE DEF SinkTypes
<1>1. PICK sampled \in SUBSET (1 .. p.good), admitted \in BOOLEAN,
           w \in [{g} \X (1 .. p.good + p.barren) -> Sizes] :
        ProcessGroup(g, p)!(sampled, admitted, w)
  BY DEF ProcessGroup
<1> DEFINE new == IF admitted /\ ~(p.reason = "stale") THEN {g} \X sampled ELSE {}
           stale == StaleIn(new)
           kept == new \ stale
           sizes == [t \in Trace |-> IF t \in new THEN w[t] ELSE size[t]]
           order == [rank EXCEPT ![g] = 1 + Cardinality({h \in Group : rank[h] > 0})]
           weighs == IF byTokens THEN Tokens(w, new) ELSE 0
           tokens == Discount(pendingTokens + weighs, w, stale)
           uids == window \cup {g}
<1>2. /\ rank' = order
      /\ \/ /\ aborted' = TRUE /\ window' = uids
            /\ UNCHANGED <<pendingTokens, episodes, emptyBatches, draining>>
         \/ MaybeBatch(queue \cup kept, sizes, order, tokens, uids)
  BY <1>1
<1>3. ~byTokens => tokens \in Int
  BY DEF Discount
<1>4. uids \in SUBSET Group
  OBVIOUS
<1>5. order \in [Group -> Nat]
  <2>1. IsFiniteSet({h \in Group : rank[h] > 0})
    <3>1. {h \in Group : rank[h] > 0} \in SUBSET Group
      OBVIOUS
    <3> QED BY <3>1, TrainSinkAssumption, FS_Subset DEF TrainSinkAssumption
  <2>2. Cardinality({h \in Group : rank[h] > 0}) \in Nat
    BY <2>1, FS_CardinalityType
  <2> QED BY <2>2
<1> HIDE DEF new, stale, kept, sizes, tokens
<1>6. CASE /\ aborted' = TRUE /\ window' = uids
           /\ UNCHANGED <<pendingTokens, episodes, emptyBatches, draining>>
  BY <1>2, <1>4, <1>5, <1>6
<1>7. CASE MaybeBatch(queue \cup kept, sizes, order, tokens, uids)
  <2> HIDE DEF order, uids
  <2> QED BY <1>2, <1>3, <1>4, <1>5, <1>7, MaybeBatchTypes
<1> QED BY <1>2, <1>6, <1>7

(* An arrival keeps the types.                                               *)
LEMMA ArriveTypes ==
  ASSUME SinkTypes, byTokens \in BOOLEAN, Running, NEW g \in Group, NEW p, NEW n,
         Arrive(g, p, n)
  PROVE  SinkTypes'
<1>1. ~aborted /\ UNCHANGED <<byTokens, gversion, version, step>>
  BY DEF Running, Arrive, configVars
<1>2. CASE GroupComplete(p)
  <2>1. ProcessGroup(g, p)
    BY <1>2 DEF Arrive
  <2> QED BY <1>1, <2>1, ProcessGroupTypes DEF SinkTypes
<1>3. CASE ~GroupComplete(p)
  BY <1>1, <1>3 DEF Arrive, SinkTypes, queueVars, batchVars
<1> QED BY <1>2, <1>3

(* Every step keeps the types.                                               *)
LEMMA NextSinkTypes == ASSUME byTokens \in BOOLEAN, SinkTypes, [Next]_vars PROVE SinkTypes'
<1>1. ASSUME NEW g \in Group, Add(g) \/ Fail(g) PROVE SinkTypes'
  <2>1. Running /\ \E p : Arrive(g, p, 1)
    BY <1>1 DEF Add, Fail
  <2> QED BY <2>1, ArriveTypes
<1>2. ASSUME NEW g \in Group, NEW n, NEW r, Cancel(g, n, r) PROVE SinkTypes'
  <2>1. Running /\ \E p : Arrive(g, p, n)
    BY <1>2 DEF Cancel
  <2> QED BY <2>1, ArriveTypes
<1>3. ASSUME NEW g \in Group, OpenGroup(g) PROVE SinkTypes'
  BY <1>3 DEF OpenGroup, configVars, queueVars, batchVars, SinkTypes
<1>4. CASE ShipBatch
  BY <1>4, TrainSinkAssumption
     DEF ShipBatch, configVars, envVars, queueVars, SinkTypes, TrainSinkAssumption
<1>5. CASE AdvanceVersion
  BY <1>5 DEF AdvanceVersion, configVars, envVars, queueVars, batchVars, SinkTypes
<1>6. CASE UNCHANGED vars
  BY <1>6 DEF vars, SinkTypes
<1> QED BY <1>1, <1>2, <1>3, <1>4, <1>5, <1>6 DEF Next

(* Every variable keeps its type; the empty batches in a row never exceed    *)
(* MAX_CONSECUTIVE_EMPTY_BATCHES (orchestrator.py, finalize_train_batch).    *)
THEOREM SinkTyped == Spec => []TypeOK
<1>1. Init => AccountInv /\ FreshInv /\ BarrenInv /\ QueueInv /\ ReportInv /\ SinkTypes
  BY InitAccount, InitFresh, InitBarren, InitQueue, InitReport, InitSinkTypes
<1>2. /\ AccountInv /\ FreshInv /\ BarrenInv /\ QueueInv /\ ReportInv /\ SinkTypes
      /\ [Next]_vars
      => (AccountInv /\ FreshInv /\ BarrenInv /\ QueueInv /\ ReportInv /\ SinkTypes)'
  <2>1. QueueInv => byTokens \in BOOLEAN
    BY DEF QueueInv
  <2> QED BY <2>1, NextAccount, NextFresh, NextBarren, NextQueue, NextReport, NextSinkTypes
<1>3. /\ AccountInv /\ FreshInv /\ BarrenInv /\ QueueInv /\ ReportInv /\ SinkTypes
      => TypeOK
  <2> SUFFICES ASSUME AccountInv, FreshInv, BarrenInv, QueueInv, ReportInv, SinkTypes
               PROVE  TypeOK
    OBVIOUS
  <2>1. pendingTokens \in Int
    <3>1. CASE byTokens
      <4>1. IsFiniteSet(queue) /\ queue \in SUBSET queue /\ \A t \in queue : size[t] \in Nat
        BY TracesFinite, FS_Subset DEF QueueInv
      <4>2. Tokens(size, queue) \in Nat
        BY <4>1, TokensSplit
      <4> QED BY <3>1, <4>2 DEF QueueInv, TokensMatch
    <3> QED BY <3>1 DEF QueueInv, SinkTypes
  <2> QED BY <2>1 DEF TypeOK, AccountInv, FreshInv, BarrenInv, QueueInv, ReportInv, SinkTypes
<1> QED BY <1>1, <1>2, <1>3, PTL DEF Spec
-----------------------------------------------------------------------------
(* The order of lists is a total one.                                       *)
LEMMA LessIsTotal ==
  \A a, b, c \in Seq(Int) : /\ ~Less(a, a)
                            /\ Less(a, b) /\ Less(b, c) => Less(a, c)
                            /\ a = b \/ Less(a, b) \/ Less(b, a)
<1> SUFFICES ASSUME NEW a \in Seq(Int), NEW b \in Seq(Int), NEW c \in Seq(Int)
             PROVE  /\ ~Less(a, a)
                    /\ Less(a, b) /\ Less(b, c) => Less(a, c)
                    /\ a = b \/ Less(a, b) \/ Less(b, a)
  OBVIOUS
<1>1. ~Less(a, a)
  BY DEF Less
<1>2. ASSUME Less(a, b), Less(b, c) PROVE Less(a, c)
  <2>1. PICK i \in DOMAIN b : /\ \A h \in 1 .. (i - 1) : h <= Len(a) /\ a[h] = b[h]
                              /\ i > Len(a) \/ a[i] < b[i]
    BY <1>2 DEF Less
  <2>2. PICK j \in DOMAIN c : /\ \A h \in 1 .. (j - 1) : h <= Len(b) /\ b[h] = c[h]
                              /\ j > Len(b) \/ b[j] < c[j]
    BY <1>2 DEF Less
  <2>3. /\ i \in Nat /\ j \in Nat /\ 1 <= i /\ i <= Len(b) /\ 1 <= j /\ j <= Len(c)
        /\ DOMAIN b = 1 .. Len(b) /\ DOMAIN c = 1 .. Len(c)
        /\ Len(a) \in Nat /\ Len(b) \in Nat /\ Len(c) \in Nat
    OBVIOUS
  <2>4. \A h \in Nat : /\ 1 <= h /\ h <= Len(a) => a[h] \in Int
                       /\ 1 <= h /\ h <= Len(b) => b[h] \in Int
                       /\ 1 <= h /\ h <= Len(c) => c[h] \in Int
    OBVIOUS
  <2>5. CASE i < j
    <3>0. i \in 1 .. (j - 1)
      BY <2>3, <2>5
    <3>1. b[i] = c[i]
      BY <2>2, <3>0
    <3>2. i \in DOMAIN c
      BY <2>3, <2>5
    <3>3. \A h \in 1 .. (i - 1) : h <= Len(a) /\ a[h] = c[h]
      BY <2>1, <2>2, <2>3, <2>5
    <3>4. i > Len(a) \/ a[i] < c[i]
      BY <2>1, <3>1
    <3> QED BY <3>2, <3>3, <3>4 DEF Less
  <2>6. CASE j < i
    <3>1. b[j] < c[j] /\ j \in 1 .. (i - 1)
      BY <2>2, <2>3, <2>6
    <3>2. a[j] = b[j] /\ j <= Len(a)
      BY <2>1, <3>1
    <3>3. \A h \in 1 .. (j - 1) : h <= Len(a) /\ a[h] = c[h]
      BY <2>1, <2>2, <2>3, <2>6
    <3> QED BY <3>1, <3>2, <3>3 DEF Less
  <2>7. CASE i = j
    <3>1. b[i] < c[i]
      BY <2>2, <2>3, <2>7
    <3>2. i > Len(a) \/ a[i] < c[i]
      <4>1. CASE i > Len(a)
        BY <4>1
      <4>2. CASE ~(i > Len(a))
        <5>1. a[i] < b[i] /\ a[i] \in Int /\ b[i] \in Int /\ c[i] \in Int
          BY <2>1, <2>3, <2>4, <2>7, <4>2
        <5> QED BY <3>1, <5>1
      <4> QED BY <4>1, <4>2
    <3>3. \A h \in 1 .. (i - 1) : h <= Len(a) /\ a[h] = c[h]
      BY <2>1, <2>2, <2>7
    <3> QED BY <2>7, <3>2, <3>3 DEF Less
  <2> QED BY <2>3, <2>5, <2>6, <2>7
<1>3. a = b \/ Less(a, b) \/ Less(b, a)
  <2> SUFFICES ASSUME a # b PROVE Less(a, b) \/ Less(b, a)
    OBVIOUS
  <2> DEFINE D == {i \in Nat : 1 <= i /\ (i > Len(a) \/ i > Len(b) \/ a[i] # b[i])}
  <2>1. /\ DOMAIN a = 1 .. Len(a) /\ DOMAIN b = 1 .. Len(b) /\ Len(a) \in Nat /\ Len(b) \in Nat
        /\ \A h \in Nat : /\ 1 <= h /\ h <= Len(a) => a[h] \in Int
                          /\ 1 <= h /\ h <= Len(b) => b[h] \in Int
    OBVIOUS
  <2>2. Len(a) + 1 \in D
    BY <2>1
  <2>3. PICK n \in D : \A m \in D : n <= m
    <3>1. D \in SUBSET Nat /\ D # {}
      BY <2>2
    <3> QED BY <3>1, LeastNumber
  <2>4. /\ n \in Nat /\ 1 <= n
        /\ \A h \in 1 .. (n - 1) : h <= Len(a) /\ h <= Len(b) /\ a[h] = b[h]
    <3>1. \A h \in 1 .. (n - 1) : h \notin D /\ h \in Nat /\ 1 <= h
      BY <2>3
    <3> QED BY <2>1, <2>3, <3>1
  <2>5. n > Len(a) \/ n > Len(b) \/ a[n] # b[n]
    BY <2>3
  <2> HIDE DEF D
  <2>6. CASE n > Len(b) /\ n <= Len(a)
    <3>1. n \in DOMAIN a
      BY <2>1, <2>4, <2>6
    <3> QED BY <2>4, <2>6, <3>1 DEF Less
  <2>7. CASE n > Len(a) /\ n <= Len(b)
    <3>1. n \in DOMAIN b
      BY <2>1, <2>4, <2>7
    <3> QED BY <2>4, <2>7, <3>1 DEF Less
  <2>8. CASE n <= Len(a) /\ n <= Len(b)
    <3>1. a[n] \in Int /\ b[n] \in Int /\ (a[n] < b[n] \/ b[n] < a[n])
      BY <2>1, <2>4, <2>5, <2>8
    <3>2. n \in DOMAIN a /\ n \in DOMAIN b
      BY <2>1, <2>4, <2>8
    <3>3. a[n] < b[n] => Less(a, b)
      BY <2>4, <3>2 DEF Less
    <3>4. b[n] < a[n] => Less(b, a)
      <4>1. \A h \in 1 .. (n - 1) : h <= Len(b) /\ b[h] = a[h]
        BY <2>4
      <4> QED BY <3>2, <4>1 DEF Less
    <3> QED BY <3>1, <3>3, <3>4
  <2>9. CASE n > Len(a) /\ n > Len(b)
    <3>1. Len(a) = Len(b)
      <4>1. Len(a) = n - 1
        <5>1. n - 1 > 0 => n - 1 \in 1 .. (n - 1)
          BY <2>4
        <5> QED BY <2>1, <2>4, <2>9, <5>1
      <4>2. Len(b) = n - 1
        <5>1. n - 1 > 0 => n - 1 \in 1 .. (n - 1)
          BY <2>4
        <5> QED BY <2>1, <2>4, <2>9, <5>1
      <4> QED BY <4>1, <4>2
    <3>2. \A h \in 1 .. Len(a) : a[h] = b[h]
      BY <2>1, <2>4, <2>9
    <3> QED BY <3>1, <3>2, SeqEqual
  <2> QED BY <2>1, <2>4, <2>6, <2>7, <2>8, <2>9
<1> QED BY <1>1, <1>2, <1>3

(* What a sort sorts: finitely many elements with keys of their own.        *)
Keyed(key) == /\ IsFiniteSet(DOMAIN key)
              /\ \A x \in DOMAIN key : key[x] \in Seq(Int)
              /\ \A x, y \in DOMAIN key : key[x] = key[y] => x = y

(* A sort puts every element in one place.                                  *)
LEMMA SortsAll ==
  ASSUME NEW key, Keyed(key)
  PROVE  SortBy(key) \in Bijection(1 .. Cardinality(DOMAIN key), DOMAIN key)
<1> DEFINE S == DOMAIN key
           N == Cardinality(S)
           E(x) == Earlier(key, x)
           r == [x \in S |-> Cardinality(E(x)) + 1]
<1>1. /\ IsFiniteSet(S) /\ N \in Nat
      /\ \A x \in S : E(x) \subseteq S /\ IsFiniteSet(E(x)) /\ Cardinality(E(x)) \in Nat /\ x \notin E(x)
  <2>1. IsFiniteSet(S) /\ N \in Nat
    BY FS_CardinalityType DEF Keyed
  <2>2. ASSUME NEW x \in S
        PROVE  E(x) \subseteq S /\ IsFiniteSet(E(x)) /\ Cardinality(E(x)) \in Nat /\ x \notin E(x)
    <3>1. E(x) \subseteq S
      BY DEF Earlier
    <3>2. x \notin E(x)
      BY LessIsTotal DEF Earlier, Keyed
    <3> QED BY <2>1, <3>1, <3>2, FS_Subset, FS_CardinalityType
  <2> QED BY <2>1, <2>2
<1>2. \A x \in S : Cardinality(E(x)) <= N - 1
  <2> SUFFICES ASSUME NEW x \in S PROVE Cardinality(E(x)) <= N - 1
    OBVIOUS
  <2>1. IsFiniteSet(S \ {x}) /\ Cardinality(S \ {x}) = N - 1
    BY <1>1, FS_RemoveElement
  <2>2. E(x) \in SUBSET (S \ {x})
    BY <1>1
  <2> HIDE DEF E
  <2> QED BY <2>1, <2>2, FS_Subset
<1>3. ASSUME NEW x \in S, NEW y \in S, Less(key[x], key[y])
      PROVE  Cardinality(E(x)) < Cardinality(E(y))
  <2>1. E(x) \cup {x} \subseteq E(y)
    <3>1. key[x] \in Seq(Int) /\ key[y] \in Seq(Int)
      BY DEF Keyed
    <3>2. \A z \in S : key[z] \in Seq(Int)
      BY DEF Keyed
    <3>3. \A z \in S : Less(key[z], key[x]) => Less(key[z], key[y])
      BY <1>3, <3>1, <3>2, LessIsTotal
    <3> QED BY <1>3, <3>3 DEF Earlier
  <2>2. Cardinality(E(x) \cup {x}) = Cardinality(E(x)) + 1
    BY <1>1, FS_AddElement
  <2>3. Cardinality(E(x) \cup {x}) <= Cardinality(E(y))
    BY <1>1, <2>1, FS_Subset
  <2> QED BY <1>1, <2>2, <2>3
<1>4. \A x, y \in S : r[x] = r[y] => x = y
  <2> SUFFICES ASSUME NEW x \in S, NEW y \in S, x # y PROVE r[x] # r[y]
    OBVIOUS
  <2>1. Less(key[x], key[y]) \/ Less(key[y], key[x])
    BY LessIsTotal DEF Keyed
  <2>2. Cardinality(E(x)) \in Nat /\ Cardinality(E(y)) \in Nat
    BY <1>1
  <2>3. Cardinality(E(x)) < Cardinality(E(y)) \/ Cardinality(E(y)) < Cardinality(E(x))
    BY <1>3, <2>1
  <2> HIDE DEF E
  <2> QED BY <2>2, <2>3
<1>5. r \in Surjection(S, 1 .. N)
  <2>1. r \in Injection(S, 1 .. N)
    <3>1. \A x \in S : Cardinality(E(x)) + 1 \in 1 .. N
      <4> HIDE DEF E
      <4> QED BY <1>1, <1>2
    <3>2. r \in [S -> 1 .. N]
      BY <3>1
    <3> HIDE DEF r
    <3> QED BY <1>4, <3>2 DEF Injection, IsInjective
  <2>2. IsFiniteSet(1 .. N) /\ Cardinality(1 .. N) = N
    BY <1>1, FS_Interval
  <2> HIDE DEF r
  <2> QED BY <2>1, <2>2, FS_Injection
<1> DEFINE f == SortBy(key)
<1>6. ASSUME NEW n \in 1 .. N
      PROVE  f[n] \in S /\ r[f[n]] = n
  <2>1. PICK x \in S : r[x] = n
    BY <1>5 DEF Surjection
  <2>2. Cardinality(E(x)) = n - 1
    <3>1. Cardinality(E(x)) \in Nat /\ r[x] = Cardinality(E(x)) + 1
      BY <1>1
    <3> HIDE DEF E, r
    <3> QED BY <2>1, <3>1
  <2>3. f[n] = CHOOSE y \in S : Cardinality(E(y)) = n - 1
    BY DEF SortBy
  <2>4. f[n] \in S /\ Cardinality(E(f[n])) = n - 1
    BY <2>2, <2>3
  <2>5. r[f[n]] = Cardinality(E(f[n])) + 1
    BY <2>4
  <2> HIDE DEF E, r, f
  <2> QED BY <2>4, <2>5
<1>7. f \in [1 .. N -> S]
  <2>1. f = [n \in 1 .. N |-> f[n]]
    BY DEF SortBy
  <2> HIDE DEF f
  <2> QED BY <1>6, <2>1
<1> HIDE DEF f, r
<1>8. f \in Injection(1 .. N, S)
  BY <1>6, <1>7 DEF Injection, IsInjective
<1>9. \A x \in S : \E n \in 1 .. N : f[n] = x
  <2> SUFFICES ASSUME NEW x \in S PROVE f[r[x]] = x /\ r[x] \in 1 .. N
    OBVIOUS
  <2>1. r[x] \in 1 .. N
    BY <1>5 DEF Surjection
  <2>2. f[r[x]] \in S /\ r[f[r[x]]] = r[x]
    BY <1>6, <2>1
  <2> QED BY <1>4, <2>1, <2>2
<1> QED BY <1>7, <1>8, <1>9 DEF Surjection, Bijection, f

(* The first and the last of what there is are among it.                    *)
LEMMA SortPicks ==
  ASSUME NEW key, Keyed(key), DOMAIN key # {}
  PROVE  Least(key) \in DOMAIN key /\ Greatest(key) \in DOMAIN key
<1> DEFINE N == Cardinality(DOMAIN key)
<1>1. N \in Nat /\ N # 0
  BY FS_CardinalityType, FS_EmptySet DEF Keyed
<1>2. 1 \in 1 .. N /\ N \in 1 .. N
  BY <1>1
<1>3. SortBy(key) \in [1 .. N -> DOMAIN key]
  BY SortsAll DEF Bijection, Injection
<1> HIDE DEF N
<1>4. SortBy(key)[1] \in DOMAIN key /\ SortBy(key)[N] \in DOMAIN key
  BY <1>2, <1>3
<1> QED BY <1>4 DEF Least, Greatest, N

(* Numbers are sorted by themselves.                                        *)
LEMMA OrdersAll ==
  ASSUME NEW S \in SUBSET Int, IsFiniteSet(S)
  PROVE  Ordered(S) \in Bijection(1 .. Cardinality(S), S)
<1> DEFINE key == [i \in S |-> <<i>>]
<1>1. DOMAIN key = S
  OBVIOUS
<1>2. \A i \in S : key[i] \in Seq(Int) /\ key[i][1] = i
  OBVIOUS
<1>3. Keyed(key)
  <2> HIDE DEF key
  <2> QED BY <1>1, <1>2 DEF Keyed
<1> HIDE DEF key
<1>4. SortBy(key) \in Bijection(1 .. Cardinality(S), S)
  BY <1>1, <1>3, SortsAll
<1> QED BY <1>4 DEF Ordered, key

(* A sum of numbers is the fold of all of them.                             *)
LEMMA SumFolds ==
  ASSUME NEW w, IsFiniteSet(DOMAIN w)
  PROVE  \E f : Adds(f, w, DOMAIN w) /\ SumFunction(w) = f[DOMAIN w]
<1> DEFINE iter == CHOOSE f : Adds(f, w, DOMAIN w)
<1>1. SumFunction(w) = iter[DOMAIN w]
  BY DEF SumFunction, SumFunctionOnSet, FoldFunctionOnSet, MapThenFoldSet, Adds
<1>2. Adds(iter, w, DOMAIN w)
  <2>1. \E f : Adds(f, w, DOMAIN w)
    BY FoldExists
  <2> QED BY <2>1, Zenon
<1> HIDE DEF iter
<1> QED BY <1>1, <1>2

(* It is a number.                                                          *)
LEMMA SumTyped ==
  ASSUME NEW w, IsFiniteSet(DOMAIN w), \A x \in DOMAIN w : w[x] \in Nat
  PROVE  SumFunction(w) \in Nat /\ (DOMAIN w = {} => SumFunction(w) = 0)
<1>1. PICK f : Adds(f, w, DOMAIN w) /\ SumFunction(w) = f[DOMAIN w]
  BY SumFolds
<1>2. f[DOMAIN w] \in Nat
  BY <1>1, SumParts DEF Sums
<1>3. DOMAIN w = {} => f[DOMAIN w] = 0
  BY <1>1 DEF Adds
<1> QED BY <1>1, <1>2, <1>3

(* One summand more adds that summand.                                      *)
LEMMA SumAdds ==
  ASSUME NEW w, IsFiniteSet(DOMAIN w), \A x \in DOMAIN w : w[x] \in Nat,
         NEW v, NEW z \in DOMAIN w, DOMAIN v = DOMAIN w \ {z},
         \A x \in DOMAIN v : v[x] = w[x]
  PROVE  SumFunction(w) = SumFunction(v) + w[z]
<1> DEFINE S == DOMAIN w
           T == DOMAIN v
<1>1. PICK f : Adds(f, w, S) /\ SumFunction(w) = f[S]
  BY SumFolds
<1>2. IsFiniteSet(T) /\ T \in SUBSET S /\ T = S \ {z} /\ \A x \in T : v[x] \in Nat
  BY FS_Subset
<1>3. PICK g : Adds(g, v, T) /\ SumFunction(v) = g[T]
  BY <1>2, SumFolds
<1>4. PICK h : Adds(h, v, T)
  BY <1>3
<1> HIDE DEF S, T
<1>5. IsFiniteSet(S) /\ \A x \in S : w[x] \in Nat
  BY DEF S
<1>6. f[T] = g[T]
  <2>1. \A x \in T : v[x] = w[x]
    BY DEF T
  <2> QED BY <1>1, <1>2, <1>3, <1>5, <2>1, SumsAgree
<1>7. f[S] = w[z] + f[S \ {z}] /\ f[T] \in Nat /\ w[z] \in Nat
  <2>1. z \in S /\ S \in SUBSET S
    BY DEF S
  <2>2. Sums(f, w, S)
    BY <1>1, <1>5, SumParts
  <2>3. f[S] = w[z] + f[S \ {z}]
    BY <2>1, <2>2 DEF Sums
  <2>4. f[T] \in Nat /\ w[z] \in Nat
    BY <1>2, <1>5, <2>1, <2>2 DEF Sums
  <2> QED BY <2>3, <2>4
<1> QED BY <1>1, <1>2, <1>3, <1>6, <1>7

(* How long the samples of b are together, and what a bin has to keep to.   *)
SumLen(s, b) == SumFunction([i \in DOMAIN b |-> s[b[i]].len])
Alike(x, y) == x.routed = y.routed /\ (x.image = y.image \/ NoImage \in {x.image, y.image})
Fit(s, b) == SumLen(s, b) <= MaxLen /\ \A i, j \in DOMAIN b : Alike(s[b[i]], s[b[j]])
Measured(s) == \A i \in Id : s[i].len \in Nat

(* The length of a bin is that of its samples.                              *)
LEMMA LengthIs == \A b : LengthOf(b) = SumLen(sample, b)
BY DEF LengthOf, Lens, SumLen

(* The length of a bin is a number.                                         *)
LEMMA LengthTyped ==
  ASSUME NEW s, Measured(s), NEW b \in Seq(Id)
  PROVE  SumLen(s, b) \in Nat /\ (b = <<>> => SumLen(s, b) = 0)
<1> DEFINE w == [i \in DOMAIN b |-> s[b[i]].len]
<1>1. DOMAIN w = 1 .. Len(b) /\ Len(b) \in Nat
  OBVIOUS
<1>2. IsFiniteSet(DOMAIN w)
  BY <1>1, FS_Interval
<1>3. \A x \in DOMAIN w : w[x] \in Nat
  BY <1>1 DEF Measured
<1>4. b = <<>> => DOMAIN w = {}
  BY <1>1
<1> HIDE DEF w
<1>5. SumFunction(w) \in Nat /\ (DOMAIN w = {} => SumFunction(w) = 0)
  BY <1>2, <1>3, SumTyped
<1> QED BY <1>4, <1>5 DEF SumLen, w

(* What is appended to a bin adds to its length.                            *)
LEMMA LengthAdds ==
  ASSUME NEW s, Measured(s), NEW b \in Seq(Id), NEW x \in Id
  PROVE  SumLen(s, Append(b, x)) = SumLen(s, b) + s[x].len
<1> DEFINE c == Append(b, x)
           w == [i \in DOMAIN c |-> s[c[i]].len]
           v == [i \in DOMAIN b |-> s[b[i]].len]
           z == Len(b) + 1
<1>1. /\ c \in Seq(Id) /\ Len(c) = Len(b) + 1 /\ c[z] = x /\ Len(b) \in Nat
      /\ \A i \in 1 .. Len(b) : c[i] = b[i]
  OBVIOUS
<1>2. DOMAIN w = 1 .. (Len(b) + 1) /\ DOMAIN v = 1 .. Len(b)
  <2>1. DOMAIN c = 1 .. Len(c) /\ DOMAIN b = 1 .. Len(b)
    BY <1>1
  <2> HIDE DEF c
  <2> QED BY <1>1, <2>1
<1>3. IsFiniteSet(DOMAIN w) /\ z \in DOMAIN w /\ DOMAIN v = DOMAIN w \ {z}
  <2>1. PICK n \in Nat : n = Len(b)
    BY <1>1
  <2>2. IsFiniteSet(1 .. (n + 1))
    <3>1. 1 \in Int /\ n + 1 \in Int
      OBVIOUS
    <3> QED BY <3>1, FS_Interval
  <2>3. n + 1 \in 1 .. (n + 1) /\ 1 .. n = (1 .. (n + 1)) \ {n + 1}
    OBVIOUS
  <2> HIDE DEF w, v
  <2> QED BY <1>2, <2>1, <2>2, <2>3
<1>4. \A i \in DOMAIN w : w[i] = s[c[i]].len /\ c[i] \in Id
  <2>1. \A i \in DOMAIN c : c[i] \in Id
    BY <1>1
  <2> HIDE DEF c
  <2> QED BY <2>1
<1>5. \A i \in DOMAIN w : w[i] \in Nat
  <2> HIDE DEF w, c
  <2> QED BY <1>4 DEF Measured
<1>6. \A i \in DOMAIN v : v[i] = w[i]
  <2>1. \A i \in DOMAIN v : v[i] = s[b[i]].len /\ c[i] = b[i] /\ i \in DOMAIN w
    BY <1>1, <1>2
  <2> HIDE DEF w, v, c
  <2> QED BY <1>4, <2>1
<1>7. w[z] = s[x].len
  <2> HIDE DEF w, v, c
  <2> QED BY <1>1, <1>3, <1>4
<1>8. SumLen(s, c) = SumFunction(w) /\ SumLen(s, b) = SumFunction(v)
  BY DEF SumLen
<1> HIDE DEF w, v, c, z
<1>9. SumFunction(w) = SumFunction(v) + w[z]
  BY <1>3, <1>5, <1>6, SumAdds
<1> QED BY <1>7, <1>8, <1>9 DEF c

(* The first n + 1 samples of a bin are the first n and one more.           *)
LEMMA PrefixStep ==
  ASSUME NEW b \in Seq(Id), NEW n \in Nat, n < Len(b)
  PROVE  /\ SubSeq(b, 1, n) \in Seq(Id)
         /\ b[n + 1] \in Id
         /\ SubSeq(b, 1, n + 1) = Append(SubSeq(b, 1, n), b[n + 1])
<1>1. SubSeq(b, 1, n) \in Seq(Id) /\ b[n + 1] \in Id /\ n + 1 \in DOMAIN b
  OBVIOUS
<1>2. Len(SubSeq(b, 1, n)) = n /\ Len(SubSeq(b, 1, n + 1)) = n + 1
  OBVIOUS
<1>3. \A i \in 1 .. (n + 1) : SubSeq(b, 1, n + 1)[i] = Append(SubSeq(b, 1, n), b[n + 1])[i]
  <2> SUFFICES ASSUME NEW i \in 1 .. (n + 1)
               PROVE  SubSeq(b, 1, n + 1)[i] = Append(SubSeq(b, 1, n), b[n + 1])[i]
    OBVIOUS
  <2>1. SubSeq(b, 1, n + 1)[i] = b[i]
    OBVIOUS
  <2>2. CASE i <= n
    BY <2>1, <2>2
  <2>3. CASE i = n + 1
    BY <1>2, <2>1, <2>3
  <2> QED BY <2>2, <2>3
<1>4. SubSeq(b, 1, n + 1) \in Seq(Id) /\ Append(SubSeq(b, 1, n), b[n + 1]) \in Seq(Id)
  BY <1>1
<1>5. Len(Append(SubSeq(b, 1, n), b[n + 1])) = n + 1
  BY <1>1, <1>2
<1> QED BY <1>1, <1>2, <1>3, <1>4, <1>5, SeqEqual

(* Truncation leaves something short enough of every sample, and as many    *)
(* placeholders as its image tensors have embeddings for.                   *)
Matching(s) ==
  /\ Cardinality(s.tokens) = TokensOf(s, Len(s.upto))
  /\ s.image # NoImage <=> s.upto # <<>>
Sound(s) == s.len \in Nat \ {0} /\ Matching(s)

(* Sets of numbers with an upper bound have a greatest member.              *)
LEMMA GreatestNumber ==
  ASSUME NEW S \in SUBSET Nat, S # {}, NEW n \in Nat, \A x \in S : x <= n
  PROVE  /\ \E y \in S : \A x \in S : x <= y
         /\ Max(S) \in S /\ \A x \in S : x <= Max(S)
<1> DEFINE Rest == {n - x : x \in S}
<1>1. PICK m \in Rest : \A k \in Rest : m <= k
  <2>1. \A x \in S : x \in Nat /\ n - x \in Nat
    OBVIOUS
  <2>2. Rest \in SUBSET Nat /\ Rest # {}
    BY <2>1, Zenon
  <2> HIDE DEF Rest
  <2> QED BY <2>2, LeastNumber
<1>2. PICK y \in S : m = n - y
  BY <1>1
<1>3. \A x \in S : x <= y
  <2> SUFFICES ASSUME NEW x \in S PROVE x <= y
    OBVIOUS
  <2>1. m <= n - x
    BY <1>1
  <2> QED BY <1>2, <2>1
<1>4. Max(S) = CHOOSE x \in S : \A z \in S : x >= z
  BY DEF Max
<1>5. \A z \in S : y >= z
  BY <1>3
<1>6. Max(S) \in S /\ \A z \in S : Max(S) >= z
  BY <1>4, <1>5
<1> HIDE DEF Max
<1>7. \A x \in S : x <= Max(S)
  BY <1>6
<1> QED BY <1>3, <1>6, <1>7

(* The least member of a set of numbers, as Min chooses it.                 *)
LEMMA MinIsLeast ==
  ASSUME NEW S \in SUBSET Nat, S # {}
  PROVE  Min(S) \in S /\ \A x \in S : Min(S) <= x
<1>1. PICK n \in S : \A m \in S : n <= m
  BY LeastNumber
<1>2. Min(S) = CHOOSE x \in S : \A y \in S : x <= y
  BY DEF Min
<1> QED BY <1>1, <1>2

(* A set of numbers has finitely many up to any of them.                    *)
LEMMA UpToFinite ==
  ASSUME NEW T \in SUBSET Nat, NEW n \in Int
  PROVE  /\ IsFiniteSet(T \cap 1 .. n) /\ Cardinality(T \cap 1 .. n) \in Nat
<1>1. IsFiniteSet(1 .. n)
  BY FS_Interval
<1>2. IsFiniteSet(T \cap 1 .. n)
  BY <1>1, FS_Subset
<1> QED BY <1>2, FS_CardinalityType

(* The members of a set that come behind n others: if there are more than n *)
(* up to some point, the first of them lies before it and has n before it.  *)
LEMMA FirstBehind ==
  ASSUME NEW s, s.tokens \in SUBSET Nat, \A x \in s.tokens : x >= 2,
         NEW n \in Nat, NEW m \in Nat, Cardinality(s.tokens \cap 1 .. m) > n
  PROVE  LET p == Min(Behind(s, n))
         IN  /\ p \in s.tokens /\ p <= m
             /\ Cardinality(s.tokens \cap 1 .. (p - 1)) = n
<1> DEFINE T == s.tokens
           UpTo(k) == T \cap 1 .. k
           B == Behind(s, n)
           p == Min(B)
<1>1. \A k \in Int : IsFiniteSet(UpTo(k)) /\ Cardinality(UpTo(k)) \in Nat
  BY UpToFinite
<1>2. B = {q \in T : Cardinality(UpTo(q)) > n}
  BY DEF Behind
<1>3. T \in SUBSET Nat /\ \A x \in T : x >= 2
  OBVIOUS
<1>4. Cardinality(UpTo(m)) > n
  OBVIOUS
<1> HIDE DEF T, B
<1>5. ASSUME NEW k \in Nat, Cardinality(UpTo(k)) > n
      PROVE  \E q \in B : q <= k
  <2>1. UpTo(k) # {}
    <3>1. Cardinality({}) = 0
      BY FS_EmptySet
    <3> QED BY <1>5, <3>1
  <2>2. PICK q \in UpTo(k) : \A x \in UpTo(k) : x <= q
    <3>1. UpTo(k) \in SUBSET Nat /\ \A x \in UpTo(k) : x <= k
      BY <1>3
    <3> HIDE DEF UpTo
    <3> QED BY <2>1, <3>1, GreatestNumber
  <2>3. UpTo(q) = UpTo(k)
    BY <1>3, <2>2
  <2>4. q \in T /\ q <= k
    BY <1>3, <2>2
  <2> HIDE DEF UpTo
  <2> QED BY <1>2, <1>5, <2>3, <2>4
<1>6. p \in B /\ \A q \in B : p <= q
  <2>1. B # {} /\ B \in SUBSET Nat
    BY <1>2, <1>3, <1>4, <1>5
  <2> QED BY <2>1, MinIsLeast
<1> HIDE DEF p
<1>7. p \in T /\ p \in Nat /\ p >= 2 /\ Cardinality(UpTo(p)) > n
  BY <1>2, <1>3, <1>6
<1>8. p <= m
  <2>1. PICK q \in B : q <= m
    BY <1>4, <1>5
  <2>2. q \in Nat
    BY <1>2, <1>3
  <2> QED BY <1>6, <1>7, <2>1, <2>2
<1>9. p - 1 \in Nat
  BY <1>7
<1>10. ~(Cardinality(UpTo(p - 1)) > n)
  <2> SUFFICES ASSUME Cardinality(UpTo(p - 1)) > n PROVE FALSE
    OBVIOUS
  <2>1. PICK q \in B : q <= p - 1
    BY <1>5, <1>9
  <2>2. q \in Nat /\ p <= q
    BY <1>2, <1>3, <1>6
  <2> QED BY <1>7, <2>1, <2>2
<1>11. Cardinality(UpTo(p)) = Cardinality(UpTo(p - 1)) + 1
  <2>1. UpTo(p) = UpTo(p - 1) \cup {p} /\ p \notin UpTo(p - 1)
    BY <1>3, <1>7
  <2>2. IsFiniteSet(UpTo(p - 1))
    BY <1>1, <1>9
  <2> HIDE DEF UpTo
  <2> QED BY <2>1, <2>2, FS_AddElement
<1>12. Cardinality(UpTo(p - 1)) = n
  <2> HIDE DEF UpTo
  <2>1. Cardinality(UpTo(p - 1)) \in Nat /\ Cardinality(UpTo(p)) \in Nat
    BY <1>1, <1>7, <1>9
  <2> QED BY <1>7, <1>10, <1>11, <2>1
<1> QED BY <1>7, <1>8, <1>12 DEF p, B, T

(* The images that survive whole: their placeholders lie before seq_len.    *)
LEMMA KeptTyped ==
  ASSUME NEW s \in RawSample
  PROVE  /\ Kept(s) \in 0 .. Len(s.upto) /\ Surviving(s) \in Nat
         /\ TokensOf(s, Kept(s)) \in Nat /\ TokensOf(s, Kept(s)) <= Surviving(s)
<1> USE PackingAssumption DEF PackingAssumption
<1> DEFINE K == {k \in 0 .. Len(s.upto) : TokensOf(s, k) <= Surviving(s)}
<1>1. s.upto \in Seq(Nat \ {0}) /\ s.tokens \in SUBSET Nat /\ MaxLen \in Nat
  OBVIOUS
<1>2. Surviving(s) \in Nat
  <2>1. MaxLen \in Int /\ s.tokens \in SUBSET Nat
    BY <1>1
  <2> QED BY ONLY <2>1, UpToFinite DEF Surviving
<1>3. \A k \in 0 .. Len(s.upto) : TokensOf(s, k) \in Nat
  BY <1>1 DEF TokensOf
<1>4. K \in SUBSET Nat /\ 0 \in K /\ \A k \in K : k <= Len(s.upto)
  BY <1>1, <1>2 DEF TokensOf
<1>5. Len(s.upto) \in Nat
  BY <1>1
<1> HIDE DEF K
<1>6. Max(K) \in K
  BY <1>4, <1>5, GreatestNumber
<1>7. Kept(s) \in K
  BY <1>6 DEF Kept, K
<1> QED BY <1>2, <1>3, <1>7 DEF K

(* Whichever image a cut falls into, what is left of a sample has the       *)
(* placeholders of the images whose tensors are kept, and is short enough.  *)
LEMMA TruncationSound ==
  ASSUME NEW s \in RawSample
  PROVE  Sound(s) /\ Sound(Truncated(s)) /\ Truncated(s).len <= MaxLen
<1> USE PackingAssumption DEF PackingAssumption
<1> DEFINE n == Kept(s)
           acc == TokensOf(s, n)
           t == Truncated(s)
<1>1. /\ s.len \in Nat \ {0} /\ s.tokens \subseteq 2 .. s.len
      /\ s.upto \in Seq(Nat \ {0})
      /\ Cardinality(s.tokens) = IF s.upto = <<>> THEN 0 ELSE s.upto[Len(s.upto)]
      /\ s.image # NoImage <=> s.upto # <<>>
  OBVIOUS
<1>2. MaxLen \in Nat \ {0}
  OBVIOUS
<1>3. Sound(s)
  <2>1. Len(s.upto) = 0 <=> s.upto = <<>>
    BY <1>1
  <2> QED BY <1>1, <2>1 DEF Sound, Matching, TokensOf
<1>4. CASE s.len <= MaxLen
  BY <1>3, <1>4 DEF Truncated
<1>5. CASE ~(s.len <= MaxLen)
  <2>1. /\ t.len = Cut(s) /\ t.tokens = s.tokens \cap 1 .. Cut(s)
        /\ t.upto = SubSeq(s.upto, 1, n)
        /\ t.image = IF n = 0 THEN NoImage ELSE s.image
    <3>1. t = [s EXCEPT !.len = Cut(s), !.tokens = @ \cap 1 .. Cut(s),
                        !.upto = SubSeq(@, 1, n), !.image = IF n = 0 THEN NoImage ELSE @]
      BY <1>5 DEF Truncated
    <3>2. "len" \in DOMAIN s /\ "tokens" \in DOMAIN s /\ "image" \in DOMAIN s /\ "upto" \in DOMAIN s
      OBVIOUS
    <3> HIDE DEF t, n
    <3> QED BY <3>1, <3>2
  <2>2. /\ n \in 0 .. Len(s.upto) /\ Surviving(s) \in Nat
        /\ acc \in Nat /\ acc <= Surviving(s)
    BY KeptTyped
  <2>3. Cut(s) = IF acc = Surviving(s) THEN MaxLen ELSE Min(Behind(s, acc)) - 1
    BY DEF Cut
  <2> HIDE DEF t, n, acc
  <2>4. /\ Cut(s) \in Nat \ {0} /\ Cut(s) <= MaxLen
        /\ Cardinality(s.tokens \cap 1 .. Cut(s)) = acc
    <3>1. CASE acc = Surviving(s)
      BY <1>2, <2>3, <3>1 DEF Surviving
    <3>2. CASE acc # Surviving(s)
      <4> DEFINE p == Min(Behind(s, acc))
      <4>1. /\ p \in s.tokens /\ p <= MaxLen
            /\ Cardinality(s.tokens \cap 1 .. (p - 1)) = acc
        <5>1. s.tokens \in SUBSET Nat /\ \A x \in s.tokens : x >= 2
          BY <1>1
        <5>2. Cardinality(s.tokens \cap 1 .. MaxLen) > acc
          BY <2>2, <3>2 DEF Surviving
        <5> QED BY <1>2, <2>2, <5>1, <5>2, FirstBehind
      <4>2. Cut(s) = p - 1
        BY <2>3, <3>2
      <4> HIDE DEF p
      <4>3. p \in Nat /\ p >= 2
        BY <1>1, <4>1
      <4> QED BY <1>2, <4>1, <4>2, <4>3
    <3> QED BY <3>1, <3>2
  <2>5. Len(t.upto) = n /\ TokensOf(t, Len(t.upto)) = acc
    <3>1. n \in Nat /\ n <= Len(s.upto)
      BY <1>1, <2>2
    <3>2. Len(t.upto) = n
      BY <1>1, <2>1, <3>1
    <3>3. n # 0 => t.upto[n] = s.upto[n]
      BY <1>1, <2>1, <3>1
    <3> QED BY <3>2, <3>3 DEF TokensOf, acc
  <2>6. t.image # NoImage <=> t.upto # <<>>
    <3>1. t.upto = <<>> <=> n = 0
      <4>1. n \in Nat /\ n <= Len(s.upto)
        BY <1>1, <2>2
      <4>2. SubSeq(s.upto, 1, n) \in Seq(Nat \ {0})
        BY <1>1, <4>1
      <4>3. t.upto \in Seq(Nat \ {0})
        BY <2>1, <4>2
      <4> QED BY <2>5, <4>3
    <3>2. n # 0 => s.upto # <<>>
      BY <1>1, <2>2
    <3> QED BY <1>1, <2>1, <3>1, <3>2
  <2>7. t.len \in Nat \ {0} /\ t.len <= MaxLen /\ Cardinality(t.tokens) = TokensOf(t, Len(t.upto))
    BY <2>1, <2>4, <2>5
  <2> QED BY <1>3, <2>6, <2>7 DEF Sound, Matching, t
<1> QED BY <1>4, <1>5
-----------------------------------------------------------------------------
(* A bin keeps fitting when it takes a sample can_add lets in, and so does  *)
(* whatever part of it.                                                     *)
LEMMA FitAlone ==
  ASSUME NEW s, Measured(s), NEW x \in Id, s[x].len <= MaxLen
  PROVE  Fit(s, <<x>>) /\ <<x>> \in Seq(Id)
<1>1. <<>> \in Seq(Id) /\ <<x>> = Append(<<>>, x) /\ <<x>> \in Seq(Id)
  OBVIOUS
<1>2. SumLen(s, <<>>) = 0
  BY <1>1, LengthTyped
<1>3. SumLen(s, <<x>>) = 0 + s[x].len /\ s[x].len \in Nat
  BY <1>1, <1>2, LengthAdds DEF Measured
<1>4. SumLen(s, <<x>>) <= MaxLen
  BY <1>3
<1> QED BY <1>1, <1>4 DEF Fit, Alike

(* What can be added to a bin still fits there.                             *)
LEMMA FitAdds ==
  ASSUME Measured(sample), NEW b \in Seq(Id), b # <<>>, Fit(sample, b), NEW x \in Id, CanAdd(b, x)
  PROVE  Fit(sample, Append(b, x)) /\ Append(b, x) \in Seq(Id)
<1> DEFINE c == Append(b, x)
           s == sample
<1>1. /\ c \in Seq(Id) /\ Len(b) \in Nat /\ 1 \in DOMAIN b
      /\ \A i \in DOMAIN c : c[i] = x \/ (i \in DOMAIN b /\ c[i] = b[i])
  <2>1. c \in Seq(Id) /\ Len(b) \in Nat /\ DOMAIN b = 1 .. Len(b)
    OBVIOUS
  <2>2. 1 \in DOMAIN b
    OBVIOUS
  <2>3. \A i \in DOMAIN c : c[i] = x \/ (i \in DOMAIN b /\ c[i] = b[i])
    OBVIOUS
  <2> QED BY <2>1, <2>2, <2>3
<1> HIDE DEF c
<1>2. SumLen(s, c) <= MaxLen
  <2>1. SumLen(s, c) = SumLen(s, b) + s[x].len
    BY LengthAdds DEF c
  <2> QED BY <2>1, LengthIs DEF CanAdd, Fits
<1>3. \A i \in DOMAIN b : Alike(s[b[i]], s[x]) /\ Alike(s[x], s[b[i]])
  <2> SUFFICES ASSUME NEW i \in DOMAIN b PROVE Alike(s[b[i]], s[x]) /\ Alike(s[x], s[b[i]])
    OBVIOUS
  <2>1. s[b[i]].routed = s[x].routed
    <3>1. s[b[1]].routed = s[x].routed
      BY DEF CanAdd
    <3>2. Alike(s[b[1]], s[b[i]])
      BY <1>1 DEF Fit
    <3> QED BY <3>1, <3>2 DEF Alike
  <2>2. s[b[i]].image = s[x].image \/ NoImage \in {s[b[i]].image, s[x].image}
    <3> SUFFICES ASSUME s[b[i]].image # NoImage, s[x].image # NoImage
                 PROVE  s[b[i]].image = s[x].image
      OBVIOUS
    <3>1. HasImage(b)
      BY DEF HasImage
    <3>2. ShapeOf(b) = s[x].image
      BY <3>1 DEF CanAdd
    <3>3. PICK j \in DOMAIN b : s[b[j]].image # NoImage /\ ShapeOf(b) = s[b[j]].image
      <4> DEFINE j == CHOOSE j \in DOMAIN b : sample[b[j]].image # NoImage
      <4>1. j \in DOMAIN b /\ s[b[j]].image # NoImage
        OBVIOUS
      <4>2. ShapeOf(b) = s[b[j]].image
        BY DEF ShapeOf
      <4> QED BY <4>1, <4>2
    <3>4. Alike(s[b[i]], s[b[j]])
      BY DEF Fit
    <3> QED BY <3>2, <3>3, <3>4 DEF Alike
  <2> QED BY <2>1, <2>2 DEF Alike
<1>4. Alike(s[x], s[x])
  BY DEF Alike
<1>5. \A i, j \in DOMAIN b : Alike(s[b[i]], s[b[j]])
  BY DEF Fit
<1>6. \A i, j \in DOMAIN c : Alike(s[c[i]], s[c[j]])
  BY <1>1, <1>3, <1>4, <1>5
<1>7. c \in Seq(Id)
  BY <1>1
<1>8. Fit(s, c)
  BY <1>2, <1>6 DEF Fit
<1> QED BY <1>7, <1>8 DEF c

(* Part of a bin fits where the bin fitted.                                 *)
LEMMA FitPart ==
  ASSUME NEW s, NEW b, Fit(s, b), NEW c, SumLen(s, c) <= MaxLen,
         \A j \in DOMAIN c : \E i \in DOMAIN b : c[j] = b[i]
  PROVE  Fit(s, c)
<1>1. ASSUME NEW i \in DOMAIN c, NEW j \in DOMAIN c PROVE Alike(s[c[i]], s[c[j]])
  <2>1. PICK m \in DOMAIN b : c[i] = b[m]
    OBVIOUS
  <2>2. PICK n \in DOMAIN b : c[j] = b[n]
    OBVIOUS
  <2>3. Alike(s[b[m]], s[b[n]])
    BY DEF Fit
  <2> QED BY <2>1, <2>2, <2>3
<1> QED BY <1>1 DEF Fit
-----------------------------------------------------------------------------
(* What is in the bins B, and that nothing is in them twice.                *)
In(B, x) == \E k \in DOMAIN B : \E j \in DOMAIN B[k] : B[k][j] = x
Once(B) == \A k, l \in DOMAIN B : \A i \in DOMAIN B[k] : \A j \in DOMAIN B[l] :
             B[k][i] = B[l][j] => k = l /\ i = j

(* One place more, for what had none.                                       *)
At(B, k, j, x) == k \in DOMAIN B /\ j \in DOMAIN B[k] /\ B[k][j] = x
Gains(B, C, h, p, x) ==
  \A k, j, y : At(C, k, j, y) <=> At(B, k, j, y) \/ (k = h /\ j = p /\ y = x)

(* Then nothing is in them twice still, and that is in them as well.        *)
LEMMA OneMore ==
  ASSUME NEW B, Once(B), NEW x, ~In(B, x), NEW C, NEW h, NEW p, Gains(B, C, h, p, x)
  PROVE  Once(C) /\ \A y : In(C, y) <=> In(B, y) \/ y = x
<1>1. \A y : (In(C, y) <=> \E k, j : At(C, k, j, y)) /\ (In(B, y) <=> \E k, j : At(B, k, j, y))
  BY DEF In, At
<1>0. \A k, j, y : At(C, k, j, y) <=> At(B, k, j, y) \/ (k = h /\ j = p /\ y = x)
  BY DEF Gains
<1>2. \A k, j, l, i, y : At(B, k, j, y) /\ At(B, l, i, y) => k = l /\ j = i
  BY DEF Once, At
<1>3. \A k, j : ~At(B, k, j, x)
  BY <1>1
<1>4. \A k, j, l, i, y : At(C, k, j, y) /\ At(C, l, i, y) => k = l /\ j = i
  BY <1>0, <1>2, <1>3
<1>5. Once(C)
  <2> SUFFICES ASSUME NEW k \in DOMAIN C, NEW l \in DOMAIN C, NEW i \in DOMAIN C[k], NEW j \in DOMAIN C[l],
                      C[k][i] = C[l][j]
               PROVE  k = l /\ i = j
    BY DEF Once
  <2>1. At(C, k, i, C[k][i]) /\ At(C, l, j, C[k][i])
    BY DEF At
  <2> QED BY <1>4, <2>1
<1>6. \A y : In(C, y) <=> In(B, y) \/ y = x
  BY <1>0, <1>1
<1> QED BY <1>5, <1>6

(* A bin of its own is one place more.                                      *)
LEMMA PutAlone ==
  ASSUME NEW B \in Seq(Seq(Id)), Once(B), NEW x \in Id, ~In(B, x)
  PROVE  LET C == Append(B, <<x>>)
         IN  C \in Seq(Seq(Id)) /\ Once(C) /\ \A y : In(C, y) <=> In(B, y) \/ y = x
<1> DEFINE C == Append(B, <<x>>)
           h == Len(B) + 1
<1>1. /\ C \in Seq(Seq(Id)) /\ DOMAIN C = DOMAIN B \cup {h} /\ h \notin DOMAIN B
      /\ C[h] = <<x>> /\ \A k \in DOMAIN B : C[k] = B[k]
  <2>1. <<x>> \in Seq(Id)
    OBVIOUS
  <2>2. C \in Seq(Seq(Id)) /\ Len(C) = Len(B) + 1 /\ C[h] = <<x>> /\ Len(B) \in Nat
    BY <2>1
  <2>3. DOMAIN B = 1 .. Len(B) /\ DOMAIN C = 1 .. Len(C)
    BY <2>2
  <2>4. \A k \in DOMAIN B : C[k] = B[k]
    OBVIOUS
  <2> HIDE DEF C
  <2>5. DOMAIN C = DOMAIN B \cup {h} /\ h \notin DOMAIN B
    BY <2>2, <2>3
  <2> QED BY <2>2, <2>4, <2>5
<1>2. DOMAIN <<x>> = {1} /\ <<x>>[1] = x
  OBVIOUS
<1> HIDE DEF C, h
<1>3. Gains(B, C, h, 1, x)
  BY <1>1, <1>2 DEF At, Gains
<1>4. Once(C) /\ \A y : In(C, y) <=> In(B, y) \/ y = x
  BY <1>3, OneMore
<1> QED BY <1>1, <1>4 DEF C

(* So is the end of a bin.                                                  *)
LEMMA PutIn ==
  ASSUME NEW B, NEW h \in DOMAIN B, B[h] \in Seq(Id), Once(B), NEW x \in Id, ~In(B, x)
  PROVE  LET C == [B EXCEPT ![h] = Append(@, x)]
         IN  Once(C) /\ \A y : In(C, y) <=> In(B, y) \/ y = x
<1> DEFINE C == [B EXCEPT ![h] = Append(@, x)]
           p == Len(B[h]) + 1
           b == B[h]
           c == Append(b, x)
<1>1. /\ DOMAIN c = DOMAIN b \cup {p} /\ p \notin DOMAIN b
      /\ c[p] = x /\ \A k \in DOMAIN b : c[k] = b[k]
  <2>1. b \in Seq(Id)
    OBVIOUS
  <2> HIDE DEF b
  <2>2. c \in Seq(Id) /\ Len(c) = Len(b) + 1 /\ c[Len(b) + 1] = x /\ Len(b) \in Nat
    BY <2>1
  <2>3. DOMAIN b = 1 .. Len(b) /\ DOMAIN c = 1 .. Len(c)
    BY <2>1, <2>2
  <2>4. \A k \in DOMAIN b : c[k] = b[k]
    BY <2>1
  <2> HIDE DEF c
  <2>5. DOMAIN c = DOMAIN b \cup {Len(b) + 1} /\ Len(b) + 1 \notin DOMAIN b
    BY <2>2, <2>3
  <2> QED BY <2>2, <2>4, <2>5 DEF b
<1>2. DOMAIN C = DOMAIN B /\ C[h] = c /\ \A k \in DOMAIN B : k # h => C[k] = B[k]
  OBVIOUS
<1> HIDE DEF C, c, p
<1>3. Gains(B, C, h, p, x)
  BY <1>1, <1>2 DEF At, Gains
<1>4. Once(C) /\ \A y : In(C, y) <=> In(B, y) \/ y = x
  BY <1>3, OneMore
<1> QED BY <1>4 DEF C

Placing == phase \in {"prepare", "place"}
Source == bins[Heaviest]
Taken == Len(sides[1]) + Len(sides[2])

(* The samples in the bins, each where it fits, and the halves of the bin   *)
(* that is being split.                                                     *)
SamplesInv ==
  /\ phase \in {"prepare", "place", "split", "halve", "weigh", "deal", "merge", "refine", "hand out", "done"}
  /\ phase = "prepare" => sample \in [Id -> RawSample] /\ bins = <<>> /\ unplaced = Id
  /\ \A i \in Id : Sound(sample[i])
  /\ phase # "prepare" => \A i \in Id : sample[i].len <= MaxLen
BinsInv ==
  /\ bins \in Seq(Seq(Id))
  /\ Placing => \A k \in DOMAIN bins : bins[k] # <<>>
  /\ unplaced \subseteq Id
  /\ ~Placing => unplaced = {}
  /\ Once(bins)
  /\ \A y : In(bins, y) <=> y \in Id \ unplaced
  /\ \A k \in DOMAIN bins : Fit(sample, bins[k])
SidesInv ==
  phase = "halve" =>
    /\ Candidates # {}
    /\ sides = <<sides[1], sides[2]>> /\ sides[1] \in Seq(Id) /\ sides[2] \in Seq(Id)
    /\ Taken <= Len(Source)
    /\ Once(sides)
    /\ \A y : In(sides, y) <=> \E i \in 1 .. Taken : Source[i] = y
    /\ SumLen(sample, sides[1]) + SumLen(sample, sides[2]) = SumLen(sample, SubSeq(Source, 1, Taken))
PlaceInv == SamplesInv /\ BinsInv /\ SidesInv

(* At the start nothing is in a bin.                                        *)
LEMMA PlaceStarts == PackInit => PlaceInv
<1> SUFFICES ASSUME PackInit PROVE PlaceInv
  OBVIOUS
<1> USE PackingAssumption DEF PackingAssumption, PackInit
<1>1. sample \in [Id -> RawSample]
  BY DEF Id
<1>2. \A i \in Id : Sound(sample[i])
  BY <1>1, TruncationSound
<1>3. SamplesInv
  BY <1>1, <1>2 DEF SamplesInv
<1>4. BinsInv
  BY DEF BinsInv, Placing, Once, In
<1>5. SidesInv
  BY DEF SidesInv
<1> QED BY <1>3, <1>4, <1>5 DEF PlaceInv

(* Truncation cuts every sample to what a micro batch holds.                *)
LEMMA PlacePrepares == PlaceInv /\ Prepare => PlaceInv'
<1> SUFFICES ASSUME PlaceInv, Prepare PROVE PlaceInv'
  OBVIOUS
<1>1. /\ phase = "prepare" /\ phase' = "place" /\ sample' = [i \in Id |-> Truncated(sample[i])]
      /\ bins' = bins /\ unplaced' = unplaced
      /\ sample \in [Id -> RawSample] /\ bins = <<>> /\ unplaced = Id
  BY DEF Prepare, PlaceInv, SamplesInv
<1>2. \A i \in Id : Sound(sample'[i]) /\ sample'[i].len <= MaxLen
  <2> SUFFICES ASSUME NEW i \in Id PROVE Sound(sample'[i]) /\ sample'[i].len <= MaxLen
    OBVIOUS
  <2>1. sample'[i] = Truncated(sample[i]) /\ sample[i] \in RawSample
    BY <1>1
  <2>2. Sound(Truncated(sample[i])) /\ Truncated(sample[i]).len <= MaxLen
    BY <2>1, TruncationSound
  <2> QED BY <2>1, <2>2
<1>3. SamplesInv'
  BY <1>1, <1>2 DEF SamplesInv
<1>4. BinsInv'
  <2>1. DOMAIN bins' = {} /\ bins' \in Seq(Seq(Id))
    BY <1>1
  <2> QED BY <1>1, <2>1 DEF BinsInv, Placing, Once, In
<1>5. SidesInv'
  BY <1>1 DEF SidesInv
<1> QED BY <1>3, <1>4, <1>5 DEF PlaceInv

(* The next sample is one of those that have no bin.                        *)
LEMMA NextUnplaced ==
  ASSUME SamplesInv, unplaced \subseteq Id, unplaced # {}
  PROVE  NextSample \in unplaced
<1> DEFINE key == [i \in unplaced |-> <<-sample[i].len, i>>]
<1>1. DOMAIN key = unplaced
  OBVIOUS
<1>2. \A i \in unplaced : key[i] \in Seq(Int) /\ key[i][2] = i
  <2> SUFFICES ASSUME NEW i \in unplaced PROVE key[i] \in Seq(Int) /\ key[i][2] = i
    OBVIOUS
  <2>1. sample[i].len \in Nat /\ i \in Int
    <3>1. i \in Id
      OBVIOUS
    <3>2. sample[i].len \in Nat
      BY <3>1 DEF SamplesInv, Sound
    <3> QED BY <3>1, <3>2 DEF Id
  <2>2. -sample[i].len \in Int
    BY <2>1
  <2>3. key[i] = <<-sample[i].len, i>>
    OBVIOUS
  <2> HIDE DEF key
  <2> QED BY <2>1, <2>2, <2>3
<1>3. IsFiniteSet(unplaced)
  <2>1. IsFiniteSet(Id)
    BY PackingAssumption, FS_Interval DEF PackingAssumption, Id
  <2> QED BY <2>1, FS_Subset
<1> HIDE DEF key
<1>4. Keyed(key)
  BY <1>1, <1>2, <1>3 DEF Keyed
<1>5. Least(key) \in unplaced
  BY <1>1, <1>4, SortPicks
<1> QED BY <1>5 DEF NextSample, key

(* The next sample goes into the first bin that takes it, or a new one.     *)
LEMMA PlacePlaces == PlaceInv /\ Place => PlaceInv'
<1> SUFFICES ASSUME PlaceInv, Place PROVE PlaceInv'
  OBVIOUS
<1>1. /\ phase = "place" /\ sample' = sample /\ unplaced # {}
      /\ phase' \in {"split", "place"} /\ (phase' = "split" => unplaced' = {})
  BY DEF Place
<1>2. PICK x : x = NextSample /\ x \in unplaced /\ x \in Id
  BY <1>1, NextUnplaced DEF PlaceInv, BinsInv
<1> DEFINE fit == {k \in DOMAIN bins : CanAdd(bins[k], x)}
<1>3. /\ unplaced' = unplaced \ {x}
      /\ bins' = IF fit = {} THEN Append(bins, <<x>>) ELSE [bins EXCEPT ![Min(fit)] = Append(@, x)]
  BY <1>2 DEF Place
<1>4. /\ bins \in Seq(Seq(Id)) /\ Once(bins) /\ ~In(bins, x)
      /\ \A y : In(bins, y) <=> y \in Id \ unplaced
      /\ \A k \in DOMAIN bins : bins[k] # <<>> /\ Fit(sample, bins[k])
      /\ unplaced \subseteq Id
  BY <1>1, <1>2 DEF PlaceInv, BinsInv, Placing
<1>5. Measured(sample) /\ sample[x].len <= MaxLen
  BY <1>1, <1>2 DEF PlaceInv, SamplesInv, Sound, Measured
<1>6. SamplesInv'
  BY <1>1 DEF PlaceInv, SamplesInv
<1>7. SidesInv'
  BY <1>1 DEF SidesInv
<1>8. /\ bins' \in Seq(Seq(Id)) /\ Once(bins') /\ \A y : In(bins', y) <=> In(bins, y) \/ y = x
      /\ \A k \in DOMAIN bins' : bins'[k] # <<>> /\ Fit(sample, bins'[k])
  <2>1. CASE fit = {}
    <3> DEFINE C == Append(bins, <<x>>)
    <3>1. bins' = C
      BY <1>3, <2>1
    <3>2. C \in Seq(Seq(Id)) /\ Once(C) /\ \A y : In(C, y) <=> In(bins, y) \/ y = x
      BY <1>2, <1>4, PutAlone
    <3>3. Fit(sample, <<x>>) /\ <<x>> # <<>>
      BY <1>2, <1>5, FitAlone
    <3>4. \A k \in DOMAIN C : C[k] = <<x>> \/ (k \in DOMAIN bins /\ C[k] = bins[k])
      BY <1>4
    <3> HIDE DEF C, fit
    <3>5. \A k \in DOMAIN C : C[k] # <<>> /\ Fit(sample, C[k])
      BY <1>4, <3>3, <3>4
    <3> QED BY <3>1, <3>2, <3>5
  <2>2. CASE fit # {}
    <3>1. PICK h : h = Min(fit) /\ h \in fit
      <4>1. fit \in SUBSET Nat
        BY <1>4
      <4> HIDE DEF fit
      <4>2. PICK n \in fit : \A m \in fit : n <= m
        BY <2>2, <4>1, LeastNumber
      <4>3. Min(fit) = CHOOSE y \in fit : \A z \in fit : y <= z
        BY DEF Min
      <4> QED BY <4>2, <4>3
    <3> DEFINE C == [bins EXCEPT ![h] = Append(@, x)]
               b == bins[h]
    <3>2. bins' = C /\ h \in DOMAIN bins /\ CanAdd(b, x)
      BY <1>3, <2>2, <3>1
    <3>3. b \in Seq(Id) /\ b # <<>> /\ Fit(sample, b)
      BY <1>4, <3>2
    <3>4. Once(C) /\ \A y : In(C, y) <=> In(bins, y) \/ y = x
      BY <1>2, <1>4, <3>2, <3>3, PutIn
    <3>5. Fit(sample, Append(b, x)) /\ Append(b, x) \in Seq(Id)
      BY <1>2, <1>5, <3>2, <3>3, FitAdds
    <3>6. Append(b, x) # <<>>
      BY <1>2, <3>3
    <3>7. C \in Seq(Seq(Id)) /\ DOMAIN C = DOMAIN bins
      BY <1>4, <3>2, <3>5
    <3>8. \A k \in DOMAIN bins : C[k] = IF k = h THEN Append(b, x) ELSE bins[k]
      BY <3>2
    <3> HIDE DEF C, b, fit
    <3>9. \A k \in DOMAIN C : C[k] # <<>> /\ Fit(sample, C[k])
      BY <1>4, <3>5, <3>6, <3>7, <3>8
    <3> QED BY <3>2, <3>4, <3>7, <3>9
  <2> QED BY <2>1, <2>2
<1>9. BinsInv'
  <2>1. unplaced' \subseteq Id /\ (~Placing' => unplaced' = {})
    BY <1>1, <1>3, <1>4 DEF Placing
  <2>2. \A y : In(bins', y) <=> y \in Id \ unplaced'
    BY <1>2, <1>3, <1>4, <1>8
  <2>3. \A k \in DOMAIN bins' : Fit(sample', bins'[k])
    BY <1>1, <1>8
  <2> QED BY <1>8, <2>1, <2>2, <2>3 DEF BinsInv
<1> QED BY <1>6, <1>7, <1>9 DEF PlaceInv

(* A cost is a number.                                                      *)
LEMMA CostTyped ==
  ASSUME NEW lens, IsFiniteSet(DOMAIN lens), \A i \in DOMAIN lens : lens[i] \in Nat
  PROVE  Cost(lens) \in Nat
<1> DEFINE squares == [i \in DOMAIN lens |-> lens[i] * lens[i]]
<1>1. SumFunction(lens) \in Nat
  BY SumTyped
<1>2. SumFunction(squares) \in Nat
  <2>1. DOMAIN squares = DOMAIN lens
    OBVIOUS
  <2>2. \A i \in DOMAIN squares : squares[i] \in Nat
    <3> SUFFICES ASSUME NEW i \in DOMAIN lens PROVE lens[i] * lens[i] \in Nat
      OBVIOUS
    <3>1. \A n \in Nat : n * n \in Nat
      OBVIOUS
    <3> QED BY <3>1
  <2> HIDE DEF squares
  <2> QED BY <2>1, <2>2, SumTyped
<1>3. Linear \in Nat /\ Quadratic \in Nat
  BY PackingAssumption DEF PackingAssumption
<1> HIDE DEF squares
<1>4. \A a, b, c, d \in Nat : a * b + c * d \in Nat
  OBVIOUS
<1>5. Linear * SumFunction(lens) + Quadratic * SumFunction(squares) \in Nat
  BY <1>1, <1>2, <1>3, <1>4
<1> QED BY <1>5 DEF Cost, squares

(* The lengths in a bin are numbers.                                        *)
LEMMA LensTyped ==
  ASSUME Measured(sample), NEW b \in Seq(Id)
  PROVE  /\ DOMAIN Lens(b) = 1 .. Len(b) /\ IsFiniteSet(DOMAIN Lens(b))
         /\ \A i \in DOMAIN Lens(b) : Lens(b)[i] \in Nat
         /\ Cost(Lens(b)) \in Nat
<1>1. DOMAIN Lens(b) = 1 .. Len(b) /\ Len(b) \in Nat
  BY DEF Lens
<1>2. IsFiniteSet(DOMAIN Lens(b))
  BY <1>1, FS_Interval
<1>3. \A i \in DOMAIN Lens(b) : Lens(b)[i] \in Nat
  BY <1>1 DEF Measured, Lens
<1> QED BY <1>1, <1>2, <1>3, CostTyped

(* The bin to split is one of those that can be.                            *)
LEMMA HeaviestPicked ==
  ASSUME Measured(sample), bins \in Seq(Seq(Id)), Candidates # {}
  PROVE  Heaviest \in Candidates
<1> DEFINE key == [k \in Candidates |-> <<Cost(Lens(bins[k])), k>>]
<1>1. DOMAIN key = Candidates
  OBVIOUS
<1>2. Candidates \subseteq DOMAIN bins /\ DOMAIN bins = 1 .. Len(bins) /\ Len(bins) \in Nat
  BY DEF Candidates
<1>3. IsFiniteSet(Candidates)
  <2>1. IsFiniteSet(DOMAIN bins)
    BY <1>2, FS_Interval
  <2> QED BY <1>2, <2>1, FS_Subset
<1>4. \A k \in Candidates : key[k] \in Seq(Int) /\ key[k][2] = k
  <2> SUFFICES ASSUME NEW k \in Candidates PROVE key[k] \in Seq(Int) /\ key[k][2] = k
    OBVIOUS
  <2>1. bins[k] \in Seq(Id) /\ k \in Int
    BY <1>2
  <2>2. Cost(Lens(bins[k])) \in Int
    BY <2>1, LensTyped
  <2>3. key[k] = <<Cost(Lens(bins[k])), k>>
    OBVIOUS
  <2> HIDE DEF key
  <2> QED BY <2>1, <2>2, <2>3
<1> HIDE DEF key
<1>5. Keyed(key)
  BY <1>1, <1>3, <1>4 DEF Keyed
<1>6. Greatest(key) \in Candidates
  BY <1>1, <1>5, SortPicks
<1> QED BY <1>6 DEF Heaviest, key

(* Two halves that hold what a bin held take its place.                     *)
LEMMA HalvesJoin ==
  ASSUME NEW B \in Seq(Seq(Id)), NEW h \in DOMAIN B, Once(B),
         NEW s, s = <<s[1], s[2]>>, s[1] \in Seq(Id), s[2] \in Seq(Id), Once(s),
         \A y : In(s, y) <=> \E i \in DOMAIN B[h] : B[h][i] = y
  PROVE  LET C == Append([B EXCEPT ![h] = s[1]], s[2])
         IN  /\ C \in Seq(Seq(Id)) /\ Once(C) /\ \A y : In(C, y) <=> In(B, y)
             /\ \A k \in DOMAIN C : \/ C[k] \in {s[1], s[2]}
                                    \/ k \in DOMAIN B /\ C[k] = B[k]
<1> DEFINE D == [B EXCEPT ![h] = s[1]]
           C == Append(D, s[2])
           z == Len(B) + 1
<1>1. D \in Seq(Seq(Id)) /\ Len(D) = Len(B) /\ Len(B) \in Nat /\ DOMAIN B = 1 .. Len(B)
  OBVIOUS
<1>2. D[h] = s[1] /\ \A k \in DOMAIN B : k # h => D[k] = B[k]
  OBVIOUS
<1> HIDE DEF D
<1>3. C \in Seq(Seq(Id)) /\ Len(C) = z /\ C[z] = s[2] /\ \A k \in DOMAIN B : C[k] = D[k]
  <2>2. ASSUME NEW S, NEW q \in Seq(S), NEW x \in S
        PROVE  /\ Append(q, x) \in Seq(S) /\ Len(Append(q, x)) = Len(q) + 1 /\ Append(q, x)[Len(q) + 1] = x
               /\ \A k \in 1 .. Len(q) : Append(q, x)[k] = q[k]
    OBVIOUS
  <2>3. D \in Seq(Seq(Id)) /\ s[2] \in Seq(Id)
    BY <1>1
  <2>4. Append(D, s[2]) \in Seq(Seq(Id))
    BY <2>2, <2>3
  <2>5. /\ Len(Append(D, s[2])) = Len(D) + 1 /\ Append(D, s[2])[Len(D) + 1] = s[2]
        /\ \A k \in 1 .. Len(D) : Append(D, s[2])[k] = D[k]
    BY <2>2, <2>3
  <2> QED BY <1>1, <2>4, <2>5
<1>4. DOMAIN C = 1 .. z /\ z \notin DOMAIN B /\ DOMAIN C = DOMAIN B \cup {z}
  <2>1. DOMAIN C = 1 .. Len(C)
    BY <1>3
  <2> HIDE DEF C
  <2> QED BY <1>1, <1>3, <2>1
<1> HIDE DEF C, z
<1>5. DOMAIN s = {1, 2}
  OBVIOUS
<1>6. \A k, j, y : At(C, k, j, y) <=> \/ k # h /\ At(B, k, j, y)
                                      \/ k = h /\ At(s, 1, j, y)
                                      \/ k = z /\ At(s, 2, j, y)
  BY <1>2, <1>3, <1>4, <1>5 DEF At
<1>7. \A y : /\ In(C, y) <=> \E k, j : At(C, k, j, y)
             /\ In(B, y) <=> \E k, j : At(B, k, j, y)
             /\ In(s, y) <=> \E k, j : At(s, k, j, y)
  BY DEF In, At
<1>8. \A y : In(s, y) <=> \E j : At(B, h, j, y)
  BY DEF At
<1>9. \A k, j, l, i, y : /\ At(B, k, j, y) /\ At(B, l, i, y) => k = l /\ j = i
                         /\ At(s, k, j, y) /\ At(s, l, i, y) => k = l /\ j = i
                         /\ At(s, k, j, y) => k \in {1, 2}
  BY <1>5 DEF Once, At
<1>10. \A k, j, y : At(s, k, j, y) => \E i : At(B, h, i, y)
  BY <1>7, <1>8
<1>11. \A k, j, l, i, y : At(C, k, j, y) /\ At(C, l, i, y) => k = l /\ j = i
  <2> SUFFICES ASSUME NEW k, NEW j, NEW l, NEW i, NEW y, At(C, k, j, y), At(C, l, i, y)
               PROVE  k = l /\ j = i
    OBVIOUS
  <2>1. \/ k # h /\ At(B, k, j, y)
        \/ k = h /\ At(s, 1, j, y)
        \/ k = z /\ At(s, 2, j, y)
    BY <1>6
  <2>2. \/ l # h /\ At(B, l, i, y)
        \/ l = h /\ At(s, 1, i, y)
        \/ l = z /\ At(s, 2, i, y)
    BY <1>6
  <2>3. k # h /\ At(B, k, j, y) => ~\E q, p : At(s, q, p, y)
    BY <1>9, <1>10
  <2>4. l # h /\ At(B, l, i, y) => ~\E q, p : At(s, q, p, y)
    BY <1>9, <1>10
  <2>0. \A q, p : ~(At(s, 1, q, y) /\ At(s, 2, p, y))
    <3> SUFFICES ASSUME NEW q, NEW p, At(s, 1, q, y), At(s, 2, p, y) PROVE 1 = 2
      OBVIOUS
    <3> QED BY <1>9, Zenon
  <2>5. At(s, 1, j, y) => ~At(s, 2, i, y)
    BY <2>0
  <2>6. At(s, 2, j, y) => ~At(s, 1, i, y)
    BY <2>0
  <2> QED BY <1>9, <2>1, <2>2, <2>3, <2>4, <2>5, <2>6
<1>12. Once(C)
  <2> SUFFICES ASSUME NEW k \in DOMAIN C, NEW l \in DOMAIN C, NEW i \in DOMAIN C[k], NEW j \in DOMAIN C[l],
                      C[k][i] = C[l][j]
               PROVE  k = l /\ i = j
    BY DEF Once
  <2>1. At(C, k, i, C[k][i]) /\ At(C, l, j, C[k][i])
    BY DEF At
  <2> QED BY <1>11, <2>1
<1>13. ASSUME NEW y PROVE In(C, y) <=> In(B, y)
  <2>1. ASSUME In(C, y) PROVE In(B, y)
    <3>1. PICK k, j : At(C, k, j, y)
      BY <1>7, <2>1
    <3>2. \/ k # h /\ At(B, k, j, y)
          \/ k = h /\ At(s, 1, j, y)
          \/ k = z /\ At(s, 2, j, y)
      BY <1>6, <3>1
    <3> QED BY <1>7, <1>10, <3>2
  <2>2. ASSUME In(B, y) PROVE In(C, y)
    <3>1. PICK k, j : At(B, k, j, y)
      BY <1>7, <2>2
    <3>2. CASE k = h
      <4>1. PICK q, p : At(s, q, p, y)
        BY <1>7, <1>8, <3>1, <3>2
      <4>2. At(C, IF q = 1 THEN h ELSE z, p, y)
        BY <1>6, <1>9, <4>1
      <4> QED BY <1>7, <4>2
    <3>3. CASE k # h
      <4>1. At(C, k, j, y)
        BY <1>6, <3>1, <3>3
      <4> QED BY <1>7, <4>1
    <3> QED BY <3>2, <3>3
  <2> QED BY <2>1, <2>2
<1>14. \A k \in DOMAIN C : C[k] \in {s[1], s[2]} \/ (k \in DOMAIN B /\ C[k] = B[k])
  BY <1>2, <1>3, <1>4
<1>15. C \in Seq(Seq(Id))
  BY <1>3
<1> QED BY <1>12, <1>13, <1>14, <1>15 DEF C, D

(* The samples have lengths at any time.                                    *)
LEMMA PlaceMeasured == ASSUME PlaceInv PROVE Measured(sample)
BY DEF PlaceInv, SamplesInv, Sound, Measured

(* A bin that is to be split is there to be halved.                         *)
LEMMA PlaceSplits == PlaceInv /\ Split => PlaceInv'
<1> SUFFICES ASSUME PlaceInv, Split PROVE PlaceInv'
  OBVIOUS
<1>1. /\ phase = "split" /\ phase' = "halve" /\ Candidates # {} /\ sides' = << <<>>, <<>> >>
      /\ sample' = sample /\ bins' = bins /\ unplaced' = unplaced
  BY DEF Split
<1>2. SamplesInv'
  BY <1>1 DEF PlaceInv, SamplesInv
<1>3. BinsInv'
  BY <1>1 DEF PlaceInv, BinsInv, Placing
<1>4. Candidates' = Candidates /\ Source' = Source
  BY <1>1 DEF Candidates, HasImage, Source, Heaviest, Lens, Cost
<1>5. Measured(sample) /\ bins \in Seq(Seq(Id))
  BY PlaceMeasured DEF PlaceInv, BinsInv
<1>6. Source \in Seq(Id) /\ Len(Source) \in Nat
  BY <1>1, <1>5, HeaviestPicked DEF Source, Candidates
<1>7. Taken' = 0 /\ sides'[1] = <<>> /\ sides'[2] = <<>> /\ sides' = <<sides'[1], sides'[2]>>
  BY <1>1 DEF Taken
<1>8. <<>> \in Seq(Id)
  OBVIOUS
<1>9. Once(sides') /\ \A y : ~In(sides', y)
  BY <1>1 DEF Once, In
<1>10. SumLen(sample, <<>>) + SumLen(sample, <<>>) = SumLen(sample, SubSeq(Source, 1, 0))
  <2>1. SubSeq(Source, 1, 0) = <<>>
    BY <1>6
  <2>2. SumLen(sample, <<>>) = 0
    BY <1>5, <1>8, LengthTyped
  <2> QED BY <2>1, <2>2, 0 + 0 = 0
<1>11. SidesInv'
  <2>1. \A y : In(sides', y) <=> \E i \in 1 .. Taken' : Source'[i] = y
    BY <1>7, <1>9
  <2>2. SumLen(sample', sides'[1]) + SumLen(sample', sides'[2]) = SumLen(sample', SubSeq(Source', 1, Taken'))
    BY <1>1, <1>4, <1>7, <1>10
  <2>3. Taken' <= Len(Source')
    BY <1>4, <1>6, <1>7
  <2> QED BY <1>1, <1>4, <1>7, <1>8, <1>9, <2>1, <2>2, <2>3 DEF SidesInv
<1> QED BY <1>2, <1>3, <1>11 DEF PlaceInv

(* The halves take the samples of the bin in turn, and then its place.      *)
LEMMA PlaceHalves == PlaceInv /\ Halve => PlaceInv'
<1> SUFFICES ASSUME PlaceInv, Halve PROVE PlaceInv'
  OBVIOUS
<1> DEFINE s == sample
           b == Source
<1>1. /\ phase = "halve" /\ sample' = sample /\ unplaced' = unplaced
      /\ IF Taken < Len(Source)
         THEN /\ sides' = [sides EXCEPT ![Lighter] = Append(@, Source[Taken + 1])]
              /\ bins' = bins /\ phase' = phase
         ELSE /\ bins' = Append([bins EXCEPT ![Heaviest] = sides[1]], sides[2])
              /\ phase' = "split"
  BY DEF Halve, Taken, Source
<1>2. /\ Candidates # {}
      /\ sides = <<sides[1], sides[2]>> /\ sides[1] \in Seq(Id) /\ sides[2] \in Seq(Id)
      /\ Taken <= Len(b)
      /\ Once(sides)
      /\ \A y : In(sides, y) <=> \E i \in 1 .. Taken : b[i] = y
      /\ SumLen(s, sides[1]) + SumLen(s, sides[2]) = SumLen(s, SubSeq(b, 1, Taken))
  BY <1>1 DEF PlaceInv, SidesInv
<1>3. Measured(s) /\ bins \in Seq(Seq(Id)) /\ Once(bins) /\ \A k \in DOMAIN bins : Fit(s, bins[k])
  BY PlaceMeasured DEF PlaceInv, BinsInv
<1>4. PICK h \in DOMAIN bins : h = Heaviest /\ b = bins[h]
  BY <1>2, <1>3, HeaviestPicked DEF Source, Candidates
<1>5. b \in Seq(Id) /\ Len(b) \in Nat /\ DOMAIN b = 1 .. Len(b)
  <2>1. bins[h] \in Seq(Id)
    BY <1>3
  <2> QED BY <1>4, <2>1
<1>6. Taken = Len(sides[1]) + Len(sides[2]) /\ Taken \in Nat
  BY <1>2 DEF Taken
<1>7. SamplesInv'
  BY <1>1 DEF PlaceInv, SamplesInv
<1> HIDE DEF b, s
<1>10. PICK n \in Nat : n = Taken
  BY <1>6
<1>11. PICK len \in Nat : len = Len(b)
  BY <1>5
<1>8. CASE Taken < Len(b)
  <2>1. /\ sides' = [sides EXCEPT ![Lighter] = Append(@, b[n + 1])]
        /\ bins' = bins /\ phase' = "halve"
    BY <1>1, <1>8, <1>10 DEF b
  <2>2. BinsInv'
    BY <1>1, <2>1 DEF PlaceInv, BinsInv, Placing
  <2>3. Candidates' = Candidates /\ Source' = b
    BY <1>1, <2>1 DEF Candidates, HasImage, Source, Heaviest, Lens, Cost, b
  <2>4. PICK l \in {1, 2} : l = Lighter
    BY DEF Lighter
  <2>5. PICK x \in Id : x = b[n + 1] /\ n + 1 \in DOMAIN b
    BY <1>5, <1>8, <1>10, <1>11
  <2>6. ~In(sides, x)
    <3> SUFFICES ASSUME NEW i \in 1 .. Taken, b[i] = x PROVE FALSE
      BY <1>2, <1>10
    <3>1. i \in DOMAIN b /\ i # n + 1
      BY <1>5, <1>8, <1>10, <1>11
    <3>2. \A p, q \in DOMAIN bins[h] : bins[h][p] = bins[h][q] => p = q
      BY <1>3 DEF Once
    <3> QED BY <1>4, <2>5, <3>1, <3>2
  <2>7. DOMAIN sides = {1, 2} /\ l \in DOMAIN sides
    <3>1. DOMAIN <<sides[1], sides[2]>> = {1, 2}
      OBVIOUS
    <3> QED BY <1>2, <3>1
  <2>8. sides' = [sides EXCEPT ![l] = Append(@, x)]
    BY <2>1, <2>4, <2>5
  <2>9. Once(sides') /\ \A y : In(sides', y) <=> In(sides, y) \/ y = x
    <3>1. sides[l] \in Seq(Id)
      BY <1>2
    <3> QED BY <1>2, <2>6, <2>7, <2>8, <3>1, PutIn
  <2>10. /\ sides'[l] = Append(sides[l], x) /\ \A m \in {1, 2} : m # l => sides'[m] = sides[m]
         /\ DOMAIN sides' = {1, 2}
    BY <2>7, <2>8
  <2>11. sides' = <<sides'[1], sides'[2]>>
    <3>1. sides' = [m \in {1, 2} |-> sides'[m]]
      BY <2>7, <2>8
    <3>2. \A m \in {1, 2} : sides'[m] = <<sides'[1], sides'[2]>>[m]
      OBVIOUS
    <3>3. <<sides'[1], sides'[2]>> = [m \in {1, 2} |-> <<sides'[1], sides'[2]>>[m]]
      OBVIOUS
    <3> QED BY <3>1, <3>2, <3>3
  <2>12. \A m \in {1, 2} : sides'[m] \in Seq(Id)
    <3>1. Append(sides[l], x) \in Seq(Id)
      BY <1>2
    <3> QED BY <1>2, <2>10, <3>1
  <2>13. Taken' = n + 1
    <3>1. Taken' = Len(sides'[1]) + Len(sides'[2])
      BY DEF Taken
    <3>2. Len(Append(sides[l], x)) = Len(sides[l]) + 1
      BY <1>2
    <3>3. Len(sides[1]) \in Nat /\ Len(sides[2]) \in Nat
      BY <1>2
    <3>6. PICK a \in Nat, c \in Nat : a = Len(sides[1]) /\ c = Len(sides[2])
      BY <3>3
    <3>7. n = a + c
      BY <1>6, <1>10, <3>6
    <3>4. CASE l = 1
      <4>1. Len(sides'[1]) = Len(sides[1]) + 1 /\ Len(sides'[2]) = Len(sides[2])
        BY <2>10, <3>2, <3>4
      <4>2. Taken' = (a + 1) + c
        BY <3>1, <3>6, <4>1
      <4> QED BY <3>7, <4>2
    <3>5. CASE l = 2
      <4>1. Len(sides'[2]) = Len(sides[2]) + 1 /\ Len(sides'[1]) = Len(sides[1])
        BY <2>10, <3>2, <3>5
      <4>2. Taken' = a + (c + 1)
        BY <3>1, <3>6, <4>1
      <4> QED BY <3>7, <4>2
    <3> QED BY <3>4, <3>5
  <2>14. SumLen(s, sides'[1]) + SumLen(s, sides'[2]) = SumLen(s, SubSeq(b, 1, n + 1))
    <3>1. SubSeq(b, 1, n + 1) = Append(SubSeq(b, 1, n), x) /\ SubSeq(b, 1, n) \in Seq(Id)
      BY <1>5, <1>8, <1>10, <1>11, <2>5, PrefixStep
    <3>2. SumLen(s, SubSeq(b, 1, n + 1)) = SumLen(s, SubSeq(b, 1, n)) + s[x].len
      BY <1>3, <3>1, LengthAdds
    <3>3. SumLen(s, sides'[l]) = SumLen(s, sides[l]) + s[x].len
      BY <1>2, <1>3, <2>10, LengthAdds
    <3>4. s[x].len \in Nat /\ SumLen(s, sides[1]) \in Nat /\ SumLen(s, sides[2]) \in Nat
      BY <1>2, <1>3, LengthTyped DEF Measured
    <3>7. PICK a \in Nat, c \in Nat, d \in Nat :
            a = SumLen(s, sides[1]) /\ c = SumLen(s, sides[2]) /\ d = s[x].len
      BY <3>4
    <3>5. CASE l = 1
      <4>1. SumLen(s, sides'[1]) = SumLen(s, sides[1]) + s[x].len /\ SumLen(s, sides'[2]) = SumLen(s, sides[2])
        BY <2>10, <3>3, <3>5, 2 # 1
      <4> QED BY <1>2, <1>10, <3>2, <3>7, <4>1
    <3>6. CASE l = 2
      <4>1. SumLen(s, sides'[2]) = SumLen(s, sides[2]) + s[x].len /\ SumLen(s, sides'[1]) = SumLen(s, sides[1])
        BY <2>10, <3>3, <3>6, 2 # 1
      <4> QED BY <1>2, <1>10, <3>2, <3>7, <4>1
    <3> QED BY <3>5, <3>6
  <2>15. \A y : In(sides', y) <=> \E i \in 1 .. (n + 1) : b[i] = y
    <3>1. 1 .. (n + 1) = 1 .. n \cup {n + 1}
      OBVIOUS
    <3> QED BY <1>2, <1>10, <2>5, <2>9, <3>1
  <2>16. SidesInv'
    <3>1. SumLen(sample', sides'[1]) + SumLen(sample', sides'[2]) = SumLen(sample', SubSeq(Source', 1, Taken'))
      BY <1>1, <2>3, <2>13, <2>14 DEF s
    <3>2. \A y : In(sides', y) <=> \E i \in 1 .. Taken' : Source'[i] = y
      BY <2>3, <2>13, <2>15
    <3>3. Taken' <= Len(Source') /\ Candidates' # {}
      BY <1>2, <1>8, <1>10, <1>11, <2>3, <2>13
    <3> QED BY <2>9, <2>11, <2>12, <3>1, <3>2, <3>3 DEF SidesInv
  <2> QED BY <1>7, <2>2, <2>16 DEF PlaceInv
<1>9. CASE ~(Taken < Len(b))
  <2>1. bins' = Append([bins EXCEPT ![h] = sides[1]], sides[2]) /\ phase' = "split"
    BY <1>1, <1>4, <1>9 DEF b
  <2>2. Taken = Len(b) /\ SubSeq(b, 1, Taken) = b
    <3>1. Taken = Len(b)
      BY <1>2, <1>9, <1>10, <1>11
    <3> QED BY <1>5, <3>1
  <2>3. \A y : In(sides, y) <=> \E i \in DOMAIN bins[h] : bins[h][i] = y
    BY <1>2, <1>4, <1>5, <2>2
  <2>4. /\ bins' \in Seq(Seq(Id)) /\ Once(bins') /\ \A y : In(bins', y) <=> In(bins, y)
        /\ \A k \in DOMAIN bins' : bins'[k] \in {sides[1], sides[2]} \/ (k \in DOMAIN bins /\ bins'[k] = bins[k])
    <3> DEFINE C == Append([bins EXCEPT ![h] = sides[1]], sides[2])
    <3>1. /\ C \in Seq(Seq(Id)) /\ Once(C) /\ \A y : In(C, y) <=> In(bins, y)
          /\ \A k \in DOMAIN C : C[k] \in {sides[1], sides[2]} \/ (k \in DOMAIN bins /\ C[k] = bins[k])
      BY <1>2, <1>3, <2>3, HalvesJoin
    <3> HIDE DEF C
    <3> QED BY <2>1, <3>1 DEF C
  <2>5. \A m \in {1, 2} : Fit(s, sides[m])
    <3> SUFFICES ASSUME NEW m \in {1, 2} PROVE Fit(s, sides[m])
      OBVIOUS
    <3>1. SumLen(s, sides[1]) \in Nat /\ SumLen(s, sides[2]) \in Nat
      BY <1>2, <1>3, LengthTyped
    <3>2. SumLen(s, sides[1]) + SumLen(s, sides[2]) = SumLen(s, b)
      BY <1>2, <2>2
    <3>3. Fit(s, b)
      BY <1>3, <1>4
    <3>4. MaxLen \in Nat
      BY PackingAssumption DEF PackingAssumption
    <3>5. SumLen(s, b) <= MaxLen
      BY <3>3 DEF Fit
    <3>6. SumLen(s, sides[m]) <= MaxLen
      BY <3>1, <3>2, <3>4, <3>5
    <3>7. \A j \in DOMAIN sides[m] : \E i \in DOMAIN b : sides[m][j] = b[i]
      <4>1. DOMAIN sides = {1, 2}
        <5>1. DOMAIN <<sides[1], sides[2]>> = {1, 2}
          OBVIOUS
        <5> QED BY <1>2, <5>1
      <4>2. \A j \in DOMAIN sides[m] : In(sides, sides[m][j])
        BY <4>1 DEF In
      <4> QED BY <1>4, <2>3, <4>2
    <3> QED BY <3>3, <3>6, <3>7, FitPart
  <2>6. \A k \in DOMAIN bins' : Fit(sample', bins'[k])
    BY <1>1, <1>3, <2>4, <2>5 DEF s
  <2>7. ~Placing /\ ~Placing'
    BY <1>1, <2>1 DEF Placing
  <2>8. BinsInv'
    BY <1>1, <2>4, <2>6, <2>7 DEF PlaceInv, BinsInv
  <2>9. SidesInv'
    BY <2>1 DEF SidesInv
  <2> QED BY <1>7, <2>8, <2>9 DEF PlaceInv
<1> QED BY <1>8, <1>9

(* Whatever comes after leaves the bins as they are.                        *)
Settled ==
  /\ phase \in {"split"} \cup {"weigh", "deal", "merge", "refine", "hand out", "done"}
  /\ phase' \in {"weigh", "deal", "merge", "refine", "hand out", "done"}
  /\ UNCHANGED <<sample, unplaced, bins, sides>>

(* So the bins stay what they were.                                         *)
LEMMA PlaceSettles == PlaceInv /\ Settled => PlaceInv'
<1> SUFFICES ASSUME PlaceInv, Settled PROVE PlaceInv'
  OBVIOUS
<1> USE DEF Settled
<1>1. SamplesInv'
  BY DEF PlaceInv, SamplesInv
<1>2. BinsInv'
  BY DEF PlaceInv, BinsInv, Placing
<1>3. SidesInv'
  BY DEF SidesInv
<1> QED BY <1>1, <1>2, <1>3 DEF PlaceInv

(* All of distribution is such.                                             *)
LEMMA Settles == Separate \/ Weigh \/ Deal \/ Merge \/ Refine \/ HandOut => Settled
BY DEF Separate, Weigh, Deal, Merge, Refine, HandOut, Settled

(* Every step keeps the bins.                                               *)
LEMMA PlaceStep == PlaceInv /\ [PackNext]_packVars => PlaceInv'
<1> SUFFICES ASSUME PlaceInv, [PackNext]_packVars PROVE PlaceInv'
  OBVIOUS
<1>1. CASE UNCHANGED packVars
  <2> USE <1>1 DEF packVars
  <2>1. SamplesInv'
    BY DEF PlaceInv, SamplesInv
  <2>2. BinsInv'
    BY DEF PlaceInv, BinsInv, Placing
  <2>3. SidesInv'
    <3>1. Candidates' = Candidates /\ Source' = Source /\ Taken' = Taken
      BY DEF Candidates, HasImage, Source, Heaviest, Lens, Cost, Taken
    <3> QED BY <3>1 DEF PlaceInv, SidesInv
  <2> QED BY <2>1, <2>2, <2>3 DEF PlaceInv
<1>2. CASE Prepare
  BY <1>2, PlacePrepares
<1>3. CASE Place
  BY <1>3, PlacePlaces
<1>4. CASE Split
  BY <1>4, PlaceSplits
<1>5. CASE Halve
  BY <1>5, PlaceHalves
<1>6. CASE Separate \/ Weigh \/ Deal \/ Merge \/ Refine \/ HandOut
  BY <1>6, Settles, PlaceSettles
<1> QED BY <1>1, <1>2, <1>3, <1>4, <1>5, <1>6 DEF PackNext

(* Truncation, first-fit and splitting never lose or double a sample, and   *)
(* every bin and half of a bin is a part that fits (_materialize_bins and   *)
(* _expand_bins_by_splitting, trainer/batch.py).                            *)
THEOREM PlaceInvariant == PackSpec => []PlaceInv
<1>1. PackInit => PlaceInv
  BY PlaceStarts
<1>2. PlaceInv /\ [PackNext]_packVars => PlaceInv'
  BY PlaceStep
<1> QED BY <1>1, <1>2, PTL DEF PackSpec

(* One micro batch has routed experts for all of its samples or none, one   *)
(* shape of image tensors, at most seq_len tokens, and in every sample just *)
(* the placeholders its image tensors have embeddings for (_truncate_mm,    *)
(* _MicroBatchBin.can_add, prepare_sample, trainer/batch.py).              *)
THEOREM PacksFitHolds == PackSpec => []PacksFit
<1>1. PlaceInv => PacksFit
  <2> SUFFICES ASSUME PlaceInv PROVE PacksFit
    OBVIOUS
  <2>1. ASSUME NEW k \in DOMAIN bins
        PROVE  /\ LengthOf(bins[k]) <= MaxLen
               /\ \A i, j \in DOMAIN bins[k] : Alike(sample[bins[k][i]], sample[bins[k][j]])
    <3>1. Fit(sample, bins[k])
      BY DEF PlaceInv, BinsInv
    <3> QED BY <3>1, LengthIs DEF Fit
  <2>2. \A i \in Id : Matching(sample[i])
    BY DEF PlaceInv, SamplesInv, Sound
  <2> QED BY <2>1, <2>2 DEF PacksFit, Alike, Matching
<1> QED BY <1>1, PlaceInvariant, PTL

(* Rounding up to a multiple, and numbering by rows of W.                   *)
LEMMA RoundsUp ==
  ASSUME NEW n \in Nat, NEW W \in Nat \ {0}
  PROVE  (n + W - 1) \div W \in Nat /\ n <= ((n + W - 1) \div W) * W
<1>1. PICK q : q = (n + W - 1) \div W
  OBVIOUS
<1>2. q \in Nat /\ q * W <= n + W - 1 /\ n + W - 1 < q * W + W
  BY <1>1
<1> QED BY <1>1, <1>2

Grid(q, W, n) ==
  /\ \A c, d \in 0 .. (q - 1) : \A k, l \in 1 .. W : c * W + k = d * W + l => c = d /\ k = l
  /\ \A c \in 0 .. (q - 1) : \A k \in 1 .. W : c * W + k \in 1 .. n
  /\ \A p \in 1 .. n : \E c \in 0 .. (q - 1) : \E k \in 1 .. W : p = c * W + k

(* Every number up to a multiple of W is in one place of one row.           *)
LEMMA Rows ==
  ASSUME NEW q \in Nat, NEW W \in Nat \ {0}
  PROVE  (q * W) \div W = q /\ q * W \in Nat /\ Grid(q, W, q * W)
<1>1. (q * W) \div W = q /\ q * W \in Nat
  OBVIOUS
<1>2. \A c, d \in Nat : c < d => c * W + W <= d * W
  OBVIOUS
<1>3. ASSUME NEW c \in 0 .. (q - 1), NEW d \in 0 .. (q - 1), NEW k \in 1 .. W, NEW l \in 1 .. W,
             c * W + k = d * W + l
      PROVE  c = d /\ k = l
  <2>1. PICK a \in Nat, b \in Nat : a = c * W /\ b = d * W
    OBVIOUS
  <2>2. ~(c < d)
    BY <1>2, <1>3, <2>1
  <2>3. ~(d < c)
    BY <1>2, <1>3, <2>1
  <2> QED BY <1>3, <2>2, <2>3
<1>4. ASSUME NEW c \in 0 .. (q - 1), NEW k \in 1 .. W PROVE c * W + k \in 1 .. (q * W)
  <2>1. c * W + W <= q * W /\ c * W \in Nat /\ q * W \in Nat
    BY <1>2
  <2> QED BY <2>1
<1>5. ASSUME NEW p \in 1 .. (q * W) PROVE \E c \in 0 .. (q - 1) : \E k \in 1 .. W : p = c * W + k
  <2>1. PICK c : c = (p - 1) \div W
    OBVIOUS
  <2>2. c \in Nat /\ c * W <= p - 1 /\ p - 1 < c * W + W
    BY <2>1
  <2>3. c < q
    <3>1. ~(q * W <= c * W)
      BY <2>2
    <3>2. \A m \in Nat : q <= m => q * W <= m * W
      OBVIOUS
    <3> QED BY <2>2, <3>1, <3>2
  <2>4. PICK k : k = p - c * W
    OBVIOUS
  <2>5. PICK a \in Nat : a = c * W
    BY <2>2
  <2>6. k \in 1 .. W /\ p = c * W + k
    BY <2>2, <2>4, <2>5
  <2> QED BY <2>2, <2>3, <2>6
<1> QED BY <1>1, <1>3, <1>4, <1>5 DEF Grid
-----------------------------------------------------------------------------
Separated == phase \in {"weigh", "deal", "merge", "refine", "hand out", "done"}
Micro == [bin : Seq(Id), dummy : BOOLEAN]

(* What is spread over the ranks: to each as much, and everything once.     *)
Even(P) == \A k, l \in Rank : Len(P[k]) = Len(P[l])
Spreads(P, S) == /\ P \in [Rank -> Seq(S)]
                 /\ Even(P)
                 /\ Once(P)
                 /\ \A x \in S : In(P, x)
Full(st) == Even(st) /\ Once(st) /\ st[1] # <<>>
Items == DOMAIN Current
Apart(S) == \A st, su \in S : \A x : In(st, x) /\ In(su, x) => st = su
Heap(S) == /\ IsFiniteSet(S) /\ S # {}
           /\ \A st \in S : st \in [Rank -> Seq(Items)] /\ Full(st)
           /\ Apart(S)
           /\ \A x \in Items : \E st \in S : In(st, x)

(* The groups are what the bins make them, and every one of their micro     *)
(* batches is somewhere on the way to the ranks.                            *)
GroupsInv ==
  /\ Separated => groups = [m \in {"mm", "text"} |-> Filled(Real(BinsOf(m)))]
  /\ modality \in {1, 2}
  /\ ~Separated => modality = 1
WeightsInv ==
  phase \in {"deal", "merge", "refine", "hand out"} =>
    weights \in [DOMAIN Current -> Nat] /\ (phase # "hand out" => Current # <<>>)
StatesInv == phase = "merge" => Heap(states)
PartitionsInv == phase \in {"refine", "hand out"} => Spreads(partitions, Items)

(* A place with loss of sample y, the modalities that have been handed out, *)
(* and what the ranks hold of them.                                         *)
Trains(k, n, j, y) ==
  /\ k \in Rank /\ n \in DOMAIN ranks[k] /\ j \in DOMAIN ranks[k][n].bin
  /\ ~ranks[k][n].dummy /\ ranks[k][n].bin[j] = y
Handed == CASE phase = "done" -> {"mm", "text"}
            [] phase # "done" /\ modality = 2 -> {"mm"}
            [] OTHER -> {}
RanksInv ==
  /\ ranks \in [Rank -> Seq(Micro)] /\ Even(ranks)
  /\ \A k, l \in Rank : \A j \in DOMAIN ranks[k] : HasImage(ranks[k][j].bin) = HasImage(ranks[l][j].bin)
  /\ ~Separated => \A k \in Rank : ranks[k] = <<>>
TrainsInv ==
  /\ \A k, n, j, l, p, i, y : Trains(k, n, j, y) /\ Trains(l, p, i, y) => k = l /\ n = p /\ j = i
  /\ \A y : (\E k, n, j : Trains(k, n, j, y)) <=>
            \E h \in DOMAIN bins : GroupOf(bins[h]) \in Handed /\ \E j \in DOMAIN bins[h] : bins[h][j] = y
DealInv == GroupsInv /\ WeightsInv /\ StatesInv /\ PartitionsInv /\ RanksInv /\ TrainsInv
-----------------------------------------------------------------------------
(* The micro batches of a group: r bins of the modality in some order B,    *)
(* and dummies up to a multiple of the ranks.                               *)
OfGroup(m) == {h \in DOMAIN bins : GroupOf(bins[h]) = m}
Makes(F, m, B, r) ==
  /\ F \in Seq(Micro)
  /\ \E q \in Nat : Len(F) = q * Workers
  /\ r \in Nat /\ B \in Bijection(1 .. r, OfGroup(m)) /\ r <= Len(F)
  /\ \A i \in DOMAIN F : /\ GroupOf(F[i].bin) = m
                         /\ ~F[i].dummy <=> i <= r
                         /\ i <= r => F[i].bin = bins[B[i]]

(* What a modality is filled up to is such a group.                         *)
LEMMA GroupMade ==
  ASSUME bins \in Seq(Seq(Id)), NEW m
  PROVE  \E B, r : Makes(Filled(Real(BinsOf(m))), m, B, r)
<1> DEFINE S == OfGroup(m)
           B == BinsOf(m)
           r == Cardinality(S)
           G == Real(B)
           F == Filled(G)
<1>1. S \subseteq DOMAIN bins /\ DOMAIN bins = 1 .. Len(bins) /\ Len(bins) \in Nat
  BY DEF OfGroup
<1>2. IsFiniteSet(S) /\ r \in Nat /\ S \in SUBSET Int
  <2>1. IsFiniteSet(DOMAIN bins)
    BY <1>1, FS_Interval
  <2> QED BY <1>1, <2>1, FS_Subset, FS_CardinalityType
<1>3. B \in Bijection(1 .. r, S)
  BY <1>2, OrdersAll DEF BinsOf, OfGroup
<1> HIDE DEF B, S, r
<1>4. B \in [1 .. r -> S] /\ DOMAIN B = 1 .. r
  <2>1. B \in [1 .. r -> S]
    BY <1>3 DEF Bijection, Injection
  <2> QED BY <2>1
<1>5. G = [n \in 1 .. r |-> [bin |-> bins[B[n]], dummy |-> FALSE]]
  BY <1>4 DEF Real
<1>6. \A n \in 1 .. r : B[n] \in DOMAIN bins /\ bins[B[n]] \in Seq(Id) /\ GroupOf(bins[B[n]]) = m
  BY <1>1, <1>4 DEF S, OfGroup
<1>7. G \in Seq(Micro) /\ Len(G) = r /\ DOMAIN G = 1 .. r
  <2>1. \A n \in 1 .. r : [bin |-> bins[B[n]], dummy |-> FALSE] \in Micro
    BY <1>6 DEF Micro
  <2>2. G \in [1 .. r -> Micro]
    BY <1>5, <2>1
  <2> HIDE DEF G
  <2> QED BY <1>2, <2>2
<1>8. \A n \in 1 .. r : G[n].bin = bins[B[n]] /\ G[n].dummy = FALSE
  BY <1>5
<1> HIDE DEF G
<1>9. CASE G = <<>>
  <2>1. F = <<>> /\ r = 0
    BY <1>7, <1>9 DEF Filled
  <2>2. F \in Seq(Micro) /\ Len(F) = 0 * Workers /\ DOMAIN F = {} /\ 0 \in Nat /\ r <= Len(F)
    <3>1. 0 * Workers = 0
      BY PackingAssumption DEF PackingAssumption
    <3> QED BY <2>1, <3>1
  <2> HIDE DEF F
  <2>3. Makes(F, m, B, r)
    BY <1>2, <1>3, <2>2 DEF Makes, S
  <2> QED BY <2>3 DEF F, G, B
<1>10. CASE G # <<>>
  <2>0. r \in Nat \ {0} /\ Workers \in Nat \ {0}
    BY <1>2, <1>7, <1>10, PackingAssumption DEF PackingAssumption
  <2>1. PICK q \in Nat : RoundUp(r, Workers) = q * Workers /\ r <= q * Workers /\ q * Workers \in Nat
    <3>1. PICK q : q = (r + Workers - 1) \div Workers
      OBVIOUS
    <3>2. q \in Nat /\ r <= q * Workers
      BY <2>0, <3>1, RoundsUp
    <3>3. \A a, b \in Nat : a * b \in Nat
      OBVIOUS
    <3>4. q * Workers \in Nat /\ RoundUp(r, Workers) = q * Workers
      BY <2>0, <3>1, <3>2, <3>3 DEF RoundUp
    <3> QED BY <3>2, <3>4
  <2> DEFINE e == [G[1] EXCEPT !.dummy = TRUE]
             D == [k \in 1 .. (q * Workers - r) |-> e]
  <2>2. F = G \o D
    BY <1>7, <1>10, <2>1 DEF Filled
  <2>3. e \in Micro /\ e.bin = bins[B[1]] /\ e.dummy = TRUE /\ 1 \in 1 .. r
    <3>1. 1 \in 1 .. r
      BY <2>0
    <3>2. G[1] \in Micro /\ G[1].bin = bins[B[1]]
      BY <1>7, <1>8, <3>1
    <3> QED BY <3>1, <3>2 DEF Micro
  <2> HIDE DEF e, F
  <2>4. D \in Seq(Micro) /\ Len(D) = q * Workers - r /\ \A k \in 1 .. Len(D) : D[k] = e
    <3>1. PICK z \in Nat : z = q * Workers - r
      BY <2>0, <2>1
    <3>2. D = [k \in 1 .. z |-> e]
      BY <3>1
    <3>3. D \in [1 .. z -> Micro]
      BY <2>3, <3>2
    <3>4. \A k \in 1 .. z : D[k] = e
      BY <3>2
    <3> HIDE DEF D
    <3>5. D \in Seq(Micro) /\ Len(D) = z
      BY <3>3
    <3> QED BY <3>1, <3>4, <3>5
  <2> HIDE DEF D
  <2>5. /\ F \in Seq(Micro) /\ Len(F) = q * Workers
        /\ \A i \in 1 .. Len(F) : F[i] = IF i <= r THEN G[i] ELSE D[i - r]
    <3>1. /\ G \o D \in Seq(Micro) /\ Len(G \o D) = Len(G) + Len(D)
          /\ \A i \in 1 .. (Len(G) + Len(D)) : (G \o D)[i] = IF i <= Len(G) THEN G[i] ELSE D[i - Len(G)]
      BY <1>7, <2>4, ConcatProperties
    <3>2. Len(G) + Len(D) = q * Workers
      BY <1>7, <2>0, <2>1, <2>4
    <3> QED BY <1>7, <2>2, <3>1, <3>2
  <2>6. ASSUME NEW i \in DOMAIN F
        PROVE  GroupOf(F[i].bin) = m /\ (~F[i].dummy <=> i <= r) /\ (i <= r => F[i].bin = bins[B[i]])
    <3>0. i \in 1 .. Len(F) /\ i \in Nat
      BY <2>5
    <3>1. CASE i <= r
      <4>1. F[i] = G[i] /\ i \in 1 .. r
        BY <2>0, <2>5, <3>0, <3>1
      <4> QED BY <1>6, <1>8, <3>1, <4>1
    <3>2. CASE ~(i <= r)
      <4>1. F[i] = D[i - r] /\ i - r \in 1 .. (q * Workers - r)
        BY <2>0, <2>1, <2>5, <3>0, <3>2
      <4>2. F[i] = e
        BY <2>4, <4>1
      <4> QED BY <1>6, <2>3, <3>2, <4>2
    <3> QED BY <3>1, <3>2
  <2>7. Makes(F, m, B, r)
    BY <1>2, <1>3, <2>1, <2>5, <2>6 DEF Makes, S
  <2> QED BY <2>7 DEF F, G, B
<1> QED BY <1>9, <1>10

Weighted == /\ \E n \in Nat : Items = 1 .. n
            /\ weights \in [Items -> Nat]

(* The weight of some items is a number.                                    *)
LEMMA TotalTyped ==
  ASSUME Weighted, NEW items \in Seq(Items)
  PROVE  Total(items) \in Nat
<1> DEFINE w == [i \in DOMAIN items |-> weights[items[i]]]
<1>0. PICK D : D = Items /\ items \in Seq(D) /\ weights \in [D -> Nat]
  BY DEF Weighted
<1>1. DOMAIN w = 1 .. Len(items) /\ Len(items) \in Nat
  BY <1>0
<1>2. IsFiniteSet(DOMAIN w)
  BY <1>1, FS_Interval
<1>3. \A i \in DOMAIN w : w[i] \in Nat
  <2>1. \A i \in DOMAIN items : items[i] \in D
    BY <1>0
  <2> QED BY <1>0, <2>1
<1> HIDE DEF w
<1>4. SumFunction(w) \in Nat
  BY <1>2, <1>3, SumTyped
<1> QED BY <1>4 DEF Total, w

(* What a set of items is compared by is a list of numbers.                 *)
LEMMA KeyTyped ==
  ASSUME Weighted, NEW items \in Seq(Items)
  PROVE  /\ Key(items) \in Seq(Int) /\ Len(Key(items)) = Len(items) + 1
         /\ Key(items)[1] = Total(items)
         /\ items # <<>> => Key(items)[2] = items[1]
<1>1. PICK t \in Int : t = Total(items)
  BY TotalTyped
<1>2. items \in Seq(Int)
  <2>1. PICK n \in Nat : Items = 1 .. n
    BY DEF Weighted
  <2>2. PICK D : D = Items /\ D \subseteq Int
    BY <2>1
  <2>3. items \in Seq(D)
    BY <2>2
  <2>4. Len(items) \in Nat /\ DOMAIN items = 1 .. Len(items)
    BY <2>3
  <2>5. items \in [1 .. Len(items) -> Int]
    <3>1. \A i \in 1 .. Len(items) : items[i] \in Int
      <4>1. \A i \in 1 .. Len(items) : items[i] \in D
        BY <2>3, <2>4
      <4> QED BY <2>2, <4>1
    <3>2. items = [i \in 1 .. Len(items) |-> items[i]]
      BY <2>3
    <3> QED BY <3>1, <3>2
  <2> QED BY <2>4, <2>5
<1>3. <<t>> \in Seq(Int) /\ Len(<<t>>) = 1 /\ <<t>>[1] = t
  OBVIOUS
<1>4. /\ <<t>> \o items \in Seq(Int) /\ Len(<<t>> \o items) = 1 + Len(items)
      /\ \A i \in 1 .. (1 + Len(items)) : (<<t>> \o items)[i] = IF i <= 1 THEN <<t>>[i] ELSE items[i - 1]
  BY <1>2, <1>3, ConcatProperties
<1>5. Len(items) \in Nat /\ (items # <<>> => Len(items) # 0)
  BY <1>2
<1>6. 1 \in 1 .. (1 + Len(items)) /\ (items # <<>> => 2 \in 1 .. (1 + Len(items)))
  BY <1>5
<1>7. (<<t>> \o items)[1] = t /\ (items # <<>> => (<<t>> \o items)[2] = items[1])
  BY <1>3, <1>4, <1>6
<1>8. Key(items) = <<t>> \o items
  BY <1>1 DEF Key
<1> QED BY <1>1, <1>4, <1>5, <1>7, <1>8

(* As much to each rank in another order of the ranks.                      *)
Shuffles(Q, P, D) == /\ Q \in [Rank -> Seq(D)]
                     /\ Even(P) => Even(Q)
                     /\ Once(P) => Once(Q)
                     /\ \A x : In(Q, x) <=> In(P, x)

(* A permutation of the ranks gives as much, in another order.              *)
LEMMA Permuted ==
  ASSUME NEW D, NEW P \in [Rank -> Seq(D)], NEW g \in Bijection(Rank, Rank)
  PROVE  Shuffles([k \in Rank |-> P[g[k]]], P, D)
<1> DEFINE Q == [k \in Rank |-> P[g[k]]]
<1>1. /\ \A k \in Rank : g[k] \in Rank
      /\ \A k, l \in Rank : g[k] = g[l] => k = l
      /\ \A l \in Rank : \E k \in Rank : g[k] = l
  BY DEF Bijection, Injection, IsInjective, Surjection
<1>2. DOMAIN Q = Rank /\ \A k \in Rank : Q[k] = P[g[k]]
  OBVIOUS
<1>3. DOMAIN P = Rank /\ Q \in [Rank -> Seq(D)]
  BY <1>1
<1> HIDE DEF Q
<1>4. Even(P) => Even(Q)
  <2> SUFFICES ASSUME Even(P), NEW k \in Rank, NEW l \in Rank PROVE Len(Q[k]) = Len(Q[l])
    BY DEF Even
  <2>1. g[k] \in Rank /\ g[l] \in Rank
    BY <1>1
  <2>2. Len(P[g[k]]) = Len(P[g[l]])
    BY <2>1 DEF Even
  <2> QED BY <1>2, <2>2
<1>5. ASSUME Once(P) PROVE Once(Q)
  <2> SUFFICES ASSUME NEW k \in DOMAIN Q, NEW l \in DOMAIN Q, NEW i \in DOMAIN Q[k], NEW j \in DOMAIN Q[l],
                      Q[k][i] = Q[l][j]
               PROVE  k = l /\ i = j
    BY DEF Once
  <2>2. k \in Rank /\ l \in Rank /\ Q[k] = P[g[k]] /\ Q[l] = P[g[l]]
    BY <1>2
  <2>0. g[k] \in DOMAIN P /\ g[l] \in DOMAIN P
    BY <1>1, <1>3, <2>2
  <2>1. g[k] = g[l] /\ i = j
    BY <1>5, <2>0, <2>2 DEF Once
  <2> QED BY <1>1, <2>1, <2>2
<1>6. \A x : In(Q, x) <=> In(P, x)
  <2> SUFFICES ASSUME NEW x PROVE In(Q, x) <=> In(P, x)
    OBVIOUS
  <2>1. In(P, x) <=> \E l \in Rank : \E j \in DOMAIN P[l] : P[l][j] = x
    BY <1>3 DEF In
  <2>2. In(Q, x) <=> \E k \in Rank : \E j \in DOMAIN Q[k] : Q[k][j] = x
    BY <1>2 DEF In
  <2>3. ASSUME In(Q, x) PROVE In(P, x)
    <3>1. PICK k \in Rank : \E j \in DOMAIN Q[k] : Q[k][j] = x
      BY <2>2, <2>3
    <3>2. g[k] \in Rank /\ Q[k] = P[g[k]]
      BY <1>1, <1>2
    <3> QED BY <2>1, <3>1, <3>2
  <2>4. ASSUME In(P, x) PROVE In(Q, x)
    <3>1. PICK l \in Rank : \E j \in DOMAIN P[l] : P[l][j] = x
      BY <2>1, <2>4
    <3>2. PICK k \in Rank : g[k] = l
      BY <1>1
    <3>3. Q[k] = P[l]
      BY <1>2, <3>2
    <3> QED BY <2>2, <3>1, <3>3
  <2> QED BY <2>3, <2>4
<1> QED BY <1>3, <1>4, <1>5, <1>6 DEF Shuffles, Q

(* The ranks, and each one counted from the other end.                      *)
LEMMA RanksEnds ==
  /\ Workers \in Nat \ {0} /\ Rank = 1 .. Workers /\ 1 \in Rank /\ Workers \in Rank
  /\ \A k \in Rank : OtherEnd(k) \in Rank /\ OtherEnd(OtherEnd(k)) = k
BY PackingAssumption DEF PackingAssumption, Rank, OtherEnd

(* Sorting a state changes which rank has what, and nothing else.           *)
LEMMA SortedIs ==
  ASSUME Weighted, NEW sets \in [Rank -> Seq(Items)], Full(sets)
  PROVE  /\ Sorted(sets) \in [Rank -> Seq(Items)]
         /\ Full(Sorted(sets))
         /\ \A x : In(Sorted(sets), x) <=> In(sets, x)
<1> DEFINE key == [k \in Rank |-> Key(sets[k])]
           a == SortBy(key)
           g == [k \in Rank |-> a[OtherEnd(k)]]
<1>1. DOMAIN key = Rank /\ IsFiniteSet(Rank) /\ Cardinality(Rank) = Workers
  BY RanksEnds, FS_Interval
<1>2. \A k \in Rank : sets[k] \in Seq(Items) /\ sets[k] # <<>>
  <2>1. Even(sets) /\ sets[1] # <<>> /\ sets[1] \in Seq(Items)
    BY RanksEnds DEF Full
  <2>2. Len(sets[1]) # 0
    BY <2>1
  <2>3. \A k \in Rank : Len(sets[k]) = Len(sets[1])
    BY <2>1, RanksEnds DEF Even
  <2> QED BY <2>2, <2>3
<1>3. \A k \in Rank : key[k] \in Seq(Int) /\ key[k][2] = sets[k][1]
  BY <1>2, KeyTyped
<1>4. \A k, l \in Rank : key[k] = key[l] => k = l
  <2> SUFFICES ASSUME NEW k \in Rank, NEW l \in Rank, sets[k][1] = sets[l][1] PROVE k = l
    BY <1>3
  <2>1. 1 \in DOMAIN sets[k] /\ 1 \in DOMAIN sets[l]
    BY <1>2
  <2> QED BY <2>1 DEF Full, Once
<1> HIDE DEF key
<1>5. a \in Bijection(Rank, Rank)
  <2>1. Keyed(key)
    BY <1>1, <1>3, <1>4 DEF Keyed
  <2>2. 1 .. Workers = Rank
    BY RanksEnds
  <2> QED BY <1>1, <2>1, <2>2, SortsAll
<1> HIDE DEF a
<1>6. /\ \A k \in Rank : a[k] \in Rank
      /\ \A k, l \in Rank : a[k] = a[l] => k = l
      /\ \A l \in Rank : \E k \in Rank : a[k] = l
  BY <1>5 DEF Bijection, Injection, IsInjective, Surjection
<1>7. g \in Bijection(Rank, Rank)
  <2>1. g \in [Rank -> Rank] /\ \A k \in Rank : g[k] = a[OtherEnd(k)]
    BY <1>6, RanksEnds
  <2>2. \A k, l \in Rank : g[k] = g[l] => k = l
    <3> SUFFICES ASSUME NEW k \in Rank, NEW l \in Rank, a[OtherEnd(k)] = a[OtherEnd(l)] PROVE k = l
      OBVIOUS
    <3>1. OtherEnd(k) = OtherEnd(l)
      BY <1>6, RanksEnds
    <3> QED BY <3>1, RanksEnds
  <2>3. \A l \in Rank : \E k \in Rank : g[k] = l
    <3> SUFFICES ASSUME NEW l \in Rank PROVE \E k \in Rank : g[k] = l
      OBVIOUS
    <3>1. PICK h \in Rank : a[h] = l
      BY <1>6
    <3>2. OtherEnd(h) \in Rank /\ g[OtherEnd(h)] = l
      BY <2>1, <3>1, RanksEnds
    <3> QED BY <3>2
  <2> HIDE DEF g
  <2> QED BY <2>1, <2>2, <2>3 DEF Bijection, Injection, IsInjective, Surjection
<1>8. Sorted(sets) = [k \in Rank |-> sets[g[k]]]
  <2>1. Sorted(sets) = [k \in Rank |-> sets[a[OtherEnd(k)]]]
    BY DEF Sorted, a, key
  <2> QED BY <2>1
<1> HIDE DEF g
<1>9. /\ Sorted(sets) \in [Rank -> Seq(Items)] /\ Even(Sorted(sets)) /\ Once(Sorted(sets))
      /\ \A x : In(Sorted(sets), x) <=> In(sets, x)
  <2> DEFINE Q == [k \in Rank |-> sets[g[k]]]
  <2>1. /\ Q \in [Rank -> Seq(Items)] /\ Even(Q) /\ Once(Q)
        /\ \A x : In(Q, x) <=> In(sets, x)
    <3>1. PICK D : D = Items
      OBVIOUS
    <3>2. Even(sets) /\ Once(sets) /\ sets \in [Rank -> Seq(D)]
      BY <3>1 DEF Full
    <3>3. Shuffles(Q, sets, D)
      BY <1>7, <3>2, Permuted
    <3> HIDE DEF Q
    <3> QED BY <3>1, <3>2, <3>3 DEF Shuffles
  <2> HIDE DEF Q
  <2>2. Sorted(sets) = Q
    BY <1>8 DEF Q
  <2> QED BY <2>1, <2>2
<1>10. Sorted(sets)[1] # <<>>
  <2>1. g[1] \in Rank /\ Sorted(sets)[1] = sets[g[1]]
    BY <1>7, <1>8, RanksEnds DEF Bijection, Injection
  <2> QED BY <1>2, <2>1
<1> QED BY <1>9, <1>10 DEF Full

(* Two states that share nothing are one when each rank takes a list of     *)
(* either.                                                                  *)
LEMMA MergedIs ==
  ASSUME NEW D, NEW a \in [Rank -> Seq(D)], NEW b \in [Rank -> Seq(D)], Full(a), Full(b),
         \A x : ~(In(a, x) /\ In(b, x))
  PROVE  LET C == [k \in Rank |-> a[k] \o b[OtherEnd(k)]]
         IN  /\ C \in [Rank -> Seq(D)] /\ Full(C)
             /\ \A x : In(C, x) <=> In(a, x) \/ In(b, x)
<1> DEFINE C == [k \in Rank |-> a[k] \o b[OtherEnd(k)]]
<1>1. \A k \in Rank : /\ a[k] \in Seq(D) /\ b[OtherEnd(k)] \in Seq(D) /\ OtherEnd(k) \in Rank
                      /\ DOMAIN a[k] = 1 .. Len(a[k]) /\ Len(a[k]) \in Nat
                      /\ DOMAIN b[OtherEnd(k)] = 1 .. Len(b[OtherEnd(k)]) /\ Len(b[OtherEnd(k)]) \in Nat
  <2> SUFFICES ASSUME NEW k \in Rank PROVE /\ a[k] \in Seq(D) /\ b[OtherEnd(k)] \in Seq(D) /\ OtherEnd(k) \in Rank
                      /\ DOMAIN a[k] = 1 .. Len(a[k]) /\ Len(a[k]) \in Nat
                      /\ DOMAIN b[OtherEnd(k)] = 1 .. Len(b[OtherEnd(k)]) /\ Len(b[OtherEnd(k)]) \in Nat
    OBVIOUS
  <2>1. a[k] \in Seq(D) /\ OtherEnd(k) \in Rank
    BY RanksEnds
  <2>2. b[OtherEnd(k)] \in Seq(D)
    BY <2>1
  <2> QED BY <2>1, <2>2
<1>2. \A k \in Rank : /\ C[k] \in Seq(D) /\ Len(C[k]) = Len(a[k]) + Len(b[OtherEnd(k)])
                      /\ \A i \in 1 .. Len(C[k]) :
                           C[k][i] = IF i <= Len(a[k]) THEN a[k][i] ELSE b[OtherEnd(k)][i - Len(a[k])]
  <2> SUFFICES ASSUME NEW k \in Rank
               PROVE  /\ C[k] \in Seq(D) /\ Len(C[k]) = Len(a[k]) + Len(b[OtherEnd(k)])
                      /\ \A i \in 1 .. Len(C[k]) :
                           C[k][i] = IF i <= Len(a[k]) THEN a[k][i] ELSE b[OtherEnd(k)][i - Len(a[k])]
    OBVIOUS
  <2>1. C[k] = a[k] \o b[OtherEnd(k)]
    OBVIOUS
  <2> HIDE DEF C
  <2> QED BY <1>1, <2>1, ConcatProperties
<1>3. C \in [Rank -> Seq(D)] /\ DOMAIN C = Rank
  <2>1. C = [k \in Rank |-> C[k]]
    OBVIOUS
  <2> HIDE DEF C
  <2> QED BY <1>2, <2>1
<1> HIDE DEF C
<1>4. Even(C)
  <2> SUFFICES ASSUME NEW k \in Rank, NEW l \in Rank PROVE Len(C[k]) = Len(C[l])
    BY DEF Even
  <2>1. Len(a[k]) = Len(a[l]) /\ Len(b[OtherEnd(k)]) = Len(b[OtherEnd(l)])
    BY <1>1 DEF Full, Even
  <2> QED BY <1>2, <2>1
<1>5. DOMAIN a = Rank /\ DOMAIN b = Rank
  OBVIOUS
<1>6. \A k, j, y : At(C, k, j, y) <=>
         \/ At(a, k, j, y)
         \/ k \in Rank /\ j \in Int /\ At(b, OtherEnd(k), j - Len(a[k]), y)
  <2> SUFFICES ASSUME NEW k, NEW j, NEW y
               PROVE At(C, k, j, y) <=>
                       \/ At(a, k, j, y)
                       \/ k \in Rank /\ j \in Int /\ At(b, OtherEnd(k), j - Len(a[k]), y)
    OBVIOUS
  <2>0. CASE k \notin Rank
    BY <1>3, <1>5, <2>0 DEF At
  <2> SUFFICES ASSUME k \in Rank
               PROVE At(C, k, j, y) <=>
                       \/ At(a, k, j, y)
                       \/ k \in Rank /\ j \in Int /\ At(b, OtherEnd(k), j - Len(a[k]), y)
    BY <2>0
  <2>1. PICK p \in Nat, q \in Nat : p = Len(a[k]) /\ q = Len(b[OtherEnd(k)])
    BY <1>1
  <2>2. DOMAIN a[k] = 1 .. p /\ DOMAIN b[OtherEnd(k)] = 1 .. q /\ DOMAIN C[k] = 1 .. (p + q) /\ OtherEnd(k) \in Rank
    <3>1. DOMAIN C[k] = 1 .. Len(C[k]) /\ Len(C[k]) = p + q
      BY <1>2, <2>1
    <3> QED BY <1>1, <2>1, <3>1
  <2>3. \A i \in 1 .. (p + q) : C[k][i] = IF i <= p THEN a[k][i] ELSE b[OtherEnd(k)][i - p]
    BY <1>2, <2>1
  <2>4. At(C, k, j, y) <=> j \in 1 .. (p + q) /\ C[k][j] = y
    BY <1>3, <2>2 DEF At
  <2>5. At(a, k, j, y) <=> j \in 1 .. p /\ a[k][j] = y
    BY <1>5, <2>2 DEF At
  <2>6. At(b, OtherEnd(k), j - p, y) <=> j - p \in 1 .. q /\ b[OtherEnd(k)][j - p] = y
    BY <1>5, <2>2 DEF At
  <2>7. j \in 1 .. (p + q) <=> j \in 1 .. p \/ (j \in Int /\ j - p \in 1 .. q)
    OBVIOUS
  <2>8. /\ j \in 1 .. p => C[k][j] = a[k][j]
        /\ j \in Int /\ j - p \in 1 .. q => C[k][j] = b[OtherEnd(k)][j - p]
    BY <2>3
  <2> QED BY <2>1, <2>4, <2>5, <2>6, <2>7, <2>8
<1>7. \A y : /\ In(C, y) <=> \E k, j : At(C, k, j, y)
             /\ In(a, y) <=> \E k, j : At(a, k, j, y)
             /\ In(b, y) <=> \E k, j : At(b, k, j, y)
  BY DEF In, At
<1>8. \A y : In(C, y) <=> In(a, y) \/ In(b, y)
  <2> SUFFICES ASSUME NEW y PROVE In(C, y) <=> In(a, y) \/ In(b, y)
    OBVIOUS
  <2>1. In(C, y) => In(a, y) \/ In(b, y)
    BY <1>6, <1>7
  <2>2. In(a, y) => In(C, y)
    BY <1>6, <1>7
  <2>3. ASSUME In(b, y) PROVE In(C, y)
    <3>1. PICK l, j : At(b, l, j, y)
      BY <1>7, <2>3
    <3>2. PICK k \in Rank : l = OtherEnd(k)
      BY <1>5, <3>1, RanksEnds DEF At
    <3>3. j \in Int /\ Len(a[k]) \in Int
      BY <1>1, <3>1, <3>2 DEF At
    <3>4. PICK p \in Int, i \in Int : p = Len(a[k]) /\ i = j
      BY <3>3
    <3>5. (i + p) - p = i /\ i + p \in Int
      OBVIOUS
    <3>6. At(C, k, i + p, y)
      BY <1>6, <3>1, <3>2, <3>4, <3>5
    <3> QED BY <1>7, <3>6
  <2> QED BY <2>1, <2>2, <2>3
<1>9. \A k, j, l, i, y : /\ At(a, k, j, y) /\ At(a, l, i, y) => k = l /\ j = i
                         /\ At(b, k, j, y) /\ At(b, l, i, y) => k = l /\ j = i
                         /\ ~(At(a, k, j, y) /\ At(b, l, i, y))
  <2>1. \A k, j, l, i, y : At(a, k, j, y) /\ At(a, l, i, y) => k = l /\ j = i
    BY DEF Full, Once, At
  <2>2. \A k, j, l, i, y : At(b, k, j, y) /\ At(b, l, i, y) => k = l /\ j = i
    BY DEF Full, Once, At
  <2>3. \A k, j, l, i, y : ~(At(a, k, j, y) /\ At(b, l, i, y))
    BY <1>7
  <2> QED BY <2>1, <2>2, <2>3
<1>10. \A k, j, l, i, y : At(C, k, j, y) /\ At(C, l, i, y) => k = l /\ j = i
  <2> SUFFICES ASSUME NEW k, NEW j, NEW l, NEW i, NEW y, At(C, k, j, y), At(C, l, i, y)
               PROVE  k = l /\ j = i
    OBVIOUS
  <2>1. CASE At(a, k, j, y)
    <3>1. At(a, l, i, y)
      BY <1>6, <1>9, <2>1
    <3> QED BY <1>9, <2>1, <3>1
  <2>2. CASE ~At(a, k, j, y)
    <3>1. k \in Rank /\ j \in Int /\ At(b, OtherEnd(k), j - Len(a[k]), y)
      BY <1>6, <2>2
    <3>2. l \in Rank /\ i \in Int /\ At(b, OtherEnd(l), i - Len(a[l]), y)
      BY <1>6, <1>9, <3>1
    <3>3. OtherEnd(k) = OtherEnd(l) /\ j - Len(a[k]) = i - Len(a[l])
      BY <1>9, <3>1, <3>2
    <3>4. k = l
      BY <3>1, <3>2, <3>3, RanksEnds
    <3>5. PICK p \in Int : p = Len(a[k]) /\ p = Len(a[l])
      BY <1>1, <3>1, <3>4
    <3> QED BY <3>1, <3>2, <3>3, <3>4, <3>5
  <2> QED BY <2>1, <2>2
<1>11. Once(C)
  <2> SUFFICES ASSUME NEW k \in DOMAIN C, NEW l \in DOMAIN C, NEW i \in DOMAIN C[k], NEW j \in DOMAIN C[l],
                      C[k][i] = C[l][j]
               PROVE  k = l /\ i = j
    BY DEF Once
  <2>1. At(C, k, i, C[k][i]) /\ At(C, l, j, C[k][i])
    BY DEF At
  <2> QED BY <1>10, <2>1
<1>12. C[1] # <<>>
  <2>1. Len(a[1]) # 0 /\ Len(a[1]) \in Nat /\ Len(b[OtherEnd(1)]) \in Nat
    BY <1>1, RanksEnds DEF Full
  <2>2. Len(C[1]) # 0
    BY <1>2, <2>1, RanksEnds
  <2> QED BY <2>2
<1> QED BY <1>3, <1>4, <1>8, <1>11, <1>12 DEF Full, C

(* What a partition holds, place by place.                                  *)
LEMMA AtPlaces ==
  ASSUME NEW B
  PROVE  /\ Once(B) <=> \A k, j, l, i, y : At(B, k, j, y) /\ At(B, l, i, y) => k = l /\ j = i
         /\ \A y : In(B, y) <=> \E k, j : At(B, k, j, y)
<1>1. ASSUME Once(B), NEW k, NEW j, NEW l, NEW i, NEW y, At(B, k, j, y), At(B, l, i, y)
      PROVE  k = l /\ j = i
  BY <1>1 DEF Once, At
<1>2. ASSUME \A k, j, l, i, y : At(B, k, j, y) /\ At(B, l, i, y) => k = l /\ j = i
      PROVE  Once(B)
  <2> SUFFICES ASSUME NEW k \in DOMAIN B, NEW l \in DOMAIN B, NEW i \in DOMAIN B[k], NEW j \in DOMAIN B[l],
                      B[k][i] = B[l][j]
               PROVE  k = l /\ i = j
    BY DEF Once
  <2>1. At(B, k, i, B[k][i]) /\ At(B, l, j, B[k][i])
    BY DEF At
  <2> QED BY <1>2, <2>1
<1>3. \A y : In(B, y) <=> \E k, j : At(B, k, j, y)
  BY DEF In, At
<1> QED BY <1>1, <1>2, <1>3

(* A finite set of numbers has a greatest.                                  *)
LEMMA MaxPicked ==
  ASSUME NEW S \in SUBSET Nat, IsFiniteSet(S), S # {}
  PROVE  Max(S) \in S /\ Min(S) \in S
<1> DEFINE E(x) == {y \in S : y > x}
           Above == {Cardinality(E(x)) : x \in S}
<1>1. \A x \in S : IsFiniteSet(E(x)) /\ Cardinality(E(x)) \in Nat
  <2>1. \A x \in S : E(x) \subseteq S
    OBVIOUS
  <2> QED BY <2>1, FS_Subset, FS_CardinalityType
<1>2. PICK n \in Above : \A m \in Above : n <= m
  <2>1. Above \in SUBSET Nat /\ Above # {}
    BY <1>1
  <2> HIDE DEF Above
  <2> QED BY <2>1, LeastNumber
<1>3. PICK x \in S : n = Cardinality(E(x))
  BY <1>2
<1>4. \A y \in S : x >= y
  <2> SUFFICES ASSUME NEW y \in S, y > x PROVE FALSE
    OBVIOUS
  <2>1. y \in E(x) /\ E(y) \subseteq E(x) \ {y}
    <3>1. y \in E(x)
      OBVIOUS
    <3>2. \A z \in E(y) : z \in S /\ z > y /\ z \in Nat
      OBVIOUS
    <3>3. \A z \in E(y) : z > x /\ z # y
      BY <3>2
    <3>4. \A z \in E(y) : z \in E(x)
      BY <3>2, <3>3
    <3> HIDE DEF E
    <3> QED BY <3>1, <3>3, <3>4
  <2>2. IsFiniteSet(E(x) \ {y}) /\ Cardinality(E(x) \ {y}) = Cardinality(E(x)) - 1
    BY <1>1, <2>1, FS_RemoveElement
  <2>3. Cardinality(E(y)) <= Cardinality(E(x) \ {y})
    BY <2>1, <2>2, FS_Subset
  <2>4. Cardinality(E(x)) <= Cardinality(E(y))
    BY <1>2, <1>3
  <2>5. Cardinality(E(x)) \in Nat /\ Cardinality(E(y)) \in Nat
    BY <1>1
  <2> HIDE DEF E
  <2> QED BY <2>2, <2>3, <2>4, <2>5
<1>5. Max(S) \in S
  <2>1. Max(S) = CHOOSE z \in S : \A y \in S : z >= y
    BY DEF Max
  <2> QED BY <1>4, <2>1
<1>6. PICK z \in S : \A y \in S : z <= y
  BY LeastNumber
<1>7. Min(S) \in S
  <2>1. Min(S) = CHOOSE v \in S : \A y \in S : v <= y
    BY DEF Min
  <2> QED BY <1>6, <2>1
<1> QED BY <1>5, <1>7

(* What the heap gives is in it.                                            *)
LEMMA FirstPicked ==
  ASSUME Weighted, NEW S, IsFiniteSet(S), S # {}, Apart(S),
         \A st \in S : st \in [Rank -> Seq(Items)] /\ Full(st)
  PROVE  First(S) \in S
<1> DEFINE key == [st \in S |-> <<Spread(st)>> \o Key(st[1])]
<1>1. ASSUME NEW st \in S
      PROVE  key[st] \in Seq(Int) /\ key[st][3] = st[1][1] /\ In(st, st[1][1])
  <2>1. st[1] \in Seq(Items) /\ st[Workers] \in Seq(Items) /\ st[1] # <<>>
    BY RanksEnds DEF Full
  <2>2. PICK t \in Int : t = Spread(st)
    <3>1. Total(st[1]) \in Nat /\ Total(st[Workers]) \in Nat
      BY <2>1, TotalTyped
    <3> QED BY <3>1 DEF Spread
  <2>3. PICK u \in Seq(Int) : u = Key(st[1]) /\ Len(u) = Len(st[1]) + 1 /\ u[2] = st[1][1]
    BY <2>1, KeyTyped
  <2>4. Len(st[1]) \in Nat /\ Len(st[1]) # 0 /\ 1 \in DOMAIN st[1]
    BY <2>1
  <2>5. <<t>> \in Seq(Int) /\ Len(<<t>>) = 1
    OBVIOUS
  <2>6. /\ <<t>> \o u \in Seq(Int)
        /\ \A i \in 1 .. (1 + Len(u)) : (<<t>> \o u)[i] = IF i <= 1 THEN <<t>>[i] ELSE u[i - 1]
    BY <2>5, ConcatProperties
  <2>7. 3 \in 1 .. (1 + Len(u))
    BY <2>3, <2>4
  <2>8. (<<t>> \o u)[3] = u[2]
    BY <2>6, <2>7
  <2>9. key[st] = <<t>> \o u
    BY <2>2, <2>3
  <2>10. In(st, st[1][1])
    <3>1. 1 \in DOMAIN st
      BY RanksEnds
    <3> QED BY <2>4, <3>1 DEF In
  <2> QED BY <2>3, <2>6, <2>8, <2>9, <2>10
<1>2. DOMAIN key = S
  OBVIOUS
<1> HIDE DEF key
<1>3. \A st, su \in S : key[st] = key[su] => st = su
  BY <1>1 DEF Apart
<1>4. Keyed(key)
  BY <1>1, <1>2, <1>3 DEF Keyed
<1>5. Greatest(key) \in S
  BY <1>2, <1>4, SortPicks
<1> QED BY <1>5 DEF First, key

(* Putting every rank's list in order keeps it.                             *)
LEMMA OrderedIs ==
  ASSUME NEW D \in SUBSET Int, NEW st \in [Rank -> Seq(D)], Full(st), \A x \in D : In(st, x)
  PROVE  Spreads([k \in Rank |-> Ordered(Range(st[k]))], D)
<1> DEFINE P == [k \in Rank |-> Ordered(Range(st[k]))]
<1>1. ASSUME NEW k \in Rank
      PROVE  /\ P[k] \in Seq(D) /\ Len(P[k]) = Len(st[k]) /\ DOMAIN P[k] = DOMAIN st[k]
             /\ \A x : (\E i \in DOMAIN P[k] : P[k][i] = x) <=> (\E i \in DOMAIN st[k] : st[k][i] = x)
             /\ \A i, j \in DOMAIN P[k] : P[k][i] = P[k][j] => i = j
  <2>1. PICK s \in Seq(D) : s = st[k]
    OBVIOUS
  <2>2. PICK n \in Nat : n = Len(s) /\ DOMAIN s = 1 .. n
    OBVIOUS
  <2>3. PICK R : R = Range(st[k]) /\ R = {s[i] : i \in 1 .. n}
    BY <2>1, <2>2 DEF Range
  <2>4. R \subseteq D
    BY <2>2, <2>3
  <2>5. \A i, j \in 1 .. n : s[i] = s[j] => i = j
    <3>1. k \in DOMAIN st
      OBVIOUS
    <3> QED BY <2>1, <2>2, <3>1 DEF Full, Once
  <2>6. s \in Bijection(1 .. n, R)
    <3>1. s \in [1 .. n -> R]
      <4>1. \A i \in 1 .. n : s[i] \in R
        BY <2>3
      <4>2. s = [i \in 1 .. n |-> s[i]]
        BY <2>2
      <4> QED BY <4>1, <4>2
    <3>2. \A x \in R : \E i \in 1 .. n : s[i] = x
      BY <2>3
    <3> QED BY <2>5, <3>1, <3>2 DEF Bijection, Injection, IsInjective, Surjection
  <2>7. IsFiniteSet(R) /\ Cardinality(R) = n
    <3>1. ExistsBijection(1 .. n, R)
      BY <2>6 DEF ExistsBijection
    <3>2. IsFiniteSet(1 .. n) /\ Cardinality(1 .. n) = n
      BY FS_Interval
    <3> QED BY <3>1, <3>2, FS_Bijection
  <2>8. Ordered(R) \in Bijection(1 .. n, R)
    BY <2>4, <2>7, OrdersAll
  <2>9. PICK p : p = P[k] /\ p \in Bijection(1 .. n, R)
    BY <2>3, <2>8
  <2>10. /\ p \in [1 .. n -> R] /\ \A i, j \in 1 .. n : p[i] = p[j] => i = j
         /\ \A x \in R : \E i \in 1 .. n : p[i] = x
    BY <2>9 DEF Bijection, Injection, IsInjective, Surjection
  <2>11. p \in Seq(D) /\ Len(p) = n /\ DOMAIN p = 1 .. n
    <3>1. p \in [1 .. n -> D]
      BY <2>4, <2>10
    <3> QED BY <3>1
  <2>12. \A x : (\E i \in 1 .. n : p[i] = x) <=> (\E i \in 1 .. n : s[i] = x)
    <3>1. \A x : (\E i \in 1 .. n : s[i] = x) <=> x \in R
      BY <2>3
    <3>2. \A x : (\E i \in 1 .. n : p[i] = x) <=> x \in R
      BY <2>10
    <3> QED BY <3>1, <3>2
  <2> QED BY <2>1, <2>2, <2>9, <2>10, <2>11, <2>12
<1>2. DOMAIN P = Rank /\ DOMAIN st = Rank
  OBVIOUS
<1>3. P \in [Rank -> Seq(D)]
  <2>1. P = [k \in Rank |-> P[k]]
    OBVIOUS
  <2> HIDE DEF P
  <2> QED BY <1>1, <2>1
<1> HIDE DEF P
<1>4. Even(P)
  BY <1>1 DEF Full, Even
<1>5. \A x : In(P, x) <=> In(st, x)
  BY <1>1, <1>2 DEF In
<1>6. Once(P)
  <2> SUFFICES ASSUME NEW k \in Rank, NEW l \in Rank, NEW i \in DOMAIN P[k], NEW j \in DOMAIN P[l],
                      P[k][i] = P[l][j]
               PROVE  k = l /\ i = j
    BY <1>2 DEF Once
  <2>1. PICK p \in DOMAIN st[k] : st[k][p] = P[k][i]
    BY <1>1
  <2>2. PICK q \in DOMAIN st[l] : st[l][q] = P[k][i]
    <3>1. PICK x : x = P[k][i] /\ P[l][j] = x
      OBVIOUS
    <3>2. (\E q \in DOMAIN P[l] : P[l][q] = x) <=> (\E q \in DOMAIN st[l] : st[l][q] = x)
      BY <1>1
    <3>3. \E q \in DOMAIN P[l] : P[l][q] = x
      BY <3>1
    <3> QED BY <3>1, <3>2, <3>3
  <2>3. k = l
    BY <1>2, <2>1, <2>2 DEF Full, Once
  <2> QED BY <1>1, <2>3
<1> QED BY <1>3, <1>4, <1>5, <1>6 DEF Spreads, P

(* A swap changes who has what, and nothing else.                           *)
LEMMA SwappedIs ==
  ASSUME NEW D, NEW P, Spreads(P, D), NEW k \in Rank, NEW l \in Rank, k # l,
         NEW i \in DOMAIN P[k], NEW j \in DOMAIN P[l]
  PROVE  Spreads(Swapped(P, <<k, l, i, j>>), D)
<1> DEFINE w == <<k, l, i, j>>
           Q == Swapped(P, w)
           a == P[k][i]
           b == P[l][j]
<1>1. /\ P \in [Rank -> Seq(D)] /\ Even(P) /\ Once(P) /\ \A x \in D : In(P, x)
  BY DEF Spreads
<1>2. Q = [P EXCEPT ![k][i] = b, ![l][j] = a]
  <2>1. w[1] = k /\ w[2] = l /\ w[3] = i /\ w[4] = j
    OBVIOUS
  <2> HIDE DEF w
  <2> QED BY <2>1 DEF Swapped
<1>3. /\ P[k] \in Seq(D) /\ P[l] \in Seq(D) /\ a \in D /\ b \in D
  BY <1>1
<1>4. /\ DOMAIN Q = Rank /\ DOMAIN P = Rank
      /\ Q[k] = [P[k] EXCEPT ![i] = b] /\ Q[l] = [P[l] EXCEPT ![j] = a]
      /\ \A m \in Rank : m # k /\ m # l => Q[m] = P[m]
  <2> HIDE DEF Q, a, b
  <2> QED BY <1>1, <1>2
<1> HIDE DEF Q, a, b, w
<1>5. /\ Q[k] \in Seq(D) /\ DOMAIN Q[k] = DOMAIN P[k] /\ Len(Q[k]) = Len(P[k])
      /\ Q[l] \in Seq(D) /\ DOMAIN Q[l] = DOMAIN P[l] /\ Len(Q[l]) = Len(P[l])
  <2>1. ASSUME NEW s \in Seq(D), NEW h \in DOMAIN s, NEW x \in D
        PROVE  [s EXCEPT ![h] = x] \in Seq(D) /\ DOMAIN [s EXCEPT ![h] = x] = DOMAIN s /\ Len([s EXCEPT ![h] = x]) = Len(s)
    OBVIOUS
  <2> QED BY <1>3, <1>4, <2>1
<1>6. Q \in [Rank -> Seq(D)]
  <2>1. \A m \in Rank : Q[m] \in Seq(D)
    BY <1>1, <1>4, <1>5
  <2>2. Q = [m \in Rank |-> Q[m]]
    BY <1>1, <1>2
  <2> QED BY <2>1, <2>2
<1>7. Even(Q)
  <2>1. \A m \in Rank : Len(Q[m]) = Len(P[m])
    BY <1>4, <1>5
  <2> QED BY <1>1, <2>1 DEF Even
<1>8. \A m \in Rank : \A n \in DOMAIN Q[m] :
         /\ n \in DOMAIN P[m]
         /\ m = k /\ n = i => Q[m][n] = b
         /\ m = l /\ n = j => Q[m][n] = a
         /\ ~(m = k /\ n = i) /\ ~(m = l /\ n = j) => Q[m][n] = P[m][n]
  BY <1>4, <1>5
<1>9. \A m \in Rank : DOMAIN Q[m] = DOMAIN P[m]
  BY <1>4, <1>5
<1>10. At(P, k, i, a) /\ At(P, l, j, b) /\ At(Q, k, i, b) /\ At(Q, l, j, a)
  BY <1>4, <1>8, <1>9 DEF At, a, b
<1>11. \A m, n, y : At(Q, m, n, y) <=> \/ m = k /\ n = i /\ y = b
                                       \/ m = l /\ n = j /\ y = a
                                       \/ ~(m = k /\ n = i) /\ ~(m = l /\ n = j) /\ At(P, m, n, y)
  BY <1>4, <1>8, <1>9, <1>10 DEF At
<1>12. \A m, n, o, p, y : At(P, m, n, y) /\ At(P, o, p, y) => m = o /\ n = p
  BY <1>1, AtPlaces
<1>13. \A m, n, o, p, y : At(Q, m, n, y) /\ At(Q, o, p, y) => m = o /\ n = p
  <2> SUFFICES ASSUME NEW m, NEW n, NEW o, NEW p, NEW y, At(Q, m, n, y), At(Q, o, p, y)
               PROVE  m = o /\ n = p
    OBVIOUS
  <2>1. a # b
    BY <1>10, <1>12
  <2>2. CASE y = a
    BY <1>10, <1>11, <1>12, <2>1, <2>2
  <2>3. CASE y = b
    BY <1>10, <1>11, <1>12, <2>1, <2>3
  <2>4. CASE y # a /\ y # b
    BY <1>11, <1>12, <2>4
  <2> QED BY <2>2, <2>3, <2>4
<1>14. Once(Q)
  BY <1>13, AtPlaces
<1>15. \A x \in D : In(Q, x)
  <2> SUFFICES ASSUME NEW x \in D PROVE \E m, n : At(Q, m, n, x)
    BY AtPlaces
  <2>1. PICK m, n : At(P, m, n, x)
    BY <1>1, AtPlaces
  <2>2. CASE m = k /\ n = i
    BY <1>10, <1>12, <2>1, <2>2 DEF At
  <2>3. CASE m = l /\ n = j
    BY <1>10, <1>12, <2>1, <2>3 DEF At
  <2>4. CASE ~(m = k /\ n = i) /\ ~(m = l /\ n = j)
    BY <1>11, <2>1, <2>4
  <2> QED BY <2>2, <2>3, <2>4
<1> QED BY <1>6, <1>7, <1>14, <1>15 DEF Spreads, Q, w

(* Arithmetic and sets that proofs about a phase cite.                      *)
LEMMA Products == \A a, b \in Nat : a * b \in Nat
OBVIOUS
LEMMA Intervals == \A n \in Nat : 1 .. n \subseteq Int
OBVIOUS
LEMMA NoItems == DOMAIN <<>> = {} /\ \A S : <<>> \in Seq(S)
OBVIOUS

(* The group being distributed, and the weights of its micro batches.       *)
LEMMA CurrentMade ==
  ASSUME PlaceInv, GroupsInv, Separated
  PROVE  /\ \E B, r : Makes(Current, Modality[modality], B, r)
         /\ \E q \in Nat : Items = 1 .. (q * Workers) /\ Len(Current) = q * Workers
<1>1. modality \in {1, 2} /\ groups = [m \in {"mm", "text"} |-> Filled(Real(BinsOf(m)))]
  BY DEF GroupsInv
<1>2. PICK m \in {"mm", "text"} : m = Modality[modality]
  BY <1>1 DEF Modality
<1>3. Current = Filled(Real(BinsOf(m)))
  BY <1>1, <1>2 DEF Current
<1>4. PICK B, r : Makes(Current, m, B, r)
  BY <1>3, GroupMade DEF PlaceInv, BinsInv
<1>5. Current \in Seq(Micro) /\ \E q \in Nat : Len(Current) = q * Workers
  BY <1>4 DEF Makes
<1>6. DOMAIN Current = 1 .. Len(Current)
  BY <1>5
<1> QED BY <1>2, <1>4, <1>5, <1>6 DEF Items

(* Once weighed, the items of the group have weights.                       *)
LEMMA WeightsAre ==
  ASSUME PlaceInv, GroupsInv, WeightsInv, phase \in {"deal", "merge", "refine", "hand out"}
  PROVE  Weighted /\ Items \subseteq Int
<1>1. Separated
  BY DEF Separated
<1>2. PICK q \in Nat : Items = 1 .. (q * Workers)
  BY <1>1, CurrentMade
<1>3. PICK n \in Nat : n = q * Workers
  BY Products, RanksEnds
<1>5. Items = 1 .. n
  BY <1>2, <1>3
<1>4. weights \in [Items -> Nat]
  BY DEF WeightsInv, Items
<1>6. Items \subseteq Int
  BY <1>5, Intervals, Zenon
<1> QED BY <1>4, <1>5, <1>6 DEF Weighted

(* A micro batch costs a number.                                            *)
LEMMA MicroCostTyped ==
  ASSUME Measured(sample), NEW mb \in Micro
  PROVE  MicroCost(mb) \in Nat
<1>1. PICK b \in Seq(Id) : b = mb.bin
  BY DEF Micro
<1>2. DOMAIN Lens(b) = 1 .. Len(b) /\ IsFiniteSet(DOMAIN Lens(b)) /\ \A i \in DOMAIN Lens(b) : Lens(b)[i] \in Nat
  BY LensTyped
<1>3. PICK d \in Nat : d = Padding(b)
  <2>1. PICK n \in Nat : n = LengthOf(b)
    BY LengthIs, LengthTyped
  <2>2. PadTo \in Nat \ {0}
    BY PackingAssumption DEF PackingAssumption
  <2>3. PICK a \in Int : a = PadTo - (n % PadTo)
    BY <2>2
  <2>4. a % PadTo \in Nat
    BY <2>2
  <2> QED BY <2>1, <2>3, <2>4 DEF Padding
<1>4. MicroLens(mb) = [Lens(b) EXCEPT ![Len(b)] = @ + d]
  BY <1>1, <1>3 DEF MicroLens
<1>5. DOMAIN MicroLens(mb) = DOMAIN Lens(b) /\ \A i \in DOMAIN Lens(b) : MicroLens(mb)[i] \in Nat
  <2> DEFINE v == Lens(b)
  <2>1. MicroLens(mb) = [v EXCEPT ![Len(b)] = @ + d] /\ \A i \in DOMAIN v : v[i] \in Nat
    BY <1>2, <1>4
  <2> HIDE DEF v
  <2>2. DOMAIN MicroLens(mb) = DOMAIN v /\ \A i \in DOMAIN v : MicroLens(mb)[i] \in Nat
    BY <2>1
  <2> QED BY <2>2 DEF v
<1>6. Cost(MicroLens(mb)) \in Nat
  BY <1>2, <1>5, CostTyped
<1> QED BY <1>6 DEF MicroCost
-----------------------------------------------------------------------------
(* Before the groups are made nothing is on its way to the ranks.           *)
LEMMA Early ==
  ASSUME DealInv, ~Separated, ~Separated', ranks' = ranks, modality' = modality,
         phase \in {"prepare", "place", "split", "halve"}, phase' \in {"prepare", "place", "split", "halve"}
  PROVE  DealInv'
<1>1. modality = 1 /\ \A k \in Rank : ranks[k] = <<>>
  BY DEF DealInv, GroupsInv, RanksInv
<1>2. GroupsInv'
  BY <1>1 DEF GroupsInv
<1>3. WeightsInv' /\ StatesInv' /\ PartitionsInv'
  BY DEF WeightsInv, StatesInv, PartitionsInv
<1>4. RanksInv'
  <2>1. ranks' \in [Rank -> Seq(Micro)] /\ Even(ranks')
    BY DEF DealInv, RanksInv
  <2>2. \A k \in Rank : ranks'[k] = <<>> /\ DOMAIN ranks'[k] = {}
    BY <1>1
  <2> QED BY <2>1, <2>2 DEF RanksInv
<1>5. TrainsInv'
  <2>1. \A k \in Rank : DOMAIN ranks'[k] = {}
    BY <1>1
  <2>2. \A k, n, j, y : ~Trains(k, n, j, y)'
    BY <2>1 DEF Trains
  <2>3. Handed' = {}
    BY <1>1 DEF Handed
  <2> QED BY <2>2, <2>3 DEF TrainsInv
<1> QED BY <1>2, <1>3, <1>4, <1>5 DEF DealInv

(* While the ranks get nothing, what they have stays in order.              *)
Quiet == UNCHANGED <<sample, bins, modality, ranks>>

(* What they have stays in order then.                                      *)
LEMMA RanksKeep ==
  ASSUME DealInv, Quiet, phase = "done" <=> phase' = "done", Separated'
  PROVE  RanksInv' /\ TrainsInv'
<1>1. sample' = sample /\ bins' = bins /\ modality' = modality /\ ranks' = ranks
  BY DEF Quiet
<1>2. RanksInv'
  BY <1>1 DEF DealInv, RanksInv, HasImage
<1>3. Handed' = Handed
  BY <1>1 DEF Handed
<1>4. \A k, n, j, y : Trains(k, n, j, y)' <=> Trains(k, n, j, y)
  BY <1>1 DEF Trains
<1>5. \A b : GroupOf(b)' = GroupOf(b)
  BY <1>1 DEF GroupOf, HasImage
<1>6. TrainsInv'
  <2>1. \A k, n, j, l, p, i, y : Trains(k, n, j, y)' /\ Trains(l, p, i, y)' => k = l /\ n = p /\ j = i
    BY <1>4 DEF DealInv, TrainsInv
  <2>2. ASSUME NEW y
        PROVE  (\E k, n, j : Trains(k, n, j, y)') <=>
               \E h \in DOMAIN bins' : GroupOf(bins[h])' \in Handed' /\ \E j \in DOMAIN bins'[h] : bins'[h][j] = y
    BY <1>1, <1>3, <1>4, <1>5 DEF DealInv, TrainsInv
  <2> QED BY <2>1, <2>2 DEF TrainsInv
<1> QED BY <1>2, <1>6

(* And the groups stay what the bins make them.                             *)
LEMMA GroupsKeep ==
  ASSUME DealInv, Quiet, groups' = groups, Separated, Separated'
  PROVE  GroupsInv' /\ Current' = Current /\ Items' = Items
<1>1. sample' = sample /\ bins' = bins /\ modality' = modality
  BY DEF Quiet
<1>2. \A m \in {"mm", "text"} : Filled(Real(BinsOf(m)))' = Filled(Real(BinsOf(m)))
  BY <1>1 DEF Filled, Real, BinsOf, GroupOf, HasImage
<1>3. GroupsInv'
  BY <1>1, <1>2 DEF DealInv, GroupsInv
<1>4. Current' = Current
  BY <1>1 DEF Current
<1> QED BY <1>3, <1>4 DEF Items
-----------------------------------------------------------------------------
(* At the start there is nothing to hand out.                               *)
LEMMA DealStarts == PackInit => DealInv
<1> SUFFICES ASSUME PackInit PROVE DealInv
  OBVIOUS
<1> USE DEF PackInit
<1>1. GroupsInv /\ WeightsInv /\ StatesInv /\ PartitionsInv
  BY DEF GroupsInv, WeightsInv, StatesInv, PartitionsInv, Separated
<1>2. RanksInv
  <2>1. ranks \in [Rank -> Seq(Micro)]
    OBVIOUS
  <2>2. \A k \in Rank : ranks[k] = <<>> /\ DOMAIN ranks[k] = {}
    OBVIOUS
  <2> QED BY <2>1, <2>2 DEF RanksInv, Even
<1>3. TrainsInv
  <2>1. \A k, n, j, y : ~Trains(k, n, j, y)
    BY DEF Trains
  <2>2. DOMAIN bins = {}
    OBVIOUS
  <2> QED BY <2>1, <2>2 DEF TrainsInv
<1> QED BY <1>1, <1>2, <1>3 DEF DealInv

(* Separating by modality makes the groups.                                 *)
LEMMA DealSeparates == PlaceInv /\ DealInv /\ Separate => DealInv'
<1> SUFFICES ASSUME PlaceInv, DealInv, Separate PROVE DealInv'
  OBVIOUS
<1>1. /\ phase = "split" /\ phase' = "weigh" /\ Quiet
      /\ groups' = [m \in {"mm", "text"} |-> Filled(Real(BinsOf(m)))]
      /\ sample' = sample /\ bins' = bins /\ modality' = modality
  BY DEF Separate, Quiet
<1>2. RanksInv' /\ TrainsInv'
  BY <1>1, RanksKeep DEF Separated
<1>0. sample' = sample /\ bins' = bins
  BY <1>1
<1>3. \A m \in {"mm", "text"} : Filled(Real(BinsOf(m)))' = Filled(Real(BinsOf(m)))
  BY <1>0 DEF Filled, Real, BinsOf, GroupOf, HasImage
<1>4. GroupsInv'
  BY <1>1, <1>3 DEF DealInv, GroupsInv, Separated
<1>5. WeightsInv' /\ StatesInv' /\ PartitionsInv'
  BY <1>1 DEF WeightsInv, StatesInv, PartitionsInv
<1> QED BY <1>2, <1>4, <1>5 DEF DealInv

(* Weighing gives every micro batch a weight, or an empty group its end.    *)
LEMMA DealWeighs == PlaceInv /\ DealInv /\ Weigh => DealInv'
<1> SUFFICES ASSUME PlaceInv, DealInv, Weigh PROVE DealInv'
  OBVIOUS
<1>1. /\ phase = "weigh" /\ phase' \in {"deal", "hand out"} /\ Quiet /\ groups' = groups
      /\ weights' = [i \in DOMAIN Current |-> MicroCost(Current[i])]
      /\ phase' = "deal" => Current # <<>>
      /\ phase' = "hand out" => Current = <<>> /\ partitions' = [k \in Rank |-> <<>>]
  BY DEF Weigh, Quiet
<1>2. Separated /\ Separated'
  BY <1>1 DEF Separated
<1>3. GroupsInv' /\ Current' = Current /\ RanksInv' /\ TrainsInv'
  BY <1>1, <1>2, GroupsKeep, RanksKeep
<1>4. WeightsInv'
  <2>1. \A i \in DOMAIN Current : Current[i] \in Micro
    <3>1. Current \in Seq(Micro)
      BY <1>2, CurrentMade DEF DealInv, Makes
    <3> QED BY <3>1
  <2>2. \A i \in DOMAIN Current : MicroCost(Current[i]) \in Nat
    BY <2>1, PlaceMeasured, MicroCostTyped
  <2>3. weights' \in [DOMAIN Current -> Nat]
    BY <1>1, <2>2
  <2> QED BY <1>1, <1>3, <2>3 DEF WeightsInv
<1>5. StatesInv'
  BY <1>1 DEF StatesInv
<1>6. PartitionsInv'
  <2> SUFFICES ASSUME phase' = "hand out" PROVE Spreads(partitions', Items')
    BY <1>1 DEF PartitionsInv
  <2>1. partitions' = [k \in Rank |-> <<>>]
    BY <1>1
  <2>0. DOMAIN Current' = {}
    <3>1. Current' = <<>>
      BY <1>1, <1>3
    <3> QED BY <3>1, NoItems
  <2>2. \A k \in Rank : partitions'[k] = <<>> /\ DOMAIN partitions'[k] = {}
    <3>1. \A k \in Rank : partitions'[k] = <<>>
      BY <2>1
    <3> QED BY <3>1, NoItems
  <2>3. partitions' \in [Rank -> Seq({})] /\ DOMAIN partitions' = Rank
    <3>1. <<>> \in Seq({})
      BY NoItems
    <3> QED BY <2>1, <3>1
  <2> QED BY <2>0, <2>1, <2>2, <2>3 DEF Spreads, Even, Once, Items
<1> QED BY <1>3, <1>4, <1>5, <1>6 DEF DealInv

(* A list of one item.                                                      *)
LEMMA OneItem == \A S : \A x \in S : /\ <<x>> \in Seq(S) /\ Len(<<x>>) = 1 /\ DOMAIN <<x>> = {1}
                                      /\ <<x>>[1] = x /\ <<x>> # <<>>
OBVIOUS

(* The weights in order.                                                    *)
LEMMA AscendingIs ==
  ASSUME Weighted, NEW n \in Nat, Items = 1 .. n
  PROVE  /\ Len(weights) = n /\ Ascending \in [1 .. n -> 1 .. n]
         /\ \A p, r \in 1 .. n : Ascending[p] = Ascending[r] => p = r
         /\ \A x \in 1 .. n : \E p \in 1 .. n : Ascending[p] = x
<1> DEFINE key == [i \in DOMAIN weights |-> <<weights[i], i>>]
<1>1. weights \in [1 .. n -> Nat] /\ DOMAIN weights = 1 .. n
  BY DEF Weighted
<1>2. Len(weights) = n
  <2>1. weights \in Seq(Nat)
    BY <1>1
  <2> QED BY <1>1, <2>1
<1>3. IsFiniteSet(1 .. n) /\ Cardinality(1 .. n) = n
  BY FS_Interval
<1>4. \A i \in 1 .. n : key[i] \in Seq(Int) /\ key[i][2] = i
  <2> SUFFICES ASSUME NEW i \in 1 .. n PROVE key[i] \in Seq(Int) /\ key[i][2] = i
    OBVIOUS
  <2>1. key[i] = <<weights[i], i>> /\ weights[i] \in Int /\ i \in Int
    BY <1>1
  <2> HIDE DEF key
  <2> QED BY <2>1
<1>5. DOMAIN key = 1 .. n
  BY <1>1
<1> HIDE DEF key
<1>6. Keyed(key)
  BY <1>3, <1>4, <1>5 DEF Keyed
<1>7. SortBy(key) \in Bijection(1 .. n, 1 .. n)
  BY <1>3, <1>5, <1>6, SortsAll
<1>8. Ascending \in Bijection(1 .. n, 1 .. n)
  BY <1>7 DEF Ascending, key
<1> QED BY <1>2, <1>8 DEF Bijection, Injection, IsInjective, Surjection

(* Dealing the smallest weights out a row at a time.                        *)
Dealt(c) == [k \in Rank |-> <<Ascending[c * Workers + k]>>]

(* These rows are the first heap.                                           *)
LEMMA DealtIs ==
  ASSUME Weighted, NEW q \in Nat, q # 0, Items = 1 .. (q * Workers)
  PROVE  Heap({Sorted(Dealt(c)) : c \in 0 .. (Len(weights) \div Workers - 1)})
<1>1. PICK W \in Nat \ {0} : W = Workers /\ Rank = 1 .. W
  BY RanksEnds
<1>2. PICK n \in Nat : n = q * W
  BY <1>1, Products
<1>3. Items = 1 .. n
  BY <1>1, <1>2
<1>4. /\ Len(weights) = n /\ Ascending \in [1 .. n -> 1 .. n]
      /\ \A p, r \in 1 .. n : Ascending[p] = Ascending[r] => p = r
      /\ \A x \in 1 .. n : \E p \in 1 .. n : Ascending[p] = x
  BY <1>3, AscendingIs
<1>5. Len(weights) \div Workers = q
  BY <1>1, <1>2, <1>4, Rows
<1> DEFINE C == 0 .. (q - 1)
           S == {Sorted(Dealt(c)) : c \in C}
<1>6. /\ \A c, d \in C : \A k, l \in 1 .. W : c * W + k = d * W + l => c = d /\ k = l
      /\ \A c \in C : \A k \in 1 .. W : c * W + k \in 1 .. n
      /\ \A p \in 1 .. n : \E c \in C : \E k \in 1 .. W : p = c * W + k
  <2>1. Grid(q, W, n)
    BY <1>1, <1>2, Rows
  <2> QED BY <2>1 DEF Grid
<1>7. ASSUME NEW c \in C
      PROVE  /\ Dealt(c) \in [Rank -> Seq(Items)] /\ Full(Dealt(c))
             /\ \A x : In(Dealt(c), x) <=> \E k \in 1 .. W : x = Ascending[c * W + k]
  <2> DEFINE D == Dealt(c)
  <2>1. DOMAIN D = Rank /\ \A k \in Rank : D[k] = <<Ascending[c * W + k]>> /\ Ascending[c * W + k] \in 1 .. n
    BY <1>1, <1>4, <1>6 DEF Dealt
  <2>2. D = [k \in Rank |-> D[k]]
    BY DEF Dealt
  <2> HIDE DEF D, C
  <2>3. \A k \in Rank : /\ D[k] \in Seq(1 .. n) /\ Len(D[k]) = 1 /\ DOMAIN D[k] = {1}
                        /\ D[k][1] = Ascending[c * W + k] /\ D[k] # <<>>
    <3> SUFFICES ASSUME NEW k \in Rank
                 PROVE  /\ D[k] \in Seq(1 .. n) /\ Len(D[k]) = 1 /\ DOMAIN D[k] = {1}
                        /\ D[k][1] = Ascending[c * W + k] /\ D[k] # <<>>
      OBVIOUS
    <3>1. PICK x \in 1 .. n : x = Ascending[c * W + k] /\ D[k] = <<x>>
      BY <2>1
    <3> QED BY <3>1, OneItem
  <2>4. D \in [Rank -> Seq(Items)]
    BY <1>3, <2>2, <2>3
  <2>5. Even(D)
    BY <2>3 DEF Even
  <2>6. Once(D)
    <3> SUFFICES ASSUME NEW k \in Rank, NEW l \in Rank, Ascending[c * W + k] = Ascending[c * W + l]
                 PROVE  k = l
      BY <2>1, <2>3 DEF Once
    <3>1. c * W + k = c * W + l
      BY <1>1, <1>4, <1>6
    <3> QED BY <1>1, <1>6, <3>1
  <2>7. \A x : In(D, x) <=> \E k \in 1 .. W : x = Ascending[c * W + k]
    <3> SUFFICES ASSUME NEW x PROVE In(D, x) <=> \E k \in 1 .. W : x = Ascending[c * W + k]
      OBVIOUS
    <3>1. In(D, x) <=> \E k \in Rank : \E j \in DOMAIN D[k] : D[k][j] = x
      BY <2>1 DEF In
    <3>2. \A k \in Rank : (\E j \in DOMAIN D[k] : D[k][j] = x) <=> x = Ascending[c * W + k]
      BY <2>3
    <3> QED BY <1>1, <3>1, <3>2
  <2>8. Full(D)
    BY <2>3, <2>5, <2>6, RanksEnds DEF Full
  <2> QED BY <2>4, <2>7, <2>8 DEF D
<1>8. ASSUME NEW c \in C
      PROVE  /\ Sorted(Dealt(c)) \in [Rank -> Seq(Items)] /\ Full(Sorted(Dealt(c)))
             /\ \A x : In(Sorted(Dealt(c)), x) <=> \E k \in 1 .. W : x = Ascending[c * W + k]
  <2>1. PICK D : D = Dealt(c)
    OBVIOUS
  <2>2. /\ D \in [Rank -> Seq(Items)] /\ Full(D)
        /\ \A x : In(D, x) <=> \E k \in 1 .. W : x = Ascending[c * W + k]
    BY <1>7, <2>1
  <2>3. /\ Sorted(D) \in [Rank -> Seq(Items)] /\ Full(Sorted(D))
        /\ \A x : In(Sorted(D), x) <=> In(D, x)
    BY <2>2, SortedIs
  <2> QED BY <2>1, <2>2, <2>3
<1>9. IsFiniteSet(S) /\ S # {}
  <2>1. IsFiniteSet(C) /\ 0 \in C
    BY FS_Interval
  <2> DEFINE f == [c \in C |-> Sorted(Dealt(c))]
  <2>2. f \in Surjection(C, S)
    BY DEF Surjection
  <2> HIDE DEF f, C
  <2>3. IsFiniteSet(S)
    <3> HIDE DEF S
    <3> QED BY <2>1, <2>2, FS_Surjection
  <2> QED BY <2>1, <2>3
<1>10. Apart(S)
  <2> SUFFICES ASSUME NEW c \in C, NEW d \in C, NEW x, In(Sorted(Dealt(c)), x), In(Sorted(Dealt(d)), x)
               PROVE  Sorted(Dealt(c)) = Sorted(Dealt(d))
    BY DEF Apart
  <2>1. PICK k \in 1 .. W : x = Ascending[c * W + k]
    BY <1>8
  <2>2. PICK l \in 1 .. W : x = Ascending[d * W + l]
    BY <1>8
  <2>3. c * W + k = d * W + l
    BY <1>4, <1>6, <2>1, <2>2
  <2>4. c = d
    BY <1>6, <2>3
  <2> QED BY <2>4
<1>11. \A x \in Items : \E st \in S : In(st, x)
  <2> SUFFICES ASSUME NEW x \in 1 .. n PROVE \E st \in S : In(st, x)
    BY <1>3
  <2>1. PICK p \in 1 .. n : Ascending[p] = x
    BY <1>4
  <2>2. PICK c \in C, k \in 1 .. W : p = c * W + k
    BY <1>6
  <2>3. In(Sorted(Dealt(c)), x)
    BY <1>8, <2>1, <2>2
  <2> QED BY <2>3
<1>12. \A st \in S : st \in [Rank -> Seq(Items)] /\ Full(st)
  BY <1>8
<1>13. Heap(S)
  <2> HIDE DEF S
  <2> QED BY <1>9, <1>10, <1>11, <1>12 DEF Heap
<1> QED BY <1>5, <1>13

(* Merging two of its states keeps the heap a heap.                         *)
Joined(a, b) == [k \in Rank |-> a[k] \o b[OtherEnd(k)]]

(* The merged state takes the place of the two.                             *)
LEMMA HeapMerges ==
  ASSUME Weighted, NEW S, Heap(S), NEW a \in S, NEW b \in S, a # b
  PROVE  Heap((S \ {a, b}) \cup {Sorted(Joined(a, b))})
<1> DEFINE C == [k \in Rank |-> a[k] \o b[OtherEnd(k)]]
           T == (S \ {a, b}) \cup {Sorted(C)}
<1>1. /\ IsFiniteSet(S) /\ Apart(S)
      /\ \A st \in S : st \in [Rank -> Seq(Items)] /\ Full(st)
      /\ \A x \in Items : \E st \in S : In(st, x)
  BY DEF Heap
<1>2. /\ C \in [Rank -> Seq(Items)] /\ Full(C)
      /\ \A x : In(C, x) <=> In(a, x) \/ In(b, x)
  <2>1. \A x : ~(In(a, x) /\ In(b, x))
    BY <1>1 DEF Apart
  <2>2. PICK D : D = Items
    OBVIOUS
  <2>3. a \in [Rank -> Seq(D)] /\ b \in [Rank -> Seq(D)] /\ Full(a) /\ Full(b)
    BY <1>1, <2>2
  <2> QED BY <2>1, <2>2, <2>3, MergedIs
<1> HIDE DEF C
<1>3. PICK c : /\ c = Sorted(C) /\ c \in [Rank -> Seq(Items)] /\ Full(c)
               /\ \A x : In(c, x) <=> In(a, x) \/ In(b, x)
  <2>1. /\ Sorted(C) \in [Rank -> Seq(Items)] /\ Full(Sorted(C))
        /\ \A x : In(Sorted(C), x) <=> In(C, x)
    BY <1>2, SortedIs
  <2> QED BY <1>2, <2>1
<1>4. IsFiniteSet(T) /\ T # {}
  <2>1. IsFiniteSet(S \ {a, b})
    BY <1>1, FS_Subset
  <2> QED BY <2>1, FS_AddElement
<1>5. T = (S \ {a, b}) \cup {c}
  BY <1>3
<1> HIDE DEF T
<1>6. \A st \in T : st \in [Rank -> Seq(Items)] /\ Full(st)
  BY <1>1, <1>3, <1>5
<1>7. Apart(T)
  <2> SUFFICES ASSUME NEW st \in T, NEW su \in T, NEW x, In(st, x), In(su, x) PROVE st = su
    BY DEF Apart
  <2>1. \A u \in S : In(u, x) /\ (In(a, x) \/ In(b, x)) => u \in {a, b}
    BY <1>1 DEF Apart
  <2>2. st \in S /\ su \in S => st = su
    BY <1>1 DEF Apart
  <2> QED BY <1>3, <1>5, <2>1, <2>2
<1>8. \A x \in Items : \E st \in T : In(st, x)
  <2> SUFFICES ASSUME NEW x \in Items PROVE \E st \in T : In(st, x)
    OBVIOUS
  <2>1. PICK st \in S : In(st, x)
    BY <1>1
  <2> QED BY <1>3, <1>5, <2>1
<1>9. Heap(T)
  BY <1>4, <1>6, <1>7, <1>8 DEF Heap
<1>10. C = Joined(a, b)
  BY DEF C, Joined
<1> QED BY <1>9, <1>10 DEF T

(* A swap is between two ranks.                                             *)
LEMMA SwapsAre ==
  ASSUME NEW w \in Swaps
  PROVE  \E k, l \in Rank : k # l /\ \E i \in DOMAIN partitions[k], j \in DOMAIN partitions[l] : w = <<k, l, i, j>>
<1>1. PICK k \in Rank : w \in UNION {{<<k, l, i, j>> : i \in DOMAIN partitions[k], j \in DOMAIN partitions[l]} :
                                       l \in (k + 1) .. Workers}
  BY DEF Swaps
<1>2. PICK l \in (k + 1) .. Workers :
             w \in {<<k, l, i, j>> : i \in DOMAIN partitions[k], j \in DOMAIN partitions[l]}
  BY <1>1
<1>3. l \in Rank /\ k # l
  BY RanksEnds
<1> QED BY <1>2, <1>3

(* A score and a swap make a list of six.                                   *)
LEMMA TwoAndFour ==
  ASSUME NEW a \in Int, NEW b \in Int, NEW k \in Int, NEW l \in Int, NEW i \in Int, NEW j \in Int,
         NEW u, u = <<a, b>> \o <<k, l, i, j>>
  PROVE  u \in Seq(Int) /\ u[3] = k /\ u[4] = l /\ u[5] = i /\ u[6] = j
<1>1. PICK x : x = <<a, b>>
  OBVIOUS
<1>2. PICK y : y = <<k, l, i, j>>
  OBVIOUS
<1>3. x \in Seq(Int) /\ Len(x) = 2
  BY <1>1
<1>4. y \in Seq(Int) /\ Len(y) = 4 /\ y[1] = k /\ y[2] = l /\ y[3] = i /\ y[4] = j
  BY <1>2
<1>5. /\ x \o y \in Seq(Int)
      /\ \A m \in 1 .. (Len(x) + Len(y)) : (x \o y)[m] = IF m <= Len(x) THEN x[m] ELSE y[m - Len(x)]
  BY <1>3, <1>4, ConcatProperties
<1>7. \A m \in {1, 2, 3, 4} : (x \o y)[m + 2] = y[m]
  <2> SUFFICES ASSUME NEW m \in {1, 2, 3, 4} PROVE (x \o y)[m + 2] = y[m]
    OBVIOUS
  <2>1. m + 2 \in 1 .. (Len(x) + Len(y)) /\ ~(m + 2 <= Len(x)) /\ (m + 2) - Len(x) = m
    BY <1>3, <1>4
  <2> QED BY <1>5, <2>1
<1>6. (x \o y)[3] = y[1] /\ (x \o y)[4] = y[2] /\ (x \o y)[5] = y[3] /\ (x \o y)[6] = y[4]
  <2>1. 1 + 2 = 3 /\ 2 + 2 = 4 /\ 3 + 2 = 5 /\ 4 + 2 = 6
    OBVIOUS
  <2>2. (x \o y)[1 + 2] = y[1]
    BY <1>7
  <2>3. (x \o y)[2 + 2] = y[2]
    BY <1>7
  <2>4. (x \o y)[3 + 2] = y[3]
    BY <1>7
  <2>5. (x \o y)[4 + 2] = y[4]
    BY <1>7
  <2> QED BY <2>1, <2>2, <2>3, <2>4, <2>5, Zenon
<1> QED BY <1>1, <1>2, <1>4, <1>5, <1>6

(* The best of some swaps is one of them.                                   *)
LEMMA BestPicked ==
  ASSUME Weighted, Items \subseteq Int, Spreads(partitions, Items), NEW W, W \subseteq Swaps, W # {}
  PROVE  Best(W) \in W
<1> DEFINE P == partitions
           key == [w \in W |-> Score(Swapped(P, w)) \o w]
<1>1. P \in [Rank -> Seq(Items)] /\ Even(P)
  BY DEF Spreads
<1>2. PICK n \in Nat : \A k \in Rank : DOMAIN P[k] = 1 .. n
  <2>1. \A k \in Rank : DOMAIN P[k] = 1 .. Len(P[k]) /\ Len(P[k]) = Len(P[1]) /\ Len(P[k]) \in Nat
    <3> SUFFICES ASSUME NEW k \in Rank
                 PROVE  DOMAIN P[k] = 1 .. Len(P[k]) /\ Len(P[k]) = Len(P[1]) /\ Len(P[k]) \in Nat
      OBVIOUS
    <3>1. P[k] \in Seq(Items)
      BY <1>1
    <3> QED BY <1>1, <3>1, RanksEnds DEF Even
  <2> QED BY <2>1, RanksEnds
<1>3. ASSUME NEW w \in W
      PROVE  \E k, l, i, j \in Int : /\ w = <<k, l, i, j>> /\ Spreads(Swapped(P, w), Items)
                                     /\ k \in Rank /\ l \in Rank /\ i \in 1 .. n /\ j \in 1 .. n
  <2>1. PICK k \in Rank, l \in Rank : k # l /\ \E i \in DOMAIN P[k], j \in DOMAIN P[l] : w = <<k, l, i, j>>
    BY SwapsAre
  <2>2. PICK i \in DOMAIN P[k], j \in DOMAIN P[l] : w = <<k, l, i, j>>
    BY <2>1
  <2>3. Spreads(Swapped(P, w), Items)
    BY <2>1, <2>2, SwappedIs
  <2>4. k \in Int /\ l \in Int /\ i \in 1 .. n /\ j \in 1 .. n
    BY <1>2, RanksEnds
  <2> QED BY <2>2, <2>3, <2>4
<1>4. ASSUME NEW Q, Spreads(Q, Items)
      PROVE  \E a, b \in Int : Score(Q) = <<a, b>>
  <2>1. \A k \in Rank : Total(Q[k]) \in Nat
    BY <1>4, TotalTyped DEF Spreads
  <2>2. LoadsOf(Q) \in SUBSET Nat /\ LoadsOf(Q) # {}
    BY <2>1, RanksEnds DEF LoadsOf
  <2>3. IsFiniteSet(LoadsOf(Q))
    <3> DEFINE f == [k \in Rank |-> Total(Q[k])]
    <3>1. f \in Surjection(Rank, LoadsOf(Q))
      BY DEF Surjection, LoadsOf
    <3>2. IsFiniteSet(Rank)
      BY RanksEnds, FS_Interval
    <3> HIDE DEF f
    <3> QED BY <3>1, <3>2, FS_Surjection
  <2>4. Max(LoadsOf(Q)) \in Nat /\ Min(LoadsOf(Q)) \in Nat
    BY <2>2, <2>3, MaxPicked
  <2>5. PICK a \in Int, b \in Int : a = Max(LoadsOf(Q)) /\ b = Max(LoadsOf(Q)) - Min(LoadsOf(Q))
    BY <2>4
  <2> QED BY <2>5 DEF Score
<1>5. ASSUME NEW w \in W
      PROVE  /\ key[w] \in Seq(Int)
             /\ w = <<key[w][3], key[w][4], key[w][5], key[w][6]>>
  <2>1. PICK k \in Int, l \in Int, i \in Int, j \in Int : w = <<k, l, i, j>> /\ Spreads(Swapped(P, w), Items)
    BY <1>3
  <2>2. PICK a \in Int, b \in Int : Score(Swapped(P, w)) = <<a, b>>
    BY <1>4, <2>1
  <2>3. key[w] = <<a, b>> \o <<k, l, i, j>>
    BY <2>1, <2>2
  <2>4. PICK u : /\ u = <<a, b>> \o <<k, l, i, j>> /\ u \in Seq(Int)
                 /\ u[3] = k /\ u[4] = l /\ u[5] = i /\ u[6] = j
    <3>1. PICK u : u = <<a, b>> \o <<k, l, i, j>>
      OBVIOUS
    <3>2. u \in Seq(Int) /\ u[3] = k /\ u[4] = l /\ u[5] = i /\ u[6] = j
      BY <3>1, TwoAndFour
    <3> QED BY <3>1, <3>2
  <2>5. key[w] = u
    BY <2>3, <2>4
  <2> HIDE DEF key
  <2>6. key[w] \in Seq(Int) /\ key[w][3] = k /\ key[w][4] = l /\ key[w][5] = i /\ key[w][6] = j
    BY <2>4, <2>5
  <2> QED BY <2>1, <2>6
<1>6. DOMAIN key = W
  OBVIOUS
<1> HIDE DEF key
<1>7. \A v, w \in W : key[v] = key[w] => v = w
  <2> SUFFICES ASSUME NEW v \in W, NEW w \in W, key[v] = key[w] PROVE v = w
    OBVIOUS
  <2>1. /\ v = <<key[v][3], key[v][4], key[v][5], key[v][6]>>
        /\ w = <<key[w][3], key[w][4], key[w][5], key[w][6]>>
    BY <1>5
  <2> QED BY <2>1
<1>8. IsFiniteSet(W)
  <2> DEFINE X == (Rank \X Rank) \X ((1 .. n) \X (1 .. n))
             Y == {<<p[1][1], p[1][2], p[2][1], p[2][2]>> : p \in X}
             f == [p \in X |-> <<p[1][1], p[1][2], p[2][1], p[2][2]>>]
  <2>1. IsFiniteSet(X)
    <3>1. IsFiniteSet(Rank) /\ IsFiniteSet(1 .. n)
      BY RanksEnds, FS_Interval
    <3>2. IsFiniteSet(Rank \X Rank) /\ IsFiniteSet((1 .. n) \X (1 .. n))
      BY <3>1, FS_Product
    <3> QED BY <3>2, FS_Product
  <2>2. f \in Surjection(X, Y)
    BY DEF Surjection
  <2>3. IsFiniteSet(Y)
    <3> HIDE DEF f, X, Y
    <3> QED BY <2>1, <2>2, FS_Surjection
  <2>4. W \subseteq Y
    <3> SUFFICES ASSUME NEW w \in W PROVE w \in Y
      OBVIOUS
    <3>1. PICK k \in Rank, l \in Rank, i \in 1 .. n, j \in 1 .. n : w = <<k, l, i, j>>
      BY <1>3
    <3>2. <<<<k, l>>, <<i, j>>>> \in X
      OBVIOUS
    <3>3. w = <<<<<<k, l>>, <<i, j>>>>[1][1], <<<<k, l>>, <<i, j>>>>[1][2],
                <<<<k, l>>, <<i, j>>>>[2][1], <<<<k, l>>, <<i, j>>>>[2][2]>>
      BY <3>1
    <3> HIDE DEF X
    <3> QED BY <3>2, <3>3
  <2> HIDE DEF Y
  <2> QED BY <2>3, <2>4, FS_Subset
<1>9. Keyed(key)
  BY <1>5, <1>6, <1>7, <1>8 DEF Keyed
<1>10. Least(key) \in W
  BY <1>6, <1>9, SortPicks
<1> QED BY <1>10 DEF Best, key
-----------------------------------------------------------------------------
(* The steps that turn weights into partitions.                             *)
LEMMA DealDeals == PlaceInv /\ DealInv /\ Deal => DealInv'
<1> SUFFICES ASSUME PlaceInv, DealInv, Deal PROVE DealInv'
  OBVIOUS
<1>1. /\ phase = "deal" /\ phase' = "merge" /\ Quiet /\ groups' = groups /\ weights' = weights
      /\ states' = {Sorted(Dealt(c)) : c \in 0 .. (Len(weights) \div Workers - 1)}
  BY DEF Deal, Dealt, Quiet
<1>2. Separated /\ Separated'
  BY <1>1 DEF Separated
<1>3. GroupsInv' /\ Current' = Current /\ Items' = Items /\ RanksInv' /\ TrainsInv'
  BY <1>1, <1>2, GroupsKeep, RanksKeep
<1>4. GroupsInv /\ WeightsInv
  BY DEF DealInv
<1>5. Weighted
  BY <1>1, <1>4, WeightsAre
<1>6. WeightsInv'
  BY <1>1, <1>3, <1>4 DEF WeightsInv
<1>7. Heap(states')
  <2>1. PICK q \in Nat : Items = 1 .. (q * Workers) /\ Len(Current) = q * Workers
    BY <1>2, <1>4, CurrentMade
  <2>2. q # 0
    <3>1. Current # <<>> /\ \E B, r : Makes(Current, Modality[modality], B, r)
      BY <1>1, <1>2, <1>4, CurrentMade DEF WeightsInv
    <3>2. Current \in Seq(Micro)
      BY <3>1 DEF Makes
    <3>3. Len(Current) # 0
      BY <3>1, <3>2
    <3>4. 0 * Workers = 0
      BY RanksEnds
    <3> QED BY <2>1, <3>3, <3>4
  <2> QED BY <1>1, <1>5, <2>1, <2>2, DealtIs
<1>8. StatesInv'
  <2>1. Heap(states)'
    BY <1>3, <1>7 DEF Heap
  <2> QED BY <2>1 DEF StatesInv
<1>9. PartitionsInv'
  BY <1>1 DEF PartitionsInv
<1> QED BY <1>3, <1>6, <1>8, <1>9 DEF DealInv

(* Merging ends with everything spread evenly.                              *)
LEMMA DealMerges == PlaceInv /\ DealInv /\ Merge => DealInv'
<1> SUFFICES ASSUME PlaceInv, DealInv, Merge PROVE DealInv'
  OBVIOUS
<1>1. phase = "merge" /\ phase' \in {"merge", "refine"} /\ Quiet /\ groups' = groups /\ weights' = weights
  BY DEF Merge, Quiet
<1>2. Separated /\ Separated'
  BY <1>1 DEF Separated
<1>3. GroupsInv' /\ Current' = Current /\ Items' = Items /\ RanksInv' /\ TrainsInv'
  BY <1>1, <1>2, GroupsKeep, RanksKeep
<1>4. GroupsInv /\ WeightsInv /\ Heap(states)
  BY <1>1 DEF DealInv, StatesInv
<1>5. Weighted /\ Items \subseteq Int
  BY <1>1, <1>4, WeightsAre
<1>6. WeightsInv'
  BY <1>1, <1>3, <1>4 DEF WeightsInv
<1>7. /\ IsFiniteSet(states) /\ states # {} /\ Apart(states)
      /\ \A st \in states : st \in [Rank -> Seq(Items)] /\ Full(st)
      /\ \A x \in Items : \E st \in states : In(st, x)
  BY <1>4 DEF Heap
<1>8. CASE Cardinality(states) > 1
  <2>1. PICK a \in states : a = First(states)
    BY <1>5, <1>7, FirstPicked
  <2>2. PICK S : S = states \ {a}
    OBVIOUS
  <2>3. IsFiniteSet(S) /\ S # {} /\ Apart(S) /\ \A st \in S : st \in [Rank -> Seq(Items)] /\ Full(st)
    <3>1. IsFiniteSet(S) /\ Cardinality(S) = Cardinality(states) - 1 /\ Cardinality(states) \in Nat
      BY <1>7, <2>2, FS_RemoveElement, FS_CardinalityType
    <3>2. S # {}
      BY <1>8, <3>1, FS_EmptySet
    <3> QED BY <1>7, <2>2, <3>1, <3>2 DEF Apart
  <2>4. PICK b \in S : b = First(S)
    BY <1>5, <2>3, FirstPicked
  <2>5. /\ states' = (states \ {a, b}) \cup {Sorted(Joined(a, b))}
        /\ phase' = "merge"
    BY <1>1, <1>8, <2>1, <2>2, <2>4 DEF Merge, Joined
  <2>6. Heap(states')
    <3>1. b \in states /\ a # b
      BY <2>2, <2>4
    <3>2. Heap((states \ {a, b}) \cup {Sorted(Joined(a, b))})
      BY <1>4, <1>5, <3>1, HeapMerges
    <3> QED BY <2>5, <3>2
  <2>7. StatesInv'
    <3>1. Heap(states)'
      BY <1>3, <2>6 DEF Heap
    <3> QED BY <3>1 DEF StatesInv
  <2>8. PartitionsInv'
    BY <2>5 DEF PartitionsInv
  <2> QED BY <1>3, <1>6, <2>7, <2>8 DEF DealInv
<1>9. CASE ~(Cardinality(states) > 1)
  <2>1. PICK st \in states : st = CHOOSE su \in states : TRUE
    BY <1>7
  <2>2. states = {st}
    <3>1. Cardinality(states) = 1
      BY <1>7, <1>9, FS_CardinalityType, FS_EmptySet
    <3>2. \E s : states = {s}
      BY <1>7, <3>1, FS_Singleton
    <3> QED BY <3>2
  <2>3. phase' = "refine" /\ partitions' = [k \in Rank |-> Ordered(Range(st[k]))]
    BY <1>9, <2>1 DEF Merge
  <2>4. Spreads(partitions', Items)
    <3>1. PICK D \in SUBSET Int : D = Items
      BY <1>5
    <3>2. st \in [Rank -> Seq(D)] /\ Full(st) /\ \A x \in D : In(st, x)
      BY <1>7, <2>2, <3>1
    <3>3. Spreads([k \in Rank |-> Ordered(Range(st[k]))], D)
      BY <3>2, OrderedIs
    <3> QED BY <2>3, <3>1, <3>3
  <2>5. PartitionsInv'
    BY <1>3, <2>4 DEF PartitionsInv
  <2>6. StatesInv'
    BY <2>3 DEF StatesInv
  <2> QED BY <1>3, <1>6, <2>5, <2>6 DEF DealInv
<1> QED BY <1>8, <1>9

(* Swapping keeps it so.                                                    *)
LEMMA DealRefines == PlaceInv /\ DealInv /\ Refine => DealInv'
<1> SUFFICES ASSUME PlaceInv, DealInv, Refine PROVE DealInv'
  OBVIOUS
<1>1. phase = "refine" /\ phase' \in {"refine", "hand out"} /\ Quiet /\ groups' = groups /\ weights' = weights
  BY DEF Refine, Quiet
<1>2. Separated /\ Separated'
  BY <1>1 DEF Separated
<1>3. GroupsInv' /\ Current' = Current /\ Items' = Items /\ RanksInv' /\ TrainsInv'
  BY <1>1, <1>2, GroupsKeep, RanksKeep
<1>4. GroupsInv /\ WeightsInv /\ Spreads(partitions, Items)
  BY <1>1 DEF DealInv, PartitionsInv
<1>5. Weighted /\ Items \subseteq Int
  BY <1>1, <1>4, WeightsAre
<1>6. WeightsInv'
  BY <1>1, <1>3, <1>4 DEF WeightsInv
<1>7. StatesInv'
  BY <1>1 DEF StatesInv
<1>8. Spreads(partitions', Items)
  <2>1. CASE Improving = {}
    <3>1. partitions' = partitions
      BY <2>1 DEF Refine
    <3> QED BY <1>4, <3>1
  <2>2. CASE Improving # {}
    <3>1. PICK w \in Swaps : w = Best(Improving)
      <4>1. Improving \subseteq Swaps
        BY DEF Improving
      <4> QED BY <1>4, <1>5, <2>2, <4>1, BestPicked
    <3>2. partitions' = Swapped(partitions, w)
      BY <2>2, <3>1 DEF Refine
    <3>3. PICK k \in Rank, l \in Rank : k # l /\ \E i \in DOMAIN partitions[k], j \in DOMAIN partitions[l] : w = <<k, l, i, j>>
      BY SwapsAre
    <3>4. Spreads(Swapped(partitions, w), Items)
      BY <1>4, <3>3, SwappedIs
    <3> QED BY <3>2, <3>4
  <2> QED BY <2>1, <2>2
<1>9. PartitionsInv'
  BY <1>3, <1>8 DEF PartitionsInv
<1> QED BY <1>3, <1>6, <1>7, <1>9 DEF DealInv

(* What the ranks have once a partition P of the micro batches F is handed  *)
(* out: what they had, and then their part of it.                           *)
Handout(R, F, P) == [k \in Rank |-> R[k] \o [i \in DOMAIN P[k] |-> F[P[k][i]]]]
HandedTo(R, S, F, P, a, b) ==
  \A k \in Rank :
    /\ DOMAIN R[k] = 1 .. a /\ DOMAIN P[k] = 1 .. b /\ DOMAIN S[k] = 1 .. (a + b)
    /\ \A i \in 1 .. a : S[k][i] = R[k][i]
    /\ \A i \in 1 .. b : P[k][i] \in DOMAIN F /\ S[k][a + i] = F[P[k][i]]
    /\ \A n \in DOMAIN S[k] : n \in 1 .. a \/ \E i \in 1 .. b : n = a + i

(* So every rank has as much as the others still.                           *)
LEMMA HandoutIs ==
  ASSUME NEW R \in [Rank -> Seq(Micro)], Even(R), NEW F \in Seq(Micro), NEW P, Spreads(P, DOMAIN F)
  PROVE  /\ Handout(R, F, P) \in [Rank -> Seq(Micro)] /\ Even(Handout(R, F, P))
         /\ \E a, b \in Nat : HandedTo(R, Handout(R, F, P), F, P, a, b)
<1> DEFINE S == Handout(R, F, P)
<1>1. PICK a \in Nat : \A k \in Rank : R[k] \in Seq(Micro) /\ Len(R[k]) = a /\ DOMAIN R[k] = 1 .. a
  <2>1. \A k \in Rank : R[k] \in Seq(Micro) /\ Len(R[k]) = Len(R[1]) /\ Len(R[k]) \in Nat
    BY RanksEnds DEF Even
  <2> QED BY <2>1, RanksEnds
<1>2. PICK b \in Nat : \A k \in Rank : P[k] \in Seq(DOMAIN F) /\ Len(P[k]) = b /\ DOMAIN P[k] = 1 .. b
  <2>1. P \in [Rank -> Seq(DOMAIN F)] /\ Even(P)
    BY DEF Spreads
  <2>2. \A k \in Rank : P[k] \in Seq(DOMAIN F) /\ Len(P[k]) = Len(P[1]) /\ Len(P[k]) \in Nat
    <3> SUFFICES ASSUME NEW k \in Rank
                 PROVE  P[k] \in Seq(DOMAIN F) /\ Len(P[k]) = Len(P[1]) /\ Len(P[k]) \in Nat
      OBVIOUS
    <3>1. P[k] \in Seq(DOMAIN F)
      BY <2>1
    <3> QED BY <2>1, <3>1, RanksEnds DEF Even
  <2>3. PICK b \in Nat : b = Len(P[1])
    BY <2>2, RanksEnds
  <2>4. \A k \in Rank : P[k] \in Seq(DOMAIN F) /\ Len(P[k]) = b
    BY <2>2, <2>3
  <2>5. ASSUME NEW k \in Rank PROVE DOMAIN P[k] = 1 .. b
    <3>1. P[k] \in Seq(DOMAIN F) /\ Len(P[k]) = b
      BY <2>4
    <3> QED BY <3>1
  <2> QED BY <2>4, <2>5
<1>3. ASSUME NEW k \in Rank
      PROVE  /\ S[k] \in Seq(Micro) /\ Len(S[k]) = a + b /\ DOMAIN S[k] = 1 .. (a + b)
             /\ \A i \in 1 .. a : S[k][i] = R[k][i]
             /\ \A i \in 1 .. b : P[k][i] \in DOMAIN F /\ S[k][a + i] = F[P[k][i]]
  <2>1. PICK x : x = [i \in DOMAIN P[k] |-> F[P[k][i]]]
    OBVIOUS
  <2>2. \A i \in 1 .. b : P[k][i] \in DOMAIN F
    BY <1>2
  <2>3. \A n \in DOMAIN F : F[n] \in Micro
    OBVIOUS
  <2>4. x \in [1 .. b -> Micro] /\ \A i \in 1 .. b : x[i] = F[P[k][i]]
    BY <1>2, <2>1, <2>2, <2>3
  <2>5. x \in Seq(Micro) /\ Len(x) = b
    BY <2>4
  <2>6. S[k] = R[k] \o x
    BY <2>1 DEF Handout
  <2>7. /\ R[k] \o x \in Seq(Micro) /\ Len(R[k] \o x) = Len(R[k]) + Len(x)
        /\ \A i \in 1 .. (Len(R[k]) + Len(x)) :
             (R[k] \o x)[i] = IF i <= Len(R[k]) THEN R[k][i] ELSE x[i - Len(R[k])]
    BY <1>1, <2>5, ConcatProperties
  <2> HIDE DEF S
  <2>8. S[k] \in Seq(Micro) /\ Len(S[k]) = a + b /\ DOMAIN S[k] = 1 .. (a + b)
    <3>1. PICK z : z = R[k] \o x
      OBVIOUS
    <3>2. z \in Seq(Micro) /\ Len(z) = a + b
      BY <1>1, <2>5, <2>7, <3>1
    <3>3. DOMAIN z = 1 .. (a + b)
      BY <3>2
    <3> QED BY <2>6, <3>1, <3>2, <3>3
  <2>9. \A i \in 1 .. (a + b) : S[k][i] = IF i <= a THEN R[k][i] ELSE x[i - a]
    BY <1>1, <2>5, <2>6, <2>7
  <2>10. \A i \in 1 .. a : i \in 1 .. (a + b) /\ i <= a
    OBVIOUS
  <2>11. \A i \in 1 .. b : a + i \in 1 .. (a + b) /\ ~(a + i <= a) /\ (a + i) - a = i
    OBVIOUS
  <2>12. \A i \in 1 .. b : S[k][a + i] = x[i]
    BY <2>9, <2>11
  <2> QED BY <2>2, <2>4, <2>8, <2>9, <2>10, <2>12
<1>4. \A n \in 1 .. (a + b) : n \in 1 .. a \/ \E i \in 1 .. b : n = a + i
  <2> SUFFICES ASSUME NEW n \in 1 .. (a + b), n \notin 1 .. a PROVE \E i \in 1 .. b : n = a + i
    OBVIOUS
  <2>1. n - a \in 1 .. b /\ n = a + (n - a)
    OBVIOUS
  <2> QED BY <2>1
<1>5. S \in [Rank -> Seq(Micro)]
  <2>1. S = [k \in Rank |-> S[k]]
    BY DEF Handout
  <2> HIDE DEF S
  <2> QED BY <1>3, <2>1
<1>6. Even(S)
  BY <1>3 DEF Even
<1>7. HandedTo(R, S, F, P, a, b)
  BY <1>1, <1>2, <1>3, <1>4 DEF HandedTo
<1> QED BY <1>5, <1>6, <1>7
-----------------------------------------------------------------------------
(* The places with loss that handing out a group adds.                      *)
Fresh(F, P, a, b, k, n, j, y) ==
  /\ k \in Rank
  /\ \E i \in 1 .. b : /\ n = a + i
                       /\ ~F[P[k][i]].dummy
                       /\ j \in DOMAIN F[P[k][i]].bin /\ F[P[k][i]].bin[j] = y

(* They are what the ranks gain.                                            *)
LEMMA TrainsMore ==
  ASSUME NEW F, NEW P, NEW a \in Nat, NEW b \in Nat,
         HandedTo(ranks, ranks', F, P, a, b), NEW k, NEW n, NEW j, NEW y
  PROVE  Trains(k, n, j, y)' <=> Trains(k, n, j, y) \/ Fresh(F, P, a, b, k, n, j, y)
<1>1. ASSUME NEW i \in 1 .. a, n = i PROVE n \in 1 .. (a + b) /\ ~\E m \in 1 .. b : n = a + m
  BY <1>1
<1>2. \A i \in 1 .. b : a + i \in 1 .. (a + b) /\ a + i \notin 1 .. a
  OBVIOUS
<1>3. CASE k \notin Rank
  BY <1>3 DEF Trains, Fresh
<1>4. CASE k \in Rank
  <2>1. /\ DOMAIN ranks[k] = 1 .. a /\ DOMAIN ranks'[k] = 1 .. (a + b)
        /\ \A i \in 1 .. a : ranks'[k][i] = ranks[k][i]
        /\ \A i \in 1 .. b : ranks'[k][a + i] = F[P[k][i]]
        /\ \A m \in 1 .. (a + b) : m \in 1 .. a \/ \E i \in 1 .. b : m = a + i
    BY <1>4 DEF HandedTo
  <2>2. CASE n \in 1 .. a
    <3>1. n \in DOMAIN ranks[k] /\ n \in DOMAIN ranks'[k] /\ ranks'[k][n] = ranks[k][n]
      BY <1>1, <2>1, <2>2
    <3>2. ~Fresh(F, P, a, b, k, n, j, y)
      BY <1>2, <2>2 DEF Fresh
    <3> QED BY <3>1, <3>2 DEF Trains
  <2>3. CASE n \notin 1 .. a
    <3>1. ~Trains(k, n, j, y)
      BY <2>1, <2>3 DEF Trains
    <3>2. ASSUME Trains(k, n, j, y)' PROVE Fresh(F, P, a, b, k, n, j, y)
      <4>1. n \in DOMAIN ranks'[k]
        BY <3>2 DEF Trains
      <4>2. PICK i \in 1 .. b : n = a + i
        BY <2>1, <2>3, <4>1
      <4>3. ranks'[k][n] = F[P[k][i]]
        BY <2>1, <4>2
      <4> QED BY <3>2, <4>2, <4>3 DEF Trains, Fresh
    <3>3. ASSUME Fresh(F, P, a, b, k, n, j, y) PROVE Trains(k, n, j, y)'
      <4>1. PICK i \in 1 .. b : /\ n = a + i /\ ~F[P[k][i]].dummy
                                /\ j \in DOMAIN F[P[k][i]].bin /\ F[P[k][i]].bin[j] = y
        BY <3>3 DEF Fresh
      <4>2. n \in DOMAIN ranks'[k] /\ ranks'[k][n] = F[P[k][i]]
        BY <1>2, <2>1, <4>1
      <4> QED BY <1>4, <4>1, <4>2 DEF Trains
    <3> QED BY <3>1, <3>2, <3>3
  <2> QED BY <2>2, <2>3
<1> QED BY <1>3, <1>4

(* Such a place is one of a bin of the group, and the only one with it.     *)
LEMMA FreshIs ==
  ASSUME NEW F, NEW P, NEW B, NEW r, NEW m, Makes(F, m, B, r), NEW a, NEW b, Spreads(P, DOMAIN F),
         NEW R, NEW S, HandedTo(R, S, F, P, a, b), NEW k, NEW n, NEW j, NEW y,
         Fresh(F, P, a, b, k, n, j, y)
  PROVE  \E i \in 1 .. b, x \in 1 .. r :
           n = a + i /\ At(P, k, i, x) /\ At(bins, B[x], j, y) /\ B[x] \in OfGroup(m)
<1>1. PICK i \in 1 .. b : /\ k \in Rank /\ n = a + i /\ ~F[P[k][i]].dummy
                          /\ j \in DOMAIN F[P[k][i]].bin /\ F[P[k][i]].bin[j] = y
  BY DEF Fresh
<1>2. PICK x \in DOMAIN F : x = P[k][i] /\ i \in DOMAIN P[k]
  BY <1>1 DEF HandedTo
<1>3. /\ r \in Nat /\ B \in [1 .. r -> OfGroup(m)] /\ F \in Seq(Micro)
      /\ ~F[x].dummy <=> x <= r
      /\ x <= r => F[x].bin = bins[B[x]]
  BY <1>2 DEF Makes, Bijection, Injection
<1>4. x \in 1 .. r
  <2>1. x \in Nat \ {0}
    BY <1>3
  <2> QED BY <1>1, <1>2, <1>3, <2>1
<1>5. B[x] \in OfGroup(m) /\ B[x] \in DOMAIN bins /\ F[x].bin = bins[B[x]]
  BY <1>3, <1>4 DEF OfGroup
<1>6. At(bins, B[x], j, y)
  BY <1>1, <1>2, <1>5 DEF At
<1>7. At(P, k, i, x)
  BY <1>1, <1>2 DEF At, Spreads
<1> QED BY <1>1, <1>4, <1>5, <1>6, <1>7

(* No two of them are of one sample.                                        *)
LEMMA FreshOnce ==
  ASSUME NEW F, NEW P, NEW B, NEW r, NEW m, Makes(F, m, B, r), NEW a, NEW b, Spreads(P, DOMAIN F),
         Once(bins), NEW R, NEW S, HandedTo(R, S, F, P, a, b),
         NEW k, NEW n, NEW j, NEW l, NEW p, NEW q, NEW y,
         Fresh(F, P, a, b, k, n, j, y), Fresh(F, P, a, b, l, p, q, y)
  PROVE  k = l /\ n = p /\ j = q
<1>1. PICK i \in 1 .. b, x \in 1 .. r : n = a + i /\ At(P, k, i, x) /\ At(bins, B[x], j, y)
  BY FreshIs
<1>2. PICK g \in 1 .. b, z \in 1 .. r : p = a + g /\ At(P, l, g, z) /\ At(bins, B[z], q, y)
  BY FreshIs
<1>3. B[x] = B[z] /\ j = q
  BY <1>1, <1>2 DEF Once, At
<1>4. x = z
  BY <1>3 DEF Makes, Bijection, Injection, IsInjective
<1>5. k = l /\ i = g
  <2>1. Once(P)
    BY DEF Spreads
  <2> QED BY <1>1, <1>2, <1>4, <2>1 DEF Once, At
<1> QED BY <1>1, <1>2, <1>3, <1>5

(* And every place of a bin of the group is one.                            *)
LEMMA FreshAll ==
  ASSUME NEW F, NEW P, NEW B, NEW r, NEW m, Makes(F, m, B, r), NEW a, NEW b, Spreads(P, DOMAIN F),
         NEW R, NEW S, HandedTo(R, S, F, P, a, b), NEW h \in OfGroup(m), NEW j \in DOMAIN bins[h]
  PROVE  \E k, n : Fresh(F, P, a, b, k, n, j, bins[h][j])
<1>1. PICK x \in 1 .. r : B[x] = h
  BY DEF Makes, Bijection, Surjection
<1>2. x \in DOMAIN F /\ ~F[x].dummy /\ F[x].bin = bins[h]
  <2>1. r \in Nat /\ F \in Seq(Micro) /\ r <= Len(F)
    BY DEF Makes
  <2>2. x \in DOMAIN F /\ x <= r
    BY <2>1
  <2> QED BY <1>1, <2>2 DEF Makes
<1>3. PICK k \in DOMAIN P : \E i \in DOMAIN P[k] : P[k][i] = x
  BY <1>2 DEF Spreads, In
<1>4. k \in Rank
  BY <1>3 DEF Spreads
<1>5. PICK i \in 1 .. b : P[k][i] = x
  BY <1>3, <1>4 DEF HandedTo
<1>6. Fresh(F, P, a, b, k, a + i, j, bins[h][j])
  BY <1>2, <1>4, <1>5 DEF Fresh
<1> QED BY <1>6
-----------------------------------------------------------------------------
(* The two rounds of distribution.                                          *)
LEMMA OneAndTwo == 2 # 1
OBVIOUS

(* Handing out takes the next modality.                                     *)
LEMMA HandedOut ==
  ASSUME GroupsInv, HandOut
  PROVE  /\ Modality[modality] \in {"mm", "text"} /\ Modality[modality] \notin Handed
         /\ Handed' = Handed \cup {Modality[modality]}
<1>1. phase = "hand out" /\ modality \in {1, 2}
  BY DEF GroupsInv, HandOut
<1>2. CASE modality = 1
  <2>1. modality' = 2 /\ phase' = "weigh"
    BY <1>2 DEF HandOut
  <2>2. Handed = {}
    <3>1. modality # 2 /\ phase # "done"
      BY <1>1, <1>2, OneAndTwo
    <3> QED BY <3>1 DEF Handed
  <2>3. Handed' = {"mm"}
    BY <2>1 DEF Handed
  <2>4. Modality[modality] = "mm"
    BY <1>2 DEF Modality
  <2> QED BY <2>2, <2>3, <2>4
<1>3. CASE modality = 2
  <2>1. phase' = "done"
    <3>1. modality # 1
      BY <1>3, OneAndTwo
    <3> QED BY <3>1 DEF HandOut
  <2>2. Handed = {"mm"} /\ Handed' = {"mm", "text"} /\ Modality[modality] = "text"
    BY <1>1, <1>3, <2>1 DEF Handed, Modality
  <2> QED BY <2>2
<1> QED BY <1>1, <1>2, <1>3

(* Handing out keeps the ranks in step, and trains the group once.          *)
LEMMA DealHandsOut == PlaceInv /\ DealInv /\ HandOut => DealInv'
<1> SUFFICES ASSUME PlaceInv, DealInv, HandOut PROVE DealInv'
  OBVIOUS
<1>1. /\ phase = "hand out" /\ phase' \in {"weigh", "done"} /\ modality' \in {1, 2}
      /\ groups' = groups /\ sample' = sample /\ bins' = bins
      /\ ranks' = Handout(ranks, Current, partitions)
  BY DEF HandOut, Handout, DealInv, GroupsInv
<1>2. Separated /\ Separated'
  BY <1>1 DEF Separated
<1>3. GroupsInv /\ RanksInv /\ TrainsInv /\ Spreads(partitions, Items)
  BY <1>1 DEF DealInv, PartitionsInv
<1>4. sample' = sample /\ bins' = bins
  BY <1>1
<1>5. GroupsInv'
  <2>1. \A m \in {"mm", "text"} : Filled(Real(BinsOf(m)))' = Filled(Real(BinsOf(m)))
    BY <1>4 DEF Filled, Real, BinsOf, GroupOf, HasImage
  <2> QED BY <1>1, <1>2, <1>3, <2>1 DEF GroupsInv
<1>6. WeightsInv' /\ StatesInv' /\ PartitionsInv'
  BY <1>1 DEF WeightsInv, StatesInv, PartitionsInv
<1>7. PICK m : /\ m = Modality[modality] /\ m \in {"mm", "text"} /\ m \notin Handed
               /\ Handed' = Handed \cup {m}
  BY <1>3, HandedOut
<1>8. PICK F, B, r : F = Current /\ Makes(F, m, B, r)
  BY <1>2, <1>3, <1>7, CurrentMade
<1>9. PICK P : P = partitions /\ Spreads(P, DOMAIN F)
  BY <1>3, <1>8 DEF Items
<1>10. /\ ranks' \in [Rank -> Seq(Micro)] /\ Even(ranks')
       /\ \E a, b \in Nat : HandedTo(ranks, ranks', F, P, a, b)
  <2>1. ranks \in [Rank -> Seq(Micro)] /\ Even(ranks) /\ F \in Seq(Micro)
    BY <1>3, <1>8 DEF RanksInv, Makes
  <2>2. ranks' = Handout(ranks, F, P)
    BY <1>1, <1>8, <1>9
  <2> QED BY <1>9, <2>1, <2>2, HandoutIs
<1>11. PICK a \in Nat, b \in Nat : HandedTo(ranks, ranks', F, P, a, b)
  BY <1>10
<1>12. \A c : HasImage(c)' = HasImage(c) /\ GroupOf(c)' = GroupOf(c)
  BY <1>4 DEF HasImage, GroupOf
<1>13. RanksInv'
  <2>1. ASSUME NEW k \in Rank, NEW l \in Rank, NEW j \in DOMAIN ranks'[k]
        PROVE  HasImage(ranks'[k][j].bin) = HasImage(ranks'[l][j].bin)
    <3>1. CASE j \in 1 .. a
      <4>1. j \in DOMAIN ranks[k] /\ ranks'[k][j] = ranks[k][j] /\ ranks'[l][j] = ranks[l][j]
        BY <1>11, <3>1 DEF HandedTo
      <4> QED BY <1>3, <4>1 DEF RanksInv
    <3>2. CASE \E i \in 1 .. b : j = a + i
      <4>1. PICK i \in 1 .. b : j = a + i
        BY <3>2
      <4>2. /\ P[k][i] \in DOMAIN F /\ ranks'[k][j] = F[P[k][i]]
            /\ P[l][i] \in DOMAIN F /\ ranks'[l][j] = F[P[l][i]]
        BY <1>11, <4>1 DEF HandedTo
      <4>3. GroupOf(ranks'[k][j].bin) = m /\ GroupOf(ranks'[l][j].bin) = m
        BY <1>8, <4>2 DEF Makes
      <4>4. \A c : GroupOf(c) = m => (HasImage(c) <=> m = "mm")
        BY DEF GroupOf
      <4>5. HasImage(ranks'[k][j].bin) <=> HasImage(ranks'[l][j].bin)
        BY <4>3, <4>4
      <4> QED BY <4>5 DEF HasImage
    <3> QED BY <1>11, <3>1, <3>2 DEF HandedTo
  <2>2. \A k, l \in Rank : \A j \in DOMAIN ranks'[k] : HasImage(ranks'[k][j].bin) = HasImage(ranks'[l][j].bin)
    BY <2>1
  <2>3. \A k, l \in Rank : \A j \in DOMAIN ranks'[k] : HasImage(ranks[k][j].bin)' = HasImage(ranks[l][j].bin)'
    BY <1>4, <2>2 DEF HasImage
  <2> QED BY <1>2, <1>10, <2>3 DEF RanksInv
<1>14. Once(bins)
  BY DEF PlaceInv, BinsInv
<1>15. \A k, n, j, y : Trains(k, n, j, y)' <=> Trains(k, n, j, y) \/ Fresh(F, P, a, b, k, n, j, y)
  BY <1>11, TrainsMore
<1>16. ASSUME NEW k, NEW n, NEW j, NEW y, Fresh(F, P, a, b, k, n, j, y)
       PROVE  \E h \in OfGroup(m) : j \in DOMAIN bins[h] /\ bins[h][j] = y
  BY <1>8, <1>9, <1>11, <1>16, FreshIs DEF At
<1>17. ASSUME NEW k, NEW n, NEW j, NEW l, NEW p, NEW q, NEW y, Trains(k, n, j, y), Fresh(F, P, a, b, l, p, q, y)
       PROVE  FALSE
  <2>1. PICK h \in DOMAIN bins : GroupOf(bins[h]) \in Handed /\ \E i \in DOMAIN bins[h] : bins[h][i] = y
    BY <1>3, <1>17 DEF TrainsInv
  <2>2. PICK g \in OfGroup(m) : \E i \in DOMAIN bins[g] : bins[g][i] = y
    BY <1>16, <1>17
  <2>3. g = h
    BY <1>14, <2>1, <2>2 DEF Once, OfGroup
  <2> QED BY <1>7, <2>1, <2>2, <2>3 DEF OfGroup
<1>18. ASSUME NEW k, NEW n, NEW j, NEW l, NEW p, NEW q, NEW y, Trains(k, n, j, y)', Trains(l, p, q, y)'
       PROVE  k = l /\ n = p /\ j = q
  <2>1. CASE Trains(k, n, j, y) /\ Trains(l, p, q, y)
    BY <1>3, <2>1 DEF TrainsInv
  <2>2. CASE Fresh(F, P, a, b, k, n, j, y) /\ Fresh(F, P, a, b, l, p, q, y)
    BY <1>8, <1>9, <1>11, <1>14, <2>2, FreshOnce
  <2> QED BY <1>15, <1>17, <1>18, <2>1, <2>2
<1>19. ASSUME NEW y
       PROVE  (\E k, n, j : Trains(k, n, j, y)') <=>
              \E h \in DOMAIN bins : GroupOf(bins[h]) \in Handed' /\ \E j \in DOMAIN bins[h] : bins[h][j] = y
  <2>0. (\E k, n, j : Trains(k, n, j, y)) <=>
        \E h \in DOMAIN bins : GroupOf(bins[h]) \in Handed /\ \E j \in DOMAIN bins[h] : bins[h][j] = y
    BY <1>3 DEF TrainsInv
  <2>1. ASSUME NEW k, NEW n, NEW j, Trains(k, n, j, y)'
        PROVE  \E h \in DOMAIN bins : GroupOf(bins[h]) \in Handed' /\ \E i \in DOMAIN bins[h] : bins[h][i] = y
    <3>1. CASE Trains(k, n, j, y)
      BY <1>7, <2>0, <3>1
    <3>2. CASE Fresh(F, P, a, b, k, n, j, y)
      BY <1>7, <1>16, <3>2 DEF OfGroup
    <3> QED BY <1>15, <2>1, <3>1, <3>2
  <2>2. ASSUME NEW h \in DOMAIN bins, GroupOf(bins[h]) \in Handed', NEW j \in DOMAIN bins[h], bins[h][j] = y
        PROVE  \E k, n, i : Trains(k, n, i, y)'
    <3>1. CASE GroupOf(bins[h]) \in Handed
      <4>1. \E k, n, i : Trains(k, n, i, y)
        BY <2>0, <2>2, <3>1
      <4> QED BY <1>15, <4>1
    <3>2. CASE GroupOf(bins[h]) = m
      <4>1. h \in OfGroup(m)
        BY <3>2 DEF OfGroup
      <4>2. \E k, n : Fresh(F, P, a, b, k, n, j, bins[h][j])
        BY <1>8, <1>9, <1>11, <4>1, FreshAll
      <4> QED BY <1>15, <2>2, <4>2
    <3> QED BY <1>7, <2>2, <3>1, <3>2
  <2> QED BY <2>1, <2>2
<1>20. TrainsInv'
  <2>1. \A k, n, j, l, p, i, y : Trains(k, n, j, y)' /\ Trains(l, p, i, y)' => k = l /\ n = p /\ j = i
    BY <1>18
  <2>2. ASSUME NEW y
        PROVE  (\E k, n, j : Trains(k, n, j, y)') <=>
               \E h \in DOMAIN bins' : GroupOf(bins[h])' \in Handed' /\ \E j \in DOMAIN bins'[h] : bins'[h][j] = y
    BY <1>4, <1>12, <1>19
  <2> QED BY <2>1, <2>2 DEF TrainsInv
<1> QED BY <1>5, <1>6, <1>13, <1>20 DEF DealInv
-----------------------------------------------------------------------------
(* Every step keeps the distribution.                                       *)
LEMMA DealStep == PlaceInv /\ DealInv /\ [PackNext]_packVars => DealInv'
<1> SUFFICES ASSUME PlaceInv, DealInv, [PackNext]_packVars PROVE DealInv'
  OBVIOUS
<1>1. CASE UNCHANGED packVars
  <2> USE <1>1 DEF packVars
  <2>1. CASE ~Separated
    <3>1. phase \in {"prepare", "place", "split", "halve"}
      BY <2>1 DEF PlaceInv, SamplesInv, Separated
    <3>2. ~Separated'
      BY <2>1 DEF Separated
    <3> QED BY <2>1, <3>1, <3>2, Early
  <2>2. CASE Separated
    <3>1. Quiet /\ Separated' /\ groups' = groups /\ (phase = "done" <=> phase' = "done")
      BY <2>2 DEF Quiet, Separated
    <3>2. GroupsInv' /\ Current' = Current /\ Items' = Items /\ RanksInv' /\ TrainsInv'
      BY <2>2, <3>1, GroupsKeep, RanksKeep
    <3>3. WeightsInv'
      BY <3>2 DEF DealInv, WeightsInv
    <3>4. StatesInv'
      BY <3>2 DEF DealInv, StatesInv, Heap
    <3>5. PartitionsInv'
      BY <3>2 DEF DealInv, PartitionsInv
    <3> QED BY <3>2, <3>3, <3>4, <3>5 DEF DealInv
  <2> QED BY <2>1, <2>2
<1>2. CASE Prepare \/ Place \/ Split \/ Halve
  <2>1. /\ phase \in {"prepare", "place", "split", "halve"} /\ phase' \in {"prepare", "place", "split", "halve"}
        /\ ranks' = ranks /\ modality' = modality
    BY <1>2 DEF Prepare, Place, Split, Halve
  <2>2. ~Separated /\ ~Separated'
    BY <2>1 DEF Separated
  <2> QED BY <2>1, <2>2, Early
<1>3. CASE Separate
  BY <1>3, DealSeparates
<1>4. CASE Weigh
  BY <1>4, DealWeighs
<1>5. CASE Deal
  BY <1>5, DealDeals
<1>6. CASE Merge
  BY <1>6, DealMerges
<1>7. CASE Refine
  BY <1>7, DealRefines
<1>8. CASE HandOut
  BY <1>8, DealHandsOut
<1> QED BY <1>1, <1>2, <1>3, <1>4, <1>5, <1>6, <1>7, <1>8 DEF PackNext

(* From the separation by modality to the ranks, every micro batch of every *)
(* group is in one place and as many are on every rank: of what is dealt, of *)
(* each merge of the heap, of each swap and of what is handed out           *)
(* (_distribute_group, balanced_partition, trainer/batch.py).               *)
THEOREM DealInvariant == PackSpec => []DealInv
<1>1. PackInit => DealInv
  BY DealStarts
<1>2. PlaceInv /\ DealInv /\ [PackNext]_packVars => DealInv'
  BY DealStep
<1> QED BY <1>1, <1>2, PlaceInvariant, PTL DEF PackSpec

(* All ranks have equally many micro batches, and at every step index of one *)
(* modality, so that no collective of the trainer waits for a rank          *)
(* (prepare_batch, trainer/batch.py).                                       *)
THEOREM RanksInStepHolds == PackSpec => []RanksInStep
<1>1. DealInv => RanksInStep
  BY DEF DealInv, RanksInv, Even, RanksInStep
<1> QED BY <1>1, DealInvariant, PTL

(* Every sample of the batch trains exactly once, whatever the bins, the    *)
(* ranks and the weights (prepare_batch, trainer/batch.py).                 *)
THEOREM SamplesTrainOnceHolds == PackSpec => []SamplesTrainOnce
<1>1. PlaceInv /\ DealInv => SamplesTrainOnce
  <2> SUFFICES ASSUME PlaceInv, DealInv, phase = "done", NEW y \in Id
               PROVE  Cardinality({s \in Slots : ranks[s[1]][s[2]].bin[s[3]] = y}) = 1
    BY DEF SamplesTrainOnce
  <2> DEFINE T == {s \in Slots : ranks[s[1]][s[2]].bin[s[3]] = y}
  <2>1. \A s : s \in Slots <=> \E k, n, j : s = <<k, n, j>> /\ k \in Rank /\ n \in DOMAIN ranks[k]
                                           /\ ~ranks[k][n].dummy /\ j \in DOMAIN ranks[k][n].bin
    BY DEF Slots
  <2>2. \A s : s \in T <=> \E k, n, j : s = <<k, n, j>> /\ Trains(k, n, j, y)
    BY <2>1 DEF Trains
  <2>3. PICK k, n, j : Trains(k, n, j, y)
    <3>1. PICK h \in DOMAIN bins : \E i \in DOMAIN bins[h] : bins[h][i] = y
      BY DEF PlaceInv, BinsInv, Placing, In
    <3>2. GroupOf(bins[h]) \in Handed
      BY DEF GroupOf, Handed
    <3> QED BY <3>1, <3>2 DEF DealInv, TrainsInv
  <2> HIDE DEF T
  <2>4. T = {<<k, n, j>>}
    <3>1. \A l, p, i : Trains(l, p, i, y) => l = k /\ p = n /\ i = j
      BY <2>3 DEF DealInv, TrainsInv
    <3> QED BY <2>2, <2>3, <3>1
  <2>5. Cardinality(T) = 1
    BY <2>4, FS_Singleton
  <2> QED BY <2>5 DEF T
<1> QED BY <1>1, PlaceInvariant, DealInvariant, PTL
=============================================================================
