----------------------------- MODULE TrainSink ------------------------------
(***************************************************************************)
(* The train sink (orchestrator/train_sink.py) and the half of the main    *)
(* loop that feeds it and ships its batches (orchestrator.py, main_loop    *)
(* and finalize_train_batch).  The main loop handles one message at a time *)
(* and nothing else touches the sink, so one message is one step; the only *)
(* thing that happens in between is a cut batch held for a policy version. *)
(*                                                                         *)
(* An episode is one trace.  What the tokenizer, the algorithm and the     *)
(* curriculum decide about it is a choice: whether it survives, whether it *)
(* yields samples, how many tokens it weighs, whether its group is         *)
(* admitted, and whether its samples outlive the zero-advantage filter.    *)
(***************************************************************************)
EXTENDS Integers, FiniteSets, FiniteSetsExt

CONSTANTS
  Group,          (* ids of the train groups                                 *)
  FrozenGroup,    (* those generated by a frozen model: they have no policy  *)
  GroupSize,      (* episodes per group                                      *)
  BatchSizes,     (* config.batch_size of the runs that count traces         *)
  TokenBatchSizes, (* config.token_batch_size of the runs that count tokens  *)
  TokenSizes,     (* tokens a trace may weigh                                *)
  SeqLen,         (* config.seq_len                                          *)
  FilterZero,     (* config.train.filter_zero_advantages                     *)
  MaxOffPolicy,   (* config.max_off_policy_steps                             *)
  TargetLag,      (* TARGET_LAG of orchestrator.py                           *)
  MaxZeroOutput,  (* MAX_CONSECUTIVE_ZERO_OUTPUT_BATCH_EQUIVALENTS           *)
  MaxEmpty,       (* MAX_CONSECUTIVE_EMPTY_BATCHES                           *)
  StartSteps,     (* progress.step at start: 1, or what a resume restored    *)
  MaxSteps        (* config.max_steps                                        *)

ASSUME TrainSinkAssumption ==
  /\ IsFiniteSet(Group)
  /\ FrozenGroup \subseteq Group
  /\ GroupSize \in Nat \ {0}
  /\ FilterZero \in BOOLEAN
  /\ BatchSizes \subseteq Nat \ {0} /\ TokenBatchSizes \subseteq Nat \ {0}
  /\ TokenSizes \subseteq Nat \ {0} /\ TokenSizes # {}
  /\ SeqLen \in Nat \ {0}
  /\ MaxOffPolicy \in Nat /\ TargetLag \in Nat
  /\ MaxZeroOutput \in Nat \ {0} /\ MaxEmpty \in Nat \ {0}
  /\ StartSteps \subseteq Nat \ {0}
  /\ MaxSteps \in Nat \ {0}

Trace == Group \X (1 .. GroupSize)

(* What the sink holds of a group before the group is complete: episodes    *)
(* with a trainable trace, episodes without one, request failures, and the  *)
(* count and reason of its cancellation.                                    *)
Pending == [good : 0 .. GroupSize, barren : 0 .. GroupSize,
            failed : 0 .. GroupSize, cancelled : 0 .. GroupSize,
            reason : {"none", "overload", "stale"}]
Nothing == [good |-> 0, barren |-> 0, failed |-> 0, cancelled |-> 0,
            reason |-> "none"]

VARIABLES
  byTokens, target, (* which batch size the run configures, and its value     *)
  owed,          (* dispatcher: attempts the group still owes; -1 not opened  *)
  gversion,      (* policy version the group's episodes were sampled from     *)
  pending,       (* pending_groups, .._failures and .._cancellations          *)
  queue,         (* keys of pending_batch                                     *)
  rank,          (* insertion order of pending_batch, per group               *)
  size,          (* payload tokens of a queued trace                          *)
  pendingTokens,
  sweptStep,     (* _swept_step                                               *)
  zeroUnits, zeroWindows, (* zero_output_units, reported_zero_output_windows  *)
  emptyBatches,  (* consecutive_empty_batches                                 *)
  window,        (* groups in pending_episodes / pending_failures             *)
  batch,         (* the batch finalize_train_batch holds or ships; {} if none *)
  episodes,      (* groups in its TrainBatch.episodes / failures              *)
  step,          (* progress.step                                             *)
  version,       (* policy.version                                            *)
  draining,
  aborted,       (* the sink or the main loop raised                          *)
  finalised,     (* history: times process_group ran to the end for the group *)
  reported,      (* history: times the group was in a shipped batch's metrics *)
  barrenRun      (* history: groups finalised since one last queued a trace   *)

configVars == <<byTokens, target>>
envVars   == <<owed, gversion>>
queueVars == <<queue, rank, size, pendingTokens, sweptStep>>
zeroVars  == <<zeroUnits, zeroWindows, barrenRun>>
batchVars == <<batch, episodes, emptyBatches, draining, window, reported>>
vars == <<byTokens, target, owed, gversion, pending, queue, rank, size, pendingTokens, sweptStep,
          zeroUnits, zeroWindows, emptyBatches, window, batch, episodes, step, version,
          draining, aborted, finalised, reported, barrenRun>>
-----------------------------------------------------------------------------
Tokens(w, S) == MapThenSumSet(LAMBDA t : w[t], S)
Sizes == IF byTokens THEN TokenSizes ELSE {1}    \* counting traces needs no size
Weight(w, S) == IF byTokens THEN Tokens(w, S) ELSE Cardinality(S)

MinFreshVersion == (step - 1) - MaxOffPolicy
IsStale(t) == t[1] \notin FrozenGroup /\ gversion[t[1]] < MinFreshVersion
StaleIn(S) == {t \in S : IsStale(t)}

ArrivedComplete(p) == p.good + p.barren + p.failed >= GroupSize      \* mutant
GroupComplete(p) == p.good + p.barren + p.failed + p.cancelled >= GroupSize

(* The main loop takes the next message: it holds no batch and none raised. *)
Running == ~aborted /\ batch = {}
-----------------------------------------------------------------------------
(* _record_zero_output: a group that queued nothing costs its survivors, or *)
(* what it returned, or what it owed.                                       *)
FirstPositive(a, b, c) == IF a > 0 THEN a ELSE IF b > 0 THEN b ELSE c

ZeroCost(g, p, w, survivors) ==
  LET traces(n) == {<<g, k>> : k \in 1 .. n}
      owes == p.good + p.barren + p.failed + p.cancelled
  IN  FirstPositive(Weight(w, traces(survivors)),
                    Weight(w, traces(p.good + p.barren)),
                    IF byTokens THEN SeqLen * owes ELSE owes)

Windows(units) == units \div target

SampledNothing(new, kept) == new = {}                                \* mutant
QueuedNothing(new, kept) == kept = {}

(* The zero-output count of a group that queued nothing, or the reset that  *)
(* ends process_group for a group with a trace left in pending_batch.       *)
CountOutput(new, kept, cost) ==
  /\ IF QueuedNothing(new, kept)
     THEN /\ zeroUnits' = zeroUnits + cost
          /\ zeroWindows' = IF Windows(zeroUnits') > zeroWindows
                            THEN Windows(zeroUnits') ELSE zeroWindows
     ELSE zeroUnits' = 0 /\ zeroWindows' = 0
  /\ barrenRun' = IF kept = {} THEN barrenRun + 1 ELSE 0

BudgetSpent(new, kept, cost) ==
  /\ QueuedNothing(new, kept)
  /\ Windows(zeroUnits + cost) > zeroWindows
  /\ Windows(zeroUnits + cost) >= MaxZeroOutput
-----------------------------------------------------------------------------
(* process_batch takes the shortest prefix of pending_batch, in insertion   *)
(* order, that reaches the target.                                          *)
Before(r, t, u) == r[t[1]] < r[u[1]] \/ (t[1] = u[1] /\ t[2] < u[2])
IsCut(r, w, q, S) ==
  \E last \in q : /\ S = {t \in q : t = last \/ Before(r, t, last)}
                  /\ Weight(w, S) >= target
                  /\ Weight(w, S \ {last}) < target

Discount(tokens, w, S) == IF byTokens THEN tokens - Tokens(w, S) ELSE tokens

ClosesWindow(S) == S # {}

GivesUp(n) == n >= MaxEmpty

(* finalize_train_batch up to the hold.  Draining, the main loop drops the  *)
(* batch; past max_steps it starts the drain instead of shipping.           *)
Offer(S, groups) ==
  IF draining
  THEN UNCHANGED <<batch, episodes, emptyBatches, draining>>
  ELSE IF step > MaxSteps
  THEN draining' = TRUE /\ UNCHANGED <<batch, episodes, emptyBatches>>
  ELSE IF S = {}
  THEN emptyBatches' = emptyBatches + 1 /\ UNCHANGED <<batch, episodes, draining>>
  ELSE /\ emptyBatches' = 0
       /\ batch' = S
       /\ episodes' = groups
       /\ UNCHANGED draining

CutBatch(q, w, r, tokens, groups) ==
  \E S \in SUBSET q :
    /\ IsCut(r, w, q, S)
    /\ queue' = q \ S
    /\ pendingTokens' = Discount(tokens, w, S)
    /\ \E shipped \in IF FilterZero THEN SUBSET S ELSE {S} :
         /\ Offer(shipped, groups)
         /\ window' = IF ClosesWindow(shipped) THEN {} ELSE groups
    /\ aborted' = GivesUp(emptyBatches')
    /\ UNCHANGED reported

SweepFirstStep == sweptStep = 0                                      \* mutant
SweepDue == sweptStep # step

(* _maybe_batch: the full sweep, at most once per step, then the cut.       *)
MaybeBatch(q, w, r, tokens, groups) ==
  LET swept == IF SweepDue THEN StaleIn(q) ELSE {}
      left == q \ swept
      tokensLeft == Discount(tokens, w, swept)
      ready == IF byTokens THEN tokensLeft >= target ELSE Cardinality(left) >= target
  IN  /\ sweptStep' = step
      /\ IF ready
         THEN CutBatch(left, w, r, tokensLeft, groups)
         ELSE /\ queue' = left
              /\ pendingTokens' = tokensLeft
              /\ window' = groups
              /\ UNCHANGED <<batch, episodes, emptyBatches, draining, reported, aborted>>
-----------------------------------------------------------------------------
(* process_group, then _maybe_batch unless the zero-output budget is spent. *)
(* `new` enters pending_batch; the scoped sweep leaves `kept` of it.        *)
ProcessGroup(g, p) ==
  \E sampled \in SUBSET (1 .. p.good), admitted \in BOOLEAN,
     w \in [{g} \X (1 .. p.good + p.barren) -> Sizes] :
    LET voided == p.reason = "stale"
        new == IF admitted /\ ~voided THEN {g} \X sampled ELSE {}
        stale == StaleIn(new)
        kept == new \ stale
        survivors == IF voided \/ new # {} THEN 0 ELSE p.good
        cost == ZeroCost(g, p, w, survivors)
        sizes == [t \in Trace |-> IF t \in new THEN w[t] ELSE size[t]]
        ranks == [rank EXCEPT ![g] = 1 + Cardinality({h \in Group : rank[h] > 0})]
        tokens == Discount(pendingTokens + (IF byTokens THEN Tokens(w, new) ELSE 0),
                           w, stale)
        groups == window \cup {g}
    IN  /\ finalised' = [finalised EXCEPT ![g] = @ + 1]
        /\ CountOutput(new, kept, cost)
        /\ size' = sizes
        /\ rank' = ranks
        /\ IF BudgetSpent(new, kept, cost)
           THEN /\ aborted' = TRUE
                /\ window' = groups
                /\ UNCHANGED <<queue, pendingTokens, sweptStep, batch, episodes,
                               emptyBatches, draining, reported>>
           ELSE MaybeBatch(queue \cup kept, sizes, ranks, tokens, groups)

(* add, fail and cancel: record the arrival, and go on if it completes the  *)
(* group (pop) or return.                                                   *)
Arrive(g, p, n) ==
  /\ owed' = [owed EXCEPT ![g] = @ - n]
  /\ UNCHANGED <<gversion, step, version, configVars>>
  /\ IF GroupComplete(p)
     THEN pending' = [pending EXCEPT ![g] = Nothing] /\ ProcessGroup(g, p)
     ELSE /\ pending' = [pending EXCEPT ![g] = p]
          /\ UNCHANGED <<queueVars, zeroVars, batchVars, aborted, finalised>>

Add(g) ==
  /\ Running
  /\ owed[g] > 0
  /\ \/ Arrive(g, [pending[g] EXCEPT !.good = @ + 1], 1)
     \/ Arrive(g, [pending[g] EXCEPT !.barren = @ + 1], 1)

Fail(g) ==
  /\ Running
  /\ owed[g] > 0
  /\ Arrive(g, [pending[g] EXCEPT !.failed = @ + 1], 1)

(* A dropped group sends one cancellation; results claimed before the drop  *)
(* may still follow it.  Only live groups past the bound drop as stale.     *)
Cancel(g, n, reason) ==
  /\ Running
  /\ n <= owed[g]
  /\ pending[g].reason = "none"
  /\ reason = "stale" => IsStale(<<g, 1>>)
  /\ Arrive(g, [pending[g] EXCEPT !.cancelled = n, !.reason = reason], n)
-----------------------------------------------------------------------------
(* finalize_train_batch from the hold on: the batch is sent, progress.step  *)
(* advances, and after the last one the pipeline drains.                    *)
ShipBatch ==
  /\ ~aborted
  /\ batch # {}
  /\ version >= step - 1 - TargetLag
  /\ batch' = {}
  /\ episodes' = {}
  /\ reported' = [g \in Group |-> reported[g] + (IF g \in episodes THEN 1 ELSE 0)]
  /\ step' = step + 1
  /\ draining' = (step >= MaxSteps)
  /\ UNCHANGED <<configVars, envVars, pending, queueVars, zeroVars, emptyBatches,
                 window, version, aborted, finalised>>

(* The dispatcher opens a group while the gate allows; the group's version  *)
(* is pinned then.                                                          *)
OpenGroup(g) ==
  /\ ~aborted /\ ~draining
  /\ owed[g] = -1
  /\ (step - 1) - version <= TargetLag
  /\ owed' = [owed EXCEPT ![g] = GroupSize]
  /\ gversion' = [gversion EXCEPT ![g] = version]
  /\ UNCHANGED <<configVars, pending, queueVars, zeroVars, batchVars, step, version,
                 aborted, finalised>>

(* The engines apply a version the trainer published: it trained batch v.   *)
AdvanceVersion ==
  /\ ~aborted
  /\ version' \in (version + 1) .. (step - 1)
  /\ UNCHANGED <<configVars, envVars, pending, queueVars, zeroVars, batchVars, step,
                 aborted, finalised>>

Init ==
  /\ \/ byTokens = FALSE /\ target \in BatchSizes
     \/ byTokens = TRUE /\ target \in TokenBatchSizes
  /\ owed = [g \in Group |-> -1]
  /\ gversion = [g \in Group |-> 0]
  /\ pending = [g \in Group |-> Nothing]
  /\ queue = {}
  /\ rank = [g \in Group |-> 0]
  /\ size = [t \in Trace |-> 0]
  /\ pendingTokens = 0 /\ sweptStep = 0
  /\ zeroUnits = 0 /\ zeroWindows = 0 /\ barrenRun = 0
  /\ emptyBatches = 0
  /\ window = {} /\ batch = {} /\ episodes = {}
  /\ step \in StartSteps
  /\ version = step - 1
  /\ draining = FALSE /\ aborted = FALSE
  /\ finalised = [g \in Group |-> 0]
  /\ reported = [g \in Group |-> 0]

Next ==
  \/ \E g \in Group : OpenGroup(g) \/ Add(g) \/ Fail(g)
  \/ \E g \in Group, n \in 1 .. GroupSize, r \in {"overload", "stale"} : Cancel(g, n, r)
  \/ ShipBatch
  \/ AdvanceVersion

Spec == Init /\ [][Next]_vars
-----------------------------------------------------------------------------
(* Every variable has its type; what is queued or held has been finalised.  *)
TypeOK ==
  /\ byTokens \in BOOLEAN /\ target \in Nat \ {0}
  /\ owed \in [Group -> -1 .. GroupSize]
  /\ gversion \in [Group -> Nat]
  /\ pending \in [Group -> Pending]
  /\ queue \subseteq Trace
  /\ rank \in [Group -> Nat]
  /\ size \in [Trace -> Nat]
  /\ pendingTokens \in Int
  /\ sweptStep \in Nat /\ step \in Nat \ {0} /\ version \in Nat
  /\ zeroUnits \in Nat /\ zeroWindows \in Nat /\ barrenRun \in Nat
  /\ emptyBatches \in 0 .. MaxEmpty
  /\ window \subseteq Group /\ episodes \subseteq Group
  /\ batch \subseteq Trace
  /\ draining \in BOOLEAN /\ aborted \in BOOLEAN
  /\ finalised \in [Group -> Nat] /\ reported \in [Group -> Nat]

(* "this sweep ... is what guarantees nothing stale ships": every trace of  *)
(* the batch that is held or sent was sampled from a policy at most         *)
(* max_off_policy_steps older than v{step-1}, whatever mix of arrivals,     *)
(* holds, version jumps and ships preceded; frozen groups excepted.         *)
StalenessBound == \A t \in batch : ~IsStale(t)

(* Once this step's sweep ran, no queued trace is stale until the next      *)
(* ship: the scoped sweep covers what arrives after the full one.           *)
SweptQueueIsFresh == sweptStep = step => \A t \in queue : ~IsStale(t)

(* pending_tokens, kept up by four different code paths, is what the queue  *)
(* weighs, so a batch is cut when, and only when, it is full.               *)
TokensMatch == byTokens => pendingTokens = Tokens(size, queue)

(* A dropped group completes its accounting exactly when the last of its    *)
(* episodes, failures and cancellations arrived, in any order: it is        *)
(* finalised once, no earlier, and leaves nothing pending.                  *)
FinalisedOnce ==
  \A g \in Group :
    /\ finalised[g] = (IF owed[g] = 0 THEN 1 ELSE 0)
    /\ owed[g] = 0 => pending[g] = Nothing

(* Groups cannot go on being voided or rejected forever: as long as the run *)
(* is not aborted, fewer than MaxZeroOutput targets' worth of groups in a   *)
(* row have put nothing in the queue.                                       *)
BarrenBounded == ~aborted => barrenRun < MaxZeroOutput * target

(* Until the drain drops a batch, every finalised group is reported with    *)
(* exactly one shipped batch: it was, or it is in the batch being held or   *)
(* in the window still open, also after a batch that the zero-advantage     *)
(* filter left empty.                                                       *)
ReportedOnce ==
  ~draining =>
    \A g \in Group :
      finalised[g] = reported[g] + (IF g \in episodes THEN 1 ELSE 0)
                                 + (IF g \in window THEN 1 ELSE 0)

=============================================================================
