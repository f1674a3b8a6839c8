----------------------------- MODULE Dispatcher -----------------------------
(***************************************************************************)
(* The episode dispatcher of the orchestrator (orchestrator/dispatcher.py) *)
(* with the parts of its environment that write the state it reads: the    *)
(* weight watcher (orchestrator/watcher.py) and the gate and shipping side *)
(* of the orchestrator's main loop (orchestrator/orchestrator.py).         *)
(*                                                                         *)
(* Everything runs on one asyncio event loop, so a coroutine is atomic     *)
(* between two awaits that can really suspend it.  Those suspension points *)
(* are the program counters below: the rate limiter, a put on the full     *)
(* out_q, the scheduling-lock barrier, the cancellation of claimed tasks   *)
(* and the engines' weight update.                                         *)
(***************************************************************************)
EXTENDS Integers, Sequences, FiniteSets

CONSTANTS
  TrainGroup,    (* ids (uuid4) a train group may get                         *)
  EvalGroup,     (* ids an eval group may get                                 *)
  FrozenGroup,   (* train groups sampled from a frozen generation source      *)
  GroupSize,     (* episodes per group (env.config.group_size)                *)
  Limits,        (* values the concurrency controller gives max_inflight      *)
  MinBurst,      (* min_burst: smallest growth allowed in one window          *)
  QueueMax,      (* maxsize of out_q: 0 (unbounded) or at least every limit   *)
  RateLimited,   (* tasks_per_minute is configured                            *)
  MaxOffPolicy,  (* config.max_off_policy_steps                               *)
  TargetLag,     (* TARGET_LAG of orchestrator.py                             *)
  Cuts,          (* overload-cut tasks (cancel_inflight creates one per call) *)
  CutSizes,      (* episodes an overload cut asks to shed                     *)
  EvalSteps,     (* policy versions whose arrival fires an eval epoch         *)
  EvalExamples,  (* examples, hence groups, per eval epoch                    *)
  MaxStep        (* bound: batches the main loop ships                        *)

Group == TrainGroup \cup EvalGroup

ASSUME DispatcherAssumption ==
  /\ TrainGroup \cap EvalGroup = {}
  /\ FrozenGroup \subseteq TrainGroup
  /\ GroupSize \in Nat \ {0}
  /\ Limits \subseteq Nat \ {0}
  /\ Limits # {}
  /\ MinBurst \in Nat \ {0}
  /\ QueueMax \in Nat
  /\ QueueMax = 0 \/ \A l \in Limits : l <= QueueMax
  /\ RateLimited \in BOOLEAN
  /\ MaxOffPolicy \in Nat
  /\ TargetLag \in Nat
  /\ {"loop", "watcher"} \cap Cuts = {}
  /\ CutSizes \subseteq Nat \ {0}
  /\ EvalSteps \subseteq Nat
  /\ EvalExamples \in Nat
  /\ MaxStep \in Nat

(* An episode attempt is the k-th member of its group: group members share *)
(* task, client and version, so their order is all that tells them apart.  *)
Task == Group \X (1 .. GroupSize)
Proc == {"loop", "watcher"} \cup Cuts
(* One message settles one attempt (an episode or a DispatchFailure, both a *)
(* "result" here) or everything a dropped group owes (GroupCancellation).   *)
Message == [type : {"result", "stale", "overload"}, group : Group,
            count : 1 .. GroupSize]

VARIABLES
  gstate,        (* "fresh", "open" (in self.groups) or "closed" (popped)     *)
  toSchedule,    (* GroupState.episodes_to_schedule                           *)
  emitted,       (* GroupState.emitted                                        *)
  gversion,      (* GroupState.policy_version_at_start                        *)
  inflight,      (* keys of self.inflight                                     *)
  waiting,       (* attempt whose schedule_group_episode waits in the limiter *)
  currentInflight, maxInflight,
  admissions,    (* admissions_in_window                                      *)
  mode, trainDisabled, dispatchAllowed, updatePending,
  outq,
  putting,       (* the message a coroutine waits to put on the full out_q    *)
  loop,          (* the dispatch task: "running" or "dead"                    *)
  watcher, target, (* progress of apply_policy_update and its version         *)
  victims,       (* groups a dropping coroutine still has to drop             *)
  need,          (* episodes an overload cut still has to shed; -1 unstarted  *)
  version,       (* policy.version                                            *)
  step,          (* progress.step                                             *)
  evalQueue,     (* EvalSource.queue: the steps of the queued examples        *)
  posted,        (* history: attempts settled by messages handed to out_q     *)
  windowBase     (* history: currentInflight when the burst window began,     *)
                 (* less the attempts cancelled since                         *)

groupVars  == <<gstate, toSchedule, emitted, gversion>>
permitVars == <<currentInflight, admissions, inflight>>
queueVars  == <<outq, putting, posted>>
flagVars   == <<mode, trainDisabled, dispatchAllowed, updatePending>>
watchVars  == <<watcher, target, version>>
dropVars   == <<victims, need>>
vars == <<gstate, toSchedule, emitted, gversion, inflight, waiting,
          currentInflight, maxInflight, admissions, mode, trainDisabled,
          dispatchAllowed, updatePending, outq, putting, loop, watcher, target,
          victims, need, version, step, evalQueue, posted, windowBase>>
-----------------------------------------------------------------------------
Live(g) == g \in TrainGroup \ FrozenGroup
Open(g) == gstate[g] = "open"
InflightOf(g) == {t \in inflight : t[1] = g}
WaitingOf(g) == {t \in waiting : t[1] = g}
Partial(G) == {g \in G : Open(g) /\ toSchedule[g] > 0}

EvalQueueOnly == evalQueue # <<>>                                    \* mutant
EvalStartedOnly == Partial(EvalGroup) # {}                           \* mutant
EvalHasWork == evalQueue # <<>> \/ Partial(EvalGroup) # {}
IsIdle == inflight = {} /\ ~EvalHasWork /\ outq = <<>>

Larger(a, b) == IF a >= b THEN a ELSE b
BurstCap == Larger(MinBurst, maxInflight \div 10)
MinFreshVersion(s) == (s - 1) - MaxOffPolicy
GateFor(s, v) == (s - 1) - v <= TargetLag
RequiredOwn == step                                                  \* mutant
Required == step - 1 - TargetLag

LockHeld == waiting # {}      \* only the limiter suspends under scheduling_lock
Runs(p) == putting[p] = <<>>
Room == QueueMax = 0 \/ Len(outq) < QueueMax

(* await out_q.put(m): asyncio.Queue only suspends the putter when full.   *)
Put(p, m) ==
  /\ posted' = [posted EXCEPT ![m.group] = @ + m.count]
  /\ IF Room
     THEN outq' = Append(outq, m) /\ UNCHANGED putting
     ELSE putting' = [putting EXCEPT ![p] = <<m>>] /\ UNCHANGED outq

FinishPut(p) ==
  /\ ~Runs(p)
  /\ Room
  /\ outq' = Append(outq, putting[p][1])
  /\ putting' = [putting EXCEPT ![p] = <<>>]
  /\ UNCHANGED <<groupVars, permitVars, flagVars, watchVars, dropVars, waiting,
                 maxInflight, loop, step, evalQueue, posted, windowBase>>
-----------------------------------------------------------------------------
(* fill_inflight: one pass schedules until a check fails.  A pass may end   *)
(* after any number of attempts (the burst budget ends it), so each attempt *)
(* is a step.  Its guards are re-evaluated for every attempt, as in the     *)
(* code; the second look at policy_update_pending under the lock is the     *)
(* same look, since acquiring a free asyncio.Lock does not suspend.         *)

LoopReady == loop = "running" /\ Runs("loop") /\ ~LockHeld
PermitAvailable == currentInflight < maxInflight
MayFill ==
  /\ LoopReady
  /\ ~updatePending
  /\ PermitAvailable
  /\ admissions < BurstCap

(* admission_budget finds the 5 s burst window elapsed and opens a new one. *)
RollWindow ==
  /\ LoopReady
  /\ ~updatePending
  /\ PermitAvailable
  /\ admissions # 0 \/ windowBase # currentInflight
  /\ admissions' = 0
  /\ windowBase' = currentInflight
  /\ UNCHANGED <<groupVars, inflight, currentInflight, queueVars, flagVars,
                 watchVars, dropVars, waiting, maxInflight, loop, step, evalQueue>>

Admit(t) ==
  /\ currentInflight' = currentInflight + 1
  /\ admissions' = admissions + 1
  /\ inflight' = inflight \cup {t}

(* schedule_group_episode for a group with `left` episodes to schedule: the *)
(* counter goes down before acquire(), which may suspend in the limiter.    *)
ScheduleEpisode(g, left) ==
  LET t == <<g, GroupSize - left + 1>>
  IN  /\ toSchedule' = [toSchedule EXCEPT ![g] = left - 1]
      /\ \/ Admit(t) /\ UNCHANGED waiting
         \/ RateLimited /\ waiting' = {t} /\ UNCHANGED permitVars
      /\ UNCHANGED <<emitted, queueVars, trainDisabled, dispatchAllowed,
                     updatePending, watchVars, dropVars, maxInflight, loop,
                     step, windowBase, mode>>

ContinueGroup(g) ==
  /\ ScheduleEpisode(g, toSchedule[g])
  /\ UNCHANGED <<gstate, gversion, evalQueue>>

(* next_fresh_group: the version is pinned when the group opens.           *)
OpenGroup(g) ==
  /\ gstate[g] = "fresh"
  /\ gstate' = [gstate EXCEPT ![g] = "open"]
  /\ gversion' = [gversion EXCEPT ![g] = version]
  /\ ScheduleEpisode(g, GroupSize)

MayFillTrain == MayFill /\ mode = "train" /\ dispatchAllowed /\ ~trainDisabled
MayFillEval == MayFill /\ mode = "eval" /\ EvalHasWork

ContinueTrain == MayFillTrain /\ \E g \in Partial(TrainGroup) : ContinueGroup(g)
ContinueEval == MayFillEval /\ \E g \in Partial(EvalGroup) : ContinueGroup(g)

NothingToContinue(G) == Partial(G) = {}

OpenTrain ==
  /\ MayFillTrain
  /\ NothingToContinue(TrainGroup)
  /\ \E g \in TrainGroup : OpenGroup(g)
  /\ UNCHANGED evalQueue

OpenEval ==
  /\ MayFillEval
  /\ NothingToContinue(EvalGroup)
  /\ evalQueue # <<>>
  /\ \E g \in EvalGroup : OpenGroup(g)
  /\ evalQueue' = Tail(evalQueue)

(* fill_inflight in PREFER_EVAL with nothing left to dispatch.             *)
EvalDrained ==
  /\ MayFill
  /\ mode = "eval"
  /\ ~EvalHasWork
  /\ mode' = "train"
  /\ UNCHANGED <<groupVars, permitVars, queueVars, watchVars, dropVars, waiting,
                 maxInflight, loop, step, evalQueue, windowBase, trainDisabled,
                 dispatchAllowed, updatePending>>

(* The rate limiter lets the waiting attempt through: acquire() returns and *)
(* schedule_group_episode goes on, whatever happened to the group meanwhile.*)
LimiterGrant ==
  /\ loop = "running"
  /\ \E t \in waiting : Admit(t)
  /\ waiting' = {}
  /\ UNCHANGED <<groupVars, queueVars, flagVars, watchVars, dropVars,
                 maxInflight, loop, step, evalQueue, windowBase>>
-----------------------------------------------------------------------------
(* handle_completed_request.                                               *)

ReleasedOnce(S) == currentInflight - (IF S = {} THEN 0 ELSE 1)        \* mutant
Released(S) == currentInflight - Cardinality(S)

RefundAdmission == Larger(0, admissions - 1)

(* Pop the task, free its permit and refund its admission.                 *)
Claim(t) ==
  /\ inflight' = inflight \ {t}
  /\ currentInflight' = Released({t})
  /\ admissions' = RefundAdmission

GroupDone(n) == n >= GroupSize

CompleteMember(g) ==
  IF Open(g)
  THEN /\ emitted' = [emitted EXCEPT ![g] = @ + 1]
       /\ gstate' = [gstate EXCEPT ![g] =
                       IF GroupDone(emitted[g] + 1) THEN "closed" ELSE @]
  ELSE UNCHANGED <<emitted, gstate>>

HandleCompleted(t) ==
  /\ LoopReady
  /\ t \in inflight
  /\ Claim(t)
  /\ CompleteMember(t[1])
  /\ Put("loop", [type |-> "result", group |-> t[1], count |-> 1])
  /\ UNCHANGED <<toSchedule, gversion, waiting, maxInflight, flagVars, loop,
                 watchVars, dropVars, step, evalQueue, windowBase>>

(* _validate_episode_task raises: the dispatch task ends with the error    *)
(* after the permit was released and before the group is advanced.         *)
HandleMismatch(t) ==
  /\ LoopReady
  /\ t \in inflight
  /\ Claim(t)
  /\ loop' = "dead"
  /\ UNCHANGED <<groupVars, queueVars, waiting, maxInflight, flagVars,
                 watchVars, dropVars, step, evalQueue, windowBase>>
-----------------------------------------------------------------------------
(* drop_group: one sweep without a suspension claims the group's tasks and *)
(* their permits, then one cancellation covers what the group still owes.  *)
OwedInflight(g) == Cardinality(InflightOf(g))                        \* mutant
OwedWhole(g) == IF Open(g) THEN GroupSize ELSE 0                     \* mutant
Owed(g) == Cardinality(InflightOf(g)) + (IF Open(g) THEN toSchedule[g] ELSE 0)

RefundCancelled(S) == Larger(0, admissions - Cardinality(S))         \* mutant
KeepAdmissions(S) == admissions   \* a shed must not pay for its own refill

DropGroup(p, g, reason) ==
  LET claimed == InflightOf(g)
      owed == Owed(g)
  IN  /\ gstate' = [gstate EXCEPT ![g] = IF Open(g) THEN "closed" ELSE @]
      /\ inflight' = inflight \ claimed
      /\ currentInflight' = Released(claimed)
      /\ IF owed > 0
         THEN Put(p, [type |-> reason, group |-> g, count |-> owed])
         ELSE UNCHANGED queueVars
      /\ admissions' = KeepAdmissions(claimed)
      /\ windowBase' = windowBase - Cardinality(claimed)
      /\ UNCHANGED <<toSchedule, emitted, gversion>>

(* cancel_inflight(n): the cut task starts and ranks the groups in flight. *)
StartCut(c, n) ==
  /\ need[c] = -1
  /\ need' = [need EXCEPT ![c] = n]
  /\ victims' = [victims EXCEPT ![c] = {g \in TrainGroup : InflightOf(g) # {}}]
  /\ UNCHANGED <<groupVars, permitVars, queueVars, flagVars, watchVars, waiting,
                 maxInflight, loop, step, evalQueue, windowBase>>

(* It drops the youngest remaining group; which one that is depends on     *)
(* start times the model leaves out.  Only live attempts count as shed.    *)
CutDrop(c) ==
  /\ Runs(c)
  /\ need[c] > 0
  /\ \E g \in victims[c] :
       /\ DropGroup(c, g, "overload")
       /\ need' = [need EXCEPT ![c] = Larger(0, @ - Cardinality(InflightOf(g)))]
       /\ victims' = [victims EXCEPT ![c] = IF need'[c] = 0 THEN {} ELSE @ \ {g}]
  /\ UNCHANGED <<waiting, maxInflight, flagVars, loop, watchVars, step, evalQueue>>

(* set_limit: sheds nothing.                                               *)
SetLimit ==
  /\ maxInflight' \in Limits \ {maxInflight}
  /\ UNCHANGED <<groupVars, permitVars, queueVars, flagVars, watchVars, dropVars,
                 waiting, loop, step, evalQueue, windowBase>>
-----------------------------------------------------------------------------
(* WeightWatcher.apply_policy_update with the dispatcher as observer.      *)

(* The watcher sees a published version (the trainer publishes v only after *)
(* it got batch v) and on_version_pending blocks scheduling.               *)
VersionPending ==
  /\ watcher = "idle"
  /\ target' \in (version + 1) .. (step - 1)
  /\ watcher' = "barrier"
  /\ updatePending' = TRUE
  /\ UNCHANGED <<groupVars, permitVars, queueVars, dropVars, waiting, maxInflight,
                 mode, trainDisabled, dispatchAllowed, loop, version, step,
                 evalQueue, windowBase>>

StaleButOne ==                                                       \* mutant
  {g \in TrainGroup : Open(g) /\ Live(g) /\ gversion[g] < MinFreshVersion(step) - 1}
StaleGroups ==
  {g \in TrainGroup : Open(g) /\ Live(g) /\ gversion[g] < MinFreshVersion(step)}

(* async with scheduling_lock: pass, then the stale groups are listed.     *)
NoBarrier == TRUE                                                    \* mutant
LockFree == ~LockHeld
PassBarrier ==
  /\ watcher = "barrier"
  /\ LockFree
  /\ watcher' = "drop"
  /\ victims' = [victims EXCEPT !["watcher"] = StaleGroups]
  /\ UNCHANGED <<groupVars, permitVars, queueVars, flagVars, need, waiting,
                 maxInflight, loop, target, version, step, evalQueue, windowBase>>

DropStale ==
  /\ watcher = "drop"
  /\ Runs("watcher")
  /\ \E g \in victims["watcher"] :
       /\ DropGroup("watcher", g, "stale")
       /\ victims' = [victims EXCEPT !["watcher"] = @ \ {g}]
  /\ UNCHANGED <<need, waiting, maxInflight, flagVars, loop, watchVars, step,
                 evalQueue>>

(* receiver.receive: the engines swap their weights.                       *)
StartReceive ==
  /\ watcher = "drop"
  /\ Runs("watcher")
  /\ victims["watcher"] = {}
  /\ watcher' = "receive"
  /\ UNCHANGED <<groupVars, permitVars, queueVars, flagVars, dropVars, waiting,
                 maxInflight, loop, target, version, step, evalQueue, windowBase>>

(* policy.version advances, on_new_version resumes scheduling, then the    *)
(* hooks trigger_eval and on_policy_update run, all without suspending.    *)
FinishUpdate ==
  /\ watcher = "receive"
  /\ watcher' = "idle"
  /\ version' = target
  /\ updatePending' = FALSE
  /\ IF target \in EvalSteps
     THEN /\ evalQueue' = evalQueue \o [i \in 1 .. EvalExamples |-> target]
          /\ mode' = "eval"
     ELSE UNCHANGED <<evalQueue, mode>>
  /\ dispatchAllowed' = GateFor(step, target)
  /\ UNCHANGED <<groupVars, permitVars, queueVars, dropVars, waiting, maxInflight,
                 trainDisabled, loop, target, step, windowBase>>
-----------------------------------------------------------------------------
(* The orchestrator's main loop as far as the dispatcher sees it.          *)

Consume ==
  /\ outq # <<>>
  /\ outq' = Tail(outq)
  /\ UNCHANGED <<groupVars, permitVars, flagVars, watchVars, dropVars, waiting,
                 maxInflight, loop, step, evalQueue, putting, posted, windowBase>>

(* finalize_train_batch ships batch `step` once v{step-1-TARGET_LAG} is    *)
(* live, advances progress.step and sets the gate.                         *)
Ship ==
  /\ step <= MaxStep
  /\ version >= Required
  /\ step' = step + 1
  /\ dispatchAllowed' = GateFor(step + 1, version)
  /\ UNCHANGED <<groupVars, permitVars, queueVars, watchVars, dropVars, waiting,
                 maxInflight, mode, trainDisabled, updatePending, loop, evalQueue,
                 windowBase>>

(* start_draining: no more train scheduling; cancel_inflight_train_episodes *)
(* claims the train tasks and forgets their groups without a message.      *)
Drain ==
  LET claimed == {t \in inflight : t[1] \in TrainGroup}
  IN  /\ step > MaxStep
      /\ ~trainDisabled
      /\ trainDisabled' = TRUE
      /\ inflight' = inflight \ claimed
      /\ currentInflight' = Released(claimed)
      /\ windowBase' = windowBase - Cardinality(claimed)
      /\ gstate' = [g \in Group |-> IF Open(g) /\ \E t \in claimed : t[1] = g
                                    THEN "closed" ELSE gstate[g]]
      /\ UNCHANGED <<toSchedule, emitted, gversion, admissions, queueVars, mode,
                     dispatchAllowed, updatePending, watchVars, dropVars, waiting,
                     maxInflight, loop, step, evalQueue>>
-----------------------------------------------------------------------------
Init ==
  /\ gstate = [g \in Group |-> "fresh"]
  /\ toSchedule = [g \in Group |-> 0]
  /\ emitted = [g \in Group |-> 0]
  /\ gversion = [g \in Group |-> 0]
  /\ inflight = {}
  /\ waiting = {}
  /\ currentInflight = 0
  /\ maxInflight \in Limits
  /\ admissions = 0
  \* sync_startup ran trigger_eval(0) before the dispatcher started
  /\ \/ mode = "train" /\ evalQueue = <<>>
     \/ mode = "eval" /\ 0 \in EvalSteps /\ evalQueue = [i \in 1 .. EvalExamples |-> 0]
  /\ trainDisabled = FALSE
  /\ dispatchAllowed = TRUE
  /\ updatePending = FALSE
  /\ outq = <<>>
  /\ putting = [p \in Proc |-> <<>>]
  /\ loop = "running"
  /\ watcher = "idle"
  /\ target = 0
  /\ victims = [p \in Proc |-> {}]
  /\ need = [c \in Cuts |-> -1]
  /\ version = 0
  /\ step = 1
  /\ posted = [g \in Group |-> 0]
  /\ windowBase = 0

LoopStep ==
  \/ RollWindow \/ ContinueTrain \/ OpenTrain \/ ContinueEval \/ OpenEval
  \/ EvalDrained \/ LimiterGrant
  \/ \E t \in Task : HandleCompleted(t) \/ HandleMismatch(t)
WatcherStep ==
  VersionPending \/ PassBarrier \/ DropStale \/ StartReceive \/ FinishUpdate
CutStep == \E c \in Cuts : CutDrop(c) \/ \E n \in CutSizes : StartCut(c, n)
MainLoopStep == Consume \/ Ship \/ Drain

Next ==
  \/ LoopStep \/ WatcherStep \/ CutStep \/ MainLoopStep \/ SetLimit
  \/ \E p \in Proc : FinishPut(p)

Spec == Init /\ [][Next]_vars
-----------------------------------------------------------------------------
(* Every variable has its type; a putter waits with at most one message and *)
(* the limiter holds at most one attempt.                                   *)
TypeOK ==
  /\ gstate \in [Group -> {"fresh", "open", "closed"}]
  /\ toSchedule \in [Group -> 0 .. GroupSize]
  /\ emitted \in [Group -> 0 .. GroupSize]
  /\ gversion \in [Group -> Nat]
  /\ inflight \subseteq Task /\ IsFiniteSet(inflight)
  /\ waiting \subseteq Task /\ \A s, t \in waiting : s = t
  /\ currentInflight \in Int /\ maxInflight \in Limits /\ admissions \in Nat
  /\ mode \in {"train", "eval"}
  /\ <<trainDisabled, dispatchAllowed, updatePending>> \in BOOLEAN \X BOOLEAN \X BOOLEAN
  /\ outq \in Seq(Message)
  /\ putting \in [Proc -> {<<>>} \cup {<<m>> : m \in Message}]
  /\ loop \in {"running", "dead"}
  /\ watcher \in {"idle", "barrier", "drop", "receive"}
  /\ victims \in [Proc -> SUBSET TrainGroup]
  /\ need \in [Cuts -> Nat \cup {-1}]
  /\ target \in Nat /\ version \in Nat /\ step \in Nat /\ step > 0
  /\ evalQueue \in Seq(Nat)
  /\ posted \in [Group -> Nat]
  /\ windowBase \in Int

(* current_inflight counts exactly the tasks in self.inflight, through      *)
(* completions, drops, overload cuts and the drain.                         *)
PermitAccounting == currentInflight = Cardinality(inflight)

(* An attempt of a group is in exactly one place: still to schedule (while  *)
(* the group is open), in the limiter, in flight, or settled by a message.  *)
(* "Every dispatched attempt reaches out_q exactly once": nothing is lost   *)
(* or counted twice however completions, drops and cuts interleave.  The    *)
(* exceptions are the drain, which abandons train work, and a dispatch task *)
(* that died on a mismatched episode.                                       *)
Unsettled(g) ==
  Cardinality(InflightOf(g)) + Cardinality(WaitingOf(g))
    + (IF Open(g) THEN toSchedule[g] ELSE 0)
SettledOnce(g) == posted[g] + Unsettled(g) = GroupSize
ExactlyOnce ==
  loop = "running" =>
    \A g \in Group : gstate[g] # "fresh" /\ (g \in EvalGroup \/ ~trainDisabled)
                       => SettledOnce(g)

(* "group can be None only if every episode was already emitted"            *)
(* (drop_group): whatever is in flight belongs to a group still in          *)
(* self.groups, so a group is never cancelled a second time and its         *)
(* staleness drop can find it.                                              *)
NoOrphan == \A t \in inflight : Open(t[1])

(* Continuing a group goes before opening one, so at most one group of a    *)
(* kind is partly dispatched; its prefix cache is filled back to back.      *)
OnePartialGroup ==
  \A G \in {TrainGroup, EvalGroup} : \A g, h \in Partial(G) : g = h

(* Within one window the pool grows by at most the window's admissions, and *)
(* those stay within the largest burst cap.  Attempts that were cancelled   *)
(* do not make room: "refunding cancelled episodes would hand a mass shed's *)
(* worth of burst budget to the refill".                                    *)
GrowthIsMetered ==
  /\ currentInflight - windowBase <= admissions
  /\ \E l \in Limits : admissions <= Larger(MinBurst, l \div 10)

(* Once the barrier is passed no attempt is dispatched until the new        *)
(* weights are live: "No rollout can cross the inference weight swap".      *)
NoDispatchDuringSwap ==
  [][(watcher \in {"drop", "receive"}) => inflight' \subseteq inflight]_vars

(* An admission never takes the pool above the cap in force ("admissions    *)
(* just stay blocked until enough episodes finish").                        *)
AdmitsWithinCap ==
  [][currentInflight' > currentInflight => currentInflight' <= maxInflight]_vars

(* While the engines update, every live train group still open can ship in  *)
(* some batch: the drop missed none that was stale when it was listed.      *)
(* Batches may ship during the update, hence the bound at that time.        *)
StaleWorkCut ==
  [][StartReceive => \A g \in TrainGroup :
       Open(g) /\ Live(g) => gversion[g] >= MinFreshVersion(target + 1)]_vars
-----------------------------------------------------------------------------
(* The dispatcher implements the group ledger.                             *)
OpenedGroups == {g \in Group : gstate[g] # "fresh"}
Ledger == INSTANCE GroupLedger WITH
  opened <- OpenedGroups,
  owed <- [g \in Group |-> Unsettled(g)],
  settled <- posted

(* Every step of the dispatcher opens a group, settles part of what one     *)
(* group owes, abandons work, or leaves the account alone.                  *)
LedgerSpec == Ledger!Spec
=============================================================================
