----------------------------- MODULE EvalEpochs -----------------------------
(***************************************************************************)
(* Online evals of an SFT run: the trainer's weight broadcasts             *)
(* (trainer/sft/train.py, transports/weights/base.py), the evals process   *)
(* that receives them in lockstep and runs one epoch per due environment   *)
(* (evals/evals.py), its dispatcher (the eval half of                      *)
(* orchestrator/dispatcher.py), and the eval source and sink.              *)
(*                                                                         *)
(* The trainer is a process of its own; the evals process is one asyncio   *)
(* event loop with three coroutines: watch (with consume_epoch), the       *)
(* dispatch loop and the cancellation task of a superseded epoch.  Each is *)
(* atomic between two awaits that can suspend it.                          *)
(***************************************************************************)
EXTENDS Integers, Sequences, FiniteSets

CONSTANTS
  Env,         (* eval environments                                        *)
  Order,       (* the same, in the order of the configuration              *)
  Interval,    (* interval of each environment, in trainer steps           *)
  Examples,    (* examples of each environment                             *)
  GroupSize,   (* attempts per example of each environment                 *)
  MaxSteps,    (* max_steps of the run                                     *)
  Resumes,     (* checkpoint steps a run may resume from; 0 starts afresh  *)
  Limit,       (* cap on attempts in flight                                *)
  OutMax       (* maxsize of the dispatcher's out_q                        *)

ASSUME EvalEpochsAssumption ==
  /\ Env # {} /\ Order \in Seq(Env)                 \* names are unique
  /\ \A e \in Env : \E i \in DOMAIN Order : Order[i] = e
  /\ \A i, j \in DOMAIN Order : Order[i] = Order[j] => i = j
  /\ Interval \in [Env -> Nat \ {0}]
  /\ Examples \in [Env -> Nat \ {0}]
  /\ GroupSize \in [Env -> Nat \ {0}]
  /\ MaxSteps \in Nat \ {0}
  /\ Resumes \subseteq 0 .. MaxSteps
  /\ Limit \in Nat \ {0}
  /\ OutMax \in Nat \ {0}

Step == 0 .. (MaxSteps + 1)
NoVersion == MaxSteps + 2       (* the engines are between two versions    *)
Request == UNION {{e} \X (1 .. Examples[e]) \X Step : e \in Env}
EnvOf(r) == r[1]
StepOf(r) == r[3]
Members(r) == 1 .. GroupSize[EnvOf(r)]

VARIABLES
  config,      (* cancel_on_new_checkpoint, skip_first_step,               *)
               (* retrigger_on_resume and the resume step                  *)
  trainer,     (* where the trainer is                                     *)
  progress,    (* its progress.step                                        *)
  offer,       (* the version its current broadcast carries                *)
  stage,       (* markers of broadcasts/step_{n}                           *)
  watch,       (* where Evals.watch is                                     *)
  lastStep,    (* Evals.last_step                                          *)
  scan,        (* the scan being walked: steps left, listed, published     *)
  epoch,       (* the step being received or evaluated                     *)
  pending,     (* environments of the epoch still to be reported           *)
  served,      (* the version the engines serve                            *)
  paused,      (* Dispatcher.policy_update_pending                         *)
  mode,        (* DispatcherMode                                           *)
  queue,       (* EvalSource.queue                                         *)
  todo,        (* GroupState.episodes_to_schedule, 0 without a group       *)
  running,     (* members of each group in Dispatcher.inflight             *)
  claimed,     (* members drop_group took out of inflight, not yet stopped *)
  outq,        (* Dispatcher.out_q                                         *)
  putting,     (* message the dispatch loop or the cancellation task holds *)
               (* while out_q is full                                      *)
  canceller,   (* where the cancellation task is                           *)
  victims,     (* groups it still has to drop                              *)
  unopened,    (* queued requests it took out and still has to cancel      *)
  gathered,    (* EvalSink.pending_groups, failures and cancellations      *)
  batched,     (* EvalSink.pending_batches, failures and cancellations     *)
  reported     (* history: how often each environment and step was reported*)

trainerVars == <<trainer, progress, offer>>
sourceVars == <<queue, todo, running>>
cancelVars == <<canceller, victims, unopened, claimed>>
sinkVars == <<gathered, batched, reported>>
vars == <<config, trainer, progress, offer, stage, watch, lastStep, scan, epoch,
          pending, served, paused, mode, queue, todo, running, claimed, outq,
          putting, canceller, victims, unopened, gathered, batched, reported>>
-----------------------------------------------------------------------------
Due(e, s) == s % Interval[e] = 0
OnlineEvalStep(s) == \E e \in Env : Due(e, s)
Listed == {s \in Step : stage[s] # "none"}
Published(S) == {s \in S : stage[s] \in {"offered", "acked", "finished"}}
NewestOf(S) == CHOOSE s \in S : \A t \in S : t <= s
LeastOf(S) == CHOOSE s \in S : \A t \in S : s <= t

Open(r) == todo[r] > 0 \/ running[r] # {}
InQueue(q) == {q[i] : i \in DOMAIN q}
InFlight == UNION {{r} \X running[r] : r \in Request}
Full == Len(outq) >= OutMax

(* The requests of a queue that are in S, in their order.                  *)
Keep(q, S) ==
  LET kept[n \in 0 .. Len(q)] ==
        IF n = 0 THEN <<>>
        ELSE IF q[n] \in S THEN Append(kept[n - 1], q[n]) ELSE kept[n - 1]
  IN  kept[Len(q)]

(* Members not yet dispatched: attempts of a group differ in order only.   *)
Unscheduled(r) == (GroupSize[EnvOf(r)] - todo[r] + 1) .. GroupSize[EnvOf(r)]

Init ==
  /\ config \in [cancel : BOOLEAN, skipFirst : BOOLEAN, retrigger : BOOLEAN,
                 resume : Resumes]
  /\ IF config.resume = 0 THEN ~config.retrigger ELSE ~config.skipFirst
  /\ trainer = "make"
  /\ progress = config.resume + 1
  /\ offer = config.resume
  /\ stage = [s \in Step |-> "none"]
  /\ watch = "startup"
  /\ lastStep = config.resume
  /\ scan = [left |-> {}, listed |-> {}, published |-> {}]
  /\ epoch = config.resume
  /\ pending = {}
  /\ served = NoVersion
  /\ paused = FALSE
  /\ mode = "train"
  /\ queue = <<>>
  /\ todo = [r \in Request |-> 0]
  /\ running = [r \in Request |-> {}]
  /\ claimed = [r \in Request |-> {}]
  /\ outq = <<>>
  /\ putting = [p \in {"loop", "canceller"} |-> <<>>]
  /\ canceller = "none"
  /\ victims = {}
  /\ unopened = {}
  /\ gathered = [r \in Request |-> {}]
  /\ batched = [r \in Request |-> {}]
  /\ reported = [k \in Env \X Step |-> 0]
-----------------------------------------------------------------------------
(* The trainer: WeightSender.broadcast, one stage per step, around the     *)
(* training loop.  A broadcast in the training loop and the final one      *)
(* carry progress.step, the startup broadcast the step before it.          *)

MakeDir ==
  /\ trainer = "make"
  /\ stage' = [stage EXCEPT ![offer] = "made"]
  /\ trainer' = "offer"
  /\ UNCHANGED <<progress, offer>>

Offer ==
  /\ trainer = "offer"
  /\ stage' = [stage EXCEPT ![offer] = "offered"]
  /\ trainer' = "wait"
  /\ UNCHANGED <<progress, offer>>

Ready(s) == stage[s] = "acked"

(* _wait_for_receiver_ready, then the transfer and its commit.             *)
Transfer ==
  /\ trainer = "wait"
  /\ Ready(offer)
  /\ stage' = [stage EXCEPT ![offer] = "finished"]
  /\ trainer' = "clean"
  /\ UNCHANGED <<progress, offer>>

Clean ==
  /\ trainer = "clean"
  /\ stage' = [s \in Step |-> IF s < offer - 1 THEN "none" ELSE stage[s]]
  /\ trainer' = IF offer = progress /\ progress >= MaxSteps THEN "done" ELSE "train"
  /\ progress' = IF offer = progress /\ progress < MaxSteps THEN progress + 1 ELSE progress
  /\ UNCHANGED offer

(* One iteration of the training loop.  The last step leaves the loop and  *)
(* broadcasts whatever is due.                                             *)
Train ==
  /\ trainer = "train"
  /\ IF progress >= MaxSteps \/ OnlineEvalStep(progress)
     THEN offer' = progress /\ trainer' = "make" /\ UNCHANGED progress
     ELSE progress' = progress + 1 /\ UNCHANGED <<offer, trainer>>
  /\ UNCHANGED stage

Trainer ==
  /\ MakeDir \/ Offer \/ Transfer \/ Clean \/ Train
  /\ UNCHANGED <<config, watch, lastStep, scan, epoch, pending, served, paused,
                 mode, sourceVars, outq, putting, cancelVars, sinkVars>>
-----------------------------------------------------------------------------
(* The dispatch loop, eval half: there are no train environments, so in    *)
(* "train" mode nothing is scheduled.                                      *)

HasWork == queue # <<>> \/ \E r \in Request : todo[r] > 0
LoopFree == putting["loop"] = <<>>

Put(p, m) ==
  IF Full
  THEN putting' = [putting EXCEPT ![p] = <<m>>] /\ UNCHANGED outq
  ELSE outq' = Append(outq, m) /\ UNCHANGED putting

FinishPut(p) ==
  /\ putting[p] # <<>>
  /\ ~Full
  /\ outq' = Append(outq, putting[p][1])
  /\ putting' = [putting EXCEPT ![p] = <<>>]

Held == paused                                        \* policy_update_pending
MayFill == LoopFree /\ ~Held /\ Cardinality(InFlight) < Limit /\ mode = "eval"

Dispatch(r, left) ==
  /\ todo' = [todo EXCEPT ![r] = left - 1]
  /\ running' = [running EXCEPT ![r] = @ \cup {GroupSize[EnvOf(r)] - left + 1}]

(* fill_inflight, one attempt a step: continue the group that has attempts *)
(* left, else open the next queued example, else give way to training.     *)
Fill ==
  /\ MayFill
  /\ \/ \E r \in Request : todo[r] > 0 /\ Dispatch(r, todo[r]) /\ UNCHANGED <<queue, mode>>
     \/ /\ \A r \in Request : todo[r] = 0
        /\ queue # <<>>
        /\ Dispatch(Head(queue), GroupSize[EnvOf(Head(queue))])
        /\ queue' = Tail(queue)
        /\ UNCHANGED mode
     \/ ~HasWork /\ mode' = "train" /\ UNCHANGED sourceVars
  /\ UNCHANGED <<outq, putting>>

(* handle_completed_request: an episode or a DispatchFailure, one attempt. *)
Complete ==
  /\ LoopFree
  /\ \E a \in InFlight :
       /\ running' = [running EXCEPT ![a[1]] = @ \ {a[2]}]
       /\ Put("loop", [request |-> a[1], members |-> {a[2]}])
  /\ UNCHANGED <<queue, todo, mode>>

Loop ==
  /\ \/ Fill
     \/ Complete
     \/ FinishPut("loop") /\ UNCHANGED <<sourceVars, mode>>
  /\ UNCHANGED <<config, trainerVars, stage, watch, lastStep, scan, epoch, pending,
                 served, paused, cancelVars, sinkVars>>
-----------------------------------------------------------------------------
(* The cancellation task: Dispatcher.cancel_eval_step.                     *)

QueuedOf(s) == {r \in InQueue(queue) : StepOf(r) = s}
GroupsOf(s) == {r \in Request : Open(r) /\ StepOf(r) = s}

(* It pauses scheduling, then takes the epoch's queue and lists its groups *)
(* under the scheduling lock, which is never held across a suspension here *)
(* (no tasks_per_minute).                                                  *)
Supersede ==
  /\ canceller = "created"
  /\ paused' = TRUE
  /\ unopened' = QueuedOf(epoch)
  /\ queue' = Keep(queue, {r \in Request : StepOf(r) # epoch})
  /\ victims' = GroupsOf(epoch)
  /\ canceller' = "pick"
  /\ UNCHANGED <<todo, running, claimed, outq, putting>>

OwedInFlight(r) == running[r]                                       \* mutant
Owed(r) == running[r] \cup Unscheduled(r)

(* drop_group up to its put: the group is popped, its attempts claimed.    *)
DropGroup ==
  /\ canceller = "pick"
  /\ \E r \in victims :
       /\ victims' = victims \ {r}
       /\ running' = [running EXCEPT ![r] = {}]
       /\ todo' = [todo EXCEPT ![r] = 0]
       /\ claimed' = [claimed EXCEPT ![r] = running[r]]
       /\ IF Owed(r) = {}
          THEN UNCHANGED <<outq, putting, canceller>>
          ELSE Put("canceller", [request |-> r, members |-> Owed(r)]) /\ canceller' = "reap"
  /\ UNCHANGED <<paused, queue, unopened>>

(* safe_cancel_all: the claimed attempts have stopped.                     *)
Reap ==
  /\ canceller = "reap"
  /\ putting["canceller"] = <<>>
  /\ claimed' = [r \in Request |-> {}]
  /\ canceller' = "pick"
  /\ UNCHANGED <<paused, sourceVars, outq, putting, victims, unopened>>

CancelQueued ==
  /\ canceller = "pick"
  /\ victims = {}
  /\ putting["canceller"] = <<>>
  /\ IF unopened = {}
     THEN canceller' = "done" /\ UNCHANGED <<unopened, outq, putting>>
     ELSE /\ \E r \in unopened :
               /\ unopened' = unopened \ {r}
               /\ Put("canceller", [request |-> r, members |-> Members(r)])
          /\ UNCHANGED canceller
  /\ UNCHANGED <<paused, sourceVars, victims, claimed>>

Canceller ==
  /\ \/ Supersede \/ DropGroup \/ Reap \/ CancelQueued
     \/ FinishPut("canceller") /\ UNCHANGED <<paused, sourceVars, cancelVars>>
  /\ UNCHANGED <<config, trainerVars, stage, watch, lastStep, scan, epoch, pending,
                 served, mode, sinkVars>>
-----------------------------------------------------------------------------
(* The watch coroutine: Evals.run, watch, maybe_run_evals, consume_epoch.  *)

(* EvalSource.trigger: round robin over the examples of what fires.        *)
Rounds == NewestOf({Examples[e] : e \in Env})
RoundRobin(s) ==
  [i \in 1 .. (Len(Order) * Rounds) |->
     <<Order[((i - 1) % Len(Order)) + 1], ((i - 1) \div Len(Order)) + 1, s>>]
Requests(fired, s) == Keep(RoundRobin(s), {r \in Request : EnvOf(r) \in fired})
FiredWhenDue(s, force) == {e \in Env : Due(e, s)}                   \* mutant
Fired(s, force) == {e \in Env : force \/ Due(e, s)}

(* next_published_step and the test at the head of consume_epoch's loop.   *)
Newer(s) == {t \in Published(Listed) : t > s}
CreatedIfNewer(s) ==
  canceller' = IF config.cancel /\ canceller = "none" /\ Newer(s) # {}
               THEN "created" ELSE canceller

(* receive up to its acknowledgement: from here to the end of the load the *)
(* engines serve no single version.                                        *)
Acknowledge ==
  /\ watch \in {"startup", "receive"}
  /\ watch = "startup" => stage[epoch] = "offered"          \* wait_published
  /\ stage' = [stage EXCEPT ![epoch] = "acked"]
  /\ served' = NoVersion
  /\ watch' = IF watch = "startup" THEN "startup load" ELSE "load"
  /\ UNCHANGED <<lastStep, scan, epoch, pending, paused, mode, queue, canceller>>

(* switch_mode and the start of consume_epoch, or nothing fired.           *)
Begin(fired, otherwise) ==
  IF fired = {}
  THEN watch' = otherwise /\ UNCHANGED <<mode, canceller>>
  ELSE watch' = "consume" /\ mode' = "eval" /\ CreatedIfNewer(epoch)

(* The first trigger of a fresh run fires every environment or, under      *)
(* skip_first_step, none; a resumed run fires only if asked to.            *)
FiredAtStartup ==
  IF config.resume = 0
  THEN IF config.skipFirst THEN {} ELSE Env
  ELSE IF config.retrigger THEN Fired(epoch, epoch >= MaxSteps) ELSE {}

StartupLoad ==
  /\ watch = "startup load"
  /\ stage[epoch] = "finished"
  /\ served' = epoch
  /\ pending' = FiredAtStartup
  /\ queue' = Requests(FiredAtStartup, epoch)
  /\ Begin(FiredAtStartup, "scan")
  /\ UNCHANGED <<stage, lastStep, scan, epoch, paused>>

(* deleted_due_steps.                                                      *)
DeletedDue(listed) ==
  {s \in Step : /\ s > 0 /\ OnlineEvalStep(s) /\ s \notin listed
                /\ \E t \in Published(listed) : s <= t}

(* One look at the broadcasts directory.  It only matters once there is a  *)
(* step to walk or the run is over; otherwise watch sleeps.                *)
Scan ==
  /\ watch = "scan"
  /\ LET left == {s \in Listed \cup DeletedDue(Listed) : s > lastStep}
     IN  /\ left # {} \/ lastStep >= MaxSteps
         /\ scan' = [left |-> left, listed |-> Listed, published |-> Published(Listed)]
  /\ watch' = "walk"
  /\ UNCHANGED <<stage, lastStep, epoch, pending, served, paused, mode, queue, canceller>>

(* Vanished, or given up by the trainer: passed over with a warning.       *)
PassedOver(s) ==
  \/ s \notin scan.listed
  \/ s \notin scan.published /\ \E t \in scan.published : t > s
  \/ s \in scan.published /\ s \notin Published(Listed)
StillWritten(s) ==
  s \in scan.listed /\ s \notin scan.published /\ \A t \in scan.published : t < s

(* maybe_run_evals up to its first await: the trigger and the pause are    *)
(* one step, so nothing of the new epoch is dispatched before its weights. *)
Trigger(s) ==
  /\ epoch' = s
  /\ pending' = Fired(s, s >= MaxSteps)
  /\ queue' = queue \o Requests(Fired(s, s >= MaxSteps), s)
  /\ paused' = TRUE
  /\ watch' = "receive"

Walk ==
  /\ watch = "walk"
  /\ scan.left # {}
  /\ LET s == LeastOf(scan.left)
     IN  IF StillWritten(s)
         THEN /\ scan' = [scan EXCEPT !.left = {}]
              /\ UNCHANGED <<lastStep, epoch, pending, queue, paused, watch>>
         ELSE /\ scan' = [scan EXCEPT !.left = @ \ {s}]
              /\ lastStep' = s
              /\ IF PassedOver(s)
                 THEN UNCHANGED <<epoch, pending, queue, paused, watch>>
                 ELSE Trigger(s)
  /\ UNCHANGED <<stage, served, mode, canceller>>

EndWalk ==
  /\ watch = "walk"
  /\ scan.left = {}
  /\ watch' = IF lastStep >= MaxSteps THEN "done" ELSE "scan"
  /\ UNCHANGED <<stage, lastStep, scan, epoch, pending, served, paused, mode,
                 queue, canceller>>

(* The commit of the broadcast is there and the engines have loaded it.    *)
Load ==
  /\ watch = "load"
  /\ stage[epoch] = "finished"
  /\ served' = epoch
  /\ paused' = FALSE
  /\ Begin(pending, "walk")
  /\ UNCHANGED <<stage, lastStep, scan, epoch, pending, queue>>

Serve ==
  /\ Acknowledge \/ StartupLoad \/ Scan \/ Walk \/ EndWalk \/ Load
  /\ UNCHANGED <<config, trainerVars, todo, running, outq, putting, victims,
                 unopened, claimed, sinkVars>>

(* EvalSink: add, fail and cancel count the members of a message toward    *)
(* their group, a whole group toward its epoch, and a whole epoch is out.  *)
BatchOf(e, s) == {r \in Request : EnvOf(r) = e /\ StepOf(r) = s}
AttemptsIn(f, R) == Cardinality(UNION {{r} \X f[r] : r \in R})
BatchSize(e) == Examples[e] * GroupSize[e]
WholeGroup(r, members) == Cardinality(members) >= GroupSize[EnvOf(r)]

SinkTake(r, members) ==
  LET group == gathered[r] \cup members
      whole == WholeGroup(r, group)
      batch == IF whole THEN [batched EXCEPT ![r] = @ \cup group] ELSE batched
      key == <<EnvOf(r), StepOf(r)>>
      out == AttemptsIn(batch, BatchOf(EnvOf(r), StepOf(r))) >= BatchSize(EnvOf(r))
  IN  /\ gathered' = [gathered EXCEPT ![r] = IF whole THEN {} ELSE group]
      /\ IF out
         THEN /\ batched' = [x \in Request |-> IF x \in BatchOf(EnvOf(r), StepOf(r)) THEN {} ELSE batch[x]]
              /\ reported' = [reported EXCEPT ![key] = @ + 1]
              /\ pending' = pending \ {EnvOf(r)}
         ELSE batched' = batch /\ UNCHANGED <<reported, pending>>

JoinsNothing == FALSE                                               \* mutant
Joins == canceller' # "none"
AfterEpoch == IF epoch = config.resume THEN "scan" ELSE "walk"

(* One turn of consume_epoch's loop: take an item, and unless that ends    *)
(* the epoch look for a newer checkpoint before the next wait.             *)
Consume ==
  /\ watch = "consume"
  /\ outq # <<>>
  /\ outq' = Tail(outq)
  /\ SinkTake(Head(outq).request, Head(outq).members)
  /\ IF pending' = {}
     THEN /\ UNCHANGED canceller
          /\ watch' = IF Joins THEN "join" ELSE AfterEpoch
     ELSE CreatedIfNewer(epoch) /\ UNCHANGED watch

(* The wait for an item timed out (it has a timeout only if the epoch may  *)
(* be cancelled).                                                          *)
Look ==
  /\ watch = "consume"
  /\ outq = <<>>
  /\ CreatedIfNewer(epoch)
  /\ UNCHANGED <<watch, outq, pending, sinkVars>>

Join ==
  /\ watch = "join"
  /\ canceller = "done"
  /\ canceller' = "none"
  /\ watch' = AfterEpoch
  /\ UNCHANGED <<outq, pending, sinkVars>>

Epoch ==
  /\ Consume \/ Look \/ Join
  /\ UNCHANGED <<config, trainerVars, stage, lastStep, scan, epoch, served, paused,
                 mode, sourceVars, putting, victims, unopened, claimed>>
-----------------------------------------------------------------------------
Next == Trainer \/ Loop \/ Canceller \/ Serve \/ Epoch
Spec == Init /\ [][Next]_vars

(* Both processes keep running, every coroutine that can run gets its      *)
(* turn, and an attempt ends: it is answered, fails or times out in its    *)
(* environment server.                                                     *)
FairSpec ==
  Spec /\ WF_vars(Trainer) /\ WF_vars(Loop) /\ WF_vars(Canceller)
       /\ WF_vars(Serve) /\ WF_vars(Epoch)
-----------------------------------------------------------------------------

(* Every variable has its type, and the pool and the out queue stay within *)
(* their limits (max_inflight and maxsize of orchestrator/dispatcher.py).  *)
TypeOK ==
  /\ config \in [cancel : BOOLEAN, skipFirst : BOOLEAN, retrigger : BOOLEAN,
                 resume : Resumes]
  /\ trainer \in {"make", "offer", "wait", "clean", "train", "done"}
  /\ progress \in 1 .. (MaxSteps + 1)
  /\ offer \in Step
  /\ stage \in [Step -> {"none", "made", "offered", "acked", "finished"}]
  /\ watch \in {"startup", "startup load", "scan", "walk", "receive", "load",
                "consume", "join", "done"}
  /\ lastStep \in Step /\ epoch \in Step
  /\ scan \in [left : SUBSET Step, listed : SUBSET Step, published : SUBSET Step]
  /\ pending \in SUBSET Env
  /\ served \in Step \cup {NoVersion}
  /\ paused \in BOOLEAN /\ mode \in {"eval", "train"}
  /\ InQueue(queue) \subseteq Request
  /\ \A r \in Request :
       /\ todo[r] \in 0 .. GroupSize[EnvOf(r)]
       /\ \A f \in {running, claimed, gathered, batched} : f[r] \subseteq Members(r)
  /\ Cardinality(InFlight) <= Limit
  /\ Len(outq) <= OutMax
  /\ \A i \in DOMAIN outq : outq[i].members \subseteq Members(outq[i].request)
  /\ canceller \in {"none", "created", "pick", "reap", "done"}
  /\ victims \subseteq Request /\ unopened \subseteq Request
  /\ reported \in [Env \X Step -> Nat]

(* Every epoch measures exactly one policy version: an attempt runs on the *)
(* engines, a cancelled one until it has really stopped, only while they   *)
(* serve the version of its epoch (docs/training.md:201, evals.py 357 to   *)
(* 460).                                                                   *)
EpochMeasuresOneVersion ==
  \A r \in Request : running[r] \cup claimed[r] # {} => served = StepOf(r)

(* Where an attempt of a fired epoch is: queued, to be scheduled, running, *)
(* in a message on its way, or counted by the sink.                        *)
Places(r, k) ==
  {<<"queue", i>> : i \in {i \in DOMAIN queue : queue[i] = r}}
    \cup {<<"todo", 0>> : i \in Unscheduled(r) \cap {k}}
    \cup {<<"running", 0>> : i \in running[r] \cap {k}}
    \cup {<<"outq", i>> : i \in {i \in DOMAIN outq :
                                   outq[i].request = r /\ k \in outq[i].members}}
    \cup {<<p, 0>> : p \in {p \in DOMAIN putting : /\ putting[p] # <<>>
                                                   /\ putting[p][1].request = r
                                                   /\ k \in putting[p][1].members}}
    \cup {<<"unopened", 0>> : i \in unopened \cap {r}}
    \cup {<<"gathered", 0>> : i \in gathered[r] \cap {k}}
    \cup {<<"batched", 0>> : i \in batched[r] \cap {k}}

(* No attempt of a fired epoch is lost or counted twice, whatever the      *)
(* order of completions, failures, the cancellation of its group, of its   *)
(* queued example and of the wait for room in out_q; and once the epoch is *)
(* reported nothing of it is left anywhere (eval_sink.py,                  *)
(* Dispatcher.cancel_eval_step and drop_group).                            *)
AttemptsAccounted ==
  \A r \in Request : \A k \in Members(r) :
    Cardinality(Places(r, k)) =
      IF StepOf(r) = epoch /\ EnvOf(r) \in pending THEN 1 ELSE 0

(* A run that ends has reported every environment exactly once at every    *)
(* step it was due, and all of them at the last: no broadcast was passed   *)
(* over and none evaluated twice (docs/training.md:201: the final          *)
(* broadcast always fires every env).                                      *)
DueEpochsReported ==
  watch = "done" =>
    \A e \in Env : \A s \in (config.resume + 1) .. MaxSteps :
      reported[<<e, s>>] = IF Due(e, s) \/ s = MaxSteps THEN 1 ELSE 0

(* The lockstep of trainer and evals process never locks up: every version *)
(* the trainer offers is received and both run to their end.               *)
RunEnds == <>(trainer = "done" /\ watch = "done")

(* The final broadcast always fires every environment (docs/training.md:   *)
(* 201), also in a run resumed from its last checkpoint, which trains one  *)
(* more step.                                                              *)
FinalStep == IF config.resume < MaxSteps THEN MaxSteps ELSE config.resume + 1
FinalBroadcastFires == <>(\A e \in Env : reported[<<e, FinalStep>>] > 0)
=============================================================================
