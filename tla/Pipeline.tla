------------------------------ MODULE Pipeline ------------------------------
(***************************************************************************)
(* The orchestrator and the RL trainer together: the main loop that reads  *)
(* the dispatcher's results, holds and ships batches and winds the run     *)
(* down (orchestrator/orchestrator.py), the weight watcher as one of its   *)
(* component tasks, and the trainer's loop with the sentinel handshake of  *)
(* every weight broadcast (trainer/rl/train.py, transports/weights).       *)
(* Dispatcher leaves what these three may do open; this module closes it.  *)
(***************************************************************************)
EXTENDS Dispatcher

CONSTANTS
  FileSystem,    (* weights go through the filesystem, else NCCL              *)
  WatcherFails,  (* moving the engines onto a version may raise               *)
  WaitsExpire    (* weight_broadcast.timeout may run out on either side       *)

ASSUME PipelineAssumption ==
  /\ {FileSystem, WatcherFails, WaitsExpire} \subseteq BOOLEAN
  /\ MaxStep > 0

VARIABLES
  main,         (* where main_loop, finalize_train_batch or start() is       *)
  trainer,      (* where the trainer's loop is                               *)
  tstep,        (* progress.step of the trainer                              *)
  watcherTask,  (* the watcher's component task: "running" or "dead"         *)
  expired       (* history: a wait_for_version ran out                       *)

pipeVars == <<main, trainer, tstep, watcherTask, expired>>
pvars == <<gstate, toSchedule, emitted, gversion, inflight, waiting,
           currentInflight, maxInflight, admissions, mode, trainDisabled,
           dispatchAllowed, updatePending, outq, putting, loop, watcher, target,
           victims, need, version, step, evalQueue, posted, windowBase,
           main, trainer, tstep, watcherTask, expired>>
-----------------------------------------------------------------------------
Active == main \notin {"stopped", "failed"}
WatcherUp == watcherTask = "running"                                 \* mutant
ComponentsUp == loop = "running" /\ watcherTask = "running"

AlmostApplied(v) == version >= v - 1                                  \* mutant
Applied(v) == version >= v

(* The message at the head of out_q is the last of its group's: taking it   *)
(* finalises the group in the train sink.                                   *)
CompletesGroup(m) ==
  /\ posted[m.group] = GroupSize
  /\ \A i \in 2 .. Len(outq) : outq[i].group # m.group
  /\ \A p \in Proc : ~Runs(p) => putting[p][1].group # m.group

(* Top of main_loop: fail out, exit on a drained pipeline, or read out_q.   *)
Drained == trainDisabled /\ IsIdle
Poll ==
  /\ main = "top"
  /\ main' = IF ~ComponentsUp THEN "failed"
             ELSE IF Drained THEN "broadcast" ELSE "get"
  /\ UNCHANGED <<vars, trainer, tstep, watcherTask, expired>>

(* out_q.get() ran out after 0.5 s.                                        *)
GetExpires ==
  /\ main = "get"
  /\ outq = <<>>
  /\ main' = "top"
  /\ UNCHANGED <<vars, trainer, tstep, watcherTask, expired>>

(* One result is routed to its sink; which group completes a batch depends *)
(* on the batch size, and no batch is finalised while draining.            *)
Take ==
  /\ main = "get"
  /\ Consume
  /\ \/ main' = "top"
     \/ /\ main' = "hold"
        /\ Head(outq).group \in TrainGroup
        /\ CompletesGroup(Head(outq))
        /\ ~trainDisabled
  /\ UNCHANGED <<trainer, tstep, watcherTask, expired>>

(* finalize_train_batch once the version it holds for is live; the hold    *)
(* waits on version_advanced alone.                                        *)
ShipHeld ==
  /\ main = "hold"
  /\ Ship
  /\ main' = IF step >= MaxStep THEN "final" ELSE "top"
  /\ UNCHANGED <<trainer, tstep, watcherTask, expired>>

(* After the final batch: wait_for_version, then start_draining.           *)
DrainWhenApplied ==
  /\ Applied(MaxStep)
  /\ Drain
  /\ UNCHANGED expired
DrainExpired ==
  /\ WaitsExpire /\ ~Applied(MaxStep)
  /\ Drain
  /\ expired' = TRUE
FinalDrain ==
  /\ main = "final"
  /\ DrainWhenApplied \/ DrainExpired
  /\ main' = "top"
  /\ UNCHANGED <<trainer, tstep, watcherTask>>

(* wait_for_final_broadcast, after which start() tears the run down.       *)
Stop ==
  /\ main = "broadcast"
  /\ \/ Applied(MaxStep) /\ UNCHANGED expired
     \/ WaitsExpire /\ ~Applied(MaxStep) /\ expired' = TRUE
  /\ main' = "stopped"
  /\ UNCHANGED <<vars, trainer, tstep, watcherTask>>

(* wait_for_version polls the component tasks every 5 s.                   *)
FailWaiting ==
  /\ main \in {"final", "broadcast"}
  /\ ~Applied(MaxStep)
  /\ ~ComponentsUp
  /\ main' = "failed"
  /\ UNCHANGED <<vars, trainer, tstep, watcherTask, expired>>
-----------------------------------------------------------------------------
(* The watcher's task.                                                     *)
Watching == Active /\ watcherTask = "running"

Newer(v) == v > target

(* next_version sees the version the trainer offers.                       *)
SeeOffer ==
  /\ Watching
  /\ trainer = "offer"
  /\ Newer(tstep)
  /\ VersionPending
  /\ target' = tstep
  /\ UNCHANGED pipeVars

SendWithoutAck ==                                                    \* mutant
  /\ trainer = "offer"
  /\ trainer' = "transfer"
  /\ UNCHANGED <<vars, main, tstep, watcherTask, expired>>

(* receive() acknowledges the offer: the trainer may transfer.             *)
Ack ==
  /\ Watching
  /\ watcher = "receive"
  /\ trainer = "offer"
  /\ tstep = target
  /\ trainer' = "transfer"
  /\ UNCHANGED <<vars, main, tstep, watcherTask, expired>>

(* The engines hold v{target}: loaded from a finished directory, or got    *)
(* through the collective the trainer is in or has left.                   *)
Acknowledged == tstep > target \/ trainer \in {"transfer", "done"}
Finished == tstep > target \/ trainer = "done"
EnginesHold == IF FileSystem THEN Finished ELSE Acknowledged

Swap ==
  /\ Watching
  /\ EnginesHold
  /\ FinishUpdate
  /\ UNCHANGED pipeVars

UpdateFails ==
  /\ WatcherFails
  /\ Watching
  /\ watcher = "receive"
  /\ watcherTask' = "dead"
  /\ UNCHANGED <<vars, main, trainer, tstep, expired>>

WatchStep == Watching /\ (PassBarrier \/ DropStale \/ StartReceive) /\ UNCHANGED pipeVars
-----------------------------------------------------------------------------
(* The trainer's loop.                                                     *)

BatchShipped == step > tstep

(* wait_for_batch, the optimizer step, then the broadcast raises           *)
(* .sender_ready and waits for the receiver.                               *)
Train ==
  /\ trainer = "batch"
  /\ BatchShipped
  /\ trainer' = "offer"
  /\ UNCHANGED <<vars, main, tstep, watcherTask, expired>>


(* The transfer ends, .finished is raised and the next step begins.        *)
Commit ==
  /\ trainer = "transfer"
  /\ IF tstep >= MaxStep
     THEN trainer' = "done" /\ UNCHANGED tstep
     ELSE trainer' = "batch" /\ tstep' = tstep + 1
  /\ UNCHANGED <<vars, main, watcherTask, expired>>

(* No receiver joined within the timeout: the broadcast raises.            *)
OfferExpires ==
  /\ WaitsExpire
  /\ trainer = "offer"
  /\ trainer' = "dead"
  /\ UNCHANGED <<vars, main, tstep, watcherTask, expired>>

-----------------------------------------------------------------------------
PipelineInit ==
  /\ Init
  /\ main = "top"
  /\ trainer = "batch"
  /\ tstep = 1
  /\ watcherTask = "running"
  /\ expired = FALSE

MainStep ==
  Poll \/ GetExpires \/ Take \/ ShipHeld \/ FinalDrain \/ Stop \/ FailWaiting
UpdateStep == SeeOffer \/ WatchStep \/ Ack \/ Swap \/ UpdateFails
TrainerStep == Train \/ Commit \/ OfferExpires
DispatchStep ==
  /\ Active
  /\ LoopStep \/ CutStep \/ SetLimit \/ \E p \in Proc : FinishPut(p)
  /\ UNCHANGED pipeVars

PipelineNext == MainStep \/ UpdateStep \/ TrainerStep \/ DispatchStep

PipelineSpec == PipelineInit /\ [][PipelineNext]_pvars
-----------------------------------------------------------------------------
PipelineTypeOK ==
  /\ main \in {"top", "get", "hold", "final", "broadcast", "stopped", "failed"}
  /\ trainer \in {"batch", "offer", "transfer", "done", "dead"}
  /\ tstep \in 1 .. MaxStep
  /\ watcherTask \in {"running", "dead"}
  /\ expired \in BOOLEAN

(* The handshake keeps both sides in lockstep: the inference engines apply  *)
(* every version the trainer produces, one after the other, although the   *)
(* watcher jumps to the newest one it finds.                                *)
NoVersionSkipped == [][version' # version => version' = version + 1]_pvars

(* An offered version is that of a batch already shipped and is newer than  *)
(* anything inference runs, so the watcher never refuses or loses an offer. *)
OffersAreDue == trainer = "offer" => version < tstep /\ tstep < step

(* "tearing down the watcher before it would strand the trainer inside the  *)
(* handshake" (wait_for_final_broadcast): on a clean exit that did not time *)
(* out the trainer has had its last version acknowledged.                   *)
ExitFreesTrainer ==
  main = "stopped" /\ ~expired => tstep = MaxStep /\ trainer \in {"transfer", "done"}

(* The final version is applied, and its eval epoch triggered, before the   *)
(* run drains: a clean exit leaves no triggered eval undone (start_draining *)
(* promises "triggered eval epochs still run to completion").  With a rate  *)
(* limiter it fails: is_idle does not see the attempt that waits in it.     *)
EvalSettled ==
  /\ ~EvalHasWork
  /\ \A g \in EvalGroup : gstate[g] # "fresh" => posted[g] = GroupSize
ExitLeavesNoEval == main = "stopped" /\ ~expired => EvalSettled

(* A held batch is "always satisfiable: the trainer broadcasts every        *)
(* version" (finalize_train_batch): the watcher the hold waits for does not *)
(* itself wait for the main loop to make room on out_q.                     *)
HoldSatisfiable ==
  main = "hold" /\ version < Required => Runs("watcher") \/ Room
-----------------------------------------------------------------------------
(* Fairness.  Every coroutine that can go on does so (one event loop): the  *)
(* main loop, the watcher's task, the dispatch loop, which wakes at least   *)
(* every 0.5 s and finds the 5 s burst window elapsed, and in order whoever *)
(* waits to put.  Attempts end and are handled, the limiter lets its waiter *)
(* through, the trainer trains what was shipped and completes a transfer.   *)
(* Nothing says that train work is dispatched or a batch ever completed.    *)
DispatchFair(A) == Active /\ A /\ UNCHANGED pipeVars
PipelineFairness ==
  /\ WF_pvars(MainStep)
  /\ WF_pvars(SeeOffer \/ WatchStep \/ Ack \/ Swap)
  /\ WF_pvars(Train \/ Commit)
  /\ WF_pvars(DispatchFair(ContinueEval \/ OpenEval \/ EvalDrained))
  /\ WF_pvars(DispatchFair(RollWindow))
  /\ WF_pvars(DispatchFair(LimiterGrant))
  /\ SF_pvars(DispatchFair(\E t \in Task : HandleCompleted(t)))
  /\ \A p \in Proc : SF_pvars(DispatchFair(FinishPut(p)))

FairPipeline == PipelineSpec /\ PipelineFairness

(* The deadlock that HoldSatisfiable runs into: the main loop waits for the *)
(* watcher, in a hold or for the final version, and the watcher, dropping a *)
(* stale group, waits for the main loop to make room on out_q.              *)
AwaitsWatcher ==
  \/ main = "hold" /\ version < Required
  \/ main = "final" /\ ~Applied(MaxStep)
Jammed == AwaitsWatcher /\ ~Runs("watcher") /\ ~Room

(* That deadlock is the only one a hold can end in.  The main loop waits    *)
(* for the watcher, the watcher for the trainer, the trainer for batches,   *)
(* and the dispatch loop perhaps for room on the full out_q that nobody     *)
(* reads meanwhile: otherwise the version arrives and the batch ships.      *)
HoldEnds == main = "hold" ~> (main # "hold" \/ Jammed)
DrainEnds == step > MaxStep ~> ~Active

(* A triggered eval epoch is dispatched and settled in full, whatever train *)
(* work, weight updates, cuts and limits come in between and however long   *)
(* no batch completes, unless the run ends first.                           *)
EvalSettles ==
  /\ evalQueue # <<>> ~> (evalQueue = <<>> \/ ~Active)
  /\ \A g \in EvalGroup : Open(g) ~> (posted[g] = GroupSize \/ ~Active)

(* "Propagate unexpected background-component termination to the run": a    *)
(* hold does not poll the component tasks, so the run that loses its        *)
(* dispatcher in one goes on until the version arrives, and fails then.     *)
DeadDispatcherEndsRun == loop = "dead" ~> (~Active \/ Jammed)
DeadWatcherEndsRun == watcherTask = "dead" ~> ~Active
=============================================================================
