# TLA+ models of prime-rl

prime-rl trains language models with asynchronous reinforcement learning.  An
*orchestrator* keeps inference engines busy with environment episodes, filters
them into training batches and ships those to a *trainer*; the trainer
broadcasts every new policy version back to the engines.  Everything overlaps,
and every rule of the system (how stale a trained sample may be, how many
episodes run at once, when a group counts as finished, when the run may end)
is kept by several coroutines and processes that suspend at different points.
These models check those rules.

Paths below are relative to `src/src/prime_rl/`.

## 1. Inventory

| component | state | operations | talks to | hard behaviour |
|---|---|---|---|---|
| **Dispatcher** `orchestrator/dispatcher.py` | `groups`, `inflight`, `current_inflight`, `max_inflight`, `admissions_in_window`, `mode`, `out_q`, `dispatch_allowed`, `policy_update_pending` | `fill_inflight`, `handle_completed_request`, `drop_group`, `_cancel_inflight`, `on_version_pending`, `cancel_inflight_train_episodes`, `set_limit` | reads `Policy.version`, `Progress.step`; puts to `out_q`; called by the watcher, the controller and the main loop | coroutines suspend in the rate limiter, on the full queue and on cancelled tasks while others claim the same tasks |
| **Train sink** `orchestrator/train_sink.py` | `pending_groups` / `_failures` / `_cancellations`, `pending_batch`, `pending_tokens`, `_swept_step`, `zero_output_units` | `add`, `fail`, `cancel`, `process_group`, `_drop_stale`, `process_batch` | fed by the main loop; reads `progress.step` | messages of a group come in any order; queued traces age whenever a batch ships |
| **Main loop** `orchestrator/orchestrator.py` | `progress`, `draining`, `policy`, `version_advanced`, `component_tasks` | `main_loop`, `finalize_train_batch`, `update_dispatch_gate`, `start_draining`, `trigger_eval`, `wait_for_version`, `maybe_save_ckpt` | all of the above, the batch sender | does not read `out_q` while it holds a batch |
| **Weight watcher** `orchestrator/watcher.py` | `ckpt_step`, `update_lock` | `start`, `apply_policy_update`, `stop` | weight receiver, dispatcher, main loop hooks | suspends in `drop_group` and in the engines' update |
| **Eval sink, eval source** `orchestrator/eval_sink.py`, `eval_source.py` | `pending_*`, `group_buffers`, `queue`, `first_trigger` | `trigger`, `next_task`, `cancel_step`, `add`, `fail`, `cancel`, `process_batch` | dispatcher, main loop, evals process | epochs of several steps and environments overlap |
| **Concurrency controller** `orchestrator/concurrency.py` | `cap`, `max_inflight`, growth gate, `draining`, `escalated`, `trim_cooldown` | `observe`, `record_episode`, `resize_down`, `apply_limit` | metrics collector, `set_limit`, `cancel_inflight` | a feedback loop over measurements that show the effect of an earlier cut late |
| **Evals process** `evals/evals.py` | `last_step`, the active epoch, its cancellation task | `watch`, `maybe_run_evals`, `consume_epoch` | a dispatcher of its own, the SFT trainer's broadcasts | a newer checkpoint supersedes an epoch in any stage of its life |
| **Weight transports** `transports/weights/`, `inference/vllm/worker/nixl.py` | marker files; for NIXL staging buffers, receive buffers and session statuses | `broadcast`, `next_version`, `wait_published`, `receive`, `sync_startup`, `update_weights_from_path` | trainer ranks, watcher, inference workers | rendezvous over files and over statuses that name no version; either side may restart or time out |
| **Batch transports** `transports/batch/` | files or ZMQ sockets per data rank | `send`, `wait`, `receive` | main loop, trainer | step numbers on both sides must agree after a resume |
| **Trainer loop** `trainer/rl/train.py`, `trainer/ckpt.py` | step, model, optimizer, checkpoints | startup broadcast, load batch, train, broadcast, checkpoint | both transports | checkpoints of two processes must agree on resume |
| **Checkpoints** `orchestrator/ckpt.py`, `utils/pathing.py` | `step_N` directories | `save`, `load`, `resolve_latest_ckpt_step`, `clean_future_steps` | main loop, trainer | crash between the two processes' saves |
| **Packing** `trainer/batch.py`, `orchestrator/packing.py` | bins, micro batches per rank | `prepare_batch` and its heuristics | main loop | every rank needs as many micro batches as the others, of one modality at a time |
| **Optimizer offload** `trainer/optim/offload.py` | queues, slots, events, accumulators, chunks | hooks, `finish_backward`, `step`, `zero_grad`, three worker threads | the backward of the trainer, two CUDA streams | six actors; weights are replaced while a backward still runs |
| **SFT trainer** `trainer/sft/train.py`, `sft/data.py` | step, dataset positions, pending sample, loader snapshots | draw, pack, train, validate, checkpoint, resume, broadcast at eval steps | loader workers, evals process | workers run ahead of the trainer; a resume must find the position behind the last trained row; validation shards are uneven |
| **Curriculum, algorithms** `orchestrator/curriculum/`, `orchestrator/algo/` | task statistics | `on_result`, `finalize_group` | train sink, train source | pure numerics, tested |
| **Inference servers** `inference/` | engine state | weight update endpoints, token serving | watcher, dispatcher | patched third-party engine |
| **Rest** dashboard, monitors, models, kernels, configs | | | | rendering, numerics |

What makes the components correct:

- *Dispatcher*: permits equal tasks in flight; every attempt of an opened group
  is settled by exactly one message; a group is not cancelled twice; nothing is
  dispatched across a weight swap; the pool grows no faster than the burst cap;
  groups are dispatched one at a time; evals finish.
- *Train sink*: nothing past `max_off_policy_steps` ships; a group is finalised
  once; the token count matches the queue; every group is reported once; a run
  that trains on nothing stops.
- *Main loop and watcher*: a held batch is eventually released; the run drains;
  evals that were triggered finish before the exit.
- *Transports, checkpoints*: both sides agree on the version being exchanged; a
  receiver never loads half a version; nothing is overwritten while it is read;
  after any crash both processes resume from the same step.
- *Concurrency controller*: one overload is cut once; the cap grows on good and
  fresh evidence only; a cut is not for ever.
- *Evals process*: an epoch measures one version; every attempt of it is
  accounted for; every epoch that is due is reported once; nobody waits for good.
- *Packing*: every sample trains once; ranks stay in step; bins fit.
- *SFT trainer*: across kills every usable sample trains once, in order; every row
  trains something; ranks with uneven shards never wait for each other for good.
- *Offload*: a chunk is stepped with exactly the step's gradients; weights hold
  still while a gradient may be computed from them; a failing thread stops the run.

## 2. Modules

### Dispatcher

`Dispatcher.tla` is one asyncio event loop.  A coroutine is atomic between two
awaits that can really suspend it, and those awaits are the model's program
counters:

- `waiting`: `schedule_group_episode` inside the rate limiter, holding
  `scheduling_lock`, after it decremented `episodes_to_schedule`;
- `putting[p]`: a coroutine on the full `out_q`.  Coroutines are the dispatch
  loop, the watcher and one task per overload cut;
- `watcher`: `apply_policy_update` between the sighting of a version, the lock
  barrier, the drops, the engines' update and the notification;
- `victims[p]`: the groups a dropping coroutine listed and has still to drop.

A group is `fresh` (its uuid not yet drawn), `open` (in `self.groups`) or
`closed`.  An episode attempt is the k-th member of its group.  A result and a
request failure settle the same attempt in the same way and are one message
type; a cancellation carries its count.  `posted` and `windowBase` are history
variables.  The watcher, the gate and the shipping side of the main loop are
environment actions of this module: the trainer may publish any version it has
a batch for, and the main loop may read the queue and ship at any time the code
could.  `Pipeline` replaces them by the code that drives them.

`GroupLedger.tla` is what the dispatcher promises the sinks: a group that opens
owes `group_size` attempts; every message settles part of what one group owes;
nothing else changes the account except that train work may be abandoned.
`Dispatcher!LedgerSpec` is the refinement.

### Train sink

`TrainSink.tla` handles one message per step, since the main loop does and the
sink is not shared.  What the algorithm, the tokenizer and the curriculum decide
is a choice; what follows from it is the code's.  A batch is `held` in `batch`
until the version it needs is live, which is where staleness could creep in.
The dispatcher appears as the ledger: a group owes `GroupSize` attempts and the
sink receives them as episodes, failures and at most one cancellation.

### Pipeline

`Pipeline.tla` extends `Dispatcher` and closes its environment with the code
that really drives it.  `main` is where the orchestrator's main coroutine is:
`top` and `get` are the two awaits of `main_loop`, `hold` the wait inside
`finalize_train_batch`, `final` the `wait_for_version` after the last batch,
`broadcast` the `wait_for_final_broadcast` of `start()`; then `stopped` (clean)
or `failed` (a component task ended, or a wait noticed that it had).
`trainer` is the trainer's loop: `batch` (waiting in the data loader), `offer`
(`.sender_ready` raised, waiting for `.receiver_ready`), `transfer`, `done`,
or `dead` after the handshake's timeout.  `watcherTask` dies when the engines'
update raises.  The watcher's `ckpt_step` is `target`.

A taken message finalises a group exactly when nothing of that group is left in
the queue or with a waiting putter; whether that group completes a batch
depends on the batch size and is a choice (`TrainSink` models what the sink
does with it).  With the filesystem transport the engines load only after
`.finished`; with NCCL they finish with the collective, which the trainer may
leave first or last (`EnginesHold`).

### Recovery

`Recovery.tla` is the run directory and what successive launches make of it, on
the filesystem transports with checkpointing on.  A launch is a *life*: the
launcher resolves the step to resume from, removes later rollouts and
broadcasts, and starts trainer and orchestrator, which resolve the step again
each on their own.  Either may fail at any point, the launcher then takes the
other down (`Reap`), and the whole job may be killed (`Killed`); files stay,
memory is reset.  The next life resumes from the latest directory (`asked` 0)
or from any step that has one.

`ckptDir` is the set of `step_N` directories; the halves in them are
`orchSaved` and `trainSaved`.  The orchestrator's half appears by an atomic
rename, but its directory before it (`BeginSave`, `EndSave`).  The trainer's is
written in place: `torn` is a first write cut short, which fails to load for
want of metadata, `mixed` a cut-short overwrite, which may load.  `rollouts` and
`offeredIn` record the life that wrote a batch or a broadcast, 0 for none, and
`stage` the last marker of a broadcast.  `trainer` walks through `setup`,
`startup`, `offer`, `transfer`, `batch`, `trained`, `saving`, `saved`; `orch`
through `setup`, `sync` (the startup rendezvous), `main`, `sending` (the worker
thread writes the batch, the event loop goes on), `saving` (one turn of the
event loop, which nothing but a kill interrupts), and leaves by the final save
of `start()`.  Dispatching and filtering are left out: a batch may be ready
whenever the hold allows it to ship.

### Concurrency

`Concurrency.tla` is `ConcurrencyController` and the pool it steers.  A poll is
one action: `Watch` leaves the cap alone, `Cut` and `Trim` call `resize_down`,
and each first judges the reading (`Judge`: growth gate, queue persistence,
cooldown, release of a drain, grace of an escalation).  `Complete` is
`record_episode`, after the permit was released; `Shed` is the task that
cancels an overload's excess later, with the number the poll computed; `Miss`
and `Expire` are a poll nobody answered and the gate's deadline.  The cap is kept
in quarters of an episode: the code multiplies it by a number that adds 0.2 to
0.25 of an episode at a full pool.  `load` and `cuts` are history variables.

### EvalEpochs

`EvalEpochs.tla` joins four components: the SFT trainer's side of the weight
broadcasts, `Evals.watch` and `consume_epoch`, the eval half of a dispatcher
with `cancel_eval_step` and `drop_group`, and the eval source and sink.  The
trainer is a process; `watch`, the dispatch loop (`Loop`) and the cancellation
task of a superseded epoch (`Canceller`) are coroutines of one event loop, whose
program counters are `watch`, `mode` with `putting`, and `canceller`.  A request
is an example of an environment at a step; its attempts are followed one by one
through `queue`, `todo`, `running`, `claimed`, `outq`, `putting`, `gathered` and
`batched` (the sink's counters).  Finding the newer checkpoint, cancelling,
draining what is cancelled and joining the task are the code's, and so is the
order in which `maybe_run_evals` walks the steps it missed.

### Nixl

`Nixl.tla` is the sender's ranks, the orchestrator's receiver and the engines'
workers.  `at` and `pos` are where a rank is in `_broadcast`: positions below
`Groups` stage a group, the ones above finish the buffers still out.  The other
ranks wait only in barriers, so they copy ahead of the master's handshake.
`table` and `buf` are the `ModelExpress` statuses, which carry no version: the
same READY and INITIALIZING serve every round.  A worker is `doing` (its main
thread), `next` (the group it replays) and `pull` (the transfer, in the prefetch
thread when it has two receive buffers).  A piece of weights is the version and
group it was copied from.

An engine is a set of workers with one admin client.  `update_weights` posts the
call to every engine (`Call`), and `_admin_post` repeats the post of one
whenever a worker raises, the answer is late or the connection breaks (`Retry`),
up to `MaxAttempts` (10 in the code); then, or on an error that is not retryable,
it gives up (`GiveUp`), and the `finally` resumes the engines.  `posts` counts the
attempts that reach an engine (one that does not is as if it had not been made),
`calls` those a worker has begun to serve, one after the other: a worker whose
call failed, or is still running, is called again in the middle of the
broadcast, and `apply_transfer_plan` starts with group 0 (`Join`, `Start`).

### Offload

`Offload.tla` is the optimizer whose state lives on the CPU.  `main` is the
training thread (`Hook` is the gradient hook of a parameter, `FinishBackward`,
`StepOverlapped` and `StepSync` the two kinds of optimizer step, `ZeroGrad`); the
transfer thread, the copy thread and the reclaimer take from `transfer`, `tasks`
and `release`; `d2h` and `h2d` are the CUDA streams, which execute what was
enqueued later and in order.  A gradient is a parameter and a backward, weights
are a chunk and a version: `acc`, `used` and `gpu` say what really ended up
where.  Any worker may raise (`Fault`).

### Packing

`Packing.tla` is `prepare_batch` as its loops, one iteration a step: truncation
that keeps the first images of a sample and cuts before the next, first-fit decreasing under the rules of what may share a
bin, splitting until the ranks come out even, padding with micro batches without
loss, and for each modality Karmarkar-Karp and the refinement by swaps.  A
sample is its length, where the placeholders of its images are, how many of them
its first k images have (`upto`: what `_truncate_mm` accumulates from the rows of
`image_grid_thw`), the shape of a row of its image tensors and whether it has
routed experts.  A cut at `seq_len` keeps the first `Kept` images, all of whose
placeholders lie before it, slices the tensors to these, and moves to the first
placeholder of the next image if it would fall inside that one.  Python's sorts, heaps and maxima are one
operator, `SortBy`: the domain of a function by its values, which are lists of
numbers compared as Python compares lists (`Less`); ties end with the index, as
they do in a stable sort.

### SftData

`SftData.tla` is what an SFT run trains on.  A stream is a training or
validation loader's worker of a rank, with `ds` (the `step` and `epoch` of
`SFTDataset`, the `pending_sample` of `CatDataset`: what `state_dict` saves)
and `it` (what the iterator alone holds: the shuffled table, the open pack).
`Draw`, `Skip` and `Finish` are the turns of `SFTDataset.__iter__`, `PackPending`
the sample held back; each sample ends in `Hold`, `Fill` or `Add`, the three
ways through the loop of `CatDataset`.  Rows wait in `queue` with the state
behind them; `TakeRow` moves that state into `loader`, the part of torchdata's
`StatefulDataLoader` a checkpoint saves (external, modelled from how `data.py`
and `ckpt.py` use it).  The trainer walks through `micro`, `val`, `optim`,
`save` and `count`; the micro batches and the votes of `run_eval_loop` are
collectives.  `SaveLoader` and `SaveModel` are the two halves of a save,
`Crash` a kill anywhere, `Resume` and `StartOver` the next launch, from any
whole checkpoint.  An example is its length, the positions that train, its stop
tokens and its images; `weights` is the history of rows they were trained on.

## 3. Runs

Every passing run explores its state space completely.  Symmetry is used for
interchangeable group ids only, and only where no fairness is assumed.  Two runs
have a `CONSTRAINT`.  `OpensInOrder` (`pipeline_hold`, where fairness rules out
symmetry) looks at the behaviours that open the train groups in the order of
their numbers, which are all behaviours up to a renaming of the ids.  `Up` (`nixl`)
checks a state in which the trainer or the receiver has failed but nothing
behind it: from there on `Failed` and `receiver = "failed"` or a halted trainer
stay for good.  `TransfersHoldAlways` and `WholeWeightsAlways` cover what follows.

| run | instance | what it shows |
|---|---|---|
| `dispatcher_core` | a train and an eval group of 2, an eval epoch at the start or none, caps 2 and 3, queue of 3, limiter, one overload cut, 2 batches, bound 0 | permits equal tasks (`PermitAccounting`), attempts are settled once (`ExactlyOnce`), metered growth (`GrowthIsMetered`), stale groups cut (`StaleWorkCut`), no dispatch across the swap (`NoDispatchDuringSwap`), refinement of `GroupLedger` (`LedgerSpec`) |
| `sink` | 2 live groups of 2 and a frozen one, batches of 1 or 2 traces or of 3 tokens, starts at step 1 and 3, budget of 2 | nothing stale ships (`StalenessBound`), groups finalise once (`FinalisedOnce`), a run that trains on nothing stops (`BarrenBounded`) |
| `pipeline_hold` | 6 train groups of 1, pool and queue of 2, bound 0, 3 batches, filesystem, fairness | versions are applied one by one (`NoVersionSkipped`); a hold ends (`HoldEnds`), and a run whose dispatch task died fails (`DeadDispatcherEndsRun`), except in the one deadlock that `pipeline_full` shows (`Jammed`) |
| `pipeline_wind` | a train group and two eval groups of 2, eval epochs at versions 0 and 1, a cut, NCCL, a failing update, expiring waits, fairness | a clean exit frees the trainer (`ExitFreesTrainer`) and leaves no eval undone (`ExitLeavesNoEval`), the drain ends (`DrainEnds`), a triggered eval epoch is settled (`EvalSettles`) |
| `recovery` | 5 steps, a checkpoint every 2, `keep_last` 2, lag 1, 3 launches with failures and kills anywhere, fairness | everybody resumes from one step (`ResumeTogether`), trains on and loads nothing an earlier launch left (`OwnBatch`, `LoadsWhole`), keeps a step to return to (`RollbackPoint`), and every broadcast is joined (`OfferAnswered`) |
| `concurrency` | caps 1 to 4, a capacity of 2 found late, KV usages of 50, 85 and 95 %, queueing or not, groups of 2, polls missed | one overload is cut once (`OneCutPerOverload`), a cut pool gets back to its ceiling when the engines stay idle and demand does not (`Recovers`) |
| `online_evals` | 4 steps, environments every 2 and 3 steps, 2 examples of 2 and of 1 attempts, 2 in flight, queue of 2, fresh and resumed at 2, each with and without cancelling, skipping and retriggering | attempts run on their epoch's version (`EpochMeasuresOneVersion`) and none is lost or counted twice (`AttemptsAccounted`), every due epoch is reported once (`DueEpochsReported`), trainer and evals process both end (`RunEnds`) |
| `offload` | 3 parameters in 2 chunks, one of them skipped by some backwards, 2 steps of 3 micro batches, window of 2, 2 and 1 slots, any thread failing anywhere | a chunk is stepped once with the step's gradients (`GradientsAllTrain`), weights hold still (`WeightsHoldStill`), the pipeline's checks never raise (`NoProtocolError`), the training thread is never left waiting (`RunEnds`) |
| `packing` | every multiset of 6 samples of 9 kinds, 2 ranks, `seq_len` 10 | samples train once (`SamplesTrainOnce`), ranks stay in step (`RanksInStep`), bins fit (`PacksFit`) |
| `nixl` | 2 broadcasts of 3 groups, up to 2 staging buffers, a master, a serving rank and one that serves nothing, 2 engines of a worker with 1 or 2 receive buffers, any wait may time out, any pull fail and any post be repeated once | nothing is overwritten while it is read, whatever calls of a worker overlap the broadcast (`TransfersHold`), running engines hold one whole version (`WholeWeights`), broadcasts end (`BroadcastsEnd`) |
| `sft_data` | 2 ranks, `cp` of 1 and 2, a worker that prepares 2 rows, 3 steps of 2 rows of 6 tokens, 5 examples, a checkpoint after each step, validation at step 2, a kill anywhere, fairness | the weights have seen every usable sample of the shard once and in order, and `cp` ranks the same rows (`StreamIntact`), every row trains and keeps images whole (`RowsTrain`), the run ends (`RunEnds`) |
| `pipeline_full` | as `pipeline_hold`, over NCCL | refutes `HoldSatisfiable` |

### Where the code does not keep what it says

`pipeline_full` refutes a statement of the code (`HoldSatisfiable`; the finding
in `PROJECT.json` quotes the line): the main loop holds batch `s` for version
`s - 2`.  The queue fills.  The version is offered, makes an open group stale,
and the watcher waits in `drop_group` for room on the queue that only the main
loop empties.  Nothing moves until the trainer's handshake times out.  The
main loop does not read the queue in `wait_for_version` after the final batch
either (`orchestrator.py:743-745`, `:479-502`); there the same jam lasts until
`weight_broadcast.timeout`.  `HoldEnds` and `DeadDispatcherEndsRun` show that
there is no other: whenever the run is not `Jammed`, somebody can go on and the
hold ends.

Seven more configurations, beside the runs, each give a counterexample to a
statement of the code or its documentation (`tlc -config X.cfg M`):

- `dispatcher_orphan.cfg` with `MCDispatcher`, `NoOrphan`: an attempt that waits
  in the rate limiter is in no table `drop_group` looks at
  (`orchestrator/dispatcher.py:690-692`: a group without an entry has nothing in
  flight or unscheduled; `types.py:43-45`: one marker covers all it still owed).  Its group is dropped, the limiter lets it through, and it runs for a
  group that no longer exists; a second drop can then send a second cancellation.
- `pipeline_exit_limited.cfg` with `MCPipeline`, `ExitLeavesNoEval`: the same
  wait is invisible to `is_idle` (`dispatcher.py:309`), so the run may end with
  an eval attempt outstanding (`orchestrator.py:756-757`: triggered epochs still
  run to completion).
- `pipeline_dead_watcher.cfg` with `MCPipeline`, `DeadWatcherEndsRun`: the hold
  (`orchestrator.py:649`) waits on `version_advanced` only, without the 5 s poll
  of `wait_for_version`; a watcher that died is not noticed, contrary to
  `orchestrator.py:577-578`.
- `recovery_latest.cfg` with `Recovery`, `LatestResumes`:
  `resolve_latest_ckpt_step` (`utils/pathing.py:231`) takes the newest `step_N`.
  An interrupted orchestrator saves the last step it shipped
  (`orchestrator.py:468-471`), which the trainer may not have trained, let alone
  saved; `--resume` (`docs/training.md:283`) then picks a directory without a
  `trainer/` and the trainer dies, although an older step is whole.  Naming that
  step (`--resume.step`) works, and `RollbackPoint` says it is always there.
- `evals_past_end.cfg` with `MCEvalEpochs`, `FinalBroadcastFires`: an SFT run
  resumed at `max_steps` trains one step more and offers a version past the
  last, which `evals.py:323` never receives; `docs/training.md:201` says the
  final broadcast fires every environment.
- `sft_workers.cfg` with `MCSftData`, `EachSampleOnce`: the dataset is built in
  the main process, where `get_worker_info()` is `None`
  (`trainer/sft/data.py:236-244`), and copied into the workers.  With
  `data.num_workers` 2 both workers of a rank yield its whole shard, against
  "Skip samples that don't belong to this data rank" (`data.py:412`).
- `sft_tokens.cfg` with `MCSftData`, `TokensCounted`: a checkpoint is written
  (`trainer/sft/train.py:568`) before its step's tokens are added (`:592`), so a
  resumed run's `progress/num_tokens`, the "dataset progress" of
  `docs/training.md:242`, lacks a step for each resume.

### What else the models showed

These contradict no text and are therefore not findings.  With `keep_last` 1 the trainer removes the previous
checkpoint before the orchestrator has written its half of the new one (always
so at the last step), and a crash in between leaves nothing whole.  With
`keep_interval` alone the step just saved is removed at once unless it is a
multiple (`RecoveryAssumption` excludes that setting).  A save after a rewind
overwrites a step in place, and if it is cut short the next resume may load the
mixture; `RollbackPoint` excepts a run that resumed from one.  And a run resumed
at its last step never ends: the orchestrator drains and exits, the trainer
waits for a batch, the launcher for the trainer.

An overload that shows in every poll is cut once however long it lasts: the
release from draining asks for a poll without overload, so the escalated cut is
only for an overload that went away and returned within the grace.
The excess a cancel task works off is the one its poll saw; episodes that
completed in between are cancelled in addition.  When one NIXL worker fails, the
`finally` of `update_weights` resumes the engines while the other workers go on
pulling, so that engines may serve mixed weights until the receiver's failure
takes the run down; `WholeWeights` excepts a failed receiver.  The receiver's
last wait, for the trainer's INITIALIZING, is not needed for any of this: the
next version is offered only behind it.

A repeated post of `/update_weights` does not help NIXL once a group is
finished.  The worker is called again and starts with group 0
(`inference/vllm/worker/nixl.py:507-563`), in whose buffer another group has been staged
since: it sees READY, reads that group's bytes as the first group's and
acknowledges them.  `nixl_again.cfg` with `Nixl` shows it (`CallsHold` is refuted;
the shortest trace is a worker that fails after one group).  What remains true is
`TransfersHold`: what such a call reads is whole, of one group of this version,
and is not overwritten meanwhile; and `WholeWeights`: the call never gets to the
last group, since the master does not raise the first ones again, so the update
ends in the receiver's failure, and only then do engines run with what was
replayed.  Attempts repeated before any group is finished can succeed.

In SFT, `progress.total_samples` is read from the dataset of the main process
(`sft/train.py:593`), which stays at position zero (the docstring of
`get_dataset_state` says so).  A shard without a usable example keeps its worker
looking for one for ever, and the trainer waits.  Validation stops with the
rank that has the fewest rows, so what the other shards have beyond them is
not validated.

The limiter wait also sits between the check of the cap and the taking of the
permit, so `AdmitsWithinCap` is a property of runs without a limiter: with one,
a cap lowered during the wait is exceeded by one.  Where a property holds
without a rate limiter only, its run sets `RateLimited` to `FALSE`.

**Bounds.**  `MaxStep` bounds the batches: a hold needs `TARGET_LAG + 2 = 3` of
them, a drain 1.  Group sizes of 2 give the cases a group can be in (nothing,
part, all dispatched; part settled); where only the order of groups matters the
size is 1.  Two groups are enough for one to be dropped or waiting
while another is opened or completed; `dispatcher_two.cfg` with `MCDispatcher` has two train groups, so
that the batches and the swap come between two drops (957,098 states, `StaleWorkCut`
holds); a hold needs a group per batch behind it,
and six groups to let the queue fill, and open groups go stale, while versions
are still to come: `pipeline_hold` reaches `Jammed`.  `QueueMax` keeps the code's relation to the limits: at least every limit
(`max(8, ceiling)`, assumed by `DispatcherAssumption`), so a full queue takes
finished attempts on top of the ones in flight.  `MinBurst` of 1 or 2 against caps of 2 or 3 makes the burst window bind
and roll.  One overload cut races the watcher and the loop; further cuts are
further copies of the same coroutine.  `MaxOffPolicy` is 0, so that staleness
bites within three versions.  A hold that waits needs version 1 at least, so
`pipeline_hold` ships 3 batches; `pipeline_wind` needs only one for a drain and
an exit, and triggers an epoch before and one after the final version.  The
sink's `MaxSteps` of 2 lets a queued trace age twice, which takes it past a
bound of 0; `TokenSizes` of 1 and 2 against a target of 3 give batches that are
hit and overshot.  `recovery` needs five steps: two interval checkpoints and a
final one make retention remove a step, and the orchestrator's lead of
`TARGET_LAG + 1` then leaves directories the trainer has no half of; two
crashes let a life resume from what an already resumed one left, three launches
being the bound `MaxLives`.

`concurrency` takes a reading on each side of every threshold the code compares
with (below the soft cap, above it, above the hard cap; queued or not for long
enough; with and without preemption) and a ceiling of 4, the smallest on which
all four fractions (0.5, 0.8, 0.9 and the trim's 0.7 over usage) give different
caps or the same one, and growth by quarters passes several polls.
`online_evals`: steps 2, 3 and 4 are broadcast, one of them due for both
environments at the end, so an epoch can be superseded at each stage by one that
shares its environment and by one that does not; two in flight and a queue of
two leave examples queued, partly dispatched, running and waiting for room at
once.  `offload`: three micro batches against a window of two make an event be
reused; two slots in and one out make both pools run dry; a parameter that is
skipped exercises the materialised zero gradient; two steps let a slot, an
accumulator or a mark survive into the next.  `packing`: six samples for two
ranks give up to six bins, odd and even numbers of them, groups of either
modality that need padding, and swaps; the kinds include a sample that is too
long, one that is cut behind its two images, one cut inside the last of three
and one cut inside its only image.  `nixl`: three
groups through two buffers use one twice in a broadcast, which is what a repeated
call takes for another group; two broadcasts cover the first (which publishes)
and the last (which finds everything published and what other ranks copied
ahead); two attempts let a call be repeated at every stage of a broadcast, and
further ones are further calls that start with group 0; the third rank,
which serves nothing, only takes part in barriers.  `sft_data`: with two rows
ready, one taken and a sample held back the saved position differs from the
worker's by all the code allows; five examples for a shard of every second
position give each rank another order in every epoch and three steps pass the
end of one; the examples fit, fill a row with others, are longer than a row,
train only past the window, lose an image, or are cut before one.  Two kills
(119,451 states) and `eval_on_start` (252,917 states) were checked too.

**Fairness.**  All coroutines share one event loop, so a coroutine that can go
on does, and weak fairness of its step follows.  Strong fairness is used twice:
for `FinishPut`, since `asyncio.Queue` wakes its putters in order while the
queue fills and empties in between, and for `HandleCompleted`, since a finished
task stays finished while scheduling passes, puts and the limiter keep the
dispatch loop busy.  Environment requests are assumed to end (they carry client
timeouts).  `Pipeline!PipelineFairness` has one weak fairness per process or
coroutine: the main loop, the watcher's task (which polls for offers every
second), the trainer (which trains a batch it has and completes a transfer),
the dispatch loop's eval work and its burst window, which elapses in 5 s, and
the rate limiter.  It assumes nothing of train work: whether
a train group is dispatched at all is left open.  `Recovery!Fairness` assumes that processes that are
up run and that the launcher, which polls, notices a dead one; the timeout of
the trainer's handshake is not relied on.  `Offload!Spec` assumes only
that somebody who can run does, and `EvalEpochs!FairSpec` that each of its
coroutines gets its turn and attempts end (their environment server times out).
`Concurrency!Fairness` assumes that idle engines are polled, cancel tasks run,
episodes complete, and (strongly, for it is disabled while the pool is not full)
that some complete with the pool full.  `Nixl!FairSpec` has one weak fairness per
process or thread; its timeouts and failures have none.  `SftData!FairSpec` assumes that somebody who
can run does, the launcher included, which starts a killed job again.  `Packing` is sequential.
Nothing anywhere assumes that a batch
gets completed, that a limit changes, that a wait expires, that a component
fails or, `SftData` apart, that a run is launched again.

## 4. Proofs

Every theorem holds for every value of the constants that the assumption of its
module allows.  `DispatcherAssumption`, `PipelineAssumption`,
`TrainSinkAssumption`, `RecoveryAssumption`, `ConcurrencyAssumption` and
`NixlAssumption` only state that sizes are positive, that groups are of one
kind, that the names of coroutines and processes are distinct, that the master
serves, that the queue is unbounded or no smaller than a limit and that
`keep_interval` is not set alone.  `EvalEpochsAssumption` adds that there is an
environment and that their names are unique (`configs/orchestrator.py:342-357`);
`OffloadAssumption`, that there are parameters (`optim/offload.py:1577-1578`
raises otherwise), that every chunk has one and that slots are finitely many;
`SftAssumption`, that `cp` divides the world, that the data has an example, and
`Rendered`, what rendering makes of one: what trains and the images lie within
the example, and images do not overlap.  Five theorems have a
hypothesis of their own: `NoOrphanUnlessLimited`, `AdmitsWithinCapUnlessLimited`
and `ExitRunsEvals` (no rate limiter), `RollbackSurvives` (`keep_last` is not 1)
and `OneWorkerStreams` (one loader worker).  For each the excluded case really fails, as section 3 shows.

| theorem | module | states | run |
|---|---|---|---|
| `PermitsMatchTasks` | `PipelineProofs` | `PermitAccounting` | `dispatcher_core` |
| `AttemptsSettleOnce` | | `ExactlyOnce` | `dispatcher_core` |
| `PoolGrowthIsMetered` | | `GrowthIsMetered` | `dispatcher_core` |
| `NoDispatchCrossesSwap` | | `NoDispatchDuringSwap` | `dispatcher_core` |
| `StaleWorkIsCut` | | `StaleWorkCut` | `dispatcher_core` |
| `DispatcherKeepsLedger` | | `LedgerSpec` | `dispatcher_core` |
| `OnePartialAlways`, `AdmitsWithinCapUnlessLimited`, `PoolWithinLimits` | | `OnePartialGroup`, `AdmitsWithinCap`, the pool's bound | none |
| `VersionsInOrder` | | `NoVersionSkipped` | `pipeline_hold` |
| `ExitNeverStrands` | | `ExitFreesTrainer` | `pipeline_wind` |
| `ExitRunsEvals` | | `ExitLeavesNoEval` | `pipeline_wind` |
| `GroupsFinaliseOnce`, `NothingStaleShips`, `BarrenRunsEnd` | `BatchProofs` | `FinalisedOnce`, `StalenessBound`, `BarrenBounded` | `sink` |
| `PendingTokensMatch`, `GroupsReportedOnce` | | `TokensMatch`, `ReportedOnce` | none |
| `SamplesTrainOnceHolds`, `RanksInStepHolds`, `PacksFitHolds` | | `SamplesTrainOnce`, `RanksInStep`, `PacksFit` | `packing` |
| `ProcessesResumeTogether`, `EnginesLoadWhole`, `TrainsOnOwnBatch`, `RollbackSurvives` | `RecoveryProofs` | `ResumeTogether`, `LoadsWhole`, `OwnBatch`, `RollbackPoint` | `recovery` |
| `OverloadCutsOnce` | `ConcurrencyProofs` | `OneCutPerOverload` | `concurrency` |
| `TransfersHoldAlways`, `WholeWeightsAlways` | `NixlProofs` | `TransfersHold`, `WholeWeights` | `nixl` |
| `OneVersionPerEpoch`, `AttemptsInOnePlace`, `DueOnce` | `EvalEpochsProofs` | `EpochMeasuresOneVersion`, `AttemptsAccounted`, `DueEpochsReported` | `online_evals` |
| `GradientsTrain`, `WeightsHold`, `ChecksNeverRaise` | `OffloadProofs` | `GradientsAllTrain`, `WeightsHoldStill`, `NoProtocolError` | `offload` |
| `EveryRowTrains`, `OneWorkerStreams` | `SftDataProofs` | `RowsTrain`, `StreamIntact` | `sft_data` |

### Arguments

**`PipelineProofs`, the dispatcher.**  `PermitAccounting` is not inductive: to
release a permit per claimed task one has to know the task is in flight, and to
know that an attempt is not dispatched twice one has to know where all the
others of its group are.  The invariant `IInv` joins the types, the permit count
and, for each group, the set of attempts in flight, waiting and unscheduled
(`AttemptInv`): unscheduled attempts are exactly the tail that `toSchedule`
counts, so no two steps can name the same attempt.  From it follow
`PermitsMatchTasks` and `AttemptsSettleOnce`.  `NoOrphanUnlessLimited` adds that
without a limiter nothing waits, so a group closes only when it has nothing in
flight.  `NoDispatchCrossesSwap` adds that the lock barrier leaves no waiter
behind and that `updatePending` stays set until the weights are live.
`StaleWorkIsCut` adds `StaleInv`: while the watcher drops, a live open group is
on its list or may still ship after the update, which holds because nothing is
opened meanwhile and every other coroutine that drops closes what it strikes
off.  `PoolGrowthIsMetered` follows the burst window's base through drops.
`OnePartialAlways` needs that only an opening or a continuation leaves a group
partly dispatched (`OpenOnlyNext`).  `PoolInv` counts the attempt that waits in
the limiter with the pool, so `PoolWithinLimits` holds with a limiter too;
`AdmitsWithinCapUnlessLimited` is the sharper bound without one.
`DispatcherKeepsLedger` maps every action to opening a group, settling part of
what one group owes, abandoning, or a stutter; the counting lemmas say by how
much `Unsettled` changes.

**`PipelineProofs`, the pipeline.**  The invariant `Lockstep` says what the
trainer, the offer and the watcher may be doing for each distance between the
trainer's step and the applied version.  `OffersAlwaysDue`, `VersionsInOrder` and
`ExitNeverStrands` follow.  `PipelineRunsDispatcher` shows that every behaviour
of the pipeline is one of the dispatcher, so all theorems on the dispatcher hold
of the whole run.  `ExitRunsEvals` follows the run from the moment it is found
idle (`ExitInv`): train sources are off, and the last version, whose eval was the
last to be triggered, is applied, after which the watcher rests for good
(`WatcherRests`).  Its hypothesis is the limiter wait that `is_idle` does not
see (`pipeline_exit_limited.cfg`).

**`BatchProofs`, the sink.**  `NothingStaleShips` and `SweptQueueStaysFresh` need the
sweep invariant: once the queue was swept for the current step, arrivals are
checked one by one, and a held batch was cut from a swept queue at the same
step.  `BarrenRunsEnd` keeps an account of units (`BarrenInv`): every group that
queues nothing costs at least one, and the windows reported are the targets
these units fill.  That a group costs something is a fact about the fold that
sums token counts (`TokensPositive`).  `PendingTokensMatch` needs that this fold
splits over parts of a set (`TokensSplit`) and that only groups already finalised
are queued (`QueueInv`), so that no queued trace is weighed again.
`GroupsReportedOnce` adds that nothing is recorded with a batch that is gone and
that a drain leaves none held (`ReportInv`).

**`BatchProofs`, packing**, for every batch, number of ranks, `seq_len`, padding
and cost.  First what the loops are built from: `Less` is a total order of lists
of numbers, so a sort by keys that tell the elements apart is a bijection
(`SortsAll`), and a sum is the same in whatever order it folds (`SumFolds`,
`SumAdds`).  `PlaceInv` then says where each sample is: in one place of one bin
or still to be placed, every bin fits, and while a bin is halved the two sides
hold exactly the samples taken from it and are as long together.  That a cut
leaves the placeholders its images have embeddings for (`TruncationSound`) is a
count: behind the first `Kept` images' placeholders the
next begins, and the cut is before it or there is none.  `PacksFitHolds`
follows.  `DealInv` says where each micro batch is: a group is the bins of its
modality in some order and dummies after them, up to a multiple of the ranks
(`GroupMade`); every state of the heap gives each rank equally many, no two
states share one and together they have all (`Heap`), which dealing a row
(`DealtIs`), merging (`HeapMerges`) and sorting the ranks (`SortedIs`) keep; a
swap changes who has what and nothing else (`SwappedIs`); and what the ranks
already hold are, each once, the samples of the modalities handed out
(`TrainsInv`).  At the end both are, whence `RanksInStepHolds` and
`SamplesTrainOnceHolds`.  Costs matter to neither: any weights would do.

**`RecoveryProofs`**, for any number of steps and crashes.  None of the
properties is inductive.
`Rendezvous` says that while the trainer has not made its startup broadcast
nothing of the resume step or later is offered, so the orchestrator cannot have
passed the rendezvous, hence cannot have saved, hence the latest step has not
moved.  `Leftovers` says that what lies past the resume step is this launch's.
`Handshake` says that the trainer only goes on from a version the watcher is
receiving, so it cannot clean or rewrite the directory being loaded.  That a
latest step exists at all (`LatestExists`) rests on the well-foundedness of the
naturals.  `RollbackSurvives` adds `RollInv`: behind each step there is an
*anchor*, the interval step before it or the one resumed from; the trainer's
half of the anchor is there because it was saved before the step was trained,
the orchestrator's because it was saved before the step's batch was sent.
So while the trainer overwrites or removes, the step before is whole
(`FallsBack`), provided the retention keeps two.  With `keep_last` 1 it removes
that step once its own half of the new one is written, which may be before the
orchestrator has written the other; the hypothesis excludes that setting and the
configuration allows it (`configs/trainer.py:476`).

**`ConcurrencyProofs`**: `CapTyped`, `OverloadCutsOnce` and `GrowthHasEvidence`,
for every floor, ceiling, threshold and set of readings.  `Evidence` strengthens
the types by two facts: a cut that has not settled leaves the controller
draining, and draining it cuts only once released, which an overload forbids; an
open growth gate was opened by a poll without pressure that did not drain.

**`NixlProofs`**, for every number of ranks, engines, workers, groups,
buffers, versions and posts of an update, with timeouts and failures.  The statuses name neither a version nor a
group, so the invariant says what they stand for: there is a number `f` of
groups the master has finished, the groups `f .. Raised - 1` are READY in buffers
of their own (`ModApart`: groups that share a buffer are a round apart) and hold
the present version on every rank, and each worker is in lockstep with `f`: it
waits for or reads group `f`, and is done with group `f - 1` when it has seen
INITIALIZING.  The exception are the workers `L` that a repeated post called when
a group was finished already (`Late`): they ask for a group below `f`, can only
read one that has since been staged in its buffer, whole and of this version, and
never come to the end of the groups, so that they answer nothing and the update
fails.  `Posts` says whose calls can still begin, and with `Rounds` and `Tables`
that a version begins with `L` empty and no worker in an update, whatever the
other ranks have copied ahead.

**`EvalEpochsProofs`.**  `AttemptsInvariant` is the account: an attempt of an
environment still to be reported is in exactly one of the places `Somewhere`
lists, and one of any other is nowhere (`Account`); messages on the queue do not
overlap; the sink holds whole groups of what it has batched and parts of the
rest (`WholeOnly`), or an environment would be reported while attempts are out;
what the cancellation task holds is of the epoch being consumed (`Cancelling`);
and while weights are being received or loaded nothing is queued or running
(`Serving`).  The first two theorems follow.  `DueOnce` adds the lockstep of
trainer and evals process (`TrainerAt`, `ReceiverAt`, `ScanAt`: the trainer
cannot pass an offer the receiver has not taken, so a scan of the broadcasts
finds at most one that is new) and `ReportedSoFar`, what has been reported at
every moment.

**`OffloadProofs`.**  `PipelineInvariant` reads the queues, the line of the copy
thread and the streams as one pipe of gradients in the order of the backwards; a
gradient is pending exactly as long as it is in the pipe (`Ordered`).  A slot has
one owner (`Slots`), a parameter's mark follows its last gradient (`Readiness`),
a chunk's step the marks of all its parameters (`Scheduling`), a version its step
(`Versions`).  New weights go to the GPU through slots nobody refills and past
the fence together with the step (`Delivered`).  `Used` is the account: what was
accumulated into a chunk and what is still under way are together the gradients
produced for it.

**`SftDataProofs`.**  `RowsInvariant` says that queues, rows, weights and
checkpoints hold nothing but rows of closed packs.  A pack is open as long as
every sample was added to what left room for it; of a closed one a row keeps all
samples whole unless it has only one, and what `_process` lets through has a
trained token within the first `seq_len` and no image across its end
(`ContentTrains`).  So every row trains (`EveryRowTrains`), with any number of
workers.  `StreamInvariant` is about the order.  A row *follows* a position if
its samples are the next of the shard up to where it was full or the next did
not fit, so where a row begins says what it is (`RowUnique`) and how many rows
came before says where (`ChainUnique`).  Weights, rows taken, queue, open pack and
dataset position follow one another, and the loader state a checkpoint keeps
stands where the rows taken end; a launch from it draws again what was only
prefetched or packed.  `ChainUnique` is what makes it harmless that a rank back
at a step overwrites its loader file before the model, and what makes
context-parallel ranks train on the same rows.  The hypothesis of
`OneWorkerStreams`, `NumWorkers = 1`, is the default (`configs/sft.py:49`);
`sft_workers.cfg` refutes the property for two.

### What is only model-checked

- Everything temporal under fairness: `HoldEnds`, `EvalSettles`, `DrainEnds`,
  `DeadDispatcherEndsRun`, `OfferAnswered`, `Recovers`, the three `RunEnds` and
  `BroadcastsEnd`.  Liveness is out of the prover's reach.  So is `PackingEnds`
  (the swapping terminates), which TLC checks on request, for batches of three.
- The finding and the counterexamples of section 3, which are single runs.

What is recursive in the models (folds over sets, `Keep`, the chains of rows) is
proved by least counterexample over the naturals: the library's induction
theorems take an operator as a parameter, which the provers cannot instantiate.

The type invariants of `Dispatcher`, `Pipeline`, `TrainSink`, `Recovery`,
`Concurrency` and `Nixl`, and `NoOrphan`, `OnePartialGroup`, `AdmitsWithinCap`,
`TokensMatch`, `ReportedOnce` and `GrowsWhenClear`, are proved rather than run.
Those of `EvalEpochs`, `Offload` and `SftData` are stated, and TLC checks them on
request (`INVARIANT TypeOK`).

## 5. Not modelled

- In the modelled components: `stop()` of the dispatcher, the watcher, the
  orchestrator and the evals process, the reporting hook `on_episode_complete`,
  metrics, logging, payload construction (tokenisation, credit assignment).  A
  cancelled task that still reaches `handle_completed_request` cannot occur:
  whoever cancels claims it first.
- In `Dispatcher` and `Pipeline`, start-up and resume: their runs start after
  the startup broadcast of version 0.  `Recovery` has them, without the
  dispatcher.  It does not have `resume.dir` (forking another run), a lowered
  `max_steps`, weight-only checkpoints, Slurm launches, the NCCL and NIXL
  rendezvous after a restart, or an orchestrator that the teardown budget ends
  with exit code 0 after a failure (a trainer left alone by it runs into the
  timeout of its handshake).
- In `Pipeline`, the supervision of processes by the launcher, which ends the
  run when one process dies; `pipeline_full` and `pipeline_dead_watcher.cfg` therefore describe
  how long the orchestrator waits, not how long the job survives.
- In `Concurrency`, time (polls and a missed poll stand for it), several engines
  (a reading is what `observe` reduces them to) and the episode statistics that
  only feed metrics.
- In `EvalEpochs`, the timeout of the trainer's handshake, a cap that changes
  (the controller is `Concurrency`), `tasks_per_minute`, offline evals of a list
  of models, a resume at or past `max_steps` (only in `evals_past_end.cfg`), the
  SFT trainer's data and checkpoints (they are `SftData`), and broadcasts removed
  by hand.
- In `SftData`, `FakeDataset`, the rendering of messages, the tensors of images,
  the skip options of a checkpoint, its retention, a changed number of ranks, and
  the broadcasts (`EvalEpochs`).
- In `Nixl`, which tensor is in which group, the routing of shards to ranks,
  the set-up of agents, the retries of single RPCs to the ModelExpress server, and
those of the posts that pause and resume the engines (both are idempotent: they
set and clear a flag).
- In `Offload`, the 120 s deadlines (a thread that waits for a dead one sees the
  error flag instead), buffers too large for a slot, data types and gradient
  clipping, which uses the synchronous path.
- In `Packing`, the token arrays; every image has a placeholder and is preceded by
  text (the chat template puts some there).
- The ZMQ batch transport: on it batches are messages, not files, and nothing of
  them outlives a launch; the dispatch gate that bounds them is `Dispatcher`'s.
- The weight update endpoints and patches of the inference engine, environment
  servers, LoRA adapters, Slurm launches: external or seen as an acknowledgement,
  a result or a failure.
- Numerics, rendering, configuration parsing, the dashboard and monitors: they
  keep no state that these properties could be about.  Most of the repository's
  lines are of this kind (model definitions, kernels, configuration classes).

## 6. Plan

What would come next, in order of importance:

1. `Shutdown`: `stop()` with tasks in every state, the watcher's `update_lock`,
   the teardown budget and its exit code.
2. `BatchTransport` over ZMQ: the READY barrier, the high-water mark against the
   dispatch gate.
3. An abstract specification of a weight exchange (a version is offered, loaded
   whole, never skipped) that `Pipeline`, `Recovery` and `Nixl` implement.
4. The bounds `EvalEpochs` states with its types, requests in flight within the
   limit and `out_q` within its maximum, as theorems.
