------------------------------ MODULE Recovery ------------------------------
(***************************************************************************)
(* Crashes and resumes of a run on the filesystem transports: what the     *)
(* launcher (entrypoints/rl.py), the trainer (trainer/rl/train.py,         *)
(* trainer/ckpt.py) and the orchestrator (orchestrator/orchestrator.py,    *)
(* orchestrator/ckpt.py) leave in the run directory, in which order, and   *)
(* what the processes of the next launch make of it.                       *)
(*                                                                         *)
(* A launch is a "life".  Both processes die together (the launcher        *)
(* terminates the other when one fails), at any point; files stay.  Steps  *)
(* count from 1, so a run from scratch is a resume from step 0.            *)
(***************************************************************************)
EXTENDS Integers, FiniteSets, FiniteSetsExt

CONSTANTS
  MaxSteps,      (* config.max_steps                                          *)
  Interval,      (* config.ckpt.interval; 0: only the final checkpoint        *)
  KeepLast,      (* config.ckpt.keep_last; 0: not set                         *)
  KeepInterval,  (* config.ckpt.keep_interval; 0: not set                     *)
  TargetLag,     (* TARGET_LAG of orchestrator.py                             *)
  MaxLives       (* bound: launches of the run                                *)

ASSUME RecoveryAssumption ==
  /\ MaxSteps \in Nat \ {0}
  /\ Interval \in Nat /\ KeepLast \in Nat /\ KeepInterval \in Nat
  /\ TargetLag \in Nat /\ MaxLives \in Nat
  /\ KeepLast = 0 => KeepInterval = 0  \* else a step is removed when just saved

Step == 1 .. MaxSteps
Version == 0 .. MaxSteps

VARIABLES
  \* the run directory
  ckptDir,    (* steps with a checkpoints/step_N directory                    *)
  orchSaved,  (* steps with orchestrator/progress.pt                          *)
  trainSaved, (* trainer/ of each step: "none"; "torn", without its metadata; *)
              (* "mixed", half overwritten; "whole"                           *)
  rollouts,   (* life that wrote rollouts/step_N; 0: not there                *)
  offeredIn,  (* life that made broadcasts/step_N; 0: not there               *)
  stage,      (* its last sentinel: "none", "offered", "acked", "finished"    *)
  \* the launcher
  job,        (* "down" or "up"                                               *)
  life, asked,(* the launch and its resume.step; 0: the latest                *)
  base,       (* the step it resolved and cleaned up for                      *)
  \* the trainer
  trainer,    (* where its loop is                                            *)
  tstep, offer, (* progress.step and the version being broadcast              *)
  known,      (* ckpt_steps of its checkpoint manager                         *)
  \* the orchestrator
  orch, after, (* where it is, and where it goes after a save                  *)
  ostep,      (* progress.step                                                *)
  watcher, target, (* the weight update in progress and its version           *)
  version     (* policy.version                                               *)

ckptVars   == <<ckptDir, orchSaved, trainSaved>>
bcastVars  == <<offeredIn, stage>>
launchVars == <<job, life, asked, base>>
trainVars  == <<trainer, tstep, offer, known>>
orchVars   == <<orch, after, ostep>>
watchVars  == <<watcher, target, version>>
vars == <<ckptDir, orchSaved, trainSaved, rollouts, offeredIn, stage, job, life,
          asked, base, trainer, tstep, offer, known, orch, after, ostep, watcher,
          target, version>>
-----------------------------------------------------------------------------
(* resolve_latest_ckpt_step, or the step that was asked for.               *)
Resolve(a) == IF a > 0 THEN a ELSE IF ckptDir = {} THEN 0 ELSE Max(ckptDir)

(* The steps both processes can load.                                      *)
Whole == {s \in ckptDir : s \in orchSaved /\ trainSaved[s] = "whole"}

OnInterval(s) == Interval > 0 /\ s % Interval = 0

(* Remove the other broadcasts/step_N.                                     *)
KeepBroadcasts(kept) ==
  /\ offeredIn' = [v \in Version |-> IF v \in kept THEN offeredIn[v] ELSE 0]
  /\ stage' = [v \in Version |-> IF v \in kept THEN stage[v] ELSE "none"]
-----------------------------------------------------------------------------
(* The launcher.                                                           *)

BroadcastsPast(b) == {v \in Version : v > b}                         \* mutant
StaleBroadcasts(b) == {v \in Version : v >= b}
RolloutsPastNext(b) == {s \in Step : s > b + 1}                      \* mutant
StaleRollouts(b) == {s \in Step : s > b}

(* rl(): a resume asks for the latest checkpoint or names a step; what is  *)
(* stale for it is cleaned before the processes start.                     *)
Launch ==
  /\ job = "down"
  /\ life < MaxLives
  /\ asked' \in {0} \cup ckptDir
  /\ base' = Resolve(asked')
  /\ rollouts' = [s \in Step |-> IF s \in StaleRollouts(base') THEN 0 ELSE rollouts[s]]
  /\ KeepBroadcasts(Version \ StaleBroadcasts(base'))
  /\ job' = "up" /\ life' = life + 1
  /\ trainer' = "setup" /\ orch' = "setup"
  /\ UNCHANGED <<ckptVars, tstep, offer, known, after, ostep, watchVars>>

(* Both processes are gone, and what they had in memory with them.         *)
Down ==
  /\ job = "up"
  /\ job' = "down" /\ asked' = 0 /\ base' = 0
  /\ trainer' = "off" /\ tstep' = 1 /\ offer' = 0 /\ known' = {}
  /\ orch' = "off" /\ after' = "main" /\ ostep' = 1
  /\ watcher' = "idle" /\ target' = 0 /\ version' = 0
  /\ UNCHANGED <<ckptVars, rollouts, bcastVars, life>>

(* A process failed, or both completed.                                    *)
Reap ==
  /\ \/ "dead" \in {trainer, orch}
     \/ trainer = "done" /\ orch = "exited"
  /\ Down

(* The whole job is killed: the machine, the scheduler, a second signal.   *)
Killed == Down
-----------------------------------------------------------------------------
(* The trainer.                                                            *)

AllKnown == ckptDir                                                  \* mutant
KnownSteps == {s \in ckptDir : asked = 0 \/ s <= asked}

(* Up to the training loop.  A missing or torn checkpoint fails to load; a *)
(* mixed one still has metadata, and may load.                             *)
TrainerSetup ==
  LET s == Resolve(asked)
  IN  /\ trainer = "setup"
      /\ \/ /\ s > 0 /\ trainSaved[s] # "whole"
            /\ trainer' = "dead"
            /\ UNCHANGED <<tstep, known>>
         \/ /\ s > 0 => trainSaved[s] \in {"mixed", "whole"}
            /\ trainer' = "startup"
            /\ tstep' = s + 1
            /\ known' = KnownSteps
      /\ UNCHANGED <<ckptVars, rollouts, bcastVars, launchVars, offer, orchVars, watchVars>>

(* broadcast(v): reset the directory and raise .sender_ready; left are the *)
(* other versions that stay.                                               *)
Offer(v, left) ==
  /\ trainer' = "offer"
  /\ offer' = v
  /\ offeredIn' = [u \in Version |-> IF u = v THEN life ELSE IF u \in left THEN offeredIn[u] ELSE 0]
  /\ stage' = [u \in Version |-> IF u = v THEN "offered" ELSE IF u \in left THEN stage[u] ELSE "none"]

(* The startup broadcast of v{tstep-1}, after prune_broadcasts_beyond.     *)
Startup ==
  /\ trainer = "startup"
  /\ Offer(tstep - 1, 0 .. tstep - 1)
  /\ UNCHANGED <<ckptVars, rollouts, launchVars, tstep, known, orchVars, watchVars>>

(* wait_for_batch, a training step on it, and the broadcast of its policy. *)
Train ==
  /\ trainer = "batch"
  /\ tstep \in Step
  /\ rollouts[tstep] # 0
  /\ Offer(tstep, Version)
  /\ UNCHANGED <<ckptVars, rollouts, launchVars, tstep, known, orchVars, watchVars>>

(* .receiver_ready is there.                                               *)
Transfer ==
  /\ trainer = "offer"
  /\ stage[offer] # "offered"
  /\ trainer' = "transfer"
  /\ UNCHANGED <<ckptVars, rollouts, bcastVars, launchVars, tstep, offer, known,
                 orchVars, watchVars>>

(* The weights are on disk: .finished, then _clean.                        *)
Finish ==
  /\ trainer = "transfer"
  /\ offeredIn' = [v \in Version |-> IF v >= offer - 1 THEN offeredIn[v] ELSE 0]
  /\ stage' = [v \in Version |-> IF v = offer THEN "finished"
                                 ELSE IF v >= offer - 1 THEN stage[v] ELSE "none"]
  /\ trainer' = IF offer < tstep THEN "batch" ELSE "trained"
  /\ UNCHANGED <<ckptVars, rollouts, launchVars, tstep, offer, known, orchVars, watchVars>>

TrainerSaveDue == tstep >= MaxSteps \/ OnInterval(tstep)

NextStep ==
  IF tstep >= MaxSteps THEN trainer' = "done" /\ UNCHANGED tstep
                       ELSE trainer' = "batch" /\ tstep' = tstep + 1

SkipSave ==
  /\ trainer = "trained"
  /\ ~TrainerSaveDue
  /\ NextStep
  /\ UNCHANGED <<ckptVars, rollouts, bcastVars, launchVars, offer, known, orchVars, watchVars>>

(* CheckpointManager.save writes into step_N/trainer in place.             *)
TrainerBeginsSave ==
  /\ trainer = "trained"
  /\ TrainerSaveDue
  /\ ckptDir' = ckptDir \cup {tstep}
  /\ trainSaved' = [trainSaved EXCEPT ![tstep] = IF @ \in {"none", "torn"} THEN "torn" ELSE "mixed"]
  /\ trainer' = "saving"
  /\ UNCHANGED <<orchSaved, rollouts, bcastVars, launchVars, tstep, offer, known,
                 orchVars, watchVars>>

TrainerEndsSave ==
  /\ trainer = "saving"
  /\ trainSaved' = [trainSaved EXCEPT ![tstep] = "whole"]
  /\ known' = known \cup {tstep}
  /\ trainer' = "saved"
  /\ UNCHANGED <<ckptDir, orchSaved, rollouts, bcastVars, launchVars, tstep, offer,
                 orchVars, watchVars>>

Recent == {s \in known : KeepLast > 0 /\ Cardinality({u \in known : u > s}) < KeepLast}
Kept ==
  IF KeepLast = 0 /\ KeepInterval = 0 THEN known
  ELSE Recent \cup {s \in known : KeepInterval > 0 /\ s % KeepInterval = 0}

(* maybe_clean removes whole step directories, the orchestrator's half too. *)
Retain ==
  LET removed == known \ Kept
  IN  /\ trainer = "saved"
      /\ ckptDir' = ckptDir \ removed
      /\ orchSaved' = orchSaved \ removed
      /\ trainSaved' = [s \in Step |-> IF s \in removed THEN "none" ELSE trainSaved[s]]
      /\ known' = Kept
      /\ NextStep
      /\ UNCHANGED <<rollouts, bcastVars, launchVars, offer, orchVars, watchVars>>

TrainerFails ==
  /\ trainer \notin {"off", "done", "dead"}
  /\ trainer' = "dead"
  /\ UNCHANGED <<ckptVars, rollouts, bcastVars, launchVars, tstep, offer, known,
                 orchVars, watchVars>>
-----------------------------------------------------------------------------
(* The orchestrator.                                                       *)

(* setup() up to the startup rendezvous.                                   *)
OrchSetup ==
  LET s == Resolve(asked)
  IN  /\ orch = "setup"
      /\ IF s > 0 /\ s \notin orchSaved
         THEN orch' = "dead" /\ UNCHANGED ostep
         ELSE orch' = "sync" /\ ostep' = s + 1
      /\ UNCHANGED <<ckptVars, rollouts, bcastVars, launchVars, trainVars, after, watchVars>>

(* setup() fails, the rendezvous times out: nothing is saved.              *)
SetupFails ==
  /\ orch \in {"setup", "sync"}
  /\ orch' = "dead"
  /\ UNCHANGED <<ckptVars, rollouts, bcastVars, launchVars, trainVars, after, ostep, watchVars>>

LastFinished == ostep - 1

(* save(progress, step) is one turn of the event loop: the directory, then *)
(* progress.pt by an atomic rename.  A kill may come in between.           *)
BeginSave(s, then) ==
  /\ ckptDir' = ckptDir \cup {s}
  /\ orch' = "saving" /\ after' = then
  /\ UNCHANGED <<orchSaved, trainSaved>>

EndSave ==
  /\ orch = "saving"
  /\ orchSaved' = orchSaved \cup {LastFinished}
  /\ orch' = after /\ after' = "main"
  /\ UNCHANGED <<ckptDir, trainSaved, rollouts, bcastVars, launchVars, trainVars,
                 ostep, watchVars>>

(* finalize_train_batch: the hold, then a worker thread writes the batch.  *)
Send ==
  /\ orch = "main"
  /\ ostep \in Step
  /\ version >= ostep - 1 - TargetLag
  /\ rollouts' = [rollouts EXCEPT ![ostep] = life]
  /\ orch' = "sending"
  /\ UNCHANGED <<ckptVars, bcastVars, launchVars, trainVars, after, ostep, watchVars>>

OrchSaveDue == OnInterval(ostep) /\ ostep < MaxSteps

(* The thread is done: progress.step, and maybe_save_ckpt in the same turn. *)
Shipped ==
  /\ orch = "sending"
  /\ ostep' = ostep + 1
  /\ IF OrchSaveDue THEN BeginSave(ostep, "main")
     ELSE orch' = "main" /\ UNCHANGED <<ckptVars, after>>
  /\ UNCHANGED <<rollouts, bcastVars, launchVars, trainVars, watchVars>>

(* The teardown of start() saves the last finished step, however it is     *)
(* reached: past the last step, once the final version is applied ...      *)
Leave ==
  /\ orch = "main"
  /\ ostep > MaxSteps
  /\ version >= MaxSteps
  /\ BeginSave(LastFinished, "exited")
  /\ UNCHANGED <<rollouts, bcastVars, launchVars, trainVars, ostep, watchVars>>

(* ... or when anything raises, an interrupt included.                     *)
Raise ==
  /\ orch \in {"main", "sending"}
  /\ IF ostep > 1 THEN BeginSave(LastFinished, "dead")
     ELSE orch' = "dead" /\ UNCHANGED <<ckptVars, after>>
  /\ UNCHANGED <<rollouts, bcastVars, launchVars, trainVars, ostep, watchVars>>
-----------------------------------------------------------------------------
(* Weight updates: sync_startup and the watcher drive one receiver.        *)

Offered(v) == offeredIn[v] # 0

SyncStartup ==
  /\ orch = "sync" /\ watcher = "idle"
  /\ Offered(ostep - 1)
  /\ target' = ostep - 1
  /\ watcher' = "receive"
  /\ UNCHANGED <<ckptVars, rollouts, bcastVars, launchVars, trainVars, orchVars, version>>

(* next_version: the newest version offered, by whichever life.            *)
SeeOffer ==
  /\ orch \in {"main", "sending"} /\ watcher = "idle"
  /\ \E v \in Version : /\ Offered(v) /\ v > target
                        /\ \A u \in Version : Offered(u) => u <= v
                        /\ target' = v
  /\ watcher' = "receive"
  /\ UNCHANGED <<ckptVars, rollouts, bcastVars, launchVars, trainVars, orchVars, version>>

(* The receiver's coroutine shares the event loop with the main loop.      *)
Turn == orch \in {"sync", "main", "sending"}

Ack ==
  /\ watcher = "receive" /\ Turn
  /\ stage' = [stage EXCEPT ![target] = IF @ = "finished" THEN @ ELSE "acked"]
  /\ watcher' = "wait"
  /\ UNCHANGED <<ckptVars, rollouts, offeredIn, launchVars, trainVars, orchVars,
                 target, version>>

(* .finished is there: the engines start to load, and have loaded.         *)
Load ==
  /\ watcher = "wait" /\ Turn
  /\ stage[target] = "finished"
  /\ watcher' = "load"
  /\ UNCHANGED <<ckptVars, rollouts, bcastVars, launchVars, trainVars, orchVars,
                 target, version>>
Loaded ==
  /\ watcher = "load" /\ Turn
  /\ watcher' = "idle"
  /\ version' = target
  /\ orch' = IF orch = "sync" THEN "main" ELSE orch
  /\ UNCHANGED <<ckptVars, rollouts, bcastVars, launchVars, trainVars, after, ostep, target>>
-----------------------------------------------------------------------------
Init ==
  /\ ckptDir = {} /\ orchSaved = {} /\ trainSaved = [s \in Step |-> "none"]
  /\ rollouts = [s \in Step |-> 0]
  /\ offeredIn = [v \in Version |-> 0] /\ stage = [v \in Version |-> "none"]
  /\ job = "down" /\ life = 0 /\ asked = 0 /\ base = 0
  /\ trainer = "off" /\ tstep = 1 /\ offer = 0 /\ known = {}
  /\ orch = "off" /\ after = "main" /\ ostep = 1
  /\ watcher = "idle" /\ target = 0 /\ version = 0

LauncherStep == Launch \/ Reap \/ Killed
TrainerRuns ==
  \/ TrainerSetup \/ Startup \/ Train \/ Transfer \/ Finish \/ SkipSave
  \/ TrainerBeginsSave \/ TrainerEndsSave \/ Retain
OrchRuns == OrchSetup \/ Send \/ Shipped \/ EndSave \/ Leave
UpdateRuns == SyncStartup \/ SeeOffer \/ Ack \/ Load \/ Loaded

Fails == TrainerFails \/ SetupFails \/ Raise

Next == LauncherStep \/ TrainerRuns \/ OrchRuns \/ UpdateRuns \/ Fails

(* Processes that are up run, and the launcher polls them: nothing is      *)
(* assumed of failures, kills or the next launch.                          *)
Fairness ==
  /\ WF_vars(TrainerRuns) /\ WF_vars(OrchRuns) /\ WF_vars(UpdateRuns) /\ WF_vars(Reap)

Spec == Init /\ [][Next]_vars
FairSpec == Spec /\ Fairness
-----------------------------------------------------------------------------
(* Every variable has its type.                                            *)
TypeOK ==
  /\ ckptDir \subseteq Step /\ orchSaved \subseteq Step
  /\ trainSaved \in [Step -> {"none", "torn", "mixed", "whole"}]
  /\ rollouts \in [Step -> 0 .. MaxLives]
  /\ offeredIn \in [Version -> 0 .. MaxLives]
  /\ stage \in [Version -> {"none", "offered", "acked", "finished"}]
  /\ job \in {"down", "up"} /\ life \in 0 .. MaxLives
  /\ asked \in Version /\ base \in Version
  /\ trainer \in {"off", "setup", "startup", "offer", "transfer", "batch",
                  "trained", "saving", "saved", "done", "dead"}
  /\ tstep \in 1 .. MaxSteps + 1 /\ offer \in Version /\ known \subseteq Step
  /\ orch \in {"off", "setup", "sync", "main", "sending", "saving", "exited", "dead"}
  /\ after \in {"main", "exited", "dead"} /\ ostep \in 1 .. MaxSteps + 1
  /\ watcher \in {"idle", "receive", "wait", "load"}
  /\ target \in Version /\ version \in Version

(* Launcher, trainer and orchestrator each look for the latest checkpoint, *)
(* the last of them while the others already run: they find the same one.  *)
ResumeTogether ==
  /\ "setup" \in {trainer, orch} => Resolve(asked) = base
  /\ trainer = "startup" => tstep = base + 1
  /\ orch = "sync" => ostep = base + 1

(* The trainer trains a step on the batch this launch's orchestrator sent  *)
(* for it, never on one an earlier launch left in the run directory.       *)
OwnBatch == [][Train => rollouts[tstep] = life]_vars

(* The engines load weights that are wholly on disk, and that this launch's *)
(* trainer wrote, for as long as the load takes.                           *)
LoadsWhole ==
  watcher = "load" => stage[target] = "finished" /\ offeredIn[target] = life

(* Retention, an overwriting save or a crash never take the last step both *)
(* processes can resume from, unless the run resumed from a half-          *)
(* overwritten one.                                                        *)
ResumedMixed == base > 0 /\ trainSaved[base] = "mixed"
RollbackPoint == [][Whole # {} => Whole' # {} \/ ResumedMixed]_vars

(* A version the trainer offers, the startup version of a resume included, *)
(* is joined by the orchestrator, or the job goes down.                    *)
OfferAnswered == trainer = "offer" ~> trainer # "offer"

(* After a crash the latest checkpoint is one the run can resume from.     *)
LatestResumes == job = "down" /\ Whole # {} => Resolve(0) \in Whole
=============================================================================
