------------------------------ MODULE SftData ------------------------------
(***************************************************************************)
(* What an SFT run trains on (trainer/sft/data.py, the data side of        *)
(* trainer/sft/train.py, CheckpointManager of trainer/ckpt.py).            *)
(*                                                                         *)
(* Every rank has a StatefulDataLoader whose workers run a copy of the     *)
(* dataset ahead of the trainer.  SFTDataset walks the shuffled examples,  *)
(* keeps those of its data rank that have something to train on, and       *)
(* CatDataset packs them into rows of a fixed length.  The trainer takes   *)
(* rows, validates, steps the optimizer and writes checkpoints that hold   *)
(* the position of every loader; it may be killed anywhere and resumes     *)
(* from a checkpoint.                                                      *)
(*                                                                         *)
(* The weights are the rows they were trained on.  A sample is the dataset *)
(* position it was drawn at and the shuffle in use; its example is a       *)
(* length, the positions that train, the stop tokens and the placeholders  *)
(* of its images, all after the causal shift.                              *)
(***************************************************************************)
EXTENDS Integers, SequencesExt, FiniteSetsExt

CONSTANTS
  World,        (* ranks of the trainer                                    *)
  CpSizes,      (* choices of model.cp, ranks that share a sequence        *)
  NumWorkers,   (* data.num_workers                                        *)
  Prefetch,     (* rows a worker prepares ahead (torch's prefetch_factor)  *)
  SeqLen, MicroBatch,
  GradAccum,    (* rows of a rank in an optimizer step                     *)
  MaxSteps, CkptInterval, ValInterval,
  EvalOnStart,  (* val.eval_on_start                                       *)
  MaxCrashes,   (* bound: how often the trainer is killed                  *)
  TrainData, ValData,   (* the examples                                    *)
  Shuffle(_, _) (* the permutation of n examples in epoch e                *)

(* What a renderer makes of a chat: a sample ends with a stop token, so    *)
(* what trains and the placeholder runs, which do not overlap, lie in it.  *)
Example == [mm : BOOLEAN, len : Nat, trains : SUBSET Nat, stops : SUBSET Nat,
            images : SUBSET [offset : Nat, length : Nat \ {0}]]
Rendered(x) ==
  /\ x.trains \subseteq 1 .. x.len
  /\ x.images # {} => x.mm
  /\ \A p \in x.images : p.offset + p.length <= x.len
  /\ \A p, q \in x.images :
       p = q \/ p.offset + p.length <= q.offset \/ q.offset + q.length <= p.offset

ASSUME SftAssumption ==
  /\ World \in Nat \ {0}
  /\ \A c \in CpSizes : c \in Nat \ {0} /\ World % c = 0
  /\ {NumWorkers, Prefetch, SeqLen, MicroBatch, GradAccum, MaxSteps,
      CkptInterval, ValInterval} \subseteq Nat \ {0}
  /\ MaxCrashes \in Nat
  /\ EvalOnStart \in BOOLEAN
  /\ \A data \in {TrainData, ValData} :          \* epochs are steps // num_examples
       /\ data \in Seq(Example) /\ Len(data) > 0
       /\ \A i \in DOMAIN data : Rendered(data[i])

Rank == 0 .. (World - 1)
Worker == 0 .. (NumWorkers - 1)
Mode == {"train", "val"}
Stream == Mode \X Rank \X Worker
RowLen == SeqLen * MicroBatch

VARIABLES
  cp,        (* ranks that share a sequence                                *)
  ds,        (* per stream: step and epoch of SFTDataset, pending_sample   *)
  it,        (* per stream: the shuffle in use, the open pack, not at end  *)
  queue,     (* per stream: rows ready, each with the state_dict behind it *)
  loader,    (* per mode and rank: last state_dict of each worker, and     *)
             (* the worker whose turn it is                                *)
  pc,        (* where the trainer is                                       *)
  progress,  (* Progress: step, and total_tokens in steps                  *)
  first,     (* is_first_step                                              *)
  took,      (* per rank: rows taken in this step                          *)
  weights,   (* per rank: rows the weights were trained on                 *)
  vpc, has,  (* per rank: place in run_eval_loop, and whether it has a row *)
  filed,     (* ranks that have written their loader in this save          *)
  disk,      (* checkpoints: loaders and app of each step                  *)
  crashes

workerVars == <<ds, it, queue>>
trainVars == <<progress, first, took, weights>>
valVars == <<vpc, has>>
diskVars == <<filed, disk>>
vars == <<cp, workerVars, loader, pc, trainVars, valVars, diskVars, crashes>>
-----------------------------------------------------------------------------
(* SFTDataset._process.                                                    *)

Cuttable(x) == x.mm /\ x.len > SeqLen

(* _find_image_safe_cut: placeholders do not overlap, so at most one       *)
(* straddles the budget.                                                   *)
SafeCut(x) ==
  LET straddling == {p \in x.images : p.offset < SeqLen /\ SeqLen < p.offset + p.length}
  IN  IF straddling = {} THEN SeqLen ELSE (CHOOSE p \in straddling : TRUE).offset

Processed(x) ==
  IF ~Cuttable(x) THEN x
  ELSE LET cut == SafeCut(x)
       IN  [x EXCEPT !.len = cut, !.trains = @ \cap 1 .. cut, !.stops = @ \cap 1 .. cut,
                     !.images = {p \in @ : p.offset + p.length <= cut}]

AnyTrainable(x) == x.trains # {}                                     \* mutant
TrainsInWindow(x) == x.trains \cap 1 .. SeqLen # {}
Usable(x) ==
  /\ Cuttable(x) => Processed(x).stops # {}
  /\ TrainsInWindow(Processed(x))
-----------------------------------------------------------------------------
(* SFTDataset.__iter__.                                                    *)

Data(m) == IF m = "train" THEN TrainData ELSE ValData
EpochAt(m, step) == (step - 1) \div Len(Data(m))
Index(m, e, step) ==
  LET n == Len(Data(m)) IN Shuffle(e, n)[((step - 1) % n) + 1]
UsableExamples == [m \in Mode |-> {i \in DOMAIN Data(m) : Usable(Data(m)[i])}]
Contents == [m \in Mode |-> [i \in DOMAIN Data(m) |-> Processed(Data(m)[i])]]

(* The dataset is built in the main process, where get_worker_info() is    *)
(* None: a worker keeps the rank its trainer rank was given.               *)
DataRank(s) == s[2] \div cp
DataWorld == World \div cp
Mine(s, step) == (step - 1) % DataWorld = DataRank(s)

(* max_epochs is 1 for validation, None for training.                      *)
PastEnd(s) == s[1] = "val" /\ EpochAt(s[1], ds[s].step + 1) >= 1

Stepped(s) ==
  LET e == EpochAt(s[1], ds[s].step + 1)
  IN  [ds[s] EXCEPT !.step = @ + 1, !.epoch = IF e > @ THEN e ELSE @]
Reshuffled(s) ==
  LET e == EpochAt(s[1], ds[s].step + 1)
  IN  IF e > ds[s].epoch THEN e ELSE it[s].shuffle
Wanted(s) ==
  /\ Mine(s, ds[s].step + 1)
  /\ Index(s[1], Reshuffled(s), ds[s].step + 1) \in UsableExamples[s[1]]
Drawn(s) == [at |-> ds[s].step + 1, epoch |-> Reshuffled(s)]
-----------------------------------------------------------------------------
(* CatDataset.                                                             *)

Fresh == [step |-> 0, epoch |-> 0, pending |-> <<>>]
WithoutPending(d) == [d EXCEPT !.pending = <<>>]                     \* mutant
StateDict(d) == d
LoadStateDict(state) == state
StartIter(d) == [shuffle |-> d.epoch, pack |-> <<>>, live |-> TRUE]

Content(m, x) == Contents[m][Index(m, x.epoch, x.at)]
Length(m, x) == Content(m, x).len
Size(m, pack) == SumFunction([i \in DOMAIN pack |-> Length(m, pack[i])])

(* _finalize_pack: what the row keeps of each sample, without the padding. *)
Cut(m, pack) ==
  [i \in DOMAIN pack |->
     LET left == RowLen - Size(m, SubSeq(pack, 1, i - 1))
     IN  [at |-> pack[i].at, epoch |-> pack[i].epoch,
          kept |-> Min({left, Length(m, pack[i])})]]
Finalized(s, pack) == [worker |-> s[3], samples |-> Cut(s[1], pack)]

Emit(s, pack, d) ==
  queue' = [queue EXCEPT ![s] = Append(@, [row |-> Finalized(s, pack), state |-> StateDict(d)])]

Overflows(s, x) ==
  /\ it[s].pack # <<>>
  /\ Size(s[1], it[s].pack) + Length(s[1], x) > RowLen

(* One sample x reaches the packer; d is the dataset's state behind it.    *)
Hold(s, x, d, sh) ==
  /\ Overflows(s, x)
  /\ LET held == [d EXCEPT !.pending = <<x>>]
     IN  ds' = [ds EXCEPT ![s] = held] /\ Emit(s, it[s].pack, held)
  /\ it' = [it EXCEPT ![s].shuffle = sh, ![s].pack = <<>>]
Fill(s, x, d, sh) ==
  LET pack == Append(it[s].pack, x)
  IN  /\ ~Overflows(s, x)
      /\ Size(s[1], pack) >= RowLen
      /\ ds' = [ds EXCEPT ![s] = d]
      /\ Emit(s, pack, d)
      /\ it' = [it EXCEPT ![s].shuffle = sh, ![s].pack = <<>>]
Add(s, x, d, sh) ==
  LET pack == Append(it[s].pack, x)
  IN  /\ ~Overflows(s, x)
      /\ Size(s[1], pack) < RowLen
      /\ ds' = [ds EXCEPT ![s] = d]
      /\ it' = [it EXCEPT ![s].shuffle = sh, ![s].pack = pack]
      /\ UNCHANGED queue
Pack(s, x, d, sh) == Hold(s, x, d, sh) \/ Fill(s, x, d, sh) \/ Add(s, x, d, sh)
-----------------------------------------------------------------------------
(* A worker runs the dataset while it is asked for rows (external).        *)
Up == pc \notin {"down", "done"}
Working(s) ==
  /\ Up
  /\ s[1] = "val" => pc = "val"
  /\ it[s].live
  /\ Len(queue[s]) < Prefetch

others == <<cp, loader, pc, trainVars, valVars, diskVars, crashes>>

PackPending(s) ==
  /\ Working(s)
  /\ ds[s].pending # <<>>
  /\ Pack(s, ds[s].pending[1], [ds[s] EXCEPT !.pending = <<>>], it[s].shuffle)
  /\ UNCHANGED others

Draw(s) ==
  /\ Working(s)
  /\ ds[s].pending = <<>>
  /\ ~PastEnd(s)
  /\ Wanted(s)
  /\ Pack(s, Drawn(s), Stepped(s), Reshuffled(s))
  /\ UNCHANGED others

Skip(s) ==
  /\ Working(s)
  /\ ds[s].pending = <<>>
  /\ ~PastEnd(s)
  /\ ~Wanted(s)
  /\ ds' = [ds EXCEPT ![s] = Stepped(s)]
  /\ it' = [it EXCEPT ![s].shuffle = Reshuffled(s)]
  /\ UNCHANGED <<queue, others>>

(* The dataset ends and CatDataset flushes what it has.                    *)
Finish(s) ==
  /\ Working(s)
  /\ ds[s].pending = <<>>
  /\ PastEnd(s)
  /\ ds' = [ds EXCEPT ![s].step = @ + 1]
  /\ it' = [it EXCEPT ![s].live = FALSE, ![s].pack = <<>>]
  /\ IF it[s].pack = <<>> THEN UNCHANGED queue ELSE Emit(s, it[s].pack, ds'[s])
  /\ UNCHANGED others

WorkerStep(s) == PackPending(s) \/ Draw(s) \/ Skip(s) \/ Finish(s)
-----------------------------------------------------------------------------
(* The loader hands out rows worker after worker, leaving out those that   *)
(* have ended, and keeps the state_dict that came with the last row of     *)
(* each (external).                                                        *)
Ended(s) == ~it[s].live /\ queue[s] = <<>>
Turn(m, r) ==
  LET near == {k \in Worker : ~Ended(<<m, r, (loader[m][r].next + k) % NumWorkers>>)}
  IN  (loader[m][r].next + Min(near)) % NumWorkers
AllEnded(m, r) == \A w \in Worker : Ended(<<m, r, w>>)
RowReady(m, r) == ~AllEnded(m, r) /\ queue[<<m, r, Turn(m, r)>>] # <<>>

PositionBehind(s) == Head(queue[s]).state
TakeRow(m, r) ==
  LET w == Turn(m, r)
      s == <<m, r, w>>
  IN  /\ queue' = [queue EXCEPT ![s] = Tail(@)]
      /\ loader' = [loader EXCEPT ![m][r].snap[w] = PositionBehind(s),
                                  ![m][r].next = (w + 1) % NumWorkers]

FreshLoader == [snap |-> [w \in Worker |-> Fresh], next |-> 0]

(* next(dataiter) and the forward of a micro batch, which is a collective. *)
NextRow(r) ==
  /\ pc = "micro"
  /\ Len(took[r]) < GradAccum
  /\ \A q \in Rank : Len(took[q]) >= Len(took[r])
  /\ RowReady("train", r)
  /\ took' = [took EXCEPT ![r] = Append(@, Head(queue[<<"train", r, Turn("train", r)>>]).row)]
  /\ TakeRow("train", r)
  /\ UNCHANGED <<cp, ds, it, pc, progress, first, weights, valVars, diskVars, crashes>>

LastStep == progress.step >= MaxSteps
Validates == IF first THEN EvalOnStart ELSE progress.step % ValInterval = 0
Checkpoints == progress.step % CkptInterval = 0 /\ ~LastStep

ResetVal ==
  /\ ds' = [s \in Stream |-> IF s[1] = "val" THEN Fresh ELSE ds[s]]
  /\ it' = [s \in Stream |-> IF s[1] = "val" THEN StartIter(Fresh) ELSE it[s]]
  /\ queue' = [s \in Stream |-> IF s[1] = "val" THEN <<>> ELSE queue[s]]
  /\ loader' = [loader EXCEPT !["val"] = [r \in Rank |-> FreshLoader]]

Accumulated ==
  /\ pc = "micro"
  /\ \A r \in Rank : Len(took[r]) = GradAccum
  /\ IF Validates
     THEN pc' = "val" /\ vpc' = [r \in Rank |-> "next"] /\ ResetVal
     ELSE pc' = "optim" /\ UNCHANGED <<vpc, workerVars, loader>>
  /\ UNCHANGED <<cp, trainVars, has, diskVars, crashes>>
-----------------------------------------------------------------------------
(* run_eval_loop: the ranks vote on every batch and stop together.         *)

NextVal(r) ==
  /\ pc = "val"
  /\ vpc[r] = "next"
  /\ vpc' = [vpc EXCEPT ![r] = "vote"]
  /\ \/ RowReady("val", r) /\ has' = [has EXCEPT ![r] = TRUE] /\ TakeRow("val", r)
     \/ AllEnded("val", r) /\ has' = [has EXCEPT ![r] = FALSE] /\ UNCHANGED <<queue, loader>>
  /\ UNCHANGED <<cp, ds, it, pc, trainVars, diskVars, crashes>>

OwnRow(r) == has[r]                                                  \* mutant
Agreed(r) == \A q \in Rank : has[q]
Vote ==
  /\ pc = "val"
  /\ \A r \in Rank : vpc[r] = "vote"
  /\ vpc' = [r \in Rank |-> IF Agreed(r) THEN "forward" ELSE "out"]
  /\ UNCHANGED <<cp, workerVars, loader, pc, trainVars, has, diskVars, crashes>>

ForwardVal ==
  /\ pc = "val"
  /\ \A r \in Rank : vpc[r] = "forward"
  /\ vpc' = [r \in Rank |-> "next"]
  /\ UNCHANGED <<cp, workerVars, loader, pc, trainVars, has, diskVars, crashes>>

Validated ==
  /\ pc = "val"
  /\ \A r \in Rank : vpc[r] = "out"
  /\ pc' = "optim"
  /\ has' = [r \in Rank |-> FALSE]
  /\ ResetVal
  /\ UNCHANGED <<cp, trainVars, vpc, diskVars, crashes>>
-----------------------------------------------------------------------------
OptimizerStep ==
  /\ pc = "optim"
  /\ weights' = [r \in Rank |-> weights[r] \o took[r]]
  /\ took' = [r \in Rank |-> <<>>]
  /\ pc' = IF Checkpoints THEN "save" ELSE "count"
  /\ UNCHANGED <<cp, workerVars, loader, progress, first, valVars, diskVars, crashes>>

(* total_tokens is brought up to date after the step's checkpoint.         *)
Count ==
  /\ pc = "count"
  /\ progress' = [step |-> IF LastStep THEN progress.step ELSE progress.step + 1,
                  tokens |-> progress.tokens + 1]
  /\ first' = FALSE
  /\ pc' = IF LastStep THEN "save" ELSE "micro"
  /\ UNCHANGED <<cp, workerVars, loader, took, weights, valVars, diskVars, crashes>>

(* save_to_path: every rank files its loader, then all write the model.    *)
SaveLoader(r) ==
  /\ pc = "save"
  /\ r \notin filed
  /\ filed' = filed \cup {r}
  /\ disk' = [disk EXCEPT ![progress.step].loader[r] = <<loader["train"][r]>>]
  /\ UNCHANGED <<cp, workerVars, loader, pc, trainVars, valVars, crashes>>

SaveModel ==
  /\ pc = "save"
  /\ filed = Rank
  /\ filed' = {}
  /\ disk' = [disk EXCEPT ![progress.step].app = <<[weights |-> weights, progress |-> progress]>>]
  /\ pc' = IF LastStep THEN "done" ELSE "count"
  /\ UNCHANGED <<cp, workerVars, loader, trainVars, valVars, crashes>>
-----------------------------------------------------------------------------
(* The trainer is killed; only the disk stays.                             *)
Crash ==
  /\ Up
  /\ crashes < MaxCrashes
  /\ crashes' = crashes + 1
  /\ pc' = "down"
  /\ filed' = {}
  /\ UNCHANGED <<cp, workerVars, loader, trainVars, valVars, disk>>

Whole == {k \in 1 .. MaxSteps : disk[k].app # <<>>}

(* load_from_path falls back to the master's file when a rank has none.    *)
LoaderFile(r, k) ==
  IF disk[k].loader[r] # <<>> THEN disk[k].loader[r] ELSE disk[k].loader[0]

(* iter(dataloader) forks the workers after the loader's state is loaded.  *)
Begin(loaders) ==
  /\ loader' = [train |-> loaders, val |-> [r \in Rank |-> FreshLoader]]
  /\ ds' = [s \in Stream |-> IF s[1] = "val" THEN Fresh
                             ELSE LoadStateDict(loaders[s[2]].snap[s[3]])]
  /\ it' = [s \in Stream |-> StartIter(ds'[s])]
  /\ queue' = [s \in Stream |-> <<>>]
  /\ pc' = "micro"
  /\ first' = TRUE
  /\ took' = [r \in Rank |-> <<>>]
  /\ vpc' = [r \in Rank |-> "out"]
  /\ has' = [r \in Rank |-> FALSE]
  /\ UNCHANGED <<cp, diskVars, crashes>>

Resume(k) ==
  /\ pc = "down"
  /\ k \in Whole
  /\ weights' = disk[k].app[1].weights
  /\ progress' = [disk[k].app[1].progress EXCEPT !.step = @ + 1]
  /\ Begin([r \in Rank |-> LoaderFile(r, k)[1]])

StartOver ==
  /\ pc = "down"
  /\ Whole = {}
  /\ weights' = [r \in Rank |-> <<>>]
  /\ progress' = [step |-> 1, tokens |-> 0]
  /\ Begin([r \in Rank |-> FreshLoader])

Init ==
  /\ cp \in CpSizes
  /\ ds = [s \in Stream |-> Fresh]
  /\ it = [s \in Stream |-> StartIter(Fresh)]
  /\ queue = [s \in Stream |-> <<>>]
  /\ loader = [m \in Mode |-> [r \in Rank |-> FreshLoader]]
  /\ pc = "micro"
  /\ progress = [step |-> 1, tokens |-> 0]
  /\ first = TRUE
  /\ took = [r \in Rank |-> <<>>]
  /\ weights = [r \in Rank |-> <<>>]
  /\ vpc = [r \in Rank |-> "out"]
  /\ has = [r \in Rank |-> FALSE]
  /\ filed = {}
  /\ disk = [k \in 1 .. MaxSteps |-> [loader |-> [r \in Rank |-> <<>>], app |-> <<>>]]
  /\ crashes = 0

RankStep(r) == NextRow(r) \/ NextVal(r) \/ SaveLoader(r)
GangStep ==
  Accumulated \/ Vote \/ ForwardVal \/ Validated \/ OptimizerStep \/ Count \/ SaveModel
Relaunch == StartOver \/ \E k \in 1 .. MaxSteps : Resume(k)

Next ==
  \/ \E s \in Stream : WorkerStep(s)
  \/ \E r \in Rank : RankStep(r)
  \/ GangStep
  \/ Crash
  \/ Relaunch

Spec == Init /\ [][Next]_vars
-----------------------------------------------------------------------------
TypeOK ==
  /\ cp \in CpSizes
  /\ \A s \in Stream :
       /\ ds[s].step \in Nat /\ ds[s].epoch \in Nat /\ Len(ds[s].pending) <= 1
       /\ it[s].shuffle = ds[s].epoch /\ it[s].live \in BOOLEAN
       /\ Len(queue[s]) <= Prefetch
  /\ pc \in {"micro", "val", "optim", "count", "save", "done", "down"}
  /\ progress.step \in 1 .. MaxSteps /\ progress.tokens \in Nat
  /\ \A r \in Rank : Len(took[r]) <= GradAccum
  /\ vpc \in [Rank -> {"out", "next", "vote", "forward"}]
  /\ filed \subseteq Rank

(* The samples the weights of rank r were trained on.                      *)
Row(r, i) == weights[r][i].samples
Positions(r) == UNION {{Row(r, i)[j].at : j \in DOMAIN Row(r, i)} : i \in DOMAIN weights[r]}
Samples(r) == FoldLeft(LAMBDA n, row : n + Len(row.samples), 0, weights[r])
ExampleOf(p) == Index("train", EpochAt("train", p), p)
Due(r, p) ==
  /\ (p - 1) % (World \div cp) = r \div cp
  /\ ExampleOf(p) \in UsableExamples["train"]

(* "iter() forks workers with a copy of the dataset's current state, so a  *)
(* later load_state_dict never reaches an already-running worker" (train)  *)
(* and the pending sample of CatDataset: whatever was prefetched, packed   *)
(* or held back when the trainer was killed, the weights have seen every   *)
(* usable sample of their shard up to the last one, in the order of the    *)
(* epoch's shuffle, none of them twice; and the ranks of a context-        *)
(* parallel group, which cut the same sequence, have seen the same rows.   *)
StreamIntact ==
  \A r \in Rank :
    /\ \A i \in DOMAIN weights[r] : \A j \in DOMAIN Row(r, i) :
         /\ Row(r, i)[j].epoch = EpochAt("train", Row(r, i)[j].at)
         /\ j > 1 => Row(r, i)[j - 1].at < Row(r, i)[j].at
         /\ i > 1 => Last(Row(r, i - 1)).at < Row(r, i)[j].at
    /\ weights[r] # <<>> =>
         Positions(r) = {p \in 1 .. Last(Last(weights[r]).samples).at : Due(r, p)}
    /\ \A q \in Rank : q \div cp = r \div cp => weights[q] = weights[r]

(* "Skip samples that don't belong to this data rank"                      *)
(* (SFTDataset.__iter__): no sample is trained on twice in an epoch.  It   *)
(* fails with two workers: each of them yields the whole shard of its      *)
(* rank, for all were given the same data rank.                            *)
EachSampleOnce ==
  \A r \in Rank :
    /\ Cardinality(Positions(r)) = Samples(r)
    /\ \A q \in Rank : q \div cp # r \div cp => Positions(q) \cap Positions(r) = {}

(* "This is to prevent NaN loss" (_process): no row is without a trained   *)
(* token although rows cut what _process let pass; only a sample longer    *)
(* than a row is cut; and the images of a sample are those whose           *)
(* placeholders are whole in its row.                                      *)
RowsTrain ==
  \A r \in Rank : \A i \in DOMAIN took[r] :
    LET row == took[r][i].samples
        content(j) == Content("train", row[j])
    IN  /\ \E j \in DOMAIN row : content(j).trains \cap 1 .. row[j].kept # {}
        /\ \A j \in DOMAIN row :
             /\ row[j].kept = content(j).len \/ Len(row) = 1
             /\ content(j).images = {p \in TrainData[ExampleOf(row[j].at)].images : p.offset < row[j].kept}
             /\ \A p \in content(j).images : p.offset + p.length <= row[j].kept

(* total_tokens counts the steps trained ("dataset progress",              *)
(* docs/training.md).  It fails after a resume: the checkpoint is written  *)
(* before the step's tokens are added.                                     *)
TokensCounted == pc = "micro" => progress.tokens = progress.step - 1
-----------------------------------------------------------------------------
(* Fairness.  As long as a worker, a rank, a collective or the launcher    *)
(* can go on, one of them does; a crash is never due.                      *)
Progress ==
  \/ \E s \in Stream : WorkerStep(s)
  \/ \E r \in Rank : RankStep(r)
  \/ GangStep
  \/ Relaunch
FairSpec == Spec /\ WF_vars(Progress)

(* "all ranks must agree on when to stop -- otherwise the first rank to    *)
(* exit deadlocks the rest" (run_eval_loop): shards that pack into         *)
(* different numbers of rows and workers that wait for each other's rows   *)
(* never keep the run from its end.                                        *)
RunEnds == <>(pc = "done")
=============================================================================
