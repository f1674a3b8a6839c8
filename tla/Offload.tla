------------------------------- MODULE Offload -------------------------------
(***************************************************************************)
(* Full CPU offload of the optimizer (trainer/optim/offload.py): gradients *)
(* leave the GPU while the backward runs, are summed on the CPU over the   *)
(* micro batches of a step, and a chunk of the optimizer is stepped as     *)
(* soon as the last gradient of its parameters has arrived; its weights    *)
(* return to the GPU while the backward still works on other layers.       *)
(*                                                                         *)
(* Six actors share the state: the training thread (main), the transfer    *)
(* thread, the copy thread, the reclaimer, and the two CUDA streams d2h    *)
(* and h2d, which execute in order what the threads enqueue.  Queues are   *)
(* FIFO.  Slot sizes, data types and the 120 s deadlines are left out.     *)
(***************************************************************************)
EXTENDS Integers, Sequences, FiniteSets, SequencesExt

CONSTANTS
  Param,    (* parameters of the optimizer                                    *)
  Dense,    (* those every backward gives a gradient; others it may skip      *)
  Rank,     (* the order autograd reaches them in                             *)
  Chunk,    (* optimizer chunks                                               *)
  NoChunk,  (* not one of them                                                *)
  ChunkOf,  (* the chunk of each parameter                                    *)
  InSlot,   (* pinned D2H buffers                                             *)
  OutSlot,  (* pinned H2D buffers                                             *)
  Micro,    (* micro batches of a step                                        *)
  Window,   (* _MAX_INFLIGHT_BACKWARDS                                        *)
  MaxStep   (* bound: steps of the run                                        *)

ASSUME OffloadAssumption ==
  /\ IsFiniteSet(Param) /\ IsFiniteSet(Chunk) /\ Param # {}
  /\ Dense \subseteq Param
  /\ ChunkOf \in [Param -> Chunk] /\ Rank \in [Param -> Nat]
  /\ \A c \in Chunk : \E p \in Param : ChunkOf[p] = c
  /\ NoChunk \notin Chunk
  /\ InSlot # {} /\ OutSlot # {} /\ IsFiniteSet(InSlot) /\ IsFiniteSet(OutSlot)
  /\ Micro \in Nat \ {0} /\ Window \in Nat \ {0} /\ MaxStep \in Nat

Worker == {"transfer", "copier", "reclaimer"}
ParamsOf(c) == {p \in Param : ChunkOf[p] = c}
Backward == 1 .. MaxStep * Micro
Gradient == Param \X Backward
Weights == [chunk : Chunk, version : 0 .. MaxStep]

VARIABLES
  \* the training thread
  main,      (* where its loop is                                             *)
  step, backward, (* _step_generation, _backward_generation                   *)
  overlap,   (* _overlap_optimizer                                            *)
  enqueued,  (* _backward_enqueued_param_ids                                  *)
  todo,      (* chunks the synchronous step has yet to run                    *)
  grads,     (* history: the gradients this step's backwards produced         *)
  \* gradients on their way to the CPU
  transfer,  (* _transfer_requests                                            *)
  d2h,       (* copies the stream has yet to execute                          *)
  inFree, inSlot, (* free D2H slots; the gradient in each slot                *)
  tasks,     (* _tasks                                                        *)
  batch,     (* tasks the copy thread has taken and not yet summed            *)
  pending,   (* pending_generations of each parameter                         *)
  initialized, acc, (* its accumulator, and the gradients summed in it        *)
  \* optimizer chunks
  marks,     (* parameters the copy thread has yet to mark ready              *)
  pendingChunk, scheduled, completed, (* _pending_chunk_param_ids, ...        *)
  running,   (* the chunk the copy thread is stepping                         *)
  master,    (* the version of each chunk's master weights                    *)
  used,      (* history: the gradients a chunk was stepped with in this step  *)
  \* weights on their way to the GPU
  outFree, outSlot, (* free H2D slots; the weights in each slot               *)
  h2d,       (* copies the stream has yet to execute                          *)
  release,   (* _release_tasks                                                *)
  fence,     (* h2d copies the compute stream waits for                       *)
  gpu,       (* the weights of each chunk on the GPU                          *)
  \* failures
  dead, error (* the worker that raised, and why                              *)

mainVars  == <<main, step, backward, overlap, enqueued, todo, grads>>
inVars    == <<transfer, d2h, inFree, inSlot, tasks, batch>>
accVars   == <<pending, initialized, acc>>
chunkVars == <<marks, pendingChunk, scheduled, completed, running, master, used>>
outVars   == <<outFree, outSlot, h2d, release, fence, gpu>>
errVars   == <<dead, error>>
vars == <<mainVars, inVars, accVars, chunkVars, outVars, errVars>>
-----------------------------------------------------------------------------
Calm == error = "none"                              \* _raise_worker_error passes
Settled == \A p \in Param : pending[p] = {}         \* wait
Final == backward % Micro = 0                       \* the step's last backward
InFinal == Final /\ overlap

(* A gradient in transit, and the boundary behind those of its backward.   *)
Request(p) ==
  [boundary |-> FALSE, param |-> p, backward |-> backward, final |-> InFinal, missing |-> {}]
MissingAll == IF InFinal THEN Param ELSE {}                          \* mutant
Missing == IF InFinal THEN Param \ enqueued ELSE {}
Boundary ==
  [boundary |-> TRUE, backward |-> backward, final |-> InFinal, missing |-> Missing]
-----------------------------------------------------------------------------
(* The training thread.                                                    *)

BeginStep ==
  /\ main = "idle" /\ step < MaxStep
  /\ Settled /\ Calm
  /\ step' = step + 1
  /\ overlap' \in BOOLEAN
  /\ pendingChunk' = [c \in Chunk |-> {}] /\ scheduled' = {} /\ completed' = 0
  /\ grads' = {} /\ used' = [c \in Chunk |-> {}]
  /\ main' = "forward"
  /\ UNCHANGED <<backward, enqueued, todo, inVars, accVars, marks, running, master,
                 outVars, errVars>>

(* The forward is launched on the compute stream, then begin_backward.     *)
BeginBackward ==
  /\ main = "forward"
  /\ Calm
  /\ backward' = backward + 1
  /\ enqueued' = {}
  /\ IF overlap /\ backward' % Micro = 0
     THEN pendingChunk' = [c \in Chunk |-> ParamsOf(c)] /\ scheduled' = {} /\ completed' = 0
     ELSE UNCHANGED <<pendingChunk, scheduled, completed>>
  /\ main' = "backward"
  /\ UNCHANGED <<step, overlap, todo, grads, inVars, accVars, marks, running, master, used,
                 outVars, errVars>>

(* Autograd visits the parameters in the order of its graph.               *)
Reached(p) ==
  /\ main = "backward" /\ p \notin enqueued
  /\ \A q \in enqueued : Rank[q] <= Rank[p]
  /\ \A q \in Dense \ enqueued : Rank[p] <= Rank[q]

Clashes(p) == \E b \in pending[p] : b % Window = backward % Window

(* _offload_params, from the hook or from finish_backward.                 *)
Hook(p) ==
  /\ Reached(p)
  /\ Calm /\ ~Clashes(p)
  /\ pending' = [pending EXCEPT ![p] = @ \cup {backward}]
  /\ enqueued' = enqueued \cup {p}
  /\ grads' = grads \cup {<<p, backward>>}
  /\ transfer' = Append(transfer, Request(p))
  /\ UNCHANGED <<main, step, backward, overlap, todo, d2h, inFree, inSlot, tasks, batch,
                 initialized, acc, chunkVars, outVars, errVars>>

(* "Gradient event window exhausted": more backwards in flight than events.*)
WindowExhausted(p) ==
  /\ Reached(p)
  /\ Calm /\ Clashes(p)
  /\ main' = "failed"
  /\ UNCHANGED <<step, backward, overlap, enqueued, todo, grads, inVars, accVars, chunkVars,
                 outVars, errVars>>

FinishBackward ==
  /\ main = "backward" /\ Dense \subseteq enqueued
  /\ transfer' = Append(transfer, Boundary)
  /\ main' = IF Final THEN "step" ELSE "forward"
  /\ todo' = IF Final /\ ~overlap THEN Chunk ELSE {}
  /\ UNCHANGED <<step, backward, overlap, enqueued, grads, d2h, inFree, inSlot, tasks, batch,
                 accVars, chunkVars, outVars, errVars>>

(* step of a chunk: the kernel reads the accumulators and fills an output  *)
(* slot; its copy to the GPU is enqueued, and the slot goes to the         *)
(* reclaimer.                                                              *)
StepChunk(c) ==
  /\ outFree # <<>> /\ Calm
  /\ master' = [master EXCEPT ![c] = @ + 1]
  /\ used' = [used EXCEPT ![c] = UNION {acc[p] : p \in {q \in ParamsOf(c) : initialized[q]}}]
  /\ outSlot' = [outSlot EXCEPT ![Head(outFree)] = [chunk |-> c, version |-> master'[c]]]
  /\ outFree' = Tail(outFree)
  /\ h2d' = Append(h2d, [slot |-> Head(outFree), chunk |-> c])
  /\ release' = Append(release, Head(outFree))

NoFence(h) == 0                                                      \* mutant
FenceAt(h) == Len(h)

(* step: the chunks were stepped during the backward.                      *)
StepOverlapped ==
  /\ main = "step" /\ overlap
  /\ completed = Cardinality(Chunk) /\ Calm
  /\ fence' = FenceAt(h2d)
  /\ main' = "zero"
  /\ UNCHANGED <<step, backward, overlap, enqueued, todo, grads, inVars, accVars, chunkVars,
                 outFree, outSlot, h2d, release, gpu, errVars>>

(* The synchronous step: main runs the chunks itself, then synchronizes.   *)
StepSync(c) ==
  /\ main = "step" /\ c \in todo
  /\ Settled
  /\ StepChunk(c)
  /\ todo' = todo \ {c}
  /\ UNCHANGED <<main, step, backward, overlap, enqueued, grads, inVars, accVars, marks,
                 pendingChunk, scheduled, completed, running, fence, gpu, errVars>>

Synchronize ==
  /\ main = "step" /\ ~overlap /\ todo = {} /\ h2d = <<>>
  /\ main' = "zero"
  /\ UNCHANGED <<step, backward, overlap, enqueued, todo, grads, inVars, accVars, chunkVars,
                 outVars, errVars>>

Forgotten == [p \in Param |-> FALSE]

ZeroGrad ==
  /\ main = "zero"
  /\ Settled /\ Calm
  /\ initialized' = Forgotten
  /\ main' = "idle"
  /\ UNCHANGED <<step, backward, overlap, enqueued, todo, grads, inVars, pending, acc,
                 chunkVars, outVars, errVars>>

(* close: joins the workers once nothing is left for them.                 *)
Close ==
  /\ main = "idle" /\ step = MaxStep
  /\ overlap => completed = Cardinality(Chunk)
  /\ Settled /\ Len(outFree) = Cardinality(OutSlot) /\ Calm
  /\ main' = "closed"
  /\ UNCHANGED <<step, backward, overlap, enqueued, todo, grads, inVars, accVars, chunkVars,
                 outVars, errVars>>

(* Where main looks at _worker_error: every wait, begin_step,              *)
(* begin_backward, and the hooks of the gradients still to come.           *)
LooksNotInWaits ==                                                   \* mutant
  \/ main = "forward"
  \/ main = "backward" /\ enqueued # Param
Looks ==
  \/ main \in {"idle", "forward", "zero"}
  \/ main = "step" /\ (overlap \/ todo # {})
  \/ main = "backward" /\ enqueued # Param

Raise ==
  /\ ~Calm /\ Looks
  /\ main' = "failed"
  /\ UNCHANGED <<step, backward, overlap, enqueued, todo, grads, inVars, accVars, chunkVars,
                 outVars, errVars>>
-----------------------------------------------------------------------------
(* The transfer thread.                                                    *)

TransferGradient ==
  /\ dead # "transfer" /\ transfer # <<>> /\ ~Head(transfer).boundary
  /\ inFree # <<>> /\ Calm
  /\ inFree' = Tail(inFree)
  /\ d2h' = Append(d2h, [slot |-> Head(inFree),
                         grad |-> <<Head(transfer).param, Head(transfer).backward>>])
  /\ tasks' = Append(tasks, [task |-> Head(transfer), slot |-> Head(inFree)])
  /\ transfer' = Tail(transfer)
  /\ UNCHANGED <<mainVars, inSlot, batch, accVars, chunkVars, outVars, errVars>>

TransferBoundary ==
  /\ dead # "transfer" /\ transfer # <<>> /\ Head(transfer).boundary
  /\ tasks' = Append(tasks, [task |-> Head(transfer)])
  /\ transfer' = Tail(transfer)
  /\ UNCHANGED <<mainVars, d2h, inFree, inSlot, batch, accVars, chunkVars, outVars, errVars>>

(* The d2h stream executes its next copy, once the compute stream is past  *)
(* the fence and has computed the gradient (ready_event).                  *)
CopyD2H ==
  /\ d2h # <<>> /\ fence = 0
  /\ inSlot' = [inSlot EXCEPT ![Head(d2h).slot] = Head(d2h).grad]
  /\ d2h' = Tail(d2h)
  /\ UNCHANGED <<mainVars, transfer, inFree, tasks, batch, accVars, chunkVars, outVars, errVars>>
-----------------------------------------------------------------------------
(* The copy thread.                                                        *)

CopierIdle == dead # "copier" /\ batch = <<>> /\ marks = {} /\ running = NoChunk

(* A batch ends at a boundary and at a second gradient of a parameter.     *)
Batchable(q) ==
  /\ \A i \in DOMAIN q : ~q[i].task.boundary
  /\ \A i, j \in DOMAIN q : q[i].task.param = q[j].task.param => i = j

TakeBatch ==
  /\ CopierIdle /\ tasks # <<>> /\ ~Head(tasks).task.boundary
  /\ \E n \in 1 .. Len(tasks) :
       /\ Batchable(SubSeq(tasks, 1, n))
       /\ n < Len(tasks) => ~Batchable(SubSeq(tasks, 1, n + 1))
       /\ batch' = SubSeq(tasks, 1, n)
       /\ tasks' = SubSeq(tasks, n + 1, Len(tasks))
  /\ UNCHANGED <<mainVars, transfer, d2h, inFree, inSlot, accVars, chunkVars, outVars, errVars>>

TakeBoundary ==
  /\ CopierIdle /\ tasks # <<>> /\ Head(tasks).task.boundary
  /\ marks' = Head(tasks).task.missing
  /\ tasks' = Tail(tasks)
  /\ UNCHANGED <<mainVars, transfer, d2h, inFree, inSlot, batch, accVars, pendingChunk,
                 scheduled, completed, running, master, used, outVars, errVars>>

FirstOf(q) == Head(q)                                                \* mutant
Awaited(q) == Last(q)

(* After the last copy of the batch: sum, free the slots, retire the       *)
(* generations, and note who may be ready.                                 *)
Materialize ==
  /\ dead # "copier" /\ batch # <<>>
  /\ \A i \in DOMAIN d2h : d2h[i].slot # Awaited(batch).slot
  /\ LET item(p) == CHOOSE i \in DOMAIN batch : batch[i].task.param = p
         in == {batch[i].task.param : i \in DOMAIN batch}
         got(p) == inSlot[batch[item(p)].slot]
     IN /\ acc' = [p \in Param |-> IF p \notin in THEN acc[p]
                                   ELSE (IF initialized[p] THEN acc[p] ELSE {}) \cup {got(p)}]
        /\ initialized' = [p \in Param |-> initialized[p] \/ p \in in]
        /\ pending' = [p \in Param |-> IF p \in in THEN pending[p] \ {batch[item(p)].task.backward}
                                                   ELSE pending[p]]
        /\ marks' = {p \in in : batch[item(p)].task.final}
        /\ IF \A p \in in : batch[item(p)].task.backward \in pending[p]
           THEN UNCHANGED errVars
           ELSE dead' = "copier" /\ error' = IF Calm THEN "protocol" ELSE error
  /\ inFree' = inFree \o [i \in DOMAIN batch |-> batch[i].slot]
  /\ batch' = <<>>
  /\ UNCHANGED <<mainVars, transfer, d2h, inSlot, tasks, pendingChunk, scheduled, completed,
                 running, master, used, outVars>>

(* _mark_final_param_ready: the last parameter of a chunk schedules it; a  *)
(* parameter that "became ready more than once" makes the copy thread      *)
(* raise.                                                                  *)
Mark(p) ==
  /\ dead # "copier" /\ batch = <<>> /\ running = NoChunk /\ p \in marks
  /\ marks' = marks \ {p}
  /\ pendingChunk' = [pendingChunk EXCEPT ![ChunkOf[p]] = @ \ {p}]
  /\ LET c == ChunkOf[p]
         twice == p \notin pendingChunk[c]
         ready == ~twice /\ pendingChunk[c] \ {p} = {} /\ c \notin scheduled
     IN /\ scheduled' = IF ready THEN scheduled \cup {c} ELSE scheduled
        /\ running' = IF ready THEN c ELSE NoChunk
        /\ dead' = IF twice THEN "copier" ELSE dead
        /\ error' = IF twice /\ Calm THEN "protocol" ELSE error
  /\ UNCHANGED <<mainVars, inVars, accVars, completed, master, used, outVars>>

(* _run_optimizer_chunk.                                                   *)
RunChunk ==
  /\ dead # "copier" /\ running # NoChunk
  /\ StepChunk(running)
  /\ completed' = completed + 1
  /\ running' = NoChunk
  /\ UNCHANGED <<mainVars, inVars, accVars, marks, pendingChunk, scheduled, fence, gpu, errVars>>
-----------------------------------------------------------------------------
(* The h2d stream executes its next copy.                                  *)
CopyH2D ==
  /\ h2d # <<>>
  /\ gpu' = [gpu EXCEPT ![Head(h2d).chunk] = outSlot[Head(h2d).slot]]
  /\ h2d' = Tail(h2d)
  /\ fence' = IF fence > 0 THEN fence - 1 ELSE 0
  /\ UNCHANGED <<mainVars, inVars, accVars, chunkVars, outFree, outSlot, release, errVars>>

Copied(s) == \A i \in DOMAIN h2d : h2d[i].slot # s

(* The reclaimer.                                                          *)
Reclaim ==
  /\ dead # "reclaimer" /\ release # <<>>
  /\ Copied(Head(release))
  /\ outFree' = Append(outFree, Head(release))
  /\ release' = Tail(release)
  /\ UNCHANGED <<mainVars, inVars, accVars, chunkVars, outSlot, h2d, fence, gpu, errVars>>

Working(w) ==
  CASE w = "transfer"  -> transfer # <<>> /\ ~Head(transfer).boundary /\ inFree # <<>>
    [] w = "copier"    -> batch # <<>> \/ running # NoChunk
    [] w = "reclaimer" -> release # <<>>

(* A worker raises at what it is doing (CUDA, a kernel, a deadline).       *)
Fault(w) ==
  /\ Calm /\ Working(w)
  /\ dead' = w /\ error' = "fault"
  /\ UNCHANGED <<mainVars, inVars, accVars, chunkVars, outVars>>
-----------------------------------------------------------------------------
NoGrad == <<>>
Initial(c) == [chunk |-> c, version |-> 0]

Init ==
  /\ main = "idle" /\ step = 0 /\ backward = 0 /\ overlap = FALSE
  /\ enqueued = {} /\ todo = {} /\ grads = {}
  /\ transfer = <<>> /\ d2h = <<>> /\ tasks = <<>> /\ batch = <<>>
  /\ inFree = SetToSeq(InSlot) /\ inSlot = [s \in InSlot |-> NoGrad]
  /\ pending = [p \in Param |-> {}]
  /\ initialized = [p \in Param |-> FALSE] /\ acc = [p \in Param |-> {}]
  /\ marks = {} /\ pendingChunk = [c \in Chunk |-> {}]
  /\ scheduled = {} /\ completed = 0 /\ running = NoChunk
  /\ master = [c \in Chunk |-> 0] /\ used = [c \in Chunk |-> {}]
  /\ outFree = SetToSeq(OutSlot)
  /\ outSlot = [s \in OutSlot |-> Initial(CHOOSE c \in Chunk : TRUE)]
  /\ h2d = <<>> /\ release = <<>> /\ fence = 0
  /\ gpu = [c \in Chunk |-> Initial(c)]
  /\ dead = "none" /\ error = "none"

MainStep ==
  \/ BeginStep \/ BeginBackward \/ FinishBackward
  \/ StepOverlapped \/ Synchronize \/ ZeroGrad \/ Close \/ Raise
  \/ \E p \in Param : Hook(p) \/ WindowExhausted(p)
  \/ \E c \in Chunk : StepSync(c)
TransferStep == TransferGradient \/ TransferBoundary
CopierStep ==
  \/ TakeBatch \/ TakeBoundary \/ Materialize \/ RunChunk
  \/ \E p \in Param : Mark(p)

Progress ==
  \/ MainStep \/ TransferStep \/ CopierStep
  \/ CopyD2H \/ CopyH2D \/ Reclaim
Next == Progress \/ \E w \in Worker : Fault(w)

(* Somebody who can run does; nobody spins, so more is not needed.         *)
Spec == Init /\ [][Next]_vars /\ WF_vars(Progress)
-----------------------------------------------------------------------------
Task == [boundary : {FALSE}, param : Param, backward : Backward, final : BOOLEAN,
         missing : {{}}]
Marker == [boundary : {TRUE}, backward : Backward, final : BOOLEAN, missing : SUBSET Param]
Held == [task : Task, slot : InSlot]
Passed == [task : Marker]

(* Types of the pipeline's state; an H2D slot holds a chunk's weights.     *)
TypeOK ==
  /\ main \in {"idle", "forward", "backward", "step", "zero", "closed", "failed"}
  /\ step \in 0 .. MaxStep /\ backward \in {0} \cup Backward /\ overlap \in BOOLEAN
  /\ enqueued \subseteq Param /\ todo \subseteq Chunk /\ grads \subseteq Gradient
  /\ transfer \in Seq(Task \cup Marker)
  /\ d2h \in Seq([slot : InSlot, grad : Gradient])
  /\ inFree \in Seq(InSlot) /\ inSlot \in [InSlot -> Gradient \cup {NoGrad}]
  /\ tasks \in Seq(Held \cup Passed) /\ batch \in Seq(Held)
  /\ pending \in [Param -> SUBSET Backward]
  /\ initialized \in [Param -> BOOLEAN]
  /\ acc \in [Param -> SUBSET (Gradient \cup {NoGrad})]
  /\ marks \subseteq Param /\ pendingChunk \in [Chunk -> SUBSET Param]
  /\ scheduled \subseteq Chunk /\ completed \in Nat /\ running \in Chunk \cup {NoChunk}
  /\ master \in [Chunk -> 0 .. MaxStep]
  /\ used \in [Chunk -> SUBSET (Gradient \cup {NoGrad})]
  /\ outFree \in Seq(OutSlot) /\ outSlot \in [OutSlot -> Weights]
  /\ h2d \in Seq([slot : OutSlot, chunk : Chunk]) /\ release \in Seq(OutSlot)
  /\ fence \in Nat /\ gpu \in [Chunk -> Weights]
  /\ dead \in Worker \cup {"none"} /\ error \in {"none", "fault", "protocol"}

(* When the optimizer step is over, every chunk was stepped exactly once   *)
(* in it, and with every gradient the step's backwards produced for its    *)
(* parameters: none lost in a reused slot, left behind in a queue, or kept *)
(* from an earlier step (_copy_worker_loop, _mark_final_param_ready).      *)
GradientsAllTrain ==
  main = "zero" =>
    \A c \in Chunk : /\ master[c] = step
                     /\ used[c] = {g \in grads : ChunkOf[g[1]] = c}

(* The gradients the GPU may still be computing.                           *)
Uncomputed ==
  {p \in Param : main = "backward" /\ p \notin enqueued}
    \cup {transfer[i].param : i \in {j \in DOMAIN transfer : ~transfer[j].boundary}}
    \cup {d2h[i].grad[1] : i \in DOMAIN d2h}

(* While a gradient may still be computed, the weights of its parameter's  *)
(* chunk on the GPU are those the previous step produced: refreshed        *)
(* weights neither reach the forward too late nor overwrite what a         *)
(* backward is still using (step, finish_backward, _copy_worker_loop).     *)
WeightsHoldStill ==
  fence = 0 =>
    \A p \in Uncomputed :
      gpu[ChunkOf[p]] = [chunk |-> ChunkOf[p], version |-> step - 1]

(* The pipeline's own checks never raise: no generation disappears before  *)
(* its transfer completed and no parameter becomes ready twice.            *)
NoProtocolError == error # "protocol"

(* The run comes to an end: every step completes, or a thread's failure or *)
(* an exhausted event window stops the training thread (_wait_for,         *)
(* _acquire_slot and the queues leave nobody waiting for good).            *)
RunEnds == <>(main \in {"closed", "failed"})
=============================================================================
