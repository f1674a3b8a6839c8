---------------------------- MODULE OffloadProofs ----------------------------
(*****************************************************************************)
(* Theorems about Offload for every number of parameters, chunks, slots,     *)
(* micro batches and steps, and for every order of the backwards: each chunk *)
(* trains once a step on exactly the gradients of its parameters, the GPU's  *)
(* weights hold still while a gradient may be computed, and the pipeline's   *)
(* own checks never raise.                                                   *)
(*                                                                           *)
(* The invariant reads the queues as one pipe, in the order of the           *)
(* backwards; a gradient is pending exactly as long as it is in the pipe     *)
(* (Ordered).  A slot has one owner, and the slots of the line are copied in *)
(* the line's order, so a batch has arrived when its last gradient has       *)
(* (Slots).  A parameter's mark follows its last gradient (Readiness), a     *)
(* chunk's step the marks of its parameters (Scheduling), and a version its  *)
(* step (Versions).  New weights go to the GPU through slots nobody refills, *)
(* and past the fence with the step (Delivered).  Used is the account of the *)
(* gradients.                                                                *)
(*****************************************************************************)
EXTENDS Offload, FiniteSetTheorems, TLAPS

(* The data's types, with natural numbers for steps and backwards: a         *)
(* gradient in transit, a boundary, and both in the line of the copy thread. *)
Ask == [boundary : {FALSE}, param : Param, backward : Nat, final : BOOLEAN, missing : {{}}]
Stop == [boundary : {TRUE}, backward : Nat, final : BOOLEAN, missing : SUBSET Param]
HeldAsk == [task : Ask, slot : InSlot]
HeldStop == [task : Stop]
Grad == Param \X Nat

(* The types of each group of variables.                                     *)
MainTypes ==
  /\ step \in Nat /\ backward \in Nat /\ overlap \in BOOLEAN
  /\ enqueued \subseteq Param /\ todo \subseteq Chunk /\ grads \subseteq Grad
InTypes ==
  /\ transfer \in Seq(Ask \cup Stop)
  /\ d2h \in Seq([slot : InSlot, grad : Grad])
  /\ inFree \in Seq(InSlot) /\ inSlot \in [InSlot -> Grad \cup {NoGrad}]
  /\ tasks \in Seq(HeldAsk \cup HeldStop) /\ batch \in Seq(HeldAsk)
AccTypes ==
  /\ pending \in [Param -> SUBSET Nat]
  /\ initialized \in [Param -> BOOLEAN]
  /\ acc \in [Param -> SUBSET (Grad \cup {NoGrad})]
ChunkTypes ==
  /\ marks \subseteq Param /\ pendingChunk \in [Chunk -> SUBSET Param]
  /\ scheduled \subseteq Chunk /\ completed \in Nat /\ running \in Chunk \cup {NoChunk}
  /\ master \in [Chunk -> Nat]
  /\ used \in [Chunk -> SUBSET (Grad \cup {NoGrad})]
OutTypes ==
  /\ outFree \in Seq(OutSlot) /\ outSlot \in [OutSlot -> [chunk : Chunk, version : Nat]]
  /\ h2d \in Seq([slot : OutSlot, chunk : Chunk]) /\ release \in Seq(OutSlot)
  /\ fence \in Nat /\ gpu \in [Chunk -> [chunk : Chunk, version : Nat]]
Typed == MainTypes /\ InTypes /\ AccTypes /\ ChunkTypes /\ OutTypes

(* SetToSeq(S) lists the elements of a finite set, each once.                *)
LEMMA SlotsListed ==
  ASSUME NEW S, IsFiniteSet(S)
  PROVE  /\ SetToSeq(S) \in Seq(S)
         /\ \A i, j \in DOMAIN SetToSeq(S) : SetToSeq(S)[i] = SetToSeq(S)[j] => i = j
<1>1. Cardinality(S) \in Nat /\ ExistsBijection(1 .. Cardinality(S), S)
  BY FS_CardinalityType
<1>2. \E f \in [1 .. Cardinality(S) -> S] : IsInjective(f)
  BY <1>1 DEF ExistsBijection, Bijection, Injection
<1>3. SetToSeq(S) \in [1 .. Cardinality(S) -> S] /\ IsInjective(SetToSeq(S))
  BY <1>2 DEF SetToSeq
<1>4. SetToSeq(S) \in Seq(S)
  BY <1>1, <1>3
<1> QED BY <1>3, <1>4 DEF IsInjective

(* Init has the types.                                                       *)
LEMMA InitTyped == ASSUME Init PROVE Typed
<1>1. MainTypes /\ AccTypes
  BY DEF Init, MainTypes, AccTypes
<1>2. InTypes
  BY SlotsListed, OffloadAssumption DEF Init, InTypes, OffloadAssumption
<1>3. ChunkTypes
  BY DEF Init, ChunkTypes
<1>4. OutTypes
  <2>1. (CHOOSE c \in Chunk : TRUE) \in Chunk
    BY OffloadAssumption DEF OffloadAssumption
  <2>2. \A c \in Chunk : Initial(c) \in [chunk : Chunk, version : Nat]
    BY DEF Initial
  <2> QED BY <2>1, <2>2, SlotsListed, OffloadAssumption DEF Init, OutTypes, OffloadAssumption
<1> QED BY <1>1, <1>2, <1>3, <1>4 DEF Typed

(* A step keeps the types of main's state.                                   *)
LEMMA MainTyped == ASSUME Typed, Next PROVE MainTypes'
<1> USE DEF MainTypes, Typed, mainVars
<1>1. ASSUME MainStep PROVE MainTypes'
  <2>1. CASE BeginStep        BY <2>1 DEF BeginStep
  <2>2. CASE BeginBackward    BY <2>2 DEF BeginBackward
  <2>3. CASE FinishBackward   BY <2>3 DEF FinishBackward
  <2>4. CASE StepOverlapped   BY <2>4 DEF StepOverlapped
  <2>5. CASE Synchronize      BY <2>5 DEF Synchronize
  <2>6. CASE ZeroGrad         BY <2>6 DEF ZeroGrad
  <2>7. CASE Close            BY <2>7 DEF Close
  <2>8. CASE Raise            BY <2>8 DEF Raise
  <2>9. ASSUME NEW p \in Param, Hook(p) PROVE MainTypes'
    BY <2>9 DEF Hook, Grad
  <2>10. ASSUME NEW p \in Param, WindowExhausted(p) PROVE MainTypes'
    BY <2>10 DEF WindowExhausted
  <2>11. ASSUME NEW c \in Chunk, StepSync(c) PROVE MainTypes'
    BY <2>11 DEF StepSync
  <2> QED BY <1>1, <2>1, <2>2, <2>3, <2>4, <2>5, <2>6, <2>7, <2>8, <2>9, <2>10, <2>11 DEF MainStep
<1>2. CASE UNCHANGED mainVars
  BY <1>2
<1>3. ASSUME ~MainStep PROVE UNCHANGED mainVars
  BY <1>3 DEF Next, Progress, TransferStep, CopierStep, TransferGradient, TransferBoundary, CopyD2H,
     TakeBatch, TakeBoundary, Materialize, Mark, RunChunk, CopyH2D, Reclaim, Fault, Zenon
<1> QED BY <1>1, <1>2, <1>3

(* What main asks of the pipeline is typed.                                  *)
LEMMA RequestsTyped ==
  ASSUME Typed
  PROVE  Boundary \in Stop /\ \A p \in Param : Request(p) \in Ask
<1>1. InFinal \in BOOLEAN
  BY DEF InFinal, Typed, MainTypes, Final
<1> QED BY <1>1 DEF Boundary, Missing, Stop, Request, Ask, Typed, MainTypes

(* The fields of what is in the pipe.                                        *)
LEMMA ItemKinds ==
  ASSUME NEW x \in Ask \cup Stop
  PROVE  /\ x.boundary \in BOOLEAN /\ x.backward \in Nat /\ x.final \in BOOLEAN /\ x.missing \subseteq Param
         /\ x \in Ask <=> ~x.boundary
         /\ ~x.boundary => x.param \in Param /\ x.missing = {}
  BY DEF Ask, Stop

(* Head and tail of a sequence that is not empty.                            *)
LEMMA HeadTail ==
  ASSUME NEW S, NEW q \in Seq(S), q # <<>>
  PROVE  Head(q) = q[1] /\ q[1] \in S /\ Tail(q) \in Seq(S) /\ Len(q) \in Nat \ {0}
         /\ Len(Tail(q)) = Len(q) - 1 /\ \A i \in 1 .. (Len(q) - 1) : Tail(q)[i] = q[i + 1]
  OBVIOUS

(* A prefix of a sequence and what is behind it.                             *)
LEMMA Prefix ==
  ASSUME NEW S, NEW q \in Seq(S), NEW n \in 1 .. Len(q)
  PROVE  /\ SubSeq(q, 1, n) \in Seq(S) /\ Len(SubSeq(q, 1, n)) = n
         /\ \A i \in 1 .. n : SubSeq(q, 1, n)[i] = q[i]
         /\ SubSeq(q, n + 1, Len(q)) \in Seq(S)
         /\ Len(SubSeq(q, n + 1, Len(q))) = Len(q) - n
         /\ \A i \in 1 .. (Len(q) - n) : SubSeq(q, n + 1, Len(q))[i] = q[n + i]
  OBVIOUS

(* The transfer thread moves a gradient and takes a slot for it.             *)
LEMMA GradientTakesSlot ==
  ASSUME Typed, TransferGradient
  PROVE  /\ Head(transfer) \in Ask /\ Head(inFree) \in InSlot
         /\ Tail(transfer) \in Seq(Ask \cup Stop) /\ Tail(inFree) \in Seq(InSlot)
<1>1. Head(transfer) \in Ask \cup Stop /\ Tail(transfer) \in Seq(Ask \cup Stop)
  BY HeadTail DEF Typed, InTypes, TransferGradient
<1>2. Head(inFree) \in InSlot /\ Tail(inFree) \in Seq(InSlot)
  BY HeadTail DEF Typed, InTypes, TransferGradient
<1> QED BY <1>1, <1>2 DEF TransferGradient, Stop

(* A batch holds gradients only.                                             *)
LEMMA BatchIsHeld ==
  ASSUME Typed, tasks # <<>>, NEW n \in 1 .. Len(tasks), Batchable(SubSeq(tasks, 1, n))
  PROVE  /\ SubSeq(tasks, 1, n) \in Seq(HeldAsk)
         /\ SubSeq(tasks, n + 1, Len(tasks)) \in Seq(HeldAsk \cup HeldStop)
<1> DEFINE b == SubSeq(tasks, 1, n)
<1>1. /\ b \in Seq(HeldAsk \cup HeldStop) /\ Len(b) = n
      /\ SubSeq(tasks, n + 1, Len(tasks)) \in Seq(HeldAsk \cup HeldStop)
  BY Prefix DEF Typed, InTypes
<1>2. \A i \in 1 .. n : b[i] \in HeldAsk \cup HeldStop /\ ~b[i].task.boundary
  <2>1. Batchable(b)
    OBVIOUS
  <2> HIDE DEF b
  <2>2. DOMAIN b = 1 .. n /\ \A i \in 1 .. n : b[i] \in HeldAsk \cup HeldStop
    BY <1>1
  <2> QED BY <2>1, <2>2 DEF Batchable
<1>3. \A x \in HeldAsk \cup HeldStop : ~x.task.boundary => x \in HeldAsk
  BY DEF HeldStop, Stop
<1>4. \A i \in 1 .. n : b[i] \in HeldAsk
  BY <1>2, <1>3
<1> HIDE DEF b
<1>5. b \in Seq(HeldAsk)
  BY <1>1, <1>4
<1> QED BY <1>1, <1>5 DEF b

(* A step keeps the types of the gradients' way to the CPU.                  *)
LEMMA InTyped == ASSUME Typed, Next PROVE InTypes'
<1>1. ASSUME UNCHANGED inVars PROVE InTypes'
  BY <1>1 DEF Typed, InTypes, inVars
<1>2. ASSUME NEW p \in Param, Hook(p) PROVE InTypes'
  BY <1>2, RequestsTyped DEF Hook, Typed, InTypes
<1>3. CASE FinishBackward
  BY <1>3, RequestsTyped DEF FinishBackward, Typed, InTypes
<1>4. CASE TransferGradient
  <2>1. Head(transfer) \in Ask /\ Head(inFree) \in InSlot
    BY <1>4, GradientTakesSlot
  <2>2. <<Head(transfer).param, Head(transfer).backward>> \in Grad
    BY <2>1 DEF Ask, Grad
  <2>3. d2h' \in Seq([slot : InSlot, grad : Grad])
    BY <1>4, <2>1, <2>2 DEF TransferGradient, Typed, InTypes
  <2>4. tasks' \in Seq(HeldAsk \cup HeldStop)
    BY <1>4, <2>1 DEF TransferGradient, Typed, InTypes, HeldAsk
  <2> QED BY <1>4, <2>3, <2>4, GradientTakesSlot DEF TransferGradient, Typed, InTypes
<1>5. CASE TransferBoundary
  <2>1. Head(transfer) \in Ask \cup Stop /\ Tail(transfer) \in Seq(Ask \cup Stop)
    BY <1>5, HeadTail DEF TransferBoundary, Typed, InTypes
  <2>2. [task |-> Head(transfer)] \in HeldStop
    BY <1>5, <2>1 DEF TransferBoundary, Ask, HeldStop
  <2> QED BY <1>5, <2>1, <2>2 DEF TransferBoundary, Typed, InTypes
<1>6. CASE CopyD2H
  <2>1. Head(d2h) \in [slot : InSlot, grad : Grad] /\ Tail(d2h) \in Seq([slot : InSlot, grad : Grad])
    BY <1>6, HeadTail DEF CopyD2H, Typed, InTypes
  <2> QED BY <1>6, <2>1 DEF CopyD2H, Typed, InTypes
<1>7. CASE TakeBatch
  <2>1. PICK n \in 1 .. Len(tasks) :
          /\ Batchable(SubSeq(tasks, 1, n))
          /\ batch' = SubSeq(tasks, 1, n) /\ tasks' = SubSeq(tasks, n + 1, Len(tasks))
    BY <1>7 DEF TakeBatch
  <2>2. batch' \in Seq(HeldAsk) /\ tasks' \in Seq(HeldAsk \cup HeldStop)
    BY <1>7, <2>1, BatchIsHeld DEF TakeBatch
  <2> QED BY <1>7, <2>2 DEF TakeBatch, Typed, InTypes
<1>8. CASE TakeBoundary
  BY <1>8, HeadTail DEF TakeBoundary, Typed, InTypes
<1>9. CASE Materialize
  <2>1. [i \in DOMAIN batch |-> batch[i].slot] \in Seq(InSlot)
    <3>1. batch \in Seq(HeldAsk)
      BY DEF Typed, InTypes
    <3>2. DOMAIN batch = 1 .. Len(batch) /\ Len(batch) \in Nat
      BY <3>1
    <3>3. \A i \in DOMAIN batch : batch[i] \in HeldAsk
      BY <3>1
    <3>4. \A x \in HeldAsk : x.slot \in InSlot
      BY DEF HeldAsk
    <3> QED BY <3>2, <3>3, <3>4
  <2>2. inFree' \in Seq(InSlot) /\ batch' = <<>>
    BY <1>9, <2>1 DEF Materialize, Typed, InTypes
  <2>3. UNCHANGED <<transfer, d2h, inSlot, tasks>>
    BY <1>9 DEF Materialize
  <2> QED BY <2>2, <2>3 DEF Typed, InTypes
<1>10. ASSUME NEW p \in Param, Mark(p) \/ WindowExhausted(p) PROVE UNCHANGED inVars
  BY <1>10 DEF Mark, WindowExhausted
<1>11. ASSUME NEW c \in Chunk, StepSync(c) PROVE UNCHANGED inVars
  BY <1>11 DEF StepSync
<1>12. ASSUME \/ BeginStep \/ BeginBackward \/ StepOverlapped \/ Synchronize \/ ZeroGrad \/ Close \/ Raise
              \/ RunChunk \/ CopyH2D \/ Reclaim \/ \E w \in Worker : Fault(w)
       PROVE  UNCHANGED inVars
  BY <1>12, Zenon DEF BeginStep, BeginBackward, StepOverlapped, Synchronize, ZeroGrad, Close, Raise,
     RunChunk, CopyH2D, Reclaim, Fault
<1> QED
  BY <1>1, <1>2, <1>3, <1>4, <1>5, <1>6, <1>7, <1>8, <1>9, <1>10, <1>11, <1>12
     DEF Next, Progress, MainStep, TransferStep, CopierStep

(* A step keeps the types of the accumulators.                               *)
LEMMA AccTyped == ASSUME Typed, Next PROVE AccTypes'
<1>1. ASSUME UNCHANGED accVars PROVE AccTypes'
  BY <1>1 DEF Typed, AccTypes, accVars
<1>2. ASSUME NEW p \in Param, Hook(p) PROVE AccTypes'
  BY <1>2 DEF Hook, Typed, AccTypes, MainTypes
<1>3. CASE ZeroGrad
  BY <1>3 DEF ZeroGrad, Forgotten, Typed, AccTypes
<1>4. CASE Materialize
  <2> DEFINE item(p) == CHOOSE i \in DOMAIN batch : batch[i].task.param = p
             in == {batch[i].task.param : i \in DOMAIN batch}
             got(p) == inSlot[batch[item(p)].slot]
  <2>1. ASSUME NEW p \in in PROVE got(p) \in Grad \cup {NoGrad}
    <3>1. item(p) \in DOMAIN batch
      BY <2>1
    <3>2. batch \in Seq(HeldAsk) /\ inSlot \in [InSlot -> Grad \cup {NoGrad}]
      BY DEF Typed, InTypes
    <3> HIDE DEF item
    <3>3. batch[item(p)] \in HeldAsk
      BY <3>1, <3>2
    <3>4. batch[item(p)].slot \in InSlot
      BY <3>3 DEF HeldAsk
    <3> QED BY <3>2, <3>4
  <2>2. acc' = [p \in Param |-> IF p \notin in THEN acc[p]
                                ELSE (IF initialized[p] THEN acc[p] ELSE {}) \cup {got(p)}]
        /\ initialized' = [p \in Param |-> initialized[p] \/ p \in in]
        /\ pending' = [p \in Param |-> IF p \in in THEN pending[p] \ {batch[item(p)].task.backward}
                                                   ELSE pending[p]]
    BY <1>4 DEF Materialize
  <2> HIDE DEF in, got, item
  <2> QED BY <2>1, <2>2 DEF Typed, AccTypes
<1>5. ASSUME NEW p \in Param, Mark(p) \/ WindowExhausted(p) PROVE UNCHANGED accVars
  BY <1>5 DEF Mark, WindowExhausted
<1>6. ASSUME NEW c \in Chunk, StepSync(c) PROVE UNCHANGED accVars
  BY <1>6 DEF StepSync
<1>7. ASSUME \/ BeginStep \/ BeginBackward \/ FinishBackward \/ StepOverlapped \/ Synchronize
             \/ Close \/ Raise \/ TransferStep \/ CopyD2H \/ TakeBatch \/ TakeBoundary
             \/ RunChunk \/ CopyH2D \/ Reclaim \/ \E w \in Worker : Fault(w)
      PROVE  UNCHANGED accVars
  BY <1>7, Zenon DEF BeginStep, BeginBackward, FinishBackward, StepOverlapped, Synchronize, Close,
     Raise, TransferStep, TransferGradient, TransferBoundary, CopyD2H, TakeBatch, TakeBoundary,
     RunChunk, CopyH2D, Reclaim, Fault
<1> QED
  BY <1>1, <1>2, <1>3, <1>4, <1>5, <1>6, <1>7 DEF Next, Progress, MainStep, CopierStep

(* What stepping a chunk does to the types.                                  *)
LEMMA StepChunkTyped ==
  ASSUME Typed, NEW c \in Chunk, StepChunk(c)
  PROVE  /\ master' \in [Chunk -> Nat] /\ used' \in [Chunk -> SUBSET (Grad \cup {NoGrad})]
         /\ outFree' \in Seq(OutSlot) /\ outSlot' \in [OutSlot -> [chunk : Chunk, version : Nat]]
         /\ h2d' \in Seq([slot : OutSlot, chunk : Chunk]) /\ release' \in Seq(OutSlot)
<1>1. Head(outFree) \in OutSlot /\ Tail(outFree) \in Seq(OutSlot)
  BY HeadTail DEF StepChunk, Typed, OutTypes
<1>2. master' \in [Chunk -> Nat] /\ master'[c] \in Nat
  BY DEF StepChunk, Typed, ChunkTypes
<1>3. used' \in [Chunk -> SUBSET (Grad \cup {NoGrad})]
  <2>1. UNION {acc[p] : p \in {q \in ParamsOf(c) : initialized[q]}} \in SUBSET (Grad \cup {NoGrad})
    BY DEF Typed, AccTypes, ParamsOf
  <2> QED BY <2>1 DEF StepChunk, Typed, ChunkTypes
<1> QED BY <1>1, <1>2, <1>3 DEF StepChunk, Typed, OutTypes

(* A step keeps the types of the optimizer chunks.                           *)
LEMMA ChunkTyped == ASSUME Typed, Next PROVE ChunkTypes'
<1> USE OffloadAssumption DEF OffloadAssumption
<1>1. ASSUME UNCHANGED chunkVars PROVE ChunkTypes'
  BY <1>1 DEF Typed, ChunkTypes, chunkVars
<1>2. CASE BeginStep
  BY <1>2 DEF BeginStep, Typed, ChunkTypes
<1>3. CASE BeginBackward
  BY <1>3 DEF BeginBackward, Typed, ChunkTypes, ParamsOf
<1>4. ASSUME NEW c \in Chunk, StepSync(c) PROVE ChunkTypes'
  BY <1>4, StepChunkTyped DEF StepSync, Typed, ChunkTypes
<1>5. CASE TakeBoundary
  <2>1. Head(tasks) \in HeldAsk \cup HeldStop
    BY <1>5, HeadTail DEF TakeBoundary, Typed, InTypes
  <2>2. Head(tasks).task.missing \subseteq Param
    BY <2>1 DEF HeldAsk, HeldStop, Ask, Stop
  <2> QED BY <1>5, <2>2 DEF TakeBoundary, Typed, ChunkTypes
<1>6. CASE Materialize
  <2>1. batch \in Seq(HeldAsk)
    BY DEF Typed, InTypes
  <2>2. \A i \in DOMAIN batch : batch[i].task.param \in Param
    <3>1. \A i \in DOMAIN batch : batch[i] \in HeldAsk
      BY <2>1
    <3>2. \A x \in HeldAsk : x.task.param \in Param
      BY DEF HeldAsk, Ask
    <3> QED BY <3>1, <3>2
  <2>3. marks' \subseteq {batch[i].task.param : i \in DOMAIN batch}
    BY <1>6 DEF Materialize
  <2>4. UNCHANGED <<pendingChunk, scheduled, completed, running, master, used>>
    BY <1>6 DEF Materialize
  <2> QED BY <2>2, <2>3, <2>4 DEF Typed, ChunkTypes
<1>7. ASSUME NEW p \in Param, Mark(p) PROVE ChunkTypes'
  BY <1>7 DEF Mark, Typed, ChunkTypes
<1>8. CASE RunChunk
  <2>1. running \in Chunk
    BY <1>8 DEF RunChunk, Typed, ChunkTypes
  <2> QED BY <1>8, <2>1, StepChunkTyped DEF RunChunk, Typed, ChunkTypes
<1>9. ASSUME NEW p \in Param, Hook(p) \/ WindowExhausted(p) PROVE UNCHANGED chunkVars
  BY <1>9 DEF Hook, WindowExhausted
<1>10. ASSUME \/ FinishBackward \/ StepOverlapped \/ Synchronize \/ ZeroGrad \/ Close \/ Raise
              \/ TransferStep \/ CopyD2H \/ TakeBatch \/ CopyH2D \/ Reclaim
              \/ \E w \in Worker : Fault(w)
       PROVE  UNCHANGED chunkVars
  BY <1>10, Zenon DEF FinishBackward, StepOverlapped, Synchronize, ZeroGrad, Close,
     Raise, TransferStep, TransferGradient, TransferBoundary, CopyD2H, TakeBatch,
     CopyH2D, Reclaim, Fault
<1> QED
  BY <1>1, <1>2, <1>3, <1>4, <1>5, <1>6, <1>7, <1>8, <1>9, <1>10
     DEF Next, Progress, MainStep, CopierStep

(* A step keeps the types of the weights' way back.                          *)
LEMMA OutTyped == ASSUME Typed, Next PROVE OutTypes'
<1>1. ASSUME UNCHANGED outVars PROVE OutTypes'
  BY <1>1 DEF Typed, OutTypes, outVars
<1>2. CASE StepOverlapped
  BY <1>2 DEF StepOverlapped, FenceAt, Typed, OutTypes
<1>3. ASSUME NEW c \in Chunk, StepSync(c) PROVE OutTypes'
  BY <1>3, StepChunkTyped DEF StepSync, Typed, OutTypes
<1>4. CASE RunChunk
  <2>1. running \in Chunk
    BY <1>4 DEF RunChunk, Typed, ChunkTypes
  <2> QED BY <1>4, <2>1, StepChunkTyped DEF RunChunk, Typed, OutTypes
<1>5. CASE CopyH2D
  <2>1. Head(h2d) \in [slot : OutSlot, chunk : Chunk]
        /\ Tail(h2d) \in Seq([slot : OutSlot, chunk : Chunk])
    <3>1. h2d \in Seq([slot : OutSlot, chunk : Chunk]) /\ h2d # <<>>
      BY <1>5 DEF CopyH2D, Typed, OutTypes
    <3> QED BY <3>1, HeadTail
  <2>2. fence' \in Nat
    BY <1>5 DEF CopyH2D, Typed, OutTypes
  <2>3. gpu' \in [Chunk -> [chunk : Chunk, version : Nat]]
    <3>1. Head(h2d).chunk \in Chunk /\ Head(h2d).slot \in OutSlot
      BY <2>1
    <3>2. gpu' = [gpu EXCEPT ![Head(h2d).chunk] = outSlot[Head(h2d).slot]]
      BY <1>5 DEF CopyH2D
    <3>3. outSlot[Head(h2d).slot] \in [chunk : Chunk, version : Nat]
      BY <3>1 DEF Typed, OutTypes
    <3> QED BY <3>1, <3>2, <3>3 DEF Typed, OutTypes
  <2> QED BY <1>5, <2>1, <2>2, <2>3 DEF CopyH2D, Typed, OutTypes
<1>6. CASE Reclaim
  BY <1>6, HeadTail DEF Reclaim, Typed, OutTypes
<1>7. ASSUME NEW p \in Param, Hook(p) \/ WindowExhausted(p) \/ Mark(p) PROVE UNCHANGED outVars
  BY <1>7 DEF Hook, WindowExhausted, Mark
<1>8. ASSUME \/ BeginStep \/ BeginBackward \/ FinishBackward \/ Synchronize \/ ZeroGrad \/ Close
             \/ Raise \/ TransferStep \/ CopyD2H \/ TakeBatch \/ TakeBoundary \/ Materialize
             \/ \E w \in Worker : Fault(w)
      PROVE  UNCHANGED outVars
  BY <1>8, Zenon DEF BeginStep, BeginBackward, FinishBackward, Synchronize, ZeroGrad, Close,
     Raise, TransferStep, TransferGradient, TransferBoundary, CopyD2H, TakeBatch, TakeBoundary,
     Materialize, Fault
<1> QED
  BY <1>1, <1>2, <1>3, <1>4, <1>5, <1>6, <1>7, <1>8 DEF Next, Progress, MainStep, CopierStep

(* A step keeps the types.                                                   *)
LEMMA NextTyped == ASSUME Typed, [Next]_vars PROVE Typed'
<1>1. ASSUME UNCHANGED vars PROVE Typed'
  BY <1>1 DEF vars, mainVars, inVars, accVars, chunkVars, outVars, Typed, MainTypes, InTypes,
     AccTypes, ChunkTypes, OutTypes
<1> QED BY <1>1, MainTyped, InTyped, AccTyped, ChunkTyped, OutTyped DEF Typed

(* The line is what the copy thread has and will have to do, the pipe also   *)
(* what the transfer thread has yet to pass on.                              *)
LineLen == Len(batch) + Len(tasks)
PipeLen == LineLen + Len(transfer)
Line == [i \in 1 .. LineLen |-> IF i <= Len(batch) THEN batch[i] ELSE tasks[i - Len(batch)]]
Pipe == [i \in 1 .. PipeLen |-> IF i <= LineLen THEN Line[i].task ELSE transfer[i - LineLen]]

(* What line and pipe are made of.                                           *)
LEMMA LinesTyped ==
  ASSUME Typed
  PROVE  /\ LineLen \in Nat /\ PipeLen \in Nat /\ LineLen <= PipeLen
         /\ DOMAIN Line = 1 .. LineLen /\ DOMAIN Pipe = 1 .. PipeLen
         /\ \A i \in 1 .. LineLen : Line[i] \in HeldAsk \cup HeldStop /\ Pipe[i] = Line[i].task
         /\ \A i \in 1 .. PipeLen : Pipe[i] \in Ask \cup Stop
<1>1. /\ batch \in Seq(HeldAsk) /\ tasks \in Seq(HeldAsk \cup HeldStop)
      /\ transfer \in Seq(Ask \cup Stop)
  BY DEF Typed, InTypes
<1>2. LineLen \in Nat /\ PipeLen \in Nat /\ LineLen <= PipeLen
  BY <1>1 DEF LineLen, PipeLen
<1>3. \A i \in 1 .. LineLen : Line[i] \in HeldAsk \cup HeldStop
  BY <1>1 DEF LineLen, Line
<1>4. \A i \in 1 .. LineLen : Pipe[i] = Line[i].task
  BY <1>2 DEF Pipe
<1>5. \A x \in HeldAsk \cup HeldStop : x.task \in Ask \cup Stop
  BY DEF HeldAsk, HeldStop
<1>6. \A i \in 1 .. PipeLen : Pipe[i] \in Ask \cup Stop
  <2>1. \A i \in 1 .. PipeLen : i > LineLen => i - LineLen \in 1 .. Len(transfer)
    BY <1>1, <1>2 DEF PipeLen
  <2>2. \A i \in 1 .. Len(transfer) : transfer[i] \in Ask \cup Stop
    BY <1>1
  <2> QED BY <1>2, <1>3, <1>4, <1>5, <2>1, <2>2 DEF Pipe
<1> QED BY <1>2, <1>3, <1>4, <1>6 DEF Line, Pipe

(* An item enters the pipe: its last place.                                  *)
LEMMA PipeGrows ==
  ASSUME Typed, NEW x \in Ask \cup Stop, transfer' = Append(transfer, x), UNCHANGED <<tasks, batch>>
  PROVE  /\ LineLen' = LineLen /\ Line' = Line /\ PipeLen' = PipeLen + 1
         /\ \A i \in 1 .. PipeLen : Pipe'[i] = Pipe[i]
         /\ Pipe'[PipeLen + 1] = x
<1>1. transfer \in Seq(Ask \cup Stop) /\ LineLen \in Nat /\ PipeLen \in Nat /\ LineLen <= PipeLen
  BY LinesTyped DEF Typed, InTypes
<1>2. LineLen' = LineLen /\ Line' = Line
  BY DEF LineLen, Line
<1>3. Len(transfer') = Len(transfer) + 1 /\ transfer'[Len(transfer) + 1] = x
      /\ \A i \in 1 .. Len(transfer) : transfer'[i] = transfer[i]
  BY <1>1
<1>4. PipeLen' = PipeLen + 1 /\ Len(transfer) \in Nat /\ PipeLen = LineLen + Len(transfer)
  BY <1>1, <1>2, <1>3 DEF PipeLen
<1>5. ASSUME NEW i \in 1 .. PipeLen PROVE Pipe'[i] = Pipe[i]
  <2>1. i > LineLen => i - LineLen \in 1 .. Len(transfer)
    BY <1>1, <1>4
  <2>2. i \in 1 .. PipeLen'
    BY <1>1, <1>4
  <2>3. CASE i <= LineLen
    BY <1>2, <2>2, <2>3 DEF Pipe
  <2>4. CASE ~(i <= LineLen)
    <3>1. Pipe'[i] = transfer'[i - LineLen] /\ Pipe[i] = transfer[i - LineLen]
      BY <1>2, <2>2, <2>4 DEF Pipe
    <3>2. i - LineLen \in 1 .. Len(transfer)
      BY <1>1, <2>1, <2>4
    <3> QED BY <1>3, <3>1, <3>2
  <2> QED BY <2>3, <2>4
<1>6. Pipe'[PipeLen + 1] = x
  <2>1. \A i \in 1 .. PipeLen' : ~(i <= LineLen') => Pipe'[i] = transfer'[i - LineLen']
    BY DEF Pipe
  <2> DEFINE k == PipeLen + 1
  <2>2. k \in 1 .. PipeLen' /\ ~(k <= LineLen') /\ k - LineLen' = Len(transfer) + 1
    BY <1>1, <1>2, <1>4
  <2> HIDE DEF k
  <2>3. Pipe'[k] = transfer'[k - LineLen']
    BY <2>1, <2>2
  <2>4. Pipe'[k] = x
    BY <1>3, <2>2, <2>3
  <2> QED BY <2>4 DEF k
<1> QED BY <1>2, <1>4, <1>5, <1>6

(* The transfer thread moves an item from the requests to the tasks.         *)
LEMMA PipeMoves ==
  ASSUME Typed, NEW h, h.task = Head(transfer), transfer # <<>>,
         transfer' = Tail(transfer), tasks' = Append(tasks, h), UNCHANGED batch
  PROVE  /\ PipeLen' = PipeLen /\ Pipe' = Pipe /\ LineLen' = LineLen + 1
         /\ \A i \in 1 .. LineLen : Line'[i] = Line[i]
         /\ Line'[LineLen + 1] = h
<1>1. /\ transfer \in Seq(Ask \cup Stop) /\ tasks \in Seq(HeldAsk \cup HeldStop)
      /\ Len(batch) \in Nat
      /\ LineLen \in Nat /\ PipeLen \in Nat /\ LineLen <= PipeLen
  BY LinesTyped DEF Typed, InTypes
<1>2. /\ Len(tasks') = Len(tasks) + 1 /\ tasks'[Len(tasks) + 1] = h /\ Len(tasks) \in Nat
      /\ \A i \in 1 .. Len(tasks) : tasks'[i] = tasks[i]
  BY <1>1
<1>3. /\ Head(transfer) = transfer[1] /\ Len(transfer') = Len(transfer) - 1
      /\ Len(transfer) \in Nat \ {0}
      /\ \A i \in 1 .. (Len(transfer) - 1) : transfer'[i] = transfer[i + 1]
  BY <1>1, HeadTail
<1>4. LineLen' = LineLen + 1 /\ PipeLen' = PipeLen
  BY <1>1, <1>2, <1>3 DEF LineLen, PipeLen
<1>5. Line'[LineLen + 1] = h
  <2>1. \A i \in 1 .. LineLen' : ~(i <= Len(batch)) => Line'[i] = tasks'[i - Len(batch)]
    BY DEF Line
  <2> DEFINE k == LineLen + 1
  <2>2. k \in 1 .. LineLen' /\ ~(k <= Len(batch)) /\ k - Len(batch) = Len(tasks) + 1
    BY <1>1, <1>2, <1>4 DEF LineLen
  <2> HIDE DEF k
  <2>3. Line'[k] = tasks'[k - Len(batch)]
    BY <2>1, <2>2
  <2>4. Line'[k] = h
    BY <1>2, <2>2, <2>3
  <2> QED BY <2>4 DEF k
<1>6. ASSUME NEW i \in 1 .. LineLen PROVE Line'[i] = Line[i]
  <2>1. i \in 1 .. LineLen' /\ (i > Len(batch) => i - Len(batch) \in 1 .. Len(tasks))
    BY <1>1, <1>2, <1>4 DEF LineLen
  <2> QED BY <1>1, <1>2, <2>1 DEF Line
<1>7. ASSUME NEW i \in 1 .. PipeLen PROVE Pipe'[i] = Pipe[i]
  <2>1. CASE i <= LineLen
    BY <1>1, <1>4, <1>6, <2>1 DEF Pipe
  <2>2. CASE i = LineLen + 1
    <3>1. Pipe'[i] = h.task
      BY <1>1, <1>4, <1>5, <2>2 DEF Pipe
    <3>2. Pipe[i] = transfer[1]
      BY <1>1, <2>2 DEF Pipe
    <3> QED BY <1>3, <3>1, <3>2
  <2>3. CASE i > LineLen + 1
    <3>1. Pipe'[i] = transfer'[i - (LineLen + 1)]
      <4>1. i \in 1 .. PipeLen' /\ ~(i <= LineLen') /\ i - LineLen' = i - (LineLen + 1)
        BY <1>1, <1>4, <2>3
      <4>2. Pipe'[i] = transfer'[i - LineLen']
        BY <4>1 DEF Pipe
      <4> QED BY <4>1, <4>2
    <3>2. Pipe[i] = transfer[i - LineLen]
      BY <1>1, <2>3 DEF Pipe
    <3>3. i - (LineLen + 1) \in 1 .. (Len(transfer) - 1) /\ i - (LineLen + 1) + 1 = i - LineLen
      BY <1>1, <1>3, <2>3 DEF PipeLen
    <3> QED BY <1>3, <3>1, <3>2, <3>3
  <2> QED BY <1>1, <2>1, <2>2, <2>3
<1>8. Pipe' = Pipe
  <2>1. DOMAIN Pipe' = DOMAIN Pipe /\ DOMAIN Pipe = 1 .. PipeLen
    BY <1>4 DEF Pipe
  <2>2. Pipe = [i \in 1 .. PipeLen |-> Pipe[i]] /\ Pipe' = [i \in 1 .. PipeLen |-> Pipe'[i]]
    BY <1>4 DEF Pipe
  <2> QED BY <1>7, <2>2
<1> QED BY <1>4, <1>5, <1>6, <1>8

(* The copy thread takes a batch: line and pipe stay as they are.            *)
LEMMA BatchTaken == ASSUME Typed, TakeBatch PROVE LineLen' = LineLen /\ Line' = Line /\ PipeLen' = PipeLen /\ Pipe' = Pipe
<1>1. PICK n \in 1 .. Len(tasks) :
        batch' = SubSeq(tasks, 1, n) /\ tasks' = SubSeq(tasks, n + 1, Len(tasks))
  BY DEF TakeBatch
<1>2. batch = <<>> /\ tasks \in Seq(HeldAsk \cup HeldStop) /\ UNCHANGED transfer
  BY DEF TakeBatch, CopierIdle, Typed, InTypes
<1>3. /\ Len(batch') = n /\ Len(tasks') = Len(tasks) - n
      /\ Len(batch) = 0 /\ Len(tasks) \in Nat /\ n \in Nat /\ n <= Len(tasks)
      /\ \A i \in 1 .. n : batch'[i] = tasks[i]
      /\ \A i \in 1 .. (Len(tasks) - n) : tasks'[i] = tasks[n + i]
  <2> HIDE <1>1
  <2>1. Len(tasks) \in Nat /\ Len(batch) = 0 /\ n \in Nat /\ n <= Len(tasks)
    BY <1>2
  <2> QED BY <1>1, <1>2, <2>1, Prefix
<1>4. LineLen' = LineLen /\ LineLen = Len(tasks)
  BY <1>3 DEF LineLen
<1>5. PipeLen' = PipeLen
  BY <1>2, <1>4 DEF PipeLen
<1>6. ASSUME NEW i \in 1 .. LineLen PROVE Line'[i] = Line[i]
  <2>1. Line[i] = tasks[i]
    BY <1>3, <1>4 DEF Line
  <2>2. CASE i <= n
    BY <1>3, <1>4, <2>1, <2>2 DEF Line
  <2>3. CASE i > n
    <3>1. Line'[i] = tasks'[i - n]
      BY <1>3, <1>4, <2>3 DEF Line
    <3>2. i - n \in 1 .. (Len(tasks) - n) /\ n + (i - n) = i
      BY <1>3, <1>4, <2>3
    <3> QED BY <1>3, <2>1, <3>1, <3>2
  <2> QED BY <1>3, <1>4, <2>2, <2>3
<1>7. Line' = Line
  <2>1. Line = [i \in 1 .. LineLen |-> Line[i]] /\ Line' = [i \in 1 .. LineLen |-> Line'[i]]
    BY <1>4 DEF Line
  <2> QED BY <1>6, <2>1
<1>8. Pipe' = Pipe
  BY <1>2, <1>4, <1>5, <1>7 DEF Pipe
<1> QED BY <1>4, <1>5, <1>7, <1>8

(* The first n items have left line and pipe.                                *)
Left(n) ==
  /\ n \in 0 .. LineLen /\ LineLen' = LineLen - n /\ PipeLen' = PipeLen - n
  /\ \A i \in 1 .. (LineLen - n) : Line'[i] = Line[i + n]
  /\ \A i \in 1 .. (PipeLen - n) : Pipe'[i] = Pipe[i + n]

(* When the front of the line leaves, so does that of the pipe.              *)
LEMMA FrontLeaves ==
  ASSUME Typed, NEW n \in 0 .. LineLen, LineLen' = LineLen - n, UNCHANGED transfer,
         \A i \in 1 .. (LineLen - n) : Line'[i] = Line[i + n]
  PROVE  Left(n)
<1>1. LineLen \in Nat /\ PipeLen \in Nat /\ LineLen <= PipeLen /\ Len(transfer) \in Nat
      /\ PipeLen = LineLen + Len(transfer)
  BY LinesTyped DEF Typed, InTypes, PipeLen
<1>2. PipeLen' = PipeLen - n
  BY <1>1 DEF PipeLen
<1>3. ASSUME NEW i \in 1 .. (PipeLen - n) PROVE Pipe'[i] = Pipe[i + n]
  <2>1. i \in 1 .. PipeLen' /\ i + n \in 1 .. PipeLen
    BY <1>1, <1>2
  <2>2. CASE i <= LineLen'
    BY <1>1, <2>1, <2>2 DEF Pipe
  <2>3. CASE i > LineLen'
    <3>1. Pipe'[i] = transfer[i - LineLen']
      BY <1>1, <2>1, <2>3 DEF Pipe
    <3>2. Pipe[i + n] = transfer[i + n - LineLen]
      BY <1>1, <2>1, <2>3 DEF Pipe
    <3>3. i - LineLen' = i + n - LineLen
      BY <1>1
    <3> QED BY <3>1, <3>2, <3>3
  <2> QED BY <1>1, <2>2, <2>3
<1> QED BY <1>2, <1>3 DEF Left

(* Taking a boundary removes the front of the line.                          *)
LEMMA BoundaryTaken ==
  ASSUME Typed, TakeBoundary
  PROVE  Left(1) /\ LineLen >= 1 /\ Line[1] = Head(tasks)
<1>1. batch = <<>> /\ tasks \in Seq(HeldAsk \cup HeldStop) /\ UNCHANGED <<transfer, batch>>
      /\ tasks # <<>> /\ tasks' = Tail(tasks)
  BY DEF TakeBoundary, CopierIdle, Typed, InTypes
<1>2. /\ Len(batch) = 0 /\ Len(batch') = 0 /\ Len(tasks) \in Nat \ {0}
      /\ Len(tasks') = Len(tasks) - 1 /\ Head(tasks) = tasks[1]
      /\ \A i \in 1 .. (Len(tasks) - 1) : tasks'[i] = tasks[i + 1]
  BY <1>1, HeadTail
<1>3. LineLen = Len(tasks) /\ LineLen' = LineLen - 1
  BY <1>2 DEF LineLen
<1>4. \A i \in 1 .. LineLen : Line[i] = tasks[i]
  BY <1>2, <1>3 DEF Line
<1>5. \A i \in 1 .. (LineLen - 1) : Line'[i] = tasks'[i]
  BY <1>2, <1>3 DEF Line
<1>6. Left(1)
  <2>1. \A i \in 1 .. (LineLen - 1) : Line'[i] = Line[i + 1]
    BY <1>2, <1>3, <1>4, <1>5
  <2> QED BY <1>1, <1>2, <1>3, <2>1, FrontLeaves
<1> QED BY <1>2, <1>3, <1>4, <1>6

(* Summing a batch removes it from the front of the line.                    *)
LEMMA BatchLeaves ==
  ASSUME Typed, Materialize
  PROVE  /\ Left(Len(batch)) /\ Len(batch) \in 1 .. LineLen
         /\ \A i \in 1 .. Len(batch) : Line[i] = batch[i] /\ batch[i] \in HeldAsk
<1>1. /\ batch' = <<>> /\ tasks \in Seq(HeldAsk \cup HeldStop) /\ UNCHANGED <<transfer, tasks>>
      /\ batch # <<>> /\ batch \in Seq(HeldAsk)
  BY DEF Materialize, Typed, InTypes
<1>2. /\ Len(batch) \in Nat \ {0} /\ Len(batch') = 0 /\ Len(tasks) \in Nat
      /\ \A i \in 1 .. Len(batch) : batch[i] \in HeldAsk
  BY <1>1
<1>3. LineLen' = LineLen - Len(batch) /\ Len(batch) \in 1 .. LineLen /\ LineLen - Len(batch) = Len(tasks)
  BY <1>1, <1>2 DEF LineLen
<1>4. \A i \in 1 .. Len(tasks) : Line'[i] = tasks[i]
  <2>1. \A i \in 1 .. Len(tasks) : i \in 1 .. LineLen' /\ ~(i <= Len(batch')) /\ i - Len(batch') = i
    BY <1>2, <1>3
  <2> QED BY <1>1, <2>1 DEF Line
<1>5. \A i \in 1 .. Len(tasks) : Line[i + Len(batch)] = tasks[i]
  <2>1. \A i \in 1 .. Len(tasks) : /\ i + Len(batch) \in 1 .. LineLen /\ ~(i + Len(batch) <= Len(batch))
                                   /\ i + Len(batch) - Len(batch) = i
    <3>1. LineLen \in Nat /\ LineLen = Len(batch) + Len(tasks)
      BY <1>2 DEF LineLen
    <3> QED BY <1>2, <3>1
  <2> QED BY <2>1 DEF Line
<1>6. Left(Len(batch))
  BY <1>1, <1>2, <1>3, <1>4, <1>5, FrontLeaves
<1>7. \A i \in 1 .. Len(batch) : Line[i] = batch[i]
  <2>1. \A i \in 1 .. Len(batch) : i \in 1 .. LineLen /\ i <= Len(batch)
    BY <1>2, <1>3, LinesTyped
  <2> QED BY <2>1 DEF Line
<1> QED BY <1>2, <1>3, <1>6, <1>7

(* The gradients summed for a parameter; its old accumulator does not count. *)
Summed(p) == IF initialized[p] THEN acc[p] ELSE {}

(* What summing a batch does, item by item of the pipe: each has a parameter *)
(* of its own.                                                               *)
LEMMA Materialized ==
  ASSUME Typed, Materialize, Batchable(batch)
  PROVE  LET n == Len(batch) IN
         /\ Left(n) /\ n \in 1 .. LineLen
         /\ \A i \in 1 .. n :
              /\ Pipe[i] \in Ask /\ Line[i].slot = batch[i].slot
              /\ pending'[Pipe[i].param] = pending[Pipe[i].param] \ {Pipe[i].backward}
              /\ initialized'[Pipe[i].param]
              /\ acc'[Pipe[i].param] = Summed(Pipe[i].param) \cup {inSlot[Line[i].slot]}
         /\ \A i, j \in 1 .. n : Pipe[i].param = Pipe[j].param => i = j
         /\ \A p \in Param : (\A i \in 1 .. n : Pipe[i].param # p) =>
              /\ pending'[p] = pending[p] /\ initialized'[p] = initialized[p] /\ acc'[p] = acc[p]
         /\ marks' = {p \in Param : \E i \in 1 .. n : Pipe[i].param = p /\ Pipe[i].final}
         /\ (\A i \in 1 .. n : Pipe[i].backward \in pending[Pipe[i].param]) => UNCHANGED errVars
<1> DEFINE n == Len(batch)
           item(p) == CHOOSE i \in DOMAIN batch : batch[i].task.param = p
           in == {batch[i].task.param : i \in DOMAIN batch}
           got(p) == inSlot[batch[item(p)].slot]
<1>1. /\ Left(n) /\ n \in 1 .. LineLen
      /\ \A i \in 1 .. n : Line[i] = batch[i] /\ batch[i] \in HeldAsk
  BY BatchLeaves
<1>2. DOMAIN batch = 1 .. n
  BY DEF Typed, InTypes
<1>3. \A i \in 1 .. n : Pipe[i] = batch[i].task /\ Pipe[i] \in Ask /\ Line[i].slot = batch[i].slot
  <2>1. \A i \in 1 .. n : i \in 1 .. LineLen
    BY <1>1, LinesTyped
  <2> QED BY <1>1, <2>1, LinesTyped DEF HeldAsk
<1>4. \A i, j \in 1 .. n : Pipe[i].param = Pipe[j].param => i = j
  BY <1>2, <1>3 DEF Batchable
<1>5. \A i \in 1 .. n : Pipe[i].param \in in /\ Pipe[i].param \in Param /\ item(Pipe[i].param) = i
  <2>1. ASSUME NEW i \in 1 .. n PROVE item(Pipe[i].param) = i
    <3>1. \A j \in DOMAIN batch : batch[j].task.param = Pipe[i].param <=> j = i
      BY <1>2, <1>3, <1>4
    <3> QED BY <1>2, <3>1
  <2> QED BY <1>2, <1>3, <2>1 DEF Ask
<1>6. \A p \in in : \E i \in 1 .. n : p = Pipe[i].param
  BY <1>2, <1>3
<1>7. /\ acc' = [p \in Param |-> IF p \notin in THEN acc[p]
                                ELSE (IF initialized[p] THEN acc[p] ELSE {}) \cup {got(p)}]
      /\ initialized' = [p \in Param |-> initialized[p] \/ p \in in]
      /\ pending' = [p \in Param |-> IF p \in in THEN pending[p] \ {batch[item(p)].task.backward}
                                                 ELSE pending[p]]
      /\ marks' = {p \in in : batch[item(p)].task.final}
  BY DEF Materialize
<1>8. (\A p \in in : batch[item(p)].task.backward \in pending[p]) => UNCHANGED errVars
  BY DEF Materialize
<1> HIDE DEF in, item, got
<1>9. ASSUME NEW i \in 1 .. n
      PROVE  /\ pending'[Pipe[i].param] = pending[Pipe[i].param] \ {Pipe[i].backward}
             /\ initialized'[Pipe[i].param]
             /\ acc'[Pipe[i].param] = Summed(Pipe[i].param) \cup {inSlot[Line[i].slot]}
  <2> DEFINE p == Pipe[i].param
  <2>1. p \in in /\ p \in Param /\ item(p) = i
    BY <1>5
  <2>2. got(p) = inSlot[Line[i].slot] /\ batch[item(p)].task.backward = Pipe[i].backward
    BY <1>3, <2>1 DEF got
  <2> HIDE DEF p
  <2>3. pending'[p] = pending[p] \ {Pipe[i].backward}
    BY <1>7, <2>1, <2>2
  <2>4. initialized'[p] /\ acc'[p] = Summed(p) \cup {inSlot[Line[i].slot]}
    BY <1>7, <2>1, <2>2 DEF Summed
  <2> QED BY <2>3, <2>4 DEF p
<1>10. ASSUME NEW p \in Param, \A i \in 1 .. n : Pipe[i].param # p
       PROVE  pending'[p] = pending[p] /\ initialized'[p] = initialized[p] /\ acc'[p] = acc[p]
  <2>1. p \notin in
    BY <1>6, <1>10
  <2>2. pending'[p] = pending[p] /\ acc'[p] = acc[p]
    BY <1>7, <2>1
  <2>3. initialized'[p] = initialized[p]
    BY <1>7, <2>1 DEF Typed, AccTypes
  <2> QED BY <2>2, <2>3
<1>11. marks' = {p \in Param : \E i \in 1 .. n : Pipe[i].param = p /\ Pipe[i].final}
  <2>1. \A i \in 1 .. n : batch[item(Pipe[i].param)].task.final = Pipe[i].final
    BY <1>3, <1>5
  <2>2. \A p \in marks' : p \in Param /\ \E i \in 1 .. n : Pipe[i].param = p /\ Pipe[i].final
    BY <1>5, <1>6, <1>7, <2>1
  <2>3. \A i \in 1 .. n : Pipe[i].final => Pipe[i].param \in marks'
    BY <1>5, <1>7, <2>1
  <2> QED BY <2>2, <2>3
<1>12. ASSUME \A i \in 1 .. n : Pipe[i].backward \in pending[Pipe[i].param] PROVE UNCHANGED errVars
  BY <1>3, <1>5, <1>6, <1>8, <1>12
<1> HIDE DEF n
<1> QED BY <1>1, <1>3, <1>4, <1>9, <1>10, <1>11, <1>12 DEF n

(* The pipe is in the order of the backwards: a gradient comes before the    *)
(* boundary of its backward, and a parameter's gradients are of different    *)
(* backwards.                                                                *)
InOrder ==
  \A i, j \in 1 .. PipeLen : i < j =>
    /\ Pipe[i].backward <= Pipe[j].backward
    /\ Pipe[i].boundary => Pipe[i].backward < Pipe[j].backward
    /\ ~Pipe[i].boundary /\ ~Pipe[j].boundary /\ Pipe[i].param = Pipe[j].param
         => Pipe[i].backward < Pipe[j].backward

(* Nothing in it is of a later backward than main's, whose boundary follows. *)
UpToNow ==
  \A i \in 1 .. PipeLen :
    /\ Pipe[i].backward <= backward
    /\ main = "backward" /\ Pipe[i].boundary => Pipe[i].backward < backward

(* A gradient is pending if and only if it is in the pipe.                   *)
PendingIsPiped ==
  /\ \A i \in 1 .. PipeLen : ~Pipe[i].boundary => Pipe[i].backward \in pending[Pipe[i].param]
  /\ \A p \in Param : \A b \in pending[p] : \E i \in 1 .. PipeLen :
       ~Pipe[i].boundary /\ Pipe[i].param = p /\ Pipe[i].backward = b

Ordered == InOrder /\ UpToNow /\ PendingIsPiped

(* In the beginning nothing is on its way.                                   *)
LEMMA InitLine == ASSUME Init PROVE LineLen = 0 /\ PipeLen = 0
  BY DEF Init, LineLen, PipeLen

(* In the beginning there is nothing to be out of order.                     *)
LEMMA InitOrdered == ASSUME Init PROVE Ordered
<1>1. \A i \in 1 .. PipeLen : FALSE
  BY InitLine
<1>2. \A p \in Param : pending[p] = {}
  BY DEF Init
<1> QED BY <1>1, <1>2 DEF Ordered, InOrder, UpToNow, PendingIsPiped

(* What leaves the front leaves the rest in order.                           *)
LEMMA LeavingKeepsOrder ==
  ASSUME Typed, Ordered, NEW n \in Nat, Left(n), UNCHANGED <<main, backward>>
  PROVE  InOrder' /\ UpToNow'
<1>1. /\ PipeLen' = PipeLen - n /\ PipeLen \in Nat /\ n <= PipeLen
      /\ \A i \in 1 .. PipeLen' : i + n \in 1 .. PipeLen /\ Pipe'[i] = Pipe[i + n]
  BY LinesTyped DEF Left
<1>2. InOrder'
  BY <1>1 DEF Ordered, InOrder
<1>3. UpToNow'
  BY <1>1 DEF Ordered, UpToNow
<1> QED BY <1>2, <1>3

(* What enters at the back keeps the order: it is of main's backward, a      *)
(* gradient is the parameter's first of it and a boundary ends it.           *)
LEMMA EnteringKeepsOrder ==
  ASSUME Typed, Ordered, NEW x \in Ask \cup Stop, x.backward = backward, main = "backward",
         transfer' = Append(transfer, x), UNCHANGED <<tasks, batch, backward>>,
         ~x.boundary => backward \notin pending[x.param],
         x.boundary => main' # "backward"
  PROVE  InOrder' /\ UpToNow'
<1>1. /\ PipeLen' = PipeLen + 1 /\ PipeLen \in Nat /\ backward \in Nat
      /\ \A i \in 1 .. PipeLen : Pipe'[i] = Pipe[i] /\ Pipe[i] \in Ask \cup Stop
      /\ Pipe'[PipeLen + 1] = x
  BY PipeGrows, LinesTyped DEF Typed, MainTypes
<1>2. \A y \in Ask \cup Stop : y.backward \in Nat /\ y.boundary \in BOOLEAN
  BY DEF Ask, Stop
<1>3. ASSUME NEW i \in 1 .. PipeLen
      PROVE  /\ Pipe[i].backward <= backward
             /\ Pipe[i].boundary => Pipe[i].backward < backward
             /\ ~Pipe[i].boundary /\ ~x.boundary /\ Pipe[i].param = x.param
                  => Pipe[i].backward < backward
  <2>1. Pipe[i].backward <= backward /\ (Pipe[i].boundary => Pipe[i].backward < backward)
    BY DEF Ordered, UpToNow
  <2>2. ~Pipe[i].boundary => Pipe[i].backward \in pending[Pipe[i].param]
    BY DEF Ordered, PendingIsPiped
  <2> QED BY <1>1, <1>2, <2>1, <2>2
<1>4. InOrder'
  <2> SUFFICES ASSUME NEW i \in 1 .. PipeLen', NEW j \in 1 .. PipeLen', i < j
               PROVE  /\ Pipe'[i].backward <= Pipe'[j].backward
                      /\ Pipe'[i].boundary => Pipe'[i].backward < Pipe'[j].backward
                      /\ ~Pipe'[i].boundary /\ ~Pipe'[j].boundary /\ Pipe'[i].param = Pipe'[j].param
                           => Pipe'[i].backward < Pipe'[j].backward
    BY DEF InOrder
  <2>1. i \in 1 .. PipeLen /\ Pipe'[i] = Pipe[i]
    BY <1>1
  <2>2. CASE j = PipeLen + 1
    BY <1>1, <1>3, <2>1, <2>2
  <2>3. CASE j # PipeLen + 1
    <3>1. j \in 1 .. PipeLen /\ Pipe'[j] = Pipe[j]
      BY <1>1, <2>3
    <3> QED BY <2>1, <3>1 DEF Ordered, InOrder
  <2> QED BY <2>2, <2>3
<1>5. UpToNow'
  <2> SUFFICES ASSUME NEW i \in 1 .. PipeLen'
               PROVE  /\ Pipe'[i].backward <= backward
                      /\ main' = "backward" /\ Pipe'[i].boundary => Pipe'[i].backward < backward
    BY DEF UpToNow
  <2>1. CASE i = PipeLen + 1
    BY <1>1, <2>1
  <2>2. CASE i # PipeLen + 1
    <3>1. i \in 1 .. PipeLen /\ Pipe'[i] = Pipe[i]
      BY <1>1, <2>2
    <3> QED BY <1>3, <3>1
  <2> QED BY <2>1, <2>2
<1> QED BY <1>4, <1>5

(* The steps that touch nothing the order is about.                          *)
LEMMA OrderedFrame ==
  ASSUME Ordered, UNCHANGED <<LineLen, PipeLen, Pipe, backward, pending>>,
         main' = "backward" => main = "backward"
  PROVE  Ordered'
  BY DEF Ordered, InOrder, UpToNow, PendingIsPiped

(* Line and pipe depend on three queues.                                     *)
LEMMA LinesFrame ==
  ASSUME UNCHANGED <<batch, tasks, transfer>>
  PROVE  UNCHANGED <<LineLen, PipeLen, Line, Pipe>>
<1>1. UNCHANGED <<LineLen, PipeLen>>
  BY DEF LineLen, PipeLen
<1>2. UNCHANGED Line
  BY <1>1 DEF Line
<1> QED BY <1>1, <1>2 DEF Pipe

(* A step keeps the pipe in order.                                           *)
LEMMA NextOrdered ==
  ASSUME Typed, Ordered, batch # <<>> => Batchable(batch), [Next]_vars
  PROVE  Ordered'
<1>1. CASE BeginBackward
  <2>1. UNCHANGED <<LineLen, PipeLen, Pipe, pending>> /\ backward' = backward + 1 /\ main = "forward"
    BY <1>1, LinesFrame DEF BeginBackward, inVars, accVars
  <2>2. \A i \in 1 .. PipeLen : Pipe[i].backward \in Nat
    BY LinesTyped DEF Ask, Stop
  <2>3. backward \in Nat
    BY DEF Typed, MainTypes
  <2> QED BY <2>1, <2>2, <2>3 DEF Ordered, InOrder, UpToNow, PendingIsPiped
<1>2. ASSUME NEW p \in Param, Hook(p) PROVE Ordered'
  <2> DEFINE x == Request(p)
  <2>1. /\ x \in Ask /\ x.backward = backward /\ ~x.boundary /\ x.param = p
        /\ transfer' = Append(transfer, x) /\ main = "backward"
        /\ UNCHANGED <<tasks, batch, backward, main>>
        /\ pending' = [pending EXCEPT ![p] = @ \cup {backward}]
        /\ backward \notin pending[p]
    BY <1>2, RequestsTyped DEF Hook, Reached, Clashes, Request
  <2> HIDE DEF x
  <2>2. InOrder' /\ UpToNow'
    BY <2>1, EnteringKeepsOrder
  <2>3. /\ PipeLen' = PipeLen + 1 /\ PipeLen \in Nat
        /\ \A i \in 1 .. PipeLen : Pipe'[i] = Pipe[i] /\ Pipe[i] \in Ask \cup Stop
        /\ Pipe'[PipeLen + 1] = x
    BY <2>1, PipeGrows, LinesTyped
  <2>4. /\ pending'[p] = pending[p] \cup {backward}
        /\ \A q \in Param : q # p => pending'[q] = pending[q]
    BY <2>1 DEF Typed, AccTypes
  <2>5. ASSUME NEW i \in 1 .. PipeLen', ~Pipe'[i].boundary
        PROVE  Pipe'[i].backward \in pending'[Pipe'[i].param]
    <3>1. CASE i = PipeLen + 1
      BY <2>1, <2>3, <2>4, <3>1
    <3>2. CASE i # PipeLen + 1
      <4>1. i \in 1 .. PipeLen /\ Pipe'[i] = Pipe[i] /\ Pipe[i] \in Ask
        BY <2>3, <2>5, <3>2, ItemKinds
      <4>2. Pipe[i].param \in Param /\ Pipe[i].backward \in pending[Pipe[i].param]
        BY <2>5, <4>1, ItemKinds DEF Ordered, PendingIsPiped
      <4> QED BY <2>4, <4>1, <4>2
    <3> QED BY <3>1, <3>2
  <2>6. ASSUME NEW q \in Param, NEW b \in pending'[q]
        PROVE  \E i \in 1 .. PipeLen' : ~Pipe'[i].boundary /\ Pipe'[i].param = q /\ Pipe'[i].backward = b
    <3>1. CASE b \in pending[q]
      <4>1. PICK i \in 1 .. PipeLen : ~Pipe[i].boundary /\ Pipe[i].param = q /\ Pipe[i].backward = b
        BY <3>1 DEF Ordered, PendingIsPiped
      <4>2. i \in 1 .. PipeLen' /\ Pipe'[i] = Pipe[i]
        BY <2>3
      <4> QED BY <4>1, <4>2
    <3>2. CASE b \notin pending[q]
      <4>1. q = p /\ b = backward
        BY <2>4, <2>6, <3>2
      <4>2. PipeLen + 1 \in 1 .. PipeLen'
        BY <2>3
      <4> QED BY <2>1, <2>3, <4>1, <4>2
    <3> QED BY <3>1, <3>2
  <2> QED BY <2>2, <2>5, <2>6 DEF Ordered, PendingIsPiped
<1>3. CASE FinishBackward
  <2> DEFINE x == Boundary
  <2>1. /\ x \in Stop /\ x.backward = backward /\ x.boundary
        /\ transfer' = Append(transfer, x) /\ main = "backward" /\ main' # "backward"
        /\ UNCHANGED <<tasks, batch, backward, pending>>
    BY <1>3, RequestsTyped DEF FinishBackward, Boundary, accVars
  <2> HIDE DEF x
  <2>2. InOrder' /\ UpToNow'
    BY <2>1, EnteringKeepsOrder
  <2>3. /\ PipeLen' = PipeLen + 1 /\ PipeLen \in Nat
        /\ \A i \in 1 .. PipeLen : Pipe'[i] = Pipe[i]
        /\ Pipe'[PipeLen + 1] = x
    BY <2>1, PipeGrows, LinesTyped
  <2>4. ASSUME NEW i \in 1 .. PipeLen', ~Pipe'[i].boundary
        PROVE  Pipe'[i].backward \in pending[Pipe'[i].param]
    <3>1. i \in 1 .. PipeLen /\ Pipe'[i] = Pipe[i]
      BY <2>1, <2>3, <2>4
    <3> QED BY <2>4, <3>1 DEF Ordered, PendingIsPiped
  <2>5. \A i \in 1 .. PipeLen : i \in 1 .. PipeLen' /\ Pipe'[i] = Pipe[i]
    BY <2>3
  <2> QED BY <2>1, <2>2, <2>4, <2>5 DEF Ordered, PendingIsPiped
<1>4. CASE TransferGradient
  <2>1. UNCHANGED <<Pipe, PipeLen, backward, pending, main>>
    BY <1>4, PipeMoves DEF TransferGradient, mainVars, accVars
  <2> QED BY <2>1 DEF Ordered, InOrder, UpToNow, PendingIsPiped
<1>5. CASE TransferBoundary
  <2>1. UNCHANGED <<Pipe, PipeLen, backward, pending, main>>
    BY <1>5, PipeMoves DEF TransferBoundary, mainVars, accVars
  <2> QED BY <2>1 DEF Ordered, InOrder, UpToNow, PendingIsPiped
<1>6. CASE TakeBatch
  <2>1. UNCHANGED <<LineLen, PipeLen, Pipe, backward, pending, main>>
    BY <1>6, BatchTaken DEF TakeBatch, mainVars, accVars
  <2> QED BY <2>1, OrderedFrame
<1>7. CASE TakeBoundary
  <2>1. Left(1) /\ LineLen >= 1 /\ Line[1] = Head(tasks) /\ UNCHANGED <<main, backward, pending>>
    BY <1>7, BoundaryTaken DEF TakeBoundary, mainVars, accVars
  <2>2. InOrder' /\ UpToNow'
    BY <2>1, LeavingKeepsOrder
  <2>3. Pipe[1].boundary
    BY <1>7, <2>1, LinesTyped DEF TakeBoundary
  <2>4. /\ PipeLen' = PipeLen - 1 /\ PipeLen \in Nat
        /\ \A i \in 1 .. (PipeLen - 1) : Pipe'[i] = Pipe[i + 1]
    BY <2>1, LinesTyped DEF Left
  <2>5. ASSUME NEW p \in Param, NEW b \in pending[p]
        PROVE  \E i \in 1 .. PipeLen' : ~Pipe'[i].boundary /\ Pipe'[i].param = p /\ Pipe'[i].backward = b
    <3>1. PICK i \in 1 .. PipeLen : ~Pipe[i].boundary /\ Pipe[i].param = p /\ Pipe[i].backward = b
      BY DEF Ordered, PendingIsPiped
    <3>2. i # 1
      BY <2>3, <3>1
    <3>3. i - 1 \in 1 .. PipeLen' /\ Pipe'[i - 1] = Pipe[i]
      BY <2>4, <3>2
    <3> QED BY <3>1, <3>3
  <2>6. \A i \in 1 .. PipeLen' : ~Pipe'[i].boundary => Pipe'[i].backward \in pending[Pipe'[i].param]
    BY <2>4 DEF Ordered, PendingIsPiped
  <2> QED BY <2>1, <2>2, <2>5, <2>6 DEF Ordered, PendingIsPiped
<1>8. CASE Materialize
  <2> DEFINE n == Len(batch)
  <2>1. /\ Left(n) /\ n \in 1 .. LineLen
        /\ \A i \in 1 .. n :
             /\ Pipe[i] \in Ask
             /\ pending'[Pipe[i].param] = pending[Pipe[i].param] \ {Pipe[i].backward}
        /\ \A i, j \in 1 .. n : Pipe[i].param = Pipe[j].param => i = j
        /\ \A p \in Param : (\A i \in 1 .. n : Pipe[i].param # p) => pending'[p] = pending[p]
    BY <1>8, Materialized DEF Materialize
  <2>2. UNCHANGED <<main, backward>>
    BY <1>8 DEF Materialize, mainVars
  <2> HIDE DEF n
  <2>3. n \in Nat /\ InOrder' /\ UpToNow'
    BY <2>1, <2>2, LinesTyped, LeavingKeepsOrder
  <2>4. /\ PipeLen' = PipeLen - n /\ PipeLen \in Nat /\ n <= PipeLen
        /\ \A i \in 1 .. PipeLen' : i + n \in 1 .. PipeLen /\ Pipe'[i] = Pipe[i + n]
        /\ \A i \in 1 .. PipeLen : Pipe[i] \in Ask \cup Stop
    BY <2>1, LinesTyped DEF Left
  <2>5. ASSUME NEW i \in 1 .. PipeLen', ~Pipe'[i].boundary
        PROVE  Pipe'[i].backward \in pending'[Pipe'[i].param]
    <3> DEFINE k == i + n
    <3>1. k \in 1 .. PipeLen /\ Pipe'[i] = Pipe[k] /\ k > n
      BY <2>3, <2>4
    <3> HIDE DEF k
    <3>2. ~Pipe[k].boundary /\ Pipe[k].backward \in pending[Pipe[k].param] /\ Pipe[k].param \in Param
      <4>1. ~Pipe[k].boundary /\ Pipe[k] \in Ask
        BY <2>4, <2>5, <3>1, ItemKinds
      <4> QED BY <3>1, <4>1, ItemKinds DEF Ordered, PendingIsPiped
    <3>3. CASE \E j \in 1 .. n : Pipe[j].param = Pipe[k].param
      <4>1. PICK j \in 1 .. n : Pipe[j].param = Pipe[k].param
        BY <3>3
      <4>2. j < k /\ j \in 1 .. PipeLen /\ ~Pipe[j].boundary
        <5>1. j < k /\ j \in 1 .. PipeLen
          BY <2>3, <2>4, <3>1
        <5> QED BY <2>1, <5>1, ItemKinds
      <4>3. Pipe[j].backward < Pipe[k].backward
        BY <3>1, <3>2, <4>1, <4>2 DEF Ordered, InOrder
      <4>4. Pipe[j].backward \in Nat /\ Pipe[k].backward \in Nat
        BY <2>4, <3>1, <4>2, ItemKinds
      <4>5. pending'[Pipe[k].param] = pending[Pipe[k].param] \ {Pipe[j].backward}
        BY <2>1, <4>1
      <4>6. Pipe[k].backward # Pipe[j].backward
        BY <4>3, <4>4
      <4> QED BY <3>1, <3>2, <4>5, <4>6
    <3>4. CASE \A j \in 1 .. n : Pipe[j].param # Pipe[k].param
      BY <2>1, <3>1, <3>2, <3>4
    <3> QED BY <3>3, <3>4
  <2>6. ASSUME NEW p \in Param, NEW b \in pending'[p]
        PROVE  \E i \in 1 .. PipeLen' : ~Pipe'[i].boundary /\ Pipe'[i].param = p /\ Pipe'[i].backward = b
    <3>1. b \in pending[p] /\ \A j \in 1 .. n : Pipe[j].param = p => Pipe[j].backward # b
      <4>1. CASE \E j \in 1 .. n : Pipe[j].param = p
        <5>1. PICK j \in 1 .. n : Pipe[j].param = p
          BY <4>1
        <5>2. pending'[p] = pending[p] \ {Pipe[j].backward}
          BY <2>1, <5>1
        <5>3. \A l \in 1 .. n : Pipe[l].param = p => l = j
          BY <2>1, <5>1
        <5> QED BY <2>6, <5>2, <5>3
      <4>2. CASE \A j \in 1 .. n : Pipe[j].param # p
        BY <2>1, <2>6, <4>2
      <4> QED BY <4>1, <4>2
    <3>2. PICK k \in 1 .. PipeLen : ~Pipe[k].boundary /\ Pipe[k].param = p /\ Pipe[k].backward = b
      BY <3>1 DEF Ordered, PendingIsPiped
    <3>3. k > n
      BY <2>3, <3>1, <3>2
    <3>4. k - n \in 1 .. PipeLen' /\ Pipe'[k - n] = Pipe[k]
      BY <2>3, <2>4, <3>3
    <3> QED BY <3>2, <3>4
  <2> QED BY <2>3, <2>5, <2>6 DEF Ordered, PendingIsPiped
<1>9. ASSUME \/ UNCHANGED vars \/ BeginStep \/ StepOverlapped \/ Synchronize \/ ZeroGrad \/ Close
             \/ Raise \/ CopyD2H \/ RunChunk \/ CopyH2D \/ Reclaim
             \/ \E w \in Worker : Fault(w)
             \/ \E p \in Param : WindowExhausted(p) \/ Mark(p)
             \/ \E c \in Chunk : StepSync(c)
      PROVE  Ordered'
  <2>1. UNCHANGED <<batch, tasks, transfer, backward, pending>> /\ (main' = "backward" => main = "backward")
    BY <1>9, Zenon DEF vars, mainVars, inVars, accVars, BeginStep, StepOverlapped, Synchronize,
       ZeroGrad, Close, Raise, CopyD2H, RunChunk, CopyH2D, Reclaim, Fault, WindowExhausted, Mark,
       StepSync
  <2> QED BY <2>1, LinesFrame, OrderedFrame
<1> QED
  BY <1>1, <1>2, <1>3, <1>4, <1>5, <1>6, <1>7, <1>8, <1>9
     DEF Next, Progress, MainStep, TransferStep, CopierStep

(* The gradients of the line, and those whose copy is yet to be executed.    *)
Slotted == {j \in 1 .. LineLen : ~Line[j].task.boundary}
Waiting(j) == \E i \in DOMAIN d2h : d2h[i].slot = Line[j].slot

(* A slot is free once, or holds one gradient of the line.                   *)
SlotsApart ==
  /\ \A i, j \in DOMAIN inFree : inFree[i] = inFree[j] => i = j
  /\ \A j \in Slotted : \A i \in DOMAIN inFree : inFree[i] # Line[j].slot
  /\ \A j, k \in Slotted : Line[j].slot = Line[k].slot => j = k

(* The copies the stream has yet to execute are those of the last gradients  *)
(* of the line, in its order; the others are in their slots.                 *)
CopiesInOrder ==
  /\ \A i \in DOMAIN d2h : \E j \in Slotted :
       d2h[i].slot = Line[j].slot /\ d2h[i].grad = <<Line[j].task.param, Line[j].task.backward>>
  /\ \A i, k \in DOMAIN d2h : \A j, l \in Slotted :
       i < k /\ d2h[i].slot = Line[j].slot /\ d2h[k].slot = Line[l].slot => j < l
  /\ \A j, k \in Slotted : j < k /\ Waiting(j) => Waiting(k)
  /\ \A j \in Slotted : Waiting(j) \/ inSlot[Line[j].slot] = <<Line[j].task.param, Line[j].task.backward>>

Slots == SlotsApart /\ CopiesInOrder

(* The gradients of the line hold slots.                                     *)
LEMMA SlottedTyped ==
  ASSUME Typed
  PROVE  \A j \in Slotted : /\ j \in 1 .. LineLen /\ Line[j] \in HeldAsk /\ Line[j].slot \in InSlot
                            /\ Line[j].task \in Ask /\ Pipe[j] = Line[j].task /\ j \in 1 .. PipeLen
<1> SUFFICES ASSUME NEW j \in Slotted
             PROVE  /\ j \in 1 .. LineLen /\ Line[j] \in HeldAsk /\ Line[j].slot \in InSlot
                    /\ Line[j].task \in Ask /\ Pipe[j] = Line[j].task /\ j \in 1 .. PipeLen
  OBVIOUS
<1>1. j \in 1 .. LineLen /\ ~Line[j].task.boundary
  BY DEF Slotted
<1>2. Line[j] \in HeldAsk \cup HeldStop /\ Pipe[j] = Line[j].task /\ j \in 1 .. PipeLen
  BY <1>1, LinesTyped
<1>3. \A x \in HeldStop : x.task.boundary
  BY DEF HeldStop, Stop
<1> QED BY <1>1, <1>2, <1>3 DEF HeldAsk

(* In the beginning every slot is free, and listed once.                     *)
LEMMA InitSlots == ASSUME Init PROVE Slots
<1>1. \A i, j \in DOMAIN inFree : inFree[i] = inFree[j] => i = j
  BY SlotsListed, OffloadAssumption DEF Init, OffloadAssumption
<1>2. \A j \in Slotted : FALSE
  BY InitLine DEF Slotted
<1>3. \A i \in DOMAIN d2h : FALSE
  BY DEF Init
<1> QED BY <1>1, <1>2, <1>3 DEF Slots, SlotsApart, CopiesInOrder

(* A gradient takes the first free slot and the last place.                  *)
LEMMA TransferKeepsSlots == ASSUME Typed, Slots, TransferGradient PROVE Slots'
<1> DEFINE h == [task |-> Head(transfer), slot |-> Head(inFree)]
           c == [slot |-> h.slot, grad |-> <<h.task.param, h.task.backward>>]
<1>0. PICK m \in Nat : m = LineLen + 1
  BY LinesTyped
<1>1. /\ LineLen' = m /\ LineLen \in Nat /\ Line'[m] = h
      /\ \A i \in 1 .. LineLen : Line'[i] = Line[i]
  BY <1>0, PipeMoves, LinesTyped DEF TransferGradient
<1>2. ~h.task.boundary /\ UNCHANGED inSlot /\ d2h' = Append(d2h, c) /\ inFree' = Tail(inFree)
  BY DEF TransferGradient
<1>3. /\ inFree \in Seq(InSlot) /\ inFree # <<>> /\ h.slot = Head(inFree)
      /\ d2h \in Seq([slot : InSlot, grad : Grad])
  BY DEF TransferGradient, Typed, InTypes
<1>4. c.slot = h.slot /\ c.grad = <<h.task.param, h.task.backward>>
  OBVIOUS
<1> HIDE DEF h, c
<1>5. /\ \A i \in DOMAIN inFree' : i + 1 \in DOMAIN inFree /\ inFree'[i] = inFree[i + 1] /\ i \in Nat \ {0}
      /\ 1 \in DOMAIN inFree /\ h.slot = inFree[1]
  BY <1>2, <1>3, HeadTail
<1>6. /\ DOMAIN d2h = 1 .. Len(d2h) /\ DOMAIN d2h' = 1 .. (Len(d2h) + 1) /\ Len(d2h) \in Nat
      /\ \A i \in DOMAIN d2h : d2h'[i] = d2h[i]
      /\ d2h'[Len(d2h) + 1] = c
  <2>1. DOMAIN d2h = 1 .. Len(d2h) /\ Len(d2h) \in Nat
    BY <1>3
  <2>2. DOMAIN d2h' = 1 .. (Len(d2h) + 1) /\ d2h'[Len(d2h) + 1] = c
        /\ \A i \in 1 .. Len(d2h) : d2h'[i] = d2h[i]
    BY <1>2, <1>3, <2>1
  <2> QED BY <2>1, <2>2
<1>7. \A j \in Slotted' : (j = m /\ Line'[j] = h) \/ (j \in Slotted /\ Line'[j] = Line[j] /\ j < m)
  <2> SUFFICES ASSUME NEW j \in Slotted'
               PROVE  (j = m /\ Line'[j] = h) \/ (j \in Slotted /\ Line'[j] = Line[j] /\ j < m)
    OBVIOUS
  <2>1. j \in 1 .. m /\ ~Line'[j].task.boundary
    BY <1>1 DEF Slotted
  <2>2. CASE j = m
    BY <1>1, <2>2
  <2>3. CASE j # m
    <3>1. j \in 1 .. LineLen /\ j < m
      BY <1>0, <1>1, <2>1, <2>3
    <3> QED BY <1>1, <2>1, <3>1 DEF Slotted
  <2> QED BY <2>2, <2>3
<1>8. m \in Slotted' /\ \A j \in Slotted : j \in Slotted' /\ Line'[j] = Line[j] /\ j < m
  <2>1. m \in 1 .. LineLen' /\ \A j \in 1 .. LineLen : j \in 1 .. LineLen' /\ j < m
    BY <1>0, <1>1
  <2> QED BY <1>1, <1>2, <2>1 DEF Slotted
<1>9. \A j \in Slotted : Line[j].slot # h.slot
  BY <1>5 DEF Slots, SlotsApart
<1>10. \A j \in Slotted : Waiting(j)' <=> Waiting(j)
  <2> SUFFICES ASSUME NEW j \in Slotted PROVE Waiting(j)' <=> Waiting(j)
    OBVIOUS
  <2>1. Waiting(j)' <=> \E i \in DOMAIN d2h' : d2h'[i].slot = Line[j].slot
    BY <1>8 DEF Waiting
  <2>2. d2h'[Len(d2h) + 1].slot # Line[j].slot
    BY <1>4, <1>6, <1>9
  <2>3. \A i \in DOMAIN d2h' : i = Len(d2h) + 1 \/ i \in DOMAIN d2h
    BY <1>6
  <2>4. DOMAIN d2h \subseteq DOMAIN d2h'
    BY <1>6
  <2> QED BY <1>6, <2>1, <2>2, <2>3, <2>4 DEF Waiting
<1>11. Waiting(m)'
  <2>1. Len(d2h) + 1 \in DOMAIN d2h' /\ d2h'[Len(d2h) + 1].slot = Line'[m].slot
    BY <1>1, <1>4, <1>6
  <2> QED BY <2>1 DEF Waiting
<1>12. SlotsApart'
  <2>1. \A i, j \in DOMAIN inFree' : inFree'[i] = inFree'[j] => i = j
    BY <1>5 DEF Slots, SlotsApart
  <2>2. ASSUME NEW j \in Slotted', NEW i \in DOMAIN inFree' PROVE inFree'[i] # Line'[j].slot
    <3>1. i + 1 \in DOMAIN inFree /\ inFree'[i] = inFree[i + 1] /\ inFree[i + 1] # h.slot
      BY <1>5 DEF Slots, SlotsApart
    <3> QED BY <1>7, <3>1 DEF Slots, SlotsApart
  <2>3. \A j, k \in Slotted' : Line'[j].slot = Line'[k].slot => j = k
    BY <1>7, <1>9 DEF Slots, SlotsApart
  <2> QED BY <2>1, <2>2, <2>3 DEF SlotsApart
<1>13. CopiesInOrder'
  <2>1. ASSUME NEW i \in DOMAIN d2h'
        PROVE  \E j \in Slotted' : /\ d2h'[i].slot = Line'[j].slot
                                   /\ d2h'[i].grad = <<Line'[j].task.param, Line'[j].task.backward>>
    <3>1. CASE i = Len(d2h) + 1
      BY <1>1, <1>4, <1>6, <1>8, <3>1
    <3>2. CASE i # Len(d2h) + 1
      <4>1. i \in DOMAIN d2h /\ d2h'[i] = d2h[i]
        BY <1>6, <3>2
      <4>2. PICK j \in Slotted : /\ d2h[i].slot = Line[j].slot
                                 /\ d2h[i].grad = <<Line[j].task.param, Line[j].task.backward>>
        BY <4>1 DEF Slots, CopiesInOrder
      <4> QED BY <1>8, <4>1, <4>2
    <3> QED BY <3>1, <3>2
  <2>2. ASSUME NEW i \in DOMAIN d2h', NEW k \in DOMAIN d2h', NEW j \in Slotted', NEW l \in Slotted',
               i < k, d2h'[i].slot = Line'[j].slot, d2h'[k].slot = Line'[l].slot
        PROVE  j < l
    <3>1. i \in DOMAIN d2h /\ d2h'[i] = d2h[i]
      BY <1>6, <2>2
    <3>2. PICK s \in Slotted : d2h[i].slot = Line[s].slot
      BY <3>1 DEF Slots, CopiesInOrder
    <3>3. j \in Slotted /\ Line'[j] = Line[j] /\ j < m
      BY <1>7, <1>9, <2>2, <3>1, <3>2
    <3>4. CASE l = m
      BY <3>3, <3>4
    <3>5. CASE l # m
      <4>1. l \in Slotted /\ Line'[l] = Line[l]
        BY <1>7, <3>5
      <4>2. k \in DOMAIN d2h /\ d2h'[k] = d2h[k]
        <5>1. k # Len(d2h) + 1
          BY <1>4, <1>6, <1>9, <2>2, <4>1
        <5> QED BY <1>6, <5>1
      <4> QED BY <2>2, <3>1, <3>3, <4>1, <4>2 DEF Slots, CopiesInOrder
    <3> QED BY <3>4, <3>5
  <2>3. \A j, k \in Slotted' : j < k /\ Waiting(j)' => Waiting(k)'
    <3>1. \A j \in Slotted : j < m /\ ~(m < j)
      <4>1. \A j \in Slotted : j \in Nat
        BY SlottedTyped, LinesTyped
      <4> QED BY <1>8, <4>1
    <3>2. \A j, k \in Slotted : j < k /\ Waiting(j) => Waiting(k)
      BY DEF Slots, CopiesInOrder
    <3> QED BY <1>7, <1>10, <1>11, <3>1, <3>2
  <2>4. \A j \in Slotted' : Waiting(j)' \/ inSlot'[Line'[j].slot] = <<Line'[j].task.param, Line'[j].task.backward>>
    <3>1. \A j \in Slotted : Waiting(j) \/ inSlot[Line[j].slot] = <<Line[j].task.param, Line[j].task.backward>>
      BY DEF Slots, CopiesInOrder
    <3> QED BY <1>2, <1>7, <1>10, <1>11, <3>1
  <2> QED BY <2>1, <2>2, <2>3, <2>4 DEF CopiesInOrder
<1> QED BY <1>12, <1>13 DEF Slots

(* The stream executes the copy of the first gradient that waits.            *)
LEMMA CopyKeepsSlots == ASSUME Typed, Slots, CopyD2H PROVE Slots'
<1>1. /\ d2h \in Seq([slot : InSlot, grad : Grad]) /\ d2h # <<>> /\ d2h' = Tail(d2h)
      /\ inSlot \in [InSlot -> Grad \cup {NoGrad}]
      /\ inSlot' = [inSlot EXCEPT ![Head(d2h).slot] = Head(d2h).grad]
      /\ UNCHANGED <<inFree, batch, tasks, transfer>>
  BY DEF CopyD2H, Typed, InTypes
<1>2. UNCHANGED <<LineLen, Line>>
  BY <1>1, LinesFrame
<1>3. Slotted' = Slotted
  BY <1>2 DEF Slotted
<1>4. /\ 1 \in DOMAIN d2h /\ Head(d2h) = d2h[1]
      /\ \A i \in DOMAIN d2h' : i + 1 \in DOMAIN d2h /\ 1 < i + 1 /\ d2h'[i] = d2h[i + 1]
      /\ \A i \in DOMAIN d2h : i = 1 \/ (i - 1 \in DOMAIN d2h' /\ d2h'[i - 1] = d2h[i])
  BY <1>1, HeadTail
<1>5. PICK a \in Slotted : d2h[1].slot = Line[a].slot
                           /\ d2h[1].grad = <<Line[a].task.param, Line[a].task.backward>>
  BY <1>4 DEF Slots, CopiesInOrder
<1>6. \A j \in Slotted : Waiting(j)' <=> Waiting(j) /\ j # a
  <2>1. \A j \in Slotted : Waiting(j)' <=> \E i \in DOMAIN d2h' : d2h'[i].slot = Line[j].slot
    BY <1>2 DEF Waiting
  <2>2. ASSUME NEW j \in Slotted, Waiting(j)' PROVE Waiting(j) /\ j # a
    <3>1. PICK i \in DOMAIN d2h' : d2h'[i].slot = Line[j].slot
      BY <2>1, <2>2
    <3>2. i + 1 \in DOMAIN d2h /\ d2h[i + 1].slot = Line[j].slot /\ 1 < i + 1
      BY <1>4, <3>1
    <3>3. a < j
      BY <1>4, <1>5, <3>2 DEF Slots, CopiesInOrder
    <3>4. a \in Nat /\ j \in Nat
      BY SlottedTyped, LinesTyped
    <3> QED BY <3>2, <3>3, <3>4 DEF Waiting
  <2>3. ASSUME NEW j \in Slotted, Waiting(j), j # a PROVE Waiting(j)'
    <3>1. PICK i \in DOMAIN d2h : d2h[i].slot = Line[j].slot
      BY <2>3 DEF Waiting
    <3>2. i # 1
      BY <1>5, <2>3, <3>1 DEF Slots, SlotsApart
    <3> QED BY <1>4, <2>1, <3>1, <3>2
  <2> QED BY <2>2, <2>3
<1>7. SlotsApart'
  BY <1>1, <1>2, <1>3 DEF Slots, SlotsApart
<1>8. CopiesInOrder'
  <2>1. ASSUME NEW i \in DOMAIN d2h'
        PROVE  \E j \in Slotted : d2h'[i].slot = Line[j].slot
                                  /\ d2h'[i].grad = <<Line[j].task.param, Line[j].task.backward>>
    <3>1. i + 1 \in DOMAIN d2h /\ d2h'[i] = d2h[i + 1]
      BY <1>4
    <3> QED BY <3>1 DEF Slots, CopiesInOrder
  <2>2. ASSUME NEW i \in DOMAIN d2h', NEW k \in DOMAIN d2h', NEW j \in Slotted, NEW l \in Slotted,
               i < k, d2h'[i].slot = Line[j].slot, d2h'[k].slot = Line[l].slot
        PROVE  j < l
    <3>1. i + 1 \in DOMAIN d2h /\ k + 1 \in DOMAIN d2h /\ d2h'[i] = d2h[i + 1] /\ d2h'[k] = d2h[k + 1]
          /\ i + 1 < k + 1
      BY <1>1, <1>4, <2>2
    <3> QED BY <2>2, <3>1 DEF Slots, CopiesInOrder
  <2>3. ASSUME NEW j \in Slotted, NEW k \in Slotted, j < k, Waiting(j)' PROVE Waiting(k)'
    <3>1. Waiting(j) /\ j # a
      BY <1>6, <2>3
    <3>2. Waiting(k)
      BY <2>3, <3>1 DEF Slots, CopiesInOrder
    <3>3. k # a
      <4>1. PICK i \in DOMAIN d2h : d2h[i].slot = Line[j].slot
        BY <3>1 DEF Waiting
      <4>2. i # 1
        BY <1>5, <3>1, <4>1 DEF Slots, SlotsApart
      <4>3. 1 < i
        BY <1>1, <4>1, <4>2
      <4>4. a < j
        BY <1>4, <1>5, <4>1, <4>3 DEF Slots, CopiesInOrder
      <4>5. a \in Nat /\ j \in Nat /\ k \in Nat
        BY SlottedTyped, LinesTyped
      <4> QED BY <2>3, <4>4, <4>5
    <3> QED BY <1>6, <3>2, <3>3
  <2>4. ASSUME NEW j \in Slotted
        PROVE  Waiting(j)' \/ inSlot'[Line[j].slot] = <<Line[j].task.param, Line[j].task.backward>>
    <3>1. Line[j].slot \in InSlot
      BY SlottedTyped
    <3>2. CASE j = a
      BY <1>1, <1>4, <1>5, <3>1, <3>2
    <3>3. CASE j # a
      <4>1. Line[j].slot # d2h[1].slot
        BY <1>5, <3>3 DEF Slots, SlotsApart
      <4>2. inSlot'[Line[j].slot] = inSlot[Line[j].slot]
        BY <1>1, <1>4, <3>1, <4>1
      <4>3. Waiting(j) \/ inSlot[Line[j].slot] = <<Line[j].task.param, Line[j].task.backward>>
        BY DEF Slots, CopiesInOrder
      <4> QED BY <1>6, <3>3, <4>2, <4>3
    <3> QED BY <3>2, <3>3
  <2> QED BY <1>2, <1>3, <2>1, <2>2, <2>3, <2>4 DEF CopiesInOrder
<1> QED BY <1>7, <1>8 DEF Slots

(* What has left the front was copied; the rest is as it was.                *)
LEMMA LeavingKeepsCopies ==
  ASSUME Typed, Slots, NEW n \in Nat, Left(n), UNCHANGED <<d2h, inSlot>>,
         \A j \in Slotted : j <= n => ~Waiting(j)
  PROVE  /\ CopiesInOrder'
         /\ \A j \in Slotted' : j + n \in Slotted /\ Line'[j] = Line[j + n]
<1>1. LineLen \in Nat /\ n <= LineLen /\ LineLen' = LineLen - n
      /\ \A i \in 1 .. LineLen' : i + n \in 1 .. LineLen /\ Line'[i] = Line[i + n]
  BY LinesTyped DEF Left
<1>2. \A j \in Slotted' : j + n \in Slotted /\ Line'[j] = Line[j + n] /\ j \in Nat
  BY <1>1 DEF Slotted
<1>3. \A j \in Slotted : j > n => j - n \in Slotted' /\ Line'[j - n] = Line[j]
  <2> SUFFICES ASSUME NEW j \in Slotted, j > n PROVE j - n \in Slotted' /\ Line'[j - n] = Line[j]
    OBVIOUS
  <2>1. j \in 1 .. LineLen /\ ~Line[j].task.boundary
    BY DEF Slotted
  <2>2. j - n \in 1 .. LineLen' /\ (j - n) + n = j
    BY <1>1, <2>1
  <2>3. Line'[j - n] = Line[j]
    BY <1>1, <2>2
  <2> QED BY <2>1, <2>2, <2>3 DEF Slotted
<1>4. \A j \in Slotted' : Waiting(j)' <=> Waiting(j + n)
  <2>1. \A j \in Slotted' : Waiting(j)' <=> \E i \in DOMAIN d2h : d2h[i].slot = Line'[j].slot
    BY DEF Waiting
  <2> QED BY <1>2, <2>1 DEF Waiting
<1>5. ASSUME NEW i \in DOMAIN d2h
      PROVE  \E j \in Slotted' : d2h[i].slot = Line'[j].slot
                                 /\ d2h[i].grad = <<Line'[j].task.param, Line'[j].task.backward>>
  <2>1. PICK j \in Slotted : d2h[i].slot = Line[j].slot
                             /\ d2h[i].grad = <<Line[j].task.param, Line[j].task.backward>>
    BY DEF Slots, CopiesInOrder
  <2>2. Waiting(j)
    BY <2>1 DEF Waiting
  <2>3. j > n
    <3>1. j \in Nat
      BY SlottedTyped, LinesTyped
    <3> QED BY <2>2, <3>1
  <2> QED BY <1>3, <2>1, <2>3
<1>6. ASSUME NEW i \in DOMAIN d2h, NEW k \in DOMAIN d2h, NEW j \in Slotted', NEW l \in Slotted',
             i < k, d2h[i].slot = Line'[j].slot, d2h[k].slot = Line'[l].slot
      PROVE  j < l
  <2>1. j + n \in Slotted /\ l + n \in Slotted /\ Line'[j] = Line[j + n] /\ Line'[l] = Line[l + n]
        /\ j \in Nat /\ l \in Nat
    BY <1>2
  <2>2. j + n < l + n
    BY <1>6, <2>1 DEF Slots, CopiesInOrder
  <2> QED BY <2>1, <2>2
<1>7. ASSUME NEW j \in Slotted', NEW k \in Slotted', j < k, Waiting(j)' PROVE Waiting(k)'
  <2>1. j + n \in Slotted /\ k + n \in Slotted /\ j + n < k + n /\ Waiting(j + n)
    BY <1>2, <1>4, <1>7
  <2>2. Waiting(k + n)
    BY <2>1 DEF Slots, CopiesInOrder
  <2> QED BY <1>4, <2>2
<1>8. ASSUME NEW j \in Slotted'
      PROVE  Waiting(j)' \/ inSlot[Line'[j].slot] = <<Line'[j].task.param, Line'[j].task.backward>>
  <2>1. j + n \in Slotted /\ Line'[j] = Line[j + n]
    BY <1>2
  <2>2. Waiting(j + n) \/ inSlot[Line[j + n].slot] = <<Line[j + n].task.param, Line[j + n].task.backward>>
    BY <2>1 DEF Slots, CopiesInOrder
  <2> QED BY <1>4, <2>1, <2>2
<1> QED BY <1>2, <1>5, <1>6, <1>7, <1>8 DEF CopiesInOrder

(* The last of a batch is copied last: the whole batch has arrived.          *)
LEMMA BatchArrived ==
  ASSUME Typed, Slots, Materialize, Batchable(batch)
  PROVE  \A j \in 1 .. Len(batch) :
           /\ j \in Slotted /\ ~Waiting(j)
           /\ inSlot[Line[j].slot] = <<Pipe[j].param, Pipe[j].backward>>
<1> DEFINE n == Len(batch)
<1>1. /\ n \in 1 .. LineLen
      /\ \A i \in 1 .. n : Line[i] = batch[i] /\ batch[i] \in HeldAsk
  BY BatchLeaves
<1>2. \A i \in 1 .. n : i \in Slotted
  <2>1. \A i \in 1 .. n : i \in 1 .. LineLen
    BY <1>1, LinesTyped
  <2> QED BY <1>1, <2>1 DEF Slotted, HeldAsk, Ask
<1>3. ~Waiting(n)
  <2>1. \A i \in DOMAIN d2h : d2h[i].slot # batch[n].slot
    BY DEF Materialize, Awaited, Last
  <2>2. n \in 1 .. n
    BY <1>1, LinesTyped
  <2> QED BY <1>1, <2>1, <2>2 DEF Waiting
<1>4. ASSUME NEW j \in 1 .. n PROVE ~Waiting(j)
  <2>1. j \in Slotted /\ n \in Slotted /\ (j < n \/ j = n)
    BY <1>1, <1>2, LinesTyped
  <2> QED BY <1>3, <2>1 DEF Slots, CopiesInOrder
<1>5. ASSUME NEW j \in 1 .. n PROVE inSlot[Line[j].slot] = <<Pipe[j].param, Pipe[j].backward>>
  <2>1. j \in Slotted /\ ~Waiting(j)
    BY <1>2, <1>4
  <2>2. inSlot[Line[j].slot] = <<Line[j].task.param, Line[j].task.backward>>
    BY <2>1 DEF Slots, CopiesInOrder
  <2> QED BY <2>1, <2>2, SlottedTyped
<1> QED BY <1>2, <1>4, <1>5

(* A step keeps the slots apart and the copies in order.                     *)
LEMMA NextSlots ==
  ASSUME Typed, Slots, batch # <<>> => Batchable(batch), [Next]_vars
  PROVE  Slots'
<1>1. ASSUME UNCHANGED <<inFree, inSlot, d2h, LineLen, Line>> PROVE Slots'
  <2>1. Slotted' = Slotted
    BY <1>1 DEF Slotted
  <2>2. \A j : Waiting(j)' <=> Waiting(j)
    BY <1>1 DEF Waiting
  <2>3. SlotsApart'
    BY <1>1, <2>1 DEF Slots, SlotsApart
  <2>4. CopiesInOrder'
    BY <1>1, <2>1, <2>2 DEF Slots, CopiesInOrder
  <2> QED BY <2>3, <2>4 DEF Slots
<1>2. CASE TransferBoundary
  <2> DEFINE h == [task |-> Head(transfer)]
  <2>1. /\ LineLen' = LineLen + 1 /\ LineLen \in Nat /\ Line'[LineLen + 1] = h
        /\ \A i \in 1 .. LineLen : Line'[i] = Line[i]
    BY <1>2, PipeMoves, LinesTyped DEF TransferBoundary
  <2>2. h.task.boundary /\ UNCHANGED <<inSlot, d2h, inFree>>
    BY <1>2 DEF TransferBoundary
  <2> HIDE DEF h
  <2>3. Slotted' = Slotted /\ \A j \in Slotted : Line'[j] = Line[j]
    <3>1. \A j \in 1 .. LineLen' : j \in 1 .. LineLen \/ j = LineLen + 1
      BY <2>1
    <3>2. \A j \in 1 .. LineLen : j \in 1 .. LineLen'
      BY <2>1
    <3>3. \A j \in Slotted' : j \in Slotted
      BY <2>1, <2>2, <3>1 DEF Slotted
    <3>4. \A j \in Slotted : j \in Slotted' /\ Line'[j] = Line[j]
      BY <2>1, <3>2 DEF Slotted
    <3> QED BY <3>3, <3>4
  <2>4. \A j \in Slotted : Waiting(j)' <=> Waiting(j)
    BY <2>2, <2>3 DEF Waiting
  <2>5. SlotsApart'
    BY <2>2, <2>3 DEF Slots, SlotsApart
  <2>6. CopiesInOrder'
    <3>1. \A i \in DOMAIN d2h : \E j \in Slotted :
            d2h[i].slot = Line'[j].slot /\ d2h[i].grad = <<Line'[j].task.param, Line'[j].task.backward>>
      BY <2>3 DEF Slots, CopiesInOrder
    <3>2. \A i, k \in DOMAIN d2h : \A j, l \in Slotted :
            i < k /\ d2h[i].slot = Line'[j].slot /\ d2h[k].slot = Line'[l].slot => j < l
      BY <2>3 DEF Slots, CopiesInOrder
    <3>3. \A j, k \in Slotted : j < k /\ Waiting(j)' => Waiting(k)'
      BY <2>4 DEF Slots, CopiesInOrder
    <3>4. \A j \in Slotted : Waiting(j)' \/ inSlot[Line'[j].slot] = <<Line'[j].task.param, Line'[j].task.backward>>
      BY <2>3, <2>4 DEF Slots, CopiesInOrder
    <3> QED BY <2>2, <2>3, <3>1, <3>2, <3>3, <3>4 DEF CopiesInOrder
  <2> QED BY <2>5, <2>6 DEF Slots
<1>3. CASE TakeBatch
  BY <1>1, <1>3, BatchTaken DEF TakeBatch
<1>4. CASE TakeBoundary
  <2>1. Left(1) /\ Line[1] = Head(tasks) /\ UNCHANGED <<d2h, inSlot, inFree>>
    BY <1>4, BoundaryTaken DEF TakeBoundary
  <2>2. 1 \notin Slotted
    BY <1>4, <2>1 DEF TakeBoundary, Slotted
  <2>3. \A j \in Slotted : ~(j <= 1)
    BY <2>2, LinesTyped, SlottedTyped
  <2>4. CopiesInOrder' /\ \A j \in Slotted' : j + 1 \in Slotted /\ Line'[j] = Line[j + 1]
    BY <2>1, <2>3, LeavingKeepsCopies
  <2>5. \A j \in Slotted' : j \in Nat
    BY <2>1, LinesTyped DEF Slotted, Left
  <2>6. SlotsApart'
    BY <2>1, <2>4, <2>5 DEF Slots, SlotsApart
  <2> QED BY <2>4, <2>6 DEF Slots
<1>5. CASE Materialize
  <2> DEFINE n == Len(batch)
  <2>1. Batchable(batch)
    BY <1>5 DEF Materialize
  <2>2. /\ Left(n) /\ n \in 1 .. LineLen /\ UNCHANGED <<d2h, inSlot>>
        /\ \A i \in 1 .. n : Line[i] = batch[i] /\ i \in Slotted /\ ~Waiting(i)
        /\ inFree' = inFree \o [i \in DOMAIN batch |-> batch[i].slot]
    BY <1>5, <2>1, BatchLeaves, BatchArrived DEF Materialize
  <2>3. DOMAIN batch = 1 .. n /\ inFree \in Seq(InSlot)
    BY DEF Typed, InTypes
  <2> HIDE DEF n
  <2>4. n \in Nat /\ LineLen \in Nat
    BY <2>2, LinesTyped
  <2>5. \A j \in Slotted : j \in 1 .. LineLen /\ (j <= n => ~Waiting(j))
    <3>1. \A j \in Slotted : j \in 1 .. LineLen
      BY DEF Slotted
    <3>2. \A j \in 1 .. LineLen : j <= n => j \in 1 .. n
      BY <2>4
    <3> QED BY <2>2, <3>1, <3>2
  <2>6. CopiesInOrder' /\ \A j \in Slotted' : j + n \in Slotted /\ Line'[j] = Line[j + n] /\ j \in Nat
    <3>1. \A j \in Slotted' : j \in Nat
      BY <2>2, <2>4 DEF Slotted, Left
    <3> QED BY <2>2, <2>4, <2>5, <3>1, LeavingKeepsCopies
  <2>7. /\ DOMAIN inFree' = 1 .. (Len(inFree) + n) /\ Len(inFree) \in Nat /\ DOMAIN inFree = 1 .. Len(inFree)
        /\ \A i \in 1 .. Len(inFree) : inFree'[i] = inFree[i]
        /\ \A i \in 1 .. n : inFree'[Len(inFree) + i] = Line[i].slot
    <3> DEFINE s == [i \in 1 .. n |-> batch[i].slot]
    <3>1. inFree' = inFree \o s /\ s \in Seq(InSlot) /\ Len(s) = n
      <4>1. \A i \in 1 .. n : batch[i].slot \in InSlot
        BY <2>2, SlottedTyped
      <4> QED BY <2>2, <2>3, <2>4, <4>1
    <3>2. \A i \in 1 .. n : s[i] = Line[i].slot
      BY <2>2
    <3> HIDE DEF s
    <3>3. \A i \in 1 .. n : inFree'[Len(inFree) + i] = s[i]
      BY <2>3, <3>1
    <3> QED BY <2>3, <3>1, <3>2, <3>3
  <2>8. \A i \in DOMAIN inFree' :
          \/ i \in DOMAIN inFree /\ inFree'[i] = inFree[i]
          \/ i - Len(inFree) \in 1 .. n /\ inFree'[i] = Line[i - Len(inFree)].slot
    <3> SUFFICES ASSUME NEW i \in DOMAIN inFree'
                 PROVE  \/ i \in DOMAIN inFree /\ inFree'[i] = inFree[i]
                        \/ i - Len(inFree) \in 1 .. n /\ inFree'[i] = Line[i - Len(inFree)].slot
      OBVIOUS
    <3>1. CASE i <= Len(inFree)
      BY <2>7, <3>1
    <3>2. CASE ~(i <= Len(inFree))
      <4>1. i - Len(inFree) \in 1 .. n /\ Len(inFree) + (i - Len(inFree)) = i
        BY <2>4, <2>7, <3>2
      <4> QED BY <2>7, <4>1
    <3> QED BY <3>1, <3>2
  <2>9. SlotsApart'
    <3>1. ASSUME NEW i \in DOMAIN inFree', NEW j \in DOMAIN inFree', inFree'[i] = inFree'[j] PROVE i = j
      <4>1. CASE i \in DOMAIN inFree /\ inFree'[i] = inFree[i]
        <5>1. ~(j - Len(inFree) \in 1 .. n /\ inFree'[j] = Line[j - Len(inFree)].slot)
          BY <2>2, <3>1, <4>1 DEF Slots, SlotsApart
        <5>2. j \in DOMAIN inFree /\ inFree'[j] = inFree[j]
          BY <2>8, <5>1
        <5> QED BY <3>1, <4>1, <5>2 DEF Slots, SlotsApart
      <4>2. CASE i - Len(inFree) \in 1 .. n /\ inFree'[i] = Line[i - Len(inFree)].slot
        <5>1. ~(j \in DOMAIN inFree /\ inFree'[j] = inFree[j])
          BY <2>2, <3>1, <4>2 DEF Slots, SlotsApart
        <5>2. j - Len(inFree) \in 1 .. n /\ inFree'[j] = Line[j - Len(inFree)].slot
          BY <2>8, <5>1
        <5>3. i - Len(inFree) = j - Len(inFree)
          BY <2>2, <3>1, <4>2, <5>2 DEF Slots, SlotsApart
        <5> QED BY <2>7, <5>3
      <4> QED BY <2>8, <4>1, <4>2
    <3>2. ASSUME NEW j \in Slotted', NEW i \in DOMAIN inFree' PROVE inFree'[i] # Line'[j].slot
      <4>1. j + n \in Slotted /\ Line'[j] = Line[j + n] /\ j \in Nat /\ j # 0
        BY <2>2, <2>4, <2>6 DEF Slotted, Left
      <4>2. CASE i \in DOMAIN inFree /\ inFree'[i] = inFree[i]
        BY <4>1, <4>2 DEF Slots, SlotsApart
      <4>3. CASE i - Len(inFree) \in 1 .. n /\ inFree'[i] = Line[i - Len(inFree)].slot
        <5>1. i - Len(inFree) # j + n
          BY <2>4, <4>1, <4>3
        <5> QED BY <2>2, <4>1, <4>3, <5>1 DEF Slots, SlotsApart
      <4> QED BY <2>8, <4>2, <4>3
    <3>3. ASSUME NEW j \in Slotted', NEW k \in Slotted', Line'[j].slot = Line'[k].slot PROVE j = k
      <4>1. j + n = k + n /\ j \in Nat /\ k \in Nat
        BY <2>6, <3>3 DEF Slots, SlotsApart
      <4> QED BY <2>4, <4>1
    <3> QED BY <3>1, <3>2, <3>3 DEF SlotsApart
  <2> QED BY <2>6, <2>9 DEF Slots
<1>6. ASSUME \/ UNCHANGED vars \/ BeginStep \/ BeginBackward \/ FinishBackward
             \/ StepOverlapped \/ Synchronize \/ ZeroGrad \/ Close
             \/ Raise \/ RunChunk \/ CopyH2D \/ Reclaim
             \/ \E w \in Worker : Fault(w)
             \/ \E p \in Param : Hook(p) \/ WindowExhausted(p) \/ Mark(p)
             \/ \E c \in Chunk : StepSync(c)
      PROVE  Slots'
  <2>1. UNCHANGED <<batch, tasks, inFree, inSlot, d2h>>
    BY <1>6, Zenon DEF vars, mainVars, inVars, accVars, BeginStep, BeginBackward, FinishBackward,
       StepOverlapped, Synchronize, ZeroGrad, Close, Raise, RunChunk, CopyH2D, Reclaim, Fault, Hook,
       WindowExhausted, Mark, StepSync
  <2>2. UNCHANGED <<LineLen, Line>>
    BY <2>1 DEF LineLen, Line
  <2> QED BY <1>1, <2>1, <2>2
<1> QED
  BY <1>2, <1>3, <1>4, <1>5, <1>6, TransferKeepsSlots, CopyKeepsSlots
     DEF Next, Progress, MainStep, TransferStep, CopierStep

(* While it has a batch the copy thread neither marks nor steps.             *)
OneThing == batch # <<>> => marks = {} /\ running = NoChunk /\ Batchable(batch)

(* A step keeps the copy thread at one thing.                                *)
LEMMA NextOneThing == ASSUME Typed, OneThing, [Next]_vars PROVE OneThing'
<1>1. ASSUME UNCHANGED batch, marks' = marks, running' \in {running, NoChunk} PROVE OneThing'
  BY <1>1 DEF OneThing, Batchable
<1>2. CASE TakeBatch
  BY <1>2 DEF TakeBatch, CopierIdle, OneThing, chunkVars, Batchable
<1>3. ASSUME batch' = <<>> PROVE OneThing'
  BY <1>3 DEF OneThing
<1>4. CASE TakeBoundary
  BY <1>3, <1>4 DEF TakeBoundary, CopierIdle
<1>5. CASE Materialize
  BY <1>3, <1>5 DEF Materialize
<1>6. ASSUME NEW p \in Param, Mark(p) PROVE OneThing'
  BY <1>3, <1>6 DEF Mark, inVars
<1>7. CASE RunChunk
  BY <1>1, <1>7 DEF RunChunk, inVars
<1>8. ASSUME \/ UNCHANGED vars \/ BeginStep \/ BeginBackward \/ FinishBackward
             \/ StepOverlapped \/ Synchronize \/ ZeroGrad \/ Close
             \/ Raise \/ TransferStep \/ CopyD2H \/ CopyH2D \/ Reclaim
             \/ \E w \in Worker : Fault(w)
             \/ \E p \in Param : Hook(p) \/ WindowExhausted(p)
             \/ \E c \in Chunk : StepSync(c)
      PROVE  UNCHANGED <<batch, marks, running>>
  BY <1>8, Zenon DEF vars, mainVars, inVars, accVars, chunkVars, BeginStep, BeginBackward,
     FinishBackward, StepOverlapped, Synchronize, ZeroGrad, Close, Raise, TransferStep,
     TransferGradient, TransferBoundary, CopyD2H, CopyH2D, Reclaim, Fault, Hook,
     WindowExhausted, StepSync
<1> QED
  BY <1>1, <1>2, <1>4, <1>5, <1>6, <1>7, <1>8 DEF Next, Progress, MainStep, CopierStep

(* The step's last backward is on, or over and its step not: when overlap is *)
(* on, the copy thread may mark parameters and step chunks.                  *)
Between == {"zero", "idle", "closed"}
Live == InFinal /\ main # "forward" /\ main \notin Between
Unready(p) == p \in pendingChunk[ChunkOf[p]] /\ p \notin marks

(* What will mark a parameter: its last gradient, or the last boundary.      *)
MarkersAhead ==
  \A i \in 1 .. PipeLen :
    /\ (~Pipe[i].boundary /\ Pipe[i].final) \/ Pipe[i].missing # {}
         => Live /\ Pipe[i].backward = backward
    /\ ~Pipe[i].boundary /\ Pipe[i].final => Unready(Pipe[i].param)
    /\ \A p \in Pipe[i].missing : Unready(p) /\ backward \notin pending[p]

(* A parameter the last backward has not reached is not ready.               *)
Unreached ==
  main = "backward" /\ InFinal =>
    \A p \in Param : p \notin enqueued => Unready(p) /\ backward \notin pending[p]

(* A parameter that is ready, or about to be, has all its gradients summed.  *)
MarkedIsSummed ==
  /\ \A p \in marks : p \in pendingChunk[ChunkOf[p]] /\ pending[p] = {} /\ Live
  /\ InFinal => \A p \in Param : p \in pendingChunk[ChunkOf[p]] \/ pending[p] = {}

Readiness == MarkersAhead /\ Unreached /\ MarkedIsSummed

(* In the beginning no parameter is marked or will be.                       *)
LEMMA InitReadiness == ASSUME Init PROVE Readiness /\ OneThing
<1>1. \A i \in 1 .. PipeLen : FALSE
  BY InitLine
<1>2. /\ \A p \in Param : pending[p] = {}
      /\ marks = {} /\ main = "idle" /\ batch = <<>>
  BY DEF Init
<1> QED BY <1>1, <1>2 DEF Readiness, MarkersAhead, Unreached, MarkedIsSummed, OneThing

(* Steps that change neither the pipe nor readiness.                         *)
LEMMA ReadinessFrame ==
  ASSUME Readiness, UNCHANGED <<PipeLen, Pipe, backward, overlap, enqueued, pending, pendingChunk, marks>>,
         Live => Live', main' = "backward" => main = "backward"
  PROVE  Readiness'
<1>1. InFinal' = InFinal
  BY DEF InFinal, Final
<1>2. \A p : Unready(p)' <=> Unready(p)
  BY DEF Unready
<1>3. MarkersAhead'
  BY <1>2 DEF Readiness, MarkersAhead
<1>4. Unreached'
  BY <1>1, <1>2 DEF Readiness, Unreached
<1>5. MarkedIsSummed'
  BY <1>1 DEF Readiness, MarkedIsSummed
<1> QED BY <1>3, <1>4, <1>5 DEF Readiness

(* Between steps, and in a forward, nothing is marked or will be.            *)
LEMMA NothingToMark ==
  ASSUME Typed, Readiness, ~Live
  PROVE  /\ marks = {}
         /\ \A i \in 1 .. PipeLen : Pipe[i].missing = {} /\ (~Pipe[i].boundary => ~Pipe[i].final)
<1>1. marks = {}
  BY DEF Readiness, MarkedIsSummed
<1>2. \A i \in 1 .. PipeLen : Pipe[i].missing = {} /\ (~Pipe[i].boundary => ~Pipe[i].final)
  BY DEF Readiness, MarkersAhead
<1> QED BY <1>1, <1>2

(* No pending gradient is of a later backward than main's.                   *)
LEMMA NoneIsNewer ==
  ASSUME Typed, Ordered
  PROVE  \A p \in Param : \A b \in pending[p] : b <= backward
<1>1. \A i \in 1 .. PipeLen : Pipe[i].backward <= backward
  BY DEF Ordered, UpToNow
<1> QED BY <1>1 DEF Ordered, PendingIsPiped

(* A new backward, with nothing of the last one left to mark.                *)
LEMMA BeginReadiness ==
  ASSUME Typed, Ordered, Readiness, BeginStep \/ BeginBackward
  PROVE  Readiness'
<1>1. main \in {"idle", "forward"} /\ ~Live
  BY DEF BeginStep, BeginBackward, Live, Between
<1>2. /\ marks = {}
      /\ \A i \in 1 .. PipeLen : Pipe[i].missing = {} /\ (~Pipe[i].boundary => ~Pipe[i].final)
  BY <1>1, NothingToMark
<1>3. UNCHANGED <<PipeLen, Pipe, marks, pending>>
  BY LinesFrame DEF BeginStep, BeginBackward, inVars, accVars
<1>4. MarkersAhead'
  BY <1>2, <1>3 DEF MarkersAhead
<1>5. CASE BeginStep
  <2>1. main' = "forward" /\ \A p \in Param : pending[p] = {}
    BY <1>5 DEF BeginStep, Settled
  <2> QED BY <1>2, <1>3, <1>4, <2>1 DEF Readiness, Unreached, MarkedIsSummed
<1>6. CASE BeginBackward
  <2>1. backward' = backward + 1 /\ backward \in Nat
    BY <1>6 DEF BeginBackward, Typed, MainTypes
  <2>2. \A p \in Param : backward' \notin pending[p]
    BY <2>1, NoneIsNewer DEF Typed, AccTypes
  <2>3. CASE InFinal'
    <3>1. pendingChunk' = [c \in Chunk |-> ParamsOf(c)]
      BY <1>6, <2>3 DEF BeginBackward, InFinal, Final
    <3>2. \A p \in Param : p \in pendingChunk'[ChunkOf[p]]
      BY <3>1, OffloadAssumption DEF ParamsOf, OffloadAssumption
    <3>3. Unreached'
      BY <1>2, <1>3, <2>2, <3>2 DEF Unreached, Unready
    <3>4. MarkedIsSummed'
      BY <1>2, <1>3, <3>2 DEF MarkedIsSummed
    <3> QED BY <1>4, <3>3, <3>4 DEF Readiness
  <2>4. CASE ~InFinal'
    BY <1>2, <1>3, <1>4, <2>4 DEF Readiness, Unreached, MarkedIsSummed
  <2> QED BY <2>3, <2>4
<1> QED BY <1>5, <1>6

(* A gradient of the last backward will mark its parameter.                  *)
LEMMA HookReadiness ==
  ASSUME Typed, Ordered, Readiness, NEW p \in Param, Hook(p)
  PROVE  Readiness'
<1> DEFINE x == Request(p)
<1>1. /\ x \in Ask /\ x.backward = backward /\ ~x.boundary /\ x.param = p /\ x.missing = {}
      /\ x.final = InFinal
      /\ transfer' = Append(transfer, x) /\ main = "backward" /\ p \notin enqueued
      /\ enqueued' = enqueued \cup {p}
      /\ UNCHANGED <<tasks, batch, backward, overlap, main>>
      /\ UNCHANGED <<pendingChunk, marks>>
      /\ pending' = [pending EXCEPT ![p] = @ \cup {backward}]
  BY RequestsTyped DEF Hook, Reached, Request, chunkVars
<1> HIDE DEF x
<1>2. /\ PipeLen' = PipeLen + 1 /\ PipeLen \in Nat
      /\ \A i \in 1 .. PipeLen : Pipe'[i] = Pipe[i] /\ Pipe[i] \in Ask \cup Stop
      /\ Pipe'[PipeLen + 1] = x
  BY <1>1, PipeGrows, LinesTyped
<1>3. pending'[p] = pending[p] \cup {backward} /\ \A q \in Param : q # p => pending'[q] = pending[q]
  BY <1>1 DEF Typed, AccTypes
<1>4. InFinal' = InFinal /\ Live' = Live /\ (InFinal => Live)
  BY <1>1 DEF InFinal, Final, Live, Between
<1>5. \A q : Unready(q)' <=> Unready(q)
  BY <1>1 DEF Unready
<1>6. InFinal => Unready(p)
  BY <1>1 DEF Readiness, Unreached
<1>7. \A i \in 1 .. PipeLen : Pipe[i].missing = {}
  <2> SUFFICES ASSUME NEW i \in 1 .. PipeLen, Pipe[i].missing # {} PROVE FALSE
    OBVIOUS
  <2>1. Pipe[i].boundary /\ Pipe[i].backward = backward
    BY <1>2, ItemKinds DEF Readiness, MarkersAhead
  <2>2. Pipe[i].backward < backward
    BY <1>1, <2>1 DEF Ordered, UpToNow
  <2> QED BY <2>1, <2>2 DEF Typed, MainTypes
<1>8. MarkersAhead'
  <2> SUFFICES ASSUME NEW i \in 1 .. PipeLen'
               PROVE  /\ (~Pipe'[i].boundary /\ Pipe'[i].final) \/ Pipe'[i].missing # {}
                           => Live' /\ Pipe'[i].backward = backward'
                      /\ ~Pipe'[i].boundary /\ Pipe'[i].final =>
                           LET q == Pipe'[i].param IN q \in pendingChunk'[ChunkOf[q]] /\ q \notin marks'
                      /\ \A q \in Pipe'[i].missing : Unready(q)' /\ backward' \notin pending'[q]
    BY DEF MarkersAhead, Unready
  <2>1. CASE i = PipeLen + 1
    BY <1>1, <1>2, <1>4, <1>5, <1>6, <2>1 DEF Unready
  <2>2. CASE i # PipeLen + 1
    <3>1. i \in 1 .. PipeLen /\ Pipe'[i] = Pipe[i]
      BY <1>2, <2>2
    <3>2. ~Pipe[i].boundary /\ Pipe[i].final => Live /\ Pipe[i].backward = backward /\ Unready(Pipe[i].param)
      BY <3>1 DEF Readiness, MarkersAhead
    <3> QED BY <1>1, <1>4, <1>7, <3>1, <3>2 DEF Unready
  <2> QED BY <2>1, <2>2
<1>9. Unreached'
  BY <1>1, <1>3, <1>4, <1>5 DEF Readiness, Unreached
<1>10. p \notin marks
  BY <1>4, <1>6 DEF Readiness, MarkedIsSummed, Unready, Live
<1>11. MarkedIsSummed'
  <2>1. \A q \in marks : q \in Param /\ q # p
    BY <1>10 DEF Typed, ChunkTypes
  <2>2. \A q \in marks' : q \in pendingChunk'[ChunkOf[q]] /\ pending'[q] = {} /\ Live'
    BY <1>1, <1>3, <1>4, <2>1 DEF Readiness, MarkedIsSummed
  <2>3. InFinal' => \A q \in Param : q \in pendingChunk'[ChunkOf[q]] \/ pending'[q] = {}
    BY <1>1, <1>3, <1>4, <1>6 DEF Readiness, MarkedIsSummed, Unready
  <2> QED BY <2>2, <2>3 DEF MarkedIsSummed
<1> QED BY <1>8, <1>9, <1>11 DEF Readiness

(* The last boundary will mark the parameters without a gradient in the last *)
(* backward.                                                                 *)
LEMMA FinishReadiness ==
  ASSUME Typed, Ordered, Readiness, FinishBackward
  PROVE  Readiness'
<1> DEFINE x == Boundary
<1>1. /\ x \in Stop /\ x.backward = backward /\ x.boundary
      /\ x.missing = IF InFinal THEN Param \ enqueued ELSE {}
      /\ transfer' = Append(transfer, x) /\ main = "backward"
      /\ main' = IF Final THEN "step" ELSE "forward"
      /\ UNCHANGED <<tasks, batch, backward, overlap, enqueued>>
      /\ UNCHANGED <<pendingChunk, marks, pending>>
  BY RequestsTyped DEF FinishBackward, Boundary, Missing, chunkVars, accVars
<1> HIDE DEF x
<1>2. /\ PipeLen' = PipeLen + 1 /\ PipeLen \in Nat
      /\ \A i \in 1 .. PipeLen : Pipe'[i] = Pipe[i]
      /\ Pipe'[PipeLen + 1] = x
  BY <1>1, PipeGrows, LinesTyped
<1>3. InFinal' = InFinal /\ (InFinal => Live') /\ (Live => Live') /\ main' # "backward"
  BY <1>1 DEF InFinal, Final, Live, Between
<1>4. \A q : Unready(q)' <=> Unready(q)
  BY <1>1 DEF Unready
<1>5. \A q \in x.missing : InFinal /\ Unready(q) /\ backward \notin pending[q]
  BY <1>1 DEF Readiness, Unreached
<1>6. MarkersAhead'
  <2> SUFFICES ASSUME NEW i \in 1 .. PipeLen'
               PROVE  /\ (~Pipe'[i].boundary /\ Pipe'[i].final) \/ Pipe'[i].missing # {}
                           => Live' /\ Pipe'[i].backward = backward'
                      /\ ~Pipe'[i].boundary /\ Pipe'[i].final =>
                           LET q == Pipe'[i].param IN q \in pendingChunk'[ChunkOf[q]] /\ q \notin marks'
                      /\ \A q \in Pipe'[i].missing : Unready(q)' /\ backward' \notin pending'[q]
    BY DEF MarkersAhead, Unready
  <2>1. CASE i = PipeLen + 1
    BY <1>1, <1>2, <1>3, <1>4, <1>5, <2>1 DEF Unready
  <2>2. CASE i # PipeLen + 1
    <3>1. i \in 1 .. PipeLen /\ Pipe'[i] = Pipe[i]
      BY <1>2, <2>2
    <3>2. /\ (~Pipe[i].boundary /\ Pipe[i].final) \/ Pipe[i].missing # {}
               => Live /\ Pipe[i].backward = backward
          /\ ~Pipe[i].boundary /\ Pipe[i].final => Unready(Pipe[i].param)
          /\ \A q \in Pipe[i].missing : Unready(q) /\ backward \notin pending[q]
      BY <3>1 DEF Readiness, MarkersAhead
    <3> QED BY <1>1, <1>3, <1>4, <3>1, <3>2 DEF Unready
  <2> QED BY <2>1, <2>2
<1>7. MarkedIsSummed' /\ Unreached'
  BY <1>1, <1>3 DEF Readiness, MarkedIsSummed, Unreached
<1> QED BY <1>6, <1>7 DEF Readiness

(* The last boundary is the end of the pipe, so all gradients are summed.    *)
LEMMA BoundaryReadiness ==
  ASSUME Typed, Ordered, Readiness, TakeBoundary
  PROVE  Readiness'
<1>1. Left(1) /\ LineLen >= 1 /\ Line[1] = Head(tasks)
  BY BoundaryTaken
<1>2. /\ marks' = Line[1].task.missing /\ Line[1].task.boundary
      /\ UNCHANGED <<main, backward, overlap, enqueued, pending, pendingChunk>>
  BY <1>1 DEF TakeBoundary, mainVars, accVars
<1>3. /\ PipeLen' = PipeLen - 1 /\ PipeLen \in Nat /\ PipeLen >= 1
      /\ \A i \in 1 .. PipeLen' : i + 1 \in 1 .. PipeLen /\ Pipe'[i] = Pipe[i + 1] /\ 1 < i + 1
      /\ \A i \in 1 .. PipeLen : Pipe[i] \in Ask \cup Stop
      /\ 1 \in 1 .. PipeLen /\ Pipe[1].boundary /\ marks' = Pipe[1].missing
  BY <1>1, <1>2, LinesTyped DEF Left
<1>4. backward \in Nat /\ \A i \in 1 .. PipeLen : Pipe[i].backward \in Nat
  BY <1>3, ItemKinds DEF Typed, MainTypes
<1>5. \A p \in marks' : /\ Live /\ Pipe[1].backward = backward
                        /\ p \in Param /\ Unready(p) /\ backward \notin pending[p]
  BY <1>3, ItemKinds DEF Readiness, MarkersAhead
<1>6. Live' = Live /\ InFinal' = InFinal
  BY <1>2 DEF Live, InFinal, Final
<1>7. ASSUME marks' # {}, NEW i \in 1 .. PipeLen, 1 < i PROVE FALSE
  <2>1. Pipe[1].backward < Pipe[i].backward
    BY <1>3, <1>7 DEF Ordered, InOrder
  <2>2. Pipe[i].backward <= backward
    BY DEF Ordered, UpToNow
  <2> QED BY <1>4, <1>5, <1>7, <2>1, <2>2, <1>3
<1>8. marks' # {} => main # "backward"
  <2> SUFFICES ASSUME marks' # {}, main = "backward" PROVE FALSE
    OBVIOUS
  <2>1. Pipe[1].backward < backward
    BY <1>3 DEF Ordered, UpToNow
  <2> QED BY <1>4, <1>5, <2>1
<1>9. MarkersAhead'
  <2>1. ASSUME NEW i \in 1 .. PipeLen' PROVE marks' = {} /\ i + 1 \in 1 .. PipeLen /\ Pipe'[i] = Pipe[i + 1]
    BY <1>3, <1>7
  <2>2. \A p : Unready(p) /\ marks' = {} => p \in pendingChunk'[ChunkOf[p]] /\ p \notin marks'
    BY <1>2 DEF Unready
  <2> SUFFICES ASSUME NEW i \in 1 .. PipeLen'
               PROVE  /\ (~Pipe'[i].boundary /\ Pipe'[i].final) \/ Pipe'[i].missing # {}
                           => Live' /\ Pipe'[i].backward = backward'
                      /\ ~Pipe'[i].boundary /\ Pipe'[i].final =>
                           LET q == Pipe'[i].param IN q \in pendingChunk'[ChunkOf[q]] /\ q \notin marks'
                      /\ \A q \in Pipe'[i].missing :
                           q \in pendingChunk'[ChunkOf[q]] /\ q \notin marks' /\ backward' \notin pending'[q]
    BY DEF MarkersAhead, Unready
  <2> DEFINE k == i + 1
  <2>3. k \in 1 .. PipeLen /\ Pipe'[i] = Pipe[k] /\ marks' = {}
    BY <2>1
  <2> HIDE DEF k
  <2> QED BY <1>2, <1>6, <2>2, <2>3 DEF Readiness, MarkersAhead
<1>10. Unreached'
  BY <1>2, <1>6, <1>8 DEF Readiness, Unreached, Unready
<1>11. MarkedIsSummed'
  <2>1. ASSUME NEW p \in marks' PROVE pending[p] = {}
    <3> SUFFICES ASSUME NEW b \in pending[p] PROVE FALSE
      OBVIOUS
    <3>1. PICK i \in 1 .. PipeLen : ~Pipe[i].boundary /\ Pipe[i].param = p /\ Pipe[i].backward = b
      BY <1>5 DEF Ordered, PendingIsPiped
    <3>2. 1 < i
      BY <1>3, <3>1
    <3> QED BY <1>7, <2>1, <3>2
  <2>2. \A p \in marks' : p \in pendingChunk'[ChunkOf[p]] /\ pending'[p] = {} /\ Live'
    BY <1>2, <1>5, <1>6, <2>1 DEF Unready
  <2> QED BY <1>2, <1>6, <2>2 DEF Readiness, MarkedIsSummed
<1> QED BY <1>9, <1>10, <1>11 DEF Readiness

(* A parameter's last gradient is its last in the pipe.                      *)
LEMMA BatchReadiness ==
  ASSUME Typed, Ordered, Readiness, OneThing, Materialize
  PROVE  Readiness'
<1> DEFINE n == Len(batch)
<1>1. batch # <<>> /\ marks = {} /\ Batchable(batch)
      /\ UNCHANGED <<main, backward, overlap, enqueued, pendingChunk>>
  BY DEF Materialize, OneThing, mainVars
<1>2. /\ Left(n) /\ n \in 1 .. LineLen
      /\ \A i \in 1 .. n :
           /\ Pipe[i] \in Ask
           /\ pending'[Pipe[i].param] = pending[Pipe[i].param] \ {Pipe[i].backward}
      /\ \A i, j \in 1 .. n : Pipe[i].param = Pipe[j].param => i = j
      /\ \A p \in Param : (\A i \in 1 .. n : Pipe[i].param # p) => pending'[p] = pending[p]
      /\ marks' = {p \in Param : \E i \in 1 .. n : Pipe[i].param = p /\ Pipe[i].final}
  BY <1>1, Materialized
<1> HIDE DEF n
<1>3. /\ PipeLen' = PipeLen - n /\ PipeLen \in Nat /\ n \in Nat /\ n <= PipeLen
      /\ \A i \in 1 .. PipeLen' : i + n \in 1 .. PipeLen /\ Pipe'[i] = Pipe[i + n] /\ n < i + n
      /\ \A i \in 1 .. PipeLen : Pipe[i] \in Ask \cup Stop
      /\ \A i \in 1 .. n : i \in 1 .. PipeLen
  BY <1>2, LinesTyped DEF Left
<1>4. \A p \in Param : pending'[p] \subseteq pending[p]
  BY <1>2
<1>5. Live' = Live /\ InFinal' = InFinal
  BY <1>1 DEF Live, InFinal, Final
<1>6. backward \in Nat /\ \A i \in 1 .. PipeLen : Pipe[i].backward \in Nat
  BY <1>3, ItemKinds DEF Typed, MainTypes
<1>7. ASSUME NEW p \in marks'
      PROVE  \E i \in 1 .. n : /\ Pipe[i].param = p /\ ~Pipe[i].boundary /\ Pipe[i].final
                               /\ Live /\ Unready(p) /\ Pipe[i].backward = backward
                               /\ backward \in pending[p]
  <2>1. PICK i \in 1 .. n : Pipe[i].param = p /\ Pipe[i].final
    BY <1>2, <1>7
  <2>2. i \in 1 .. PipeLen /\ ~Pipe[i].boundary
    BY <1>2, <1>3, <2>1, ItemKinds
  <2>3. Live /\ Unready(p) /\ Pipe[i].backward = backward
    BY <2>1, <2>2 DEF Readiness, MarkersAhead
  <2>4. backward \in pending[p]
    BY <2>1, <2>2, <2>3 DEF Ordered, PendingIsPiped
  <2> QED BY <2>1, <2>2, <2>3, <2>4
<1>8. ASSUME NEW p \in marks', NEW k \in 1 .. PipeLen, n < k, ~Pipe[k].boundary, Pipe[k].param = p
      PROVE  FALSE
  <2>1. PICK i \in 1 .. n : Pipe[i].param = p /\ ~Pipe[i].boundary /\ Pipe[i].backward = backward
    BY <1>7
  <2>2. i \in 1 .. PipeLen /\ i < k
    BY <1>3, <1>8
  <2>3. Pipe[i].backward < Pipe[k].backward
    BY <1>8, <2>1, <2>2 DEF Ordered, InOrder
  <2>4. Pipe[k].backward <= backward
    BY DEF Ordered, UpToNow
  <2> QED BY <1>6, <2>1, <2>3, <2>4
<1>9. MarkersAhead'
  <2> SUFFICES ASSUME NEW i \in 1 .. PipeLen'
               PROVE  /\ (~Pipe'[i].boundary /\ Pipe'[i].final) \/ Pipe'[i].missing # {}
                           => Live' /\ Pipe'[i].backward = backward'
                      /\ ~Pipe'[i].boundary /\ Pipe'[i].final =>
                           LET q == Pipe'[i].param IN q \in pendingChunk'[ChunkOf[q]] /\ q \notin marks'
                      /\ \A q \in Pipe'[i].missing :
                           q \in pendingChunk'[ChunkOf[q]] /\ q \notin marks' /\ backward' \notin pending'[q]
    BY DEF MarkersAhead, Unready
  <2> DEFINE k == i + n
  <2>1. k \in 1 .. PipeLen /\ Pipe'[i] = Pipe[k] /\ n < k
    BY <1>3
  <2> HIDE DEF k
  <2>2. (~Pipe[k].boundary /\ Pipe[k].final) \/ Pipe[k].missing # {} => Live /\ Pipe[k].backward = backward
    BY <2>1 DEF Readiness, MarkersAhead
  <2>3. ~Pipe[k].boundary /\ Pipe[k].final =>
          Pipe[k].param \in pendingChunk[ChunkOf[Pipe[k].param]] /\ Pipe[k].param \notin marks'
    BY <1>8, <2>1 DEF Readiness, MarkersAhead, Unready
  <2>4. ASSUME NEW q \in Pipe[k].missing
        PROVE  q \in pendingChunk[ChunkOf[q]] /\ q \notin marks' /\ backward \notin pending'[q]
    <3>1. Unready(q) /\ backward \notin pending[q] /\ q \in Param
      BY <1>3, <2>1, ItemKinds DEF Readiness, MarkersAhead
    <3> QED BY <1>4, <1>7, <3>1 DEF Unready
  <2> QED BY <1>1, <1>5, <2>1, <2>2, <2>3, <2>4
<1>10. Unreached'
  <2> SUFFICES ASSUME main = "backward", InFinal, NEW p \in Param, p \notin enqueued
               PROVE  p \in pendingChunk[ChunkOf[p]] /\ p \notin marks' /\ backward \notin pending'[p]
    BY <1>1, <1>5 DEF Unreached, Unready
  <2>1. Unready(p) /\ backward \notin pending[p]
    BY DEF Readiness, Unreached
  <2> QED BY <1>4, <1>7, <2>1 DEF Unready
<1>11. MarkedIsSummed'
  <2>1. ASSUME NEW p \in marks' PROVE pending'[p] = {}
    <3> SUFFICES ASSUME NEW b \in pending'[p] PROVE FALSE
      OBVIOUS
    <3>1. PICK i \in 1 .. n : Pipe[i].param = p
      BY <1>7
    <3>2. p \in Param /\ b \in pending[p] /\ b # Pipe[i].backward
      BY <1>2, <2>1, <3>1
    <3>3. PICK k \in 1 .. PipeLen : ~Pipe[k].boundary /\ Pipe[k].param = p /\ Pipe[k].backward = b
      BY <3>2 DEF Ordered, PendingIsPiped
    <3>4. n < k
      <4>1. k \notin 1 .. n
        BY <1>2, <3>1, <3>2, <3>3
      <4> QED BY <1>3, <4>1
    <3> QED BY <1>8, <2>1, <3>3, <3>4
  <2>2. \A p \in marks' : p \in pendingChunk[ChunkOf[p]] /\ Live
    BY <1>7 DEF Unready
  <2>3. InFinal => \A p \in Param : p \in pendingChunk[ChunkOf[p]] \/ pending'[p] = {}
    BY <1>4 DEF Readiness, MarkedIsSummed
  <2> QED BY <1>1, <1>5, <2>1, <2>2, <2>3 DEF MarkedIsSummed
<1> QED BY <1>9, <1>10, <1>11 DEF Readiness

(* Marking a parameter makes it ready, for good.                             *)
LEMMA MarkReadiness ==
  ASSUME Typed, Readiness, NEW p \in Param, Mark(p)
  PROVE  Readiness'
<1>1. /\ p \in marks /\ marks' = marks \ {p}
      /\ pendingChunk' = [pendingChunk EXCEPT ![ChunkOf[p]] = @ \ {p}]
      /\ UNCHANGED <<main, backward, overlap, enqueued, pending, batch, tasks, transfer>>
  BY DEF Mark, mainVars, inVars, accVars
<1>2. UNCHANGED <<PipeLen, Pipe>>
  BY <1>1, LinesFrame
<1>3. \A q \in Param : q # p => (q \in pendingChunk'[ChunkOf[q]] <=> q \in pendingChunk[ChunkOf[q]])
  BY <1>1, OffloadAssumption DEF Typed, ChunkTypes, OffloadAssumption
<1>4. \A q \in Param : Unready(q) => q # p /\ q \in pendingChunk'[ChunkOf[q]] /\ q \notin marks'
  BY <1>1, <1>3 DEF Unready
<1>5. Live' = Live /\ InFinal' = InFinal
  BY <1>1 DEF Live, InFinal, Final
<1>6. \A i \in 1 .. PipeLen : Pipe[i] \in Ask \cup Stop
  BY LinesTyped
<1>7. MarkersAhead'
  <2> SUFFICES ASSUME NEW i \in 1 .. PipeLen
               PROVE  /\ (~Pipe[i].boundary /\ Pipe[i].final) \/ Pipe[i].missing # {}
                           => Live /\ Pipe[i].backward = backward
                      /\ ~Pipe[i].boundary /\ Pipe[i].final =>
                           LET q == Pipe[i].param IN q \in pendingChunk'[ChunkOf[q]] /\ q \notin marks'
                      /\ \A q \in Pipe[i].missing :
                           q \in pendingChunk'[ChunkOf[q]] /\ q \notin marks' /\ backward \notin pending[q]
    BY <1>1, <1>2, <1>5 DEF MarkersAhead, Unready
  <2>1. (~Pipe[i].boundary => Pipe[i].param \in Param) /\ Pipe[i].missing \subseteq Param
    BY <1>6, ItemKinds
  <2> QED BY <1>4, <2>1 DEF Readiness, MarkersAhead
<1>8. Unreached'
  BY <1>1, <1>4, <1>5 DEF Readiness, Unreached, Unready
<1>9. MarkedIsSummed'
  <2>1. \A q \in marks' : q \in Param /\ q # p
    BY <1>1 DEF Typed, ChunkTypes
  <2>2. pending[p] = {}
    BY <1>1 DEF Readiness, MarkedIsSummed
  <2> QED BY <1>1, <1>3, <1>5, <2>1, <2>2 DEF Readiness, MarkedIsSummed
<1> QED BY <1>7, <1>8, <1>9 DEF Readiness

(* An overlapped step ends once every chunk was run, when nobody is unready. *)
LEMMA NextReadiness ==
  ASSUME Typed, Ordered, Readiness, OneThing, [Next]_vars,
         StepOverlapped => \A c \in Chunk : pendingChunk[c] = {}
  PROVE  Readiness'
<1>1. ASSUME NEW p \in Param, WindowExhausted(p) PROVE Readiness'
  <2>1. UNCHANGED <<PipeLen, Pipe>>
    BY <1>1, LinesFrame DEF WindowExhausted, inVars
  <2>2. /\ main = "backward" /\ main' = "failed"
        /\ UNCHANGED <<backward, overlap, enqueued, pending, pendingChunk, marks>>
    BY <1>1 DEF WindowExhausted, Reached, accVars, chunkVars
  <2>3. Live => Live'
    BY <2>2 DEF Live, InFinal, Final, Between
  <2> QED BY <2>1, <2>2, <2>3, ReadinessFrame
<1>2. CASE StepOverlapped
  <2>1. UNCHANGED <<PipeLen, Pipe>>
    BY <1>2, LinesFrame DEF StepOverlapped, inVars
  <2>2. /\ main' = "zero" /\ UNCHANGED <<backward, overlap, pending, pendingChunk, marks>>
    BY <1>2 DEF StepOverlapped, accVars, chunkVars
  <2>3. \A p \in Param : p \notin pendingChunk[ChunkOf[p]]
    BY <1>2, OffloadAssumption DEF OffloadAssumption
  <2>4. \A i \in 1 .. PipeLen : (~Pipe[i].boundary => Pipe[i].param \in Param) /\ Pipe[i].missing \subseteq Param
    BY LinesTyped, ItemKinds
  <2>5. \A i \in 1 .. PipeLen : Pipe[i].missing = {} /\ (~Pipe[i].boundary => ~Pipe[i].final)
    BY <2>3, <2>4, LinesTyped, ItemKinds DEF Readiness, MarkersAhead, Unready
  <2>6. marks = {}
    BY <2>3 DEF Readiness, MarkedIsSummed, Typed, ChunkTypes
  <2>7. MarkersAhead'
    BY <2>1, <2>5 DEF MarkersAhead
  <2>8. Unreached' /\ MarkedIsSummed'
    BY <2>2, <2>6 DEF Readiness, Unreached, MarkedIsSummed, InFinal, Final
  <2> QED BY <2>7, <2>8 DEF Readiness
<1>3. ASSUME Synchronize \/ ZeroGrad \/ Close \/ Raise PROVE Readiness'
  <2>1. UNCHANGED <<PipeLen, Pipe>>
    BY <1>3, LinesFrame DEF Synchronize, ZeroGrad, Close, Raise, inVars
  <2>2. UNCHANGED <<backward, overlap, enqueued, pending, pendingChunk, marks>>
    BY <1>3 DEF Synchronize, ZeroGrad, Close, Raise, accVars, chunkVars
  <2>3. main' # "backward" /\ (Live => Live')
    BY <1>3, <2>2 DEF Synchronize, ZeroGrad, Close, Raise, Live, InFinal, Final, Between
  <2> QED BY <2>1, <2>2, <2>3, ReadinessFrame
<1>4. ASSUME TransferStep \/ TakeBatch PROVE Readiness'
  <2>1. UNCHANGED <<PipeLen, Pipe>>
    BY <1>4, PipeMoves, BatchTaken DEF TransferStep, TransferGradient, TransferBoundary
  <2>2. UNCHANGED <<main, backward, overlap, enqueued, pending, pendingChunk, marks>>
    BY <1>4 DEF TransferStep, TransferGradient, TransferBoundary, TakeBatch, mainVars, accVars, chunkVars
  <2>3. Live' = Live
    BY <2>2 DEF Live, InFinal, Final
  <2> QED BY <2>1, <2>2, <2>3, ReadinessFrame
<1>5. ASSUME \/ UNCHANGED vars \/ CopyD2H \/ RunChunk \/ CopyH2D \/ Reclaim
             \/ \E w \in Worker : Fault(w)
             \/ \E c \in Chunk : StepSync(c)
      PROVE  Readiness'
  <2>1. /\ UNCHANGED <<main, backward, overlap, enqueued, pending, pendingChunk, marks>>
        /\ UNCHANGED <<batch, tasks, transfer>>
    BY <1>5, Zenon DEF vars, mainVars, inVars, accVars, chunkVars, CopyD2H, RunChunk, CopyH2D, Reclaim,
       Fault, StepSync
  <2>2. UNCHANGED <<PipeLen, Pipe>>
    BY <2>1, LinesFrame
  <2>3. Live' = Live
    BY <2>1 DEF Live, InFinal, Final
  <2> QED BY <2>1, <2>2, <2>3, ReadinessFrame
<1> QED
  BY <1>1, <1>2, <1>3, <1>4, <1>5, BeginReadiness, HookReadiness, FinishReadiness,
     BoundaryReadiness, BatchReadiness, MarkReadiness
     DEF Next, Progress, MainStep, CopierStep

(* A chunk is scheduled when its last parameter is marked, and run at once.  *)
Scheduling ==
  /\ running # NoChunk => running \in scheduled /\ Live
  /\ \A c \in Chunk : pendingChunk[c] \subseteq ParamsOf(c)
  /\ \A c \in scheduled : pendingChunk[c] = {} /\ InFinal
  /\ \A c \in Chunk : pendingChunk[c] # {} => InFinal
  /\ completed = Cardinality(scheduled \ {running})
  /\ main = "forward" => scheduled = {} /\ \A c \in Chunk : pendingChunk[c] = {}
  /\ main \in {"step", "zero"} => Final

(* In a step each chunk goes from the last version to this step's, once, and *)
(* not before the gradients of its parameters are summed.                    *)
Versions ==
  /\ main \in Between => \A c \in Chunk : master[c] = step
  /\ main = "forward" \/ (main = "backward" /\ ~InFinal) => \A c \in Chunk : master[c] = step - 1
  /\ main = "step" /\ overlap => todo = {}
  /\ main = "step" /\ ~overlap => \A c \in Chunk : master[c] = IF c \in todo THEN step - 1 ELSE step
  /\ \A c \in Chunk : pendingChunk[c] # {} \/ running = c => master[c] = step - 1
  /\ \A c \in scheduled : c # running => master[c] = step
  /\ \A p \in Param : pending[p] # {} => master[ChunkOf[p]] = step - 1

(* In the beginning all chunks have version 0 and none is scheduled.         *)
LEMMA InitVersions == ASSUME Init PROVE Scheduling /\ Versions
<1>1. Scheduling
  <2>1. {} \ {NoChunk} = {} /\ Cardinality({}) = 0
    BY FS_EmptySet
  <2>2. \A c \in Chunk : pendingChunk[c] = {}
    BY DEF Init
  <2> QED BY <2>1, <2>2 DEF Init, Scheduling
<1>2. Versions
  <2>1. /\ \A c \in Chunk : pendingChunk[c] = {} /\ master[c] = 0 /\ running # c
        /\ \A p \in Param : pending[p] = {}
    BY OffloadAssumption DEF Init, OffloadAssumption
  <2> QED BY <2>1 DEF Init, Versions
<1> QED BY <1>1, <1>2

(* When completed counts every chunk, every chunk is done.                   *)
LEMMA AllDone ==
  ASSUME Typed, Scheduling, completed = Cardinality(Chunk)
  PROVE  running = NoChunk /\ scheduled = Chunk /\ \A c \in Chunk : pendingChunk[c] = {}
<1>1. scheduled \ {running} \subseteq Chunk /\ IsFiniteSet(Chunk)
  BY OffloadAssumption DEF Typed, ChunkTypes, OffloadAssumption
<1>2. scheduled \ {running} = Chunk
  BY <1>1, FS_Subset DEF Scheduling
<1>3. running \notin Chunk /\ scheduled = Chunk
  BY <1>2 DEF Typed, ChunkTypes
<1> QED BY <1>3 DEF Typed, ChunkTypes, Scheduling

(* A parameter is marked once, while its chunk waits for it; the last one of *)
(* a chunk schedules the chunk.                                              *)
LEMMA MarkedOnce ==
  ASSUME Typed, Readiness, Scheduling, NEW p \in Param, Mark(p)
  PROVE  LET c == ChunkOf[p] IN
         /\ c \in Chunk /\ p \in pendingChunk[c] /\ c \notin scheduled /\ running = NoChunk /\ Live
         /\ pending[p] = {}
         /\ pendingChunk' = [pendingChunk EXCEPT ![c] = @ \ {p}]
         /\ pendingChunk[c] \ {p} = {} => scheduled' = scheduled \cup {c} /\ running' = c
         /\ pendingChunk[c] \ {p} # {} => scheduled' = scheduled /\ running' = NoChunk
         /\ UNCHANGED errVars
<1> DEFINE c == ChunkOf[p]
<1>1. p \in marks /\ running = NoChunk
  BY DEF Mark
<1>2. p \in pendingChunk[c] /\ pending[p] = {} /\ Live
  BY <1>1 DEF Readiness, MarkedIsSummed
<1>3. c \in Chunk /\ c \notin scheduled
  BY <1>2, OffloadAssumption DEF Scheduling, OffloadAssumption
<1>4. /\ pendingChunk' = [pendingChunk EXCEPT ![c] = @ \ {p}]
      /\ pendingChunk[c] \ {p} = {} => scheduled' = scheduled \cup {c} /\ running' = c
      /\ pendingChunk[c] \ {p} # {} => scheduled' = scheduled /\ running' = NoChunk
      /\ UNCHANGED errVars
  BY <1>2, <1>3 DEF Mark, errVars
<1> QED BY <1>1, <1>2, <1>3, <1>4

(* Steps of main that change no schedule.                                    *)
LEMMA SchedulingFrame ==
  ASSUME Scheduling, UNCHANGED <<running, scheduled, pendingChunk, completed, backward, overlap>>,
         Live => Live', main' # "forward", main' \in {"step", "zero"} => main \in {"step", "zero"}
  PROVE  Scheduling'
<1>1. InFinal' = InFinal /\ Final' = Final
  BY DEF InFinal, Final
<1> QED BY <1>1 DEF Scheduling

(* Steps that change neither the schedule nor main.                          *)
LEMMA SchedulingSame ==
  ASSUME Scheduling, UNCHANGED <<running, scheduled, pendingChunk, completed, backward, overlap, main>>
  PROVE  Scheduling'
<1>1. InFinal' = InFinal /\ Final' = Final /\ Live' = Live
  BY DEF InFinal, Final, Live
<1> QED BY <1>1 DEF Scheduling

(* A step keeps the schedule.                                                *)
LEMMA NextScheduling ==
  ASSUME Typed, Readiness, Scheduling, [Next]_vars
  PROVE  Scheduling'
<1>0. Cardinality({}) = 0
  BY FS_EmptySet
<1>1. CASE BeginStep
  <2>1. running' = NoChunk
    BY <1>1 DEF BeginStep, Scheduling, Live, Between
  <2>2. \A c \in Chunk : pendingChunk'[c] = {}
    BY <1>1 DEF BeginStep
  <2>3. scheduled' = {} /\ completed' = 0 /\ main' = "forward" /\ {} \ {NoChunk} = {}
    BY <1>1 DEF BeginStep
  <2> QED BY <1>0, <2>1, <2>2, <2>3 DEF Scheduling
<1>2. CASE BeginBackward
  <2>1. running' = NoChunk /\ running = NoChunk /\ main' = "backward"
    BY <1>2 DEF BeginBackward, Scheduling, Live
  <2>2. CASE InFinal'
    <3>1. /\ pendingChunk' = [c \in Chunk |-> ParamsOf(c)] /\ scheduled' = {} /\ completed' = 0
          /\ {} \ {NoChunk} = {}
      BY <1>2, <2>2 DEF BeginBackward, InFinal, Final
    <3> QED BY <1>0, <2>1, <2>2, <3>1 DEF Scheduling
  <2>3. CASE ~InFinal'
    <3>1. UNCHANGED <<pendingChunk, scheduled, completed>>
      BY <1>2, <2>3 DEF BeginBackward, InFinal, Final
    <3>2. scheduled = {} /\ \A c \in Chunk : pendingChunk[c] = {}
      BY <1>2 DEF BeginBackward, Scheduling
    <3> QED BY <2>1, <3>1, <3>2 DEF Scheduling
  <2> QED BY <2>2, <2>3
<1>3. CASE FinishBackward
  <2>1. /\ UNCHANGED <<running, scheduled, pendingChunk, completed, backward, overlap>>
        /\ main = "backward" /\ main' = IF Final THEN "step" ELSE "forward"
    BY <1>3 DEF FinishBackward, chunkVars
  <2>2. InFinal' = InFinal /\ Final' = Final /\ (InFinal => Final /\ Live')
    BY <2>1 DEF InFinal, Final, Live, Between
  <2>3. (running # NoChunk => running \in scheduled /\ Live')
    BY <2>2 DEF Scheduling, Live
  <2>4. main' = "forward" => scheduled = {} /\ \A c \in Chunk : pendingChunk[c] = {}
    BY <2>1, <2>2 DEF Scheduling, Typed, ChunkTypes
  <2>5. main' \in {"step", "zero"} => Final'
    BY <2>1, <2>2
  <2> QED BY <2>1, <2>2, <2>3, <2>4, <2>5 DEF Scheduling
<1>4. CASE StepOverlapped
  <2>1. /\ UNCHANGED <<running, scheduled, pendingChunk, completed, backward, overlap>>
        /\ main = "step" /\ main' = "zero" /\ completed = Cardinality(Chunk)
    BY <1>4 DEF StepOverlapped, chunkVars
  <2>2. InFinal' = InFinal /\ Final' = Final
    BY <2>1 DEF InFinal, Final
  <2> QED BY <2>1, <2>2, AllDone DEF Scheduling
<1>5. CASE Synchronize
  <2>1. /\ UNCHANGED <<running, scheduled, pendingChunk, completed, backward, overlap>>
        /\ main = "step" /\ main' = "zero" /\ ~overlap
    BY <1>5 DEF Synchronize, chunkVars
  <2>2. ~Live
    BY <2>1 DEF Live, InFinal
  <2> QED BY <2>1, <2>2, SchedulingFrame
<1>6. ASSUME \/ ZeroGrad \/ Close \/ Raise
             \/ \E p \in Param : WindowExhausted(p)
      PROVE  Scheduling'
  <2>1. UNCHANGED <<running, scheduled, pendingChunk, completed, backward, overlap>>
    BY <1>6 DEF ZeroGrad, Close, Raise, WindowExhausted, chunkVars
  <2>2. (Live => Live') /\ main' # "forward" /\ main' \notin {"step", "zero"}
    BY <1>6, <2>1 DEF ZeroGrad, Close, Raise, WindowExhausted, Live, InFinal, Final, Between
  <2> QED BY <2>1, <2>2, SchedulingFrame
<1>7. ASSUME NEW p \in Param, Mark(p) PROVE Scheduling'
  <2> DEFINE c == ChunkOf[p]
  <2>1. /\ c \in Chunk /\ p \in pendingChunk[c] /\ c \notin scheduled /\ running = NoChunk /\ Live
        /\ pendingChunk' = [pendingChunk EXCEPT ![c] = @ \ {p}]
        /\ pendingChunk[c] \ {p} = {} => scheduled' = scheduled \cup {c} /\ running' = c
        /\ pendingChunk[c] \ {p} # {} => scheduled' = scheduled /\ running' = NoChunk
    BY <1>7, MarkedOnce
  <2>2. UNCHANGED <<completed, backward, overlap, main>>
    BY <1>7 DEF Mark, mainVars
  <2>3. InFinal' = InFinal /\ Live' = Live /\ Final' = Final /\ InFinal
    BY <2>1, <2>2 DEF InFinal, Final, Live
  <2> HIDE DEF c
  <2>4. NoChunk \notin Chunk /\ scheduled \subseteq Chunk
    BY OffloadAssumption DEF Typed, ChunkTypes, OffloadAssumption
  <2>5. scheduled' \ {running'} = scheduled \ {running}
    BY <2>1, <2>4
  <2>6. \A d \in Chunk : pendingChunk'[d] \subseteq pendingChunk[d]
    BY <2>1 DEF Typed, ChunkTypes
  <2>7. \A d \in scheduled' : pendingChunk'[d] = {}
    <3>1. pendingChunk'[c] = pendingChunk[c] \ {p}
      BY <2>1 DEF Typed, ChunkTypes
    <3>2. \A d \in scheduled : pendingChunk[d] = {}
      BY DEF Scheduling
    <3>3. \A d \in scheduled' : d \in scheduled \/ (d = c /\ pendingChunk[c] \ {p} = {})
      BY <2>1
    <3> QED BY <2>4, <2>6, <3>1, <3>2, <3>3
  <2>8. running' # NoChunk => running' \in scheduled'
    BY <2>1
  <2> QED BY <2>2, <2>3, <2>1, <2>5, <2>6, <2>7, <2>8 DEF Scheduling, Live
<1>8. CASE RunChunk
  <2>1. /\ running \in Chunk /\ running' = NoChunk /\ completed' = completed + 1
        /\ UNCHANGED <<scheduled, pendingChunk, backward, overlap, main>>
    BY <1>8 DEF RunChunk, mainVars, Typed, ChunkTypes
  <2>2. running \in scheduled /\ scheduled \subseteq Chunk /\ NoChunk \notin Chunk /\ IsFiniteSet(Chunk)
    BY <2>1, OffloadAssumption DEF Typed, ChunkTypes, OffloadAssumption, Scheduling
  <2>3. Cardinality(scheduled' \ {running'}) = Cardinality(scheduled \ {running}) + 1
    <3>1. IsFiniteSet(scheduled \ {running}) /\ running \notin scheduled \ {running}
      BY <2>2, FS_Subset
    <3>2. scheduled' \ {running'} = (scheduled \ {running}) \cup {running}
      BY <2>1, <2>2
    <3> QED BY <3>1, <3>2, FS_AddElement
  <2>4. InFinal' = InFinal /\ Final' = Final
    BY <2>1 DEF InFinal, Final
  <2> QED BY <2>1, <2>3, <2>4 DEF Scheduling
<1>9. ASSUME \/ UNCHANGED vars \/ TransferStep \/ CopyD2H \/ CopyH2D \/ Reclaim
             \/ TakeBatch \/ TakeBoundary \/ Materialize
             \/ \E w \in Worker : Fault(w)
             \/ \E p \in Param : Hook(p)
             \/ \E c \in Chunk : StepSync(c)
      PROVE  Scheduling'
  <2>1. UNCHANGED <<running, scheduled, pendingChunk, completed, backward, overlap, main>>
    BY <1>9, Zenon DEF vars, mainVars, chunkVars, TransferStep, TransferGradient, TransferBoundary,
       CopyD2H, CopyH2D, Reclaim, TakeBatch, TakeBoundary, Materialize, Fault, Hook, StepSync
  <2> QED BY <2>1, SchedulingSame
<1> QED
  BY <1>1, <1>2, <1>3, <1>4, <1>5, <1>6, <1>7, <1>8, <1>9
     DEF Next, Progress, MainStep, CopierStep

(* Steps that step no chunk.                                                 *)
LEMMA VersionsFrame ==
  ASSUME Versions, UNCHANGED <<master, step, overlap, backward, pendingChunk, scheduled, running, todo>>,
         \A p \in Param : pending'[p] \subseteq pending[p],
         main' = main \/ main' = "failed" \/ (main \in Between /\ main' \in Between)
  PROVE  Versions'
<1>1. InFinal' = InFinal
  BY DEF InFinal, Final
<1>2. \A p \in Param : pending'[p] # {} => pending[p] # {}
  OBVIOUS
<1> QED BY <1>1, <1>2 DEF Versions, Between

(* The steps of the training thread.                                         *)
LEMMA MainVersions ==
  ASSUME Typed, Readiness, Scheduling, Versions,
         \/ BeginStep \/ BeginBackward \/ FinishBackward \/ StepOverlapped \/ Synchronize
         \/ \E p \in Param : Hook(p)
         \/ \E c \in Chunk : StepSync(c)
  PROVE  Versions'
<1>0. /\ step \in Nat /\ \A c \in Chunk : master[c] \in Nat
      /\ NoChunk \notin Chunk /\ \A p \in Param : ChunkOf[p] \in Chunk
  BY OffloadAssumption DEF Typed, MainTypes, ChunkTypes, OffloadAssumption
<1>1. CASE BeginStep
  <2>1. /\ running' = NoChunk /\ scheduled' = {} /\ main' = "forward" /\ step' = step + 1
        /\ UNCHANGED <<master, pending>>
    BY <1>1 DEF BeginStep, Scheduling, Live, Between, accVars
  <2>2. \A c \in Chunk : pendingChunk'[c] = {} /\ master[c] = step
    BY <1>1 DEF BeginStep, Versions, Between
  <2>3. \A p \in Param : pending[p] = {}
    BY <1>1 DEF BeginStep, Settled
  <2> QED BY <1>0, <2>1, <2>2, <2>3 DEF Versions, Between
<1>2. CASE BeginBackward
  <2>1. /\ running' = NoChunk /\ main' = "backward" /\ UNCHANGED <<master, step, pending>>
        /\ \A c \in Chunk : master[c] = step - 1
    BY <1>2 DEF BeginBackward, Scheduling, Live, Versions, accVars
  <2>2. scheduled' = {}
    BY <1>2 DEF BeginBackward, Scheduling
  <2> QED BY <1>0, <2>1, <2>2 DEF Versions, Between
<1>3. ASSUME NEW p \in Param, Hook(p) PROVE Versions'
  <2>1. /\ main = "backward" /\ p \notin enqueued
        /\ pending' = [pending EXCEPT ![p] = @ \cup {backward}]
    BY <1>3 DEF Hook, Reached
  <2>2. UNCHANGED <<main, master, step, overlap, backward, pendingChunk, scheduled, running, todo>>
    BY <1>3 DEF Hook, chunkVars
  <2>3. InFinal' = InFinal
    BY <2>2 DEF InFinal, Final
  <2>4. master[ChunkOf[p]] = step - 1
    BY <1>0, <2>1 DEF Versions, Readiness, Unreached, Unready
  <2>5. \A q \in Param : pending'[q] # {} => master[ChunkOf[q]] = step - 1
    <3>1. \A q \in Param : q # p => pending'[q] = pending[q]
      BY <2>1 DEF Typed, AccTypes
    <3> QED BY <2>4, <3>1 DEF Versions
  <2> QED BY <2>1, <2>2, <2>3, <2>5 DEF Versions, Between
<1>4. CASE FinishBackward
  <2>1. /\ main = "backward" /\ main' = IF Final THEN "step" ELSE "forward"
        /\ todo' = IF Final /\ ~overlap THEN Chunk ELSE {}
        /\ UNCHANGED <<master, step, overlap, backward, pendingChunk, scheduled, running, pending>>
    BY <1>4 DEF FinishBackward, chunkVars, accVars
  <2>2. ~InFinal => \A c \in Chunk : master[c] = step - 1
    BY <2>1 DEF Versions
  <2> QED BY <2>1, <2>2 DEF Versions, Between, InFinal, Final
<1>5. CASE StepOverlapped
  <2>1. /\ main' = "zero"
        /\ UNCHANGED <<master, step, overlap, backward, pendingChunk, scheduled, running, pending>>
    BY <1>5 DEF StepOverlapped, chunkVars, accVars
  <2>2. running = NoChunk /\ scheduled = Chunk /\ \A c \in Chunk : pendingChunk[c] = {}
    BY <1>5, AllDone DEF StepOverlapped
  <2>3. \A c \in Chunk : master[c] = step
    BY <1>0, <2>2 DEF Versions
  <2> QED BY <1>0, <2>1, <2>2, <2>3 DEF Versions
<1>6. CASE Synchronize
  <2>1. /\ main = "step" /\ ~overlap /\ todo = {} /\ main' = "zero"
        /\ UNCHANGED <<master, step, overlap, backward, pendingChunk, scheduled, running, pending>>
    BY <1>6 DEF Synchronize, chunkVars, accVars
  <2>2. \A c \in Chunk : master[c] = step
    BY <2>1 DEF Versions
  <2> QED BY <2>1, <2>2 DEF Versions
<1>7. ASSUME NEW c \in Chunk, StepSync(c) PROVE Versions'
  <2>1. /\ main = "step" /\ c \in todo /\ todo' = todo \ {c}
        /\ UNCHANGED <<main, step, overlap, backward, pendingChunk, scheduled, running, pending>>
    BY <1>7 DEF StepSync, accVars
  <2>2. master' = [master EXCEPT ![c] = @ + 1]
    BY <1>7 DEF StepSync, StepChunk
  <2>3. ~overlap /\ ~InFinal
    BY <2>1 DEF Versions, InFinal
  <2>4. running = NoChunk /\ scheduled = {} /\ \A d \in Chunk : pendingChunk[d] = {}
    BY <2>3 DEF Scheduling, Live
  <2>5. \A p \in Param : pending[p] = {}
    BY <1>7 DEF StepSync, Settled
  <2>6. \A d \in Chunk : master'[d] = IF d \in todo' THEN step - 1 ELSE step
    <3>1. \A d \in Chunk : master[d] = IF d \in todo THEN step - 1 ELSE step
      BY <2>1, <2>3 DEF Versions
    <3>2. master'[c] = master[c] + 1 /\ \A d \in Chunk : d # c => master'[d] = master[d]
      BY <2>2 DEF Typed, ChunkTypes
    <3>3. master'[c] = step
      BY <1>0, <2>1, <3>1, <3>2
    <3> QED BY <2>1, <3>1, <3>2, <3>3
  <2> QED BY <1>0, <2>1, <2>3, <2>4, <2>5, <2>6 DEF Versions, Between
<1> QED BY <1>1, <1>2, <1>3, <1>4, <1>5, <1>6, <1>7

(* The steps of the copy thread that mark parameters and run chunks.         *)
LEMMA CopierVersions ==
  ASSUME Typed, Readiness, Scheduling, Versions,
         RunChunk \/ \E p \in Param : Mark(p)
  PROVE  Versions'
<1>0. /\ step \in Nat /\ \A c \in Chunk : master[c] \in Nat
      /\ NoChunk \notin Chunk /\ \A p \in Param : ChunkOf[p] \in Chunk
  BY OffloadAssumption DEF Typed, MainTypes, ChunkTypes, OffloadAssumption
<1>1. ASSUME NEW p \in Param, Mark(p) PROVE Versions'
  <2> DEFINE c == ChunkOf[p]
  <2>1. /\ c \in Chunk /\ p \in pendingChunk[c] /\ c \notin scheduled /\ running = NoChunk /\ Live
        /\ pendingChunk' = [pendingChunk EXCEPT ![c] = @ \ {p}]
        /\ pendingChunk[c] \ {p} = {} => scheduled' = scheduled \cup {c} /\ running' = c
        /\ pendingChunk[c] \ {p} # {} => scheduled' = scheduled /\ running' = NoChunk
    BY <1>1, MarkedOnce
  <2> HIDE DEF c
  <2>2. UNCHANGED <<main, step, backward, overlap, todo, master, pending>>
    BY <1>1 DEF Mark, mainVars, accVars
  <2>3. InFinal' = InFinal
    BY <2>2 DEF InFinal, Final
  <2>4. \A d \in Chunk : pendingChunk'[d] # {} \/ running' = d => master[d] = step - 1
    <3>1. \A d \in Chunk : pendingChunk'[d] # {} => pendingChunk[d] # {}
      BY <2>1 DEF Typed, ChunkTypes
    <3>2. \A d \in Chunk : running' = d => d = c /\ pendingChunk[c] # {}
      BY <1>0, <2>1
    <3> QED BY <3>1, <3>2 DEF Versions
  <2>5. \A d \in scheduled' : d # running' => master[d] = step
    <3>1. \A d \in scheduled : master[d] = step
      BY <1>0, <2>1 DEF Versions, Typed, ChunkTypes
    <3>2. \A d \in scheduled' : d # running' => d \in scheduled
      BY <2>1
    <3> QED BY <3>1, <3>2
  <2> QED BY <2>2, <2>3, <2>4, <2>5 DEF Versions
<1>2. CASE RunChunk
  <2> DEFINE r == running
  <2>1. /\ r \in Chunk /\ r \in scheduled /\ Live /\ running' = NoChunk
        /\ UNCHANGED <<main, step, backward, overlap, todo, pendingChunk, scheduled, pending>>
    BY <1>2 DEF RunChunk, Scheduling, Typed, ChunkTypes, mainVars, accVars
  <2>2. master' = [master EXCEPT ![r] = @ + 1]
    BY <1>2 DEF RunChunk, StepChunk
  <2>3. master'[r] = step /\ \A d \in Chunk : d # r => master'[d] = master[d]
    <3>1. master[r] = step - 1
      BY <2>1 DEF Versions
    <3>2. master'[r] = master[r] + 1
      BY <2>1, <2>2 DEF Typed, ChunkTypes
    <3>3. master'[r] = step
      BY <1>0, <3>1, <3>2
    <3> QED BY <2>1, <2>2, <3>3 DEF Typed, ChunkTypes
  <2>4. pendingChunk[r] = {} /\ InFinal /\ InFinal' = InFinal
    BY <2>1 DEF Scheduling, Live, InFinal, Final
  <2>5. \A p \in Param : ChunkOf[p] = r => pending[p] = {}
    BY <2>4 DEF Readiness, MarkedIsSummed
  <2>6. main \notin Between /\ main # "forward" /\ overlap
    BY <2>1 DEF Live, InFinal
  <2> HIDE DEF r
  <2>7. \A d \in Chunk : pendingChunk'[d] # {} \/ running' = d => master'[d] = step - 1
    BY <1>0, <2>1, <2>3, <2>4 DEF Versions
  <2>8. \A d \in scheduled' : d # running' => master'[d] = step
    <3>1. \A d \in scheduled : d # r => master[d] = step
      BY DEF Versions, r
    <3> QED BY <2>1, <2>3, <3>1 DEF Typed, ChunkTypes
  <2>9. \A p \in Param : pending'[p] # {} => master'[ChunkOf[p]] = step - 1
    BY <1>0, <2>1, <2>3, <2>5 DEF Versions
  <2>10. main = "step" => todo' = {}
    BY <2>1, <2>6 DEF Versions
  <2> QED BY <2>1, <2>4, <2>6, <2>7, <2>8, <2>9, <2>10 DEF Versions
<1> QED BY <1>1, <1>2

(* A step keeps the versions.                                                *)
LEMMA NextVersions ==
  ASSUME Typed, OneThing, Readiness, Scheduling, Versions, [Next]_vars
  PROVE  Versions'
<1>1. CASE Materialize
  <2>1. Batchable(batch)
    BY <1>1 DEF Materialize, OneThing
  <2>2. \A p \in Param : pending'[p] \subseteq pending[p]
    BY <1>1, <2>1, Materialized
  <2> QED BY <1>1, <2>2, VersionsFrame DEF Materialize, mainVars
<1>2. ASSUME \/ UNCHANGED vars \/ TransferStep \/ CopyD2H \/ CopyH2D \/ Reclaim
             \/ TakeBatch \/ TakeBoundary
             \/ \E w \in Worker : Fault(w)
      PROVE  Versions'
  <2>1. UNCHANGED <<main, master, step, overlap, backward, pendingChunk, scheduled, running, todo, pending>>
    BY <1>2, Zenon DEF vars, mainVars, accVars, chunkVars, TransferStep, TransferGradient,
       TransferBoundary, CopyD2H, CopyH2D, Reclaim, TakeBatch, TakeBoundary, Fault
  <2> QED BY <2>1, VersionsFrame
<1>3. ASSUME \/ ZeroGrad \/ Close \/ Raise
             \/ \E p \in Param : WindowExhausted(p)
      PROVE  Versions'
  <2>1. UNCHANGED <<master, step, overlap, backward, pendingChunk, scheduled, running, todo, pending>>
    BY <1>3 DEF ZeroGrad, Close, Raise, WindowExhausted, accVars, chunkVars
  <2>2. main' = "failed" \/ (main \in Between /\ main' \in Between)
    BY <1>3 DEF ZeroGrad, Close, Raise, WindowExhausted, Between
  <2> QED BY <2>1, <2>2, VersionsFrame
<1> QED
  BY <1>1, <1>2, <1>3, MainVersions, CopierVersions
     DEF Next, Progress, MainStep, CopierStep

(* A slot of the H2D ring is free or with the reclaimer, never twice.        *)
OutApart ==
  /\ \A i, j \in 1 .. Len(release) : release[i] = release[j] => i = j
  /\ \A i, j \in 1 .. Len(outFree) : outFree[i] = outFree[j] => i = j
  /\ \A i \in 1 .. Len(release), j \in 1 .. Len(outFree) : release[i] # outFree[j]

(* A copy to come reads a slot the reclaimer holds back, with its chunk's    *)
(* weights in it, the newest in the last; those behind the fence are of this *)
(* step, and none is left behind it between steps.                           *)
Carried ==
  /\ \A i \in 1 .. Len(h2d) :
       /\ \E j \in 1 .. Len(release) : release[j] = h2d[i].slot
       /\ outSlot[h2d[i].slot].chunk = h2d[i].chunk
       /\ (\A k \in 1 .. Len(h2d) : i < k => h2d[k].chunk # h2d[i].chunk)
            => outSlot[h2d[i].slot].version = master[h2d[i].chunk]
       /\ fence < i => master[h2d[i].chunk] = step
  /\ main \in Between => Len(h2d) <= fence

(* A chunk no copy is on its way for has its master weights on the GPU.      *)
Arrived ==
  \A c \in Chunk :
    (\A i \in 1 .. Len(h2d) : h2d[i].chunk # c) => gpu[c] = [chunk |-> c, version |-> master[c]]

Delivered == OutApart /\ Carried /\ Arrived

(* In the beginning all weights are on the GPU and all slots free.           *)
LEMMA InitDelivered == ASSUME Init PROVE Delivered
<1>1. OutApart
  <2>1. /\ outFree \in Seq(OutSlot)
        /\ \A i, j \in DOMAIN outFree : outFree[i] = outFree[j] => i = j
    BY SlotsListed, OffloadAssumption DEF Init, OffloadAssumption
  <2>2. release = <<>>
    BY DEF Init
  <2> QED BY <2>1, <2>2 DEF OutApart
<1>2. Carried
  BY DEF Init, Carried
<1>3. Arrived
  BY DEF Init, Arrived, Initial
<1> QED BY <1>1, <1>2, <1>3 DEF Delivered

(* The elements of a sequence.                                               *)
LEMMA Elements == ASSUME NEW S, NEW q \in Seq(S) PROVE \A i \in 1 .. Len(q) : q[i] \in S
OBVIOUS

(* Steps that move no weights.                                               *)
LEMMA DeliveredFrame ==
  ASSUME Delivered, UNCHANGED <<outFree, outSlot, h2d, release, fence, gpu, master, step>>,
         main' \in Between => main \in Between
  PROVE  Delivered'
BY DEF Delivered, OutApart, Carried, Arrived

(* Stepping a chunk puts its new weights behind all that is on its way.      *)
LEMMA StepDelivers ==
  ASSUME Typed, Delivered, NEW c \in Chunk, StepChunk(c), master[c] = step - 1,
         UNCHANGED <<fence, gpu, step>>, main' \notin Between
  PROVE  Delivered'
<1> DEFINE s == Head(outFree)
           n == Len(h2d)
           m == Len(release)
<1>1. /\ outFree \in Seq(OutSlot) /\ outFree # <<>>
      /\ h2d \in Seq([slot : OutSlot, chunk : Chunk]) /\ release \in Seq(OutSlot)
      /\ outSlot \in [OutSlot -> [chunk : Chunk, version : Nat]] /\ master \in [Chunk -> Nat]
      /\ step \in Nat /\ n \in Nat /\ m \in Nat /\ fence \in Nat
  <2>1. outFree # <<>>
    BY DEF StepChunk
  <2> QED BY <2>1 DEF Typed, MainTypes, ChunkTypes, OutTypes
<1>2. /\ s = outFree[1] /\ s \in OutSlot /\ Len(outFree) \in Nat \ {0}
      /\ Len(outFree') = Len(outFree) - 1
      /\ \A i \in 1 .. (Len(outFree) - 1) : outFree'[i] = outFree[i + 1]
  BY <1>1, HeadTail DEF StepChunk
<1>3. /\ Len(release') = m + 1 /\ release'[m + 1] = s
      /\ \A i \in 1 .. m : release'[i] = release[i]
  BY <1>1, <1>2 DEF StepChunk
<1>4. /\ Len(h2d') = n + 1 /\ h2d'[n + 1].slot = s /\ h2d'[n + 1].chunk = c
      /\ \A i \in 1 .. n : h2d'[i] = h2d[i] /\ h2d[i].slot \in OutSlot /\ h2d[i].chunk \in Chunk
  <2>1. h2d' = Append(h2d, [slot |-> s, chunk |-> c])
    BY DEF StepChunk
  <2>2. Len(h2d') = n + 1 /\ h2d'[n + 1] = [slot |-> s, chunk |-> c] /\ \A i \in 1 .. n : h2d'[i] = h2d[i]
    BY <1>1, <2>1
  <2>3. \A x \in [slot : OutSlot, chunk : Chunk] : x.slot \in OutSlot /\ x.chunk \in Chunk
    OBVIOUS
  <2>4. \A i \in 1 .. n : h2d[i] \in [slot : OutSlot, chunk : Chunk]
    BY <1>1, Elements
  <2> QED BY <2>2, <2>3, <2>4
<1>5. master'[c] = step /\ \A d \in Chunk : d # c => master'[d] = master[d]
  BY <1>1 DEF StepChunk
<1>6. /\ outSlot'[s].chunk = c /\ outSlot'[s].version = step
      /\ \A t \in OutSlot : t # s => outSlot'[t] = outSlot[t]
  BY <1>1, <1>2, <1>5 DEF StepChunk
<1> HIDE DEF s, n, m
<1>7. \A i \in 1 .. m : release[i] # s
  BY <1>2 DEF Delivered, OutApart, m
<1>8. OutApart'
  <2>1. ASSUME NEW i \in 1 .. Len(release'), NEW j \in 1 .. Len(release'), release'[i] = release'[j]
        PROVE  i = j
    <3>1. (i \in 1 .. m \/ i = m + 1) /\ (j \in 1 .. m \/ j = m + 1)
      <4>1. m \in Nat /\ Len(release') = m + 1
        BY <1>1, <1>3
      <4> QED BY <4>1
    <3> QED BY <1>3, <1>7, <2>1, <3>1 DEF Delivered, OutApart, m
  <2>2. \A i \in 1 .. Len(outFree') : i + 1 \in 1 .. Len(outFree) /\ outFree'[i] = outFree[i + 1] /\ i + 1 # 1
    BY <1>2
  <2>3. ASSUME NEW i \in 1 .. Len(outFree'), NEW j \in 1 .. Len(outFree'), outFree'[i] = outFree'[j]
        PROVE  i = j
    <3>1. i + 1 = j + 1
      BY <2>2, <2>3 DEF Delivered, OutApart
    <3> QED BY <3>1
  <2>4. ASSUME NEW i \in 1 .. Len(release'), NEW j \in 1 .. Len(outFree') PROVE release'[i] # outFree'[j]
    <3>1. i \in 1 .. m \/ i = m + 1
      BY <1>1, <1>3
    <3>2. outFree'[j] # s
      <4>1. j + 1 \in 1 .. Len(outFree) /\ outFree'[j] = outFree[j + 1] /\ j + 1 # 1
        BY <2>2
      <4>2. 1 \in 1 .. Len(outFree)
        BY <1>2
      <4> QED BY <1>2, <4>1, <4>2 DEF Delivered, OutApart
    <3> QED BY <1>3, <2>2, <3>1, <3>2 DEF Delivered, OutApart, m
  <2> QED BY <2>1, <2>3, <2>4 DEF OutApart
<1>9. \A i \in 1 .. n : h2d[i].slot # s
  BY <1>7 DEF Delivered, Carried, n, m
<1>10. Carried'
  <2> SUFFICES ASSUME NEW i \in 1 .. Len(h2d')
               PROVE  /\ \E j \in 1 .. Len(release') : release'[j] = h2d'[i].slot
                      /\ outSlot'[h2d'[i].slot].chunk = h2d'[i].chunk
                      /\ (\A k \in 1 .. Len(h2d') : i < k => h2d'[k].chunk # h2d'[i].chunk)
                           => outSlot'[h2d'[i].slot].version = master'[h2d'[i].chunk]
                      /\ fence < i => master'[h2d'[i].chunk] = step
    BY DEF Carried
  <2>1. CASE i = n + 1
    <3>1. m + 1 \in 1 .. Len(release')
      BY <1>1, <1>3
    <3> QED BY <1>3, <1>4, <1>5, <1>6, <2>1, <3>1
  <2>2. CASE i \in 1 .. n
    <3>1. /\ h2d'[i] = h2d[i] /\ h2d[i].slot \in OutSlot /\ h2d[i].chunk \in Chunk
          /\ outSlot'[h2d[i].slot] = outSlot[h2d[i].slot]
      BY <1>4, <1>6, <1>9, <2>2
    <3>2. \E j \in 1 .. Len(release') : release'[j] = h2d[i].slot
      <4>1. PICK j \in 1 .. m : release[j] = h2d[i].slot
        BY <2>2 DEF Delivered, Carried, n, m
      <4>2. j \in 1 .. Len(release')
        BY <1>1, <1>3
      <4> QED BY <1>3, <4>1, <4>2
    <3>3. outSlot[h2d[i].slot].chunk = h2d[i].chunk
      BY <2>2 DEF Delivered, Carried, n
    <3>4. ASSUME \A k \in 1 .. Len(h2d') : i < k => h2d'[k].chunk # h2d'[i].chunk
          PROVE  outSlot[h2d[i].slot].version = master'[h2d[i].chunk]
      <4>1. h2d[i].chunk # c
        <5>1. n + 1 \in 1 .. Len(h2d') /\ i < n + 1
          BY <1>1, <1>4, <2>2
        <5> QED BY <1>4, <3>1, <3>4, <5>1
      <4>2. \A k \in 1 .. n : i < k => h2d[k].chunk # h2d[i].chunk
        <5>1. \A k \in 1 .. n : k \in 1 .. Len(h2d')
          BY <1>1, <1>4
        <5> QED BY <1>4, <3>1, <3>4, <5>1
      <4>3. outSlot[h2d[i].slot].version = master[h2d[i].chunk]
        BY <2>2, <4>2 DEF Delivered, Carried, n
      <4> QED BY <1>5, <3>1, <4>1, <4>3
    <3>5. fence < i => master'[h2d[i].chunk] = step
      <4>1. fence < i => master[h2d[i].chunk] = step
        BY <2>2 DEF Delivered, Carried, n
      <4> QED BY <1>5, <3>1, <4>1
    <3> QED BY <3>1, <3>2, <3>3, <3>4, <3>5
  <2> QED BY <1>1, <1>4, <2>1, <2>2
<1>11. Arrived'
  <2> SUFFICES ASSUME NEW d \in Chunk, \A i \in 1 .. Len(h2d') : h2d'[i].chunk # d
               PROVE  gpu[d] = [chunk |-> d, version |-> master'[d]]
    BY DEF Arrived
  <2>1. n + 1 \in 1 .. Len(h2d') /\ \A i \in 1 .. n : i \in 1 .. Len(h2d')
    BY <1>1, <1>4
  <2>2. d # c /\ \A i \in 1 .. n : h2d[i].chunk # d
    BY <1>4, <2>1
  <2> QED BY <1>5, <2>2 DEF Delivered, Arrived, n
<1> QED BY <1>8, <1>10, <1>11 DEF Delivered

(* The stream delivers the oldest weights on their way.                      *)
LEMMA CopyDelivers == ASSUME Typed, Delivered, CopyH2D PROVE Delivered'
<1> DEFINE n == Len(h2d)
<1>1. /\ h2d \in Seq([slot : OutSlot, chunk : Chunk]) /\ h2d # <<>> /\ h2d' = Tail(h2d)
      /\ outSlot \in [OutSlot -> [chunk : Chunk, version : Nat]]
      /\ fence \in Nat /\ fence' = (IF fence > 0 THEN fence - 1 ELSE 0)
      /\ gpu' = [gpu EXCEPT ![Head(h2d).chunk] = outSlot[Head(h2d).slot]]
      /\ gpu \in [Chunk -> [chunk : Chunk, version : Nat]]
      /\ UNCHANGED <<outFree, outSlot, release, main, master, step>>
  BY DEF CopyH2D, Typed, OutTypes, mainVars, chunkVars
<1>2. /\ Head(h2d) = h2d[1] /\ n \in Nat \ {0} /\ Len(h2d') = n - 1
      /\ \A i \in 1 .. (n - 1) : h2d'[i] = h2d[i + 1]
  BY <1>1, HeadTail
<1>3. \A i \in 1 .. n : h2d[i].slot \in OutSlot /\ h2d[i].chunk \in Chunk
  <2>1. \A x \in [slot : OutSlot, chunk : Chunk] : x.slot \in OutSlot /\ x.chunk \in Chunk
    OBVIOUS
  <2>2. \A i \in 1 .. n : h2d[i] \in [slot : OutSlot, chunk : Chunk]
    BY <1>1, Elements
  <2> QED BY <2>1, <2>2
<1> HIDE DEF n
<1>4. /\ \A i \in 1 .. Len(h2d') : i + 1 \in 1 .. n /\ h2d'[i] = h2d[i + 1]
      /\ \A i \in 1 .. n : 1 < i => i - 1 \in 1 .. Len(h2d') /\ h2d'[i - 1] = h2d[i]
  <2>1. \A i \in 1 .. Len(h2d') : i + 1 \in 1 .. n /\ h2d'[i] = h2d[i + 1]
    BY <1>2
  <2>2. ASSUME NEW i \in 1 .. n, 1 < i PROVE i - 1 \in 1 .. Len(h2d') /\ h2d'[i - 1] = h2d[i]
    <3>1. i - 1 \in 1 .. (n - 1) /\ (i - 1) + 1 = i
      BY <1>2, <2>2
    <3> QED BY <1>2, <3>1
  <2> QED BY <2>1, <2>2
<1>5. Carried'
  <2>1. ASSUME NEW i \in 1 .. Len(h2d')
        PROVE  /\ \E j \in 1 .. Len(release) : release[j] = h2d'[i].slot
               /\ outSlot[h2d'[i].slot].chunk = h2d'[i].chunk
               /\ (\A k \in 1 .. Len(h2d') : i < k => h2d'[k].chunk # h2d'[i].chunk)
                    => outSlot[h2d'[i].slot].version = master[h2d'[i].chunk]
               /\ fence' < i => master[h2d'[i].chunk] = step
    <3> DEFINE j == i + 1
    <3>1. j \in 1 .. n /\ h2d'[i] = h2d[j] /\ (fence' < i => fence < j) /\ i \in Nat
      BY <1>1, <1>2, <1>4
    <3>2. ASSUME \A k \in 1 .. Len(h2d') : i < k => h2d'[k].chunk # h2d'[i].chunk,
                 NEW k \in 1 .. n, j < k
          PROVE  h2d[k].chunk # h2d[j].chunk
      <4>1. 1 < k /\ i < k - 1
        BY <3>1, <3>2
      <4> QED BY <1>4, <3>1, <3>2, <4>1
    <3> HIDE DEF j
    <3>3. /\ \E k \in 1 .. Len(release) : release[k] = h2d[j].slot
          /\ outSlot[h2d[j].slot].chunk = h2d[j].chunk
          /\ (\A k \in 1 .. n : j < k => h2d[k].chunk # h2d[j].chunk)
               => outSlot[h2d[j].slot].version = master[h2d[j].chunk]
          /\ fence < j => master[h2d[j].chunk] = step
      BY <3>1 DEF Delivered, Carried, n
    <3> QED BY <3>1, <3>2, <3>3
  <2>2. main \in Between => Len(h2d') <= fence'
    <3>1. main \in Between => n <= fence
      BY DEF Delivered, Carried, n
    <3> QED BY <1>1, <1>2, <3>1
  <2> QED BY <1>1, <2>1, <2>2 DEF Carried
<1>6. Arrived'
  <2> SUFFICES ASSUME NEW c \in Chunk, \A i \in 1 .. Len(h2d') : h2d'[i].chunk # c
               PROVE  gpu'[c] = [chunk |-> c, version |-> master[c]]
    BY <1>1 DEF Arrived
  <2>1. 1 \in 1 .. n /\ \A i \in 1 .. n : 1 < i => h2d[i].chunk # c
    BY <1>2, <1>4
  <2>2. CASE h2d[1].chunk = c
    <3>1. \A k \in 1 .. n : 1 < k => h2d[k].chunk # h2d[1].chunk
      BY <2>1, <2>2
    <3>2. outSlot[h2d[1].slot].version = master[c] /\ outSlot[h2d[1].slot].chunk = c
      BY <2>1, <2>2, <3>1 DEF Delivered, Carried, n
    <3>3. outSlot[h2d[1].slot] \in [chunk : Chunk, version : Nat]
      BY <1>1, <1>3, <2>1
    <3>4. gpu'[c] = outSlot[h2d[1].slot]
      BY <1>1, <1>2, <2>2
    <3> QED BY <3>2, <3>3, <3>4
  <2>3. CASE h2d[1].chunk # c
    <3>1. \A i \in 1 .. n : h2d[i].chunk # c
      <4>1. \A i \in 1 .. n : i = 1 \/ 1 < i
        BY <1>2
      <4> QED BY <2>1, <2>3, <4>1
    <3>2. gpu'[c] = gpu[c]
      BY <1>1, <1>2, <2>3
    <3> QED BY <3>1, <3>2 DEF Delivered, Arrived, n
  <2> QED BY <2>2, <2>3
<1>7. OutApart'
  BY <1>1 DEF Delivered, OutApart
<1> QED BY <1>5, <1>6, <1>7 DEF Delivered

(* The reclaimer frees a slot once no copy will read it.                     *)
LEMMA ReclaimDelivers == ASSUME Typed, Delivered, Reclaim PROVE Delivered'
<1> DEFINE s == Head(release)
           n == Len(outFree)
<1>1. /\ release \in Seq(OutSlot) /\ release # <<>> /\ outFree \in Seq(OutSlot) /\ n \in Nat
      /\ release' = Tail(release) /\ outFree' = Append(outFree, s)
      /\ h2d \in Seq([slot : OutSlot, chunk : Chunk])
      /\ \A i \in 1 .. Len(h2d) : h2d[i].slot # s
      /\ UNCHANGED <<outSlot, h2d, fence, gpu, main, master, step>>
  BY DEF Reclaim, Copied, Typed, OutTypes, mainVars, chunkVars
<1>2. /\ s = release[1] /\ s \in OutSlot /\ Len(release) \in Nat \ {0} /\ Len(release') = Len(release) - 1
      /\ \A i \in 1 .. (Len(release) - 1) : release'[i] = release[i + 1]
  BY <1>1, HeadTail
<1>3. Len(outFree') = n + 1 /\ outFree'[n + 1] = s /\ \A i \in 1 .. n : outFree'[i] = outFree[i]
  BY <1>1, <1>2
<1> HIDE DEF s, n
<1>4. /\ \A i \in 1 .. Len(release') : i + 1 \in 1 .. Len(release) /\ release'[i] = release[i + 1] /\ i + 1 # 1
      /\ \A i \in 1 .. Len(release) : i # 1 => i - 1 \in 1 .. Len(release') /\ release'[i - 1] = release[i]
      /\ 1 \in 1 .. Len(release)
  <2>1. \A i \in 1 .. Len(release') : i + 1 \in 1 .. Len(release) /\ release'[i] = release[i + 1] /\ i + 1 # 1
    BY <1>2
  <2>2. ASSUME NEW i \in 1 .. Len(release), i # 1
        PROVE  i - 1 \in 1 .. Len(release') /\ release'[i - 1] = release[i]
    <3>1. i - 1 \in 1 .. (Len(release) - 1) /\ (i - 1) + 1 = i
      BY <1>2, <2>2
    <3> QED BY <1>2, <3>1
  <2> QED BY <1>2, <2>1, <2>2
<1>5. OutApart'
  <2>1. ASSUME NEW i \in 1 .. Len(release'), NEW j \in 1 .. Len(release'), release'[i] = release'[j]
        PROVE  i = j
    <3>1. i + 1 = j + 1
      BY <1>4, <2>1 DEF Delivered, OutApart
    <3> QED BY <3>1
  <2>2. \A i \in 1 .. n : outFree[i] # s
    BY <1>2, <1>4 DEF Delivered, OutApart, n
  <2>3. ASSUME NEW i \in 1 .. Len(outFree'), NEW j \in 1 .. Len(outFree'), outFree'[i] = outFree'[j]
        PROVE  i = j
    <3>1. (i \in 1 .. n \/ i = n + 1) /\ (j \in 1 .. n \/ j = n + 1)
      BY <1>1, <1>3
    <3> QED BY <1>3, <2>2, <2>3, <3>1 DEF Delivered, OutApart, n
  <2>4. ASSUME NEW i \in 1 .. Len(release'), NEW j \in 1 .. Len(outFree') PROVE release'[i] # outFree'[j]
    <3>1. j \in 1 .. n \/ j = n + 1
      BY <1>1, <1>3
    <3>2. release'[i] # s
      BY <1>2, <1>4 DEF Delivered, OutApart
    <3> QED BY <1>3, <1>4, <3>1, <3>2 DEF Delivered, OutApart, n
  <2> QED BY <2>1, <2>3, <2>4 DEF OutApart
<1>6. \A i \in 1 .. Len(h2d) : \E j \in 1 .. Len(release') : release'[j] = h2d[i].slot
  <2> SUFFICES ASSUME NEW i \in 1 .. Len(h2d) PROVE \E j \in 1 .. Len(release') : release'[j] = h2d[i].slot
    OBVIOUS
  <2>1. PICK j \in 1 .. Len(release) : release[j] = h2d[i].slot
    BY DEF Delivered, Carried
  <2>2. j # 1
    BY <1>1, <1>2, <2>1
  <2> QED BY <1>4, <2>1, <2>2
<1>7. Carried' /\ Arrived'
  BY <1>1, <1>6 DEF Delivered, Carried, Arrived
<1> QED BY <1>5, <1>7 DEF Delivered

(* A step keeps the weights on their way.                                    *)
LEMMA NextDelivered ==
  ASSUME Typed, Scheduling, Versions, Delivered, [Next]_vars
  PROVE  Delivered'
<1>1. CASE BeginStep
  <2>1. /\ main = "idle" /\ main' = "forward"
        /\ UNCHANGED <<outFree, outSlot, h2d, release, fence, gpu, master>>
    BY <1>1 DEF BeginStep, outVars
  <2>2. Len(h2d) <= fence /\ Len(h2d) \in Nat /\ fence \in Nat
    BY <2>1 DEF Delivered, Carried, Between, Typed, OutTypes
  <2>3. \A i \in 1 .. Len(h2d) : ~(fence < i)
    BY <2>2
  <2>4. Carried'
    BY <2>1, <2>3 DEF Delivered, Carried, Between
  <2> QED BY <2>1, <2>4 DEF Delivered, OutApart, Arrived
<1>2. CASE StepOverlapped
  <2>1. /\ fence' = Len(h2d)
        /\ UNCHANGED <<outFree, outSlot, h2d, release, gpu, master, step>>
    BY <1>2 DEF StepOverlapped, FenceAt, chunkVars
  <2>2. Len(h2d) \in Nat
    BY DEF Typed, OutTypes
  <2>3. (\A i \in 1 .. Len(h2d) : ~(fence' < i)) /\ Len(h2d) <= fence'
    BY <2>1, <2>2
  <2>4. Carried'
    BY <2>1, <2>3 DEF Delivered, Carried
  <2> QED BY <2>1, <2>4 DEF Delivered, OutApart, Arrived
<1>3. CASE Synchronize
  <2>1. /\ h2d = <<>>
        /\ UNCHANGED <<outFree, outSlot, h2d, release, fence, gpu, master, step>>
    BY <1>3 DEF Synchronize, chunkVars, outVars
  <2>2. Carried'
    BY <2>1 DEF Carried, Typed, OutTypes
  <2> QED BY <2>1, <2>2 DEF Delivered, OutApart, Arrived
<1>4. ASSUME NEW c \in Chunk, StepSync(c) PROVE Delivered'
  <2>1. /\ main = "step" /\ main' = main /\ c \in todo /\ StepChunk(c) /\ UNCHANGED <<fence, gpu, step>>
    BY <1>4 DEF StepSync
  <2>2. master[c] = step - 1
    BY <2>1 DEF Versions
  <2> QED BY <2>1, <2>2, StepDelivers DEF Between
<1>5. CASE RunChunk
  <2>1. /\ running \in Chunk /\ running # NoChunk /\ StepChunk(running)
        /\ UNCHANGED <<fence, gpu, step, main>>
    BY <1>5 DEF RunChunk, Typed, ChunkTypes, mainVars
  <2>2. master[running] = step - 1 /\ main \notin Between
    BY <2>1 DEF Versions, Scheduling, Live
  <2> QED BY <2>1, <2>2, StepDelivers
<1>6. ASSUME \/ UNCHANGED vars \/ BeginBackward \/ FinishBackward
             \/ ZeroGrad \/ Close \/ Raise \/ TransferStep \/ CopyD2H
             \/ TakeBatch \/ TakeBoundary \/ Materialize
             \/ \E w \in Worker : Fault(w)
             \/ \E p \in Param : Hook(p) \/ WindowExhausted(p) \/ Mark(p)
      PROVE  Delivered'
  <2>1. UNCHANGED <<outFree, outSlot, h2d, release, fence, gpu, master, step>>
    BY <1>6, Zenon DEF vars, mainVars, chunkVars, outVars, BeginBackward, FinishBackward, ZeroGrad, Close,
       Raise, TransferStep, TransferGradient, TransferBoundary, CopyD2H, TakeBatch, TakeBoundary,
       Materialize, Fault, Hook, WindowExhausted, Mark
  <2>2. main' \in Between => main \in Between
    <3>1. ASSUME BeginBackward \/ FinishBackward \/ ZeroGrad \/ Close \/ Raise
                 \/ \E p \in Param : WindowExhausted(p)
          PROVE  main' \in Between => main \in Between
      BY <3>1 DEF BeginBackward, FinishBackward, ZeroGrad, Close, Raise, WindowExhausted, Between
    <3>2. ASSUME \/ UNCHANGED vars \/ TransferStep \/ CopyD2H
                 \/ TakeBatch \/ TakeBoundary \/ Materialize
                 \/ \E w \in Worker : Fault(w)
                 \/ \E p \in Param : Hook(p) \/ Mark(p)
          PROVE  main' = main
      BY <3>2, Zenon DEF vars, mainVars, TransferStep, TransferGradient, TransferBoundary, CopyD2H,
         TakeBatch, TakeBoundary, Materialize, Fault, Hook, Mark
    <3> QED BY <1>6, <3>1, <3>2
  <2> QED BY <2>1, <2>2, DeliveredFrame
<1> QED
  BY <1>1, <1>2, <1>3, <1>4, <1>5, <1>6, CopyDelivers, ReclaimDelivers
     DEF Next, Progress, MainStep, CopierStep

(* The step is on; the gradients of a chunk that its backwards produced.     *)
InStep == {"forward", "backward", "step"}
Share(c) == {g \in grads : ChunkOf[g[1]] = c}

(* A gradient of this step is pending or summed, nothing else is summed, and *)
(* between steps nothing is kept.                                            *)
Accounted ==
  /\ main \in InStep => \A p \in Param :
       {g \in grads : g[1] = p} = {<<p, b>> : b \in pending[p]} \cup Summed(p)
  /\ main \in {"idle", "closed"} => \A p \in Param : pending[p] = {} /\ ~initialized[p]

(* A chunk that was stepped was stepped with its share.                      *)
SteppedWithShare ==
  /\ main \in InStep => \A c \in scheduled : c # running => used[c] = Share(c)
  /\ main = "step" /\ ~overlap => \A c \in Chunk : c \notin todo => used[c] = Share(c)
  /\ main = "zero" => \A c \in Chunk : used[c] = Share(c)

Used == Accounted /\ SteppedWithShare

(* In the beginning there are no gradients.                                  *)
LEMMA InitUsed == ASSUME Init PROVE Used
BY DEF Init, Used, Accounted, SteppedWithShare, InStep

(* Steps that touch no gradient's account.                                   *)
LEMMA UsedFrame ==
  ASSUME Used, UNCHANGED <<main, overlap, grads, pending, initialized, acc, scheduled, running, used, todo>>
  PROVE  Used'
BY DEF Used, Accounted, SteppedWithShare, Share, Summed

(* Once nothing of a chunk is pending, its accumulators hold its share.      *)
LEMMA SummedIsShare ==
  ASSUME Typed, Accounted, main \in InStep, NEW c \in Chunk,
         \A p \in Param : ChunkOf[p] = c => pending[p] = {}
  PROVE  UNION {acc[p] : p \in {q \in ParamsOf(c) : initialized[q]}} = Share(c)
<1>1. \A p \in Param : ChunkOf[p] = c =>
        {g \in grads : g[1] = p} = IF initialized[p] THEN acc[p] ELSE {}
  BY DEF Accounted, Summed
<1>2. \A g \in grads : g[1] \in Param
  BY DEF Typed, MainTypes, Grad
<1>3. ASSUME NEW g \in Share(c) PROVE g \in UNION {acc[p] : p \in {q \in ParamsOf(c) : initialized[q]}}
  <2>1. PICK p \in Param : p = g[1] /\ ChunkOf[p] = c /\ g \in grads
    BY <1>2 DEF Share
  <2>2. g \in (IF initialized[p] THEN acc[p] ELSE {})
    BY <1>1, <2>1
  <2>3. initialized[p] /\ g \in acc[p] /\ p \in ParamsOf(c)
    BY <2>1, <2>2 DEF ParamsOf
  <2> QED BY <2>3
<1>4. ASSUME NEW g \in UNION {acc[p] : p \in {q \in ParamsOf(c) : initialized[q]}} PROVE g \in Share(c)
  <2>1. PICK p \in ParamsOf(c) : initialized[p] /\ g \in acc[p]
    OBVIOUS
  <2>2. p \in Param /\ ChunkOf[p] = c
    BY DEF ParamsOf
  <2>3. g \in {h \in grads : h[1] = p}
    BY <1>1, <2>1, <2>2
  <2> QED BY <2>2, <2>3 DEF Share
<1> QED BY <1>3, <1>4

(* Summing a batch moves its gradients from pending to summed.               *)
LEMMA SumIsUsed ==
  ASSUME Typed, Ordered, Slots, OneThing, Used, Materialize
  PROVE  Used'
<1> DEFINE n == Len(batch)
<1>1. Batchable(batch) /\ UNCHANGED <<main, overlap, grads, todo, scheduled, running, used>>
  BY DEF Materialize, OneThing, mainVars
<1>2. /\ Left(n) /\ n \in 1 .. LineLen
      /\ \A i \in 1 .. n :
           /\ Pipe[i] \in Ask
           /\ pending'[Pipe[i].param] = pending[Pipe[i].param] \ {Pipe[i].backward}
           /\ initialized'[Pipe[i].param]
           /\ acc'[Pipe[i].param] = Summed(Pipe[i].param) \cup {inSlot[Line[i].slot]}
      /\ \A p \in Param : (\A i \in 1 .. n : Pipe[i].param # p) =>
           /\ pending'[p] = pending[p] /\ initialized'[p] = initialized[p] /\ acc'[p] = acc[p]
  BY <1>1, Materialized
<1>3. \A i \in 1 .. n : inSlot[Line[i].slot] = <<Pipe[i].param, Pipe[i].backward>>
  BY <1>1, BatchArrived
<1> HIDE DEF n
<1>4. \A i \in 1 .. n : /\ i \in 1 .. PipeLen /\ ~Pipe[i].boundary /\ Pipe[i].param \in Param
                        /\ Pipe[i].backward \in pending[Pipe[i].param]
  <2>1. \A i \in 1 .. n : i \in 1 .. PipeLen /\ Pipe[i] \in Ask
    BY <1>2, LinesTyped
  <2>2. \A x \in Ask : ~x.boundary /\ x.param \in Param
    BY DEF Ask
  <2> QED BY <2>1, <2>2 DEF Ordered, PendingIsPiped
<1>5. ASSUME main \in InStep, NEW p \in Param
      PROVE  {g \in grads : g[1] = p} =
               {<<p, b>> : b \in pending'[p]} \cup (IF initialized'[p] THEN acc'[p] ELSE {})
  <2>0. {g \in grads : g[1] = p} = {<<p, b>> : b \in pending[p]} \cup Summed(p)
    BY <1>5 DEF Used, Accounted
  <2>1. CASE \A i \in 1 .. n : Pipe[i].param # p
    BY <1>2, <2>0, <2>1 DEF Summed
  <2>2. ASSUME NEW i \in 1 .. n, Pipe[i].param = p
        PROVE  {g \in grads : g[1] = p} =
                 {<<p, b>> : b \in pending'[p]} \cup (IF initialized'[p] THEN acc'[p] ELSE {})
    <3>1. /\ pending'[p] = pending[p] \ {Pipe[i].backward} /\ initialized'[p]
          /\ acc'[p] = Summed(p) \cup {<<p, Pipe[i].backward>>}
          /\ Pipe[i].backward \in pending[p]
      BY <1>2, <1>3, <1>4, <2>2
    <3>2. {<<p, b>> : b \in pending[p]} = {<<p, b>> : b \in pending'[p]} \cup {<<p, Pipe[i].backward>>}
      BY <3>1
    <3> QED BY <2>0, <3>1, <3>2
  <2> QED BY <2>1, <2>2
<1>6. ASSUME main \in {"idle", "closed"} PROVE FALSE
  <2>1. \A p \in Param : pending[p] = {}
    BY <1>6 DEF Used, Accounted
  <2>2. 1 \in 1 .. n
    BY <1>2, LinesTyped
  <2> QED BY <1>4, <2>1, <2>2
<1>7. Accounted'
  BY <1>1, <1>5, <1>6 DEF Accounted, Summed
<1>8. SteppedWithShare'
  BY <1>1 DEF Used, SteppedWithShare, Share
<1> QED BY <1>7, <1>8 DEF Used

(* A new gradient is pending, and its chunk is not stepped yet.              *)
LEMMA HookUsed ==
  ASSUME Typed, Readiness, Scheduling, Used, NEW p \in Param, Hook(p)
  PROVE  Used'
<1>1. /\ main = "backward" /\ main' = main /\ p \notin enqueued
      /\ pending' = [pending EXCEPT ![p] = @ \cup {backward}]
      /\ grads' = grads \cup {<<p, backward>>}
      /\ UNCHANGED <<overlap, todo, initialized, acc, scheduled, running, used>>
  BY DEF Hook, Reached, chunkVars
<1>2. pending'[p] = pending[p] \cup {backward} /\ \A q \in Param : q # p => pending'[q] = pending[q]
  BY <1>1 DEF Typed, AccTypes
<1>3. \A q \in Param : {g \in grads : g[1] = q} = {<<q, b>> : b \in pending[q]} \cup Summed(q)
  BY <1>1 DEF Used, Accounted, InStep
<1>4. \A q \in Param : Summed(q)' = Summed(q)
  BY <1>1 DEF Summed
<1>5. ASSUME NEW q \in Param
      PROVE  {g \in grads' : g[1] = q} = {<<q, b>> : b \in pending'[q]} \cup Summed(q)
  <2>1. CASE q = p
    <3>1. {g \in grads' : g[1] = p} = {g \in grads : g[1] = p} \cup {<<p, backward>>}
      BY <1>1
    <3>2. {<<p, b>> : b \in pending'[p]} = {<<p, b>> : b \in pending[p]} \cup {<<p, backward>>}
      BY <1>2
    <3> QED BY <1>3, <2>1, <3>1, <3>2
  <2>2. CASE q # p
    <3>1. {g \in grads' : g[1] = q} = {g \in grads : g[1] = q}
      BY <1>1, <2>2
    <3> QED BY <1>2, <1>3, <2>2, <3>1
  <2> QED BY <2>1, <2>2
<1>6. Accounted'
  BY <1>1, <1>4, <1>5 DEF Accounted
<1>7. \A c \in scheduled : ChunkOf[p] # c
  <2> SUFFICES ASSUME ChunkOf[p] \in scheduled PROVE FALSE
    OBVIOUS
  <2>1. InFinal /\ pendingChunk[ChunkOf[p]] = {}
    BY DEF Scheduling
  <2>2. p \in pendingChunk[ChunkOf[p]]
    BY <1>1, <2>1 DEF Readiness, Unreached, Unready
  <2> QED BY <2>1, <2>2
<1>8. \A c \in scheduled : Share(c)' = Share(c)
  <2>1. \A c \in scheduled : Share(c)' = {g \in grads \cup {<<p, backward>>} : ChunkOf[g[1]] = c}
    BY <1>1 DEF Share
  <2> QED BY <1>7, <2>1 DEF Share
<1>9. SteppedWithShare'
  BY <1>1, <1>8 DEF Used, SteppedWithShare, InStep
<1> QED BY <1>6, <1>9 DEF Used

(* A step keeps the account of the gradients.                                *)
LEMMA NextUsed ==
  ASSUME Typed, Ordered, Slots, OneThing, Readiness, Scheduling, Versions, Used, [Next]_vars
  PROVE  Used'
<1>1. CASE BeginStep
  <2>1. /\ main = "idle" /\ main' = "forward" /\ grads' = {} /\ scheduled' = {}
        /\ UNCHANGED <<pending, initialized, acc>>
    BY <1>1 DEF BeginStep, accVars
  <2>2. \A p \in Param : pending[p] = {} /\ ~initialized[p]
    BY <2>1 DEF Used, Accounted
  <2>3. Accounted'
    BY <2>1, <2>2 DEF Accounted, Summed
  <2>4. SteppedWithShare'
    BY <2>1 DEF SteppedWithShare
  <2> QED BY <2>3, <2>4 DEF Used
<1>2. CASE BeginBackward
  <2>1. /\ main = "forward" /\ main' = "backward"
        /\ UNCHANGED <<grads, pending, initialized, acc>>
    BY <1>2 DEF BeginBackward, accVars
  <2>2. scheduled' = {}
    BY <1>2 DEF BeginBackward, Scheduling
  <2>3. Accounted'
    BY <2>1 DEF Used, Accounted, Summed, InStep
  <2>4. SteppedWithShare'
    BY <2>1, <2>2 DEF SteppedWithShare
  <2> QED BY <2>3, <2>4 DEF Used
<1>3. CASE FinishBackward
  <2>1. /\ main = "backward" /\ main' \in {"step", "forward"}
        /\ main' = "step" /\ ~overlap => todo' = Chunk
        /\ UNCHANGED <<overlap, grads, pending, initialized, acc, scheduled, running, used>>
    BY <1>3 DEF FinishBackward, accVars, chunkVars
  <2>2. Accounted'
    BY <2>1 DEF Used, Accounted, Summed, InStep
  <2>3. SteppedWithShare'
    BY <2>1 DEF Used, SteppedWithShare, Share, InStep
  <2> QED BY <2>2, <2>3 DEF Used
<1>4. CASE StepOverlapped
  <2>1. /\ main = "step" /\ main' = "zero"
        /\ UNCHANGED <<grads, used>>
    BY <1>4 DEF StepOverlapped, chunkVars
  <2>2. running = NoChunk /\ scheduled = Chunk
    BY <1>4, AllDone DEF StepOverlapped
  <2>3. \A c \in Chunk : used[c] = Share(c)
    BY <2>1, <2>2, OffloadAssumption DEF Used, SteppedWithShare, InStep, OffloadAssumption
  <2>4. Accounted' /\ SteppedWithShare'
    BY <2>1, <2>3 DEF Accounted, SteppedWithShare, Share, InStep
  <2> QED BY <2>4 DEF Used
<1>5. CASE Synchronize
  <2>1. /\ main = "step" /\ ~overlap /\ todo = {} /\ main' = "zero"
        /\ UNCHANGED <<grads, used>>
    BY <1>5 DEF Synchronize, chunkVars
  <2>2. \A c \in Chunk : used[c] = Share(c)
    BY <2>1 DEF Used, SteppedWithShare
  <2>3. Accounted' /\ SteppedWithShare'
    BY <2>1, <2>2 DEF Accounted, SteppedWithShare, Share, InStep
  <2> QED BY <2>3 DEF Used
<1>6. CASE ZeroGrad
  <2>1. /\ main' = "idle" /\ pending' = pending /\ initialized' = [p \in Param |-> FALSE]
        /\ \A p \in Param : pending[p] = {}
    BY <1>6 DEF ZeroGrad, Forgotten, Settled
  <2> QED BY <2>1 DEF Used, Accounted, SteppedWithShare, InStep
<1>7. CASE Close
  <2>1. main = "idle" /\ main' = "closed" /\ UNCHANGED <<pending, initialized>>
    BY <1>7 DEF Close, accVars
  <2> QED BY <2>1 DEF Used, Accounted, SteppedWithShare, InStep
<1>8. ASSUME Raise \/ \E p \in Param : WindowExhausted(p) PROVE Used'
  <2>1. main' = "failed"
    BY <1>8 DEF Raise, WindowExhausted
  <2> QED BY <2>1 DEF Used, Accounted, SteppedWithShare, InStep
<1>9. ASSUME NEW c \in Chunk, StepSync(c) PROVE Used'
  <2>1. /\ main = "step" /\ main' = "step" /\ c \in todo /\ todo' = todo \ {c}
        /\ UNCHANGED <<overlap, grads, pending, initialized, acc, scheduled, running>>
    BY <1>9 DEF StepSync, accVars
  <2>2. used' = [used EXCEPT ![c] = UNION {acc[p] : p \in {q \in ParamsOf(c) : initialized[q]}}]
    BY <1>9 DEF StepSync, StepChunk
  <2>3. \A p \in Param : pending[p] = {}
    BY <1>9 DEF StepSync, Settled
  <2>4. used'[c] = Share(c) /\ \A d \in Chunk : d # c => used'[d] = used[d]
    BY <2>1, <2>2, <2>3, SummedIsShare DEF Typed, ChunkTypes, Used, InStep
  <2>5. ~overlap /\ scheduled = {}
    <3>1. ~overlap
      BY <2>1 DEF Versions
    <3> QED BY <3>1 DEF Scheduling, InFinal
  <2>6. Accounted'
    BY <2>1 DEF Used, Accounted, Summed, InStep
  <2>7. SteppedWithShare'
    BY <2>1, <2>4, <2>5 DEF Used, SteppedWithShare, Share
  <2> QED BY <2>6, <2>7 DEF Used
<1>10. CASE RunChunk
  <2> DEFINE r == running
  <2>1. /\ r \in Chunk /\ r # NoChunk /\ running' = NoChunk
        /\ UNCHANGED <<main, overlap, grads, todo, pending, initialized, acc, scheduled>>
    BY <1>10 DEF RunChunk, mainVars, accVars, Typed, ChunkTypes
  <2>2. used' = [used EXCEPT ![r] = UNION {acc[p] : p \in {q \in ParamsOf(r) : initialized[q]}}]
    BY <1>10 DEF RunChunk, StepChunk
  <2>3. r \in scheduled /\ pendingChunk[r] = {} /\ InFinal /\ main \notin Between /\ overlap
    BY <2>1 DEF Scheduling, Live, InFinal
  <2>4. \A p \in Param : ChunkOf[p] = r => pending[p] = {}
    BY <2>3 DEF Readiness, MarkedIsSummed
  <2> HIDE DEF r
  <2>5. (main \in InStep => used'[r] = Share(r)) /\ \A d \in Chunk : d # r => used'[d] = used[d]
    BY <2>1, <2>2, <2>4, SummedIsShare DEF Typed, ChunkTypes, Used
  <2>6. Accounted'
    BY <2>1 DEF Used, Accounted, Summed
  <2>7. main \in InStep => \A c \in scheduled : used'[c] = Share(c)
    <3>1. main \in InStep => \A c \in scheduled : c # r => used[c] = Share(c)
      BY DEF Used, SteppedWithShare, r
    <3> QED BY <2>5, <3>1 DEF Typed, ChunkTypes
  <2>8. \A c : Share(c)' = Share(c)
    BY <2>1 DEF Share
  <2>9. SteppedWithShare'
    BY <2>1, <2>3, <2>7, <2>8 DEF SteppedWithShare, Between
  <2> QED BY <2>6, <2>9 DEF Used
<1>11. ASSUME NEW p \in Param, Mark(p) PROVE Used'
  <2>1. UNCHANGED <<main, overlap, grads, todo, pending, initialized, acc, used>>
    BY <1>11 DEF Mark, mainVars, accVars
  <2>2. running = NoChunk /\ \A c \in scheduled' : c # running' => c \in scheduled /\ c # NoChunk
    <3>1. scheduled \subseteq Chunk /\ NoChunk \notin Chunk
      BY OffloadAssumption DEF Typed, ChunkTypes, OffloadAssumption
    <3> QED BY <1>11, <3>1, MarkedOnce
  <2>3. Accounted'
    BY <2>1 DEF Used, Accounted, Summed
  <2>4. SteppedWithShare'
    BY <2>1, <2>2 DEF Used, SteppedWithShare, Share
  <2> QED BY <2>3, <2>4 DEF Used
<1>12. ASSUME \/ UNCHANGED vars \/ TransferStep \/ CopyD2H \/ CopyH2D \/ Reclaim
              \/ TakeBatch \/ TakeBoundary
              \/ \E w \in Worker : Fault(w)
       PROVE  Used'
  <2>1. UNCHANGED <<main, overlap, grads, pending, initialized, acc, scheduled, running, used, todo>>
    BY <1>12, Zenon DEF vars, mainVars, accVars, chunkVars, TransferStep, TransferGradient,
       TransferBoundary, CopyD2H, CopyH2D, Reclaim, TakeBatch, TakeBoundary, Fault
  <2> QED BY <2>1, UsedFrame
<1> QED
  BY <1>1, <1>2, <1>3, <1>4, <1>5, <1>6, <1>7, <1>8, <1>9, <1>10, <1>11, <1>12, SumIsUsed, HookUsed
     DEF Next, Progress, MainStep, CopierStep

(* Every generation the copy thread retires is pending, and no parameter is  *)
(* marked twice: nothing but a fault raises.                                 *)
LEMMA NextCalm ==
  ASSUME Typed, Ordered, OneThing, Readiness, Scheduling, NoProtocolError, [Next]_vars
  PROVE  NoProtocolError'
<1>1. CASE Materialize
  <2> DEFINE n == Len(batch)
  <2>1. Batchable(batch)
    BY <1>1 DEF Materialize, OneThing
  <2>2. /\ n \in 1 .. LineLen /\ \A i \in 1 .. n : Pipe[i] \in Ask
        /\ (\A i \in 1 .. n : Pipe[i].backward \in pending[Pipe[i].param]) => UNCHANGED errVars
    BY <1>1, <2>1, Materialized
  <2> HIDE DEF n
  <2>3. \A i \in 1 .. n : i \in 1 .. PipeLen /\ ~Pipe[i].boundary
    <3>1. \A i \in 1 .. n : i \in 1 .. PipeLen
      BY <2>2, LinesTyped
    <3>2. \A x \in Ask : ~x.boundary
      BY DEF Ask
    <3> QED BY <2>2, <3>1, <3>2
  <2>4. UNCHANGED errVars
    BY <2>2, <2>3 DEF Ordered, PendingIsPiped
  <2> QED BY <2>4 DEF errVars, NoProtocolError
<1>2. ASSUME NEW p \in Param, Mark(p) PROVE NoProtocolError'
  BY <1>2, MarkedOnce DEF errVars, NoProtocolError
<1>3. ASSUME NEW w \in Worker, Fault(w) PROVE NoProtocolError'
  BY <1>3 DEF Fault, NoProtocolError
<1>4. ASSUME \/ UNCHANGED vars \/ BeginStep \/ BeginBackward \/ FinishBackward
             \/ StepOverlapped \/ Synchronize \/ ZeroGrad \/ Close
             \/ Raise \/ TransferStep \/ CopyD2H \/ CopyH2D \/ Reclaim
             \/ TakeBatch \/ TakeBoundary \/ RunChunk
             \/ \E p \in Param : Hook(p) \/ WindowExhausted(p)
             \/ \E c \in Chunk : StepSync(c)
      PROVE  UNCHANGED error
  BY <1>4, Zenon DEF vars, errVars, BeginStep, BeginBackward, FinishBackward, StepOverlapped,
     Synchronize, ZeroGrad, Close, Raise, TransferStep, TransferGradient, TransferBoundary, CopyD2H,
     CopyH2D, Reclaim, TakeBatch, TakeBoundary, RunChunk, Hook, WindowExhausted, StepSync
<1> QED
  BY <1>1, <1>2, <1>3, <1>4 DEF NoProtocolError, Next, Progress, MainStep, CopierStep

(* The inductive invariant.                                                  *)
PipelineInv ==
  /\ Typed /\ Ordered /\ Slots /\ OneThing /\ Readiness
  /\ Scheduling /\ Versions /\ Delivered /\ Used /\ NoProtocolError

(* It holds of every reachable state of the offload pipeline.                *)
THEOREM PipelineInvariant == Spec => []PipelineInv
<1>1. Init => PipelineInv
  <2>1. Init => NoProtocolError
    BY DEF Init, NoProtocolError
  <2> QED
    BY <2>1, InitTyped, InitOrdered, InitSlots, InitReadiness, InitVersions, InitDelivered, InitUsed
       DEF PipelineInv
<1>2. PipelineInv /\ [Next]_vars => PipelineInv'
  <2> SUFFICES ASSUME PipelineInv, [Next]_vars PROVE PipelineInv'
    OBVIOUS
  <2>1. /\ Typed /\ Ordered /\ Slots /\ OneThing /\ Readiness
        /\ Scheduling /\ Versions /\ Delivered /\ Used /\ NoProtocolError
    BY DEF PipelineInv
  <2>2. batch # <<>> => Batchable(batch)
    BY <2>1 DEF OneThing
  <2>3. StepOverlapped => \A c \in Chunk : pendingChunk[c] = {}
    BY <2>1, AllDone DEF StepOverlapped
  <2>4. Typed' /\ Ordered' /\ Slots' /\ OneThing'
    BY <2>1, <2>2, NextTyped, NextOrdered, NextSlots, NextOneThing
  <2>5. Readiness' /\ Scheduling' /\ Versions'
    BY <2>1, <2>3, NextReadiness, NextScheduling, NextVersions
  <2>6. Delivered' /\ Used' /\ NoProtocolError'
    BY <2>1, NextDelivered, NextUsed, NextCalm
  <2> QED BY <2>4, <2>5, <2>6 DEF PipelineInv
<1> QED BY <1>1, <1>2, PTL DEF Spec

(* When a step is over, each chunk was stepped once in it, with exactly the  *)
(* gradients the step's backwards produced for it (_copy_worker_loop,        *)
(* _mark_final_param_ready), whatever the parameters, slots and windows.     *)
THEOREM GradientsTrain == Spec => []GradientsAllTrain
<1>1. PipelineInv => GradientsAllTrain
  BY DEF PipelineInv, Versions, Between, Used, SteppedWithShare, Share, GradientsAllTrain
<1> QED BY <1>1, PipelineInvariant, PTL

(* While the GPU may still compute a gradient, it holds for its parameter's  *)
(* chunk the weights of the step before: a chunk that still waits for a      *)
(* gradient was not stepped, its copies of earlier steps are through the     *)
(* fence, and a copy behind the fence is of a chunk that was stepped (step,  *)
(* finish_backward, _copy_worker_loop).                                      *)
THEOREM WeightsHold == Spec => []WeightsHoldStill
<1>1. PipelineInv => WeightsHoldStill
  <2> SUFFICES ASSUME PipelineInv, fence = 0, NEW p \in Uncomputed
               PROVE  gpu[ChunkOf[p]] = [chunk |-> ChunkOf[p], version |-> step - 1]
    BY DEF WeightsHoldStill
  <2>1. Typed /\ Ordered /\ Slots /\ Readiness /\ Versions /\ Delivered
    BY DEF PipelineInv
  <2>2. ASSUME NEW i \in 1 .. PipeLen, ~Pipe[i].boundary
        PROVE  Pipe[i].param \in Param /\ master[ChunkOf[Pipe[i].param]] = step - 1
    <3>1. Pipe[i].param \in Param
      BY <2>1, <2>2, LinesTyped, ItemKinds
    <3>2. Pipe[i].backward \in pending[Pipe[i].param]
      BY <2>1, <2>2 DEF Ordered, PendingIsPiped
    <3> QED BY <2>1, <3>1, <3>2 DEF Versions
  <2>3. p \in Param /\ master[ChunkOf[p]] = step - 1
    <3>1. CASE p \in Param /\ main = "backward" /\ p \notin enqueued
      <4>1. CASE InFinal
        <5>1. p \in pendingChunk[ChunkOf[p]] /\ ChunkOf[p] \in Chunk
          BY <2>1, <3>1, <4>1, OffloadAssumption DEF Readiness, Unreached, Unready, OffloadAssumption
        <5> QED BY <2>1, <3>1, <5>1 DEF Versions
      <4>2. CASE ~InFinal
        <5>1. ChunkOf[p] \in Chunk
          BY <3>1, OffloadAssumption DEF OffloadAssumption
        <5> QED BY <2>1, <3>1, <4>2, <5>1 DEF Versions
      <4> QED BY <4>1, <4>2
    <3>2. ASSUME NEW i \in DOMAIN transfer, ~transfer[i].boundary, p = transfer[i].param
          PROVE  p \in Param /\ master[ChunkOf[p]] = step - 1
      <4>1. i \in 1 .. Len(transfer) /\ Len(transfer) \in Nat
        BY <2>1 DEF Typed, InTypes
      <4>2. LineLen + i \in 1 .. PipeLen /\ LineLen + i > LineLen /\ (LineLen + i) - LineLen = i
        BY <2>1, <4>1, LinesTyped DEF PipeLen
      <4>3. Pipe[LineLen + i] = transfer[i]
        BY <2>1, <4>2, LinesTyped DEF Pipe
      <4> QED BY <2>2, <3>2, <4>2, <4>3
    <3>3. ASSUME NEW i \in DOMAIN d2h, p = d2h[i].grad[1]
          PROVE  p \in Param /\ master[ChunkOf[p]] = step - 1
      <4>1. PICK j \in Slotted : d2h[i].grad = <<Line[j].task.param, Line[j].task.backward>>
        BY <2>1 DEF Slots, CopiesInOrder
      <4>2. j \in 1 .. PipeLen /\ Pipe[j] = Line[j].task /\ ~Pipe[j].boundary
        BY <2>1, SlottedTyped DEF Slotted
      <4>3. p = Pipe[j].param
        BY <3>3, <4>1, <4>2
      <4> QED BY <2>2, <4>2, <4>3
    <3> QED BY <3>1, <3>2, <3>3 DEF Uncomputed
  <2>4. ChunkOf[p] \in Chunk /\ step \in Nat /\ Len(h2d) \in Nat
    BY <2>1, <2>3, OffloadAssumption DEF OffloadAssumption, Typed, MainTypes, OutTypes
  <2>5. \A i \in 1 .. Len(h2d) : h2d[i].chunk # ChunkOf[p]
    <3>1. \A i \in 1 .. Len(h2d) : fence < i
      BY <2>4
    <3>2. \A i \in 1 .. Len(h2d) : master[h2d[i].chunk] = step
      BY <2>1, <3>1 DEF Delivered, Carried
    <3> QED BY <2>3, <2>4, <3>2
  <2> QED BY <2>1, <2>3, <2>4, <2>5 DEF Delivered, Arrived
<1> QED BY <1>1, PipelineInvariant, PTL

(* The pipeline's own checks never raise (_copy_worker_loop,                 *)
(* _mark_final_param_ready): a worker stops only at a fault.                 *)
THEOREM ChecksNeverRaise == Spec => []NoProtocolError
<1>1. PipelineInv => NoProtocolError
  BY DEF PipelineInv
<1> QED BY <1>1, PipelineInvariant, PTL
=============================================================================
