-------------------------- MODULE ConcurrencyProofs --------------------------
(***************************************************************************)
(* Theorems about Concurrency for every floor, ceiling, threshold and set  *)
(* of readings: the cap stays typed and is cut once per overload, and it   *)
(* grows only on good evidence.                                            *)
(*                                                                         *)
(* Two facts strengthen TypeOK to an inductive invariant.  A cut that has  *)
(* not settled leaves the controller draining, and a draining controller   *)
(* cuts only once it is released, which an overload forbids.  An open      *)
(* growth gate was opened by a poll without pressure, and not by one that  *)
(* drained.                                                                *)
(***************************************************************************)
EXTENDS Concurrency, TLAPS

Evidence ==
  /\ cuts <= 1
  /\ cuts > 0 => draining
  /\ canGrow => load # "pressed" /\ ~draining

Inv == TypeOK /\ Evidence

(* Min of two numbers, as resize_down and the episode counters use it.     *)
LEMMA MinOfTwo ==
  ASSUME NEW a \in Int, NEW b \in Int
  PROVE  /\ Min({a, b}) = IF a <= b THEN a ELSE b
         /\ Max({a, b}) = IF a <= b THEN b ELSE a
<1>1. CASE a <= b
  <2>1. \E x \in {a, b} : \A y \in {a, b} : x <= y  BY <1>1
  <2>2. \E x \in {a, b} : \A y \in {a, b} : x >= y  BY <1>1
  <2> QED  BY <1>1, <2>1, <2>2 DEF Min, Max
<1>2. CASE ~(a <= b)
  <2>1. \E x \in {a, b} : \A y \in {a, b} : x <= y  BY <1>2
  <2>2. \E x \in {a, b} : \A y \in {a, b} : x >= y  BY <1>2
  <2> QED  BY <1>2, <2>1, <2>2 DEF Min, Max
<1> QED  BY <1>1, <1>2

LEMMA QuarterOf ==
  ASSUME NEW a \in Int, NEW b \in Int, NEW c \in Int, 4 * a <= c, c <= 4 * b
  PROVE  c \div 4 \in a .. b
OBVIOUS

(* What a poll leaves to be proved of its judgement.                       *)
LEMMA ClampTyped ==
  ASSUME NEW n \in Int
  PROVE  Clamp(n) \in Floor .. Ceiling /\ (n \in Floor .. Ceiling => Clamp(n) = n)
BY ConcurrencyAssumption DEF Clamp

LEMMA StartsTyped ==
  ASSUME TypeOK, NEW r \in Readings, NEW s \in Starts(r)
  PROVE  /\ s \in Floor .. Ceiling
         /\ s # maxInflight => ~bootstrapped /\ r.capacity
<1>1. r \in Reading  BY DEF Readings
<1>2. CASE ~bootstrapped /\ r.capacity
  <2>1. PICK d \in Derived : s = Clamp(d)  BY <1>2 DEF Starts
  <2>2. d \in Int  BY ConcurrencyAssumption
  <2> QED  BY <1>2, <2>1, <2>2, ClampTyped
<1>3. CASE ~(~bootstrapped /\ r.capacity)
  BY <1>3 DEF Starts, TypeOK
<1> QED  BY <1>2, <1>3

LEMMA JudgeTyped ==
  ASSUME Inv, NEW r \in Readings, Judge(r)
  PROVE  /\ {bootstrapped', canGrow', fresh', waited', missed'} \subseteq BOOLEAN
         /\ grace' \in 0 .. GracePolls
         /\ inflight' = inflight
         /\ load' \in {"idle", "waiting", "pressed"}
         /\ canGrow' => load' # "pressed" /\ ~StillDraining(r) /\ ~Overload(r)
<1>1. r \in Reading  BY DEF Readings
<1>2. r.usage \in Int
  <2>1. r.usage \in Usages  BY <1>1 DEF Reading
  <2>2. \A u \in Usages : u \in Int  BY ConcurrencyAssumption
  <2> QED  BY <2>1, <2>2
<1>3. {bootstrapped', canGrow', fresh', waited', missed'} \subseteq BOOLEAN
  BY <1>1 DEF Judge, Inv, TypeOK, MayGrow, Clear, Reading, StillDraining, Overload
<1>4. grace' \in 0 .. GracePolls
  BY ConcurrencyAssumption DEF Judge, GraceLeft, Inv, TypeOK
<1>5. load' \in {"idle", "waiting", "pressed"}
  BY DEF Judge, LoadOf
<1>6. canGrow' => load' # "pressed" /\ ~StillDraining(r) /\ ~Overload(r)
  <2> SUFFICES ASSUME canGrow' PROVE load' # "pressed" /\ ~StillDraining(r) /\ ~Overload(r)
    OBVIOUS
  <2>1. MayGrow(r)  BY Zenon DEF Judge
  <2>2. ~r.preempted /\ r.usage <= 60 /\ r.queued = "none" /\ ~StillDraining(r) /\ ~Overload(r)
    BY <2>1, Zenon DEF MayGrow, Clear, Overload
  <2>3. ~(r.usage > 60)  BY <1>2, <2>2
  <2>4. load' # "pressed"  BY <2>2, <2>3, Zenon DEF Judge, LoadOf
  <2> QED  BY <2>2, <2>4
<1> QED  BY <1>3, <1>4, <1>5, <1>6 DEF Judge

-----------------------------------------------------------------------------
(* A poll that leaves the cap alone.                                       *)
LEMMA WatchKeeps ==
  ASSUME Inv, NEW r \in Readings, NEW s \in Starts(r), Watch(r, s)
  PROVE  Inv'
<1>1. Judge(r)  BY DEF Watch
<1>2. s \in Floor .. Ceiling  BY StartsTyped DEF Inv
<1>3. cap' \in 0 .. 4 * Ceiling /\ maxInflight' \in Floor .. Ceiling
         /\ maxInflight' = Clamp(cap' \div 4) /\ limit' = maxInflight'
  <2>1. CASE ~bootstrapped /\ r.capacity
    <3>1. cap' = 4 * s /\ (4 * s) \div 4 = s  BY <1>2, <2>1, ConcurrencyAssumption DEF Watch
    <3> QED  BY <1>2, <3>1, ClampTyped, ConcurrencyAssumption DEF Watch, ApplyLimit, Inv, TypeOK
  <2>2. CASE ~(~bootstrapped /\ r.capacity)
    <3>1. s = maxInflight /\ cap' = cap  BY <2>2 DEF Starts, Watch
    <3> QED  BY <3>1 DEF Watch, ApplyLimit, Inv, TypeOK
  <2> QED  BY <2>1, <2>2
<1>4. queuePolls' \in 0 .. QueuePolls
  BY ConcurrencyAssumption DEF Watch, QueuedPolls, Inv, TypeOK
<1>5. cooldown' \in 0 .. TrimPolls
  BY ConcurrencyAssumption DEF Watch, CoolDown, Inv, TypeOK
<1>6. draining' \in BOOLEAN /\ escalated' \in BOOLEAN
  BY DEF Watch, StillDraining, StillEscalated, Inv, TypeOK
<1>7. cuts' \in 0 .. 2 /\ cuts' <= 1 /\ (cuts' > 0 => draining')
  BY DEF Watch, Settled, StillDraining, Released, Inv, TypeOK, Evidence
<1>8. canGrow' => load' # "pressed" /\ ~draining'
  BY <1>1, JudgeTyped DEF Watch
<1>9. excess' = excess /\ inflight' = inflight  BY <1>1 DEF Watch, Judge
<1> QED
  BY <1>1, <1>3, <1>4, <1>5, <1>6, <1>7, <1>8, <1>9, JudgeTyped DEF Inv, TypeOK, Evidence

(* resize_down: the cap it leaves is typed and no higher than it was,      *)
(* unless the capacity became known.                                       *)
LEMMA ResizeTyped ==
  ASSUME Inv, NEW r \in Readings, NEW s \in Starts(r), NEW n \in Int, NEW cancel \in BOOLEAN,
         ResizeDown(Clamp(n), s, cancel)
  PROVE  /\ cap' \in 0 .. 4 * Ceiling /\ maxInflight' \in Floor .. Ceiling
         /\ maxInflight' = Clamp(cap' \div 4) /\ limit' = maxInflight'
         /\ excess' \in 0 .. Ceiling
         /\ maxInflight' <= s
<1> DEFINE t == Lowered(Clamp(n), s)
<1>1. s \in Floor .. Ceiling  BY StartsTyped DEF Inv
<1>2. Clamp(n) \in Floor .. Ceiling  BY ClampTyped
<1>3. t \in Floor .. Ceiling /\ t <= s
  <2>1. Clamp(n) \in Int /\ s \in Int  BY <1>1, <1>2, ConcurrencyAssumption
  <2>2. t = IF Clamp(n) <= s THEN Clamp(n) ELSE s  BY <2>1, MinOfTwo, Zenon DEF Lowered
  <2> HIDE DEF t
  <2> QED  BY <1>1, <1>2, <2>1, <2>2, ConcurrencyAssumption
<1>4. cap' = 4 * t /\ ApplyLimit(t)  BY DEF ResizeDown
<1>5. (4 * t) \div 4 = t  BY <1>3, ConcurrencyAssumption
<1>6. maxInflight' = t /\ limit' = t  BY <1>4 DEF ApplyLimit, Inv, TypeOK
<1>7. excess' \in 0 .. Ceiling
  <2>1. CASE cancel /\ Cancels /\ inflight > t
    <3>1. excess' = Min({excess + inflight - t, Ceiling})  BY <2>1 DEF ResizeDown
    <3>2. excess + inflight - t \in Nat
      BY <1>3, <2>1, ConcurrencyAssumption DEF Inv, TypeOK
    <3> HIDE DEF t
    <3>3. Ceiling \in Int /\ excess + inflight - t \in Int  BY <3>2, ConcurrencyAssumption
    <3>4. excess' = IF excess + inflight - t <= Ceiling THEN excess + inflight - t ELSE Ceiling
      BY <3>1, <3>3, MinOfTwo, Zenon
    <3> QED  BY <3>2, <3>3, <3>4, ConcurrencyAssumption
  <2>2. CASE ~(cancel /\ Cancels /\ inflight > t)
    BY <2>2 DEF ResizeDown, Inv, TypeOK
  <2> QED  BY <2>1, <2>2
<1> HIDE DEF t
<1>8. 4 * t \in 0 .. 4 * Ceiling  BY <1>3, ConcurrencyAssumption
<1>9. Clamp(t) = t  BY <1>3, ClampTyped, ConcurrencyAssumption
<1> QED  BY <1>3, <1>4, <1>5, <1>6, <1>7, <1>8, <1>9

(* An overload cuts once: a poll that cuts finds nothing left of a cut.    *)
LEMMA CutKeeps ==
  ASSUME Inv, NEW r \in Readings, NEW s \in Starts(r), Cut(r, s)
  PROVE  Inv'
<1>1. Judge(r)  BY DEF Cut
<1>2. \E n \in Int : ResizeDown(Clamp(n), s, TRUE)
  <2> DEFINE tenths == IF StillEscalated(r) THEN 5 ELSE IF QueueOverload(r) THEN 9 ELSE 8
  <2>1. (inflight * tenths) \div 10 \in Int  BY ConcurrencyAssumption DEF Inv, TypeOK
  <2>2. ResizeDown(Clamp((inflight * tenths) \div 10), s, TRUE)  BY DEF Cut
  <2> QED  BY <2>1, <2>2
<1>3. PICK n \in Int : ResizeDown(Clamp(n), s, TRUE)  BY <1>2
<1>4. queuePolls' \in 0 .. QueuePolls
  BY ConcurrencyAssumption DEF Cut, QueueOverload, QueuedPolls, Inv, TypeOK
<1>5. cooldown' \in 0 .. TrimPolls
  BY ConcurrencyAssumption DEF Cut, CoolDown, Inv, TypeOK
<1>6. cuts = 0
  BY DEF Cut, StillDraining, Released, Inv, TypeOK, Evidence
<1>7. cuts' = 1  BY <1>6, MinOfTwo DEF Cut
<1>8. draining' /\ escalated' = TRUE /\ draining' = TRUE  BY DEF Cut
<1>9. ~canGrow'  BY <1>1, JudgeTyped DEF Cut
<1>10. inflight' = inflight  BY <1>1 DEF Judge
<1>j. /\ {bootstrapped', canGrow', fresh', waited', missed'} \subseteq BOOLEAN
      /\ grace' \in 0 .. GracePolls
      /\ load' \in {"idle", "waiting", "pressed"}
  BY <1>1, JudgeTyped
<1>r. /\ cap' \in 0 .. 4 * Ceiling /\ maxInflight' \in Floor .. Ceiling
      /\ maxInflight' = Clamp(cap' \div 4) /\ limit' = maxInflight'
      /\ excess' \in 0 .. Ceiling
  BY <1>3, ResizeTyped
<1> QED
  BY <1>4, <1>5, <1>7, <1>8, <1>9, <1>10, <1>j, <1>r DEF Inv, TypeOK, Evidence

LEMMA TrimKeeps ==
  ASSUME Inv, NEW r \in Readings, NEW s \in Starts(r), Trim(r, s)
  PROVE  Inv'
<1>1. Judge(r)  BY DEF Trim
<1>2. \E n \in Int : ResizeDown(Clamp(n), s, r.usage > 90)
  <2>1. r \in Reading  BY DEF Readings
  <2>2. r.usage \in Usages  BY <2>1 DEF Reading
  <2>a. \A u \in Usages : u \in Int  BY ConcurrencyAssumption
  <2>b. r.usage > 80  BY DEF Trim, TrimDue
  <2>3. r.usage \in Int /\ r.usage > 0  BY <2>2, <2>a, <2>b
  <2>4. inflight * 70 \in Int  BY ConcurrencyAssumption DEF Inv, TypeOK
  <2>5. (inflight * 70) \div r.usage \in Int  BY <2>3, <2>4
  <2>6. ResizeDown(Clamp((inflight * 70) \div r.usage), s, r.usage > 90)  BY DEF Trim
  <2> QED  BY <2>5, <2>6
<1>3. PICK n \in Int : ResizeDown(Clamp(n), s, r.usage > 90)  BY <1>2
<1>4. queuePolls' \in 0 .. QueuePolls
  BY ConcurrencyAssumption DEF Trim, Overload, QueueOverload, QueuedPolls, Inv, TypeOK
<1>5. cooldown' \in 0 .. TrimPolls  BY ConcurrencyAssumption DEF Trim
<1>6. cuts' = 0
  BY DEF Trim, StillDraining, Released, Settled, Inv, TypeOK, Evidence
<1>7. draining' = FALSE /\ escalated' \in BOOLEAN
  BY DEF Trim, StillEscalated, Inv, TypeOK
<1>8. canGrow' => load' # "pressed"  BY <1>1, JudgeTyped
<1>9. inflight' = inflight  BY <1>1 DEF Judge
<1>10. (r.usage > 90) \in BOOLEAN  OBVIOUS
<1>j. /\ {bootstrapped', canGrow', fresh', waited', missed'} \subseteq BOOLEAN
      /\ grace' \in 0 .. GracePolls
      /\ load' \in {"idle", "waiting", "pressed"}
  BY <1>1, JudgeTyped
<1>r. /\ cap' \in 0 .. 4 * Ceiling /\ maxInflight' \in Floor .. Ceiling
      /\ maxInflight' = Clamp(cap' \div 4) /\ limit' = maxInflight'
      /\ excess' \in 0 .. Ceiling
  BY <1>3, <1>10, ResizeTyped
<1>b. {bootstrapped', canGrow', fresh', waited', draining', escalated', missed'} \subseteq BOOLEAN
  <2>1. draining' \in BOOLEAN  BY <1>7
  <2> QED  BY <1>7, <1>j, <2>1, Zenon
<1>n. inflight' \in 0 .. Ceiling /\ cuts' \in 0 .. 2  BY <1>6, <1>9 DEF Inv, TypeOK
<1>t. TypeOK'
  BY <1>4, <1>5, <1>b, <1>n, <1>j, <1>r, Zenon DEF TypeOK
<1>e. Evidence'
  BY <1>6, <1>7, <1>8 DEF Evidence
<1> QED  BY <1>t, <1>e DEF Inv
-----------------------------------------------------------------------------
(* The pool.                                                               *)

LEMMA ShedKeeps ==
  ASSUME Inv, Shed
  PROVE  Inv'
<1> DEFINE most == Min({inflight, excess + GroupSize - 1})
<1>1. most \in Int /\ most <= inflight
  <2>1. inflight \in Int /\ excess + GroupSize - 1 \in Int
    BY ConcurrencyAssumption DEF Inv, TypeOK
  <2>2. most = IF inflight <= excess + GroupSize - 1 THEN inflight ELSE excess + GroupSize - 1
    BY <2>1, MinOfTwo, Zenon
  <2> HIDE DEF most
  <2> QED  BY <2>1, <2>2
<1>2. PICK k \in 0 .. most : inflight' = inflight - k  BY DEF Shed
<1> HIDE DEF most
<1>3. inflight' \in 0 .. Ceiling  BY <1>1, <1>2, ConcurrencyAssumption DEF Inv, TypeOK
<1>4. excess' \in 0 .. Ceiling  BY ConcurrencyAssumption DEF Shed
<1>5. UNCHANGED <<capVars, gateVars, missed, load, cuts>>  BY DEF Shed
<1>6. TypeOK'  BY <1>3, <1>4, <1>5 DEF Inv, TypeOK, capVars, gateVars
<1>7. Evidence'  BY <1>5 DEF Inv, Evidence, gateVars
<1> QED  BY <1>6, <1>7 DEF Inv

(* Growth adds a quarter of an episode and stays below the ceiling.        *)
LEMMA CompleteKeeps ==
  ASSUME Inv, NEW tokens \in BOOLEAN, Complete(tokens)
  PROVE  /\ Inv'
         /\ maxInflight' > maxInflight =>
              load # "pressed" /\ fresh /\ cuts = 0 /\ 10 * inflight >= 9 * maxInflight
<1>1. inflight' \in 0 .. Ceiling  BY ConcurrencyAssumption DEF Complete, Inv, TypeOK
<1>2. UNCHANGED <<bootstrapped, gateVars, excess, missed, load, cuts>>  BY DEF Complete
<1>3. /\ cap' \in 0 .. 4 * Ceiling /\ maxInflight' \in Floor .. Ceiling
      /\ maxInflight' = Clamp(cap' \div 4) /\ limit' = maxInflight'
  <2>1. CASE Grows(tokens)
    <3> DEFINE grown == Max({cap + 1, 4 * Floor})
    <3>1. cap + 1 \in Int /\ 4 * Floor \in Int /\ 4 * Ceiling \in Int
      BY ConcurrencyAssumption DEF Inv, TypeOK
    <3>2. grown = IF cap + 1 <= 4 * Floor THEN 4 * Floor ELSE cap + 1  BY <3>1, MinOfTwo, Zenon
    <3>3. cap' = Min({grown, 4 * Ceiling}) /\ ApplyLimit(cap' \div 4)
      BY <2>1 DEF Complete
    <3> HIDE DEF grown
    <3>4. grown \in Int /\ grown >= 4 * Floor  BY <3>1, <3>2
    <3>5. cap' = IF grown <= 4 * Ceiling THEN grown ELSE 4 * Ceiling
      BY <3>1, <3>3, <3>4, MinOfTwo, Zenon
    <3>6. cap' \in 4 * Floor .. 4 * Ceiling  BY <3>1, <3>4, <3>5, ConcurrencyAssumption
    <3>7. cap' \div 4 \in Floor .. Ceiling
      <4>1. cap' \in Int /\ 4 * Floor <= cap' /\ cap' <= 4 * Ceiling
        BY <3>1, <3>6, ConcurrencyAssumption
      <4>2. Floor \in Int /\ Ceiling \in Int  BY ConcurrencyAssumption
      <4> QED  BY <4>1, <4>2, QuarterOf, Zenon
    <3>8. Clamp(cap' \div 4) = cap' \div 4
      BY <3>7, ClampTyped, ConcurrencyAssumption
    <3>9. maxInflight' = cap' \div 4 /\ limit' = cap' \div 4
      BY <3>3 DEF ApplyLimit, Inv, TypeOK
    <3>10. cap' \in 0 .. 4 * Ceiling  BY <3>6, ConcurrencyAssumption
    <3> QED  BY <3>7, <3>8, <3>9, <3>10
  <2>2. CASE ~Grows(tokens)
    BY <2>2 DEF Complete, Inv, TypeOK
  <2> QED  BY <2>1, <2>2
<1>4. TypeOK'  BY <1>1, <1>2, <1>3 DEF Inv, TypeOK, gateVars
<1>5. Evidence'  BY <1>2 DEF Inv, Evidence, gateVars
<1>6. maxInflight' > maxInflight =>
        load # "pressed" /\ fresh /\ cuts = 0 /\ 10 * inflight >= 9 * maxInflight
  <2> SUFFICES ASSUME maxInflight' > maxInflight
               PROVE  load # "pressed" /\ fresh /\ cuts = 0 /\ 10 * inflight >= 9 * maxInflight
    OBVIOUS
  <2>1. Grows(tokens)
    <3> SUFFICES ASSUME ~Grows(tokens) PROVE FALSE  OBVIOUS
    <3>1. maxInflight' = maxInflight  BY DEF Complete
    <3> QED  BY <3>1, ConcurrencyAssumption DEF Inv, TypeOK
  <2>2. load # "pressed" /\ ~draining /\ fresh /\ 10 * inflight >= 9 * maxInflight
    BY <2>1, Zenon DEF Grows, Inv, Evidence
  <2>3. cuts = 0  BY <2>2 DEF Inv, TypeOK, Evidence
  <2> QED  BY <2>2, <2>3
<1> QED  BY <1>4, <1>5, <1>6 DEF Inv

(* Missed polls, the expiry of the gate, and admissions below the cap.     *)
LEMMA RestKeeps ==
  ASSUME Inv, Miss \/ Expire \/ Admit \/ UNCHANGED vars
  PROVE  Inv' /\ maxInflight' = maxInflight
<1>1. UNCHANGED <<capVars, canGrow, waited, queuePolls, cooldown, draining, escalated, grace,
                  excess, load, cuts>>
  BY DEF Miss, Expire, Admit, vars, gateVars
<1>2. inflight' \in 0 .. Ceiling
  BY ConcurrencyAssumption DEF Miss, Expire, Admit, vars, Inv, TypeOK
<1>3. fresh' \in BOOLEAN /\ missed' \in BOOLEAN
  BY DEF Miss, Expire, Admit, vars, gateVars, Inv, TypeOK
<1>4. TypeOK'  BY <1>1, <1>2, <1>3 DEF Inv, TypeOK, capVars
<1>5. Evidence'  BY <1>1 DEF Inv, Evidence
<1> QED  BY <1>1, <1>4, <1>5 DEF Inv, capVars

(* A poll raises the cap only by the capacity it learns.                   *)
LEMMA PollRaises ==
  ASSUME Inv, NEW r \in Readings, Poll(r), maxInflight' > maxInflight
  PROVE  bootstrapped' /\ ~bootstrapped
<1>1. PICK s \in Starts(r) : Watch(r, s) \/ Cut(r, s) \/ Trim(r, s)  BY DEF Poll
<1>2. s \in Int /\ maxInflight \in Int /\ maxInflight' \in Int /\ maxInflight' <= s
  <2>1. s \in Int /\ maxInflight \in Int
    BY StartsTyped, ConcurrencyAssumption DEF Inv, TypeOK
  <2>2. CASE Watch(r, s)
    BY <2>1, <2>2 DEF Watch, ApplyLimit
  <2>3. CASE Cut(r, s)
    <3>1. (inflight * IF StillEscalated(r) THEN 5 ELSE IF QueueOverload(r) THEN 9 ELSE 8) \div 10
            \in Int
      BY ConcurrencyAssumption DEF Inv, TypeOK
    <3>2. PICK n \in Int : ResizeDown(Clamp(n), s, TRUE)  BY <2>3, <3>1 DEF Cut
    <3>3. maxInflight' \in Floor .. Ceiling /\ maxInflight' <= s  BY <3>2, ResizeTyped
    <3> QED  BY <2>1, <3>3, ConcurrencyAssumption
  <2>4. CASE Trim(r, s)
    <3>1. r.usage \in Usages  BY DEF Readings, Reading
    <3>2. \A u \in Usages : u \in Int  BY ConcurrencyAssumption
    <3>3. r.usage > 80  BY <2>4 DEF Trim, TrimDue
    <3>4. r.usage \in Int /\ r.usage > 0  BY <3>1, <3>2, <3>3
    <3>5. inflight * 70 \in Int  BY ConcurrencyAssumption DEF Inv, TypeOK
    <3>6. (inflight * 70) \div r.usage \in Int  BY <3>4, <3>5
    <3>7. PICK n \in Int : ResizeDown(Clamp(n), s, r.usage > 90)  BY <2>4, <3>6 DEF Trim
    <3>8. (r.usage > 90) \in BOOLEAN  OBVIOUS
    <3>9. maxInflight' \in Floor .. Ceiling /\ maxInflight' <= s  BY <3>7, <3>8, ResizeTyped
    <3> QED  BY <2>1, <3>9, ConcurrencyAssumption
  <2> QED  BY <1>1, <2>1, <2>2, <2>3, <2>4
<1>3. s # maxInflight  BY <1>2
<1>4. ~bootstrapped /\ r.capacity  BY <1>3, StartsTyped DEF Inv
<1>5. Judge(r)  BY <1>1 DEF Watch, Cut, Trim
<1>6. bootstrapped'  BY <1>4, <1>5 DEF Judge
<1> QED  BY <1>4, <1>6
-----------------------------------------------------------------------------
LEMMA InitInv ==
  ASSUME Init
  PROVE  Inv
<1>1. Initial \in Int /\ Clamp(Initial) \in Floor .. Ceiling
  BY ClampTyped, ConcurrencyAssumption
<1>2. cap \in 0 .. 4 * Ceiling  BY ConcurrencyAssumption DEF Init
<1>3. maxInflight = Clamp(cap \div 4)
  <2>1. CASE Initial > 0
    <3>1. cap = 4 * Initial /\ (4 * Initial) \div 4 = Initial
      BY <2>1, ConcurrencyAssumption DEF Init
    <3> QED  BY <3>1 DEF Init
  <2>2. CASE ~(Initial > 0)
    <3>1. Initial = 0  BY <2>2, ConcurrencyAssumption
    <3>2. cap = 4 * Floor /\ (4 * Floor) \div 4 = Floor
      BY <2>2, ConcurrencyAssumption DEF Init
    <3>3. Clamp(0) = Floor /\ Clamp(Floor) = Floor  BY ConcurrencyAssumption DEF Clamp
    <3> QED  BY <3>1, <3>2, <3>3 DEF Init
  <2> QED  BY <2>1, <2>2
<1>4. maxInflight \in Floor .. Ceiling /\ limit = maxInflight  BY <1>1 DEF Init
<1>5. {bootstrapped, canGrow, fresh, waited, draining, escalated, missed} \subseteq BOOLEAN
  <2>1. (Initial > 0) \in BOOLEAN  OBVIOUS
  <2> QED  BY <2>1, Zenon DEF Init
<1>6. TypeOK
  BY <1>2, <1>3, <1>4, <1>5, ConcurrencyAssumption DEF Init, TypeOK
<1>7. Evidence  BY DEF Init, Evidence
<1> QED  BY <1>6, <1>7 DEF Inv

(* One step per action.                                                    *)
LEMMA StepInv ==
  ASSUME Inv, [Next]_vars
  PROVE  Inv'
<1>1. ASSUME NEW r \in Readings, Poll(r) PROVE Inv'
  <2>1. PICK s \in Starts(r) : Watch(r, s) \/ Cut(r, s) \/ Trim(r, s)  BY <1>1 DEF Poll
  <2> QED  BY <2>1, WatchKeeps, CutKeeps, TrimKeeps
<1>2. ASSUME NEW tokens \in BOOLEAN, Complete(tokens) PROVE Inv'
  BY <1>2, CompleteKeeps
<1>3. CASE Shed  BY <1>3, ShedKeeps
<1>4. CASE Miss \/ Expire \/ Admit \/ UNCHANGED vars  BY <1>4, RestKeeps
<1> QED  BY <1>1, <1>2, <1>3, <1>4, Zenon DEF Next

LEMMA InvHolds == Spec => []Inv
<1>1. Init => Inv  BY InitInv
<1>2. Inv /\ [Next]_vars => Inv'  BY StepInv
<1> QED  BY <1>1, <1>2, PTL DEF Spec

(* The cap stays between min_inflight and max_inflight, is the whole part  *)
(* of what growth accumulates, and is what the dispatcher admits by; no    *)
(* counter of the controller leaves its range.                             *)
THEOREM CapTyped == Spec => []TypeOK
<1>1. Inv => TypeOK  BY DEF Inv
<1> QED  BY <1>1, InvHolds, PTL

(* Two cuts never answer one overload: between them a poll found the pool  *)
(* within the cap and the engines without overload.                        *)
THEOREM OverloadCutsOnce == Spec => []OneCutPerOverload
<1>1. Inv => OneCutPerOverload  BY DEF Inv, Evidence, OneCutPerOverload
<1> QED  BY <1>1, InvHolds, PTL

(* The cap never grows on stale, pressed or unsettled evidence.            *)
THEOREM GrowthHasEvidence == Spec => GrowsWhenClear
<1> DEFINE Grounds ==
      maxInflight' > maxInflight =>
        \/ bootstrapped' /\ ~bootstrapped
        \/ load # "pressed" /\ fresh /\ cuts = 0 /\ 10 * inflight >= 9 * maxInflight
<1>1. Inv /\ [Next]_vars => [Grounds]_vars
  <2> SUFFICES ASSUME Inv, [Next]_vars, maxInflight' > maxInflight
               PROVE  \/ bootstrapped' /\ ~bootstrapped
                      \/ load # "pressed" /\ fresh /\ cuts = 0 /\ 10 * inflight >= 9 * maxInflight
    OBVIOUS
  <2>1. ASSUME NEW r \in Readings, Poll(r) PROVE bootstrapped' /\ ~bootstrapped
    BY <2>1, PollRaises
  <2>2. ASSUME NEW tokens \in BOOLEAN, Complete(tokens)
        PROVE  load # "pressed" /\ fresh /\ cuts = 0 /\ 10 * inflight >= 9 * maxInflight
    BY <2>2, CompleteKeeps
  <2>3. CASE Shed
    <3>1. maxInflight' = maxInflight  BY <2>3 DEF Shed, capVars
    <3> QED  BY <3>1, ConcurrencyAssumption DEF Inv, TypeOK
  <2>4. CASE Miss \/ Expire \/ Admit \/ UNCHANGED vars
    <3>1. maxInflight' = maxInflight  BY <2>4, RestKeeps
    <3> QED  BY <3>1, ConcurrencyAssumption DEF Inv, TypeOK
  <2> QED  BY <2>1, <2>2, <2>3, <2>4, Zenon DEF Next
<1> QED  BY <1>1, InvHolds, PTL DEF Spec, GrowsWhenClear
=============================================================================
