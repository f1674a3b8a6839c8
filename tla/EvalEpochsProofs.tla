--------------------------- MODULE EvalEpochsProofs ---------------------------
(***************************************************************************)
(* What holds of online evals for every configuration: every attempt of an *)
(* epoch is in exactly one place until its environment is reported, it     *)
(* runs only on the weights of its epoch, and a run that ends has reported *)
(* every due version once.  The account of the attempts (AttemptsInv) is   *)
(* kept by the dispatch loop, the cancellation task and the sink; the      *)
(* lockstep of trainer and evals process (Lockstep) shows that no version  *)
(* is passed over.                                                         *)
(***************************************************************************)
EXTENDS EvalEpochs, FiniteSetTheorems, SequenceTheorems, WellFoundedInduction, TLAPS

-----------------------------------------------------------------------------
(* Every nonempty set of numbers has a least one.                          *)
LEMMA LeastNumber ==
  ASSUME NEW T \in SUBSET Nat, T # {}
  PROVE  \E n \in T : \A m \in T : n <= m
<1>1. PICK n \in T : \A m \in T : ~ (<<m, n>> \in OpToRel(<, Nat))
  BY NatLessThanWellFounded, WFMin, Zenon
<1>2. \A m \in T : ~ (m < n)
  BY <1>1 DEF OpToRel
<1> QED BY <1>2

(* So what holds of 0, and of n + 1 where it holds of n, holds of all.     *)
LEMMA Counting ==
  ASSUME NEW G, 0 \in G, \A n \in Nat : n \in G => n + 1 \in G
  PROVE  \A n \in Nat : n \in G
<1> DEFINE Bad == {n \in Nat : n \notin G}
<1> SUFFICES ASSUME Bad # {} PROVE FALSE
  OBVIOUS
<1>1. PICK n \in Bad : \A m \in Bad : n <= m
  <2> HIDE DEF Bad
  <2>1. Bad \in SUBSET Nat
    BY DEF Bad
  <2> QED BY <2>1, LeastNumber
<1>2. n # 0
  OBVIOUS
<1>3. n - 1 \in Nat /\ n - 1 \notin Bad
  BY <1>1, <1>2
<1> QED BY <1>3

(* The prefixes of a queue that are kept, n requests into it.              *)
Kept(f, q, S, n) ==
  f = [m \in 0 .. n |-> IF m = 0 THEN <<>>
                        ELSE IF q[m] \in S THEN Append(f[m - 1], q[m]) ELSE f[m - 1]]

LEMMA KeptExists ==
  ASSUME NEW q, NEW S
  PROVE  \A n \in Nat : \E f : Kept(f, q, S, n)
<1> DEFINE G == {n \in Nat : \E f : Kept(f, q, S, n)}
<1>1. 0 \in G
  <2>1. Kept([m \in 0 .. 0 |-> <<>>], q, S, 0)
    BY DEF Kept
  <2> QED BY <2>1
<1>2. ASSUME NEW n \in Nat, n \in G PROVE n + 1 \in G
  <2>1. PICK f : Kept(f, q, S, n)
    BY <1>2
  <2> DEFINE g == [m \in 0 .. (n + 1) |->
                     IF m = 0 THEN <<>>
                     ELSE IF q[m] \in S THEN Append(f[m - 1], q[m]) ELSE f[m - 1]]
  <2>2. \A m \in 0 .. n : g[m] = f[m]
    <3>1. \A m \in 0 .. n : f[m] = IF m = 0 THEN <<>>
                                  ELSE IF q[m] \in S THEN Append(f[m - 1], q[m]) ELSE f[m - 1]
      BY <2>1 DEF Kept
    <3>2. \A m \in 0 .. n : m \in 0 .. (n + 1)
      OBVIOUS
    <3> QED BY <3>1, <3>2
  <2>3. \A m \in 0 .. (n + 1) : m # 0 => m - 1 \in 0 .. n /\ g[m - 1] = f[m - 1]
    <3>1. \A m \in 0 .. (n + 1) : m # 0 => m - 1 \in 0 .. n
      OBVIOUS
    <3> HIDE DEF g
    <3> QED BY <2>2, <3>1
  <2>4. Kept(g, q, S, n + 1)
    BY <2>3 DEF Kept
  <2> QED BY <2>4
<1> HIDE DEF G
<1>3. \A n \in Nat : n \in G
  BY <1>1, <1>2, Counting
<1> QED BY <1>3 DEF G

(* Keep keeps the requests of S, each as often as it was there.            *)
LEMMA KeepFacts ==
  ASSUME NEW X, NEW q \in Seq(X), NEW S
  PROVE  /\ Keep(q, S) \in Seq(X)
         /\ \A x : (\E i \in DOMAIN Keep(q, S) : Keep(q, S)[i] = x)
                     <=> x \in S /\ \E i \in DOMAIN q : q[i] = x
         /\ (\A i, j \in DOMAIN q : q[i] = q[j] => i = j) =>
              \A i, j \in DOMAIN Keep(q, S) : Keep(q, S)[i] = Keep(q, S)[j] => i = j
<1> DEFINE kept == CHOOSE f : Kept(f, q, S, Len(q))
<1>1. Keep(q, S) = kept[Len(q)]
  BY DEF Keep, Kept
<1>2. Len(q) \in Nat /\ DOMAIN q = 1 .. Len(q) /\ \A i \in 1 .. Len(q) : q[i] \in X
  OBVIOUS
<1>3. Kept(kept, q, S, Len(q))
  <2>1. \E f : Kept(f, q, S, Len(q))
    BY <1>2, KeptExists
  <2> QED BY <2>1, Zenon
<1> HIDE DEF kept
<1>4. /\ kept[0] = <<>>
      /\ \A n \in 1 .. Len(q) :
           kept[n] = IF q[n] \in S THEN Append(kept[n - 1], q[n]) ELSE kept[n - 1]
  <2>1. \A n \in 0 .. Len(q) :
           kept[n] = IF n = 0 THEN <<>>
                     ELSE IF q[n] \in S THEN Append(kept[n - 1], q[n]) ELSE kept[n - 1]
    BY <1>3 DEF Kept
  <2> QED BY <1>2, <2>1
<1> DEFINE Good(n) ==
      /\ kept[n] \in Seq(X)
      /\ \A x : (\E i \in 1 .. Len(kept[n]) : kept[n][i] = x)
                  <=> x \in S /\ \E i \in 1 .. n : q[i] = x
      /\ (\A i, j \in 1 .. Len(q) : q[i] = q[j] => i = j) =>
           \A i, j \in 1 .. Len(kept[n]) : kept[n][i] = kept[n][j] => i = j
      G == {n \in Nat : n <= Len(q) => Good(n)}
<1>5. Good(0)
  BY <1>4
<1>6. ASSUME NEW n \in Nat, n + 1 <= Len(q), Good(n) PROVE Good(n + 1)
  <2>1. n + 1 \in 1 .. Len(q) /\ (n + 1) - 1 = n
    BY <1>2, <1>6
  <2>2. kept[n + 1] = IF q[n + 1] \in S THEN Append(kept[n], q[n + 1]) ELSE kept[n]
    BY <1>4, <2>1
  <2>3. \A x : (\E i \in 1 .. (n + 1) : q[i] = x) <=> (\E i \in 1 .. n : q[i] = x) \/ q[n + 1] = x
    BY <2>1
  <2>4. CASE q[n + 1] \notin S
    <3>1. kept[n + 1] = kept[n]
      BY <2>2, <2>4
    <3>2. \A x : (\E i \in 1 .. Len(kept[n]) : kept[n][i] = x)
                  <=> x \in S /\ \E i \in 1 .. (n + 1) : q[i] = x
      BY <1>6, <2>3, <2>4
    <3> QED BY <1>6, <3>1, <3>2
  <2>5. CASE q[n + 1] \in S
    <3> DEFINE k == kept[n]
               l == kept[n + 1]
    <3>1. k \in Seq(X) /\ q[n + 1] \in X
      BY <1>2, <1>6, <2>1
    <3>2. /\ l = Append(k, q[n + 1]) /\ l \in Seq(X) /\ Len(l) = Len(k) + 1
          /\ \A i \in 1 .. Len(k) : l[i] = k[i]
          /\ l[Len(k) + 1] = q[n + 1]
      <4>1. l = Append(k, q[n + 1])
        BY <2>2, <2>5
      <4> HIDE DEF k, l
      <4> QED BY <3>1, <4>1
    <3>3. Len(k) \in Nat
      BY <3>1
    <3>4. /\ \A x : (\E i \in 1 .. Len(k) : k[i] = x) <=> x \in S /\ \E i \in 1 .. n : q[i] = x
          /\ (\A i, j \in 1 .. Len(q) : q[i] = q[j] => i = j) =>
                \A i, j \in 1 .. Len(k) : k[i] = k[j] => i = j
      BY <1>6
    <3> HIDE DEF k, l
    <3>5. \A x : (\E i \in 1 .. Len(l) : l[i] = x) <=> (\E i \in 1 .. Len(k) : k[i] = x) \/ q[n + 1] = x
      BY <3>2, <3>3
    <3>6. \A x : (\E i \in 1 .. Len(l) : l[i] = x) <=> x \in S /\ \E i \in 1 .. (n + 1) : q[i] = x
      BY <2>3, <2>5, <3>4, <3>5
    <3>7. ASSUME \A i, j \in 1 .. Len(q) : q[i] = q[j] => i = j
          PROVE  \A i, j \in 1 .. Len(l) : l[i] = l[j] => i = j
      <4>1. \A i \in 1 .. Len(k) : k[i] # q[n + 1]
        <5>1. ~ \E i \in 1 .. n : q[i] = q[n + 1]
          BY <2>1, <3>7, <1>2
        <5> QED BY <3>4, <5>1
      <4> QED BY <3>2, <3>3, <3>4, <3>7, <4>1
    <3> QED BY <3>2, <3>6, <3>7 DEF l
  <2> QED BY <2>4, <2>5
<1>7. \A n \in Nat : n \in G
  <2>1. 0 \in G
    BY <1>5
  <2>2. ASSUME NEW n \in Nat, n \in G PROVE n + 1 \in G
    <3> HIDE DEF Good
    <3> QED BY <1>2, <1>6, <2>2
  <2> HIDE DEF G
  <2> QED BY <2>1, <2>2, Counting
<1>8. Good(Len(q))
  <2> HIDE DEF Good
  <2> QED BY <1>2, <1>7
<1>9. DOMAIN Keep(q, S) = 1 .. Len(Keep(q, S))
  BY <1>1, <1>8
<1> QED
  <2> HIDE DEF kept
  <2>1. Good(Len(q)) /\ Keep(q, S) = kept[Len(q)]
    BY <1>1, <1>8
  <2> DEFINE k == kept[Len(q)]
  <2>2. /\ k \in Seq(X)
        /\ \A x : (\E i \in 1 .. Len(k) : k[i] = x)
                    <=> x \in S /\ \E i \in 1 .. Len(q) : q[i] = x
        /\ (\A i, j \in 1 .. Len(q) : q[i] = q[j] => i = j) =>
             \A i, j \in 1 .. Len(k) : k[i] = k[j] => i = j
    BY <2>1
  <2>3. Keep(q, S) = k
    BY <2>1
  <2> HIDE DEF k
  <2> QED BY <1>2, <1>9, <2>2, <2>3

-----------------------------------------------------------------------------
LEMMA RequestParts ==
  /\ \A r \in Request : /\ EnvOf(r) \in Env /\ r[2] \in 1 .. Examples[EnvOf(r)]
                        /\ StepOf(r) \in Step /\ r = <<EnvOf(r), r[2], StepOf(r)>>
  /\ \A e \in Env, s \in Step : \A x \in 1 .. Examples[e] : <<e, x, s>> \in Request
  BY DEF Request, EnvOf, StepOf

(* There is an environment with the most examples.                         *)
LEMMA RoundsSuffice == Rounds \in Nat \ {0} /\ \A e \in Env : Examples[e] <= Rounds
<1> USE EvalEpochsAssumption DEF EvalEpochsAssumption
<1> DEFINE x(i) == Examples[Order[i]]
           G == {n \in Nat : n \in 1 .. Len(Order) => \E i \in 1 .. n : \A j \in 1 .. n : x(j) <= x(i)}
<1>1. Len(Order) \in Nat /\ \A i \in 1 .. Len(Order) : x(i) \in Nat \ {0}
  OBVIOUS
<1>2. \A n \in Nat : n \in G
  <2>1. 0 \in G
    OBVIOUS
  <2>2. ASSUME NEW n \in Nat, n \in G PROVE n + 1 \in G
    <3> SUFFICES ASSUME n + 1 \in 1 .. Len(Order)
                 PROVE  \E i \in 1 .. (n + 1) : \A j \in 1 .. (n + 1) : x(j) <= x(i)
      OBVIOUS
    <3>0. \A j \in 1 .. (n + 1) : x(j) \in Nat
      BY <1>1
    <3> HIDE DEF x
    <3>c. \A j \in 1 .. (n + 1) : j \in 1 .. n \/ j = n + 1
      OBVIOUS
    <3>1. CASE n = 0
      <4>1. \A j \in 1 .. (n + 1) : x(j) <= x(1)
        BY <3>0, <3>1
      <4> QED BY <3>1, <4>1
    <3>2. CASE n # 0
      <4>1. PICK i \in 1 .. n : \A j \in 1 .. n : x(j) <= x(i)
        BY <2>2, <3>2
      <4>2. CASE x(n + 1) <= x(i)
        <5>1. \A j \in 1 .. (n + 1) : x(j) <= x(i)
          BY <3>c, <4>1, <4>2, Zenon
        <5> QED BY <5>1
      <4>3. CASE ~ (x(n + 1) <= x(i))
        <5>1. \A j \in 1 .. (n + 1) : x(j) <= x(n + 1)
          <6>0. n + 1 \in 1 .. (n + 1) /\ i \in 1 .. (n + 1)
            OBVIOUS
          <6>1. x(n + 1) \in Nat /\ x(i) \in Nat
            BY <3>0, <6>0, Zenon
          <6>2. \A j \in 1 .. n : x(j) <= x(n + 1)
            BY <3>0, <4>1, <4>3, <6>1
          <6>3. x(n + 1) <= x(n + 1)
            BY <6>1
          <6> QED BY <3>c, <6>2, <6>3, Zenon
        <5> QED BY <5>1
      <4> QED BY <4>2, <4>3
    <3> QED BY <3>1, <3>2
  <2> HIDE DEF G
  <2> QED BY <2>1, <2>2, Counting
<1>3. Len(Order) \in 1 .. Len(Order)
  OBVIOUS
<1>4. PICK i \in 1 .. Len(Order) : \A j \in 1 .. Len(Order) : x(j) <= x(i)
  BY <1>1, <1>2, <1>3
<1> DEFINE S == {Examples[e] : e \in Env}
<1>5. \A t \in S : t \in Nat \ {0} /\ t <= x(i)
  <2> SUFFICES ASSUME NEW e \in Env PROVE Examples[e] \in Nat \ {0} /\ Examples[e] <= x(i)
    OBVIOUS
  <2>1. PICK j \in 1 .. Len(Order) : Order[j] = e
    OBVIOUS
  <2>2. x(j) = Examples[e]
    BY <2>1
  <2>3. x(j) \in Nat \ {0} /\ x(j) <= x(i)
    <3> HIDE DEF x
    <3> QED BY <1>1, <1>4, <2>1
  <2> QED BY <2>2, <2>3, Zenon
<1>6. x(i) \in S
  OBVIOUS
<1> HIDE DEF S, x
<1>7. NewestOf(S) \in S /\ \A t \in S : t <= NewestOf(S)
  BY <1>5, <1>6 DEF NewestOf
<1> QED BY <1>5, <1>7 DEF S, Rounds

(* A round robin over all environments visits every example of each once.  *)
Turn == UNION {{e} \X (Nat \ {0}) \X Step : e \in Env}
LEMMA RoundRobinFacts ==
  ASSUME NEW s \in Step
  PROVE  /\ RoundRobin(s) \in Seq(Turn)
         /\ \A i, j \in DOMAIN RoundRobin(s) : RoundRobin(s)[i] = RoundRobin(s)[j] => i = j
         /\ \A i \in DOMAIN RoundRobin(s) : RoundRobin(s)[i][3] = s
         /\ \A r \in Request : StepOf(r) = s =>
              \E i \in DOMAIN RoundRobin(s) : RoundRobin(s)[i] = r
<1> DEFINE n == Len(Order)
<1>1. n \in Nat \ {0} /\ DOMAIN Order = 1 .. n /\ \A i \in 1 .. n : Order[i] \in Env
  BY EvalEpochsAssumption DEF EvalEpochsAssumption
<1>2. Rounds \in Nat \ {0} /\ \A e \in Env : Examples[e] <= Rounds
  BY RoundsSuffice
<1> HIDE DEF n
<1> DEFINE M == n * Rounds
           q(i) == <<Order[((i - 1) % n) + 1], ((i - 1) \div n) + 1, s>>
<1>3. M \in Nat
  BY <1>1, <1>2
<1>4. RoundRobin(s) = [i \in 1 .. M |-> q(i)]
  BY DEF RoundRobin, n
<1>5. \A i \in 1 .. M : /\ ((i - 1) % n) + 1 \in 1 .. n /\ ((i - 1) \div n) + 1 \in Nat \ {0}
                        /\ i - 1 = n * ((i - 1) \div n) + ((i - 1) % n)
  BY <1>1, <1>3
<1> HIDE DEF M
<1>6. RoundRobin(s) \in Seq(Turn)
  <2>1. \A i \in 1 .. M : q(i) \in Turn
    BY <1>1, <1>5 DEF Turn
  <2> HIDE DEF q
  <2> QED BY <1>3, <1>4, <2>1
<1>7. DOMAIN RoundRobin(s) = 1 .. M /\ \A i \in 1 .. M : RoundRobin(s)[i] = q(i)
  BY <1>4
<1>8. ASSUME NEW i \in 1 .. M, NEW j \in 1 .. M, q(i) = q(j) PROVE i = j
  <2> DEFINE a == (i - 1) % n
             b == (j - 1) % n
             c == (i - 1) \div n
             d == (j - 1) \div n
  <2>1. /\ a + 1 \in 1 .. n /\ c + 1 \in Nat \ {0} /\ i - 1 = n * c + a
        /\ b + 1 \in 1 .. n /\ d + 1 \in Nat \ {0} /\ j - 1 = n * d + b
    BY <1>5
  <2>2. <<Order[a + 1], c + 1, s>> = <<Order[b + 1], d + 1, s>>
    BY <1>8
  <2>0. a \in Int /\ b \in Int /\ c \in Int /\ d \in Int
    BY <1>1
  <2> HIDE DEF a, b, c, d, q
  <2>3. Order[a + 1] = Order[b + 1] /\ c = d
    BY <2>0, <2>2
  <2>4. a = b
    <3>1. a + 1 = b + 1
      BY <1>1, <2>1, <2>3, EvalEpochsAssumption DEF EvalEpochsAssumption
    <3> QED BY <2>0, <3>1
  <2>5. i - 1 = j - 1
    BY <2>1, <2>3, <2>4
  <2> QED BY <1>3, <2>5
<1>9. ASSUME NEW r \in Request, StepOf(r) = s PROVE \E i \in 1 .. M : q(i) = r
  <2>1. /\ EnvOf(r) \in Env /\ r[2] \in 1 .. Examples[EnvOf(r)]
        /\ r = <<EnvOf(r), r[2], s>>
    BY <1>9, RequestParts
  <2>2. PICK o \in 1 .. n : Order[o] = EnvOf(r)
    BY <1>1, <2>1, EvalEpochsAssumption DEF EvalEpochsAssumption
  <2>3. Examples[EnvOf(r)] \in Nat /\ r[2] \in Nat \ {0} /\ r[2] <= Rounds
    <3> DEFINE e == EnvOf(r)
    <3>1. e \in Env /\ r[2] \in 1 .. Examples[e]
      BY <2>1
    <3> HIDE DEF e
    <3>2. Examples[e] \in Nat /\ Examples[e] <= Rounds
      BY <1>2, <3>1, EvalEpochsAssumption DEF EvalEpochsAssumption
    <3>3. r[2] \in Nat \ {0} /\ r[2] <= Rounds
      <4> DEFINE y == r[2]
      <4> HIDE DEF y
      <4> SUFFICES y \in Nat \ {0} /\ y <= Rounds
        BY DEF y
      <4>1. y \in 1 .. Examples[e]
        BY <3>1 DEF y
      <4> QED BY <1>2, <3>2, <4>1
    <3> QED BY <3>2, <3>3 DEF e
  <2> DEFINE a == r[2] - 1
             b == o - 1
             i == a * n + b + 1
  <2>4. a \in Nat /\ a + 1 <= Rounds /\ b \in 0 .. (n - 1)
    BY <1>1, <1>2, <2>2, <2>3
  <2> HIDE DEF a, b
  <2>5. (a * n + b) % n = b /\ (a * n + b) \div n = a
    BY <1>1, <2>4
  <2>6. a * n + n <= M /\ a * n \in Nat
    BY <1>1, <1>2, <2>4 DEF M
  <2>7. i \in 1 .. M /\ i - 1 = a * n + b
    BY <1>1, <1>3, <2>4, <2>6
  <2>8. q(i) = <<Order[b + 1], a + 1, s>>
    BY <2>5, <2>7
  <2>9. Order[b + 1] = EnvOf(r) /\ a + 1 = r[2]
    BY <1>1, <2>2, <2>3 DEF a, b
  <2> QED BY <2>1, <2>7, <2>8, <2>9
<1>10. \A i \in 1 .. M : q(i)[3] = s
  OBVIOUS
<1> HIDE DEF q
<1> QED BY <1>6, <1>7, <1>8, <1>9, <1>10

(* What an epoch queues: every example of what fired, once.                *)
LEMMA RequestsFacts ==
  ASSUME NEW fired \in SUBSET Env, NEW s \in Step
  PROVE  /\ Requests(fired, s) \in Seq(Request)
         /\ \A r : (\E i \in DOMAIN Requests(fired, s) : Requests(fired, s)[i] = r)
                     <=> r \in Request /\ EnvOf(r) \in fired /\ StepOf(r) = s
         /\ \A i, j \in DOMAIN Requests(fired, s) :
              Requests(fired, s)[i] = Requests(fired, s)[j] => i = j
<1> DEFINE q == RoundRobin(s)
           S == {r \in Request : EnvOf(r) \in fired}
           k == Requests(fired, s)
<1>1. /\ q \in Seq(Turn)
      /\ \A i, j \in DOMAIN q : q[i] = q[j] => i = j
      /\ \A i \in DOMAIN q : q[i][3] = s
      /\ \A r \in Request : StepOf(r) = s => \E i \in DOMAIN q : q[i] = r
  BY RoundRobinFacts
<1>2. k = Keep(q, S)
  BY DEF Requests
<1> HIDE DEF q, S, k
<1>3. /\ k \in Seq(Turn)
      /\ \A x : (\E i \in DOMAIN k : k[i] = x) <=> x \in S /\ \E i \in DOMAIN q : q[i] = x
      /\ \A i, j \in DOMAIN k : k[i] = k[j] => i = j
  BY <1>1, <1>2, KeepFacts
<1>4. \A r : (\E i \in DOMAIN k : k[i] = r) <=> r \in S /\ StepOf(r) = s
  BY <1>1, <1>3 DEF S, StepOf
<1>5. k \in Seq(Request)
  <2>1. Len(k) \in Nat /\ DOMAIN k = 1 .. Len(k) /\ k = [i \in 1 .. Len(k) |-> k[i]]
    BY <1>3
  <2>2. \A i \in 1 .. Len(k) : k[i] \in Request
    BY <1>4, <2>1 DEF S
  <2> QED BY <2>1, <2>2, IsASeq
<1> QED BY <1>3, <1>4, <1>5 DEF k, S

-----------------------------------------------------------------------------
LEMMA UpTo == ASSUME NEW n \in Nat PROVE IsFiniteSet(1 .. n) /\ Cardinality(1 .. n) = n
  BY FS_Interval

(* A group is whole when all of its members are there ...                  *)
LEMMA WholeIsAll ==
  ASSUME NEW r \in Request, NEW M \in SUBSET Members(r)
  PROVE  WholeGroup(r, M) <=> M = Members(r)
<1>1. GroupSize[EnvOf(r)] \in Nat \ {0}
  BY RequestParts, EvalEpochsAssumption DEF EvalEpochsAssumption
<1>2. IsFiniteSet(Members(r)) /\ Cardinality(Members(r)) = GroupSize[EnvOf(r)]
  BY <1>1, UpTo DEF Members
<1>3. IsFiniteSet(M) /\ Cardinality(M) <= Cardinality(Members(r))
      /\ (Cardinality(Members(r)) = Cardinality(M) => Members(r) = M)
  BY <1>2, FS_Subset
<1>4. Cardinality(M) \in Nat
  BY <1>3, FS_CardinalityType
<1> QED BY <1>1, <1>2, <1>3, <1>4 DEF WholeGroup

(* ... and the batch of an epoch when all of its groups are.               *)
LEMMA BatchIsAll ==
  ASSUME NEW f \in [Request -> SUBSET Nat], \A r \in Request : f[r] \subseteq Members(r),
         NEW e \in Env, NEW s \in Step
  PROVE  AttemptsIn(f, BatchOf(e, s)) >= BatchSize(e)
           <=> \A r \in BatchOf(e, s) : f[r] = Members(r)
<1> DEFINE B == BatchOf(e, s)
           K == 1 .. GroupSize[e]
           U == UNION {{r} \X f[r] : r \in B}
<1>1. GroupSize[e] \in Nat \ {0} /\ Examples[e] \in Nat \ {0}
  BY EvalEpochsAssumption DEF EvalEpochsAssumption
<1>2. \A r \in B : r \in Request /\ Members(r) = K
  BY DEF BatchOf, Members
<1>3. IsFiniteSet(B) /\ Cardinality(B) = Examples[e]
  <2> DEFINE b == [x \in 1 .. Examples[e] |-> <<e, x, s>>]
  <2>1. \A x \in 1 .. Examples[e] : <<e, x, s>> \in B
    BY RequestParts DEF BatchOf, EnvOf, StepOf
  <2>2. \A r \in B : r[2] \in 1 .. Examples[e] /\ r = <<e, r[2], s>>
    BY RequestParts DEF BatchOf
  <2>3. b \in Bijection(1 .. Examples[e], B)
    <3> HIDE DEF B
    <3>1. b \in [1 .. Examples[e] -> B]
      BY <2>1
    <3>2. \A x, y \in 1 .. Examples[e] : b[x] = b[y] => x = y
      OBVIOUS
    <3>3. \A r \in B : \E x \in 1 .. Examples[e] : b[x] = r
      BY <2>2
    <3> HIDE DEF b
    <3> QED BY <3>1, <3>2, <3>3 DEF Bijection, Injection, Surjection, IsInjective
  <2>4. ExistsBijection(1 .. Examples[e], B)
    BY <2>3 DEF ExistsBijection
  <2>5. IsFiniteSet(1 .. Examples[e]) /\ Cardinality(1 .. Examples[e]) = Examples[e]
    BY <1>1, UpTo
  <2> HIDE DEF B
  <2> QED BY <2>4, <2>5, FS_Bijection
<1>4. IsFiniteSet(K) /\ Cardinality(K) = GroupSize[e]
  BY <1>1, UpTo
<1> HIDE DEF B, K
<1>5. IsFiniteSet(B \X K) /\ Cardinality(B \X K) = BatchSize(e)
  BY <1>3, <1>4, FS_Product DEF BatchSize
<1>6. U \subseteq B \X K
  BY <1>2
<1>7. /\ IsFiniteSet(U) /\ Cardinality(U) <= Cardinality(B \X K)
      /\ Cardinality(B \X K) = Cardinality(U) => B \X K = U
  <2> HIDE DEF U
  <2> QED BY <1>5, <1>6, FS_Subset
<1>8. Cardinality(U) \in Nat /\ Cardinality(B \X K) \in Nat
  <2> HIDE DEF U
  <2> QED BY <1>5, <1>7, FS_CardinalityType
<1>9. (U = B \X K) <=> \A r \in B : f[r] = K
  <2>1. ASSUME U = B \X K, NEW r \in B PROVE f[r] = K
    <3>1. f[r] \subseteq K
      BY <1>2
    <3>2. ASSUME NEW k \in K PROVE k \in f[r]
      <4>1. <<r, k>> \in U
        BY <2>1
      <4> QED BY <4>1
    <3> QED BY <3>1, <3>2
  <2>2. ASSUME \A r \in B : f[r] = K PROVE B \X K \subseteq U
    BY <2>2
  <2> QED BY <1>6, <2>1, <2>2
<1>10. AttemptsIn(f, B) >= BatchSize(e) <=> U = B \X K
  <2>1. AttemptsIn(f, B) = Cardinality(U)
    BY DEF AttemptsIn
  <2> HIDE DEF U
  <2> QED BY <1>5, <1>7, <1>8, <2>1
<1>11. \A r \in B : Members(r) = K
  BY <1>2
<1> QED BY <1>9, <1>10, <1>11 DEF B

-----------------------------------------------------------------------------
Message == UNION {[request : {r}, members : (SUBSET Members(r)) \ {{}}] : r \in Request}

(* Types of what the account is about.                                     *)
Typed ==
  /\ config \in [cancel : BOOLEAN, skipFirst : BOOLEAN, retrigger : BOOLEAN,
                 resume : Resumes]
  /\ queue \in Seq(Request)
  /\ todo \in [Request -> Nat] /\ \A r \in Request : todo[r] <= GroupSize[EnvOf(r)]
  /\ running \in [Request -> SUBSET Nat] /\ \A r \in Request : running[r] \subseteq Members(r)
  /\ claimed \in [Request -> SUBSET Nat]
  /\ gathered \in [Request -> SUBSET Nat] /\ \A r \in Request : gathered[r] \subseteq Members(r)
  /\ batched \in [Request -> SUBSET Nat] /\ \A r \in Request : batched[r] \subseteq Members(r)
  /\ outq \in Seq(Message)
  /\ putting \in [{"loop", "canceller"} -> {<<>>} \cup {<<m>> : m \in Message}]
  /\ unopened \subseteq Request /\ victims \subseteq Request
  /\ pending \subseteq Env /\ epoch \in Step
  /\ scan \in [left : SUBSET Step, listed : SUBSET Step, published : SUBSET Step]
  /\ reported \in [Env \X Step -> Nat]

(* Where one attempt may be: what Places collects.                         *)
Carries(q, r, k) == \E i \in DOMAIN q : q[i].request = r /\ k \in q[i].members
Queued(r) == \E i \in DOMAIN queue : queue[i] = r
ToDo(r, k) == k > GroupSize[EnvOf(r)] - todo[r]
Runs(r, k) == k \in running[r]
Out(r, k) == Carries(outq, r, k)
Putting(p, r, k) == Carries(putting[p], r, k)
Unopened(r) == r \in unopened
Gathered(r, k) == k \in gathered[r]
Batched(r, k) == k \in batched[r]

Somewhere(r, k) ==
  \/ Queued(r) \/ ToDo(r, k) \/ Runs(r, k) \/ Out(r, k) \/ Putting("loop", r, k)
  \/ Putting("canceller", r, k) \/ Unopened(r) \/ Gathered(r, k) \/ Batched(r, k)

Once(r, k) ==
  /\ Queued(r) => ~ToDo(r, k)
  /\ Queued(r) \/ ToDo(r, k) => ~Runs(r, k)
  /\ Queued(r) \/ ToDo(r, k) \/ Runs(r, k) => ~Out(r, k)
  /\ Queued(r) \/ ToDo(r, k) \/ Runs(r, k) \/ Out(r, k) => ~Putting("loop", r, k)
  /\ Queued(r) \/ ToDo(r, k) \/ Runs(r, k) \/ Out(r, k) \/ Putting("loop", r, k)
       => ~Putting("canceller", r, k)
  /\ Queued(r) \/ ToDo(r, k) \/ Runs(r, k) \/ Out(r, k) \/ Putting("loop", r, k)
       \/ Putting("canceller", r, k) => ~Unopened(r)
  /\ Queued(r) \/ ToDo(r, k) \/ Runs(r, k) \/ Out(r, k) \/ Putting("loop", r, k)
       \/ Putting("canceller", r, k) \/ Unopened(r) => ~Gathered(r, k)
  /\ Queued(r) \/ ToDo(r, k) \/ Runs(r, k) \/ Out(r, k) \/ Putting("loop", r, k)
       \/ Putting("canceller", r, k) \/ Unopened(r) \/ Gathered(r, k) => ~Batched(r, k)

Active(r) == StepOf(r) = epoch /\ EnvOf(r) \in pending
Distinct(q) == \A i, j \in DOMAIN q : q[i] = q[j] => i = j
Apart(q) ==
  \A i, j \in DOMAIN q : i # j =>
    q[i].request # q[j].request \/ q[i].members \cap q[j].members = {}

(* Every attempt of an environment still to be reported is somewhere, and  *)
(* in one place.                                                           *)
Account ==
  /\ \A r \in Request : \A k \in Members(r) :
       Once(r, k) /\ (Somewhere(r, k) <=> Active(r))
  /\ Distinct(queue)
  /\ Apart(outq)

(* The sink holds whole groups of an epoch and parts of the others.        *)
WholeOnly ==
  \A r \in Request : /\ gathered[r] # Members(r)
                     /\ batched[r] = {} \/ batched[r] = Members(r)

(* The cancellation task belongs to the epoch being consumed.              *)
Cancelling ==
  /\ canceller \in {"none", "created", "pick", "reap", "done"}
  /\ canceller # "none" => watch \in {"consume", "join"}
  /\ canceller \in {"none", "created", "done"} =>
       unopened = {} /\ victims = {} /\ putting["canceller"] = <<>>
  /\ canceller = "pick" /\ putting["canceller"] # <<>> => victims = {}
  /\ \A r \in Request : claimed[r] # {} => canceller = "reap" /\ StepOf(r) = epoch
  /\ \A r \in victims : StepOf(r) = epoch

(* Nothing of an epoch starts before its weights are served.               *)
Serving ==
  /\ watch \in {"startup", "startup load", "scan", "walk", "receive", "load",
                "consume", "join", "done"}
  /\ watch \in {"startup", "startup load", "scan", "walk", "join", "done"} => pending = {}
  /\ watch \in {"receive", "load"} =>
       paused /\ \A r \in Request : todo[r] = 0 /\ running[r] = {}
  /\ watch \in {"consume", "join"} => served = epoch

AttemptsInv == Typed /\ Account /\ WholeOnly /\ Cancelling /\ Serving

(* What a message adds to a queue, and what leaves with its head.          *)
LEMMA MessageParts ==
  \A m : m \in Message <=>
    /\ m \in [request : Request, members : SUBSET Nat]
    /\ m.members \subseteq Members(m.request) /\ m.members # {}
<1>1. \A r \in Request : Members(r) \subseteq Nat
  BY DEF Members
<1>2. ASSUME NEW m \in Message
      PROVE  /\ m \in [request : Request, members : SUBSET Nat]
             /\ m.members \subseteq Members(m.request) /\ m.members # {}
  <2>1. PICK r \in Request : m \in [request : {r}, members : (SUBSET Members(r)) \ {{}}]
    BY DEF Message
  <2>2. m = [request |-> m.request, members |-> m.members]
        /\ m.request = r /\ m.members \subseteq Members(r) /\ m.members # {}
    BY <2>1
  <2> QED BY <1>1, <2>2
<1>3. ASSUME NEW m \in [request : Request, members : SUBSET Nat],
             m.members \subseteq Members(m.request), m.members # {}
      PROVE  m \in Message
  BY <1>3 DEF Message
<1> QED BY <1>2, <1>3

LEMMA Appended ==
  ASSUME NEW q \in Seq(Message), NEW m \in Message
  PROVE  /\ Append(q, m) \in Seq(Message)
         /\ \A r, k : Carries(Append(q, m), r, k)
                        <=> Carries(q, r, k) \/ (m.request = r /\ k \in m.members)
         /\ Apart(q) /\ (\A k \in m.members : ~Carries(q, m.request, k)) => Apart(Append(q, m))
<1> DEFINE a == Append(q, m)
<1>1. /\ a \in Seq(Message) /\ Len(q) \in Nat /\ DOMAIN q = 1 .. Len(q)
      /\ DOMAIN a = 1 .. (Len(q) + 1)
      /\ \A i \in 1 .. Len(q) : a[i] = q[i]
      /\ a[Len(q) + 1] = m
  OBVIOUS
<1> HIDE DEF a
<1>2. \A r, k : Carries(a, r, k) <=> Carries(q, r, k) \/ (m.request = r /\ k \in m.members)
  BY <1>1 DEF Carries
<1>3. ASSUME Apart(q), \A k \in m.members : ~Carries(q, m.request, k) PROVE Apart(a)
  <2>1. \A i \in 1 .. Len(q) : q[i].request # m.request \/ q[i].members \cap m.members = {}
    BY <1>1, <1>3 DEF Carries
  <2> QED BY <1>1, <1>3, <2>1 DEF Apart
<1> QED BY <1>1, <1>2, <1>3 DEF a

LEMMA Taken ==
  ASSUME NEW q \in Seq(Message), q # <<>>, Apart(q)
  PROVE  /\ Head(q) \in Message /\ Tail(q) \in Seq(Message) /\ Apart(Tail(q))
         /\ \A r, k : Carries(Tail(q), r, k)
                        <=> Carries(q, r, k) /\ ~(Head(q).request = r /\ k \in Head(q).members)
<1> DEFINE t == Tail(q)
<1>1. /\ t \in Seq(Message) /\ Len(q) \in Nat \ {0} /\ DOMAIN q = 1 .. Len(q)
      /\ DOMAIN t = 1 .. (Len(q) - 1)
      /\ \A i \in 1 .. (Len(q) - 1) : t[i] = q[i + 1]
      /\ Head(q) = q[1] /\ q[1] \in Message
  OBVIOUS
<1> HIDE DEF t
<1>2. Apart(t)
  <2>1. \A i \in DOMAIN t : i + 1 \in DOMAIN q /\ t[i] = q[i + 1]
    BY <1>1
  <2>2. ASSUME NEW i \in DOMAIN t, NEW j \in DOMAIN t, i # j
        PROVE  t[i].request # t[j].request \/ t[i].members \cap t[j].members = {}
    <3>1. i + 1 # j + 1
      BY <1>1, <2>2
    <3> QED BY <2>1, <3>1 DEF Apart
  <2> QED BY <2>2 DEF Apart
<1>3. \A r, k : Carries(t, r, k)
                  <=> \E i \in 2 .. Len(q) : q[i].request = r /\ k \in q[i].members
  <2>1. \A i \in 2 .. Len(q) : i - 1 \in 1 .. (Len(q) - 1) /\ (i - 1) + 1 = i
    BY <1>1
  <2>2. \A i \in 1 .. (Len(q) - 1) : i + 1 \in 2 .. Len(q)
    BY <1>1
  <2>3. /\ \A i \in DOMAIN t : t[i] = q[i + 1] /\ i + 1 \in 2 .. Len(q)
        /\ \A i \in 2 .. Len(q) : i - 1 \in DOMAIN t /\ t[i - 1] = q[i]
    BY <1>1, <2>1, <2>2
  <2> SUFFICES ASSUME NEW r, NEW k
               PROVE  Carries(t, r, k)
                        <=> \E i \in 2 .. Len(q) : q[i].request = r /\ k \in q[i].members
    OBVIOUS
  <2>4. ASSUME Carries(t, r, k)
        PROVE  \E i \in 2 .. Len(q) : q[i].request = r /\ k \in q[i].members
    <3>1. PICK i \in DOMAIN t : t[i].request = r /\ k \in t[i].members
      BY <2>4 DEF Carries
    <3> QED BY <2>3, <3>1
  <2>5. ASSUME NEW i \in 2 .. Len(q), q[i].request = r, k \in q[i].members
        PROVE  Carries(t, r, k)
    BY <2>3, <2>5 DEF Carries
  <2> QED BY <2>4, <2>5
<1>4. \A i \in 2 .. Len(q) : q[i].request # q[1].request \/ q[i].members \cap q[1].members = {}
  BY <1>1 DEF Apart
<1>5. \A r, k : Carries(q, r, k)
                  <=> \/ \E i \in 2 .. Len(q) : q[i].request = r /\ k \in q[i].members
                      \/ q[1].request = r /\ k \in q[1].members
  BY <1>1 DEF Carries
<1>6. \A r, k : Carries(t, r, k) <=> Carries(q, r, k) /\ ~(q[1].request = r /\ k \in q[1].members)
  BY <1>3, <1>4, <1>5
<1> QED BY <1>1, <1>2, <1>6 DEF t

(* A message waiting for room is carried by what holds it.                 *)
LEMMA Waits ==
  /\ \A r, k : ~Carries(<<>>, r, k)
  /\ \A m, r, k : Carries(<<m>>, r, k) <=> m.request = r /\ k \in m.members
<1>1. \A m : DOMAIN <<m>> = {1} /\ <<m>>[1] = m
  OBVIOUS
<1> QED BY <1>1 DEF Carries

(* The head of a queue of distinct requests leaves it.                     *)
LEMMA Dequeued ==
  ASSUME NEW q \in Seq(Request), q # <<>>, Distinct(q)
  PROVE  /\ Head(q) \in Request /\ Tail(q) \in Seq(Request) /\ Distinct(Tail(q))
         /\ \A r : (\E i \in DOMAIN Tail(q) : Tail(q)[i] = r)
                     <=> (\E i \in DOMAIN q : q[i] = r) /\ r # Head(q)
         /\ \E i \in DOMAIN q : q[i] = Head(q)
<1> DEFINE t == Tail(q)
<1>1. /\ t \in Seq(Request) /\ Len(q) \in Nat \ {0} /\ DOMAIN q = 1 .. Len(q)
      /\ DOMAIN t = 1 .. (Len(q) - 1)
      /\ \A i \in 1 .. (Len(q) - 1) : t[i] = q[i + 1]
      /\ Head(q) = q[1] /\ q[1] \in Request /\ 1 \in DOMAIN q
  OBVIOUS
<1> HIDE DEF t
<1>2. Distinct(t)
  BY <1>1 DEF Distinct
<1>3. \A i \in 2 .. Len(q) : i - 1 \in 1 .. (Len(q) - 1) /\ (i - 1) + 1 = i
  BY <1>1
<1>4. \A i \in 1 .. (Len(q) - 1) : i + 1 \in 2 .. Len(q)
  BY <1>1
<1>5. \A r : (\E i \in DOMAIN t : t[i] = r) <=> \E i \in 2 .. Len(q) : q[i] = r
  BY <1>1, <1>3, <1>4
<1>6. \A i \in 2 .. Len(q) : q[i] # q[1]
  BY <1>1 DEF Distinct
<1>7. \A r : (\E i \in DOMAIN q : q[i] = r) <=> (\E i \in 2 .. Len(q) : q[i] = r) \/ q[1] = r
  BY <1>1
<1>8. \A r : (\E i \in DOMAIN t : t[i] = r) <=> (\E i \in DOMAIN q : q[i] = r) /\ r # q[1]
  BY <1>5, <1>6, <1>7
<1>9. \E i \in DOMAIN q : q[i] = q[1]
  BY <1>1
<1>10. Head(q) = q[1] /\ Head(q) \in Request /\ t \in Seq(Request)
  BY <1>1
<1> HIDE <1>1
<1> QED BY <1>2, <1>8, <1>9, <1>10 DEF t

LEMMA Sizes ==
  \A r \in Request : /\ GroupSize[EnvOf(r)] \in Nat \ {0}
                     /\ \A k : k \in Members(r) <=> k \in Nat /\ 1 <= k /\ k <= GroupSize[EnvOf(r)]
<1> SUFFICES ASSUME NEW r \in Request
             PROVE  /\ GroupSize[EnvOf(r)] \in Nat \ {0}
                    /\ \A k : k \in Members(r) <=> k \in Nat /\ 1 <= k /\ k <= GroupSize[EnvOf(r)]
  OBVIOUS
<1>1. GroupSize[EnvOf(r)] \in Nat \ {0}
  BY RequestParts, EvalEpochsAssumption DEF EvalEpochsAssumption
<1> QED BY <1>1 DEF Members

Places9 == <<queue, todo, running, outq, putting, unopened, gathered, batched, epoch, pending>>

(* A step that moves no attempt keeps the account.                         *)
LEMMA Frame ==
  ASSUME Account, WholeOnly, UNCHANGED Places9
  PROVE  Account' /\ WholeOnly'
  BY DEF Account, WholeOnly, Once, Somewhere, Active, Queued, ToDo, Runs, Out, Putting, Unopened,
         Gathered, Batched, Places9

(* At first nothing is anywhere and nothing is to be reported.             *)
LEMMA AttemptsInit == Init => AttemptsInv
<1> SUFFICES ASSUME Init PROVE AttemptsInv
  OBVIOUS
<1>0. config.resume \in Step /\ config \in [cancel : BOOLEAN, skipFirst : BOOLEAN,
                                           retrigger : BOOLEAN, resume : Resumes]
  BY EvalEpochsAssumption DEF Init, EvalEpochsAssumption, Step
<1>1. Typed
  BY <1>0, Sizes DEF Init, Typed
<1>2. \A r, k : /\ ~Queued(r) /\ ~Out(r, k) /\ ~Putting("loop", r, k) /\ ~Putting("canceller", r, k)
                /\ ~Unopened(r) /\ ~Active(r)
  BY Waits DEF Init, Queued, Out, Putting, Unopened, Active
<1>3. \A r \in Request : \A k \in Members(r) :
        ~ToDo(r, k) /\ ~Runs(r, k) /\ ~Gathered(r, k) /\ ~Batched(r, k)
  BY Sizes DEF Init, ToDo, Runs, Gathered, Batched
<1>4. Distinct(queue) /\ Apart(outq)
  BY DEF Init, Distinct, Apart
<1>5. Account
  BY <1>2, <1>3, <1>4 DEF Account, Once, Somewhere
<1>6. WholeOnly
  <2>1. \A r \in Request : 1 \in Members(r)
    BY Sizes
  <2> QED BY <2>1 DEF Init, WholeOnly
<1>7. Cancelling /\ Serving
  BY DEF Init, Cancelling, Serving
<1> QED BY <1>1, <1>5, <1>6, <1>7 DEF AttemptsInv

(* Neither the trainer nor a look at the directory moves an attempt.       *)
LEMMA TrainerAccount == ASSUME AttemptsInv, Trainer PROVE AttemptsInv'
<1>1. UNCHANGED <<config, watch, lastStep, scan, epoch, pending, served, paused, mode, queue, todo,
                  running, outq, putting, canceller, victims, unopened, claimed, gathered,
                  batched, reported>>
  BY DEF Trainer, sourceVars, cancelVars, sinkVars
<1>2. Account' /\ WholeOnly'
  BY <1>1, Frame DEF AttemptsInv, Places9
<1>3. Typed' /\ Cancelling' /\ Serving'
  BY <1>1 DEF AttemptsInv, Typed, Cancelling, Serving
<1> QED BY <1>2, <1>3 DEF AttemptsInv

(* A message put is in out_q or held by who puts it.                       *)
LEMMA PutFacts ==
  ASSUME Typed, Apart(outq), NEW p \in {"loop", "canceller"}, putting[p] = <<>>,
         NEW m \in Message, \A k \in m.members : ~Out(m.request, k), Put(p, m)
  PROVE  /\ outq' \in Seq(Message) /\ Apart(outq)'
         /\ putting' \in [{"loop", "canceller"} -> {<<>>} \cup {<<x>> : x \in Message}]
         /\ \A z \in {"loop", "canceller"} \ {p} : putting'[z] = putting[z]
         /\ \A r, k : /\ Out(r, k)' <=> Out(r, k) \/ (m.request = r /\ k \in m.members /\ ~Full)
                      /\ Putting(p, r, k)' <=> m.request = r /\ k \in m.members /\ Full
<1>0. /\ outq \in Seq(Message)
      /\ putting \in [{"loop", "canceller"} -> {<<>>} \cup {<<x>> : x \in Message}]
  BY DEF Typed
<1>1. CASE Full
  <2>1. outq' = outq /\ putting' = [putting EXCEPT ![p] = <<m>>]
    BY <1>1 DEF Put
  <2>2. putting'[p] = <<m>>
    BY <1>0, <2>1
  <2>3. \A r, k : Out(r, k)' <=> Out(r, k)
    BY <2>1 DEF Out
  <2>4. \A r, k : Putting(p, r, k)' <=> m.request = r /\ k \in m.members
    BY <2>2, Waits DEF Putting
  <2> QED BY <1>0, <1>1, <2>1, <2>3, <2>4
<1>2. CASE ~Full
  <2>1. outq' = Append(outq, m) /\ putting' = putting
    BY <1>2 DEF Put
  <2>2. /\ outq' \in Seq(Message) /\ Apart(outq')
        /\ \A r, k : Carries(outq', r, k) <=> Carries(outq, r, k) \/ (m.request = r /\ k \in m.members)
    BY <1>0, <2>1, Appended DEF Out
  <2>3. \A r, k : ~Putting(p, r, k)'
    BY <2>1, Waits DEF Putting
  <2>4. Apart(outq)'
    BY <2>2 DEF Apart
  <2> QED BY <1>0, <1>2, <2>1, <2>2, <2>3, <2>4 DEF Out
<1> QED BY <1>1, <1>2

(* A put that waited ends when there is room.                              *)
LEMMA FinishPutFacts ==
  ASSUME Typed, Apart(outq), NEW p \in {"loop", "canceller"}, FinishPut(p),
         \A r, k : Putting(p, r, k) => ~Out(r, k)
  PROVE  /\ outq' \in Seq(Message) /\ Apart(outq)'
         /\ putting' \in [{"loop", "canceller"} -> {<<>>} \cup {<<x>> : x \in Message}]
         /\ \A z \in {"loop", "canceller"} \ {p} : putting'[z] = putting[z]
         /\ \A r, k : /\ Out(r, k)' <=> Out(r, k) \/ Putting(p, r, k)
                      /\ ~Putting(p, r, k)'
<1>0. /\ outq \in Seq(Message)
      /\ putting \in [{"loop", "canceller"} -> {<<>>} \cup {<<x>> : x \in Message}]
  BY DEF Typed
<1>1. PICK m \in Message : putting[p] = <<m>>
  BY <1>0 DEF FinishPut
<1>2. putting[p][1] = m
  BY <1>1
<1>3. \A r, k : Putting(p, r, k) <=> m.request = r /\ k \in m.members
  BY <1>1, Waits DEF Putting
<1>4. outq' = Append(outq, m) /\ putting' = [putting EXCEPT ![p] = <<>>]
  BY <1>2 DEF FinishPut
<1>5. /\ outq' \in Seq(Message) /\ Apart(outq')
      /\ \A r, k : Carries(outq', r, k) <=> Carries(outq, r, k) \/ (m.request = r /\ k \in m.members)
  BY <1>0, <1>3, <1>4, Appended DEF Out
<1>6. \A r, k : ~Putting(p, r, k)'
  <2>1. putting'[p] = <<>>
    BY <1>0, <1>4
  <2> QED BY <2>1, Waits DEF Putting
<1>7. Apart(outq)'
  BY <1>5 DEF Apart
<1> QED BY <1>0, <1>3, <1>4, <1>5, <1>6, <1>7 DEF Out

-----------------------------------------------------------------------------
(* The dispatch loop moves one attempt at a time.                          *)

(* An attempt dispatched runs instead of waiting to be scheduled.          *)
LEMMA DispatchFacts ==
  ASSUME Typed, NEW r \in Request, NEW left \in 1 .. GroupSize[EnvOf(r)], Dispatch(r, left)
  PROVE  /\ todo' \in [Request -> Nat] /\ \A x \in Request : todo'[x] <= GroupSize[EnvOf(x)]
         /\ running' \in [Request -> SUBSET Nat] /\ \A x \in Request : running'[x] \subseteq Members(x)
         /\ \A x \in Request \ {r} : \A k : (ToDo(x, k)' <=> ToDo(x, k)) /\ (Runs(x, k)' <=> Runs(x, k))
         /\ \A k \in Members(r) :
              /\ ToDo(r, k)' <=> k > GroupSize[EnvOf(r)] - left /\ k # GroupSize[EnvOf(r)] - left + 1
              /\ Runs(r, k)' <=> Runs(r, k) \/ k = GroupSize[EnvOf(r)] - left + 1
<1> DEFINE g == GroupSize[EnvOf(r)]
<1>1. g \in Nat \ {0} /\ left \in Nat /\ 1 <= left /\ left <= g
      /\ \A k : k \in Members(r) <=> k \in Nat /\ 1 <= k /\ k <= g
  BY Sizes
<1>2. /\ todo \in [Request -> Nat] /\ \A x \in Request : todo[x] <= GroupSize[EnvOf(x)]
      /\ running \in [Request -> SUBSET Nat] /\ \A x \in Request : running[x] \subseteq Members(x)
  BY DEF Typed
<1>3. /\ todo' = [todo EXCEPT ![r] = left - 1]
      /\ running' = [running EXCEPT ![r] = running[r] \cup {g - left + 1}]
  BY DEF Dispatch
<1>4. g - left + 1 \in Members(r) /\ g - left + 1 \in Nat /\ left - 1 \in Nat /\ left - 1 <= g
  BY <1>1
<1>5. todo' \in [Request -> Nat] /\ \A x \in Request : todo'[x] <= GroupSize[EnvOf(x)]
  BY <1>2, <1>3, <1>4
<1>6. running' \in [Request -> SUBSET Nat] /\ \A x \in Request : running'[x] \subseteq Members(x)
  BY <1>2, <1>3, <1>4
<1>7. todo'[r] = left - 1 /\ running'[r] = running[r] \cup {g - left + 1}
      /\ \A x \in Request \ {r} : todo'[x] = todo[x] /\ running'[x] = running[x]
  BY <1>2, <1>3
<1>8. \A x \in Request \ {r} : \A k : (ToDo(x, k)' <=> ToDo(x, k)) /\ (Runs(x, k)' <=> Runs(x, k))
  BY <1>7 DEF ToDo, Runs
<1>9. \A k \in Members(r) : (ToDo(r, k)' <=> k > g - left /\ k # g - left + 1)
                            /\ (Runs(r, k)' <=> Runs(r, k) \/ k = g - left + 1)
  BY <1>1, <1>7 DEF ToDo, Runs
<1> QED BY <1>5, <1>6, <1>8, <1>9

LEMMA FillAccount ==
  ASSUME AttemptsInv, Fill,
         UNCHANGED <<config, watch, scan, epoch, pending, served, paused, canceller, victims,
                     unopened, claimed, gathered, batched, reported>>
  PROVE  AttemptsInv'
<1>0. Typed /\ Account /\ WholeOnly /\ Cancelling /\ Serving
  BY DEF AttemptsInv
<1>u. UNCHANGED <<config, watch, scan, epoch, pending, served, paused, canceller, victims,
                  unopened, claimed, gathered, batched, reported, outq, putting>>
  BY DEF Fill
<1>1. ~paused /\ watch \notin {"receive", "load"}
  BY <1>0 DEF Fill, MayFill, Held, Serving
<1>2. WholeOnly' /\ Cancelling'
  BY <1>0, <1>u DEF WholeOnly, Cancelling
<1>3. Serving'
  BY <1>0, <1>u, <1>1 DEF Serving
<1>4. \A r, k : /\ Out(r, k)' <=> Out(r, k)
                /\ Putting("loop", r, k)' <=> Putting("loop", r, k)
                /\ Putting("canceller", r, k)' <=> Putting("canceller", r, k)
                /\ Unopened(r)' <=> Unopened(r)
                /\ Gathered(r, k)' <=> Gathered(r, k)
                /\ Batched(r, k)' <=> Batched(r, k)
                /\ Active(r)' <=> Active(r)
  BY <1>u DEF Out, Putting, Unopened, Gathered, Batched, Active
<1>5. Apart(outq)'
  BY <1>0, <1>u DEF Account, Apart
<1>6. CASE UNCHANGED <<queue, todo, running>>
  BY <1>0, <1>u, <1>2, <1>3, <1>6, Frame DEF AttemptsInv, Typed, Places9
<1>7. ASSUME NEW r \in Request, todo[r] > 0, Dispatch(r, todo[r]), UNCHANGED queue
      PROVE  AttemptsInv'
  <2>1. todo[r] \in 1 .. GroupSize[EnvOf(r)]
    BY <1>0, <1>7, Sizes DEF Typed
  <2>2. /\ todo' \in [Request -> Nat] /\ \A x \in Request : todo'[x] <= GroupSize[EnvOf(x)]
        /\ running' \in [Request -> SUBSET Nat] /\ \A x \in Request : running'[x] \subseteq Members(x)
        /\ \A x \in Request \ {r} : \A k : (ToDo(x, k)' <=> ToDo(x, k)) /\ (Runs(x, k)' <=> Runs(x, k))
        /\ \A k \in Members(r) :
             /\ ToDo(r, k)' <=> ToDo(r, k) /\ k # GroupSize[EnvOf(r)] - todo[r] + 1
             /\ Runs(r, k)' <=> Runs(r, k) \/ k = GroupSize[EnvOf(r)] - todo[r] + 1
    BY <1>0, <1>7, <2>1, DispatchFacts DEF ToDo
  <2>3. ToDo(r, GroupSize[EnvOf(r)] - todo[r] + 1)
    BY <2>1, Sizes DEF ToDo
  <2>4. \A x : Queued(x)' <=> Queued(x)
    BY <1>7 DEF Queued
  <2>5. Typed'
    BY <1>0, <1>u, <1>7, <2>2 DEF Typed
  <2>6. ASSUME NEW x \in Request, NEW k \in Members(x)
        PROVE  Once(x, k)' /\ (Somewhere(x, k)' <=> Active(x)')
    <3>1. Once(x, k) /\ (Somewhere(x, k) <=> Active(x))
      BY <1>0, <2>6 DEF Account
    <3>2. \/ (ToDo(x, k)' <=> ToDo(x, k)) /\ (Runs(x, k)' <=> Runs(x, k))
          \/ ToDo(x, k) /\ ~ToDo(x, k)' /\ Runs(x, k)'
      BY <2>2, <2>3, <2>6
    <3> QED BY <1>4, <2>4, <3>1, <3>2 DEF Once, Somewhere
  <2>7. Distinct(queue)'
    BY <1>0, <1>7 DEF Account, Distinct
  <2> QED BY <1>2, <1>3, <1>5, <2>5, <2>6, <2>7 DEF AttemptsInv, Account
<1>8. ASSUME \A r \in Request : todo[r] = 0, queue # <<>>,
             Dispatch(Head(queue), GroupSize[EnvOf(Head(queue))]), queue' = Tail(queue)
      PROVE  AttemptsInv'
  <2>1. /\ Head(queue) \in Request /\ Tail(queue) \in Seq(Request) /\ Distinct(Tail(queue))
        /\ \A x : (\E i \in DOMAIN Tail(queue) : Tail(queue)[i] = x)
                     <=> (\E i \in DOMAIN queue : queue[i] = x) /\ x # Head(queue)
        /\ \E i \in DOMAIN queue : queue[i] = Head(queue)
    BY <1>0, <1>8, Dequeued DEF Typed, Account
  <2>r. PICK r \in Request : r = Head(queue)
    BY <2>1
  <2>2. /\ queue' \in Seq(Request) /\ Distinct(queue)' /\ Queued(r)
        /\ \A x : Queued(x)' <=> Queued(x) /\ x # r
    BY <1>8, <2>1, <2>r DEF Queued, Distinct
  <2>l. PICK left \in 1 .. GroupSize[EnvOf(r)] : left = GroupSize[EnvOf(r)]
    BY Sizes
  <2>e. Dispatch(r, left)
    BY <1>8, <2>r, <2>l
  <2>4. /\ todo' \in [Request -> Nat] /\ \A x \in Request : todo'[x] <= GroupSize[EnvOf(x)]
        /\ running' \in [Request -> SUBSET Nat] /\ \A x \in Request : running'[x] \subseteq Members(x)
        /\ \A x \in Request \ {r} : \A k : (ToDo(x, k)' <=> ToDo(x, k)) /\ (Runs(x, k)' <=> Runs(x, k))
        /\ \A k \in Members(r) :
             /\ ToDo(r, k)' <=> k > GroupSize[EnvOf(r)] - left /\ k # GroupSize[EnvOf(r)] - left + 1
             /\ Runs(r, k)' <=> Runs(r, k) \/ k = GroupSize[EnvOf(r)] - left + 1
    BY <1>0, <2>1, <2>e, DispatchFacts
  <2>5. \A k \in Members(r) : /\ ToDo(r, k)' <=> k # 1
                              /\ Runs(r, k)' <=> Runs(r, k) \/ k = 1
    <3> DEFINE h == GroupSize[EnvOf(r)]
    <3>1. h \in Nat /\ left = h /\ \A k \in Members(r) : k \in Nat /\ 1 <= k
      BY <2>1, <2>l, Sizes
    <3>2. \A k \in Members(r) : /\ ToDo(r, k)' <=> k > h - left /\ k # h - left + 1
                                /\ Runs(r, k)' <=> Runs(r, k) \/ k = h - left + 1
      BY <2>4
    <3> HIDE DEF h
    <3>3. h - left = 0
      BY <3>1
    <3>4. \A k \in Members(r) : k > h - left /\ h - left + 1 = 1
      BY <3>1, <3>3
    <3> QED BY <3>2, <3>4
  <2>6. Typed'
    BY <1>0, <1>u, <2>2, <2>4 DEF Typed
  <2>7. ASSUME NEW x \in Request, NEW k \in Members(x)
        PROVE  Once(x, k)' /\ (Somewhere(x, k)' <=> Active(x)')
    <3>1. Once(x, k) /\ (Somewhere(x, k) <=> Active(x))
      BY <1>0, <2>7 DEF Account
    <3>2. \/ /\ ToDo(x, k)' <=> ToDo(x, k)
             /\ Runs(x, k)' <=> Runs(x, k)
             /\ Queued(x)' <=> Queued(x)
          \/ Queued(x) /\ ~Queued(x)' /\ ToDo(x, k)' /\ (Runs(x, k)' <=> Runs(x, k))
          \/ Queued(x) /\ ~Queued(x)' /\ ~ToDo(x, k)' /\ Runs(x, k)'
      <4>1. CASE x # r
        BY <2>2, <2>4, <4>1
      <4>2. CASE x = r
        <5>1. Queued(x) /\ ~Queued(x)'
          BY <2>2, <4>2
        <5>2. (ToDo(x, k)' <=> k # 1) /\ (Runs(x, k)' <=> Runs(x, k) \/ k = 1)
          BY <2>5, <4>2
        <5> QED BY <5>1, <5>2, Zenon
      <4> QED BY <4>1, <4>2
    <3> QED BY <1>4, <3>1, <3>2 DEF Once, Somewhere
  <2> QED BY <1>2, <1>3, <1>5, <2>2, <2>6, <2>7 DEF AttemptsInv, Account
<1> QED BY <1>6, <1>7, <1>8 DEF Fill, sourceVars

LEMMA CompleteAccount ==
  ASSUME AttemptsInv, Complete,
         UNCHANGED <<config, watch, scan, epoch, pending, served, paused, canceller, victims,
                     unopened, claimed, gathered, batched, reported>>
  PROVE  AttemptsInv'
<1>0. Typed /\ Account /\ WholeOnly /\ Cancelling /\ Serving
  BY DEF AttemptsInv
<1>1. PICK a \in InFlight :
        /\ running' = [running EXCEPT ![a[1]] = @ \ {a[2]}]
        /\ Put("loop", [request |-> a[1], members |-> {a[2]}])
  BY DEF Complete
<1> DEFINE r == a[1]
           k == a[2]
           m == [request |-> r, members |-> {k}]
<1>2. r \in Request /\ k \in running[r]
  BY <1>1 DEF InFlight
<1>p. running' = [running EXCEPT ![r] = running[r] \ {k}] /\ Put("loop", m)
  BY <1>1
<1> HIDE DEF r, k
<1>3. k \in Members(r) /\ k \in Nat /\ Runs(r, k)
  BY <1>0, <1>2, Sizes DEF Typed, Runs
<1>4. m \in Message /\ m.request = r /\ m.members = {k}
  BY <1>2, <1>3, MessageParts
<1> HIDE DEF m
<1>5. ~Out(r, k)
  BY <1>0, <1>2, <1>3 DEF Account, Once
<1>6. putting["loop"] = <<>> /\ UNCHANGED <<queue, todo, mode>>
  BY DEF Complete, LoopFree
<1>7. /\ outq' \in Seq(Message) /\ Apart(outq)'
      /\ putting' \in [{"loop", "canceller"} -> {<<>>} \cup {<<x>> : x \in Message}]
      /\ putting'["canceller"] = putting["canceller"]
      /\ \A y, j : /\ Out(y, j)' <=> Out(y, j) \/ (y = r /\ j = k /\ ~Full)
                   /\ Putting("loop", y, j)' <=> y = r /\ j = k /\ Full
  <2>1. Apart(outq) /\ \A j \in m.members : ~Out(m.request, j)
    BY <1>0, <1>4, <1>5 DEF Account
  <2>2. /\ outq' \in Seq(Message) /\ Apart(outq)'
        /\ putting' \in [{"loop", "canceller"} -> {<<>>} \cup {<<x>> : x \in Message}]
        /\ \A z \in {"loop", "canceller"} \ {"loop"} : putting'[z] = putting[z]
        /\ \A y, j : /\ Out(y, j)' <=> Out(y, j) \/ (m.request = y /\ j \in m.members /\ ~Full)
                     /\ Putting("loop", y, j)' <=> m.request = y /\ j \in m.members /\ Full
    BY <1>0, <1>4, <1>6, <1>p, <2>1, PutFacts
  <2> QED BY <1>4, <2>2
<1>8. /\ running' \in [Request -> SUBSET Nat] /\ \A x \in Request : running'[x] \subseteq Members(x)
      /\ \A y \in Request : \A j : Runs(y, j)' <=> Runs(y, j) /\ ~(y = r /\ j = k)
      /\ \A y \in Request : running[y] = {} => running'[y] = {}
  BY <1>0, <1>2, <1>p DEF Typed, Runs
<1>9. \A y, j : /\ Queued(y)' <=> Queued(y)
                /\ ToDo(y, j)' <=> ToDo(y, j)
                /\ Putting("canceller", y, j)' <=> Putting("canceller", y, j)
                /\ Unopened(y)' <=> Unopened(y)
                /\ Gathered(y, j)' <=> Gathered(y, j)
                /\ Batched(y, j)' <=> Batched(y, j)
                /\ Active(y)' <=> Active(y)
  BY <1>6, <1>7 DEF Queued, ToDo, Putting, Unopened, Gathered, Batched, Active
<1>10. \A y, j : ~Putting("loop", y, j)
  BY <1>6, Waits DEF Putting
<1>11. Typed'
  BY <1>0, <1>6, <1>7, <1>8 DEF Typed
<1>12. ASSUME NEW y \in Request, NEW j \in Members(y)
       PROVE  Once(y, j)' /\ (Somewhere(y, j)' <=> Active(y)')
  <2>1. Once(y, j) /\ (Somewhere(y, j) <=> Active(y))
    BY <1>0, <1>12 DEF Account
  <2>2. \/ /\ Runs(y, j)' <=> Runs(y, j)
           /\ Out(y, j)' <=> Out(y, j)
           /\ ~Putting("loop", y, j)'
        \/ Runs(y, j) /\ ~Runs(y, j)' /\ Out(y, j)' /\ ~Putting("loop", y, j)'
        \/ Runs(y, j) /\ ~Runs(y, j)' /\ (Out(y, j)' <=> Out(y, j)) /\ Putting("loop", y, j)'
    BY <1>3, <1>7, <1>8, <1>12
  <2> QED BY <1>9, <1>10, <2>1, <2>2 DEF Once, Somewhere
<1>13. Account'
  <2>1. Distinct(queue)'
    BY <1>0, <1>6 DEF Account, Distinct
  <2> QED BY <1>7, <1>12, <2>1 DEF Account
<1>14. WholeOnly' /\ Cancelling' /\ Serving'
  BY <1>0, <1>6, <1>7, <1>8 DEF WholeOnly, Cancelling, Serving
<1> QED BY <1>11, <1>13, <1>14 DEF AttemptsInv

LEMMA FinishAccount ==
  ASSUME AttemptsInv, NEW p \in {"loop", "canceller"}, FinishPut(p),
         UNCHANGED <<config, watch, scan, epoch, pending, served, paused, mode, queue, todo, running,
                     canceller, victims, unopened, claimed, gathered, batched, reported>>
  PROVE  AttemptsInv'
<1>0. Typed /\ Account /\ WholeOnly /\ Cancelling /\ Serving
  BY DEF AttemptsInv
<1>m. \A r, k : Putting(p, r, k) => r \in Request /\ k \in Members(r)
  <2>1. putting[p] = <<>> \/ \E m \in Message : putting[p] = <<m>>
    BY <1>0 DEF Typed
  <2>2. CASE putting[p] = <<>>
    BY <2>2, Waits DEF Putting
  <2>3. ASSUME NEW m \in Message, putting[p] = <<m>>
        PROVE  \A r, k : Putting(p, r, k) => r \in Request /\ k \in Members(r)
    <3>1. m.request \in Request /\ m.members \subseteq Members(m.request)
      BY MessageParts
    <3>2. \A r, k : Putting(p, r, k) => m.request = r /\ k \in m.members
      BY <2>3, Waits DEF Putting
    <3> QED BY <3>1, <3>2
  <2> QED BY <2>1, <2>2, <2>3
<1>1. \A r, k : Putting(p, r, k) => ~Out(r, k)
  BY <1>0, <1>m DEF Account, Once
<1>2. /\ outq' \in Seq(Message) /\ Apart(outq)'
      /\ putting' \in [{"loop", "canceller"} -> {<<>>} \cup {<<x>> : x \in Message}]
      /\ \A z \in {"loop", "canceller"} \ {p} : putting'[z] = putting[z]
      /\ \A r, k : /\ Out(r, k)' <=> Out(r, k) \/ Putting(p, r, k)
                   /\ ~Putting(p, r, k)'
  BY <1>0, <1>1, FinishPutFacts DEF Account
<1>3. \A y, j : /\ Queued(y)' <=> Queued(y)
                /\ ToDo(y, j)' <=> ToDo(y, j)
                /\ Runs(y, j)' <=> Runs(y, j)
                /\ \A z \in {"loop", "canceller"} \ {p} : Putting(z, y, j)' <=> Putting(z, y, j)
                /\ Unopened(y)' <=> Unopened(y)
                /\ Gathered(y, j)' <=> Gathered(y, j)
                /\ Batched(y, j)' <=> Batched(y, j)
                /\ Active(y)' <=> Active(y)
  BY <1>2 DEF Queued, ToDo, Runs, Putting, Unopened, Gathered, Batched, Active
<1>4. Typed'
  BY <1>0, <1>2 DEF Typed
<1>5. ASSUME NEW y \in Request, NEW j \in Members(y)
      PROVE  Once(y, j)' /\ (Somewhere(y, j)' <=> Active(y)')
  <2>1. Once(y, j) /\ (Somewhere(y, j) <=> Active(y))
    BY <1>0, <1>5 DEF Account
  <2>2. CASE p = "loop"
    <3>1. Putting("canceller", y, j)' <=> Putting("canceller", y, j)
      BY <1>3, <2>2
    <3> QED BY <1>2, <1>3, <2>1, <2>2, <3>1 DEF Once, Somewhere
  <2>3. CASE p = "canceller"
    <3>1. Putting("loop", y, j)' <=> Putting("loop", y, j)
      BY <1>3, <2>3
    <3> QED BY <1>2, <1>3, <2>1, <2>3, <3>1 DEF Once, Somewhere
  <2> QED BY <2>2, <2>3
<1>6. Account'
  <2>1. Distinct(queue)'
    BY <1>0 DEF Account, Distinct
  <2> QED BY <1>2, <1>5, <2>1 DEF Account
<1>7. putting'["canceller"] # <<>> => putting'["canceller"] = putting["canceller"]
  <2>1. CASE p = "loop"
    BY <1>2, <2>1
  <2>2. CASE p = "canceller"
    <3>1. putting'[p] = <<>>
      BY <1>0 DEF FinishPut, Typed
    <3> QED BY <2>2, <3>1
  <2> QED BY <2>1, <2>2
<1>8. WholeOnly' /\ Serving'
  BY <1>0 DEF WholeOnly, Serving
<1>9. Cancelling'
  BY <1>0, <1>7 DEF Cancelling
<1> QED BY <1>4, <1>6, <1>8, <1>9 DEF AttemptsInv

LEMMA LoopAccount == ASSUME AttemptsInv, Loop PROVE AttemptsInv'
<1>1. UNCHANGED <<config, watch, scan, epoch, pending, served, paused, canceller, victims,
                  unopened, claimed, gathered, batched, reported>>
  BY DEF Loop, cancelVars, sinkVars
<1>2. CASE Fill
  BY <1>1, <1>2, FillAccount
<1>3. CASE Complete
  BY <1>1, <1>3, CompleteAccount
<1>4. CASE FinishPut("loop") /\ UNCHANGED <<sourceVars, mode>>
  BY <1>1, <1>4, FinishAccount DEF sourceVars
<1> QED BY <1>2, <1>3, <1>4 DEF Loop

-----------------------------------------------------------------------------
(* The cancellation task moves an example, then its group, then its        *)
(* message.                                                                *)

LEMMA SupersedeAccount ==
  ASSUME AttemptsInv, Supersede,
         UNCHANGED <<config, watch, scan, epoch, pending, served, gathered, batched, reported>>
  PROVE  AttemptsInv'
<1>0. Typed /\ Account /\ WholeOnly /\ Cancelling /\ Serving
  BY DEF AttemptsInv
<1>1. /\ canceller = "created" /\ paused' = TRUE /\ canceller' = "pick"
      /\ UNCHANGED <<todo, running, claimed, outq, putting>>
  BY DEF Supersede
<1>2. unopened = {} /\ putting["canceller"] = <<>> /\ watch \in {"consume", "join"}
      /\ \A r \in Request : claimed[r] = {}
  BY <1>0, <1>1 DEF Cancelling
<1> DEFINE S == {r \in Request : StepOf(r) # epoch}
<1>3. queue' = Keep(queue, S)
  BY DEF Supersede
<1>4. \A r : (\E i \in DOMAIN queue : queue[i] = r) => r \in Request
  BY <1>0 DEF Typed
<1>5. /\ Keep(queue, S) \in Seq(Request)
      /\ \A x : (\E i \in DOMAIN Keep(queue, S) : Keep(queue, S)[i] = x)
                   <=> x \in S /\ \E i \in DOMAIN queue : queue[i] = x
      /\ Distinct(queue) => Distinct(Keep(queue, S))
  <2> HIDE DEF S
  <2>1. queue \in Seq(Request)
    BY <1>0 DEF Typed
  <2>2. /\ Keep(queue, S) \in Seq(Request)
        /\ \A x : (\E i \in DOMAIN Keep(queue, S) : Keep(queue, S)[i] = x)
                     <=> x \in S /\ \E i \in DOMAIN queue : queue[i] = x
        /\ (\A i, j \in DOMAIN queue : queue[i] = queue[j] => i = j) =>
             \A i, j \in DOMAIN Keep(queue, S) : Keep(queue, S)[i] = Keep(queue, S)[j] => i = j
    BY <2>1, KeepFacts
  <2> QED BY <2>2 DEF Distinct
<1>6. /\ queue' \in Seq(Request) /\ Distinct(queue)'
      /\ \A r : Queued(r)' <=> Queued(r) /\ StepOf(r) # epoch
  <2>1. \A r : r \in S <=> r \in Request /\ StepOf(r) # epoch
    OBVIOUS
  <2>2. /\ queue' \in Seq(Request) /\ Distinct(queue')
        /\ \A r : (\E i \in DOMAIN queue' : queue'[i] = r)
                     <=> r \in S /\ \E i \in DOMAIN queue : queue[i] = r
    <3> HIDE DEF S
    <3> QED BY <1>0, <1>3, <1>5 DEF Account
  <2> HIDE DEF S
  <2> QED BY <1>4, <2>1, <2>2 DEF Queued, Distinct
<1>7. unopened' \subseteq Request /\ \A r : Unopened(r)' <=> Queued(r) /\ StepOf(r) = epoch
  <2>1. unopened' = {r \in InQueue(queue) : StepOf(r) = epoch}
    BY DEF Supersede, QueuedOf
  <2> QED BY <1>4, <2>1 DEF InQueue, Unopened, Queued
<1>8. victims' \subseteq Request /\ \A r \in victims' : StepOf(r) = epoch
  BY DEF Supersede, GroupsOf
<1>9. \A r, k : /\ ToDo(r, k)' <=> ToDo(r, k)
                /\ Runs(r, k)' <=> Runs(r, k)
                /\ Out(r, k)' <=> Out(r, k)
                /\ Putting("loop", r, k)' <=> Putting("loop", r, k)
                /\ Putting("canceller", r, k)' <=> Putting("canceller", r, k)
                /\ Gathered(r, k)' <=> Gathered(r, k)
                /\ Batched(r, k)' <=> Batched(r, k)
                /\ Active(r)' <=> Active(r)
                /\ ~Unopened(r)
  BY <1>1, <1>2 DEF ToDo, Runs, Out, Putting, Gathered, Batched, Active, Unopened
<1>10. Typed'
  BY <1>0, <1>1, <1>6, <1>7, <1>8 DEF Typed
<1>11. ASSUME NEW r \in Request, NEW k \in Members(r)
       PROVE  Once(r, k)' /\ (Somewhere(r, k)' <=> Active(r)')
  <2>1. Once(r, k) /\ (Somewhere(r, k) <=> Active(r))
    BY <1>0, <1>11 DEF Account
  <2>2. \/ (Queued(r)' <=> Queued(r)) /\ ~Unopened(r)'
        \/ Queued(r) /\ ~Queued(r)' /\ Unopened(r)'
    BY <1>6, <1>7
  <2> QED BY <1>9, <2>1, <2>2 DEF Once, Somewhere
<1>12. Apart(outq)'
  BY <1>0, <1>1 DEF Account, Apart
<1>13. WholeOnly' /\ Cancelling' /\ Serving'
  BY <1>0, <1>1, <1>2, <1>8 DEF WholeOnly, Cancelling, Serving
<1> QED BY <1>6, <1>10, <1>11, <1>12, <1>13 DEF AttemptsInv, Account

LEMMA DropGroupAccount ==
  ASSUME AttemptsInv, DropGroup,
         UNCHANGED <<config, watch, scan, epoch, pending, served, gathered, batched, reported>>
  PROVE  AttemptsInv'
<1>0. Typed /\ Account /\ WholeOnly /\ Cancelling /\ Serving
  BY DEF AttemptsInv
<1>1. canceller = "pick" /\ UNCHANGED <<paused, queue, unopened>>
  BY DEF DropGroup
<1>2. PICK r \in victims :
        /\ victims' = victims \ {r}
        /\ running' = [running EXCEPT ![r] = {}]
        /\ todo' = [todo EXCEPT ![r] = 0]
        /\ claimed' = [claimed EXCEPT ![r] = running[r]]
        /\ IF Owed(r) = {}
           THEN UNCHANGED <<outq, putting, canceller>>
           ELSE Put("canceller", [request |-> r, members |-> Owed(r)]) /\ canceller' = "reap"
  BY DEF DropGroup
<1>3. r \in Request /\ StepOf(r) = epoch /\ putting["canceller"] = <<>>
      /\ \A x \in Request : claimed[x] = {}
  BY <1>0, <1>1 DEF Typed, Cancelling
<1>4. /\ Owed(r) \subseteq Members(r)
      /\ \A k \in Members(r) : k \in Owed(r) <=> Runs(r, k) \/ ToDo(r, k)
  <2>1. GroupSize[EnvOf(r)] \in Nat /\ todo[r] \in Nat /\ todo[r] <= GroupSize[EnvOf(r)]
        /\ running[r] \subseteq Members(r)
        /\ \A k : k \in Members(r) <=> k \in Nat /\ 1 <= k /\ k <= GroupSize[EnvOf(r)]
    BY <1>0, <1>3, Sizes DEF Typed
  <2>2. Unscheduled(r) \subseteq Members(r)
        /\ \A k \in Members(r) : k \in Unscheduled(r) <=> ToDo(r, k)
    BY <2>1 DEF Unscheduled, ToDo
  <2> QED BY <2>1, <2>2 DEF Owed, Runs
<1>5. /\ running' \in [Request -> SUBSET Nat] /\ \A x \in Request : running'[x] \subseteq Members(x)
      /\ todo' \in [Request -> Nat] /\ \A x \in Request : todo'[x] <= GroupSize[EnvOf(x)]
      /\ claimed' \in [Request -> SUBSET Nat]
      /\ \A x \in Request : running[x] = {} => running'[x] = {}
      /\ \A x \in Request : todo[x] = 0 => todo'[x] = 0
      /\ \A x \in Request : claimed'[x] # {} => x = r /\ running[r] # {}
  BY <1>0, <1>2, <1>3, Sizes DEF Typed
<1>6. /\ \A x \in Request \ {r} : \A k : (Runs(x, k)' <=> Runs(x, k)) /\ (ToDo(x, k)' <=> ToDo(x, k))
      /\ \A k \in Members(r) : ~Runs(r, k)' /\ ~ToDo(r, k)'
  <2>1. /\ \A x \in Request \ {r} : running'[x] = running[x] /\ todo'[x] = todo[x]
        /\ running'[r] = {} /\ todo'[r] = 0
    BY <1>0, <1>2, <1>3 DEF Typed
  <2>2. \A k \in Members(r) : ~(k > GroupSize[EnvOf(r)] - 0)
    BY <1>3, Sizes
  <2> QED BY <2>1, <2>2 DEF Runs, ToDo
<1>7. \A x, k : /\ Queued(x)' <=> Queued(x)
                /\ Unopened(x)' <=> Unopened(x)
                /\ Gathered(x, k)' <=> Gathered(x, k)
                /\ Batched(x, k)' <=> Batched(x, k)
                /\ Active(x)' <=> Active(x)
  BY <1>1 DEF Queued, Unopened, Gathered, Batched, Active
<1>8. WholeOnly' /\ Serving' /\ Distinct(queue)'
  BY <1>0, <1>1, <1>5 DEF WholeOnly, Serving, Account, Distinct
<1>9. CASE Owed(r) = {}
  <2>1. UNCHANGED <<outq, putting, canceller>>
    BY <1>2, <1>9
  <2>2. \A x, k : /\ Out(x, k)' <=> Out(x, k)
                  /\ Putting("loop", x, k)' <=> Putting("loop", x, k)
                  /\ Putting("canceller", x, k)' <=> Putting("canceller", x, k)
    BY <2>1 DEF Out, Putting
  <2>3. Typed'
    BY <1>0, <1>1, <1>2, <1>5, <2>1 DEF Typed
  <2>4. ASSUME NEW x \in Request, NEW k \in Members(x)
        PROVE  Once(x, k)' /\ (Somewhere(x, k)' <=> Active(x)')
    <3>1. Once(x, k) /\ (Somewhere(x, k) <=> Active(x))
      BY <1>0, <2>4 DEF Account
    <3>2. (Runs(x, k)' <=> Runs(x, k)) /\ (ToDo(x, k)' <=> ToDo(x, k))
      BY <1>4, <1>6, <1>9, <2>4
    <3> QED BY <1>7, <2>2, <3>1, <3>2 DEF Once, Somewhere
  <2>5. running[r] = {}
    BY <1>9 DEF Owed
  <2>6. Cancelling' /\ Apart(outq)'
    BY <1>0, <1>1, <1>2, <1>3, <1>5, <2>1, <2>5 DEF Cancelling, Account, Apart
  <2> QED BY <1>8, <2>3, <2>4, <2>6 DEF AttemptsInv, Account
<1>10. CASE Owed(r) # {}
  <2>1. PICK m \in Message : m.request = r /\ m.members = Owed(r) /\ Put("canceller", m)
    <3> DEFINE m == [request |-> r, members |-> Owed(r)]
    <3>1. Put("canceller", m)
      BY <1>2, <1>10
    <3>2. m \in Message /\ m.request = r /\ m.members = Owed(r)
      <4>1. Members(r) \subseteq Nat
        BY <1>3, Sizes
      <4> QED BY <1>3, <1>4, <1>10, <4>1, MessageParts
    <3> HIDE DEF m
    <3> QED BY <3>1, <3>2
  <2>2. \A k \in m.members : ~Out(m.request, k)
    BY <1>0, <1>3, <1>4, <2>1 DEF Account, Once
  <2>3. /\ outq' \in Seq(Message) /\ Apart(outq)'
        /\ putting' \in [{"loop", "canceller"} -> {<<>>} \cup {<<x>> : x \in Message}]
        /\ \A z \in {"loop", "canceller"} \ {"canceller"} : putting'[z] = putting[z]
        /\ \A x, k : /\ Out(x, k)' <=> Out(x, k) \/ (m.request = x /\ k \in m.members /\ ~Full)
                     /\ Putting("canceller", x, k)' <=> m.request = x /\ k \in m.members /\ Full
    BY <1>0, <1>3, <2>1, <2>2, PutFacts DEF Account
  <2>4. \A x, k : Putting("loop", x, k)' <=> Putting("loop", x, k)
    BY <2>3 DEF Putting
  <2>5. canceller' = "reap"
    BY <1>2, <1>10
  <2>6. Typed'
    BY <1>0, <1>1, <1>2, <1>5, <2>3 DEF Typed
  <2>7. \A x, k : ~Putting("canceller", x, k)
    BY <1>3, Waits DEF Putting
  <2>8. ASSUME NEW x \in Request, NEW k \in Members(x)
        PROVE  Once(x, k)' /\ (Somewhere(x, k)' <=> Active(x)')
    <3>1. Once(x, k) /\ (Somewhere(x, k) <=> Active(x))
      BY <1>0, <2>8 DEF Account
    <3>2. CASE x # r \/ k \notin Owed(r)
      <4>1. /\ Runs(x, k)' <=> Runs(x, k)
            /\ ToDo(x, k)' <=> ToDo(x, k)
            /\ Out(x, k)' <=> Out(x, k)
            /\ ~Putting("canceller", x, k)'
        BY <1>4, <1>6, <2>1, <2>3, <2>8, <3>2
      <4> QED BY <1>7, <2>4, <2>7, <3>1, <4>1 DEF Once, Somewhere
    <3>3. CASE x = r /\ k \in Owed(r)
      <4>1. /\ Runs(x, k) \/ ToDo(x, k)
            /\ ~Runs(x, k)' /\ ~ToDo(x, k)'
            /\ Out(x, k)' <=> Out(x, k) \/ ~Full
            /\ Putting("canceller", x, k)' <=> Full
        BY <1>4, <1>6, <2>1, <2>3, <2>8, <3>3
      <4> QED BY <1>7, <2>4, <3>1, <4>1 DEF Once, Somewhere
    <3> QED BY <3>2, <3>3
  <2>9. Cancelling'
    BY <1>0, <1>1, <1>2, <1>3, <1>5, <2>5 DEF Cancelling
  <2> QED BY <1>8, <2>3, <2>6, <2>8, <2>9 DEF AttemptsInv, Account
<1> QED BY <1>9, <1>10

LEMMA ReapAccount ==
  ASSUME AttemptsInv, Reap,
         UNCHANGED <<config, watch, scan, epoch, pending, served, gathered, batched, reported>>
  PROVE  AttemptsInv'
<1>0. Typed /\ Account /\ WholeOnly /\ Cancelling /\ Serving
  BY DEF AttemptsInv
<1>1. /\ canceller = "reap" /\ putting["canceller"] = <<>>
      /\ claimed' = [r \in Request |-> {}] /\ canceller' = "pick"
      /\ UNCHANGED <<paused, queue, todo, running, outq, putting, victims, unopened>>
  BY DEF Reap, sourceVars
<1>2. Account' /\ WholeOnly'
  BY <1>0, <1>1, Frame DEF Places9
<1>3. Typed' /\ Cancelling' /\ Serving'
  BY <1>0, <1>1 DEF Typed, Cancelling, Serving
<1> QED BY <1>2, <1>3 DEF AttemptsInv

LEMMA CancelQueuedAccount ==
  ASSUME AttemptsInv, CancelQueued,
         UNCHANGED <<config, watch, scan, epoch, pending, served, gathered, batched, reported>>
  PROVE  AttemptsInv'
<1>0. Typed /\ Account /\ WholeOnly /\ Cancelling /\ Serving
  BY DEF AttemptsInv
<1>1. /\ canceller = "pick" /\ victims = {} /\ putting["canceller"] = <<>>
      /\ UNCHANGED <<paused, queue, todo, running, victims, claimed>>
  BY DEF CancelQueued, sourceVars
<1>2. CASE unopened = {}
  <2>1. canceller' = "done" /\ UNCHANGED <<unopened, outq, putting>>
    BY <1>2 DEF CancelQueued
  <2>2. Account' /\ WholeOnly'
    BY <1>0, <1>1, <2>1, Frame DEF Places9
  <2>3. Typed' /\ Cancelling' /\ Serving'
    BY <1>0, <1>1, <1>2, <2>1 DEF Typed, Cancelling, Serving
  <2> QED BY <2>2, <2>3 DEF AttemptsInv
<1>3. CASE unopened # {}
  <2>1. PICK r \in unopened :
          /\ unopened' = unopened \ {r}
          /\ Put("canceller", [request |-> r, members |-> Members(r)])
    BY <1>3 DEF CancelQueued
  <2>2. r \in Request /\ UNCHANGED canceller
    BY <1>0, <1>3 DEF Typed, CancelQueued
  <2>3. PICK m \in Message : m.request = r /\ m.members = Members(r) /\ Put("canceller", m)
    <3> DEFINE m == [request |-> r, members |-> Members(r)]
    <3>1. Members(r) \subseteq Nat /\ 1 \in Members(r)
      BY <2>2, Sizes
    <3>2. m \in Message /\ m.request = r /\ m.members = Members(r)
      BY <2>2, <3>1, MessageParts
    <3>3. Put("canceller", m)
      BY <2>1
    <3> HIDE DEF m
    <3> QED BY <3>2, <3>3
  <2>4. \A k \in m.members : ~Out(m.request, k)
    <3>1. Unopened(r)
      BY DEF Unopened
    <3> QED BY <1>0, <2>2, <2>3, <3>1 DEF Account, Once
  <2>5. /\ outq' \in Seq(Message) /\ Apart(outq)'
        /\ putting' \in [{"loop", "canceller"} -> {<<>>} \cup {<<x>> : x \in Message}]
        /\ \A z \in {"loop", "canceller"} \ {"canceller"} : putting'[z] = putting[z]
        /\ \A x, k : /\ Out(x, k)' <=> Out(x, k) \/ (m.request = x /\ k \in m.members /\ ~Full)
                     /\ Putting("canceller", x, k)' <=> m.request = x /\ k \in m.members /\ Full
    BY <1>0, <1>1, <2>3, <2>4, PutFacts DEF Account
  <2>6. \A x, k : /\ Queued(x)' <=> Queued(x)
                  /\ ToDo(x, k)' <=> ToDo(x, k)
                  /\ Runs(x, k)' <=> Runs(x, k)
                  /\ Putting("loop", x, k)' <=> Putting("loop", x, k)
                  /\ Unopened(x)' <=> Unopened(x) /\ x # r
                  /\ Gathered(x, k)' <=> Gathered(x, k)
                  /\ Batched(x, k)' <=> Batched(x, k)
                  /\ Active(x)' <=> Active(x)
                  /\ ~Putting("canceller", x, k)
    BY <1>1, <2>1, <2>5, Waits DEF Queued, ToDo, Runs, Putting, Unopened, Gathered, Batched, Active
  <2>7. Typed'
    BY <1>0, <1>1, <2>1, <2>5 DEF Typed
  <2>8. ASSUME NEW x \in Request, NEW k \in Members(x)
        PROVE  Once(x, k)' /\ (Somewhere(x, k)' <=> Active(x)')
    <3>1. Once(x, k) /\ (Somewhere(x, k) <=> Active(x))
      BY <1>0, <2>8 DEF Account
    <3>2. CASE x # r
      <4>1. /\ Unopened(x)' <=> Unopened(x)
            /\ Out(x, k)' <=> Out(x, k)
            /\ ~Putting("canceller", x, k)'
        BY <2>3, <2>5, <2>6, <3>2
      <4> QED BY <2>6, <3>1, <4>1 DEF Once, Somewhere
    <3>3. CASE x = r
      <4>1. /\ Unopened(x) /\ ~Unopened(x)'
            /\ Out(x, k)' <=> Out(x, k) \/ ~Full
            /\ Putting("canceller", x, k)' <=> Full
        BY <2>3, <2>5, <2>6, <2>8, <3>3 DEF Unopened
      <4> QED BY <2>6, <3>1, <4>1 DEF Once, Somewhere
    <3> QED BY <3>2, <3>3
  <2>9. WholeOnly' /\ Cancelling' /\ Serving' /\ Distinct(queue)'
    BY <1>0, <1>1, <2>2 DEF WholeOnly, Cancelling, Serving, Account, Distinct
  <2> QED BY <2>5, <2>7, <2>8, <2>9 DEF AttemptsInv, Account
<1> QED BY <1>2, <1>3

LEMMA CancellerAccount == ASSUME AttemptsInv, Canceller PROVE AttemptsInv'
<1>1. UNCHANGED <<config, watch, scan, epoch, pending, served, mode, gathered, batched, reported>>
  BY DEF Canceller, sinkVars
<1>2. CASE Supersede
  BY <1>1, <1>2, SupersedeAccount
<1>3. CASE DropGroup
  BY <1>1, <1>3, DropGroupAccount
<1>4. CASE Reap
  BY <1>1, <1>4, ReapAccount
<1>5. CASE CancelQueued
  BY <1>1, <1>5, CancelQueuedAccount
<1>6. CASE FinishPut("canceller") /\ UNCHANGED <<paused, sourceVars, cancelVars>>
  BY <1>1, <1>6, FinishAccount DEF sourceVars, cancelVars
<1> QED BY <1>2, <1>3, <1>4, <1>5, <1>6 DEF Canceller

-----------------------------------------------------------------------------
(* The watch coroutine fills the queue when nothing is left anywhere.      *)

LEMMA Nowhere ==
  ASSUME AttemptsInv, pending = {}
  PROVE  /\ queue = <<>>
         /\ \A r \in Request : todo[r] = 0 /\ running[r] = {}
         /\ \A r \in Request : \A k \in Members(r) : ~Somewhere(r, k)
<1>0. Typed /\ Account
  BY DEF AttemptsInv
<1>1. \A r \in Request : \A k \in Members(r) : ~Somewhere(r, k)
  BY <1>0 DEF Account, Active
<1>2. ASSUME NEW r \in Request PROVE todo[r] = 0 /\ running[r] = {}
  <2>1. running[r] = {}
    BY <1>0, <1>1 DEF Typed, Somewhere, Runs
  <2>2. todo[r] = 0
    <3> DEFINE g == GroupSize[EnvOf(r)]
    <3>1. g \in Nat /\ g \in Members(r) /\ todo[r] \in Nat
      BY <1>0, Sizes DEF Typed
    <3>2. ~(g > g - todo[r])
      BY <1>1, <3>1 DEF Somewhere, ToDo
    <3> HIDE DEF g
    <3> QED BY <3>1, <3>2
  <2> QED BY <2>1, <2>2
<1>3. queue = <<>>
  <2>1. \A r \in Request : ~Queued(r)
    <3>1. \A r \in Request : 1 \in Members(r)
      BY Sizes
    <3> QED BY <1>1, <3>1 DEF Somewhere
  <2> QED BY <1>0, <2>1 DEF Typed, Queued
<1> QED BY <1>1, <1>2, <1>3

LEMMA Filled ==
  ASSUME AttemptsInv, pending = {}, NEW fired \in SUBSET Env, NEW s \in Step,
         queue' = Requests(fired, s), pending' = fired, epoch' = s,
         UNCHANGED <<todo, running, outq, putting, unopened, gathered, batched>>
  PROVE  Account' /\ queue' \in Seq(Request)
<1>1. \A r \in Request : \A k \in Members(r) : ~Somewhere(r, k)
  BY Nowhere
<1>2. /\ queue' \in Seq(Request) /\ Distinct(queue)'
      /\ \A r \in Request : Queued(r)' <=> EnvOf(r) \in fired /\ StepOf(r) = s
  BY RequestsFacts DEF Distinct, Queued
<1>3. \A r \in Request : Active(r)' <=> Queued(r)'
  BY <1>2 DEF Active
<1>4. \A r, k : /\ ToDo(r, k)' <=> ToDo(r, k)
                /\ Runs(r, k)' <=> Runs(r, k)
                /\ Out(r, k)' <=> Out(r, k)
                /\ Putting("loop", r, k)' <=> Putting("loop", r, k)
                /\ Putting("canceller", r, k)' <=> Putting("canceller", r, k)
                /\ Unopened(r)' <=> Unopened(r)
                /\ Gathered(r, k)' <=> Gathered(r, k)
                /\ Batched(r, k)' <=> Batched(r, k)
  BY DEF ToDo, Runs, Out, Putting, Unopened, Gathered, Batched
<1>5. \A r \in Request : \A k \in Members(r) :
        Once(r, k)' /\ (Somewhere(r, k)' <=> Active(r)')
  BY <1>1, <1>3, <1>4 DEF Once, Somewhere
<1>6. Apart(outq)'
  BY DEF AttemptsInv, Account, Apart
<1> QED BY <1>2, <1>5, <1>6 DEF Account

LEMMA CreatedFacts ==
  ASSUME NEW s, CreatedIfNewer(s)
  PROVE  canceller' = canceller \/ (canceller = "none" /\ canceller' = "created")
  BY DEF CreatedIfNewer

LEMMA FiredTypes ==
  /\ FiredAtStartup \in SUBSET Env
  /\ \A s, force : Fired(s, force) \in SUBSET Env
  BY DEF FiredAtStartup, Fired

LEMMA ServeAccount == ASSUME AttemptsInv, Serve PROVE AttemptsInv'
<1>0. Typed /\ Account /\ WholeOnly /\ Cancelling /\ Serving
  BY DEF AttemptsInv
<1>u. UNCHANGED <<config, todo, running, outq, putting, victims, unopened, claimed,
                  gathered, batched, reported>>
  BY DEF Serve, sinkVars
<1>w. WholeOnly'
  BY <1>0, <1>u DEF WholeOnly
<1>1. CASE Acknowledge
  <2>1. /\ watch \in {"startup", "receive"}
        /\ watch' = IF watch = "startup" THEN "startup load" ELSE "load"
        /\ UNCHANGED <<scan, epoch, pending, paused, mode, queue, canceller>>
    BY <1>1 DEF Acknowledge
  <2>2. Account'
    BY <1>0, <1>u, <2>1, Frame DEF Places9
  <2>3. Typed' /\ Cancelling' /\ Serving'
    BY <1>0, <1>u, <2>1 DEF Typed, Cancelling, Serving
  <2> QED BY <1>w, <2>2, <2>3 DEF AttemptsInv
<1>2. CASE StartupLoad
  <2>1. /\ watch = "startup load" /\ served' = epoch /\ pending' = FiredAtStartup
        /\ queue' = Requests(FiredAtStartup, epoch) /\ Begin(FiredAtStartup, "scan")
        /\ UNCHANGED <<scan, epoch, paused>>
    BY <1>2 DEF StartupLoad
  <2>2. pending = {} /\ canceller = "none"
    BY <1>0, <2>1 DEF Serving, Cancelling
  <2>3. PICK fired \in SUBSET Env : fired = FiredAtStartup
    BY FiredTypes
  <2>4. Account' /\ queue' \in Seq(Request)
    <3>1. PICK s \in Step : s = epoch
      BY <1>0 DEF Typed
    <3> QED BY <1>u, <2>1, <2>2, <2>3, <3>1, Filled
  <2>5. \/ fired = {} /\ watch' = "scan" /\ canceller' = "none"
        \/ watch' = "consume" /\ canceller' \in {"none", "created"}
    BY <2>1, <2>2, <2>3, CreatedFacts DEF Begin
  <2>6. Typed'
    BY <1>0, <1>u, <2>1, <2>3, <2>4 DEF Typed
  <2>7. Cancelling' /\ Serving'
    BY <1>0, <1>u, <2>1, <2>2, <2>3, <2>5 DEF Cancelling, Serving
  <2> QED BY <1>w, <2>4, <2>6, <2>7 DEF AttemptsInv
<1>3. CASE Load
  <2>1. /\ watch = "load" /\ served' = epoch /\ Begin(pending, "walk")
        /\ UNCHANGED <<scan, epoch, pending, queue>>
    BY <1>3 DEF Load
  <2>2. canceller = "none"
    BY <1>0, <2>1 DEF Cancelling
  <2>3. \/ pending = {} /\ watch' = "walk" /\ canceller' = "none"
        \/ watch' = "consume" /\ canceller' \in {"none", "created"}
    BY <2>1, <2>2, CreatedFacts DEF Begin
  <2>4. Account'
    BY <1>0, <1>u, <2>1, Frame DEF Places9
  <2>5. Typed' /\ Cancelling' /\ Serving'
    BY <1>0, <1>u, <2>1, <2>2, <2>3 DEF Typed, Cancelling, Serving
  <2> QED BY <1>w, <2>4, <2>5 DEF AttemptsInv
<1>4. CASE EndWalk
  <2>1. /\ watch = "walk" /\ watch' \in {"done", "scan"}
        /\ UNCHANGED <<scan, epoch, pending, served, paused, mode, queue, canceller>>
    BY <1>4 DEF EndWalk
  <2>2. Account'
    BY <1>0, <1>u, <2>1, Frame DEF Places9
  <2>3. Typed' /\ Cancelling' /\ Serving'
    BY <1>0, <1>u, <2>1 DEF Typed, Cancelling, Serving
  <2> QED BY <1>w, <2>2, <2>3 DEF AttemptsInv
<1>5. CASE Scan
  <2>1. /\ watch = "scan" /\ watch' = "walk"
        /\ UNCHANGED <<epoch, pending, served, paused, mode, queue, canceller>>
    BY <1>5 DEF Scan
  <2>2. scan' \in [left : SUBSET Step, listed : SUBSET Step, published : SUBSET Step]
    <3> DEFINE left == {s \in Listed \cup DeletedDue(Listed) : s > lastStep}
    <3>1. left \subseteq Step /\ Listed \subseteq Step /\ Published(Listed) \subseteq Step
      BY DEF Listed, Published, DeletedDue
    <3>2. scan' = [left |-> left, listed |-> Listed, published |-> Published(Listed)]
      BY <1>5 DEF Scan
    <3> HIDE DEF left
    <3> QED BY <3>1, <3>2
  <2>3. Account'
    BY <1>0, <1>u, <2>1, Frame DEF Places9
  <2>4. Typed'
    BY <1>0, <1>u, <2>1, <2>2 DEF Typed
  <2>5. Cancelling' /\ Serving'
    BY <1>0, <1>u, <2>1 DEF Cancelling, Serving
  <2> QED BY <1>w, <2>3, <2>4, <2>5 DEF AttemptsInv
<1>6. CASE Walk
  <2>1. watch = "walk" /\ scan.left # {} /\ UNCHANGED <<served, mode, canceller>>
    BY <1>6 DEF Walk
  <2>2. pending = {} /\ canceller = "none"
    BY <1>0, <2>1 DEF Serving, Cancelling
  <2>3. LeastOf(scan.left) \in scan.left
    <3>1. scan.left \in SUBSET Nat
      BY <1>0 DEF Typed, Step
    <3>2. \E n \in scan.left : \A m \in scan.left : n <= m
      BY <2>1, <3>1, LeastNumber
    <3> QED BY <3>2 DEF LeastOf
  <2>4. PICK s \in Step : s = LeastOf(scan.left)
    BY <1>0, <2>3 DEF Typed
  <2>5. scan' \in [left : SUBSET Step, listed : SUBSET Step, published : SUBSET Step]
    <3>1. scan' = [scan EXCEPT !.left = {}] \/ scan' = [scan EXCEPT !.left = scan.left \ {s}]
      BY <1>6, <2>4 DEF Walk
    <3> QED BY <1>0, <3>1 DEF Typed
  <2>6. CASE UNCHANGED <<epoch, pending, queue, paused, watch>>
    <3>1. Account'
      BY <1>0, <1>u, <2>6, Frame DEF Places9
    <3>2. Typed'
      BY <1>0, <1>u, <2>5, <2>6 DEF Typed
    <3>3. Cancelling' /\ Serving'
      BY <1>0, <1>u, <2>1, <2>6 DEF Cancelling, Serving
    <3> QED BY <1>w, <3>1, <3>2, <3>3 DEF AttemptsInv
  <2>7. CASE Trigger(s)
    <3>1. PICK fired \in SUBSET Env : fired = Fired(s, s >= MaxSteps)
      BY FiredTypes
    <3>2. /\ epoch' = s /\ pending' = fired /\ paused' = TRUE /\ watch' = "receive"
          /\ queue' = queue \o Requests(fired, s)
      BY <2>7, <3>1 DEF Trigger
    <3>3. queue' = Requests(fired, s)
      <4>1. queue = <<>> /\ Requests(fired, s) \in Seq(Request)
        BY <2>2, Nowhere, RequestsFacts
      <4> QED BY <3>2, <4>1
    <3>4. Account' /\ queue' \in Seq(Request)
      BY <1>u, <2>2, <3>2, <3>3, Filled
    <3>5. Typed'
      BY <1>0, <1>u, <2>5, <3>2, <3>4 DEF Typed
    <3>6. \A r \in Request : todo[r] = 0 /\ running[r] = {}
      BY <2>2, Nowhere
    <3>7. Cancelling' /\ Serving'
      BY <1>0, <1>u, <2>1, <2>2, <3>2, <3>6 DEF Cancelling, Serving
    <3> QED BY <1>w, <3>4, <3>5, <3>7 DEF AttemptsInv
  <2> QED BY <1>6, <2>4, <2>6, <2>7 DEF Walk
<1> QED BY <1>1, <1>2, <1>3, <1>4, <1>5, <1>6 DEF Serve

-----------------------------------------------------------------------------
(* The sink counts a message toward its group, a whole group toward its    *)
(* epoch, and lets a whole epoch go.                                       *)

(* What a message does to the counts, its whole and out spelled out.       *)
LEMMA SinkFacts ==
  ASSUME Typed, WholeOnly, NEW r \in Request, NEW M \in SUBSET Members(r), SinkTake(r, M)
  PROVE  \E group \in SUBSET Members(r), batch \in [Request -> SUBSET Nat] :
           /\ group = gathered[r] \cup M
           /\ \A x \in Request : batch[x] = IF x = r /\ group = Members(r)
                                            THEN Members(r) ELSE batched[x]
           /\ gathered' = [gathered EXCEPT ![r] = IF group = Members(r) THEN {} ELSE group]
           /\ \/ /\ \A x \in BatchOf(EnvOf(r), StepOf(r)) : batch[x] = Members(x)
                 /\ batched' = [x \in Request |-> IF x \in BatchOf(EnvOf(r), StepOf(r))
                                                  THEN {} ELSE batch[x]]
                 /\ reported' = [reported EXCEPT ![<<EnvOf(r), StepOf(r)>>] = @ + 1]
                 /\ pending' = pending \ {EnvOf(r)}
              \/ batched' = batch /\ UNCHANGED <<reported, pending>>
<1>1. /\ gathered[r] \subseteq Members(r) /\ Members(r) \subseteq Nat
      /\ batched \in [Request -> SUBSET Nat] /\ \A x \in Request : batched[x] \subseteq Members(x)
  BY Sizes DEF Typed
<1>2. PICK group \in SUBSET Members(r) : group = gathered[r] \cup M
  BY <1>1
<1>3. WholeGroup(r, group) <=> group = Members(r)
  BY WholeIsAll
<1>4. PICK batch : batch = IF WholeGroup(r, group)
                           THEN [batched EXCEPT ![r] = batched[r] \cup group] ELSE batched
  OBVIOUS
<1>5. /\ batch \in [Request -> SUBSET Nat]
      /\ \A x \in Request : batch[x] = IF x = r /\ group = Members(r)
                                       THEN Members(r) ELSE batched[x]
  BY <1>1, <1>3, <1>4
<1>6. \A x \in Request : batch[x] \subseteq Members(x)
  BY <1>1, <1>5
<1>7. AttemptsIn(batch, BatchOf(EnvOf(r), StepOf(r))) >= BatchSize(EnvOf(r))
        <=> \A x \in BatchOf(EnvOf(r), StepOf(r)) : batch[x] = Members(x)
  BY <1>5, <1>6, RequestParts, BatchIsAll
<1>8. /\ gathered' = [gathered EXCEPT ![r] = IF WholeGroup(r, group) THEN {} ELSE group]
      /\ IF AttemptsIn(batch, BatchOf(EnvOf(r), StepOf(r))) >= BatchSize(EnvOf(r))
         THEN /\ batched' = [x \in Request |-> IF x \in BatchOf(EnvOf(r), StepOf(r))
                                               THEN {} ELSE batch[x]]
              /\ reported' = [reported EXCEPT ![<<EnvOf(r), StepOf(r)>>] = @ + 1]
              /\ pending' = pending \ {EnvOf(r)}
         ELSE batched' = batch /\ UNCHANGED <<reported, pending>>
  BY <1>2, <1>4 DEF SinkTake
<1> QED BY <1>2, <1>3, <1>5, <1>7, <1>8

LEMMA ConsumeAccount ==
  ASSUME AttemptsInv, Consume,
         UNCHANGED <<config, scan, epoch, served, paused, queue, todo, running, putting,
                     victims, unopened, claimed>>
  PROVE  AttemptsInv'
<1>0. Typed /\ Account /\ WholeOnly /\ Cancelling /\ Serving
  BY DEF AttemptsInv
<1>1. /\ watch = "consume" /\ outq # <<>> /\ outq' = Tail(outq)
      /\ SinkTake(Head(outq).request, Head(outq).members)
  BY DEF Consume
<1>2. /\ Head(outq) \in Message /\ Tail(outq) \in Seq(Message) /\ Apart(Tail(outq))
      /\ \A x, k : Carries(Tail(outq), x, k)
                     <=> Carries(outq, x, k) /\ ~(Head(outq).request = x /\ k \in Head(outq).members)
      /\ \A k \in Head(outq).members : Carries(outq, Head(outq).request, k)
  <2>1. outq \in Seq(Message) /\ Apart(outq)
    BY <1>0 DEF Typed, Account
  <2>2. 1 \in DOMAIN outq /\ outq[1] = Head(outq)
    BY <1>1, <2>1
  <2> QED BY <1>1, <2>1, <2>2, Taken DEF Carries
<1>r. PICK r \in Request : r = Head(outq).request
  BY <1>2, MessageParts
<1>3. PICK M \in SUBSET Members(r) : M # {} /\ r = Head(outq).request /\ M = Head(outq).members
  BY <1>2, <1>r, MessageParts
<1>4. /\ outq' \in Seq(Message) /\ Apart(outq)'
      /\ \A x, k : Out(x, k)' <=> Out(x, k) /\ ~(x = r /\ k \in M)
      /\ \A k \in M : Out(r, k)
  BY <1>1, <1>2, <1>3 DEF Out, Apart
<1>5. PICK group \in SUBSET Members(r), batch \in [Request -> SUBSET Nat] :
        /\ group = gathered[r] \cup M
        /\ \A x \in Request : batch[x] = IF x = r /\ group = Members(r)
                                         THEN Members(r) ELSE batched[x]
        /\ gathered' = [gathered EXCEPT ![r] = IF group = Members(r) THEN {} ELSE group]
        /\ \/ /\ \A x \in BatchOf(EnvOf(r), StepOf(r)) : batch[x] = Members(x)
              /\ batched' = [x \in Request |-> IF x \in BatchOf(EnvOf(r), StepOf(r))
                                               THEN {} ELSE batch[x]]
              /\ reported' = [reported EXCEPT ![<<EnvOf(r), StepOf(r)>>] = @ + 1]
              /\ pending' = pending \ {EnvOf(r)}
           \/ batched' = batch /\ UNCHANGED <<reported, pending>>
  <2>1. SinkTake(r, M)
    BY <1>1, <1>3 DEF SinkTake
  <2> QED BY <1>0, <2>1, SinkFacts
<1>6. StepOf(r) = epoch /\ EnvOf(r) \in pending
  BY <1>0, <1>3, <1>4 DEF Account, Somewhere, Active
<1>7. /\ gathered \in [Request -> SUBSET Nat] /\ batched \in [Request -> SUBSET Nat]
      /\ \A x \in Request : gathered[x] \subseteq Members(x) /\ batched[x] \subseteq Members(x)
      /\ \A x \in Request : Members(x) \subseteq Nat /\ Members(x) # {}
  <2>1. \A x \in Request : Members(x) \subseteq Nat /\ 1 \in Members(x)
    BY Sizes
  <2> QED BY <1>0, <2>1 DEF Typed
<1>8. /\ gathered' \in [Request -> SUBSET Nat]
      /\ \A x \in Request : gathered'[x] \subseteq Members(x)
      /\ \A x \in Request \ {r} : gathered'[x] = gathered[x]
      /\ gathered'[r] = IF group = Members(r) THEN {} ELSE group
  BY <1>5, <1>7
<1>9. /\ batched' \in [Request -> SUBSET Nat]
      /\ \A x \in Request : batched'[x] \subseteq Members(x)
      /\ \A x \in Request : batched'[x] = {} \/ batched'[x] = batch[x]
  BY <1>5, <1>7
<1>10. WholeOnly'
  BY <1>0, <1>5, <1>7, <1>8, <1>9 DEF WholeOnly
<1>11. pending' \subseteq Env /\ reported' \in [Env \X Step -> Nat]
  <2>1. pending \subseteq Env /\ reported \in [Env \X Step -> Nat]
        /\ <<EnvOf(r), StepOf(r)>> \in Env \X Step
    BY <1>0, RequestParts DEF Typed
  <2> QED BY <1>5, <2>1
<1>12. Typed'
  BY <1>0, <1>4, <1>8, <1>9, <1>11 DEF Typed
<1>13. \A x, k : /\ Queued(x)' <=> Queued(x)
                 /\ ToDo(x, k)' <=> ToDo(x, k)
                 /\ Runs(x, k)' <=> Runs(x, k)
                 /\ Putting("loop", x, k)' <=> Putting("loop", x, k)
                 /\ Putting("canceller", x, k)' <=> Putting("canceller", x, k)
                 /\ Unopened(x)' <=> Unopened(x)
  BY DEF Queued, ToDo, Runs, Putting, Unopened
<1>14. ASSUME NEW x \in Request, NEW k \in Members(x)
       PROVE  Once(x, k)' /\ (Somewhere(x, k)' <=> Active(x)')
  <2>1. Once(x, k) /\ (Somewhere(x, k) <=> Active(x))
    BY <1>0, <1>14 DEF Account
  <2>2. x = r => (k \in group <=> Gathered(x, k) \/ k \in M)
    BY <1>5 DEF Gathered
  <2>3. CASE batched' = batch /\ UNCHANGED <<reported, pending>>
    <3>1. Active(x)' <=> Active(x)
      BY <2>3 DEF Active
    <3>2. CASE x # r
      <4>1. /\ Out(x, k)' <=> Out(x, k)
            /\ Gathered(x, k)' <=> Gathered(x, k)
            /\ Batched(x, k)' <=> Batched(x, k)
        BY <1>4, <1>5, <1>8, <2>3, <3>2 DEF Gathered, Batched
      <4> QED BY <1>13, <2>1, <3>1, <4>1 DEF Once, Somewhere
    <3>3. CASE x = r /\ group # Members(r)
      <4>1. /\ Out(x, k)' <=> Out(x, k) /\ k \notin M
            /\ k \in M => Out(x, k)
            /\ Gathered(x, k)' <=> Gathered(x, k) \/ k \in M
            /\ Batched(x, k)' <=> Batched(x, k)
        BY <1>4, <1>5, <1>8, <2>2, <2>3, <3>3 DEF Gathered, Batched
      <4> QED BY <1>13, <2>1, <3>1, <4>1 DEF Once, Somewhere
    <3>4. CASE x = r /\ group = Members(r)
      <4>1. /\ Out(x, k)' <=> Out(x, k) /\ k \notin M
            /\ k \in M => Out(x, k)
            /\ Gathered(x, k) \/ k \in M
            /\ ~Gathered(x, k)'
            /\ Batched(x, k)'
        BY <1>4, <1>5, <1>8, <1>14, <2>2, <2>3, <3>4 DEF Gathered, Batched
      <4> QED BY <1>13, <2>1, <3>1, <4>1 DEF Once, Somewhere
    <3> QED BY <3>2, <3>3, <3>4
  <2>4. CASE /\ \A y \in BatchOf(EnvOf(r), StepOf(r)) : batch[y] = Members(y)
             /\ batched' = [y \in Request |-> IF y \in BatchOf(EnvOf(r), StepOf(r))
                                              THEN {} ELSE batch[y]]
             /\ pending' = pending \ {EnvOf(r)}
    <3>1. x \in BatchOf(EnvOf(r), StepOf(r)) <=> EnvOf(x) = EnvOf(r) /\ StepOf(x) = StepOf(r)
      BY <1>14 DEF BatchOf
    <3>2. CASE x \notin BatchOf(EnvOf(r), StepOf(r))
      <4>1. x # r
        BY <3>1, <3>2
      <4>2. Active(x)' <=> Active(x)
        BY <1>6, <2>4, <3>1, <3>2 DEF Active
      <4>3. /\ Out(x, k)' <=> Out(x, k)
            /\ Gathered(x, k)' <=> Gathered(x, k)
            /\ Batched(x, k)' <=> Batched(x, k)
        BY <1>4, <1>5, <1>8, <2>4, <3>2, <4>1 DEF Gathered, Batched
      <4> QED BY <1>13, <2>1, <4>2, <4>3 DEF Once, Somewhere
    <3>3. CASE x \in BatchOf(EnvOf(r), StepOf(r))
      <4>1. ~Active(x)' /\ ~Batched(x, k)'
        BY <2>4, <3>1, <3>3 DEF Active, Batched
      <4>2. CASE x # r
        <5>1. batched[x] = Members(x)
          BY <1>5, <2>4, <3>3, <4>2
        <5>2. /\ Out(x, k)' <=> Out(x, k)
              /\ Gathered(x, k)' <=> Gathered(x, k)
              /\ Batched(x, k)
          BY <1>4, <1>8, <1>14, <4>2, <5>1 DEF Gathered, Batched
        <5> QED BY <1>13, <2>1, <4>1, <5>2 DEF Once, Somewhere
      <4>3. CASE x = r
        <5>1. group = Members(r)
          <6>1. PICK j \in M : TRUE
            BY <1>3
          <6>2. ~Batched(r, j)
            BY <1>0, <1>3, <1>4, <6>1 DEF Account, Once
          <6>3. batched[r] # Members(r)
            BY <1>3, <6>1, <6>2 DEF Batched
          <6> QED BY <1>5, <2>4, <3>3, <4>3, <6>3
        <5>2. /\ Out(x, k)' <=> Out(x, k) /\ k \notin M
              /\ k \in M => Out(x, k)
              /\ Gathered(x, k) \/ k \in M
              /\ ~Gathered(x, k)'
          BY <1>4, <1>8, <1>14, <2>2, <4>3, <5>1 DEF Gathered
        <5> QED BY <1>13, <2>1, <4>1, <5>2 DEF Once, Somewhere
      <4> QED BY <4>2, <4>3
    <3> QED BY <3>2, <3>3
  <2> QED BY <1>5, <2>3, <2>4
<1>15. Account'
  <2>1. Distinct(queue)'
    BY <1>0 DEF Account, Distinct
  <2> QED BY <1>4, <1>14, <2>1 DEF Account
<1>16. \/ pending' = {} /\ canceller' = canceller /\ canceller # "none" /\ watch' = "join"
       \/ pending' = {} /\ canceller' = canceller /\ canceller = "none" /\ watch' \in {"scan", "walk"}
       \/ /\ watch' = watch
          /\ canceller' = canceller \/ (canceller = "none" /\ canceller' = "created")
  BY CreatedFacts DEF Consume, Joins, AfterEpoch
<1>17. Cancelling' /\ Serving'
  BY <1>0, <1>1, <1>16 DEF Cancelling, Serving
<1> QED BY <1>10, <1>12, <1>15, <1>17 DEF AttemptsInv

LEMMA EpochAccount == ASSUME AttemptsInv, Epoch PROVE AttemptsInv'
<1>0. Typed /\ Account /\ WholeOnly /\ Cancelling /\ Serving
  BY DEF AttemptsInv
<1>u. UNCHANGED <<config, scan, epoch, served, paused, queue, todo, running, putting,
                  victims, unopened, claimed>>
  BY DEF Epoch, sourceVars
<1>1. CASE Consume
  BY <1>1, <1>u, ConsumeAccount
<1>2. CASE Look \/ Join
  <2>1. UNCHANGED <<outq, pending, gathered, batched, reported>>
    BY <1>2 DEF Look, Join, sinkVars
  <2>2. Account' /\ WholeOnly'
    BY <1>0, <1>u, <2>1, Frame DEF Places9
  <2>3. Typed'
    BY <1>0, <1>u, <2>1 DEF Typed
  <2>4. CASE Look
    <3>1. /\ watch = "consume" /\ watch' = watch
          /\ canceller' = canceller \/ (canceller = "none" /\ canceller' = "created")
      BY <2>4, CreatedFacts DEF Look
    <3>2. Cancelling' /\ Serving'
      BY <1>0, <1>u, <2>1, <3>1 DEF Cancelling, Serving
    <3> QED BY <2>2, <2>3, <3>2 DEF AttemptsInv
  <2>5. CASE Join
    <3>1. watch = "join" /\ canceller = "done" /\ canceller' = "none" /\ watch' \in {"scan", "walk"}
      BY <2>5 DEF Join, AfterEpoch
    <3>2. Cancelling' /\ Serving'
      BY <1>0, <1>u, <2>1, <3>1 DEF Cancelling, Serving
    <3> QED BY <2>2, <2>3, <3>2 DEF AttemptsInv
  <2> QED BY <1>2, <2>4, <2>5
<1> QED BY <1>1, <1>2 DEF Epoch

LEMMA AttemptsStep == AttemptsInv /\ [Next]_vars => AttemptsInv'
<1> SUFFICES ASSUME AttemptsInv, [Next]_vars PROVE AttemptsInv'
  OBVIOUS
<1>1. CASE UNCHANGED vars
  <2>1. UNCHANGED Places9 /\ UNCHANGED <<config, watch, scan, served, paused, claimed, canceller,
                                        victims, reported>>
    BY <1>1 DEF vars, Places9
  <2>2. Account' /\ WholeOnly'
    BY <2>1, Frame DEF AttemptsInv
  <2>3. Typed' /\ Cancelling' /\ Serving'
    BY <2>1 DEF AttemptsInv, Typed, Cancelling, Serving, Places9
  <2> QED BY <2>2, <2>3 DEF AttemptsInv
<1> QED BY <1>1, TrainerAccount, LoopAccount, CancellerAccount, ServeAccount, EpochAccount DEF Next

THEOREM AttemptsInvariant == Spec => []AttemptsInv
  BY AttemptsInit, AttemptsStep, PTL DEF Spec

-----------------------------------------------------------------------------
(* Whatever its interleaving with the trainer, with cancellations and with *)
(* the wait for room in out_q, an attempt runs, until it has really        *)
(* stopped, only on the weights of its own epoch.                          *)
THEOREM OneVersionPerEpoch == Spec => []EpochMeasuresOneVersion
<1>1. AttemptsInv => EpochMeasuresOneVersion
  <2> SUFFICES ASSUME AttemptsInv, NEW r \in Request, running[r] \cup claimed[r] # {}
               PROVE  served = StepOf(r)
    BY DEF EpochMeasuresOneVersion
  <2>0. Typed /\ Account /\ Cancelling /\ Serving
    BY DEF AttemptsInv
  <2>1. CASE claimed[r] # {}
    BY <2>0, <2>1 DEF Cancelling, Serving
  <2>2. CASE running[r] # {}
    <3>1. PICK k \in Members(r) : Runs(r, k)
      BY <2>0, <2>2 DEF Typed, Runs
    <3>2. StepOf(r) = epoch /\ pending # {}
      BY <2>0, <3>1 DEF Account, Somewhere, Active
    <3> QED BY <2>0, <2>2, <3>2 DEF Serving
  <2> QED BY <2>1, <2>2
<1> QED BY <1>1, AttemptsInvariant, PTL

(* The places of an attempt, one kind at a time.                           *)
InQ(r) == {<<"queue", i>> : i \in {i \in DOMAIN queue : queue[i] = r}}
InTodo(r, k) == {<<"todo", 0>> : i \in Unscheduled(r) \cap {k}}
InRunning(r, k) == {<<"running", 0>> : i \in running[r] \cap {k}}
InOut(r, k) == {<<"outq", i>> : i \in {i \in DOMAIN outq :
                                         outq[i].request = r /\ k \in outq[i].members}}
InPuts(r, k) == {<<p, 0>> : p \in {p \in DOMAIN putting : /\ putting[p] # <<>>
                                                         /\ putting[p][1].request = r
                                                         /\ k \in putting[p][1].members}}
InUnopened(r) == {<<"unopened", 0>> : i \in unopened \cap {r}}
InGathered(r, k) == {<<"gathered", 0>> : i \in gathered[r] \cap {k}}
InBatched(r, k) == {<<"batched", 0>> : i \in batched[r] \cap {k}}

LEMMA PlaceKinds ==
  ASSUME Typed, Account, NEW r \in Request, NEW k \in Members(r)
  PROVE  /\ Places(r, k) = UNION {InQ(r), InTodo(r, k), InRunning(r, k), InOut(r, k), InPuts(r, k),
                                  InUnopened(r), InGathered(r, k), InBatched(r, k)}
         /\ IF Queued(r) THEN \E x : InQ(r) = {x} ELSE InQ(r) = {}
         /\ IF ToDo(r, k) THEN \E x : InTodo(r, k) = {x} ELSE InTodo(r, k) = {}
         /\ IF Runs(r, k) THEN \E x : InRunning(r, k) = {x} ELSE InRunning(r, k) = {}
         /\ IF Out(r, k) THEN \E x : InOut(r, k) = {x} ELSE InOut(r, k) = {}
         /\ InPuts(r, k) = (IF Putting("loop", r, k) THEN {<<"loop", 0>>} ELSE {})
                             \cup (IF Putting("canceller", r, k) THEN {<<"canceller", 0>>} ELSE {})
         /\ IF Unopened(r) THEN \E x : InUnopened(r) = {x} ELSE InUnopened(r) = {}
         /\ IF Gathered(r, k) THEN \E x : InGathered(r, k) = {x} ELSE InGathered(r, k) = {}
         /\ IF Batched(r, k) THEN \E x : InBatched(r, k) = {x} ELSE InBatched(r, k) = {}
<1>1. Places(r, k) = UNION {InQ(r), InTodo(r, k), InRunning(r, k), InOut(r, k), InPuts(r, k),
                            InUnopened(r), InGathered(r, k), InBatched(r, k)}
  <2>1. Places(r, k) = InQ(r) \cup InTodo(r, k) \cup InRunning(r, k) \cup InOut(r, k)
                         \cup InPuts(r, k) \cup InUnopened(r) \cup InGathered(r, k) \cup InBatched(r, k)
    BY DEF Places, InQ, InTodo, InRunning, InOut, InPuts, InUnopened, InGathered, InBatched
  <2> QED BY <2>1
<1>2. IF Queued(r) THEN \E x : InQ(r) = {x} ELSE InQ(r) = {}
  <2>1. CASE Queued(r)
    <3>1. PICK i \in DOMAIN queue : queue[i] = r
      BY <2>1 DEF Queued
    <3>2. \A j \in DOMAIN queue : queue[j] = r => j = i
      BY <3>1 DEF Account, Distinct
    <3>3. InQ(r) = {<<"queue", i>>}
      BY <3>1, <3>2 DEF InQ
    <3> QED BY <2>1, <3>3
  <2>2. CASE ~Queued(r)
    BY <2>2 DEF Queued, InQ
  <2> QED BY <2>1, <2>2
<1>3. IF ToDo(r, k) THEN \E x : InTodo(r, k) = {x} ELSE InTodo(r, k) = {}
  <2>1. k \in Unscheduled(r) <=> ToDo(r, k)
    <3>1. GroupSize[EnvOf(r)] \in Nat /\ todo[r] \in Nat /\ todo[r] <= GroupSize[EnvOf(r)]
          /\ k \in Nat /\ 1 <= k /\ k <= GroupSize[EnvOf(r)]
      BY Sizes DEF Typed
    <3> QED BY <3>1 DEF Unscheduled, ToDo
  <2>2. ToDo(r, k) => InTodo(r, k) = {<<"todo", 0>>}
    BY <2>1 DEF InTodo
  <2>3. ~ToDo(r, k) => InTodo(r, k) = {}
    BY <2>1 DEF InTodo
  <2> QED BY <2>2, <2>3
<1>4. IF Runs(r, k) THEN \E x : InRunning(r, k) = {x} ELSE InRunning(r, k) = {}
  <2>1. Runs(r, k) => InRunning(r, k) = {<<"running", 0>>}
    BY DEF InRunning, Runs
  <2>2. ~Runs(r, k) => InRunning(r, k) = {}
    BY DEF InRunning, Runs
  <2> QED BY <2>1, <2>2
<1>5. IF Out(r, k) THEN \E x : InOut(r, k) = {x} ELSE InOut(r, k) = {}
  <2>1. CASE Out(r, k)
    <3>1. PICK i \in DOMAIN outq : outq[i].request = r /\ k \in outq[i].members
      BY <2>1 DEF Out, Carries
    <3>2. \A j \in DOMAIN outq : outq[j].request = r /\ k \in outq[j].members => j = i
      BY <3>1 DEF Account, Apart
    <3>3. InOut(r, k) = {<<"outq", i>>}
      BY <3>1, <3>2 DEF InOut
    <3> QED BY <2>1, <3>3
  <2>2. CASE ~Out(r, k)
    BY <2>2 DEF Out, Carries, InOut
  <2> QED BY <2>1, <2>2
<1>6. InPuts(r, k) = (IF Putting("loop", r, k) THEN {<<"loop", 0>>} ELSE {})
                       \cup (IF Putting("canceller", r, k) THEN {<<"canceller", 0>>} ELSE {})
  <2>1. DOMAIN putting = {"loop", "canceller"}
    BY DEF Typed
  <2>2. \A p \in {"loop", "canceller"} :
          (putting[p] # <<>> /\ putting[p][1].request = r /\ k \in putting[p][1].members)
            <=> Putting(p, r, k)
    <3> SUFFICES ASSUME NEW p \in {"loop", "canceller"}
                 PROVE  (putting[p] # <<>> /\ putting[p][1].request = r /\ k \in putting[p][1].members)
                          <=> Putting(p, r, k)
      OBVIOUS
    <3>1. putting[p] = <<>> \/ \E m \in Message : putting[p] = <<m>>
      BY DEF Typed
    <3>2. CASE putting[p] = <<>>
      BY <3>2, Waits DEF Putting
    <3>3. ASSUME NEW m \in Message, putting[p] = <<m>>
          PROVE  (putting[p] # <<>> /\ putting[p][1].request = r /\ k \in putting[p][1].members)
                   <=> Putting(p, r, k)
      <4>1. putting[p] # <<>> /\ putting[p][1] = m
        BY <3>3
      <4>2. Putting(p, r, k) <=> m.request = r /\ k \in m.members
        BY <3>3, Waits DEF Putting
      <4> QED BY <4>1, <4>2
    <3> QED BY <3>1, <3>2, <3>3
  <2>3. InPuts(r, k) = {<<p, 0>> : p \in {p \in {"loop", "canceller"} : Putting(p, r, k)}}
    BY <2>1, <2>2 DEF InPuts
  <2> QED BY <2>3
<1>7. IF Unopened(r) THEN \E x : InUnopened(r) = {x} ELSE InUnopened(r) = {}
  <2>1. Unopened(r) => InUnopened(r) = {<<"unopened", 0>>}
    BY DEF InUnopened, Unopened
  <2>2. ~Unopened(r) => InUnopened(r) = {}
    BY DEF InUnopened, Unopened
  <2> QED BY <2>1, <2>2
<1>8. IF Gathered(r, k) THEN \E x : InGathered(r, k) = {x} ELSE InGathered(r, k) = {}
  <2>1. Gathered(r, k) => InGathered(r, k) = {<<"gathered", 0>>}
    BY DEF InGathered, Gathered
  <2>2. ~Gathered(r, k) => InGathered(r, k) = {}
    BY DEF InGathered, Gathered
  <2> QED BY <2>1, <2>2
<1>9. IF Batched(r, k) THEN \E x : InBatched(r, k) = {x} ELSE InBatched(r, k) = {}
  <2>1. Batched(r, k) => InBatched(r, k) = {<<"batched", 0>>}
    BY DEF InBatched, Batched
  <2>2. ~Batched(r, k) => InBatched(r, k) = {}
    BY DEF InBatched, Batched
  <2> QED BY <2>1, <2>2
<1> QED BY <1>1, <1>2, <1>3, <1>4, <1>5, <1>6, <1>7, <1>8, <1>9

(* Every attempt of an environment still to be reported is in exactly one  *)
(* place, and nothing of what was reported or not fired is anywhere.       *)
THEOREM AttemptsInOnePlace == Spec => []AttemptsAccounted
<1>1. AttemptsInv => AttemptsAccounted
  <2> SUFFICES ASSUME AttemptsInv, NEW r \in Request, NEW k \in Members(r)
               PROVE  Cardinality(Places(r, k)) =
                        IF StepOf(r) = epoch /\ EnvOf(r) \in pending THEN 1 ELSE 0
    BY DEF AttemptsAccounted
  <2>0. Typed /\ Account
    BY DEF AttemptsInv
  <2>1. Once(r, k) /\ (Somewhere(r, k) <=> Active(r))
    BY <2>0 DEF Account
  <2> DEFINE P == Places(r, k)
  <2>2. /\ P = UNION {InQ(r), InTodo(r, k), InRunning(r, k), InOut(r, k), InPuts(r, k),
                      InUnopened(r), InGathered(r, k), InBatched(r, k)}
        /\ IF Queued(r) THEN \E x : InQ(r) = {x} ELSE InQ(r) = {}
        /\ IF ToDo(r, k) THEN \E x : InTodo(r, k) = {x} ELSE InTodo(r, k) = {}
        /\ IF Runs(r, k) THEN \E x : InRunning(r, k) = {x} ELSE InRunning(r, k) = {}
        /\ IF Out(r, k) THEN \E x : InOut(r, k) = {x} ELSE InOut(r, k) = {}
        /\ InPuts(r, k) = (IF Putting("loop", r, k) THEN {<<"loop", 0>>} ELSE {})
                            \cup (IF Putting("canceller", r, k) THEN {<<"canceller", 0>>} ELSE {})
        /\ IF Unopened(r) THEN \E x : InUnopened(r) = {x} ELSE InUnopened(r) = {}
        /\ IF Gathered(r, k) THEN \E x : InGathered(r, k) = {x} ELSE InGathered(r, k) = {}
        /\ IF Batched(r, k) THEN \E x : InBatched(r, k) = {x} ELSE InBatched(r, k) = {}
    BY <2>0, PlaceKinds
  <2> HIDE DEF P
  <2>3. CASE ~Active(r)
    <3>1. P = {}
      BY <2>1, <2>2, <2>3 DEF Somewhere
    <3> QED BY <2>3, <3>1, FS_EmptySet DEF Active, P
  <2>4. CASE Active(r)
    <3>1. \E x : P = {x}
      <4>1. CASE Queued(r)
        BY <2>1, <2>2, <4>1 DEF Once
      <4>2. CASE ToDo(r, k)
        BY <2>1, <2>2, <4>2 DEF Once
      <4>3. CASE Runs(r, k)
        BY <2>1, <2>2, <4>3 DEF Once
      <4>4. CASE Out(r, k)
        BY <2>1, <2>2, <4>4 DEF Once
      <4>5. CASE Putting("loop", r, k)
        <5>1. \E x : InPuts(r, k) = {x}
          <6>1. InPuts(r, k) = {<<"loop", 0>>}
            BY <2>1, <2>2, <4>5 DEF Once
          <6> QED BY <6>1
        <5>2. /\ InQ(r) = {} /\ InTodo(r, k) = {} /\ InRunning(r, k) = {} /\ InOut(r, k) = {}
              /\ InUnopened(r) = {} /\ InGathered(r, k) = {} /\ InBatched(r, k) = {}
          BY <2>1, <2>2, <4>5 DEF Once
        <5>3. P = InPuts(r, k)
          BY <2>2, <5>2
        <5> QED BY <5>1, <5>3
      <4>6. CASE Putting("canceller", r, k)
        <5>1. \E x : InPuts(r, k) = {x}
          <6>1. InPuts(r, k) = {<<"canceller", 0>>}
            BY <2>1, <2>2, <4>6 DEF Once
          <6> QED BY <6>1
        <5>2. /\ InQ(r) = {} /\ InTodo(r, k) = {} /\ InRunning(r, k) = {} /\ InOut(r, k) = {}
              /\ InUnopened(r) = {} /\ InGathered(r, k) = {} /\ InBatched(r, k) = {}
          BY <2>1, <2>2, <4>6 DEF Once
        <5>3. P = InPuts(r, k)
          BY <2>2, <5>2
        <5> QED BY <5>1, <5>3
      <4>7. CASE Unopened(r)
        BY <2>1, <2>2, <4>7 DEF Once
      <4>8. CASE Gathered(r, k)
        BY <2>1, <2>2, <4>8 DEF Once
      <4>9. CASE Batched(r, k)
        BY <2>1, <2>2, <4>9 DEF Once
      <4> QED BY <2>1, <2>4, <4>1, <4>2, <4>3, <4>4, <4>5, <4>6, <4>7, <4>8, <4>9 DEF Somewhere
    <3>2. Cardinality(P) = 1
      BY <3>1, FS_Singleton
    <3> QED BY <2>4, <3>2 DEF Active, P
  <2> QED BY <2>3, <2>4
<1> QED BY <1>1, AttemptsInvariant, PTL

-----------------------------------------------------------------------------
(* Trainer and evals process in lockstep: a version is offered only when   *)
(* the one before it was received, so none is passed over.                 *)
DueAt(s) == s >= MaxSteps \/ OnlineEvalStep(s)

(* What the trainer has made of the steps so far.                          *)
TrainerAt ==
  /\ trainer \in {"make", "offer", "wait", "clean", "train", "done"}
  /\ progress \in 1 .. (MaxSteps + 1) /\ offer \in Step
  /\ stage \in [Step -> {"none", "made", "offered", "acked", "finished"}]
  /\ config.resume < progress
  /\ config.resume < MaxSteps => progress <= MaxSteps
  /\ trainer # "train" => offer = config.resume \/ offer = progress
  /\ trainer # "train" /\ offer = config.resume => progress = config.resume + 1
  /\ trainer = "train" =>
       offer < progress /\ \A d \in Step : offer < d /\ d < progress => ~DueAt(d)
  /\ trainer \in {"clean", "train", "done"} => lastStep = offer /\ stage[offer] = "finished"
  /\ trainer = "make" => stage[offer] = "none" /\ (lastStep < offer \/ watch = "startup")
  /\ trainer = "offer" => stage[offer] = "made"
  /\ trainer = "wait" => stage[offer] \in {"offered", "acked"}

(* What the evals process has received of them.                            *)
ReceiverAt ==
  /\ lastStep \in Step /\ epoch = lastStep
  /\ config.resume <= lastStep /\ lastStep <= offer
  /\ stage[offer] \in {"acked", "finished"} => lastStep = offer /\ watch \notin {"startup", "receive"}
  /\ watch = "receive" => lastStep = offer /\ trainer = "wait"
  /\ lastStep < offer => trainer \in {"make", "offer", "wait"}
  /\ \A d \in Step : lastStep < d /\ d < offer => ~DueAt(d)
  /\ \A s \in Step : s > lastStep /\ s # offer => stage[s] = "none"
  /\ watch \in {"startup", "startup load"} => lastStep = config.resume
  /\ watch = "startup" => offer = config.resume

(* What a scan of the broadcasts directory has found.                      *)
ScanAt ==
  /\ watch # "walk" => scan.left = {}
  /\ \A s \in scan.left : s = offer /\ lastStep < offer /\ s \in scan.listed
  /\ scan.left # {} => \A t \in scan.published : t <= offer /\ (t = offer => stage[t] = "offered")

Lockstep == TrainerAt /\ ReceiverAt /\ ScanAt

LEMMA ResumeType ==
  ASSUME Typed
  PROVE  /\ config.resume \in Nat /\ config.resume <= MaxSteps
         /\ MaxSteps \in Nat \ {0} /\ Step = 0 .. (MaxSteps + 1)
<1>1. config \in [cancel : BOOLEAN, skipFirst : BOOLEAN, retrigger : BOOLEAN, resume : Resumes]
  BY DEF Typed
<1>2. config.resume \in Resumes
  BY <1>1
<1>3. Resumes \subseteq 0 .. MaxSteps /\ MaxSteps \in Nat \ {0}
  BY EvalEpochsAssumption DEF EvalEpochsAssumption
<1>4. config.resume \in 0 .. MaxSteps
  BY <1>2, <1>3
<1> QED BY <1>3, <1>4 DEF Step

LEMMA LockstepInit == Init => Lockstep
<1> SUFFICES ASSUME Init PROVE Lockstep
  OBVIOUS
<1>0. config.resume \in Nat /\ config.resume <= MaxSteps
      /\ MaxSteps \in Nat \ {0} /\ Step = 0 .. (MaxSteps + 1)
  BY AttemptsInit, ResumeType DEF AttemptsInv
<1>1. /\ trainer = "make" /\ progress = config.resume + 1 /\ offer = config.resume
      /\ stage = [s \in Step |-> "none"] /\ watch = "startup" /\ lastStep = config.resume
      /\ epoch = config.resume /\ scan.left = {}
  BY DEF Init
<1> QED BY <1>0, <1>1 DEF Lockstep, TrainerAt, ReceiverAt, ScanAt

LEMMA MakeDirLock ==
  ASSUME Typed, Lockstep, MakeDir, UNCHANGED <<config, watch, lastStep, scan, epoch>>
  PROVE  Lockstep'
<1>1. TrainerAt /\ ReceiverAt /\ ScanAt
  BY DEF Lockstep
<1>2. /\ trainer = "make" /\ trainer' = "offer" /\ UNCHANGED <<progress, offer>>
      /\ stage' = [stage EXCEPT ![offer] = "made"]
  BY DEF MakeDir
<1>3. /\ stage' \in [Step -> {"none", "made", "offered", "acked", "finished"}]
      /\ stage'[offer] = "made" /\ \A s \in Step : s # offer => stage'[s] = stage[s]
  BY <1>1, <1>2 DEF TrainerAt
<1>4. TrainerAt'
  BY <1>1, <1>2, <1>3 DEF TrainerAt
<1>5. ReceiverAt'
  BY <1>1, <1>2, <1>3 DEF ReceiverAt
<1>6. ScanAt'
  BY <1>1, <1>2 DEF ScanAt, TrainerAt
<1> QED BY <1>4, <1>5, <1>6 DEF Lockstep

LEMMA OfferLock ==
  ASSUME Typed, Lockstep, Offer, UNCHANGED <<config, watch, lastStep, scan, epoch>>
  PROVE  Lockstep'
<1>1. TrainerAt /\ ReceiverAt /\ ScanAt
  BY DEF Lockstep
<1>2. /\ trainer = "offer" /\ trainer' = "wait" /\ UNCHANGED <<progress, offer>>
      /\ stage' = [stage EXCEPT ![offer] = "offered"]
  BY DEF Offer
<1>3. /\ stage' \in [Step -> {"none", "made", "offered", "acked", "finished"}]
      /\ stage'[offer] = "offered" /\ \A s \in Step : s # offer => stage'[s] = stage[s]
  BY <1>1, <1>2 DEF TrainerAt
<1>4. TrainerAt'
  BY <1>1, <1>2, <1>3 DEF TrainerAt
<1>5. ReceiverAt'
  BY <1>1, <1>2, <1>3 DEF ReceiverAt
<1>6. ScanAt'
  BY <1>1, <1>2, <1>3 DEF ScanAt, TrainerAt
<1> QED BY <1>4, <1>5, <1>6 DEF Lockstep

LEMMA TransferLock ==
  ASSUME Typed, Lockstep, Transfer, UNCHANGED <<config, watch, lastStep, scan, epoch>>
  PROVE  Lockstep'
<1>0. config.resume \in Nat /\ Step = 0 .. (MaxSteps + 1) /\ MaxSteps \in Nat
  BY ResumeType
<1>1. TrainerAt /\ ReceiverAt /\ ScanAt
  BY DEF Lockstep
<1>2. /\ trainer = "wait" /\ trainer' = "clean" /\ UNCHANGED <<progress, offer>>
      /\ stage[offer] = "acked" /\ stage' = [stage EXCEPT ![offer] = "finished"]
  BY DEF Transfer, Ready
<1>3. /\ stage' \in [Step -> {"none", "made", "offered", "acked", "finished"}]
      /\ stage'[offer] = "finished" /\ \A s \in Step : s # offer => stage'[s] = stage[s]
  BY <1>1, <1>2 DEF TrainerAt
<1>4. lastStep = offer /\ watch \notin {"startup", "receive"} /\ offer \in Nat
  <2>1. offer \in Nat
    BY <1>0, <1>1 DEF TrainerAt
  <2>2. lastStep = offer /\ watch \notin {"startup", "receive"}
    BY <1>1, <1>2 DEF ReceiverAt
  <2> QED BY <2>1, <2>2
<1>5. TrainerAt'
  BY <1>1, <1>2, <1>3, <1>4 DEF TrainerAt
<1>6. ReceiverAt'
  <2>1. \A s \in Step : s > lastStep /\ s # offer => stage'[s] = "none"
    BY <1>1, <1>3 DEF ReceiverAt
  <2>2. ~(lastStep < offer)
    BY <1>4
  <2>3. (stage[offer] \in {"acked", "finished"} => lastStep = offer /\ watch \notin {"startup", "receive"})'
    BY <1>2, <1>4
  <2>4. (watch = "receive" => lastStep = offer /\ trainer = "wait")'
    BY <1>4
  <2>5. (lastStep < offer => trainer \in {"make", "offer", "wait"})'
    BY <1>2, <2>2
  <2>6. (\A d \in Step : lastStep < d /\ d < offer => ~DueAt(d))'
    BY <1>1, <1>2 DEF ReceiverAt
  <2>7. (lastStep \in Step /\ epoch = lastStep /\ config.resume <= lastStep /\ lastStep <= offer)'
    BY <1>1, <1>2 DEF ReceiverAt
  <2>8. (watch \in {"startup", "startup load"} => lastStep = config.resume)'
    BY <1>1, <1>2 DEF ReceiverAt
  <2> QED BY <1>2, <1>4, <2>1, <2>3, <2>4, <2>5, <2>6, <2>7, <2>8 DEF ReceiverAt
<1>7. scan.left = {}
  BY <1>1, <1>4 DEF ScanAt
<1>8. ScanAt'
  BY <1>7 DEF ScanAt
<1> QED BY <1>5, <1>6, <1>8 DEF Lockstep

LEMMA CleanLock ==
  ASSUME Typed, Lockstep, Clean, UNCHANGED <<config, watch, lastStep, scan, epoch>>
  PROVE  Lockstep'
<1>0. config.resume \in Nat /\ Step = 0 .. (MaxSteps + 1) /\ MaxSteps \in Nat \ {0}
      /\ config.resume <= MaxSteps
  BY ResumeType
<1>1. TrainerAt /\ ReceiverAt /\ ScanAt
  BY DEF Lockstep
<1>2. /\ trainer = "clean" /\ UNCHANGED offer
      /\ stage' = [s \in Step |-> IF s < offer - 1 THEN "none" ELSE stage[s]]
      /\ trainer' = IF offer = progress /\ progress >= MaxSteps THEN "done" ELSE "train"
      /\ progress' = IF offer = progress /\ progress < MaxSteps THEN progress + 1 ELSE progress
  BY DEF Clean
<1>3. /\ offer \in Nat /\ progress \in Nat /\ offer \in Step /\ lastStep = offer
      /\ stage[offer] = "finished" /\ watch \notin {"startup", "receive"}
  <2>1. /\ offer \in Nat /\ progress \in Nat /\ offer \in Step /\ lastStep = offer
        /\ stage[offer] = "finished"
    BY <1>0, <1>1, <1>2 DEF TrainerAt
  <2> QED BY <1>1, <2>1 DEF ReceiverAt
<1>4. /\ stage' \in [Step -> {"none", "made", "offered", "acked", "finished"}]
      /\ stage'[offer] = "finished" /\ \A s \in Step : s > offer => stage'[s] = stage[s]
  BY <1>0, <1>1, <1>2, <1>3 DEF TrainerAt
<1>5. TrainerAt'
  <2>1. CASE offer = progress /\ progress >= MaxSteps
    BY <1>0, <1>1, <1>2, <1>3, <1>4, <2>1 DEF TrainerAt
  <2>2. CASE offer = progress /\ progress < MaxSteps
    <3>1. progress' = progress + 1 /\ trainer' = "train"
      BY <1>2, <1>3, <2>2, <1>0
    <3>2. \A d \in Step : ~(offer < d /\ d < progress')
      BY <1>0, <1>3, <2>2, <3>1
    <3>3. progress' \in 1 .. (MaxSteps + 1) /\ progress' <= MaxSteps /\ offer < progress'
          /\ config.resume < progress'
      BY <1>0, <1>1, <1>3, <2>2, <3>1 DEF TrainerAt
    <3> QED BY <1>2, <1>3, <1>4, <3>1, <3>2, <3>3 DEF TrainerAt
  <2>3. CASE offer # progress
    <3>1. progress' = progress /\ trainer' = "train"
      BY <1>2, <2>3
    <3>2. offer = config.resume /\ progress = offer + 1
      BY <1>1, <1>2, <2>3 DEF TrainerAt
    <3>3. \A d \in Step : ~(offer < d /\ d < progress')
      BY <1>0, <1>3, <3>1, <3>2
    <3> QED BY <1>1, <1>2, <1>3, <1>4, <3>1, <3>2, <3>3 DEF TrainerAt
  <2> QED BY <1>0, <1>3, <2>1, <2>2, <2>3
<1>6. ReceiverAt'
  BY <1>0, <1>1, <1>2, <1>3, <1>4 DEF ReceiverAt
<1>7. scan.left = {}
  BY <1>1, <1>3 DEF ScanAt
<1>8. ScanAt'
  BY <1>7 DEF ScanAt
<1> QED BY <1>5, <1>6, <1>8 DEF Lockstep

LEMMA TrainLock ==
  ASSUME Typed, Lockstep, Train, UNCHANGED <<config, watch, lastStep, scan, epoch>>
  PROVE  Lockstep'
<1>0. config.resume \in Nat /\ Step = 0 .. (MaxSteps + 1) /\ MaxSteps \in Nat \ {0}
  BY ResumeType
<1>1. TrainerAt /\ ReceiverAt /\ ScanAt
  BY DEF Lockstep
<1>2. /\ trainer = "train" /\ UNCHANGED stage
      /\ IF progress >= MaxSteps \/ OnlineEvalStep(progress)
         THEN offer' = progress /\ trainer' = "make" /\ UNCHANGED progress
         ELSE progress' = progress + 1 /\ UNCHANGED <<offer, trainer>>
  BY DEF Train
<1>3. /\ offer \in Nat /\ progress \in Nat /\ offer \in Step /\ progress \in Step /\ lastStep = offer
      /\ offer < progress /\ stage[offer] = "finished" /\ watch \notin {"startup", "receive"}
      /\ \A d \in Step : offer < d /\ d < progress => ~DueAt(d)
      /\ stage[progress] = "none"
  <2>1. /\ offer \in Nat /\ progress \in Nat /\ offer \in Step /\ progress \in Step
        /\ lastStep = offer /\ offer < progress /\ stage[offer] = "finished"
        /\ \A d \in Step : offer < d /\ d < progress => ~DueAt(d)
    BY <1>0, <1>1, <1>2 DEF TrainerAt
  <2>2. watch \notin {"startup", "receive"}
    BY <1>1, <2>1 DEF ReceiverAt
  <2>3. stage[progress] = "none"
    <3>1. progress > lastStep /\ progress # offer /\ progress \in Step
      BY <2>1
    <3>2. \A s \in Step : s > lastStep /\ s # offer => stage[s] = "none"
      BY <1>1 DEF ReceiverAt
    <3> QED BY <3>1, <3>2
  <2> QED BY <2>1, <2>2, <2>3
<1>4. scan.left = {}
  BY <1>1, <1>3 DEF ScanAt
<1>5. ScanAt'
  BY <1>4 DEF ScanAt
<1>6. CASE DueAt(progress)
  <2>1. offer' = progress /\ trainer' = "make" /\ UNCHANGED progress
    BY <1>2, <1>6 DEF DueAt
  <2>2. TrainerAt'
    BY <1>0, <1>1, <1>2, <1>3, <2>1 DEF TrainerAt
  <2>3. ReceiverAt'
    <3>1. /\ \A s \in Step : s > lastStep /\ s # offer => stage[s] = "none"
          /\ lastStep \in Step /\ epoch = lastStep /\ config.resume <= lastStep
          /\ watch = "startup load" => lastStep = config.resume
      BY <1>1 DEF ReceiverAt
    <3>2. \A s \in Step : s > lastStep => s # offer
      BY <1>0, <1>3
    <3>3. (\A s \in Step : s > lastStep /\ s # offer => stage[s] = "none")'
      BY <1>2, <3>1, <3>2
    <3>4. (\A d \in Step : lastStep < d /\ d < offer => ~DueAt(d))'
      BY <1>3, <2>1 DEF DueAt, OnlineEvalStep
    <3>5. (config.resume <= lastStep /\ lastStep <= offer /\ lastStep \in Step /\ epoch = lastStep)'
      <4>1. lastStep <= progress
        BY <1>3
      <4> QED BY <2>1, <3>1, <4>1
    <3>6. (stage[offer] \notin {"acked", "finished"})'
      BY <1>2, <1>3, <2>1
    <3> HIDE <1>0, <1>1, <1>2
    <3> QED BY <1>3, <2>1, <3>1, <3>3, <3>4, <3>5, <3>6 DEF ReceiverAt
  <2> QED BY <1>5, <2>2, <2>3 DEF Lockstep
<1>7. CASE ~DueAt(progress)
  <2>1. progress' = progress + 1 /\ UNCHANGED <<offer, trainer>> /\ progress < MaxSteps
    BY <1>0, <1>2, <1>3, <1>7 DEF DueAt
  <2>2. \A d \in Step : offer < d /\ d < progress + 1 => ~DueAt(d)
    BY <1>0, <1>3, <1>7
  <2>3. progress + 1 \in 1 .. (MaxSteps + 1) /\ config.resume < progress + 1
        /\ progress + 1 <= MaxSteps /\ offer < progress + 1
    BY <1>0, <1>1, <1>3, <2>1 DEF TrainerAt
  <2>4. TrainerAt'
    BY <1>1, <1>2, <1>3, <2>1, <2>2, <2>3 DEF TrainerAt
  <2>5. ReceiverAt'
    BY <1>1, <1>2, <1>3, <2>1 DEF ReceiverAt
  <2> QED BY <1>5, <2>4, <2>5 DEF Lockstep
<1> QED BY <1>6, <1>7


LEMMA TrainerLock == ASSUME Typed, Lockstep, Trainer PROVE Lockstep'
<1>1. UNCHANGED <<config, watch, lastStep, scan, epoch>>
  BY DEF Trainer
<1> QED BY <1>1, MakeDirLock, OfferLock, TransferLock, CleanLock, TrainLock DEF Trainer

(* A step that stays within an epoch leaves the lockstep alone.            *)
LEMMA QuietLock ==
  ASSUME Lockstep, UNCHANGED <<config, trainer, progress, offer, stage, lastStep, scan, epoch>>,
         \/ watch' = watch
         \/ /\ scan.left = {} /\ watch # "startup"
            /\ watch' \in {"scan", "walk", "consume", "join", "done"}
  PROVE  Lockstep'
<1>1. TrainerAt'
  BY DEF Lockstep, TrainerAt, ReceiverAt
<1>2. ReceiverAt'
  BY DEF Lockstep, ReceiverAt, DueAt, OnlineEvalStep
<1>3. ScanAt'
  BY DEF Lockstep, ScanAt
<1> QED BY <1>1, <1>2, <1>3 DEF Lockstep

LEMMA AcknowledgeLock ==
  ASSUME Typed, Lockstep, Acknowledge, UNCHANGED <<config, trainer, progress, offer>>
  PROVE  Lockstep'
<1>1. TrainerAt /\ ReceiverAt /\ ScanAt
  BY DEF Lockstep
<1>2. /\ watch \in {"startup", "receive"}
      /\ watch = "startup" => stage[epoch] = "offered"
      /\ stage' = [stage EXCEPT ![epoch] = "acked"]
      /\ watch' = IF watch = "startup" THEN "startup load" ELSE "load"
      /\ UNCHANGED <<lastStep, scan, epoch>>
  BY DEF Acknowledge
<1>3. epoch = offer /\ lastStep = offer /\ trainer = "wait"
  <2>1. CASE watch = "startup"
    <3>1. epoch = offer /\ lastStep = offer /\ stage[offer] = "offered"
      BY <1>1, <1>2, <2>1 DEF ReceiverAt
    <3> QED BY <1>1, <3>1 DEF TrainerAt
  <2>2. CASE watch = "receive"
    BY <1>1, <2>2 DEF ReceiverAt
  <2> QED BY <1>2, <2>1, <2>2
<1>4. /\ stage' \in [Step -> {"none", "made", "offered", "acked", "finished"}]
      /\ stage'[offer] = "acked" /\ \A s \in Step : s # offer => stage'[s] = stage[s]
  BY <1>1, <1>2, <1>3 DEF TrainerAt
<1>5. TrainerAt'
  BY <1>1, <1>2, <1>3, <1>4 DEF TrainerAt
<1>6. ReceiverAt'
  <2>1. \A s \in Step : s > lastStep /\ s # offer => stage'[s] = "none"
    BY <1>1, <1>4 DEF ReceiverAt
  <2>2. /\ lastStep \in Step /\ config.resume <= lastStep /\ lastStep <= offer
        /\ \A d \in Step : lastStep < d /\ d < offer => ~DueAt(d)
        /\ watch = "startup" => lastStep = config.resume
    BY <1>1 DEF ReceiverAt
  <2>3. watch' \in {"startup load", "load"} /\ (watch' = "startup load" => watch = "startup")
    BY <1>2
  <2> QED BY <1>2, <1>3, <2>1, <2>2, <2>3 DEF ReceiverAt, DueAt, OnlineEvalStep
<1>7. ScanAt'
  <2>1. scan.left = {}
    BY <1>1, <1>2 DEF ScanAt
  <2> QED BY <1>2, <2>1 DEF ScanAt
<1> QED BY <1>5, <1>6, <1>7 DEF Lockstep

(* A scan finds at most the version on offer: the ones before it were      *)
(* received, and none of the steps between was due.                        *)
LEMMA ScanLock ==
  ASSUME Typed, Lockstep, Scan, UNCHANGED <<config, trainer, progress, offer>>
  PROVE  Lockstep'
<1>0. Step = 0 .. (MaxSteps + 1) /\ MaxSteps \in Nat
  BY ResumeType
<1>1. TrainerAt /\ ReceiverAt /\ ScanAt
  BY DEF Lockstep
<1> DEFINE left == {s \in Listed \cup DeletedDue(Listed) : s > lastStep}
<1>2. /\ watch = "scan" /\ watch' = "walk" /\ UNCHANGED <<stage, lastStep, epoch>>
      /\ scan' = [left |-> left, listed |-> Listed, published |-> Published(Listed)]
  BY DEF Scan
<1>3. lastStep \in Nat /\ offer \in Nat /\ lastStep <= offer /\ offer \in Step
  <2>1. offer \in Step
    BY <1>1 DEF TrainerAt
  <2>2. lastStep \in Step /\ lastStep <= offer
    BY <1>1 DEF ReceiverAt
  <2> QED BY <1>0, <2>1, <2>2
<1>4. \A s \in Listed : s \in Step /\ (s > lastStep => s = offer)
  BY <1>1 DEF ReceiverAt, Listed
<1>5. \A s \in Published(Listed) :
        s \in Listed /\ s \in Step /\ stage[s] \in {"offered", "acked", "finished"}
  BY DEF Published, Listed
<1>6. ASSUME NEW s \in left PROVE s = offer /\ lastStep < offer /\ s \in Listed
  <2>1. s > lastStep /\ (s \in Listed \/ s \in DeletedDue(Listed))
    OBVIOUS
  <2>2. CASE s \in Listed
    <3>1. s = offer
      BY <1>4, <2>1, <2>2
    <3> QED BY <1>3, <2>1, <2>2, <3>1
  <2>3. CASE s \in DeletedDue(Listed)
    <3>1. s \in Step /\ OnlineEvalStep(s) /\ s \notin Listed
      BY <2>3 DEF DeletedDue
    <3>2. PICK t \in Published(Listed) : s <= t
      BY <2>3 DEF DeletedDue
    <3>3. t \in Listed /\ t > lastStep
      <4>1. t \in Nat /\ s \in Nat
        BY <1>0, <1>5, <3>1
      <4> QED BY <1>3, <1>5, <2>1, <3>2, <4>1
    <3>4. t = offer /\ s # offer
      BY <1>4, <3>1, <3>3
    <3>5. lastStep < s /\ s < offer
      BY <1>0, <1>3, <2>1, <3>1, <3>2, <3>4
    <3>6. ~DueAt(s)
      BY <1>1, <3>1, <3>5 DEF ReceiverAt
    <3> QED BY <3>1, <3>6 DEF DueAt
  <2> QED BY <2>1, <2>2, <2>3
<1>7. ASSUME lastStep < offer, NEW t \in Published(Listed)
      PROVE  t <= offer /\ (t = offer => stage[t] = "offered")
  <2>1. t \in Listed /\ t \in Nat /\ stage[t] \in {"offered", "acked", "finished"}
    BY <1>0, <1>5
  <2>2. t <= offer
    BY <1>3, <1>4, <2>1
  <2>3. stage[offer] \notin {"acked", "finished"}
    <3>1. lastStep # offer
      BY <1>3, <1>7
    <3> QED BY <1>1, <3>1 DEF ReceiverAt
  <2> QED BY <2>1, <2>2, <2>3
<1>8. ScanAt'
  <2>1. scan'.left = left /\ scan'.listed = Listed /\ scan'.published = Published(Listed)
    BY <1>2
  <2> HIDE DEF left
  <2>2. (\A s \in scan.left : s = offer /\ lastStep < offer /\ s \in scan.listed)'
    BY <1>2, <1>6, <2>1
  <2>3. (scan.left # {} => \A t \in scan.published : t <= offer /\ (t = offer => stage[t] = "offered"))'
    BY <1>2, <1>6, <1>7, <2>1
  <2> QED BY <1>2, <2>2, <2>3 DEF ScanAt
<1>9. TrainerAt'
  BY <1>1, <1>2 DEF TrainerAt
<1>10. ReceiverAt'
  BY <1>1, <1>2 DEF ReceiverAt, DueAt, OnlineEvalStep
<1> QED BY <1>8, <1>9, <1>10 DEF Lockstep

(* So the walk either leaves a version that is still being written to the  *)
(* next look, or receives the version on offer.                            *)
LEMMA WalkFacts ==
  ASSUME Typed, Lockstep, Walk
  PROVE  /\ scan'.left = {} /\ scan.left # {} /\ watch = "walk"
         /\ \/ UNCHANGED <<lastStep, epoch, pending, queue, paused, watch>>
            \/ /\ lastStep' = offer /\ Trigger(offer) /\ lastStep < offer
               /\ stage[offer] = "offered" /\ trainer = "wait"
<1>0. Step = 0 .. (MaxSteps + 1) /\ MaxSteps \in Nat
  BY ResumeType
<1>1. TrainerAt /\ ReceiverAt /\ ScanAt
  BY DEF Lockstep
<1>2. watch = "walk" /\ scan.left # {}
  BY DEF Walk
<1>3. scan.left = {offer} /\ lastStep < offer /\ offer \in scan.listed /\ offer \in Nat
      /\ \A t \in scan.published : t <= offer /\ (t = offer => stage[t] = "offered")
  BY <1>0, <1>1, <1>2 DEF ScanAt, TrainerAt
<1>4. LeastOf(scan.left) = offer
  BY <1>3 DEF LeastOf
<1>t. scan \in [left : SUBSET Step, listed : SUBSET Step, published : SUBSET Step]
  BY DEF Typed
<1>5. CASE StillWritten(offer)
  <2>1. scan' = [scan EXCEPT !.left = {}] /\ UNCHANGED <<lastStep, epoch, pending, queue, paused, watch>>
    BY <1>4, <1>5 DEF Walk
  <2>2. scan'.left = {}
    BY <1>t, <2>1
  <2> QED BY <1>2, <2>1, <2>2
<1>6. CASE ~StillWritten(offer)
  <2>1. offer \in scan.published
    <3>1. \E t \in scan.published : ~(t < offer) \/ offer \in scan.published
      BY <1>3, <1>6 DEF StillWritten
    <3>2. PICK t \in scan.published : ~(t < offer) \/ offer \in scan.published
      BY <3>1
    <3>3. t \in Nat
      BY <1>0, <1>t
    <3> QED BY <1>3, <3>2, <3>3
  <2>2. stage[offer] = "offered" /\ offer \in Step
    BY <1>1, <1>3, <2>1 DEF TrainerAt
  <2>3. offer \in Published(Listed)
    BY <2>2 DEF Published, Listed
  <2>4. ~PassedOver(offer)
    BY <1>3, <2>1, <2>3 DEF PassedOver
  <2>5. lastStep' = offer /\ Trigger(offer) /\ scan' = [scan EXCEPT !.left = scan.left \ {offer}]
    BY <1>4, <1>6, <2>4 DEF Walk
  <2>6. scan'.left = {}
    BY <1>t, <1>3, <2>5
  <2>7. trainer = "wait"
    <3>1. trainer \in {"make", "offer", "wait"}
      BY <1>1, <1>3 DEF ReceiverAt
    <3> QED BY <1>1, <2>2, <3>1 DEF TrainerAt
  <2> QED BY <1>2, <1>3, <2>2, <2>5, <2>6, <2>7
<1> QED BY <1>5, <1>6

LEMMA WalkLock ==
  ASSUME Typed, Lockstep, Walk, UNCHANGED <<config, trainer, progress, offer, stage>>
  PROVE  Lockstep'
<1>0. Step = 0 .. (MaxSteps + 1) /\ MaxSteps \in Nat /\ config.resume \in Nat
  BY ResumeType
<1>1. TrainerAt /\ ReceiverAt /\ ScanAt
  BY DEF Lockstep
<1>2. /\ scan'.left = {} /\ scan.left # {} /\ watch = "walk"
      /\ \/ UNCHANGED <<lastStep, epoch, pending, queue, paused, watch>>
         \/ /\ lastStep' = offer /\ Trigger(offer) /\ lastStep < offer
            /\ stage[offer] = "offered" /\ trainer = "wait"
  BY WalkFacts
<1>3. ScanAt'
  BY <1>2 DEF ScanAt
<1>4. CASE UNCHANGED <<lastStep, epoch, watch>>
  <2>1. TrainerAt'
    BY <1>1, <1>4 DEF TrainerAt
  <2>2. ReceiverAt'
    BY <1>1, <1>4 DEF ReceiverAt, DueAt, OnlineEvalStep
  <2> QED BY <1>3, <2>1, <2>2 DEF Lockstep
<1>5. CASE lastStep' = offer /\ Trigger(offer) /\ stage[offer] = "offered" /\ trainer = "wait"
  <2>1. epoch' = offer /\ watch' = "receive" /\ lastStep' = offer
    BY <1>5 DEF Trigger
  <2>2. offer \in Step /\ offer \in Nat /\ config.resume <= offer /\ lastStep <= offer
        /\ lastStep \in Nat
    <3>1. offer \in Step /\ offer \in Nat
      BY <1>0, <1>1 DEF TrainerAt
    <3>r. lastStep \in Step /\ lastStep <= offer /\ config.resume <= lastStep
      BY <1>1 DEF ReceiverAt
    <3>2. lastStep \in Nat /\ lastStep <= offer /\ config.resume <= lastStep
      BY <1>0, <3>r
    <3> QED BY <1>0, <3>1, <3>2
  <2>3. TrainerAt'
    BY <1>1, <1>5, <2>1 DEF TrainerAt
  <2>4. ReceiverAt'
    <3>1. \A s \in Step : s > offer /\ s # offer => stage[s] = "none"
      <4>1. \A s \in Step : s > offer => s > lastStep
        BY <1>0, <2>2
      <4>2. \A s \in Step : s > lastStep /\ s # offer => stage[s] = "none"
        BY <1>1 DEF ReceiverAt
      <4> QED BY <4>1, <4>2
    <3>2. \A d \in Step : ~(offer < d /\ d < offer)
      BY <1>0, <2>2
    <3>3. ~(offer < offer) /\ offer <= offer
      BY <2>2
    <3> HIDE <1>1
    <3> QED BY <1>5, <2>1, <2>2, <3>1, <3>2, <3>3 DEF ReceiverAt
  <2> QED BY <1>3, <2>3, <2>4 DEF Lockstep
<1> QED BY <1>2, <1>4, <1>5

LEMMA LockstepStep == Typed /\ Lockstep /\ [Next]_vars => Lockstep'
<1> SUFFICES ASSUME Typed, Lockstep, [Next]_vars PROVE Lockstep'
  OBVIOUS
<1>0. watch # "walk" => scan.left = {}
  BY DEF Lockstep, ScanAt
<1>1. CASE UNCHANGED vars
  BY <1>1, QuietLock DEF vars
<1>2. CASE Trainer
  BY <1>2, TrainerLock
<1>3. CASE Loop \/ Canceller
  BY <1>3, QuietLock DEF Loop, Canceller, trainerVars
<1>4. CASE Serve
  <2>1. UNCHANGED <<config, trainer, progress, offer>>
    BY <1>4 DEF Serve, trainerVars
  <2>2. CASE Acknowledge
    BY <2>1, <2>2, AcknowledgeLock
  <2>3. CASE Scan
    BY <2>1, <2>3, ScanLock
  <2>4. CASE Walk
    BY <2>1, <2>4, WalkLock DEF Walk
  <2>5. CASE StartupLoad
    <3>1. watch = "startup load" /\ watch' \in {"scan", "consume"}
          /\ UNCHANGED <<stage, lastStep, scan, epoch>>
      BY <2>5 DEF StartupLoad, Begin
    <3> QED BY <1>0, <2>1, <3>1, QuietLock
  <2>6. CASE Load
    <3>1. watch = "load" /\ watch' \in {"walk", "consume"}
          /\ UNCHANGED <<stage, lastStep, scan, epoch>>
      BY <2>6 DEF Load, Begin
    <3> QED BY <1>0, <2>1, <3>1, QuietLock
  <2>7. CASE EndWalk
    <3>1. scan.left = {} /\ watch = "walk" /\ watch' \in {"done", "scan"}
          /\ UNCHANGED <<stage, lastStep, scan, epoch>>
      BY <2>7 DEF EndWalk
    <3> QED BY <2>1, <3>1, QuietLock
  <2> QED BY <1>4, <2>2, <2>3, <2>4, <2>5, <2>6, <2>7 DEF Serve
<1>5. CASE Epoch
  <2>1. UNCHANGED <<config, trainer, progress, offer, stage, lastStep, scan, epoch>>
    BY <1>5 DEF Epoch, trainerVars
  <2>2. watch' = watch \/ (watch \in {"consume", "join"} /\ watch' \in {"scan", "walk", "join"})
    BY <1>5 DEF Epoch, Consume, Look, Join, AfterEpoch
  <2> QED BY <1>0, <2>1, <2>2, QuietLock
<1> QED BY <1>1, <1>2, <1>3, <1>4, <1>5 DEF Next

-----------------------------------------------------------------------------
(* What was reported: every version received whatever it had to, and what  *)
(* is being evaluated will.                                                *)
DueOrLast == epoch > config.resume => \A e \in pending : Due(e, epoch) \/ epoch >= MaxSteps
ReportedSoFar ==
  \A e \in Env : \A s \in (config.resume + 1) .. MaxSteps :
    reported[<<e, s>>] =
      IF s <= lastStep /\ (Due(e, s) \/ s = MaxSteps) /\ ~(s = epoch /\ e \in pending) THEN 1 ELSE 0
Reports ==
  /\ DueOrLast /\ ReportedSoFar
  /\ watch = "done" => lastStep >= MaxSteps

EvalInv == AttemptsInv /\ Lockstep /\ Reports

LEMMA EvalInit == Init => EvalInv
<1> SUFFICES ASSUME Init PROVE EvalInv
  OBVIOUS
<1>1. AttemptsInv /\ Lockstep
  BY AttemptsInit, LockstepInit
<1>2. config.resume \in Nat /\ MaxSteps \in Nat /\ Step = 0 .. (MaxSteps + 1)
  BY <1>1, ResumeType DEF AttemptsInv
<1>3. pending = {} /\ lastStep = config.resume /\ watch = "startup"
      /\ reported = [k \in Env \X Step |-> 0]
  BY DEF Init
<1>4. ASSUME NEW e \in Env, NEW s \in (config.resume + 1) .. MaxSteps
      PROVE  reported[<<e, s>>] = 0 /\ ~(s <= lastStep)
  <2>1. s \in Step /\ ~(s <= config.resume)
    BY <1>2
  <2> QED BY <1>3, <2>1
<1>5. Reports
  BY <1>3, <1>4 DEF Reports, DueOrLast, ReportedSoFar
<1> QED BY <1>1, <1>5 DEF EvalInv

LEMMA QuietReports ==
  ASSUME Reports, UNCHANGED <<config, lastStep, epoch, pending, reported>>,
         watch' = "done" => watch = "done" \/ lastStep >= MaxSteps
  PROVE  Reports'
  BY DEF Reports, DueOrLast, ReportedSoFar, Due

(* The sink takes a message of the epoch being evaluated.                  *)
LEMMA ConsumeFacts ==
  ASSUME AttemptsInv, Consume
  PROVE  \E r \in Request :
           /\ StepOf(r) = epoch /\ EnvOf(r) \in pending
           /\ \/ /\ reported' = [reported EXCEPT ![<<EnvOf(r), epoch>>] = @ + 1]
                 /\ pending' = pending \ {EnvOf(r)}
              \/ UNCHANGED <<reported, pending>>
<1>0. Typed /\ Account /\ WholeOnly
  BY DEF AttemptsInv
<1>1. outq # <<>> /\ SinkTake(Head(outq).request, Head(outq).members)
  BY DEF Consume
<1>2. 1 \in DOMAIN outq /\ outq[1] = Head(outq) /\ Head(outq) \in Message
  <2>1. outq \in Seq(Message)
    BY <1>0 DEF Typed
  <2> QED BY <1>1, <2>1
<1>3. PICK r \in Request : r = Head(outq).request
  BY <1>2, MessageParts
<1>4. PICK M \in SUBSET Members(r) : M # {} /\ M = Head(outq).members
  BY <1>2, <1>3, MessageParts
<1>5. \A k \in M : Out(r, k)
  BY <1>2, <1>3, <1>4 DEF Out, Carries
<1>6. StepOf(r) = epoch /\ EnvOf(r) \in pending
  BY <1>0, <1>4, <1>5 DEF Account, Somewhere, Active
<1>7. SinkTake(r, M)
  BY <1>1, <1>3, <1>4 DEF SinkTake
<1>8. \/ /\ reported' = [reported EXCEPT ![<<EnvOf(r), StepOf(r)>>] = @ + 1]
         /\ pending' = pending \ {EnvOf(r)}
      \/ UNCHANGED <<reported, pending>>
  BY <1>0, <1>7, SinkFacts
<1> QED BY <1>6, <1>8

LEMMA ConsumeReports ==
  ASSUME EvalInv, Consume, UNCHANGED <<config, lastStep, epoch>>
  PROVE  Reports'
<1>0. Typed /\ AttemptsInv /\ Lockstep /\ Reports
  BY DEF EvalInv, AttemptsInv
<1>1. config.resume \in Nat /\ MaxSteps \in Nat /\ Step = 0 .. (MaxSteps + 1)
  BY <1>0, ResumeType
<1>2. lastStep \in Step /\ epoch = lastStep /\ config.resume <= lastStep
  BY <1>0 DEF Lockstep, ReceiverAt
<1>3. watch' # "done"
  BY DEF Consume, AfterEpoch
<1>4. PICK r \in Request :
        /\ StepOf(r) = epoch /\ EnvOf(r) \in pending
        /\ \/ /\ reported' = [reported EXCEPT ![<<EnvOf(r), epoch>>] = @ + 1]
              /\ pending' = pending \ {EnvOf(r)}
           \/ UNCHANGED <<reported, pending>>
  BY <1>0, ConsumeFacts
<1>5. CASE UNCHANGED <<reported, pending>>
  BY <1>0, <1>3, <1>5, QuietReports
<1>6. CASE /\ reported' = [reported EXCEPT ![<<EnvOf(r), epoch>>] = @ + 1]
           /\ pending' = pending \ {EnvOf(r)}
  <2> DEFINE d == EnvOf(r)
  <2>1. d \in Env /\ d \in pending /\ reported \in [Env \X Step -> Nat]
    BY <1>0, <1>4, RequestParts DEF Typed
  <2> HIDE DEF d
  <2>2. \A e \in Env, s \in Step :
          reported'[<<e, s>>] = IF e = d /\ s = epoch THEN reported[<<e, s>>] + 1
                                ELSE reported[<<e, s>>]
    BY <1>2, <1>6, <2>1 DEF d
  <2>3. DueOrLast'
    BY <1>0, <1>6 DEF Reports, DueOrLast, Due
  <2>4. ASSUME NEW e \in Env, NEW s \in (config.resume + 1) .. MaxSteps
        PROVE  reported'[<<e, s>>] =
                 IF s <= lastStep /\ (Due(e, s) \/ s = MaxSteps) /\ ~(s = epoch /\ e \in pending')
                 THEN 1 ELSE 0
    <3>1. s \in Step /\ s \in Nat /\ s <= MaxSteps /\ config.resume < s
      BY <1>1
    <3>2. reported[<<e, s>>] =
            IF s <= lastStep /\ (Due(e, s) \/ s = MaxSteps) /\ ~(s = epoch /\ e \in pending)
            THEN 1 ELSE 0
      BY <1>0 DEF Reports, ReportedSoFar
    <3>3. CASE e # d \/ s # epoch
      <4>1. reported'[<<e, s>>] = reported[<<e, s>>]
        BY <2>2, <3>1, <3>3
      <4>2. (s = epoch /\ e \in pending') <=> (s = epoch /\ e \in pending)
        BY <1>6, <3>3 DEF d
      <4> QED BY <3>2, <4>1, <4>2
    <3>4. CASE e = d /\ s = epoch
      <4>1. reported[<<e, s>>] = 0 /\ reported'[<<e, s>>] = 0 + 1
        BY <2>1, <2>2, <3>1, <3>2, <3>4
      <4>2. Due(e, s) \/ s = MaxSteps
        <5>1. Due(e, s) \/ s >= MaxSteps
          BY <1>0, <2>1, <3>1, <3>4 DEF Reports, DueOrLast
        <5> QED BY <1>1, <3>1, <5>1
      <4>3. e \notin pending' /\ s <= lastStep
        BY <1>2, <1>6, <3>1, <3>4 DEF d
      <4> QED BY <4>1, <4>2, <4>3
    <3> QED BY <3>3, <3>4
  <2>5. ReportedSoFar'
    BY <2>4 DEF ReportedSoFar, Due
  <2> QED BY <1>3, <2>3, <2>5 DEF Reports
<1> QED BY <1>4, <1>5, <1>6

(* A version is received: what was due before it was, and this is to come. *)
LEMMA WalkReports ==
  ASSUME EvalInv, Walk, UNCHANGED <<config, reported>>
  PROVE  Reports'
<1>0. Typed /\ AttemptsInv /\ Lockstep /\ Reports
  BY DEF EvalInv, AttemptsInv
<1>1. config.resume \in Nat /\ MaxSteps \in Nat /\ Step = 0 .. (MaxSteps + 1)
  BY <1>0, ResumeType
<1>2. \/ UNCHANGED <<lastStep, epoch, pending, queue, paused, watch>>
      \/ lastStep' = offer /\ Trigger(offer) /\ lastStep < offer
  BY <1>0, WalkFacts
<1>3. CASE UNCHANGED <<lastStep, epoch, pending, queue, paused, watch>>
  BY <1>0, <1>3, QuietReports
<1>4. CASE lastStep' = offer /\ Trigger(offer) /\ lastStep < offer
  <2>1. epoch' = offer /\ pending' = Fired(offer, offer >= MaxSteps) /\ watch' = "receive"
    BY <1>4 DEF Trigger
  <2>2. pending = {}
    BY <1>0 DEF AttemptsInv, Serving, Walk
  <2>3. /\ lastStep \in Nat /\ offer \in Nat /\ offer <= MaxSteps + 1
        /\ \A d \in Step : lastStep < d /\ d < offer => ~DueAt(d)
    <3>1. lastStep \in Step /\ \A d \in Step : lastStep < d /\ d < offer => ~DueAt(d)
      BY <1>0 DEF Lockstep, ReceiverAt
    <3>2. offer \in Step
      BY <1>0 DEF Lockstep, TrainerAt
    <3> QED BY <1>1, <3>1, <3>2
  <2>4. DueOrLast'
    BY <2>1 DEF DueOrLast, Fired, Due
  <2>5. ASSUME NEW e \in Env, NEW s \in (config.resume + 1) .. MaxSteps
        PROVE  reported[<<e, s>>] =
                 IF s <= offer /\ (Due(e, s) \/ s = MaxSteps) /\ ~(s = offer /\ e \in pending')
                 THEN 1 ELSE 0
    <3>1. s \in Step /\ s \in Nat /\ s <= MaxSteps
      BY <1>1
    <3>2. reported[<<e, s>>] = IF s <= lastStep /\ (Due(e, s) \/ s = MaxSteps) THEN 1 ELSE 0
      BY <1>0, <2>2 DEF Reports, ReportedSoFar
    <3>3. CASE s <= lastStep
      <4>1. s <= offer /\ s # offer
        BY <1>4, <2>3, <3>1, <3>3
      <4> QED BY <3>2, <3>3, <4>1
    <3>4. CASE s > lastStep /\ s < offer
      <4>1. ~DueAt(s)
        BY <2>3, <3>1, <3>4
      <4>2. ~(s <= lastStep) /\ ~Due(e, s) /\ s # MaxSteps
        BY <1>1, <2>3, <3>1, <3>4, <4>1 DEF DueAt, OnlineEvalStep
      <4> QED BY <3>2, <4>2
    <3>5. CASE s = offer
      <4>1. ~(s <= lastStep)
        BY <1>4, <2>3, <3>5
      <4>2. Due(e, s) \/ s = MaxSteps => e \in pending'
        BY <1>1, <2>1, <3>1, <3>5 DEF Fired
      <4> QED BY <3>2, <3>5, <4>1, <4>2
    <3>6. CASE s > offer
      <4>1. ~(s <= lastStep) /\ ~(s <= offer)
        BY <1>4, <2>3, <3>1, <3>6
      <4> QED BY <3>2, <4>1
    <3> QED BY <2>3, <3>1, <3>3, <3>4, <3>5, <3>6
  <2>6. ReportedSoFar'
    BY <1>4, <2>1, <2>5 DEF ReportedSoFar, Due
  <2> QED BY <2>1, <2>4, <2>6 DEF Reports
<1> QED BY <1>2, <1>3, <1>4

LEMMA EvalStep == EvalInv /\ [Next]_vars => EvalInv'
<1> SUFFICES ASSUME EvalInv, [Next]_vars PROVE EvalInv'
  OBVIOUS
<1>0. Typed /\ AttemptsInv /\ Lockstep /\ Reports
  BY DEF EvalInv, AttemptsInv
<1>1. AttemptsInv' /\ Lockstep'
  BY <1>0, AttemptsStep, LockstepStep
<1> SUFFICES Reports'
  BY <1>1 DEF EvalInv
<1>2. CASE UNCHANGED vars
  BY <1>0, <1>2, QuietReports DEF vars
<1>3. CASE Trainer \/ Loop \/ Canceller
  BY <1>0, <1>3, QuietReports DEF Trainer, Loop, Canceller, sinkVars
<1>4. CASE Serve
  <2>1. UNCHANGED <<config, reported>>
    BY <1>4 DEF Serve, sinkVars
  <2>2. CASE Acknowledge \/ Scan \/ Load
    <3>1. UNCHANGED <<lastStep, epoch, pending>> /\ watch' # "done"
      BY <2>2 DEF Acknowledge, Scan, Load, Begin
    <3> QED BY <1>0, <2>1, <3>1, QuietReports
  <2>3. CASE EndWalk
    <3>1. UNCHANGED <<lastStep, epoch, pending>> /\ (watch' = "done" => lastStep >= MaxSteps)
      BY <2>3 DEF EndWalk
    <3> QED BY <1>0, <2>1, <3>1, QuietReports
  <2>4. CASE Walk
    BY <2>1, <2>4, WalkReports
  <2>5. CASE StartupLoad
    <3>1. watch = "startup load" /\ UNCHANGED <<lastStep, epoch>> /\ watch' # "done"
      BY <2>5 DEF StartupLoad, Begin
    <3>2. epoch = config.resume /\ config.resume \in Nat /\ MaxSteps \in Nat
      BY <1>0, <3>1, ResumeType DEF Lockstep, ReceiverAt
    <3>3. \A s \in (config.resume + 1) .. MaxSteps : s # epoch
      BY <3>2
    <3>4. ~(epoch > config.resume)
      BY <3>2
    <3>5. ReportedSoFar'
      <4>1. \A e \in Env : \A s \in (config.resume + 1) .. MaxSteps :
              reported[<<e, s>>] = IF s <= lastStep /\ (Due(e, s) \/ s = MaxSteps) THEN 1 ELSE 0
        BY <1>0, <3>3 DEF Reports, ReportedSoFar
      <4> QED BY <2>1, <3>1, <3>3, <4>1 DEF ReportedSoFar, Due
    <3>6. DueOrLast'
      BY <2>1, <3>1, <3>4 DEF DueOrLast
    <3> QED BY <3>1, <3>5, <3>6 DEF Reports
  <2> QED BY <1>4, <2>2, <2>3, <2>4, <2>5 DEF Serve
<1>5. CASE Epoch
  <2>1. UNCHANGED <<config, lastStep, epoch>>
    BY <1>5 DEF Epoch
  <2>2. CASE Consume
    BY <2>1, <2>2, ConsumeReports
  <2>3. CASE Look \/ Join
    <3>1. UNCHANGED <<pending, reported>> /\ (watch' = "done" => watch = "done")
      BY <2>3 DEF Look, Join, AfterEpoch, sinkVars
    <3> QED BY <1>0, <2>1, <3>1, QuietReports
  <2> QED BY <1>5, <2>2, <2>3 DEF Epoch
<1> QED BY <1>2, <1>3, <1>4, <1>5 DEF Next

(* A run that ends has reported every environment exactly once at every    *)
(* step it was due and all of them at the last, whatever was superseded    *)
(* and wherever the run was resumed.                                       *)
THEOREM DueOnce == Spec => []DueEpochsReported
<1>1. EvalInv => DueEpochsReported
  <2> SUFFICES ASSUME EvalInv, watch = "done", NEW e \in Env,
                      NEW s \in (config.resume + 1) .. MaxSteps
               PROVE  reported[<<e, s>>] = IF Due(e, s) \/ s = MaxSteps THEN 1 ELSE 0
    BY DEF DueEpochsReported
  <2>1. pending = {} /\ Typed
    BY DEF EvalInv, AttemptsInv, Serving
  <2>2. config.resume \in Nat /\ MaxSteps \in Nat /\ Step = 0 .. (MaxSteps + 1)
    BY <2>1, ResumeType
  <2>3. lastStep \in Step /\ lastStep >= MaxSteps
    BY DEF EvalInv, Reports, Lockstep, ReceiverAt
  <2>4. s <= lastStep
    BY <2>2, <2>3
  <2> QED BY <2>1, <2>4 DEF EvalInv, Reports, ReportedSoFar
<1> QED BY <1>1, EvalInit, EvalStep, PTL DEF Spec

=============================================================================
