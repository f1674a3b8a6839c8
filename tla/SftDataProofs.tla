---------------------------- MODULE SftDataProofs ----------------------------
(***************************************************************************)
(* Proofs about SftData: every row trains (RowsTrain), for any number of   *)
(* workers, and the stream is intact (StreamIntact) with one worker to a   *)
(* rank.                                                                   *)
(*                                                                         *)
(* RowsTrain.  A pack is open as long as each of its samples was added to  *)
(* what left room for it (Open), and closed when a row is made of it       *)
(* (Closed); of a closed pack a row keeps every sample whole unless it is  *)
(* alone (RowKeeps).  What _process lets through has a trained token       *)
(* within the first SeqLen and no image across its end (ContentTrains), so *)
(* even the sample that is cut trains (RowTrains).  RowsInv says that      *)
(* queues, rows taken, weights and checkpoints hold nothing else.          *)
(*                                                                         *)
(* StreamIntact.  The due positions of a rank are its shard D.  A row      *)
(* follows position a (RowIn) if its samples are the next of D after a, in *)
(* order, up to where the row was full or the next sample did not fit; so  *)
(* where a row begins says what it is (RowUnique), and how many rows came  *)
(* first says where (ChainUnique).  StreamInv says that the weights, the   *)
(* rows taken, the queue, the open pack and the dataset's position follow  *)
(* one another (Place), that the loader state kept stands where the rows   *)
(* taken end, and the same of every whole checkpoint (Saved): a sample     *)
(* held back is in the state as pending, and what was only prefetched or   *)
(* packed is not, so a launch draws it again.  A rank that is back at a    *)
(* step it has saved before overwrites its own loader file under the old   *)
(* model; ChainUnique says that this changes nothing.                      *)
(***************************************************************************)
EXTENDS SftData, FiniteSetTheorems, WellFoundedInduction, TLAPS

-----------------------------------------------------------------------------
(* Numbers.                                                                *)

(* Every set of numbers that is not empty has a least one.                 *)
LEMMA LeastNumber ==
  ASSUME NEW T \in SUBSET Nat, T # {}
  PROVE  \E n \in T : \A m \in T : n <= m
<1>1. PICK n \in T : \A m \in T : ~ (<<m, n>> \in OpToRel(<, Nat))
  BY NatLessThanWellFounded, WFMin, Zenon
<1>2. \A m \in T : ~ (m < n)
  BY <1>1 DEF OpToRel
<1> QED BY <1>2

(* What holds of 0 and is handed on from each number to the next holds of  *)
(* all.                                                                    *)
LEMMA Counting ==
  ASSUME NEW G, 0 \in G, \A n \in Nat : n \in G => n + 1 \in G
  PROVE  \A n \in Nat : n \in G
<1> DEFINE Bad == {n \in Nat : n \notin G}
<1> SUFFICES ASSUME Bad # {} PROVE FALSE
  OBVIOUS
<1>1. PICK n \in Bad : \A m \in Bad : n <= m
  <2> HIDE DEF Bad
  <2>1. Bad \in SUBSET Nat
    BY DEF Bad
  <2> QED BY <2>1, LeastNumber
<1>2. n # 0
  OBVIOUS
<1>3. n - 1 \in Nat /\ n - 1 \notin Bad
  BY <1>1, <1>2
<1> QED BY <1>3

(* Min of such a set is its least number.                                  *)
LEMMA MinOf ==
  ASSUME NEW T \in SUBSET Nat, T # {}
  PROVE  Min(T) \in T /\ \A m \in T : Min(T) <= m
<1>1. \E n \in T : \A m \in T : n <= m
  BY LeastNumber
<1> QED BY <1>1, Zenon DEF Min

(* A larger number has no smaller quotient.                                *)
LEMMA Quotients ==
  ASSUME NEW u \in Nat, NEW t \in Nat \ {0}
  PROVE  /\ u \div t \in Nat /\ (u + 1) \div t \in Nat
         /\ u \div t <= (u + 1) \div t
         /\ 0 \div t = 0
<1>1. /\ u \div t \in Int /\ u % t \in 0 .. (t - 1) /\ u = t * (u \div t) + (u % t)
  OBVIOUS
<1>2. /\ (u + 1) \div t \in Int /\ (u + 1) % t \in 0 .. (t - 1)
      /\ u + 1 = t * ((u + 1) \div t) + ((u + 1) % t)
  OBVIOUS
<1>0. /\ 0 \div t \in Int /\ 0 % t \in 0 .. (t - 1) /\ 0 = t * (0 \div t) + (0 % t)
  OBVIOUS
<1>3. ASSUME NEW x \in Int, NEW y \in Int, x < y PROVE t * x + t <= t * y
  <2>1. t * (x + 1) <= t * y
    <3>1. y - (x + 1) \in Nat
      BY <1>3
    <3>2. t * (y - (x + 1)) >= 0
      BY <3>1
    <3>3. t * (y - (x + 1)) = t * y - t * (x + 1)
      OBVIOUS
    <3> QED BY <3>2, <3>3
  <2>2. t * (x + 1) = t * x + t
    OBVIOUS
  <2> QED BY <2>1, <2>2
<1>4. t * 0 = 0
  OBVIOUS
<1> DEFINE a == u \div t
           b == (u + 1) \div t
           z == 0 \div t
           ra == u % t
           rb == (u + 1) % t
           rz == 0 % t
<1>5. /\ a \in Int /\ b \in Int /\ z \in Int
      /\ ra \in 0 .. (t - 1) /\ rb \in 0 .. (t - 1) /\ rz \in 0 .. (t - 1)
      /\ u = t * a + ra /\ u + 1 = t * b + rb /\ 0 = t * z + rz
  BY <1>0, <1>1, <1>2
<1>6. a >= 0 /\ b >= 0 /\ z = 0 /\ a <= b
  <2> HIDE DEF a, b, z, ra, rb, rz
  <2>1. a >= 0
    <3>1. a < 0 => t * a + t <= t * 0
      BY <1>3, <1>5
    <3> QED BY <1>4, <1>5, <3>1
  <2>2. b >= 0
    <3>1. b < 0 => t * b + t <= t * 0
      BY <1>3, <1>5
    <3> QED BY <1>4, <1>5, <3>1
  <2>3. z = 0
    <3>1. z < 0 => t * z + t <= t * 0
      BY <1>3, <1>5
    <3>2. 0 < z => t * 0 + t <= t * z
      BY <1>3, <1>5
    <3> QED BY <1>4, <1>5, <3>1, <3>2
  <2>4. a <= b
    <3>1. b < a => t * b + t <= t * a
      BY <1>3, <1>5
    <3> QED BY <1>5, <3>1
  <2> QED BY <2>1, <2>2, <2>3, <2>4
<1> QED BY <1>5, <1>6

(* Min of two numbers is the smaller.                                      *)
LEMMA MinOfTwo ==
  ASSUME NEW a \in Nat, NEW b \in Nat
  PROVE  Min({a, b}) \in Nat /\ Min({a, b}) = IF a <= b THEN a ELSE b
<1>1. Min({a, b}) \in {a, b} /\ \A m \in {a, b} : Min({a, b}) <= m
  <2>1. {a, b} \in SUBSET Nat /\ {a, b} # {}
    OBVIOUS
  <2> QED BY <2>1, MinOf, Zenon
<1> HIDE DEF Min
<1> QED BY <1>1

(* f adds up the weights w of the elements of each subset of S.            *)
Adds(f, w, S) ==
  f = [s \in SUBSET S |->
         IF s = {} THEN 0
         ELSE w[CHOOSE x \in s : TRUE] + f[s \ {CHOOSE x \in s : TRUE}]]

(* The fold over the subsets of a finite set that Size is has a solution.  *)
LEMMA FoldExists ==
  ASSUME NEW S, IsFiniteSet(S), NEW w
  PROVE  \E f : Adds(f, w, S)
<1> DEFINE c(s) == CHOOSE x \in s : TRUE
           L(n) == {s \in SUBSET S : Cardinality(s) <= n}
           Part(f, n) == f = [s \in L(n) |-> IF s = {} THEN 0 ELSE w[c(s)] + f[s \ {c(s)}]]
           Bad == {n \in Nat : ~ \E f : Part(f, n)}
<1>0. \A s \in SUBSET S : IsFiniteSet(s) /\ Cardinality(s) \in Nat /\ Cardinality(s) <= Cardinality(S)
  BY FS_Subset, FS_CardinalityType
<1>c. \A s : s # {} => c(s) \in s
  OBVIOUS
<1>d. \A s \in SUBSET S : s # {} => s \ {c(s)} \in SUBSET S /\ Cardinality(s \ {c(s)}) = Cardinality(s) - 1
  BY <1>0, <1>c, FS_RemoveElement
<1>1. Part([s \in L(0) |-> 0], 0)
  <2>1. \A s \in L(0) : s = {}
    BY <1>0, FS_EmptySet
  <2> QED BY <2>1
<1>2. ASSUME NEW n \in Nat, \E f : Part(f, n)
      PROVE  \E f : Part(f, n + 1)
  <2>1. PICK f : Part(f, n)
    BY <1>2
  <2> DEFINE g == [s \in L(n + 1) |-> IF s = {} THEN 0 ELSE w[c(s)] + f[s \ {c(s)}]]
  <2>2. \A s \in L(n) : g[s] = f[s] /\ s \in L(n + 1)
    <3> HIDE DEF c
    <3>1. \A s \in L(n) : f[s] = IF s = {} THEN 0 ELSE w[c(s)] + f[s \ {c(s)}]
      BY <2>1
    <3>2. \A s \in L(n) : s \in L(n + 1)
      BY <1>0
    <3> QED BY <3>1, <3>2
  <2>3. \A s \in L(n + 1) : s # {} => s \ {c(s)} \in L(n)
    BY <1>0, <1>d
  <2>4. Part(g, n + 1)
    <3> HIDE DEF c, L
    <3> SUFFICES \A s \in L(n + 1) : s # {} => f[s \ {c(s)}] = g[s \ {c(s)}]
      OBVIOUS
    <3> QED BY <2>2, <2>3
  <2> QED BY <2>4
<1>3. Bad = {}
  <2> HIDE DEF Part
  <2> SUFFICES ASSUME Bad # {} PROVE FALSE
    OBVIOUS
  <2>1. PICK n \in Bad : \A m \in Bad : n <= m
    <3> HIDE DEF Bad
    <3>1. Bad \in SUBSET Nat
      BY DEF Bad
    <3> QED BY <3>1, LeastNumber
  <2>2. n # 0
    BY <1>1
  <2>3. n - 1 \in Nat /\ n - 1 \notin Bad
    BY <2>1, <2>2
  <2>4. \E f : Part(f, (n - 1) + 1)
    BY <2>3, <1>2
  <2> QED BY <2>1, <2>4
<1>4. PICK f : Part(f, Cardinality(S))
  BY <1>0, <1>3
<1>5. L(Cardinality(S)) = SUBSET S
  BY <1>0
<1> QED BY <1>4, <1>5 DEF Adds

(* What numbers w add up to over a finite set is a number: none over no    *)
(* element, and that of the element over one.                              *)
LEMMA SumTyped ==
  ASSUME NEW w, IsFiniteSet(DOMAIN w), \A t \in DOMAIN w : w[t] \in Nat
  PROVE  /\ SumFunction(w) \in Nat
         /\ DOMAIN w = {} => SumFunction(w) = 0
         /\ \A x : DOMAIN w = {x} => SumFunction(w) = w[x]
<1> DEFINE S == DOMAIN w
<1> DEFINE iter == CHOOSE f : Adds(f, w, S)
           c(s) == CHOOSE x \in s : TRUE
<1>1. SumFunction(w) = iter[S]
  BY DEF SumFunction, SumFunctionOnSet, FoldFunctionOnSet, MapThenFoldSet, Adds
<1>2. Adds(iter, w, S)
  <2>1. \E f : Adds(f, w, S)
    BY FoldExists
  <2> QED BY <2>1, Zenon
<1> HIDE DEF iter
<1> DEFINE Bad == {Cardinality(s) : s \in {s \in SUBSET S : iter[s] \notin Nat}}
<1>3. \A s \in SUBSET S : iter[s] = IF s = {} THEN 0 ELSE w[c(s)] + iter[s \ {c(s)}]
  BY <1>2 DEF Adds
<1>4. \A s \in SUBSET S : /\ IsFiniteSet(s) /\ Cardinality(s) \in Nat
                          /\ s # {} => /\ c(s) \in s
                                       /\ Cardinality(s \ {c(s)}) = Cardinality(s) - 1
  BY FS_Subset, FS_CardinalityType, FS_RemoveElement
<1>5. Bad = {}
  <2> SUFFICES ASSUME Bad # {} PROVE FALSE
    OBVIOUS
  <2> HIDE DEF c
  <2>1. PICK n \in Bad : \A m \in Bad : n <= m
    <3>1. Bad \in SUBSET Nat
      BY <1>4
    <3> HIDE DEF Bad
    <3> QED BY <3>1, LeastNumber
  <2>2. PICK s \in SUBSET S : n = Cardinality(s) /\ iter[s] \notin Nat
    BY <2>1
  <2>3. s # {}
    <3>1. s = {} => iter[s] = 0
      BY <1>3
    <3> QED BY <2>2, <3>1
  <2>4. iter[s \ {c(s)}] \in Nat
    <3>1. s \ {c(s)} \in SUBSET S
      OBVIOUS
    <3>3. ~ (n <= Cardinality(s \ {c(s)}))
      BY <1>4, <2>2, <2>3
    <3>4. iter[s \ {c(s)}] \notin Nat => Cardinality(s \ {c(s)}) \in Bad
      BY <3>1
    <3> QED BY <2>1, <3>3, <3>4
  <2>5. w[c(s)] \in Nat
    BY <1>4, <2>3
  <2>6. iter[s] = w[c(s)] + iter[s \ {c(s)}]
    BY <1>3, <2>3
  <2> QED BY <2>2, <2>4, <2>5, <2>6
<1>6. iter[S] \in Nat
  BY <1>5
<1>7. S = {} => iter[S] = 0
  BY <1>3
<1>8. ASSUME NEW x, S = {x} PROVE iter[S] = w[x]
  <2>1. c(S) = x /\ S # {}
    BY <1>4, <1>8
  <2>2. iter[S] = w[x] + iter[{}]
    <3>1. S \ {x} = {}
      BY <1>8
    <3> HIDE DEF c
    <3> QED BY <1>3, <2>1, <3>1
  <2>3. iter[{}] = 0
    BY <1>3
  <2>4. w[x] \in Nat
    BY <1>8
  <2> QED BY <2>2, <2>3, <2>4
<1> QED BY <1>1, <1>6, <1>7, <1>8

-----------------------------------------------------------------------------
(* Samples and rows.  The positions due to a rank are its shard; a sample  *)
(* is drawn at one of them.                                                *)

Shard(c, r) ==
  {p \in Nat \ {0} : /\ (p - 1) % (World \div c) = r \div c
                     /\ ExampleOf(p) \in UsableExamples["train"]}
At(p) == [at |-> p, epoch |-> EpochAt("train", p)]
Draws(D) == {At(p) : p \in D}

(* What of an example a row may hold: it trains within the window, and its *)
(* images are those that begin in what is left of it.                      *)
LEMMA ContentTrains ==
  ASSUME NEW i \in UsableExamples["train"]
  PROVE  LET x == TrainData[i]
             y == Contents["train"][i]
         IN  /\ y.len \in Nat
             /\ \E t \in y.trains : t \in 1 .. SeqLen /\ t <= y.len
             /\ y.images = {p \in x.images : p.offset < y.len}
             /\ \A p \in y.images : p.offset + p.length <= y.len
             /\ x.images # {} => y.len <= SeqLen
<1> DEFINE x == TrainData[i]
           cut == SafeCut(x)
           y == Processed(x)
<1>1. i \in DOMAIN TrainData /\ Usable(x)
  BY DEF UsableExamples, Data, Mode
<1>2. Contents["train"][i] = y
  BY <1>1 DEF Contents, Data, Mode
<1>3. /\ x \in Example /\ x.trains \subseteq 1 .. x.len
      /\ x.images # {} => x.mm
      /\ \A p \in x.images : p.offset + p.length <= x.len
      /\ \A p, q \in x.images :
           p = q \/ p.offset + p.length <= q.offset \/ q.offset + q.length <= p.offset
  <2>1. Rendered(x) /\ x \in Example
    BY <1>1, SftAssumption DEF SftAssumption
  <2> QED BY <2>1 DEF Rendered
<1>4. /\ x.mm \in BOOLEAN /\ x.len \in Nat /\ x.trains \subseteq Nat
      /\ \A p \in x.images : p.offset \in Nat /\ p.length \in Nat \ {0}
  BY <1>3 DEF Example
<1>5. SeqLen \in Nat \ {0}
  BY SftAssumption DEF SftAssumption
<1>6. \E t \in y.trains : t \in 1 .. SeqLen
  BY <1>1 DEF Usable, TrainsInWindow
<1> HIDE DEF x
<1>7. CASE ~ Cuttable(x)
  <2>1. y = x
    BY <1>7 DEF Processed
  <2>2. x.images # {} => x.len <= SeqLen
    BY <1>3, <1>4, <1>5, <1>7 DEF Cuttable
  <2>3. \A p \in x.images : p.offset < x.len
    BY <1>3, <1>4
  <2> HIDE DEF y
  <2>4. x.images = {p \in x.images : p.offset < x.len}
    BY <2>3
  <2>5. \A t \in x.trains : t <= x.len
    BY <1>3, <1>4
  <2> QED BY <1>2, <1>3, <1>4, <1>6, <2>1, <2>2, <2>4, <2>5 DEF x
<1>8. CASE Cuttable(x)
  <2> DEFINE straddling == {p \in x.images : p.offset < SeqLen /\ SeqLen < p.offset + p.length}
  <2>1. /\ y.len = cut /\ y.trains = x.trains \cap 1 .. cut
        /\ y.images = {p \in x.images : p.offset + p.length <= cut}
    BY <1>3, <1>8 DEF Processed, Example
  <2>2. /\ cut \in Nat /\ cut <= SeqLen
        /\ \A p \in x.images : p.offset < cut => p.offset + p.length <= cut
    <3>1. CASE straddling = {}
      <4>1. cut = SeqLen
        BY <3>1 DEF SafeCut
      <4> HIDE DEF cut
      <4>2. ASSUME NEW p \in x.images, p.offset < cut PROVE p.offset + p.length <= cut
        BY <1>4, <1>5, <3>1, <4>1, <4>2
      <4> QED BY <1>5, <4>1, <4>2
    <3>2. CASE straddling # {}
      <4>1. PICK q \in straddling : cut = q.offset
        BY <3>2 DEF SafeCut
      <4>2. /\ q \in x.images /\ cut = q.offset /\ q.offset \in Nat /\ q.offset < SeqLen
        BY <1>4, <4>1
      <4> HIDE DEF cut, straddling
      <4>3. ASSUME NEW p \in x.images, p.offset < cut PROVE p.offset + p.length <= cut
        <5>1. p # q
          BY <1>4, <4>2, <4>3
        <5>2. p.offset + p.length <= q.offset \/ q.offset + q.length <= p.offset
          BY <1>3, <4>2, <5>1
        <5> QED BY <1>4, <4>2, <4>3, <5>2
      <4> QED BY <1>5, <4>2, <4>3
    <3> QED BY <3>1, <3>2
  <2> HIDE DEF cut, y
  <2>3. y.images = {p \in x.images : p.offset < cut}
    <3>1. \A p \in x.images : p.offset + p.length <= cut <=> p.offset < cut
      BY <1>4, <2>2
    <3> QED BY <2>1, <3>1
  <2>4. \A t \in y.trains : t <= cut
    BY <2>1, <2>2
  <2> QED BY <1>2, <1>6, <2>1, <2>2, <2>3, <2>4 DEF x
<1> QED BY <1>7, <1>8

(* What the proofs use of the constants.                                   *)
LEMMA Constants ==
  /\ World \in Nat \ {0} /\ RowLen \in Nat /\ SeqLen \in Nat \ {0} /\ SeqLen <= RowLen
  /\ GradAccum \in Nat \ {0} /\ MaxSteps \in Nat \ {0} /\ NumWorkers \in Nat \ {0}
  /\ CkptInterval \in Nat \ {0}
  /\ Len(TrainData) \in Nat \ {0}
<1>1. /\ World \in Nat \ {0} /\ SeqLen \in Nat \ {0} /\ MicroBatch \in Nat \ {0}
      /\ GradAccum \in Nat \ {0} /\ MaxSteps \in Nat \ {0} /\ NumWorkers \in Nat \ {0}
      /\ CkptInterval \in Nat \ {0}
      /\ Len(TrainData) > 0
  BY SftAssumption DEF SftAssumption
<1>2. SeqLen * MicroBatch \in Nat
  BY <1>1
<1>3. SeqLen * (MicroBatch - 1) \in Nat
  BY <1>1
<1>4. SeqLen * (MicroBatch - 1) = SeqLen * MicroBatch - SeqLen
  BY <1>1
<1>5. TrainData \in Seq(Example) /\ Len(TrainData) \in Nat
  BY SftAssumption DEF SftAssumption
<1> QED BY <1>1, <1>2, <1>3, <1>4, <1>5 DEF RowLen

(* A shard is made of positions, and its samples have contents.            *)
LEMMA ShardDraws ==
  ASSUME NEW c, NEW r, NEW x \in Draws(Shard(c, r))
  PROVE  /\ x.at \in Shard(c, r) /\ x.at \in Nat \ {0} /\ x = At(x.at)
         /\ x.epoch = EpochAt("train", x.at) /\ x.epoch \in Nat
         /\ Index("train", x.epoch, x.at) = ExampleOf(x.at)
         /\ ExampleOf(x.at) \in UsableExamples["train"]
         /\ Length("train", x) \in Nat
<1>1. PICK p \in Shard(c, r) : x = At(p)
  BY DEF Draws
<1>2. x.at = p /\ x.epoch = EpochAt("train", p)
  BY <1>1 DEF At
<1>3. p \in Nat \ {0} /\ ExampleOf(p) \in UsableExamples["train"]
  BY DEF Shard
<1>4. Index("train", x.epoch, x.at) = ExampleOf(x.at)
  BY <1>2 DEF ExampleOf
<1>5. Contents["train"][ExampleOf(p)].len \in Nat
  BY <1>3, ContentTrains
<1>6. Length("train", x) \in Nat
  BY <1>2, <1>4, <1>5 DEF Length, Content
<1>7. x.epoch \in Nat
  <2>1. p - 1 \in Nat /\ Len(TrainData) \in Nat \ {0}
    BY <1>3, Constants
  <2>2. (p - 1) \div Len(TrainData) \in Nat
    BY <2>1, Quotients
  <2> QED BY <1>2, <2>2 DEF EpochAt, Data
<1> QED BY <1>1, <1>2, <1>3, <1>4, <1>6, <1>7

(* The prefixes of a pack.                                                 *)
Prefix(pack, n) == SubSeq(pack, 1, n)

(* Prefixes of a pack, and of a pack that grew.                            *)
LEMMA PrefixesOf ==
  ASSUME NEW S, NEW pack \in Seq(S)
  PROVE  /\ Prefix(pack, 0) = <<>>
         /\ Prefix(pack, Len(pack)) = pack
         /\ \A n \in 0 .. Len(pack) :
              /\ Prefix(pack, n) \in Seq(S) /\ Len(Prefix(pack, n)) = n
              /\ \A i \in 1 .. n : Prefix(pack, n)[i] = pack[i]
         /\ \A x \in S, n \in 0 .. Len(pack) : Prefix(Append(pack, x), n) = Prefix(pack, n)
<1>1. \A n \in 0 .. Len(pack) : /\ Prefix(pack, n) \in Seq(S) /\ Len(Prefix(pack, n)) = n
                                 /\ \A i \in 1 .. n : Prefix(pack, n)[i] = pack[i]
  BY DEF Prefix
<1>2. ASSUME NEW x \in S, NEW n \in 0 .. Len(pack)
      PROVE  /\ Prefix(Append(pack, x), n) \in Seq(S) /\ Len(Prefix(Append(pack, x), n)) = n
             /\ \A i \in 1 .. n : Prefix(Append(pack, x), n)[i] = pack[i]
  <2>1. /\ Append(pack, x) \in Seq(S) /\ Len(Append(pack, x)) = Len(pack) + 1
        /\ \A i \in 1 .. Len(pack) : Append(pack, x)[i] = pack[i]
    OBVIOUS
  <2> QED BY <2>1 DEF Prefix
<1>3. \A a, b \in Seq(S) : Len(a) = Len(b) /\ (\A i \in 1 .. Len(a) : a[i] = b[i]) => a = b
  OBVIOUS
<1>4. Prefix(pack, 0) = <<>>
  <2>1. 0 \in 0 .. Len(pack)
    OBVIOUS
  <2>2. Prefix(pack, 0) \in Seq(S) /\ Len(Prefix(pack, 0)) = 0
    BY <1>1, <2>1
  <2> QED BY <2>2
<1>5. Prefix(pack, Len(pack)) = pack
  <2>1. Len(pack) \in 0 .. Len(pack)
    OBVIOUS
  <2>2. /\ Prefix(pack, Len(pack)) \in Seq(S) /\ Len(Prefix(pack, Len(pack))) = Len(pack)
        /\ \A i \in 1 .. Len(pack) : Prefix(pack, Len(pack))[i] = pack[i]
    BY <1>1, <2>1
  <2> QED BY <1>3, <2>2
<1>6. ASSUME NEW x \in S, NEW n \in 0 .. Len(pack)
      PROVE  Prefix(Append(pack, x), n) = Prefix(pack, n)
  BY <1>1, <1>2, <1>3
<1> QED BY <1>1, <1>4, <1>5, <1>6

(* The size of a pack is a number: 0 if it is empty, its length if it has  *)
(* one sample.                                                             *)
LEMMA SizeTyped ==
  ASSUME NEW c, NEW r, NEW pack \in Seq(Draws(Shard(c, r)))
  PROVE  /\ Size("train", pack) \in Nat
         /\ Len(pack) = 0 => Size("train", pack) = 0
         /\ Len(pack) = 1 => Size("train", pack) = Length("train", pack[1])
<1> DEFINE w == [i \in DOMAIN pack |-> Length("train", pack[i])]
<1>1. DOMAIN pack = 1 .. Len(pack) /\ Len(pack) \in Nat
  OBVIOUS
<1>2. \A i \in DOMAIN pack : pack[i] \in Draws(Shard(c, r))
  OBVIOUS
<1>3. \A i \in DOMAIN pack : w[i] = Length("train", pack[i]) /\ w[i] \in Nat
  BY <1>2, ShardDraws
<1>4. IsFiniteSet(DOMAIN pack)
  BY <1>1, FS_Interval
<1>5. Size("train", pack) = SumFunction(w) /\ DOMAIN w = DOMAIN pack
  BY DEF Size
<1> HIDE DEF w
<1>6. /\ Size("train", pack) \in Nat
      /\ DOMAIN pack = {} => Size("train", pack) = 0
      /\ \A x : DOMAIN pack = {x} => Size("train", pack) = w[x]
  BY <1>3, <1>4, <1>5, SumTyped
<1> QED BY <1>1, <1>3, <1>6

-----------------------------------------------------------------------------
(* Packs.  Each sample was added to what left room for it, and as long as  *)
(* the pack was open it did not fill the row.                              *)

Fits(pack) ==
  \A n \in 2 .. Len(pack) :
    Size("train", Prefix(pack, n - 1)) + Length("train", pack[n]) <= RowLen
Room(pack, k) == \A n \in 1 .. k : Size("train", Prefix(pack, n)) < RowLen

Open(D, pack) == pack \in Seq(Draws(D)) /\ Fits(pack) /\ Room(pack, Len(pack))
Closed(D, pack) ==
  pack \in Seq(Draws(D)) /\ pack # <<>> /\ Fits(pack) /\ Room(pack, Len(pack) - 1)

(* An open pack may be closed, and grows by a sample that fits into it.    *)
LEMMA OpenCloses ==
  ASSUME NEW D, NEW pack, Open(D, pack), pack # <<>>
  PROVE  Closed(D, pack)
BY DEF Open, Closed, Room

(* An open pack may take a sample that fits, and stays open unless that    *)
(* fills the row.                                                          *)
LEMMA PackGrows ==
  ASSUME NEW D, NEW pack, Open(D, pack), NEW x \in Draws(D),
         pack # <<>> => ~ (Size("train", pack) + Length("train", x) > RowLen),
         Size("train", pack) \in Nat, Length("train", x) \in Nat
  PROVE  /\ Append(pack, x) \in Seq(Draws(D)) /\ Len(Append(pack, x)) = Len(pack) + 1
         /\ Append(pack, x)[Len(pack) + 1] = x
         /\ \A i \in 1 .. Len(pack) : Append(pack, x)[i] = pack[i]
         /\ Closed(D, Append(pack, x))
         /\ Size("train", Append(pack, x)) < RowLen => Open(D, Append(pack, x))
<1> DEFINE more == Append(pack, x)
           k == Len(pack)
<1>1. pack \in Seq(Draws(D)) /\ Fits(pack) /\ Room(pack, k)
  BY DEF Open
<1>2. /\ k \in Nat /\ more \in Seq(Draws(D)) /\ Len(more) = k + 1
      /\ more[k + 1] = x /\ \A i \in 1 .. k : more[i] = pack[i]
  BY <1>1
<1>3. /\ \A n \in 0 .. k : Prefix(more, n) = Prefix(pack, n)
      /\ Prefix(pack, k) = pack /\ Prefix(more, k + 1) = more
  <2>1. Prefix(pack, Len(pack)) = pack
    BY <1>1, PrefixesOf
  <2>2. \A n \in 0 .. Len(pack) : Prefix(Append(pack, x), n) = Prefix(pack, n)
    BY <1>1, PrefixesOf
  <2>3. Prefix(more, Len(more)) = more
    <3> HIDE DEF more
    <3> QED BY <1>2, PrefixesOf
  <2>4. Prefix(more, k + 1) = more
    <3> HIDE DEF more
    <3> QED BY <1>2, <2>3
  <2> QED BY <2>1, <2>2, <2>4
<1>4. RowLen \in Nat
  BY Constants
<1> HIDE DEF more, k
<1>5. Fits(more)
  <2> SUFFICES ASSUME NEW n \in 2 .. (k + 1)
               PROVE  Size("train", Prefix(more, n - 1)) + Length("train", more[n]) <= RowLen
    BY <1>2 DEF Fits
  <2>1. CASE n \in 2 .. k
    <3>1. Size("train", Prefix(pack, n - 1)) + Length("train", pack[n]) <= RowLen
      BY <1>1, <2>1 DEF Fits, k
    <3>2. n \in 1 .. k /\ n - 1 \in 0 .. k
      BY <1>2, <2>1
    <3> QED BY <1>2, <1>3, <3>1, <3>2
  <2>2. CASE n = k + 1
    <3>1. k # 0 /\ n - 1 = k /\ k \in 0 .. k
      BY <1>2, <2>2
    <3>2. pack # <<>>
      BY <3>1 DEF k
    <3>3. Prefix(more, n - 1) = pack
      BY <1>3, <3>1
    <3> QED BY <1>2, <1>4, <2>2, <3>2, <3>3
  <2> QED BY <1>2, <2>1, <2>2
<1>6. Room(more, k)
  <2> SUFFICES ASSUME NEW n \in 1 .. k PROVE Size("train", Prefix(more, n)) < RowLen
    BY DEF Room
  <2>1. Prefix(more, n) = Prefix(pack, n)
    BY <1>2, <1>3
  <2> QED BY <1>1, <2>1 DEF Room
<1>7. more # <<>>
  BY <1>2
<1>8. Size("train", more) < RowLen => Room(more, k + 1)
  <2> SUFFICES ASSUME Size("train", more) < RowLen, NEW n \in 1 .. (k + 1)
               PROVE  Size("train", Prefix(more, n)) < RowLen
    BY DEF Room
  <2>1. CASE n = k + 1
    BY <1>3, <2>1
  <2>2. CASE n \in 1 .. k
    BY <1>6, <2>2 DEF Room
  <2> QED BY <1>2, <2>1, <2>2
<1>9. Len(more) - 1 = k
  BY <1>2
<1>10. Closed(D, more)
  BY <1>2, <1>5, <1>6, <1>7, <1>9, Zenon DEF Closed
<1>11. Size("train", more) < RowLen => Open(D, more)
  BY <1>2, <1>5, <1>8 DEF Open
<1> QED BY <1>2, <1>10, <1>11 DEF more, k

(* The empty pack is open.                                                 *)
LEMMA EmptyOpen == \A D : Open(D, <<>>)
BY DEF Open, Fits, Room

-----------------------------------------------------------------------------
(* Rows.                                                                   *)
IsRow(D, w, row) ==
  \E pack : Closed(D, pack) /\ row = [worker |-> w, samples |-> Cut("train", pack)]

(* A row keeps the samples of its pack, each whole unless it is alone.     *)
Keeps(row, pack) ==
  /\ row \in Seq([at : Nat \ {0}, epoch : Nat, kept : Nat])
  /\ Len(row) = Len(pack) /\ Len(row) \in Nat \ {0}
  /\ \A j \in 1 .. Len(pack) :
       /\ row[j].at = pack[j].at /\ row[j].epoch = pack[j].epoch
       /\ Length("train", pack[j]) \in Nat
       /\ Len(pack) # 1 => row[j].kept = Length("train", pack[j])
       /\ Len(pack) = 1 => row[j].kept = Min({RowLen, Length("train", pack[j])})

(* What _finalize_pack keeps of a pack that was closed: only a sample that *)
(* is alone is cut.                                                        *)
LEMMA RowKeeps ==
  ASSUME NEW c, NEW r, NEW pack, Closed(Shard(c, r), pack)
  PROVE  Keeps(Cut("train", pack), pack)
<1> DEFINE row == Cut("train", pack)
           size(j) == Size("train", Prefix(pack, j - 1))
           len(j) == Length("train", pack[j])
<1>1. /\ pack \in Seq(Draws(Shard(c, r))) /\ Len(pack) \in Nat \ {0}
      /\ Fits(pack) /\ Room(pack, Len(pack) - 1)
  BY DEF Closed
<1>2. \A j \in 1 .. Len(pack) :
        /\ pack[j] \in Draws(Shard(c, r))
        /\ pack[j].at \in Nat \ {0} /\ pack[j].epoch \in Nat /\ len(j) \in Nat
  BY <1>1, ShardDraws
<1>3. ASSUME NEW j \in 1 .. Len(pack)
      PROVE  /\ Prefix(pack, j) \in Seq(Draws(Shard(c, r))) /\ Len(Prefix(pack, j)) = j
             /\ Prefix(pack, j)[1] = pack[1]
             /\ Prefix(pack, j - 1) \in Seq(Draws(Shard(c, r))) /\ Len(Prefix(pack, j - 1)) = j - 1
  <2>1. j \in 0 .. Len(pack) /\ j - 1 \in 0 .. Len(pack) /\ 1 \in 1 .. j
    BY <1>1
  <2> QED BY <1>1, <2>1, PrefixesOf
<1>4. ASSUME NEW j \in 1 .. Len(pack)
      PROVE  /\ RowLen - size(j) \in Int
             /\ row[j] = [at |-> pack[j].at, epoch |-> pack[j].epoch,
                          kept |-> Min({RowLen - size(j), len(j)})]
  <2>1. size(j) \in Nat /\ RowLen \in Nat
    BY <1>3, SizeTyped, Constants
  <2>2. row[j] = [at |-> pack[j].at, epoch |-> pack[j].epoch,
                  kept |-> Min({RowLen - Size("train", SubSeq(pack, 1, j - 1)), len(j)})]
    BY <1>1 DEF Cut
  <2> HIDE DEF row, len
  <2> QED BY <2>1, <2>2 DEF Prefix
<1>5. DOMAIN row = 1 .. Len(pack)
  BY <1>1 DEF Cut
<1>6. size(1) = 0
  <2>1. 1 \in 1 .. Len(pack)
    BY <1>1
  <2>2. Prefix(pack, 1 - 1) \in Seq(Draws(Shard(c, r))) /\ Len(Prefix(pack, 1 - 1)) = 1 - 1
    BY <1>3, <2>1
  <2>3. Len(Prefix(pack, 1 - 1)) = 0
    BY <2>2
  <2> QED BY <2>2, <2>3, SizeTyped
<1>7. \A j \in 1 .. Len(pack) : j # 1 => size(j) \in Nat /\ len(j) <= RowLen - size(j)
  <2> SUFFICES ASSUME NEW j \in 1 .. Len(pack), j # 1
               PROVE  size(j) \in Nat /\ len(j) <= RowLen - size(j)
    OBVIOUS
  <2>1. size(j) \in Nat /\ RowLen \in Nat
    BY <1>3, SizeTyped, Constants
  <2>2. size(j) + len(j) <= RowLen
    BY <1>1, <2>1 DEF Fits
  <2> HIDE DEF size, len
  <2> QED BY <1>2, <2>1, <2>2
<1>8. Len(pack) # 1 => len(1) <= RowLen
  <2> SUFFICES ASSUME Len(pack) # 1 PROVE len(1) <= RowLen
    OBVIOUS
  <2>1. 1 \in 1 .. Len(pack) /\ 1 \in 1 .. (Len(pack) - 1)
    BY <1>1
  <2>2. Size("train", Prefix(pack, 1)) < RowLen
    BY <1>1, <2>1 DEF Room
  <2>3. Size("train", Prefix(pack, 1)) = len(1)
    <3>1. /\ Prefix(pack, 1) \in Seq(Draws(Shard(c, r))) /\ Len(Prefix(pack, 1)) = 1
          /\ Prefix(pack, 1)[1] = pack[1]
      BY <1>3, <2>1
    <3>2. Size("train", Prefix(pack, 1)) = Length("train", Prefix(pack, 1)[1])
      BY <3>1, SizeTyped
    <3> QED BY <3>1, <3>2
  <2>4. len(1) \in Nat /\ RowLen \in Nat
    BY <1>2, <2>1, Constants
  <2> HIDE DEF len
  <2> QED BY <2>2, <2>3, <2>4
<1>9. \A j \in 1 .. Len(pack) :
        /\ row[j].at = pack[j].at /\ row[j].epoch = pack[j].epoch
        /\ row[j].kept \in Nat
        /\ Len(pack) # 1 => row[j].kept = len(j)
        /\ Len(pack) = 1 => row[j].kept = Min({RowLen, len(j)})
  <2> SUFFICES ASSUME NEW j \in 1 .. Len(pack)
               PROVE  /\ row[j].at = pack[j].at /\ row[j].epoch = pack[j].epoch
                      /\ row[j].kept \in Nat
                      /\ Len(pack) # 1 => row[j].kept = len(j)
                      /\ Len(pack) = 1 => row[j].kept = Min({RowLen, len(j)})
    OBVIOUS
  <2>1. /\ row[j].at = pack[j].at /\ row[j].epoch = pack[j].epoch
        /\ row[j].kept = Min({RowLen - size(j), len(j)})
    <3>1. row[j] = [at |-> pack[j].at, epoch |-> pack[j].epoch, kept |-> Min({RowLen - size(j), len(j)})]
      BY <1>4
    <3>2. PICK k : k = Min({RowLen - size(j), len(j)})
      OBVIOUS
    <3> HIDE DEF row, len, size
    <3>3. row[j] = [at |-> pack[j].at, epoch |-> pack[j].epoch, kept |-> k]
      BY <3>1, <3>2, Zenon
    <3>4. row[j].at = pack[j].at /\ row[j].epoch = pack[j].epoch /\ row[j].kept = k
      BY <3>3
    <3> QED BY <3>2, <3>4, Zenon
  <2>2. len(j) \in Nat /\ RowLen \in Nat
    BY <1>2, Constants
  <2>3. CASE j = 1
    <3>1. RowLen - size(j) = RowLen
      BY <1>6, <2>2, <2>3
    <3>2. row[j].kept = Min({RowLen, len(j)})
      BY <2>1, <3>1
    <3>3. Len(pack) # 1 => len(j) <= RowLen
      BY <1>8, <2>3
    <3> HIDE DEF row, len, size
    <3> QED BY <2>1, <2>2, <3>2, <3>3, MinOfTwo
  <2>4. CASE j # 1
    <3>1. size(j) \in Nat /\ len(j) <= RowLen - size(j)
      BY <1>7, <2>4
    <3>2. RowLen - size(j) \in Nat
      <4> HIDE DEF len, size
      <4> QED BY <2>2, <3>1
    <3>3. Min({RowLen - size(j), len(j)}) = len(j)
      <4> DEFINE left == RowLen - size(j)
      <4>1. left \in Nat /\ len(j) <= left
        BY <3>1, <3>2
      <4> HIDE DEF len, size, left
      <4>2. Min({left, len(j)}) = len(j)
        BY <2>2, <4>1, MinOfTwo
      <4> QED BY <4>2 DEF left
    <3>4. Len(pack) # 1
      <4>1. \A m \in 1 .. 1 : m = 1
        OBVIOUS
      <4> QED BY <2>4, <4>1, Zenon
    <3> HIDE DEF row, len, size
    <3> QED BY <2>1, <2>2, <3>3, <3>4
  <2> QED BY <2>3, <2>4
<1>10. \A j \in 1 .. Len(pack) : row[j] \in [at : Nat \ {0}, epoch : Nat, kept : Nat]
  <2> TAKE j \in 1 .. Len(pack)
  <2>1. row[j] = [at |-> pack[j].at, epoch |-> pack[j].epoch, kept |-> Min({RowLen - size(j), len(j)})]
    BY <1>4
  <2>2. row[j].kept = Min({RowLen - size(j), len(j)})
    <3> HIDE DEF row, len, size
    <3> QED BY <2>1
  <2>3. Min({RowLen - size(j), len(j)}) \in Nat
    BY <1>9, <2>2
  <2> HIDE DEF row, len, size
  <2> QED BY <1>2, <2>1, <2>3
<1>11. row \in Seq([at : Nat \ {0}, epoch : Nat, kept : Nat]) /\ Len(row) = Len(pack)
  <2>1. row = [j \in 1 .. Len(pack) |-> row[j]]
    BY <1>5 DEF Cut
  <2> HIDE DEF row
  <2> QED BY <1>1, <1>10, <2>1
<1> HIDE DEF row
<1>12. Keeps(row, pack)
  BY <1>1, <1>2, <1>9, <1>11 DEF Keeps
<1> QED BY <1>12 DEF row

(* Every row trains, and cuts no image.                                    *)
LEMMA RowTrains ==
  ASSUME NEW c, NEW r, NEW w, NEW full, IsRow(Shard(c, r), w, full)
  PROVE  LET row == full.samples
             content(j) == Content("train", row[j])
         IN  /\ \E j \in DOMAIN row : content(j).trains \cap 1 .. row[j].kept # {}
             /\ \A j \in DOMAIN row :
                  /\ row[j].kept = content(j).len \/ Len(row) = 1
                  /\ content(j).images =
                       {p \in TrainData[ExampleOf(row[j].at)].images : p.offset < row[j].kept}
                  /\ \A p \in content(j).images : p.offset + p.length <= row[j].kept
<1>1. PICK pack : /\ Closed(Shard(c, r), pack)
                  /\ full = [worker |-> w, samples |-> Cut("train", pack)]
  BY DEF IsRow
<1> DEFINE row == Cut("train", pack)
           y(j) == Contents["train"][ExampleOf(pack[j].at)]
           x(j) == TrainData[ExampleOf(pack[j].at)]
<1>2. full.samples = row
  BY <1>1
<1>3. Keeps(row, pack)
  BY <1>1, RowKeeps
<1>4. pack \in Seq(Draws(Shard(c, r)))
  BY <1>1 DEF Closed
<1>5. \A j \in 1 .. Len(pack) :
        /\ ExampleOf(pack[j].at) \in UsableExamples["train"]
        /\ Index("train", pack[j].epoch, pack[j].at) = ExampleOf(pack[j].at)
  BY <1>4, ShardDraws
<1> HIDE DEF row
<1> USE DEF Keeps
<1>6. \A j \in 1 .. Len(pack) : Content("train", row[j]) = y(j) /\ Length("train", pack[j]) = y(j).len
  BY <1>3, <1>5 DEF Content, Length
<1>7. \A j \in 1 .. Len(pack) :
        /\ y(j).len \in Nat
        /\ \E t \in y(j).trains : t \in 1 .. SeqLen /\ t <= y(j).len
        /\ y(j).images = {p \in x(j).images : p.offset < y(j).len}
        /\ \A p \in y(j).images : p.offset + p.length <= y(j).len
        /\ x(j).images # {} => y(j).len <= SeqLen
  BY <1>5, ContentTrains, Zenon
<1> HIDE DEF y, x
<1>8. DOMAIN row = 1 .. Len(pack) /\ Len(row) = Len(pack)
  BY <1>3
<1>9. RowLen \in Nat /\ SeqLen \in Nat /\ SeqLen <= RowLen
  BY Constants
<1>10. ASSUME NEW j \in 1 .. Len(pack)
       PROVE  row[j].kept = y(j).len \/ (Len(pack) = 1 /\ row[j].kept = RowLen /\ RowLen < y(j).len)
  <2>1. CASE Len(pack) # 1
    BY <1>3, <1>6, <2>1
  <2>2. CASE Len(pack) = 1
    <3>1. row[j].kept = Min({RowLen, y(j).len})
      BY <1>3, <1>6, <2>2
    <3>2. Min({RowLen, y(j).len}) = IF RowLen <= y(j).len THEN RowLen ELSE y(j).len
      BY <1>7, <1>9, MinOfTwo
    <3> QED BY <1>7, <1>9, <2>2, <3>1, <3>2
  <2> QED BY <2>1, <2>2
<1>11. ASSUME NEW j \in 1 .. Len(pack)
       PROVE  y(j).trains \cap 1 .. row[j].kept # {}
  <2>1. PICK t \in y(j).trains : t \in 1 .. SeqLen /\ t <= y(j).len
    BY <1>7
  <2>2. t \in 1 .. row[j].kept
    BY <1>7, <1>9, <1>10, <2>1
  <2> QED BY <2>1, <2>2
<1>12. ASSUME NEW j \in 1 .. Len(pack)
       PROVE  /\ y(j).images = {p \in x(j).images : p.offset < row[j].kept}
              /\ \A p \in y(j).images : p.offset + p.length <= row[j].kept
  <2>1. CASE x(j).images = {}
    <3>1. y(j).images = {}
      BY <1>7, <2>1
    <3> QED BY <2>1, <3>1
  <2>2. CASE x(j).images # {}
    <3>1. row[j].kept = y(j).len
      BY <1>7, <1>9, <1>10, <2>2
    <3> QED BY <1>7, <3>1
  <2> QED BY <2>1, <2>2
<1>13. 1 \in 1 .. Len(pack)
  BY <1>3
<1>14. \E j \in DOMAIN row : Content("train", row[j]).trains \cap 1 .. row[j].kept # {}
  BY <1>6, <1>8, <1>11, <1>13
<1>15. ASSUME NEW j \in DOMAIN row
       PROVE  /\ row[j].kept = Content("train", row[j]).len \/ Len(row) = 1
              /\ Content("train", row[j]).images =
                   {p \in TrainData[ExampleOf(row[j].at)].images : p.offset < row[j].kept}
              /\ \A p \in Content("train", row[j]).images : p.offset + p.length <= row[j].kept
  <2>1. /\ j \in 1 .. Len(pack) /\ Content("train", row[j]) = y(j)
        /\ TrainData[ExampleOf(row[j].at)] = x(j)
    BY <1>3, <1>6, <1>8 DEF x
  <2>2. /\ y(j).images = {p \in x(j).images : p.offset < row[j].kept}
        /\ \A p \in y(j).images : p.offset + p.length <= row[j].kept
    BY <1>12, <2>1
  <2> QED BY <1>8, <1>10, <2>1, <2>2
<1> QED BY <1>2, <1>14, <1>15

-----------------------------------------------------------------------------
IsShard(D) == \E c, r : D = Shard(c, r)

(* The state a loader saves, and a worker's stream.                        *)

EpochOf(step) == IF step = 0 THEN 0 ELSE EpochAt("train", step)

States(D) ==
  {d \in [step : Nat, epoch : Nat, pending : Seq(Draws(D))] :
     /\ d.epoch = EpochOf(d.step)
     /\ d.pending = <<>> \/ (d.step \in D /\ d.pending = <<At(d.step)>>)}
Iters(D) == [shuffle : Nat, pack : Seq(Draws(D)), live : BOOLEAN]
Rows(D, w) ==
  {[worker |-> w, samples |-> Cut("train", pack)] : pack \in {p \in Seq(Draws(D)) : Closed(D, p)}}
Entries(D, w) == [row : Rows(D, w), state : States(D)]

(* Dataset d, iterator i and queue q of worker w.                          *)
StreamOK(D, w, d, i, q) ==
  /\ d \in States(D) /\ i \in Iters(D) /\ q \in Seq(Entries(D, w))
  /\ i.shuffle = d.epoch
  /\ Open(D, i.pack)
  /\ d.pending # <<>> => i.pack = <<>>

RowEntry(w, pack, d) == [row |-> [worker |-> w, samples |-> Cut("train", pack)], state |-> d]

(* The three ways a sample x takes through the packer of worker w; d is    *)
(* the dataset's state behind it.                                          *)
Held(w, x, d, sh, i, q, d1, i1, q1) ==
  /\ i.pack # <<>> /\ Size("train", i.pack) + Length("train", x) > RowLen
  /\ d1 = [d EXCEPT !.pending = <<x>>]
  /\ i1 = [i EXCEPT !.shuffle = sh, !.pack = <<>>]
  /\ q1 = Append(q, RowEntry(w, i.pack, d1))
Filled(w, x, d, sh, i, q, d1, i1, q1) ==
  /\ i.pack # <<>> => ~ (Size("train", i.pack) + Length("train", x) > RowLen)
  /\ Size("train", Append(i.pack, x)) >= RowLen
  /\ d1 = d
  /\ i1 = [i EXCEPT !.shuffle = sh, !.pack = <<>>]
  /\ q1 = Append(q, RowEntry(w, Append(i.pack, x), d))
Added(w, x, d, sh, i, q, d1, i1, q1) ==
  /\ i.pack # <<>> => ~ (Size("train", i.pack) + Length("train", x) > RowLen)
  /\ Size("train", Append(i.pack, x)) < RowLen
  /\ d1 = d
  /\ i1 = [i EXCEPT !.shuffle = sh, !.pack = Append(i.pack, x)]
  /\ q1 = q
Packed(w, x, d, sh, i, q, d1, i1, q1) ==
  \/ Held(w, x, d, sh, i, q, d1, i1, q1)
  \/ Filled(w, x, d, sh, i, q, d1, i1, q1)
  \/ Added(w, x, d, sh, i, q, d1, i1, q1)

(* The rows a worker may emit.                                             *)
LEMMA RowsAre == \A D, w, row : row \in Rows(D, w) <=> IsRow(D, w, row)
<1> SUFFICES ASSUME NEW D, NEW w, NEW row PROVE row \in Rows(D, w) <=> IsRow(D, w, row)
  OBVIOUS
<1>1. \A p : Closed(D, p) => p \in Seq(Draws(D))
  BY DEF Closed
<1> QED BY <1>1, Zenon DEF Rows, IsRow

(* A row with the state behind it.                                         *)
LEMMA EntriesAre ==
  ASSUME NEW D, NEW w, NEW pack, Closed(D, pack), NEW d \in States(D)
  PROVE  /\ RowEntry(w, pack, d) \in Entries(D, w)
         /\ RowEntry(w, pack, d).row = [worker |-> w, samples |-> Cut("train", pack)]
         /\ RowEntry(w, pack, d).state = d
<1> DEFINE row == [worker |-> w, samples |-> Cut("train", pack)]
<1>1. row \in Rows(D, w)
  BY RowsAre DEF IsRow
<1> HIDE DEF row
<1>2. [row |-> row, state |-> d] \in Entries(D, w)
  BY <1>1 DEF Entries
<1> QED BY <1>2 DEF row, RowEntry

(* A stream stays one whatever sample reaches its packer.                  *)
LEMMA PackedStream ==
  ASSUME NEW D, IsShard(D), NEW w, NEW d, NEW i, NEW q, NEW d1, NEW i1, NEW q1,
         d \in States(D), i \in Iters(D), q \in Seq(Entries(D, w)),
         Open(D, i.pack),
         d.pending = <<>>, d.step \in D,
         Packed(w, At(d.step), d, d.epoch, i, q, d1, i1, q1)
  PROVE  StreamOK(D, w, d1, i1, q1)
<1> DEFINE x == At(d.step)
           pack == i.pack
           more == Append(pack, x)
<1>1. /\ d.step \in Nat /\ d.epoch \in Nat /\ d.epoch = EpochOf(d.step)
      /\ d = [step |-> d.step, epoch |-> d.epoch, pending |-> <<>>]
  BY DEF States
<1>2. x = At(d.step) /\ x \in Draws(D) /\ <<x>> \in Seq(Draws(D))
  BY DEF Draws
<1>3. pack \in Seq(Draws(D)) /\ i.live \in BOOLEAN
  BY DEF Iters
<1>4. Size("train", pack) \in Nat /\ Length("train", x) \in Nat
  <2>1. PICK c, r : D = Shard(c, r)
    BY DEF IsShard
  <2> QED BY <1>2, <1>3, <2>1, SizeTyped, ShardDraws
<1> HIDE DEF pack, x
<1>5. Open(D, pack)
  BY DEF pack
<1>e. \A i2 : i2 = [i EXCEPT !.shuffle = d.epoch, !.pack = <<>>] =>
        i2 \in Iters(D) /\ i2.shuffle = d.epoch /\ i2.pack = <<>>
  <2>1. i \in [shuffle : Nat, pack : Seq(Draws(D)), live : BOOLEAN]
    BY DEF Iters
  <2>2. <<>> \in Seq(Draws(D))
    OBVIOUS
  <2> QED BY <1>1, <2>1, <2>2 DEF Iters
<1>6. CASE Held(w, x, d, d.epoch, i, q, d1, i1, q1)
  <2>1. d1 = [step |-> d.step, epoch |-> d.epoch, pending |-> <<x>>]
    BY <1>1, <1>6 DEF Held
  <2>2. d1 \in States(D)
    BY <1>1, <1>2, <2>1 DEF States
  <2>3. Closed(D, pack)
    BY <1>5, <1>6, OpenCloses DEF Held, pack
  <2>4. q1 = Append(q, RowEntry(w, pack, d1)) /\ RowEntry(w, pack, d1) \in Entries(D, w)
    BY <1>6, <2>2, <2>3, EntriesAre DEF Held, pack
  <2>5. i1 \in Iters(D) /\ i1.shuffle = d.epoch /\ i1.pack = <<>>
    BY <1>6, <1>e, Zenon DEF Held
  <2>6. q1 \in Seq(Entries(D, w))
    BY <2>4
  <2>7. d1.epoch = d.epoch
    BY <2>1
  <2> QED BY <2>2, <2>5, <2>6, <2>7, EmptyOpen DEF StreamOK
<1>7. ASSUME pack # <<>> => ~ (Size("train", pack) + Length("train", x) > RowLen)
      PROVE  /\ more \in Seq(Draws(D)) /\ Closed(D, more)
             /\ Size("train", more) < RowLen => Open(D, more)
  <2> HIDE DEF more
  <2> QED BY <1>2, <1>4, <1>5, <1>7, PackGrows DEF more
<1>8. CASE Filled(w, x, d, d.epoch, i, q, d1, i1, q1)
  <2>1. Closed(D, more)
    BY <1>7, <1>8 DEF Filled, pack
  <2>2. d1 = d /\ d1 \in States(D)
    BY <1>8 DEF Filled
  <2>3. q1 = Append(q, RowEntry(w, more, d)) /\ RowEntry(w, more, d) \in Entries(D, w)
    BY <1>8, <2>1, <2>2, EntriesAre DEF Filled, pack
  <2>4. i1 \in Iters(D) /\ i1.shuffle = d.epoch /\ i1.pack = <<>>
    BY <1>8, <1>e, Zenon DEF Filled
  <2>5. q1 \in Seq(Entries(D, w))
    BY <2>3
  <2> QED BY <2>2, <2>4, <2>5, EmptyOpen DEF StreamOK
<1>9. CASE Added(w, x, d, d.epoch, i, q, d1, i1, q1)
  <2>1. more \in Seq(Draws(D)) /\ Open(D, more)
    BY <1>7, <1>9 DEF Added, pack
  <2>2. d1 = d /\ d1 \in States(D) /\ q1 = q
    BY <1>9 DEF Added
  <2>3. i1 = [i EXCEPT !.shuffle = d.epoch, !.pack = more]
    BY <1>9 DEF Added, pack
  <2> HIDE DEF more
  <2>4. i1 \in Iters(D) /\ i1.shuffle = d.epoch /\ i1.pack = more
    BY <1>1, <2>1, <2>3 DEF Iters
  <2>5. d1.pending = <<>>
    BY <2>2
  <2> QED BY <2>1, <2>2, <2>4, <2>5 DEF StreamOK
<1> QED BY <1>2, <1>6, <1>8, <1>9 DEF Packed

-----------------------------------------------------------------------------
(* What a worker does to its stream: it packs the sample held back, draws  *)
(* the next position or passes over one that is not due.                   *)
After(d) == [step |-> d.step + 1, epoch |-> EpochOf(d.step + 1), pending |-> <<>>]
Released(d) == [step |-> d.step, epoch |-> d.epoch, pending |-> <<>>]

Walked(D, w, d, i, q, d1, i1, q1) ==
  \/ /\ d.pending # <<>>
     /\ Packed(w, At(d.step), Released(d), d.epoch, i, q, d1, i1, q1)
  \/ /\ d.pending = <<>> /\ d.step + 1 \in D
     /\ Packed(w, At(d.step + 1), After(d), EpochOf(d.step + 1), i, q, d1, i1, q1)
  \/ /\ d.pending = <<>> /\ d.step + 1 \notin D
     /\ d1 = After(d)
     /\ i1 = [i EXCEPT !.shuffle = EpochOf(d.step + 1)]
     /\ q1 = q

(* The epoch of a position is a number and does not fall from one position *)
(* to the next.                                                            *)
LEMMA EpochGrows ==
  ASSUME NEW n \in Nat
  PROVE  /\ EpochOf(n) \in Nat /\ EpochOf(n + 1) \in Nat /\ EpochOf(n) <= EpochOf(n + 1)
         /\ EpochOf(n + 1) = EpochAt("train", n + 1)
<1>1. Len(TrainData) \in Nat \ {0}
  BY Constants
<1>2. EpochAt("train", n + 1) = n \div Len(TrainData)
  BY DEF EpochAt, Data
<1>3. n # 0 => EpochAt("train", n) = (n - 1) \div Len(TrainData)
  BY DEF EpochAt, Data
<1>4. n \div Len(TrainData) \in Nat
  BY <1>1, Quotients
<1>5. n # 0 => /\ (n - 1) \div Len(TrainData) \in Nat
               /\ (n - 1) \div Len(TrainData) <= n \div Len(TrainData)
  <2>1. n # 0 => n - 1 \in Nat /\ (n - 1) + 1 = n
    OBVIOUS
  <2> QED BY <1>1, <2>1, Quotients
<1> QED BY <1>2, <1>3, <1>4, <1>5 DEF EpochOf

(* A stream stays one whatever the worker does.                            *)
LEMMA WalkedStream ==
  ASSUME NEW D, IsShard(D), NEW w, NEW d, NEW i, NEW q, NEW d1, NEW i1, NEW q1,
         StreamOK(D, w, d, i, q),
         Walked(D, w, d, i, q, d1, i1, q1)
  PROVE  StreamOK(D, w, d1, i1, q1)
<1>1. /\ d \in States(D) /\ i \in Iters(D) /\ q \in Seq(Entries(D, w))
      /\ i.shuffle = d.epoch /\ Open(D, i.pack)
      /\ d.pending # <<>> => i.pack = <<>>
  BY DEF StreamOK
<1>2. /\ d.step \in Nat /\ d.epoch \in Nat /\ d.epoch = EpochOf(d.step)
      /\ d.pending # <<>> => d.step \in D
  BY <1>1 DEF States
<1>3. EpochOf(d.step + 1) \in Nat
  BY <1>2, EpochGrows
<1>4. Released(d) \in States(D) /\ Released(d).step = d.step /\ Released(d).epoch = d.epoch
      /\ Released(d).pending = <<>>
  BY <1>2 DEF Released, States
<1>5. After(d) \in States(D) /\ After(d).step = d.step + 1
      /\ After(d).epoch = EpochOf(d.step + 1) /\ After(d).pending = <<>>
  BY <1>2, <1>3 DEF After, States
<1>6. CASE d.pending # <<>>
  <2>1. Packed(w, At(d.step), Released(d), d.epoch, i, q, d1, i1, q1)
    BY <1>6 DEF Walked
  <2>2. PICK e : e = Released(d)
    OBVIOUS
  <2>3. /\ e \in States(D) /\ e.pending = <<>> /\ e.step \in D
        /\ Packed(w, At(e.step), e, e.epoch, i, q, d1, i1, q1)
    BY <1>2, <1>4, <1>6, <2>1, <2>2
  <2> QED BY <1>1, <2>3, PackedStream, Zenon
<1>7. CASE d.pending = <<>> /\ d.step + 1 \in D
  <2>1. Packed(w, At(d.step + 1), After(d), EpochOf(d.step + 1), i, q, d1, i1, q1)
    BY <1>7 DEF Walked
  <2>2. PICK e : e = After(d)
    OBVIOUS
  <2>3. /\ e \in States(D) /\ e.pending = <<>> /\ e.step \in D
        /\ Packed(w, At(e.step), e, e.epoch, i, q, d1, i1, q1)
    BY <1>5, <1>7, <2>1, <2>2
  <2> QED BY <1>1, <2>3, PackedStream, Zenon
<1>8. CASE d.pending = <<>> /\ d.step + 1 \notin D
  <2>1. d1 = After(d) /\ i1 = [i EXCEPT !.shuffle = EpochOf(d.step + 1)] /\ q1 = q
    BY <1>8 DEF Walked
  <2>2. i1 \in Iters(D) /\ i1.shuffle = EpochOf(d.step + 1) /\ i1.pack = i.pack
    BY <1>1, <1>3, <2>1 DEF Iters
  <2> QED BY <1>1, <1>5, <2>1, <2>2 DEF StreamOK
<1> QED BY <1>6, <1>7, <1>8

-----------------------------------------------------------------------------
(* The steps of a worker walk its stream and touch nothing else.           *)
Domains == DOMAIN ds = Stream /\ DOMAIN it = Stream /\ DOMAIN queue = Stream

Train(r, w) == <<"train", r, w>>

(* The streams of training are told apart by rank and worker.              *)
LEMMA Streams ==
  /\ \A r \in Rank, w \in Worker : Train(r, w) \in Stream /\ Train(r, w)[1] = "train"
                                   /\ Train(r, w)[2] = r /\ Train(r, w)[3] = w
  /\ \A s \in Stream : s[1] = "train" => s[2] \in Rank /\ s[3] \in Worker /\ s = Train(s[2], s[3])
  /\ \A s \in Stream : s[1] = "val" \/ s[1] = "train"
  /\ \A r, q, v, w : Train(r, w) = Train(q, v) => r = q /\ w = v
BY DEF Stream, Train, Mode

(* Pack of the model, on the stream of one worker.                         *)
LEMMA PackIs ==
  ASSUME Domains, NEW r \in Rank, NEW w \in Worker, NEW x, NEW d, NEW sh,
         Pack(Train(r, w), x, d, sh)
  PROVE  Packed(w, x, d, sh, it[Train(r, w)], queue[Train(r, w)],
                ds'[Train(r, w)], it'[Train(r, w)], queue'[Train(r, w)])
<1> DEFINE s == Train(r, w)
<1>1. s \in Stream /\ s[1] = "train" /\ s[3] = w
  BY Streams
<1> HIDE DEF s
<1>2. Overflows(s, x) <=> /\ it[s].pack # <<>>
                          /\ Size("train", it[s].pack) + Length("train", x) > RowLen
  BY <1>1 DEF Overflows
<1>3. ASSUME NEW pack, NEW e, Emit(s, pack, e)
      PROVE  queue'[s] = Append(queue[s], RowEntry(w, pack, e))
  <2>1. queue'[s] = Append(queue[s], [row |-> Finalized(s, pack), state |-> StateDict(e)])
    BY <1>1, <1>3 DEF Emit, Domains
  <2>2. Finalized(s, pack) = [worker |-> w, samples |-> Cut("train", pack)]
    BY <1>1 DEF Finalized
  <2> QED BY <2>1, <2>2 DEF RowEntry, StateDict
<1>4. CASE Hold(s, x, d, sh)
  <2>1. PICK held : /\ held = [d EXCEPT !.pending = <<x>>]
                    /\ ds' = [ds EXCEPT ![s] = held] /\ Emit(s, it[s].pack, held)
    BY <1>4 DEF Hold
  <2>2. ds'[s] = held /\ queue'[s] = Append(queue[s], RowEntry(w, it[s].pack, held))
    BY <1>1, <1>3, <2>1 DEF Domains
  <2>3. it'[s] = [it[s] EXCEPT !.shuffle = sh, !.pack = <<>>]
    BY <1>1, <1>4 DEF Hold, Domains
  <2>4. Overflows(s, x)
    BY <1>4 DEF Hold
  <2>5. Held(w, x, d, sh, it[s], queue[s], ds'[s], it'[s], queue'[s])
    BY <1>2, <2>1, <2>2, <2>3, <2>4 DEF Held
  <2> QED BY <2>5 DEF Packed, s
<1>5. CASE Fill(s, x, d, sh)
  <2>1. /\ ~ Overflows(s, x) /\ Size("train", Append(it[s].pack, x)) >= RowLen
        /\ ds' = [ds EXCEPT ![s] = d] /\ Emit(s, Append(it[s].pack, x), d)
        /\ it' = [it EXCEPT ![s].shuffle = sh, ![s].pack = <<>>]
    BY <1>1, <1>5 DEF Fill
  <2>2. ds'[s] = d /\ queue'[s] = Append(queue[s], RowEntry(w, Append(it[s].pack, x), d))
    BY <1>1, <1>3, <2>1 DEF Domains
  <2>3. it'[s] = [it[s] EXCEPT !.shuffle = sh, !.pack = <<>>]
    BY <1>1, <2>1 DEF Domains
  <2>4. Filled(w, x, d, sh, it[s], queue[s], ds'[s], it'[s], queue'[s])
    BY <1>2, <2>1, <2>2, <2>3 DEF Filled
  <2> QED BY <2>4 DEF Packed, s
<1>6. CASE Add(s, x, d, sh)
  <2>1. /\ ~ Overflows(s, x) /\ Size("train", Append(it[s].pack, x)) < RowLen
        /\ ds' = [ds EXCEPT ![s] = d] /\ queue' = queue
        /\ it' = [it EXCEPT ![s].shuffle = sh, ![s].pack = Append(it[s].pack, x)]
    BY <1>1, <1>6 DEF Add
  <2>2. ds'[s] = d /\ queue'[s] = queue[s]
    BY <1>1, <2>1 DEF Domains
  <2>3. it'[s] = [it[s] EXCEPT !.shuffle = sh, !.pack = Append(it[s].pack, x)]
    BY <1>1, <2>1 DEF Domains
  <2>4. Added(w, x, d, sh, it[s], queue[s], ds'[s], it'[s], queue'[s])
    BY <1>2, <2>1, <2>2, <2>3 DEF Added
  <2> QED BY <2>4 DEF Packed, s
<1> QED BY <1>4, <1>5, <1>6 DEF Pack, s

(* Other streams stay as they are.                                         *)
LEMMA PackFrame ==
  ASSUME Domains, NEW s \in Stream, NEW x, NEW d, NEW sh, Pack(s, x, d, sh)
  PROVE  /\ Domains'
         /\ \A t \in Stream \ {s} : ds'[t] = ds[t] /\ it'[t] = it[t] /\ queue'[t] = queue[t]
<1>1. \A e : ds' = [ds EXCEPT ![s] = e] =>
        DOMAIN ds' = Stream /\ \A t \in Stream \ {s} : ds'[t] = ds[t]
  BY DEF Domains
<1>2. \A e : it' = [it EXCEPT ![s] = e] =>
        DOMAIN it' = Stream /\ \A t \in Stream \ {s} : it'[t] = it[t]
  BY DEF Domains
<1>3. \A e : queue' = [queue EXCEPT ![s] = e] =>
        DOMAIN queue' = Stream /\ \A t \in Stream \ {s} : queue'[t] = queue[t]
  BY DEF Domains
<1>4. \E e : ds' = [ds EXCEPT ![s] = e]
  BY DEF Pack, Hold, Fill, Add
<1>5. \E e : it' = [it EXCEPT ![s] = e]
  BY DEF Pack, Hold, Fill, Add
<1>6. queue' = queue \/ \E e : queue' = [queue EXCEPT ![s] = e]
  BY DEF Pack, Hold, Fill, Add, Emit
<1>7. DOMAIN queue' = Stream /\ \A t \in Stream \ {s} : queue'[t] = queue[t]
  BY <1>3, <1>6 DEF Domains
<1> QED BY <1>1, <1>2, <1>4, <1>5, <1>7 DEF Domains

(* A worker touches its own stream alone.                                  *)
LEMMA WorkerFrame ==
  ASSUME Domains, NEW s \in Stream, WorkerStep(s)
  PROVE  /\ Domains' /\ UNCHANGED others
         /\ \A t \in Stream \ {s} : ds'[t] = ds[t] /\ it'[t] = it[t] /\ queue'[t] = queue[t]
<1>1. CASE PackPending(s)
  BY <1>1, PackFrame DEF PackPending
<1>2. CASE Draw(s)
  BY <1>2, PackFrame DEF Draw
<1>3. CASE Skip(s)
  BY <1>3 DEF Skip, Domains
<1>4. CASE Finish(s)
  <2>1. queue' = queue \/ \E e : queue' = [queue EXCEPT ![s] = e]
    BY <1>4 DEF Finish, Emit
  <2>2. DOMAIN queue' = Stream /\ \A t \in Stream \ {s} : queue'[t] = queue[t]
    BY <2>1 DEF Domains
  <2>3. /\ \E e : ds' = [ds EXCEPT ![s] = e]
        /\ \E e : it' = [it EXCEPT ![s] = e]
    BY <1>4 DEF Finish
  <2>4. /\ DOMAIN ds' = Stream /\ \A t \in Stream \ {s} : ds'[t] = ds[t]
        /\ DOMAIN it' = Stream /\ \A t \in Stream \ {s} : it'[t] = it[t]
    BY <2>3 DEF Domains
  <2> QED BY <1>4, <2>2, <2>4 DEF Finish, Domains
<1> QED BY <1>1, <1>2, <1>3, <1>4 DEF WorkerStep

(* A worker of training walks its stream.                                  *)
LEMMA WorkerWalks ==
  ASSUME Domains, NEW r \in Rank, NEW w \in Worker,
         LET s == Train(r, w)
         IN  StreamOK(Shard(cp, r), w, ds[s], it[s], queue[s]) /\ WorkerStep(s)
  PROVE  LET s == Train(r, w)
         IN  Walked(Shard(cp, r), w, ds[s], it[s], queue[s], ds'[s], it'[s], queue'[s])
<1> DEFINE s == Train(r, w)
           D == Shard(cp, r)
           n == ds[s].step
<1>1. s \in Stream /\ s[1] = "train" /\ s[2] = r /\ s[3] = w
  BY Streams
<1>2. /\ ds[s] \in States(D) /\ it[s] \in Iters(D) /\ it[s].shuffle = ds[s].epoch
  BY DEF StreamOK
<1>3. /\ n \in Nat /\ ds[s].epoch = EpochOf(n) /\ ds[s].epoch \in Nat
      /\ ds[s] = [step |-> n, epoch |-> ds[s].epoch, pending |-> ds[s].pending]
      /\ ds[s].pending # <<>> => ds[s].pending = <<At(n)>>
  BY <1>2 DEF States
<1>4. /\ EpochOf(n + 1) \in Nat /\ EpochOf(n) <= EpochOf(n + 1)
      /\ EpochAt("train", n + 1) = EpochOf(n + 1)
  BY <1>3, EpochGrows
<1>w. WorkerStep(s)
  OBVIOUS
<1> HIDE DEF s, D
<1>5. Reshuffled(s) = EpochOf(n + 1)
  BY <1>1, <1>2, <1>3, <1>4 DEF Reshuffled
<1>6. ds[s].pending = <<>> => Stepped(s) = After(ds[s])
  <2>1. Stepped(s) = [ds[s] EXCEPT !.step = n + 1,
                          !.epoch = IF EpochOf(n + 1) > ds[s].epoch THEN EpochOf(n + 1) ELSE ds[s].epoch]
    BY <1>1, <1>4 DEF Stepped
  <2>2. (IF EpochOf(n + 1) > ds[s].epoch THEN EpochOf(n + 1) ELSE ds[s].epoch) = EpochOf(n + 1)
    BY <1>3, <1>4
  <2>3. Stepped(s) = [ds[s] EXCEPT !.step = n + 1, !.epoch = EpochOf(n + 1)]
    BY <2>1, <2>2
  <2> QED BY <1>3, <2>3 DEF After
<1>7. Wanted(s) <=> n + 1 \in D
  <2>1. PICK p : p = n + 1
    OBVIOUS
  <2>2. p \in Nat \ {0}
    BY <1>3, <2>1
  <2>3. Mine(s, p) <=> (p - 1) % (World \div cp) = r \div cp
    <3>1. DataRank(s) = r \div cp
      BY <1>1, Zenon DEF DataRank
    <3> QED BY <3>1, Zenon DEF Mine, DataWorld
  <2>4. Index("train", EpochOf(n + 1), p) = ExampleOf(p)
    BY <1>4, <2>1 DEF ExampleOf
  <2>5. p \in D <=> /\ (p - 1) % (World \div cp) = r \div cp
                   /\ ExampleOf(p) \in UsableExamples["train"]
    BY <2>2, Zenon DEF D, Shard
  <2>6. Wanted(s) <=> Mine(s, p) /\ Index("train", EpochOf(n + 1), p) \in UsableExamples["train"]
    BY <1>1, <1>5, <2>1 DEF Wanted
  <2> QED BY <2>1, <2>3, <2>4, <2>5, <2>6
<1>8. CASE PackPending(s)
  <2>1. ds[s].pending # <<>> /\ ds[s].pending = <<At(n)>>
    BY <1>3, <1>8 DEF PackPending
  <2>2. Pack(s, At(n), [ds[s] EXCEPT !.pending = <<>>], ds[s].epoch)
    <3>1. ds[s].pending[1] = At(n)
      BY <2>1
    <3> QED BY <1>2, <1>8, <3>1 DEF PackPending
  <2>3. [ds[s] EXCEPT !.pending = <<>>] = Released(ds[s])
    BY <1>3 DEF Released
  <2>4. Packed(w, At(n), Released(ds[s]), ds[s].epoch, it[s], queue[s], ds'[s], it'[s], queue'[s])
    BY <2>2, <2>3, PackIs DEF s
  <2> QED BY <2>1, <2>4 DEF Walked, s, D
<1>9. CASE Draw(s)
  <2>1. /\ ds[s].pending = <<>> /\ n + 1 \in D
        /\ Pack(s, Drawn(s), After(ds[s]), EpochOf(n + 1))
    BY <1>5, <1>6, <1>7, <1>9 DEF Draw
  <2>2. Drawn(s) = At(n + 1)
    BY <1>4, <1>5 DEF Drawn, At
  <2>3. Packed(w, At(n + 1), After(ds[s]), EpochOf(n + 1), it[s], queue[s],
               ds'[s], it'[s], queue'[s])
    BY <2>1, <2>2, PackIs DEF s
  <2> QED BY <2>1, <2>3 DEF Walked, s, D
<1>10. CASE Skip(s)
  <2>1. /\ ds[s].pending = <<>> /\ n + 1 \notin D
        /\ ds'[s] = After(ds[s]) /\ it'[s] = [it[s] EXCEPT !.shuffle = EpochOf(n + 1)]
        /\ queue'[s] = queue[s]
    BY <1>1, <1>5, <1>6, <1>7, <1>10 DEF Skip, Domains
  <2> QED BY <2>1 DEF Walked, s, D
<1>11. ~ Finish(s)
  BY <1>1 DEF Finish, PastEnd
<1> QED BY <1>8, <1>9, <1>10, <1>11, <1>w DEF WorkerStep, s, D

-----------------------------------------------------------------------------
(* What every reachable state has, whatever the number of workers.         *)
AnyRows(D) == UNION {Rows(D, w) : w \in Worker}
Loaders(D) == [snap : [Worker -> States(D)], next : Worker]

Shape ==
  /\ cp \in CpSizes
  /\ Domains
  /\ DOMAIN loader = Mode /\ DOMAIN loader["train"] = Rank
  /\ DOMAIN took = Rank /\ DOMAIN weights = Rank
  /\ pc \in {"micro", "val", "optim", "count", "save", "done", "down"}
  /\ progress \in [step : 1 .. MaxSteps, tokens : Nat]

StreamIs(r, w) ==
  StreamOK(Shard(cp, r), w, ds[Train(r, w)], it[Train(r, w)], queue[Train(r, w)])
RankOK(r) ==
  /\ \A w \in Worker : StreamIs(r, w)
  /\ loader["train"][r] \in Loaders(Shard(cp, r))
  /\ took[r] \in Seq(AnyRows(Shard(cp, r)))
  /\ weights[r] \in Seq(AnyRows(Shard(cp, r)))
Ranks == \A r \in Rank : RankOK(r)

(* A checkpoint whose model is there has the position of every rank.       *)
Model(k) ==
  \E W, t : /\ disk[k].app = <<[weights |-> W, progress |-> [step |-> k, tokens |-> t]]>>
            /\ t \in Nat
            /\ DOMAIN W = Rank /\ \A r \in Rank : W[r] \in Seq(AnyRows(Shard(cp, r)))
DiskOK(k) ==
  /\ disk[k] = [loader |-> disk[k].loader, app |-> disk[k].app]
  /\ DOMAIN disk[k].loader = Rank
  /\ \A r \in Rank : disk[k].loader[r] # <<>> =>
       \E l \in Loaders(Shard(cp, r)) : disk[k].loader[r] = <<l>>
  /\ disk[k].app # <<>> => /\ pc # "done" => k # MaxSteps
                           /\ \A r \in Rank : disk[k].loader[r] # <<>>
                           /\ Model(k)
Files ==
  /\ filed \subseteq Rank
  /\ filed # {} => pc = "save"
  /\ \A r \in filed : disk[progress.step].loader[r] = <<loader["train"][r]>>
  /\ DOMAIN disk = 1 .. MaxSteps
  /\ \A k \in 1 .. MaxSteps : DiskOK(k)

RowsInv == Shape /\ Ranks /\ Files

(* The training side of the loaders stays as it is.                        *)
LoadersSame ==
  /\ Domains' /\ DOMAIN loader' = Mode /\ loader'["train"] = loader["train"]
  /\ \A r \in Rank, w \in Worker :
       /\ ds'[Train(r, w)] = ds[Train(r, w)] /\ it'[Train(r, w)] = it[Train(r, w)]
       /\ queue'[Train(r, w)] = queue[Train(r, w)]

(* Ranks and Files hold on when what they are about stays.                 *)
LEMMA RanksSame ==
  ASSUME Ranks, LoadersSame, cp' = cp, took' = took, weights' = weights
  PROVE  Ranks'
BY DEF Ranks, RankOK, StreamIs, LoadersSame

(* The same of the files.                                                  *)
LEMMA FilesSame ==
  ASSUME Files, cp' = cp, loader'["train"] = loader["train"],
         disk' = disk, filed' = filed,
         filed # {} => pc' = "save" /\ progress'.step = progress.step,
         pc = "done" => pc' = "done"
  PROVE  Files'
<1>1. \A k \in 1 .. MaxSteps : DiskOK(k)'
  <2> SUFFICES ASSUME NEW k \in 1 .. MaxSteps PROVE DiskOK(k)'
    OBVIOUS
  <2>1. DiskOK(k)
    BY DEF Files
  <2> QED BY <2>1 DEF DiskOK, Model
<1> QED BY <1>1 DEF Files

(* A worker changes neither the files nor the rest of the state.           *)
LEMMA OthersSame ==
  ASSUME Shape, Files, UNCHANGED others
  PROVE  /\ Files'
         /\ Domains' => Shape'
<1>1. /\ cp' = cp /\ loader' = loader /\ pc' = pc /\ progress' = progress
      /\ took' = took /\ weights' = weights /\ filed' = filed /\ disk' = disk
  BY DEF others, trainVars, diskVars
<1>2. Files'
  BY <1>1, FilesSame DEF Files
<1> QED BY <1>1, <1>2 DEF Shape

(* Validation starts its workers anew and leaves those of training alone.  *)
LEMMA ResetSame ==
  ASSUME Shape, ResetVal
  PROVE  LoadersSame
<1>1. \A r \in Rank, w \in Worker : Train(r, w) \in Stream /\ Train(r, w)[1] # "val"
  BY Streams
<1>2. loader' = [loader EXCEPT !["val"] = [r \in Rank |-> FreshLoader]]
  BY DEF ResetVal
<1>3. "train" \in Mode /\ "train" # "val"
  BY DEF Mode
<1>4. DOMAIN loader' = Mode /\ loader'["train"] = loader["train"]
  BY <1>2, <1>3 DEF Shape
<1> QED BY <1>1, <1>4 DEF ResetVal, LoadersSame, Domains

(* So does a row taken for validation.                                     *)
LEMMA ValRowSame ==
  ASSUME Shape, NEW r \in Rank, TakeRow("val", r), ds' = ds, it' = it
  PROVE  LoadersSame
<1> DEFINE w == Turn("val", r)
           s == <<"val", r, w>>
<1>1. /\ queue' = [queue EXCEPT ![s] = Tail(queue[s])]
      /\ \E n : loader' = [loader EXCEPT !["val"] = n]
  BY DEF TakeRow
<1>2. \A p \in Rank, v \in Worker : Train(p, v) \in Stream /\ Train(p, v) # s
  <2> SUFFICES ASSUME NEW p \in Rank, NEW v \in Worker PROVE Train(p, v) \in Stream /\ Train(p, v) # s
    OBVIOUS
  <2>1. Train(p, v) \in Stream /\ Train(p, v)[1] = "train"
    BY Streams
  <2>2. s[1] = "val"
    OBVIOUS
  <2> QED BY <2>1, <2>2
<1>3. "train" \in Mode /\ "train" # "val"
  BY DEF Mode
<1> HIDE DEF s
<1>4. DOMAIN loader' = Mode /\ loader'["train"] = loader["train"]
  BY <1>1, <1>3 DEF Shape
<1>5. Domains' /\ \A p \in Rank, v \in Worker : queue'[Train(p, v)] = queue[Train(p, v)]
  BY <1>1, <1>2 DEF Shape, Domains
<1> QED BY <1>4, <1>5 DEF LoadersSame

(* Counting around a ring of n.                                            *)
LEMMA Remainders ==
  ASSUME NEW n \in Nat \ {0}, NEW a \in Nat
  PROVE  /\ a % n \in 0 .. (n - 1)
         /\ a < n => a % n = a /\ (a + n) % n = a
<1>1. a % n \in 0 .. (n - 1)
  OBVIOUS
<1>2. a < n => a % n = a
  OBVIOUS
<1>3. ASSUME a < n PROVE (a + n) % n = a
  <2> DEFINE x == (a + n) \div n
             y == (a + n) % n
  <2>1. x \in Int /\ y \in 0 .. (n - 1) /\ a + n = n * x + y
    OBVIOUS
  <2> HIDE DEF x, y
  <2>2. ASSUME NEW u \in Int, NEW v \in Int, u < v PROVE n * u + n <= n * v
    <3>1. v - (u + 1) \in Nat
      BY <2>2
    <3>2. n * (v - (u + 1)) >= 0
      BY <3>1
    <3>3. n * (v - (u + 1)) = n * v - n * (u + 1)
      OBVIOUS
    <3>4. n * (u + 1) = n * u + n
      OBVIOUS
    <3>5. n * u \in Int /\ n * v \in Int
      BY <2>2
    <3> QED BY <3>2, <3>3, <3>4, <3>5
  <2>3. n * 1 = n
    OBVIOUS
  <2>4. n * x \in Int
    BY <2>1
  <2>5. ~ (x < 1)
    <3>1. x < 1 => n * x + n <= n * 1
      BY <2>1, <2>2
    <3> QED BY <2>1, <2>3, <2>4, <3>1
  <2>6. ~ (1 < x)
    <3>1. 1 < x => n * 1 + n <= n * x
      BY <2>1, <2>2
    <3> QED BY <1>3, <2>1, <2>3, <2>4, <3>1
  <2>7. x = 1
    BY <2>1, <2>5, <2>6
  <2> QED BY <2>1, <2>3, <2>7 DEF y
<1> QED BY <1>1, <1>2, <1>3

(* The worker whose turn it is when a row is ready.                        *)
LEMMA TurnIs ==
  ASSUME Shape, Ranks, NEW r \in Rank, RowReady("train", r)
  PROVE  /\ Turn("train", r) \in Worker
         /\ NumWorkers = 1 => Turn("train", r) = 0
         /\ queue[Train(r, Turn("train", r))] # <<>>
<1> DEFINE next == loader["train"][r].next
           near == {k \in Worker : ~ Ended(<<"train", r, (next + k) % NumWorkers>>)}
<1>1. NumWorkers \in Nat \ {0} /\ next \in Worker
  BY Constants DEF Ranks, RankOK, Loaders
<1>2. near # {}
  <2>1. PICK w \in Worker : ~ Ended(<<"train", r, w>>)
    BY DEF RowReady, AllEnded
  <2> DEFINE k == IF w >= next THEN w - next ELSE (w + NumWorkers) - next
  <2>2. w \in Nat /\ w < NumWorkers /\ next \in Nat /\ next < NumWorkers
    BY <1>1 DEF Worker
  <2> HIDE DEF next
  <2>3. k \in Worker /\ (next + k = w \/ next + k = w + NumWorkers)
    BY <1>1, <2>2 DEF Worker
  <2>4. w % NumWorkers = w /\ (w + NumWorkers) % NumWorkers = w
    BY <1>1, <2>2, Remainders
  <2>5. (next + k) % NumWorkers = w
    BY <2>3, <2>4
  <2> HIDE DEF k
  <2>6. k \in near
    BY <2>1, <2>3, <2>5 DEF next
  <2> QED BY <2>6
<1>3. near \in SUBSET Nat
  BY <1>1 DEF Worker
<1>4. Min(near) \in Nat
  <2> HIDE DEF near
  <2> QED BY <1>2, <1>3, MinOf
<1>5. Turn("train", r) = (next + Min(near)) % NumWorkers
  BY DEF Turn
<1>6. next \in Nat
  BY <1>1 DEF Worker
<1> HIDE DEF next, near
<1>7. Turn("train", r) \in 0 .. (NumWorkers - 1)
  <2>1. next + Min(near) \in Nat
    BY <1>4, <1>6
  <2> QED BY <1>1, <1>5, <2>1, Remainders
<1>8. NumWorkers = 1 => Turn("train", r) = 0
  BY <1>7
<1>9. queue[Train(r, Turn("train", r))] # <<>>
  BY DEF RowReady, Train
<1> QED BY <1>7, <1>8, <1>9 DEF Worker

(* What taking a row of training changes.                                  *)
LEMMA TakeTrain ==
  ASSUME Shape, Ranks, NEW r \in Rank, RowReady("train", r), TakeRow("train", r),
         ds' = ds, it' = it
  PROVE  LET w == Turn("train", r)
             s == Train(r, w)
         IN  /\ Domains'
             /\ queue'[s] = Tail(queue[s])
             /\ \A t \in Stream \ {s} : queue'[t] = queue[t]
             /\ DOMAIN loader' = Mode /\ DOMAIN loader'["train"] = Rank
             /\ \A p \in Rank \ {r} : loader'["train"][p] = loader["train"][p]
             /\ loader'["train"][r] =
                  [snap |-> [loader["train"][r].snap EXCEPT ![w] = Head(queue[s]).state],
                   next |-> (w + 1) % NumWorkers]
<1> DEFINE w == Turn("train", r)
           s == Train(r, w)
           l == loader["train"][r]
<1>1. w \in Worker /\ s \in Stream
  BY TurnIs, Streams
<1>2. "train" \in Mode
  BY DEF Mode
<1>3. l = [snap |-> l.snap, next |-> l.next]
  BY DEF Ranks, RankOK, Loaders
<1>4. /\ queue' = [queue EXCEPT ![s] = Tail(queue[s])]
      /\ loader' = [loader EXCEPT !["train"][r].snap[w] = Head(queue[s]).state,
                                  !["train"][r].next = (w + 1) % NumWorkers]
  BY Zenon DEF TakeRow, PositionBehind, Train
<1> HIDE DEF w, s
<1>5. /\ Domains'
      /\ queue'[s] = Tail(queue[s]) /\ \A t \in Stream \ {s} : queue'[t] = queue[t]
  BY <1>1, <1>4 DEF Shape, Domains
<1>6. /\ DOMAIN loader' = Mode /\ DOMAIN loader'["train"] = Rank
      /\ \A p \in Rank \ {r} : loader'["train"][p] = loader["train"][p]
  BY <1>2, <1>4 DEF Shape
<1>7. loader'["train"][r] = [snap |-> [l.snap EXCEPT ![w] = Head(queue[s]).state],
                             next |-> (w + 1) % NumWorkers]
  <2>1. loader'["train"][r] = [l EXCEPT !.snap[w] = Head(queue[s]).state,
                                        !.next = (w + 1) % NumWorkers]
    BY <1>2, <1>4 DEF Shape
  <2> HIDE DEF l
  <2> QED BY <1>3, <2>1
<1> QED BY <1>5, <1>6, <1>7 DEF w, s

-----------------------------------------------------------------------------
(* The initial state and the launches.                                     *)
LEMMA FreshIs ==
  ASSUME NEW D
  PROVE  /\ Fresh \in States(D) /\ Fresh.pending = <<>> /\ Fresh.step = 0
         /\ FreshLoader \in Loaders(D)
<1>1. Fresh \in States(D)
  BY DEF Fresh, States, EpochOf
<1>2. 0 \in Worker
  BY Constants DEF Worker
<1> QED BY <1>1, <1>2 DEF Fresh, FreshLoader, Loaders

(* A loader state is a stream that begins.                                 *)
LEMMA StartsStream ==
  ASSUME NEW D, NEW w, NEW d \in States(D)
  PROVE  /\ StreamOK(D, w, d, StartIter(d), <<>>)
         /\ StartIter(d).pack = <<>> /\ StartIter(d).shuffle = d.epoch
<1>1. d.epoch \in Nat
  BY DEF States
<1>2. /\ StartIter(d) \in Iters(D) /\ StartIter(d).pack = <<>>
      /\ StartIter(d).shuffle = d.epoch
  BY <1>1 DEF StartIter, Iters
<1>3. <<>> \in Seq(Entries(D, w))
  OBVIOUS
<1> QED BY <1>2, <1>3, EmptyOpen DEF StreamOK

(* The three parts of RowsInv hold at the start.                           *)
LEMMA RanksInit == Init => Ranks
<1> SUFFICES ASSUME Init, NEW r \in Rank PROVE RankOK(r)
  BY DEF Ranks
<1> DEFINE D == Shard(cp, r)
<1>1. \A w \in Worker : StreamIs(r, w)
  <2> TAKE w \in Worker
  <2>1. Train(r, w) \in Stream
    BY Streams
  <2>2. /\ ds[Train(r, w)] = Fresh /\ it[Train(r, w)] = StartIter(Fresh)
        /\ queue[Train(r, w)] = <<>>
    BY <2>1 DEF Init
  <2> QED BY <2>2, FreshIs, StartsStream DEF StreamIs
<1>2. loader["train"][r] = FreshLoader /\ took[r] = <<>> /\ weights[r] = <<>>
  BY DEF Init, Mode
<1>3. <<>> \in Seq(AnyRows(D))
  OBVIOUS
<1> QED BY <1>1, <1>2, <1>3, FreshIs DEF RankOK

(* The second part.                                                        *)
LEMMA ShapeInit == Init => Shape
<1>1. Init => 1 \in 1 .. MaxSteps
  BY Constants
<1>2. "train" \in Mode
  BY DEF Mode
<1> QED BY <1>1, <1>2 DEF Init, Shape, Domains

(* The third part.                                                         *)
LEMMA FilesInit == Init => Files
<1> SUFFICES ASSUME Init PROVE Files
  OBVIOUS
<1>1. \A k \in 1 .. MaxSteps :
        disk[k] = [loader |-> [r \in Rank |-> <<>>], app |-> <<>>]
  BY DEF Init
<1>2. \A k \in 1 .. MaxSteps : DiskOK(k)
  <2> TAKE k \in 1 .. MaxSteps
  <2>1. /\ disk[k] = [loader |-> [r \in Rank |-> <<>>], app |-> <<>>]
        /\ disk[k].loader = [r \in Rank |-> <<>>] /\ disk[k].app = <<>>
    BY <1>1
  <2> QED BY <2>1 DEF DiskOK
<1> QED BY <1>2 DEF Init, Files

(* What a launch from the loader states L sets up.                         *)
LEMMA Begins ==
  ASSUME Shape, NEW L, DOMAIN L = Rank, \A r \in Rank : L[r] \in Loaders(Shard(cp, r)), Begin(L)
  PROVE  /\ Domains' /\ DOMAIN loader' = Mode /\ loader'["train"] = L
         /\ \A r \in Rank : took'[r] = <<>>
         /\ DOMAIN took' = Rank
         /\ pc' = "micro" /\ cp' = cp /\ filed' = filed /\ disk' = disk
         /\ \A r \in Rank, w \in Worker :
              /\ ds'[Train(r, w)] = L[r].snap[w]
              /\ it'[Train(r, w)] = StartIter(L[r].snap[w])
              /\ queue'[Train(r, w)] = <<>>
              /\ StreamIs(r, w)'
<1>1. /\ Domains' /\ pc' = "micro" /\ cp' = cp /\ filed' = filed /\ disk' = disk
      /\ took' = [r \in Rank |-> <<>>]
  BY DEF Begin, Domains, diskVars
<1>2. loader' = [train |-> L, val |-> [r \in Rank |-> FreshLoader]]
  BY DEF Begin
<1>3. DOMAIN loader' = Mode /\ loader'["train"] = L
  BY <1>2 DEF Mode
<1>4. ASSUME NEW r \in Rank, NEW w \in Worker
      PROVE  /\ ds'[Train(r, w)] = L[r].snap[w]
             /\ it'[Train(r, w)] = StartIter(L[r].snap[w])
             /\ queue'[Train(r, w)] = <<>>
             /\ StreamIs(r, w)'
  <2>1. Train(r, w) \in Stream /\ Train(r, w)[1] # "val" /\ Train(r, w)[2] = r /\ Train(r, w)[3] = w
    BY Streams
  <2>2. ds'[Train(r, w)] = L[r].snap[w]
    BY <2>1 DEF Begin, LoadStateDict
  <2>3. it'[Train(r, w)] = StartIter(ds'[Train(r, w)]) /\ queue'[Train(r, w)] = <<>>
    BY <2>1 DEF Begin
  <2>4. L[r].snap[w] \in States(Shard(cp, r))
    BY DEF Loaders
  <2> QED BY <1>1, <2>2, <2>3, <2>4, StartsStream DEF StreamIs
<1> QED BY <1>1, <1>3, <1>4

-----------------------------------------------------------------------------
(* The steps.                                                              *)
LEMMA WorkersKeepRows ==
  ASSUME RowsInv, NEW s \in Stream, WorkerStep(s)
  PROVE  RowsInv'
<1>1. Shape /\ Ranks /\ Files /\ Domains
  BY DEF RowsInv, Shape
<1>2. /\ Domains' /\ UNCHANGED others
      /\ \A t \in Stream \ {s} : ds'[t] = ds[t] /\ it'[t] = it[t] /\ queue'[t] = queue[t]
  BY <1>1, WorkerFrame
<1>3. Shape' /\ Files'
  BY <1>1, <1>2, OthersSame
<1>4. cp' = cp /\ loader' = loader /\ took' = took /\ weights' = weights
  BY <1>2 DEF others, trainVars
<1>5. ASSUME NEW r \in Rank, NEW w \in Worker PROVE StreamIs(r, w)'
  <2>1. Train(r, w) \in Stream /\ StreamIs(r, w)
    BY <1>1, Streams DEF Ranks, RankOK
  <2>2. CASE Train(r, w) # s
    BY <1>2, <1>4, <2>1, <2>2 DEF StreamIs
  <2>3. CASE Train(r, w) = s
    <3>1. StreamOK(Shard(cp, r), w, ds[Train(r, w)], it[Train(r, w)], queue[Train(r, w)])
          /\ WorkerStep(Train(r, w))
      BY <2>1, <2>3 DEF StreamIs
    <3>2. Walked(Shard(cp, r), w, ds[Train(r, w)], it[Train(r, w)], queue[Train(r, w)],
                 ds'[Train(r, w)], it'[Train(r, w)], queue'[Train(r, w)])
      BY <1>1, <3>1, WorkerWalks
    <3>3. IsShard(Shard(cp, r))
      BY DEF IsShard
    <3>4. StreamOK(Shard(cp, r), w, ds'[Train(r, w)], it'[Train(r, w)], queue'[Train(r, w)])
      BY <3>1, <3>2, <3>3, WalkedStream, Zenon
    <3> QED BY <1>4, <3>4 DEF StreamIs
  <2> QED BY <2>2, <2>3
<1>6. Ranks'
  BY <1>1, <1>4, <1>5 DEF Ranks, RankOK
<1> QED BY <1>3, <1>6 DEF RowsInv

(* A row taken was one of the queue, and so is the state kept of it.       *)
LEMMA RowTaken ==
  ASSUME RowsInv, NEW r \in Rank, NextRow(r)
  PROVE  RowsInv'
<1> DEFINE w == Turn("train", r)
           s == Train(r, w)
           D == Shard(cp, r)
           e == Head(queue[s])
<1>1. Shape /\ Ranks /\ Files /\ Domains /\ RowReady("train", r) /\ TakeRow("train", r)
  BY DEF RowsInv, Shape, NextRow
<1>2. /\ pc = "micro" /\ took' = [took EXCEPT ![r] = Append(took[r], e.row)]
      /\ ds' = ds /\ it' = it /\ cp' = cp /\ pc' = pc /\ progress' = progress
      /\ weights' = weights /\ filed' = filed /\ disk' = disk
  BY DEF NextRow, Train, diskVars
<1>3. w \in Worker /\ s \in Stream /\ queue[s] # <<>>
  BY <1>1, TurnIs, Streams
<1>4. /\ Domains'
      /\ queue'[s] = Tail(queue[s])
      /\ \A t \in Stream \ {s} : queue'[t] = queue[t]
      /\ DOMAIN loader' = Mode /\ DOMAIN loader'["train"] = Rank
      /\ \A p \in Rank \ {r} : loader'["train"][p] = loader["train"][p]
      /\ loader'["train"][r] =
           [snap |-> [loader["train"][r].snap EXCEPT ![w] = Head(queue[s]).state],
            next |-> (w + 1) % NumWorkers]
  BY <1>1, <1>2, TakeTrain
<1>5. RankOK(r) /\ StreamIs(r, w)
  BY <1>1, <1>3 DEF Ranks, RankOK
<1> HIDE DEF w, s
<1>6. queue[s] \in Seq(Entries(D, w)) /\ e \in Entries(D, w) /\ Tail(queue[s]) \in Seq(Entries(D, w))
  <2>1. queue[s] \in Seq(Entries(D, w))
    BY <1>5 DEF StreamIs, StreamOK, s
  <2> HIDE DEF D
  <2> QED BY <1>3, <2>1
<1>7. e.row \in Rows(D, w) /\ e.state \in States(D)
  BY <1>6 DEF Entries
<1> HIDE DEF e, D
<1>8. (w + 1) % NumWorkers \in Worker
  BY <1>3, Constants DEF Worker
<1>9. ASSUME NEW p \in Rank, NEW v \in Worker PROVE StreamIs(p, v)'
  <2>1. Train(p, v) \in Stream /\ StreamIs(p, v)
    BY <1>1, Streams DEF Ranks, RankOK
  <2>2. CASE Train(p, v) # s
    BY <1>2, <1>4, <2>1, <2>2 DEF StreamIs
  <2>3. CASE Train(p, v) = s
    <3>1. p = r /\ v = w
      BY <2>3, Streams DEF s
    <3>2. StreamOK(D, w, ds[s], it[s], Tail(queue[s]))
      BY <1>6, <2>1, <2>3, <3>1 DEF StreamIs, StreamOK, D
    <3> QED BY <1>2, <1>4, <2>3, <3>1, <3>2 DEF StreamIs, D
  <2> QED BY <2>2, <2>3
<1>10. loader'["train"][r] \in Loaders(D)
  <2>1. loader["train"][r].snap \in [Worker -> States(D)]
    BY <1>5 DEF RankOK, Loaders, D
  <2>2. [loader["train"][r].snap EXCEPT ![w] = e.state] \in [Worker -> States(D)]
    BY <1>3, <1>7, <2>1
  <2> QED BY <1>4, <1>8, <2>2 DEF Loaders, e
<1>11. took'[r] \in Seq(AnyRows(D)) /\ \A p \in Rank \ {r} : took'[p] = took[p]
  <2>1. e.row \in AnyRows(D)
    BY <1>3, <1>7 DEF AnyRows
  <2>2. took[r] \in Seq(AnyRows(D))
    BY <1>5 DEF RankOK, D
  <2>3. took'[r] = Append(took[r], e.row) /\ \A p \in Rank \ {r} : took'[p] = took[p]
    BY <1>1, <1>2 DEF Shape
  <2> QED BY <2>1, <2>2, <2>3
<1>12. Ranks'
  <2> SUFFICES ASSUME NEW p \in Rank PROVE RankOK(p)'
    BY DEF Ranks
  <2>1. RankOK(p)
    BY <1>1 DEF Ranks
  <2>2. CASE p = r
    BY <1>2, <1>9, <1>10, <1>11, <2>1, <2>2 DEF RankOK, D
  <2>3. CASE p # r
    BY <1>2, <1>4, <1>9, <1>11, <2>1, <2>3 DEF RankOK
  <2> QED BY <2>2, <2>3
<1>13. Shape'
  BY <1>1, <1>2, <1>4 DEF Shape
<1>14. \A k \in 1 .. MaxSteps : DiskOK(k)'
  <2> SUFFICES ASSUME NEW k \in 1 .. MaxSteps PROVE DiskOK(k)'
    OBVIOUS
  <2>1. DiskOK(k)
    BY <1>1 DEF Files
  <2> QED BY <1>2, <2>1 DEF DiskOK, Model
<1>15. filed = {}
  BY <1>1, <1>2 DEF Files
<1>16. Files'
  BY <1>1, <1>2, <1>14, <1>15 DEF Files
<1> QED BY <1>12, <1>13, <1>16 DEF RowsInv

(* What leaves the rows of training alone.                                 *)
LEMMA RowsKept ==
  ASSUME RowsInv, LoadersSame, cp' = cp, took' = took, weights' = weights, disk' = disk,
         filed' = filed, filed # {} => pc' = "save" /\ progress'.step = progress.step,
         pc = "done" => pc' = "done",
         pc' \in {"micro", "val", "optim", "count", "save", "done", "down"},
         progress' \in [step : 1 .. MaxSteps, tokens : Nat]
  PROVE  RowsInv'
<1>1. Shape /\ Ranks /\ Files
  BY DEF RowsInv
<1>2. Ranks'
  BY <1>1, RanksSame
<1>3. loader'["train"] = loader["train"]
  BY DEF LoadersSame
<1>4. Files'
  BY <1>1, <1>3, FilesSame
<1>5. Shape'
  BY <1>1, <1>3 DEF Shape, LoadersSame
<1> QED BY <1>2, <1>4, <1>5 DEF RowsInv

(* Loaders and workers that do not change.                                 *)
LEMMA LoadersStill ==
  ASSUME Shape, loader' = loader, UNCHANGED workerVars
  PROVE  LoadersSame
BY DEF Shape, LoadersSame, workerVars, Domains

(* The steps of validation, and the count of a step.                       *)
LEMMA ValKeepsRows ==
  ASSUME RowsInv,
         Accumulated \/ (\E r \in Rank : NextVal(r)) \/ Vote \/ ForwardVal \/ Validated \/ Count
  PROVE  RowsInv'
<1>1. Shape /\ Files /\ progress \in [step : 1 .. MaxSteps, tokens : Nat]
  BY DEF RowsInv, Shape
<1>2. pc # "save" => filed = {}
  BY <1>1 DEF Files
<1> USE DEF trainVars, diskVars
<1>3. CASE Accumulated
  <2>1. LoadersSame
    BY <1>1, <1>3, ResetSame, LoadersStill DEF Accumulated
  <2> QED BY <1>1, <1>2, <1>3, <2>1, RowsKept DEF Accumulated
<1>4. CASE \E r \in Rank : NextVal(r)
  <2>1. PICK r \in Rank : NextVal(r)
    BY <1>4
  <2>2. TakeRow("val", r) \/ (queue' = queue /\ loader' = loader)
    BY <2>1 DEF NextVal
  <2>3. ds' = ds /\ it' = it
    BY <2>1 DEF NextVal
  <2>4. LoadersSame
    BY <1>1, <2>2, <2>3, ValRowSame, LoadersStill DEF workerVars
  <2> QED BY <1>1, <1>2, <2>1, <2>4, RowsKept DEF NextVal
<1>5. CASE Vote
  <2>1. LoadersSame
    BY <1>1, <1>5, LoadersStill DEF Vote
  <2> QED BY <1>1, <1>2, <1>5, <2>1, RowsKept DEF Vote
<1>6. CASE ForwardVal
  <2>1. LoadersSame
    BY <1>1, <1>6, LoadersStill DEF ForwardVal
  <2> QED BY <1>1, <1>2, <1>6, <2>1, RowsKept DEF ForwardVal
<1>7. CASE Validated
  <2>1. LoadersSame
    BY <1>1, <1>7, ResetSame DEF Validated
  <2> QED BY <1>1, <1>2, <1>7, <2>1, RowsKept DEF Validated
<1>8. CASE Count
  <2>1. LoadersSame
    BY <1>1, <1>8, LoadersStill DEF Count
  <2>2. progress' \in [step : 1 .. MaxSteps, tokens : Nat]
    <3>1. progress' = [step |-> IF LastStep THEN progress.step ELSE progress.step + 1,
                       tokens |-> progress.tokens + 1]
      BY <1>8 DEF Count
    <3>2. /\ progress.step \in 1 .. MaxSteps /\ progress.tokens \in Nat
          /\ ~ LastStep => progress.step + 1 \in 1 .. MaxSteps
      BY <1>1, Constants DEF LastStep
    <3> QED BY <3>1, <3>2
  <2> QED BY <1>1, <1>2, <1>8, <2>1, <2>2, RowsKept DEF Count
<1> QED BY <1>3, <1>4, <1>5, <1>6, <1>7, <1>8

(* An optimizer step moves the rows taken to the weights.                  *)
LEMMA StepsKeepRows ==
  ASSUME RowsInv, OptimizerStep
  PROVE  RowsInv'
<1>1. Shape /\ Ranks /\ Files
  BY DEF RowsInv
<1>2. /\ pc = "optim" /\ weights' = [r \in Rank |-> weights[r] \o took[r]]
      /\ took' = [r \in Rank |-> <<>>] /\ pc' \in {"save", "count"}
      /\ loader' = loader /\ UNCHANGED workerVars /\ cp' = cp /\ progress' = progress
      /\ filed' = filed /\ disk' = disk
  BY DEF OptimizerStep, diskVars
<1>3. LoadersSame
  BY <1>1, <1>2, LoadersStill
<1>4. Ranks'
  <2> SUFFICES ASSUME NEW r \in Rank PROVE RankOK(r)'
    BY DEF Ranks
  <2>1. RankOK(r)
    BY <1>1 DEF Ranks
  <2>2. weights'[r] = weights[r] \o took[r] /\ took'[r] = <<>>
    BY <1>2
  <2>3. /\ weights'[r] \in Seq(AnyRows(Shard(cp, r)))
        /\ took'[r] \in Seq(AnyRows(Shard(cp, r)))
    BY <2>1, <2>2 DEF RankOK
  <2>4. \A w \in Worker : StreamIs(r, w)'
    BY <1>2, <1>3, <2>1 DEF RankOK, StreamIs, LoadersSame
  <2> QED BY <1>2, <2>1, <2>3, <2>4 DEF RankOK
<1>5. filed = {}
  BY <1>1, <1>2 DEF Files
<1>6. Files'
  BY <1>1, <1>2, <1>5, FilesSame
<1>7. Shape'
  BY <1>1, <1>2, <1>3 DEF Shape, LoadersSame
<1> QED BY <1>4, <1>6, <1>7 DEF RowsInv

(* Saving a loader or the model, a crash and the two launches.             *)
LEMMA SavesKeepRows ==
  ASSUME RowsInv, NEW r \in Rank, SaveLoader(r)
  PROVE  RowsInv'
<1> DEFINE n == progress.step
           l == loader["train"][r]
<1>1. Shape /\ Ranks /\ Files
  BY DEF RowsInv
<1>2. /\ pc = "save" /\ r \notin filed /\ filed' = filed \cup {r}
      /\ disk' = [disk EXCEPT ![n].loader[r] = <<l>>]
      /\ cp' = cp /\ loader' = loader /\ pc' = pc /\ UNCHANGED workerVars
      /\ progress' = progress /\ took' = took /\ weights' = weights
  BY DEF SaveLoader, trainVars
<1>3. LoadersSame
  BY <1>1, <1>2, LoadersStill
<1>4. Ranks'
  BY <1>1, <1>2, <1>3, RanksSame
<1>5. Shape'
  BY <1>1, <1>2, <1>3 DEF Shape, LoadersSame
<1>6. n \in 1 .. MaxSteps /\ DOMAIN disk = 1 .. MaxSteps /\ l \in Loaders(Shard(cp, r))
  BY <1>1 DEF Shape, Files, Ranks, RankOK
<1> HIDE DEF n, l
<1>7. DiskOK(n)
  BY <1>1, <1>6 DEF Files
<1>8. /\ \A k \in (1 .. MaxSteps) \ {n} : disk'[k] = disk[k]
      /\ disk'[n].app = disk[n].app
      /\ disk'[n].loader = [disk[n].loader EXCEPT ![r] = <<l>>]
      /\ disk'[n] = [loader |-> disk'[n].loader, app |-> disk'[n].app]
      /\ DOMAIN disk' = 1 .. MaxSteps
  <2>1. disk'[n] = [disk[n] EXCEPT !.loader = [disk[n].loader EXCEPT ![r] = <<l>>]]
    BY <1>2, <1>6
  <2>2. disk[n] = [loader |-> disk[n].loader, app |-> disk[n].app]
    BY <1>7 DEF DiskOK
  <2>3. disk'[n] = [loader |-> [disk[n].loader EXCEPT ![r] = <<l>>], app |-> disk[n].app]
    BY <2>1, <2>2
  <2> QED BY <1>2, <1>6, <2>3
<1>9. /\ DOMAIN disk'[n].loader = Rank
      /\ disk'[n].loader[r] = <<l>>
      /\ \A p \in Rank \ {r} : disk'[n].loader[p] = disk[n].loader[p]
  BY <1>7, <1>8 DEF DiskOK
<1>10. /\ \A p \in Rank : disk'[n].loader[p] # <<>> =>
            \E m \in Loaders(Shard(cp, p)) : disk'[n].loader[p] = <<m>>
       /\ disk'[n].app # <<>> => /\ \A p \in Rank : disk'[n].loader[p] # <<>>
                                 /\ pc # "done" => n # MaxSteps
                                 /\ Model(n)
  <2>1. <<l>> # <<>>
    OBVIOUS
  <2> QED BY <1>6, <1>7, <1>8, <1>9, <2>1 DEF DiskOK
<1>11. ASSUME NEW k \in 1 .. MaxSteps PROVE DiskOK(k)'
  <2>1. CASE k = n
    <3>1. Model(k) => Model(k)'
      BY <1>2, <1>8, <2>1 DEF Model
    <3> QED BY <1>2, <1>8, <1>9, <1>10, <2>1, <3>1 DEF DiskOK
  <2>2. CASE k # n
    <3>1. disk'[k] = disk[k] /\ DiskOK(k)
      BY <1>1, <1>8, <2>2 DEF Files
    <3> QED BY <1>2, <3>1 DEF DiskOK, Model
  <2> QED BY <2>1, <2>2
<1>12. \A p \in filed' : disk'[n].loader[p] = <<loader'["train"][p]>>
  <2> SUFFICES ASSUME NEW p \in filed' PROVE disk'[n].loader[p] = <<loader'["train"][p]>>
    OBVIOUS
  <2>1. CASE p = r
    BY <1>2, <1>9, <2>1 DEF l
  <2>2. CASE p # r
    <3>1. p \in filed /\ p \in Rank
      BY <1>1, <1>2, <2>2 DEF Files
    <3>2. disk[n].loader[p] = <<loader["train"][p]>>
      BY <1>1, <3>1 DEF Files, n
    <3> QED BY <1>2, <1>9, <2>2, <3>1, <3>2
  <2> QED BY <2>1, <2>2
<1>13. filed' \subseteq Rank /\ pc' = "save"
  BY <1>1, <1>2 DEF Files
<1>14. n = progress'.step
  BY <1>2 DEF n
<1>15. Files'
  BY <1>8, <1>11, <1>12, <1>13, <1>14 DEF Files
<1> QED BY <1>4, <1>5, <1>15 DEF RowsInv

(* A checkpoint becomes whole when every rank has written its loader.      *)
LEMMA ModelKeepsRows ==
  ASSUME RowsInv, SaveModel
  PROVE  RowsInv'
<1> DEFINE n == progress.step
           a == [weights |-> weights, progress |-> progress]
<1>1. Shape /\ Ranks /\ Files
  BY DEF RowsInv
<1>2. /\ pc = "save" /\ filed = Rank /\ filed' = {}
      /\ disk' = [disk EXCEPT ![n].app = <<a>>]
      /\ pc' = IF LastStep THEN "done" ELSE "count"
      /\ cp' = cp /\ loader' = loader /\ UNCHANGED workerVars
      /\ progress' = progress /\ took' = took /\ weights' = weights
  BY DEF SaveModel, trainVars
<1>3. LoadersSame
  BY <1>1, <1>2, LoadersStill
<1>4. Ranks'
  BY <1>1, <1>2, <1>3, RanksSame
<1>5. Shape'
  BY <1>1, <1>2, <1>3 DEF Shape, LoadersSame
<1>6. /\ n \in 1 .. MaxSteps /\ DOMAIN disk = 1 .. MaxSteps
      /\ progress = [step |-> n, tokens |-> progress.tokens] /\ progress.tokens \in Nat
  BY <1>1 DEF Shape, Files
<1>7. DiskOK(n) /\ \A p \in Rank : disk[n].loader[p] = <<loader["train"][p]>>
  BY <1>1, <1>2, <1>6 DEF Files
<1>8. n = MaxSteps <=> LastStep
  BY <1>6, Constants DEF LastStep
<1>9. \A p \in Rank : weights[p] \in Seq(AnyRows(Shard(cp, p)))
  BY <1>1 DEF Ranks, RankOK
<1>a. \E W, t : /\ <<a>> = <<[weights |-> W, progress |-> [step |-> n, tokens |-> t]]>>
                /\ t \in Nat
                /\ DOMAIN W = Rank /\ \A p \in Rank : W[p] \in Seq(AnyRows(Shard(cp, p)))
  <2>1. a = [weights |-> weights, progress |-> [step |-> n, tokens |-> progress.tokens]]
    BY <1>6
  <2>2. DOMAIN weights = Rank
    BY <1>1 DEF Shape
  <2> HIDE DEF n, a
  <2>3. progress.tokens \in Nat
    BY <1>6
  <2> QED BY <1>9, <2>1, <2>2, <2>3
<1> HIDE DEF n, a
<1>10. /\ \A k \in (1 .. MaxSteps) \ {n} : disk'[k] = disk[k]
       /\ disk'[n].app = <<a>> /\ disk'[n].loader = disk[n].loader
       /\ disk'[n] = [loader |-> disk'[n].loader, app |-> disk'[n].app]
       /\ DOMAIN disk' = 1 .. MaxSteps
  <2>1. disk'[n] = [disk[n] EXCEPT !.app = <<a>>]
    BY <1>2, <1>6
  <2>2. disk[n] = [loader |-> disk[n].loader, app |-> disk[n].app]
    BY <1>7 DEF DiskOK
  <2>3. disk'[n] = [loader |-> disk[n].loader, app |-> <<a>>]
    BY <2>1, <2>2
  <2> QED BY <1>2, <1>6, <2>3
<1>11. ASSUME NEW k \in 1 .. MaxSteps PROVE DiskOK(k)'
  <2>1. CASE k = n
    <3>1. /\ DOMAIN disk'[k].loader = Rank
          /\ \A r \in Rank : /\ disk'[k].loader[r] # <<>>
                             /\ \E m \in Loaders(Shard(cp, r)) : disk'[k].loader[r] = <<m>>
      <4>1. \A r \in Rank : loader["train"][r] \in Loaders(Shard(cp, r))
        BY <1>1 DEF Ranks, RankOK
      <4>2. \A m : <<m>> # <<>>
        OBVIOUS
      <4> QED BY <1>7, <1>10, <2>1, <4>1, <4>2 DEF DiskOK
    <3>2. Model(k)'
      BY <1>2, <1>10, <1>a, <2>1 DEF Model
    <3>3. pc' # "done" => k # MaxSteps
      BY <1>2, <1>8, <2>1
    <3> QED BY <1>2, <1>10, <2>1, <3>1, <3>2, <3>3 DEF DiskOK
  <2>2. CASE k # n
    <3>1. disk'[k] = disk[k] /\ DiskOK(k)
      BY <1>1, <1>10, <2>2 DEF Files
    <3> QED BY <1>2, <3>1 DEF DiskOK, Model
  <2> QED BY <2>1, <2>2
<1>12. Files'
  BY <1>2, <1>10, <1>11 DEF Files
<1> QED BY <1>4, <1>5, <1>12 DEF RowsInv

(* A crash leaves the disk.                                                *)
LEMMA CrashKeepsRows ==
  ASSUME RowsInv, Crash
  PROVE  RowsInv'
<1>1. Shape /\ Ranks /\ Files
  BY DEF RowsInv
<1>2. /\ pc # "done" /\ pc' = "down" /\ filed' = {} /\ disk' = disk
      /\ cp' = cp /\ loader' = loader /\ UNCHANGED workerVars
      /\ progress' = progress /\ took' = took /\ weights' = weights
  BY DEF Crash, Up, trainVars
<1>3. LoadersSame
  BY <1>1, <1>2, LoadersStill
<1>4. Ranks'
  BY <1>1, <1>2, <1>3, RanksSame
<1>5. Shape'
  BY <1>1, <1>2, <1>3 DEF Shape, LoadersSame
<1>6. ASSUME NEW k \in 1 .. MaxSteps PROVE DiskOK(k)'
  <2>1. DiskOK(k)
    BY <1>1 DEF Files
  <2> QED BY <1>2, <2>1 DEF DiskOK, Model
<1>7. Files'
  BY <1>1, <1>2, <1>6 DEF Files
<1> QED BY <1>4, <1>5, <1>7 DEF RowsInv

(* A launch from any file that has a state of every rank.                  *)
LEMMA LaunchKeepsRows ==
  ASSUME RowsInv, pc = "down",
         NEW L, DOMAIN L = Rank, \A r \in Rank : L[r] \in Loaders(Shard(cp, r)), Begin(L),
         DOMAIN weights' = Rank,
         \A r \in Rank : weights'[r] \in Seq(AnyRows(Shard(cp, r))),
         progress' \in [step : 1 .. MaxSteps, tokens : Nat]
  PROVE  RowsInv'
<1>1. Shape /\ Files
  BY DEF RowsInv
<1>2. /\ Domains' /\ DOMAIN loader' = Mode /\ loader'["train"] = L
      /\ \A r \in Rank : took'[r] = <<>>
      /\ DOMAIN took' = Rank
      /\ pc' = "micro" /\ cp' = cp /\ filed' = filed /\ disk' = disk
      /\ \A r \in Rank, w \in Worker : StreamIs(r, w)'
  BY <1>1, Begins
<1>3. Ranks'
  <2> SUFFICES ASSUME NEW r \in Rank PROVE RankOK(r)'
    BY DEF Ranks
  <2>1. took'[r] \in Seq(AnyRows(Shard(cp, r)))
    <3>1. <<>> \in Seq(AnyRows(Shard(cp, r)))
      OBVIOUS
    <3> QED BY <1>2, <3>1
  <2> QED BY <1>2, <2>1 DEF RankOK
<1>4. Shape'
  BY <1>1, <1>2 DEF Shape
<1>5. filed = {}
  BY <1>1 DEF Files
<1>6. ASSUME NEW k \in 1 .. MaxSteps PROVE DiskOK(k)'
  <2>1. DiskOK(k)
    BY <1>1 DEF Files
  <2> QED BY <1>2, <2>1 DEF DiskOK, Model
<1>7. Files'
  BY <1>1, <1>2, <1>5, <1>6 DEF Files
<1> QED BY <1>3, <1>4, <1>7 DEF RowsInv

(* What a checkpoint brings back.                                          *)
LEMMA WholeIs ==
  ASSUME RowsInv, pc = "down", NEW k \in Whole
  PROVE  /\ k \in 1 .. MaxSteps /\ k + 1 \in 1 .. MaxSteps
         /\ disk[k].app[1].progress.step = k
         /\ \E t \in Nat : disk[k].app[1].progress = [step |-> k, tokens |-> t]
         /\ DOMAIN disk[k].app[1].weights = Rank
         /\ \A r \in Rank :
              /\ disk[k].app[1].weights[r] \in Seq(AnyRows(Shard(cp, r)))
              /\ LoaderFile(r, k) = disk[k].loader[r]
              /\ LoaderFile(r, k)[1] \in Loaders(Shard(cp, r))
<1>1. k \in 1 .. MaxSteps /\ disk[k].app # <<>>
  BY DEF Whole
<1>2. DiskOK(k)
  BY <1>1 DEF RowsInv, Files
<1>3. k # MaxSteps /\ Model(k) /\ \A r \in Rank : disk[k].loader[r] # <<>>
  BY <1>1, <1>2 DEF DiskOK
<1>4. k + 1 \in 1 .. MaxSteps
  BY <1>1, <1>3, Constants
<1>5. PICK W, t : /\ disk[k].app = <<[weights |-> W, progress |-> [step |-> k, tokens |-> t]]>>
                  /\ t \in Nat
                  /\ DOMAIN W = Rank /\ \A r \in Rank : W[r] \in Seq(AnyRows(Shard(cp, r)))
  BY <1>3 DEF Model
<1>6. /\ disk[k].app[1].weights = W
      /\ disk[k].app[1].progress = [step |-> k, tokens |-> t]
  BY <1>5
<1>7. ASSUME NEW r \in Rank
      PROVE  /\ LoaderFile(r, k) = disk[k].loader[r]
             /\ LoaderFile(r, k)[1] \in Loaders(Shard(cp, r))
  <2>1. LoaderFile(r, k) = disk[k].loader[r]
    BY <1>3 DEF LoaderFile
  <2>2. PICK l \in Loaders(Shard(cp, r)) : disk[k].loader[r] = <<l>>
    BY <1>2, <1>3 DEF DiskOK
  <2> QED BY <2>1, <2>2
<1> QED BY <1>1, <1>4, <1>5, <1>6, <1>7

(* A checkpoint brings back what a loader may hold; without one all starts *)
(* anew.                                                                   *)
LEMMA RelaunchKeepsRows ==
  ASSUME RowsInv, Relaunch
  PROVE  RowsInv'
<1>1. Shape /\ pc = "down"
  BY DEF RowsInv, Relaunch, Resume, StartOver
<1>2. ASSUME NEW k \in 1 .. MaxSteps, Resume(k) PROVE RowsInv'
  <2> DEFINE L == [r \in Rank |-> LoaderFile(r, k)[1]]
  <2>1. /\ k \in Whole /\ weights' = disk[k].app[1].weights
        /\ progress' = [disk[k].app[1].progress EXCEPT !.step = @ + 1]
        /\ Begin(L)
    BY <1>2 DEF Resume
  <2>2. DOMAIN L = Rank /\ \A r \in Rank : L[r] \in Loaders(Shard(cp, r))
    BY <1>1, <2>1, WholeIs
  <2>3. /\ DOMAIN weights' = Rank
        /\ \A r \in Rank : weights'[r] \in Seq(AnyRows(Shard(cp, r)))
    BY <1>1, <2>1, WholeIs
  <2>4. progress' \in [step : 1 .. MaxSteps, tokens : Nat]
    <3>1. PICK t \in Nat : disk[k].app[1].progress = [step |-> k, tokens |-> t]
      BY <1>1, <2>1, WholeIs
    <3>2. k + 1 \in 1 .. MaxSteps
      BY <1>1, <2>1, WholeIs
    <3>3. progress' = [step |-> k + 1, tokens |-> t]
      BY <2>1, <3>1
    <3> QED BY <3>2, <3>3
  <2> HIDE DEF L
  <2> QED BY <1>1, <2>1, <2>2, <2>3, <2>4, LaunchKeepsRows, Zenon
<1>3. ASSUME StartOver PROVE RowsInv'
  <2> DEFINE L == [r \in Rank |-> FreshLoader]
  <2>1. /\ weights' = [r \in Rank |-> <<>>] /\ progress' = [step |-> 1, tokens |-> 0]
        /\ Begin(L)
    BY <1>3 DEF StartOver
  <2>2. DOMAIN L = Rank /\ \A r \in Rank : L[r] \in Loaders(Shard(cp, r))
    BY FreshIs
  <2>3. /\ DOMAIN weights' = Rank
        /\ \A r \in Rank : weights'[r] \in Seq(AnyRows(Shard(cp, r)))
    BY <2>1
  <2>4. progress' \in [step : 1 .. MaxSteps, tokens : Nat]
    BY <2>1, Constants
  <2> HIDE DEF L
  <2> QED BY <1>1, <2>1, <2>2, <2>3, <2>4, LaunchKeepsRows, Zenon
<1> QED BY <1>2, <1>3 DEF Relaunch

(* RowsInv is an invariant: what is in a queue, was taken, was trained on  *)
(* or was saved are rows some worker may emit, each with a state a loader  *)
(* may have.                                                               *)
THEOREM RowsInvariant == Spec => []RowsInv
<1>1. Init => RowsInv
  BY ShapeInit, RanksInit, FilesInit DEF RowsInv
<1>2. RowsInv /\ [Next]_vars => RowsInv'
  <2> SUFFICES ASSUME RowsInv, [Next]_vars PROVE RowsInv'
    OBVIOUS
  <2>1. CASE \E s \in Stream : WorkerStep(s)
    BY <2>1, WorkersKeepRows
  <2>2. CASE \E r \in Rank : RankStep(r)
    BY <2>2, RowTaken, ValKeepsRows, SavesKeepRows DEF RankStep
  <2>3. CASE GangStep
    BY <2>3, ValKeepsRows, StepsKeepRows, ModelKeepsRows DEF GangStep
  <2>4. CASE Crash
    BY <2>4, CrashKeepsRows
  <2>5. CASE Relaunch
    BY <2>5, RelaunchKeepsRows
  <2>6. CASE UNCHANGED vars
    <3>1. Shape /\ loader' = loader /\ UNCHANGED workerVars
      BY <2>6 DEF RowsInv, vars, workerVars
    <3>2. LoadersSame
      BY <3>1, LoadersStill
    <3>3. /\ cp' = cp /\ took' = took /\ weights' = weights /\ disk' = disk /\ filed' = filed
          /\ pc' = pc /\ progress' = progress
      BY <2>6 DEF vars, trainVars, diskVars
    <3>4. filed # {} => pc = "save"
      BY DEF RowsInv, Files
    <3> QED BY <3>1, <3>2, <3>3, <3>4, RowsKept DEF Shape
  <2> QED BY <2>1, <2>2, <2>3, <2>4, <2>5, <2>6 DEF Next
<1> QED BY <1>1, <1>2, PTL DEF Spec

(* Whatever the lengths, the images, the number of workers and the         *)
(* crashes, every row a rank takes has a token that trains, only a sample  *)
(* that is alone in its row is cut, and no image is cut in two (_process,  *)
(* _find_image_safe_cut and _finalize_pack of trainer/sft/data.py).        *)
THEOREM EveryRowTrains == Spec => []RowsTrain
<1>1. RowsInv => RowsTrain
  <2> SUFFICES ASSUME RowsInv, NEW r \in Rank, NEW i \in DOMAIN took[r]
               PROVE  LET row == took[r][i].samples
                          content(j) == Content("train", row[j])
                      IN  /\ \E j \in DOMAIN row : content(j).trains \cap 1 .. row[j].kept # {}
                          /\ \A j \in DOMAIN row :
                               /\ row[j].kept = content(j).len \/ Len(row) = 1
                               /\ content(j).images = {p \in TrainData[ExampleOf(row[j].at)].images : p.offset < row[j].kept}
                               /\ \A p \in content(j).images : p.offset + p.length <= row[j].kept
    BY Zenon DEF RowsTrain
  <2>1. took[r] \in Seq(AnyRows(Shard(cp, r)))
    BY DEF RowsInv, Ranks, RankOK
  <2>2. PICK w \in Worker : took[r][i] \in Rows(Shard(cp, r), w)
    <3>1. took[r][i] \in AnyRows(Shard(cp, r))
      BY <2>1
    <3> QED BY <3>1 DEF AnyRows
  <2>3. IsRow(Shard(cp, r), w, took[r][i])
    BY <2>2, RowsAre
  <2> QED BY <2>3, RowTrains
<1> QED BY <1>1, RowsInvariant, PTL

-----------------------------------------------------------------------------
(* The order of the stream.  D is a shard, and a and b are positions.      *)

Follows(D, a, b) == b \in D /\ a < b /\ \A p \in D : ~ (a < p /\ p < b)

(* A dataset in state d has passed over nothing due after position a: it   *)
(* stands before the next due position, or holds the sample drawn there.   *)
Stands(D, a, d) ==
  IF d.pending = <<>> THEN a <= d.step /\ \A p \in D : ~ (a < p /\ p <= d.step)
                      ELSE Follows(D, a, d.step)

(* A pack that takes up the stream after position a, and where it ends.    *)
Before(a, pack, i) == IF i = 1 THEN a ELSE pack[i - 1].at
InOrder(D, a, pack) == \A i \in 1 .. Len(pack) : Follows(D, Before(a, pack, i), pack[i].at)
PackEnd(a, pack) == Before(a, pack, Len(pack) + 1)

(* What closes a row: it is full, or the sample after it does not fit.     *)
Full(D, pack) ==
  \/ Size("train", pack) >= RowLen
  \/ \E q : Follows(D, pack[Len(pack)].at, q)
            /\ Size("train", pack) + Length("train", At(q)) > RowLen

IsPack(D, a, pack) == Closed(D, pack) /\ InOrder(D, a, pack) /\ Full(D, pack)
RowIn(D, a, row) ==
  \E pack : IsPack(D, a, pack) /\ row = [worker |-> 0, samples |-> Cut("train", pack)]
RowEnd(row) == Last(row.samples).at

(* Rows one after the other from position a.                               *)
RowBefore(a, F, i) == IF i = 1 THEN a ELSE RowEnd(F[i - 1])
Chain(D, a, F) == \A i \in 1 .. Len(F) : RowIn(D, RowBefore(a, F, i), F[i])
End(a, F) == RowBefore(a, F, Len(F) + 1)

(* One position at most follows another.                                   *)
LEMMA NextIsOne ==
  ASSUME NEW D, D \subseteq Nat, NEW a \in Nat, NEW p, NEW q, Follows(D, a, p), Follows(D, a, q)
  PROVE  p = q
<1>1. p \in Nat /\ q \in Nat
  BY DEF Follows
<1> QED BY <1>1 DEF Follows

(* Numbers that rise from each to the next rise.                           *)
LEMMA Rising ==
  ASSUME NEW n \in Nat, NEW f, \A i \in 1 .. n : f[i] \in Nat,
         \A i \in 1 .. n : i # 1 => f[i - 1] < f[i]
  PROVE  \A i, j \in 1 .. n : i < j => f[i] < f[j]
<1> SUFFICES ASSUME NEW i \in 1 .. n PROVE \A j \in 1 .. n : i < j => f[i] < f[j]
  OBVIOUS
<1> DEFINE G == {k \in Nat : i + k + 1 \in 1 .. n => f[i] < f[i + k + 1]}
<1>1. 0 \in G
  <2>1. i + 1 \in 1 .. n => i + 1 # 1 /\ (i + 1) - 1 = i
    OBVIOUS
  <2>2. i + 0 + 1 = i + 1
    OBVIOUS
  <2>3. i + 1 \in 1 .. n => f[i] < f[i + 1]
    BY <2>1
  <2> QED BY <2>2, <2>3
<1>2. ASSUME NEW k \in Nat, k \in G PROVE k + 1 \in G
  <2> SUFFICES ASSUME i + (k + 1) + 1 \in 1 .. n PROVE f[i] < f[i + (k + 1) + 1]
    OBVIOUS
  <2> DEFINE m == i + k + 1
  <2>1. m \in 1 .. n /\ m + 1 \in 1 .. n /\ m + 1 = i + (k + 1) + 1 /\ m + 1 # 1 /\ (m + 1) - 1 = m
    OBVIOUS
  <2>2. f[i] < f[m]
    BY <1>2, <2>1
  <2> HIDE DEF m
  <2>3. f[m] < f[m + 1]
    BY <2>1
  <2>4. f[i] < f[m + 1]
    BY <2>1, <2>2, <2>3
  <2> QED BY <2>1, <2>4
<1>3. \A k \in Nat : k \in G
  <2> HIDE DEF G
  <2> QED BY <1>1, <1>2, Counting
<1> SUFFICES ASSUME NEW j \in 1 .. n, i < j PROVE f[i] < f[j]
  OBVIOUS
<1>4. j - i - 1 \in Nat /\ i + (j - i - 1) + 1 = j
  OBVIOUS
<1> QED BY <1>3, <1>4

(* A shard is a set of positions.                                          *)
LEMMA ShardNat == ASSUME NEW D, IsShard(D) PROVE D \subseteq Nat \ {0} /\ \A p \in D : At(p).at = p
BY DEF IsShard, Shard, At

(* The positions of a pack.                                                *)
LEMMA PackRises ==
  ASSUME NEW D, IsShard(D), NEW a \in Nat, NEW pack \in Seq(Draws(D)), InOrder(D, a, pack)
  PROVE  /\ \A i \in 1 .. Len(pack) : /\ pack[i].at \in D /\ pack[i].at \in Nat
                                      /\ pack[i] = At(pack[i].at) /\ a < pack[i].at
         /\ \A i, j \in 1 .. Len(pack) : i < j => pack[i].at < pack[j].at
         /\ PackEnd(a, pack) \in Nat /\ a <= PackEnd(a, pack)
         /\ \A i \in 1 .. Len(pack) : pack[i].at <= PackEnd(a, pack)
         /\ pack # <<>> => PackEnd(a, pack) = pack[Len(pack)].at /\ PackEnd(a, pack) \in D
<1> DEFINE n == Len(pack)
           f == [i \in 1 .. n |-> pack[i].at]
<1>1. n \in Nat /\ \A i \in 1 .. n : pack[i] \in Draws(D)
  OBVIOUS
<1>2. \A i \in 1 .. n : pack[i].at \in D /\ pack[i].at \in Nat /\ pack[i] = At(pack[i].at)
  BY <1>1, ShardNat DEF Draws
<1>3. \A i \in 1 .. n : i # 1 => pack[i - 1].at < pack[i].at
  BY DEF InOrder, Follows, Before
<1>4. 1 \in 1 .. n => a < pack[1].at
  BY DEF InOrder, Follows, Before
<1>5. \A i, j \in 1 .. n : i < j => f[i] < f[j]
  <2>1. \A i \in 1 .. n : f[i] \in Nat
    BY <1>2
  <2>2. \A i \in 1 .. n : i # 1 => f[i - 1] < f[i]
    <3>1. \A i \in 1 .. n : i # 1 => i - 1 \in 1 .. n
      BY <1>1
    <3> QED BY <1>3, <3>1
  <2> HIDE DEF n, f
  <2> QED BY <1>1, <2>1, <2>2, Rising
<1>6. \A i, j \in 1 .. n : i < j => pack[i].at < pack[j].at
  BY <1>5
<1> HIDE DEF f
<1>7. \A i \in 1 .. n : a < pack[i].at
  <2> TAKE i \in 1 .. n
  <2>1. 1 \in 1 .. n /\ (i = 1 \/ 1 < i)
    BY <1>1
  <2> QED BY <1>2, <1>4, <1>6, <2>1
<1>8. n # 0 => n \in 1 .. n /\ \A i \in 1 .. n : i = n \/ i < n
  BY <1>1
<1>9. PackEnd(a, pack) = IF n = 0 THEN a ELSE pack[n].at
  BY <1>1 DEF PackEnd, Before
<1>10. pack = <<>> <=> n = 0
  OBVIOUS
<1>11. \A i \in 1 .. n : pack[i].at <= PackEnd(a, pack)
  <2> TAKE i \in 1 .. n
  <2>1. n # 0
    BY <1>1
  <2>2. i = n \/ i < n
    BY <1>8, <2>1
  <2> QED BY <1>2, <1>6, <1>8, <1>9, <2>1, <2>2
<1>12. PackEnd(a, pack) \in Nat /\ a <= PackEnd(a, pack)
  BY <1>2, <1>7, <1>8, <1>9
<1> QED BY <1>2, <1>6, <1>7, <1>8, <1>9, <1>10, <1>11, <1>12

(* A pack takes every due position between its ends.                       *)
Covers(D, a, pack) ==
  \A p \in D : a < p /\ p <= PackEnd(a, pack) => \E i \in 1 .. Len(pack) : pack[i].at = p

(* In order means that nothing due is left out.                            *)
LEMMA PackCovers ==
  ASSUME NEW D, IsShard(D), NEW a \in Nat, NEW pack \in Seq(Draws(D)), InOrder(D, a, pack)
  PROVE  Covers(D, a, pack)
<1> SUFFICES ASSUME NEW p \in D, a < p, p <= PackEnd(a, pack)
             PROVE  \E i \in 1 .. Len(pack) : pack[i].at = p
  BY DEF Covers
<1> DEFINE n == Len(pack)
           T == {i \in 1 .. n : p <= pack[i].at}
<1>1. n \in Nat /\ p \in Nat
  BY ShardNat
<1>2. \A i \in 1 .. n : pack[i].at \in Nat
  BY PackRises
<1>3. n # 0 /\ n \in T
  <2>1. n # 0
    BY <1>1 DEF PackEnd, Before
  <2>2. PackEnd(a, pack) = pack[n].at
    BY <2>1, PackRises
  <2> QED BY <1>1, <2>1, <2>2
<1>4. PICK i \in T : \A j \in T : i <= j
  <2>1. T \in SUBSET Nat /\ T # {}
    BY <1>1, <1>3
  <2> HIDE DEF T
  <2> QED BY <2>1, LeastNumber
<1>5. Follows(D, Before(a, pack, i), pack[i].at)
  BY <1>4 DEF InOrder
<1>6. Before(a, pack, i) < p
  <2>1. CASE i = 1
    BY <2>1 DEF Before
  <2>2. CASE i # 1
    <3>1. i - 1 \in 1 .. n /\ i - 1 \notin T
      BY <1>1, <1>4, <2>2
    <3> QED BY <1>1, <1>2, <2>2, <3>1 DEF Before
  <2> QED BY <2>1, <2>2
<1>7. ~ (p < pack[i].at)
  BY <1>5, <1>6 DEF Follows
<1> QED BY <1>1, <1>2, <1>4, <1>7

-----------------------------------------------------------------------------
(* Where a row begins says what it holds: packs from the same position on  *)
(* have the same samples as far as both go, and the longer would have to   *)
(* go on where the shorter was full.                                       *)
LEMMA PackUnique ==
  ASSUME NEW D, IsShard(D), NEW a \in Nat, NEW p, NEW q, IsPack(D, a, p), IsPack(D, a, q),
         Len(p) <= Len(q)
  PROVE  p = q
<1> DEFINE n == Len(p)
<1>1. /\ p \in Seq(Draws(D)) /\ q \in Seq(Draws(D)) /\ n \in Nat \ {0} /\ Len(q) \in Nat
      /\ InOrder(D, a, p) /\ InOrder(D, a, q) /\ Fits(q) /\ Room(q, Len(q) - 1) /\ Full(D, p)
  BY DEF IsPack, Closed
<1>2. D \subseteq Nat
  BY ShardNat
<1>3. /\ \A i \in 1 .. n : p[i].at \in Nat /\ p[i] = At(p[i].at)
      /\ \A i \in 1 .. Len(q) : q[i].at \in Nat /\ q[i] = At(q[i].at)
  BY <1>1, PackRises
<1> DEFINE G == {k \in Nat : \A i \in 1 .. n : i <= k => p[i] = q[i]}
<1>4. 0 \in G
  BY <1>1
<1>5. ASSUME NEW k \in Nat, k \in G PROVE k + 1 \in G
  <2> SUFFICES ASSUME k + 1 \in 1 .. n PROVE p[k + 1] = q[k + 1]
    BY <1>5
  <2>1. Before(a, p, k + 1) = Before(a, q, k + 1) /\ Before(a, p, k + 1) \in Nat
    <3>1. CASE k = 0
      BY <3>1 DEF Before
    <3>2. CASE k # 0
      <4>1. k \in 1 .. n /\ k + 1 # 1 /\ (k + 1) - 1 = k
        BY <3>2
      <4>2. p[k] = q[k]
        BY <1>5, <4>1
      <4> QED BY <1>3, <4>1, <4>2 DEF Before
    <3> QED BY <3>1, <3>2
  <2>2. k + 1 \in 1 .. Len(q)
    BY <1>1
  <2>3. Follows(D, Before(a, p, k + 1), p[k + 1].at) /\ Follows(D, Before(a, q, k + 1), q[k + 1].at)
    BY <1>1, <2>2 DEF InOrder
  <2>4. p[k + 1].at = q[k + 1].at
    BY <1>2, <2>1, <2>3, NextIsOne
  <2> QED BY <1>3, <2>2, <2>4
<1>6. n \in G
  <2>1. \A k \in Nat : k \in G
    <3> HIDE DEF G
    <3> QED BY <1>4, <1>5, Counting
  <2> QED BY <1>1, <2>1
<1>7. \A i \in 1 .. n : p[i] = q[i]
  BY <1>1, <1>6
<1> HIDE DEF G
<1>8. ASSUME n < Len(q) PROVE FALSE
  <2>1. /\ Prefix(q, n) \in Seq(Draws(D)) /\ Len(Prefix(q, n)) = n
        /\ \A i \in 1 .. n : Prefix(q, n)[i] = q[i]
    <3>1. n \in 0 .. Len(q)
      BY <1>1, <1>8
    <3> QED BY <1>1, <3>1, PrefixesOf
  <2>2. Prefix(q, n) = p
    BY <1>1, <1>7, <2>1
  <2>3. n \in 1 .. (Len(q) - 1) /\ n + 1 \in 2 .. Len(q) /\ (n + 1) - 1 = n
        /\ n + 1 \in 1 .. Len(q) /\ n \in 1 .. n /\ n + 1 # 1
    BY <1>1, <1>8
  <2>4. Size("train", p) < RowLen
    BY <1>1, <2>2, <2>3 DEF Room
  <2>5. Size("train", p) + Length("train", q[n + 1]) <= RowLen
    BY <1>1, <2>2, <2>3 DEF Fits
  <2>6. Follows(D, p[n].at, q[n + 1].at)
    BY <1>1, <1>7, <2>3 DEF InOrder, Before
  <2>7. Size("train", p) \in Nat /\ Length("train", q[n + 1]) \in Nat /\ RowLen \in Nat
    <3>1. PICK c, r : D = Shard(c, r)
      BY DEF IsShard
    <3>2. q[n + 1] \in Draws(D)
      BY <1>1, <2>3
    <3> QED BY <1>1, <3>1, <3>2, SizeTyped, ShardDraws, Constants
  <2>8. PICK x : /\ Follows(D, p[n].at, x)
                 /\ Size("train", p) + Length("train", At(x)) > RowLen
    BY <1>1, <2>4, <2>7 DEF Full
  <2>9. x = q[n + 1].at
    <3>1. p[n].at \in Nat
      BY <1>3, <2>3
    <3> QED BY <1>2, <2>6, <2>8, <3>1, NextIsOne
  <2>10. At(x) = q[n + 1]
    BY <1>3, <2>3, <2>9
  <2> QED BY <2>5, <2>7, <2>8, <2>10
<1>9. Len(q) = n
  BY <1>1, <1>8
<1> QED BY <1>1, <1>7, <1>9

(* Rows from the same position on are the same.                            *)
LEMMA RowUnique ==
  ASSUME NEW D, IsShard(D), NEW a \in Nat, NEW u, NEW v, RowIn(D, a, u), RowIn(D, a, v)
  PROVE  u = v
<1>1. PICK p : IsPack(D, a, p) /\ u = [worker |-> 0, samples |-> Cut("train", p)]
  BY DEF RowIn
<1>2. PICK q : IsPack(D, a, q) /\ v = [worker |-> 0, samples |-> Cut("train", q)]
  BY DEF RowIn
<1>3. Len(p) \in Nat /\ Len(q) \in Nat
  BY <1>1, <1>2 DEF IsPack, Closed
<1>4. p = q
  <2>1. CASE Len(p) <= Len(q)
    BY <1>1, <1>2, <2>1, PackUnique
  <2>2. CASE Len(q) <= Len(p)
    BY <1>1, <1>2, <2>2, PackUnique
  <2> QED BY <1>3, <2>1, <2>2
<1> QED BY <1>1, <1>2, <1>4

(* A row of the stream ends at a due position.                             *)
LEMMA RowEndDue ==
  ASSUME NEW D, IsShard(D), NEW pack, Closed(D, pack)
  PROVE  LET row == [worker |-> 0, samples |-> Cut("train", pack)]
         IN  RowEnd(row) = pack[Len(pack)].at /\ RowEnd(row) \in D
<1>1. PICK c, r : D = Shard(c, r)
  BY DEF IsShard
<1>2. PICK row : row = Cut("train", pack)
  OBVIOUS
<1>3. Keeps(row, pack)
  BY <1>1, <1>2, RowKeeps
<1>4. RowEnd([worker |-> 0, samples |-> row]) = row[Len(row)].at
  BY DEF RowEnd, Last
<1>5. Len(row) = Len(pack) /\ Len(pack) \in 1 .. Len(pack)
  BY <1>3 DEF Keeps
<1>6. row[Len(row)].at = pack[Len(pack)].at
  BY <1>3, <1>5 DEF Keeps
<1>7. pack[Len(pack)].at \in D
  <2>1. pack \in Seq(Draws(D))
    BY DEF Closed
  <2>2. pack[Len(pack)] \in Draws(D)
    BY <1>5, <2>1
  <2> QED BY <1>1, <2>2, ShardDraws
<1> QED BY <1>2, <1>4, <1>6, <1>7

(* The same of a row of the stream.                                        *)
LEMMA RowEnds ==
  ASSUME NEW D, IsShard(D), NEW a, NEW row, RowIn(D, a, row)
  PROVE  RowEnd(row) \in D /\ RowEnd(row) \in Nat
<1>1. PICK pack : IsPack(D, a, pack) /\ row = [worker |-> 0, samples |-> Cut("train", pack)]
  BY DEF RowIn
<1>2. RowEnd(row) \in D
  BY <1>1, RowEndDue DEF IsPack
<1> QED BY <1>2, ShardNat

(* A row has the due positions from where it begins to where it ends, in   *)
(* order.                                                                  *)
LEMMA RowOrder ==
  ASSUME NEW D, IsShard(D), NEW a \in Nat, NEW row, RowIn(D, a, row)
  PROVE  /\ Len(row.samples) \in Nat \ {0} /\ DOMAIN row.samples = 1 .. Len(row.samples)
         /\ \A j \in DOMAIN row.samples :
              /\ row.samples[j].at \in D /\ row.samples[j].at \in Nat
              /\ row.samples[j].epoch = EpochAt("train", row.samples[j].at)
              /\ a < row.samples[j].at /\ row.samples[j].at <= RowEnd(row)
              /\ j > 1 => row.samples[j - 1].at < row.samples[j].at
         /\ a < RowEnd(row)
         /\ \A p \in D : a < p /\ p <= RowEnd(row) => \E j \in DOMAIN row.samples : row.samples[j].at = p
<1>1. PICK pack : IsPack(D, a, pack) /\ row = [worker |-> 0, samples |-> Cut("train", pack)]
  BY DEF RowIn
<1>2. Closed(D, pack) /\ InOrder(D, a, pack) /\ pack \in Seq(Draws(D)) /\ pack # <<>>
  BY <1>1 DEF IsPack, Closed
<1>3. PICK samples : samples = Cut("train", pack)
  OBVIOUS
<1>4. Keeps(samples, pack)
  <2>1. PICK c, r : D = Shard(c, r)
    BY DEF IsShard
  <2> QED BY <1>2, <1>3, <2>1, RowKeeps
<1>5. /\ Len(samples) = Len(pack) /\ Len(samples) \in Nat \ {0} /\ DOMAIN samples = 1 .. Len(pack)
      /\ \A j \in 1 .. Len(pack) : samples[j].at = pack[j].at /\ samples[j].epoch = pack[j].epoch
  <2>1. /\ samples \in Seq([at : Nat \ {0}, epoch : Nat, kept : Nat])
        /\ Len(samples) = Len(pack) /\ Len(samples) \in Nat \ {0}
    BY <1>4, Zenon DEF Keeps
  <2>2. \A j \in 1 .. Len(pack) : samples[j].at = pack[j].at /\ samples[j].epoch = pack[j].epoch
    BY <1>4, Zenon DEF Keeps
  <2> QED BY <2>1, <2>2
<1>6. RowEnd(row) = pack[Len(pack)].at
  BY <1>1, <1>2, RowEndDue
<1>7. /\ \A i \in 1 .. Len(pack) : /\ pack[i].at \in D /\ pack[i].at \in Nat
                                   /\ pack[i] = At(pack[i].at) /\ a < pack[i].at
      /\ \A i, j \in 1 .. Len(pack) : i < j => pack[i].at < pack[j].at
      /\ \A i \in 1 .. Len(pack) : pack[i].at <= PackEnd(a, pack)
      /\ PackEnd(a, pack) = pack[Len(pack)].at
  BY <1>2, PackRises
<1>8. \A i \in 1 .. Len(pack) : pack[i].epoch = EpochAt("train", pack[i].at)
  <2> TAKE i \in 1 .. Len(pack)
  <2>1. PICK x : x = pack[i].at
    OBVIOUS
  <2>2. pack[i] = At(x)
    BY <1>7, <2>1
  <2> QED BY <2>1, <2>2 DEF At
<1>9. \A p \in D : a < p /\ p <= RowEnd(row) => \E j \in 1 .. Len(pack) : pack[j].at = p
  <2>1. Covers(D, a, pack)
    BY <1>2, PackCovers
  <2>2. PackEnd(a, pack) = RowEnd(row)
    BY <1>6, <1>7
  <2> QED BY <2>1, <2>2 DEF Covers
<1>10. row.samples = samples
  BY <1>1, <1>3
<1>11. ASSUME NEW j \in 1 .. Len(pack)
       PROVE  /\ samples[j].at \in D /\ samples[j].at \in Nat
              /\ samples[j].epoch = EpochAt("train", samples[j].at)
              /\ a < samples[j].at /\ samples[j].at <= RowEnd(row)
              /\ j > 1 => samples[j - 1].at < samples[j].at
  <2>1. j > 1 => j - 1 \in 1 .. Len(pack) /\ j - 1 < j
    BY <1>5
  <2>2. samples[j].at = pack[j].at /\ samples[j].epoch = pack[j].epoch
    BY <1>5
  <2>3. j > 1 => samples[j - 1].at = pack[j - 1].at /\ pack[j - 1].at < pack[j].at
    BY <1>5, <1>7, <2>1
  <2> QED BY <1>6, <1>7, <1>8, <2>2, <2>3
<1>12. a < RowEnd(row)
  <2>1. Len(pack) \in 1 .. Len(pack)
    BY <1>5
  <2> QED BY <1>6, <1>7, <2>1
<1> QED BY <1>5, <1>9, <1>10, <1>11, <1>12

-----------------------------------------------------------------------------
(* Chains of rows.                                                         *)
LEMMA ChainRises ==
  ASSUME NEW D, IsShard(D), NEW a \in Nat, NEW F, Len(F) \in Nat, Chain(D, a, F)
  PROVE  /\ \A i \in 1 .. Len(F) : /\ RowEnd(F[i]) \in Nat /\ RowBefore(a, F, i) \in Nat
                                   /\ RowIn(D, RowBefore(a, F, i), F[i])
         /\ \A i, j \in 1 .. Len(F) : i < j => RowEnd(F[i]) < RowEnd(F[j])
         /\ End(a, F) \in Nat
         /\ \A i \in 1 .. Len(F) : RowEnd(F[i]) <= End(a, F)
         /\ Len(F) # 0 => End(a, F) = RowEnd(F[Len(F)])
<1> DEFINE n == Len(F)
           f == [i \in 1 .. n |-> RowEnd(F[i])]
<1>1. \A i \in 1 .. n : RowIn(D, RowBefore(a, F, i), F[i])
  BY DEF Chain
<1>2. \A i \in 1 .. n : RowEnd(F[i]) \in Nat
  BY <1>1, RowEnds
<1>3. \A i \in 1 .. n : RowBefore(a, F, i) \in Nat
  <2> TAKE i \in 1 .. n
  <2>1. i # 1 => i - 1 \in 1 .. n
    OBVIOUS
  <2> QED BY <1>2, <2>1 DEF RowBefore
<1>4. \A i \in 1 .. n : RowBefore(a, F, i) < RowEnd(F[i])
  BY <1>1, <1>3, RowOrder
<1>5. \A i \in 1 .. n : i # 1 => f[i - 1] < f[i]
  <2> TAKE i \in 1 .. n
  <2>1. i # 1 => i - 1 \in 1 .. n
    OBVIOUS
  <2> QED BY <1>4, <2>1 DEF RowBefore
<1>6. \A i, j \in 1 .. n : i < j => f[i] < f[j]
  <2>1. \A i \in 1 .. n : f[i] \in Nat
    BY <1>2
  <2> HIDE DEF f
  <2> QED BY <1>5, <2>1, Rising
<1>7. End(a, F) = IF n = 0 THEN a ELSE RowEnd(F[n])
  BY DEF End, RowBefore
<1>8. \A i, j \in 1 .. n : i < j => RowEnd(F[i]) < RowEnd(F[j])
  BY <1>6
<1>9. n # 0 => n \in 1 .. n
  OBVIOUS
<1> HIDE DEF f
<1>10. \A i \in 1 .. n : RowEnd(F[i]) <= End(a, F)
  <2> TAKE i \in 1 .. n
  <2>1. n # 0 /\ (i = n \/ i < n)
    OBVIOUS
  <2> QED BY <1>2, <1>7, <1>8, <1>9, <2>1
<1> QED BY <1>1, <1>2, <1>3, <1>7, <1>8, <1>9, <1>10

(* The rows so far leave out no due position.                              *)
LEMMA ChainCovers ==
  ASSUME NEW D, IsShard(D), NEW F, Len(F) \in Nat, Chain(D, 0, F), NEW p \in D, p <= End(0, F)
  PROVE  \E i \in 1 .. Len(F) : \E j \in DOMAIN F[i].samples : F[i].samples[j].at = p
<1> DEFINE n == Len(F)
           T == {i \in 1 .. n : p <= RowEnd(F[i])}
<1>1. p \in Nat \ {0}
  BY ShardNat
<1>2. \A i \in 1 .. n : /\ RowEnd(F[i]) \in Nat /\ RowBefore(0, F, i) \in Nat
                        /\ RowIn(D, RowBefore(0, F, i), F[i])
  BY ChainRises
<1>3. n # 0 /\ n \in T
  <2>1. n # 0
    BY <1>1 DEF End, RowBefore
  <2>2. End(0, F) = RowEnd(F[n])
    BY <2>1, ChainRises
  <2> QED BY <2>1, <2>2
<1>4. PICK i \in T : \A j \in T : i <= j
  <2>1. T \in SUBSET Nat /\ T # {}
    BY <1>3
  <2> HIDE DEF T
  <2> QED BY <2>1, LeastNumber
<1>5. RowBefore(0, F, i) < p
  <2>1. CASE i = 1
    BY <1>1, <2>1 DEF RowBefore
  <2>2. CASE i # 1
    <3>1. i - 1 \in 1 .. n /\ i - 1 \notin T
      BY <1>4, <2>2
    <3> QED BY <1>1, <1>2, <2>2, <3>1 DEF RowBefore
  <2> QED BY <2>1, <2>2
<1>6. \E j \in DOMAIN F[i].samples : F[i].samples[j].at = p
  <2>1. /\ RowIn(D, RowBefore(0, F, i), F[i]) /\ RowBefore(0, F, i) \in Nat /\ p <= RowEnd(F[i])
    BY <1>2, <1>4
  <2> QED BY <1>5, <2>1, RowOrder
<1> QED BY <1>4, <1>6

(* Two chains of a shard have the same rows.                               *)
LEMMA ChainUnique ==
  ASSUME NEW D, IsShard(D), NEW S, NEW F \in Seq(S), NEW G \in Seq(S),
         Chain(D, 0, F), Chain(D, 0, G), Len(F) = Len(G)
  PROVE  F = G
<1> DEFINE n == Len(F)
           H == {k \in Nat : \A i \in 1 .. n : i <= k => F[i] = G[i]}
<1>1. n \in Nat /\ n = Len(G)
  OBVIOUS
<1>2. 0 \in H
  BY <1>1
<1>3. ASSUME NEW k \in Nat, k \in H PROVE k + 1 \in H
  <2> SUFFICES ASSUME k + 1 \in 1 .. n PROVE F[k + 1] = G[k + 1]
    BY <1>3
  <2>1. RowBefore(0, F, k + 1) = RowBefore(0, G, k + 1)
    <3>1. CASE k = 0
      BY <3>1 DEF RowBefore
    <3>2. CASE k # 0
      <4>1. k \in 1 .. n /\ k + 1 # 1 /\ (k + 1) - 1 = k
        BY <3>2
      <4>2. F[k] = G[k]
        BY <1>3, <4>1
      <4> QED BY <4>1, <4>2 DEF RowBefore
    <3> QED BY <3>1, <3>2
  <2> HIDE DEF H
  <2>2. RowBefore(0, F, k + 1) \in Nat /\ RowIn(D, RowBefore(0, F, k + 1), F[k + 1])
    BY <1>1, ChainRises
  <2>3. RowIn(D, RowBefore(0, G, k + 1), G[k + 1])
    BY <1>1 DEF Chain
  <2> QED BY <2>1, <2>2, <2>3, RowUnique
<1>4. \A k \in Nat : k \in H
  <2> HIDE DEF H
  <2> QED BY <1>2, <1>3, Counting
<1>5. \A i \in 1 .. n : F[i] = G[i]
  BY <1>1, <1>4
<1> HIDE DEF H
<1> QED BY <1>1, <1>5

(* A chain grows by its next row, and by a chain from where it ends.       *)
LEMMA ChainGrows ==
  ASSUME NEW D, NEW a, NEW S, NEW F \in Seq(S), NEW x \in S, Chain(D, a, F), RowIn(D, End(a, F), x)
  PROVE  Chain(D, a, Append(F, x)) /\ End(a, Append(F, x)) = RowEnd(x)
<1> DEFINE n == Len(F)
           G == Append(F, x)
<1>1. n \in Nat /\ Len(G) = n + 1 /\ G[n + 1] = x /\ \A i \in 1 .. n : G[i] = F[i]
  OBVIOUS
<1> HIDE DEF G, n
<1>2. \A i \in 1 .. (n + 1) : RowBefore(a, G, i) = RowBefore(a, F, i)
  <2> TAKE i \in 1 .. (n + 1)
  <2>1. i # 1 => i - 1 \in 1 .. n
    BY <1>1
  <2> QED BY <1>1, <2>1 DEF RowBefore
<1>3. ASSUME NEW i \in 1 .. (n + 1) PROVE RowIn(D, RowBefore(a, G, i), G[i])
  <2>1. CASE i \in 1 .. n
    BY <1>1, <1>2, <2>1 DEF Chain, n
  <2>2. CASE i = n + 1
    BY <1>1, <1>2, <2>2 DEF End, n
  <2> QED BY <1>1, <2>1, <2>2
<1>4. End(a, G) = RowEnd(x)
  <2>1. n + 2 # 1 /\ (n + 1) + 1 = n + 2 /\ (n + 2) - 1 = n + 1
    BY <1>1
  <2> QED BY <1>1, <2>1 DEF End, RowBefore
<1> QED BY <1>1, <1>3, <1>4 DEF Chain, G

(* The same of two chains.                                                 *)
LEMMA ChainsJoin ==
  ASSUME NEW D, NEW S, NEW F \in Seq(S), NEW G \in Seq(S), Chain(D, 0, F), Chain(D, End(0, F), G)
  PROVE  Chain(D, 0, F \o G) /\ End(0, F \o G) = End(End(0, F), G)
<1> DEFINE m == Len(F)
           n == Len(G)
           H == F \o G
<1>1. /\ m \in Nat /\ n \in Nat /\ Len(H) = m + n
      /\ \A i \in 1 .. m : H[i] = F[i]
      /\ \A i \in 1 .. n : H[m + i] = G[i]
  OBVIOUS
<1> HIDE DEF H, m, n
<1>2. ASSUME NEW i \in 1 .. (m + 1) PROVE RowBefore(0, H, i) = RowBefore(0, F, i)
  <2>1. i # 1 => i - 1 \in 1 .. m
    BY <1>1
  <2> QED BY <1>1, <2>1 DEF RowBefore
<1>3. ASSUME NEW i \in 1 .. (n + 1) PROVE RowBefore(0, H, m + i) = RowBefore(End(0, F), G, i)
  <2>1. CASE i = 1
    <3>1. m + i \in 1 .. (m + 1) /\ m + i = m + 1
      BY <1>1, <2>1
    <3>2. RowBefore(0, H, m + i) = End(0, F)
      BY <1>2, <3>1 DEF End, m
    <3> QED BY <2>1, <3>2 DEF RowBefore
  <2>2. CASE i # 1
    <3>1. i - 1 \in 1 .. n /\ m + i # 1 /\ (m + i) - 1 = m + (i - 1)
      BY <1>1, <2>2
    <3> QED BY <1>1, <2>2, <3>1 DEF RowBefore
  <2> QED BY <2>1, <2>2
<1>4. ASSUME NEW k \in 1 .. (m + n) PROVE RowIn(D, RowBefore(0, H, k), H[k])
  <2>1. CASE k \in 1 .. m
    <3>1. k \in 1 .. (m + 1)
      BY <1>1, <2>1
    <3>2. RowIn(D, RowBefore(0, F, k), F[k])
      BY <2>1 DEF Chain, m
    <3> QED BY <1>1, <1>2, <2>1, <3>1, <3>2
  <2>2. CASE k \notin 1 .. m
    <3> DEFINE i == k - m
    <3>1. i \in 1 .. n /\ i \in 1 .. (n + 1) /\ k = m + i
      BY <1>1, <2>2
    <3> HIDE DEF i
    <3>2. RowIn(D, RowBefore(End(0, F), G, i), G[i])
      BY <3>1 DEF Chain, n
    <3> QED BY <1>1, <1>3, <3>1, <3>2
  <2> QED BY <2>1, <2>2
<1>5. End(0, H) = End(End(0, F), G)
  <2>1. n + 1 \in 1 .. (n + 1) /\ m + (n + 1) = (m + n) + 1
    BY <1>1
  <2>2. RowBefore(0, H, m + (n + 1)) = RowBefore(End(0, F), G, n + 1)
    BY <1>3, <2>1
  <2> QED BY <1>1, <2>1, <2>2 DEF End, n
<1> QED BY <1>1, <1>4, <1>5 DEF Chain, H

(* A queue from position a on, and the dataset behind it.                  *)
QueueBefore(a, q, i) == IF i = 1 THEN a ELSE RowEnd(q[i - 1].row)
Lined(D, a, q) ==
  \A i \in 1 .. Len(q) : /\ RowIn(D, QueueBefore(a, q, i), q[i].row)
                         /\ Stands(D, RowEnd(q[i].row), q[i].state)
QueueEnd(a, q) == QueueBefore(a, q, Len(q) + 1)
Ahead(D, a, d, i, q) ==
  /\ Lined(D, a, q)
  /\ InOrder(D, QueueEnd(a, q), i.pack)
  /\ Stands(D, PackEnd(QueueEnd(a, q), i.pack), d)

(* A queue grows by its next row, at its end.                              *)
LEMMA LineGrows ==
  ASSUME NEW D, NEW a, NEW S, NEW q \in Seq(S), NEW x \in S, Lined(D, a, q),
         RowIn(D, QueueEnd(a, q), x.row), Stands(D, RowEnd(x.row), x.state)
  PROVE  Lined(D, a, Append(q, x)) /\ QueueEnd(a, Append(q, x)) = RowEnd(x.row)
<1> DEFINE n == Len(q)
           G == Append(q, x)
<1>1. n \in Nat /\ Len(G) = n + 1 /\ G[n + 1] = x /\ \A i \in 1 .. n : G[i] = q[i]
  OBVIOUS
<1> HIDE DEF G, n
<1>2. \A i \in 1 .. (n + 1) : QueueBefore(a, G, i) = QueueBefore(a, q, i)
  <2> TAKE i \in 1 .. (n + 1)
  <2>1. i # 1 => i - 1 \in 1 .. n
    BY <1>1
  <2> QED BY <1>1, <2>1 DEF QueueBefore
<1>3. ASSUME NEW i \in 1 .. (n + 1)
      PROVE  RowIn(D, QueueBefore(a, G, i), G[i].row) /\ Stands(D, RowEnd(G[i].row), G[i].state)
  <2>1. CASE i \in 1 .. n
    BY <1>1, <1>2, <2>1 DEF Lined, n
  <2>2. CASE i = n + 1
    BY <1>1, <1>2, <2>2 DEF QueueEnd, n
  <2> QED BY <1>1, <2>1, <2>2
<1>4. QueueEnd(a, G) = RowEnd(x.row)
  <2>1. n + 2 # 1 /\ (n + 1) + 1 = n + 2 /\ (n + 2) - 1 = n + 1
    BY <1>1
  <2> QED BY <1>1, <2>1 DEF QueueEnd, QueueBefore
<1> QED BY <1>1, <1>3, <1>4 DEF Lined, G

(* A queue whose head is taken goes on from there.                         *)
LEMMA LineMoves ==
  ASSUME NEW D, NEW a, NEW d, NEW i, NEW S, NEW q \in Seq(S), q # <<>>, Ahead(D, a, d, i, q)
  PROVE  /\ RowIn(D, a, Head(q).row) /\ Stands(D, RowEnd(Head(q).row), Head(q).state)
         /\ Ahead(D, RowEnd(Head(q).row), d, i, Tail(q))
<1> DEFINE n == Len(q)
           b == RowEnd(Head(q).row)
           G == Tail(q)
<1>1. /\ n \in Nat \ {0} /\ Len(G) = n - 1 /\ Head(q) = q[1]
      /\ \A k \in 1 .. (n - 1) : G[k] = q[k + 1]
  OBVIOUS
<1>2. b = RowEnd(q[1].row) /\ 1 \in 1 .. n
  BY <1>1
<1> HIDE DEF G, n, b
<1>3. \A k \in 1 .. n : QueueBefore(b, G, k) = QueueBefore(a, q, k + 1)
  <2> TAKE k \in 1 .. n
  <2>1. k # 1 => k - 1 \in 1 .. (n - 1) /\ (k - 1) + 1 = k
    BY <1>1
  <2>2. k + 1 # 1 /\ (k + 1) - 1 = k
    BY <1>1
  <2> QED BY <1>1, <1>2, <2>1, <2>2 DEF QueueBefore
<1>4. Lined(D, a, q)
  BY DEF Ahead
<1>5. Lined(D, b, G)
  <2> SUFFICES ASSUME NEW k \in 1 .. (n - 1)
               PROVE  RowIn(D, QueueBefore(b, G, k), G[k].row) /\ Stands(D, RowEnd(G[k].row), G[k].state)
    BY <1>1 DEF Lined
  <2>1. k \in 1 .. n /\ k + 1 \in 1 .. n
    BY <1>1
  <2> QED BY <1>1, <1>3, <1>4, <2>1 DEF Lined, n
<1>6. QueueEnd(b, G) = QueueEnd(a, q)
  <2>1. (n - 1) + 1 = n /\ n \in 1 .. n
    BY <1>1
  <2> QED BY <1>1, <1>3, <2>1 DEF QueueEnd, n
<1>7. RowIn(D, a, q[1].row) /\ Stands(D, RowEnd(q[1].row), q[1].state)
  BY <1>2, <1>4 DEF Lined, QueueBefore, n
<1> QED BY <1>1, <1>2, <1>5, <1>6, <1>7 DEF Ahead, G, b

-----------------------------------------------------------------------------
(* A worker keeps its stream in order.                                     *)
LEMMA LineEnds ==
  ASSUME NEW D, IsShard(D), NEW a \in Nat, NEW q, Len(q) \in Nat, Lined(D, a, q)
  PROVE  QueueEnd(a, q) \in Nat
<1>1. Len(q) # 0 => Len(q) \in 1 .. Len(q) /\ Len(q) + 1 # 1 /\ (Len(q) + 1) - 1 = Len(q)
  OBVIOUS
<1>2. Len(q) # 0 => RowEnd(q[Len(q)].row) \in Nat
  BY <1>1, RowEnds DEF Lined
<1> QED BY <1>1, <1>2 DEF QueueEnd, QueueBefore

(* A pack grows by the sample that follows it.                             *)
LEMMA OrderGrows ==
  ASSUME NEW D, NEW a, NEW S, NEW pack \in Seq(S), NEW x \in S, InOrder(D, a, pack),
         Follows(D, PackEnd(a, pack), x.at)
  PROVE  InOrder(D, a, Append(pack, x)) /\ PackEnd(a, Append(pack, x)) = x.at
<1> DEFINE n == Len(pack)
           G == Append(pack, x)
<1>1. n \in Nat /\ Len(G) = n + 1 /\ G[n + 1] = x /\ \A i \in 1 .. n : G[i] = pack[i]
  OBVIOUS
<1> HIDE DEF G, n
<1>2. \A i \in 1 .. (n + 1) : Before(a, G, i) = Before(a, pack, i)
  <2> TAKE i \in 1 .. (n + 1)
  <2>1. i # 1 => i - 1 \in 1 .. n
    BY <1>1
  <2> QED BY <1>1, <2>1 DEF Before
<1>3. ASSUME NEW i \in 1 .. (n + 1) PROVE Follows(D, Before(a, G, i), G[i].at)
  <2>1. CASE i \in 1 .. n
    BY <1>1, <1>2, <2>1 DEF InOrder, n
  <2>2. CASE i = n + 1
    BY <1>1, <1>2, <2>2 DEF PackEnd, n
  <2> QED BY <1>1, <2>1, <2>2
<1>4. PackEnd(a, G) = x.at
  <2>1. n + 2 # 1 /\ (n + 1) + 1 = n + 2 /\ (n + 2) - 1 = n + 1
    BY <1>1
  <2> QED BY <1>1, <2>1 DEF PackEnd, Before
<1> QED BY <1>1, <1>3, <1>4 DEF InOrder, G

(* The empty pack is in order anywhere.                                    *)
LEMMA NoPack == \A D, a : InOrder(D, a, <<>>) /\ PackEnd(a, <<>>) = a
BY DEF InOrder, PackEnd, Before

(* A row that leaves the packer joins the queue.                           *)
LEMMA RowJoins ==
  ASSUME NEW D, IsShard(D), NEW a \in Nat, NEW q \in Seq(Entries(D, 0)), Lined(D, a, q),
         NEW pack, IsPack(D, QueueEnd(a, q), pack), NEW d \in States(D),
         Stands(D, pack[Len(pack)].at, d),
         NEW i, i.pack = <<>>
  PROVE  Ahead(D, a, d, i, Append(q, RowEntry(0, pack, d)))
<1>1. PICK x : x = RowEntry(0, pack, d)
  OBVIOUS
<1>2. /\ x \in Entries(D, 0) /\ x.state = d
      /\ x.row = [worker |-> 0, samples |-> Cut("train", pack)]
  BY <1>1, EntriesAre DEF IsPack
<1>3. RowIn(D, QueueEnd(a, q), x.row)
  BY <1>2 DEF RowIn
<1>4. RowEnd(x.row) = pack[Len(pack)].at
  BY <1>2, RowEndDue DEF IsPack
<1>5. Lined(D, a, Append(q, x)) /\ QueueEnd(a, Append(q, x)) = RowEnd(x.row)
  BY <1>2, <1>3, <1>4, LineGrows
<1> QED BY <1>1, <1>4, <1>5, NoPack DEF Ahead

(* The sample that follows keeps the stream in order, whichever way it     *)
(* takes.                                                                  *)
LEMMA PackedAhead ==
  ASSUME NEW D, IsShard(D), NEW a \in Nat,
         NEW d, NEW i, NEW q, NEW d1, NEW i1, NEW q1,
         d \in States(D), i \in Iters(D), q \in Seq(Entries(D, 0)), Open(D, i.pack),
         d.pending = <<>>, d.step \in D,
         Lined(D, a, q), InOrder(D, QueueEnd(a, q), i.pack),
         Follows(D, PackEnd(QueueEnd(a, q), i.pack), d.step),
         Packed(0, At(d.step), d, d.epoch, i, q, d1, i1, q1)
  PROVE  Ahead(D, a, d1, i1, q1)
<1> DEFINE x == At(d.step)
           pack == i.pack
           more == Append(pack, x)
           e == QueueEnd(a, q)
<1>1. /\ d.step \in Nat /\ d.epoch \in Nat /\ d.epoch = EpochOf(d.step)
      /\ d = [step |-> d.step, epoch |-> d.epoch, pending |-> <<>>]
  BY DEF States
<1>2. x = At(d.step) /\ x.at = d.step /\ x \in Draws(D) /\ <<x>> \in Seq(Draws(D))
  BY DEF Draws, At
<1>3. pack \in Seq(Draws(D)) /\ Open(D, pack) /\ InOrder(D, e, pack) /\ Follows(D, PackEnd(e, pack), x.at)
  BY <1>2 DEF Open
<1>4. Size("train", pack) \in Nat /\ Length("train", x) \in Nat
  <2>1. PICK c, r : D = Shard(c, r)
    BY DEF IsShard
  <2> QED BY <1>2, <1>3, <2>1, SizeTyped, ShardDraws
<1> HIDE DEF pack, x, e
<1>5. e \in Nat
  BY LineEnds DEF e
<1>6. CASE Held(0, x, d, d.epoch, i, q, d1, i1, q1)
  <2>1. pack # <<>> /\ Size("train", pack) + Length("train", x) > RowLen
    BY <1>6 DEF Held, pack
  <2>2. d1 = [step |-> d.step, epoch |-> d.epoch, pending |-> <<x>>]
    BY <1>1, <1>6 DEF Held
  <2>3. d1 \in States(D)
    BY <1>1, <1>2, <2>2 DEF States
  <2>4. Closed(D, pack)
    BY <1>3, <2>1, OpenCloses
  <2>5. PackEnd(e, pack) = pack[Len(pack)].at
    BY <1>3, <1>5, <2>1, PackRises
  <2>6. Follows(D, pack[Len(pack)].at, d.step)
    BY <1>2, <1>3, <2>5
  <2>7. Full(D, pack)
    BY <1>2, <2>1, <2>6 DEF Full
  <2>8. IsPack(D, QueueEnd(a, q), pack)
    BY <1>3, <2>4, <2>7 DEF IsPack, e
  <2>9. Stands(D, pack[Len(pack)].at, d1)
    BY <2>2, <2>6 DEF Stands
  <2>10. i1.pack = <<>>
    <3>1. i1 = [i EXCEPT !.shuffle = d.epoch, !.pack = <<>>]
      BY <1>6 DEF Held
    <3> QED BY <3>1 DEF Iters
  <2>11. q1 = Append(q, RowEntry(0, pack, d1))
    BY <1>6 DEF Held, pack
  <2> QED BY <2>3, <2>8, <2>9, <2>10, <2>11, RowJoins
<1>7. ASSUME pack # <<>> => ~ (Size("train", pack) + Length("train", x) > RowLen)
      PROVE  /\ more \in Seq(Draws(D)) /\ Closed(D, more)
             /\ InOrder(D, e, more) /\ PackEnd(e, more) = d.step
             /\ more[Len(more)].at = d.step
  <2>1. /\ more \in Seq(Draws(D)) /\ Len(more) = Len(pack) + 1 /\ more[Len(pack) + 1] = x
        /\ Closed(D, more)
    <3> HIDE DEF more
    <3> QED BY <1>2, <1>3, <1>4, <1>7, PackGrows DEF more
  <2>2. InOrder(D, e, more) /\ PackEnd(e, more) = x.at
    BY <1>2, <1>3, OrderGrows
  <2> HIDE DEF more
  <2> QED BY <1>2, <2>1, <2>2
<1>8. Stands(D, d.step, d)
  <2>1. \A p \in D : p \in Nat
    BY ShardNat
  <2> QED BY <1>1, <2>1 DEF Stands
<1>9. CASE Filled(0, x, d, d.epoch, i, q, d1, i1, q1)
  <2>1. /\ Closed(D, more) /\ InOrder(D, e, more) /\ more[Len(more)].at = d.step
    BY <1>7, <1>9 DEF Filled, pack
  <2>2. d1 = d /\ Size("train", more) >= RowLen
    BY <1>9 DEF Filled, pack
  <2>3. IsPack(D, QueueEnd(a, q), more)
    BY <2>1, <2>2 DEF IsPack, Full, e
  <2>4. i1.pack = <<>>
    <3>1. i1 = [i EXCEPT !.shuffle = d.epoch, !.pack = <<>>]
      BY <1>9 DEF Filled
    <3> QED BY <3>1 DEF Iters
  <2>5. q1 = Append(q, RowEntry(0, more, d))
    BY <1>9 DEF Filled, pack
  <2> HIDE DEF more
  <2>6. Stands(D, more[Len(more)].at, d)
    BY <1>8, <2>1
  <2> QED BY <2>2, <2>3, <2>4, <2>5, <2>6, RowJoins
<1>10. CASE Added(0, x, d, d.epoch, i, q, d1, i1, q1)
  <2>1. InOrder(D, e, more) /\ PackEnd(e, more) = d.step
    BY <1>7, <1>10 DEF Added, pack
  <2>2. d1 = d /\ q1 = q /\ i1 = [i EXCEPT !.shuffle = d.epoch, !.pack = more]
    BY <1>10 DEF Added, pack
  <2> HIDE DEF more
  <2>3. i1.pack = more
    BY <2>2 DEF Iters
  <2> QED BY <1>8, <2>1, <2>2, <2>3 DEF Ahead, e
<1> QED BY <1>6, <1>9, <1>10 DEF Packed, x

(* So does whatever the worker does.                                       *)
LEMMA WalkedAhead ==
  ASSUME NEW D, IsShard(D), NEW a \in Nat,
         NEW d, NEW i, NEW q, NEW d1, NEW i1, NEW q1,
         StreamOK(D, 0, d, i, q), Ahead(D, a, d, i, q),
         Walked(D, 0, d, i, q, d1, i1, q1)
  PROVE  Ahead(D, a, d1, i1, q1)
<1> DEFINE e == QueueEnd(a, q)
           b == PackEnd(e, i.pack)
<1>1. /\ d \in States(D) /\ i \in Iters(D) /\ q \in Seq(Entries(D, 0))
      /\ i.shuffle = d.epoch /\ Open(D, i.pack) /\ i.pack \in Seq(Draws(D))
      /\ d.pending # <<>> => i.pack = <<>>
  BY DEF StreamOK, Open
<1>2. /\ d.step \in Nat /\ d.epoch \in Nat /\ d.epoch = EpochOf(d.step)
      /\ d.pending # <<>> => d.step \in D
  BY <1>1 DEF States
<1>3. EpochOf(d.step + 1) \in Nat
  BY <1>2, EpochGrows
<1>4. Released(d) \in States(D) /\ Released(d).step = d.step /\ Released(d).epoch = d.epoch
      /\ Released(d).pending = <<>>
  BY <1>2 DEF Released, States
<1>5. After(d) \in States(D) /\ After(d).step = d.step + 1
      /\ After(d).epoch = EpochOf(d.step + 1) /\ After(d).pending = <<>>
  BY <1>2, <1>3 DEF After, States
<1>6. Lined(D, a, q) /\ InOrder(D, e, i.pack) /\ Stands(D, b, d)
  BY DEF Ahead
<1>7. e \in Nat /\ b \in Nat
  <2>1. e \in Nat
    <3>1. Len(q) \in Nat
      BY <1>1
    <3> QED BY <1>6, <3>1, LineEnds
  <2> HIDE DEF e
  <2> QED BY <1>1, <1>6, <2>1, PackRises
<1>8. D \subseteq Nat
  BY ShardNat
<1> HIDE DEF e, b
<1>9. CASE d.pending # <<>>
  <2>1. Packed(0, At(d.step), Released(d), d.epoch, i, q, d1, i1, q1)
    BY <1>9 DEF Walked
  <2>2. PICK f : f = Released(d)
    OBVIOUS
  <2>3. Follows(D, b, d.step)
    BY <1>6, <1>9 DEF Stands
  <2>4. /\ f \in States(D) /\ f.pending = <<>> /\ f.step \in D
        /\ Packed(0, At(f.step), f, f.epoch, i, q, d1, i1, q1)
        /\ Follows(D, PackEnd(QueueEnd(a, q), i.pack), f.step)
    BY <1>2, <1>4, <1>9, <2>1, <2>2, <2>3 DEF b, e
  <2> QED BY <1>1, <1>6, <2>4, PackedAhead DEF e
<1>10. CASE d.pending = <<>> /\ d.step + 1 \in D
  <2>1. Packed(0, At(d.step + 1), After(d), EpochOf(d.step + 1), i, q, d1, i1, q1)
    BY <1>10 DEF Walked
  <2>2. PICK f : f = After(d)
    OBVIOUS
  <2>3. Follows(D, b, d.step + 1)
    BY <1>2, <1>6, <1>7, <1>8, <1>10 DEF Stands, Follows
  <2>4. /\ f \in States(D) /\ f.pending = <<>> /\ f.step \in D
        /\ Packed(0, At(f.step), f, f.epoch, i, q, d1, i1, q1)
        /\ Follows(D, PackEnd(QueueEnd(a, q), i.pack), f.step)
    BY <1>5, <1>10, <2>1, <2>2, <2>3 DEF b, e
  <2> QED BY <1>1, <1>6, <2>4, PackedAhead DEF e
<1>11. CASE d.pending = <<>> /\ d.step + 1 \notin D
  <2>1. d1 = After(d) /\ i1 = [i EXCEPT !.shuffle = EpochOf(d.step + 1)] /\ q1 = q
    BY <1>11 DEF Walked
  <2>2. i1.pack = i.pack
    BY <1>1, <2>1 DEF Iters
  <2>3. b <= d.step /\ \A p \in D : ~ (b < p /\ p <= d.step)
    BY <1>6, <1>11 DEF Stands
  <2>4. b <= d.step + 1 /\ \A p \in D : ~ (b < p /\ p <= d.step + 1)
    BY <1>2, <1>7, <1>8, <1>11, <2>3
  <2>5. Stands(D, b, d1)
    BY <1>5, <2>1, <2>4 DEF Stands
  <2> QED BY <1>6, <2>1, <2>2, <2>5 DEF Ahead, b, e
<1> QED BY <1>9, <1>10, <1>11

-----------------------------------------------------------------------------
(* With one worker to a rank the weights, the rows taken since, the queue  *)
(* and the worker take up the rank's shard one after the other, and so do  *)
(* the weights of a checkpoint and the loader state it holds.              *)
Used(r) == End(End(0, weights[r]), took[r])
Place(r) ==
  /\ Chain(Shard(cp, r), 0, weights[r])
  /\ Chain(Shard(cp, r), End(0, weights[r]), took[r])
  /\ Ahead(Shard(cp, r), Used(r), ds[Train(r, 0)], it[Train(r, 0)], queue[Train(r, 0)])
  /\ Stands(Shard(cp, r), Used(r), loader["train"][r].snap[0])
Places == \A r \in Rank : Place(r)

(* How many rows: GradAccum to a step.                                     *)
Closing == {"save", "count", "done"}
Steps == IF pc \in Closing THEN progress.step ELSE progress.step - 1
RowCount(r) ==
  /\ Len(weights[r]) = Len(weights[0])
  /\ pc # "down" => Len(weights[r]) = GradAccum * Steps
  /\ pc \in Closing => took[r] = <<>>
  /\ pc \in {"val", "optim"} => Len(took[r]) = GradAccum
RowCounts == \A r \in Rank : RowCount(r)

SavedPlace(k, r, W, l) ==
  /\ Chain(Shard(cp, r), 0, W) /\ Len(W) = GradAccum * k
  /\ Stands(Shard(cp, r), End(0, W), l.snap[0])
Saved ==
  \A k \in 1 .. MaxSteps : disk[k].app # <<>> =>
    \A r \in Rank : SavedPlace(k, r, disk[k].app[1].weights[r], disk[k].loader[r][1])

StreamInv == RowsInv /\ Places /\ RowCounts /\ Saved

(* The one worker of a rank.                                               *)
LEMMA OneWorker ==
  ASSUME NumWorkers = 1
  PROVE  Worker = {0} /\ 0 \in Rank /\ \A r \in Rank : Train(r, 0) \in Stream
<1>1. Worker = {0}
  BY DEF Worker
<1>2. 0 \in Rank
  BY Constants DEF Rank
<1> QED BY <1>1, <1>2, Streams

(* Places and Saved hold on when what they are about stays.                *)
LEMMA PlacesSame ==
  ASSUME NumWorkers = 1, Places, LoadersSame, cp' = cp, took' = took, weights' = weights
  PROVE  Places'
<1>1. 0 \in Worker
  BY OneWorker
<1> SUFFICES ASSUME NEW r \in Rank PROVE Place(r)'
  BY DEF Places
<1>2. Place(r)
  BY DEF Places
<1> QED BY <1>1, <1>2 DEF Place, Used, LoadersSame

(* The same of the checkpoints.                                            *)
LEMMA SavedSame ==
  ASSUME Saved, cp' = cp, disk' = disk
  PROVE  Saved'
BY DEF Saved, SavedPlace

(* A step of a worker.                                                     *)
LEMMA WorkersKeepPlaces ==
  ASSUME NumWorkers = 1, StreamInv, NEW s \in Stream, WorkerStep(s)
  PROVE  StreamInv'
<1>1. RowsInv /\ Shape /\ Ranks /\ Domains /\ Places /\ RowCounts /\ Saved
  BY DEF StreamInv, RowsInv, Shape
<1>2. /\ Domains' /\ UNCHANGED others
      /\ \A t \in Stream \ {s} : ds'[t] = ds[t] /\ it'[t] = it[t] /\ queue'[t] = queue[t]
  BY <1>1, WorkerFrame
<1>3. /\ cp' = cp /\ loader' = loader /\ pc' = pc /\ took' = took /\ weights' = weights
      /\ progress' = progress /\ disk' = disk
  BY <1>2 DEF others, trainVars, diskVars
<1>4. ASSUME NEW r \in Rank PROVE Place(r)'
  <2>1. Place(r) /\ 0 \in Worker /\ Train(r, 0) \in Stream
    BY <1>1, OneWorker DEF Places
  <2>2. CASE Train(r, 0) # s
    BY <1>2, <1>3, <2>1, <2>2 DEF Place, Used
  <2>3. CASE Train(r, 0) = s
    <3>1. /\ StreamOK(Shard(cp, r), 0, ds[Train(r, 0)], it[Train(r, 0)], queue[Train(r, 0)])
          /\ WorkerStep(Train(r, 0))
      BY <1>1, <2>1, <2>3 DEF Ranks, RankOK, StreamIs
    <3>2. Walked(Shard(cp, r), 0, ds[Train(r, 0)], it[Train(r, 0)], queue[Train(r, 0)],
                 ds'[Train(r, 0)], it'[Train(r, 0)], queue'[Train(r, 0)])
      BY <1>1, <2>1, <3>1, WorkerWalks
    <3>3. IsShard(Shard(cp, r))
      BY DEF IsShard
    <3>4. Used(r) \in Nat
      <4>1. Len(weights[r]) \in Nat /\ Len(took[r]) \in Nat
        BY <1>1 DEF Ranks, RankOK
      <4>2. End(0, weights[r]) \in Nat
        BY <2>1, <3>3, <4>1, ChainRises DEF Place
      <4> QED BY <2>1, <3>3, <4>1, <4>2, ChainRises DEF Place, Used
    <3>5. Ahead(Shard(cp, r), Used(r), ds[Train(r, 0)], it[Train(r, 0)], queue[Train(r, 0)])
      BY <2>1 DEF Place
    <3>6. Ahead(Shard(cp, r), Used(r), ds'[Train(r, 0)], it'[Train(r, 0)], queue'[Train(r, 0)])
      BY <3>1, <3>2, <3>3, <3>4, <3>5, WalkedAhead, Zenon
    <3> QED BY <1>3, <2>1, <3>6 DEF Place, Used
  <2> QED BY <2>2, <2>3
<1>5. Saved'
  BY <1>1, <1>3, SavedSame
<1>6. RowCounts'
  BY <1>1, <1>3 DEF RowCounts, RowCount, Steps
<1> QED BY <1>1, <1>4, <1>5, <1>6, WorkersKeepRows DEF StreamInv, Places

(* The head of the queue is the row that follows those taken.              *)
LEMMA TakenInPlace ==
  ASSUME NumWorkers = 1, StreamInv, NEW r \in Rank, NextRow(r)
  PROVE  StreamInv'
<1> DEFINE s == Train(r, 0)
           D == Shard(cp, r)
           e == Head(queue[s])
           a == End(0, weights[r])
<1>1. RowsInv /\ Shape /\ Ranks /\ Files /\ Domains /\ Places /\ RowCounts /\ Saved
  BY DEF StreamInv, RowsInv, Shape
<1>2. RowReady("train", r) /\ TakeRow("train", r) /\ ds' = ds /\ it' = it
  BY DEF NextRow
<1>3. Turn("train", r) = 0 /\ queue[s] # <<>>
  BY <1>1, <1>2, TurnIs
<1>4. /\ pc = "micro" /\ took' = [took EXCEPT ![r] = Append(took[r], e.row)]
      /\ cp' = cp /\ pc' = pc /\ progress' = progress
      /\ weights' = weights /\ disk' = disk
  BY <1>3 DEF NextRow, Train, diskVars
<1>5. /\ queue'[s] = Tail(queue[s])
      /\ \A t \in Stream \ {s} : queue'[t] = queue[t]
      /\ \A p \in Rank \ {r} : loader'["train"][p] = loader["train"][p]
      /\ loader'["train"][r].snap = [loader["train"][r].snap EXCEPT ![0] = e.state]
  <2>1. LET w == Turn("train", r)
            t == Train(r, w)
        IN  /\ queue'[t] = Tail(queue[t])
            /\ \A u \in Stream \ {t} : queue'[u] = queue[u]
            /\ \A p \in Rank \ {r} : loader'["train"][p] = loader["train"][p]
            /\ loader'["train"][r] =
                 [snap |-> [loader["train"][r].snap EXCEPT ![w] = Head(queue[t]).state],
                  next |-> (w + 1) % NumWorkers]
    BY <1>1, <1>2, TakeTrain
  <2>2. loader'["train"][r] = [snap |-> [loader["train"][r].snap EXCEPT ![0] = e.state],
                               next |-> (0 + 1) % NumWorkers]
    BY <1>3, <2>1
  <2>3. loader'["train"][r].snap = [loader["train"][r].snap EXCEPT ![0] = e.state]
    <3> HIDE DEF e
    <3> QED BY <2>2
  <2> HIDE DEF e, D
  <2> QED BY <1>3, <2>1, <2>3
<1>6. RankOK(r) /\ Place(r) /\ s \in Stream /\ 0 \in Worker /\ StreamIs(r, 0)
  BY <1>1, OneWorker DEF Ranks, Places, RankOK
<1>7. queue[s] \in Seq(Entries(D, 0)) /\ e \in Entries(D, 0)
  <2>1. queue[s] \in Seq(Entries(D, 0))
    BY <1>6 DEF StreamIs, StreamOK
  <2> HIDE DEF D, s
  <2> QED BY <1>3, <2>1
<1>8. e.row \in AnyRows(D)
  <2>1. e.row \in Rows(D, 0)
    BY <1>7 DEF Entries
  <2> QED BY <1>6, <2>1 DEF AnyRows
<1>9. took[r] \in Seq(AnyRows(D)) /\ loader["train"][r].snap \in [Worker -> States(D)]
  BY <1>6 DEF RankOK, Loaders
<1>10. /\ Chain(D, a, took[r]) /\ Ahead(D, End(a, took[r]), ds[s], it[s], queue[s])
  BY <1>6 DEF Place, Used
<1> HIDE DEF s, D, e, a
<1>11. /\ RowIn(D, End(a, took[r]), e.row) /\ Stands(D, RowEnd(e.row), e.state)
       /\ Ahead(D, RowEnd(e.row), ds[s], it[s], Tail(queue[s]))
  BY <1>3, <1>7, <1>10, LineMoves DEF e
<1>12. Chain(D, a, Append(took[r], e.row)) /\ End(a, Append(took[r], e.row)) = RowEnd(e.row)
  BY <1>8, <1>9, <1>10, <1>11, ChainGrows
<1>13. took'[r] = Append(took[r], e.row) /\ \A p \in Rank \ {r} : took'[p] = took[p]
  BY <1>1, <1>4 DEF Shape
<1>14. loader'["train"][r].snap[0] = e.state
  BY <1>5, <1>6, <1>9
<1>15. End(End(0, weights'[r]), took'[r]) = RowEnd(e.row)
  BY <1>4, <1>12, <1>13 DEF a
<1>16. Place(r)'
  <2>1. Used(r)' = RowEnd(e.row)
    BY <1>15 DEF Used
  <2>2. Chain(Shard(cp, r), End(0, weights[r]), took'[r])
    BY <1>12, <1>13 DEF D, a
  <2>3. Ahead(Shard(cp, r), RowEnd(e.row), ds[Train(r, 0)], it[Train(r, 0)], queue'[Train(r, 0)])
    BY <1>5, <1>11 DEF D, s
  <2>4. Stands(Shard(cp, r), RowEnd(e.row), loader'["train"][r].snap[0])
    BY <1>11, <1>14 DEF D
  <2> QED BY <1>2, <1>4, <1>6, <2>1, <2>2, <2>3, <2>4 DEF Place
<1>17. ASSUME NEW p \in Rank \ {r} PROVE Place(p)'
  <2>1. Place(p) /\ Train(p, 0) \in Stream /\ Train(p, 0) # s
    BY <1>1, OneWorker, Streams DEF Places, s
  <2> QED BY <1>2, <1>4, <1>5, <1>13, <2>1 DEF Place, Used
<1>18. Places'
  BY <1>16, <1>17 DEF Places
<1>19. RowCounts'
  BY <1>1, <1>4 DEF RowCounts, RowCount, Steps, Closing
<1>20. Saved'
  BY <1>1, <1>4, SavedSame
<1> QED BY <1>1, <1>18, <1>19, <1>20, RowTaken DEF StreamInv

(* GradAccum more rows make one more step.                                 *)
LEMMA Accumulates ==
  /\ GradAccum * 0 = 0
  /\ \A n \in Nat : GradAccum * n \in Nat
  /\ \A n \in Nat \ {0} : GradAccum * (n - 1) + GradAccum = GradAccum * n
<1>1. GradAccum \in Nat
  BY Constants
<1> QED BY <1>1

(* The empty chain ends where it begins.                                   *)
LEMMA NoRows == \A D, a : Chain(D, a, <<>>) /\ End(a, <<>>) = a
BY DEF Chain, End, RowBefore

(* The steps of validation, and the count of a step.                       *)
LEMMA ValKeepsPlaces ==
  ASSUME NumWorkers = 1, StreamInv,
         Accumulated \/ (\E r \in Rank : NextVal(r)) \/ Vote \/ ForwardVal \/ Validated \/ Count
  PROVE  StreamInv'
<1>1. RowsInv /\ Shape /\ Places /\ RowCounts /\ Saved
  BY DEF StreamInv, RowsInv
<1>2. /\ cp' = cp /\ took' = took /\ weights' = weights /\ disk' = disk
  BY DEF Accumulated, NextVal, Vote, ForwardVal, Validated, Count, trainVars, diskVars
<1>3. LoadersSame
  <2>1. CASE Accumulated \/ Validated
    BY <1>1, <2>1, ResetSame, LoadersStill DEF Accumulated, Validated
  <2>2. CASE \E r \in Rank : NextVal(r)
    <3>1. PICK r \in Rank : NextVal(r)
      BY <2>2
    <3>2. TakeRow("val", r) \/ (queue' = queue /\ loader' = loader)
      BY <3>1 DEF NextVal
    <3>3. ds' = ds /\ it' = it
      BY <3>1 DEF NextVal
    <3> QED BY <1>1, <3>2, <3>3, ValRowSame, LoadersStill DEF workerVars
  <2>3. CASE Vote \/ ForwardVal \/ Count
    BY <1>1, <2>3, LoadersStill DEF Vote, ForwardVal, Count
  <2> QED BY <2>1, <2>2, <2>3
<1>4. Places' /\ Saved'
  BY <1>1, <1>2, <1>3, PlacesSame, SavedSame
<1>5. RowCounts'
  <2> USE DEF trainVars, Closing
  <2>1. CASE Accumulated
    <3>1. /\ pc = "micro" /\ pc' \in {"val", "optim"} /\ progress' = progress
          /\ \A r \in Rank : Len(took[r]) = GradAccum
      BY <2>1 DEF Accumulated
    <3> QED BY <1>1, <1>2, <3>1 DEF RowCounts, RowCount, Steps
  <2>2. CASE (\E r \in Rank : NextVal(r)) \/ Vote \/ ForwardVal
    <3>1. pc' = pc /\ progress' = progress
      BY <2>2 DEF NextVal, Vote, ForwardVal
    <3> QED BY <1>1, <1>2, <3>1 DEF RowCounts, RowCount, Steps
  <2>3. CASE Validated
    <3>1. pc = "val" /\ pc' = "optim" /\ progress' = progress
      BY <2>3 DEF Validated
    <3> QED BY <1>1, <1>2, <3>1 DEF RowCounts, RowCount, Steps
  <2>4. CASE Count
    <3>1. /\ pc = "count"
          /\ progress' = [step |-> IF LastStep THEN progress.step ELSE progress.step + 1,
                          tokens |-> progress.tokens + 1]
          /\ pc' = IF LastStep THEN "save" ELSE "micro"
      BY <2>4 DEF Count
    <3>2. progress.step \in Nat
      BY <1>1 DEF Shape
    <3>3. Steps' = Steps
      BY <3>1, <3>2 DEF Steps
    <3> QED BY <1>1, <1>2, <3>1, <3>3 DEF RowCounts, RowCount
  <2> QED BY <2>1, <2>2, <2>3, <2>4
<1> QED BY <1>1, <1>4, <1>5, ValKeepsRows DEF StreamInv

(* An optimizer step joins the rows taken to the weights.                  *)
LEMMA StepsKeepPlaces ==
  ASSUME NumWorkers = 1, StreamInv, OptimizerStep
  PROVE  StreamInv'
<1>1. RowsInv /\ Shape /\ Ranks /\ Places /\ RowCounts /\ Saved
  BY DEF StreamInv, RowsInv
<1>2. /\ pc = "optim" /\ weights' = [r \in Rank |-> weights[r] \o took[r]]
      /\ took' = [r \in Rank |-> <<>>] /\ pc' \in {"save", "count"}
      /\ loader' = loader /\ UNCHANGED workerVars /\ cp' = cp /\ progress' = progress
      /\ disk' = disk
  BY DEF OptimizerStep, diskVars
<1>3. ds' = ds /\ it' = it /\ queue' = queue
  BY <1>2 DEF workerVars
<1>4. ASSUME NEW r \in Rank
      PROVE  /\ weights'[r] = weights[r] \o took[r] /\ took'[r] = <<>>
             /\ weights[r] \in Seq(AnyRows(Shard(cp, r))) /\ took[r] \in Seq(AnyRows(Shard(cp, r)))
             /\ Len(weights'[r]) = Len(weights[r]) + Len(took[r])
  <2>1. weights'[r] = weights[r] \o took[r] /\ took'[r] = <<>>
    BY <1>2
  <2>2. weights[r] \in Seq(AnyRows(Shard(cp, r))) /\ took[r] \in Seq(AnyRows(Shard(cp, r)))
    BY <1>1 DEF Ranks, RankOK
  <2>3. Len(weights[r] \o took[r]) = Len(weights[r]) + Len(took[r])
    BY <2>2
  <2> QED BY <2>1, <2>2, <2>3
<1>5. ASSUME NEW r \in Rank PROVE Place(r)'
  <2>1. Place(r)
    BY <1>1 DEF Places
  <2>2. /\ Chain(Shard(cp, r), 0, weights'[r])
        /\ End(0, weights'[r]) = Used(r)
    <3>1. /\ Chain(Shard(cp, r), 0, weights[r])
          /\ Chain(Shard(cp, r), End(0, weights[r]), took[r])
      BY <2>1 DEF Place
    <3>2. /\ Chain(Shard(cp, r), 0, weights[r] \o took[r])
          /\ End(0, weights[r] \o took[r]) = End(End(0, weights[r]), took[r])
      <4>1. PICK D, S, F, G : /\ D = Shard(cp, r) /\ S = AnyRows(D) /\ F = weights[r] /\ G = took[r]
        OBVIOUS
      <4>2. F \in Seq(S) /\ G \in Seq(S) /\ Chain(D, 0, F) /\ Chain(D, End(0, F), G)
        BY <1>4, <3>1, <4>1
      <4>3. Chain(D, 0, F \o G) /\ End(0, F \o G) = End(End(0, F), G)
        BY <4>2, ChainsJoin
      <4> QED BY <4>1, <4>3
    <3> QED BY <1>4, <3>2 DEF Used
  <2>3. /\ End(Used(r), took'[r]) = Used(r)
        /\ Chain(Shard(cp, r), Used(r), took'[r])
    BY <1>4, NoRows
  <2>4. Used(r)' = Used(r)
    BY <2>2, <2>3 DEF Used
  <2> QED BY <1>2, <1>3, <2>1, <2>2, <2>3, <2>4 DEF Place
<1>6. ASSUME NEW r \in Rank PROVE RowCount(r)'
  <2>1. RowCount(r) /\ RowCount(0) /\ 0 \in Rank
    BY <1>1, OneWorker DEF RowCounts
  <2>2. /\ Len(took[r]) = GradAccum /\ Len(took[0]) = GradAccum
        /\ Len(weights[r]) = Len(weights[0]) /\ Len(weights[r]) = GradAccum * (progress.step - 1)
    BY <1>2, <2>1 DEF RowCount, Steps, Closing
  <2>3. progress.step \in Nat \ {0}
    BY <1>1 DEF Shape
  <2>4. Len(weights'[r]) = Len(weights'[0])
    BY <1>4, <2>1, <2>2
  <2>5. Len(weights'[r]) = GradAccum * progress.step
    BY <1>4, <2>2, <2>3, Accumulates
  <2>6. Steps' = progress.step
    BY <1>2 DEF Steps, Closing
  <2> QED BY <1>2, <1>4, <2>4, <2>5, <2>6 DEF RowCount, Closing
<1>7. Saved'
  BY <1>1, <1>2, SavedSame
<1> QED BY <1>1, <1>5, <1>6, <1>7, StepsKeepRows DEF StreamInv, Places, RowCounts

(* A rank that writes its loader into a checkpoint that is there already   *)
(* leaves it as good: the checkpoint's rows are the same.                  *)
LEMMA SavesInPlace ==
  ASSUME NumWorkers = 1, StreamInv, NEW r \in Rank, SaveLoader(r)
  PROVE  StreamInv'
<1> DEFINE n == progress.step
           l == loader["train"][r]
<1>1. RowsInv /\ Shape /\ Ranks /\ Files /\ Places /\ RowCounts /\ Saved
  BY DEF StreamInv, RowsInv
<1>2. /\ pc = "save" /\ disk' = [disk EXCEPT ![n].loader[r] = <<l>>]
      /\ cp' = cp /\ loader' = loader /\ pc' = pc /\ UNCHANGED workerVars
      /\ progress' = progress /\ took' = took /\ weights' = weights
  BY DEF SaveLoader, trainVars
<1>3. LoadersSame
  BY <1>1, <1>2, LoadersStill
<1>4. Places'
  BY <1>1, <1>2, <1>3, PlacesSame
<1>5. RowCounts'
  BY <1>1, <1>2 DEF RowCounts, RowCount, Steps
<1>6. n \in 1 .. MaxSteps /\ DOMAIN disk = 1 .. MaxSteps /\ DiskOK(n)
  BY <1>1 DEF Shape, Files
<1>7. /\ \A k \in (1 .. MaxSteps) \ {n} : disk'[k] = disk[k]
      /\ disk'[n].app = disk[n].app
      /\ disk'[n].loader[r] = <<l>>
      /\ \A p \in Rank \ {r} : disk'[n].loader[p] = disk[n].loader[p]
  <2> HIDE DEF n, l
  <2>1. disk'[n] = [disk[n] EXCEPT !.loader = [disk[n].loader EXCEPT ![r] = <<l>>]]
    BY <1>2, <1>6
  <2>2. disk[n] = [loader |-> disk[n].loader, app |-> disk[n].app] /\ DOMAIN disk[n].loader = Rank
    BY <1>6 DEF DiskOK
  <2>3. disk'[n] = [loader |-> [disk[n].loader EXCEPT ![r] = <<l>>], app |-> disk[n].app]
    BY <2>1, <2>2
  <2>4. disk'[n].loader = [disk[n].loader EXCEPT ![r] = <<l>>] /\ disk'[n].app = disk[n].app
    BY <2>3
  <2> QED BY <1>2, <1>6, <2>2, <2>4
<1>8. Place(r) /\ RowCount(r)
  BY <1>1 DEF Places, RowCounts
<1>9. took[r] = <<>> /\ Len(weights[r]) = GradAccum * n
  BY <1>2, <1>8 DEF RowCount, Closing, Steps
<1>10. Stands(Shard(cp, r), End(0, weights[r]), l.snap[0])
  BY <1>8, <1>9 DEF Place, Used, End, RowBefore
<1> HIDE DEF n, l
<1>11. ASSUME disk[n].app # <<>> PROVE SavedPlace(n, r, disk[n].app[1].weights[r], l)
  <2>1. PICK W : W = disk[n].app[1].weights[r]
    OBVIOUS
  <2>2. Chain(Shard(cp, r), 0, W) /\ Len(W) = GradAccum * n
    BY <1>1, <1>6, <1>11, <2>1 DEF Saved, SavedPlace
  <2>3. W \in Seq(AnyRows(Shard(cp, r)))
    <3>1. Model(n)
      BY <1>6, <1>11 DEF DiskOK
    <3>2. PICK V, t : /\ disk[n].app = <<[weights |-> V, progress |-> [step |-> n, tokens |-> t]]>>
                      /\ \A p \in Rank : V[p] \in Seq(AnyRows(Shard(cp, p)))
      BY <3>1 DEF Model
    <3>3. disk[n].app[1].weights = V
      BY <3>2
    <3> QED BY <2>1, <3>2, <3>3
  <2>4. weights[r] \in Seq(AnyRows(Shard(cp, r))) /\ Chain(Shard(cp, r), 0, weights[r])
    BY <1>1, <1>8 DEF Ranks, RankOK, Place
  <2>5. W = weights[r]
    <3>1. IsShard(Shard(cp, r))
      BY DEF IsShard
    <3> QED BY <1>9, <2>2, <2>3, <2>4, <3>1, ChainUnique
  <2> QED BY <1>10, <2>1, <2>2, <2>5 DEF SavedPlace
<1>12. ASSUME NEW k \in 1 .. MaxSteps, disk'[k].app # <<>>, NEW p \in Rank
       PROVE  SavedPlace(k, p, disk'[k].app[1].weights[p], disk'[k].loader[p][1])
  <2>1. CASE k # n
    BY <1>1, <1>7, <1>12, <2>1 DEF Saved
  <2>2. CASE k = n /\ p # r
    BY <1>1, <1>7, <1>12, <2>2 DEF Saved
  <2>3. CASE k = n /\ p = r
    <3>1. disk[n].app # <<>> /\ disk'[k].app = disk[n].app /\ disk'[k].loader[p][1] = l
      BY <1>7, <1>12, <2>3
    <3> QED BY <1>11, <2>3, <3>1
  <2> QED BY <2>1, <2>2, <2>3
<1>13. Saved'
  BY <1>2, <1>12 DEF Saved, SavedPlace
<1> QED BY <1>1, <1>4, <1>5, <1>13, SavesKeepRows DEF StreamInv

(* The model is written where the loaders are.                             *)
LEMMA ModelInPlace ==
  ASSUME NumWorkers = 1, StreamInv, SaveModel
  PROVE  StreamInv'
<1> DEFINE n == progress.step
           a == [weights |-> weights, progress |-> progress]
<1>1. RowsInv /\ Shape /\ Ranks /\ Files /\ Places /\ RowCounts /\ Saved
  BY DEF StreamInv, RowsInv
<1>2. /\ pc = "save" /\ filed = Rank
      /\ disk' = [disk EXCEPT ![n].app = <<a>>]
      /\ pc' = IF LastStep THEN "done" ELSE "count"
      /\ cp' = cp /\ loader' = loader /\ UNCHANGED workerVars
      /\ progress' = progress /\ took' = took /\ weights' = weights
  BY DEF SaveModel, trainVars
<1>3. LoadersSame
  BY <1>1, <1>2, LoadersStill
<1>4. Places'
  BY <1>1, <1>2, <1>3, PlacesSame
<1>5. RowCounts'
  <2>1. pc' \in Closing
    BY <1>2 DEF Closing
  <2> QED BY <1>1, <1>2, <2>1 DEF RowCounts, RowCount, Steps, Closing
<1>6. /\ n \in 1 .. MaxSteps /\ DOMAIN disk = 1 .. MaxSteps
      /\ \A p \in Rank : disk[n].loader[p] = <<loader["train"][p]>>
      /\ DiskOK(n)
  BY <1>1, <1>2 DEF Shape, Files
<1>7. <<a>>[1].weights = weights
  OBVIOUS
<1> HIDE DEF n, a
<1>8. /\ \A k \in (1 .. MaxSteps) \ {n} : disk'[k] = disk[k]
      /\ disk'[n].app = <<a>> /\ disk'[n].loader = disk[n].loader
  <2>1. disk'[n] = [disk[n] EXCEPT !.app = <<a>>]
    BY <1>2, <1>6
  <2>2. disk[n] = [loader |-> disk[n].loader, app |-> disk[n].app]
    BY <1>6 DEF DiskOK
  <2>3. disk'[n] = [loader |-> disk[n].loader, app |-> <<a>>]
    BY <2>1, <2>2
  <2> QED BY <1>2, <1>6, <2>3
<1>9. ASSUME NEW p \in Rank PROVE SavedPlace(n, p, weights[p], loader["train"][p])
  <2>1. Place(p) /\ RowCount(p)
    BY <1>1 DEF Places, RowCounts
  <2>2. took[p] = <<>> /\ Len(weights[p]) = GradAccum * n
    BY <1>2, <2>1 DEF RowCount, Closing, Steps, n
  <2>3. Stands(Shard(cp, p), End(0, weights[p]), loader["train"][p].snap[0])
    BY <2>1, <2>2 DEF Place, Used, End, RowBefore
  <2> QED BY <2>1, <2>2, <2>3 DEF SavedPlace, Place
<1>10. ASSUME NEW k \in 1 .. MaxSteps, disk'[k].app # <<>>, NEW p \in Rank
       PROVE  SavedPlace(k, p, disk'[k].app[1].weights[p], disk'[k].loader[p][1])
  <2>1. CASE k # n
    BY <1>1, <1>8, <1>10, <2>1 DEF Saved
  <2>2. CASE k = n
    <3>1. /\ disk'[k].app[1].weights = weights
          /\ disk'[k].loader[p][1] = loader["train"][p]
      BY <1>6, <1>7, <1>8, <2>2
    <3> QED BY <1>9, <2>2, <3>1
  <2> QED BY <2>1, <2>2
<1>11. Saved'
  BY <1>2, <1>10 DEF Saved, SavedPlace
<1> QED BY <1>1, <1>4, <1>5, <1>11, ModelKeepsRows DEF StreamInv

(* A crash leaves the checkpoints.                                         *)
LEMMA CrashKeepsPlaces ==
  ASSUME NumWorkers = 1, StreamInv, Crash
  PROVE  StreamInv'
<1>1. RowsInv /\ Shape /\ Places /\ RowCounts /\ Saved
  BY DEF StreamInv, RowsInv
<1>2. /\ pc' = "down" /\ disk' = disk
      /\ cp' = cp /\ loader' = loader /\ UNCHANGED workerVars
      /\ progress' = progress /\ took' = took /\ weights' = weights
  BY DEF Crash, trainVars
<1>3. LoadersSame
  BY <1>1, <1>2, LoadersStill
<1>4. Places' /\ Saved'
  BY <1>1, <1>2, <1>3, PlacesSame, SavedSame
<1>5. RowCounts'
  BY <1>1, <1>2 DEF RowCounts, RowCount, Closing
<1> QED BY <1>1, <1>4, <1>5, CrashKeepsRows DEF StreamInv

(* A launch puts every rank where its weights end.                         *)
LEMMA Starts ==
  ASSUME NEW D, IsShard(D), NEW a, NEW d \in States(D), Stands(D, a, d)
  PROVE  Ahead(D, a, d, StartIter(d), <<>>)
<1>1. StartIter(d).pack = <<>>
  BY DEF StartIter
<1>2. Lined(D, a, <<>>) /\ QueueEnd(a, <<>>) = a
  BY DEF Lined, QueueEnd, QueueBefore
<1> QED BY <1>1, <1>2, NoPack DEF Ahead

(* A launch from loader states that fit the weights puts every rank in     *)
(* place.                                                                  *)
LEMMA LaunchInPlace ==
  ASSUME NumWorkers = 1, StreamInv, pc = "down",
         NEW L, DOMAIN L = Rank, \A r \in Rank : L[r] \in Loaders(Shard(cp, r)), Begin(L),
         NEW n \in Nat, progress'.step = n + 1,
         \A r \in Rank : SavedPlace(n, r, weights'[r], L[r])
  PROVE  Places' /\ RowCounts' /\ Saved'
<1>1. Shape /\ Saved
  BY DEF StreamInv, RowsInv
<1>2. /\ loader'["train"] = L /\ pc' = "micro" /\ cp' = cp /\ disk' = disk
      /\ \A r \in Rank : took'[r] = <<>>
      /\ \A r \in Rank, w \in Worker :
           /\ ds'[Train(r, w)] = L[r].snap[w]
           /\ it'[Train(r, w)] = StartIter(L[r].snap[w])
           /\ queue'[Train(r, w)] = <<>>
  BY <1>1, Begins
<1>3. ASSUME NEW r \in Rank PROVE Place(r)'
  <2> DEFINE a == End(0, weights'[r])
             d == L[r].snap[0]
  <2>1. Chain(Shard(cp, r), 0, weights'[r]) /\ Stands(Shard(cp, r), a, d)
    BY DEF SavedPlace
  <2>2. d \in States(Shard(cp, r)) /\ 0 \in Worker
    BY OneWorker DEF Loaders
  <2>3. IsShard(Shard(cp, r))
    BY DEF IsShard
  <2> HIDE DEF a, d
  <2>4. Ahead(Shard(cp, r), a, d, StartIter(d), <<>>)
    BY <2>1, <2>2, <2>3, Starts
  <2>5. Chain(Shard(cp, r), a, took'[r]) /\ End(a, took'[r]) = a
    BY <1>2, NoRows
  <2>6. Used(r)' = a
    BY <2>5 DEF Used, a
  <2>7. /\ ds'[Train(r, 0)] = d /\ it'[Train(r, 0)] = StartIter(d) /\ queue'[Train(r, 0)] = <<>>
        /\ loader'["train"][r].snap[0] = d
    BY <1>2, <2>2 DEF d
  <2>8. Chain(Shard(cp, r), End(0, weights'[r]), took'[r])
    BY <2>5 DEF a
  <2> QED BY <1>2, <2>1, <2>4, <2>6, <2>7, <2>8 DEF Place
<1>4. ASSUME NEW r \in Rank PROVE RowCount(r)'
  <2>1. Len(weights'[r]) = GradAccum * n /\ Len(weights'[0]) = GradAccum * n
    BY OneWorker DEF SavedPlace
  <2>2. Steps' = n
    BY <1>2 DEF Steps, Closing
  <2> QED BY <1>2, <2>1, <2>2 DEF RowCount, Closing
<1>5. Saved'
  BY <1>1, <1>2, SavedSame
<1> QED BY <1>3, <1>4, <1>5 DEF Places, RowCounts

(* Nothing trained, and a loader that has not begun.                       *)
LEMMA FreshPlace ==
  ASSUME NumWorkers = 1, NEW r \in Rank
  PROVE  SavedPlace(0, r, <<>>, FreshLoader)
<1>1. FreshLoader.snap[0] = Fresh
  BY OneWorker DEF FreshLoader
<1>2. Fresh.pending = <<>> /\ Fresh.step = 0
  BY DEF Fresh
<1>3. \A p \in Shard(cp, r) : ~ (0 < p /\ p <= 0)
  BY DEF Shard
<1>4. Stands(Shard(cp, r), 0, Fresh)
  BY <1>2, <1>3 DEF Stands
<1>5. Chain(Shard(cp, r), 0, <<>>) /\ End(0, <<>>) = 0 /\ Len(<<>>) = GradAccum * 0
  BY NoRows, Accumulates
<1> QED BY <1>1, <1>4, <1>5 DEF SavedPlace

(* StreamInv holds at the start.                                           *)
LEMMA StreamInit ==
  ASSUME NumWorkers = 1, Init
  PROVE  StreamInv
<1>1. RowsInv
  BY ShapeInit, RanksInit, FilesInit DEF RowsInv
<1>2. /\ weights = [r \in Rank |-> <<>>] /\ took = [r \in Rank |-> <<>>]
      /\ progress.step = 1 /\ pc = "micro"
  BY DEF Init
<1>3. ASSUME NEW r \in Rank PROVE Place(r) /\ RowCount(r)
  <2>1. Train(r, 0) \in Stream /\ 0 \in Rank
    BY OneWorker
  <2>2. /\ ds[Train(r, 0)] = Fresh /\ it[Train(r, 0)] = StartIter(Fresh) /\ queue[Train(r, 0)] = <<>>
        /\ weights[r] = <<>> /\ weights[0] = <<>> /\ took[r] = <<>>
    BY <1>2, <2>1 DEF Init
  <2>3. loader["train"][r].snap[0] = Fresh /\ FreshLoader.snap[0] = Fresh
    BY OneWorker DEF Init, Mode, FreshLoader
  <2>4. /\ Chain(Shard(cp, r), 0, <<>>) /\ Stands(Shard(cp, r), 0, Fresh) /\ End(0, <<>>) = 0
    BY <2>3, FreshPlace, NoRows DEF SavedPlace
  <2>5. Ahead(Shard(cp, r), 0, Fresh, StartIter(Fresh), <<>>)
    <3>1. IsShard(Shard(cp, r))
      BY DEF IsShard
    <3> QED BY <2>4, <3>1, FreshIs, Starts
  <2>6. Place(r)
    BY <2>2, <2>3, <2>4, <2>5 DEF Place, Used
  <2>7. Len(<<>>) = GradAccum * 0 /\ Steps = 0
    BY <1>2, Accumulates DEF Steps, Closing
  <2>8. RowCount(r)
    BY <1>2, <2>2, <2>7 DEF RowCount, Closing
  <2> QED BY <2>6, <2>8
<1>4. Saved
  <2>1. \A k \in 1 .. MaxSteps : disk[k].app = <<>>
    BY DEF Init
  <2> QED BY <2>1 DEF Saved
<1> QED BY <1>1, <1>3, <1>4 DEF StreamInv, Places, RowCounts

(* Both launches are of that kind.                                         *)
LEMMA RelaunchInPlace ==
  ASSUME NumWorkers = 1, StreamInv, Relaunch
  PROVE  StreamInv'
<1>1. RowsInv /\ Saved /\ pc = "down"
  BY DEF StreamInv, Relaunch, Resume, StartOver
<1>2. RowsInv'
  BY <1>1, RelaunchKeepsRows
<1>3. ASSUME NEW k \in 1 .. MaxSteps, Resume(k) PROVE Places' /\ RowCounts' /\ Saved'
  <2> DEFINE L == [r \in Rank |-> LoaderFile(r, k)[1]]
  <2>1. /\ k \in Whole /\ weights' = disk[k].app[1].weights
        /\ progress' = [disk[k].app[1].progress EXCEPT !.step = @ + 1]
        /\ Begin(L)
    BY <1>3 DEF Resume
  <2>2. DOMAIN L = Rank /\ \A r \in Rank : L[r] \in Loaders(Shard(cp, r))
    BY <1>1, <2>1, WholeIs
  <2>3. progress'.step = k + 1
    <3>1. PICK t \in Nat : disk[k].app[1].progress = [step |-> k, tokens |-> t]
      BY <1>1, <2>1, WholeIs
    <3>2. progress' = [step |-> k + 1, tokens |-> t]
      BY <2>1, <3>1
    <3> QED BY <3>2
  <2>4. \A r \in Rank : SavedPlace(k, r, weights'[r], L[r])
    <3>1. \A r \in Rank : L[r] = disk[k].loader[r][1]
      BY <1>1, <2>1, WholeIs
    <3>2. disk[k].app # <<>>
      BY <2>1 DEF Whole
    <3> QED BY <1>1, <2>1, <3>1, <3>2 DEF Saved
  <2>5. k \in Nat
    OBVIOUS
  <2> HIDE DEF L
  <2> QED BY <1>1, <2>1, <2>2, <2>3, <2>4, <2>5, LaunchInPlace
<1>4. ASSUME StartOver PROVE Places' /\ RowCounts' /\ Saved'
  <2> DEFINE L == [r \in Rank |-> FreshLoader]
  <2>1. /\ weights' = [r \in Rank |-> <<>>] /\ progress' = [step |-> 1, tokens |-> 0]
        /\ Begin(L)
    BY <1>4 DEF StartOver
  <2>2. DOMAIN L = Rank /\ \A r \in Rank : L[r] \in Loaders(Shard(cp, r))
    BY FreshIs
  <2>3. progress'.step = 0 + 1
    BY <2>1
  <2>4. \A r \in Rank : SavedPlace(0, r, weights'[r], L[r])
    BY <2>1, FreshPlace
  <2> HIDE DEF L
  <2> QED BY <1>1, <2>1, <2>2, <2>3, <2>4, LaunchInPlace
<1> QED BY <1>2, <1>3, <1>4 DEF Relaunch, StreamInv

(* With one worker to a rank, StreamInv is an invariant: every rank and    *)
(* every checkpoint stand at the place of the stream where their weights   *)
(* end.                                                                    *)
THEOREM StreamInvariant ==
  ASSUME NumWorkers = 1
  PROVE  Spec => []StreamInv
<1>1. Init => StreamInv
  BY StreamInit
<1>2. StreamInv /\ [Next]_vars => StreamInv'
  <2> SUFFICES ASSUME StreamInv, [Next]_vars PROVE StreamInv'
    OBVIOUS
  <2>1. CASE \E s \in Stream : WorkerStep(s)
    BY <2>1, WorkersKeepPlaces
  <2>2. CASE \E r \in Rank : RankStep(r)
    BY <2>2, TakenInPlace, ValKeepsPlaces, SavesInPlace DEF RankStep
  <2>3. CASE GangStep
    BY <2>3, ValKeepsPlaces, StepsKeepPlaces, ModelInPlace DEF GangStep
  <2>4. CASE Crash
    BY <2>4, CrashKeepsPlaces
  <2>5. CASE Relaunch
    BY <2>5, RelaunchInPlace
  <2>6. CASE UNCHANGED vars
    <3>1. Shape /\ loader' = loader /\ UNCHANGED workerVars
      BY <2>6 DEF StreamInv, RowsInv, vars, workerVars
    <3>2. LoadersSame
      BY <3>1, LoadersStill
    <3>3. /\ cp' = cp /\ took' = took /\ weights' = weights /\ disk' = disk /\ filed' = filed
          /\ pc' = pc /\ progress' = progress
      BY <2>6 DEF vars, trainVars, diskVars
    <3>4. filed # {} => pc = "save"
      BY DEF StreamInv, RowsInv, Files
    <3>5. RowsInv'
      BY <3>1, <3>2, <3>3, <3>4, RowsKept DEF Shape, StreamInv
    <3>6. Places' /\ Saved'
      BY <3>2, <3>3, PlacesSame, SavedSame DEF StreamInv
    <3>7. RowCounts'
      BY <3>3 DEF StreamInv, RowCounts, RowCount, Steps
    <3> QED BY <3>5, <3>6, <3>7 DEF StreamInv
  <2> QED BY <2>1, <2>2, <2>3, <2>4, <2>5, <2>6 DEF Next
<1> QED BY <1>1, <1>2, PTL DEF Spec

(* With one worker to a rank, the default, the weights have seen every     *)
(* usable sample of their shard up to the last one, in order and once,     *)
(* whatever was prefetched, packed or held back when the trainer was       *)
(* killed, and the ranks of a context-parallel group have seen the same    *)
(* rows. With two workers it fails (run sft_workers).                      *)
THEOREM OneWorkerStreams ==
  ASSUME NumWorkers = 1
  PROVE  Spec => []StreamIntact
<1>1. ASSUME StreamInv, NEW r \in Rank, NEW i \in DOMAIN weights[r], NEW j \in DOMAIN Row(r, i)
      PROVE  /\ Row(r, i)[j].epoch = EpochAt("train", Row(r, i)[j].at)
             /\ j > 1 => Row(r, i)[j - 1].at < Row(r, i)[j].at
             /\ i > 1 => Last(Row(r, i - 1)).at < Row(r, i)[j].at
  <2> DEFINE D == Shard(cp, r)
             W == weights[r]
  <2>1. IsShard(D) /\ Chain(D, 0, W) /\ Len(W) \in Nat /\ DOMAIN W = 1 .. Len(W)
    BY <1>1 DEF IsShard, StreamInv, Places, Place, RowsInv, Ranks, RankOK
  <2>2. RowIn(D, RowBefore(0, W, i), W[i]) /\ RowBefore(0, W, i) \in Nat
    <3> HIDE DEF D, W
    <3> QED BY <2>1, ChainRises DEF W
  <2>3. /\ W[i].samples[j].epoch = EpochAt("train", W[i].samples[j].at)
        /\ RowBefore(0, W, i) < W[i].samples[j].at
        /\ j > 1 => W[i].samples[j - 1].at < W[i].samples[j].at
    <3> HIDE DEF D, W
    <3> QED BY <2>1, <2>2, RowOrder DEF Row, W
  <2>4. i > 1 => RowBefore(0, W, i) = Last(W[i - 1].samples).at
    BY DEF RowBefore, RowEnd
  <2> QED BY <2>3, <2>4 DEF Row
<1>2. ASSUME StreamInv, NEW r \in Rank, weights[r] # <<>>
      PROVE  Positions(r) = {p \in 1 .. Last(Last(weights[r]).samples).at : Due(r, p)}
  <2> DEFINE D == Shard(cp, r)
             W == weights[r]
             e == Last(Last(weights[r]).samples).at
  <2>1. /\ IsShard(D) /\ Chain(D, 0, W) /\ Len(W) \in Nat /\ DOMAIN W = 1 .. Len(W)
        /\ Len(W) # 0
    <3>1. W \in Seq(AnyRows(D)) /\ Chain(D, 0, W)
      BY <1>2 DEF StreamInv, Places, Place, RowsInv, Ranks, RankOK
    <3> QED BY <1>2, <3>1 DEF IsShard
  <2>2. e = RowEnd(W[Len(W)])
    BY DEF RowEnd, Last
  <2>3. \A p : p \in D <=> p \in Nat \ {0} /\ Due(r, p)
    BY DEF Shard, Due
  <2>4. Positions(r) = UNION {{W[i].samples[j].at : j \in DOMAIN W[i].samples} : i \in DOMAIN W}
    BY DEF Positions, Row
  <2> HIDE DEF D, W, e
  <2>5. /\ e = End(0, W) /\ e \in Nat
        /\ \A i \in 1 .. Len(W) : /\ RowEnd(W[i]) \in Nat /\ RowBefore(0, W, i) \in Nat
                                  /\ RowIn(D, RowBefore(0, W, i), W[i])
                                  /\ RowEnd(W[i]) <= e
    BY <2>1, <2>2, ChainRises
  <2>6. \A i \in 1 .. Len(W) : \A j \in DOMAIN W[i].samples :
          /\ W[i].samples[j].at \in D /\ W[i].samples[j].at \in Nat
          /\ W[i].samples[j].at <= RowEnd(W[i])
    BY <2>1, <2>5, RowOrder
  <2>7. ASSUME NEW p \in Positions(r) PROVE p \in 1 .. e /\ Due(r, p)
    <3>1. PICK i \in 1 .. Len(W) : \E j \in DOMAIN W[i].samples : p = W[i].samples[j].at
      BY <2>1, <2>4
    <3>2. p \in D /\ p \in Nat /\ p <= RowEnd(W[i])
      BY <2>6, <3>1
    <3> QED BY <2>3, <2>5, <3>2
  <2>8. ASSUME NEW p \in 1 .. e, Due(r, p) PROVE p \in Positions(r)
    <3>1. p \in D /\ p <= End(0, W)
      BY <2>3, <2>5, <2>8
    <3>2. \E i \in 1 .. Len(W) : \E j \in DOMAIN W[i].samples : W[i].samples[j].at = p
      BY <2>1, <3>1, ChainCovers
    <3> QED BY <2>1, <2>4, <3>2
  <2> QED BY <2>7, <2>8 DEF e
<1>3. ASSUME StreamInv, NEW r \in Rank, NEW q \in Rank, q \div cp = r \div cp
      PROVE  weights[q] = weights[r]
  <2>1. Shard(cp, q) = Shard(cp, r)
    BY <1>3 DEF Shard
  <2>2. PICK D : D = Shard(cp, r) /\ IsShard(D)
    BY DEF IsShard
  <2>3. /\ weights[q] \in Seq(AnyRows(D)) /\ weights[r] \in Seq(AnyRows(D))
        /\ Chain(D, 0, weights[q]) /\ Chain(D, 0, weights[r])
    BY <1>3, <2>1, <2>2 DEF StreamInv, Places, Place, RowsInv, Ranks, RankOK
  <2>4. Len(weights[q]) = Len(weights[r])
    BY <1>3 DEF StreamInv, RowCounts, RowCount
  <2> QED BY <2>2, <2>3, <2>4, ChainUnique
<1>4. StreamInv => StreamIntact
  BY <1>1, <1>2, <1>3, Zenon DEF StreamIntact
<1> QED BY <1>4, StreamInvariant, PTL
=============================================================================
