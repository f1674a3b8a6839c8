------------------------------- MODULE Packing -------------------------------
(***************************************************************************)
(* Packing one training batch into micro batches and spreading them over   *)
(* the trainer's data ranks: prepare_batch of trainer/batch.py, which the  *)
(* orchestrator's BatchPacker runs on every batch it ships.                *)
(*                                                                         *)
(* A pure function, written as its loops: truncate every sample, first-fit *)
(* decreasing, split bins until the ranks come out even, pad and separate  *)
(* by modality, and for each modality Karmarkar-Karp and swaps.  A sample  *)
(* is its length, where the placeholder tokens of its images are, how many *)
(* of them its first image has, its first two, and so on (what the rows of *)
(* image_grid_thw say), the shape of a row of its image tensors, if it has *)
(* any, and whether it has routed experts.                                 *)
(***************************************************************************)
EXTENDS Integers, Sequences, FiniteSets, FiniteSetsExt, Functions

CONSTANTS
  Samples,      (* how many samples a batch has                            *)
  RawSample,    (* what a sample may look like before truncation           *)
  Shape,        (* of an image's tensors                                   *)
  Batches,      (* the batches to pack                                     *)
  NoImage,
  MaxLen,       (* seq_len: what a micro batch holds                       *)
  Workers,      (* num_train_workers                                       *)
  PadTo,        (* pad_to_multiple_of                                      *)
  Linear, Quadratic   (* build_bin_cost: the coefficients of the cost      *)

(* An image lies inside its sample and is preceded by text (the template   *)
(* of the first turn), so truncation leaves something of every sample.     *)
(* Every image has placeholders, and the sample has those of its images.   *)
ASSUME PackingAssumption ==
  /\ Samples \in Nat \ {0}
  /\ Batches \subseteq [1 .. Samples -> RawSample]
  /\ MaxLen \in Nat \ {0} /\ Workers \in Nat \ {0} /\ PadTo \in Nat \ {0}
  /\ Linear \in Nat \ {0} /\ Quadratic \in Nat
  /\ RawSample \subseteq [len : Nat \ {0}, routed : BOOLEAN, tokens : SUBSET Nat,
                           upto : Seq(Nat \ {0}), image : Shape \cup {NoImage}]
  /\ \A r \in RawSample :
       /\ r.tokens \subseteq 2 .. r.len
       /\ \A k \in DOMAIN r.upto : k > 1 => r.upto[k - 1] < r.upto[k]
       /\ Cardinality(r.tokens) = IF r.upto = <<>> THEN 0 ELSE r.upto[Len(r.upto)]
       /\ r.image # NoImage <=> r.upto # <<>>

Id == 1 .. Samples
Rank == 1 .. Workers
Modality == <<"mm", "text">>

VARIABLES
  sample,     (* the samples, truncated once `phase` has left "prepare"    *)
  unplaced,   (* samples not in a bin yet                                  *)
  bins,       (* bins, each the sequence of its samples                    *)
  sides,      (* the two halves of a bin being split                       *)
  groups,     (* micro batches of each modality                            *)
  modality,   (* the group being distributed                               *)
  weights,    (* bin_cost of its micro batches                             *)
  states,     (* the heap of _karmarkar_karp                               *)
  partitions, (* balanced_partition: positions in the group, per rank      *)
  ranks,      (* batches_per_gpu                                           *)
  phase

packVars == <<sample, unplaced, bins, sides, groups, modality, weights, states,
              partitions, ranks, phase>>

PackInit ==
  /\ sample \in Batches
  /\ unplaced = Id
  /\ bins = <<>>
  /\ sides = <<>>
  /\ groups = [m \in {"mm", "text"} |-> <<>>]
  /\ modality = 1
  /\ weights = <<>>
  /\ states = {}
  /\ partitions = <<>>
  /\ ranks = [k \in Rank |-> <<>>]
  /\ phase = "prepare"
-----------------------------------------------------------------------------
(* prepare_sample and _truncate_mm: the images whose placeholders all lie  *)
(* before seq_len stay, and a cut that would fall into the next image goes *)
(* to its first placeholder.                                               *)
TokensOf(s, k) == IF k = 0 THEN 0 ELSE s.upto[k]    (* of its first k images *)
Surviving(s) == Cardinality(s.tokens \cap 1 .. MaxLen)
Kept(s) == Max({k \in 0 .. Len(s.upto) : TokensOf(s, k) <= Surviving(s)})
Behind(s, n) == {p \in s.tokens : Cardinality(s.tokens \cap 1 .. p) > n}

CutThrough(s) == MaxLen                                              \* mutant
Cut(s) ==
  LET acc == TokensOf(s, Kept(s))
  IN  IF acc = Surviving(s) THEN MaxLen ELSE Min(Behind(s, acc)) - 1

Truncated(s) ==
  IF s.len <= MaxLen THEN s
  ELSE [s EXCEPT !.len = Cut(s),
                 !.tokens = @ \cap 1 .. Cut(s),
                 !.upto = SubSeq(@, 1, Kept(s)),
                 !.image = IF Kept(s) = 0 THEN NoImage ELSE @]

Prepare ==
  /\ phase = "prepare"
  /\ sample' = [i \in Id |-> Truncated(sample[i])]
  /\ phase' = "place"
  /\ UNCHANGED <<sides, unplaced, bins, groups, modality, weights, states, partitions, ranks>>
-----------------------------------------------------------------------------
(* Python's order of lists, and what a sort with such keys makes of the   *)
(* domain of key: every sort, heap and maximum of the code is one of these. *)
Less(a, b) ==
  \E i \in DOMAIN b : /\ \A j \in 1 .. (i - 1) : j <= Len(a) /\ a[j] = b[j]
                      /\ i > Len(a) \/ a[i] < b[i]
Earlier(key, x) == {y \in DOMAIN key : Less(key[y], key[x])}
SortBy(key) ==
  [n \in 1 .. Cardinality(DOMAIN key) |->
     CHOOSE x \in DOMAIN key : Cardinality(Earlier(key, x)) = n - 1]
Least(key) == SortBy(key)[1]
Greatest(key) == SortBy(key)[Cardinality(DOMAIN key)]
(* A set of numbers in order: also sorted() of a list without repetitions. *)
Ordered(S) == SortBy([i \in S |-> <<i>>])
-----------------------------------------------------------------------------
Lens(b) == [i \in DOMAIN b |-> sample[b[i]].len]
LengthOf(b) == SumFunction(Lens(b))
HasImage(b) == \E i \in DOMAIN b : sample[b[i]].image # NoImage
ShapeOf(b) == sample[b[CHOOSE i \in DOMAIN b : sample[b[i]].image # NoImage]].image

(* bin_cost of sequence lengths.                                           *)
Cost(lens) == Linear * SumFunction(lens)
                + Quadratic * SumFunction([i \in DOMAIN lens |-> lens[i] * lens[i]])

(* _MicroBatchBin.can_add.                                                 *)
Fits(b, i) == LengthOf(b) + sample[i].len <= MaxLen
CanAdd(b, i) ==
  /\ Fits(b, i)
  /\ sample[b[1]].routed = sample[i].routed
  /\ HasImage(b) /\ sample[i].image # NoImage => ShapeOf(b) = sample[i].image

(* First-fit decreasing; the sort is stable.                               *)
NextSample == Least([i \in unplaced |-> <<-sample[i].len, i>>])

Place ==
  /\ phase = "place"
  /\ unplaced # {}
  /\ LET i == NextSample
         fit == {k \in DOMAIN bins : CanAdd(bins[k], i)}
     IN  /\ bins' = IF fit = {} THEN Append(bins, <<i>>)
                    ELSE [bins EXCEPT ![Min(fit)] = Append(@, i)]
         /\ unplaced' = unplaced \ {i}
  /\ phase' = IF unplaced' = {} THEN "split" ELSE "place"
  /\ UNCHANGED <<sides, sample, groups, modality, weights, states, partitions, ranks>>
-----------------------------------------------------------------------------
(* _expand_bins_by_splitting.                                              *)
RoundUp(n, k) == ((n + k - 1) \div k) * k
Target == Max({RoundUp(Len(bins), Workers), Workers})
Candidates == {k \in DOMAIN bins : Len(bins[k]) > 1 /\ ~HasImage(bins[k])}
Heaviest == Greatest([k \in Candidates |-> <<Cost(Lens(bins[k])), k>>])

(* split_by_workload: heaviest sample first, each to the lighter side.     *)
(* Bins are filled, and split, by decreasing length: the stable sort finds *)
(* the samples in order.                                                   *)
Split ==
  /\ phase = "split"
  /\ Workers > 1 /\ Len(bins) < Target /\ Candidates # {}
  /\ sides' = << <<>>, <<>> >>
  /\ phase' = "halve"
  /\ UNCHANGED <<sample, unplaced, bins, groups, modality, weights, states, partitions, ranks>>

Lighter == IF Cost(Lens(sides[1])) <= Cost(Lens(sides[2])) THEN 1 ELSE 2
Halve ==
  /\ phase = "halve"
  /\ LET k == Heaviest
         n == Len(sides[1]) + Len(sides[2])
     IN  IF n < Len(bins[k])
         THEN sides' = [sides EXCEPT ![Lighter] = Append(@, bins[k][n + 1])]
              /\ UNCHANGED <<bins, phase>>
         ELSE /\ bins' = Append([bins EXCEPT ![k] = sides[1]], sides[2])
              /\ phase' = "split" /\ sides' = <<>>
  /\ UNCHANGED <<sample, unplaced, groups, modality, weights, states, partitions, ranks>>
-----------------------------------------------------------------------------
(* The micro batches of prepare_batch: bins materialised and padded, then  *)
(* each modality filled up to a multiple of the ranks with dummies, copies *)
(* of its first micro batch that carry no loss.                            *)
Padding(b) == (PadTo - (LengthOf(b) % PadTo)) % PadTo
MicroLens(mb) == [Lens(mb.bin) EXCEPT ![Len(mb.bin)] = @ + Padding(mb.bin)]
MicroCost(mb) == Cost(MicroLens(mb))

Real(B) == [n \in DOMAIN B |-> [bin |-> bins[B[n]], dummy |-> FALSE]]
FilledWithLoss(G) ==                                                 \* mutant
  IF G = <<>> THEN G ELSE G \o [k \in 1 .. (RoundUp(Len(G), Workers) - Len(G)) |-> G[1]]
Filled(G) ==
  IF G = <<>> THEN G
  ELSE G \o [k \in 1 .. (RoundUp(Len(G), Workers) - Len(G)) |-> [G[1] EXCEPT !.dummy = TRUE]]

GroupOfFirst(b) == IF sample[b[1]].image # NoImage THEN "mm" ELSE "text"   \* mutant
GroupOf(b) == IF HasImage(b) THEN "mm" ELSE "text"
BinsOf(m) == Ordered({k \in DOMAIN bins : GroupOf(bins[k]) = m})
Separate ==
  /\ phase = "split"
  /\ Workers = 1 \/ Len(bins) >= Target \/ Candidates = {}
  /\ groups' = [m \in {"mm", "text"} |-> Filled(Real(BinsOf(m)))]
  /\ phase' = "weigh"
  /\ UNCHANGED <<sides, sample, unplaced, bins, modality, weights, states, partitions, ranks>>
-----------------------------------------------------------------------------
(* _distribute_group.  A state of the heap is a sequence of weighted sets, *)
(* one per rank, heaviest first; equal totals are told apart by the items. *)
Current == groups[Modality[modality]]
Total(items) == SumFunction([i \in DOMAIN items |-> weights[items[i]]])
Key(items) == <<Total(items)>> \o items
OtherEnd(k) == Workers + 1 - k
Sorted(sets) ==
  LET ascending == SortBy([k \in Rank |-> Key(sets[k])])
  IN  [k \in Rank |-> sets[ascending[OtherEnd(k)]]]
Spread(st) == Total(st[1]) - Total(st[Workers])
First(S) ==   (* _KKState.__lt__: largest spread, then largest first set    *)
  Greatest([st \in S |-> <<Spread(st)>> \o Key(st[1])])

Weigh ==
  /\ phase = "weigh"
  /\ weights' = [i \in DOMAIN Current |-> MicroCost(Current[i])]
  /\ IF Current = <<>>
     THEN partitions' = [k \in Rank |-> <<>>] /\ phase' = "hand out"
     ELSE phase' = "deal" /\ UNCHANGED partitions
  /\ UNCHANGED <<sides, sample, unplaced, bins, groups, modality, states, ranks>>

(* The smallest weights first, Workers of them to a state.                 *)
Ascending == SortBy([i \in DOMAIN weights |-> <<weights[i], i>>])
Deal ==
  /\ phase = "deal"
  /\ states' = {Sorted([k \in Rank |-> <<Ascending[c * Workers + k]>>]) :
                  c \in 0 .. (Len(weights) \div Workers - 1)}
  /\ phase' = "merge"
  /\ UNCHANGED <<sides, sample, unplaced, bins, groups, modality, weights, partitions, ranks>>

Merge ==
  /\ phase = "merge"
  /\ IF Cardinality(states) > 1
     THEN LET a == First(states)
              b == First(states \ {a})
          IN  /\ states' = (states \ {a, b}) \cup
                             {Sorted([k \in Rank |-> a[k] \o b[OtherEnd(k)]])}
              /\ UNCHANGED <<partitions, phase>>
     ELSE /\ partitions' = LET st == CHOOSE st \in states : TRUE
                           IN  [k \in Rank |-> Ordered(Range(st[k]))]
          /\ phase' = "refine"
          /\ UNCHANGED states
  /\ UNCHANGED <<sides, sample, unplaced, bins, groups, modality, weights, ranks>>

(* _refine_by_swapping: the swap with the best (largest load, spread), the *)
(* first such in loop order, as long as it beats the present one.          *)
Swapped(P, w) ==
  [P EXCEPT ![w[1]][w[3]] = P[w[2]][w[4]], ![w[2]][w[4]] = P[w[1]][w[3]]]
LoadsOf(P) == {Total(P[k]) : k \in Rank}
Score(P) == <<Max(LoadsOf(P)), Max(LoadsOf(P)) - Min(LoadsOf(P))>>
Swaps == UNION {UNION {{<<k, l, i, j>> : i \in DOMAIN partitions[k], j \in DOMAIN partitions[l]} :
                         l \in (k + 1) .. Workers} : k \in Rank}
Better(s, t) == Less(s, t)
Improving ==
  LET now == Score(partitions)
  IN  {w \in Swaps : Better(Score(Swapped(partitions, w)), now)}
Best(W) == Least([w \in W |-> Score(Swapped(partitions, w)) \o w])

Refine ==
  /\ phase = "refine"
  /\ LET W == Improving
     IN  IF W = {}
         THEN phase' = "hand out" /\ UNCHANGED partitions
         ELSE partitions' = Swapped(partitions, Best(W)) /\ UNCHANGED phase
  /\ UNCHANGED <<sides, sample, unplaced, bins, groups, modality, weights, states, ranks>>

HandOut ==
  /\ phase = "hand out"
  /\ ranks' = [k \in Rank |-> ranks[k] \o
                 [i \in DOMAIN partitions[k] |-> Current[partitions[k][i]]]]
  /\ states' = {} /\ partitions' = <<>> /\ weights' = <<>>
  /\ IF modality = 1 THEN modality' = 2 /\ phase' = "weigh"
     ELSE phase' = "done" /\ UNCHANGED modality
  /\ UNCHANGED <<sides, sample, unplaced, bins, groups>>
-----------------------------------------------------------------------------
PackNext == Prepare \/ Place \/ Split \/ Halve \/ Separate \/ Weigh \/ Deal \/ Merge \/ Refine \/ HandOut
PackSpec == PackInit /\ [][PackNext]_packVars
FairSpec == PackSpec /\ WF_packVars(PackNext)
-----------------------------------------------------------------------------
(* Where a sample may train: a place in a micro batch with loss.          *)
Slots ==
  UNION {UNION {{<<k, n, j>> : j \in DOMAIN ranks[k][n].bin} :
                  n \in {n \in DOMAIN ranks[k] : ~ranks[k][n].dummy}} : k \in Rank}

(* Every sample of the batch trains exactly once: whatever is split,       *)
(* merged and swapped, the micro batches with loss that the ranks get hold *)
(* each sample once between them (trainer/batch.py:796).                   *)
SamplesTrainOnce ==
  phase = "done" =>
    \A i \in Id : Cardinality({s \in Slots : ranks[s[1]][s[2]].bin[s[3]] = i}) = 1

(* At every step index all ranks have a micro batch, and of one modality:  *)
(* otherwise FSDP's all-gathers hang (docstring of prepare_batch,          *)
(* trainer/batch.py:803-808).                                              *)
RanksInStep ==
  phase = "done" =>
    \A k, l \in Rank :
      /\ Len(ranks[k]) = Len(ranks[l])
      /\ \A j \in DOMAIN ranks[k] : HasImage(ranks[k][j].bin) = HasImage(ranks[l][j].bin)

(* Packing mixes only what can be computed together and never outgrows     *)
(* seq_len: one micro batch has routed experts for all of its samples or   *)
(* none and one shape of image tensors, and every sample has, whichever of *)
(* its images a cut fell into, exactly the placeholders that its image     *)
(* tensors have embeddings for (trainer/batch.py:292-330, 486-509).        *)
PacksFit ==
  /\ \A k \in DOMAIN bins :
       /\ LengthOf(bins[k]) <= MaxLen
       /\ \A i, j \in DOMAIN bins[k] :
            LET s == sample[bins[k][i]]
                t == sample[bins[k][j]]
            IN  /\ s.routed = t.routed
                /\ s.image = t.image \/ NoImage \in {s.image, t.image}
  /\ \A i \in Id :
       /\ Cardinality(sample[i].tokens) = TokensOf(sample[i], Len(sample[i].upto))
       /\ sample[i].image # NoImage <=> sample[i].upto # <<>>

(* The swapping ends: packing always delivers (trainer/batch.py:213-240).  *)
PackingEnds == <>(phase = "done")
=============================================================================
