----------------------------- MODULE MCSftData -----------------------------
(* An instance of SftData for TLC: text that fits, that is longer than a   *)
(* row and that trains only past it, and images that are cut through, cut  *)
(* behind or kept.  Validation shards pack into different numbers of rows. *)
EXTENDS SftData

Text(n, trains) == [mm |-> FALSE, len |-> n, trains |-> trains, stops |-> {n}, images |-> {}]
Image(n, stops, off, size) ==
  [mm |-> TRUE, len |-> n, trains |-> stops, stops |-> stops,
   images |-> {[offset |-> off, length |-> size]}]

TrainExamples ==
  <<Text(2, {2}), Image(5, {2, 5}, 2, 2), Text(7, {7}), Text(8, {1, 8}), Image(3, {3}, 0, 2)>>
ValExamples == <<Text(4, {2}), Text(3, {3}), Text(4, {1})>>
Rotate(e, n) == [i \in 1 .. n |-> ((i + e - 1) % n) + 1]
=============================================================================
