------------------------------ MODULE MCPacking ------------------------------
(* An instance of Packing for TLC: every choice of six samples from text   *)
(* of four lengths (one too long), text with routed experts, and samples   *)
(* with images of two tensor shapes: one that fits, one cut behind its two *)
(* images, one cut into its third and one cut into its only image.         *)
EXTENDS Packing

CONSTANTS ShapeA, ShapeB

Text(n) == [len |-> n, routed |-> FALSE, tokens |-> {}, upto |-> <<>>, image |-> NoImage]
Routed(n) == [Text(n) EXCEPT !.routed = TRUE]
(* The placeholders of every image, in order.                              *)
WithImages(n, blocks, s) ==
  [Text(n) EXCEPT !.tokens = UNION Range(blocks), !.image = s,
                  !.upto = [k \in DOMAIN blocks |->
                              Cardinality(UNION {blocks[l] : l \in 1 .. k})]]

Kinds == <<Text(1), Text(6), Text(8), Text(12), Routed(3),
           WithImages(4, <<2 .. 3>>, ShapeA), WithImages(12, <<2 .. 3, 6 .. 8>>, ShapeB),
           WithImages(13, <<2 .. 2, 4 .. 5, 8 .. 12>>, ShapeB), WithImages(12, <<6 .. 11>>, ShapeA)>>
RawSamples == {Kinds[k] : k \in DOMAIN Kinds}
InOrder == {c \in [1 .. Samples -> DOMAIN Kinds] :
              \A i \in 1 .. (Samples - 1) : c[i] <= c[i + 1]}
ChosenBatches == {[i \in 1 .. Samples |-> Kinds[c[i]]] : c \in InOrder}
=============================================================================
