----------------------------- MODULE MCOffload -----------------------------
(* Three parameters in two chunks: "a" and "b" in the first, "e", which a   *)
(* backward may skip, alone in the second.                                  *)
EXTENDS Offload

ChunkOfParam == [p \in {"a", "b", "e"} |-> IF p = "e" THEN 2 ELSE 1]
RankOfParam == [p \in {"a", "b", "e"} |-> CASE p = "a" -> 1 [] p = "e" -> 2 [] p = "b" -> 3]
=============================================================================
