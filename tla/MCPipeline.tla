----------------------------- MODULE MCPipeline -----------------------------
(* A small instance of Pipeline for TLC: up to three items on pages of two. *)
EXTENDS Pipeline

CONSTANTS i1, i2, i3

MCItems == {i1, i2, i3}
MCIds   == MCItems \cup {Garbled}

(* No item at all, a last page that is full, and one that is not. *)
MCLists == {<<>>, <<i1, i2>>, <<i1, i2, i3>>}

(* The first and the last item are in one group. *)
MCGroupOf == [x \in MCIds |-> IF x = i2 THEN "g2" ELSE "g1"]
=============================================================================
