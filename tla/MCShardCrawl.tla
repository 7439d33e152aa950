--------------------------- MODULE MCShardCrawl ---------------------------
(* Small instances of ShardCrawl for TLC: a window of three rows and pages  *)
(* of two, so that a shard of three needs a second, short page.             *)
EXTENDS ShardCrawl

CONSTANTS s1, s2, s3, s4, s5, s6, s7, s8, s9, kb1, kb2, none, any, negeri, swasta, sd, smp

MCStatuses   == <<negeri, swasta>>
MCCategories == <<sd, smp>>
MCKabOrder   == <<kb1, kb2>>

(* kb1 is split by status, and every school can be found. *)
FullSchools == <<s1, s2, s3, s4, s5, s6>>
FullKab     == s1 :> kb1 @@ s2 :> kb2 @@ s3 :> kb1 @@ s4 :> kb1 @@ s5 :> kb1 @@ s6 :> kb2
FullStatus  == s1 :> negeri @@ s2 :> negeri @@ s3 :> swasta @@ s4 :> negeri
                @@ s5 :> negeri @@ s6 :> swasta
FullBentuk  == s1 :> sd @@ s2 :> smp @@ s3 :> smp @@ s4 :> smp @@ s5 :> sd @@ s6 :> sd

(* kb1 holds a shard that is too large however it is split, kb2 one of two  *)
(* pages; s7 has no kabupaten.                                              *)
OverSchools == <<s1, s2, s3, s4, s8, s5, s9, s6, s7>>
OverKab     == s1 :> kb1 @@ s2 :> kb2 @@ s3 :> kb1 @@ s4 :> kb1 @@ s5 :> kb1
                @@ s6 :> kb1 @@ s7 :> none @@ s8 :> kb2 @@ s9 :> kb2
OverStatus  == [s \in ToSet(OverSchools) |-> negeri]
OverBentuk  == [s \in ToSet(OverSchools) |-> IF s \in {s4, s7} THEN smp ELSE sd]

(* No filter; one status; a district and a category. *)
NoBase   == {Root}
MCBases  == {Root, [Root EXCEPT !.st = negeri],
             [Root EXCEPT !.kb = kb1, !.bp = sd]}
=============================================================================
