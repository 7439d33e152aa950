---------------------------- MODULE MCJiraImport ----------------------------
(* A small instance of JiraImport for TLC: three schools, two foundations. *)
EXTENDS JiraImport

(* s1, s2: schools; sy names a foundation; g is generic. *)
MCSummaries == {"s1", "s2", "sy", "g"}

(* A summary -> record -> number from the numbers of s1, s2, sy and g. *)
Per(s1, s2, sy, g) == [s \in MCSummaries |->
  CASE s = "s1" -> s1 [] s = "s2" -> s2 [] s = "sy" -> sy [] OTHER -> g]
Insts(a, b, c) == [x \in {"a", "b", "c"} |-> CASE x = "a" -> a [] x = "b" -> b [] OTHER -> c]
Yays(f, h)     == [x \in {"f", "h"} |-> IF x = "f" THEN f ELSE h]

(* School b has no foundation, c no NPSN, and foundation h no NPYP.  For s1 *)
(* the school of the highest score is not among the two with most hits; a   *)
(* school and a foundation pass; s2 passes for a foundation only, sy for    *)
(* both.                                                                    *)
Steady ==
  [inst |-> [npsn  |-> Insts("1", "2", Empty), npyp |-> Insts("F", Empty, "F"),
             hits  |-> Per(Insts(3, 2, 1), Insts(0, 1, 2), Insts(1, 0, 0), Insts(1, 1, 1)),
             score |-> Per(Insts(30, 40, 90), Insts(0, 10, 20), Insts(30, 0, 0), Insts(9, 9, 9))],
   yay  |-> [npyp  |-> Yays("F", Empty),
             hits  |-> Per(Yays(1, 2), Yays(0, 1), Yays(2, 1), Yays(1, 1)),
             score |-> Per(Yays(60, 20), Yays(0, 26), Yays(50, 10), Yays(9, 9))]]

(* Ties for s1, in score and in hits, and a fallback to a school for sy. *)
Tied ==
  [Steady EXCEPT !.inst.hits["s1"]  = Insts(2, 2, 2),
                 !.inst.score["s1"] = Insts(40, 40, 30),
                 !.inst.hits["s2"]  = Insts(1, 1, 2),
                 !.inst.score["s2"] = Insts(25, 24, 90),
                 !.yay.score["sy"]  = Yays(24, 10)]

(* Without code columns and with a short row; with them, one twice; without *)
(* a summary column and with a row longer than the header; with summaries   *)
(* in a code column.                                                        *)
MCSheets ==
  { << <<"other", "summary">>, <<"o", "s1">>, <<"o">> >>,
    << <<"npyp", "summary", "npsp", "npsp">>, <<Empty, "s2", "o", Empty>>, <<Empty, "sy", "o", Empty>> >>,
    << <<"other">>, <<"sy", "o">>, <<"s1">> >>,
    << <<"npyp">>, <<Empty>>, <<>> >> }
MCDatabases == {Steady, Tied}
=============================================================================
