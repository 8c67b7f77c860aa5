-------------------------- MODULE MCReadinessQuery --------------------------
EXTENDS ReadinessQuery

(* main: c0 then s; the branch: c0, c1, then m, which merges s into c1.     *)
MCCommits == {"c0", "c1", "s", "m"}
MCParents == [c \in MCCommits |-> CASE c = "c0" -> <<>> [] c = "c1" -> <<"c0">>
                                    [] c = "s" -> <<"c0">> [] c = "m" -> <<"c1", "s">>]
=============================================================================
