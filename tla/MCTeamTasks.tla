---------------------------- MODULE MCTeamTasks ----------------------------
(* Model-checking instances of TeamTasks; the values are in the .cfg files. *)
EXTENDS TeamTasks

\* Bound: agent/status events waiting for their handler, over all members.
FewEdges == Cardinality({<<m, e>> \in Member \X {"running", "idle"} :
                           e \in edges[m]}) <= 1
=============================================================================
