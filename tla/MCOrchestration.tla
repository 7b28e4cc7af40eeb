--------------------------- MODULE MCOrchestration ---------------------------
(***************************************************************************)
(* Values for the constants of Orchestration that a .cfg cannot write.       *)
(***************************************************************************)
EXTENDS Orchestration, TLC

Everything == {{"engineering", "infrastructure", "qa"}}
Outcome(v, t, b) == [verified |-> v, tested |-> t, built |-> b]
GoodBad == {Outcome(TRUE, TRUE, TRUE), Outcome(FALSE, FALSE, FALSE)}
Good == {Outcome(TRUE, TRUE, TRUE)}
ThreadSymmetry == Permutations(Requests)
=============================================================================
