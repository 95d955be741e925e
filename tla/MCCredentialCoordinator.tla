----------------------- MODULE MCCredentialCoordinator -----------------------
(***************************************************************************)
(* Scenarios for TLC: a long series of faults under a revocation; every    *)
(* event racing every other one, with one fault; and what liveness, which  *)
(* is dearer to check, needs.                                              *)
(***************************************************************************)
EXTENDS CredentialCoordinator

Safety == {[txns |-> 5, faults |-> 3, events |-> {"revoke", "lapse"}],
           [txns |-> 3, faults |-> 1, events |-> AllEvents \ {"early"}]}

Progress == {[txns |-> 3, faults |-> 1, events |-> {"logout", "revoke"}]}

Dropping == {[txns |-> 3, faults |-> 1, events |-> {"drop"}]}

=============================================================================
