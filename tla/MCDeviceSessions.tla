-------------------------- MODULE MCDeviceSessions --------------------------
(***************************************************************************)
(* DeviceSessions on small instances.                                      *)
(***************************************************************************)
EXTENDS DeviceSessions, TLC

Symmetry == Permutations(Auths) \cup Permutations(Txns) \cup Permutations(Users)

=============================================================================
