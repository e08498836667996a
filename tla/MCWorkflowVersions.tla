------------------------ MODULE MCWorkflowVersions ------------------------
(***************************************************************************)
(* Instances of WorkflowVersions.  Two clients suffice for every pair of   *)
(* requests to meet, two Deletes that deadlock included; four versions for *)
(* three Updates and a Rollback or Delete of what they leave.              *)
(***************************************************************************)
EXTENDS WorkflowVersions, TLC

CONSTANTS c1, c2

MCClients == {c1, c2}

ClientSymmetry == Permutations(MCClients)
=============================================================================
