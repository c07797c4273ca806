----------------------- MODULE MCWorkspaceTransaction -----------------------
(* Instances of WorkspaceTransaction for TLC.                              *)
EXTENDS WorkspaceTransaction, TLC

CONSTANTS p, q, x, y

Interchangeable == Permutations({x, y})
=============================================================================
