------------------------ MODULE MCServiceSupervisor ------------------------
(* Instances of ServiceSupervisor for TLC.                                 *)
EXTENDS ServiceSupervisor, TLC

CONSTANTS a, b, i, j, mine, other

\* Callers of two projects that have a service of one name.
HomeOfTwo == (a :> mine) @@ (b :> other)
============================================================================
