--------------------------- MODULE MCPlanExecutor ---------------------------
(* Instances of PlanExecutor for TLC.                                      *)
EXTENDS PlanExecutor, TLC

CONSTANTS a, b, o, p, q, r1, p1, p2, c1

Read1(stop) == [id |-> r1, action |-> "read", path |-> None, needs |-> {}, stops |-> stop]
Patch1(stop) == [id |-> p1, action |-> "patch", path |-> p, needs |-> {}, stops |-> stop]
Patch2(stop) == [id |-> p2, action |-> "patch", path |-> q, needs |-> {p1}, stops |-> stop]
Check1(stop) == [id |-> c1, action |-> "check", path |-> None, needs |-> {}, stops |-> stop]

\* A read, a patch and a check; a read alone; two patches and a check, where
\* the first patch may fail and the second then finds what it needs undone.
Typical == {<<Read1(TRUE), Patch1(TRUE), Check1(TRUE)>>,
            <<Read1(TRUE)>>,
            <<Patch1(FALSE), Patch2(TRUE), Check1(TRUE)>>}

\* Two calls side by side, or three one after the other.
TwoOrThree == [side \in BOOLEAN |-> IF side THEN 2 ELSE 3]
Two == [side \in BOOLEAN |-> 2]

Interchangeable == Permutations({a, b})
=============================================================================
