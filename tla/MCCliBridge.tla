---------------------------- MODULE MCCliBridge ----------------------------
(* Instances of CliBridge: two tasks, or a task and another call, and one      *)
(* restart, with as many CLIs as these can bring about.                        *)
EXTENDS CliBridge

CONSTANTS t1, t2, a1, s1, r1

KindByName ==
    [c \in Calls |-> CASE c = a1 -> "apply" [] c = s1 -> "status" [] OTHER -> "task"]
Interchangeable == Permutations({t1, t2})
=============================================================================
