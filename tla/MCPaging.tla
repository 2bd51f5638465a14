------------------------------ MODULE MCPaging ------------------------------
(***************************************************************************)
(* Instances of Paging for TLC.                                            *)
(***************************************************************************)
EXTENDS Paging, TLC

\* The callers are interchangeable.
Callers == Permutations(Task)

\* Once the list is damaged, or frames ran out, nothing is claimed any more.
BeforeDamage == Intact /\ ~exhausted
=============================================================================
