----------------------------- MODULE MCVmalloc -----------------------------
(***************************************************************************)
(* Instances of Vmalloc for TLC.                                           *)
(***************************************************************************)
EXTENDS Vmalloc

\* Once the list is damaged nothing is claimed any more.
BeforeDamage == Intact
=============================================================================
