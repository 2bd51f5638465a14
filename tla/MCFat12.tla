------------------------------ MODULE MCFat12 ------------------------------
(***************************************************************************)
(* Directories and names for model checking Fat12: names that differ in    *)
(* the last character or in case, a prefix of another name, a long one, a  *)
(* deleted entry and one of a long file name.                              *)
(***************************************************************************)
EXTENDS Fat12

Text(chars, len) == [k \in 1 .. len |-> IF k <= Len(chars) THEN chars[k] ELSE SP]
DE(name, ext, attribute) ==
  [filename |-> Text(name, 8), ext |-> Text(ext, 3), attribute |-> attribute]

KERNEL1 == <<75, 69, 82, 78, 69, 76, 45, 49>>     \* KERNEL-1
KERNEL2 == <<75, 69, 82, 78, 69, 76, 45, 50>>     \* KERNEL-2
kernel2 == <<107, 101, 114, 110, 101, 108, 45, 50, 57>>  \* kernel-29
KER     == <<75, 69, 82>>
Txt == <<84, 88, 84>>
Txs == <<84, 88, 83>>
Last == DE(<<NUL>>, <<>>, 0)

MCDirectory ==
  { <<Last>>,
    <<DE(KERNEL1, Txt, 32), DE(KERNEL2, Txt, 32), Last>>,
    <<DE(KERNEL2, Txs, 32), DE(KER, Txt, 32), DE(KERNEL2, Txt, 32), Last>>,
    <<DE(KERNEL2, Txt, 15), DE(<<-27, 69, 82>>, Txt, 32), DE(KER, <<>>, 16), Last>> }

\* What a caller passes ends with NUL.
MCName == [name : {kernel2 \o <<NUL>>, KERNEL1 \o <<NUL>>, KER \o <<NUL>>},
           ext : {Txt \o <<NUL>>, <<NUL>>}]
=============================================================================
