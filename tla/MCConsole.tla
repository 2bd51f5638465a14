------------------------------ MODULE MCConsole ------------------------------
(***************************************************************************)
(* The splitting of a line into arguments, evaluated for every short line  *)
(* before the dialogue of Console is explored.                             *)
(***************************************************************************)
EXTENDS Console

\* The words of a line, each space alone or with others between two of them: a
\* space at the start follows an empty word, one at the end precedes one.
Starts(l) == {1} \cup {i \in 2 .. Len(l) + 1 : l[i - 1] = Space /\ (i <= Len(l) => l[i] # Space)}
Word(l, i) ==
  LET end == CHOOSE e \in i .. Len(l) + 1 : /\ e <= Len(l) => l[e] = Space
                                            /\ \A j \in i .. e - 1 : l[j] # Space
  IN  SubSeq(l, i, end - 1)
WordsOf(l) == LET starts == Seqs!SetToSortSeq(Starts(l), <)
              IN  [k \in DOMAIN starts |-> Word(l, starts[k])]

Fit(w) == Len(w) <= MAX_COMMAND_ARGS_COUNT /\ \A k \in DOMAIN w : Len(w[k]) < MAX_ARG_LEN

ShortLines == UNION {[1 .. n -> {"a", "b", Space}] : n \in 0 .. 6}

(***************************************************************************)
(* parse_command gives a command the words of its line as arguments,       *)
(* whatever spaces are before, between and behind them, if they fit the    *)
(* fields of args[], and it stays inside them then.  Otherwise it wrote    *)
(* behind a field or left one without an end, but for a last, empty word,  *)
(* for which it stores nothing.                                            *)
(***************************************************************************)
ASSUME ArgumentsSplit ==
  \A l \in ShortLines :
    LET p == parse_command(l)
        w == WordsOf(l)
    IN  /\ p.args_count + 1 = Len(w)
        /\ Fit(w) => \A k \in DOMAIN w : \A j \in 1 .. Len(w[k]) + 1 :
                       p.args[k - 1][j - 1] = (w[k] \o <<NUL>>)[j]
        /\ ~Overruns(p) <=> Fit(IF Len(w) > 1 /\ w[Len(w)] = <<>> THEN SubSeq(w, 1, Len(w) - 1) ELSE w)
=============================================================================
