------------------------------- MODULE Console -------------------------------
(***************************************************************************)
(* The serial console: the UART and its interrupt handler, serial_putc and *)
(* serial_flush_buffer (kernel/serial.c), console_run and console_exec     *)
(* (kernel/console.c), and the task_console loop that calls them.          *)
(*                                                                         *)
(* Bytes arrive and leave at the speed of the line, CharTime; the CPU is   *)
(* faster than that, so a pending interrupt is served, and a wait for the  *)
(* transmitter ends, before the next CharTime.  Other tasks print too, and *)
(* so does the system call handler, with interrupts off.                   *)
(*                                                                         *)
(* The two rings are queues here: Queue8 shows that they are.  What a      *)
(* command does is in Mtask and Timer; here it takes any time and prints   *)
(* one answer.  A string put into the output ring is one token.            *)
(***************************************************************************)
EXTENDS Naturals, Sequences
Seqs == INSTANCE SequencesExt

CONSTANTS
  Letters,                 \* the bytes of commands
  Space,                   \* the one between arguments
  CONSOLE_LINE_BUF_SIZE,
  MAX_COMMAND_ARGS_COUNT, MAX_ARG_LEN,
  InSize, OutSize,         \* what com1_in and com1_out take
  MsgLen,                  \* characters the system call handler prints
  MaxTyped                 \* bound: bytes the user types

CR  == "cr"
LF  == "lf"
NUL == "nul"
Nothing == "nothing"

ASSUME ConsoleAssumption ==
  /\ Letters \cap {CR, LF, NUL, Nothing} = {}
  /\ CONSOLE_LINE_BUF_SIZE \in Nat \ {0}
  /\ MAX_COMMAND_ARGS_COUNT \in Nat \ {0} /\ MAX_ARG_LEN \in Nat \ {0}
  /\ InSize \in Nat /\ OutSize \in Nat /\ MsgLen \in Nat /\ MaxTyped \in Nat

Keys  == Letters \cup {CR, LF}
Token == Letters \cup {"newline", "answer", "prompt"}
Index == 0 .. CONSOLE_LINE_BUF_SIZE - 1

VARIABLES
  typed,          \* history: what the user typed
  rbr, thr,       \* the UART: the byte received, and is the transmitter full?
  intf,           \* the interrupt flag
  printer, left,  \* who is inside serial_putc; the handler's characters left
  q_in, dropped,  \* com1_in, and its drop counter
  q_out, outDropped,
  con,            \* where task_console is
  line, line_p, c,
  out,            \* the byte console's serial_putc was called with
  got, ran, sent, \* history: bytes read, commands run, tokens sent
  noisy,          \* history: did the system call handler print?
  flaw            \* history: what went wrong with the line

uart    == <<rbr, thr>>
cpu     == <<intf, printer, left>>
console == <<con, line, line_p, c, out, got, ran, q_out, outDropped, flaw>>
vars    == <<typed, uart, cpu, q_in, dropped, console, sent, noisy>>

\* init_serial_port() and console_init(), which prompts.
Init ==
  /\ typed = <<>> /\ rbr = Nothing /\ thr = Nothing
  /\ intf = TRUE /\ printer = "nobody" /\ left = 0
  /\ q_in = <<>> /\ dropped = 0
  /\ q_out = IF OutSize > 0 THEN <<"prompt">> ELSE <<>>
  /\ outDropped = (OutSize = 0)
  /\ con = "hlt" /\ line = [i \in Index |-> NUL] /\ line_p = 0 /\ c = 0
  /\ out = Nothing /\ got = <<>> /\ ran = <<>> /\ sent = <<>>
  /\ noisy = FALSE /\ flaw = {}

-----------------------------------------------------------------------------
\* A pending interrupt goes before the next instruction.
Served == intf => rbr = Nothing

\* The time of one character passes: what was in the transmitter is on the
\* line, and the user may have typed a key.  A byte nobody read is replaced.
CharTime ==
  /\ Served
  /\ printer # "nobody" => thr # Nothing
  /\ thr' = Nothing
  /\ \/ \E k \in Keys : /\ Len(typed) < MaxTyped
                        /\ typed' = Append(typed, k)
                        /\ rbr' = k
     \/ thr # Nothing /\ UNCHANGED <<typed, rbr>>
  /\ UNCHANGED <<cpu, q_in, dropped, console, sent, noisy>>

\* An interrupt ends the hlt of task_console.
Woken == IF con = "hlt" THEN "drain" ELSE con

\* int_handler_serial(): q8_in() counts the byte it has no room for.
Room == Len(q_in) < InSize

int_handler_serial ==
  /\ intf /\ rbr # Nothing
  /\ rbr' = Nothing
  /\ \/ Room  /\ q_in' = Append(q_in, rbr) /\ UNCHANGED dropped
     \/ ~Room /\ dropped' = dropped + 1 /\ UNCHANGED q_in
  /\ con' = Woken
  /\ UNCHANGED <<typed, thr, cpu, q_out, outDropped, line, line_p, c, out, got, ran,
                 flaw, sent, noisy>>

Tick ==
  /\ intf /\ Served
  /\ con' = Woken
  /\ UNCHANGED <<typed, uart, cpu, q_in, dropped, q_out, outDropped, line, line_p, c, out,
                 got, ran, flaw, sent, noisy>>

-----------------------------------------------------------------------------
\* serial_putc() of another task, and the system call handler's string, which
\* is printed with interrupts off from its first character to its last.
OtherPrints ==
  /\ intf /\ Served
  /\ intf' = FALSE
  /\ \/ printer' = "task" /\ left' = 1 /\ UNCHANGED noisy
     \/ printer' = "handler" /\ left' = MsgLen /\ noisy' = TRUE /\ MsgLen > 0
  /\ UNCHANGED <<typed, uart, q_in, dropped, console, sent>>

\* The flag serial_putc() found, and restores when its character is out.
FlagLost(p) == FALSE                                               \* mutant
FlagFound(p) == p # "handler"

\* The transmitter is empty: the character goes out.
PutOther ==
  /\ printer \in {"task", "handler"}
  /\ thr = Nothing
  /\ thr' = "full"
  /\ left' = left - 1
  /\ intf' = (left = 1 \/ FlagFound(printer))
  /\ printer' = IF left = 1 THEN "nobody" ELSE printer
  /\ UNCHANGED <<typed, rbr, q_in, dropped, console, sent, noisy>>

PutConsole ==
  /\ printer = "console"
  /\ thr = Nothing
  /\ thr' = "full"
  /\ sent' = Append(sent, out)
  /\ out' = Nothing
  /\ intf' = FlagFound(printer)
  /\ printer' = "nobody"
  /\ UNCHANGED <<typed, rbr, left, q_in, dropped, con, line, line_p, c, got, ran, q_out,
                 outDropped, flaw, noisy>>

-----------------------------------------------------------------------------
\* Strings for the output ring, as far as there is room.
putstr(s) ==
  LET n == IF Len(q_out) + Len(s) <= OutSize THEN Len(s)
           ELSE IF Len(q_out) <= OutSize THEN OutSize - Len(q_out) ELSE 0
  IN  /\ q_out' = q_out \o SubSeq(s, 1, n)
      /\ outDropped' = (outDropped \/ n < Len(s))

EchoAll(k) == <<IF k \in Letters THEN k ELSE "newline">>           \* mutant
Echo(k) == IF k \in {CR, LF} THEN <<>> ELSE <<k>>

\* The while loop of console_run(): one byte from com1_in to the line.  The
\* byte that fills line[] is terminated behind its end: what happens then
\* is not modelled.
Read ==
  /\ con = "drain" /\ intf /\ Served
  /\ q_in # <<>>
  /\ q_in' = Tail(q_in)
  /\ got' = Append(got, Head(q_in))
  /\ putstr(Echo(Head(q_in)))
  /\ \/ /\ line_p + 1 \in Index
        /\ line' = [line EXCEPT ![line_p] = Head(q_in), ![line_p + 1] = NUL]
        /\ line_p' = line_p + 1
        /\ UNCHANGED <<con, flaw>>
     \/ /\ line_p + 1 \notin Index
        /\ con' = "lost"
        /\ flaw' = flaw \cup {"overflow"}
        /\ UNCHANGED <<line, line_p>>
  /\ UNCHANGED <<typed, uart, cpu, dropped, c, out, ran, sent, noisy>>

ReadAll ==
  /\ con = "drain" /\ intf /\ Served
  /\ q_in = <<>>
  /\ con' = "scan"
  /\ c' = 0
  /\ UNCHANGED <<typed, uart, cpu, q_in, dropped, q_out, outDropped, line, line_p, out, got,
                 ran, flaw, sent, noisy>>

\* What parse_command() reads: the line up to its first terminator.
Ends(i) == line[i] \in {NUL, CR, LF}
FirstEnd(i) == Ends(i) /\ \A j \in 0 .. i - 1 : ~Ends(j)
Parsed == LET n == CHOOSE i \in Index : FirstEnd(i)
          IN  [i \in 1 .. n |-> line[i - 1]]

\* parse_command(): the first space after other bytes, or at the start, ends an
\* argument.  It has no bound: outside tells that it wrote behind a field.
Delimits(l, i) == l[i] = Space /\ (i > 1 => l[i - 1] # Space)
Put(p, b) ==
  IF p.args_count < MAX_COMMAND_ARGS_COUNT /\ p.q < MAX_ARG_LEN
  THEN [p EXCEPT !.args[p.args_count][p.q] = b, !.q = @ + 1]
  ELSE [p EXCEPT !.outside = TRUE]
parse_command(l) ==
  LET after[i \in 0 .. Len(l)] ==
        IF i = 0
        THEN [args |-> [k \in 0 .. MAX_COMMAND_ARGS_COUNT - 1 |-> [j \in 0 .. MAX_ARG_LEN - 1 |-> NUL]],
              args_count |-> 0, q |-> 0, outside |-> FALSE]
        ELSE LET p == after[i - 1] IN
             IF Delimits(l, i) THEN [Put(p, NUL) EXCEPT !.args_count = @ + 1, !.q = 0]
             ELSE IF l[i] = Space THEN p ELSE Put(p, l[i])
  IN  after[Len(l)]

\* The arguments of p that lie in the table; the last one may have no end.
Fields(p)   == {k \in 0 .. p.args_count : k < MAX_COMMAND_ARGS_COUNT}
Overruns(p) == p.outside \/ \E k \in Fields(p) : \A j \in DOMAIN p.args[k] : p.args[k][j] # NUL

\* What runs the line.
RunsAtLF(k) == k = LF                                              \* mutant
RunsAt(k) == k = CR

\* console_clear_line(), as far as the line goes.
ClearedPointer(l) == l                                             \* mutant
Cleared(l) == [l EXCEPT ![0] = NUL]

\* The for loop of console_run(): a line that ends is run and cleared, and the
\* loop goes on behind it.  Bytes that were read with it are out of reach then.
\* What happens when the arguments overrun their fields is not modelled.
Scan ==
  /\ con = "scan" /\ intf /\ Served
  /\ line[c] # NUL
  /\ c' = c + 1
  /\ \/ /\ RunsAt(line[c]) /\ ~Overruns(parse_command(Parsed))
        /\ ran' = Append(ran, Parsed)
        /\ putstr(<<"newline", "answer", "prompt">>)
        /\ line' = Cleared(line)
        /\ line_p' = 0
        /\ flaw' = flaw \cup (IF line[c + 1] # NUL THEN {"ahead"} ELSE {})
                        \cup (IF Len(Parsed) < c THEN {"linefeed"} ELSE {})
        /\ UNCHANGED con
     \/ /\ RunsAt(line[c]) /\ Overruns(parse_command(Parsed))
        /\ con' = "lost"
        /\ putstr(<<"newline">>)
        /\ flaw' = flaw \cup {"args"}
        /\ UNCHANGED <<ran, line, line_p>>
     \/ /\ ~RunsAt(line[c])
        /\ UNCHANGED <<con, ran, q_out, outDropped, line, line_p, flaw>>
  /\ UNCHANGED <<typed, uart, cpu, q_in, dropped, out, got, sent, noisy>>

ScanEnds ==
  /\ con = "scan" /\ intf /\ Served
  /\ line[c] = NUL
  /\ con' = "flush"
  /\ c' = 0
  /\ UNCHANGED <<typed, uart, cpu, q_in, dropped, q_out, outDropped, line, line_p, out, got,
                 ran, flaw, sent, noisy>>

\* serial_flush_buffer(): the next byte, with interrupts off until it is out.
Flush ==
  /\ con = "flush" /\ intf /\ Served
  /\ q_out # <<>>
  /\ out' = Head(q_out)
  /\ q_out' = Tail(q_out)
  /\ printer' = "console" /\ intf' = FALSE
  /\ UNCHANGED <<typed, uart, left, q_in, dropped, con, line, line_p, c, got, ran, outDropped,
                 flaw, sent, noisy>>

\* console_run() returns, and task_console halts until the next interrupt.
FlushEnds ==
  /\ con = "flush" /\ intf /\ Served
  /\ q_out = <<>>
  /\ con' = "hlt"
  /\ UNCHANGED <<typed, uart, cpu, q_in, dropped, q_out, outDropped, line, line_p, c, out, got,
                 ran, flaw, sent, noisy>>

console_run == Read \/ ReadAll \/ Scan \/ ScanEnds \/ Flush \/ FlushEnds

Next == \/ CharTime \/ int_handler_serial \/ Tick
        \/ OtherPrints \/ PutOther \/ PutConsole
        \/ console_run

Spec == Init /\ [][Next]_vars

\* The line and the interrupts go on, serial_putc() goes on when it may, and
\* the scheduler gives task_console a turn again and again, whatever the
\* other tasks print in theirs.
FairSpec ==
  /\ Spec
  /\ WF_vars(CharTime /\ thr # Nothing) /\ WF_vars(int_handler_serial)
  /\ WF_vars(PutOther) /\ WF_vars(PutConsole)
  /\ SF_vars(Tick) /\ SF_vars(console_run)

-----------------------------------------------------------------------------
TypeOK ==
  /\ typed \in Seq(Keys) /\ got \in Seq(Keys) /\ q_in \in Seq(Keys)
  /\ Len(q_in) <= InSize /\ Len(q_out) <= OutSize
  /\ rbr \in Keys \cup {Nothing}
  /\ thr \in {"full", Nothing}
  /\ intf \in BOOLEAN /\ noisy \in BOOLEAN /\ outDropped \in BOOLEAN
  /\ printer \in {"nobody", "task", "handler", "console"}
  /\ left \in Nat /\ dropped \in Nat
  /\ q_out \in Seq(Token) /\ sent \in Seq(Token) /\ out \in Token \cup {Nothing}
  /\ con \in {"hlt", "drain", "scan", "flush", "lost"}
  /\ line \in [Index -> Keys \cup {NUL}] /\ line_p \in Index /\ c \in Index
  /\ ran \in Seq(Seq(Keys))
  /\ flaw \subseteq {"overflow", "args", "ahead", "linefeed"}

(***************************************************************************)
(* The UART has one receive register and no FIFO, and serial_putc waits    *)
(* with interrupts off; still every byte typed was read, waits, or was     *)
(* counted as dropped, and in order, unless a string was printed inside a  *)
(* handler.                                                                *)
(***************************************************************************)
Waiting == q_in \o (IF rbr = Nothing THEN <<>> ELSE <<rbr>>)

Accounted ==
  ~noisy => /\ Len(typed) = Len(got) + Len(Waiting) + dropped
            /\ dropped = 0 => typed = got \o Waiting

(***************************************************************************)
(* What the keys come to: the lines they end, the line they leave open,    *)
(* and what the terminal shows of them, behind each line its answer and a  *)
(* new prompt.  Session(s)[n] is what the first n keys of s come to.       *)
(***************************************************************************)
Prompted == [done |-> <<>>, open |-> <<>>, shown |-> <<"prompt">>]
Reply    == <<"newline", "answer", "prompt">>
Key(l, k) ==
  IF k = CR THEN [done |-> Append(l.done, l.open), open |-> <<>>, shown |-> l.shown \o Reply]
  ELSE [done |-> l.done, open |-> Append(l.open, k),
        shown |-> l.shown \o (IF k = LF THEN <<>> ELSE <<k>>)]

Session(s) ==
  LET l[n \in 0 .. Len(s)] == IF n = 0 THEN Prompted ELSE Key(l[n - 1], s[n])
  IN  l

Lines(s)    == Session(s)[Len(s)].done
Dialogue(s) == Session(s)[Len(s)].shown

(***************************************************************************)
(* Every line read is run, once, in order and whole, however its bytes     *)
(* were spread over calls of console_run: as long as no byte came in with  *)
(* the carriage return before it, lines end in a carriage return alone,    *)
(* they fit line[], and their arguments fit the fields of args[].          *)
(***************************************************************************)
LinesRun ==
  flaw = {} => /\ Seqs!IsPrefix(ran, Lines(got))
               /\ con \in {"flush", "hlt"} => ran = Lines(got)

(***************************************************************************)
(* What the terminal shows of the console is the dialogue: each key once,  *)
(* and behind each line its answer and a new prompt, in that order, as     *)
(* long as the output ring had room.  Other tasks' characters may come in  *)
(* between, but none of the console's is lost or overtaken.                *)
(***************************************************************************)
Transcript ==
  flaw = {} /\ ~outDropped => /\ Seqs!IsPrefix(sent, Dialogue(got))
                              /\ con = "hlt" /\ got # <<>> => sent = Dialogue(got)

(***************************************************************************)
(* Every line the user ends is answered: its prompt comes out in the end,  *)
(* although task_console halts before it looks at the ring, and a byte     *)
(* that came in before the hlt wakes it only with the next tick.           *)
(***************************************************************************)
Prompts == Len(SelectSeq(sent, LAMBDA t : t = "prompt"))
Excused == noisy \/ dropped > 0 \/ outDropped \/ flaw # {}

Answered ==
  \A n \in 1 .. MaxTyped : Len(Lines(typed)) >= n ~> Excused \/ Prompts > n
=============================================================================
