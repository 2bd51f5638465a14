--------------------------- MODULE Console_proofs ---------------------------
(***************************************************************************)
(* Proofs about Console, for any letters, sizes of the line and the rings, *)
(* and any number of keys.                                                 *)
(***************************************************************************)
EXTENDS Console, SequenceTheorems, WellFoundedInduction, TLAPS

\* Interrupts are off exactly while somebody is inside serial_putc, and only
\* the handler prints more than one character.
Exclusion ==
  /\ intf <=> printer = "nobody"
  /\ printer # "nobody" => left \in Nat
  /\ printer \in {"task", "handler"} => left > 0
  /\ printer = "task" => left = 1
  /\ printer = "handler" => noisy
  /\ printer = "console" <=> out # Nothing

\* Behind every byte of the line there is a terminator.
Terminated ==
  /\ line[line_p] = NUL
  /\ \E i \in Index : FirstEnd(i)
  /\ con = "scan" => \E i \in Index : c <= i /\ line[i] = NUL

\* While the transmitter is waited for, the receive register is empty.
Listening == ~noisy /\ ~intf /\ thr # Nothing => rbr = Nothing

CInv == TypeOK /\ Exclusion /\ Terminated /\ Listening /\ Accounted

LEMMA Facts ==
  /\ Nothing \notin Keys /\ NUL \notin Keys /\ Nothing \notin Token
  /\ CR \in Keys /\ LF \in Keys /\ Letters \subseteq Keys /\ Letters \subseteq Token
  /\ 0 \in Index /\ Index \subseteq Nat
  /\ \A k \in Keys : k \notin {CR, LF} => k \in Letters
  /\ InSize \in Nat /\ OutSize \in Nat /\ MsgLen \in Nat
BY ConsoleAssumption DEF Nothing, Keys, Token, NUL, CR, LF, Index

LEMMA IndexDown == \A i \in Index : \A j \in 0 .. i : j \in Index
BY ConsoleAssumption DEF Index

LEMMA InitCInv == Init => CInv
<1> SUFFICES ASSUME Init PROVE CInv
  OBVIOUS
<1> USE Facts
<1>1. q_out \in Seq(Token) /\ Len(q_out) <= OutSize
  <2>1. "prompt" \in Token
    BY DEF Token
  <2>2. CASE OutSize > 0
    <3>1. q_out = <<"prompt">>
      BY <2>2 DEF Init
    <3> QED
      BY <2>1, <2>2, <3>1
  <2>3. CASE ~(OutSize > 0)
    <3>1. q_out = <<>>
      BY <2>3 DEF Init
    <3> QED
      BY <3>1
  <2> QED
    BY <2>2, <2>3
<1>2. TypeOK
  <2>1. line \in [Index -> Keys \cup {NUL}] /\ line_p \in Index /\ c \in Index
    BY DEF Init
  <2>2. ran \in Seq(Seq(Keys)) /\ sent \in Seq(Token) /\ q_in \in Seq(Keys)
        /\ got \in Seq(Keys) /\ typed \in Seq(Keys) /\ Len(q_in) <= InSize
    BY DEF Init
  <2>3. outDropped \in BOOLEAN /\ intf \in BOOLEAN /\ noisy \in BOOLEAN
    BY DEF Init
  <2> QED
    BY <1>1, <2>1, <2>2, <2>3 DEF Init, TypeOK
<1>3. Exclusion /\ Terminated /\ Listening
  BY DEF Init, Exclusion, Terminated, Listening, FirstEnd, Ends
<1>4. Accounted
  <2>1. Waiting = <<>> /\ typed = <<>> /\ got = <<>> /\ dropped = 0
    BY DEF Init, Waiting
  <2>2. got \o Waiting = <<>>
    BY <2>1
  <2> QED
    BY <2>1, <2>2 DEF Accounted
<1> QED
  BY <1>2, <1>3, <1>4 DEF CInv

-----------------------------------------------------------------------------
\* What the ring takes of a string.
LEMMA PutstrType ==
  ASSUME q_out \in Seq(Token), Len(q_out) <= OutSize, outDropped \in BOOLEAN,
         NEW s \in Seq(Token), putstr(s)
  PROVE  q_out' \in Seq(Token) /\ Len(q_out') <= OutSize /\ outDropped' \in BOOLEAN
<1> USE Facts
<1> DEFINE n == IF Len(q_out) + Len(s) <= OutSize THEN Len(s)
                ELSE IF Len(q_out) <= OutSize THEN OutSize - Len(q_out) ELSE 0
<1>1. /\ n \in 0 .. Len(s) /\ Len(q_out) + n <= OutSize
      /\ Len(q_out) \in Nat /\ Len(s) \in Nat
  OBVIOUS
<1>2. SubSeq(s, 1, n) \in Seq(Token) /\ Len(SubSeq(s, 1, n)) = n
  BY <1>1
<1>3. q_out' = q_out \o SubSeq(s, 1, n) /\ outDropped' = (outDropped \/ n < Len(s))
  BY DEF putstr
<1> HIDE DEF n
<1> QED
  BY <1>1, <1>2, <1>3

\* A command is a sequence of bytes, the line up to its first terminator.
LEMMA ParsedType ==
  ASSUME TypeOK, Terminated
  PROVE  Parsed \in Seq(Keys)
<1> USE Facts
<1> DEFINE n == CHOOSE i \in Index : FirstEnd(i)
<1>1. n \in Index /\ FirstEnd(n)
  BY DEF Terminated
<1>2. \A i \in 1 .. n : line[i - 1] \in Keys
  <2> SUFFICES ASSUME NEW i \in 1 .. n PROVE line[i - 1] \in Keys
    OBVIOUS
  <2>1. n \in Nat /\ i - 1 \in 0 .. n - 1 /\ i - 1 \in Index
    <3> HIDE DEF n
    <3> QED
      BY <1>1, ConsoleAssumption DEF Index
  <2>2. ~Ends(i - 1)
    BY <1>1, <2>1 DEF FirstEnd
  <2> QED
    BY <2>1, <2>2 DEF Ends, TypeOK
<1>3. Parsed = [i \in 1 .. n |-> line[i - 1]]
  BY DEF Parsed
<1> HIDE DEF n
<1> QED
  BY <1>1, <1>2, <1>3

-----------------------------------------------------------------------------
\* What waits, and how it changes.
LEMMA WaitingType ==
  ASSUME TypeOK
  PROVE  Waiting \in Seq(Keys) /\ Len(Waiting) = Len(q_in) + (IF rbr = Nothing THEN 0 ELSE 1)
<1> USE Facts
<1>1. CASE rbr = Nothing
  <2>1. Waiting = q_in
    BY <1>1, ConcatEmptySeq DEF Waiting, TypeOK
  <2> QED
    BY <2>1, <1>1 DEF TypeOK
<1>2. CASE rbr # Nothing
  <2>1. Waiting = Append(q_in, rbr)
    BY <1>2, AppendIsConcat DEF Waiting, TypeOK
  <2> QED
    BY <2>1, <1>2 DEF TypeOK
<1> QED
  BY <1>1, <1>2

LEMMA CharTimeKeeps ==
  ASSUME CInv, CharTime
  PROVE  CInv'
<1> USE Facts
<1>1. /\ thr' = Nothing
      /\ UNCHANGED <<cpu, q_in, dropped, console, sent, noisy>>
  BY DEF CharTime
<1>2. CASE UNCHANGED <<typed, rbr>>
  <2>1. TypeOK'
    BY <1>1, <1>2 DEF CInv, TypeOK, cpu, console
  <2>2. Exclusion' /\ Terminated'
    BY <1>1, <1>2 DEF CInv, Exclusion, Terminated, FirstEnd, Ends, cpu, console
  <2>3. Listening' /\ Accounted'
    BY <1>1, <1>2 DEF CInv, Listening, Accounted, Waiting, cpu, console
  <2> QED
    BY <2>1, <2>2, <2>3 DEF CInv
<1>3. ASSUME NEW k \in Keys, typed' = Append(typed, k), rbr' = k
      PROVE  CInv'
  <2>1. TypeOK'
    BY <1>1, <1>3 DEF CInv, TypeOK, cpu, console
  <2>2. Exclusion' /\ Terminated' /\ Listening'
    BY <1>1, <1>3 DEF CInv, Exclusion, Terminated, FirstEnd, Ends, Listening, cpu, console
  <2>3. Accounted'
    <3> SUFFICES ASSUME ~noisy'
                 PROVE  /\ Len(typed') = Len(got') + Len(Waiting') + dropped'
                        /\ dropped' = 0 => typed' = got' \o Waiting'
      BY DEF Accounted
    <3>1. ~noisy /\ rbr = Nothing
      BY <1>1 DEF CharTime, Served, CInv, Exclusion, Listening
    <3>2. /\ Waiting = q_in
          /\ Waiting' = Append(q_in, k)
      BY <3>1, <1>1, <1>3, ConcatEmptySeq, AppendIsConcat DEF Waiting, CInv, TypeOK
    <3>3. /\ Len(typed) = Len(got) + Len(q_in) + dropped
          /\ dropped = 0 => typed = got \o q_in
      BY <3>1, <3>2 DEF CInv, Accounted
    <3>4. Append(got \o q_in, k) = got \o Append(q_in, k)
      <4>1. got \in Seq(Keys) /\ q_in \in Seq(Keys) /\ <<k>> \in Seq(Keys)
        BY DEF CInv, TypeOK
      <4>2. got \o q_in \in Seq(Keys)
        BY <4>1
      <4>3. (got \o q_in) \o <<k>> = got \o (q_in \o <<k>>)
        BY <4>1, ConcatAssociative
      <4> QED
        BY <4>1, <4>2, <4>3, AppendIsConcat
    <3>5. got' = got /\ dropped' = dropped
      BY <1>1 DEF console
    <3>6. /\ Len(typed') = Len(typed) + 1 /\ Len(Append(q_in, k)) = Len(q_in) + 1
          /\ Len(typed) \in Nat /\ Len(got) \in Nat /\ Len(q_in) \in Nat /\ dropped \in Nat
      BY <1>3 DEF CInv, TypeOK
    <3>7. Len(typed') = Len(got') + Len(Waiting') + dropped'
      BY <3>2, <3>3, <3>5, <3>6
    <3>8. dropped' = 0 => typed' = got' \o Waiting'
      BY <3>2, <3>3, <3>4, <3>5, <1>3
    <3> QED
      BY <3>7, <3>8
  <2> QED
    BY <2>1, <2>2, <2>3 DEF CInv
<1> QED
  BY <1>2, <1>3 DEF CharTime

LEMMA HandlerKeeps ==
  ASSUME CInv, int_handler_serial
  PROVE  CInv'
<1> USE Facts
<1>1. /\ rbr' = Nothing /\ con' = Woken /\ rbr \in Keys
      /\ UNCHANGED <<typed, thr, intf, printer, left, q_out, outDropped, line, line_p, c, out,
                     got, ran, flaw, sent, noisy>>
  BY DEF int_handler_serial, CInv, TypeOK, cpu
<1>2. \/ q_in' = Append(q_in, rbr) /\ dropped' = dropped /\ Len(q_in) < InSize
      \/ q_in' = q_in /\ dropped' = dropped + 1
  BY DEF int_handler_serial, Room
<1>3. q_in' \in Seq(Keys) /\ Len(q_in') <= InSize /\ dropped' \in Nat
  <2>1. CASE q_in' = Append(q_in, rbr) /\ dropped' = dropped /\ Len(q_in) < InSize
    <3>1. q_in' \in Seq(Keys) /\ Len(q_in') = Len(q_in) + 1 /\ Len(q_in) \in Nat
      BY <1>1, <2>1 DEF CInv, TypeOK
    <3> QED
      BY <2>1, <3>1 DEF CInv, TypeOK
  <2>2. CASE q_in' = q_in /\ dropped' = dropped + 1
    BY <2>2 DEF CInv, TypeOK
  <2> QED
    BY <1>2, <2>1, <2>2
<1>4. TypeOK'
  BY <1>1, <1>3 DEF CInv, TypeOK, Woken
<1>5. Exclusion' /\ Terminated' /\ Listening'
  BY <1>1 DEF CInv, Exclusion, Terminated, FirstEnd, Ends, Listening, Woken
<1>6. Accounted'
  <2>1. Waiting = Append(q_in, rbr) /\ Waiting' = q_in'
    BY <1>1, <1>3, ConcatEmptySeq, AppendIsConcat DEF Waiting, CInv, TypeOK
  <2>2. CASE q_in' = Append(q_in, rbr) /\ dropped' = dropped
    BY <1>1, <2>1, <2>2 DEF Accounted, CInv
  <2>3. CASE q_in' = q_in /\ dropped' = dropped + 1
    <3>1. /\ Len(Waiting) = Len(Waiting') + 1 /\ Len(Waiting') \in Nat
          /\ Len(got) \in Nat /\ dropped \in Nat /\ Len(typed) \in Nat
      BY <1>1, <2>1, <2>3 DEF CInv, TypeOK
    <3>2. ~noisy => Len(typed) = Len(got) + Len(Waiting) + dropped
      BY DEF CInv, Accounted
    <3>3. dropped' # 0 /\ (~noisy => Len(typed) = Len(got) + Len(Waiting') + dropped')
      BY <3>1, <3>2, <2>3
    <3> QED
      BY <3>3, <1>1 DEF Accounted
  <2> QED
    BY <1>2, <2>2, <2>3
<1> QED
  BY <1>4, <1>5, <1>6 DEF CInv

LEMMA TickKeeps ==
  ASSUME CInv, Tick
  PROVE  CInv'
BY DEF Tick, Woken, CInv, TypeOK, Exclusion, Terminated, FirstEnd, Ends, Listening, Accounted,
   Waiting, uart, cpu

-----------------------------------------------------------------------------
\* The steps of serial_putc.
LEMMA PutsKeep ==
  ASSUME CInv, OtherPrints \/ PutOther \/ PutConsole
  PROVE  CInv'
<1> USE Facts
<1>1. UNCHANGED <<typed, rbr, q_in, dropped, con, line, line_p, c, got, ran, q_out, outDropped, flaw>>
  BY DEF OtherPrints, PutOther, PutConsole, console, uart
<1>2. Terminated' /\ Waiting' = Waiting
  BY <1>1 DEF CInv, Terminated, FirstEnd, Ends, Waiting
<1>3. noisy => noisy'
  BY DEF OtherPrints, PutOther, PutConsole
<1>4. Accounted'
  BY <1>1, <1>2, <1>3 DEF CInv, Accounted
<1>5. CASE OtherPrints
  <2>1. TypeOK'
    <3>1. left' \in Nat /\ printer' \in {"task", "handler"}
      BY <1>5 DEF OtherPrints
    <3>2. noisy' \in BOOLEAN /\ intf' = FALSE
      BY <1>5 DEF OtherPrints, CInv, TypeOK
    <3>3. UNCHANGED <<thr, sent, out>>
      BY <1>5 DEF OtherPrints, uart, console
    <3> QED
      BY <1>1, <3>1, <3>2, <3>3 DEF CInv, TypeOK
  <2>2. Exclusion'
    BY <1>5 DEF OtherPrints, CInv, TypeOK, Exclusion, uart, console
  <2>3. Listening'
    BY <1>5 DEF OtherPrints, CInv, Listening, Served, uart
  <2> QED
    BY <1>2, <1>4, <2>1, <2>2, <2>3 DEF CInv
<1>6. CASE PutOther
  <2>1. TypeOK'
    BY <1>1, <1>6 DEF PutOther, CInv, TypeOK, Exclusion, FlagFound, console
  <2>2. Exclusion'
    <3>1. CASE printer = "task"
      <4>1. printer' = "nobody" /\ intf' /\ out' = out
        BY <1>6, <3>1 DEF PutOther, CInv, Exclusion, FlagFound, console
      <4> QED
        BY <3>1, <4>1 DEF CInv, Exclusion
    <3>2. CASE printer = "handler"
      <4>1. left \in Nat /\ left > 0 /\ noisy' /\ out' = out /\ out = Nothing
        BY <1>6, <3>2 DEF PutOther, CInv, TypeOK, Exclusion, console
      <4>2. CASE left = 1
        BY <1>6, <3>2, <4>1, <4>2 DEF PutOther, Exclusion
      <4>3. CASE left # 1
        <5>1. printer' = "handler" /\ left' = left - 1 /\ intf' = FALSE
          BY <1>6, <3>2, <4>3 DEF PutOther, FlagFound
        <5>2. left' \in Nat /\ left' > 0
          BY <4>1, <4>3, <5>1
        <5> QED
          BY <4>1, <5>1, <5>2 DEF Exclusion
      <4> QED
        BY <4>2, <4>3
    <3> QED
      BY <1>6, <3>1, <3>2 DEF PutOther
  <2>3. Listening'
    BY <1>6 DEF PutOther, CInv, TypeOK, Exclusion, Listening, FlagFound
  <2> QED
    BY <1>2, <1>4, <2>1, <2>2, <2>3 DEF CInv
<1>7. CASE PutConsole
  <2>1. TypeOK'
    BY <1>7 DEF PutConsole, CInv, TypeOK, Exclusion, FlagFound
  <2>2. Exclusion' /\ Listening'
    BY <1>7 DEF PutConsole, CInv, TypeOK, Exclusion, Listening, FlagFound
  <2> QED
    BY <1>2, <1>4, <2>1, <2>2 DEF CInv
<1> QED
  BY <1>5, <1>6, <1>7

-----------------------------------------------------------------------------
\* A byte stored at the end of the line leaves the line terminated.
LEMMA StoredTerminated ==
  ASSUME TypeOK, Terminated, NEW k \in Keys, line_p + 1 \in Index,
         line' = [line EXCEPT ![line_p] = k, ![line_p + 1] = NUL], line_p' = line_p + 1
  PROVE  line'[line_p'] = NUL /\ \E i \in Index : FirstEnd(i)'
<1>0. PICK p \in Index : p = line_p
  BY DEF TypeOK
<1>1. PICK f \in Index : FirstEnd(f)
  BY DEF Terminated
<1>2. p \in Nat /\ f \in Nat /\ line[p] = NUL /\ line \in [Index -> Keys \cup {NUL}]
  BY <1>0, Facts DEF TypeOK, Terminated
<1>3. Ends(p) /\ ~(p \in 0 .. f - 1)
  BY <1>1, <1>2 DEF FirstEnd, Ends
<1>4. f <= p
  BY <1>2, <1>3
<1>5. /\ line'[p + 1] = NUL /\ line'[p] = k
      /\ \A i \in Index : i < p => line'[i] = line[i]
  <2>1. line'[p + 1] = NUL
    BY <1>0, <1>2
  <2>2. line'[p] = k
    BY <1>0, <1>2
  <2>3. \A i \in Index : i < p => line'[i] = line[i]
    BY <1>0, <1>2
  <2> QED
    BY <2>1, <2>2, <2>3
<1>6. \A j \in 0 .. f - 1 : j \in Index /\ j < p
  BY <1>2, <1>4, IndexDown
<1>7. \A j \in 0 .. f - 1 : ~Ends(j)'
  BY <1>1, <1>5, <1>6 DEF FirstEnd, Ends
<1>8. CASE Ends(f)'
  <2>1. FirstEnd(f)'
    BY <1>7, <1>8 DEF FirstEnd
  <2> QED
    BY <2>1, <1>0, <1>5
<1>9. CASE ~Ends(f)'
  <2>1. f = p
    <3>1. CASE f < p
      BY <1>1, <1>5, <1>9, <3>1 DEF FirstEnd, Ends
    <3> QED
      BY <3>1, <1>2, <1>4
  <2>2. \A j \in 0 .. (p + 1) - 1 : j = f \/ j \in 0 .. f - 1
    BY <2>1, <1>2
  <2>3. Ends(p + 1)' /\ \A j \in 0 .. (p + 1) - 1 : ~Ends(j)'
    <3>1. (line'[p + 1] \in {NUL, CR, LF}) /\ \A j \in 0 .. (p + 1) - 1 : ~(line'[j] \in {NUL, CR, LF})
      BY <1>5, <1>7, <1>9, <2>2 DEF Ends
    <3> QED
      BY <3>1 DEF Ends
  <2>4. FirstEnd(p + 1)'
    BY <2>3 DEF FirstEnd
  <2> QED
    BY <2>4, <1>0, <1>5
<1> QED
  BY <1>8, <1>9

LEMMA ReadKeeps ==
  ASSUME CInv, Read
  PROVE  CInv'
<1> USE Facts
<1> DEFINE k == Head(q_in)
<1>1. /\ q_in # <<>> /\ con = "drain" /\ intf /\ rbr = Nothing
      /\ q_in' = Tail(q_in) /\ got' = Append(got, k)
      /\ UNCHANGED <<typed, rbr, thr, intf, printer, left, dropped, c, out, ran, sent, noisy>>
  BY DEF Read, Served, uart, cpu
<1>2. k \in Keys /\ q_in' \in Seq(Keys) /\ got' \in Seq(Keys) /\ Len(q_in') <= InSize
  BY <1>1 DEF CInv, TypeOK
<1>3. Echo(k) \in Seq(Token)
  BY <1>2 DEF Echo
<1>4. q_out' \in Seq(Token) /\ Len(q_out') <= OutSize /\ outDropped' \in BOOLEAN
  BY <1>3, PutstrType DEF Read, CInv, TypeOK
<1>5. /\ line' \in [Index -> Keys \cup {NUL}] /\ line_p' \in Index
      /\ con' \in {"drain", "lost"} /\ flaw' \subseteq {"overflow", "args", "ahead", "linefeed"}
      /\ line'[line_p'] = NUL /\ \E i \in Index : FirstEnd(i)'
  <2>1. CASE line_p + 1 \in Index /\ line_p' = line_p + 1 /\ con' = con /\ flaw' = flaw
             /\ line' = [line EXCEPT ![line_p] = k, ![line_p + 1] = NUL]
    BY <2>1, <1>1, <1>2, StoredTerminated DEF CInv, TypeOK
  <2>2. CASE line' = line /\ line_p' = line_p /\ con' = "lost"
             /\ flaw' = flaw \cup {"overflow"}
    BY <2>2 DEF CInv, TypeOK, Terminated, FirstEnd, Ends
  <2> QED
    BY <2>1, <2>2 DEF Read
<1>6. TypeOK'
  BY <1>1, <1>2, <1>4, <1>5 DEF CInv, TypeOK
<1>7. Exclusion' /\ Listening' /\ Terminated'
  BY <1>1, <1>5 DEF CInv, Exclusion, Listening, Terminated
<1>8. Accounted'
  <2>1. Waiting = q_in /\ Waiting' = q_in'
    BY <1>1, <1>2, ConcatEmptySeq DEF Waiting, CInv, TypeOK
  <2>2. q_in = <<k>> \o q_in'
    BY <1>1, <1>2 DEF CInv, TypeOK
  <2>3. got \o q_in = got' \o q_in'
    <3>1. got \in Seq(Keys) /\ <<k>> \in Seq(Keys) /\ q_in' \in Seq(Keys)
      BY <1>2 DEF CInv, TypeOK
    <3>2. (got \o <<k>>) \o q_in' = got \o (<<k>> \o q_in')
      BY <3>1, ConcatAssociative
    <3>3. got' = got \o <<k>>
      BY <1>1, <1>2, <3>1, AppendIsConcat
    <3> QED
      BY <2>2, <3>2, <3>3
  <2>4. Len(q_in) = Len(q_in') + 1 /\ Len(got') = Len(got) + 1
    BY <1>1, <1>2 DEF CInv, TypeOK
  <2>5. /\ Len(got) \in Nat /\ Len(q_in') \in Nat /\ dropped \in Nat
        /\ dropped' = dropped /\ typed' = typed /\ noisy' = noisy
    BY <1>1, <1>2 DEF CInv, TypeOK
  <2>6. ~noisy => Len(typed) = Len(got') + Len(Waiting') + dropped
    BY <2>1, <2>4, <2>5 DEF CInv, Accounted
  <2>7. ~noisy /\ dropped = 0 => typed = got' \o Waiting'
    BY <2>1, <2>3 DEF CInv, Accounted
  <2> QED
    BY <2>5, <2>6, <2>7 DEF Accounted
<1> QED
  BY <1>6, <1>7, <1>8 DEF CInv

LEMMA ScanKeeps ==
  ASSUME CInv, Scan
  PROVE  CInv'
<1> USE Facts
<1>1. /\ con = "scan" /\ line[c] # NUL /\ c' = c + 1 /\ con' \in {con, "lost"}
      /\ UNCHANGED <<typed, rbr, thr, intf, printer, left, q_in, dropped, out, got, sent, noisy>>
  BY DEF Scan, uart, cpu
<1>2. PICK e \in Index : c < e /\ line[e] = NUL
  <2>1. PICK i \in Index : c <= i /\ line[i] = NUL
    BY <1>1 DEF CInv, Terminated
  <2>2. c # i
    BY <1>1, <2>1
  <2> QED
    BY <2>1, <2>2 DEF CInv, TypeOK
<1>3. c' \in Index
  <2>1. c \in Nat /\ e \in Nat /\ c + 1 \in 0 .. e
    BY <1>2 DEF CInv, TypeOK
  <2> QED
    BY <1>1, <2>1, IndexDown
<1>4. Accounted' /\ Exclusion' /\ Listening'
  BY <1>1 DEF CInv, Accounted, Waiting, Exclusion, Listening
<1>5. CASE UNCHANGED <<con, ran, q_out, outDropped, line, line_p, flaw>>
  <2>1. TypeOK'
    BY <1>1, <1>3, <1>5 DEF CInv, TypeOK
  <2>2. Terminated'
    BY <1>1, <1>2, <1>5 DEF CInv, TypeOK, Terminated, FirstEnd, Ends
  <2> QED
    BY <1>4, <2>1, <2>2 DEF CInv
<1>6. ASSUME RunsAt(line[c]), ran' = Append(ran, Parsed),
             putstr(<<"newline", "answer", "prompt">>),
             line' = Cleared(line), line_p' = 0,
             flaw' = flaw \cup (IF line[c + 1] # NUL THEN {"ahead"} ELSE {})
                          \cup (IF Len(Parsed) < c THEN {"linefeed"} ELSE {}),
             UNCHANGED con
      PROVE  CInv'
  <2>1. ran' \in Seq(Seq(Keys))
    BY <1>6, ParsedType DEF CInv, TypeOK
  <2>2. <<"newline", "answer", "prompt">> \in Seq(Token)
    BY DEF Token
  <2>3. q_out' \in Seq(Token) /\ Len(q_out') <= OutSize /\ outDropped' \in BOOLEAN
    BY <1>6, <2>2, PutstrType DEF CInv, TypeOK
  <2>4. line' = [line EXCEPT ![0] = NUL] /\ line' \in [Index -> Keys \cup {NUL}]
    BY <1>6 DEF Cleared, CInv, TypeOK
  <2>5. flaw' \subseteq {"overflow", "args", "ahead", "linefeed"}
    BY <1>6 DEF CInv, TypeOK
  <2>6. TypeOK'
    BY <1>1, <1>3, <1>6, <2>1, <2>3, <2>4, <2>5 DEF CInv, TypeOK
  <2>7. Terminated'
    <3>1. line'[0] = NUL /\ FirstEnd(0)'
      BY <2>4 DEF FirstEnd, Ends, CInv, TypeOK
    <3>2. line'[e] = NUL /\ c' <= e
      BY <1>1, <1>2, <2>4 DEF CInv, TypeOK
    <3> QED
      BY <1>6, <3>1, <3>2 DEF Terminated
  <2> QED
    BY <1>4, <2>6, <2>7 DEF CInv
<1>7. ASSUME con' = "lost", putstr(<<"newline">>), flaw' = flaw \cup {"args"},
             UNCHANGED <<ran, line, line_p>>
      PROVE  CInv'
  <2>1. <<"newline">> \in Seq(Token)
    BY DEF Token
  <2>2. q_out' \in Seq(Token) /\ Len(q_out') <= OutSize /\ outDropped' \in BOOLEAN
    BY <1>7, <2>1, PutstrType DEF CInv, TypeOK
  <2>3. TypeOK'
    BY <1>1, <1>3, <1>7, <2>2 DEF CInv, TypeOK
  <2>4. Terminated'
    BY <1>1, <1>2, <1>7 DEF CInv, TypeOK, Terminated, FirstEnd, Ends
  <2> QED
    BY <1>4, <2>3, <2>4 DEF CInv
<1> QED
  BY <1>5, <1>6, <1>7 DEF Scan

LEMMA OthersKeep ==
  ASSUME CInv, ReadAll \/ ScanEnds \/ Flush \/ FlushEnds
  PROVE  CInv'
<1> USE Facts
<1>1. CASE ReadAll
  <2>1. line_p \in Index /\ 0 <= line_p
    BY DEF CInv, TypeOK
  <2> QED
    BY <1>1, <2>1 DEF ReadAll, CInv, TypeOK, Exclusion, Terminated, FirstEnd, Ends, Listening,
       Accounted, Waiting, uart, cpu
<1>2. CASE ScanEnds
  BY <1>2 DEF ScanEnds, CInv, TypeOK, Exclusion, Terminated, FirstEnd, Ends, Listening,
     Accounted, Waiting, uart, cpu
<1>3. CASE Flush
  <2>1. out' \in Token /\ q_out' \in Seq(Token) /\ Len(q_out') <= OutSize
    BY <1>3 DEF Flush, CInv, TypeOK
  <2>2. TypeOK'
    BY <1>3, <2>1 DEF Flush, CInv, TypeOK, uart
  <2>3. Exclusion'
    BY <1>3, <2>1 DEF Flush, CInv, TypeOK, Exclusion, uart
  <2>4. Terminated' /\ Listening' /\ Accounted'
    BY <1>3 DEF Flush, Served, CInv, Terminated, FirstEnd, Ends, Listening, Accounted, Waiting, uart
  <2> QED
    BY <2>2, <2>3, <2>4 DEF CInv
<1>4. CASE FlushEnds
  BY <1>4 DEF FlushEnds, CInv, TypeOK, Exclusion, Terminated, FirstEnd, Ends, Listening,
     Accounted, Waiting, uart, cpu
<1> QED
  BY <1>1, <1>2, <1>3, <1>4

LEMMA CInvKept ==
  ASSUME CInv, [Next]_vars
  PROVE  CInv'
<1>1. CASE UNCHANGED vars
  <2>1. TypeOK' /\ Exclusion' /\ Listening'
    BY <1>1 DEF vars, CInv, TypeOK, Exclusion, Listening, uart, cpu, console
  <2>2. Terminated' /\ Accounted'
    BY <1>1 DEF vars, CInv, Terminated, FirstEnd, Ends, Accounted, Waiting, uart, console
  <2> QED
    BY <2>1, <2>2 DEF CInv
<1> QED
  BY <1>1, CharTimeKeeps, HandlerKeeps, TickKeeps, PutsKeep, ReadKeeps, ScanKeeps,
     OthersKeep DEF Next, console_run

(***************************************************************************)
(* Every state is well typed: the line is always terminated and scanned    *)
(* inside its buffer; and every byte typed was read, waits or was counted  *)
(* as dropped, in order, until a string is printed inside a handler.       *)
(***************************************************************************)
THEOREM ConsoleSafe == Spec => [](TypeOK /\ Accounted)
<1>1. CInv => TypeOK /\ Accounted
  BY DEF CInv
<1> QED
  BY <1>1, InitCInv, CInvKept, PTL DEF Spec

-----------------------------------------------------------------------------
\* Induction over the natural numbers, for sets.
LEMMA Least ==
  ASSUME NEW T, T \subseteq Nat, T # {}
  PROVE  \E n \in T : \A m \in T : n <= m
<1> DEFINE R == {p \in Nat \X Nat : p[1] < p[2]}
<1>1. R = OpToRel(<, Nat)
  BY DEF OpToRel
<1>2. IsWellFoundedOn(R, Nat)
  BY <1>1, NatLessThanWellFounded
<1>3. \A m, n \in Nat : <<m, n>> \in R <=> m < n
  OBVIOUS
<1> HIDE DEF R
<1>4. PICK n \in T : \A m \in T : ~(<<m, n>> \in R)
  BY <1>2, WFMin
<1>5. ASSUME NEW m \in T PROVE n <= m
  <2>1. m \in Nat /\ n \in Nat /\ ~(m < n)
    BY <1>3, <1>4
  <2> QED
    BY <2>1
<1> QED
  BY <1>5

LEMMA Up ==
  ASSUME NEW S, 0 \in S, \A n \in Nat : n \in S => n + 1 \in S
  PROVE  Nat \subseteq S
<1> DEFINE T == {n \in Nat : n \notin S}
<1> SUFFICES ASSUME T # {} PROVE FALSE
  OBVIOUS
<1>1. PICK n \in T : \A m \in T : n <= m
  <2>1. T \subseteq Nat
    OBVIOUS
  <2> HIDE DEF T
  <2> QED
    BY <2>1, Least
<1>2. n # 0 /\ n \in Nat
  BY <1>1
<1>3. n - 1 \in Nat /\ n - 1 \notin T
  BY <1>1, <1>2
<1> QED
  BY <1>1, <1>2, <1>3

-----------------------------------------------------------------------------
\* What a session computes: the recursion has its solution, ...
Solves(l, s, m) ==
  l = [n \in 0 .. m |-> IF n = 0 THEN Prompted ELSE Key(l[n - 1], s[n])]

LEMMA Solution ==
  ASSUME NEW s, Len(s) \in Nat
  PROVE  Solves(Session(s), s, Len(s))
<1> DEFINE S == {m \in Nat : \E l : Solves(l, s, m)}
<1>1. Nat \subseteq S
  <2>1. 0 \in S
    <3>1. Solves([n \in 0 .. 0 |-> Prompted], s, 0)
      BY DEF Solves
    <3> QED
      BY <3>1
  <2>2. ASSUME NEW m \in Nat, m \in S PROVE m + 1 \in S
    <3>1. PICK l : Solves(l, s, m)
      BY <2>2
    <3> DEFINE g == [n \in 0 .. m + 1 |-> IF n <= m THEN l[n] ELSE Key(l[m], s[m + 1])]
    <3>2. \A n \in 0 .. m + 1 : g[n] = IF n = 0 THEN Prompted ELSE Key(g[n - 1], s[n])
      <4> SUFFICES ASSUME NEW n \in 0 .. m + 1
                   PROVE  g[n] = IF n = 0 THEN Prompted ELSE Key(g[n - 1], s[n])
        OBVIOUS
      <4>1. CASE n = 0
        BY <3>1, <4>1 DEF Solves
      <4>2. CASE n \in 1 .. m
        BY <3>1, <4>2 DEF Solves
      <4>3. CASE n = m + 1
        BY <4>3
      <4> QED
        BY <4>1, <4>2, <4>3
    <3>3. Solves(g, s, m + 1)
      BY <3>2 DEF Solves
    <3> QED
      BY <3>3
  <2> HIDE DEF S
  <2> QED
    BY <2>1, <2>2, Up
<1>2. \E l : Solves(l, s, Len(s))
  BY <1>1
<1> QED
  BY <1>2 DEF Session, Solves

LEMMA SessionAt ==
  ASSUME NEW s \in Seq(Keys)
  PROVE  /\ Session(s)[0] = Prompted
         /\ \A n \in 1 .. Len(s) : Session(s)[n] = Key(Session(s)[n - 1], s[n])
<1>1. Solves(Session(s), s, Len(s)) /\ Len(s) \in Nat
  BY Solution
<1> PICK l : l = Session(s)
  OBVIOUS
<1> QED
  BY <1>1 DEF Solves

\* ... is well typed, ...
Sessions == [done : Seq(Seq(Keys)), open : Seq(Keys), shown : Seq(Token)]

LEMMA KeyType ==
  ASSUME NEW l \in Sessions, NEW k \in Keys
  PROVE  /\ Key(l, k) \in Sessions
         /\ Key(l, k).shown = l.shown \o (IF k = CR THEN Reply ELSE Echo(k))
         /\ k = CR => Key(l, k).done = Append(l.done, l.open) /\ Key(l, k).open = <<>>
         /\ k # CR => Key(l, k).done = l.done /\ Key(l, k).open = Append(l.open, k)
         /\ Echo(k) \in Seq(Token) /\ Reply \in Seq(Token) /\ (k = CR => Echo(k) = <<>>)
<1> USE Facts
<1>1. Reply \in Seq(Token)
  BY DEF Reply, Token
<1>2. Echo(k) \in Seq(Token) /\ (k = CR => Echo(k) = <<>>)
  BY DEF Echo
<1>3. l.done \in Seq(Seq(Keys)) /\ l.open \in Seq(Keys) /\ l.shown \in Seq(Token)
  BY DEF Sessions
<1>4. CASE k = CR
  <2>1. Key(l, k) = [done |-> Append(l.done, l.open), open |-> <<>>, shown |-> l.shown \o Reply]
    BY <1>4 DEF Key
  <2>2. Append(l.done, l.open) \in Seq(Seq(Keys)) /\ l.shown \o Reply \in Seq(Token)
        /\ <<>> \in Seq(Keys)
    BY <1>1, <1>3
  <2> QED
    BY <1>1, <1>2, <1>4, <2>1, <2>2 DEF Sessions
<1>5. CASE k # CR
  <2>1. Key(l, k) = [done |-> l.done, open |-> Append(l.open, k), shown |-> l.shown \o Echo(k)]
    BY <1>5 DEF Key, Echo, CR, LF
  <2>2. Append(l.open, k) \in Seq(Keys) /\ l.shown \o Echo(k) \in Seq(Token)
    BY <1>2, <1>3
  <2> QED
    BY <1>1, <1>2, <1>3, <1>5, <2>1, <2>2 DEF Sessions
<1> QED
  BY <1>4, <1>5

LEMMA KeyOpens ==
  ASSUME NEW l \in Sessions, NEW k \in Keys, k # CR, NEW v, v = Key(l, k)
  PROVE  v.done = l.done /\ v.open = Append(l.open, k)
BY KeyType

LEMMA KeyEnds ==
  ASSUME NEW l \in Sessions, NEW v, v = Key(l, CR)
  PROVE  v.done = Append(l.done, l.open) /\ v.open = <<>> /\ v.shown = l.shown \o Reply
BY KeyType, Facts

LEMMA SessionType ==
  ASSUME NEW s \in Seq(Keys)
  PROVE  \A n \in 0 .. Len(s) : Session(s)[n] \in Sessions
<1> DEFINE S == {n \in Nat : n <= Len(s) => Session(s)[n] \in Sessions}
<1>1. 0 \in S
  <2>1. Prompted \in Sessions
    <3>1. "prompt" \in Token
      BY DEF Token
    <3>2. <<"prompt">> \in Seq(Token) /\ <<>> \in Seq(Keys) /\ <<>> \in Seq(Seq(Keys))
      BY <3>1
    <3> QED
      BY <3>2 DEF Prompted, Sessions
  <2> QED
    BY <2>1, SessionAt
<1>2. ASSUME NEW n \in Nat, n \in S PROVE n + 1 \in S
  <2> SUFFICES ASSUME n + 1 <= Len(s) PROVE Session(s)[n + 1] \in Sessions
    OBVIOUS
  <2>1. n + 1 \in 1 .. Len(s) /\ (n + 1) - 1 = n /\ n <= Len(s)
    OBVIOUS
  <2>2. Session(s)[n] \in Sessions /\ s[n + 1] \in Keys
    BY <1>2, <2>1
  <2>3. Session(s)[n + 1] = Key(Session(s)[n], s[n + 1])
    BY <2>1, SessionAt
  <2> QED
    BY <2>2, <2>3, KeyType
<1> HIDE DEF S
<1>3. Nat \subseteq S
  BY <1>1, <1>2, Up
<1> USE DEF S
<1> QED
  BY <1>3

\* ... and goes on with the next key.
Grown(s, k, t) ==
  /\ t \in Seq(Keys) /\ Len(t) = Len(s) + 1 /\ Len(s) \in Nat
  /\ t[Len(s) + 1] = k /\ \A i \in 1 .. Len(s) : t[i] = s[i]
  /\ \A n \in 0 .. Len(s) : Session(t)[n] = Session(s)[n]
  /\ Session(t)[Len(s) + 1] = Key(Session(s)[Len(s)], k)

LEMMA SessionGrows ==
  ASSUME NEW s \in Seq(Keys), NEW k \in Keys, NEW t, t = Append(s, k)
  PROVE  Grown(s, k, t)
<1>1. /\ t \in Seq(Keys) /\ Len(t) = Len(s) + 1 /\ Len(s) \in Nat
      /\ t[Len(s) + 1] = k /\ \A i \in 1 .. Len(s) : t[i] = s[i]
  BY AppendProperties
<1> PICK m \in Nat : m = Len(s)
  BY <1>1
<1> DEFINE S == {n \in Nat : n <= m => Session(t)[n] = Session(s)[n]}
<1>2. 0 \in S
  BY <1>1, SessionAt
<1>3. ASSUME NEW n \in Nat, n \in S PROVE n + 1 \in S
  <2> SUFFICES ASSUME n + 1 <= m PROVE Session(t)[n + 1] = Session(s)[n + 1]
    OBVIOUS
  <2>1. n + 1 \in 1 .. m /\ n + 1 \in 1 .. m + 1 /\ (n + 1) - 1 = n /\ n <= m
    OBVIOUS
  <2>2. Session(s)[n + 1] = Key(Session(s)[n], s[n + 1])
    BY <2>1, SessionAt
  <2>3. Session(t)[n + 1] = Key(Session(t)[n], t[n + 1])
    BY <1>1, <2>1, SessionAt
  <2>4. t[n + 1] = s[n + 1]
    BY <1>1, <2>1
  <2> QED
    BY <1>3, <2>1, <2>2, <2>3, <2>4
<1> HIDE DEF S
<1>4. Nat \subseteq S
  BY <1>2, <1>3, Up
<1> USE DEF S
<1>5. \A n \in 0 .. m : Session(t)[n] = Session(s)[n]
  BY <1>4
<1>6. Session(t)[m + 1] = Key(Session(s)[m], k)
  <2>1. m + 1 \in 1 .. Len(t) /\ (m + 1) - 1 = m
    BY <1>1
  <2>2. Session(t)[m + 1] = Key(Session(t)[m], t[m + 1])
    BY <1>1, <2>1, SessionAt
  <2> QED
    BY <1>1, <1>5, <2>2
<1> QED
  BY <1>1, <1>5, <1>6 DEF Grown

\* Without a carriage return no line ends, and the one that is open grows.
NoReturn(s, m, j) == \A i \in 1 .. j : s[m + i] # CR
Opened(s, m, j)   == /\ Session(s)[m + j].done = Session(s)[m].done
                     /\ Session(s)[m + j].open = [i \in 1 .. j |-> s[m + i]]

LEMMA StaysOpen ==
  ASSUME NEW s \in Seq(Keys), NEW m \in Nat, NEW j \in Nat, m + j <= Len(s),
         Session(s)[m].open = <<>>, NoReturn(s, m, j)
  PROVE  Opened(s, m, j)
<1> DEFINE O(n) == [i \in 1 .. n |-> s[m + i]]
           S == {n \in Nat : n <= j => /\ Session(s)[m + n].done = Session(s)[m].done
                                       /\ Session(s)[m + n].open = O(n)}
<1>1. 0 \in S
  <2>1. O(0) = <<>>
    OBVIOUS
  <2> QED
    BY <2>1
<1>2. ASSUME NEW n \in Nat, n \in S PROVE n + 1 \in S
  <2> SUFFICES ASSUME n + 1 <= j
               PROVE  /\ Session(s)[m + (n + 1)].done = Session(s)[m].done
                      /\ Session(s)[m + (n + 1)].open = O(n + 1)
    OBVIOUS
  <2>1. /\ m + (n + 1) \in 1 .. Len(s) /\ (m + (n + 1)) - 1 = m + n
        /\ m + n \in 0 .. Len(s) /\ n + 1 \in 1 .. j /\ n <= j
    OBVIOUS
  <2>2. Session(s)[m + n].done = Session(s)[m].done /\ Session(s)[m + n].open = O(n)
    BY <1>2, <2>1
  <2> PICK k \in Keys : k = s[m + (n + 1)] /\ k # CR
    BY <2>1 DEF NoReturn
  <2>3. Session(s)[m + (n + 1)] = Key(Session(s)[m + n], k)
    BY <2>1, SessionAt
  <2>4. Session(s)[m + n] \in Sessions
    BY <2>1, SessionType
  <2> PICK l \in Sessions : l = Session(s)[m + n]
    BY <2>4
  <2> PICK v : v = Session(s)[m + (n + 1)]
    OBVIOUS
  <2>5. v.done = l.done /\ v.open = Append(l.open, k)
    <3>1. v = Key(l, k)
      BY <2>3
    <3> QED
      BY <3>1, KeyOpens
  <2>6. Append(O(n), k) = O(n + 1)
    OBVIOUS
  <2> QED
    BY <2>2, <2>5, <2>6
<1> HIDE DEF S
<1>3. Nat \subseteq S
  BY <1>1, <1>2, Up
<1> USE DEF S
<1> QED
  BY <1>3 DEF Opened

-----------------------------------------------------------------------------
\* What the console has to say and has not sent yet comes behind what it sent.
Pending == IF out = Nothing THEN <<>> ELSE <<out>>
Owed    == sent \o (Pending \o q_out)

\* No line of the buffer is ended, or the last byte ends the only one.
Clean     == \A i \in 0 .. line_p - 1 : line[i] # CR
EndedLine == /\ line_p > 0 /\ line[line_p - 1] = CR
             /\ \A i \in 0 .. line_p - 2 : line[i] # CR

\* The buffer holds the bytes read since the last line was run.
LineHolds ==
  /\ line_p <= Len(got)
  /\ \A i \in 0 .. line_p - 1 : line[i] = got[Len(got) - line_p + i + 1]
  /\ Session(got)[Len(got) - line_p].done = ran
  /\ Session(got)[Len(got) - line_p].open = <<>>
  /\ Seqs!IsPrefix(ran, Lines(got))
  /\ con # "lost"

\* The scan has not passed an end of line, or it stands behind the only one.
ScanHolds ==
  /\ con \in {"flush", "hlt"} => Clean
  /\ con = "scan" => \/ c <= line_p /\ \A i \in 0 .. c - 1 : line[i] # CR
                     \/ line_p = 0 /\ line[c] = NUL

\* What the console sent, is sending and has in its ring is the dialogue, up
\* to the answer of a line that is not yet run.
ShownHolds ==
  /\ Seqs!IsPrefix(sent, Dialogue(got))
  /\ Clean => Owed = Dialogue(got)
  /\ EndedLine => Owed = Session(got)[Len(got) - 1].shown
  /\ con = "hlt" => q_out = <<>> \/ got = <<>>

LineInv  == flaw = {} => LineHolds /\ ScanHolds
ShownInv == flaw = {} /\ ~outDropped => ShownHolds
Quiet    == printer = "console" => con = "flush"

DInv == CInv /\ Quiet /\ LineInv /\ ShownInv

-----------------------------------------------------------------------------
\* Prefixes.
LEMMA PrefixOf ==
  ASSUME NEW S, NEW a \in Seq(S), NEW b \in Seq(S)
  PROVE  Seqs!IsPrefix(a, b) <=> Len(a) <= Len(b) /\ \A i \in 1 .. Len(a) : a[i] = b[i]
<1>1. Len(a) \in Nat /\ Len(b) \in Nat
  OBVIOUS
<1>2. SubSeq(a, 1, Len(a)) = [i \in 1 .. Len(a) |-> a[i]]
  BY <1>1, SubSeqProperties
<1>3. ASSUME Len(a) <= Len(b)
      PROVE  SubSeq(b, 1, Len(a)) = [i \in 1 .. Len(a) |-> b[i]]
  BY <1>1, <1>3, SubSeqProperties
<1> QED
  BY <1>1, <1>2, <1>3 DEF Seqs!IsPrefix

LEMMA PrefixMore ==
  ASSUME NEW S, NEW a \in Seq(S), NEW b \in Seq(S), NEW d \in Seq(S), Seqs!IsPrefix(a, b)
  PROVE  Seqs!IsPrefix(a, b \o d)
<1>1. Len(a) <= Len(b) /\ \A i \in 1 .. Len(a) : a[i] = b[i]
  BY PrefixOf
<1>2. /\ b \o d \in Seq(S) /\ Len(b \o d) = Len(b) + Len(d)
      /\ \A i \in 1 .. Len(b) : (b \o d)[i] = b[i]
      /\ Len(a) \in Nat /\ Len(b) \in Nat /\ Len(d) \in Nat
  BY ConcatProperties
<1>3. Len(a) <= Len(b \o d) /\ \A i \in 1 .. Len(a) : a[i] = (b \o d)[i]
  BY <1>1, <1>2
<1> QED
  BY <1>2, <1>3, PrefixOf

LEMMA PrefixSelf ==
  ASSUME NEW S, NEW a \in Seq(S), NEW d \in Seq(S)
  PROVE  Seqs!IsPrefix(a, a) /\ Seqs!IsPrefix(a, a \o d)
<1>1. Seqs!IsPrefix(a, a)
  BY PrefixOf
<1> QED
  BY <1>1, PrefixMore

-----------------------------------------------------------------------------
\* One more key: the dialogue and the lines go on.
LEMMA DialogueType ==
  ASSUME NEW s \in Seq(Keys)
  PROVE  /\ Lines(s) \in Seq(Seq(Keys)) /\ Dialogue(s) \in Seq(Token)
         /\ Session(s)[Len(s)] \in Sessions
<1>1. Len(s) \in 0 .. Len(s)
  BY LenProperties
<1>2. Session(s)[Len(s)] \in Sessions
  BY <1>1, SessionType
<1> QED
  BY <1>2 DEF Lines, Dialogue, Sessions

LinesGoOn(s, t) == \E x \in Seq(Seq(Keys)) : Lines(t) = Lines(s) \o x

LEMMA GoesOn ==
  ASSUME NEW s \in Seq(Keys), NEW k \in Keys, NEW t, t = Append(s, k)
  PROVE  /\ Dialogue(t) = Dialogue(s) \o (IF k = CR THEN Reply ELSE Echo(k))
         /\ LinesGoOn(s, t)
<1>0. Len(t) = Len(s) + 1 /\ Session(t)[Len(s) + 1] = Key(Session(s)[Len(s)], k)
  <2>1. Grown(s, k, t)
    BY SessionGrows
  <2> QED
    BY <2>1 DEF Grown
<1> PICK l \in Sessions : l = Session(s)[Len(s)]
  BY DialogueType
<1> PICK v : v = Key(l, k)
  OBVIOUS
<1>1. Lines(s) = l.done /\ Dialogue(s) = l.shown /\ Lines(t) = v.done /\ Dialogue(t) = v.shown
  <2>1. Session(t)[Len(t)] = v
    BY <1>0
  <2> QED
    BY <2>1 DEF Lines, Dialogue
<1>2. v.shown = l.shown \o (IF k = CR THEN Reply ELSE Echo(k))
  BY KeyType
<1>3. l.done \in Seq(Seq(Keys)) /\ l.open \in Seq(Keys)
  BY DEF Sessions
<1>4. \E x \in Seq(Seq(Keys)) : v.done = l.done \o x
  <2>1. CASE k = CR
    <3>1. v.done = Append(l.done, l.open)
      BY <2>1, KeyType
    <3>2. Append(l.done, l.open) = l.done \o <<l.open>>
      BY <1>3, AppendIsConcat
    <3>3. <<l.open>> \in Seq(Seq(Keys))
      BY <1>3
    <3> QED
      BY <3>1, <3>2, <3>3
  <2>2. CASE k # CR
    <3>1. v.done = l.done
      BY <2>2, KeyType
    <3>2. l.done = l.done \o <<>> /\ <<>> \in Seq(Seq(Keys))
      BY <1>3, ConcatEmptySeq
    <3> QED
      BY <3>1, <3>2
  <2> QED
    BY <2>1, <2>2
<1> QED
  BY <1>1, <1>2, <1>4 DEF LinesGoOn

\* The line in the buffer is the one the session leaves open.
LEMMA OpenLine ==
  ASSUME CInv, LineHolds, NEW n \in 0 .. line_p, \A i \in 0 .. n - 1 : line[i] # CR
  PROVE  /\ Session(got)[Len(got) - line_p + n].done = ran
         /\ Session(got)[Len(got) - line_p + n].open = [i \in 1 .. n |-> line[i - 1]]
         /\ Len(got) - line_p + n \in 0 .. Len(got)
<1> PICK g \in Nat : g = Len(got)
  BY DEF CInv, TypeOK
<1> PICK p \in Nat : p = line_p
  BY Facts DEF CInv, TypeOK
<1>0. g - p \in Nat
  <2>1. p <= g
    BY DEF LineHolds
  <2> QED
    BY <2>1
<1> PICK m \in Nat : m = g - p
  BY <1>0
<1>1. n \in Nat /\ n <= p /\ m + p = g /\ m + n <= g
  OBVIOUS
<1>2. \A i \in 1 .. n : line[i - 1] = got[m + i]
  <2> SUFFICES ASSUME NEW i \in 1 .. n PROVE line[i - 1] = got[m + i]
    OBVIOUS
  <2>1. i - 1 \in 0 .. p - 1 /\ m + (i - 1) + 1 = m + i
    BY <1>1
  <2>2. line[i - 1] = got[m + (i - 1) + 1]
    BY <2>1 DEF LineHolds
  <2> QED
    BY <2>1, <2>2
<1>3. \A i \in 1 .. n : got[m + i] # CR
  <2> SUFFICES ASSUME NEW i \in 1 .. n PROVE got[m + i] # CR
    OBVIOUS
  <2>1. i - 1 \in 0 .. n - 1
    OBVIOUS
  <2> QED
    BY <1>2, <2>1
<1>4. Session(got)[m].done = ran /\ Session(got)[m].open = <<>>
  BY DEF LineHolds
<1>5. got \in Seq(Keys)
  BY DEF CInv, TypeOK
<1>6. /\ Session(got)[m + n].done = Session(got)[m].done
      /\ Session(got)[m + n].open = [i \in 1 .. n |-> got[m + i]]
  <2>1. m + n <= Len(got)
    BY <1>1
  <2>2. NoReturn(got, m, n)
    BY <1>3 DEF NoReturn
  <2>3. Opened(got, m, n)
    BY <1>4, <1>5, <2>1, <2>2, StaysOpen
  <2> QED
    BY <2>3 DEF Opened
<1>7. [i \in 1 .. n |-> got[m + i]] = [i \in 1 .. n |-> line[i - 1]]
  BY <1>2
<1>8. m + n \in 0 .. g
  BY <1>1
<1> QED
  BY <1>4, <1>6, <1>7, <1>8

-----------------------------------------------------------------------------
\* Strings in the ring are owed.
LEMMA PutstrAll ==
  ASSUME q_out \in Seq(Token), Len(q_out) <= OutSize, outDropped \in BOOLEAN,
         NEW s \in Seq(Token), putstr(s), ~outDropped'
  PROVE  ~outDropped /\ q_out' = q_out \o s
<1> USE Facts
<1> DEFINE n == IF Len(q_out) + Len(s) <= OutSize THEN Len(s)
                ELSE IF Len(q_out) <= OutSize THEN OutSize - Len(q_out) ELSE 0
<1>1. q_out' = q_out \o SubSeq(s, 1, n) /\ outDropped' = (outDropped \/ n < Len(s))
  BY DEF putstr
<1>2. n \in 0 .. Len(s) /\ Len(s) \in Nat
  OBVIOUS
<1> HIDE DEF n
<1>3. ~outDropped /\ n = Len(s)
  <2>1. ~outDropped /\ ~(n < Len(s))
    BY <1>1, Zenon
  <2> QED
    BY <1>2, <2>1
<1>4. SubSeq(s, 1, Len(s)) = s
  OBVIOUS
<1> QED
  BY <1>1, <1>3, <1>4

LEMMA Assoc ==
  ASSUME NEW S, NEW a \in Seq(S), NEW b \in Seq(S), NEW d \in Seq(S)
  PROVE  a \o (b \o d) = (a \o b) \o d /\ b \o d \in Seq(S)
<1>1. (a \o b) \o d = a \o (b \o d)
  BY ConcatAssociative
<1> QED
  BY <1>1

LEMMA Regroup ==
  ASSUME NEW S, NEW a \in Seq(S), NEW b \in Seq(S), NEW d \in Seq(S), NEW e \in Seq(S)
  PROVE  a \o (b \o (d \o e)) = (a \o (b \o d)) \o e /\ a \o (b \o d) \in Seq(S)
<1>1. b \o (d \o e) = (b \o d) \o e /\ b \o d \in Seq(S)
  BY Assoc
<1>2. ASSUME NEW w \in Seq(S) PROVE a \o (w \o e) = (a \o w) \o e /\ a \o w \in Seq(S)
  BY Assoc
<1>3. a \o ((b \o d) \o e) = (a \o (b \o d)) \o e /\ a \o (b \o d) \in Seq(S)
  BY <1>1, <1>2, Zenon
<1> QED
  BY <1>1, <1>3, Zenon

LEMMA OwedType ==
  ASSUME TypeOK
  PROVE  sent \in Seq(Token) /\ Pending \in Seq(Token) /\ q_out \in Seq(Token)
BY DEF TypeOK, Pending

LEMMA OwedPut ==
  ASSUME TypeOK, UNCHANGED <<sent, out>>, NEW s \in Seq(Token), q_out' = q_out \o s
  PROVE  Owed' = Owed \o s /\ Owed \in Seq(Token)
<1>1. sent \o (Pending \o (q_out \o s)) = (sent \o (Pending \o q_out)) \o s
      /\ sent \o (Pending \o q_out) \in Seq(Token)
  BY OwedType, Regroup
<1>2. Owed' = sent \o (Pending \o (q_out \o s))
  BY DEF Owed, Pending
<1> QED
  BY <1>1, <1>2 DEF Owed

-----------------------------------------------------------------------------
LEMMA InitDInv == Init => DInv
<1> SUFFICES ASSUME Init PROVE DInv
  OBVIOUS
<1>1. CInv /\ Quiet
  BY InitCInv DEF Init, Quiet
<1>2. got = <<>> /\ Len(got) = 0 /\ got \in Seq(Keys) /\ line_p = 0 /\ ran = <<>>
      /\ sent = <<>> /\ out = Nothing /\ con = "hlt"
  BY DEF Init
<1>3. Session(got)[0] = Prompted
  BY <1>2, SessionAt
<1>4. Prompted.done = <<>> /\ Prompted.open = <<>> /\ Prompted.shown = <<"prompt">>
  BY DEF Prompted
<1>5. Lines(got) = <<>> /\ Dialogue(got) = <<"prompt">>
  BY <1>2, <1>3, <1>4 DEF Lines, Dialogue
<1>6. LineHolds
  <2>1. Seqs!IsPrefix(ran, Lines(got))
    <3>1. ran \in Seq(Seq(Keys)) /\ Lines(got) = ran
      BY <1>1, <1>2, <1>5 DEF CInv, TypeOK
    <3> QED
      BY <3>1, PrefixSelf
  <2>2. Len(got) - line_p = 0 /\ line_p <= Len(got) /\ con # "lost"
        /\ \A i \in 0 .. line_p - 1 : line[i] = got[Len(got) - line_p + i + 1]
    BY <1>2
  <2> QED
    BY <1>2, <1>3, <1>4, <2>1, <2>2 DEF LineHolds
<1>7. ScanHolds
  BY <1>2 DEF ScanHolds, Clean
<1>8. ASSUME ~outDropped PROVE ShownHolds
  <2>1. q_out = <<"prompt">>
    <3>1. outDropped = (OutSize = 0)
      BY DEF Init
    <3>2. OutSize # 0
      BY <1>8, <3>1, Zenon
    <3> QED
      BY <3>2, Facts DEF Init
  <2>2. <<"prompt">> \in Seq(Token)
    BY DEF Token
  <2>3. Owed = <<"prompt">>
    <3>1. Pending = <<>>
      BY <1>2 DEF Pending
    <3>2. <<>> \o <<"prompt">> = <<"prompt">>
      BY <2>2, ConcatEmptySeq
    <3> QED
      BY <1>2, <2>1, <3>1, <3>2 DEF Owed
  <2>4. Seqs!IsPrefix(sent, Dialogue(got))
    <3>1. sent \in Seq(Token) /\ Dialogue(got) = sent \o <<"prompt">>
      BY <1>2, <1>5, <2>2, ConcatEmptySeq
    <3> QED
      BY <2>2, <3>1, PrefixSelf
  <2> QED
    BY <1>2, <1>5, <2>3, <2>4 DEF ShownHolds, EndedLine
<1> QED
  BY <1>1, <1>6, <1>7, <1>8 DEF DInv, LineInv, ShownInv

\* What neither reads nor runs nor sends keeps the line and what is owed.
LEMMA AsideKeeps ==
  ASSUME DInv, CInv',
         UNCHANGED <<line, line_p, c, got, ran, q_out, outDropped, flaw, sent, out>>,
         con' = con \/ (con = "hlt" /\ con' = "drain"),
         printer' = "console" => printer = "console"
  PROVE  DInv'
<1>1. Quiet'
  BY DEF DInv, Quiet
<1>2. Clean' = Clean /\ EndedLine' = EndedLine /\ Owed' = Owed
      /\ Lines(got)' = Lines(got) /\ Dialogue(got)' = Dialogue(got)
  BY DEF Clean, EndedLine, Owed, Pending
<1>3. LineInv'
  BY <1>2 DEF DInv, LineInv, LineHolds, ScanHolds
<1>4. ShownInv'
  BY <1>2 DEF DInv, ShownInv, ShownHolds
<1> QED
  BY <1>1, <1>3, <1>4 DEF DInv

LEMMA OtherStepsKeep ==
  ASSUME DInv, CharTime \/ int_handler_serial \/ Tick \/ OtherPrints \/ PutOther
  PROVE  DInv'
<1>1. CInv'
  BY CharTimeKeeps, HandlerKeeps, TickKeeps, PutsKeep DEF DInv
<1>2. UNCHANGED <<line, line_p, c, got, ran, q_out, outDropped, flaw, sent, out>>
  BY DEF CharTime, int_handler_serial, Tick, OtherPrints, PutOther, console
<1>3. con' = con \/ (con = "hlt" /\ con' = "drain")
  BY DEF CharTime, int_handler_serial, Tick, OtherPrints, PutOther, console, Woken
<1>4. printer' = "console" => printer = "console"
  BY DEF CharTime, int_handler_serial, Tick, OtherPrints, PutOther, cpu
<1> QED
  BY <1>1, <1>2, <1>3, <1>4, AsideKeeps

-----------------------------------------------------------------------------
\* One byte read: the line and the dialogue get it.
LEMMA ReadStores ==
  ASSUME CInv, Read, flaw' = {}
  PROVE  \E k \in Keys :
           /\ got' = Append(got, k) /\ Grown(got, k, got')
           /\ line_p + 1 \in Index /\ line_p' = line_p + 1
           /\ line'[line_p] = k /\ \A i \in 0 .. line_p - 1 : line'[i] = line[i]
           /\ putstr(Echo(k)) /\ flaw = {} /\ con = "drain"
           /\ UNCHANGED <<con, ran, sent, out>>
<1> PICK k : k = Head(q_in)
  OBVIOUS
<1>1. k \in Keys
  BY DEF Read, CInv, TypeOK
<1>2. got' = Append(got, k) /\ putstr(Echo(k)) /\ con = "drain" /\ UNCHANGED <<ran, sent, out>>
  BY DEF Read
<1>3. /\ line_p + 1 \in Index /\ line_p' = line_p + 1
      /\ line' = [line EXCEPT ![line_p] = k, ![line_p + 1] = NUL]
      /\ UNCHANGED <<con, flaw>>
  <2>1. flaw' # flaw \cup {"overflow"}
    OBVIOUS
  <2> QED
    BY <2>1 DEF Read
<1>4. Grown(got, k, got')
  <2>1. got \in Seq(Keys)
    BY DEF CInv, TypeOK
  <2> QED
    BY <1>1, <1>2, <2>1, SessionGrows
<1>5. line'[line_p] = k /\ \A i \in 0 .. line_p - 1 : line'[i] = line[i]
  <2> PICK p \in Index : p = line_p
    BY DEF CInv, TypeOK
  <2>1. line \in [Index -> Keys \cup {NUL}] /\ p \in Nat
    BY Facts DEF CInv, TypeOK
  <2>2. line'[p] = k
    BY <1>3, <2>1
  <2>3. ASSUME NEW i \in 0 .. p - 1 PROVE line'[i] = line[i]
    <3>1. i \in Index /\ i # p /\ i # p + 1
      BY <2>1, IndexDown
    <3> QED
      BY <1>3, <2>1, <3>1
  <2> QED
    BY <2>2, <2>3
<1> QED
  BY <1>1, <1>2, <1>3, <1>4, <1>5

LEMMA ReadKeepsLine ==
  ASSUME DInv, Read
  PROVE  LineInv'
<1> SUFFICES ASSUME flaw' = {} PROVE LineHolds' /\ ScanHolds'
  BY DEF LineInv
<1>1. CInv
  BY DEF DInv
<1> PICK k \in Keys :
           /\ got' = Append(got, k) /\ Grown(got, k, got')
           /\ line_p + 1 \in Index /\ line_p' = line_p + 1
           /\ line'[line_p] = k /\ \A i \in 0 .. line_p - 1 : line'[i] = line[i]
           /\ putstr(Echo(k)) /\ flaw = {} /\ con = "drain"
           /\ UNCHANGED <<con, ran, sent, out>>
  BY <1>1, ReadStores
<1>2. LineHolds
  BY DEF DInv, LineInv
<1> PICK p \in Nat : p = line_p
  BY <1>1, Facts DEF CInv, TypeOK
<1> PICK g \in Nat : g = Len(got)
  BY DEF Grown
<1>3. Len(got') = g + 1 /\ p <= g /\ (g + 1) - (p + 1) = g - p
  BY <1>2 DEF LineHolds, Grown
<1>4. \A i \in 0 .. (p + 1) - 1 : line'[i] = got'[g - p + i + 1]
  <2> SUFFICES ASSUME NEW i \in 0 .. (p + 1) - 1 PROVE line'[i] = got'[g - p + i + 1]
    OBVIOUS
  <2>1. CASE i = p
    <3>1. g - p + i + 1 = g + 1
      BY <1>3, <2>1
    <3>2. got'[g + 1] = k /\ line'[p] = k
      BY DEF Grown
    <3> QED
      BY <2>1, <3>1, <3>2
  <2>2. CASE i # p
    <3>1. i \in 0 .. p - 1 /\ g - p + i + 1 \in 1 .. g
      BY <1>3, <2>2
    <3>2. line[i] = got[g - p + i + 1]
      BY <1>2, <3>1 DEF LineHolds
    <3>3. got'[g - p + i + 1] = got[g - p + i + 1]
      BY <3>1 DEF Grown
    <3> QED
      BY <3>1, <3>2, <3>3
  <2> QED
    BY <2>1, <2>2
<1>5. Session(got')[g - p].done = ran /\ Session(got')[g - p].open = <<>>
  <2>1. g - p \in 0 .. g
    BY <1>3
  <2>2. Session(got')[g - p] = Session(got)[g - p]
    BY <2>1 DEF Grown
  <2> QED
    BY <1>2, <2>2 DEF LineHolds
<1>6. Seqs!IsPrefix(ran, Lines(got'))
  <2>1. got \in Seq(Keys) /\ ran \in Seq(Seq(Keys))
    BY <1>1 DEF CInv, TypeOK
  <2>2. LinesGoOn(got, got')
    BY <2>1, GoesOn
  <2> PICK x \in Seq(Seq(Keys)) : Lines(got') = Lines(got) \o x
    BY <2>2 DEF LinesGoOn
  <2>3. Lines(got) \in Seq(Seq(Keys)) /\ Seqs!IsPrefix(ran, Lines(got))
    BY <1>2, <2>1, DialogueType DEF LineHolds
  <2> QED
    BY <2>1, <2>3, PrefixMore
<1>7. LineHolds'
  <2>1. Len(got') - line_p' = g - p /\ line_p' <= Len(got') /\ line_p' = p + 1
    BY <1>3
  <2> QED
    BY <1>4, <1>5, <1>6, <2>1 DEF LineHolds, Lines
<1>8. ScanHolds'
  BY DEF ScanHolds
<1> QED
  BY <1>7, <1>8

LEMMA ReadKeepsShown ==
  ASSUME DInv, Read
  PROVE  ShownInv'
<1> SUFFICES ASSUME flaw' = {}, ~outDropped' PROVE ShownHolds'
  BY DEF ShownInv
<1>1. CInv
  BY DEF DInv
<1> PICK k \in Keys :
           /\ got' = Append(got, k) /\ Grown(got, k, got')
           /\ line_p + 1 \in Index /\ line_p' = line_p + 1
           /\ line'[line_p] = k /\ \A i \in 0 .. line_p - 1 : line'[i] = line[i]
           /\ putstr(Echo(k)) /\ flaw = {} /\ con = "drain"
           /\ UNCHANGED <<con, ran, sent, out>>
  BY <1>1, ReadStores
<1> PICK p \in Nat : p = line_p
  BY <1>1, Facts DEF CInv, TypeOK
<1> PICK g \in Nat : g = Len(got)
  BY DEF Grown
<1>2. got \in Seq(Keys) /\ Echo(k) \in Seq(Token) /\ (k = CR => Echo(k) = <<>>)
      /\ Reply \in Seq(Token)
  <2>1. got \in Seq(Keys)
    BY <1>1 DEF CInv, TypeOK
  <2>2. Echo(k) \in Seq(Token) /\ (k = CR => Echo(k) = <<>>)
    BY Facts DEF Echo
  <2> QED
    BY <2>1, <2>2 DEF Reply, Token
<1>3. ~outDropped /\ q_out' = q_out \o Echo(k)
  BY <1>1, <1>2, PutstrAll DEF CInv, TypeOK
<1>4. ShownHolds
  BY <1>3 DEF DInv, ShownInv
<1>5. Owed' = Owed \o Echo(k) /\ Owed \in Seq(Token)
  BY <1>1, <1>2, <1>3, OwedPut DEF CInv
<1>6. Dialogue(got') = Dialogue(got) \o (IF k = CR THEN Reply ELSE Echo(k))
      /\ Dialogue(got) \in Seq(Token)
  BY <1>2, GoesOn, DialogueType
<1>7. Seqs!IsPrefix(sent, Dialogue(got'))
  <2>1. sent \in Seq(Token) /\ Seqs!IsPrefix(sent, Dialogue(got))
    BY <1>1, <1>4 DEF CInv, TypeOK, ShownHolds
  <2>2. (IF k = CR THEN Reply ELSE Echo(k)) \in Seq(Token)
    BY <1>2
  <2> QED
    BY <1>6, <2>1, <2>2, PrefixMore
<1>8. Clean' => Owed' = Dialogue(got')
  <2> SUFFICES ASSUME Clean' PROVE Owed' = Dialogue(got')
    OBVIOUS
  <2>1. \A i \in 0 .. (p + 1) - 1 : line'[i] # CR
    BY DEF Clean
  <2>2. k # CR
    BY <2>1
  <2>3. Clean
    BY <2>1 DEF Clean
  <2> QED
    BY <1>4, <1>5, <1>6, <2>2, <2>3 DEF ShownHolds
<1>9. EndedLine' => Owed' = Session(got')[Len(got') - 1].shown
  <2> SUFFICES ASSUME EndedLine' PROVE Owed' = Session(got')[Len(got') - 1].shown
    OBVIOUS
  <2>1. (p + 1) - 1 = p /\ (p + 1) - 2 = p - 1
    OBVIOUS
  <2>2. k = CR /\ \A i \in 0 .. p - 1 : line'[i] # CR
    BY <2>1 DEF EndedLine
  <2>3. Clean
    BY <2>2 DEF Clean
  <2>4. Owed' = Owed
    BY <1>2, <1>5, <2>2, ConcatEmptySeq
  <2>5. Session(got')[g] = Session(got)[g] /\ Len(got') = g + 1 /\ (g + 1) - 1 = g
    BY DEF Grown
  <2> QED
    BY <1>4, <2>3, <2>4, <2>5 DEF ShownHolds, Dialogue
<1>10. con' # "hlt"
  OBVIOUS
<1> QED
  BY <1>7, <1>8, <1>9, <1>10 DEF ShownHolds, Dialogue

-----------------------------------------------------------------------------
\* Inside the line there is no terminator, and behind it there is one.
LEMMA InLine ==
  ASSUME CInv, LineHolds, NEW i \in 0 .. line_p - 1
  PROVE  line[i] \in Keys /\ line[i] # NUL
<1> USE Facts
<1> PICK g \in Nat : g = Len(got)
  BY DEF CInv, TypeOK
<1> PICK p \in Nat : p = line_p
  BY DEF CInv, TypeOK
<1>1. p <= g
  BY DEF LineHolds
<1>2. g - p + i + 1 \in 1 .. g
  BY <1>1
<1>3. got[g - p + i + 1] \in Keys
  BY <1>2 DEF CInv, TypeOK
<1> QED
  BY <1>3 DEF LineHolds

\* Where the scan stops, the line is at its end.
LEMMA StopsAtEnd ==
  ASSUME CInv, LineHolds, ScanHolds, con = "scan", line[c] = NUL
  PROVE  Clean
<1> PICK p \in Nat : p = line_p
  BY Facts DEF CInv, TypeOK
<1> PICK d \in Nat : d = c
  BY Facts DEF CInv, TypeOK
<1>1. CASE d <= p /\ \A i \in 0 .. d - 1 : line[i] # CR
  <2>1. ~(d \in 0 .. p - 1)
    BY InLine
  <2>2. d = p
    BY <1>1, <2>1
  <2> QED
    BY <1>1, <2>2 DEF Clean
<1>2. CASE p = 0
  BY <1>2 DEF Clean
<1> QED
  BY <1>1, <1>2 DEF ScanHolds

\* A carriage return the scan meets, with nothing read behind it, is the last
\* byte of the line.
LEMMA MeetsEnd ==
  ASSUME CInv, LineHolds, ScanHolds, con = "scan", line[c] = CR, line[c + 1] = NUL
  PROVE  EndedLine /\ c \in Nat /\ c + 1 = line_p /\ \A i \in 0 .. c - 1 : line[i] # CR
<1> PICK p \in Nat : p = line_p
  BY Facts DEF CInv, TypeOK
<1> PICK d \in Nat : d = c
  BY Facts DEF CInv, TypeOK
<1>1. line[d] # NUL
  BY DEF CR, NUL
<1>2. d <= p /\ \A i \in 0 .. d - 1 : line[i] # CR
  BY <1>1 DEF ScanHolds
<1>3. d # p
  BY <1>1 DEF CInv, Terminated
<1>4. ~(d + 1 \in 0 .. p - 1)
  BY InLine
<1>5. d + 1 = p
  BY <1>2, <1>3, <1>4
<1>6. p > 0 /\ p - 1 = d /\ p - 2 = d - 1
  BY <1>5
<1>7. EndedLine
  BY <1>2, <1>6 DEF EndedLine
<1> QED
  BY <1>2, <1>5, <1>7

\* The command is the line in front of it.
LEMMA ParsedLine ==
  ASSUME CInv, line[c] = CR, Len(Parsed) >= c
  PROVE  Parsed = [i \in 1 .. c |-> line[i - 1]]
<1> PICK d \in Index : d = c
  BY DEF CInv, TypeOK
<1> DEFINE n == CHOOSE i \in Index : FirstEnd(i)
<1>1. n \in Index /\ FirstEnd(n)
  BY DEF CInv, Terminated
<1>2. Parsed = [i \in 1 .. n |-> line[i - 1]]
  BY DEF Parsed
<1> HIDE DEF n
<1>3. n \in Nat /\ d \in Nat
  BY <1>1, Facts
<1>4. Ends(d)
  BY DEF Ends
<1>5. ~(d \in 0 .. n - 1)
  BY <1>1, <1>4 DEF FirstEnd
<1>6. Len(Parsed) = n
  BY <1>2, <1>3
<1>7. n = d
  BY <1>3, <1>5, <1>6
<1> QED
  BY <1>2, <1>7

\* What a run means: the session ends its line there.
LEMMA RunEnds ==
  ASSUME CInv, LineHolds, ScanHolds, con = "scan", line[c] = CR, line[c + 1] = NUL,
         Len(Parsed) >= c
  PROVE  /\ EndedLine /\ Len(got) \in Nat
         /\ Session(got)[Len(got)].done = Append(ran, Parsed)
         /\ Session(got)[Len(got)].open = <<>>
         /\ Dialogue(got) = Session(got)[Len(got) - 1].shown \o Reply
<1>1. EndedLine /\ c \in Nat /\ c + 1 = line_p /\ \A i \in 0 .. c - 1 : line[i] # CR
  BY MeetsEnd
<1> PICK g \in Nat : g = Len(got)
  BY DEF CInv, TypeOK
<1> PICK d \in Nat : d = c
  BY <1>1
<1>2. d + 1 <= g /\ line_p = d + 1
  BY <1>1 DEF LineHolds
<1>3. got \in Seq(Keys)
  BY DEF CInv, TypeOK
<1>4. got[g] = CR
  <2>1. d \in 0 .. line_p - 1 /\ g - line_p + d + 1 = g
    BY <1>2
  <2>2. line[d] = got[g - line_p + d + 1]
    BY <2>1 DEF LineHolds
  <2> QED
    BY <2>1, <2>2
<1>5. /\ Session(got)[g - line_p + d].done = ran
      /\ Session(got)[g - line_p + d].open = [i \in 1 .. d |-> line[i - 1]]
  <2>1. d \in 0 .. line_p
    BY <1>2
  <2> QED
    BY <1>1, <2>1, OpenLine
<1>6. g - line_p + d = g - 1 /\ g \in 1 .. Len(got) /\ g - 1 \in 0 .. Len(got)
  BY <1>2
<1>7. Session(got)[g - 1] \in Sessions /\ Session(got)[g] = Key(Session(got)[g - 1], CR)
  BY <1>3, <1>4, <1>6, SessionAt, SessionType
<1> PICK l \in Sessions : l = Session(got)[g - 1]
  BY <1>7
<1> PICK v : v = Session(got)[g]
  OBVIOUS
<1>8. l.done = ran /\ l.open = Parsed
  BY <1>5, <1>6, ParsedLine
<1>9. v = Key(l, CR)
  BY <1>7
<1>10. v.done = Append(ran, Parsed) /\ v.open = <<>> /\ v.shown = l.shown \o Reply
  <2>1. v.done = Append(l.done, l.open) /\ v.open = <<>> /\ v.shown = l.shown \o Reply
    BY <1>9, KeyEnds
  <2> QED
    BY <1>8, <2>1
<1> QED
  BY <1>1, <1>10 DEF Dialogue

LEMMA RunKeeps ==
  ASSUME DInv, CInv', Scan, RunsAt(line[c])
  PROVE  LineInv' /\ ShownInv'
<1> SUFFICES ASSUME flaw' = {} PROVE LineInv' /\ ShownInv'
  BY DEF LineInv, ShownInv
<1>0. ~ Overruns(parse_command(Parsed))
  BY DEF Scan
<1>1. /\ con = "scan" /\ line[c] = CR /\ c' = c + 1 /\ ran' = Append(ran, Parsed)
      /\ putstr(Reply) /\ line' = Cleared(line) /\ line_p' = 0
      /\ flaw' = flaw \cup (IF line[c + 1] # NUL THEN {"ahead"} ELSE {})
                      \cup (IF Len(Parsed) < c THEN {"linefeed"} ELSE {})
      /\ UNCHANGED <<con, got, sent, out>>
  BY <1>0 DEF Scan, RunsAt, Reply
<1>2. flaw = {} /\ line[c + 1] = NUL /\ ~(Len(Parsed) < c)
  BY <1>1
<1>3. CInv /\ LineHolds /\ ScanHolds
  BY <1>2 DEF DInv, LineInv
<1>4. Len(Parsed) >= c
  <2>1. Parsed \in Seq(Keys)
    BY <1>3, ParsedType DEF CInv
  <2>2. Len(Parsed) \in Nat /\ c \in Nat
    BY <1>3, <2>1, Facts DEF CInv, TypeOK
  <2> QED
    BY <1>2, <2>2
<1>5. /\ EndedLine /\ Len(got) \in Nat
      /\ Session(got)[Len(got)].done = Append(ran, Parsed)
      /\ Session(got)[Len(got)].open = <<>>
      /\ Dialogue(got) = Session(got)[Len(got) - 1].shown \o Reply
  BY <1>1, <1>2, <1>3, <1>4, RunEnds
<1>6. LineHolds'
  <2> PICK g \in Nat : g = Len(got)
    BY <1>5
  <2>1. got' = got /\ line_p' = 0 /\ g - 0 = g /\ 0 <= g /\ con' # "lost"
    BY <1>1
  <2>2. Session(got')[g].done = ran' /\ Session(got')[g].open = <<>>
    BY <1>1, <1>5, <2>1
  <2>3. Lines(got)' = ran'
    BY <2>1, <2>2 DEF Lines
  <2>4. Seqs!IsPrefix(ran', Lines(got)')
    <3>1. ran' \in Seq(Seq(Keys))
      BY DEF CInv, TypeOK
    <3> QED
      BY <2>3, <3>1, PrefixSelf
  <2> QED
    BY <2>1, <2>2, <2>4 DEF LineHolds, Lines
<1>7. ScanHolds'
  <2>1. c \in Index /\ c + 1 # 0 /\ c + 1 \in Index
    <3>1. c \in Nat /\ c' \in Index
      BY <1>3, Facts DEF CInv, TypeOK
    <3> QED
      BY <1>1, <1>3, <3>1 DEF CInv, TypeOK
  <2>2. line'[c + 1] = NUL
    BY <1>1, <1>2, <1>3, <2>1 DEF Cleared, CInv, TypeOK
  <2> QED
    BY <1>1, <2>2 DEF ScanHolds
<1>8. ASSUME ~outDropped' PROVE ShownHolds'
  <2>1. Reply \in Seq(Token)
    BY DEF Reply, Token
  <2>2. ~outDropped /\ q_out' = q_out \o Reply
    BY <1>1, <1>3, <1>8, <2>1, PutstrAll DEF CInv, TypeOK
  <2>3. Owed' = Owed \o Reply
    BY <1>1, <1>3, <2>1, <2>2, OwedPut DEF CInv
  <2>4. ShownHolds
    BY <1>2, <2>2 DEF DInv, ShownInv
  <2>5. Owed' = Dialogue(got)
    BY <1>5, <2>3, <2>4 DEF ShownHolds
  <2>6. Dialogue(got)' = Dialogue(got)
    BY <1>1 DEF Dialogue
  <2>7. Seqs!IsPrefix(sent, Dialogue(got))'
    BY <1>1, <2>4, <2>6 DEF ShownHolds
  <2>8. ~EndedLine' /\ con' # "hlt"
    BY <1>1 DEF EndedLine
  <2> QED
    BY <2>5, <2>6, <2>7, <2>8 DEF ShownHolds
<1> QED
  BY <1>6, <1>7, <1>8 DEF LineInv, ShownInv

\* The scan passes a byte, or ends, or begins.
LEMMA PassKeeps ==
  ASSUME DInv, (Scan /\ ~RunsAt(line[c])) \/ ScanEnds \/ ReadAll
  PROVE  LineInv' /\ ShownInv'
<1>1. /\ UNCHANGED <<ran, q_out, outDropped, line, line_p, flaw, out, got, sent>>
      /\ con' \in {"scan", "flush"}
  BY DEF Scan, ScanEnds, ReadAll
<1>2. Clean' = Clean /\ EndedLine' = EndedLine /\ Owed' = Owed
      /\ Lines(got)' = Lines(got) /\ Dialogue(got)' = Dialogue(got)
  BY <1>1 DEF Clean, EndedLine, Owed, Pending
<1>3. ShownInv'
  BY <1>1, <1>2 DEF DInv, ShownInv, ShownHolds
<1>4. ASSUME flaw' = {} PROVE LineHolds' /\ ScanHolds'
  <2>1. LineHolds /\ ScanHolds /\ CInv
    BY <1>1, <1>4 DEF DInv, LineInv
  <2>2. LineHolds'
    BY <1>1, <1>2, <2>1 DEF LineHolds
  <2> PICK d \in Nat : d = c
    BY <2>1, Facts DEF CInv, TypeOK
  <2> PICK p \in Nat : p = line_p
    BY <2>1, Facts DEF CInv, TypeOK
  <2>3. CASE Scan /\ ~RunsAt(line[c])
    <3>1. con = "scan" /\ con' = "scan" /\ line[d] # NUL /\ line[d] # CR /\ c' = d + 1
      BY <2>3 DEF Scan, RunsAt
    <3>2. d <= p /\ \A i \in 0 .. d - 1 : line[i] # CR
      BY <2>1, <3>1 DEF ScanHolds
    <3>3. d # p
      BY <2>1, <3>1 DEF CInv, Terminated
    <3>4. d + 1 <= p
      BY <3>2, <3>3
    <3>5. \A i \in 0 .. (d + 1) - 1 : line[i] # CR
      <4> SUFFICES ASSUME NEW i \in 0 .. (d + 1) - 1 PROVE line[i] # CR
        OBVIOUS
      <4>1. i = d \/ i \in 0 .. d - 1
        OBVIOUS
      <4> QED
        BY <3>1, <3>2, <4>1
    <3>6. ScanHolds'
      BY <1>1, <3>1, <3>4, <3>5 DEF ScanHolds
    <3> QED
      BY <2>2, <3>6
  <2>4. CASE ScanEnds
    <3>1. con = "scan" /\ con' = "flush" /\ line[c] = NUL
      BY <2>4 DEF ScanEnds
    <3>2. Clean'
      BY <1>2, <2>1, <3>1, StopsAtEnd
    <3> QED
      BY <2>2, <3>1, <3>2 DEF ScanHolds
  <2>5. CASE ReadAll
    <3>1. con' = "scan" /\ c' = 0
      BY <2>5 DEF ReadAll
    <3>2. line_p' \in Nat /\ 0 <= p
      BY <1>1
    <3> QED
      BY <1>1, <2>2, <3>1, <3>2 DEF ScanHolds
  <2> QED
    BY <2>3, <2>4, <2>5
<1> QED
  BY <1>3, <1>4 DEF LineInv

-----------------------------------------------------------------------------
\* The flush: what is owed moves towards the line.
LEMMA FlushKeeps ==
  ASSUME DInv, Flush \/ FlushEnds
  PROVE  LineInv' /\ ShownInv'
<1>1. /\ UNCHANGED <<ran, outDropped, line, line_p, c, flaw, got, sent>>
      /\ con = "flush" /\ con' \in {"flush", "hlt"}
  BY DEF Flush, FlushEnds
<1>2. Clean' = Clean /\ EndedLine' = EndedLine
      /\ Lines(got)' = Lines(got) /\ Dialogue(got)' = Dialogue(got)
  BY <1>1 DEF Clean, EndedLine
<1>3. LineInv'
  BY <1>1, <1>2 DEF DInv, LineInv, LineHolds, ScanHolds
<1>4. Owed' = Owed
  <2>1. CASE Flush
    <3>1. q_out \in Seq(Token) /\ q_out # <<>> /\ out' = Head(q_out) /\ q_out' = Tail(q_out)
      BY <2>1 DEF Flush, DInv, CInv, TypeOK
    <3>2. out = Nothing /\ intf /\ out' # Nothing
      BY <2>1, <3>1, Facts DEF Flush, DInv, CInv, Exclusion
    <3>3. <<Head(q_out)>> \o Tail(q_out) = q_out /\ <<>> \o q_out = q_out
      BY <3>1
    <3>4. Pending \o q_out = q_out /\ (Pending \o q_out)' = q_out
      BY <3>1, <3>2, <3>3 DEF Pending
    <3> QED
      BY <1>1, <3>4 DEF Owed
  <2>2. CASE FlushEnds
    <3>1. UNCHANGED <<out, q_out>>
      BY <2>2 DEF FlushEnds
    <3> QED
      BY <1>1, <3>1 DEF Owed, Pending
  <2> QED
    BY <2>1, <2>2
<1>5. con' = "hlt" => q_out' = <<>>
  BY DEF Flush, FlushEnds
<1>6. ShownInv'
  BY <1>1, <1>2, <1>4, <1>5 DEF DInv, ShownInv, ShownHolds
<1> QED
  BY <1>3, <1>6

LEMMA PutConsoleKeeps ==
  ASSUME DInv, PutConsole
  PROVE  LineInv' /\ ShownInv'
<1>1. /\ UNCHANGED <<ran, outDropped, line, line_p, c, flaw, got, q_out, con>>
      /\ printer = "console" /\ sent' = Append(sent, out) /\ out' = Nothing
  BY DEF PutConsole
<1>2. Clean' = Clean /\ EndedLine' = EndedLine
      /\ Lines(got)' = Lines(got) /\ Dialogue(got)' = Dialogue(got)
  BY <1>1 DEF Clean, EndedLine
<1>3. LineInv'
  BY <1>1, <1>2 DEF DInv, LineInv, LineHolds, ScanHolds
<1>4. out \in Token /\ out # Nothing /\ sent \in Seq(Token) /\ q_out \in Seq(Token)
  BY <1>1 DEF DInv, CInv, TypeOK, Exclusion
<1>5. Owed = sent' \o q_out /\ Owed' = sent' \o q_out
  <2>1. <<out>> \in Seq(Token)
    BY <1>4
  <2>2. sent \o (<<out>> \o q_out) = (sent \o <<out>>) \o q_out
    BY <1>4, <2>1, Assoc
  <2>3. sent' = sent \o <<out>>
    BY <1>1, <1>4, AppendIsConcat
  <2>4. Pending = <<out>> /\ Pending' = <<>> /\ <<>> \o q_out = q_out
    BY <1>1, <1>4, ConcatEmptySeq DEF Pending
  <2>5. Owed = sent \o (<<out>> \o q_out) /\ Owed' = sent' \o q_out
    BY <1>1, <2>4 DEF Owed
  <2> QED
    BY <2>2, <2>3, <2>5
<1>6. ASSUME flaw = {}, ~outDropped PROVE ShownHolds'
  <2>1. con = "flush" /\ Clean /\ ShownHolds
    BY <1>1, <1>6 DEF DInv, Quiet, LineInv, ScanHolds, ShownInv
  <2>2. Owed = Dialogue(got)
    BY <2>1 DEF ShownHolds
  <2>3. Seqs!IsPrefix(sent', Dialogue(got))
    <3>1. sent' \in Seq(Token)
      BY <1>1, <1>4
    <3> QED
      BY <1>4, <1>5, <2>2, <3>1, PrefixSelf
  <2>4. EndedLine' => Owed' = (Session(got)[Len(got) - 1].shown)'
    BY <1>1, <1>2, <1>5, <2>1 DEF ShownHolds
  <2> QED
    BY <1>1, <1>2, <1>5, <2>1, <2>2, <2>3, <2>4 DEF ShownHolds
<1> QED
  BY <1>1, <1>3, <1>6 DEF ShownInv

-----------------------------------------------------------------------------
LEMMA DInvKept ==
  ASSUME DInv, [Next]_vars
  PROVE  DInv'
<1>1. CInv
  BY DEF DInv
<1>2. CASE CharTime \/ int_handler_serial \/ Tick \/ OtherPrints \/ PutOther
  BY <1>2, OtherStepsKeep
<1>3. CASE UNCHANGED vars
  <2>1. UNCHANGED <<line, line_p, c, got, ran, q_out, outDropped, flaw, sent, out, con, printer>>
    BY <1>3 DEF vars, console, cpu
  <2>2. CInv'
    BY <1>1, <1>3, CInvKept
  <2> QED
    BY <2>1, <2>2, AsideKeeps
<1>4. CASE PutConsole
  <2>1. CInv'
    BY <1>1, <1>4, PutsKeep
  <2>2. Quiet'
    BY <1>4 DEF PutConsole, Quiet
  <2> QED
    BY <1>4, <2>1, <2>2, PutConsoleKeeps DEF DInv
<1>5. CASE console_run
  <2>1. CInv'
    BY <1>1, <1>5, ReadKeeps, ScanKeeps, OthersKeep DEF console_run
  <2>2. Quiet'
    <3>1. intf
      BY <1>5 DEF console_run, Read, ReadAll, Scan, ScanEnds, Flush, FlushEnds
    <3>2. printer = "nobody"
      BY <1>1, <3>1 DEF CInv, Exclusion
    <3>3. CASE Flush
      BY <3>3 DEF Flush, Quiet
    <3>4. CASE ~Flush
      <4>1. UNCHANGED printer
        BY <1>5, <3>4 DEF console_run, Read, ReadAll, Scan, ScanEnds, FlushEnds, cpu
      <4> QED
        BY <3>2, <4>1 DEF Quiet
    <3> QED
      BY <3>3, <3>4
  <2>3. LineInv' /\ ShownInv'
    <3>1. CASE Read
      BY <3>1, ReadKeepsLine, ReadKeepsShown
    <3>2. CASE Scan
      <4>1. CASE RunsAt(line[c])
        BY <2>1, <3>2, <4>1, RunKeeps
      <4>2. CASE ~RunsAt(line[c])
        BY <3>2, <4>2, PassKeeps
      <4> QED
        BY <4>1, <4>2
    <3>3. CASE ScanEnds \/ ReadAll
      BY <3>3, PassKeeps
    <3>4. CASE Flush \/ FlushEnds
      BY <3>4, FlushKeeps
    <3> QED
      BY <1>5, <3>1, <3>2, <3>3, <3>4 DEF console_run
  <2> QED
    BY <2>1, <2>2, <2>3 DEF DInv
<1> QED
  BY <1>2, <1>3, <1>4, <1>5 DEF Next

\* When the buffer holds no ended line, every ended line is run.
LEMMA DInvSays == DInv => LinesRun /\ Transcript
<1> SUFFICES ASSUME DInv PROVE LinesRun /\ Transcript
  OBVIOUS
<1>1. CInv
  BY DEF DInv
<1>2. ASSUME flaw = {}, con \in {"flush", "hlt"} PROVE ran = Lines(got)
  <2>1. LineHolds /\ Clean
    BY <1>2 DEF DInv, LineInv, ScanHolds
  <2> PICK p \in Nat : p = line_p
    BY <1>1, Facts DEF CInv, TypeOK
  <2> PICK g \in Nat : g = Len(got)
    BY <1>1 DEF CInv, TypeOK
  <2>2. p \in 0 .. line_p /\ \A i \in 0 .. p - 1 : line[i] # CR
    BY <2>1 DEF Clean
  <2>3. Session(got)[Len(got) - line_p + p].done = ran
    BY <1>1, <2>1, <2>2, OpenLine
  <2>4. g - p + p = g
    OBVIOUS
  <2> QED
    BY <2>3, <2>4 DEF Lines
<1>3. LinesRun
  <2>1. flaw = {} => Seqs!IsPrefix(ran, Lines(got))
    BY DEF DInv, LineInv, LineHolds
  <2> QED
    BY <1>2, <2>1 DEF LinesRun
<1>4. Transcript
  <2> SUFFICES ASSUME flaw = {}, ~outDropped
               PROVE  /\ Seqs!IsPrefix(sent, Dialogue(got))
                      /\ con = "hlt" /\ got # <<>> => sent = Dialogue(got)
    BY DEF Transcript
  <2>1. ShownHolds /\ (con = "hlt" => Clean)
    BY DEF DInv, ShownInv, LineInv, ScanHolds
  <2>2. ASSUME con = "hlt", got # <<>> PROVE sent = Dialogue(got)
    <3>1. q_out = <<>> /\ Owed = Dialogue(got)
      BY <2>1, <2>2 DEF ShownHolds
    <3>2. out = Nothing
      BY <1>1, <2>2 DEF DInv, Quiet, CInv, Exclusion
    <3>3. sent \o (<<>> \o <<>>) = sent
      <4>1. sent \in Seq(Token)
        BY <1>1 DEF CInv, TypeOK
      <4> QED
        BY <4>1
    <3> QED
      BY <3>1, <3>2, <3>3 DEF Owed, Pending
  <2> QED
    BY <2>1, <2>2 DEF ShownHolds
<1> QED
  BY <1>3, <1>4

(***************************************************************************)
(* However the bytes of a line are spread over interrupts and calls of     *)
(* console_run, every line is run once, in order and whole, and none       *)
(* waits when task_console halts: as long as no byte came in with the      *)
(* carriage return before it, lines end in a carriage return alone, and    *)
(* they fit line[].                                                        *)
(***************************************************************************)
THEOREM EveryLineRuns == Spec => []LinesRun
BY InitDInv, DInvKept, DInvSays, PTL DEF Spec

(***************************************************************************)
(* The terminal shows the dialogue in order, nothing twice and nothing     *)
(* lost, whoever else prints, and all of it when task_console halts, as    *)
(* long as the output ring had room.                                       *)
(***************************************************************************)
THEOREM DialogueShown == Spec => []Transcript
BY InitDInv, DInvKept, DInvSays, PTL DEF Spec
=============================================================================
