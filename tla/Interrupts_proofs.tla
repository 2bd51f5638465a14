------------------------- MODULE Interrupts_proofs -------------------------
(***************************************************************************)
(* Proofs about Interrupts, for any tasks, any devices and any exceptions: *)
(* no line is left in service, a task that goes on finds its context, and  *)
(* handlers read the frame of their own interrupt.                         *)
(***************************************************************************)
EXTENDS Interrupts, TLAPS

-----------------------------------------------------------------------------
\* Stacks: what was pushed last is on top, and under it what was there before.
LEMMA PushedOnTop ==
  ASSUME NEW S, NEW s \in Seq(S), NEW w \in Seq(S)
  PROVE  /\ s \o w \in Seq(S) /\ Len(s \o w) = Len(s) + Len(w) /\ Len(s) \in Nat
         /\ \A k \in 1 .. Len(w) : FromTop(s \o w, k) = FromTop(w, k)
         /\ \A k \in 1 .. Len(s) : FromTop(s \o w, Len(w) + k) = FromTop(s, k)
         /\ Without(s \o w, Len(w)) = s
BY DEF FromTop, Without

LEMMA Whole ==
  ASSUME NEW S, NEW s \in Seq(S)
  PROVE  SubSeq(s, 1, Len(s)) = s /\ s \o <<>> = s /\ <<>> \o s = s
OBVIOUS

LEMMA Short ==
  ASSUME NEW S, NEW a \in S, NEW b \in S
  PROVE  <<>> \in Seq(S) /\ <<a>> \in Seq(S) /\ <<a, b>> \in Seq(S)
OBVIOUS

LEMMA Elements ==
  ASSUME NEW S, NEW s \in Seq(S), NEW k \in 1 .. Len(s)
  PROVE  s[k] \in S
OBVIOUS

LEMMA Associative ==
  ASSUME NEW S, NEW s \in Seq(S), NEW t \in Seq(S), NEW u \in Seq(S)
  PROVE  (s \o t) \o u = s \o (t \o u)
OBVIOUS

LEMMA SameWords ==
  ASSUME NEW S, NEW s \in Seq(S), NEW t \in Seq(S), Len(s) = Len(t),
         \A k \in 1 .. Len(s) : s[k] = t[k]
  PROVE  s = t
OBVIOUS

LEMMA OneByOne ==
  ASSUME NEW a, NEW b, NEW c, NEW d, NEW e
  PROVE  /\ <<a, b, c>> \o <<>> \o (<<d>> \o <<e>>) = <<a, b, c, d, e>>
         /\ <<a, b, c>> \o <<d>> \o (<<>> \o <<e>>) = <<a, b, c, d, e>>
<1> DEFINE S == {a, b, c, d, e}
<1>1. /\ <<a, b, c>> \in Seq(S) /\ <<d>> \in Seq(S) /\ <<e>> \in Seq(S)
      /\ <<a, b, c, d, e>> \in Seq(S) /\ <<d, e>> \in Seq(S)
  OBVIOUS
<1>2. <<d>> \o <<e>> = <<d, e>>
  <2>1. <<d>> \o <<e>> \in Seq(S) /\ Len(<<d>> \o <<e>>) = 2 /\ Len(<<d, e>>) = 2
    BY <1>1
  <2>2. \A k \in 1 .. 2 : (<<d>> \o <<e>>)[k] = <<d, e>>[k]
    BY <1>1
  <2> QED
    BY <1>1, <2>1, <2>2, SameWords
<1>3. <<a, b, c>> \o <<d, e>> = <<a, b, c, d, e>>
  <2>1. /\ <<a, b, c>> \o <<d, e>> \in Seq(S) /\ Len(<<a, b, c>> \o <<d, e>>) = 5
       /\ Len(<<a, b, c, d, e>>) = 5
    BY <1>1
  <2>2. \A k \in 1 .. 5 : (<<a, b, c>> \o <<d, e>>)[k] = <<a, b, c, d, e>>[k]
    BY <1>1
  <2> QED
    BY <1>1, <2>1, <2>2, SameWords
<1> HIDE DEF S
<1>4. <<a, b, c>> \o <<>> = <<a, b, c>> /\ <<>> \o <<e>> = <<e>>
  BY <1>1, Whole
<1>5. <<a, b, c>> \o <<d>> \o <<e>> = <<a, b, c>> \o (<<d>> \o <<e>>)
  BY <1>1, Associative
<1> QED
  BY <1>2, <1>3, <1>4, <1>5
-----------------------------------------------------------------------------
\* What lies on a stack.
FlagWord   == {Flags(f) : f \in BOOLEAN}
ErrorWord  == {<<"error", v>> : v \in Vector} \cup {<<"dummy">>}
VectorWord == {<<"vector", v>> : v \in Vector}
TaskWord   == {<<t, "task", r>> : t \in Thread, r \in Register}
KernelWord == {<<t, "handler", r>> : t \in Thread, r \in General}
BottomWord == {<<t, k>> : t \in Thread, k \in {"ss", "stack", "fake return"}}
ReturnWord == {<<"ret", pl, <<>>>> : pl \in {"task", "handler"}}
Word == FlagWord \cup ErrorWord \cup VectorWord \cup TaskWord \cup KernelWord
          \cup BottomWord \cup ReturnWord

LEMMA OwnWords ==
  ASSUME NEW t \in Thread
  PROVE  /\ DOMAIN Own(t) = Register /\ DOMAIN InHandler(t) = General
         /\ \A r \in Register : Own(t)[r] = <<t, "task", r>> /\ Own(t)[r] \in Word
         /\ \A r \in General : InHandler(t)[r] = <<t, "handler", r>> /\ InHandler(t)[r] \in Word
<1>1. DOMAIN Own(t) = Register /\ \A r \in Register : Own(t)[r] = <<t, "task", r>>
  BY DEF Own, Register
<1>2. DOMAIN InHandler(t) = General /\ \A r \in General : InHandler(t)[r] = <<t, "handler", r>>
  BY DEF InHandler
<1>3. /\ \A r \in Register : <<t, "task", r>> \in Word
      /\ \A r \in General : <<t, "handler", r>> \in Word
  BY DEF Word, TaskWord, KernelWord
<1> QED
  BY <1>1, <1>2, <1>3

\* The stubs push twelve registers, and all_interrupt_ret pops them in reverse.
LEMMA Orders ==
  /\ PushOrder \in Seq(General \cup Segment) /\ Len(PushOrder) = 12
  /\ \A k \in 1 .. 12 : PopOrder[k] = PushOrder[13 - k]
  /\ \A r \in General \cup Segment : \E k \in 1 .. 12 : PopOrder[k] = r
<1>1. PushOrder \in Seq(General \cup Segment) /\ Len(PushOrder) = 12
  BY DEF PushOrder, General, Segment
<1>2. \A k \in 1 .. 12 : PopOrder[k] = PushOrder[13 - k]
  BY DEF PushOrder, PopOrder
<1>3. \A r \in General \cup Segment : \E k \in 1 .. 12 : PopOrder[k] = r
  <2>1. /\ PopOrder[1] = "edi" /\ PopOrder[2] = "esi" /\ PopOrder[3] = "ebp" /\ PopOrder[4] = "esp"
        /\ PopOrder[5] = "ebx" /\ PopOrder[6] = "edx" /\ PopOrder[7] = "ecx" /\ PopOrder[8] = "eax"
        /\ PopOrder[9] = "gs" /\ PopOrder[10] = "fs" /\ PopOrder[11] = "es" /\ PopOrder[12] = "ds"
    BY DEF PopOrder
  <2> QED
    BY <2>1 DEF General, Segment
<1> QED
  BY <1>1, <1>2, <1>3

LEMMA Registers ==
  ASSUME NEW t \in Thread
  PROVE  /\ Words(Own(t), PushOrder) \in Seq(Word) /\ Len(Words(Own(t), PushOrder)) = 12
         /\ \A k \in 1 .. 12 : FromTop(Words(Own(t), PushOrder), k) = Own(t)[PopOrder[k]]
<1>1. \A r \in General \cup Segment : Own(t)[r] \in Word
  BY OwnWords DEF Register
<1>2. /\ Words(Own(t), PushOrder) \in Seq(Word) /\ Len(Words(Own(t), PushOrder)) = 12
      /\ \A k \in 1 .. 12 : Words(Own(t), PushOrder)[k] = Own(t)[PushOrder[k]]
  <2>1. PushOrder \in Seq(General \cup Segment) /\ DOMAIN PushOrder = 1 .. 12
    BY Orders
  <2>2. \A k \in 1 .. 12 : PushOrder[k] \in General \cup Segment
    BY Orders, Elements
  <2>3. Words(Own(t), PushOrder) = [k \in 1 .. 12 |-> Own(t)[PushOrder[k]]]
    BY <2>1 DEF Words
  <2> QED
    BY <1>1, <2>2, <2>3
<1>3. ASSUME NEW k \in 1 .. 12
      PROVE  FromTop(Words(Own(t), PushOrder), k) = Own(t)[PopOrder[k]]
  BY <1>2, Orders DEF FromTop
<1> QED
  BY <1>2, <1>3

\* The CPU's words and the stub's, over the words that were there.
LEMMA FiveWords ==
  ASSUME NEW t \in Thread, NEW f \in BOOLEAN, NEW v \in Vector, NEW e \in {<<"error", v>>, <<"dummy">>}
  PROVE  LET five == <<Flags(f), Own(t)["cs"], Own(t)["eip"], e, <<"vector", v>>>>
         IN  /\ five \in Seq(Word) /\ Len(five) = 5
             /\ FromTop(five, 1) = <<"vector", v>> /\ FromTop(five, 3) = Own(t)["eip"]
             /\ FromTop(five, 4) = Own(t)["cs"] /\ FromTop(five, 5) = Flags(f)
<1>1. Flags(f) \in Word
  <2>1. Flags(f) \in FlagWord
    BY DEF FlagWord
  <2> QED
    BY <2>1 DEF Word
<1>2. <<"vector", v>> \in Word
  <2>1. <<"vector", v>> \in VectorWord
    BY DEF VectorWord
  <2> QED
    BY <2>1 DEF Word
<1>3. e \in Word
  <2>1. e \in ErrorWord
    BY DEF ErrorWord
  <2> QED
    BY <2>1 DEF Word
<1>4. Own(t)["cs"] \in Word /\ Own(t)["eip"] \in Word
  BY OwnWords DEF Register
<1> QED
  BY <1>1, <1>2, <1>3, <1>4 DEF FromTop

Height(t) == IF t \in UTask THEN 19 ELSE 17
LEMMA PushedShape ==
  ASSUME NEW t \in Thread, NEW f \in BOOLEAN, NEW v \in Vector
  PROVE  /\ Pushed(t, f, v) \in Seq(Word) /\ Len(Pushed(t, f, v)) = Height(t)
         /\ \A k \in 1 .. 12 : FromTop(Pushed(t, f, v), k) = Own(t)[PopOrder[k]]
         /\ FromTop(Pushed(t, f, v), 13) = <<"vector", v>>
         /\ FromTop(Pushed(t, f, v), 15) = Own(t)["eip"]
         /\ FromTop(Pushed(t, f, v), 16) = Own(t)["cs"]
         /\ FromTop(Pushed(t, f, v), 17) = Flags(f)
         /\ t \in UTask => FromTop(Pushed(t, f, v), 18) = <<t, "stack">>
<1> DEFINE e == IF v \in NoDummy THEN <<"error", v>> ELSE <<"dummy">>
           five == <<Flags(f), Own(t)["cs"], Own(t)["eip"], e, <<"vector", v>>>>
           top == FrameTop(t)
           under == top \o five
           regsOf == Words(Own(t), PushOrder)
<1>1. Pushed(t, f, v) = under \o regsOf
  BY DEF Pushed
<1>2. /\ five \in Seq(Word) /\ Len(five) = 5
      /\ FromTop(five, 1) = <<"vector", v>> /\ FromTop(five, 3) = Own(t)["eip"]
      /\ FromTop(five, 4) = Own(t)["cs"] /\ FromTop(five, 5) = Flags(f)
  BY FiveWords
<1>3. /\ top \in Seq(Word) /\ Len(top) = Height(t) - 17
      /\ t \in UTask => FromTop(top, 1) = <<t, "stack">>
  <2>1. <<t, "ss">> \in Word /\ <<t, "stack">> \in Word
    BY DEF Word, BottomWord
  <2> QED
    BY <2>1 DEF FrameTop, UserTop, Height, FromTop
<1>4. /\ regsOf \in Seq(Word) /\ Len(regsOf) = 12
      /\ \A k \in 1 .. 12 : FromTop(regsOf, k) = Own(t)[PopOrder[k]]
  BY Registers
<1> HIDE DEF five, top, regsOf
<1>5. /\ under \in Seq(Word) /\ Len(under) = Height(t) - 12
      /\ \A k \in 1 .. 5 : FromTop(under, k) = FromTop(five, k)
      /\ \A k \in 1 .. Len(top) : FromTop(under, 5 + k) = FromTop(top, k)
  <2>1. /\ under \in Seq(Word) /\ Len(under) = Len(top) + Len(five)
        /\ \A k \in 1 .. Len(five) : FromTop(under, k) = FromTop(five, k)
        /\ \A k \in 1 .. Len(top) : FromTop(under, Len(five) + k) = FromTop(top, k)
    <3>1. top \in Seq(Word)
      BY <1>3
    <3>2. five \in Seq(Word)
      BY <1>2
    <3> QED
      BY <3>1, <3>2, PushedOnTop
  <2> QED
    BY <1>2, <1>3, <2>1 DEF Height
<1> HIDE DEF under
<1>6. /\ under \o regsOf \in Seq(Word) /\ Len(under \o regsOf) = Height(t)
      /\ \A k \in 1 .. 12 : FromTop(under \o regsOf, k) = FromTop(regsOf, k)
      /\ \A k \in 1 .. Len(under) : FromTop(under \o regsOf, 12 + k) = FromTop(under, k)
  <2>1. /\ under \o regsOf \in Seq(Word) /\ Len(under \o regsOf) = Len(under) + Len(regsOf)
        /\ \A k \in 1 .. Len(regsOf) : FromTop(under \o regsOf, k) = FromTop(regsOf, k)
        /\ \A k \in 1 .. Len(under) : FromTop(under \o regsOf, Len(regsOf) + k) = FromTop(under, k)
    <3>1. under \in Seq(Word)
      BY <1>5
    <3>2. regsOf \in Seq(Word)
      BY <1>4
    <3> QED
      BY <3>1, <3>2, PushedOnTop
  <2> QED
    BY <1>4, <1>5, <2>1 DEF Height
<1>7. Len(under) \in {5, 7} /\ (t \in UTask => Len(under) = 7 /\ Len(top) = 2)
  BY <1>3, <1>5 DEF Height
<1>8. /\ FromTop(under \o regsOf, 13) = FromTop(under, 1)
      /\ FromTop(under \o regsOf, 15) = FromTop(under, 3)
      /\ FromTop(under \o regsOf, 16) = FromTop(under, 4)
      /\ FromTop(under \o regsOf, 17) = FromTop(under, 5)
      /\ t \in UTask => FromTop(under \o regsOf, 18) = FromTop(under, 6)
  <2>1. 1 \in 1 .. Len(under) /\ 3 \in 1 .. Len(under) /\ 4 \in 1 .. Len(under) /\ 5 \in 1 .. Len(under)
        /\ (t \in UTask => 6 \in 1 .. Len(under))
    <3>1. \A m \in {5, 7} : 1 \in 1 .. m /\ 3 \in 1 .. m /\ 4 \in 1 .. m /\ 5 \in 1 .. m
      OBVIOUS
    <3>2. 6 \in 1 .. 7
      OBVIOUS
    <3> QED
      BY <1>7, <3>1, <3>2
  <2>2. 12 + 1 = 13 /\ 12 + 3 = 15 /\ 12 + 4 = 16 /\ 12 + 5 = 17 /\ 12 + 6 = 18
    OBVIOUS
  <2> QED
    BY <1>6, <2>1, <2>2
<1>9. /\ FromTop(under, 1) = FromTop(five, 1) /\ FromTop(under, 3) = FromTop(five, 3)
      /\ FromTop(under, 4) = FromTop(five, 4) /\ FromTop(under, 5) = FromTop(five, 5)
      /\ t \in UTask => FromTop(under, 6) = FromTop(top, 1)
  <2>1. t \in UTask => FromTop(under, 5 + 1) = FromTop(top, 1)
    <3>1. t \in UTask => 1 \in 1 .. Len(top)
      <4>1. 1 \in 1 .. 2
        OBVIOUS
      <4> QED
        BY <1>7, <4>1
    <3> QED
      BY <1>5, <3>1
  <2>2. 5 + 1 = 6 /\ 1 \in 1 .. 5 /\ 3 \in 1 .. 5 /\ 4 \in 1 .. 5 /\ 5 \in 1 .. 5
    OBVIOUS
  <2> QED
    BY <1>5, <2>1, <2>2
<1> QED
  BY <1>1, <1>2, <1>3, <1>4, <1>6, <1>8, <1>9

LEMMA Bottoms ==
  ASSUME NEW t \in Thread
  PROVE  Bottom(t) \in Seq(Word) /\ FrameTop(t) \in Seq(Word) /\ UserTop(t) \in Seq(Word)
<1>1. <<t, "ss">> \in Word /\ <<t, "stack">> \in Word /\ <<t, "fake return">> \in Word
  <2>1. <<t, "ss">> \in BottomWord /\ <<t, "stack">> \in BottomWord
    BY DEF BottomWord
  <2>2. <<t, "fake return">> \in BottomWord
    BY DEF BottomWord
  <2> QED
    BY <2>1, <2>2 DEF Word
<1>2. <<>> \in Seq(Word) /\ <<<<t, "fake return">>>> \in Seq(Word)
  BY <1>1, Short
<1>3. UserTop(t) \in Seq(Word)
  BY <1>1, Short DEF UserTop
<1> QED
  BY <1>2, <1>3 DEF Bottom, FrameTop

LEMMA FrameShape ==
  ASSUME NEW t \in Thread, NEW f \in BOOLEAN, NEW v \in Vector
  PROVE  /\ Frame(t, f, v) \in Seq(Word) /\ Without(Frame(t, f, v), Height(t)) = Bottom(t)
         /\ \A k \in 1 .. 12 : FromTop(Frame(t, f, v), k) = Own(t)[PopOrder[k]]
         /\ FromTop(Frame(t, f, v), 13) = <<"vector", v>>
         /\ FromTop(Frame(t, f, v), 15) = Own(t)["eip"]
         /\ FromTop(Frame(t, f, v), 16) = Own(t)["cs"]
         /\ FromTop(Frame(t, f, v), 17) = Flags(f)
         /\ t \in UTask => FromTop(Frame(t, f, v), 18) = <<t, "stack">>
<1> DEFINE under == Bottom(t)
           w == Pushed(t, f, v)
<1>1. under \in Seq(Word)
  BY Bottoms
<1>2. w \in Seq(Word) /\ Len(w) = Height(t)
  BY PushedShape
<1>3. Frame(t, f, v) = under \o w
  BY DEF Frame
<1> HIDE DEF under, w
<1>4. /\ under \o w \in Seq(Word) /\ Without(under \o w, Len(w)) = under
      /\ \A k \in 1 .. Len(w) : FromTop(under \o w, k) = FromTop(w, k)
  BY <1>1, <1>2, PushedOnTop
<1>5. /\ \A k \in 1 .. 17 : FromTop(under \o w, k) = FromTop(w, k)
      /\ t \in UTask => FromTop(under \o w, 18) = FromTop(w, 18)
  BY <1>2, <1>4 DEF Height
<1>6. 13 \in 1 .. 17 /\ 15 \in 1 .. 17 /\ 16 \in 1 .. 17 /\ 17 \in 1 .. 17
      /\ \A k \in 1 .. 12 : k \in 1 .. 17
  OBVIOUS
<1>7. /\ \A k \in 1 .. 12 : FromTop(w, k) = Own(t)[PopOrder[k]]
      /\ FromTop(w, 13) = <<"vector", v>> /\ FromTop(w, 15) = Own(t)["eip"]
      /\ FromTop(w, 16) = Own(t)["cs"] /\ FromTop(w, 17) = Flags(f)
      /\ t \in UTask => FromTop(w, 18) = <<t, "stack">>
  BY PushedShape DEF w
<1>8. Without(under \o w, Height(t)) = Bottom(t)
  BY <1>2, <1>4 DEF under
<1> QED
  BY <1>3, <1>4, <1>5, <1>6, <1>7, <1>8

\* context_switch pops the four registers that it pushed.
LEMMA ContextShape ==
  ASSUME NEW v, \A r \in Callee : v[r] \in Word, NEW pl \in {"task", "handler"}, NEW s \in Seq(Word)
  PROVE  LET w == s \o ContextOf(v, pl, <<>>)
         IN  /\ w \in Seq(Word) /\ Without(w, 5) = s /\ FromTop(w, 5) = <<"ret", pl, <<>>>>
             /\ \A r \in Callee : FromTop(w, CHOOSE k \in 1 .. 4 : PopContext[k] = r) = v[r]
<1> DEFINE c == ContextOf(v, pl, <<>>)
           four == <<v["ebp"], v["ebx"], v["esi"], v["edi"]>>
           ret == <<"ret", pl, <<>>>>
<1>1. ret \in Word
  BY DEF Word, ReturnWord
<1>2. four \in Seq(Word) /\ Len(four) = 4 /\ <<ret>> \in Seq(Word) /\ Len(<<ret>>) = 1
  BY <1>1 DEF Callee
<1>3. Words(v, <<"ebp", "ebx", "esi", "edi">>) = four
  BY DEF Words
<1>4. c = <<ret>> \o four
  BY <1>3 DEF ContextOf
<1>5. \A r \in Callee : FromTop(four, CHOOSE k \in 1 .. 4 : PopContext[k] = r) = v[r]
                        /\ (CHOOSE k \in 1 .. 4 : PopContext[k] = r) \in 1 .. 4
  <2> SUFFICES ASSUME NEW r \in Callee
               PROVE  LET k == CHOOSE k \in 1 .. 4 : PopContext[k] = r
                      IN  FromTop(four, k) = v[r] /\ k \in 1 .. 4
    OBVIOUS
  <2> DEFINE n == CHOOSE k \in 1 .. 4 : PopContext[k] = r
  <2>1. \E k \in 1 .. 4 : PopContext[k] = r
    <3>1. PopContext[1] = "edi" /\ PopContext[2] = "esi" /\ PopContext[3] = "ebx" /\ PopContext[4] = "ebp"
      BY DEF PopContext
    <3> QED
      BY <3>1 DEF Callee
  <2>2. n \in 1 .. 4 /\ PopContext[n] = r
    BY <2>1
  <2> HIDE DEF n
  <2>3. FromTop(four, n) = v[PopContext[n]]
    BY <2>2 DEF FromTop, PopContext
  <2> QED
    BY <2>2, <2>3 DEF n
<1>6. FromTop(<<ret>>, 1) = ret
  BY DEF FromTop
<1> HIDE DEF four, ret
<1>7. /\ <<ret>> \o four \in Seq(Word) /\ Len(<<ret>> \o four) = Len(<<ret>>) + Len(four)
      /\ \A k \in 1 .. Len(four) : FromTop(<<ret>> \o four, k) = FromTop(four, k)
      /\ \A k \in 1 .. Len(<<ret>>) : FromTop(<<ret>> \o four, Len(four) + k) = FromTop(<<ret>>, k)
  <2> DEFINE one == <<ret>>
  <2>1. one \in Seq(Word)
    BY <1>2
  <2>2. four \in Seq(Word)
    BY <1>2
  <2> HIDE DEF one
  <2>3. /\ one \o four \in Seq(Word) /\ Len(one \o four) = Len(one) + Len(four)
        /\ \A k \in 1 .. Len(four) : FromTop(one \o four, k) = FromTop(four, k)
        /\ \A k \in 1 .. Len(one) : FromTop(one \o four, Len(four) + k) = FromTop(one, k)
    BY <2>1, <2>2, PushedOnTop
  <2> QED
    BY <2>3 DEF one
<1>8. /\ c \in Seq(Word) /\ Len(c) = 5 /\ FromTop(c, 5) = ret
      /\ \A k \in 1 .. 4 : FromTop(c, k) = FromTop(four, k)
  <2>1. FromTop(<<ret>> \o four, 4 + 1) = FromTop(<<ret>>, 1)
    BY <1>2, <1>7
  <2>2. 4 + 1 = 5 /\ 1 + 4 = 5
    OBVIOUS
  <2> QED
    BY <1>2, <1>4, <1>6, <1>7, <2>1, <2>2
<1> HIDE DEF c
<1>9. /\ s \o c \in Seq(Word) /\ Without(s \o c, Len(c)) = s
      /\ \A k \in 1 .. Len(c) : FromTop(s \o c, k) = FromTop(c, k)
  <2>1. c \in Seq(Word)
    BY <1>8
  <2> QED
    BY <2>1, PushedOnTop
<1>10. /\ Without(s \o c, 5) = s /\ FromTop(s \o c, 5) = ret
       /\ \A k \in 1 .. 4 : FromTop(s \o c, k) = FromTop(four, k)
  BY <1>8, <1>9
<1>11. \A r \in Callee : FromTop(s \o c, CHOOSE k \in 1 .. 4 : PopContext[k] = r) = v[r]
  BY <1>5, <1>10
<1> QED
  BY <1>9, <1>10, <1>11 DEF c, ret

-----------------------------------------------------------------------------
\* An entry by vector v builds the frame that the handler expects.
LEMMA Stub ==
  ASSUME NEW v, v \notin Unlisted, NEW a, NEW b, NEW c
  PROVE  LET e == IF v \in NoDummy THEN <<"error", v>> ELSE <<"dummy">>
         IN  <<a, b, c>> \o ErrorCode(v) \o StubDummy(v) = <<a, b, c, e, <<"vector", v>>>>
<1>1. CASE v \in NoDummy
  <2>1. /\ ErrorCode(v) = <<<<"error", v>>>> /\ StubDummy(v) = <<>> \o <<<<"vector", v>>>>
    BY <1>1 DEF ErrorCode, StubDummy
  <2> DEFINE d == <<"error", v>>  n == <<"vector", v>>
  <2> HIDE DEF d, n
  <2>2. <<a, b, c>> \o <<d>> \o (<<>> \o <<n>>) = <<a, b, c, d, n>>
    BY OneByOne
  <2> QED
    BY <1>1, <2>1, <2>2 DEF d, n
<1>2. CASE v \notin NoDummy
  <2>1. /\ ErrorCode(v) = <<>> /\ StubDummy(v) = <<<<"dummy">>>> \o <<<<"vector", v>>>>
    BY <1>2 DEF ErrorCode, StubDummy
  <2> DEFINE d == <<"dummy">>  n == <<"vector", v>>
  <2> HIDE DEF d, n
  <2>2. <<a, b, c>> \o <<>> \o (<<d>> \o <<n>>) = <<a, b, c, d, n>>
    BY OneByOne
  <2> QED
    BY <1>2, <2>1, <2>2 DEF d, n
<1> QED
  BY <1>1, <1>2

LEMMA EntryFrame ==
  ASSUME NEW t \in Task, NEW f \in BOOLEAN, NEW v \in Vector, v \notin Unlisted
  PROVE  (IF t \in UTask THEN UserTop(t) ELSE Bottom(t)) \o <<Flags(f), Own(t)["cs"], Own(t)["eip"]>>
           \o ErrorCode(v) \o StubDummy(v) \o Words(Own(t), PushOrder) = Frame(t, f, v)
<1> DEFINE base == IF t \in UTask THEN UserTop(t) ELSE Bottom(t)
           three == <<Flags(f), Own(t)["cs"], Own(t)["eip"]>>
           e == IF v \in NoDummy THEN <<"error", v>> ELSE <<"dummy">>
           five == <<Flags(f), Own(t)["cs"], Own(t)["eip"], e, <<"vector", v>>>>
           regsOf == Words(Own(t), PushOrder)
<1>1. t \in Thread
  BY DEF Thread
<1>2. base \in Seq(Word) /\ Bottom(t) \in Seq(Word) /\ FrameTop(t) \in Seq(Word)
  BY <1>1, Bottoms
<1>3. five \in Seq(Word)
  BY <1>1, FiveWords
<1>4. regsOf \in Seq(Word)
  BY <1>1, Registers
<1>5. three \in Seq(Word) /\ ErrorCode(v) \in Seq(Word) /\ StubDummy(v) \in Seq(Word)
  <2>1. Flags(f) \in Word
    <3>1. Flags(f) \in FlagWord
      BY DEF FlagWord
    <3> QED
      BY <3>1 DEF Word
  <2>2. Own(t)["cs"] \in Word /\ Own(t)["eip"] \in Word
    BY <1>1, OwnWords DEF Register
  <2>3. <<"error", v>> \in Word /\ <<"dummy">> \in Word
    <3>1. <<"error", v>> \in ErrorWord
      BY DEF ErrorWord
    <3>2. <<"dummy">> \in ErrorWord
      BY DEF ErrorWord
    <3> QED
      BY <3>1, <3>2 DEF Word
  <2>4. <<"vector", v>> \in Word
    <3>1. <<"vector", v>> \in VectorWord
      BY DEF VectorWord
    <3> QED
      BY <3>1 DEF Word
  <2>5. three \in Seq(Word)
    BY <2>1, <2>2
  <2>6. ErrorCode(v) \in Seq(Word)
    BY <2>3 DEF ErrorCode
  <2>7. StubDummy(v) \in Seq(Word)
    BY <2>3, <2>4 DEF StubDummy
  <2> QED
    BY <2>5, <2>6, <2>7
<1>6. three \o ErrorCode(v) \o StubDummy(v) = five
  BY Stub
<1> HIDE DEF base, three, five, regsOf
<1>7. base \o three \o ErrorCode(v) \o StubDummy(v) = base \o five
  <2>1. (base \o three) \o ErrorCode(v) = base \o (three \o ErrorCode(v))
    <3> DEFINE mid == ErrorCode(v)
    <3>1. base \in Seq(Word)
      BY <1>2
    <3>2. three \in Seq(Word)
      BY <1>5
    <3>3. mid \in Seq(Word)
      BY <1>5
    <3> HIDE DEF mid
    <3>4. (base \o three) \o mid = base \o (three \o mid)
      BY <3>1, <3>2, <3>3, Associative
    <3> QED
      BY <3>4 DEF mid
  <2>2. three \o ErrorCode(v) \in Seq(Word)
    BY <1>5
  <2>3. (base \o (three \o ErrorCode(v))) \o StubDummy(v) = base \o ((three \o ErrorCode(v)) \o StubDummy(v))
    <3> DEFINE mid == three \o ErrorCode(v)
           last == StubDummy(v)
    <3>1. mid \in Seq(Word)
      BY <2>2
    <3>2. last \in Seq(Word)
      BY <1>5
    <3>3. base \in Seq(Word)
      BY <1>2
    <3> HIDE DEF mid, last
    <3>4. (base \o mid) \o last = base \o (mid \o last)
      BY <3>1, <3>2, <3>3, Associative
    <3> QED
      BY <3>4 DEF mid, last
  <2> QED
    BY <1>6, <2>1, <2>3
<1>8. Pushed(t, f, v) = FrameTop(t) \o five \o regsOf
  BY DEF Pushed, five, regsOf
<1>9. CASE t \in UTask
  <2>1. base = FrameTop(t) /\ Bottom(t) = <<>>
    BY <1>9 DEF base, FrameTop, Bottom
  <2>2. Frame(t, f, v) = Pushed(t, f, v)
    <3>1. Pushed(t, f, v) \in Seq(Word)
      BY <1>1, PushedShape
    <3> QED
      BY <2>1, <3>1, Whole DEF Frame
  <2> QED
    BY <1>7, <1>8, <2>1, <2>2 DEF base, three, regsOf
<1>10. CASE t \notin UTask
  <2>1. base = Bottom(t) /\ FrameTop(t) = <<>>
    BY <1>10 DEF base, FrameTop
  <2>2. Pushed(t, f, v) = five \o regsOf
    BY <1>3, <1>8, <2>1, Whole
  <2>3. (base \o five) \o regsOf = base \o (five \o regsOf)
    <3>1. base \in Seq(Word)
      BY <1>2
    <3> QED
      BY <1>3, <1>4, <3>1, Associative
  <2> QED
    BY <1>7, <2>1, <2>2, <2>3 DEF base, three, regsOf, Frame
<1> QED
  BY <1>9, <1>10

\* The number lies where the handler looks for it, whatever the CPU pushed.
LEMMA EntryNumber ==
  ASSUME NEW t \in Task, NEW f \in BOOLEAN, NEW v \in Vector
  PROVE  FromTop((IF t \in UTask THEN UserTop(t) ELSE Bottom(t))
                   \o <<Flags(f), Own(t)["cs"], Own(t)["eip"]>>
                   \o ErrorCode(v) \o StubDummy(v) \o Words(Own(t), PushOrder), 13)
         = <<"vector", v>>
<1> DEFINE base == IF t \in UTask THEN UserTop(t) ELSE Bottom(t)
           three == <<Flags(f), Own(t)["cs"], Own(t)["eip"]>>
           below == base \o three \o ErrorCode(v)
           dummy == IF v \in NoDummy THEN <<>> ELSE <<<<"dummy">>>>
           number == <<"vector", v>>
           last == <<number>>
           regsOf == Words(Own(t), PushOrder)
<1>1. t \in Thread
  BY DEF Thread
<1>2. base \in Seq(Word)
  BY <1>1, Bottoms
<1>3. regsOf \in Seq(Word) /\ Len(regsOf) = 12
  BY <1>1, Registers
<1>4. three \in Seq(Word) /\ ErrorCode(v) \in Seq(Word) /\ dummy \in Seq(Word)
  <2>1. Flags(f) \in Word
    <3>1. Flags(f) \in FlagWord
      BY DEF FlagWord
    <3> QED
      BY <3>1 DEF Word
  <2>2. Own(t)["cs"] \in Word /\ Own(t)["eip"] \in Word
    BY <1>1, OwnWords DEF Register
  <2>3. <<"error", v>> \in Word /\ <<"dummy">> \in Word
    <3>1. <<"error", v>> \in ErrorWord
      BY DEF ErrorWord
    <3>2. <<"dummy">> \in ErrorWord
      BY DEF ErrorWord
    <3> QED
      BY <3>1, <3>2 DEF Word
  <2>4. three \in Seq(Word)
    BY <2>1, <2>2
  <2>5. ErrorCode(v) \in Seq(Word)
    BY <2>3 DEF ErrorCode
  <2>6. dummy \in Seq(Word)
    BY <2>3
  <2> QED
    BY <2>4, <2>5, <2>6
<1>5. last \in Seq(Word) /\ Len(last) = 1 /\ FromTop(last, 1) = number
  <2>1. number \in Word
    <3>1. number \in VectorWord
      BY DEF VectorWord
    <3> QED
      BY <3>1 DEF Word
  <2> HIDE DEF number
  <2> QED
    BY <2>1 DEF FromTop
<1>6. StubDummy(v) = dummy \o last
  BY DEF StubDummy
<1> HIDE DEF base, three, dummy, last, regsOf
<1>7. below \in Seq(Word)
  <2> DEFINE code == ErrorCode(v)
  <2>1. code \in Seq(Word)
    BY <1>4
  <2> HIDE DEF code
  <2>2. base \o three \o code \in Seq(Word)
    BY <1>2, <1>4, <2>1
  <2> QED
    BY <2>2 DEF code
<1> HIDE DEF below
<1>8. dummy \o last \in Seq(Word) /\ Len(dummy \o last) >= 1 /\ FromTop(dummy \o last, 1) = number
  <2>1. /\ dummy \o last \in Seq(Word) /\ Len(dummy \o last) = Len(dummy) + Len(last) /\ Len(dummy) \in Nat
        /\ \A k \in 1 .. Len(last) : FromTop(dummy \o last, k) = FromTop(last, k)
    <3>1. dummy \in Seq(Word)
      BY <1>4
    <3>2. last \in Seq(Word)
      BY <1>5
    <3> QED
      BY <3>1, <3>2, PushedOnTop
  <2>2. \A n, k \in Nat : n = k + 1 => n >= 1
    OBVIOUS
  <2>3. Len(dummy \o last) \in Nat
    BY <2>1
  <2>4. Len(dummy \o last) >= 1
    BY <1>5, <2>1, <2>2, <2>3
  <2>5. 1 \in 1 .. Len(last)
    BY <1>5
  <2> QED
    BY <1>5, <2>1, <2>4, <2>5
<1> DEFINE stub == dummy \o last
<1>9. stub \in Seq(Word) /\ Len(stub) >= 1 /\ FromTop(stub, 1) = number
  BY <1>8
<1> HIDE DEF stub
<1>10. /\ below \o stub \in Seq(Word) /\ Len(below \o stub) >= 1
       /\ FromTop(below \o stub, 1) = number
  <2>1. /\ below \o stub \in Seq(Word) /\ Len(below \o stub) = Len(below) + Len(stub) /\ Len(below) \in Nat
        /\ \A k \in 1 .. Len(stub) : FromTop(below \o stub, k) = FromTop(stub, k)
    BY <1>7, <1>9, PushedOnTop
  <2>2. Len(stub) \in Nat
    BY <1>9
  <2> QED
    BY <1>9, <2>1, <2>2
<1> DEFINE whole == below \o stub
<1>11. whole \in Seq(Word) /\ Len(whole) >= 1 /\ FromTop(whole, 1) = number
  BY <1>10
<1> HIDE DEF whole
<1>12. FromTop(whole \o regsOf, 13) = number
  <2>1. \A k \in 1 .. Len(whole) : FromTop(whole \o regsOf, Len(regsOf) + k) = FromTop(whole, k)
    BY <1>3, <1>11, PushedOnTop
  <2>2. Len(whole) \in Nat /\ 1 \in 1 .. Len(whole)
    BY <1>11
  <2>3. FromTop(whole \o regsOf, 12 + 1) = FromTop(whole, 1)
    BY <1>3, <2>1, <2>2
  <2>4. 12 + 1 = 13
    OBVIOUS
  <2> QED
    BY <1>11, <2>3, <2>4
<1> QED
  BY <1>6, <1>12 DEF whole, stub, below, base, three, regsOf

\* ktask_init and utask_init build what an interrupt and a switch would have left.
LEMMA Created ==
  ASSUME NEW t \in Thread, NEW f \in BOOLEAN
  PROVE  NewStack(t, Flags(f)) = Frame(t, f, 0) \o ContextOf(InHandler(t), "handler", <<>>)
<1> DEFINE five == <<Flags(f), Own(t)["cs"], Own(t)["eip"], <<"dummy">>, <<"vector", 0>>>>
           regsOf == Words(Own(t), PushOrder)
<1>1. 0 \in Vector /\ 0 \notin NoDummy
  BY DEF Vector, NoDummy
<1>2. Bottom(t) \in Seq(Word) /\ FrameTop(t) \in Seq(Word)
  BY Bottoms
<1>3. five \in Seq(Word)
  BY <1>1, FiveWords
<1>4. regsOf \in Seq(Word)
  BY Registers
<1>5. Pushed(t, f, 0) = FrameTop(t) \o five \o regsOf
  BY <1>1 DEF Pushed
<1> HIDE DEF five, regsOf
<1>6. (Bottom(t) \o FrameTop(t)) \o five = Bottom(t) \o (FrameTop(t) \o five)
  BY <1>2, <1>3, Associative
<1>7. FrameTop(t) \o five \in Seq(Word)
  BY <1>2, <1>3
<1>8. (Bottom(t) \o (FrameTop(t) \o five)) \o regsOf = Bottom(t) \o ((FrameTop(t) \o five) \o regsOf)
  <2> DEFINE mid == FrameTop(t) \o five
  <2>1. mid \in Seq(Word)
    BY <1>7
  <2> HIDE DEF mid
  <2>2. (Bottom(t) \o mid) \o regsOf = Bottom(t) \o (mid \o regsOf)
    BY <1>2, <1>4, <2>1, Associative
  <2> QED
    BY <2>2 DEF mid
<1>9. Bottom(t) \o FrameTop(t) \o five \o regsOf = Frame(t, f, 0)
  BY <1>5, <1>6, <1>8 DEF Frame
<1> QED
  BY <1>9 DEF NewStack, five, regsOf

-----------------------------------------------------------------------------
\* The boot, statement by statement.
LEMMA BootSteps ==
  /\ \A k \in 1 .. 10 : Boot[k] = init_pic(Line \ Enabled)[k]
  /\ Boot[11] = SetIdt(32) /\ Boot[12] = SetIdt(128) /\ Boot[13] = SetIdt(36)
  /\ Boot[14] = SetIdt(38) /\ Boot[15] = [op |-> "start_mtask"]
<1> DEFINE pics == init_pic(Line \ Enabled)
           a == SetIdt(32)  b == SetIdt(128)  c == SetIdt(36)  d == SetIdt(38)
           e == [op |-> "start_mtask"]
           rest == <<a, b, c, d, e>>
<1>1. Boot = pics \o rest
  BY DEF Boot
<1> HIDE DEF a, b, c, d, e
<1>2. pics = [k \in 1 .. 10 |-> pics[k]] /\ Len(pics) = 10
  BY DEF init_pic
<1>3. /\ Len(rest) = 5 /\ rest[1] = a /\ rest[2] = b /\ rest[3] = c /\ rest[4] = d /\ rest[5] = e
  OBVIOUS
<1> DEFINE S == {pics[k] : k \in 1 .. 10} \cup {a, b, c, d, e}
<1>4. rest \in Seq(S)
  OBVIOUS
<1> HIDE DEF pics
<1>5. pics \in Seq(S)
  BY <1>2
<1> HIDE DEF rest, S
<1>6. /\ \A k \in 1 .. Len(pics) : (pics \o rest)[k] = pics[k]
      /\ \A k \in 1 .. Len(rest) : (pics \o rest)[Len(pics) + k] = rest[k]
  BY <1>4, <1>5
<1>7. \A m \in 11 .. 15 : Boot[m] = rest[m - 10]
  <2> SUFFICES ASSUME NEW m \in 11 .. 15 PROVE Boot[m] = rest[m - 10]
    OBVIOUS
  <2>1. m - 10 \in 1 .. Len(rest) /\ Len(pics) + (m - 10) = m
    BY <1>2, <1>3
  <2> QED
    BY <1>1, <1>6, <2>1
<1>8. /\ Boot[11] = rest[1] /\ Boot[12] = rest[2] /\ Boot[13] = rest[3] /\ Boot[14] = rest[4]
      /\ Boot[15] = rest[5]
  BY <1>7
<1> QED
  BY <1>1, <1>2, <1>3, <1>6, <1>8 DEF pics, a, b, c, d, e

LEMMA BootTable ==
  /\ \A k \in 1 .. 10 : Boot[k].op = "out"
  /\ \A k \in {1, 3, 5, 7, 9} : Boot[k].chip = "master"
  /\ \A k \in {2, 4, 6, 8, 10} : Boot[k].chip = "slave"
  /\ Boot[1].port = "command" /\ \A k \in {3, 5, 7, 9} : Boot[k].port = "data"
  /\ Boot[3].data = PIC_INTR_VEC_BASE /\ Boot[9].data = Line \ Enabled
  /\ \A k \in 11 .. 14 : Boot[k].op = "set_idt"
  /\ Boot[11].v = 32 /\ Boot[12].v = 128 /\ Boot[13].v = 36 /\ Boot[14].v = 38
  /\ Boot[15].op = "start_mtask"
<1>1. /\ \A k \in 1 .. 10 : init_pic(Line \ Enabled)[k].op = "out"
      /\ \A k \in {1, 3, 5, 7, 9} : init_pic(Line \ Enabled)[k].chip = "master"
      /\ \A k \in {2, 4, 6, 8, 10} : init_pic(Line \ Enabled)[k].chip = "slave"
  BY DEF init_pic, Out
<1>2. /\ init_pic(Line \ Enabled)[1].port = "command"
      /\ \A k \in {3, 5, 7, 9} : init_pic(Line \ Enabled)[k].port = "data"
      /\ init_pic(Line \ Enabled)[3].data = PIC_INTR_VEC_BASE
      /\ init_pic(Line \ Enabled)[9].data = Line \ Enabled
  BY DEF init_pic, Out
<1>3. /\ {1, 3, 5, 7, 9} \subseteq 1 .. 10 /\ {2, 4, 6, 8, 10} \subseteq 1 .. 10
      /\ {3, 5, 7, 9} \subseteq 1 .. 10
  OBVIOUS
<1>4. /\ \A k \in 1 .. 10 : Boot[k].op = "out"
      /\ \A k \in {1, 3, 5, 7, 9} : Boot[k].chip = "master"
      /\ \A k \in {2, 4, 6, 8, 10} : Boot[k].chip = "slave"
      /\ Boot[1].port = "command" /\ \A k \in {3, 5, 7, 9} : Boot[k].port = "data"
      /\ Boot[3].data = PIC_INTR_VEC_BASE /\ Boot[9].data = Line \ Enabled
  <2> DEFINE P == init_pic(Line \ Enabled)
  <2>1. \A k \in 1 .. 10 : Boot[k] = P[k]
    BY BootSteps
  <2>2. 1 \in 1 .. 10 /\ 3 \in 1 .. 10 /\ 9 \in 1 .. 10
    OBVIOUS
  <2>3. /\ \A k \in 1 .. 10 : P[k].op = "out"
        /\ \A k \in {1, 3, 5, 7, 9} : P[k].chip = "master"
        /\ \A k \in {2, 4, 6, 8, 10} : P[k].chip = "slave"
        /\ P[1].port = "command" /\ \A k \in {3, 5, 7, 9} : P[k].port = "data"
        /\ P[3].data = PIC_INTR_VEC_BASE /\ P[9].data = Line \ Enabled
    BY <1>1, <1>2
  <2> HIDE DEF P
  <2>4. /\ \A k \in 1 .. 10 : Boot[k].op = "out"
        /\ \A k \in {1, 3, 5, 7, 9} : Boot[k].chip = "master"
        /\ \A k \in {2, 4, 6, 8, 10} : Boot[k].chip = "slave"
        /\ \A k \in {3, 5, 7, 9} : Boot[k].port = "data"
    BY <1>3, <2>1, <2>3
  <2> QED
    BY <2>1, <2>2, <2>3, <2>4
<1>5. /\ \A k \in 11 .. 14 : Boot[k].op = "set_idt"
      /\ Boot[11].v = 32 /\ Boot[12].v = 128 /\ Boot[13].v = 36 /\ Boot[14].v = 38
      /\ Boot[15].op = "start_mtask"
  BY BootSteps DEF SetIdt
<1> QED
  BY <1>4, <1>5

-----------------------------------------------------------------------------
\* The initial states.
LEMMA Names ==
  /\ Sched \notin Task /\ Main \notin Task /\ Esp0 \notin Task /\ Sched \notin UTask
  /\ Sched # Main /\ Sched # Esp0 /\ Main # Esp0 /\ Main \notin Thread
  /\ \A t \in KTask : t \notin UTask
  /\ \A t \in Task : t \in Thread /\ (t \notin UTask => t \in KTask)
  /\ Sched \in Thread
BY TaskAssumption DEF Task, Thread, Sched, Main, Esp0

LEMMA InitInv == Init => IInv
<1> SUFFICES ASSUME Init PROVE IInv
  OBVIOUS
<1>1. boot = 1 /\ cur = Main /\ place = "boot" /\ todo = <<>> /\ intr = FALSE /\ sp = Esp0
      /\ curproc \in Task /\ DOMAIN regs = Register /\ Master.isr = {}
  BY DEF Init, Own, Register, Master
<1>2. \A t \in Thread : t # Esp0 /\ t \in StackName
  BY Names DEF Thread, StackName
<1>3. stack[Esp0] = <<>> /\ DOMAIN stack = StackName
  BY DEF Init, StackName, Thread
<1>4. \A t \in Thread : \E f \in BOOLEAN :
        stack[t] = Frame(t, f, 0) \o ContextOf(InHandler(t), "handler", <<>>)
  <2> SUFFICES ASSUME NEW t \in Thread
               PROVE  \E f \in BOOLEAN :
                        stack[t] = Frame(t, f, 0) \o ContextOf(InHandler(t), "handler", <<>>)
    OBVIOUS
  <2>1. \E f \in BOOLEAN : stack[t] = NewStack(t, Flags(f))
    BY <1>2 DEF Init, NewFlags, StackName, Thread
  <2> QED
    BY <2>1, Created
<1>5. stack[Sched] = Frame(Sched, FALSE, 0) \o ContextOf(InHandler(Sched), "handler", <<>>)
  <2>1. stack[Sched] = NewStack(Sched, Flags(FALSE))
    BY Names, <1>2 DEF Init, StackName, Thread
  <2> QED
    BY <2>1, Names, Created
<1>6. \A t \in Thread : context[t] = [s |-> t, d |-> Len(stack[t])] /\ Len(stack[t]) \in Nat
  <2> SUFFICES ASSUME NEW t \in Thread
               PROVE  context[t] = [s |-> t, d |-> Len(stack[t])] /\ Len(stack[t]) \in Nat
    OBVIOUS
  <2>1. context[t] = [s |-> t, d |-> Len(stack[t])]
    BY DEF Init, Thread
  <2>2. stack[t] \in Seq(Word)
    <3>1. PICK f \in BOOLEAN : stack[t] = Frame(t, f, 0) \o ContextOf(InHandler(t), "handler", <<>>)
      BY <1>4
    <3>2. Frame(t, f, 0) \in Seq(Word)
      BY FrameShape DEF Vector
    <3>3. \A r \in Callee : InHandler(t)[r] \in Word
      BY OwnWords DEF Callee, General
    <3> QED
      BY <3>1, <3>2, <3>3, ContextShape
  <2> QED
    BY <2>1, <2>2
<1>7. \A t \in Task : Via(t) = 0
  BY DEF Init, Via
<1>8. ASSUME NEW t \in Task PROVE Waits(t)
  <2>1. t \in Thread /\ context[t].s = t /\ context[t].d = Len(stack[t])
    <3>1. t \in Thread
      BY Names
    <3>2. context[t] = [s |-> t, d |-> Len(stack[t])]
      BY <1>6, <3>1
    <3> QED
      BY <3>1, <3>2
  <2> QED
    BY <1>3, <1>4, <1>7, <2>1 DEF Waits, On
<1>9. CpuType
  <2>1. context \in [Thread -> [s : StackName, d : Nat]]
    BY <1>2, <1>6 DEF Init, Thread
  <2>2. entered \in [Task -> Entries \cup {NotYet}]
    BY DEF Init
  <2> QED
    BY <1>1, <1>3, <2>1, <2>2, Names DEF CpuType, StackName
<1>10. BootInv
  <2>1. DOMAIN pic = {"master", "slave"}
        /\ Master = [expect |-> 0, base |-> 8, imr |-> Line, irr |-> {}, isr |-> {}]
    BY DEF Init, Master
  <2>2. gate \in [Vector -> Vector \cup {NullGate}]
        /\ (\A v \in Vector : gate[v] # NullGate => gate[v] = v)
        /\ \A v \in 0 .. 31 : gate[v] = v
    BY DEF Init, Vector
  <2> QED
    BY <1>1, <2>1, <2>2 DEF BootInv
<1>11. ServiceInv
  BY <1>1 DEF ServiceInv
<1>12. StackInv
  BY <1>1, <1>5, <1>8, Names DEF StackInv
<1>13. ContextKept
  BY <1>1 DEF ContextKept, Executing
<1>14. HaltInv
  BY DEF Init, HaltInv, NotYet, Unlisted
<1> QED
  BY <1>9, <1>10, <1>11, <1>12, <1>13, <1>14 DEF IInv, Kept

-----------------------------------------------------------------------------
\* The steps.  Most of them leave the stacks alone.
LEMMA StacksKept ==
  ASSUME StackInv, UNCHANGED <<cur, place, sp, stack, context, curproc, entered>>
  PROVE  StackInv'
<1>1. \A t \in Task : Waits(t) => Waits(t)'
  BY DEF Waits, On, Via
<1>2. SchedWaits => SchedWaits'
  BY DEF SchedWaits
<1>3. /\ On(cur, sp) => On(cur, sp)'
      /\ HasFrame(cur, sp) => HasFrame(cur, sp)'
      /\ Via(cur)' = Via(cur)
  BY DEF On, HasFrame, Via
<1> QED
  BY <1>1, <1>2, <1>3 DEF StackInv

LEMMA StutterInv ==
  ASSUME IInv, UNCHANGED vars
  PROVE  Kept'
<1>1. UNCHANGED <<boot, pic, gate, cur, place, todo, intr, regs, sp, stack, context, curproc, entered>>
  BY DEF vars, cpu
<1>2. CpuType' /\ BootInv'
  BY <1>1 DEF IInv, Kept, CpuType, BootInv, Master
<1>3. ServiceInv'
  BY <1>1 DEF IInv, Kept, ServiceInv, Master
<1>4. StackInv'
  BY <1>1, StacksKept DEF IInv, Kept
<1>5. ContextKept'
  BY <1>1 DEF IInv, Kept, ContextKept, Executing
<1> QED
  BY <1>2, <1>3, <1>4, <1>5 DEF IInv, Kept

LEMMA BootStepInv ==
  ASSUME IInv, BootStep
  PROVE  Kept'
<1> USE DEF IInv, Kept
<1>1. /\ place = "boot" /\ boot' = boot + 1 /\ Boot[boot].op # "start_mtask"
      /\ UNCHANGED <<cpu, stack, context, curproc, entered>>
  BY DEF BootStep
<1>2. boot \in 1 .. 14
  <2>1. Boot[15].op = "start_mtask"
    BY BootTable
  <2>2. boot # 15
    BY <1>1, <2>1
  <2> QED
    <3>1. boot \in 1 .. 15
      BY DEF BootInv
    <3> QED
      BY <2>2, <3>1
<1>3. CpuType' /\ ContextKept' /\ StackInv'
  <2>1. CpuType'
    BY <1>1 DEF CpuType, cpu
  <2>2. ContextKept'
    BY <1>1 DEF ContextKept, Executing, cpu
  <2> QED
    BY <1>1, <2>1, <2>2, StacksKept DEF cpu
<1>4. CASE boot \in 1 .. 10
  <2>1. gate' = gate /\ pic' = [pic EXCEPT ![Boot[boot].chip] = Written(@, Boot[boot].port, Boot[boot].data)]
    BY <1>4, BootTable DEF BootStep
  <2>2. DOMAIN pic' = {"master", "slave"}
    BY <2>1 DEF BootInv
  <2>3. /\ DOMAIN pic = {"master", "slave"} /\ Master.isr = {}
        /\ Master \in [expect : Nat, base : Nat, imr : SUBSET Line, irr : SUBSET Line, isr : SUBSET Line]
    BY <1>1 DEF BootInv, ServiceInv
  <2>4. CASE boot \in {2, 4, 6, 8, 10}
    <3>1. Master' = Master
      BY <2>1, <2>3, <2>4, BootTable DEF Master
    <3>2. BootInv'
      BY <1>1, <1>4, <2>1, <2>2, <2>4, <3>1 DEF BootInv, cpu
    <3> QED
      BY <1>1, <1>3, <2>3, <3>1, <3>2 DEF ServiceInv, cpu
  <2>5. CASE boot \in {1, 3, 5, 7, 9}
    <3> DEFINE data == Boot[boot].data
    <3>1. Master' = Written(Master, Boot[boot].port, data)
      BY <2>1, <2>3, <2>5, BootTable DEF Master
    <3>2. CASE boot = 1
      <4>1. Master' = [Master EXCEPT !.expect = 2, !.imr = {}, !.irr = {}, !.isr = {}]
        BY <3>1, <3>2, BootTable DEF Written
      <4>2. BootInv' /\ Master'.isr = {}
        <5>1. Master' \in [expect : Nat, base : Nat, imr : SUBSET Line, irr : SUBSET Line, isr : SUBSET Line]
              /\ Master'.isr = {} /\ Master'.expect = 2
          BY <2>3, <4>1
        <5> QED
          BY <1>1, <2>1, <2>2, <3>2, <5>1 DEF BootInv, cpu
      <4> QED
        BY <1>1, <1>3, <4>2 DEF ServiceInv, cpu
    <3>3. CASE boot = 3
      <4>1. Master' = [Master EXCEPT !.expect = 3, !.base = PIC_INTR_VEC_BASE]
        BY <3>1, <3>3, BootTable DEF Written, BootInv
      <4>2. BootInv' /\ Master'.isr = {}
        <5>1. Master' \in [expect : Nat, base : Nat, imr : SUBSET Line, irr : SUBSET Line, isr : SUBSET Line]
              /\ Master'.isr = {} /\ Master'.expect = 3 /\ Master'.base = PIC_INTR_VEC_BASE
          BY <2>3, <4>1 DEF PIC_INTR_VEC_BASE
        <5> QED
          BY <1>1, <2>1, <2>2, <3>3, <5>1 DEF BootInv, cpu
      <4> QED
        BY <1>1, <1>3, <4>2 DEF ServiceInv, cpu
    <3>4. CASE boot = 5
      <4>1. Master' = [Master EXCEPT !.expect = 4]
        BY <3>1, <3>4, BootTable DEF Written, BootInv
      <4>2. BootInv' /\ Master'.isr = {}
        BY <1>1, <2>1, <2>2, <2>3, <3>4, <4>1 DEF BootInv, cpu
      <4> QED
        BY <1>1, <1>3, <4>2 DEF ServiceInv, cpu
    <3>5. CASE boot = 7
      <4>1. Master' = [Master EXCEPT !.expect = 0]
        BY <3>1, <3>5, BootTable DEF Written, BootInv
      <4>2. BootInv' /\ Master'.isr = {}
        BY <1>1, <2>1, <2>2, <2>3, <3>5, <4>1 DEF BootInv, cpu
      <4> QED
        BY <1>1, <1>3, <4>2 DEF ServiceInv, cpu
    <3>6. CASE boot = 9
      <4>1. Master' = [Master EXCEPT !.imr = Line \ Enabled]
        BY <3>1, <3>6, BootTable DEF Written, BootInv
      <4>2. BootInv' /\ Master'.isr = {}
        BY <1>1, <2>1, <2>2, <2>3, <3>6, <4>1 DEF BootInv, cpu
      <4> QED
        BY <1>1, <1>3, <4>2 DEF ServiceInv, cpu
    <3> QED
      BY <2>5, <3>2, <3>3, <3>4, <3>5, <3>6
  <2> QED
    BY <1>4, <2>4, <2>5
<1>5. CASE boot \in 11 .. 14
  <2> DEFINE v == Boot[boot].v
  <2>1. pic' = pic /\ gate' = [gate EXCEPT ![v] = v]
    BY <1>5, BootTable DEF BootStep
  <2>2. v \in Vector /\ v # NullGate
    <3>1. v \in {32, 128, 36, 38}
      BY <1>5, BootTable
    <3> QED
      BY <3>1 DEF Vector, NullGate
  <2>3. Master' = Master
    BY <2>1 DEF Master
  <2>4. /\ gate' \in [Vector -> Vector \cup {NullGate}]
        /\ \A u \in Vector : gate'[u] # NullGate => gate'[u] = u
        /\ \A u \in Vector : gate[u] = u => gate'[u] = u
        /\ gate'[v] = v
    BY <2>1, <2>2 DEF BootInv
  <2>5. \A u \in 0 .. 31 : gate'[u] = u
    BY <2>4 DEF BootInv, Vector
  <2>6. /\ boot' >= 12 => gate'[32] = 32
        /\ boot' >= 14 => gate'[36] = 36
        /\ boot' >= 15 => gate'[38] = 38
    <3>1. /\ boot = 11 => gate'[32] = 32
          /\ boot = 13 => gate'[36] = 36
          /\ boot = 14 => gate'[38] = 38
      BY <2>4, BootTable
    <3>2. 32 \in Vector /\ 36 \in Vector /\ 38 \in Vector
      BY DEF Vector
    <3> QED
      BY <1>1, <1>5, <2>4, <3>1, <3>2 DEF BootInv
  <2>7. BootInv'
    <3> HIDE DEF v
    <3> QED
      BY <1>1, <1>5, <2>1, <2>3, <2>4, <2>5, <2>6 DEF BootInv, cpu
  <2> QED
    BY <1>1, <1>3, <2>3, <2>7 DEF ServiceInv, cpu
<1> QED
  BY <1>2, <1>4, <1>5

\* The steps that change the 8259 or the flag alone.
LEMMA RaiseInv ==
  ASSUME IInv, NEW i \in Raised, Raise(i)
  PROVE  Kept'
<1>1. /\ pic' = [pic EXCEPT !["master"].irr = @ \cup {i}] /\ i \in Line
      /\ UNCHANGED <<boot, gate, cpu, stack, context, curproc, entered>>
  BY DeviceAssumption DEF Raise
<1>2. /\ DOMAIN pic' = {"master", "slave"} /\ Master' = [Master EXCEPT !.irr = @ \cup {i}]
  BY <1>1 DEF IInv, Kept, BootInv, Master
<1>3. /\ Master' \in [expect : Nat, base : Nat, imr : SUBSET Line, irr : SUBSET Line, isr : SUBSET Line]
      /\ Master'.expect = Master.expect /\ Master'.base = Master.base
      /\ Master'.imr = Master.imr /\ Master'.isr = Master.isr
  BY <1>1, <1>2 DEF IInv, Kept, BootInv
<1>4. BootInv'
  BY <1>1, <1>2, <1>3 DEF IInv, Kept, BootInv, cpu
<1>5. ServiceInv'
  BY <1>1, <1>3 DEF IInv, Kept, ServiceInv, cpu
<1>6. StackInv'
  BY <1>1, StacksKept DEF IInv, Kept, cpu
<1>7. CpuType' /\ ContextKept'
  <2>1. CpuType'
    BY <1>1 DEF IInv, Kept, CpuType, cpu
  <2>2. ContextKept'
    BY <1>1 DEF IInv, Kept, ContextKept, Executing, cpu
  <2> QED
    BY <2>1, <2>2
<1> QED
  BY <1>4, <1>5, <1>6, <1>7 DEF IInv, Kept

LEMMA FlagInv ==
  ASSUME IInv, Cli \/ StoreIntFlag
  PROVE  Kept'
<1>1. /\ intr' \in BOOLEAN
      /\ UNCHANGED <<boot, pic, gate, cur, place, todo, regs, sp, stack, context, curproc, entered>>
  BY DEF Cli, StoreIntFlag
<1>2. CpuType'
  BY <1>1 DEF IInv, Kept, CpuType
<1>3. BootInv'
  BY <1>1 DEF IInv, Kept, BootInv, Master
<1>4. ServiceInv'
  BY <1>1 DEF IInv, Kept, ServiceInv, Master
<1>5. StackInv'
  BY <1>1, StacksKept DEF IInv, Kept
<1>6. ContextKept'
  BY <1>1 DEF IInv, Kept, ContextKept, Executing
<1> QED
  BY <1>2, <1>3, <1>4, <1>5, <1>6 DEF IInv, Kept

\* The handler's own steps: the end of interrupt leaves no line in service.
LEMMA InHandlerKept ==
  ASSUME IInv, ServiceInv', BootInv',
         UNCHANGED <<boot, gate, cur, place, intr, regs, sp, stack, context, curproc, entered>>
  PROVE  Kept'
<1>1. CpuType'
  BY DEF IInv, Kept, CpuType
<1>2. StackInv'
  BY StacksKept DEF IInv, Kept
<1>3. ContextKept'
  BY DEF IInv, Kept, ContextKept, Executing
<1> QED
  BY <1>1, <1>2, <1>3 DEF IInv, Kept

\* What a handler still has to do tells which line is in service.
LEMMA Pending ==
  ASSUME IInv
  PROVE  /\ Calls("pic_eoi") =>
              /\ cur # Sched /\ place = "handler" /\ Master.isr = {Head(todo)[2]}
              /\ Tail(todo) \in {<<>>, <<<<"sched_handler">>>>}
         /\ Calls("sched_handler") =>
              cur # Sched /\ place = "handler" /\ Master.isr = {} /\ Tail(todo) = <<>>
<1>1. ASSUME Calls("pic_eoi")
      PROVE  /\ cur # Sched /\ place = "handler" /\ Master.isr = {Head(todo)[2]}
             /\ Tail(todo) \in {<<>>, <<<<"sched_handler">>>>}
  <2>1. place = "handler" /\ todo # <<>> /\ Head(todo)[1] = "pic_eoi"
    BY <1>1 DEF Calls
  <2>2. todo \notin {<<<<"sched_handler">>>>, <<<<"io_hlt">>>>}
    BY <2>1
  <2>3. PICK i \in Enabled :
          /\ cur # Sched /\ Master.isr = {i}
          /\ todo \in {<<<<"pic_eoi", i>>>>, <<<<"pic_eoi", i>>, <<"sched_handler">>>>}
    BY <2>1, <2>2 DEF IInv, Kept, ServiceInv
  <2>4. Head(todo) = <<"pic_eoi", i>> /\ Tail(todo) \in {<<>>, <<<<"sched_handler">>>>}
    <3> DEFINE a == <<"pic_eoi", i>>  b == <<"sched_handler">>
    <3>1. todo \in {<<a>>, <<a, b>>}
      BY <2>3
    <3> HIDE DEF a, b
    <3>2. Head(<<a>>) = a /\ Tail(<<a>>) = <<>> /\ Head(<<a, b>>) = a /\ Tail(<<a, b>>) = <<b>>
      OBVIOUS
    <3>3. Head(todo) = a /\ Tail(todo) \in {<<>>, <<b>>}
      BY <3>1, <3>2
    <3> QED
      BY <3>3 DEF a, b
  <2> QED
    BY <2>1, <2>3, <2>4
<1>2. ASSUME Calls("sched_handler")
      PROVE  cur # Sched /\ place = "handler" /\ Master.isr = {} /\ Tail(todo) = <<>>
  <2>1. place = "handler" /\ todo # <<>> /\ Head(todo)[1] = "sched_handler"
    BY <1>2 DEF Calls
  <2>2. todo # <<<<"io_hlt">>>>
    BY <2>1
  <2>3. \A i \in Enabled : todo \notin {<<<<"pic_eoi", i>>>>, <<<<"pic_eoi", i>>, <<"sched_handler">>>>}
    BY <2>1
  <2>4. cur # Sched /\ todo = <<<<"sched_handler">>>> /\ Master.isr = {}
    BY <2>1, <2>2, <2>3 DEF IInv, Kept, ServiceInv
  <2> QED
    BY <2>1, <2>4
<1> QED
  BY <1>1, <1>2

LEMMA EoiInv ==
  ASSUME IInv, Eoi
  PROVE  Kept'
<1>1. /\ pic' = [pic EXCEPT !["master"].isr = @ \ {Head(todo)[2]}] /\ todo' = Tail(todo)
      /\ UNCHANGED <<boot, gate, cur, place, intr, regs, sp, stack, context, curproc, entered>>
  BY DEF Eoi
<1>2. /\ cur # Sched /\ place = "handler" /\ Master.isr = {Head(todo)[2]}
      /\ Tail(todo) \in {<<>>, <<<<"sched_handler">>>>}
  BY Pending DEF Eoi
<1>3. DOMAIN pic' = {"master", "slave"} /\ Master' = [Master EXCEPT !.isr = {}]
  BY <1>1, <1>2 DEF IInv, Kept, BootInv, Master
<1>4. BootInv'
  <2>1. /\ Master' \in [expect : Nat, base : Nat, imr : SUBSET Line, irr : SUBSET Line, isr : SUBSET Line]
        /\ Master'.expect = Master.expect /\ Master'.base = Master.base /\ Master'.imr = Master.imr
    BY <1>3 DEF IInv, Kept, BootInv
  <2> QED
    BY <1>1, <1>3, <2>1 DEF IInv, Kept, BootInv
<1>5. ServiceInv'
  <2>1. Master'.isr = {}
    BY <1>3 DEF IInv, Kept, BootInv
  <2> QED
    BY <1>1, <1>2, <2>1 DEF ServiceInv
<1> QED
  BY <1>1, <1>4, <1>5, InHandlerKept

LEMMA NoTaskTimerInv ==
  ASSUME IInv, NoTaskTimer
  PROVE  Kept'
<1>1. /\ todo' = Tail(todo)
      /\ UNCHANGED <<boot, pic, gate, cur, place, intr, regs, sp, stack, context, curproc, entered>>
  BY DEF NoTaskTimer
<1>2. place = "handler" /\ Master.isr = {} /\ Tail(todo) = <<>>
  BY Pending DEF NoTaskTimer
<1>3. BootInv' /\ ServiceInv'
  <2>1. BootInv'
    BY <1>1 DEF IInv, Kept, BootInv, Master
  <2>2. ServiceInv'
    BY <1>1, <1>2 DEF ServiceInv, Master
  <2> QED
    BY <2>1, <2>2
<1> QED
  BY <1>1, <1>3, InHandlerKept

-----------------------------------------------------------------------------
\* Task switches.
LEMMA Apart ==
  ASSUME NEW t \in Task, NEW u \in Task, t # u, NEW s \in {t, Home(t)}
  PROVE  s \notin {u, Home(u)} /\ s # Sched /\ s \in StackName
<1>1. t \in UTask => u \notin UTask
  BY TaskAssumption
<1>2. t # Esp0 /\ u # Esp0 /\ t # Sched /\ Esp0 # Sched
  BY Names
<1> QED
  BY <1>1, <1>2 DEF Home, StackName, Thread

LEMMA OwnStacks ==
  ASSUME NEW t \in Task, NEW s \in {t, Home(t)}
  PROVE  s # Sched /\ s \in StackName /\ Sched \notin {t, Home(t)}
<1>1. t # Sched /\ Esp0 # Sched
  BY Names
<1> QED
  BY <1>1 DEF Home, StackName, Thread

LEMMA WaitsKept ==
  ASSUME NEW u \in Task, Waits(u), \A s \in {u, Home(u)} : stack'[s] = stack[s],
         context'[u] = context[u], Via(u)' = Via(u)
  PROVE  Waits(u)'
<1>1. context[u].s \in {u, Home(u)}
  BY DEF Waits, On
<1>2. On(u, context[u].s)'
  BY <1>1 DEF Waits, On, Home
<1> QED
  BY <1>1, <1>2 DEF Waits

LEMMA ViaVector ==
  ASSUME CpuType, NEW t \in Thread
  PROVE  Via(t) \in Vector
<1>1. t # Sched => t \in Task
  BY DEF Thread
<1>2. 0 \in Vector /\ Entries \subseteq Vector
  BY DeviceAssumption DEF Vector, Entries
<1> QED
  BY <1>1, <1>2 DEF Via, CpuType

\* A handler that has more to do than halt has the frame it expects.
LEMMA NotHalted ==
  ASSUME IInv, place = "handler", ~ Halted
  PROVE  On(cur, sp) /\ HasFrame(cur, sp)
<1>1. CpuType /\ StackInv /\ HaltInv
  BY DEF IInv, Kept
<1>2. Via(cur) \notin Unlisted
  <2>1. cur # Sched => cur \in Task
    BY <1>1 DEF CpuType, Thread
  <2>2. 0 \notin Unlisted
    BY DEF Unlisted
  <2> QED
    BY <1>1, <2>1, <2>2 DEF Via, HaltInv
<1> QED
  BY <1>1, <1>2 DEF StackInv

LEMMA SameContext ==
  ASSUME NEW v, NEW u, \A r \in Callee : v[r] = u[r], NEW pl
  PROVE  ContextOf(v, pl, <<>>) = ContextOf(u, pl, <<>>)
<1>1. Words(v, <<"ebp", "ebx", "esi", "edi">>) = Words(u, <<"ebp", "ebx", "esi", "edi">>)
  BY DEF Words, Callee
<1> QED
  BY <1>1 DEF ContextOf

\* On stack s lies a context, with the registers v, over the words below.
ContextOn(s, below, v, p) ==
  /\ below \in Seq(Word) /\ \A r \in Callee : v[r] \in Word
  /\ stack[s] = below \o ContextOf(v, p, <<>>)

\* old is left with mine on its stack, new goes on with what was below.
SwitchedTo(old, new, mine, s, below, v, p) ==
  /\ context' = [context EXCEPT ![old] = [s |-> sp, d |-> Len(mine)]]
  /\ stack' = [stack EXCEPT ![sp] = mine, ![s] = below]
  /\ sp' = s /\ cur' = new /\ place' = p /\ todo' = <<>> /\ intr' = intr
  /\ DOMAIN regs' = DOMAIN regs
  /\ \A r \in Callee \cap DOMAIN regs : regs'[r] = v[r]

LEMMA Switched ==
  ASSUME DOMAIN stack = StackName, DOMAIN context = Thread, sp \in StackName,
         NEW old \in Thread, NEW new \in Thread, old # new, NEW pl,
         context_switch(old, new, pl, <<>>),
         NEW mine, stack[sp] \o ContextOf(regs, pl, <<>>) = mine,
         NEW s \in StackName, s # sp, context[new].s = s, context[new].d = Len(stack[s]),
         NEW below, NEW v, NEW p \in {"task", "handler"}, ContextOn(s, below, v, p)
  PROVE  SwitchedTo(old, new, mine, s, below, v, p)
<1> DEFINE pushed == [stack EXCEPT ![sp] = @ \o ContextOf(regs, pl, <<>>)]
           saved == [context EXCEPT ![old] = [s |-> sp, d |-> Len(pushed[sp])]]
           w == stack[s]
<1>1. pushed = [stack EXCEPT ![sp] = mine] /\ pushed[sp] = mine /\ pushed[s] = w
  OBVIOUS
<1>2. saved = [context EXCEPT ![old] = [s |-> sp, d |-> Len(mine)]] /\ saved[new] = context[new]
  BY <1>1
<1>3. /\ w \in Seq(Word) /\ Without(w, 5) = below /\ FromTop(w, 5) = <<"ret", p, <<>>>>
      /\ \A r \in Callee : FromTop(w, CHOOSE k \in 1 .. 4 : PopContext[k] = r) = v[r]
  <2>1. LET x == below \o ContextOf(v, p, <<>>)
        IN  /\ x \in Seq(Word) /\ Without(x, 5) = below /\ FromTop(x, 5) = <<"ret", p, <<>>>>
            /\ \A r \in Callee : FromTop(x, CHOOSE k \in 1 .. 4 : PopContext[k] = r) = v[r]
    <3>1. below \in Seq(Word) /\ \A r \in Callee : v[r] \in Word
      BY DEF ContextOn
    <3> QED
      BY <3>1, ContextShape
  <2> QED
    BY <2>1 DEF ContextOn
<1>4. SubSeq(pushed[saved[new].s], 1, saved[new].d) = w /\ saved[new].s = s
  <2>1. SubSeq(w, 1, Len(w)) = w
    BY <1>3, Whole
  <2> QED
    BY <1>1, <1>2, <2>1
<1>5. /\ context' = saved /\ sp' = s
      /\ stack' = [pushed EXCEPT ![s] = Without(w, 5)]
      /\ DOMAIN regs' = DOMAIN regs
      /\ \A r \in Callee \cap DOMAIN regs :
            regs'[r] = FromTop(w, CHOOSE k \in 1 .. 4 : PopContext[k] = r)
      /\ cur' = new /\ intr' = intr
      /\ place' = FromTop(w, 5)[2] /\ todo' = FromTop(w, 5)[3]
  <2> DEFINE t == SubSeq(pushed[saved[new].s], 1, saved[new].d)
  <2>1. /\ context' = saved /\ sp' = saved[new].s
        /\ stack' = [pushed EXCEPT ![saved[new].s] = Without(t, 5)]
        /\ regs' = [r \in DOMAIN regs |->
                      IF r \in Callee THEN FromTop(t, CHOOSE k \in 1 .. 4 : PopContext[k] = r)
                      ELSE regs[r]]
        /\ cur' = new /\ intr' = intr
        /\ place' = FromTop(t, 5)[2] /\ todo' = FromTop(t, 5)[3]
    BY DEF context_switch
  <2>2. t = w /\ saved[new].s = s
    BY <1>4
  <2>3. /\ DOMAIN regs' = DOMAIN regs
        /\ \A r \in Callee \cap DOMAIN regs :
              regs'[r] = FromTop(t, CHOOSE k \in 1 .. 4 : PopContext[k] = r)
    <3> HIDE DEF t
    <3> QED
      BY <2>1
  <2> HIDE DEF pushed, saved, w, t
  <2> QED
    BY <2>1, <2>2, <2>3
<1>6. stack' = [stack EXCEPT ![sp] = mine, ![s] = below]
  BY <1>1, <1>3, <1>5
<1>7. place' = p /\ todo' = <<>>
  BY <1>3, <1>5
<1>8. DOMAIN regs' = DOMAIN regs /\ \A r \in Callee \cap DOMAIN regs : regs'[r] = v[r]
  <2> HIDE DEF w
  <2> QED
    BY <1>3, <1>5
<1> QED
  BY <1>2, <1>5, <1>6, <1>7, <1>8 DEF SwitchedTo

LEMMA CalleeWords ==
  ASSUME NEW t \in Thread
  PROVE  /\ \A r \in Callee : InHandler(t)[r] \in Word /\ Own(t)[r] \in Word
         /\ Callee \subseteq Register
<1>1. Callee \subseteq General /\ Callee \subseteq Register
  BY DEF Callee, General, Register
<1> QED
  BY <1>1, OwnWords

\* A task that waits has its frame under what context_switch pushed.
LEMMA Waiting ==
  ASSUME CpuType, NEW t \in Task, Waits(t)
  PROVE  \E f \in BOOLEAN :
           /\ stack[context[t].s] = Frame(t, f, Via(t)) \o ContextOf(InHandler(t), "handler", <<>>)
           /\ Frame(t, f, Via(t)) \in Seq(Word)
<1>1. t \in Thread
  BY Names
<1>2. Via(t) \in Vector
  BY <1>1, ViaVector
<1>3. \A f \in BOOLEAN : Frame(t, f, Via(t)) \in Seq(Word)
  BY <1>1, <1>2, FrameShape
<1> QED
  BY <1>3 DEF Waits

LEMMA SchedContext ==
  LET mine == Bottom(Sched) \o ContextOf(Own(Sched), "task", <<>>)
  IN  mine \in Seq(Word) /\ Len(mine) \in Nat /\ Bottom(Sched) \in Seq(Word)
<1>1. Bottom(Sched) \in Seq(Word) /\ \A r \in Callee : Own(Sched)[r] \in Word
  BY Names, Bottoms, CalleeWords
<1>2. LET mine == Bottom(Sched) \o ContextOf(Own(Sched), "task", <<>>)
      IN  /\ mine \in Seq(Word) /\ Without(mine, 5) = Bottom(Sched) /\ FromTop(mine, 5) = <<"ret", "task", <<>>>>
          /\ \A r \in Callee : FromTop(mine, CHOOSE k \in 1 .. 4 : PopContext[k] = r) = Own(Sched)[r]
  BY <1>1, ContextShape
<1> QED
  BY <1>1, <1>2

LEMMA SchedDispatchInv ==
  ASSUME IInv, NEW t \in Task, SchedDispatch(t)
  PROVE  Kept'
<1>0. PICK s : s = context[t].s
  OBVIOUS
<1> DEFINE mine == Bottom(Sched) \o ContextOf(Own(Sched), "task", <<>>)
<1>1. /\ cur = Sched /\ place = "task" /\ curproc' = t /\ context_switch(Sched, t, "task", <<>>)
      /\ UNCHANGED <<boot, pic, gate, entered>>
  BY DEF SchedDispatch
<1>2. CpuType /\ ContextKept /\ StackInv
  BY DEF IInv, Kept
<1>3. /\ sp = Sched /\ stack[Sched] = Bottom(Sched) /\ \A r \in Callee : regs[r] = Own(Sched)[r]
  BY <1>1, <1>2, Names DEF ContextKept
<1>4. \A u \in Task : Waits(u)
  BY <1>1, <1>2, Names DEF StackInv
<1>5. /\ s \in {t, Home(t)} /\ s # Sched /\ s \in StackName /\ Sched \notin {t, Home(t)}
      /\ context[t].d = Len(stack[s]) /\ t # Sched /\ t \in Thread /\ Sched \in Thread
  <2>1. s \in {t, Home(t)} /\ context[t].d = Len(stack[s])
    BY <1>0, <1>4 DEF Waits, On
  <2> QED
    BY <2>1, OwnStacks, Names
<1>6. PICK f \in BOOLEAN :
        /\ stack[s] = Frame(t, f, Via(t)) \o ContextOf(InHandler(t), "handler", <<>>)
        /\ Frame(t, f, Via(t)) \in Seq(Word)
  BY <1>0, <1>2, <1>4, Waiting
<1>7. stack[sp] \o ContextOf(regs, "task", <<>>) = mine
  <2>1. ContextOf(regs, "task", <<>>) = ContextOf(Own(Sched), "task", <<>>)
    BY <1>3, SameContext
  <2> QED
    BY <1>3, <2>1
<1>8. /\ context' = [context EXCEPT ![Sched] = [s |-> Sched, d |-> Len(mine)]]
      /\ stack' = [stack EXCEPT ![Sched] = mine, ![s] = Frame(t, f, Via(t))]
      /\ sp' = s /\ cur' = t /\ place' = "handler" /\ todo' = <<>> /\ intr' = intr
      /\ DOMAIN regs' = DOMAIN regs
      /\ \A r \in Callee \cap DOMAIN regs : regs'[r] = InHandler(t)[r]
  <2>0. PICK below, v, m : below = Frame(t, f, Via(t)) /\ v = InHandler(t) /\ m = mine
    OBVIOUS
  <2>1. DOMAIN stack = StackName /\ DOMAIN context = Thread /\ sp \in StackName
    BY <1>2 DEF CpuType
  <2>2. ContextOn(s, below, v, "handler")
    <3>1. \A r \in Callee : v[r] \in Word
      BY <1>5, <2>0, CalleeWords
    <3> QED
      BY <1>6, <2>0, <3>1 DEF ContextOn
  <2>3. stack[sp] \o ContextOf(regs, "task", <<>>) = m
    BY <1>7, <2>0
  <2>4. s \in StackName /\ s # sp /\ context[t].s = s /\ context[t].d = Len(stack[s])
    BY <1>0, <1>3, <1>5
  <2>5. context_switch(Sched, t, "task", <<>>)
    BY <1>1
  <2>6. Sched \in Thread /\ t \in Thread /\ Sched # t /\ "handler" \in {"task", "handler"}
    BY <1>5
  <2>7. SwitchedTo(Sched, t, m, s, below, v, "handler")
    BY <2>1, <2>2, <2>3, <2>4, <2>5, <2>6, Switched
  <2> QED
    BY <1>3, <2>0, <2>7 DEF SwitchedTo
<1>9. /\ DOMAIN stack' = StackName /\ stack'[Sched] = mine /\ stack'[s] = Frame(t, f, Via(t))
      /\ \A x \in StackName : x \notin {s, Sched} => stack'[x] = stack[x]
      /\ \A u \in Task : context'[u] = context[u]
      /\ context'[Sched] = [s |-> Sched, d |-> Len(mine)]
  BY <1>2, <1>5, <1>8, Names DEF CpuType, StackName, Thread
<1>10. CpuType'
  <2>1. Len(mine) \in Nat
    BY SchedContext
  <2>2. Sched \in StackName
    BY DEF StackName, Thread
  <2> HIDE DEF mine
  <2>3. context' \in [Thread -> [s : StackName, d : Nat]]
    BY <1>2, <1>8, <2>1, <2>2 DEF CpuType
  <2> QED
    BY <1>1, <1>2, <1>5, <1>8, <1>9, <2>3, Names DEF CpuType
<1>11. BootInv'
  BY <1>1, <1>8 DEF IInv, Kept, BootInv, Master
<1>12. ServiceInv'
  BY <1>1, <1>8 DEF IInv, Kept, ServiceInv, Master
<1>13. \A u \in Thread : Via(u)' = Via(u)
  BY <1>1 DEF Via
<1>14. ASSUME NEW u \in Task, u # t PROVE Waits(u)'
  <2>1. s \notin {u, Home(u)} /\ Sched \notin {u, Home(u)} /\ {u, Home(u)} \subseteq StackName
    BY <1>5, <1>14, Apart, OwnStacks
  <2>2. \A x \in {u, Home(u)} : stack'[x] = stack[x]
    BY <1>9, <2>1
  <2>3. context'[u] = context[u] /\ Via(u)' = Via(u)
    BY <1>9, <1>13, Names
  <2> QED
    BY <1>4, <2>2, <2>3, WaitsKept
<1>15. On(t, s)' /\ HasFrame(t, s)'
  <2>1. On(t, s)
    BY <1>0, <1>4 DEF Waits
  <2>2. t \in UTask => t # Esp0 /\ Home(t) = Esp0 /\ t \in StackName /\ Esp0 \in StackName
    BY Names DEF Home, StackName, Thread
  <2>3. On(t, s)'
    BY <1>5, <1>9, <2>1, <2>2 DEF On
  <2>4. HasFrame(t, s)'
    BY <1>5, <1>9, <1>13 DEF HasFrame
  <2> QED
    BY <2>3, <2>4
<1>16. StackInv'
  <2>1. SchedWaits'
    BY <1>9 DEF SchedWaits
  <2>2. (On(cur, sp) /\ HasFrame(cur, sp))'
    BY <1>8, <1>15 DEF On, HasFrame
  <2> QED
    BY <1>1, <1>8, <1>14, <2>1, <2>2 DEF StackInv
<1>17. ContextKept'
  <2>1. \A r \in Callee : r \in DOMAIN regs
    BY <1>2, CalleeWords, Names DEF CpuType
  <2> QED
    BY <1>8, <2>1 DEF ContextKept, Executing
<1> QED
  BY <1>10, <1>11, <1>12, <1>16, <1>17 DEF IInv, Kept

LEMMA SchedHandlerInv ==
  ASSUME IInv, SchedHandler
  PROVE  Kept'
<1>0. PICK o, q : o = cur /\ q = sp
  OBVIOUS
<1>1. /\ Calls("sched_handler") /\ context_switch(curproc, Sched, "handler", Tail(todo))
      /\ UNCHANGED <<boot, pic, gate, curproc, entered>>
  BY DEF SchedHandler
<1>2. CpuType /\ ContextKept /\ StackInv
  BY DEF IInv, Kept
<1>3. cur # Sched /\ place = "handler" /\ Master.isr = {} /\ Tail(todo) = <<>>
  BY <1>1, Pending
<1>4. o \in Task /\ o \in Thread /\ curproc = o /\ SchedWaits /\ On(o, q) /\ HasFrame(o, q)
  <2>1. cur \in Task
    BY <1>2, <1>3 DEF CpuType, Thread
  <2>2. On(cur, sp) /\ HasFrame(cur, sp)
    BY <1>1, <1>3, NotHalted DEF Calls, Halted
  <2> QED
    BY <1>0, <1>2, <1>3, <2>1, <2>2, Names DEF StackInv
<1>5. /\ q \in {o, Home(o)} /\ q # Sched /\ q \in StackName /\ Sched \notin {o, Home(o)}
      /\ Sched \in StackName /\ Sched \in Thread /\ o # Sched
  <2>1. q \in {o, Home(o)}
    BY <1>4 DEF On
  <2> QED
    BY <1>4, <2>1, OwnStacks, Names DEF StackName, Thread
<1>6. PICK f \in BOOLEAN : stack[q] = Frame(o, f, Via(o))
  BY <1>4 DEF HasFrame
<1>7. PICK m : m = Frame(o, f, Via(o)) \o ContextOf(InHandler(o), "handler", <<>>)
  OBVIOUS
<1>8. m \in Seq(Word) /\ Len(m) \in Nat
  <2>1. Frame(o, f, Via(o)) \in Seq(Word)
    BY <1>2, <1>4, ViaVector, FrameShape
  <2>2. \A r \in Callee : InHandler(o)[r] \in Word
    BY <1>4, CalleeWords
  <2>3. m \in Seq(Word)
    BY <1>7, <2>1, <2>2, ContextShape
  <2> QED
    BY <2>3
<1>9. stack[sp] \o ContextOf(regs, "handler", <<>>) = m
  <2>1. ContextOf(regs, "handler", <<>>) = ContextOf(InHandler(o), "handler", <<>>)
    <3>1. \A r \in Callee : regs[r] = InHandler(o)[r]
      BY <1>0, <1>2, <1>3 DEF ContextKept
    <3> QED
      BY <3>1, SameContext
  <2> QED
    BY <1>0, <1>6, <1>7, <2>1
<1>10. /\ context' = [context EXCEPT ![o] = [s |-> q, d |-> Len(m)]]
       /\ stack' = [stack EXCEPT ![q] = m, ![Sched] = Bottom(Sched)]
       /\ sp' = Sched /\ cur' = Sched /\ place' = "task" /\ todo' = <<>> /\ intr' = intr
       /\ DOMAIN regs' = DOMAIN regs
       /\ \A r \in Callee \cap DOMAIN regs : regs'[r] = Own(Sched)[r]
  <2>0. PICK below, v : below = Bottom(Sched) /\ v = Own(Sched)
    OBVIOUS
  <2>1. DOMAIN stack = StackName /\ DOMAIN context = Thread /\ sp \in StackName
    BY <1>2 DEF CpuType
  <2>2. ContextOn(Sched, below, v, "task")
    <3>1. \A r \in Callee : v[r] \in Word
      BY <1>5, <2>0, CalleeWords
    <3>2. below \in Seq(Word)
      BY <2>0, SchedContext
    <3> QED
      BY <1>4, <2>0, <3>1, <3>2 DEF ContextOn, SchedWaits
  <2>3. Sched \in StackName /\ Sched # sp /\ context[Sched].s = Sched /\ context[Sched].d = Len(stack[Sched])
    BY <1>0, <1>4, <1>5 DEF SchedWaits
  <2>4. context_switch(o, Sched, "handler", <<>>)
    BY <1>1, <1>3, <1>4
  <2>5. Sched \in Thread /\ o \in Thread /\ o # Sched /\ "task" \in {"task", "handler"}
    BY <1>4, <1>5
  <2>6. SwitchedTo(o, Sched, m, Sched, below, v, "task")
    BY <1>9, <2>1, <2>2, <2>3, <2>4, <2>5, Switched
  <2> QED
    BY <1>0, <2>0, <2>6 DEF SwitchedTo
<1>11. /\ DOMAIN stack' = StackName /\ stack'[q] = m /\ stack'[Sched] = Bottom(Sched)
       /\ \A x \in StackName : x \notin {q, Sched} => stack'[x] = stack[x]
       /\ \A u \in Task : u # o => context'[u] = context[u]
       /\ context'[o] = [s |-> q, d |-> Len(m)]
  BY <1>2, <1>4, <1>5, <1>10, Names DEF CpuType
<1>12. CpuType'
  <2>1. context' \in [Thread -> [s : StackName, d : Nat]]
    BY <1>2, <1>5, <1>8, <1>10 DEF CpuType
  <2> QED
    BY <1>1, <1>2, <1>5, <1>10, <1>11, <2>1, Names DEF CpuType
<1>13. BootInv'
  BY <1>1, <1>3, <1>10 DEF IInv, Kept, BootInv, Master
<1>14. ServiceInv'
  BY <1>1, <1>3, <1>10 DEF ServiceInv, Master
<1>15. \A u \in Thread : Via(u)' = Via(u)
  BY <1>1 DEF Via
<1>16. ASSUME NEW u \in Task, u # o PROVE Waits(u)'
  <2>1. Waits(u)
    BY <1>0, <1>2, <1>3, <1>16 DEF StackInv
  <2>2. q \notin {u, Home(u)} /\ Sched \notin {u, Home(u)} /\ {u, Home(u)} \subseteq StackName
    BY <1>4, <1>5, <1>16, Apart, OwnStacks
  <2>3. \A x \in {u, Home(u)} : stack'[x] = stack[x]
    BY <1>11, <2>2
  <2>4. context'[u] = context[u] /\ Via(u)' = Via(u)
    BY <1>11, <1>15, <1>16, Names
  <2> QED
    BY <2>1, <2>3, <2>4, WaitsKept
<1>17. Waits(o)'
  <2>1. o \in UTask => o # Esp0 /\ Home(o) = Esp0 /\ o \in StackName /\ Esp0 \in StackName
    BY <1>4, Names DEF Home, StackName, Thread
  <2>2. On(o, q)'
    BY <1>4, <1>5, <1>11, <2>1 DEF On
  <2>3. \E g \in BOOLEAN : stack'[q] = Frame(o, g, Via(o)') \o ContextOf(InHandler(o), "handler", <<>>)
    BY <1>4, <1>7, <1>11, <1>15
  <2>4. context'[o].s = q /\ context'[o].d = Len(stack'[q])
    BY <1>11
  <2> QED
    BY <2>2, <2>3, <2>4 DEF Waits
<1>18. StackInv'
  BY <1>10, <1>16, <1>17, Names DEF StackInv
<1>19. ContextKept'
  <2>1. \A r \in Callee : r \in DOMAIN regs
    BY <1>2, <1>5, CalleeWords DEF CpuType
  <2> QED
    BY <1>10, <1>11, <2>1, Names DEF ContextKept, Executing
<1> QED
  BY <1>12, <1>13, <1>14, <1>18, <1>19 DEF IInv, Kept

LEMMA StartMtaskInv ==
  ASSUME IInv, StartMtask
  PROVE  Kept'
<1>1. /\ place = "boot" /\ Boot[boot].op = "start_mtask" /\ cur' = Sched
      /\ UNCHANGED <<boot, pic, gate, intr, context, curproc, entered>>
  BY DEF StartMtask
<1>2. CpuType /\ BootInv /\ StackInv
  BY DEF IInv, Kept
<1>3. boot = 15
  <2>1. \A k \in 1 .. 14 : Boot[k].op # "start_mtask"
    <3>1. \A k \in 1 .. 14 : k \in 1 .. 10 \/ k \in 11 .. 14
      OBVIOUS
    <3> QED
      BY <3>1, BootTable
  <2>2. boot \in 1 .. 15 /\ boot \notin 1 .. 14
    BY <1>1, <1>2, <2>1 DEF BootInv
  <2> QED
    BY <2>2
<1>4. PICK f : f = Frame(Sched, FALSE, 0)
  OBVIOUS
<1>5. /\ stack[Sched] = f \o ContextOf(InHandler(Sched), "handler", <<>>)
      /\ \A t \in Task : Waits(t)
  BY <1>1, <1>2, <1>4 DEF StackInv
<1>6. LET w == stack[Sched]
      IN  Without(w, 5) = f /\ FromTop(w, 5) = <<"ret", "handler", <<>>>>
  <2>1. f \in Seq(Word)
    <3>1. 0 \in Vector /\ FALSE \in BOOLEAN /\ Sched \in Thread
      BY Names DEF Vector
    <3> QED
      BY <1>4, <3>1, FrameShape
  <2>2. \A r \in Callee : InHandler(Sched)[r] \in Word
    BY CalleeWords, Names
  <2>3. LET w == f \o ContextOf(InHandler(Sched), "handler", <<>>)
        IN  Without(w, 5) = f /\ FromTop(w, 5) = <<"ret", "handler", <<>>>>
    BY <2>1, <2>2, ContextShape
  <2> QED
    BY <1>5, <2>3
<1>7. /\ sp' = Sched /\ stack' = [stack EXCEPT ![Sched] = f]
      /\ DOMAIN regs' = DOMAIN regs /\ place' = "handler" /\ todo' = <<>>
  <2>1. sp' = Sched /\ stack' = [stack EXCEPT ![Sched] = Without(stack[Sched], 5)]
    BY DEF StartMtask
  <2>2. place' = FromTop(stack[Sched], 5)[2] /\ todo' = FromTop(stack[Sched], 5)[3]
    BY DEF StartMtask
  <2>3. DOMAIN regs' = DOMAIN regs
    BY DEF StartMtask
  <2>4. Without(stack[Sched], 5) = f /\ FromTop(stack[Sched], 5) = <<"ret", "handler", <<>>>>
    BY <1>6
  <2>5. place' = "handler" /\ todo' = <<>>
    <3>1. <<"ret", "handler", <<>>>>[2] = "handler" /\ <<"ret", "handler", <<>>>>[3] = <<>>
      OBVIOUS
    <3> QED
      BY <2>2, <2>4, <3>1
  <2>6. stack' = [stack EXCEPT ![Sched] = f]
    BY <2>1, <2>4
  <2> QED
    BY <2>1, <2>3, <2>5, <2>6
<1>8. /\ DOMAIN stack' = StackName /\ stack'[Sched] = f
      /\ \A x \in StackName : x # Sched => stack'[x] = stack[x]
  BY <1>2, <1>7, Names DEF CpuType, StackName
<1>9. CpuType'
  BY <1>1, <1>2, <1>7, <1>8, Names DEF CpuType, StackName
<1>10. BootInv'
  BY <1>1, <1>2, <1>3, <1>7 DEF BootInv, Master
<1>11. ServiceInv'
  <2>1. Master.isr = {}
    BY <1>1 DEF IInv, Kept, ServiceInv
  <2> QED
    BY <1>1, <1>7, <2>1 DEF ServiceInv, Master
<1>12. StackInv'
  <2>1. ASSUME NEW t \in Task PROVE Waits(t)'
    <3>1. Sched \notin {t, Home(t)} /\ {t, Home(t)} \subseteq StackName
      BY OwnStacks
    <3>2. \A s \in {t, Home(t)} : stack'[s] = stack[s]
      BY <1>8, <3>1
    <3>3. context'[t] = context[t] /\ Via(t)' = Via(t)
      BY <1>1 DEF Via
    <3> QED
      BY <1>5, <3>2, <3>3, WaitsKept
  <2>2. (On(cur, sp) /\ HasFrame(cur, sp))'
    BY <1>1, <1>4, <1>7, <1>8, Names DEF On, HasFrame, Via
  <2> QED
    BY <1>1, <1>7, <2>1, <2>2, Names DEF StackInv
<1>13. ContextKept'
  BY <1>1, <1>7 DEF ContextKept, Executing
<1> QED
  BY <1>9, <1>10, <1>11, <1>12, <1>13 DEF IInv, Kept

-----------------------------------------------------------------------------
\* Into the kernel and back.
LEMMA RingThree ==
  ASSUME NEW t \in Thread
  PROVE  Ring3(Own(t)["cs"]) <=> t \in UTask
<1>1. Own(t)["cs"] = <<t, "task", "cs">>
  BY OwnWords DEF Register
<1>2. \A u : <<t, "task", "cs">> = <<u, "task", "cs">> <=> t = u
  OBVIOUS
<1> QED
  BY <1>1, <1>2 DEF Ring3

LEMMA LeaveInv ==
  ASSUME IInv, Leave
  PROVE  Kept'
<1>0. PICK o, q, w : o = cur /\ q = sp /\ w = stack[sp]
  OBVIOUS
<1>1. /\ place = "handler" /\ todo = <<>> /\ place' = "task"
      /\ UNCHANGED <<boot, pic, gate, cur, todo, context, curproc, entered>>
  BY DEF Leave
<1>2. CpuType /\ StackInv /\ BootInv
  BY DEF IInv, Kept
<1>3. On(o, q) /\ HasFrame(o, q) /\ o \in Thread
  <2>1. ~ Halted
    BY <1>1 DEF Halted, Calls
  <2> QED
    BY <1>0, <1>1, <1>2, <2>1, NotHalted DEF CpuType
<1>4. PICK f \in BOOLEAN, v \in Vector : w = Frame(o, f, v)
  <2>1. Via(o) \in Vector
    BY <1>2, <1>3, ViaVector
  <2> QED
    BY <1>0, <1>3, <2>1 DEF HasFrame
<1>5. /\ Without(w, IF o \in UTask THEN 19 ELSE 17) = Bottom(o)
      /\ \A k \in 1 .. 12 : FromTop(w, k) = Own(o)[PopOrder[k]]
      /\ Eip(w) = Own(o)["eip"] /\ FromTop(w, 16) = Own(o)["cs"]
      /\ o \in UTask => FromTop(w, 18) = <<o, "stack">>
  BY <1>3, <1>4, FrameShape DEF Height, Eip
<1>6. Ring3(FromTop(w, 16)) <=> o \in UTask
  BY <1>3, <1>5, RingThree
<1>7. /\ regs' = [r \in Register |->
                    IF r = "eip" THEN Eip(w) ELSE IF r = "cs" THEN FromTop(w, 16)
                    ELSE FromTop(w, CHOOSE k \in 1 .. 12 : PopOrder[k] = r)]
      /\ intr' \in BOOLEAN
      /\ sp' = (IF o \in UTask THEN FromTop(w, 18)[1] ELSE q)
      /\ stack' = [stack EXCEPT ![q] = Bottom(o)]
  <2>1. DOMAIN regs = Register
    BY <1>2 DEF CpuType
  <2>2. regs' = [r \in DOMAIN regs |->
                   IF r = "eip" THEN Eip(w) ELSE IF r = "cs" THEN FromTop(w, 16)
                   ELSE FromTop(w, CHOOSE k \in 1 .. 12 : PopOrder[k] = r)]
    BY <1>0 DEF Leave
  <2>3. intr' \in BOOLEAN
    BY DEF Leave
  <2>4. sp' = IF Ring3(FromTop(w, 16)) THEN FromTop(w, 18)[1] ELSE q
    BY <1>0 DEF Leave
  <2>5. stack' = [stack EXCEPT ![q] = Without(w, IF Ring3(FromTop(w, 16)) THEN 19 ELSE 17)]
    BY <1>0 DEF Leave
  <2> QED
    BY <1>5, <1>6, <2>1, <2>2, <2>3, <2>4, <2>5
<1>8. regs' = Own(o)
  <2>1. ASSUME NEW r \in Register PROVE regs'[r] = <<o, "task", r>>
    <3>0. Own(o)[r] = <<o, "task", r>>
      BY <1>3, OwnWords
    <3>1. CASE r \in {"eip", "cs"}
      BY <1>5, <1>7, <3>0, <3>1
    <3>2. CASE r \notin {"eip", "cs"}
      <4>1. \E k \in 1 .. 12 : PopOrder[k] = r
        BY <3>2, Orders DEF Register
      <4>2. PICK k \in 1 .. 12 : k = (CHOOSE i \in 1 .. 12 : PopOrder[i] = r) /\ PopOrder[k] = r
        BY <4>1
      <4> QED
        BY <1>5, <1>7, <3>0, <3>2, <4>2
    <3> QED
      BY <3>1, <3>2
  <2>2. regs' = [r \in Register |-> regs'[r]]
    BY <1>7
  <2>3. regs' = [r \in Register |-> <<o, "task", r>>]
    BY <2>1, <2>2
  <2> QED
    BY <2>3 DEF Own, Register
<1>9. sp' = o /\ q \in {o, Home(o)}
  <2>1. q \in {o, Home(o)}
    BY <1>3 DEF On
  <2>2. o \notin UTask => q = o
    BY <2>1 DEF Home
  <2> QED
    BY <1>5, <1>7, <2>1, <2>2
<1>10. /\ DOMAIN stack' = StackName /\ q \in StackName /\ stack'[q] = Bottom(o)
       /\ \A x \in StackName : x # q => stack'[x] = stack[x]
  BY <1>0, <1>2, <1>7 DEF CpuType
<1>11. stack'[o] = Bottom(o) /\ (o \in UTask => stack'[Esp0] = <<>>)
  <2>1. CASE o \in UTask
    <3>1. Bottom(o) = <<>> /\ Home(o) = Esp0 /\ o # Esp0 /\ o \in StackName /\ Esp0 \in StackName
      BY <1>3, <2>1, Names DEF Bottom, Home, StackName, Thread
    <3>2. q \in {o, Esp0} /\ stack[IF q = o THEN Esp0 ELSE o] = <<>>
      BY <1>3, <1>9, <2>1, <3>1 DEF On
    <3> QED
      BY <1>10, <3>1, <3>2
  <2>2. CASE o \notin UTask
    BY <1>9, <1>10, <2>2 DEF Home
  <2> QED
    BY <2>1, <2>2
<1>12. CpuType'
  BY <1>0, <1>1, <1>2, <1>3, <1>7, <1>9, <1>10, Names DEF CpuType, StackName
<1>13. BootInv'
  BY <1>1, <1>2 DEF BootInv, Master
<1>14. ServiceInv'
  <2>1. Master.isr = {}
    BY <1>1 DEF IInv, Kept, ServiceInv
  <2> QED
    BY <1>1, <2>1 DEF ServiceInv, Master
<1>15. StackInv'
  <2>1. ASSUME NEW u \in Task, u # o PROVE Waits(u)'
    <3>1. Waits(u)
      BY <1>0, <1>1, <1>2, <2>1 DEF StackInv
    <3>2. q \notin {u, Home(u)} /\ {u, Home(u)} \subseteq StackName
      <4>1. CASE o = Sched
        BY <1>9, <4>1, OwnStacks, Names DEF Home
      <4>2. CASE o # Sched
        <5>1. o \in Task
          BY <1>3, <4>2 DEF Thread
        <5> QED
          BY <1>9, <2>1, <5>1, Apart, OwnStacks
      <4> QED
        BY <4>1, <4>2
    <3>3. \A x \in {u, Home(u)} : stack'[x] = stack[x]
      BY <1>10, <3>2
    <3>4. context'[u] = context[u] /\ Via(u)' = Via(u)
      BY <1>1 DEF Via
    <3> QED
      BY <3>1, <3>3, <3>4, WaitsKept
  <2>2. o \in Task => curproc = o /\ SchedWaits'
    <3> SUFFICES ASSUME o \in Task PROVE curproc = o /\ SchedWaits'
      OBVIOUS
    <3>1. q # Sched /\ Sched \in StackName
      BY <1>9, OwnStacks DEF StackName, Thread
    <3>2. curproc = o /\ SchedWaits
      BY <1>0, <1>2 DEF StackInv
    <3>3. stack'[Sched] = stack[Sched] /\ context' = context
      BY <1>1, <1>10, <3>1
    <3> QED
      BY <3>2, <3>3 DEF SchedWaits
  <2> QED
    BY <1>0, <1>1, <2>1, <2>2 DEF StackInv
<1>16. ContextKept'
  <2>1. Callee \subseteq Register
    BY <1>3, CalleeWords
  <2> QED
    BY <1>0, <1>1, <1>8, <1>9, <1>11, <2>1 DEF ContextKept, Executing
<1> QED
  BY <1>12, <1>13, <1>14, <1>15, <1>16 DEF IInv, Kept

\* What an entry leaves on the stack: the frame its handler expects, unless the
\* CPU and the stub both pushed an error code.
LEMMA EnterFrame ==
  ASSUME IInv, place = "task", cur # Sched, NEW v \in Vector, gate[v] = v, Enter(v),
         NEW o, o = cur, NEW b, b = intr
  PROVE  /\ o \in Task /\ b \in BOOLEAN
         /\ \E w : /\ stack' = [stack EXCEPT ![Home(o)] = w]
                   /\ v \notin Unlisted => w = Frame(o, b, v)
         /\ sp' = Home(o) /\ intr' = FALSE /\ cur' = o
         /\ regs' = [r \in Register |-> IF r \in General THEN InHandler(o)[r] ELSE Own(o)[r]]
         /\ place' = "handler" /\ todo' = int_handler(v)
         /\ entered' = [entered EXCEPT ![o] = v]
<1>1. o \in Task /\ o \in Thread /\ b \in BOOLEAN
  <2>1. CpuType
    BY DEF IInv, Kept
  <2> QED
    BY <2>1 DEF CpuType, Thread
<1>2. regs = Own(o) /\ sp = o /\ stack[o] = Bottom(o)
  <2>1. ContextKept
    BY DEF IInv, Kept
  <2> QED
    BY <2>1 DEF ContextKept, Executing
<1>3. Ring3(regs["cs"]) <=> o \in UTask
  BY <1>1, <1>2, RingThree
<1>4. PICK w : w = (IF o \in UTask THEN UserTop(o) ELSE Bottom(o))
                     \o <<Flags(b), Own(o)["cs"], Own(o)["eip"]>>
                     \o ErrorCode(v) \o StubDummy(v) \o Words(Own(o), PushOrder)
  OBVIOUS
<1>5. (IF Ring3(regs["cs"]) THEN <<<<cur, "ss">>, <<sp, "stack">>>> ELSE stack[sp])
        \o <<Flags(intr), regs["cs"], regs["eip"]>> \o ErrorCode(v)
        \o StubDummy(gate[v]) \o Words(regs, PushOrder) = w
  <2> DEFINE base == IF Ring3(regs["cs"]) THEN <<<<cur, "ss">>, <<sp, "stack">>>> ELSE stack[sp]
             own == IF o \in UTask THEN UserTop(o) ELSE Bottom(o)
  <2>1. base = own
    BY <1>2, <1>3 DEF UserTop
  <2>2. own \o <<Flags(b), Own(o)["cs"], Own(o)["eip"]>> \o ErrorCode(v) \o StubDummy(v)
          \o Words(Own(o), PushOrder) = w
    BY <1>4
  <2> HIDE DEF base, own
  <2>3. base \o <<Flags(intr), regs["cs"], regs["eip"]>> \o ErrorCode(v)
          \o StubDummy(gate[v]) \o Words(regs, PushOrder) = w
    BY <1>2, <2>1, <2>2
  <2> QED
    BY <2>3 DEF base
<1>6. (IF Ring3(regs["cs"]) THEN Esp0 ELSE sp) = Home(o)
  BY <1>2, <1>3 DEF Home
<1>7. Intrnum(w)[2] = v
  <2>1. FromTop(w, 13) = <<"vector", v>>
    BY <1>1, <1>4, EntryNumber
  <2> QED
    BY <2>1 DEF Intrnum
<1>8. v \notin Unlisted => w = Frame(o, b, v)
  BY <1>1, <1>4, EntryFrame
<1>9. v # NullGate
  BY DEF Vector, NullGate
<1>10. /\ stack' = [stack EXCEPT ![Home(o)] = w] /\ sp' = Home(o) /\ intr' = FALSE /\ cur' = cur
       /\ regs' = [r \in DOMAIN regs |-> IF r \in General THEN InHandler(cur)[r] ELSE regs[r]]
       /\ place' = "handler" /\ todo' = int_handler(Intrnum(w)[2])
       /\ entered' = [entered EXCEPT ![cur] = v]
  BY <1>5, <1>6, <1>9 DEF Enter
<1>11. DOMAIN regs = Register
  BY DEF IInv, Kept, CpuType
<1>12. regs' = [r \in Register |-> IF r \in General THEN InHandler(o)[r] ELSE Own(o)[r]]
  BY <1>2, <1>10, <1>11
<1> QED
  BY <1>1, <1>7, <1>8, <1>10, <1>12

LEMMA EnterInv ==
  ASSUME IInv, place = "task", cur # Sched, NEW v \in Entries, gate[v] = v, Enter(v),
         UNCHANGED <<boot, gate, context, curproc>>
  PROVE  /\ CpuType' /\ StackInv' /\ ContextKept'
         /\ place' = "handler" /\ todo' = int_handler(v) /\ cur' = cur
<1>0. PICK o, b : o = cur /\ b = intr
  OBVIOUS
<1>1. PICK w :
        /\ o \in Task /\ b \in BOOLEAN
        /\ stack' = [stack EXCEPT ![Home(o)] = w]
        /\ v \notin Unlisted => w = Frame(o, b, v)
        /\ sp' = Home(o) /\ intr' = FALSE /\ cur' = o
        /\ regs' = [r \in Register |-> IF r \in General THEN InHandler(o)[r] ELSE Own(o)[r]]
        /\ place' = "handler" /\ todo' = int_handler(v)
        /\ entered' = [entered EXCEPT ![o] = v]
  <2>1. v \in Vector
    BY DeviceAssumption DEF Entries, Vector
  <2>2. /\ o \in Task /\ b \in BOOLEAN
        /\ \E w : /\ stack' = [stack EXCEPT ![Home(o)] = w]
                  /\ v \notin Unlisted => w = Frame(o, b, v)
        /\ sp' = Home(o) /\ intr' = FALSE /\ cur' = o
        /\ regs' = [r \in Register |-> IF r \in General THEN InHandler(o)[r] ELSE Own(o)[r]]
        /\ place' = "handler" /\ todo' = int_handler(v)
        /\ entered' = [entered EXCEPT ![o] = v]
    BY <1>0, <2>1, EnterFrame
  <2> QED
    BY <2>2
<1>2. CpuType /\ StackInv /\ ContextKept
  BY DEF IInv, Kept
<1>3. /\ o \in Thread /\ o # Sched /\ Home(o) \in {o, Home(o)} /\ Home(o) # Sched
      /\ Home(o) \in StackName /\ Sched \in StackName
  BY <1>1, OwnStacks, Names DEF StackName, Thread
<1>4. /\ DOMAIN stack' = StackName /\ stack'[Home(o)] = w
      /\ \A x \in StackName : x # Home(o) => stack'[x] = stack[x]
  BY <1>1, <1>2, <1>3 DEF CpuType
<1>5. /\ DOMAIN regs' = Register
      /\ \A r \in Callee : regs'[r] = InHandler(o)[r]
  BY <1>1 DEF Register, General, Callee
<1>6. CpuType'
  <2>1. entered' \in [Task -> Entries \cup {NotYet}]
    BY <1>1, <1>2 DEF CpuType
  <2> QED
    BY <1>1, <1>2, <1>3, <1>4, <1>5, <2>1, Names DEF CpuType
<1>7. Via(o)' = v /\ \A u \in Task : u # o => Via(u)' = Via(u)
  <2>1. entered'[o] = v /\ \A u \in Task : u # o => entered'[u] = entered[u]
    BY <1>1, <1>2 DEF CpuType
  <2>2. v # NotYet
    BY DeviceAssumption DEF Entries, NotYet
  <2> QED
    BY <1>3, <2>1, <2>2 DEF Via
<1>8. ASSUME NEW u \in Task, u # o PROVE Waits(u)'
  <2>1. Waits(u)
    BY <1>0, <1>2, <1>8 DEF StackInv
  <2>2. Home(o) \notin {u, Home(u)} /\ {u, Home(u)} \subseteq StackName
    BY <1>1, <1>3, <1>8, Apart, OwnStacks
  <2>3. \A x \in {u, Home(u)} : stack'[x] = stack[x]
    BY <1>4, <2>2
  <2> QED
    BY <1>7, <1>8, <2>1, <2>3, WaitsKept
<1>9. curproc' = o /\ SchedWaits'
  <2>1. curproc = o /\ SchedWaits
    BY <1>0, <1>1, <1>2 DEF StackInv
  <2>2. stack'[Sched] = stack[Sched]
    BY <1>3, <1>4
  <2> QED
    BY <2>1, <2>2 DEF SchedWaits
<1>10. On(o, Home(o))'
  <2>1. ASSUME o \in UTask PROVE stack'[IF Home(o) = o THEN Esp0 ELSE o] = <<>>
    <3>1. Home(o) = Esp0 /\ o # Esp0 /\ o \in StackName
      BY <1>1, <2>1, Names DEF Home, StackName, Thread
    <3>2. stack[o] = <<>>
      BY <1>0, <1>2, <2>1 DEF ContextKept, Bottom
    <3> QED
      BY <1>4, <3>1, <3>2
  <2> QED
    BY <2>1 DEF On
<1>11. v \notin Unlisted => HasFrame(o, Home(o))'
  BY <1>0, <1>1, <1>4, <1>7 DEF HasFrame
<1>12. StackInv'
  <2>1. On(cur, sp)' /\ (Via(cur)' \notin Unlisted => HasFrame(cur, sp)')
    BY <1>1, <1>7, <1>10, <1>11 DEF On, HasFrame, Via
  <2> QED
    BY <1>1, <1>8, <1>9, <2>1 DEF StackInv
<1>13. ContextKept'
  BY <1>1, <1>5 DEF ContextKept, Executing
<1> QED
  BY <1>0, <1>1, <1>6, <1>12, <1>13

LEMMA AcceptInv ==
  ASSUME IInv, NEW i \in Line, Accept(i)
  PROVE  Kept'
<1>1. /\ place = "task" /\ cur # Sched /\ i \in Offered /\ Enter(Master.base + i)
      /\ pic' = [pic EXCEPT !["master"].irr = @ \ {i}, !["master"].isr = @ \cup {i}]
      /\ UNCHANGED <<boot, gate, context, curproc>>
  BY DEF Accept
<1>2. BootInv /\ boot = 15 /\ Master.isr = {}
  BY <1>1 DEF IInv, Kept, BootInv, ServiceInv
<1>3. i \in Enabled
  BY <1>1, <1>2 DEF BootInv, Offered
<1>4. PICK v : v = PIC_INTR_VEC_BASE + i
  OBVIOUS
<1>5. v \in Entries /\ gate[v] = v /\ v \in {32, 36, 38}
  BY <1>2, <1>3, <1>4 DEF BootInv, Enabled, Entries, Vector, PIC_INTR_VEC_BASE
<1>6. Enter(v)
  BY <1>1, <1>2, <1>4 DEF BootInv
<1>7. /\ CpuType' /\ StackInv' /\ ContextKept'
      /\ place' = "handler" /\ todo' = int_handler(v) /\ cur' = cur
  BY <1>1, <1>5, <1>6, EnterInv
<1>8. /\ DOMAIN pic' = {"master", "slave"}
      /\ Master' = [Master EXCEPT !.irr = @ \ {i}, !.isr = @ \cup {i}]
  BY <1>1, <1>2 DEF BootInv, Master
<1>9. /\ Master' \in [expect : Nat, base : Nat, imr : SUBSET Line, irr : SUBSET Line, isr : SUBSET Line]
      /\ Master'.expect = Master.expect /\ Master'.base = Master.base
      /\ Master'.imr = Master.imr /\ Master'.isr = {i}
  BY <1>2, <1>8 DEF BootInv
<1>10. BootInv'
  BY <1>1, <1>2, <1>8, <1>9 DEF BootInv
<1>11. todo' \in {<<<<"pic_eoi", i>>>>, <<<<"pic_eoi", i>>, <<"sched_handler">>>>}
  BY <1>3, <1>4, <1>7 DEF Enabled, PIC_INTR_VEC_BASE, int_handler
<1>12. ServiceInv'
  BY <1>1, <1>3, <1>7, <1>9, <1>11 DEF ServiceInv
<1> QED
  BY <1>7, <1>10, <1>12 DEF IInv, Kept

LEMMA TrapInv ==
  ASSUME IInv, NEW v \in Exceptions \cup {128}, Trap(v)
  PROVE  Kept'
<1>1. /\ place = "task" /\ cur # Sched /\ Enter(v)
      /\ UNCHANGED <<boot, pic, gate, context, curproc>>
  BY DEF Trap
<1>2. BootInv /\ Master.isr = {}
  BY <1>1 DEF IInv, Kept, ServiceInv
<1>3. v \in Vector /\ v \in Entries /\ (v \in 0 .. 31 \/ v = 128)
  BY DeviceAssumption DEF Vector, Entries
<1>4. CASE gate[v] = NullGate
  <2>1. UNCHANGED vars
    BY <1>1, <1>4 DEF Enter, vars
  <2> QED
    BY <2>1, StutterInv
<1>5. CASE gate[v] # NullGate
  <2>1. gate[v] = v
    BY <1>2, <1>3, <1>5 DEF BootInv
  <2>2. /\ CpuType' /\ StackInv' /\ ContextKept'
        /\ place' = "handler" /\ todo' = int_handler(v) /\ cur' = cur
    BY <1>1, <1>3, <2>1, EnterInv
  <2>3. BootInv'
    BY <1>1, <1>2, <2>2 DEF IInv, Kept, BootInv, Master
  <2>4. todo' \in {<<<<"io_hlt">>>>, <<>>}
    <3>1. CASE v \in 0 .. 31
      <4>0. v <= 31 /\ v # PIC_INTR_VEC_BASE /\ v # PIC_INTR_VEC_BASE + 4 /\ v # PIC_INTR_VEC_BASE + 6
        BY <3>1 DEF PIC_INTR_VEC_BASE
      <4>1. int_handler(v) = <<<<"io_hlt">>>>
        BY ONLY <4>0 DEF int_handler
      <4> QED
        BY <2>2, <4>1
    <3>2. CASE v = 128
      <4>1. int_handler(v) = <<>>
        BY <3>2 DEF int_handler, PIC_INTR_VEC_BASE
      <4> QED
        BY <2>2, <4>1
    <3> QED
      BY <1>3, <3>1, <3>2
  <2>5. Master'.isr = {}
    BY <1>1, <1>2 DEF Master
  <2>6. ServiceInv'
    BY <1>1, <2>2, <2>4, <2>5 DEF ServiceInv
  <2> QED
    BY <2>2, <2>3, <2>6 DEF IInv, Kept
<1> QED
  BY <1>4, <1>5

\* A task that came in by an exception of Unlisted is in its handler, halted.
LEMMA EnteredHalted ==
  ASSUME IInv, NEW v \in Entries, gate[v] \in {v, NullGate}, place = "task", cur # Sched,
         Enter(v), v \in Unlisted => gate[v] = v
  PROVE  HaltInv'
<1>1. CpuType /\ HaltInv
  BY DEF IInv, Kept
<1>2. cur \in Task /\ ~ Halted
  BY <1>1 DEF CpuType, Thread, Halted, Calls
<1>3. \A t \in Task : entered[t] \notin Unlisted
  BY <1>1, <1>2 DEF HaltInv
<1>4. CASE gate[v] = NullGate
  <2>1. entered' = entered
    BY <1>4 DEF Enter
  <2> QED
    BY <1>3, <2>1 DEF HaltInv
<1>5. CASE gate[v] # NullGate
  <2>1. v \in Vector /\ gate[v] = v
    BY <1>5, DeviceAssumption DEF Entries, Vector
  <2>2. place' = "handler" /\ todo' = int_handler(v) /\ cur' = cur
        /\ entered' = [entered EXCEPT ![cur] = v]
    BY <2>1, EnterFrame
  <2>3. CASE v \notin Unlisted
    <3>1. \A t \in Task : entered'[t] \notin Unlisted
      BY <1>1, <1>3, <2>2, <2>3 DEF CpuType
    <3> QED
      BY <3>1 DEF HaltInv
  <2>4. CASE v \in Unlisted
    <3>0. v <= 31 /\ v # PIC_INTR_VEC_BASE /\ v # PIC_INTR_VEC_BASE + 4 /\ v # PIC_INTR_VEC_BASE + 6
      BY <2>4 DEF Unlisted, PIC_INTR_VEC_BASE
    <3>1. int_handler(v) = <<<<"io_hlt">>>>
      BY ONLY <3>0 DEF int_handler
    <3>2. Halted'
      <4> DEFINE call == <<"io_hlt">>
      <4>1. todo' = <<call>> /\ call[1] = "io_hlt"
        BY <2>2, <3>1
      <4> HIDE DEF call
      <4>2. <<call>> # <<>> /\ Head(<<call>>) = call
        OBVIOUS
      <4> QED
        BY <2>2, <4>1, <4>2 DEF Halted, Calls
    <3>3. \A t \in Task : t # cur => entered'[t] = entered[t]
      BY <1>1, <2>2 DEF CpuType
    <3> QED
      BY <1>3, <2>2, <3>2, <3>3 DEF HaltInv
  <2> QED
    BY <2>3, <2>4
<1> QED
  BY <1>4, <1>5

\* When the CPU has halted only devices do anything.
LEMMA HaltStep ==
  ASSUME IInv, [Next]_vars
  PROVE  HaltInv'
<1>1. CpuType /\ BootInv /\ HaltInv
  BY DEF IInv, Kept
<1>2. CASE UNCHANGED <<cur, place, todo, entered>>
  <2>1. Halted' = Halted
    BY <1>2 DEF Halted, Calls
  <2> QED
    BY <1>1, <1>2, <2>1 DEF HaltInv
<1>3. CASE ~ Halted /\ entered' = entered
  BY <1>1, <1>3 DEF HaltInv
<1>4. CASE \E i \in Line : Accept(i)
  <2>1. PICK i \in Line : Accept(i)
    BY <1>4
  <2>2. place = "task" /\ cur # Sched /\ Enter(Master.base + i)
    BY <2>1 DEF Accept
  <2>3. PICK v : v = PIC_INTR_VEC_BASE + i
    OBVIOUS
  <2>4. v = Master.base + i
    BY <1>1, <2>2, <2>3 DEF BootInv
  <2>5. v \in Entries /\ v \notin Unlisted /\ v \in Vector
    BY <2>3 DEF Line, Entries, Unlisted, Vector, PIC_INTR_VEC_BASE
  <2>6. gate[v] \in {v, NullGate}
    BY <1>1, <2>5 DEF BootInv
  <2> QED
    BY <2>2, <2>4, <2>5, <2>6, EnteredHalted
<1>5. CASE \E v \in Exceptions \cup {128} : Trap(v)
  <2>1. PICK v \in Exceptions \cup {128} : Trap(v)
    BY <1>5
  <2>2. place = "task" /\ cur # Sched /\ Enter(v)
    BY <2>1 DEF Trap
  <2>3. v \in Entries /\ v \in Vector
    BY DeviceAssumption DEF Entries, Vector
  <2>4. gate[v] \in {v, NullGate}
    BY <1>1, <2>3 DEF BootInv
  <2>5. v \in Unlisted => gate[v] = v
    BY <1>1 DEF BootInv, Unlisted
  <2> QED
    BY <2>2, <2>3, <2>4, <2>5, EnteredHalted
<1>6. CASE BootStep
  BY <1>2, <1>6 DEF BootStep, cpu
<1>7. CASE StartMtask
  BY <1>3, <1>7 DEF StartMtask, Halted, Calls
<1>8. CASE \E i \in Raised : Raise(i)
  BY <1>2, <1>8 DEF Raise, cpu
<1>9. CASE Handler
  BY <1>3, <1>9 DEF Handler, Eoi, SchedHandler, NoTaskTimer, Leave, Halted, Calls
<1>10. CASE Halt \/ UNCHANGED vars
  BY <1>2, <1>10 DEF Halt, vars, cpu
<1>11. CASE Dispatch
  BY <1>3, <1>11 DEF Dispatch, SchedDispatch, Halted, Calls
<1>12. CASE Cli \/ StoreIntFlag
  BY <1>2, <1>12 DEF Cli, StoreIntFlag
<1> QED
  BY <1>4, <1>5, <1>6, <1>7, <1>8, <1>9, <1>10, <1>11, <1>12 DEF Next

LEMMA KeptStep == IInv /\ [Next]_vars => Kept'
<1> SUFFICES ASSUME IInv, [Next]_vars PROVE Kept'
  OBVIOUS
<1>1. CASE BootStep
  BY <1>1, BootStepInv
<1>2. CASE StartMtask
  BY <1>2, StartMtaskInv
<1>3. CASE \E i \in Raised : Raise(i)
  BY <1>3, RaiseInv
<1>4. CASE \E i \in Line : Accept(i)
  BY <1>4, AcceptInv
<1>5. CASE \E v \in Exceptions \cup {128} : Trap(v)
  BY <1>5, TrapInv
<1>6. CASE Handler
  BY <1>6, EoiInv, SchedHandlerInv, NoTaskTimerInv, LeaveInv DEF Handler
<1>7. CASE Halt \/ UNCHANGED vars
  BY <1>7, StutterInv DEF Halt
<1>8. CASE Dispatch
  BY <1>8, SchedDispatchInv DEF Dispatch
<1>9. CASE Cli \/ StoreIntFlag
  BY <1>9, FlagInv
<1> QED
  BY <1>1, <1>2, <1>3, <1>4, <1>5, <1>6, <1>7, <1>8, <1>9 DEF Next

LEMMA NextInv == IInv /\ [Next]_vars => IInv'
BY KeptStep, HaltStep DEF IInv

THEOREM Inductive == Spec => []IInv
<1>1. Init => IInv
  BY InitInv
<1>2. IInv /\ [Next]_vars => IInv'
  BY NextInv
<1> QED
  BY <1>1, <1>2, PTL DEF Spec

(***************************************************************************)
(* No line is left in service when a task executes, with any number of     *)
(* kernel tasks, whatever devices raise and whatever exceptions they cause *)
(* (init_pic, int_handler, pic_eoi).                                       *)
(***************************************************************************)
THEOREM NoLineLeftInService == Spec => []NoneInService
<1>1. IInv => NoneInService
  BY DEF IInv, Kept, ServiceInv, NoneInService, Executing
<1> QED
  BY <1>1, Inductive, PTL

(***************************************************************************)
(* A task that executes has its registers, and the stacks it had, after    *)
(* any nesting of interrupts, exceptions, system calls and switches (the   *)
(* stubs, context_switch, ktask_init, utask_init).                         *)
(***************************************************************************)
THEOREM TasksKeepTheirContext == Spec => []ContextKept
<1>1. IInv => ContextKept
  BY DEF IInv, Kept
<1> QED
  BY <1>1, Inductive, PTL

(***************************************************************************)
(* A handler finds the number and the address of its own interrupt in the  *)
(* frame, also when the task was switched away from in between (the stubs, *)
(* struct IntrFrame), if no task causes an exception that pushes an error  *)
(* code unknown to the stubs.  17, 21, 29 and 30 need CR0.AM, or CR4, or   *)
(* virtualisation: boot.s and asmlib.s set bits 0 and 31 of CR0 only.      *)
(***************************************************************************)
THEOREM HandlersReadTheirFrame ==
  ASSUME Exceptions \cap Unlisted = {}
  PROVE  Spec => []FrameRead
<1>1. IInv => FrameRead
  <2> SUFFICES ASSUME IInv, place = "handler", cur # Sched, NEW o, o = cur
               PROVE  /\ Eip(stack[sp]) = Own(o)["eip"]
                      /\ entered[o] # NotYet => Intrnum(stack[sp]) = <<"vector", entered[o]>>
    BY DEF FrameRead
  <2>1. CpuType /\ StackInv
    BY DEF IInv, Kept
  <2>2. o \in Thread /\ o \in Task
    BY <2>1 DEF CpuType, Thread
  <2>3. Via(o) \notin Unlisted
    <3>1. entered[o] \in Entries \cup {NotYet}
      BY <2>1, <2>2 DEF CpuType
    <3>2. \A v \in Entries : v \notin Unlisted
      BY DEF Entries, Unlisted
    <3>3. 0 \notin Unlisted
      BY DEF Unlisted
    <3> QED
      BY <3>1, <3>2, <3>3 DEF Via
  <2>4. HasFrame(o, sp)
    BY <2>1, <2>3 DEF StackInv
  <2>5. PICK f \in BOOLEAN, v \in Vector : v = Via(o) /\ stack[sp] = Frame(o, f, v)
    BY <2>1, <2>2, <2>4, ViaVector DEF HasFrame
  <2>6. Eip(stack[sp]) = Own(o)["eip"] /\ Intrnum(stack[sp]) = <<"vector", v>>
    BY <2>2, <2>5, FrameShape DEF Eip, Intrnum
  <2> QED
    BY <2>5, <2>6 DEF Via
<1> QED
  BY <1>1, Inductive, PTL
=============================================================================
