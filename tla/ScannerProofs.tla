--------------------------- MODULE ScannerProofs ---------------------------
(***************************************************************************)
(* Proofs about Scanner for inputs of any length and depth.                *)
(***************************************************************************)
EXTENDS Scanner, SequenceTheorems, WellFoundedInduction, TLAPS

Stack == Seq({"key", "value", "list"})

\* Once endTop is set nothing is open, and nothing is opened any more.
EndTopIsClosed ==
    /\ endTop => parseState = <<>> /\ step \in {"endValue", "endTop", "error"}
    /\ step = "endTop" => endTop

\* The scanner's own state is well typed and endTop is right.
Good ==
    /\ step \in Steps
    /\ parseState \in Stack
    /\ stringLen \in Nat
    /\ stepSize \in Nat
    /\ endTop \in BOOLEAN
    /\ err \in BOOLEAN
    /\ EndTopIsClosed

\* Valid accepts an input only when every dictionary and list it opened is
\* closed: endTop, which eof trusts, is never set while one is open.
AcceptedIsClosed == verdict = "valid" => parseState = <<>>

Inv == TypeOK /\ EndTopIsClosed /\ AcceptedIsClosed

-----------------------------------------------------------------------------

\* A digit's value is a natural number.
LEMMA DigitValue ==
    ASSUME NEW c \in Digit
    PROVE  Value[c] \in Nat
<1>1. Value \in [Digit -> 0 .. 9]
  BY ScannerAssumption
<1>2. Value[c] \in 0 .. 9
  BY <1>1
<1> QED
  BY <1>2

\* Pop removes one entry.
LEMMA PopLen ==
    ASSUME NEW S, NEW ps \in Seq(S), Len(ps) # 0
    PROVE  Pop(ps) \in Seq(S) /\ Len(Pop(ps)) = Len(ps) - 1
<1> DEFINE n == Len(ps) - 1
<1>1. n \in Nat /\ n + 1 = Len(ps)
  OBVIOUS
<1> HIDE DEF n
<1>2. SubSeq(ps, 1, n) \in Seq(S) /\ Len(SubSeq(ps, 1, n)) = n
  BY <1>1
<1> QED
  BY <1>2 DEF Pop, n

\* The stack operations yield stacks, and popping the only entry the empty one.
LEMMA StackOps ==
    ASSUME NEW ps \in Stack
    PROVE  /\ \A p \in {"key", "value", "list"} : Append(ps, p) \in Stack
           /\ ps # <<>> => /\ Pop(ps) \in Stack
                           /\ Len(ps) = 1 => Pop(ps) = <<>>
                           /\ Len(ps) # 1 => Pop(ps) # <<>>
           /\ ps # <<>> => \A p \in {"key", "value", "list"} :
                  Mark(ps, p) \in Stack /\ Mark(ps, p) # <<>>
<1> USE DEF Stack
<1>1. \A p \in {"key", "value", "list"} : Append(ps, p) \in Stack
  OBVIOUS
<1>2. ASSUME ps # <<>>
      PROVE  /\ Pop(ps) \in Stack
             /\ Len(ps) = 1 => Pop(ps) = <<>>
             /\ Len(ps) # 1 => Pop(ps) # <<>>
  <2>1. Len(ps) \in Nat /\ Len(ps) # 0
    BY <1>2
  <2>2. Pop(ps) \in Stack /\ Len(Pop(ps)) = Len(ps) - 1
    BY <2>1, PopLen
  <2> QED
    BY <2>1, <2>2
<1>3. ASSUME ps # <<>>, NEW p \in {"key", "value", "list"}
      PROVE  Mark(ps, p) \in Stack /\ Mark(ps, p) # <<>>
  BY <1>3 DEF Mark
<1> QED
  BY <1>1, <1>2, <1>3

\* A step function that goes on or fails without touching endTop keeps the
\* scanner good as long as endTop is not set.
LEMMA ContinueGood ==
    ASSUME Good, ~endTop, UNCHANGED endTop,
           NEW f \in Steps \ {"endTop"}, NEW ps \in Stack, NEW size \in Nat, NEW len \in Nat,
           Continue(f, ps, size, len) \/ Error(ps, size)
    PROVE  Good'
  BY DEF Good, Continue, Error, EndTopIsClosed, Steps

\* Opening a value keeps the scanner good.
LEMMA BeginOpenGood ==
    ASSUME Good, ~endTop, NEW c, NEW ps \in Stack, NEW size \in Nat, BeginOpen(c, ps, size)
    PROVE  Good'
<1> USE DEF Steps
<1>1. stringLen \in Nat /\ UNCHANGED endTop
  BY DEF Good, BeginOpen
<1>2. CASE Continue("beginString", Append(ps, "key"), size, stringLen)
  BY <1>1, <1>2, StackOps, ContinueGood
<1>3. CASE Continue("beginValue", Append(ps, "list"), size, stringLen)
  BY <1>1, <1>3, StackOps, ContinueGood
<1>4. CASE Continue("beginInt", ps, size, stringLen)
  BY <1>1, <1>4, ContinueGood
<1>5. CASE c \in Digit /\ Continue("beginString", ps, size, Value[c])
  <2>1. Value[c] \in Nat
    BY <1>5, DigitValue
  <2> QED
    BY <1>1, <1>5, <2>1, ContinueGood
<1>6. CASE Error(ps, size)
  BY <1>1, <1>6, ContinueGood
<1> QED
  BY <1>2, <1>3, <1>4, <1>5, <1>6 DEF BeginOpen

\* So does a byte after the outermost value.
LEMMA EndTopGood ==
    ASSUME Good, NEW c, parseState = <<>>, EndTop(c, stepSize)
    PROVE  Good'
  BY DEF Good, EndTop, Continue, Error, EndTopIsClosed, Steps

\* So does the end of a container.
LEMMA EndContainerGood ==
    ASSUME Good, ~endTop, NEW ps \in Stack, ps # <<>>, EndContainer(ps)
    PROVE  Good'
<1>1. Pop(ps) \in Stack /\ (Len(ps) = 1 => Pop(ps) = <<>>)
  BY StackOps
<1>2. /\ step' = "endValue" /\ parseState' = Pop(ps) /\ stepSize' = 1
      /\ stringLen' = stringLen /\ err' = err /\ endTop' = (Len(ps) = 1)
  BY DEF EndContainer, Continue
<1> QED
  BY <1>1, <1>2 DEF Good, EndTopIsClosed, Steps

\* So does whatever comes after a value.
LEMMA EndValueGood ==
    ASSUME Good, NEW c, EndValue(c)
    PROVE  Good'
<1>1. CASE parseState = <<>>
  BY <1>1, EndTopGood DEF EndValue
<1>2. CASE parseState # <<>>
  <2>1. ~endTop /\ parseState \in Stack /\ 1 \in Nat
    BY <1>2 DEF Good, EndTopIsClosed
  <2>2. \A p \in {"key", "value", "list"} :
            Mark(parseState, p) \in Stack /\ Mark(parseState, p) # <<>>
    BY <1>2, <2>1, StackOps
  <2>3. CASE EndContainer(parseState) \/ EndContainer(Mark(parseState, "value"))
    BY <1>2, <2>1, <2>2, <2>3, EndContainerGood
  <2>4. CASE BeginOpen(c, parseState, 1) \/ BeginOpen(c, Mark(parseState, "value"), 1)
    BY <2>1, <2>2, <2>4, BeginOpenGood
  <2>5. CASE /\ c \in Digit
             /\ Continue("beginString", Mark(parseState, "key"), 1, Value[c])
             /\ UNCHANGED endTop
    <3>1. Value[c] \in Nat /\ "beginString" \in Steps \ {"endTop"}
      BY <2>5, DigitValue DEF Steps
    <3> QED
      BY <2>1, <2>2, <2>5, <3>1, ContinueGood
  <2>6. CASE Error(parseState, 1) /\ UNCHANGED endTop
    <3>1. "error" \in Steps \ {"endTop"} /\ stringLen \in Nat
      BY DEF Steps, Good
    <3> QED
      BY <2>1, <2>6, <3>1, ContinueGood
  <2> QED
    BY <1>2, <2>3, <2>4, <2>5, <2>6 DEF EndValue
<1> QED
  BY <1>1, <1>2

\* Whatever byte the current step function reads, the scanner stays good.
LEMMA StepGood ==
    ASSUME Good, NEW c, Step(c)
    PROVE  Good'
<1>0. stringLen \in Nat /\ stepSize \in Nat /\ parseState \in Stack
  BY DEF Good
<1>1. CASE step = "beginValue" /\ BeginValue(c)
  <2>1. ~endTop
    BY <1>1 DEF Good, EndTopIsClosed
  <2> QED
    BY <1>0, <1>1, <2>1, EndValueGood, BeginOpenGood DEF BeginValue
<1>2. CASE step = "endValue" /\ EndValue(c)
  BY <1>2, EndValueGood
<1>3. CASE step = "beginString" /\ BeginString(c)
  <2>1. ~endTop
    BY <1>3 DEF Good, EndTopIsClosed
  <2>2. CASE /\ c \in Digit /\ UNCHANGED endTop
             /\ Continue("beginString", parseState, stepSize, stringLen * 10 + Value[c])
    <3>0. Value[c] \in Nat
      BY <2>2, DigitValue
    <3>1. stringLen * 10 + Value[c] \in Nat /\ "beginString" \in Steps \ {"endTop"}
      BY <1>0, <3>0 DEF Steps
    <3> QED
      BY <1>0, <2>1, <2>2, <3>1, ContinueGood
  <2>3. CASE UNCHANGED endTop /\ Continue("inString", parseState, stepSize, stringLen)
    BY <1>0, <2>1, <2>3, ContinueGood, "inString" \in Steps \ {"endTop"} DEF Steps
  <2>4. CASE EndValue(c)
    BY <2>4, EndValueGood
  <2>5. CASE UNCHANGED endTop /\ Error(parseState, stepSize)
    BY <1>0, <2>1, <2>5, ContinueGood, "error" \in Steps \ {"endTop"} DEF Steps
  <2> QED
    BY <1>3, <2>2, <2>3, <2>4, <2>5 DEF BeginString
<1>4. CASE step = "inString" /\ InString(c)
  <2>1. ~endTop /\ "endValue" \in Steps \ {"endTop"} /\ 0 \in Nat
    BY <1>4 DEF Good, EndTopIsClosed, Steps
  <2> QED
    BY <1>0, <1>4, <2>1, ContinueGood DEF InString
<1>5. CASE step \in {"beginInt", "neg", "zero", "num"} /\ InInt(c)
  <2>1. ~endTop
    BY <1>5 DEF Good, EndTopIsClosed
  <2>2. AfterInt(c) \in {"neg", "zero", "num", "endValue", "error"}
    BY Zenon DEF AfterInt
  <2> QED
    BY <1>0, <1>5, <2>1, <2>2, ContinueGood DEF InInt, Steps
<1>6. CASE step = "endTop" /\ EndTop(c, stepSize)
  BY <1>6 DEF Good, EndTop, Continue, Error, EndTopIsClosed, Steps
<1>7. CASE UNCHANGED scanner
  BY <1>7 DEF Good, scanner, EndTopIsClosed
<1> QED
  BY <1>1, <1>2, <1>3, <1>4, <1>5, <1>6, <1>7 DEF Step

-----------------------------------------------------------------------------

\* The scanner starts in the invariant.
LEMMA InitInv == Init => Inv
<1>1. <<>> \in Seq({"key", "value", "list"})
  OBVIOUS
<1>2. Init => step \in Steps /\ endTop \in BOOLEAN /\ err \in BOOLEAN
  BY Zenon DEF Init, Steps
<1> QED
  BY <1>1, <1>2 DEF Init, Inv, TypeOK, EndTopIsClosed, AcceptedIsClosed

\* Inv is inductive.
LEMMA NextInv ==
    ASSUME Inv, [Next]_vars
    PROVE  Inv'
<1>1. Good
  BY DEF Inv, TypeOK, Good, Stack
<1>2. ASSUME NEW c \in Byte, Scan(c)
      PROVE  Inv'
  <2>1. Good'
    BY <1>1, <1>2, StepGood DEF Scan
  <2>2. i' \in Nat /\ verdict' \in {"none", "refused"}
    BY <1>2, <2>1 DEF Scan, Inv, TypeOK, Good
  <2> QED
    BY <2>1, <2>2 DEF Inv, Good, TypeOK, AcceptedIsClosed, Stack
<1>3. CASE Eof
  BY <1>3 DEF Eof, Inv, TypeOK, EndTopIsClosed, AcceptedIsClosed, scanner
<1>4. CASE OutOfIndex
  BY <1>4 DEF OutOfIndex, Inv, TypeOK, EndTopIsClosed, AcceptedIsClosed, scanner
<1>5. CASE UNCHANGED vars
  BY <1>5 DEF vars, Inv, TypeOK, EndTopIsClosed, AcceptedIsClosed, scanner
<1> QED
  BY <1>2, <1>3, <1>4, <1>5 DEF Next

\* The inductive invariant holds in every reachable state of checkValid.
THEOREM Invariance == Spec => []Inv
  BY InitInv, NextInv, PTL DEF Spec

\* Every variable of the scanner keeps its type, for inputs of any length.
THEOREM TypeCorrect == Spec => []TypeOK
<1>1. Inv => TypeOK
  BY DEF Inv
<1> QED
  BY <1>1, Invariance, PTL

\* checkValid accepts no input, of any length and depth, that leaves a
\* dictionary or a list open.
THEOREM AcceptedClosed == Spec => []AcceptedIsClosed
<1>1. Inv => AcceptedIsClosed
  BY DEF Inv
<1> QED
  BY <1>1, Invariance, PTL

-----------------------------------------------------------------------------
(* Integers.                                                               *)

First(s) == IF s[2] = "-" THEN 3 ELSE 2

\* What an input s of n bytes that begins as an integer looks like when the
\* scanner is in state st, with an error or not.
IntSoFar(st, er, s, n) ==
    /\ st = "beginInt" => n = 1
    /\ st = "neg" => n = 2 /\ s[2] = "-"
    /\ st = "zero" => n = 2 /\ s[2] \in Digit
    /\ st = "num" => /\ n >= First(s) /\ AllDigits(s, First(s), n)
                     /\ Value[s[First(s)]] > 0
    /\ st = "endValue" => IsInteger(s, 1, n)
    /\ st = "endTop" => \E k \in 1 .. n : /\ IsInteger(s, 1, k)
                                         /\ \A j \in k + 1 .. n : s[j] = Blank
    /\ st = "error" => er
    /\ st \notin {"beginValue", "beginString", "inString"}

\* Before the first byte, and while an integer is scanned.
IntScan ==
    /\ data \in Seq(Byte \cup {Skipped})
    /\ data = <<>> /\ verdict = "none" =>
           i = 0 /\ step = "beginValue" /\ parseState = <<>> /\ stepSize = 1 /\ ~endTop
    /\ data # <<>> /\ data[1] = "i" /\ verdict = "none" =>
           i = Len(data) /\ parseState = <<>> /\ stepSize = 1 /\ IntSoFar(step, err, data, Len(data))
    /\ verdict = "valid" => data # <<>> /\ IntegersExact

\* Nothing is read at the start.
LEMMA InitIntScan == Init => IntScan
  BY DEF Init, IntScan

\* The input goes on with bytes that are not looked at.
LEMMA PaddedIs ==
    ASSUME data \in Seq(Byte \cup {Skipped}), NEW n \in Nat, Len(data) <= n
    PROVE  /\ Padded(n) \in Seq(Byte \cup {Skipped})
           /\ Len(Padded(n)) = n
           /\ \A k \in 1 .. Len(data) : Padded(n)[k] = data[k]
           /\ n = Len(data) => Padded(n) = data
<1> DEFINE S == Byte \cup {Skipped}
           m == n - Len(data)
           gap == [k \in 1 .. m |-> Skipped]
<1>1. m \in Nat /\ Skipped \in S /\ Len(data) \in Nat
  OBVIOUS
<1>2. Len(data) + m = n
  BY <1>1
<1> HIDE DEF m
<1>3. gap \in Seq(S) /\ Len(gap) = m
  BY <1>1
<1>4. Padded(n) = data \o gap
  BY DEF Padded, m
<1> HIDE DEF gap, S
<1>5. /\ data \o gap \in Seq(S) /\ Len(data \o gap) = Len(data) + Len(gap)
      /\ \A k \in 1 .. Len(data) + Len(gap) :
            (data \o gap)[k] = IF k <= Len(data) THEN data[k] ELSE gap[k - Len(data)]
  <2>1. data \in Seq(S)
    BY DEF S
  <2> QED
    BY <1>3, <2>1, ConcatProperties, Zenon
<1>6. Padded(n) \in Seq(S) /\ Len(Padded(n)) = n
  BY <1>2, <1>3, <1>4, <1>5
<1>7. \A k \in 1 .. Len(data) : Padded(n)[k] = data[k]
  BY <1>1, <1>3, <1>4, <1>5
<1>8. ASSUME n = Len(data) PROVE Padded(n) = data
  <2>1. data \in Seq(S)
    BY DEF S
  <2> QED
    BY <1>6, <1>7, <1>8, <2>1, SeqEqual
<1> QED
  BY <1>6, <1>7, <1>8 DEF S

\* Reading never changes the bytes that were read before.
LEMMA ReadsKeep ==
    ASSUME data \in Seq(Byte \cup {Skipped}), i \in Nat, NEW c \in Byte, Reads(c)
    PROVE  /\ data' \in Seq(Byte \cup {Skipped})
           /\ Len(data) <= Len(data') /\ Len(data') # 0
           /\ \A k \in 1 .. Len(data) : data'[k] = data[k]
           /\ i = Len(data) => Len(data') = Len(data) + 1 /\ data'[Len(data) + 1] = c
           /\ i + 1 <= Len(data') /\ data'[i + 1] = c
<1>1. CASE i < Len(data) /\ c = data[i + 1] /\ UNCHANGED data
  BY <1>1
<1>2. CASE Len(data) <= i /\ data' = Append(Padded(i), c)
  <2> DEFINE d == Padded(i)
             S == Byte \cup {Skipped}
  <2>1. d \in Seq(S) /\ Len(d) = i /\ \A k \in 1 .. Len(data) : d[k] = data[k]
    BY <1>2, PaddedIs
  <2>2. data' = Append(d, c) /\ Len(data) \in Nat /\ c \in S
    BY <1>2
  <2> HIDE DEF d, S
  <2>3. data' \in Seq(S) /\ Len(data') = i + 1 /\ data'[i + 1] = c
        /\ \A k \in 1 .. i : data'[k] = d[k]
    BY <2>1, <2>2
  <2> QED
    BY <1>2, <2>1, <2>2, <2>3 DEF S
<1> QED
  BY <1>1, <1>2 DEF Reads

\* The bytes that mean something outside a number are no digits.
LEMMA NotDigits ==
    "d" \notin Digit /\ "l" \notin Digit /\ "i" \notin Digit /\ "e" \notin Digit
    /\ "-" \notin Digit /\ ":" \notin Digit /\ Blank \notin Digit
<1>1. {"d", "l", "i", "e", "-", ":", Blank} \cap Digit = {}
  BY ScannerAssumption
<1> QED
  BY <1>1

\* The table of AfterInt, row by row.
LEMMA AfterIntIs ==
    ASSUME NEW c, step \in {"beginInt", "neg", "zero", "num"}
    PROVE  /\ step = "beginInt" /\ c = "-" => AfterInt(c) = "neg"
           /\ step = "beginInt" /\ c \in Digit /\ Value[c] = 0 => AfterInt(c) = "zero"
           /\ step \in {"beginInt", "neg"} /\ c \in Digit /\ Value[c] > 0 => AfterInt(c) = "num"
           /\ step = "beginInt" /\ c # "-" /\ c \notin Digit => AfterInt(c) = "error"
           /\ step = "neg" /\ ~(c \in Digit /\ Value[c] > 0) => AfterInt(c) = "error"
           /\ step = "zero" /\ c # "e" => AfterInt(c) = "error"
           /\ step \in {"zero", "num"} /\ c = "e" => AfterInt(c) = "endValue"
           /\ step = "num" /\ c \in Digit => AfterInt(c) = "num"
           /\ step = "num" /\ c \notin Digit /\ c # "e" => AfterInt(c) = "error"
<1> DEFINE zero == c \in Digit /\ Value[c] = 0
           pos  == c \in Digit /\ Value[c] > 0
<1>1. ~(zero /\ pos)
  OBVIOUS
<1>2. zero \/ pos => c \in Digit
  OBVIOUS
<1>3. AfterInt(c) =
        CASE step = "beginInt" /\ c = "-" -> "neg"
          [] step = "beginInt" /\ zero -> "zero"
          [] step \in {"beginInt", "neg"} /\ pos -> "num"
          [] step = "num" /\ c \in Digit -> "num"
          [] step \in {"zero", "num"} /\ c = "e" -> "endValue"
          [] OTHER -> "error"
  BY Zenon DEF AfterInt
<1> HIDE DEF zero, pos
<1>4. "-" \notin Digit /\ "e" \notin Digit
  BY NotDigits
<1>5. CASE step = "beginInt"
  BY <1>1, <1>2, <1>3, <1>4, <1>5 DEF zero, pos
<1>6. CASE step = "neg"
  BY <1>1, <1>2, <1>3, <1>4, <1>6 DEF zero, pos
<1>7. CASE step = "zero"
  BY <1>1, <1>2, <1>3, <1>4, <1>7 DEF zero, pos
<1>8. CASE step = "num"
  BY <1>1, <1>2, <1>3, <1>4, <1>8 DEF zero, pos
<1> QED
  BY <1>5, <1>6, <1>7, <1>8

\* The scanner inside or after an integer reads byte c.
LEMMA IntStep ==
    ASSUME Good, NEW s, NEW t, NEW n \in Nat \ {0}, NEW c, Step(c),
           DOMAIN s = 1 .. n, DOMAIN t = 1 .. n + 1, s[1] = "i",
           parseState = <<>>, stepSize = 1, IntSoFar(step, err, s, n), t[n + 1] = c,
           \A k \in 1 .. n : t[k] = s[k]
    PROVE  parseState' = <<>> /\ stepSize' = 1 /\ IntSoFar(step', err', t, n + 1)
<1>1. t[1] = "i" /\ (n >= 2 => t[2] = s[2] /\ First(t) = First(s)) /\ First(s) \in {2, 3}
  BY DEF First
<1>2. step \in Steps \ {"beginValue", "beginString", "inString"}
  BY DEF Good, IntSoFar
<1>3. CASE step = "beginInt"
  <2>1. InInt(c) /\ n = 1 /\ t[2] = c
    BY <1>3 DEF Step, IntSoFar
  <2>2. CASE c = "-"
    BY <1>3, <2>1, <2>2, AfterIntIs DEF InInt, Continue, IntSoFar
  <2>3. CASE c \in Digit /\ Value[c] = 0
    BY <1>3, <2>1, <2>3, AfterIntIs DEF InInt, Continue, IntSoFar
  <2>4. CASE c \in Digit /\ Value[c] > 0
    <3>1. First(t) = 2 /\ AllDigits(t, First(t), n + 1)
      BY <2>1, <2>4, NotDigits DEF First, AllDigits
    <3>2. step' = "num" /\ parseState' = <<>> /\ stepSize' = 1
      BY <1>3, <2>1, <2>4, AfterIntIs DEF InInt, Continue
    <3> QED
      BY <2>1, <2>4, <3>1, <3>2 DEF IntSoFar
  <2>5. CASE c # "-" /\ c \notin Digit
    BY <1>3, <2>1, <2>5, AfterIntIs DEF InInt, Error, IntSoFar
  <2> QED
    BY <2>2, <2>3, <2>4, <2>5, DigitValue
<1>4. CASE step = "neg"
  <2>1. InInt(c) /\ n = 2 /\ s[2] = "-" /\ t[3] = c /\ First(t) = 3
    BY <1>1, <1>4 DEF Step, IntSoFar, First
  <2>2. CASE c \in Digit /\ Value[c] > 0
    <3>1. step' = "num" /\ parseState' = <<>> /\ stepSize' = 1
      BY <1>4, <2>1, <2>2, AfterIntIs DEF InInt, Continue
    <3> QED
      BY <2>1, <2>2, <3>1 DEF IntSoFar, AllDigits
  <2>3. CASE ~(c \in Digit /\ Value[c] > 0)
    BY <1>4, <2>1, <2>3, AfterIntIs DEF InInt, Error, IntSoFar
  <2> QED
    BY <2>2, <2>3
<1>5. CASE step = "zero"
  <2>1. InInt(c) /\ n = 2 /\ s[2] \in Digit /\ t[2] = s[2] /\ t[3] = c
    BY <1>1, <1>5 DEF Step, IntSoFar
  <2>2. CASE c = "e"
    <3>1. step' = "endValue" /\ parseState' = <<>> /\ stepSize' = 1
      BY <1>5, <2>1, <2>2, AfterIntIs DEF InInt, Continue
    <3>2. t[2] # "-"
      BY <2>1, NotDigits
    <3>3. IsInteger(t, 1, 3)
      BY <1>1, <2>1, <2>2, <3>2 DEF IsInteger, AllDigits
    <3> QED
      BY <2>1, <3>1, <3>3 DEF IntSoFar
  <2>3. CASE c # "e"
    BY <1>5, <2>1, <2>3, AfterIntIs DEF InInt, Error, IntSoFar
  <2> QED
    BY <2>2, <2>3
<1>6. CASE step = "num"
  <2>1. /\ InInt(c) /\ n >= First(s) /\ AllDigits(s, First(s), n)
        /\ Value[s[First(s)]] > 0 /\ First(t) = First(s)
    BY <1>1, <1>6 DEF Step, IntSoFar
  <2>2. AllDigits(t, First(t), n) /\ Value[t[First(t)]] > 0
    BY <1>1, <2>1 DEF AllDigits
  <2>3. CASE c \in Digit
    <3>1. step' = "num" /\ parseState' = <<>> /\ stepSize' = 1
      BY <1>6, <2>1, <2>3, AfterIntIs DEF InInt, Continue
    <3>2. AllDigits(t, First(t), n + 1)
      BY <1>1, <2>1, <2>2, <2>3 DEF AllDigits
    <3> QED
      BY <1>1, <2>1, <2>2, <3>1, <3>2 DEF IntSoFar
  <2>4. CASE c = "e"
    <3>1. step' = "endValue" /\ parseState' = <<>> /\ stepSize' = 1
      BY <1>6, <2>1, <2>4, AfterIntIs DEF InInt, Continue
    <3>2. IsInteger(t, 1, n + 1)
      BY <1>1, <2>1, <2>2, <2>4 DEF IsInteger, First, AllDigits
    <3> QED
      BY <3>1, <3>2 DEF IntSoFar
  <2>5. CASE c # "e" /\ c \notin Digit
    BY <1>6, <2>1, <2>5, AfterIntIs DEF InInt, Error, IntSoFar
  <2> QED
    BY <2>3, <2>4, <2>5
<1>7. CASE step \in {"endValue", "endTop"}
  <2>1. EndTop(c, 1)
    BY <1>7 DEF Step, EndValue
  <2>2. PICK k \in 1 .. n : IsInteger(s, 1, k) /\ \A j \in k + 1 .. n : s[j] = Blank
    BY <1>1, <1>7 DEF IntSoFar
  <2>3. IsInteger(t, 1, k)
    BY <1>1, <2>2 DEF IsInteger, AllDigits
  <2>4. CASE c = Blank
    <3>1. step' = "endTop" /\ parseState' = <<>> /\ stepSize' = 1
      BY <2>1, <2>4 DEF EndTop, Continue
    <3>2. k \in 1 .. n + 1 /\ \A j \in k + 1 .. n + 1 : t[j] = Blank
      BY <1>1, <2>2, <2>4
    <3> QED
      BY <2>3, <3>1, <3>2 DEF IntSoFar
  <2>5. CASE c # Blank
    BY <2>1, <2>5 DEF EndTop, Error, IntSoFar
  <2> QED
    BY <2>4, <2>5
<1>8. CASE step = "error"
  <2>1. err
    BY <1>8 DEF IntSoFar
  <2>2. UNCHANGED scanner
    BY <1>8 DEF Step
  <2>3. step' = step /\ err' = err /\ parseState' = parseState /\ stepSize' = stepSize
    BY <2>2 DEF scanner
  <2> QED
    BY <1>8, <2>1, <2>3 DEF IntSoFar
<1> QED
  BY <1>2, <1>3, <1>4, <1>5, <1>6, <1>7, <1>8 DEF Steps

\* A byte that is read goes on with the integer or is refused.
LEMMA ScanIntScan ==
    ASSUME Inv, IntScan, NEW c \in Byte, Scan(c)
    PROVE  IntScan'
<1>1. verdict = "none" /\ Step(c) /\ Reads(c) /\ verdict' \in {"none", "refused"}
  BY DEF Scan
<1>2. verdict' = "none" => i' = i + stepSize'
  BY DEF Scan
<1>3. /\ data' \in Seq(Byte \cup {Skipped})
      /\ Len(data) <= Len(data') /\ Len(data') # 0
      /\ \A k \in 1 .. Len(data) : data'[k] = data[k]
      /\ i = Len(data) => Len(data') = Len(data) + 1 /\ data'[Len(data) + 1] = c
  BY <1>1, ReadsKeep DEF Inv, TypeOK, IntScan
<1>4. Good /\ data \in Seq(Byte \cup {Skipped})
  BY DEF Inv, TypeOK, Good, Stack, IntScan
<1>5. Len(data) \in Nat /\ Len(data') \in Nat /\ data' # <<>>
      /\ DOMAIN data = 1 .. Len(data) /\ DOMAIN data' = 1 .. Len(data')
  BY <1>3, <1>4
<1>6. ASSUME data'[1] = "i", verdict' = "none"
      PROVE  i' = Len(data') /\ parseState' = <<>> /\ stepSize' = 1
             /\ IntSoFar(step', err', data', Len(data'))
  <2>1. CASE data = <<>>
    <3>1. /\ i = 0 /\ Len(data) = 0 /\ step = "beginValue" /\ parseState = <<>>
          /\ stepSize = 1 /\ Len(data') = 1 /\ c = "i"
      BY <1>1, <1>3, <1>6, <2>1 DEF IntScan
    <3>2. BeginOpen(c, <<>>, 1)
      BY <1>1, <3>1 DEF Step, BeginValue
    <3>3. step' = "beginInt" /\ parseState' = <<>> /\ stepSize' = 1
      BY <3>1, <3>2, NotDigits DEF BeginOpen, Continue
    <3> QED
      BY <1>2, <1>6, <3>1, <3>3 DEF IntSoFar
  <2>2. CASE data # <<>>
    <3>1. Len(data) # 0
      BY <1>4, <2>2
    <3>2. data[1] = "i"
      <4>1. 1 \in 1 .. Len(data)
        BY <1>5, <3>1
      <4> QED
        BY <1>3, <1>6, <4>1
    <3>3. /\ i = Len(data) /\ parseState = <<>> /\ stepSize = 1
          /\ IntSoFar(step, err, data, Len(data))
      BY <1>1, <2>2, <3>2 DEF IntScan
    <3>4. /\ parseState' = <<>> /\ stepSize' = 1
          /\ IntSoFar(step', err', data', Len(data) + 1)
      <4> DEFINE s == data
                 t == data'
                 n == Len(data)
      <4>1. /\ n \in Nat \ {0} /\ DOMAIN s = 1 .. n /\ DOMAIN t = 1 .. n + 1
            /\ s[1] = "i" /\ t[n + 1] = c /\ \A k \in 1 .. n : t[k] = s[k]
        BY <1>3, <1>5, <3>1, <3>2, <3>3
      <4>2. IntSoFar(step, err, s, n) /\ parseState = <<>> /\ stepSize = 1
        BY <3>3
      <4> HIDE DEF s, t, n
      <4>3. parseState' = <<>> /\ stepSize' = 1 /\ IntSoFar(step', err', t, n + 1)
        BY <1>1, <1>4, <4>1, <4>2, IntStep
      <4> QED
        BY <4>3 DEF t, n
    <3> QED
      BY <1>2, <1>3, <1>6, <3>3, <3>4
  <2> QED
    BY <2>1, <2>2
<1> QED
  BY <1>1, <1>3, <1>5, <1>6 DEF IntScan

\* Every step keeps IntScan.
LEMMA NextIntScan ==
    ASSUME Inv, IntScan, [Next]_vars
    PROVE  IntScan'
<1>1. CASE Eof
  <2>1. data' = Padded(i) /\ Len(data) <= i /\ i \in Nat /\ data \in Seq(Byte \cup {Skipped})
    BY <1>1 DEF Eof, Inv, TypeOK, IntScan
  <2>2. verdict = "none" /\ verdict' \in {"valid", "incomplete"}
    BY <1>1 DEF Eof
  <2>3. ASSUME verdict' = "valid"
        PROVE  data' # <<>> /\ IntegersExact'
    <3>1. ~err /\ (endTop \/ (step = "endValue" /\ parseState = <<>>))
      BY <1>1, <2>3 DEF Eof
    <3>2. data # <<>>
      BY <2>2, <3>1 DEF IntScan
    <3>3. Len(data) \in Nat /\ Len(data) # 0
      BY <2>1, <3>2
    <3>4. /\ data' \in Seq(Byte \cup {Skipped}) /\ Len(data') = i /\ data'[1] = data[1]
          /\ (i = Len(data) => data' = data)
      BY <2>1, <3>3, PaddedIs
    <3>5. data' # <<>>
      BY <2>1, <3>3, <3>4
    <3>6. ASSUME data'[1] = "i"
          PROVE  \E n \in DOMAIN data' : /\ IsInteger(data', 1, n)
                                         /\ \A k \in n + 1 .. Len(data') : data'[k] = Blank
      <4>1. IntSoFar(step, err, data, Len(data)) /\ i = Len(data)
        BY <2>2, <3>2, <3>4, <3>6 DEF IntScan
      <4>2. step \in {"endValue", "endTop"}
        BY <3>1, <4>1 DEF Inv, EndTopIsClosed, IntSoFar
      <4>3. DOMAIN data = 1 .. Len(data) /\ Len(data) \in Nat \ {0} /\ data' = data
        BY <2>1, <3>3, <3>4, <4>1
      <4> DEFINE d == data
      <4>4. \E n \in DOMAIN d : /\ IsInteger(d, 1, n)
                                /\ \A k \in n + 1 .. Len(d) : d[k] = Blank
        BY <4>1, <4>2, <4>3 DEF IntSoFar
      <4>5. data' = d
        BY <4>3
      <4> HIDE DEF d
      <4> QED
        BY <4>4, <4>5
    <3> QED
      BY <3>5, <3>6 DEF IntegersExact
  <2>4. data' \in Seq(Byte \cup {Skipped})
    BY <2>1, PaddedIs
  <2> QED
    BY <2>2, <2>3, <2>4 DEF IntScan
<1>2. CASE OutOfIndex
  <2>1. PICK n \in Len(data) .. MaxLen : data' = Padded(n)
    BY <1>2 DEF OutOfIndex
  <2>2. data \in Seq(Byte \cup {Skipped}) /\ n \in Nat /\ Len(data) <= n
    BY <2>1, ScannerAssumption DEF IntScan
  <2>3. data' \in Seq(Byte \cup {Skipped}) /\ verdict' = "incomplete"
    BY <1>2, <2>1, <2>2, PaddedIs DEF OutOfIndex
  <2> QED
    BY <2>3 DEF IntScan
<1>3. CASE UNCHANGED vars
  BY <1>3 DEF vars, scanner, IntScan, IntegersExact
<1> QED
  BY <1>1, <1>2, <1>3, ScanIntScan DEF Next

\* An input that Valid accepts and that begins with i, of any length, is an
\* integer without leading zeros or a negative zero, followed by blanks.
THEOREM AcceptedIntegers == Spec => []IntegersExact
<1>1. IntScan => IntegersExact
  BY DEF IntScan, IntegersExact
<1> QED
  BY <1>1, Invariance, InitIntScan, NextIntScan, PTL DEF Spec

-----------------------------------------------------------------------------
(* The grammar's recursive functions.                                      *)

\* A set of numbers that is not empty has a least one: induction over data is
\* done as the refutation of a least counterexample.
LEMMA LeastNumber ==
    ASSUME NEW T \in SUBSET Nat, T # {}
    PROVE  \E x \in T : \A y \in T : x <= y
<1> DEFINE R == OpToRel(<, Nat)
<1>1. PICK x \in T : \A y \in T : ~ (<<y, x>> \in R)
  <2>1. IsWellFoundedOn(R, Nat)
    BY NatLessThanWellFounded
  <2> HIDE DEF R
  <2> QED
    BY <2>1, WFMin
<1>2. \A y \in T : ~(y < x)
  BY <1>1 DEF OpToRel
<1> HIDE DEF R
<1> QED
  BY <1>2

\* n has the values of the digits from p on, up to position m.
IsNumber(n, s, p, m) ==
    n = [q \in p .. m |-> IF q = p THEN 0 ELSE n[q - 1] * 10 + Value[s[q - 1]]]

\* There is such a function for every stretch of digits.
LEMMA NumberExists ==
    ASSUME NEW s, NEW p \in Nat, NEW m \in Nat
    PROVE  \E n : IsNumber(n, s, p, p + m)
<1> DEFINE T == {k \in Nat : ~\E n : IsNumber(n, s, p, p + k)}
<1>1. 0 \notin T
  <2> DEFINE n == [q \in p .. p + 0 |-> 0]
  <2>1. IsNumber(n, s, p, p + 0)
    BY DEF IsNumber
  <2> QED
    BY <2>1
<1>2. ASSUME NEW k \in Nat, k \notin T PROVE k + 1 \notin T
  <2>1. PICK n : IsNumber(n, s, p, p + k)
    BY <1>2
  <2> DEFINE g == [q \in p .. p + (k + 1) |->
                      IF q = p + (k + 1) THEN n[p + k] * 10 + Value[s[p + k]] ELSE n[q]]
  <2>2. /\ \A q \in p .. p + k : n[q] = IF q = p THEN 0 ELSE n[q - 1] * 10 + Value[s[q - 1]]
    BY <2>1 DEF IsNumber
  <2>3. \A q \in p .. p + (k + 1) :
            g[q] = IF q = p THEN 0 ELSE g[q - 1] * 10 + Value[s[q - 1]]
    <3> TAKE q \in p .. p + (k + 1)
    <3>1. CASE q = p + (k + 1)
      <4>1. q - 1 = p + k /\ q - 1 \in p .. p + (k + 1) /\ q # p /\ q - 1 # p + (k + 1)
        BY <3>1
      <4>2. g[q - 1] = n[p + k] /\ g[q] = n[p + k] * 10 + Value[s[p + k]]
        BY <3>1, <4>1
      <4> HIDE DEF g
      <4> QED
        BY <4>1, <4>2
    <3>2. CASE q = p
      BY <2>2, <3>2
    <3>3. CASE q # p /\ q # p + (k + 1)
      <4>1. q \in p .. p + k /\ q - 1 \in p .. p + k
        BY <3>3
      <4>2. g[q] = n[q] /\ g[q - 1] = n[q - 1]
        BY <4>1
      <4> HIDE DEF g
      <4> QED
        BY <2>2, <3>3, <4>1, <4>2
    <3> QED
      BY <3>1, <3>2, <3>3
  <2>4. IsNumber(g, s, p, p + (k + 1))
    BY <2>3 DEF IsNumber
  <2> QED
    BY <2>4
<1>3. T = {}
  <2> SUFFICES ASSUME T # {} PROVE FALSE
    OBVIOUS
  <2>1. T \in SUBSET Nat
    OBVIOUS
  <2>2. PICK k \in T : \A j \in T : k <= j
    <3> HIDE DEF T
    <3> QED
      BY <2>1, LeastNumber
  <2> HIDE DEF T
  <2>3. k \in Nat /\ k # 0 /\ k - 1 \in Nat /\ k - 1 \notin T /\ (k - 1) + 1 = k
    BY <1>1, <2>1, <2>2
  <2> QED
    BY <1>2, <2>2, <2>3
<1> QED
  BY <1>3

\* Number is the function its definition says.
LEMMA NumberIs ==
    ASSUME NEW s, Len(s) \in Nat, NEW p \in 1 .. Len(s)
    PROVE  /\ Number(s, p)[p] = 0
           /\ \A q \in p .. Len(s) : Number(s, p)[q + 1] = Number(s, p)[q] * 10 + Value[s[q]]
<1>1. PICK n : IsNumber(n, s, p, Len(s) + 1)
  <2>1. Len(s) + 1 - p \in Nat /\ p + (Len(s) + 1 - p) = Len(s) + 1 /\ p \in Nat
    OBVIOUS
  <2> QED
    BY <2>1, NumberExists
<1>2. IsNumber(Number(s, p), s, p, Len(s) + 1)
  BY <1>1 DEF Number, IsNumber
<1> DEFINE g == Number(s, p)
<1>3. IsNumber(g, s, p, Len(s) + 1)
  BY <1>2
<1> HIDE DEF g
<1>4. \A q \in p .. Len(s) + 1 : g[q] = IF q = p THEN 0 ELSE g[q - 1] * 10 + Value[s[q - 1]]
  BY <1>3 DEF IsNumber
<1>5. g[p] = 0
  BY <1>4
<1>6. \A q \in p .. Len(s) : g[q + 1] = g[q] * 10 + Value[s[q]]
  BY <1>4
<1> QED
  BY <1>5, <1>6 DEF g

\* What Parse says of position p.
EntryAt(s, e, p) == [value |-> ValueAt(s, e, p), list |-> ListAt(s, e, p),
                     dict |-> DictAt(s, e, p), more |-> MoreAt(s, e, p)]

\* An entry depends on those of later positions only.
LEMMA EntrySame ==
    ASSUME NEW s, NEW p, NEW e, NEW g, \A q \in p + 1 .. Len(s) + 1 : e[q] = g[q]
    PROVE  EntryAt(s, e, p) = EntryAt(s, g, p)
<1>1. \A q : After(s, e, p, q) = After(s, g, p, q)
  BY DEF After
<1>2. ValueAt(s, e, p) = ValueAt(s, g, p)
  BY <1>1 DEF ValueAt
<1>3. ListAt(s, e, p) = ListAt(s, g, p)
  BY <1>1, <1>2 DEF ListAt
<1>4. DictAt(s, e, p) = DictAt(s, g, p)
  BY <1>1 DEF DictAt
<1> QED
  BY <1>2, <1>3, <1>4 DEF EntryAt, MoreAt

\* e has the entries of the positions from m on.
IsParse(e, s, m) == e = [p \in m .. Len(s) + 1 |-> EntryAt(s, e, p)]

\* There are such entries for every stretch that reaches the end.
LEMMA ParseExists ==
    ASSUME NEW s, Len(s) \in Nat
    PROVE  \E e : IsParse(e, s, 1)
<1> DEFINE L == Len(s) + 1
           T == {k \in 0 .. Len(s) : ~\E e : IsParse(e, s, L - k)}
<1>0. L \in Nat /\ L >= 1
  OBVIOUS
<1>1. 0 \notin T
  <2> DEFINE e == [p \in L - 0 .. L |-> EntryAt(s, Nothing, p)]
  <2>1. \A p \in L - 0 .. L : EntryAt(s, e, p) = EntryAt(s, Nothing, p)
    <3> TAKE p \in L - 0 .. L
    <3>1. p = Len(s) + 1 /\ \A q \in p + 1 .. Len(s) + 1 : e[q] = Nothing[q]
      OBVIOUS
    <3> HIDE DEF e
    <3> QED
      BY <3>1, EntrySame
  <2>2. IsParse(e, s, L - 0)
    BY <2>1 DEF IsParse
  <2> QED
    BY <2>2
<1>2. ASSUME NEW k \in 0 .. Len(s) - 1, k \notin T PROVE k + 1 \notin T
  <2>1. PICK e : IsParse(e, s, L - k)
    BY <1>2
  <2> DEFINE m == L - (k + 1)
             g == [p \in m .. L |-> IF p = m THEN EntryAt(s, e, m) ELSE e[p]]
  <2>2. \A p \in L - k .. L : e[p] = EntryAt(s, e, p)
    BY <2>1 DEF IsParse
  <2>3. ASSUME NEW p \in m .. L PROVE EntryAt(s, g, p) = EntryAt(s, e, p)
    <3>1. \A q \in p + 1 .. Len(s) + 1 : g[q] = e[q]
      OBVIOUS
    <3> HIDE DEF g
    <3> QED
      BY <3>1, EntrySame
  <2>4. \A p \in m .. L : g[p] = EntryAt(s, g, p)
    <3> TAKE p \in m .. L
    <3>1. CASE p = m
      BY <2>3, <3>1
    <3>2. CASE p # m
      <4>1. p \in L - k .. L /\ g[p] = e[p]
        BY <3>2
      <4> QED
        BY <2>2, <2>3, <4>1
    <3> QED
      BY <3>1, <3>2
  <2>5. IsParse(g, s, L - (k + 1))
    BY <2>4 DEF IsParse
  <2> QED
    BY <2>5
<1>3. T = {}
  <2> SUFFICES ASSUME T # {} PROVE FALSE
    OBVIOUS
  <2>1. T \in SUBSET Nat /\ T \subseteq 0 .. Len(s)
    OBVIOUS
  <2>2. PICK k \in T : \A j \in T : k <= j
    <3> HIDE DEF T
    <3> QED
      BY <2>1, LeastNumber
  <2> HIDE DEF T
  <2>3. k \in Nat /\ k # 0 /\ k - 1 \in 0 .. Len(s) - 1 /\ k - 1 \notin T /\ (k - 1) + 1 = k
    BY <1>1, <2>1, <2>2
  <2> QED
    BY <1>2, <2>2, <2>3
<1>4. Len(s) \in 0 .. Len(s) /\ L - Len(s) = 1
  OBVIOUS
<1>5. \E e : IsParse(e, s, L - Len(s))
  BY <1>3, <1>4
<1> QED
  BY <1>4, <1>5

\* Parse has the entries that the grammar's rules give.
LEMMA ParseIs ==
    ASSUME NEW s, Len(s) \in Nat
    PROVE  \A p \in 1 .. Len(s) + 1 :
               /\ Parse(s)[p].value = ValueAt(s, Parse(s), p)
               /\ Parse(s)[p].list = ListAt(s, Parse(s), p)
               /\ Parse(s)[p].dict = DictAt(s, Parse(s), p)
               /\ Parse(s)[p].more = MoreAt(s, Parse(s), p)
<1>1. PICK g : IsParse(g, s, 1)
  BY ParseExists
<1> DEFINE e == Parse(s)
<1>2. IsParse(e, s, 1)
  BY <1>1 DEF Parse, IsParse, EntryAt
<1> HIDE DEF e
<1>3. \A p \in 1 .. Len(s) + 1 : e[p] = EntryAt(s, e, p)
  BY <1>2 DEF IsParse
<1>4. \A p \in 1 .. Len(s) + 1 :
               /\ e[p].value = ValueAt(s, e, p)
               /\ e[p].list = ListAt(s, e, p)
               /\ e[p].dict = DictAt(s, e, p)
               /\ e[p].more = MoreAt(s, e, p)
  <2> TAKE p \in 1 .. Len(s) + 1
  <2> DEFINE v == ValueAt(s, e, p)
             l == ListAt(s, e, p)
             d == DictAt(s, e, p)
             m == MoreAt(s, e, p)
  <2>1. e[p] = [value |-> v, list |-> l, dict |-> d, more |-> m]
    BY <1>3 DEF EntryAt
  <2> HIDE DEF v, l, d, m
  <2>2. e[p].value = v /\ e[p].list = l /\ e[p].dict = d /\ e[p].more = m
    BY <2>1
  <2> QED
    BY <2>2 DEF v, l, d, m
<1> QED
  BY <1>4 DEF e

-----------------------------------------------------------------------------
(* What the grammar says of a position.                                    *)

\* What the grammar can be asked about: s is a sequence.
IsInput(s) == Len(s) \in Nat /\ DOMAIN s = 1 .. Len(s)

\* e has the entries that the grammar's rules give.
Entries(s, e) ==
    \A p \in 1 .. Len(s) + 1 :
        /\ e[p].value = ValueAt(s, e, p)
        /\ e[p].list = ListAt(s, e, p)
        /\ e[p].dict = DictAt(s, e, p)
        /\ e[p].more = MoreAt(s, e, p)

\* EndInt finds an integer that starts at p.
LEMMA EndIntIs ==
    ASSUME NEW s, NEW p, EndInt(s, p) # 0
    PROVE  \E q \in p .. Len(s) : IsInteger(s, p, q) /\ EndInt(s, p) = q + 1
<1>1. \E q \in p .. Len(s) : IsInteger(s, p, q)
  BY DEF EndInt
<1> DEFINE q == CHOOSE q \in p .. Len(s) : IsInteger(s, p, q)
<1>2. q \in p .. Len(s) /\ IsInteger(s, p, q)
  BY <1>1
<1>3. EndInt(s, p) = 1 + q
  BY <1>1 DEF EndInt
<1> HIDE DEF q
<1> QED
  BY <1>2, <1>3

\* EndString finds a string that starts at p.
LEMMA EndStringIs ==
    ASSUME NEW s, NEW p, EndString(s, p) # 0
    PROVE  \E q \in p .. Len(s) :
               IsLength(s, p, q) /\ EndString(s, p) = q + Number(s, p)[q] + 1
<1>1. \E q \in p .. Len(s) : IsLength(s, p, q)
  BY DEF EndString
<1> DEFINE q == CHOOSE q \in p .. Len(s) : IsLength(s, p, q)
<1>2. q \in p .. Len(s) /\ IsLength(s, p, q)
  BY <1>1
<1>3. EndString(s, p) = q + Number(s, p)[q] + 1
  BY DEF EndString
<1> HIDE DEF q
<1> QED
  BY <1>2, <1>3

\* A string starts with a digit.
LEMMA StringStarts ==
    ASSUME NEW s, IsInput(s), NEW p \in Nat \ {0}, EndString(s, p) # 0
    PROVE  p \in DOMAIN s /\ s[p] \in Digit
<1>1. PICK q \in p .. Len(s) : IsLength(s, p, q)
  BY EndStringIs
<1>2. p \in p .. q - 1 /\ q \in DOMAIN s /\ p < q
  BY <1>1 DEF IsLength, IsInput
<1>3. s[p] \in Digit
  BY <1>1, <1>2 DEF IsLength, AllDigits
<1> QED
  BY <1>2, <1>3 DEF IsInput

\* Positions are the numbers from 1 to one past the end.
Pos(s) == 1 .. Len(s) + 1

\* After reads an entry of a later position.
LEMMA AfterIs ==
    ASSUME NEW s, NEW e, NEW p, NEW q
    PROVE  /\ After(s, e, p, q).value # 0 => q \in p + 1 .. Len(s) + 1 /\ After(s, e, p, q) = e[q]
           /\ After(s, e, p, q).list # 0 => q \in p + 1 .. Len(s) + 1 /\ After(s, e, p, q) = e[q]
           /\ After(s, e, p, q).more # 0 => q \in p + 1 .. Len(s) + 1 /\ After(s, e, p, q) = e[q]
           /\ After(s, e, p, q).dict # 0 => q \in p + 1 .. Len(s) + 1 /\ After(s, e, p, q) = e[q]
  BY DEF After, Nothing

\* What starts a value, and how far its end is known from its first byte.
LEMMA ValueIs ==
    ASSUME NEW s, NEW e, IsInput(s), Entries(s, e), NEW p \in Pos(s), e[p].value \in Pos(s)
    PROVE  /\ p \in 1 .. Len(s)
           /\ s[p] \in {"i", "l", "d"} \cup Digit
           /\ s[p] = "i" => e[p].value = EndInt(s, p)
           /\ s[p] = "l" => e[p].value = e[p + 1].list
           /\ s[p] = "d" => e[p].value = e[p + 1].dict
           /\ s[p] \in Digit => e[p].value = EndString(s, p)
<1>1. /\ e[p].value = ValueAt(s, e, p) /\ e[p].value # 0 /\ p \in Nat \ {0}
      /\ DOMAIN s = 1 .. Len(s) /\ Len(s) \in Nat
  BY DEF Entries, Pos, IsInput
<1>2. CASE Is(s, p, "i")
  <2>1. ValueAt(s, e, p) = EndInt(s, p)
    BY <1>2 DEF ValueAt, Is
  <2> QED
    BY <1>1, <1>2, <2>1, NotDigits DEF Is
<1>3. CASE Is(s, p, "l")
  <2>1. ValueAt(s, e, p) = After(s, e, p, p + 1).list
    BY <1>3 DEF ValueAt, Is
  <2> QED
    BY <1>1, <1>3, <2>1, NotDigits, AfterIs DEF Is
<1>4. CASE Is(s, p, "d")
  <2>1. ValueAt(s, e, p) = After(s, e, p, p + 1).dict
    BY <1>4 DEF ValueAt, Is
  <2> QED
    BY <1>1, <1>4, <2>1, NotDigits, AfterIs DEF Is
<1>5. CASE ~Is(s, p, "i") /\ ~Is(s, p, "l") /\ ~Is(s, p, "d")
  <2>1. ValueAt(s, e, p) = EndString(s, p)
    BY <1>5 DEF ValueAt
  <2>2. p \in DOMAIN s /\ s[p] \in Digit
    BY <1>1, <2>1, StringStarts
  <2> QED
    BY <1>1, <2>1, <2>2, NotDigits
<1> QED
  BY <1>2, <1>3, <1>4, <1>5

\* The rest of a list.
LEMMA ListIs ==
    ASSUME NEW s, NEW e, IsInput(s), Entries(s, e), NEW p \in Pos(s), e[p].list \in Pos(s)
    PROVE  /\ p \in 1 .. Len(s)
           /\ s[p] = "e" => e[p].list = p + 1
           /\ s[p] # "e" => e[p].value \in Pos(s) /\ e[e[p].value].list = e[p].list
<1>1. /\ e[p].list = ListAt(s, e, p) /\ e[p].value = ValueAt(s, e, p) /\ e[p].list # 0
      /\ p \in Nat \ {0} /\ DOMAIN s = 1 .. Len(s) /\ Len(s) \in Nat
  BY DEF Entries, Pos, IsInput
<1>2. CASE Is(s, p, "e")
  BY <1>1, <1>2 DEF ListAt, Is
<1>3. CASE ~Is(s, p, "e")
  <2>1. After(s, e, p, e[p].value).list = e[p].list
    BY <1>1, <1>3 DEF ListAt
  <2>2. e[p].value \in p + 1 .. Len(s) + 1 /\ After(s, e, p, e[p].value) = e[e[p].value]
    BY <1>1, <2>1, AfterIs
  <2>3. e[p].value \in Pos(s) /\ p \in 1 .. Len(s)
    BY <1>1, <2>2 DEF Pos
  <2>4. s[p] # "e"
    BY <1>1, <1>3, <2>3 DEF Is
  <2> QED
    BY <2>1, <2>2, <2>3, <2>4
<1> QED
  BY <1>2, <1>3

\* The rest of a dictionary: a key ends at k, and then come a value and the rest.
LEMMA DictIs ==
    ASSUME NEW s, NEW e, IsInput(s), NEW p \in Pos(s), DictAt(s, e, p) \in Pos(s)
    PROVE  /\ p \in 1 .. Len(s)
           /\ s[p] = "e" => DictAt(s, e, p) = p + 1
           /\ s[p] # "e" => /\ s[p] \in Digit
                            /\ EndString(s, p) \in Pos(s)
                            /\ e[EndString(s, p)].value \in Pos(s)
                            /\ e[e[EndString(s, p)].value].more = DictAt(s, e, p)
<1>1. /\ DictAt(s, e, p) # 0 /\ p \in Nat \ {0} /\ DOMAIN s = 1 .. Len(s) /\ Len(s) \in Nat
  BY DEF Pos, IsInput
<1>2. CASE Is(s, p, "e")
  BY <1>1, <1>2 DEF DictAt, Is
<1>3. CASE ~Is(s, p, "e")
  <2> DEFINE k == EndString(s, p)
             v == After(s, e, p, k).value
  <2>1. After(s, e, p, v).more = DictAt(s, e, p)
    BY <1>3 DEF DictAt
  <2> HIDE DEF v
  <2>2. v \in p + 1 .. Len(s) + 1 /\ After(s, e, p, v) = e[v]
    BY <1>1, <2>1, AfterIs
  <2>3. v # 0
    BY <1>1, <2>2
  <2>4. k \in p + 1 .. Len(s) + 1 /\ v = e[k].value
    BY <2>3, AfterIs DEF v
  <2>5. k \in Pos(s) /\ v \in Pos(s) /\ k # 0
    BY <1>1, <2>2, <2>4 DEF Pos
  <2>6. p \in DOMAIN s /\ s[p] \in Digit
    BY <1>1, <2>5, StringStarts
  <2>7. s[p] # "e"
    BY <2>6, NotDigits
  <2> QED
    BY <1>1, <2>1, <2>2, <2>4, <2>5, <2>6, <2>7
<1> QED
  BY <1>2, <1>3

\* The rest of a dictionary after a pair: a next key is not empty.
LEMMA MoreIs ==
    ASSUME NEW s, NEW e, IsInput(s), Entries(s, e), NEW p \in Pos(s), e[p].more \in Pos(s)
    PROVE  /\ p \in 1 .. Len(s)
           /\ s[p] = "e" => e[p].more = p + 1
           /\ s[p] # "e" => /\ s[p] \in Digit /\ Value[s[p]] # 0
                            /\ EndString(s, p) \in Pos(s)
                            /\ e[EndString(s, p)].value \in Pos(s)
                            /\ e[e[EndString(s, p)].value].more = e[p].more
<1>1. e[p].more = MoreAt(s, e, p) /\ e[p].more # 0
  BY DEF Entries, Pos
<1>2. DictAt(s, e, p) = e[p].more /\ ~(p \in DOMAIN s /\ s[p] \in Digit /\ Value[s[p]] = 0)
  BY <1>1 DEF MoreAt
<1> QED
  BY <1>2, DictIs DEF IsInput

-----------------------------------------------------------------------------
(* The containers that are open.                                           *)

\* A container of kind x that goes on at p ends at r.
Closed(s, e, x, p, r) ==
    \/ x = "list" /\ e[p].list = r
    \/ x = "value" /\ e[p].more = r
    \/ x = "key" /\ e[p].value \in Pos(s) /\ e[e[p].value].more = r

\* From p on, s closes the containers of ps one after the other and then ends.
Closes(s, e, ps, p) ==
    \E z \in [0 .. Len(ps) -> Pos(s)] :
        /\ z[Len(ps)] = p /\ z[0] = Len(s) + 1
        /\ \A k \in 1 .. Len(ps) : Closed(s, e, ps[k], z[k], z[k - 1])

\* Closing starts at a position of s: with nothing open, past its end.
LEMMA ClosesPos ==
    ASSUME NEW s, NEW e, NEW ps \in Stack, NEW p, Closes(s, e, ps, p)
    PROVE  p \in Pos(s) /\ (ps = <<>> => p = Len(s) + 1)
<1>1. Len(ps) \in 0 .. Len(ps) /\ (ps = <<>> => Len(ps) = 0)
  BY DEF Stack
<1> QED
  BY <1>1 DEF Closes

\* With nothing open s has ended.
LEMMA ClosesNone ==
    ASSUME NEW s, NEW e, IsInput(s)
    PROVE  Closes(s, e, <<>>, Len(s) + 1)
<1> DEFINE z == [k \in 0 .. 0 |-> Len(s) + 1]
<1>1. z \in [0 .. Len(<<>>) -> Pos(s)] /\ z[Len(<<>>)] = Len(s) + 1 /\ z[0] = Len(s) + 1
  BY DEF IsInput, Pos
<1>2. \A k \in 1 .. Len(<<>>) : Closed(s, e, <<>>[k], z[k], z[k - 1])
  OBVIOUS
<1> HIDE DEF z
<1> QED
  BY <1>1, <1>2 DEF Closes

\* A container is opened.
LEMMA ClosesPush ==
    ASSUME NEW s, NEW e, NEW ps \in Stack, NEW x \in {"key", "value", "list"},
           NEW p \in Pos(s), NEW r, Closed(s, e, x, p, r), Closes(s, e, ps, r)
    PROVE  Closes(s, e, Append(ps, x), p)
<1> DEFINE n == Len(ps)
           w == Append(ps, x)
<1>1. PICK z \in [0 .. n -> Pos(s)] :
          /\ z[n] = r /\ z[0] = Len(s) + 1
          /\ \A k \in 1 .. n : Closed(s, e, ps[k], z[k], z[k - 1])
  BY DEF Closes
<1>2. n \in Nat /\ Len(w) = n + 1 /\ w[n + 1] = x /\ \A k \in 1 .. n : w[k] = ps[k]
  BY DEF Stack
<1> DEFINE y == [k \in 0 .. n + 1 |-> IF k = n + 1 THEN p ELSE z[k]]
<1> HIDE DEF n, w
<1>3. /\ y \in [0 .. n + 1 -> Pos(s)] /\ y[n + 1] = p /\ y[0] = Len(s) + 1
      /\ \A k \in 0 .. n : y[k] = z[k]
  BY <1>1, <1>2
<1> HIDE DEF y
<1>4. \A k \in 1 .. n + 1 : Closed(s, e, w[k], y[k], y[k - 1])
  <2> TAKE k \in 1 .. n + 1
  <2>1. CASE k = n + 1
    <3>1. k - 1 = n /\ n \in 0 .. n
      BY <1>2, <2>1
    <3>2. w[k] = x /\ y[k] = p /\ y[k - 1] = r
      BY <1>1, <1>2, <1>3, <2>1, <3>1
    <3> QED
      BY <3>2
  <2>2. CASE k # n + 1
    <3>1. k \in 1 .. n /\ k \in 0 .. n /\ k - 1 \in 0 .. n
      BY <1>2, <2>2
    <3>2. w[k] = ps[k] /\ y[k] = z[k] /\ y[k - 1] = z[k - 1]
      BY <1>2, <1>3, <3>1
    <3> QED
      BY <1>1, <3>1, <3>2
  <2> QED
    BY <2>1, <2>2
<1>5. Closes(s, e, w, p)
  BY <1>2, <1>3, <1>4, Zenon DEF Closes
<1> QED
  BY <1>5 DEF w

\* A stack that is not empty is its top on the rest of it.
LEMMA StackParts ==
    ASSUME NEW ps \in Stack, ps # <<>>
    PROVE  /\ Pop(ps) \in Stack /\ Len(ps) \in Nat \ {0} /\ Len(Pop(ps)) = Len(ps) - 1
           /\ Top(ps) \in {"key", "value", "list"}
           /\ \A k \in 1 .. Len(ps) - 1 : Pop(ps)[k] = ps[k]
           /\ \A x \in {"key", "value", "list"} :
                 /\ Mark(ps, x) = Append(Pop(ps), x) /\ Mark(ps, x) \in Stack
                 /\ Mark(ps, x) # <<>> /\ Top(Mark(ps, x)) = x /\ Pop(Mark(ps, x)) = Pop(ps)
<1> DEFINE n == Len(ps)
<1>1. n \in Nat \ {0} /\ DOMAIN ps = 1 .. n /\ \A k \in 1 .. n : ps[k] \in {"key", "value", "list"}
  BY DEF Stack
<1>2. Pop(ps) = [k \in 1 .. n - 1 |-> ps[k]]
  BY <1>1, SubSeqProperties DEF Pop, Stack
<1>3. /\ Pop(ps) \in Stack /\ Len(Pop(ps)) = n - 1
      /\ \A k \in 1 .. n - 1 : Pop(ps)[k] = ps[k]
  BY <1>1, <1>2 DEF Stack
<1>4. ASSUME NEW x \in {"key", "value", "list"}
      PROVE  /\ Mark(ps, x) = Append(Pop(ps), x) /\ Mark(ps, x) \in Stack
             /\ Mark(ps, x) # <<>> /\ Top(Mark(ps, x)) = x /\ Pop(Mark(ps, x)) = Pop(ps)
  <2> DEFINE w == Mark(ps, x)
             v == Append(Pop(ps), x)
  <2>1. /\ w \in Stack /\ w # <<>> /\ Len(w) = n /\ w[n] = x
        /\ \A k \in 1 .. n - 1 : w[k] = ps[k]
    <3>1. w \in Stack /\ Len(w) = n
      BY <1>1 DEF Mark, Stack
    <3>2. w = [k \in 1 .. n |-> IF k = n THEN x ELSE ps[k]]
      BY <1>1 DEF Mark, Stack
    <3> HIDE DEF w, n
    <3>3. w[n] = x /\ \A k \in 1 .. n - 1 : w[k] = ps[k]
      BY <1>1, <3>2
    <3>4. w # <<>>
      BY <1>1, <3>1
    <3> QED
      BY <3>1, <3>3, <3>4
  <2>2. v \in Stack /\ Len(v) = n /\ v[n] = x /\ \A k \in 1 .. n - 1 : v[k] = ps[k]
    <3> HIDE DEF n
    <3>1. Len(Pop(ps)) + 1 = n
      BY <1>1, <1>3
    <3> QED
      BY <1>3, <3>1 DEF Stack
  <2> HIDE DEF w, v, n
  <2>3. w = v
    <3>1. \A k \in 1 .. n : k = n \/ k \in 1 .. n - 1
      BY <1>1
    <3>2. \A k \in 1 .. n : w[k] = v[k]
      BY <2>1, <2>2, <3>1
    <3> QED
      BY <2>1, <2>2, <3>2, SeqEqual DEF Stack
  <2>4. Pop(w) = Pop(ps)
    <3>1. Pop(w) = [k \in 1 .. n - 1 |-> w[k]]
      BY <1>1, <2>1, SubSeqProperties DEF Pop, Stack
    <3> QED
      BY <1>2, <2>1, <3>1
  <2>5. Top(w) = x
    BY <2>1 DEF Top
  <2> QED
    BY <2>1, <2>3, <2>4, <2>5 DEF w, v
<1>5. Top(ps) \in {"key", "value", "list"}
  BY <1>1 DEF Top
<1> QED
  BY <1>1, <1>3, <1>4, <1>5

\* The innermost container is closed first.
LEMMA ClosesTop ==
    ASSUME NEW s, NEW e, NEW ps \in Stack, ps # <<>>, NEW p, Closes(s, e, ps, p)
    PROVE  \E r \in Pos(s) : Closed(s, e, Top(ps), p, r) /\ Closes(s, e, Pop(ps), r)
<1> DEFINE n == Len(ps)
           w == Pop(ps)
<1>1. PICK z \in [0 .. n -> Pos(s)] :
          /\ z[n] = p /\ z[0] = Len(s) + 1
          /\ \A k \in 1 .. n : Closed(s, e, ps[k], z[k], z[k - 1])
  BY DEF Closes
<1>2. n \in Nat \ {0} /\ Len(w) = n - 1 /\ \A k \in 1 .. n - 1 : w[k] = ps[k]
  BY StackParts
<1> DEFINE y == [k \in 0 .. n - 1 |-> z[k]]
<1>3. Top(ps) = ps[n]
  BY DEF Top
<1> HIDE DEF n, w
<1>4. n - 1 \in 0 .. n - 1 /\ 0 \in 0 .. n - 1 /\ n - 1 \in 0 .. n /\ n \in 1 .. n
  BY <1>2
<1>5. y \in [0 .. n - 1 -> Pos(s)] /\ y[n - 1] = z[n - 1] /\ y[0] = Len(s) + 1
  BY <1>1, <1>2, <1>4
<1>6. \A k \in 1 .. n - 1 : Closed(s, e, w[k], y[k], y[k - 1])
  <2> TAKE k \in 1 .. n - 1
  <2>1. k \in 1 .. n /\ k \in 0 .. n - 1 /\ k - 1 \in 0 .. n - 1
    BY <1>2
  <2>2. y[k] = z[k] /\ y[k - 1] = z[k - 1]
    BY <2>1
  <2> QED
    BY <1>1, <1>2, <2>1, <2>2
<1> HIDE DEF y
<1>7. Closes(s, e, w, z[n - 1])
  BY <1>2, <1>5, <1>6 DEF Closes
<1>8. Closed(s, e, ps[n], p, z[n - 1]) /\ z[n - 1] \in Pos(s)
  BY <1>1, <1>4
<1> QED
  BY <1>3, <1>7, <1>8 DEF w

-----------------------------------------------------------------------------
(* What the scanner knows of an encoding s when it is about to read byte p. *)

\* It has read digits of a string's length, from a on.
LengthTo(s, e, ps, len, p) ==
    \E a \in 1 .. p - 1 :
        /\ AllDigits(s, a, p - 1) /\ len \in Nat /\ len = Number(s, a)[p]
        /\ len = 0 => p = a + 1 /\ Value[s[a]] = 0
        /\ ps = <<>> => a = 1
        /\ Closes(s, e, ps, EndString(s, a))

\* It has read the d of a dictionary.
DictOpen(s, e, ps, len, p) ==
    ps # <<>> /\ Top(ps) = "key" /\ len = 0 /\ Closes(s, e, Pop(ps), e[p].dict)

\* The first digit of the integer at a.
FirstOf(s, a) == IF s[a + 1] = "-" THEN a + 2 ELSE a + 1

\* It has read the bytes of an integer from a on.
IntTo(st, s, e, ps, p) ==
    \E a \in 1 .. p - 1 :
        /\ Closes(s, e, ps, EndInt(s, a))
        /\ st = "beginInt" => p = a + 1
        /\ st = "neg" => p = a + 2 /\ s[a + 1] = "-"
        /\ st = "zero" => p = a + 2 /\ s[a + 1] \in Digit /\ Value[s[a + 1]] = 0
        /\ st = "num" => FirstOf(s, a) < p /\ AllDigits(s, FirstOf(s, a), p - 1)

\* The step functions inside an integer.
Ints == {"beginInt", "neg", "zero", "num"}

\* In state st, with stack ps, the scanner is where it should be in encoding s
\* when it is about to read byte p.
Follows(st, ps, len, size, p, s, e) ==
    /\ p \in Pos(s)
    /\ st = "beginValue" =>
           /\ len = 0 /\ size = 1
           /\ ps = <<>> => p = 1 /\ Closes(s, e, ps, e[p].value)
           /\ ps # <<>> => Top(ps) = "list" /\ Closes(s, e, ps, p)
    /\ st = "endValue" => len = 0 /\ Closes(s, e, ps, p)
    /\ st = "beginString" => size = 1 /\ (DictOpen(s, e, ps, len, p) \/ LengthTo(s, e, ps, len, p))
    /\ st = "inString" =>
           /\ size = 1 /\ Closes(s, e, ps, p + len)
           /\ ps = <<>> /\ len = 0 => p = 3 /\ s[1] \in Digit /\ Value[s[1]] = 0 /\ s[2] = ":"
    /\ st \in Ints => len = 0 /\ size = 1 /\ IntTo(st, s, e, ps, p)
    /\ st \notin {"endTop", "error"}

\* The top of a stack that was pushed on, and the rest of it.
LEMMA AppendParts ==
    ASSUME NEW ps \in Stack, NEW x \in {"key", "value", "list"}
    PROVE  Append(ps, x) # <<>> /\ Top(Append(ps, x)) = x /\ Pop(Append(ps, x)) = ps
<1> DEFINE w == Append(ps, x)
<1>1. w \in Stack /\ Len(w) = Len(ps) + 1 /\ Len(ps) \in Nat /\ w[Len(w)] = x
      /\ \A k \in 1 .. Len(ps) : w[k] = ps[k]
  BY DEF Stack
<1> HIDE DEF w
<1>2. w # <<>>
  BY <1>1
<1>3. Pop(w) \in Stack /\ Len(Pop(w)) = Len(ps) /\ \A k \in 1 .. Len(ps) : Pop(w)[k] = ps[k]
  <2>1. /\ Pop(w) \in Stack /\ Len(Pop(w)) = Len(w) - 1
        /\ \A k \in 1 .. Len(w) - 1 : Pop(w)[k] = w[k]
    BY <1>1, <1>2, StackParts
  <2>2. Len(w) - 1 = Len(ps)
    BY <1>1
  <2> QED
    BY <1>1, <2>1, <2>2
<1>4. Pop(w) = ps
  BY <1>3, SeqEqual DEF Stack
<1> QED
  BY <1>1, <1>2, <1>4 DEF w, Top

\* The scanner has read the i of an integer.
LEMMA OpenInt ==
    ASSUME NEW s, NEW e, IsInput(s), NEW ps, NEW p \in 1 .. Len(s), Closes(s, e, ps, EndInt(s, p))
    PROVE  Follows("beginInt", ps, 0, 1, p + 1, s, e)
<1>1. p + 1 \in Pos(s) /\ p \in 1 .. (p + 1) - 1
  BY DEF Pos, IsInput
<1>2. IntTo("beginInt", s, e, ps, p + 1)
  BY <1>1 DEF IntTo
<1> QED
  BY <1>1, <1>2 DEF Follows

\* The scanner has read the l of a list.
LEMMA OpenList ==
    ASSUME NEW s, NEW e, IsInput(s), NEW ps \in Stack, NEW p \in 1 .. Len(s),
           Closes(s, e, ps, e[p + 1].list)
    PROVE  Follows("beginValue", Append(ps, "list"), 0, 1, p + 1, s, e)
<1> DEFINE w == Append(ps, "list")
<1>1. p + 1 \in Pos(s)
  BY DEF Pos, IsInput
<1>2. Closed(s, e, "list", p + 1, e[p + 1].list)
  BY DEF Closed
<1>3. Closes(s, e, w, p + 1)
  BY <1>1, <1>2, ClosesPush
<1>4. w # <<>> /\ Top(w) = "list"
  BY AppendParts
<1> HIDE DEF w
<1>5. Follows("beginValue", w, 0, 1, p + 1, s, e)
  BY <1>1, <1>3, <1>4 DEF Follows, Ints
<1> QED
  BY <1>5 DEF w

\* The scanner has read the d of a dictionary.
LEMMA OpenDict ==
    ASSUME NEW s, NEW e, IsInput(s), NEW ps \in Stack, NEW p \in 1 .. Len(s),
           Closes(s, e, ps, e[p + 1].dict)
    PROVE  Follows("beginString", Append(ps, "key"), 0, 1, p + 1, s, e)
<1> DEFINE w == Append(ps, "key")
<1>1. p + 1 \in Pos(s)
  BY DEF Pos, IsInput
<1>2. w # <<>> /\ Top(w) = "key" /\ Pop(w) = ps
  BY AppendParts
<1> HIDE DEF w
<1>3. DictOpen(s, e, w, 0, p + 1)
  BY <1>2 DEF DictOpen
<1>4. Follows("beginString", w, 0, 1, p + 1, s, e)
  BY <1>1, <1>3 DEF Follows, Ints
<1> QED
  BY <1>4 DEF w

\* The scanner has read the first digit of a string.
LEMMA OpenString ==
    ASSUME NEW s, NEW e, IsInput(s), NEW ps, NEW p \in 1 .. Len(s), s[p] \in Digit,
           Closes(s, e, ps, EndString(s, p)), ps = <<>> => p = 1
    PROVE  Follows("beginString", ps, Value[s[p]], 1, p + 1, s, e)
<1>1. p + 1 \in Pos(s) /\ p \in 1 .. (p + 1) - 1 /\ p \in p .. Len(s) /\ Len(s) \in Nat
  BY DEF Pos, IsInput
<1>2. Value[s[p]] \in Nat
  BY DigitValue
<1>3. Number(s, p)[p + 1] = Value[s[p]]
  <2>1. Number(s, p)[p] = 0 /\ Number(s, p)[p + 1] = Number(s, p)[p] * 10 + Value[s[p]]
    BY <1>1, NumberIs
  <2> QED
    BY <1>2, <2>1
<1>4. AllDigits(s, p, (p + 1) - 1)
  BY <1>1 DEF AllDigits
<1>5. LengthTo(s, e, ps, Value[s[p]], p + 1)
  BY <1>1, <1>2, <1>3, <1>4 DEF LengthTo
<1> QED
  BY <1>1, <1>5 DEF Follows, Ints

\* The scanner has read a whole value.
LEMMA Ended ==
    ASSUME NEW s, NEW e, NEW ps \in Stack, NEW p, NEW size, Closes(s, e, ps, p)
    PROVE  Follows("endValue", ps, 0, size, p, s, e)
<1>1. p \in Pos(s)
  BY ClosesPos
<1> QED
  BY <1>1 DEF Follows, Ints

\* Where the length of a string ends is known from its first byte.
LEMMA LengthEnds ==
    ASSUME NEW s, IsInput(s), NEW a \in Nat \ {0}, NEW p \in Nat, a < p,
           AllDigits(s, a, p - 1), EndString(s, a) # 0
    PROVE  /\ p \in 1 .. Len(s)
           /\ s[p] \in Digit \/ s[p] = ":"
           /\ s[p] \in Digit => Value[s[a]] # 0 \/ p # a + 1
           /\ s[p] = ":" => /\ EndString(s, a) = p + Number(s, a)[p] + 1
                            /\ Value[s[a]] = 0 => p = a + 1
<1>1. PICK q \in a .. Len(s) : IsLength(s, a, q) /\ EndString(s, a) = q + Number(s, a)[q] + 1
  BY EndStringIs
<1>2. q \in 1 .. Len(s) /\ s[q] = ":" /\ a < q /\ ":" \notin Digit
  BY <1>1, NotDigits DEF IsLength, IsInput
<1>3. ~(q < p)
  <2> SUFFICES ASSUME q < p PROVE FALSE
    OBVIOUS
  <2>1. q \in a .. p - 1
    BY <1>1
  <2> QED
    BY <1>2, <2>1 DEF AllDigits
<1>4. CASE q = p
  <2>1. s[p] \notin Digit
    BY <1>2, <1>4
  <2> QED
    BY <1>1, <1>2, <1>4, <2>1 DEF IsLength
<1>5. CASE p < q
  <2>1. p \in a .. q - 1
    BY <1>1, <1>5
  <2>2. s[p] \in Digit /\ p \in 1 .. Len(s)
    BY <1>1, <1>2, <1>5, <2>1 DEF IsLength, AllDigits
  <2>3. s[p] # ":"
    BY <1>2, <2>2
  <2>4. Value[s[a]] = 0 => p # a + 1
    BY <1>1, <1>5 DEF IsLength
  <2> QED
    BY <2>2, <2>3, <2>4
<1> QED
  BY <1>2, <1>3, <1>4, <1>5

\* The scanner in a string's length reads the byte that an encoding has there.
LEMMA LengthGoesOn ==
    ASSUME NEW s, NEW e, IsInput(s), NEW ps \in Stack, NEW len, NEW p \in Pos(s),
           LengthTo(s, e, ps, len, p)
    PROVE  /\ p \in 1 .. Len(s)
           /\ s[p] \in Digit \/ s[p] = ":"
           /\ s[p] \in Digit =>
                  Follows("beginString", ps, len * 10 + Value[s[p]], 1, p + 1, s, e)
           /\ s[p] = ":" => Follows("inString", ps, len, 1, p + 1, s, e)
<1>1. PICK a \in 1 .. p - 1 :
        /\ AllDigits(s, a, p - 1) /\ len \in Nat /\ len = Number(s, a)[p]
        /\ len = 0 => p = a + 1 /\ Value[s[a]] = 0
        /\ ps = <<>> => a = 1
        /\ Closes(s, e, ps, EndString(s, a))
  BY DEF LengthTo
<1>2. EndString(s, a) \in Pos(s) /\ EndString(s, a) # 0
  <2>1. EndString(s, a) \in Pos(s)
    BY <1>1, ClosesPos
  <2> QED
    BY <2>1 DEF Pos, IsInput
<1>3. a \in Nat \ {0} /\ p \in Nat /\ a < p /\ Len(s) \in Nat /\ DOMAIN s = 1 .. Len(s)
  BY <1>1 DEF Pos, IsInput
<1>4. /\ p \in 1 .. Len(s)
      /\ s[p] \in Digit \/ s[p] = ":"
      /\ s[p] \in Digit => Value[s[a]] # 0 \/ p # a + 1
      /\ s[p] = ":" => /\ EndString(s, a) = p + Number(s, a)[p] + 1
                       /\ Value[s[a]] = 0 => p = a + 1
  BY <1>1, <1>2, <1>3, LengthEnds
<1>5. p + 1 \in Pos(s)
  BY <1>3, <1>4 DEF Pos
<1>6. ASSUME s[p] \in Digit
      PROVE  Follows("beginString", ps, len * 10 + Value[s[p]], 1, p + 1, s, e)
  <2> DEFINE l == len * 10 + Value[s[p]]
  <2>1. len # 0 /\ Value[s[p]] \in Nat
    BY <1>1, <1>4, <1>6, DigitValue
  <2>2. l \in Nat /\ l # 0
    BY <1>1, <2>1
  <2>3. l = Number(s, a)[p + 1]
    <3>1. a \in 1 .. Len(s) /\ p \in a .. Len(s)
      BY <1>3, <1>4
    <3>2. Number(s, a)[p + 1] = Number(s, a)[p] * 10 + Value[s[p]]
      BY <1>3, <3>1, NumberIs
    <3> QED
      BY <1>1, <3>2
  <2> HIDE DEF l
  <2>4. AllDigits(s, a, (p + 1) - 1)
    BY <1>1, <1>3, <1>6 DEF AllDigits
  <2>5. a \in 1 .. (p + 1) - 1
    BY <1>3
  <2>6. LengthTo(s, e, ps, l, p + 1)
    BY <1>1, <2>2, <2>3, <2>4, <2>5 DEF LengthTo
  <2>7. Follows("beginString", ps, l, 1, p + 1, s, e)
    BY <1>5, <2>6 DEF Follows, Ints
  <2> QED
    BY <2>7 DEF l
<1>7. ASSUME s[p] = ":"
      PROVE  Follows("inString", ps, len, 1, p + 1, s, e)
  <2>1. EndString(s, a) = (p + 1) + len
    BY <1>1, <1>3, <1>4, <1>7
  <2>2. Closes(s, e, ps, (p + 1) + len)
    BY <1>1, <2>1
  <2>3. ASSUME ps = <<>>, len = 0
        PROVE  p + 1 = 3 /\ s[1] \in Digit /\ Value[s[1]] = 0 /\ s[2] = ":"
    <3>1. a = 1 /\ p = 2 /\ Value[s[1]] = 0
      BY <1>1, <2>3
    <3>2. s[1] \in Digit
      BY <1>1, <3>1 DEF AllDigits
    <3> QED
      BY <1>7, <3>1, <3>2
  <2> QED
    BY <1>5, <2>2, <2>3 DEF Follows, Ints
<1> QED
  BY <1>4, <1>6, <1>7

\* The scanner in an integer reads the byte that an encoding has there.
LEMMA IntGoesOn ==
    ASSUME NEW s, NEW e, IsInput(s), NEW ps \in Stack, NEW p \in Pos(s), NEW st \in Ints,
           IntTo(st, s, e, ps, p)
    PROVE  /\ p \in 1 .. Len(s)
           /\ \/ /\ st = "beginInt" /\ s[p] = "-"
                 /\ Follows("neg", ps, 0, 1, p + 1, s, e)
              \/ /\ st = "beginInt" /\ s[p] \in Digit /\ Value[s[p]] = 0
                 /\ Follows("zero", ps, 0, 1, p + 1, s, e)
              \/ /\ st \in {"beginInt", "neg"} /\ s[p] \in Digit /\ Value[s[p]] > 0
                 /\ Follows("num", ps, 0, 1, p + 1, s, e)
              \/ /\ st = "num" /\ s[p] \in Digit
                 /\ Follows("num", ps, 0, 1, p + 1, s, e)
              \/ /\ st \in {"zero", "num"} /\ s[p] = "e"
                 /\ Follows("endValue", ps, 0, 1, p + 1, s, e)
<1>1. PICK a \in 1 .. p - 1 :
        /\ Closes(s, e, ps, EndInt(s, a))
        /\ st = "beginInt" => p = a + 1
        /\ st = "neg" => p = a + 2 /\ s[a + 1] = "-"
        /\ st = "zero" => p = a + 2 /\ s[a + 1] \in Digit /\ Value[s[a + 1]] = 0
        /\ st = "num" => FirstOf(s, a) < p /\ AllDigits(s, FirstOf(s, a), p - 1)
  BY DEF IntTo
<1>2. EndInt(s, a) # 0
  <2>1. EndInt(s, a) \in Pos(s)
    BY <1>1, ClosesPos
  <2> QED
    BY <2>1 DEF Pos, IsInput
<1>3. PICK q \in a .. Len(s) : IsInteger(s, a, q) /\ EndInt(s, a) = q + 1
  BY <1>2, EndIntIs
<1>4. /\ a \in Nat \ {0} /\ p \in Nat /\ a < p /\ Len(s) \in Nat /\ DOMAIN s = 1 .. Len(s)
      /\ q \in 1 .. Len(s) /\ s[q] = "e"
  BY <1>1, <1>3 DEF Pos, IsInput, IsInteger
<1> DEFINE m == FirstOf(s, a)
<1>5. /\ m \in {a + 1, a + 2} /\ m < q /\ a + 2 <= q
      /\ AllDigits(s, m, q - 1)
      /\ Value[s[m]] = 0 => q = a + 2
      /\ s[a + 1] = "-" => m = a + 2
      /\ s[a + 1] # "-" => m = a + 1
  BY <1>3, <1>4 DEF IsInteger, FirstOf
<1>6. s[m] \in Digit /\ Value[s[m]] \in Nat
  <2>1. m \in m .. q - 1
    BY <1>4, <1>5
  <2>2. s[m] \in Digit
    BY <1>5, <2>1 DEF AllDigits
  <2> QED
    BY <2>2, DigitValue
<1> HIDE DEF m
<1>7. Closes(s, e, ps, q + 1)
  BY <1>1, <1>3
\* A number that goes on at position p + 1.
<1>8. ASSUME p < q, m <= p, AllDigits(s, m, p)
      PROVE  Follows("num", ps, 0, 1, p + 1, s, e)
  <2>1. p + 1 \in Pos(s) /\ a \in 1 .. (p + 1) - 1 /\ m < p + 1 /\ (p + 1) - 1 = p
    BY <1>4, <1>5, <1>8 DEF Pos
  <2>2. IntTo("num", s, e, ps, p + 1)
    BY <1>1, <1>8, <2>1 DEF IntTo, m
  <2> QED
    BY <2>1, <2>2 DEF Follows, Ints
<1>9. CASE st = "beginInt"
  <2>1. p = a + 1 /\ p < q /\ p \in 1 .. Len(s) /\ p + 1 \in Pos(s) /\ a \in 1 .. (p + 1) - 1
    BY <1>1, <1>4, <1>5, <1>9 DEF Pos
  <2>2. CASE s[p] = "-"
    <3>1. IntTo("neg", s, e, ps, p + 1)
      BY <1>1, <1>4, <2>1, <2>2 DEF IntTo
    <3>2. Follows("neg", ps, 0, 1, p + 1, s, e)
      BY <2>1, <3>1 DEF Follows, Ints
    <3> QED
      BY <1>9, <2>1, <2>2, <3>2
  <2>3. CASE s[p] # "-" /\ Value[s[p]] = 0
    <3>0. m = p /\ s[p] \in Digit
      BY <1>5, <1>6, <2>1, <2>3
    <3>1. IntTo("zero", s, e, ps, p + 1)
      BY <1>1, <1>4, <2>1, <2>3, <3>0 DEF IntTo
    <3>2. Follows("zero", ps, 0, 1, p + 1, s, e)
      BY <2>1, <3>1 DEF Follows, Ints
    <3> QED
      BY <1>9, <2>1, <2>3, <3>0, <3>2
  <2>4. CASE s[p] # "-" /\ Value[s[p]] # 0
    <3>0. m = p /\ s[p] \in Digit /\ Value[s[p]] > 0
      BY <1>5, <1>6, <2>1, <2>4
    <3>1. AllDigits(s, m, p) /\ m <= p
      BY <1>4, <3>0 DEF AllDigits
    <3>2. Follows("num", ps, 0, 1, p + 1, s, e)
      BY <1>8, <2>1, <3>1
    <3> QED
      BY <1>9, <2>1, <3>0, <3>2
  <2> QED
    BY <2>2, <2>3, <2>4
<1>10. CASE st = "neg"
  <2>1. p = a + 2 /\ m = p /\ p < q /\ p \in 1 .. Len(s)
    BY <1>1, <1>4, <1>5, <1>10
  <2>2. s[p] \in Digit /\ Value[s[p]] > 0
    BY <1>5, <1>6, <2>1
  <2>3. AllDigits(s, m, p) /\ m <= p
    BY <1>4, <2>1, <2>2 DEF AllDigits
  <2>4. Follows("num", ps, 0, 1, p + 1, s, e)
    BY <1>8, <2>1, <2>3
  <2> QED
    BY <1>10, <2>1, <2>2, <2>4
<1>11. CASE st = "zero"
  <2>1. p = a + 2 /\ m = a + 1
    BY <1>1, <1>5, <1>11, NotDigits
  <2>2. p = q
    BY <1>1, <1>5, <1>11, <2>1
  <2>3. Follows("endValue", ps, 0, 1, p + 1, s, e)
    BY <1>7, <2>2, Ended
  <2> QED
    BY <1>4, <1>11, <2>2, <2>3
<1>12. CASE st = "num"
  <2>1. m < p /\ AllDigits(s, m, p - 1)
    BY <1>1, <1>12 DEF m
  <2>2. ~(q < p)
    <3> SUFFICES ASSUME q < p PROVE FALSE
      OBVIOUS
    <3>1. q \in m .. p - 1
      BY <1>4, <1>5
    <3> QED
      BY <1>4, <2>1, <3>1, NotDigits DEF AllDigits
  <2>3. CASE q = p
    <3>1. Follows("endValue", ps, 0, 1, p + 1, s, e)
      BY <1>7, <2>3, Ended
    <3> QED
      BY <1>4, <1>12, <2>3, <3>1
  <2>4. CASE p < q
    <3>1. p \in m .. q - 1 /\ p \in 1 .. Len(s) /\ m <= p
      BY <1>4, <1>5, <2>1, <2>4
    <3>2. s[p] \in Digit
      BY <1>5, <3>1 DEF AllDigits
    <3>3. AllDigits(s, m, p)
      BY <1>4, <2>1, <3>1, <3>2 DEF AllDigits
    <3>4. Follows("num", ps, 0, 1, p + 1, s, e)
      BY <1>8, <2>4, <3>1, <3>3
    <3> QED
      BY <1>12, <3>1, <3>2, <3>4
  <2> QED
    BY <1>4, <2>2, <2>3, <2>4
<1> QED
  BY <1>9, <1>10, <1>11, <1>12 DEF Ints

-----------------------------------------------------------------------------
(* The step functions.                                                     *)

\* After the step, s goes on as the scanner expects.
Goes(p, s, e) ==
    ~err' /\ Follows(step', parseState', stringLen', stepSize', p + stepSize', s, e)

\* Continue establishes what it is called with.
LEMMA ContinueGoes ==
    ASSUME ~err, NEW f, NEW ps, NEW size, NEW len, Continue(f, ps, size, len),
           NEW p, NEW s, NEW e, Follows(f, ps, len, size, p + size, s, e)
    PROVE  Goes(p, s, e)
<1>1. step' = f /\ parseState' = ps /\ stepSize' = size /\ stringLen' = len /\ err' = err
  BY DEF Continue
<1>2. ~err'
  BY <1>1
<1> QED
  BY <1>1, <1>2 DEF Goes

\* stateBeginValue opens the value that an encoding has there.
LEMMA OpenGoes ==
    ASSUME NEW s, NEW e, IsInput(s), Entries(s, e), NEW ps \in Stack, NEW p \in Pos(s),
           Closes(s, e, ps, e[p].value), ps = <<>> => p = 1,
           ~err, stringLen = 0, NEW c, p \in 1 .. Len(s) => c = s[p], BeginOpen(c, ps, 1)
    PROVE  Goes(p, s, e)
<1>1. e[p].value \in Pos(s)
  BY ClosesPos
<1>2. /\ p \in 1 .. Len(s)
      /\ s[p] \in {"i", "l", "d"} \cup Digit
      /\ s[p] = "i" => e[p].value = EndInt(s, p)
      /\ s[p] = "l" => e[p].value = e[p + 1].list
      /\ s[p] = "d" => e[p].value = e[p + 1].dict
      /\ s[p] \in Digit => e[p].value = EndString(s, p)
  BY <1>1, ValueIs
<1>3. CASE c = "i"
  <2>1. Continue("beginInt", ps, 1, 0)
    BY <1>3, NotDigits DEF BeginOpen
  <2>2. Follows("beginInt", ps, 0, 1, p + 1, s, e)
    BY <1>2, <1>3, OpenInt
  <2> QED
    BY <2>1, <2>2, ContinueGoes
<1>4. CASE c = "l"
  <2>1. Continue("beginValue", Append(ps, "list"), 1, 0)
    BY <1>4, NotDigits DEF BeginOpen
  <2>2. Follows("beginValue", Append(ps, "list"), 0, 1, p + 1, s, e)
    BY <1>2, <1>4, OpenList
  <2> QED
    BY <2>1, <2>2, ContinueGoes
<1>5. CASE c = "d"
  <2>1. Continue("beginString", Append(ps, "key"), 1, 0)
    BY <1>5, NotDigits DEF BeginOpen
  <2>2. Follows("beginString", Append(ps, "key"), 0, 1, p + 1, s, e)
    BY <1>2, <1>5, OpenDict
  <2> QED
    BY <2>1, <2>2, ContinueGoes
<1>6. CASE c \in Digit
  <2>1. Continue("beginString", ps, 1, Value[c])
    BY <1>6, NotDigits DEF BeginOpen
  <2>2. Follows("beginString", ps, Value[c], 1, p + 1, s, e)
    BY <1>2, <1>6, OpenString
  <2> QED
    BY <2>1, <2>2, ContinueGoes
<1> QED
  BY <1>2, <1>3, <1>4, <1>5, <1>6

\* popParseState closes the innermost container.
LEMMA ContainerGoes ==
    ASSUME NEW s, NEW e, NEW ps \in Stack, ps # <<>>, NEW p, Closes(s, e, Pop(ps), p + 1),
           ~err, stringLen = 0, EndContainer(ps)
    PROVE  Goes(p, s, e)
<1>1. Continue("endValue", Pop(ps), 1, 0)
  BY DEF EndContainer
<1>2. Follows("endValue", Pop(ps), 0, 1, p + 1, s, e)
  BY StackParts, Ended
<1> QED
  BY <1>1, <1>2, ContinueGoes

\* stateEndValue goes on with what an encoding has after a value.
LEMMA EndValueGoes ==
    ASSUME NEW s, NEW e, IsInput(s), Entries(s, e), parseState \in Stack, NEW p \in 1 .. Len(s),
           Closes(s, e, parseState, p), ~err, stringLen = 0, EndValue(s[p])
    PROVE  Goes(p, s, e)
<1> DEFINE c == s[p]
           ps == parseState
<1>0. p \in Pos(s) /\ p # Len(s) + 1
  BY DEF Pos, IsInput
<1>1. ps # <<>> /\ ps \in Stack
  BY <1>0, ClosesPos
<1>2. PICK r \in Pos(s) : Closed(s, e, Top(ps), p, r) /\ Closes(s, e, Pop(ps), r)
  BY <1>1, ClosesTop
<1>3. /\ Pop(ps) \in Stack /\ Top(ps) \in {"key", "value", "list"}
      /\ \A x \in {"key", "value", "list"} :
             /\ Mark(ps, x) = Append(Pop(ps), x) /\ Mark(ps, x) \in Stack
             /\ Mark(ps, x) # <<>> /\ Top(Mark(ps, x)) = x /\ Pop(Mark(ps, x)) = Pop(ps)
  BY <1>1, StackParts
<1>4. CASE Top(ps) = "list"
  <2>1. e[p].list = r
    BY <1>2, <1>4 DEF Closed
  <2>2. /\ c = "e" => r = p + 1
        /\ c # "e" => e[p].value \in Pos(s) /\ e[e[p].value].list = r
    BY <1>0, <2>1, ListIs
  <2>3. CASE c = "e"
    <3>1. EndContainer(ps)
      BY <1>1, <1>4, <2>3 DEF EndValue
    <3> QED
      BY <1>1, <1>2, <2>2, <2>3, <3>1, ContainerGoes
  <2>4. CASE c # "e"
    <3>1. BeginOpen(c, ps, 1)
      BY <1>1, <1>4, <2>4 DEF EndValue
    <3>2. Closed(s, e, "list", e[p].value, r)
      BY <2>2, <2>4 DEF Closed
    <3>3. Closes(s, e, Append(Pop(ps), "list"), e[p].value)
      BY <1>2, <1>3, <2>2, <2>4, <3>2, ClosesPush
    <3>4. ps = Append(Pop(ps), "list")
      <4>1. Mark(ps, "list") = ps
        BY <1>1, <1>4 DEF Mark, Top, Stack
      <4> QED
        BY <1>3, <4>1
    <3>5. Closes(s, e, ps, e[p].value)
      BY <3>3, <3>4
    <3> QED
      BY <1>0, <1>1, <3>1, <3>5, OpenGoes
  <2> QED
    BY <2>3, <2>4
<1>5. CASE Top(ps) = "value"
  <2>1. e[p].more = r
    BY <1>2, <1>5 DEF Closed
  <2>2. /\ c = "e" => r = p + 1
        /\ c # "e" => /\ c \in Digit /\ Value[c] # 0
                      /\ EndString(s, p) \in Pos(s)
                      /\ e[EndString(s, p)].value \in Pos(s)
                      /\ e[e[EndString(s, p)].value].more = r
    BY <1>0, <2>1, MoreIs
  <2>3. CASE c = "e"
    <3>1. EndContainer(ps)
      BY <1>1, <1>5, <2>3, NotDigits DEF EndValue
    <3> QED
      BY <1>1, <1>2, <2>2, <2>3, <3>1, ContainerGoes
  <2>4. CASE c # "e"
    <3>1. Value[c] \in Nat /\ Value[c] > 0
      BY <2>2, <2>4, DigitValue
    <3>2. Continue("beginString", Mark(ps, "key"), 1, Value[c])
      BY <1>1, <1>5, <2>2, <2>4, <3>1 DEF EndValue
    <3>3. Closed(s, e, "key", EndString(s, p), r)
      BY <2>2, <2>4 DEF Closed
    <3>4. Closes(s, e, Mark(ps, "key"), EndString(s, p))
      BY <1>2, <1>3, <2>2, <2>4, <3>3, ClosesPush
    <3>5. Follows("beginString", Mark(ps, "key"), Value[c], 1, p + 1, s, e)
      BY <1>3, <2>2, <2>4, <3>4, OpenString
    <3> QED
      BY <3>2, <3>5, ContinueGoes
  <2> QED
    BY <2>3, <2>4
<1>6. CASE Top(ps) = "key"
  <2>1. e[p].value \in Pos(s) /\ e[e[p].value].more = r
    BY <1>2, <1>6 DEF Closed
  <2>2. c \in {"i", "l", "d"} \cup Digit
    BY <1>0, <2>1, ValueIs
  <2>3. c # "e"
    BY <2>2, NotDigits
  <2>4. BeginOpen(c, Mark(ps, "value"), 1)
    BY <1>1, <1>6, <2>3 DEF EndValue
  <2>5. Closed(s, e, "value", e[p].value, r)
    BY <2>1 DEF Closed
  <2>6. Closes(s, e, Mark(ps, "value"), e[p].value)
    BY <1>2, <1>3, <2>1, <2>5, ClosesPush
  <2> QED
    BY <1>0, <1>3, <2>4, <2>6, OpenGoes
<1> QED
  BY <1>3, <1>4, <1>5, <1>6

\* Whatever the state, the scanner goes on with the next byte of an encoding.
LEMMA StepGoes ==
    ASSUME NEW s, NEW e, IsInput(s), Entries(s, e), Good, ~err, NEW p \in 1 .. Len(s),
           Follows(step, parseState, stringLen, stepSize, p, s, e), Step(s[p])
    PROVE  Goes(p, s, e)
<1> DEFINE c == s[p]
           ps == parseState
<1>0. p \in Pos(s) /\ p \in Nat /\ Len(s) \in Nat /\ ps \in Stack /\ stringLen \in Nat
  BY DEF Pos, IsInput, Good
<1>1. step \in Steps \ {"endTop", "error"}
  BY DEF Good, Follows
<1>2. CASE step = "beginValue"
  <2>1. BeginValue(c) /\ stringLen = 0 /\ stepSize = 1
    BY <1>2 DEF Step, Follows
  <2>2. CASE ps = <<>>
    <3>1. p = 1 /\ Closes(s, e, ps, e[p].value)
      BY <1>2, <2>2 DEF Follows
    <3>2. e[p].value \in Pos(s)
      BY <1>0, <3>1, ClosesPos
    <3>3. c # "e"
      BY <1>0, <3>2, ValueIs, NotDigits
    <3>4. BeginOpen(c, ps, 1)
      BY <2>1, <3>3 DEF BeginValue
    <3> QED
      BY <1>0, <2>1, <3>1, <3>4, OpenGoes
  <2>3. CASE ps # <<>>
    <3>1. Top(ps) = "list" /\ Closes(s, e, ps, p)
      BY <1>2, <2>3 DEF Follows
    <3>2. EndValue(c)
      BY <2>1, <2>3, <3>1 DEF BeginValue, EndValue
    <3> QED
      BY <1>0, <2>1, <3>1, <3>2, EndValueGoes
  <2> QED
    BY <2>2, <2>3
<1>3. CASE step = "endValue"
  <2>1. EndValue(c) /\ stringLen = 0 /\ Closes(s, e, ps, p)
    BY <1>3 DEF Step, Follows
  <2> QED
    BY <1>0, <2>1, EndValueGoes
<1>4. CASE step = "beginString"
  <2>1. BeginString(c) /\ stepSize = 1
    BY <1>4 DEF Step, Follows
  <2>2. CASE DictOpen(s, e, ps, stringLen, p)
    <3>1. ps # <<>> /\ Top(ps) = "key" /\ stringLen = 0 /\ Closes(s, e, Pop(ps), e[p].dict)
      BY <2>2 DEF DictOpen
    <3> DEFINE d == DictAt(s, e, p)
    <3>2. Closes(s, e, Pop(ps), d)
      BY <1>0, <3>1 DEF Entries, Pos
    <3>3. /\ Pop(ps) \in Stack
          /\ \A x \in {"key", "value", "list"} :
                 /\ Mark(ps, x) = Append(Pop(ps), x) /\ Mark(ps, x) \in Stack
                 /\ Mark(ps, x) # <<>> /\ Top(Mark(ps, x)) = x /\ Pop(Mark(ps, x)) = Pop(ps)
      BY <1>0, <3>1, StackParts
    <3>4. d \in Pos(s)
      BY <3>2, <3>3, ClosesPos
    <3>5. /\ c = "e" => d = p + 1
          /\ c # "e" => /\ c \in Digit
                        /\ EndString(s, p) \in Pos(s)
                        /\ e[EndString(s, p)].value \in Pos(s)
                        /\ e[e[EndString(s, p)].value].more = d
      BY <1>0, <3>4, DictIs
    <3> HIDE DEF d
    <3>6. CASE c = "e"
      <4>1. EndValue(c)
        BY <2>1, <3>1, <3>6, NotDigits DEF BeginString
      <4>2. EndContainer(Mark(ps, "value"))
        BY <3>1, <3>6, <4>1 DEF EndValue
      <4>3. Closes(s, e, Pop(Mark(ps, "value")), p + 1)
        BY <3>2, <3>3, <3>5, <3>6
      <4> QED
        BY <3>1, <3>3, <4>2, <4>3, ContainerGoes
    <3>7. CASE c # "e"
      <4>1. c \in Digit /\ Value[c] \in Nat
        BY <3>5, <3>7, DigitValue
      <4>2. Continue("beginString", ps, 1, stringLen * 10 + Value[c])
        BY <2>1, <4>1, NotDigits DEF BeginString
      <4>3. stringLen * 10 + Value[c] = Value[c]
        BY <3>1, <4>1
      <4>4. Closed(s, e, "key", EndString(s, p), d)
        BY <3>5, <3>7 DEF Closed
      <4>5. Closes(s, e, Append(Pop(ps), "key"), EndString(s, p))
        BY <3>2, <3>3, <3>5, <3>7, <4>4, ClosesPush
      <4>6. Append(Pop(ps), "key") = ps
        <5>1. Mark(ps, "key") = ps
          BY <1>0, <3>1 DEF Mark, Top, Stack
        <5> QED
          BY <3>3, <5>1
      <4>7. Follows("beginString", ps, Value[c], 1, p + 1, s, e)
        BY <3>1, <4>1, <4>5, <4>6, OpenString
      <4> QED
        BY <4>2, <4>3, <4>7, ContinueGoes
    <3> QED
      BY <3>6, <3>7
  <2>3. CASE LengthTo(s, e, ps, stringLen, p)
    <3>1. /\ c \in Digit \/ c = ":"
          /\ c \in Digit => Follows("beginString", ps, stringLen * 10 + Value[c], 1, p + 1, s, e)
          /\ c = ":" => Follows("inString", ps, stringLen, 1, p + 1, s, e)
      BY <1>0, <2>3, LengthGoesOn
    <3>2. CASE c \in Digit
      <4>1. Continue("beginString", ps, 1, stringLen * 10 + Value[c])
        BY <2>1, <3>2, NotDigits DEF BeginString
      <4> QED
        BY <3>1, <3>2, <4>1, ContinueGoes
    <3>3. CASE c = ":"
      <4>1. Continue("inString", ps, 1, stringLen)
        BY <2>1, <3>3, NotDigits DEF BeginString
      <4> QED
        BY <3>1, <3>3, <4>1, ContinueGoes
    <3> QED
      BY <3>1, <3>2, <3>3
  <2> QED
    BY <1>4, <2>2, <2>3 DEF Follows
<1>5. CASE step = "inString"
  <2>1. Continue("endValue", ps, stringLen, 0)
    BY <1>5 DEF Step, InString
  <2>2. Closes(s, e, ps, p + stringLen)
    BY <1>5 DEF Follows
  <2>3. Follows("endValue", ps, 0, stringLen, p + stringLen, s, e)
    BY <1>0, <2>2, Ended
  <2> QED
    BY <2>1, <2>3, ContinueGoes
<1>6. CASE step \in Ints
  <2>1. InInt(c) /\ stringLen = 0 /\ stepSize = 1 /\ IntTo(step, s, e, ps, p)
    BY <1>6 DEF Step, Follows, Ints
  <2>2. \/ /\ step = "beginInt" /\ c = "-"
           /\ Follows("neg", ps, 0, 1, p + 1, s, e)
        \/ /\ step = "beginInt" /\ c \in Digit /\ Value[c] = 0
           /\ Follows("zero", ps, 0, 1, p + 1, s, e)
        \/ /\ step \in {"beginInt", "neg"} /\ c \in Digit /\ Value[c] > 0
           /\ Follows("num", ps, 0, 1, p + 1, s, e)
        \/ /\ step = "num" /\ c \in Digit
           /\ Follows("num", ps, 0, 1, p + 1, s, e)
        \/ /\ step \in {"zero", "num"} /\ c = "e"
           /\ Follows("endValue", ps, 0, 1, p + 1, s, e)
    BY <1>0, <1>6, <2>1, IntGoesOn
  <2>3. PICK f \in {"neg", "zero", "num", "endValue"} :
            AfterInt(c) = f /\ Follows(f, ps, 0, 1, p + 1, s, e)
    BY <1>6, <2>2, AfterIntIs DEF Ints
  <2>4. Continue(f, ps, 1, 0)
    BY <2>1, <2>3 DEF InInt
  <2> QED
    BY <2>3, <2>4, ContinueGoes
<1> QED
  BY <1>1, <1>2, <1>3, <1>4, <1>5, <1>6 DEF Steps, Ints

\* When the input ends with an encoding it is complete, except for 0:.
LEMMA AtEnd ==
    ASSUME NEW s, NEW e, IsInput(s), Entries(s, e), Good,
           Follows(step, parseState, stringLen, stepSize, Len(s) + 1, s, e)
    PROVE  \/ step = "endValue" /\ parseState = <<>>
           \/ Len(s) = 2 /\ s[1] \in Digit /\ Value[s[1]] = 0 /\ s[2] = ":"
<1> DEFINE p == Len(s) + 1
           ps == parseState
<1>0. p \in Pos(s) /\ p \notin 1 .. Len(s) /\ Len(s) \in Nat /\ ps \in Stack /\ stringLen \in Nat
  BY DEF Pos, IsInput, Good
<1>1. step \in Steps \ {"endTop", "error"}
  BY DEF Good, Follows
<1>2. ASSUME ps # <<>>, Closes(s, e, ps, p) PROVE FALSE
  <2>1. PICK r \in Pos(s) : Closed(s, e, Top(ps), p, r)
    BY <1>0, <1>2, ClosesTop
  <2>2. \/ e[p].list \in Pos(s) \/ e[p].more \in Pos(s) \/ e[p].value \in Pos(s)
    BY <2>1 DEF Closed
  <2> QED
    BY <1>0, <2>2, ListIs, MoreIs, ValueIs
<1>3. CASE step = "beginValue"
  <2>1. CASE ps = <<>>
    <3>1. e[p].value \in Pos(s)
      BY <1>0, <1>3, <2>1, ClosesPos DEF Follows
    <3> QED
      BY <1>0, <3>1, ValueIs
  <2>2. CASE ps # <<>>
    BY <1>2, <1>3, <2>2 DEF Follows
  <2> QED
    BY <2>1, <2>2
<1>4. CASE step = "endValue"
  BY <1>2, <1>4 DEF Follows
<1>5. CASE step = "beginString"
  <2>1. CASE DictOpen(s, e, ps, stringLen, p)
    <3>1. ps # <<>> /\ Closes(s, e, Pop(ps), e[p].dict)
      BY <2>1 DEF DictOpen
    <3>2. DictAt(s, e, p) \in Pos(s)
      <4>1. e[p].dict \in Pos(s)
        BY <1>0, <3>1, StackParts, ClosesPos
      <4> QED
        BY <1>0, <4>1 DEF Entries, Pos
    <3> QED
      BY <1>0, <3>2, DictIs
  <2>2. CASE LengthTo(s, e, ps, stringLen, p)
    BY <1>0, <2>2, LengthGoesOn
  <2> QED
    BY <1>5, <2>1, <2>2 DEF Follows
<1>6. CASE step = "inString"
  <2>1. Closes(s, e, ps, p + stringLen)
    BY <1>6 DEF Follows
  <2>2. stringLen = 0
    <3>1. p + stringLen \in Pos(s)
      BY <1>0, <2>1, ClosesPos
    <3> QED
      BY <1>0, <3>1 DEF Pos
  <2>3. ps = <<>>
    BY <1>0, <1>2, <2>1, <2>2
  <2>4. p = 3 /\ s[1] \in Digit /\ Value[s[1]] = 0 /\ s[2] = ":"
    BY <1>6, <2>2, <2>3 DEF Follows
  <2>5. \A n \in Nat : n + 1 = 3 => n = 2
    OBVIOUS
  <2>6. Len(s) = 2
    BY <1>0, <2>4, <2>5, Zenon
  <2> QED
    BY <2>4, <2>6, Zenon
<1>7. CASE step \in Ints
  <2>1. IntTo(step, s, e, ps, p)
    BY <1>7 DEF Follows
  <2>2. p \in 1 .. Len(s)
    BY <1>0, <1>7, <2>1, IntGoesOn
  <2> QED
    BY <1>0, <2>2
<1> QED
  BY <1>1, <1>3, <1>4, <1>5, <1>6, <1>7 DEF Steps, Ints

\* The input goes on from d to s.
Begins(d, s) == Len(d) <= Len(s) /\ \A k \in 1 .. Len(d) : s[k] = d[k]

\* What the input may become.
Input == Seq(Byte \cup {Skipped})

\* While it runs, the scanner is where it should be in every encoding that the
\* input may still become.
Complete ==
    /\ data \in Input
    /\ Len(data) <= MaxLen
    /\ verdict = "none" =>
           \A s \in Input : Begins(data, s) /\ IsBencode(s) =>
               ~err /\ Follows(step, parseState, stringLen, stepSize, i + 1, s, Parse(s))
    /\ AcceptsEncodings

\* What the input may become is a sequence, and Parse reads it by the grammar.
LEMMA InputParsed ==
    ASSUME NEW s \in Input
    PROVE  IsInput(s) /\ Entries(s, Parse(s))
<1>1. IsInput(s)
  BY DEF Input, IsInput
<1> QED
  BY <1>1, ParseIs DEF IsInput, Entries

\* checkValid starts at the first byte of every encoding.
LEMMA InitComplete == Init => Complete
<1> SUFFICES ASSUME Init PROVE Complete
  OBVIOUS
<1>1. data \in Input /\ Len(data) <= MaxLen /\ AcceptsEncodings /\ i + 1 = 1
  BY ScannerAssumption DEF Init, Input, AcceptsEncodings
<1>2. ASSUME NEW s \in Input, IsBencode(s)
      PROVE  Follows("beginValue", <<>>, 0, 1, 1, s, Parse(s))
  <2>1. IsInput(s)
    BY InputParsed
  <2>2. Closes(s, Parse(s), <<>>, Len(s) + 1)
    BY <2>1, ClosesNone
  <2>3. 1 \in Pos(s)
    BY <2>1 DEF IsInput, Pos
  <2> QED
    BY <1>2, <2>2, <2>3 DEF Follows, IsBencode, Ints
<1> QED
  BY <1>1, <1>2 DEF Init, Complete

\* An input that goes on begins as before.
LEMMA Extends ==
    ASSUME NEW d \in Input, NEW r \in Input
    PROVE  d \o r \in Input /\ Begins(d, d \o r)
<1>1. /\ d \o r \in Input /\ Len(d \o r) = Len(d) + Len(r)
      /\ \A k \in 1 .. Len(d) : (d \o r)[k] = d[k]
  BY DEF Input
<1>2. Len(d) \in Nat /\ Len(r) \in Nat
  BY DEF Input
<1> QED
  BY <1>1, <1>2 DEF Begins

\* A byte that an encoding has is not refused, and leaves the scanner where it
\* should be.
LEMMA ScanComplete ==
    ASSUME Inv, Complete, NEW c \in Byte, Scan(c)
    PROVE  Complete'
<1>0. Good /\ i \in Nat /\ verdict = "none" /\ data \in Input /\ Len(data) \in Nat
  BY DEF Inv, Good, TypeOK, Stack, Scan, Complete, Input
<1>1. /\ data' \in Input /\ Len(data) <= Len(data') /\ \A k \in 1 .. Len(data) : data'[k] = data[k]
      /\ i + 1 <= Len(data') /\ data'[i + 1] = c
  BY <1>0, ReadsKeep DEF Scan, Input
<1>2. ASSUME NEW s \in Input, Begins(data', s), IsBencode(s)
      PROVE  Goes(i + 1, s, Parse(s))
  <2>1. IsInput(s) /\ Entries(s, Parse(s)) /\ Len(s) \in Nat /\ Len(data') \in Nat
    BY <1>1, InputParsed DEF IsInput, Input
  <2>2. Begins(data, s) /\ i + 1 \in 1 .. Len(s) /\ s[i + 1] = c
    BY <1>0, <1>1, <1>2, <2>1 DEF Begins
  <2>3. ~err /\ Follows(step, parseState, stringLen, stepSize, i + 1, s, Parse(s))
    BY <1>0, <1>2, <2>2 DEF Complete
  <2>4. Step(s[i + 1])
    BY <2>2 DEF Scan
  <2> QED
    BY <1>0, <2>1, <2>2, <2>3, <2>4, StepGoes
<1>3. ASSUME NEW s \in Input, Begins(data', s), IsBencode(s) PROVE ~Refused(c)
  <2>1. ~err'
    BY <1>2, <1>3 DEF Goes
  <2>2. step # "error"
    <3>1. Begins(data, s)
      <4>1. Len(s) \in Nat /\ Len(data') \in Nat
        BY <1>1 DEF Input
      <4> QED
        BY <1>0, <1>1, <1>3, <4>1 DEF Begins
    <3> QED
      BY <1>0, <1>3, <3>1 DEF Complete, Follows
  <2> QED
    BY <2>1, <2>2 DEF Refused
<1>6. Len(data') \in Nat /\ Len(data') <= MaxLen
  <2>1. CASE UNCHANGED data
    BY <1>0, <2>1 DEF Complete
  <2>2. CASE Len(data) <= i /\ i < MaxLen /\ data' = Append(Padded(i), c)
    <3>1. Padded(i) \in Input /\ Len(Padded(i)) = i
      BY <1>0, <2>2, PaddedIs DEF Input
    <3> QED
      BY <1>0, <2>2, <3>1, ScannerAssumption DEF Input
  <2> QED
    BY <2>1, <2>2 DEF Scan, Reads
<1>4. CASE Refused(c)
  <2>1. verdict' = "refused"
    BY <1>4 DEF Scan
  <2>2. ASSUME NEW rest \in Rest[MaxLen - Len(data')]
        PROVE  ~IsBencode(data' \o rest)
    <3>1. rest \in Input
      <4>1. MaxLen - Len(data') \in 0 .. MaxLen
        BY <1>6, ScannerAssumption
      <4> QED
        BY <4>1, ScannerAssumption DEF Input
    <3>2. data' \o rest \in Input /\ Begins(data', data' \o rest)
      BY <1>1, <3>1, Extends
    <3> QED
      BY <1>3, <1>4, <3>2
  <2> QED
    BY <1>1, <1>6, <2>1, <2>2 DEF Complete, AcceptsEncodings
<1>5. CASE ~Refused(c)
  <2>1. verdict' = "none" /\ i' = i + stepSize'
    BY <1>0, <1>5 DEF Scan
  <2>2. stepSize' \in Nat
    BY <1>0, StepGood DEF Scan, Good
  <2>3. i' + 1 = (i + 1) + stepSize'
    BY <1>0, <2>1, <2>2
  <2>4. ASSUME NEW s \in Input, Begins(data', s), IsBencode(s)
        PROVE  ~err' /\ Follows(step', parseState', stringLen', stepSize', i' + 1, s, Parse(s))
    BY <1>2, <2>3, <2>4 DEF Goes
  <2> QED
    BY <1>1, <1>6, <2>1, <2>4 DEF Complete, AcceptsEncodings
<1> QED
  BY <1>4, <1>5

\* Every step keeps the scanner where it should be.
LEMMA NextComplete == Inv /\ Complete /\ [Next]_vars => Complete'
<1> SUFFICES ASSUME Inv, Complete, [Next]_vars PROVE Complete'
  OBVIOUS
<1>0. Good /\ i \in Nat /\ data \in Input /\ Len(data) \in Nat
  BY DEF Inv, Good, TypeOK, Stack, Complete, Input
<1>1. ASSUME NEW n \in Nat, Len(data) <= n, data' = Padded(n)
      PROVE  data' \in Input /\ Len(data') = n /\ Begins(data, data')
             /\ IsInput(data') /\ Entries(data', Parse(data'))
  <2>1. data' \in Input /\ Len(data') = n /\ \A k \in 1 .. Len(data) : data'[k] = data[k]
    BY <1>0, <1>1, PaddedIs DEF Input
  <2> QED
    BY <1>1, <2>1, InputParsed DEF Begins
<1>2. CASE Eof
  <2>1. /\ verdict = "none" /\ verdict' \in {"valid", "incomplete"}
        /\ Len(data) <= i /\ i <= MaxLen /\ data' = Padded(i)
    BY <1>2 DEF Eof
  <2>2. data' \in Input /\ Len(data') = i /\ Begins(data, data')
        /\ IsInput(data') /\ Entries(data', Parse(data'))
    BY <1>0, <1>1, <2>1
  <2>3. ASSUME IsBencode(data'), verdict' = "incomplete"
        PROVE  Len(data') = 2 /\ data'[1] \in Digit /\ Value[data'[1]] = 0 /\ data'[2] = ":"
    <3>1. /\ ~err
          /\ Follows(step, parseState, stringLen, stepSize, Len(data') + 1, data', Parse(data'))
      BY <1>0, <2>1, <2>2, <2>3 DEF Complete
    <3>2. ~(step = "endValue" /\ parseState = <<>>)
      BY <1>2, <2>3, <3>1 DEF Eof
    <3> QED
      BY <1>0, <2>2, <3>1, <3>2, AtEnd
  <2> QED
    BY <2>1, <2>2, <2>3 DEF Complete, AcceptsEncodings
<1>3. CASE OutOfIndex
  <2>1. PICK n \in Len(data) .. MaxLen : n < i /\ data' = Padded(n)
    BY <1>3 DEF OutOfIndex
  <2>2. n \in Nat /\ Len(data) <= n
    BY <1>0, <2>1, ScannerAssumption
  <2>3. data' \in Input /\ Len(data') = n /\ Begins(data, data')
    BY <1>1, <2>1, <2>2
  <2>4. verdict = "none" /\ verdict' = "incomplete"
    BY <1>3 DEF OutOfIndex
  <2>5. ~IsBencode(data')
    <3>1. SUFFICES ASSUME IsBencode(data') PROVE FALSE
      OBVIOUS
    <3>2. i + 1 \in Pos(data')
      BY <1>0, <2>3, <2>4, <3>1 DEF Complete, Follows
    <3> QED
      BY <1>0, <2>1, <2>2, <2>3, <3>2 DEF Pos
  <2> QED
    BY <2>3, <2>4, <2>5 DEF Complete, AcceptsEncodings
<1>4. CASE UNCHANGED vars
  BY <1>4 DEF vars, scanner, Complete, AcceptsEncodings
<1> QED
  BY <1>2, <1>3, <1>4, ScanComplete DEF Next

\* Valid accepts every encoding of BEP 3 of any length and depth, except the
\* empty string on its own: where a step function refuses a byte, no input that
\* begins like this is an encoding, whatever the set of ways to go on; and where
\* checkValid finds the end too early, the whole input is none.
THEOREM AcceptsAll == Spec => []AcceptsEncodings
<1>1. Spec => []Inv
  BY Invariance
<1>2. Inv /\ Complete /\ Inv' /\ [Next]_vars => Complete'
  BY NextComplete
<1>3. Complete => AcceptsEncodings
  BY DEF Complete
<1> QED
  BY <1>1, <1>2, <1>3, InitComplete, PTL DEF Spec

-----------------------------------------------------------------------------
(* The parts that an input has.                                            *)

\* The parts that parts in T make, in the n-th round.
Layer(s, T, n) == {t \in Part(s) : n # 0 /\ Derives(s, T, t[1], t[2], t[3])}

\* d has the parts that are found in the first m rounds.
IsDerived(d, s, m) == d = [n \in 0 .. m |-> Layer(s, IF n = 0 THEN {} ELSE d[n - 1], n)]

\* There are such parts for every number of rounds.
LEMMA DerivedExists ==
    ASSUME NEW s, NEW m \in Nat
    PROVE  \E d : IsDerived(d, s, m)
<1> DEFINE T == {k \in Nat : ~\E d : IsDerived(d, s, k)}
<1>1. 0 \notin T
  <2> DEFINE d == [n \in 0 .. 0 |-> Layer(s, {}, n)]
  <2>1. IsDerived(d, s, 0)
    BY DEF IsDerived
  <2> QED
    BY <2>1
<1>2. ASSUME NEW k \in Nat, k \notin T PROVE k + 1 \notin T
  <2>1. PICK d : IsDerived(d, s, k)
    BY <1>2
  <2> DEFINE g == [n \in 0 .. k + 1 |-> IF n = k + 1 THEN Layer(s, d[k], k + 1) ELSE d[n]]
  <2>2. \A n \in 0 .. k : d[n] = Layer(s, IF n = 0 THEN {} ELSE d[n - 1], n)
    BY <2>1 DEF IsDerived
  <2>3. \A n \in 0 .. k + 1 : g[n] = Layer(s, IF n = 0 THEN {} ELSE g[n - 1], n)
    <3> TAKE n \in 0 .. k + 1
    <3>1. CASE n = k + 1
      <4>1. n # 0 /\ n - 1 = k /\ k \in 0 .. k + 1 /\ k # k + 1
        BY <3>1
      <4>2. g[k] = d[k] /\ g[n] = Layer(s, d[k], k + 1)
        BY <3>1, <4>1
      <4> HIDE DEF g
      <4> QED
        BY <3>1, <4>1, <4>2
    <3>2. CASE n = 0
      <4>1. n \in 0 .. k /\ n # k + 1
        BY <3>2
      <4>2. g[n] = d[n]
        BY <4>1
      <4> HIDE DEF g
      <4> QED
        BY <2>2, <3>2, <4>1, <4>2
    <3>3. CASE n # 0 /\ n # k + 1
      <4>1. n \in 0 .. k /\ n - 1 \in 0 .. k + 1 /\ n - 1 # k + 1
        BY <3>3
      <4>2. g[n] = d[n] /\ g[n - 1] = d[n - 1]
        BY <3>3, <4>1
      <4> HIDE DEF g
      <4> QED
        BY <2>2, <3>3, <4>1, <4>2
    <3> QED
      BY <3>1, <3>2, <3>3
  <2>4. IsDerived(g, s, k + 1)
    <3>1. g = [n \in 0 .. k + 1 |-> g[n]]
      OBVIOUS
    <3> HIDE DEF g
    <3> QED
      BY <2>3, <3>1 DEF IsDerived
  <2> QED
    BY <2>4
<1>3. T = {}
  <2> SUFFICES ASSUME T # {} PROVE FALSE
    OBVIOUS
  <2>1. T \in SUBSET Nat
    OBVIOUS
  <2>2. PICK k \in T : \A j \in T : k <= j
    <3> HIDE DEF T
    <3> QED
      BY <2>1, LeastNumber
  <2> HIDE DEF T
  <2>3. k \in Nat /\ k # 0 /\ k - 1 \in Nat /\ k - 1 \notin T /\ (k - 1) + 1 = k
    BY <1>1, <2>1, <2>2
  <2> QED
    BY <1>2, <2>2, <2>3
<1> QED
  BY <1>3

\* Derived has the parts of the last of Len(s) + 1 rounds.
LEMMA DerivedIs ==
    ASSUME NEW s, Len(s) \in Nat
    PROVE  \E d : /\ Derived(s) = d[Len(s) + 1]
                  /\ d[0] = {}
                  /\ \A n \in 1 .. Len(s) + 1 :
                        d[n] = {t \in Part(s) : Derives(s, d[n - 1], t[1], t[2], t[3])}
<1> DEFINE D == CHOOSE d : IsDerived(d, s, Len(s) + 1)
<1>1. IsDerived(D, s, Len(s) + 1)
  BY DerivedExists
<1>2. Derived(s) = D[Len(s) + 1]
  BY DEF Derived, IsDerived, Layer
<1> HIDE DEF D
<1>3. \A n \in 0 .. Len(s) + 1 : D[n] = Layer(s, IF n = 0 THEN {} ELSE D[n - 1], n)
  BY <1>1 DEF IsDerived
<1>4. D[0] = {}
  BY <1>3 DEF Layer
<1>5. ASSUME NEW n \in 1 .. Len(s) + 1
      PROVE  D[n] = {t \in Part(s) : Derives(s, D[n - 1], t[1], t[2], t[3])}
  BY <1>3 DEF Layer
<1> QED
  BY <1>2, <1>4, <1>5

\* How long a part is; a value with blanks counts as longer than the value.
Extent(x, p, q) == IF x = "whole" THEN q ELSE q - p

\* A part is made of shorter parts.
LEMMA DerivesFromShorter ==
    ASSUME NEW s, Len(s) \in Nat, NEW T, T \subseteq Part(s), NEW U,
           NEW x, NEW p \in 1 .. Len(s), NEW q \in 2 .. Len(s) + 1,
           Derives(s, T, x, p, q),
           \A y, a, b : <<y, a, b>> \in T /\ Extent(y, a, b) < Extent(x, p, q)
                            => <<y, a, b>> \in U
    PROVE  Derives(s, U, x, p, q)
<1> DEFINE N == Len(s)
<1>0. /\ \A m \in p + 1 .. q - 1 : m - p < q - p /\ q - m < q - p
      /\ q - 1 < q /\ \A m \in 2 .. q - 1 : m < q
  OBVIOUS
<1>1. CASE x = "value"
  <2>1. Extent(x, p, q) = q - p
    BY <1>1 DEF Extent
  <2>2. \A m \in p + 1 .. q - 1, y \in {"list", "pairs", "key"} :
            <<y, p, m>> \in T => <<y, p, m>> \in U
    BY <1>0, <2>1 DEF Extent
  <2> QED
    BY <1>1, <2>2 DEF Derives
<1>2. CASE x = "list"
  <2>1. Extent(x, p, q) = q - p
    BY <1>2 DEF Extent
  <2>2. \A m \in p + 1 .. q - 1 :
            /\ <<"list", p, m>> \in T => <<"list", p, m>> \in U
            /\ <<"value", m, q>> \in T => <<"value", m, q>> \in U
    BY <1>0, <2>1 DEF Extent
  <2> QED
    BY <1>2, <2>2 DEF Derives
<1>3. CASE x = "pairs"
  <2>1. Extent(x, p, q) = q - p
    BY <1>3 DEF Extent
  <2>2. \A m \in p + 1 .. q - 1 :
            /\ <<"key", p, m>> \in T => <<"key", p, m>> \in U
            /\ <<"value", m, q>> \in T => <<"value", m, q>> \in U
    BY <1>0, <2>1 DEF Extent
  <2> QED
    BY <1>3, <2>2 DEF Derives
<1>4. CASE x = "key"
  <2>1. Extent(x, p, q) = q - p
    BY <1>4 DEF Extent
  <2>2. \A m \in p + 1 .. q - 1 : <<"pairs", p, m>> \in T => <<"pairs", p, m>> \in U
    BY <1>0, <2>1 DEF Extent
  <2> QED
    BY <1>4, <2>2 DEF Derives
<1>5. CASE x = "whole"
  <2>1. Extent(x, p, q) = q
    BY <1>5 DEF Extent
  <2>2. <<"value", 1, q>> \in T => <<"value", 1, q>> \in U
    BY <1>0, <2>1 DEF Extent
  <2>3. \A m \in 2 .. q - 1 : <<"whole", 1, m>> \in T => <<"whole", 1, m>> \in U
    BY <1>0, <2>1 DEF Extent
  <2> QED
    BY <1>5, <2>2, <2>3 DEF Derives
<1> QED
  BY <1>1, <1>2, <1>3, <1>4, <1>5 DEF Derives

\* What is made of parts of s is a part of s.
LEMMA DerivedClosed ==
    ASSUME NEW s, Len(s) \in Nat, NEW x, NEW p, NEW q, <<x, p, q>> \in Part(s),
           Derives(s, Derived(s), x, p, q)
    PROVE  <<x, p, q>> \in Derived(s)
<1> DEFINE N == Len(s) + 1
<1>1. PICK d : /\ Derived(s) = d[N]
               /\ d[0] = {}
               /\ \A n \in 1 .. N :
                     d[n] = {t \in Part(s) : Derives(s, d[n - 1], t[1], t[2], t[3])}
  BY DerivedIs
<1>2. N \in Nat /\ N # 0 /\ N \in 1 .. N /\ N - 1 \in 0 .. N
  OBVIOUS
<1>3. ASSUME NEW y, NEW a, NEW b, <<y, a, b>> \in Part(s)
      PROVE  /\ a \in 1 .. Len(s) /\ b \in 2 .. Len(s) + 1
             /\ Extent(y, a, b) \in 1 .. N
  <2>1. a \in 1 .. Len(s) /\ b \in 2 .. Len(s) + 1 /\ a < b
    BY <1>3 DEF Part
  <2> QED
    BY <2>1 DEF Extent
<1> HIDE DEF N
<1>4. \A n \in 0 .. N : d[n] \subseteq Part(s)
  <2> TAKE n \in 0 .. N
  <2>1. CASE n = 0
    BY <1>1, <2>1
  <2>2. CASE n # 0
    <3>1. n \in 1 .. N
      BY <1>2, <2>2
    <3> QED
      BY <1>1, <3>1
  <2> QED
    BY <2>1, <2>2
<1>5. ASSUME NEW n \in 1 .. N, NEW y, NEW a, NEW b, <<y, a, b>> \in Part(s)
      PROVE  <<y, a, b>> \in d[n] <=> Derives(s, d[n - 1], y, a, b)
  BY <1>1, <1>5
\* A part is found at the latest in the round of its extent.
<1> DEFINE Late(n) == \E k \in 0 .. N : \E y, a, b :
                          <<y, a, b>> \in d[k] /\ Extent(y, a, b) <= n /\ <<y, a, b>> \notin d[n]
           T == {n \in 0 .. N : Late(n)}
<1>6. ~Late(0)
  <2> SUFFICES ASSUME NEW k \in 0 .. N, NEW y, NEW a, NEW b, <<y, a, b>> \in d[k],
                      Extent(y, a, b) <= 0
               PROVE  FALSE
    OBVIOUS
  <2>1. <<y, a, b>> \in Part(s)
    BY <1>4
  <2>2. Extent(y, a, b) \in 1 .. N
    BY <1>3, <2>1
  <2> QED
    BY <1>2, <2>2
<1>7. ASSUME NEW n \in 1 .. N, ~Late(n - 1) PROVE ~Late(n)
  <2> SUFFICES ASSUME NEW k \in 0 .. N, NEW y, NEW a, NEW b, <<y, a, b>> \in d[k],
                      Extent(y, a, b) <= n
               PROVE  <<y, a, b>> \in d[n]
    OBVIOUS
  <2>1. <<y, a, b>> \in Part(s) /\ k # 0
    BY <1>1, <1>4
  <2>2. k \in 1 .. N /\ k - 1 \in 0 .. N /\ n - 1 \in 0 .. N
    BY <1>2, <2>1
  <2>3. Derives(s, d[k - 1], y, a, b)
    BY <1>5, <2>1, <2>2
  <2>4. ASSUME NEW z, NEW u, NEW v, <<z, u, v>> \in d[k - 1], Extent(z, u, v) < Extent(y, a, b)
        PROVE  <<z, u, v>> \in d[n - 1]
    <3>1. <<z, u, v>> \in Part(s)
      BY <1>4, <2>2, <2>4
    <3>2. Extent(z, u, v) \in 1 .. N /\ Extent(y, a, b) \in 1 .. N
      BY <1>3, <2>1, <3>1
    <3>3. Extent(z, u, v) <= n - 1
      BY <1>2, <2>4, <3>2
    <3> QED
      BY <1>7, <2>2, <2>4, <3>3
  <2>5. Derives(s, d[n - 1], y, a, b)
    <3>1. a \in 1 .. Len(s) /\ b \in 2 .. Len(s) + 1 /\ d[k - 1] \subseteq Part(s)
      BY <1>3, <1>4, <2>1, <2>2
    <3> HIDE DEF Late
    <3> QED
      BY <2>3, <2>4, <3>1, DerivesFromShorter
  <2> QED
    BY <1>5, <2>1, <2>5
<1>8. T = {}
  <2> HIDE DEF Late
  <2> SUFFICES ASSUME T # {} PROVE FALSE
    OBVIOUS
  <2>1. T \in SUBSET Nat
    OBVIOUS
  <2>2. PICK n \in T : \A j \in T : n <= j
    <3> HIDE DEF T
    <3> QED
      BY <2>1, LeastNumber
  <2>3. n \in 0 .. N /\ Late(n) /\ n # 0
    BY <1>6, <2>2
  <2>4. n - 1 \in 0 .. N /\ n \in 1 .. N /\ ~(n <= n - 1)
    BY <1>2, <2>3
  <2>5. ~Late(n - 1)
    BY <2>2, <2>4
  <2> QED
    BY <1>7, <2>3, <2>4, <2>5
<1>9. ASSUME NEW y, NEW a, NEW b, <<y, a, b>> \in d[N], Extent(y, a, b) < Extent(x, p, q)
      PROVE  <<y, a, b>> \in d[N - 1]
  <2>1. <<y, a, b>> \in Part(s) /\ N \in 0 .. N
    BY <1>2, <1>4, <1>9
  <2>2. Extent(y, a, b) \in 1 .. N /\ Extent(x, p, q) \in 1 .. N
    BY <1>3, <2>1
  <2>3. Extent(y, a, b) <= N - 1
    BY <1>2, <1>9, <2>2
  <2>4. ~Late(N - 1)
    BY <1>2, <1>8
  <2> QED
    BY <1>9, <2>1, <2>3, <2>4
<1>10. Derives(s, d[N - 1], x, p, q)
  <2>1. p \in 1 .. Len(s) /\ q \in 2 .. Len(s) + 1 /\ d[N] \subseteq Part(s)
    BY <1>2, <1>3, <1>4
  <2>2. Derives(s, d[N], x, p, q)
    BY <1>1
  <2> HIDE DEF Late, T
  <2> QED
    BY <1>9, <2>1, <2>2, DerivesFromShorter
<1> QED
  BY <1>1, <1>2, <1>5, <1>10

\* A part lies in s, and is made of some parts.
LEMMA DerivedPart ==
    ASSUME NEW s, Len(s) \in Nat, NEW x, NEW p, NEW q, <<x, p, q>> \in Derived(s)
    PROVE  /\ p \in 1 .. Len(s) /\ q \in 2 .. Len(s) + 1 /\ p < q
           /\ \E T : Derives(s, T, x, p, q)
<1>1. PICK d : /\ Derived(s) = d[Len(s) + 1]
               /\ \A n \in 1 .. Len(s) + 1 :
                     d[n] = {t \in Part(s) : Derives(s, d[n - 1], t[1], t[2], t[3])}
  BY DerivedIs
<1>2. Len(s) + 1 \in 1 .. Len(s) + 1
  OBVIOUS
<1>3. <<x, p, q>> \in Part(s) /\ Derives(s, d[Len(s) + 1 - 1], x, p, q)
  BY <1>1, <1>2
<1> QED
  BY <1>3 DEF Part

\* What is made of parts is a part.
LEMMA Makes ==
    ASSUME NEW s, Len(s) \in Nat, NEW x \in {"value", "list", "pairs", "key", "whole"},
           NEW p \in Nat, NEW q \in Nat, 1 <= p, p < q, q <= Len(s) + 1,
           Derives(s, Derived(s), x, p, q)
    PROVE  <<x, p, q>> \in Derived(s)
<1>1. <<x, p, q>> \in Part(s)
  BY DEF Part
<1> QED
  BY <1>1, DerivedClosed

\* The digits of a length end at the first colon.
LEMMA OneLength ==
    ASSUME NEW s, Len(s) \in Nat, NEW p \in 1 .. Len(s), NEW m, NEW n, NEW j, NEW k,
           LooseLength(s, p, m, n), LooseLength(s, p, j, k)
    PROVE  m = j /\ n = k
<1>1. m \in p .. Len(s) /\ j \in p .. Len(s) /\ s[m] = ":" /\ s[j] = ":"
      /\ AllDigits(s, p, m - 1) /\ AllDigits(s, p, j - 1)
  BY DEF LooseLength
<1>2. ~(m < j)
  <2> SUFFICES ASSUME m < j PROVE FALSE
    OBVIOUS
  <2>1. m \in p .. j - 1
    BY <1>1
  <2> QED
    BY <1>1, <2>1, NotDigits DEF AllDigits
<1>3. ~(j < m)
  <2> SUFFICES ASSUME j < m PROVE FALSE
    OBVIOUS
  <2>1. j \in p .. m - 1
    BY <1>1
  <2> QED
    BY <1>1, <2>1, NotDigits DEF AllDigits
<1>4. m = j
  BY <1>1, <1>2, <1>3
<1> QED
  BY <1>4 DEF LooseLength

-----------------------------------------------------------------------------
(* The containers that are open.                                           *)

\* The part that a container is before the item that is being read.
Before(x) == IF x = "list" THEN "list" ELSE IF x = "key" THEN "pairs" ELSE "key"

\* The k-th of the containers of ps starts at c[k], and it is a part up to
\* c[k + 1], where the next one starts or, in the innermost, an item.
OpenIn(s, ps, c) ==
    /\ c \in [Nat -> Nat] /\ c[1] = 1
    /\ \A k \in 1 .. Len(ps) : <<Before(ps[k]), c[k], c[k + 1]>> \in Derived(s)
    /\ \A k \in 1 .. Len(ps) - 1 : ps[k] # "key"

\* Where the item starts.
Start(ps, c) == c[Len(ps) + 1]

\* What comes next in a container.
Turn(x) == IF x = "list" THEN "list" ELSE IF x = "key" THEN "value" ELSE "key"

\* A value, or a key, ended before p.
Settled(s, ps, size, p, c) ==
    IF ps = <<>>
    THEN /\ Stride(s, size)
         /\ size # 0 => <<"whole", 1, p>> \in Derived(s)
         /\ size = 0 => p <= Len(s)
    ELSE OpenIn(s, Mark(ps, Turn(Top(ps))), c) /\ Start(ps, c) = p

\* An item of the innermost container starts at p.
InValue(ps) == ps # <<>> => Top(ps) # "key"

\* A container starts at p.
LEMMA Opens ==
    ASSUME NEW s, IsInput(s), NEW ps \in Stack, NEW c, OpenIn(s, ps, c), InValue(ps),
           NEW p \in 1 .. Len(s), Start(ps, c) = p, NEW x \in {"list", "key"},
           x = "list" => s[p] = "l", x = "key" => s[p] = "d"
    PROVE  LET w == Append(ps, x)
               z == [c EXCEPT ![Len(ps) + 2] = p + 1]
           IN  /\ OpenIn(s, w, z) /\ Start(w, z) = p + 1 /\ z[Len(w)] = p
               /\ w \in Stack /\ w # <<>> /\ Top(w) = x
<1> DEFINE n == Len(ps)
           w == Append(ps, x)
           z == [c EXCEPT ![n + 2] = p + 1]
<1>1. n \in Nat /\ Len(s) \in Nat /\ p + 1 \in Nat /\ p + 1 <= Len(s) + 1
  BY DEF Stack, IsInput
<1>2. w \in Stack /\ Len(w) = n + 1 /\ w[n + 1] = x /\ \A k \in 1 .. n : w[k] = ps[k]
  BY DEF Stack
<1>3. w # <<>> /\ Top(w) = x
  BY AppendParts
<1>4. c \in [Nat -> Nat] /\ c[1] = 1 /\ c[n + 1] = p
      /\ (\A k \in 1 .. n : <<Before(ps[k]), c[k], c[k + 1]>> \in Derived(s))
      /\ (\A k \in 1 .. n - 1 : ps[k] # "key")
  BY DEF OpenIn, Start
<1>5. n # 0 => ps[n] # "key"
  BY DEF InValue, Top
<1> HIDE DEF n, w
<1>6. z \in [Nat -> Nat] /\ z[n + 2] = p + 1 /\ \A k \in 1 .. n + 1 : z[k] = c[k]
  BY <1>1, <1>4
<1> HIDE DEF z
<1>7. Derives(s, Derived(s), Before(x), p, p + 1)
  BY DEF Derives, Before
<1>8. <<Before(x), p, p + 1>> \in Derived(s)
  BY <1>1, <1>7, Makes DEF Before
<1>9. ASSUME NEW k \in 1 .. n + 1 PROVE <<Before(w[k]), z[k], z[k + 1]>> \in Derived(s)
  <2>1. CASE k = n + 1
    <3>1. z[k] = p /\ z[k + 1] = p + 1 /\ w[k] = x
      <4>1. k + 1 = n + 2 /\ k \in 1 .. n + 1
        BY <1>1, <2>1
      <4> QED
        BY <1>2, <1>4, <1>6, <2>1, <4>1
    <3> QED
      BY <1>8, <3>1
  <2>2. CASE k # n + 1
    <3>1. k \in 1 .. n /\ k + 1 \in 1 .. n + 1
      BY <1>1, <2>2
    <3>2. z[k] = c[k] /\ z[k + 1] = c[k + 1] /\ w[k] = ps[k]
      BY <1>2, <1>6, <3>1
    <3> QED
      BY <1>4, <3>1, <3>2
  <2> QED
    BY <2>1, <2>2
<1>10. ASSUME NEW k \in 1 .. n PROVE w[k] # "key"
  <2>1. k = n \/ k \in 1 .. n - 1
    BY <1>1
  <2>2. n # 0
    BY <1>1
  <2>3. ps[k] # "key"
    BY <1>4, <1>5, <2>1, <2>2
  <2> QED
    BY <1>2, <2>3
<1>11. Len(w) - 1 = n /\ Len(w) + 1 = n + 2 /\ 1 \in 1 .. n + 1 /\ n + 1 \in 1 .. n + 1
  BY <1>1, <1>2
<1>12. OpenIn(s, w, z) /\ Start(w, z) = p + 1 /\ z[Len(w)] = p
  BY <1>2, <1>4, <1>6, <1>9, <1>10, <1>11 DEF OpenIn, Start
<1> QED
  BY <1>2, <1>3, <1>12 DEF n, w, z

\* Mark replaces the top of a stack and nothing else.
LEMMA MarkParts ==
    ASSUME NEW ps \in Stack, ps # <<>>, NEW x \in {"key", "value", "list"}
    PROVE  /\ Len(ps) \in Nat \ {0} /\ Len(Mark(ps, x)) = Len(ps) /\ Mark(ps, x)[Len(ps)] = x
           /\ \A k \in 1 .. Len(ps) - 1 : Mark(ps, x)[k] = ps[k]
           /\ Mark(ps, x) \in Stack /\ Mark(ps, x) # <<>> /\ Top(Mark(ps, x)) = x
           /\ Pop(Mark(ps, x)) = Pop(ps)
           /\ Top(ps) = x => Mark(ps, x) = ps
<1>0. /\ Pop(ps) \in Stack /\ Len(ps) \in Nat \ {0} /\ Len(Pop(ps)) = Len(ps) - 1
      /\ \A k \in 1 .. Len(ps) - 1 : Pop(ps)[k] = ps[k]
      /\ \A y \in {"key", "value", "list"} :
            /\ Mark(ps, y) = Append(Pop(ps), y) /\ Mark(ps, y) \in Stack
            /\ Mark(ps, y) # <<>> /\ Top(Mark(ps, y)) = y /\ Pop(Mark(ps, y)) = Pop(ps)
  BY StackParts
<1> DEFINE n == Len(ps)
           v == Pop(ps)
           w == Mark(ps, x)
<1>1. /\ v \in Stack /\ n \in Nat \ {0} /\ Len(v) = n - 1
      /\ \A k \in 1 .. n - 1 : v[k] = ps[k]
      /\ w = Append(v, x) /\ w \in Stack /\ w # <<>> /\ Top(w) = x /\ Pop(w) = v
  BY <1>0
<1>2. Top(ps) = x => w = ps
  BY DEF Mark, Top, Stack
<1> HIDE DEF w, n, v
<1>3. Len(v) + 1 = n
  BY <1>1
<1>4. Len(w) = n /\ w[n] = x /\ \A k \in 1 .. n - 1 : w[k] = v[k]
  BY <1>1, <1>3 DEF Stack
<1> QED
  BY <1>1, <1>2, <1>4 DEF w, n, v

\* The innermost container goes on at q.
LEMMA GoesOn ==
    ASSUME NEW s, NEW ps \in Stack, ps # <<>>, NEW c, OpenIn(s, ps, c),
           NEW x \in {"key", "value", "list"}, NEW q \in Nat,
           <<Before(x), c[Len(ps)], q>> \in Derived(s)
    PROVE  LET z == [c EXCEPT ![Len(ps) + 1] = q]
           IN  OpenIn(s, Mark(ps, x), z) /\ Start(ps, z) = q
<1> DEFINE n == Len(ps)
           w == Mark(ps, x)
           z == [c EXCEPT ![n + 1] = q]
<1>1. n \in Nat \ {0} /\ Len(w) = n /\ w[n] = x /\ \A k \in 1 .. n - 1 : w[k] = ps[k]
  BY MarkParts
<1>2. c \in [Nat -> Nat] /\ c[1] = 1
      /\ (\A k \in 1 .. n : <<Before(ps[k]), c[k], c[k + 1]>> \in Derived(s))
      /\ (\A k \in 1 .. n - 1 : ps[k] # "key")
  BY DEF OpenIn
<1>3. <<Before(x), c[n], q>> \in Derived(s)
  OBVIOUS
<1> HIDE DEF n, w
<1>4. z \in [Nat -> Nat] /\ z[n + 1] = q /\ \A k \in 1 .. n : z[k] = c[k]
  <2>1. n + 1 \in Nat /\ \A k \in 1 .. n : k \in Nat /\ k # n + 1
    BY <1>1
  <2> QED
    BY <1>2, <2>1
<1> HIDE DEF z
<1>5. ASSUME NEW k \in 1 .. n PROVE <<Before(w[k]), z[k], z[k + 1]>> \in Derived(s)
  <2>1. CASE k = n
    BY <1>1, <1>3, <1>4, <2>1
  <2>2. CASE k # n
    <3>1. k \in 1 .. n - 1 /\ k + 1 \in 1 .. n
      BY <1>1, <2>2
    <3>2. z[k] = c[k] /\ z[k + 1] = c[k + 1] /\ w[k] = ps[k]
      BY <1>1, <1>4, <3>1
    <3> QED
      BY <1>2, <3>2
  <2> QED
    BY <2>1, <2>2
<1>6. 1 \in 1 .. n
  BY <1>1
<1>7. OpenIn(s, w, z) /\ z[n + 1] = q
  BY <1>1, <1>2, <1>4, <1>5, <1>6 DEF OpenIn
<1> QED
  BY <1>7 DEF n, w, z, Start

\* The top of the stack is a container that starts before the item.
LEMMA Innermost ==
    ASSUME NEW s, IsInput(s), NEW ps \in Stack, ps # <<>>, NEW c, OpenIn(s, ps, c)
    PROVE  /\ Len(ps) \in Nat \ {0} /\ c[Len(ps)] \in 1 .. Len(s) /\ Start(ps, c) \in Nat
           /\ <<Before(Top(ps)), c[Len(ps)], Start(ps, c)>> \in Derived(s)
           /\ c[Len(ps)] < Start(ps, c) /\ Start(ps, c) <= Len(s) + 1
           /\ Top(ps) = "list" => s[c[Len(ps)]] = "l"
           /\ Top(ps) # "list" => s[c[Len(ps)]] = "d"
<1> DEFINE n == Len(ps)
           a == c[n]
           b == c[n + 1]
<1>1. n \in Nat \ {0} /\ n \in 1 .. n
  BY DEF Stack
<1>2. <<Before(Top(ps)), a, b>> \in Derived(s)
  BY <1>1 DEF OpenIn, Top
<1>3. Len(s) \in Nat
  BY DEF IsInput
<1> HIDE DEF a, b
<1>4. /\ a \in 1 .. Len(s) /\ b \in 2 .. Len(s) + 1 /\ a < b
      /\ \E T : Derives(s, T, Before(Top(ps)), a, b)
  BY <1>2, <1>3, DerivedPart
<1>5. s[a] = IF Top(ps) = "list" THEN "l" ELSE "d"
  BY <1>4 DEF Derives, Before
<1>6. b \in Nat /\ b <= Len(s) + 1
  BY <1>3, <1>4
<1> QED
  BY <1>1, <1>2, <1>4, <1>5, <1>6 DEF a, b, Start

\* A value ended before q.
LEMMA ValueEnds ==
    ASSUME NEW s, IsInput(s), NEW ps \in Stack, NEW c, OpenIn(s, ps, c), InValue(ps), NEW q,
           <<"value", Start(ps, c), q>> \in Derived(s), NEW size,
           ps = <<>> => /\ Stride(s, size)
                        /\ size = 0 => q <= Len(s)
                        /\ size # 0 => ~Stride(s, 0)
    PROVE  \E z : Settled(s, ps, size, q, z)
<1>0. Len(s) \in Nat
  BY DEF IsInput
<1>1. Start(ps, c) \in 1 .. Len(s) /\ q \in 2 .. Len(s) + 1 /\ Start(ps, c) < q
  BY <1>0, DerivedPart
<1>2. CASE ps = <<>>
  <2>1. Start(ps, c) = 1
    <3>1. Len(ps) + 1 = 1
      BY <1>2
    <3> QED
      BY <3>1 DEF OpenIn, Start
  <2>2. ASSUME size # 0 PROVE <<"whole", 1, q>> \in Derived(s)
    <3>1. Derives(s, Derived(s), "whole", 1, q)
      BY <1>2, <2>1, <2>2 DEF Derives
    <3> QED
      BY <1>0, <1>1, <2>1, <3>1, Makes
  <2> QED
    BY <1>2, <2>2 DEF Settled
<1>3. CASE ps # <<>>
  <2> DEFINE a == c[Len(ps)]
             b == Start(ps, c)
             x == Turn(Top(ps))
  <2>1. Top(ps) \in {"list", "value"}
    <3>1. Top(ps) \in {"key", "value", "list"}
      BY <1>3, StackParts
    <3> QED
      BY <1>3, <3>1 DEF InValue
  <2>2. /\ a \in 1 .. Len(s) /\ b \in Nat /\ a < b
        /\ <<Before(Top(ps)), a, b>> \in Derived(s)
        /\ Top(ps) = "list" => s[a] = "l"
        /\ Top(ps) # "list" => s[a] = "d"
    BY <1>3, Innermost
  <2>3. <<"value", b, q>> \in Derived(s) /\ b < q
    BY <1>1
  <2> HIDE DEF a, b
  <2>4. b \in a + 1 .. q - 1 /\ a \in Nat /\ q \in Nat /\ a < q /\ 1 <= a /\ q <= Len(s) + 1
    BY <1>0, <1>1, <2>2, <2>3
  <2>5. Derives(s, Derived(s), Before(x), a, q)
    BY <2>1, <2>2, <2>3, <2>4 DEF Derives, Before, Turn
  <2>6. x \in {"key", "value", "list"} /\ Before(x) \in {"value", "list", "pairs", "key", "whole"}
    BY DEF Turn, Before
  <2> HIDE DEF x
  <2>7. <<Before(x), a, q>> \in Derived(s)
    BY <1>0, <2>4, <2>5, <2>6, Makes
  <2>8. OpenIn(s, Mark(ps, x), [c EXCEPT ![Len(ps) + 1] = q])
        /\ Start(ps, [c EXCEPT ![Len(ps) + 1] = q]) = q
    BY <1>3, <2>4, <2>6, <2>7, GoesOn DEF a
  <2> QED
    BY <1>3, <2>8 DEF Settled, x
<1> QED
  BY <1>2, <1>3

\* A key ended before q.
LEMMA KeyEnds ==
    ASSUME NEW s, IsInput(s), NEW ps \in Stack, NEW c, OpenIn(s, ps, c),
           ps # <<>>, Top(ps) = "key", NEW q \in 1 .. Len(s) + 1, Start(ps, c) < q,
           LooseString(s, Start(ps, c), q),
           \/ Start(ps, c) = c[Len(ps)] + 1
           \/ s[Start(ps, c)] \in Digit /\ Value[s[Start(ps, c)]] > 0,
           NEW size
    PROVE  \E z : Settled(s, ps, size, q, z)
<1> DEFINE a == c[Len(ps)]
           b == Start(ps, c)
<1>0. Len(s) \in Nat
  BY DEF IsInput
<1>1. a \in 1 .. Len(s) /\ b \in Nat /\ a < b /\ <<"pairs", a, b>> \in Derived(s) /\ s[a] = "d"
  BY Innermost DEF Before
<1>2. b < q /\ LooseString(s, b, q) /\ (b # a + 1 => s[b] \in Digit /\ Value[s[b]] > 0)
  OBVIOUS
<1> HIDE DEF a, b
<1>3. b \in a + 1 .. q - 1 /\ a \in Nat /\ q \in Nat /\ a < q /\ 1 <= a /\ q <= Len(s) + 1
  BY <1>0, <1>1, <1>2
<1>4. Derives(s, Derived(s), "key", a, q)
  BY <1>1, <1>2, <1>3 DEF Derives
<1>5. <<"key", a, q>> \in Derived(s)
  BY <1>0, <1>3, <1>4, Makes
<1>6. Before("value") = "key"
  BY DEF Before
<1>7. OpenIn(s, Mark(ps, "value"), [c EXCEPT ![Len(ps) + 1] = q])
      /\ Start(ps, [c EXCEPT ![Len(ps) + 1] = q]) = q
  BY <1>3, <1>5, <1>6, GoesOn DEF a
<1>8. Turn(Top(ps)) = "value"
  BY DEF Turn
<1> QED
  BY <1>7, <1>8 DEF Settled

\* The innermost container ended with the byte at p.
LEMMA ContainerEnds ==
    ASSUME NEW s, IsInput(s), NEW ps \in Stack, NEW c, OpenIn(s, ps, c), ps # <<>>,
           NEW p \in 1 .. Len(s), s[p] = "e", Start(ps, c) <= p, Zeros(s, Start(ps, c), p - 1),
           Top(ps) = "key" => Start(ps, c) \in {p, c[Len(ps)] + 1}
    PROVE  \E z : Settled(s, Pop(ps), 1, p + 1, z)
<1> DEFINE n == Len(ps)
           a == c[n]
           b == Start(ps, c)
           y == Before(Top(ps))
           w == Pop(ps)
<1>0. Len(s) \in Nat /\ DOMAIN s = 1 .. Len(s)
  BY DEF IsInput
<1>1. /\ n \in Nat \ {0} /\ a \in 1 .. Len(s) /\ b \in Nat /\ a < b
      /\ <<y, a, b>> \in Derived(s)
      /\ s[a] = "l" \/ s[a] = "d"
  BY Innermost
<1>2. w \in Stack /\ Len(w) = n - 1 /\ Top(ps) \in {"key", "value", "list"}
      /\ \A k \in 1 .. n - 1 : w[k] = ps[k]
  BY StackParts
<1>3. /\ c \in [Nat -> Nat] /\ c[1] = 1
      /\ \A k \in 1 .. n : <<Before(ps[k]), c[k], c[k + 1]>> \in Derived(s)
      /\ \A k \in 1 .. n - 1 : ps[k] # "key"
  BY DEF OpenIn
<1>4. y \in {"list", "pairs", "key"} /\ (y = "pairs" => Top(ps) = "key")
  BY <1>2 DEF Before
<1>5. b <= p /\ Zeros(s, b, p - 1) /\ (y = "pairs" => b \in {p, a + 1})
  BY <1>4
<1> HIDE DEF n, a, b, y, w
<1>6. <<"value", a, p + 1>> \in Derived(s)
  <2> DEFINE q == p + 1
  <2>1. q - 1 = p /\ q - 2 = p - 1 /\ b \in a + 1 .. q - 1 /\ a \in Nat /\ q \in Nat
        /\ 1 <= a /\ a < q /\ q <= Len(s) + 1 /\ p \in DOMAIN s
    BY <1>0, <1>1, <1>5
  <2> HIDE DEF q
  <2>2. Is(s, q - 1, "e")
    BY <2>1 DEF Is
  <2>3. Derives(s, Derived(s), "value", a, q)
    BY <1>1, <1>4, <1>5, <2>1, <2>2 DEF Derives
  <2>4. <<"value", a, q>> \in Derived(s)
    BY <1>0, <2>1, <2>3, Makes
  <2> QED
    BY <2>4 DEF q
<1>7. OpenIn(s, w, c) /\ Start(w, c) = a
  <2>1. Len(w) + 1 = n /\ \A k \in 1 .. Len(w) : k \in 1 .. n /\ k \in 1 .. n - 1
    BY <1>1, <1>2
  <2>2. \A k \in 1 .. Len(w) - 1 : k \in 1 .. n - 1
    BY <1>1, <1>2
  <2> QED
    BY <1>2, <1>3, <2>1, <2>2 DEF OpenIn, Start, a
<1>8. InValue(w)
  <2> SUFFICES ASSUME w # <<>> PROVE w[Len(w)] # "key"
    BY DEF InValue, Top
  <2>1. Len(w) \in Nat \ {0}
    BY <1>2 DEF Stack
  <2>2. n - 1 \in 1 .. n - 1
    BY <1>1, <1>2, <2>1
  <2> QED
    BY <1>2, <1>3, <2>2
<1>9. ASSUME w = <<>> PROVE Stride(s, 1) /\ ~Stride(s, 0)
  <2>1. n = 1
    BY <1>1, <1>2, <1>9
  <2>2. s[1] = "l" \/ s[1] = "d"
    BY <1>1, <1>3, <2>1 DEF a
  <2> QED
    BY <2>2, NotDigits DEF Stride
<1>10. <<"value", Start(w, c), p + 1>> \in Derived(s)
  BY <1>6, <1>7
<1>11. \E z : Settled(s, w, 1, p + 1, z)
  BY <1>2, <1>7, <1>8, <1>9, <1>10, ValueEnds
<1> QED
  BY <1>11 DEF w

-----------------------------------------------------------------------------
(* Where the scanner is in what it has read.                               *)

\* The bytes from b on and before p are digits, and say len.
Counted(s, b, len, p) ==
    /\ AllDigits(s, b, p - 1) /\ len \in Nat
    /\ p <= Len(s) => len = Number(s, b)[p]
    /\ len = 0 => Zeros(s, b, p - 1)

\* A key after the first starts with a digit that is not zero.
KeyStart(s, ps, c) ==
    ps # <<>> /\ Top(ps) = "key" =>
        \/ Start(ps, c) = c[Len(ps)] + 1
        \/ s[Start(ps, c)] \in Digit /\ Value[s[Start(ps, c)]] > 0

\* Only a key's length may have no digits.
Digitless(ps) == ps # <<>> /\ Top(ps) = "key"

\* The bytes of an integer from b on and before p.
IntRead(st, s, b, p) ==
    /\ b \in 1 .. p - 1 /\ s[b] = "i"
    /\ st = "beginInt" => p = b + 1
    /\ st = "neg" => p = b + 2 /\ s[b + 1] = "-"
    /\ st = "zero" => p = b + 2 /\ s[b + 1] \in Digit
    /\ st = "num" => /\ FirstOf(s, b) < p /\ AllDigits(s, FirstOf(s, b), p - 1)
                     /\ Value[s[FirstOf(s, b)]] > 0

\* In state st the scanner has read the bytes of s before p.
Places(st, ps, len, size, p, s, c) ==
    /\ p \in Pos(s)
    /\ st \notin {"beginString", "inString"} => len = 0
    /\ st \notin {"endValue", "endTop"} => size = 1 /\ OpenIn(s, ps, c) /\ Start(ps, c) <= p
    /\ st = "beginValue" => Start(ps, c) = p /\ InValue(ps) /\ (ps # <<>> => Top(ps) = "list")
    /\ st = "beginString" => /\ Counted(s, Start(ps, c), len, p) /\ KeyStart(s, ps, c)
                             /\ Start(ps, c) = p => Digitless(ps)
    /\ st = "inString" => /\ Start(ps, c) < p /\ LooseLength(s, Start(ps, c), p - 1, len)
                          /\ KeyStart(s, ps, c)
                          /\ Start(ps, c) = p - 1 => Digitless(ps)
    /\ st \in Ints => InValue(ps) /\ IntRead(st, s, Start(ps, c), p)
    /\ st = "endValue" => Settled(s, ps, size, p, c)
    /\ st = "endTop" => ps = <<>> /\ Settled(s, ps, size, p, c)
    /\ st # "error"

\* Where an item starts, when it starts in s.
LEMMA StartIs ==
    ASSUME NEW s, IsInput(s), NEW ps \in Stack, NEW c, OpenIn(s, ps, c)
    PROVE  Start(ps, c) \in Nat \ {0} /\ (ps = <<>> => Start(ps, c) = 1)
<1>1. CASE ps = <<>>
  <2>1. Len(ps) + 1 = 1
    BY <1>1
  <2> QED
    BY <2>1 DEF OpenIn, Start
<1>2. CASE ps # <<>>
  <2>1. c[Len(ps)] \in 1 .. Len(s) /\ Start(ps, c) \in Nat /\ c[Len(ps)] < Start(ps, c)
    BY <1>2, Innermost
  <2>2. Len(s) \in Nat
    BY DEF IsInput
  <2> QED
    BY <1>2, <2>1, <2>2
<1> QED
  BY <1>1, <1>2

\* No digits are zero.
LEMMA CountedNone ==
    ASSUME NEW s, IsInput(s), NEW p \in Pos(s)
    PROVE  Counted(s, p, 0, p)
<1>1. Len(s) \in Nat /\ p \in Nat /\ p - 1 < p
  BY DEF IsInput, Pos
<1>2. p <= Len(s) => Number(s, p)[p] = 0
  <2>1. p <= Len(s) => p \in 1 .. Len(s)
    BY <1>1 DEF Pos
  <2> QED
    BY <1>1, <2>1, NumberIs
<1>3. \A k \in p .. p - 1 : FALSE
  BY <1>1
<1> QED
  BY <1>2, <1>3 DEF Counted, AllDigits, Zeros

\* One more digit.
LEMMA CountedMore ==
    ASSUME NEW s, IsInput(s), NEW b \in Nat \ {0}, NEW p \in 1 .. Len(s), b <= p, NEW len,
           Counted(s, b, len, p), s[p] \in Digit
    PROVE  Counted(s, b, len * 10 + Value[s[p]], p + 1)
<1> DEFINE v == Value[s[p]]
           l == len * 10 + v
<1>1. Len(s) \in Nat /\ p \in Nat /\ (p + 1) - 1 = p /\ b \in 1 .. Len(s) /\ p \in b .. Len(s)
  BY DEF IsInput
<1>2. len \in Nat /\ len = Number(s, b)[p] /\ AllDigits(s, b, p - 1) /\ (len = 0 => Zeros(s, b, p - 1))
  BY <1>1 DEF Counted
<1>3. v \in Nat
  BY DigitValue
<1>4. Number(s, b)[p + 1] = Number(s, b)[p] * 10 + v
  BY <1>1, NumberIs
<1>5. \A k \in b .. p : k = p \/ k \in b .. p - 1
  BY <1>1
<1>6. AllDigits(s, b, p)
  BY <1>2, <1>5 DEF AllDigits
<1> HIDE DEF v
<1>7. l \in Nat /\ (l = 0 => len = 0 /\ v = 0)
  BY <1>2, <1>3
<1>8. ASSUME l = 0 PROVE Zeros(s, b, p)
  BY <1>2, <1>5, <1>7, <1>8 DEF Zeros, v
<1>9. l = Number(s, b)[p + 1]
  BY <1>2, <1>4
<1> HIDE DEF l
<1>10. Counted(s, b, l, p + 1)
  BY <1>1, <1>6, <1>7, <1>8, <1>9 DEF Counted
<1> QED
  BY <1>10 DEF l, v

\* A string's body ended before p + len.
LEMMA StringEnds ==
    ASSUME NEW s, IsInput(s), NEW ps \in Stack, NEW c, OpenIn(s, ps, c), NEW len \in Nat,
           NEW p \in 1 .. Len(s), p + len <= Len(s) + 1,
           Start(ps, c) < p, LooseLength(s, Start(ps, c), p - 1, len), KeyStart(s, ps, c),
           Start(ps, c) = p - 1 => Digitless(ps)
    PROVE  \E z : Settled(s, ps, len, p + len, z)
<1> DEFINE b == Start(ps, c)
           q == p + len
<1>1. Len(s) \in Nat /\ p \in Nat /\ q \in Nat /\ q <= Len(s) + 1 /\ p <= q /\ q \in 1 .. Len(s) + 1
      /\ q - (p - 1) - 1 = len
  BY DEF IsInput
<1>2. b \in Nat \ {0} /\ (ps = <<>> => b = 1)
  BY StartIs
<1>3. b < p /\ LooseLength(s, b, p - 1, len) /\ (b = p - 1 => Digitless(ps))
  OBVIOUS
<1> HIDE DEF q
<1>4. LooseString(s, b, q)
  <2> HIDE DEF b
  <2>1. p - 1 \in b .. Len(s)
    BY <1>1, <1>2, <1>3
  <2> QED
    BY <1>1, <1>3, <2>1 DEF LooseString
<1>5. b < q
  <2> HIDE DEF b
  <2> QED
    BY <1>1, <1>2, <1>3
<1>6. CASE Digitless(ps)
  <2>1. b = c[Len(ps)] + 1 \/ (s[b] \in Digit /\ Value[s[b]] > 0)
    BY <1>6 DEF KeyStart, Digitless
  <2>2. \E z : Settled(s, ps, len, q, z)
    BY <1>1, <1>4, <1>5, <1>6, <2>1, KeyEnds DEF Digitless
  <2> QED
    BY <2>2 DEF q
<1>7. CASE ~Digitless(ps)
  <2>1. InValue(ps)
    BY <1>7 DEF InValue, Digitless
  <2>2. s[b] \in Digit
    <3> HIDE DEF b
    <3>1. b \in b .. (p - 1) - 1
      BY <1>1, <1>2, <1>3, <1>7
    <3> QED
      BY <1>3, <3>1 DEF LooseLength, AllDigits
  <2>3. <<"value", b, q>> \in Derived(s)
    <3> HIDE DEF b
    <3>1. Derives(s, Derived(s), "value", b, q)
      BY <1>4, <2>2 DEF Derives
    <3> QED
      BY <1>1, <1>2, <1>5, <3>1, Makes
  <2>4. ASSUME ps = <<>>
        PROVE  Stride(s, len) /\ (len = 0 => q <= Len(s)) /\ (len # 0 => ~Stride(s, 0))
    <3>1. b = 1 /\ s[1] \in Digit
      BY <1>2, <2>2, <2>4
    <3>2. LooseLength(s, 1, p - 1, len) /\ p - 1 \in 1 .. Len(s) /\ 1 \in 1 .. Len(s)
      BY <1>1, <1>3, <3>1
    <3>3. Stride(s, len)
      BY <3>1, <3>2 DEF Stride
    <3>4. len = 0 => q <= Len(s)
      BY <1>1 DEF q
    <3>5. ASSUME len # 0, Stride(s, 0) PROVE FALSE
      <4>1. PICK m \in 1 .. Len(s) : LooseLength(s, 1, m, 0)
        BY <3>1, <3>5 DEF Stride
      <4> QED
        BY <1>1, <3>2, <3>5, <4>1, OneLength
    <3> QED
      BY <3>3, <3>4, <3>5
  <2>5. \E z : Settled(s, ps, len, q, z)
    BY <2>1, <2>3, <2>4, ValueEnds
  <2> QED
    BY <2>5 DEF q
<1> QED
  BY <1>6, <1>7

\* An integer ended with the byte at p.
LEMMA IntEnds ==
    ASSUME NEW s, IsInput(s), NEW ps \in Stack, NEW c, OpenIn(s, ps, c), InValue(ps),
           NEW p \in 1 .. Len(s), IsInteger(s, Start(ps, c), p), Start(ps, c) < p
    PROVE  \E z : Settled(s, ps, 1, p + 1, z)
<1> DEFINE b == Start(ps, c)
           q == p + 1
<1>1. Len(s) \in Nat /\ q \in Nat /\ q - 1 = p /\ q <= Len(s) + 1
  BY DEF IsInput
<1>2. b \in Nat \ {0} /\ (ps = <<>> => b = 1)
  BY StartIs
<1>3. IsInteger(s, b, p) /\ b < p
  OBVIOUS
<1> HIDE DEF q
<1>4. s[b] = "i"
  BY <1>3 DEF IsInteger
<1>5. <<"value", b, q>> \in Derived(s)
  <2> HIDE DEF b
  <2>1. Derives(s, Derived(s), "value", b, q)
    BY <1>1, <1>3 DEF Derives
  <2>2. b < q /\ 1 <= b
    BY <1>1, <1>2, <1>3
  <2> QED
    BY <1>1, <1>2, <2>1, <2>2, Makes
<1>6. ASSUME ps = <<>> PROVE Stride(s, 1) /\ ~Stride(s, 0)
  <2>1. s[1] = "i"
    BY <1>2, <1>4, <1>6
  <2> QED
    BY <2>1, NotDigits DEF Stride
<1>7. \E z : Settled(s, ps, 1, q, z)
  BY <1>5, <1>6, ValueEnds
<1> QED
  BY <1>7 DEF q

\* The scanner in an integer reads the byte at p.
LEMMA IntReads ==
    ASSUME NEW s, IsInput(s), NEW p \in 1 .. Len(s), NEW b \in Nat \ {0}, NEW st \in Ints,
           IntRead(st, s, b, p)
    PROVE  /\ st = "beginInt" /\ s[p] = "-" => IntRead("neg", s, b, p + 1)
           /\ st = "beginInt" /\ s[p] \in Digit /\ Value[s[p]] = 0 => IntRead("zero", s, b, p + 1)
           /\ st \in {"beginInt", "neg"} /\ s[p] \in Digit /\ Value[s[p]] > 0 =>
                 IntRead("num", s, b, p + 1)
           /\ st = "num" /\ s[p] \in Digit => IntRead("num", s, b, p + 1)
           /\ st \in {"zero", "num"} /\ s[p] = "e" => IsInteger(s, b, p)
<1> DEFINE m == FirstOf(s, b)
<1>1. Len(s) \in Nat /\ p \in Nat /\ (p + 1) - 1 = p /\ b < p /\ b \in 1 .. (p + 1) - 1
      /\ DOMAIN s = 1 .. Len(s) /\ s[b] = "i" /\ p \in DOMAIN s
  BY DEF IsInput, IntRead
<1>2. m \in {b + 1, b + 2} /\ (s[b + 1] = "-" => m = b + 2) /\ (s[b + 1] # "-" => m = b + 1)
  BY DEF FirstOf
<1> HIDE DEF m
<1>3. ASSUME m < p + 1, AllDigits(s, m, p), Value[s[m]] > 0 PROVE IntRead("num", s, b, p + 1)
  BY <1>1, <1>3 DEF IntRead, m
<1>4. CASE st = "beginInt"
  <2>1. p = b + 1 /\ p + 1 = b + 2
    BY <1>1, <1>4 DEF IntRead
  <2>2. s[p] = "-" => IntRead("neg", s, b, p + 1)
    BY <1>1, <2>1 DEF IntRead
  <2>3. s[p] \in Digit => IntRead("zero", s, b, p + 1)
    BY <1>1, <2>1 DEF IntRead
  <2>4. ASSUME s[p] \in Digit, Value[s[p]] > 0 PROVE IntRead("num", s, b, p + 1)
    <3>1. m = p
      BY <1>2, <2>1, <2>4, NotDigits
    <3>2. AllDigits(s, m, p) /\ m < p + 1
      BY <1>1, <2>4, <3>1 DEF AllDigits
    <3> QED
      BY <1>3, <2>4, <3>1, <3>2
  <2> QED
    BY <1>4, <2>2, <2>3, <2>4
<1>5. CASE st = "neg"
  <2>1. p = b + 2 /\ m = p
    BY <1>2, <1>5 DEF IntRead
  <2>2. ASSUME s[p] \in Digit, Value[s[p]] > 0 PROVE IntRead("num", s, b, p + 1)
    <3>1. AllDigits(s, m, p) /\ m < p + 1
      BY <1>1, <2>1, <2>2 DEF AllDigits
    <3> QED
      BY <1>3, <2>1, <2>2, <3>1
  <2> QED
    BY <1>5, <2>2
<1>6. CASE st = "zero"
  <2>1. p = b + 2 /\ s[b + 1] \in Digit
    BY <1>6 DEF IntRead
  <2>2. m = b + 1
    BY <1>2, <2>1, NotDigits
  <2>3. AllDigits(s, m, p - 1) /\ m < p /\ b + 2 <= p
    BY <1>1, <2>1, <2>2 DEF AllDigits
  <2>4. s[p] = "e" => IsInteger(s, b, p)
    BY <1>1, <2>1, <2>3 DEF IsInteger, m, FirstOf
  <2> QED
    BY <1>6, <2>4
<1>7. CASE st = "num"
  <2>1. m < p /\ AllDigits(s, m, p - 1) /\ Value[s[m]] > 0
    BY <1>7 DEF IntRead, m
  <2>2. b + 2 <= p /\ m < p + 1 /\ m \in Nat
    BY <1>1, <1>2, <2>1
  <2>3. ASSUME s[p] \in Digit PROVE IntRead("num", s, b, p + 1)
    <3>1. \A k \in m .. p : k = p \/ k \in m .. p - 1
      BY <1>1, <2>2
    <3>2. AllDigits(s, m, p)
      BY <2>1, <2>3, <3>1 DEF AllDigits
    <3> QED
      BY <1>3, <2>1, <2>2, <3>2
  <2>4. Value[s[m]] # 0
    BY <2>1
  <2>5. s[p] = "e" => IsInteger(s, b, p)
    BY <1>1, <2>1, <2>2, <2>4 DEF IsInteger, m, FirstOf
  <2> QED
    BY <1>7, <2>3, <2>5
<1> QED
  BY <1>4, <1>5, <1>6, <1>7 DEF Ints

-----------------------------------------------------------------------------
(* The step functions.                                                     *)

\* After a step that did not fail the scanner has read the bytes of s before
\* the next one that it looks at.
Lands(p, s) ==
    step' # "error" => \E z : Places(step', parseState', stringLen', stepSize', p + stepSize', s, z)

\* Continue establishes what it is called with.
LEMMA ContinueLands ==
    ASSUME NEW f, NEW ps, NEW size, NEW len, Continue(f, ps, size, len),
           NEW p, NEW s, \E z : Places(f, ps, len, size, p + size, s, z)
    PROVE  Lands(p, s)
<1>1. step' = f /\ parseState' = ps /\ stepSize' = size /\ stringLen' = len
  BY DEF Continue
<1> QED
  BY <1>1 DEF Lands

\* A value or a key ended.
LEMMA EndedLands ==
    ASSUME NEW s, NEW ps, NEW size, NEW p, Continue("endValue", ps, size, 0),
           p + size \in Pos(s), \E z : Settled(s, ps, size, p + size, z)
    PROVE  Lands(p, s)
<1>1. PICK z : Settled(s, ps, size, p + size, z)
  OBVIOUS
<1>2. Places("endValue", ps, 0, size, p + size, s, z)
  BY <1>1 DEF Places, Ints
<1> QED
  BY <1>2, ContinueLands

\* popParseState.
LEMMA ContainerLands ==
    ASSUME NEW s, IsInput(s), NEW ps, NEW w \in Stack, w # <<>>, Pop(w) = Pop(ps),
           NEW c, OpenIn(s, w, c), NEW p \in 1 .. Len(s), s[p] = "e",
           Start(w, c) <= p, Zeros(s, Start(w, c), p - 1),
           Top(w) = "key" => Start(w, c) \in {p, c[Len(w)] + 1},
           stringLen = 0, EndContainer(ps)
    PROVE  Lands(p, s)
<1>1. \E z : Settled(s, Pop(ps), 1, p + 1, z)
  BY ContainerEnds
<1>2. p + 1 \in Pos(s)
  BY DEF Pos, IsInput
<1>3. Continue("endValue", Pop(ps), 1, 0)
  BY DEF EndContainer
<1> QED
  BY <1>1, <1>2, <1>3, EndedLands

\* A length has its first digit.
LEMMA DigitLands ==
    ASSUME NEW s, IsInput(s), NEW ps \in Stack, NEW c, OpenIn(s, ps, c), KeyStart(s, ps, c),
           NEW p \in 1 .. Len(s), Start(ps, c) = p, s[p] \in Digit,
           Continue("beginString", ps, 1, Value[s[p]])
    PROVE  Lands(p, s)
<1> DEFINE v == Value[s[p]]
<1>1. p \in Pos(s) /\ p + 1 \in Pos(s) /\ p \in Nat \ {0} /\ p <= p /\ p # p + 1 /\ p <= p + 1
  BY DEF Pos, IsInput
<1>2. Counted(s, p, 0 * 10 + v, p + 1)
  BY <1>1, CountedNone, CountedMore
<1>3. v \in Nat
  BY DigitValue
<1> HIDE DEF v
<1>4. 0 * 10 + v = v
  BY <1>3
<1>5. Counted(s, p, v, p + 1)
  BY <1>2, <1>4
<1>6. Places("beginString", ps, v, 1, p + 1, s, c)
  BY <1>1, <1>5 DEF Places, Ints
<1> QED
  BY <1>6, ContinueLands DEF v

\* stateBeginValue for any byte but 'e'.
LEMMA OpenLands ==
    ASSUME NEW s, IsInput(s), NEW ps \in Stack, NEW c, OpenIn(s, ps, c), InValue(ps),
           NEW p \in 1 .. Len(s), Start(ps, c) = p, stringLen = 0, BeginOpen(s[p], ps, 1)
    PROVE  Lands(p, s)
<1>1. p \in Nat \ {0} /\ p + 1 \in Pos(s) /\ (p + 1) - 1 = p /\ p <= p + 1 /\ p \in 1 .. (p + 1) - 1
  BY DEF Pos, IsInput
<1>2. CASE s[p] = "d" /\ Continue("beginString", Append(ps, "key"), 1, stringLen)
  <2> DEFINE w == Append(ps, "key")
             z == [c EXCEPT ![Len(ps) + 2] = p + 1]
  <2>1. OpenIn(s, w, z) /\ Start(w, z) = p + 1 /\ z[Len(w)] = p /\ w # <<>> /\ Top(w) = "key"
    BY <1>2, Opens
  <2> HIDE DEF w, z
  <2>2. KeyStart(s, w, z) /\ Digitless(w)
    BY <2>1 DEF KeyStart, Digitless
  <2>3. Counted(s, p + 1, 0, p + 1) /\ p + 1 <= p + 1
    BY <1>1, CountedNone
  <2>4. Places("beginString", w, 0, 1, p + 1, s, z)
    BY <1>1, <2>1, <2>2, <2>3 DEF Places, Ints
  <2>5. Continue("beginString", w, 1, 0)
    BY <1>2 DEF w
  <2> QED
    BY <2>4, <2>5, ContinueLands
<1>3. CASE s[p] = "l" /\ Continue("beginValue", Append(ps, "list"), 1, stringLen)
  <2> DEFINE w == Append(ps, "list")
             z == [c EXCEPT ![Len(ps) + 2] = p + 1]
  <2>1. OpenIn(s, w, z) /\ Start(w, z) = p + 1 /\ w # <<>> /\ Top(w) = "list"
    BY <1>3, Opens
  <2> HIDE DEF w, z
  <2>2. InValue(w) /\ p + 1 <= p + 1
    BY <1>1, <2>1 DEF InValue
  <2>3. Places("beginValue", w, 0, 1, p + 1, s, z)
    BY <1>1, <2>1, <2>2 DEF Places, Ints
  <2>4. Continue("beginValue", w, 1, 0)
    BY <1>3 DEF w
  <2> QED
    BY <2>3, <2>4, ContinueLands
<1>4. CASE s[p] = "i" /\ Continue("beginInt", ps, 1, stringLen)
  <2>1. IntRead("beginInt", s, p, p + 1)
    BY <1>1, <1>4 DEF IntRead
  <2>2. Places("beginInt", ps, 0, 1, p + 1, s, c)
    BY <1>1, <2>1 DEF Places, Ints
  <2> QED
    BY <1>4, <2>2, ContinueLands
<1>5. CASE s[p] \in Digit /\ Continue("beginString", ps, 1, Value[s[p]])
  <2>1. KeyStart(s, ps, c)
    BY DEF KeyStart, InValue
  <2> QED
    BY <1>5, <2>1, DigitLands
<1>6. CASE Error(ps, 1)
  BY <1>6 DEF Error, Lands
<1> QED
  BY <1>2, <1>3, <1>4, <1>5, <1>6 DEF BeginOpen

\* stateEndTop.
LEMMA EndTopLands ==
    ASSUME NEW s, IsInput(s), NEW p \in 1 .. Len(s), parseState = <<>>, stepSize \in Nat,
           stringLen = 0, NEW c, Settled(s, <<>>, stepSize, p, c),
           EndTop(s[p], stepSize), p + stepSize' <= Len(s) + 1
    PROVE  Lands(p, s)
<1>1. CASE s[p] = Blank
  <2> DEFINE n == stepSize
             q == p + n
  <2>1. Continue("endTop", <<>>, n, 0)
    BY <1>1 DEF EndTop
  <2>2. q \in Pos(s) /\ q \in Nat /\ q <= Len(s) + 1 /\ Len(s) \in Nat /\ p \in Nat /\ q - p = n
    <3>1. stepSize' = stepSize
      BY <2>1 DEF Continue
    <3> QED
      BY <3>1 DEF Pos, IsInput
  <2>3. Stride(s, n) /\ (n # 0 => <<"whole", 1, p>> \in Derived(s)) /\ (n = 0 => p <= Len(s))
    BY DEF Settled
  <2>4. ASSUME n # 0 PROVE <<"whole", 1, q>> \in Derived(s)
    <3> HIDE DEF q
    <3>1. p \in 2 .. Len(s) + 1
      BY <2>2, <2>3, <2>4, DerivedPart
    <3>2. p \in 2 .. q - 1 /\ 1 < q
      BY <2>2, <2>4, <3>1 DEF q
    <3>3. Derives(s, Derived(s), "whole", 1, q)
      BY <1>1, <2>2, <2>3, <2>4, <3>2 DEF Derives
    <3> QED
      BY <2>2, <3>2, <3>3, Makes
  <2>5. n = 0 => q <= Len(s)
    BY <2>2, <2>3
  <2> HIDE DEF q
  <2>6. Settled(s, <<>>, n, q, c)
    BY <2>3, <2>4, <2>5 DEF Settled
  <2>7. Places("endTop", <<>>, 0, n, q, s, c)
    BY <2>2, <2>6 DEF Places, Ints
  <2> QED
    BY <2>1, <2>7, ContinueLands DEF q
<1>2. CASE s[p] # Blank
  BY <1>2 DEF EndTop, Error, Lands
<1> QED
  BY <1>1, <1>2

\* stateEndValue, called with an 'e' where an item should start.
LEMMA CloseLands ==
    ASSUME NEW s, IsInput(s), parseState \in Stack, NEW c, OpenIn(s, parseState, c),
           NEW p \in 1 .. Len(s), s[p] = "e", Start(parseState, c) <= p,
           Zeros(s, Start(parseState, c), p - 1), KeyStart(s, parseState, c),
           stringLen = 0, EndValue(s[p])
    PROVE  Lands(p, s)
<1> DEFINE ps == parseState
           b == Start(ps, c)
<1>1. CASE ps = <<>>
  <2>1. "e" # Blank
    BY Zenon DEF Blank
  <2>2. Error(ps, stepSize)
    BY <1>1, <2>1 DEF EndValue, EndTop
  <2> QED
    BY <2>2 DEF Error, Lands
<1>2. CASE ps # <<>>
  <2>1. PICK w : EndContainer(w) /\ Pop(w) = Pop(ps)
    <3>1. Pop(Mark(ps, "value")) = Pop(ps) /\ Top(ps) \in {"key", "value", "list"}
      BY <1>2, StackParts
    <3>2. EndContainer(ps) \/ EndContainer(Mark(ps, "value"))
      BY <1>2, <3>1, NotDigits DEF EndValue
    <3> QED
      BY <3>1, <3>2
  <2>2. ASSUME Top(ps) = "key" PROVE b \in {p, c[Len(ps)] + 1}
    <3>1. b \in Nat \ {0} /\ b <= p /\ Len(s) \in Nat
      BY StartIs DEF IsInput
    <3>2. CASE s[b] \in Digit /\ Value[s[b]] > 0
      <4> HIDE DEF b
      <4>1. ASSUME b # p PROVE FALSE
        <5>1. b \in b .. p - 1
          BY <3>1, <4>1
        <5>2. Value[s[b]] = 0
          BY <5>1 DEF Zeros, b
        <5> QED
          BY <3>2, <5>2
      <4> QED
        BY <4>1
    <3> QED
      BY <1>2, <2>2, <3>2 DEF KeyStart
  <2> QED
    BY <1>2, <2>1, <2>2, ContainerLands
<1> QED
  BY <1>1, <1>2

\* stateEndValue after a value or a key.
LEMMA EndValueLands ==
    ASSUME NEW s, IsInput(s), parseState \in Stack, stepSize \in Nat, stringLen = 0,
           NEW p \in 1 .. Len(s), NEW c, Settled(s, parseState, stepSize, p, c),
           EndValue(s[p]), p + stepSize' <= Len(s) + 1
    PROVE  Lands(p, s)
<1> DEFINE ps == parseState
           w == Mark(ps, Turn(Top(ps)))
<1>1. CASE ps = <<>>
  <2>1. EndTop(s[p], stepSize)
    BY <1>1 DEF EndValue
  <2> QED
    BY <1>1, <2>1, EndTopLands
<1>2. CASE ps # <<>>
  <2>1. Top(ps) \in {"key", "value", "list"} /\ Pop(Mark(ps, "value")) = Pop(ps)
    BY <1>2, StackParts
  <2>2. Turn(Top(ps)) \in {"key", "value", "list"}
    BY DEF Turn
  <2>3. /\ w \in Stack /\ w # <<>> /\ Top(w) = Turn(Top(ps)) /\ Pop(w) = Pop(ps) /\ Len(w) = Len(ps)
        /\ Top(ps) = "list" => w = ps
    <3>1. Top(ps) = "list" => Turn(Top(ps)) = Top(ps)
      BY DEF Turn
    <3> QED
      BY <1>2, <2>2, <3>1, MarkParts
  <2>4. OpenIn(s, w, c) /\ Start(w, c) = p
    BY <1>2, <2>3 DEF Settled, Start
  <2>5. Start(w, c) <= p /\ Zeros(s, Start(w, c), p - 1)
    <3>1. \A k \in p .. p - 1 : FALSE
      BY DEF IsInput
    <3>2. p <= p
      BY DEF IsInput
    <3> QED
      BY <2>4, <3>1, <3>2 DEF Zeros
  <2>6. CASE s[p] = "e"
    <3>1. PICK v : EndContainer(v) /\ Pop(v) = Pop(ps)
      <4>1. EndContainer(ps) \/ EndContainer(Mark(ps, "value"))
        BY <1>2, <2>1, <2>6, NotDigits DEF EndValue
      <4> QED
        BY <2>1, <4>1
    <3>2. Pop(w) = Pop(v)
      BY <2>3, <3>1
    <3> HIDE DEF w
    <3> QED
      BY <2>3, <2>4, <2>5, <2>6, <3>1, <3>2, ContainerLands
  <2>7. CASE s[p] # "e" /\ Top(ps) \in {"key", "list"}
    <3>1. BeginOpen(s[p], w, 1)
      BY <1>2, <2>3, <2>7 DEF EndValue, Turn
    <3>2. InValue(w)
      BY <2>3, <2>7 DEF InValue, Turn
    <3> HIDE DEF w
    <3> QED
      BY <2>3, <2>4, <3>1, <3>2, OpenLands
  <2>8. CASE s[p] # "e" /\ Top(ps) = "value"
    <3>1. CASE s[p] \in Digit /\ Value[s[p]] > 0
      <4>1. w = Mark(ps, "key")
        BY <2>8 DEF Turn
      <4>2. Continue("beginString", w, 1, Value[s[p]])
        BY <1>2, <2>8, <3>1, <4>1 DEF EndValue
      <4>3. KeyStart(s, w, c)
        BY <2>4, <3>1 DEF KeyStart
      <4> HIDE DEF w
      <4> QED
        BY <2>3, <2>4, <3>1, <4>2, <4>3, DigitLands
    <3>2. CASE ~(s[p] \in Digit /\ Value[s[p]] > 0)
      <4>1. Error(ps, 1)
        BY <1>2, <2>8, <3>2 DEF EndValue
      <4> QED
        BY <4>1 DEF Error, Lands
    <3> QED
      BY <3>1, <3>2
  <2> QED
    BY <2>1, <2>6, <2>7, <2>8
<1> QED
  BY <1>1, <1>2

\* s.step(s, c), for every state that has not failed.
LEMMA StepLands ==
    ASSUME NEW s, IsInput(s), Good, NEW p \in 1 .. Len(s), NEW c,
           Places(step, parseState, stringLen, stepSize, p, s, c),
           Step(s[p]), p + stepSize' <= Len(s) + 1
    PROVE  Lands(p, s)
<1> DEFINE ps == parseState
           b == Start(ps, c)
<1>0. /\ p \in Nat /\ Len(s) \in Nat /\ ps \in Stack /\ stringLen \in Nat /\ stepSize \in Nat
      /\ p + 1 \in Pos(s) /\ (p + 1) - 1 = p
  BY DEF Pos, IsInput, Good
<1>1. step \in Steps \ {"error"}
  BY DEF Good, Places
<1>2. CASE step = "beginValue"
  <2>1. /\ BeginValue(s[p]) /\ stringLen = 0 /\ stepSize = 1 /\ OpenIn(s, ps, c) /\ b = p
        /\ InValue(ps)
    BY <1>2 DEF Step, Places
  <2>2. CASE s[p] = "e"
    <3>1. Zeros(s, b, p - 1) /\ b <= p
      BY <1>0, <2>1 DEF Zeros
    <3>2. KeyStart(s, ps, c)
      BY <2>1 DEF KeyStart, InValue
    <3>3. EndValue(s[p])
      BY <2>1, <2>2 DEF BeginValue
    <3> QED
      BY <1>0, <2>1, <2>2, <3>1, <3>2, <3>3, CloseLands
  <2>3. CASE s[p] # "e"
    <3>1. BeginOpen(s[p], ps, 1)
      BY <2>1, <2>3 DEF BeginValue
    <3> QED
      BY <1>0, <2>1, <3>1, OpenLands
  <2> QED
    BY <2>2, <2>3
<1>3. CASE step = "endValue"
  <2>1. EndValue(s[p]) /\ stringLen = 0 /\ Settled(s, ps, stepSize, p, c)
    BY <1>3 DEF Step, Places
  <2> QED
    BY <1>0, <2>1, EndValueLands
<1>4. CASE step = "beginString"
  <2>1. BeginString(s[p]) /\ stepSize = 1 /\ OpenIn(s, ps, c) /\ b <= p
        /\ Counted(s, b, stringLen, p) /\ KeyStart(s, ps, c) /\ (b = p => Digitless(ps))
    BY <1>4 DEF Step, Places
  <2>2. b \in Nat \ {0}
    BY <1>0, <2>1, StartIs
  <2>3. CASE s[p] \in Digit
    <3> DEFINE l == stringLen * 10 + Value[s[p]]
    <3>1. Continue("beginString", ps, 1, l)
      BY <2>1, <2>3, NotDigits DEF BeginString
    <3>2. Counted(s, b, l, p + 1)
      BY <2>1, <2>2, <2>3, CountedMore
    <3> HIDE DEF l
    <3>3. b <= p + 1 /\ b # p + 1
      BY <1>0, <2>1, <2>2
    <3>4. Places("beginString", ps, l, 1, p + 1, s, c)
      BY <1>0, <2>1, <3>2, <3>3 DEF Places, Ints
    <3> QED
      BY <3>1, <3>4, ContinueLands
  <2>4. CASE s[p] = ":"
    <3>1. Continue("inString", ps, 1, stringLen)
      BY <2>1, <2>4, NotDigits DEF BeginString
    <3>2. LooseLength(s, b, p, stringLen)
      <4> HIDE DEF b
      <4>1. p \in b .. Len(s) /\ p <= Len(s)
        BY <1>0, <2>1, <2>2
      <4> QED
        BY <2>1, <2>4, <4>1 DEF LooseLength, Counted
    <3>3. b < p + 1 /\ b <= p + 1
      BY <1>0, <2>1, <2>2
    <3>4. Places("inString", ps, stringLen, 1, p + 1, s, c)
      BY <1>0, <2>1, <3>2, <3>3 DEF Places, Ints
    <3> QED
      BY <3>1, <3>4, ContinueLands
  <2>5. CASE s[p] = "e" /\ stringLen = 0
    <3>1. EndValue(s[p])
      BY <2>1, <2>5, NotDigits DEF BeginString
    <3>2. Zeros(s, b, p - 1)
      BY <2>1, <2>5 DEF Counted
    <3> QED
      BY <1>0, <2>1, <2>5, <3>1, <3>2, CloseLands
  <2>6. CASE s[p] \notin Digit \cup {":"} /\ ~(s[p] = "e" /\ stringLen = 0)
    <3>1. Error(ps, stepSize)
      BY <2>1, <2>6 DEF BeginString
    <3> QED
      BY <3>1 DEF Error, Lands
  <2> QED
    BY <2>3, <2>4, <2>5, <2>6
<1>5. CASE step = "inString"
  <2>1. Continue("endValue", ps, stringLen, 0)
    BY <1>5 DEF Step, InString
  <2>2. /\ OpenIn(s, ps, c) /\ b < p /\ LooseLength(s, b, p - 1, stringLen) /\ KeyStart(s, ps, c)
        /\ b = p - 1 => Digitless(ps)
    BY <1>5 DEF Places
  <2>3. p + stringLen <= Len(s) + 1 /\ p + stringLen \in Pos(s)
    <3>1. stepSize' = stringLen
      BY <2>1 DEF Continue
    <3> QED
      BY <1>0, <3>1 DEF Pos
  <2>4. \E z : Settled(s, ps, stringLen, p + stringLen, z)
    BY <1>0, <2>2, <2>3, StringEnds
  <2> QED
    BY <2>1, <2>3, <2>4, EndedLands
<1>6. CASE step \in Ints
  <2>1. /\ InInt(s[p]) /\ stringLen = 0 /\ stepSize = 1 /\ OpenIn(s, ps, c) /\ InValue(ps)
        /\ IntRead(step, s, b, p)
    BY <1>6 DEF Step, Places, Ints
  <2>2. b \in Nat \ {0}
    BY <1>0, <2>1, StartIs
  <2>3. b < p /\ b <= p + 1
    <3>1. b < p
      BY <1>0, <2>1, <2>2 DEF IntRead
    <3> QED
      BY <1>0, <2>2, <3>1
  <2> DEFINE f == AfterInt(s[p])
  <2>4. \/ f \in {"neg", "zero", "num"} /\ IntRead(f, s, b, p + 1)
        \/ f = "endValue" /\ IsInteger(s, b, p)
        \/ f = "error"
    <3>1. /\ step = "beginInt" /\ s[p] = "-" => IntRead("neg", s, b, p + 1)
          /\ step = "beginInt" /\ s[p] \in Digit /\ Value[s[p]] = 0 => IntRead("zero", s, b, p + 1)
          /\ step \in {"beginInt", "neg"} /\ s[p] \in Digit /\ Value[s[p]] > 0 =>
                IntRead("num", s, b, p + 1)
          /\ step = "num" /\ s[p] \in Digit => IntRead("num", s, b, p + 1)
          /\ step \in {"zero", "num"} /\ s[p] = "e" => IsInteger(s, b, p)
      BY <1>6, <2>1, <2>2, IntReads
    <3>2. f = "neg" => step = "beginInt" /\ s[p] = "-"
      BY Zenon DEF AfterInt
    <3>3. f = "zero" => step = "beginInt" /\ s[p] \in Digit /\ Value[s[p]] = 0
      BY Zenon DEF AfterInt
    <3>4. f = "num" => /\ s[p] \in Digit
                       /\ step = "num" \/ (step \in {"beginInt", "neg"} /\ Value[s[p]] > 0)
      BY Zenon DEF AfterInt
    <3>5. f = "endValue" => step \in {"zero", "num"} /\ s[p] = "e"
      BY Zenon DEF AfterInt
    <3>6. f \in {"neg", "zero", "num", "endValue", "error"}
      BY Zenon DEF AfterInt
    <3> HIDE DEF f
    <3> QED
      BY <3>1, <3>2, <3>3, <3>4, <3>5, <3>6
  <2>5. f # "error" => Continue(f, ps, 1, 0)
    BY <2>1 DEF InInt
  <2>6. f = "error" => Error(ps, stepSize)
    BY <2>1 DEF InInt
  <2> HIDE DEF f
  <2>7. CASE f \in {"neg", "zero", "num"} /\ IntRead(f, s, b, p + 1)
    <3>1. Places(f, ps, 0, 1, p + 1, s, c)
      BY <1>0, <2>1, <2>3, <2>7 DEF Places, Ints
    <3>2. Continue(f, ps, 1, 0)
      BY <2>5, <2>7
    <3> QED
      BY <3>1, <3>2, ContinueLands
  <2>8. CASE f = "endValue" /\ IsInteger(s, b, p)
    <3>1. \E z : Settled(s, ps, 1, p + 1, z)
      BY <1>0, <2>1, <2>3, <2>8, IntEnds
    <3>2. Continue("endValue", ps, 1, 0)
      BY <2>5, <2>8
    <3> QED
      BY <1>0, <3>1, <3>2, EndedLands
  <2>9. CASE f = "error"
    BY <2>6, <2>9 DEF Error, Lands
  <2> QED
    BY <2>4, <2>7, <2>8, <2>9
<1>7. CASE step = "endTop"
  <2>1. EndTop(s[p], stepSize) /\ stringLen = 0 /\ ps = <<>> /\ Settled(s, ps, stepSize, p, c)
    BY <1>7 DEF Step, Places
  <2> QED
    BY <1>0, <2>1, EndTopLands
<1> QED
  BY <1>1, <1>2, <1>3, <1>4, <1>5, <1>6, <1>7 DEF Steps, Ints

\* A step function that enters the error state sets err.
LEMMA StepError ==
    ASSUME step = "error" => err, NEW c, Step(c)
    PROVE  step' = "error" => err'
<1>1. ASSUME NEW f, NEW ps, NEW size, NEW len, Continue(f, ps, size, len), f # "error"
      PROVE  step' # "error"
  BY <1>1 DEF Continue
<1>2. ASSUME NEW ps, NEW size, Error(ps, size) PROVE err'
  BY <1>2 DEF Error
<1>3. ASSUME NEW ps, NEW size, BeginOpen(c, ps, size) PROVE step' = "error" => err'
  BY <1>1, <1>2, <1>3 DEF BeginOpen
<1>4. ASSUME NEW size, EndTop(c, size) PROVE step' = "error" => err'
  BY <1>1, <1>2, <1>4 DEF EndTop
<1>5. ASSUME NEW ps, EndContainer(ps) PROVE step' # "error"
  BY <1>1, <1>5 DEF EndContainer
<1>6. ASSUME EndValue(c) PROVE step' = "error" => err'
  BY <1>1, <1>2, <1>3, <1>4, <1>5, <1>6 DEF EndValue
<1>7. ASSUME BeginString(c) PROVE step' = "error" => err'
  BY <1>1, <1>2, <1>6, <1>7 DEF BeginString
<1>8. ASSUME InInt(c) PROVE step' = "error" => err'
  BY <1>1, <1>2, <1>8 DEF InInt
<1>9. ASSUME BeginValue(c) PROVE step' = "error" => err'
  BY <1>3, <1>6, <1>9 DEF BeginValue
<1>10. ASSUME InString(c) PROVE step' # "error"
  BY <1>1, <1>10 DEF InString
<1>11. ASSUME step = "error", UNCHANGED scanner PROVE err'
  BY <1>11 DEF scanner
<1> QED
  BY <1>4, <1>6, <1>7, <1>8, <1>9, <1>10, <1>11 DEF Step

\* While it runs, the scanner has read the bytes before i of all that the input
\* may still become, by the grammar of the step functions.
Sound ==
    /\ data \in Input
    /\ step = "error" => err
    /\ verdict = "none" /\ step # "error" =>
           \A s \in Input : Begins(data, s) /\ i <= Len(s) =>
               \E c : Places(step, parseState, stringLen, stepSize, i + 1, s, c)
    /\ AcceptsOnly

\* checkValid starts before the first byte.
LEMMA InitSound == Init => Sound
<1> SUFFICES ASSUME Init PROVE Sound
  OBVIOUS
<1>1. data \in Input /\ AcceptsOnly /\ i + 1 = 1 /\ (step = "error" => err)
  BY DEF Init, Input, AcceptsOnly
<1>2. ASSUME NEW s \in Input PROVE \E c : Places("beginValue", <<>>, 0, 1, 1, s, c)
  <2> DEFINE c == [k \in Nat |-> 1]
  <2>1. IsInput(s)
    BY InputParsed
  <2>2. 1 \in Pos(s) /\ 1 <= 1
    BY <2>1 DEF IsInput, Pos
  <2>3. OpenIn(s, <<>>, c) /\ Start(<<>>, c) = 1
    <3>1. c \in [Nat -> Nat] /\ c[1] = 1
      OBVIOUS
    <3> HIDE DEF c
    <3>2. Len(<<>>) = 0 /\ Len(<<>>) + 1 = 1 /\ 1 .. Len(<<>>) = {} /\ 1 .. Len(<<>>) - 1 = {}
      OBVIOUS
    <3> QED
      BY <3>1, <3>2 DEF OpenIn, Start
  <2> HIDE DEF c
  <2>4. Places("beginValue", <<>>, 0, 1, 1, s, c)
    BY <2>2, <2>3 DEF Places, Ints, InValue
  <2> QED
    BY <2>4
<1> QED
  BY <1>1, <1>2 DEF Init, Sound

\* A byte leaves the scanner where the grammar says.
LEMMA ScanSound ==
    ASSUME Inv, Sound, NEW c \in Byte, Scan(c)
    PROVE  Sound'
<1>0. Good /\ i \in Nat /\ verdict = "none" /\ data \in Input /\ Len(data) \in Nat
  BY DEF Inv, Good, TypeOK, Stack, Scan, Sound, Input
<1>1. /\ data' \in Input /\ Len(data) <= Len(data') /\ \A k \in 1 .. Len(data) : data'[k] = data[k]
      /\ i + 1 <= Len(data') /\ data'[i + 1] = c
  BY <1>0, ReadsKeep DEF Scan, Input
<1>2. step' = "error" => err'
  BY StepError DEF Scan, Sound
<1>3. verdict' # "valid"
  BY <1>0 DEF Scan
<1>4. ASSUME verdict' = "none", step' # "error", NEW s \in Input, Begins(data', s), i' <= Len(s)
      PROVE  \E z : Places(step', parseState', stringLen', stepSize', i' + 1, s, z)
  <2>1. step # "error" /\ i' = i + stepSize'
    BY <1>0, <1>4 DEF Scan, Refused
  <2>2. stepSize' \in Nat
    BY <1>0, StepGood DEF Scan, Good
  <2>3. IsInput(s) /\ Len(s) \in Nat /\ Len(data') \in Nat
    BY <1>1, InputParsed DEF IsInput, Input
  <2>4. Begins(data, s) /\ i + 1 \in 1 .. Len(s) /\ s[i + 1] = c /\ i <= Len(s)
    BY <1>0, <1>1, <1>4, <2>3 DEF Begins
  <2>5. PICK z : Places(step, parseState, stringLen, stepSize, i + 1, s, z)
    BY <1>0, <2>1, <2>4 DEF Sound
  <2>6. Step(s[i + 1])
    BY <2>4 DEF Scan
  <2>7. i' + 1 = (i + 1) + stepSize' /\ (i + 1) + stepSize' <= Len(s) + 1
    BY <1>0, <1>4, <2>1, <2>2, <2>3
  <2>8. Lands(i + 1, s)
    BY <1>0, <2>3, <2>4, <2>5, <2>6, <2>7, StepLands
  <2> QED
    BY <1>4, <2>7, <2>8 DEF Lands
<1> QED
  BY <1>1, <1>2, <1>3, <1>4 DEF Sound, AcceptsOnly

\* Where eof accepts, the whole input has been read.
LEMMA EofSound ==
    ASSUME Inv, Sound, Eof
    PROVE  Sound'
<1>0. Good /\ i \in Nat /\ data \in Input /\ Len(data) \in Nat
  BY DEF Inv, Good, TypeOK, Stack, Sound, Input
<1>1. /\ verdict = "none" /\ verdict' # "none" /\ Len(data) <= i /\ data' = Padded(i)
      /\ step' = step /\ err' = err
  BY DEF Eof, scanner
<1>2. data' \in Input /\ Len(data') = i /\ Begins(data, data')
  <2>1. data' \in Input /\ Len(data') = i /\ \A k \in 1 .. Len(data) : data'[k] = data[k]
    BY <1>0, <1>1, PaddedIs DEF Input
  <2> QED
    BY <1>1, <2>1 DEF Begins
<1>3. ASSUME verdict' = "valid" PROVE <<"whole", 1, Len(data') + 1>> \in Derived(data')
  <2>1. ~err /\ (endTop \/ (step = "endValue" /\ parseState = <<>>))
    BY <1>3 DEF Eof
  <2>2. step # "error"
    BY <2>1 DEF Sound
  <2>3. step \in {"endValue", "endTop"} /\ parseState = <<>>
    BY <1>0, <2>1, <2>2 DEF Good, EndTopIsClosed
  <2>4. PICK c : Places(step, parseState, stringLen, stepSize, i + 1, data', c)
    <3>1. i <= Len(data')
      BY <1>0, <1>2
    <3> QED
      BY <1>1, <1>2, <2>2, <3>1 DEF Sound
  <2>5. Settled(data', <<>>, stepSize, i + 1, c)
    BY <2>3, <2>4 DEF Places
  <2>6. ~(i + 1 <= Len(data'))
    BY <1>0, <1>2
  <2> QED
    BY <1>2, <2>5, <2>6 DEF Settled
<1>4. step' = "error" => err'
  BY <1>1 DEF Sound
<1> QED
  BY <1>1, <1>2, <1>3, <1>4 DEF Sound, AcceptsOnly

\* Every step keeps the scanner where the grammar says.
LEMMA NextSound == Inv /\ Sound /\ [Next]_vars => Sound'
<1> SUFFICES ASSUME Inv, Sound, [Next]_vars PROVE Sound'
  OBVIOUS
<1>0. i \in Nat /\ data \in Input /\ Len(data) \in Nat
  BY DEF Inv, TypeOK, Sound, Input
<1>1. CASE OutOfIndex
  <2>1. PICK n \in Len(data) .. MaxLen : data' = Padded(n)
    BY <1>1 DEF OutOfIndex
  <2>2. n \in Nat /\ Len(data) <= n
    BY <1>0, <2>1, ScannerAssumption
  <2>3. data' \in Input
    BY <1>0, <2>1, <2>2, PaddedIs DEF Input
  <2>4. verdict' = "incomplete" /\ step' = step /\ err' = err
    BY <1>1 DEF OutOfIndex, scanner
  <2> QED
    BY <2>3, <2>4 DEF Sound, AcceptsOnly
<1>2. CASE UNCHANGED vars
  BY <1>2 DEF vars, scanner, Sound, AcceptsOnly
<1> QED
  BY <1>1, <1>2, ScanSound, EofSound DEF Next

\* Valid accepts, of any length and depth, only values of the step functions'
\* own grammar with blanks after them: a container that eof accepts was closed,
\* a string ends where its length says, and what is accepted beyond BEP 3 is
\* listed by the grammar.
THEOREM AcceptsNothingElse == Spec => []AcceptsOnly
<1>1. Spec => []Inv
  BY Invariance
<1>2. Inv /\ Sound /\ Inv' /\ [Next]_vars => Sound'
  BY NextSound
<1>3. Sound => AcceptsOnly
  BY DEF Sound
<1> QED
  BY <1>1, <1>2, <1>3, InitSound, PTL DEF Spec
=============================================================================
