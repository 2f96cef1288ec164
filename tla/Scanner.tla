------------------------------ MODULE Scanner ------------------------------
(***************************************************************************)
(* The bencode scanner behind bencode.Valid (bencode/scanner.go): a byte   *)
(* automaton with a stack of open containers.  checkValid feeds it the     *)
(* bytes of the input; in a string it jumps over the body.                 *)
(*                                                                         *)
(* The input is chosen byte by byte as the scanner asks for it.  Bytes     *)
(* that the scanner never looks at are written as Skipped.  The scan codes *)
(* that the step functions return are left out, except scanError, which    *)
(* ends checkValid.                                                        *)
(***************************************************************************)
EXTENDS Integers, Sequences

CONSTANTS
    Byte,       \* the bytes that inputs are made of
    Value,      \* the value of each decimal digit in Byte
    Skipped,    \* stands for the bytes of a string body after the first
    Rest,       \* ways in which an input may go on for so many bytes
    MaxLen,     \* bound on the length of an input
    MaxNumber   \* bound on the length that a string claims: the code's int wraps
                \* around at 2^63, which is not modelled

Digit == DOMAIN Value

\* The bytes that isSpace accepts.
Blank == " "

ASSUME ScannerAssumption ==
    /\ Value \in [Digit -> 0 .. 9]
    /\ Digit \subseteq Byte
    /\ {"d", "l", "i", "e", "-", ":", Blank} \cap Digit = {}
    /\ MaxLen \in Nat /\ MaxNumber \in Nat
    /\ Rest \in [0 .. MaxLen -> SUBSET Seq(Byte \cup {Skipped})]

VARIABLES
    step,         \* s.step, the step function's name
    parseState,   \* s.parseState, a stack of "key", "value" and "list"
    stringLen, stepSize, endTop,
    err,          \* s.err # nil
    data, i,      \* checkValid's input, as far as it is known, and its index
    verdict       \* "none" until checkValid returns: "valid", or an error because
                  \* a byte was "refused" or the input was "incomplete"

scanner == <<step, parseState, stringLen, stepSize, endTop, err>>
vars    == <<scanner, data, i, verdict>>

-----------------------------------------------------------------------------
(* The step functions: what they do to the scanner when they read byte c.  *)
(* ps is the stack as it is when the function is called.                   *)

Top(ps)  == ps[Len(ps)]
Pop(ps)  == SubSeq(ps, 1, Len(ps) - 1)
Mark(ps, p) == [ps EXCEPT ![Len(ps)] = p]

\* s.error: checkValid gives up at once unless the caller hides scanError.
Error(ps, size) ==
    /\ step' = "error"
    /\ err' = TRUE
    /\ parseState' = ps
    /\ stepSize' = size
    /\ UNCHANGED stringLen

\* The scanner goes on in step function f.
Continue(f, ps, size, len) ==
    /\ step' = f
    /\ parseState' = ps
    /\ stepSize' = size
    /\ stringLen' = len
    /\ UNCHANGED err

\* stateBeginValue for any byte but 'e'.
BeginOpen(c, ps, size) ==
    /\ UNCHANGED endTop
    /\ \/ c = "d" /\ Continue("beginString", Append(ps, "key"), size, stringLen)
       \/ c = "l" /\ Continue("beginValue", Append(ps, "list"), size, stringLen)
       \/ c = "i" /\ Continue("beginInt", ps, size, stringLen)
       \/ c \in Digit /\ Continue("beginString", ps, size, Value[c])
       \/ c \notin {"d", "l", "i"} \cup Digit /\ Error(ps, size)

\* stateEndTop: an error here is only seen at the next byte or at the end.
EndTop(c, size) ==
    /\ endTop' = TRUE
    /\ IF c = Blank THEN Continue("endTop", parseState, size, stringLen)
                  ELSE Error(parseState, size)

\* Variant for mutation: forgets to pop.
EndContainerKeep(ps) ==
    /\ endTop' = (endTop \/ Len(ps) = 1)
    /\ Continue("endValue", ps, 1, stringLen)

\* popParseState, and the s.step that its callers set.
EndContainer(ps) ==
    /\ endTop' = (endTop \/ Len(ps) = 1)
    /\ Continue("endValue", Pop(ps), 1, stringLen)

\* stateEndValue.  With a key on top it marks the value and goes on as
\* stateBeginValue, which takes 'e' back to stateEndValue.
EndValue(c) ==
    \/ parseState = <<>> /\ EndTop(c, stepSize)
    \/ /\ parseState # <<>> /\ Top(parseState) = "key"
       /\ IF c = "e" THEN EndContainer(Mark(parseState, "value"))
                     ELSE BeginOpen(c, Mark(parseState, "value"), 1)
    \/ /\ parseState # <<>> /\ Top(parseState) = "value"
       /\ \/ /\ c \in Digit /\ Value[c] > 0
             /\ Continue("beginString", Mark(parseState, "key"), 1, Value[c])
             /\ UNCHANGED endTop
          \/ c = "e" /\ EndContainer(parseState)
          \/ /\ c # "e" /\ ~(c \in Digit /\ Value[c] > 0)
             /\ Error(parseState, 1)
             /\ UNCHANGED endTop
    \/ /\ parseState # <<>> /\ Top(parseState) = "list"
       /\ IF c = "e" THEN EndContainer(parseState)
                     ELSE BeginOpen(c, parseState, 1)

BeginValue(c) == IF c = "e" THEN EndValue(c) ELSE BeginOpen(c, parseState, stepSize)

\* Leading zeros are not refused, and 'e' is taken for the end of a container
\* that has no more strings.
BeginString(c) ==
    \/ /\ c \in Digit /\ stringLen * 10 + Value[c] <= MaxNumber
       /\ Continue("beginString", parseState, stepSize, stringLen * 10 + Value[c])
       /\ UNCHANGED endTop
    \/ /\ c = ":"
       /\ Continue("inString", parseState, stepSize, stringLen)
       /\ UNCHANGED endTop
    \/ c = "e" /\ stringLen = 0 /\ EndValue(c)
    \/ /\ c \notin Digit \cup {":"} /\ ~(c = "e" /\ stringLen = 0)
       /\ Error(parseState, stepSize)
       /\ UNCHANGED endTop

\* The next byte is the one after the body: c itself if the body is empty.
InString(c) ==
    /\ Continue("endValue", parseState, stringLen, 0)
    /\ UNCHANGED endTop

\* Where stateBeginInt, stateNeg, state0 and stateNum go on byte c.  First two
\* variants for mutation: one lets digits follow a leading zero, the other takes
\* no zero after the first digit.
AfterIntZeros(c) ==
    CASE step = "beginInt" /\ c = "-" -> "neg"
      [] step \in {"beginInt", "neg", "num"} /\ c \in Digit -> "num"
      [] step = "num" /\ c = "e" -> "endValue"
      [] OTHER -> "error"

AfterIntNoZero(c) ==
    CASE step = "beginInt" /\ c = "-" -> "neg"
      [] step = "beginInt" /\ c \in Digit /\ Value[c] = 0 -> "zero"
      [] step \in {"beginInt", "neg", "num"} /\ c \in Digit /\ Value[c] > 0 -> "num"
      [] step \in {"zero", "num"} /\ c = "e" -> "endValue"
      [] OTHER -> "error"

AfterInt(c) ==
    CASE step = "beginInt" /\ c = "-" -> "neg"
      [] step = "beginInt" /\ c \in Digit /\ Value[c] = 0 -> "zero"
      [] step \in {"beginInt", "neg"} /\ c \in Digit /\ Value[c] > 0 -> "num"
      [] step = "num" /\ c \in Digit -> "num"
      [] step \in {"zero", "num"} /\ c = "e" -> "endValue"
      [] OTHER -> "error"

InInt(c) ==
    /\ IF AfterInt(c) = "error" THEN Error(parseState, stepSize)
       ELSE Continue(AfterInt(c), parseState, stepSize, stringLen)
    /\ UNCHANGED endTop

\* s.step(s, c)
Step(c) ==
    \/ step = "beginValue" /\ BeginValue(c)
    \/ step = "endValue" /\ EndValue(c)
    \/ step = "beginString" /\ BeginString(c)
    \/ step = "inString" /\ InString(c)
    \/ step \in {"beginInt", "neg", "zero", "num"} /\ InInt(c)
    \/ step = "endTop" /\ EndTop(c, stepSize)
    \/ step = "error" /\ UNCHANGED scanner

\* s.step(s, c) returned scanError.
Refused(c) == step = "error" \/ (err' /\ ~endTop')

-----------------------------------------------------------------------------
(* checkValid.                                                             *)

\* The first n bytes of the input; those after data are never looked at.
Padded(n) == data \o [k \in 1 .. n - Len(data) |-> Skipped]

\* data[i] is c: it was looked at before, or the input goes on with it.
Reads(c) ==
    \/ i < Len(data) /\ c = data[i + 1] /\ UNCHANGED data
    \/ Len(data) <= i /\ i < MaxLen /\ data' = Append(Padded(i), c)

Scan(c) ==
    /\ verdict = "none"
    /\ Reads(c)
    /\ Step(c)
    /\ IF Refused(c) THEN verdict' = "refused" /\ UNCHANGED i
                     ELSE i' = i + stepSize' /\ UNCHANGED verdict

\* The input ends here.  eof reads one more blank, which ends a value that is
\* complete and not inside a container.
Eof ==
    /\ verdict = "none"
    /\ Len(data) <= i /\ i <= MaxLen
    /\ data' = Padded(i)
    /\ verdict' = IF ~err /\ (endTop \/ (step = "endValue" /\ parseState = <<>>))
                  THEN "valid" ELSE "incomplete"
    /\ UNCHANGED <<scanner, i>>

\* The input ends inside the body of a string.
OutOfIndex ==
    /\ verdict = "none"
    /\ \E n \in Len(data) .. MaxLen : n < i /\ data' = Padded(n)
    /\ verdict' = "incomplete"
    /\ UNCHANGED <<scanner, i>>

-----------------------------------------------------------------------------

\* reset
Init ==
    /\ step = "beginValue"
    /\ parseState = <<>>
    /\ stringLen = 0
    /\ stepSize = 1
    /\ endTop = FALSE
    /\ err = FALSE
    /\ data = <<>>
    /\ i = 0
    /\ verdict = "none"

Next == Eof \/ OutOfIndex \/ \E c \in Byte : Scan(c)

Spec == Init /\ [][Next]_vars

-----------------------------------------------------------------------------
(* Properties.                                                             *)

Steps == {"beginValue", "endValue", "beginString", "inString", "beginInt", "neg",
          "zero", "num", "endTop", "error"}

\* Every variable has its type.
TypeOK ==
    /\ step \in Steps
    /\ parseState \in Seq({"key", "value", "list"})
    /\ stringLen \in Nat
    /\ stepSize \in Nat
    /\ endTop \in BOOLEAN
    /\ err \in BOOLEAN
    /\ i \in Nat
    /\ verdict \in {"none", "valid", "refused", "incomplete"}

-----------------------------------------------------------------------------
(* The grammar of BEP 3, which the accepted inputs are compared with.      *)

AllDigits(s, m, n) == \A k \in m .. n : s[k] \in Digit

\* The bytes p to q of s are an integer.
IsInteger(s, p, q) ==
    LET first == IF s[p + 1] = "-" THEN p + 2 ELSE p + 1
    IN  /\ q \in DOMAIN s /\ p + 2 <= q /\ first < q
        /\ s[p] = "i" /\ s[q] = "e"
        /\ AllDigits(s, first, q - 1)
        /\ Value[s[first]] = 0 => q = p + 2

\* The bytes before q, from p on, are the length of a string, and q its colon.
IsLength(s, p, q) ==
    /\ q \in DOMAIN s /\ p < q /\ s[q] = ":"
    /\ AllDigits(s, p, q - 1)
    /\ Value[s[p]] = 0 => q = p + 1

\* The number that the digits from p on and before q stand for is Number(s, p)[q].
Number(s, p) ==
    LET n[q \in p .. Len(s) + 1] == IF q = p THEN 0 ELSE n[q - 1] * 10 + Value[s[q - 1]]
    IN  n

\* The position after the integer, or the string, at p; 0 if there is none.
EndInt(s, p) ==
    IF \E q \in p .. Len(s) : IsInteger(s, p, q)
    THEN 1 + CHOOSE q \in p .. Len(s) : IsInteger(s, p, q) ELSE 0

EndString(s, p) ==
    LET q   == CHOOSE q \in p .. Len(s) : IsLength(s, p, q)
        end == q + Number(s, p)[q] + 1
    IN  IF (\E m \in p .. Len(s) : IsLength(s, p, m)) /\ end <= Len(s) + 1 THEN end ELSE 0

\* The positions after what starts at a position: a value, the rest of a list,
\* and the rest of a dictionary without or with a pair before it.
Nothing == [value |-> 0, list |-> 0, dict |-> 0, more |-> 0]

\* e[q], for a position q after p.
After(s, e, p, q) == IF q \in p + 1 .. Len(s) + 1 THEN e[q] ELSE Nothing

Is(s, p, c) == p \in DOMAIN s /\ s[p] = c

ValueAt(s, e, p) ==
    CASE Is(s, p, "i") -> EndInt(s, p)
      [] Is(s, p, "l") -> After(s, e, p, p + 1).list
      [] Is(s, p, "d") -> After(s, e, p, p + 1).dict
      [] OTHER -> EndString(s, p)

ListAt(s, e, p) ==
    IF Is(s, p, "e") THEN p + 1 ELSE After(s, e, p, ValueAt(s, e, p)).list

DictAt(s, e, p) ==
    IF Is(s, p, "e") THEN p + 1
    ELSE After(s, e, p, After(s, e, p, EndString(s, p)).value).more

\* Of the order of keys only this much is checked: one after the first is not
\* empty.
MoreAt(s, e, p) ==
    IF p \in DOMAIN s /\ s[p] \in Digit /\ Value[s[p]] = 0 THEN 0 ELSE DictAt(s, e, p)

Parse(s) ==
    LET e[p \in 1 .. Len(s) + 1] ==
            [value |-> ValueAt(s, e, p), list |-> ListAt(s, e, p),
             dict |-> DictAt(s, e, p), more |-> MoreAt(s, e, p)]
    IN  e

IsBencode(s) == Parse(s)[1].value = Len(s) + 1

\* Valid accepts every encoding of BEP 3, except the empty string on its own: a
\* byte is refused only where no input that begins like this is an encoding,
\* however it goes on, and an input that ends where eof or the end of a body
\* finds it incomplete is none either.
AcceptsEncodings ==
    /\ verdict = "refused" =>
           \A rest \in Rest[MaxLen - Len(data)] : ~IsBencode(data \o rest)
    /\ verdict = "incomplete" /\ IsBencode(data) =>
           Len(data) = 2 /\ data[1] \in Digit /\ Value[data[1]] = 0 /\ data[2] = ":"

\* What Valid accepts and begins as an integer is one integer as BEP 3 writes
\* it, without leading zeros or a negative zero, and blanks after it.
IntegersExact ==
    verdict = "valid" /\ data[1] = "i" =>
        \E n \in DOMAIN data : /\ IsInteger(data, 1, n)
                               /\ \A k \in n + 1 .. Len(data) : data[k] = Blank

-----------------------------------------------------------------------------
(* What the step functions let pass: BEP 3, and lengths with leading zeros *)
(* or, for the first key of a dictionary, no digits; zeros before the end  *)
(* of a container; a last key without a value; and blanks at the end.      *)
(*                                                                         *)
(* A part <<x, p, q>> tells what the bytes of s from p on and before q are:*)
(*   value   a value                                                       *)
(*   list    an l and any number of values                                 *)
(*   pairs   a d and any number of pairs                                   *)
(*   key     a d, any number of pairs and a key                            *)
(*   whole   a value and blanks                                            *)

Part(s) ==
    {t \in {"value", "list", "pairs", "key", "whole"} \X (1 .. Len(s)) \X (2 .. Len(s) + 1) :
        t[2] < t[3]}

\* The digits from p on, which may be none, say n, and m is the colon after them.
LooseLength(s, p, m, n) ==
    m \in p .. Len(s) /\ s[m] = ":" /\ AllDigits(s, p, m - 1) /\ n = Number(s, p)[m]

LooseString(s, p, q) == \E m \in p .. Len(s) : LooseLength(s, p, m, q - m - 1)

Zeros(s, p, q) == \A k \in p .. q : s[k] \in Digit /\ Value[s[k]] = 0

\* How far apart the bytes are that are looked at after the outermost value:
\* stepSize stays at the length of a string.
Stride(s, n) ==
    IF s[1] \in Digit THEN \E m \in 1 .. Len(s) : LooseLength(s, 1, m, n) ELSE n = 1

\* Part <<x, p, q>> is made of parts in T.
Derives(s, T, x, p, q) ==
    \/ /\ x = "value"
       /\ \/ IsInteger(s, p, q - 1)
          \/ s[p] \in Digit /\ LooseString(s, p, q)
          \/ /\ Is(s, q - 1, "e")
             /\ \E m \in p + 1 .. q - 1, y \in {"list", "pairs", "key"} :
                    /\ <<y, p, m>> \in T /\ Zeros(s, m, q - 2)
                    /\ y = "pairs" => m \in {p + 1, q - 1}
    \/ /\ x = "list" /\ s[p] = "l"
       /\ q = p + 1 \/ \E m \in p + 1 .. q - 1 : {<<"list", p, m>>, <<"value", m, q>>} \subseteq T
    \/ /\ x = "pairs" /\ s[p] = "d"
       /\ q = p + 1 \/ \E m \in p + 1 .. q - 1 : {<<"key", p, m>>, <<"value", m, q>>} \subseteq T
    \/ /\ x = "key" /\ s[p] = "d"
       /\ \E m \in p + 1 .. q - 1 :
              /\ <<"pairs", p, m>> \in T /\ LooseString(s, m, q)
              /\ m # p + 1 => s[m] \in Digit /\ Value[s[m]] > 0
    \/ /\ x = "whole" /\ p = 1
       /\ \/ <<"value", 1, q>> \in T /\ ~Stride(s, 0)
          \/ \E m \in 2 .. q - 1 : <<"whole", 1, m>> \in T /\ s[m] = Blank /\ Stride(s, q - m)

\* The parts that s has; none is longer than s.
Derived(s) ==
    LET d[n \in 0 .. Len(s) + 1] ==
            LET before == IF n = 0 THEN {} ELSE d[n - 1]
            IN  {t \in Part(s) : n # 0 /\ Derives(s, before, t[1], t[2], t[3])}
    IN  d[Len(s) + 1]

\* Valid accepts nothing but values and blanks in this grammar, so that nothing
\* is left open and no length is wrong, and what it accepts beyond BEP 3 is
\* known.
AcceptsOnly == verdict = "valid" => <<"whole", 1, Len(data) + 1>> \in Derived(data)
=============================================================================
