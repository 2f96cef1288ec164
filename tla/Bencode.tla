------------------------------ MODULE Bencode ------------------------------
(***************************************************************************)
(* bencode.Marshal and bencode.Unmarshal (bencode/encode.go, decode.go):   *)
(* what the encoder writes for a Go value, and what the decoder makes of   *)
(* that text in a Go variable of the same or of another type.              *)
(*                                                                         *)
(* A text is a sequence of tokens: integers, strings, and the bytes 'd',   *)
(* 'l' and 'e'.  The bytes inside an integer or a string are the subject   *)
(* of module Scanner.  A string is a number: 0 is the empty string and the *)
(* order of the numbers is that of the strings.                            *)
(*                                                                         *)
(* A Go type is a record with its kind, a Go value is Nil or a record with *)
(* one field: n (number), s (string), l (list), d (dictionary: a map, or   *)
(* a struct by the names of its fields), r (raw text).  A []byte is the    *)
(* string it was read from or, when a list filled it, the list of its      *)
(* bytes.  A pointer that is not nil is the value that it points to.       *)
(***************************************************************************)
EXTENDS Integers, Sequences, SequencesExt

CONSTANTS
    Nil,                \* nil of any type
    MinWord, MaxWord,   \* the range of int and int64
    MaxByte,            \* the range of uint8 is 0 .. MaxByte
    BytesOf,            \* the bytes of a string, as a list of numbers
    Fold,               \* what EqualFold compares of a string
    Target              \* the types of the variables given to Unmarshal

VARIABLES
    src,      \* [type, val], the argument of Marshal
    dst,      \* the type of the variable that Unmarshal filled
    text,     \* what Marshal wrote
    result,   \* [v, err, panic], what Unmarshal did
    stage

vars == <<src, dst, text, result, stage>>

-----------------------------------------------------------------------------
(* Tokens and types.                                                       *)

IntTok(n) == [t |-> "int", v |-> n]
StrTok(s) == [t |-> "str", v |-> s]
Tok(c)    == [t |-> c]

\* What stands in the text where no value of a supported type was written: an
\* abort of the encoder, or the word null that a nil RawMessage writes.
Unsupported == Tok("unsupported")
Null        == Tok("null")

TInt     == [kind |-> "int", lo |-> MinWord, hi |-> MaxWord]
TByte    == [kind |-> "int", lo |-> 0, hi |-> MaxByte]
TString  == [kind |-> "string"]
TIface   == [kind |-> "iface"]
\* An element of the lists and maps that the decoder makes for an interface{}.
TAny     == [kind |-> "any"]
\* The target of a value that is only skipped: an invalid reflect.Value.
TInvalid == [kind |-> "invalid"]
TSlice(t) == [kind |-> "slice", elem |-> t]
TMap(t)   == [kind |-> "map", elem |-> t]

\* The zero value of a type.
RECURSIVE Zero(_)
Zero(t) ==
    CASE t.kind = "int"    -> [n |-> 0]
      [] t.kind = "string" -> [s |-> 0]
      [] t.kind = "bool"   -> [b |-> FALSE]
      [] t.kind = "array"  -> [l |-> [i \in 1 .. t.len |-> Zero(t.elem)]]
      [] t.kind \in {"struct", "info"} ->
            [d |-> [x \in {t.fields[i].name : i \in DOMAIN t.fields} |->
                        Zero((CHOOSE f \in ToSet(t.fields) : f.name = x).type)]]
      [] OTHER -> Nil

-----------------------------------------------------------------------------
(* Marshal.                                                                *)

IsEmptyValue(t, v) ==
    \/ v = Nil
    \/ t.kind = "int" /\ v.n = 0
    \/ t.kind \in {"string", "bytes"} /\ v.s = 0
    \/ t.kind \in {"slice", "array"} /\ v.l = <<>>
    \/ t.kind = "map" /\ DOMAIN v.d = {}

\* The dynamic type of a value in an interface{}.
DynamicType(v) ==
    CASE "n" \in DOMAIN v -> TInt
      [] "s" \in DOMAIN v -> TString
      [] "l" \in DOMAIN v -> TSlice(TIface)
      [] "d" \in DOMAIN v -> TMap(TIface)

\* Variant for mutation: in no particular order.
KeysUnsorted(d) == SetToSortSeq(DOMAIN d, LAMBDA x, y : x > y)

Keys(d) == SetToSortSeq(DOMAIN d, LAMBDA x, y : x < y)

Between(open, parts) == <<Tok(open)>> \o FlattenSeq(parts) \o <<Tok("e")>>

\* valueEncoder(v)(e, v): nil of any type writes nothing, not even in a place
\* where the text needs a value.
RECURSIVE Encode(_, _)
Encode(t, v) ==
    CASE t.kind = "raw"  -> IF v = Nil THEN <<Null>> ELSE v.r
      [] t.kind = "bool" -> <<Unsupported>>
      [] t.kind \notin {"raw", "bool"} /\ v = Nil -> <<>>
      [] t.kind = "int" -> <<IntTok(v.n)>>
      [] t.kind \in {"string", "bytes"} /\ v # Nil -> <<StrTok(v.s)>>
      [] t.kind = "ptr" /\ v # Nil -> Encode(t.elem, v)
      [] t.kind \in {"iface", "any"} /\ v # Nil -> Encode(DynamicType(v), v)
      [] t.kind \in {"slice", "array"} /\ v # Nil ->
            Between("l", [i \in DOMAIN v.l |-> Encode(t.elem, v.l[i])])
      [] t.kind = "map" /\ v # Nil ->
            Between("d", [i \in DOMAIN Keys(v.d) |->
                <<StrTok(Keys(v.d)[i])>> \o Encode(t.elem, v.d[Keys(v.d)[i]])])
      [] t.kind \in {"struct", "info"} ->
            Between("d", [i \in DOMAIN t.fields |->
                LET f == t.fields[i]
                IN  IF f.omitEmpty /\ IsEmptyValue(f.type, v.d[f.name]) THEN <<>>
                    ELSE <<StrTok(f.name)>> \o Encode(f.type, v.d[f.name])])

\* encodeState.marshal: the panic of an unsupported type ends it with an error.
MarshalFails(k) == Unsupported \in ToSet(k)

-----------------------------------------------------------------------------
(* checkValid, on tokens.  The stack holds what is open: a list, or a      *)
(* dictionary that was just opened ("open"), has read a key or a value.    *)

ScanTok(s, tok) ==
    LET n    == Len(s.stack)
        top  == IF n = 0 THEN "none" ELSE s.stack[n]
        key  == tok.t = "str" /\ (top = "open" \/ (top = "value" /\ tok.v # 0))
        room == (n = 0 /\ ~s.done) \/ top \in {"list", "key"}
        read == IF top = "key" THEN [s.stack EXCEPT ![n] = "value"] ELSE s.stack
    IN  CASE tok.t = "e" /\ n > 0 -> [s EXCEPT !.stack = Front(@), !.done = (n = 1)]
          [] key -> [s EXCEPT !.stack[n] = "key"]
          [] room /\ ~key /\ tok.t \in {"int", "str"} ->
                [s EXCEPT !.stack = read, !.done = (n = 0)]
          [] room /\ tok.t = "d" -> [s EXCEPT !.stack = Append(read, "open")]
          [] room /\ tok.t = "l" -> [s EXCEPT !.stack = Append(read, "list")]
          [] OTHER -> [s EXCEPT !.ok = FALSE]

\* The empty string is refused when it is the whole text.
CheckValid(k) ==
    LET s == FoldLeft(ScanTok, [stack |-> <<>>, done |-> FALSE, ok |-> TRUE], k)
    IN  s.ok /\ s.done /\ k # <<StrTok(0)>>

-----------------------------------------------------------------------------
(* Unmarshal.  A decoding function returns the value of the target, the    *)
(* position after what it read, whether saveError was called, and how it   *)
(* ended: "ok", "fail" (it returned an error) or "panic".                  *)

Done(v, p, saved)   == [v |-> v, p |-> p, saved |-> saved, st |-> "ok"]
Ended(v, p, st)     == [v |-> v, p |-> p, saved |-> FALSE, st |-> st]

\* The opcode of the scanner at position p.
Op(k, p) == IF p \in DOMAIN k THEN k[p].t ELSE "end"

Depth(k, p, q) ==
    FoldLeft(LAMBDA n, tok : IF tok.t \in {"l", "d"} THEN n + 1
                             ELSE IF tok.t = "e" THEN n - 1 ELSE n,
             0, SubSeq(k, p, q))

\* Variant for mutation: stops at the first 'e'.
SkipShallow(k, p) ==
    CHOOSE q \in p .. Len(k) : Op(k, q) = "e" /\ \A x \in p .. q - 1 : Op(k, x) # "e"

\* skip: where the list or dictionary that begins at p is closed.  The loop
\* steps the scanner until its stack is shorter; on tokens that is where the
\* brackets match, and the offset of a byte in d.data is not seen.
Skip(k, p) ==
    CHOOSE q \in p .. Len(k) : Depth(k, p, q) = 0 /\ \A x \in p .. q - 1 : Depth(k, p, x) # 0

\* Variant for mutation: leaves out the closing byte.
RawOpen(k, p) == SubSeq(k, p, Skip(k, p) - 1)

\* The text handed to UnmarshalBencode for a list or a dictionary.
Raw(k, p) == SubSeq(k, p, Skip(k, p))

\* An Unmarshaler gets a string or a number without the bytes around it, which
\* for the strings of this model is no bencode text.
Bare == <<Tok("bare")>>

\* Info.UnmarshalBencode(k): the hash is taken before the text is decoded.
InfoOf(d, k) == [d |-> d, hash |-> k]

\* stringStore
StringStore(t, x, p, old) ==
    CASE t.kind \in {"string", "bytes", "iface", "any"} -> Done([s |-> x], p + 1, FALSE)
      [] t.kind = "raw"  -> Done([r |-> Bare], p + 1, FALSE)
      [] t.kind = "info" -> Ended(InfoOf(old.d, Bare), p, "fail")
      [] OTHER -> Done(old, p + 1, TRUE)

\* Variant for mutation: the largest number of a type is an overflow.
OverflowsEarly(t, x) == x < t.lo \/ x >= t.hi

\* ParseInt or ParseUint fails, or OverflowInt or OverflowUint holds.
Overflows(t, x) == x < t.lo \/ x > t.hi

\* intStore; intInterface for an element of an interface{}, which keeps what
\* Atoi returns with its error.
IntStore(t, x, p, old) ==
    CASE t.kind = "int" /\ ~Overflows(t, x) -> Done([n |-> x], p + 1, FALSE)
      [] t.kind \in {"iface", "any"} /\ ~Overflows(TInt, x) -> Done([n |-> x], p + 1, FALSE)
      [] t.kind = "any" /\ Overflows(TInt, x) ->
            Done([n |-> IF x > MaxWord THEN MaxWord ELSE MinWord], p + 1, TRUE)
      [] t.kind = "raw"  -> Done([r |-> Bare], p + 1, FALSE)
      [] t.kind = "info" -> Ended(InfoOf(old.d, Bare), p, "fail")
      [] OTHER -> Done(old, p + 1, TRUE)

\* The index of the field for a key: the one with that name, else the first
\* whose name differs in case only; 0 if there is none.
Field(fields, key) ==
    LET exact == SelectInSeq(fields, LAMBDA f : f.name = key)
    IN  IF exact # 0 THEN exact
        ELSE SelectInSeq(fields, LAMBDA f : Fold[f.name] = Fold[key])

RECURSIVE Decode(_, _, _, _), DecodeList(_, _, _, _, _, _), DecodeDict(_, _, _, _, _)

\* The elements of a slice or an array that holds old.
Elements(old) ==
    IF old = Nil THEN <<>> ELSE IF "s" \in DOMAIN old THEN BytesOf[old.s] ELSE old.l

\* Unmarshal(k, v) for a variable of type t that holds old.
Unmarshal(k, t, old) ==
    IF ~CheckValid(k) THEN [v |-> old, err |-> TRUE, panic |-> FALSE]
    ELSE LET r == Decode(k, 1, t, old)
         IN  [v |-> r.v, err |-> r.st = "fail" \/ r.saved, panic |-> r.st = "panic"]

\* value(v), with the opcode of the token at p: indirect follows pointers and
\* makes those that are nil.
Decode(k, p, t, old) ==
    LET op    == Op(k, p)
        inner == Unmarshal(Raw(k, p), [t EXCEPT !.kind = "struct"], [d |-> old.d])
    IN  CASE op \notin {"l", "d", "str", "int"} -> Ended(old, p, "panic")
          [] op \in {"str", "int"} /\ t.kind = "invalid" -> Done(Nil, p + 1, FALSE)
          [] op \in {"l", "d"} /\ t.kind = "invalid" -> Done(Nil, Skip(k, p) + 1, FALSE)
          [] t.kind = "ptr" /\ op \in {"l", "d", "str", "int"} ->
                Decode(k, p, t.elem, IF old = Nil THEN Zero(t.elem) ELSE old)
          [] op = "str" /\ t.kind \notin {"ptr", "invalid"} -> StringStore(t, k[p].v, p, old)
          [] op = "int" /\ t.kind \notin {"ptr", "invalid"} -> IntStore(t, k[p].v, p, old)
          [] op \in {"l", "d"} /\ t.kind = "raw" -> Done([r |-> Raw(k, p)], Skip(k, p) + 1, FALSE)
          [] op \in {"l", "d"} /\ t.kind = "info" ->
                IF inner.panic THEN Ended(old, p, "panic")
                ELSE IF inner.err THEN Ended(InfoOf(inner.v.d, Raw(k, p)), p, "fail")
                ELSE Done(InfoOf(inner.v.d, Raw(k, p)), Skip(k, p) + 1, FALSE)
          [] op = "l" /\ t.kind \in {"iface", "any"} ->
                DecodeList(k, p + 1, TSlice(TAny), <<>>, <<>>, FALSE)
          [] op = "l" /\ t.kind \in {"slice", "array"} ->
                DecodeList(k, p + 1, t, Elements(old), <<>>, FALSE)
          [] op = "l" /\ t.kind = "bytes" ->
                DecodeList(k, p + 1, TSlice(TByte), Elements(old), <<>>, FALSE)
          [] op = "d" /\ t.kind \in {"iface", "any"} ->
                DecodeDict(k, p + 1, TMap(TAny), <<>>, FALSE)
          [] op = "d" /\ t.kind \in {"map", "struct"} ->
                DecodeDict(k, p + 1, t, IF old = Nil THEN <<>> ELSE old.d, FALSE)
          [] OTHER -> Done(old, Skip(k, p) + 1, TRUE)

\* The loop of list and listInterface: acc are the elements read so far, old
\* those that the variable held.  An array keeps as many as it has room for
\* and is filled up with zero values.  An element that a slice grows by is
\* zero: only a slice that two keys of one dictionary filled can have more in
\* its spare capacity.
DecodeList(k, p, t, old, acc, saved) ==
    LET i == Len(acc) + 1
        e == IF t.kind = "array" /\ i > t.len THEN TInvalid ELSE t.elem
        r == Decode(k, p, e, IF i <= Len(old) THEN old[i] ELSE Zero(e))
        now == Append(acc, r.v) \o SubSeq(old, i + 1, Len(old))
    IN  IF Op(k, p) = "e" /\ t.kind = "array"
        THEN Done([l |-> [x \in 1 .. t.len |-> IF x < i THEN acc[x] ELSE Zero(t.elem)]],
                  p + 1, saved)
        ELSE IF Op(k, p) = "e" THEN Done([l |-> acc], p + 1, saved)
        ELSE IF r.st # "ok"
        THEN [r EXCEPT !.v = [l |-> IF t.kind = "array" THEN SubSeq(now, 1, t.len) ELSE now]]
        ELSE DecodeList(k, r.p, t, old, Append(acc, r.v), saved \/ r.saved)

\* The loop of dict and dictInterface: acc is the map or the struct so far.
DecodeDict(k, p, t, acc, saved) ==
    LET key == k[p].v
        f   == IF t.kind = "map" THEN 0 ELSE Field(t.fields, key)
        e   == IF t.kind = "map" THEN t.elem
               ELSE IF f = 0 THEN TInvalid ELSE t.fields[f].type
        r   == Decode(k, p + 1, e, IF t.kind = "map" \/ f = 0 THEN Zero(e)
                                   ELSE acc[t.fields[f].name])
        now == IF t.kind = "map" THEN (key :> r.v) @@ acc
               ELSE IF f = 0 THEN acc ELSE [acc EXCEPT ![t.fields[f].name] = r.v]
    IN  IF Op(k, p) = "e" THEN Done([d |-> acc], p + 1, saved)
        ELSE IF Op(k, p) # "str" THEN Ended([d |-> acc], p, "panic")
        ELSE IF r.st # "ok" THEN [r EXCEPT !.v = [d |-> IF t.kind = "map" THEN acc ELSE now]]
        ELSE DecodeDict(k, r.p, t, now, saved \/ r.saved)

-----------------------------------------------------------------------------
(* A call of Marshal, then one of Unmarshal with what it wrote.            *)

NoResult == [v |-> Nil, err |-> FALSE, panic |-> FALSE]

Marshal ==
    /\ stage = "start"
    /\ text' = Encode(src.type, src.val)
    /\ stage' = IF MarshalFails(text') THEN "failed" ELSE "written"
    /\ UNCHANGED <<src, dst, result>>

\* The variable is new, as in every call of Unmarshal in this program.
Read(t) ==
    /\ stage = "written"
    /\ dst' = t
    /\ result' = Unmarshal(text, t, Zero(t))
    /\ stage' = "read"
    /\ UNCHANGED <<src, text>>

Next == Marshal \/ \E t \in Target : Read(t)
=============================================================================
