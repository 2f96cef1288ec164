----------------------------- MODULE MCBencode -----------------------------
(* Every pair of a value of some type and a variable of some type.         *)
EXTENDS Bencode

\* "A", "B", "a" and "b" are 1, 2, 11 and 12.
MCMinWord == -2
MCFold == [s \in {0, 1, 2, 11, 12} |-> s % 10]
MCBytesOf == (0 :> <<>>) @@ (1 :> <<[n |-> 0]>>) @@ (2 :> <<[n |-> 0], [n |-> 0]>>)
                @@ (11 :> <<[n |-> 1]>>) @@ (12 :> <<[n |-> 1], [n |-> 1]>>)

TInt8  == [kind |-> "int", lo |-> -1, hi |-> 1]
TUint  == [kind |-> "int", lo |-> 0, hi |-> MaxWord + 1]
TBytes == [kind |-> "bytes"]
TBool  == [kind |-> "bool"]
TRaw   == [kind |-> "raw"]
TPtr(t) == [kind |-> "ptr", elem |-> t]
TArray(n, t) == [kind |-> "array", len |-> n, elem |-> t]
F(name, type, omit) == [name |-> name, type |-> type, omitEmpty |-> omit]
TStruct(fields) == [kind |-> "struct", fields |-> fields]
TInfo(fields)   == [kind |-> "info", fields |-> fields]

Pair == TStruct(<<F(12, TUint, FALSE), F(11, TSlice(TInt8), TRUE)>>)

\* Types of values that are encoded.
SrcType ==
    {TInt, TUint, TString, TBytes, TIface, TSlice(TInt), TSlice(TIface), TArray(2, TString),
     TMap(TIface), TMap(Pair), TSlice(TMap(TString)), Pair,
     TStruct(<<F(12, TMap(TInt), FALSE), F(1, TString, TRUE), F(2, TPtr(TInt), TRUE)>>),
     TStruct(<<F(11, TPtr(Pair), FALSE), F(12, TIface, FALSE)>>), TSlice(TBool)}

\* Types of variables that are filled; the decoder meets the zero value of
\* each, and what it already stored when two keys name one field.
DstType ==
    SrcType \cup
    {TInt8, TBool, TPtr(TPtr(Pair)), TArray(1, TIface), TSlice(TString), TMap(TBytes),
     TMap(TSlice(TInt)), TSlice(TRaw),
     TStruct(<<F(1, TInt8, FALSE), F(2, TIface, FALSE)>>),
     TStruct(<<F(1, TBytes, FALSE), F(12, TSlice(TBytes), FALSE)>>),
     TStruct(<<F(11, TRaw, FALSE), F(2, TPtr(TInt), FALSE)>>),
     TStruct(<<F(11, TInfo(<<F(11, TSlice(TInt), FALSE)>>), FALSE), F(12, TInt, FALSE)>>),
     TStruct(<<F(12, TInfo(<<F(11, TIface, FALSE)>>), FALSE), F(1, TMap(TIface), FALSE)>>)}

Upto2(S) == {<<>>} \cup {<<x>> : x \in S} \cup {<<x, y>> : x, y \in S}

RECURSIVE Values(_), StructValues(_)
StructValues(fields) ==
    IF fields = <<>> THEN {<<>>}
    ELSE {(Head(fields).name :> v) @@ rest :
              v \in Values(Head(fields).type), rest \in StructValues(Tail(fields))}

Values(t) ==
    CASE t.kind = "int"    -> {[n |-> t.lo], [n |-> t.hi]} \cup {[n |-> 0] : x \in {TInt} \cap {t}}
      [] t.kind = "string" -> {[s |-> 0], [s |-> 11]}
      [] t.kind = "bytes"  -> {Nil, [s |-> 0], [s |-> 12]}
      [] t.kind = "bool"   -> {[b |-> TRUE]}
      [] t.kind = "ptr"    -> {Nil} \cup Values(t.elem)
      [] t.kind = "iface"  -> {Nil, [n |-> 1], [s |-> 11], [l |-> <<>>],
                               [l |-> <<[n |-> 2], [d |-> <<>>]>>],
                               [d |-> (1 :> [l |-> <<[s |-> 0]>>]) @@ (12 :> [n |-> 0])]}
      [] t.kind = "slice"  -> {Nil} \cup {[l |-> x] : x \in Upto2(Values(t.elem))}
      [] t.kind = "array"  -> {[l |-> x] : x \in [1 .. t.len -> Values(t.elem)]}
      [] t.kind = "map"    ->
            {Nil} \cup UNION {{[d |-> x] : x \in [K -> Values(t.elem)]} :
                              K \in {{}, {11}, {0, 12}, {1, 11}}}
      [] t.kind = "struct" -> {[d |-> x] : x \in StructValues(t.fields)}

\* Every value of every source type.
Init ==
    /\ src \in UNION {{[type |-> t, val |-> v] : v \in Values(t)} : t \in SrcType}
    /\ dst = TInvalid
    /\ text = <<>>
    /\ result = NoResult
    /\ stage = "start"

Spec == Init /\ [][Next]_vars

-----------------------------------------------------------------------------
(* The reference: what decoding means, told from the value alone.          *)

\* A nil was written where the text needs a value.
RECURSIVE HasHole(_, _)
HasHole(t, v) ==
    CASE v = Nil -> TRUE
      [] v # Nil /\ t.kind = "ptr" -> HasHole(t.elem, v)
      [] v # Nil /\ t.kind \in {"slice", "array"} ->
            \E i \in DOMAIN v.l : HasHole(t.elem, v.l[i])
      [] v # Nil /\ t.kind = "map" -> \E k \in DOMAIN v.d : HasHole(t.elem, v.d[k])
      [] t.kind = "struct" ->
            \E f \in ToSet(t.fields) : /\ ~(f.omitEmpty /\ IsEmptyValue(f.type, v.d[f.name]))
                                       /\ HasHole(f.type, v.d[f.name])
      [] OTHER -> FALSE

\* The value without its Go types, and without the fields that are left out.
RECURSIVE Tree(_, _)
Tree(t, v) ==
    CASE t.kind = "ptr" -> Tree(t.elem, v)
      [] t.kind \in {"slice", "array"} -> [l |-> [i \in DOMAIN v.l |-> Tree(t.elem, v.l[i])]]
      [] t.kind = "map" -> [d |-> [k \in DOMAIN v.d |-> Tree(t.elem, v.d[k])]]
      [] t.kind = "struct" ->
            [d |-> [k \in {f.name : f \in {g \in ToSet(t.fields) :
                                ~(g.omitEmpty /\ IsEmptyValue(g.type, v.d[g.name]))}} |->
                        Tree((CHOOSE f \in ToSet(t.fields) : f.name = k).type, v.d[k])]]
      [] OTHER -> v

\* Two keys of one dictionary differ in case only.
RECURSIVE Clash(_)
Clash(x) ==
    \/ "l" \in DOMAIN x /\ \E i \in DOMAIN x.l : Clash(x.l[i])
    \/ /\ "d" \in DOMAIN x
       /\ \/ \E k \in DOMAIN x.d : Clash(x.d[k])
          \/ \E j, k \in DOMAIN x.d : j # k /\ Fold[j] = Fold[k]

\* The keys of x that belong to the field of t with this name: the name itself,
\* or one that differs in case only from it and from no field before it, when
\* no field has the key as its name.
KeyFor(t, x, name) ==
    LET names == [i \in DOMAIN t.fields |-> t.fields[i].name]
        n     == CHOOSE i \in DOMAIN names : names[i] = name
    IN  {k \in DOMAIN x.d :
            \/ k = name
            \/ /\ k \notin ToSet(names) /\ Fold[k] = Fold[name]
               /\ \A i \in 1 .. n - 1 : Fold[names[i]] # Fold[k]}

\* Whether x, all of it, fits a variable of type t.
RECURSIVE Fits(_, _)
Fits(t, x) ==
    CASE t.kind = "ptr" -> Fits(t.elem, x)
      [] t.kind = "int" -> "n" \in DOMAIN x /\ x.n \in t.lo .. t.hi
      [] t.kind = "string" -> "s" \in DOMAIN x
      [] t.kind = "bytes" -> "s" \in DOMAIN x \/ Fits(TSlice(TByte), x)
      [] t.kind \in {"slice", "array"} ->
            /\ "l" \in DOMAIN x
            /\ \A i \in DOMAIN x.l : (t.kind = "array" /\ i > t.len) \/ Fits(t.elem, x.l[i])
      [] t.kind = "map" -> "d" \in DOMAIN x /\ \A k \in DOMAIN x.d : Fits(t.elem, x.d[k])
      [] t.kind = "struct" ->
            /\ "d" \in DOMAIN x
            /\ \A f \in ToSet(t.fields) : \A k \in KeyFor(t, x, f.name) : Fits(f.type, x.d[k])
      [] t.kind = "bool" -> FALSE
      [] t.kind \in {"iface", "any"} ->
            /\ "n" \in DOMAIN x => x.n \in MinWord .. MaxWord
            /\ "l" \in DOMAIN x => \A i \in DOMAIN x.l : Fits(TAny, x.l[i])
            /\ "d" \in DOMAIN x => \A k \in DOMAIN x.d : Fits(TAny, x.d[k])
      [] OTHER -> TRUE

Clamp(n) == IF n > MaxWord THEN MaxWord ELSE IF n < MinWord THEN MinWord ELSE n

\* The part of x that fits, in a variable of type t; what does not fit is zero.
RECURSIVE Fitted(_, _)
Fitted(t, x) ==
    CASE t.kind = "ptr" -> Fitted(t.elem, x)
      [] t.kind = "slice" /\ "l" \in DOMAIN x ->
            [l |-> [i \in DOMAIN x.l |-> Fitted(t.elem, x.l[i])]]
      [] t.kind = "bytes" /\ "l" \in DOMAIN x -> Fitted(TSlice(TByte), x)
      [] t.kind = "array" /\ "l" \in DOMAIN x ->
            [l |-> [i \in 1 .. t.len |-> IF i \in DOMAIN x.l THEN Fitted(t.elem, x.l[i])
                                         ELSE Zero(t.elem)]]
      [] t.kind = "map" /\ "d" \in DOMAIN x ->
            [d |-> [k \in DOMAIN x.d |-> Fitted(t.elem, x.d[k])]]
      [] t.kind = "struct" /\ "d" \in DOMAIN x ->
            [d |-> [name \in DOMAIN Zero(t).d |->
                LET f == CHOOSE g \in ToSet(t.fields) : g.name = name
                IN  IF KeyFor(t, x, name) = {} THEN Zero(f.type)
                    ELSE Fitted(f.type, x.d[CHOOSE k \in KeyFor(t, x, name) : TRUE])]]
      [] t.kind = "any" /\ "n" \in DOMAIN x -> [n |-> Clamp(x.n)]
      [] t.kind \in {"iface", "any"} /\ "l" \in DOMAIN x ->
            [l |-> [i \in DOMAIN x.l |-> Fitted(TAny, x.l[i])]]
      [] t.kind \in {"iface", "any"} /\ "d" \in DOMAIN x ->
            [d |-> [k \in DOMAIN x.d |-> Fitted(TAny, x.d[k])]]
      [] t.kind \in {"int", "string", "bytes", "iface", "any"} /\ Fits(t, x) /\
            ~("l" \in DOMAIN x) /\ ~("d" \in DOMAIN x) -> x
      [] OTHER -> Zero(t)

RECURSIVE HasKind(_, _)
HasKind(t, kinds) ==
    \/ t.kind \in kinds
    \/ "elem" \in DOMAIN t /\ HasKind(t.elem, kinds)
    \/ "fields" \in DOMAIN t /\ \E f \in ToSet(t.fields) : HasKind(f.type, kinds)

\* Unmarshal was given the text of a value without holes.
ReadWhole == stage = "read" /\ ~HasHole(src.type, src.val) /\ text # <<StrTok(0)>>

-----------------------------------------------------------------------------
(* Properties.                                                             *)

\* What Marshal writes for a value without nil in it, Unmarshal reads back
\* into a variable of its type, without an error: all but the fields that
\* omitempty leaves out, which are zero.
RoundTrip ==
    ReadWhole /\ dst = src.type =>
        /\ ~result.err /\ ~result.panic
        /\ Tree(dst, result.v) = Tree(src.type, src.val)

\* Whatever the type of the variable: the decoder never loses its place, what
\* fits is stored and the rest is zero, and there is an error exactly when
\* something did not fit.  So neither a field nobody asked for nor an element
\* of a wrong type, each however deep, disturbs what comes after it.
MisfitsAreLocal ==
    ReadWhole /\ ~HasKind(dst, {"raw", "info"}) =>
        LET x == Tree(src.type, src.val)
        IN  /\ ~result.panic
            /\ ~Clash(x) => /\ result.v = Fitted(dst, x)
                            /\ result.err = ~Fits(dst, x)

\* The text of the field that src has under a key.
TextOf(key) ==
    LET t == src.type
    IN  IF t.kind = "map" THEN Encode(t.elem, src.val.d[key])
        ELSE Encode((CHOOSE f \in ToSet(t.fields) : f.name = key).type, src.val.d[key])

\* A RawMessage, and the hash of a torrent's info, are made from exactly the
\* text of their list or dictionary, whatever stands around it.
RawIsExact ==
    ReadWhole /\ dst.kind = "struct" /\ src.type.kind \in {"map", "struct"} =>
        \A f \in ToSet(dst.fields) :
            LET v == result.v.d[f.name]
            IN  /\ f.type.kind \in {"raw", "info"}
                /\ KeyFor(dst, Tree(src.type, src.val), f.name) = {f.name}
                /\ TextOf(f.name)[1].t \in {"l", "d"}
                => IF f.type.kind = "raw" THEN v.r = TextOf(f.name)
                   ELSE "hash" \in DOMAIN v => v.hash = TextOf(f.name)

\* The dictionary or list that position p of the text is directly in, 0 if none.
Parent(p) ==
    LET open == {q \in 1 .. p - 1 : /\ text[q].t \in {"l", "d"}
                                    /\ \A x \in q .. p - 1 : Depth(text, q, x) > 0}
    IN  Max({0} \cup open)

\* The positions of the keys of the dictionary that opens at q.
KeysAt(q) ==
    LET parts == {p \in q + 1 .. Len(text) : text[p].t # "e" /\ Parent(p) = q}
    IN  {p \in parts : Cardinality({x \in parts : x < p}) % 2 = 0}

\* A value has one text: every dictionary has its keys in ascending order, as
\* the hash of a torrent's info and other clients need it, and what is read
\* into an interface{} and written again is the same text.  Structs are
\* excepted: they are written in the order of their fields.
Canonical ==
    ~HasKind(src.type, {"struct"}) /\ ~HasHole(src.type, src.val) =>
        /\ stage = "written" =>
              \A q \in DOMAIN text : text[q].t = "d" =>
                  \A p1, p2 \in KeysAt(q) : p1 < p2 => text[p1].v < text[p2].v
        /\ ReadWhole /\ dst = TIface /\ ~result.err => Encode(TIface, result.v) = text
=============================================================================
