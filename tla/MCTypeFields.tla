---------------------------- MODULE MCTypeFields ----------------------------
(* Five struct types that embed each other in every way, with few fields.  *)
EXTENDS TypeFields, FiniteSets

CONSTANTS T, A, B, C, D

\* The names of the types, and of two fields.
X == 1
Y == 2
TypeName == (T :> 3) @@ (A :> 4) @@ (B :> 5) @@ (C :> 6) @@ (D :> 7)

Named(name, tag) ==
    [name |-> name, type |-> Leaf, anon |-> FALSE, unexported |-> FALSE, tag |-> tag]
Hidden(name) == [Named(name, NoTag) EXCEPT !.unexported = TRUE]
Embed(t, tag) ==
    [name |-> TypeName[t], type |-> t, anon |-> TRUE, unexported |-> FALSE, tag |-> tag]
\* An embedded struct of an unexported type, and an embedded type that is none.
EmbedHidden(t) == [Embed(t, NoTag) EXCEPT !.unexported = TRUE]
EmbedLeaf(name, hidden) == [Named(name, NoTag) EXCEPT !.anon = TRUE, !.unexported = hidden]

\* The fields of one struct have different names.
Structs(S, n) ==
    {s \in BoundedSeq(S, n) :
        \A i, j \in DOMAIN s : i # j => s[i].name # s[j].name}

TDecl == {<<Embed(A, NoTag), EmbedHidden(B)>>,
          <<Embed(B, BadTag), Embed(C, NoTag), Named(X, Y)>>,
          <<Named(Y, Dash), Hidden(X), Embed(A, X), Embed(B, NoTag)>>,
          <<EmbedHidden(A), EmbedLeaf(X, FALSE), Embed(B, NoTag)>>}
ABDecl == Structs({Named(X, NoTag), Named(X, Y), Named(Y, BadTag), EmbedLeaf(Y, TRUE),
                   Embed(T, NoTag), EmbedHidden(C)}, 2)
CDecl == Structs({Named(X, NoTag), Named(Y, X), Embed(A, NoTag), Embed(B, Dash), Embed(D, NoTag)}, 2)
DDecl == {<<Named(X, NoTag)>>, <<Named(X, NoTag), Named(Y, Y)>>}

Init ==
    /\ decl \in {(T :> t) @@ (A :> a) @@ (B :> b) @@ (C :> c) @@ (D :> d) :
                    t \in TDecl, a \in ABDecl, b \in ABDecl, c \in CDecl, d \in DDecl}
    /\ Start

Spec == Init /\ [][Next]_vars

-----------------------------------------------------------------------------
(* The reference: Go's rule for the fields of embedded structs.            *)

\* The paths to the fields of a struct through embedded structs; a path that
\* comes back to a struct it went through leads only to hidden fields.
RECURSIVE Paths(_, _)
Paths(t, through) ==
    LET d == decl[t]
    IN  {<<i>> : i \in {j \in DOMAIN d : ~Ignored(d[j]) /\ ~Embeds(d[j])}} \cup
        UNION {{<<i>> \o p : p \in Paths(d[i].type, through \cup {d[i].type})} :
               i \in {j \in DOMAIN d : Embeds(d[j]) /\ d[j].type \notin through}}

\* The struct types on a path, from the root to the one with the field.
RECURSIVE Through(_, _)
Through(t, path) ==
    IF Len(path) = 1 THEN <<t>> ELSE <<t>> \o Through(decl[t][path[1]].type, Tail(path))

Candidate == {NewField(decl[Last(Through(Root, p))][Last(p)], p) : p \in Paths(Root, {Root})}

\* The fields of a name that no other of that name hides: those nearest to the
\* root, and of these the ones with a tag if there are any.
Best(name) ==
    LET all  == {f \in Candidate : f.name = name}
        near == {f \in all : \A g \in all : Len(f.index) <= Len(g.index)}
    IN  IF \E f \in near : f.tag THEN {f \in near : f.tag} ELSE near

\* The struct with the field and the one that embeds it.
Origin(f) == LET s == Through(Root, f.index)
             IN  SubSeq(s, IF Len(s) > 1 THEN Len(s) - 1 ELSE 1, Len(s))

-----------------------------------------------------------------------------
(* Properties.                                                             *)

\* Index x comes before y in the declarations, an embedded struct's fields in
\* its place.
DeclaredBefore(x, y) ==
    \E k \in DOMAIN x \cap DOMAIN y :
        x[k] < y[k] /\ SubSeq(x, 1, k - 1) = SubSeq(y, 1, k - 1)

\* A field is read and written when Go's rule names it: nobody of its name is
\* nearer or alone in having a tag, and the only one that the rule names is
\* never lost, whatever was met before it and however often.  A name stands
\* for one field, and the encoder writes them in the order of the declarations.
PromotedFields ==
    stage = "done" =>
        /\ \A f \in ToSet(fields) : f \in Best(f.name)
        /\ \A c \in Candidate : Best(c.name) = {c} => c \in ToSet(fields)
        /\ \A i, j \in DOMAIN fields : i < j =>
                /\ fields[i].name # fields[j].name
                /\ DeclaredBefore(fields[i].index, fields[j].index)

\* Fields that hide each other are all left out, so that no name depends on
\* the order of the declarations: when they are in different structs, or in one
\* that two different structs embed.
TiesAnnihilate ==
    stage = "done" =>
        \A c, e \in Candidate :
            /\ c.name = e.name /\ {c, e} \subseteq Best(c.name)
            /\ Origin(c) # Origin(e)
            => \A f \in ToSet(fields) : f.name # c.name

\* The search ends although structs may embed each other: at each level at
\* least one struct type more has been visited.
SearchEnds ==
    \A f \in ToSet(current) \cup ToSet(next) : Len(f.index) <= Cardinality(visited)
=============================================================================
