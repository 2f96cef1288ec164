----------------------------- MODULE TypeFields -----------------------------
(***************************************************************************)
(* typeFields (bencode/encode.go): which fields of a struct type are read  *)
(* and written, and under which names.  The fields of embedded structs are *)
(* found level by level; of several with one name at most one is kept.     *)
(*                                                                         *)
(* A declared field is a record:                                           *)
(*   name         its name, for an embedded field that of its type         *)
(*   type         the struct type it has or points to, or Leaf             *)
(*   anon         it is embedded                                           *)
(*   unexported   its name begins with a small letter                      *)
(*   tag          NoTag, Dash ("-"), BadTag (a name that isValidTag does   *)
(*                not accept) or the name before the first comma           *)
(* Names are numbers, in the order of the strings.  The option omitempty   *)
(* takes no part in the choice and is left out.                            *)
(***************************************************************************)
EXTENDS Naturals, Sequences, SequencesExt, TLC

CONSTANTS
    Type,      \* the struct types
    Root,      \* the one that typeFields is called with
    Leaf, NoTag, Dash, BadTag

VARIABLES
    decl,              \* the fields that each struct type declares
    current, next,     \* structs to explore, at this level and the next: [type, index]
    count, nextCount,  \* how often each struct type was met at these levels
    visited,
    fields,            \* the fields found: [name, tag, index]
    stage

vars == <<decl, current, next, count, nextCount, visited, fields, stage>>

-----------------------------------------------------------------------------

\* Unexported fields are left out, but not embedded structs: they may have
\* exported fields.
Ignored(sf) ==
    \/ sf.unexported /\ ~(sf.anon /\ sf.type # Leaf)
    \/ sf.tag = Dash

TagName(sf) == IF sf.tag = BadTag THEN NoTag ELSE sf.tag

\* The field is not one itself: its struct is explored at the next level.
Embeds(sf) == ~Ignored(sf) /\ sf.anon /\ sf.type # Leaf /\ TagName(sf) = NoTag

\* The field of a struct, found at this index.
NewField(sf, index) ==
    [name |-> IF TagName(sf) = NoTag THEN sf.name ELSE TagName(sf),
     tag |-> TagName(sf) # NoTag,
     index |-> index]

\* Variant for mutation: each once, however often the type was met.
FoundOnce(f) ==
    LET d == decl[f.type]
    IN  FlattenSeq([i \in DOMAIN d |->
            IF Ignored(d[i]) \/ Embeds(d[i]) THEN <<>>
            ELSE <<NewField(d[i], Append(f.index, i))>>])

\* The fields found in the struct f of the queue, each twice when its type was
\* met more than once at this level.
Found(f) ==
    LET d == decl[f.type]
    IN  FlattenSeq([i \in DOMAIN d |->
            LET new == NewField(d[i], Append(f.index, i))
            IN  IF Ignored(d[i]) \/ Embeds(d[i]) THEN <<>>
                ELSE IF count[f.type] > 1 THEN <<new, new>> ELSE <<new>>])

\* The structs to queue: each type once per level.
Queued(f) ==
    LET d == decl[f.type]
    IN  FlattenSeq([i \in DOMAIN d |->
            IF /\ Embeds(d[i])
               /\ nextCount[d[i].type] = 0
               /\ \A j \in 1 .. i - 1 : ~(Embeds(d[j]) /\ d[j].type = d[i].type)
            THEN <<[type |-> d[i].type, index |-> Append(f.index, i)]>> ELSE <<>>])

Embeddings(f, t) == Len(SelectSeq(decl[f.type], LAMBDA sf : Embeds(sf) /\ sf.type = t))

\* Scan f.type for fields to include.
Scan(f) ==
    /\ visited' = visited \cup {f.type}
    /\ fields' = fields \o Found(f)
    /\ next' = next \o Queued(f)
    /\ nextCount' = [t \in Type |-> nextCount[t] + Embeddings(f, t)]

\* Variant for mutation: types are visited again.
VisitAgain ==
    /\ stage = "explore"
    /\ current # <<>>
    /\ Scan(Head(current))
    /\ current' = Tail(current)
    /\ UNCHANGED <<decl, count, stage>>

\* One iteration of the loop over current.
Visit ==
    /\ stage = "explore"
    /\ current # <<>>
    /\ IF Head(current).type \in visited
       THEN UNCHANGED <<visited, fields, next, nextCount>>
       ELSE Scan(Head(current))
    /\ current' = Tail(current)
    /\ UNCHANGED <<decl, count, stage>>

\* One iteration of the loop over the levels.
Level ==
    /\ stage = "explore"
    /\ current = <<>>
    /\ next # <<>>
    /\ current' = next
    /\ next' = <<>>
    /\ count' = nextCount
    /\ nextCount' = [t \in Type |-> 0]
    /\ UNCHANGED <<decl, visited, fields, stage>>

-----------------------------------------------------------------------------

\* byIndex.Less
ByIndex(x, y) ==
    \/ \E k \in DOMAIN x \cap DOMAIN y : x[k] < y[k] /\ \A j \in 1 .. k - 1 : x[j] = y[j]
    \/ IsStrictPrefix(x, y)

\* The order in which one field dominates another of its name: the shorter
\* index first, then the one with a tag.
Dominates(x, y) ==
    \/ Len(x.index) < Len(y.index)
    \/ Len(x.index) = Len(y.index) /\ x.tag /\ ~y.tag
    \/ Len(x.index) = Len(y.index) /\ x.tag = y.tag /\ ByIndex(x.index, y.index)

\* Variant for mutation: a tag is no reason to prefer a field.
DominantUntagged(same) ==
    IF Len(same) > 1 /\ Len(same[1].index) = Len(same[2].index) THEN <<>> ELSE <<same[1]>>

\* dominantField, for fields of one name in that order.
Dominant(same) ==
    IF /\ Len(same) > 1
       /\ Len(same[1].index) = Len(same[2].index)
       /\ same[1].tag = same[2].tag
    THEN <<>> ELSE <<same[1]>>

\* The loop over the names of the sorted fields.
Kept ==
    LET names   == SetToSortSeq({f.name : f \in ToSet(fields)}, LAMBDA x, y : x < y)
        same(n) == SortSeq(SelectSeq(fields, LAMBDA f : f.name = n), Dominates)
    IN  FlattenSeq([i \in DOMAIN names |-> Dominant(same(names[i]))])

\* Delete the hidden fields; sort.Sort(byIndex(fields)).
Choose ==
    /\ stage = "explore"
    /\ current = <<>>
    /\ next = <<>>
    /\ fields' = SortSeq(Kept, LAMBDA x, y : ByIndex(x.index, y.index))
    /\ stage' = "done"
    /\ UNCHANGED <<decl, current, next, count, nextCount, visited>>

Start ==
    /\ current = <<>>
    /\ next = <<[type |-> Root, index |-> <<>>]>>
    /\ count = [t \in Type |-> 0]
    /\ nextCount = [t \in Type |-> 0]
    /\ visited = {}
    /\ fields = <<>>
    /\ stage = "explore"

Next == Visit \/ Level \/ Choose
=============================================================================
