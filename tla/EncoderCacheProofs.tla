------------------------- MODULE EncoderCacheProofs -------------------------
(***************************************************************************)
(* The safety properties of EncoderCache for any goroutines and any types, *)
(* however they contain each other.                                        *)
(***************************************************************************)
EXTENDS EncoderCache, SequenceTheorems, TLAPS

\* A function for type t, handed out, has been in the cache, and may be called
\* directly once the type is released; rel and enc are the values of released
\* and of encoderCache.
GoodRef(rel, enc, t, r) == enc[t] # "none" /\ (r = "real" => rel[t])

\* The functions collected for the parts of a type.
GoodRefs(rel, enc, t, rs) ==
    /\ Len(rs) <= Len(Child[t])
    /\ \A k \in 1 .. Len(rs) : GoodRef(rel, enc, Child[t][k], rs[k])

\* The next function that a call needs is that of type t.
Awaits(fr, t) == Len(fr.refs) < Len(Child[fr.type]) /\ Child[fr.type][Len(fr.refs) + 1] = t

StackOK(rel, enc, s) ==
    /\ \A k \in 1 .. Len(s) : GoodRefs(rel, enc, s[k].type, s[k].refs)
    /\ \A k \in 1 .. Len(s) - 1 : Awaits(s[k], s[k + 1].type)
    /\ \A k \in 2 .. Len(s) : s[k].kind = "encoder"

\* What the caches and the variables f hold may be called.
SharedOK ==
    \A t \in Type :
        /\ released[t] => f[t] # NoRefs
        /\ encoderCache[t] = "real" => released[t]
        /\ f[t] # NoRefs => GoodRefs(released, encoderCache, t, f[t])
        /\ fieldCache[t] # NoRefs => GoodRefs(released, encoderCache, t, fieldCache[t])

InCall == {"build", "built", "release", "publish", "fieldsLoad", "fieldsStore"}

\* What a goroutine knows at each place.
LocalOK(g) ==
    /\ StackOK(released, encoderCache, stack[g])
    /\ pc[g] \in {"idle", "call", "run"} => stack[g] = <<>>
    /\ pc[g] \in {"load", "store", "call", "run"} => arg[g] \in Type
    /\ pc[g] \in {"load", "store"} /\ stack[g] # <<>> => Awaits(Top(g), arg[g])
    /\ pc[g] \in InCall => stack[g] # <<>>
    /\ pc[g] = "release" => f[Top(g).type] # NoRefs
    /\ pc[g] = "publish" => released[Top(g).type]
    /\ pc[g] = "call" => GoodRef(released, encoderCache, arg[g], ref[g])
    /\ pc[g] = "run" => f[arg[g]] # NoRefs

Inv == TypeOK /\ SharedOK /\ \A g \in Goroutine : LocalOK(g)

-----------------------------------------------------------------------------
(* Stacks.                                                                 *)

LEMMA PopFacts ==
    ASSUME NEW s \in Seq(Frame), s # <<>>
    PROVE  /\ Pop(s) \in Seq(Frame) /\ Len(Pop(s)) = Len(s) - 1 /\ Len(s) \in Nat \ {0}
           /\ \A k \in 1 .. Len(s) - 1 : Pop(s)[k] = s[k]
  <1>1. Len(s) \in Nat \ {0}
    OBVIOUS
  <1>2. \A k \in 1 .. Len(s) - 1 : s[k] \in Frame
    BY <1>1
  <1>3. Pop(s) = [k \in 1 .. Len(s) - 1 |-> s[k]]
    BY <1>1, SubSeqProperties DEF Pop
  <1> QED
    BY <1>1, <1>2, <1>3

LEMMA PushFacts ==
    ASSUME NEW s \in Seq(Frame), NEW fr \in Frame
    PROVE  /\ Append(s, fr) \in Seq(Frame) /\ Len(Append(s, fr)) = Len(s) + 1
           /\ Len(s) \in Nat
           /\ Append(s, fr)[Len(s) + 1] = fr
           /\ \A k \in 1 .. Len(s) : Append(s, fr)[k] = s[k]
  OBVIOUS

LEMMA WithRefsFacts ==
    ASSUME NEW s \in Seq(Frame), s # <<>>, NEW r \in Seq(Ref)
    PROVE  /\ WithRefs(s, r) \in Seq(Frame) /\ Len(WithRefs(s, r)) = Len(s)
           /\ Len(s) \in Nat \ {0}
           /\ WithRefs(s, r)[Len(s)] = [s[Len(s)] EXCEPT !.refs = r]
           /\ \A k \in 1 .. Len(s) - 1 : WithRefs(s, r)[k] = s[k]
  <1>1. Len(s) \in Nat \ {0} /\ DOMAIN s = 1 .. Len(s) /\ s[Len(s)] \in Frame
    OBVIOUS
  <1>2. [s[Len(s)] EXCEPT !.refs = r] \in Frame
    BY <1>1 DEF Frame
  <1>3. WithRefs(s, r) = [s EXCEPT ![Len(s)] = [s[Len(s)] EXCEPT !.refs = r]]
    BY DEF WithRefs
  <1> QED
    BY <1>1, <1>2, <1>3

LEMMA TypeFacts ==
    ASSUME NEW t \in Type
    PROVE  Child[t] \in Seq(Type) /\ Len(Child[t]) \in Nat
  BY CacheAssumption

\* A sequence of functions that gets the one it waits for.
LEMMA AppendGood ==
    ASSUME NEW rel, NEW enc, NEW fr \in Frame, NEW c \in Type, NEW r \in Ref, GoodRefs(rel, enc, fr.type, fr.refs),
           Awaits(fr, c), GoodRef(rel, enc, c, r)
    PROVE  Append(fr.refs, r) \in Seq(Ref) /\ GoodRefs(rel, enc, fr.type, Append(fr.refs, r))
  <1>1. fr.type \in Type /\ fr.refs \in Seq(Ref) /\ Len(fr.refs) \in Nat
    BY DEF Frame
  <1>2. Len(Child[fr.type]) \in Nat
    BY <1>1, TypeFacts
  <1> DEFINE rs == Append(fr.refs, r)
  <1>3. /\ rs \in Seq(Ref) /\ Len(rs) = Len(fr.refs) + 1
        /\ rs[Len(fr.refs) + 1] = r
        /\ \A k \in 1 .. Len(fr.refs) : rs[k] = fr.refs[k]
    BY <1>1
  <1>4. \A k \in 1 .. Len(rs) : k = Len(fr.refs) + 1 \/ k \in 1 .. Len(fr.refs)
    BY <1>1, <1>3
  <1> HIDE DEF rs
  <1>5. Len(rs) <= Len(Child[fr.type])
    BY <1>1, <1>2, <1>3 DEF Awaits
  <1>6. \A k \in 1 .. Len(rs) : GoodRef(rel, enc, Child[fr.type][k], rs[k])
    BY <1>3, <1>4 DEF Awaits, GoodRefs, GoodRef
  <1> QED
    BY <1>3, <1>5, <1>6 DEF GoodRefs, rs

\* The call on top may change what it has collected, as long as it is good.
LEMMA WithRefsOK ==
    ASSUME NEW rel, NEW enc, NEW s \in Seq(Frame), s # <<>>, StackOK(rel, enc, s), NEW r \in Seq(Ref),
           GoodRefs(rel, enc, s[Len(s)].type, r)
    PROVE  /\ WithRefs(s, r) \in Seq(Frame) /\ WithRefs(s, r) # <<>>
           /\ StackOK(rel, enc, WithRefs(s, r))
           /\ WithRefs(s, r)[Len(WithRefs(s, r))].type = s[Len(s)].type
  <1> DEFINE w == WithRefs(s, r)
  <1>1. /\ w \in Seq(Frame) /\ Len(w) = Len(s) /\ Len(s) \in Nat \ {0}
        /\ w[Len(s)] = [s[Len(s)] EXCEPT !.refs = r]
        /\ \A k \in 1 .. Len(s) - 1 : w[k] = s[k]
    BY WithRefsFacts
  <1> HIDE DEF w
  <1>2. s[Len(s)] \in Frame
    BY <1>1
  <1>3. /\ w[Len(s)].type = s[Len(s)].type /\ w[Len(s)].refs = r
        /\ w[Len(s)].kind = s[Len(s)].kind
    BY <1>1, <1>2 DEF Frame
  <1>4. \A k \in 1 .. Len(w) : GoodRefs(rel, enc, w[k].type, w[k].refs)
    <2> TAKE k \in 1 .. Len(w)
    <2>1. CASE k = Len(s)
      BY <1>3, <2>1
    <2>2. CASE k \in 1 .. Len(s) - 1
      BY <1>1, <2>2 DEF StackOK
    <2> QED
      BY <1>1, <2>1, <2>2
  <1>5. \A k \in 1 .. Len(w) - 1 : Awaits(w[k], w[k + 1].type)
    <2> TAKE k \in 1 .. Len(w) - 1
    <2>1. w[k] = s[k] /\ Awaits(s[k], s[k + 1].type)
      BY <1>1 DEF StackOK
    <2>2. w[k + 1].type = s[k + 1].type
      <3>1. CASE k + 1 = Len(s)
        BY <1>3, <3>1
      <3>2. CASE k + 1 \in 1 .. Len(s) - 1
        BY <1>1, <3>2
      <3> QED
        BY <1>1, <3>1, <3>2
    <2> QED
      BY <2>1, <2>2
  <1>6. w # <<>>
    BY <1>1
  <1>7. \A k \in 2 .. Len(w) : w[k].kind = "encoder"
    <2> TAKE k \in 2 .. Len(w)
    <2>1. s[k].kind = "encoder"
      BY <1>1 DEF StackOK
    <2>2. CASE k = Len(s)
      BY <1>3, <2>1, <2>2
    <2>3. CASE k \in 1 .. Len(s) - 1
      BY <1>1, <2>1, <2>3
    <2> QED
      BY <1>1, <2>2, <2>3
  <1> QED
    BY <1>1, <1>3, <1>4, <1>5, <1>6, <1>7 DEF StackOK, w

\* A call for the type that the one below it waits for.
LEMMA PushOK ==
    ASSUME NEW rel, NEW enc, NEW s \in Seq(Frame), StackOK(rel, enc, s), NEW fr \in Frame, fr.refs = <<>>,
           s # <<>> => Awaits(s[Len(s)], fr.type) /\ fr.kind = "encoder"
    PROVE  /\ Append(s, fr) \in Seq(Frame) /\ Append(s, fr) # <<>>
           /\ StackOK(rel, enc, Append(s, fr))
  <1> DEFINE w == Append(s, fr)
  <1>1. /\ w \in Seq(Frame) /\ Len(w) = Len(s) + 1 /\ Len(s) \in Nat
        /\ w[Len(s) + 1] = fr
        /\ \A k \in 1 .. Len(s) : w[k] = s[k]
    BY PushFacts
  <1> HIDE DEF w
  <1>2. GoodRefs(rel, enc, fr.type, fr.refs)
    <2>1. fr.type \in Type
      BY DEF Frame
    <2> QED
      BY <2>1, TypeFacts DEF GoodRefs
  <1>3. \A k \in 1 .. Len(w) : GoodRefs(rel, enc, w[k].type, w[k].refs)
    <2> TAKE k \in 1 .. Len(w)
    <2>1. k = Len(s) + 1 \/ k \in 1 .. Len(s)
      BY <1>1
    <2> QED
      BY <1>1, <1>2, <2>1 DEF StackOK
  <1>4. \A k \in 1 .. Len(w) - 1 : Awaits(w[k], w[k + 1].type)
    <2> TAKE k \in 1 .. Len(w) - 1
    <2>1. CASE k = Len(s)
      <3>1. s # <<>>
        BY <1>1, <2>1
      <3> QED
        BY <1>1, <2>1, <3>1
    <2>2. CASE k \in 1 .. Len(s) - 1
      <3>1. w[k] = s[k] /\ w[k + 1] = s[k + 1]
        BY <1>1, <2>2
      <3> QED
        BY <2>2, <3>1 DEF StackOK
    <2> QED
      BY <1>1, <2>1, <2>2
  <1>5. w # <<>>
    BY <1>1
  <1>6. \A k \in 2 .. Len(w) : w[k].kind = "encoder"
    <2> TAKE k \in 2 .. Len(w)
    <2>1. CASE k = Len(s) + 1
      <3>1. s # <<>>
        BY <1>1, <2>1
      <3> QED
        BY <1>1, <2>1, <3>1
    <2>2. CASE k \in 2 .. Len(s)
      BY <1>1, <2>2 DEF StackOK
    <2> QED
      BY <1>1, <2>1, <2>2
  <1> QED
    BY <1>1, <1>3, <1>4, <1>5, <1>6 DEF StackOK, w

\* When a call returns, the one below it waits for its type.
LEMMA PopOK ==
    ASSUME NEW rel, NEW enc, NEW s \in Seq(Frame), s # <<>>, StackOK(rel, enc, s)
    PROVE  /\ Pop(s) \in Seq(Frame)
           /\ StackOK(rel, enc, Pop(s))
           /\ Pop(s) # <<>> => Awaits(Pop(s)[Len(Pop(s))], s[Len(s)].type)
  <1> DEFINE w == Pop(s)
  <1>1. /\ w \in Seq(Frame) /\ Len(w) = Len(s) - 1 /\ Len(s) \in Nat \ {0}
        /\ \A k \in 1 .. Len(s) - 1 : w[k] = s[k]
    BY PopFacts
  <1> HIDE DEF w
  <1>2. \A k \in 1 .. Len(w) : GoodRefs(rel, enc, w[k].type, w[k].refs)
    BY <1>1 DEF StackOK
  <1>3. \A k \in 1 .. Len(w) - 1 : Awaits(w[k], w[k + 1].type)
    <2> TAKE k \in 1 .. Len(w) - 1
    <2>1. w[k] = s[k] /\ w[k + 1] = s[k + 1] /\ k \in 1 .. Len(s) - 1
      BY <1>1
    <2> QED
      BY <2>1 DEF StackOK
  <1>4. ASSUME w # <<>> PROVE Awaits(w[Len(w)], s[Len(s)].type)
    <2>1. Len(w) \in 1 .. Len(s) - 1 /\ Len(w) + 1 = Len(s)
      BY <1>1, <1>4
    <2> QED
      BY <1>1, <2>1 DEF StackOK
  <1>5. \A k \in 2 .. Len(w) : w[k].kind = "encoder"
    <2> TAKE k \in 2 .. Len(w)
    <2>1. w[k] = s[k] /\ k \in 2 .. Len(s)
      BY <1>1
    <2> QED
      BY <2>1 DEF StackOK
  <1> QED
    BY <1>1, <1>2, <1>3, <1>4, <1>5 DEF StackOK, w

-----------------------------------------------------------------------------
(* Steps.                                                                  *)

\* Releases and assignments are never taken back.
Grows ==
    \A t \in Type : /\ released[t] => released'[t]
                    /\ f[t] # NoRefs => f'[t] # NoRefs
                    /\ encoderCache[t] # "none" => encoderCache'[t] # "none"

\* What is good stays good.
LEMMA GoodRefsStay ==
    ASSUME NEW rel, NEW enc, NEW rel2, NEW enc2,
           \A t \in Type : rel[t] => rel2[t], \A t \in Type : enc[t] # "none" => enc2[t] # "none",
           NEW t \in Type, NEW rs \in Seq(Ref), GoodRefs(rel, enc, t, rs)
    PROVE  GoodRefs(rel2, enc2, t, rs)
  <1>1. \A k \in 1 .. Len(rs) : Child[t][k] \in Type
    BY TypeFacts DEF GoodRefs
  <1> QED
    BY <1>1 DEF GoodRefs, GoodRef

LEMMA StackStays ==
    ASSUME NEW rel, NEW enc, NEW rel2, NEW enc2,
           \A t \in Type : rel[t] => rel2[t], \A t \in Type : enc[t] # "none" => enc2[t] # "none",
           NEW s \in Seq(Frame), StackOK(rel, enc, s)
    PROVE  StackOK(rel2, enc2, s)
  <1>1. ASSUME NEW k \in 1 .. Len(s) PROVE GoodRefs(rel2, enc2, s[k].type, s[k].refs)
    <2>0. s[k] \in Frame
      OBVIOUS
    <2>1. s[k].type \in Type /\ s[k].refs \in Seq(Ref)
      BY <2>0 DEF Frame
    <2>2. GoodRefs(rel, enc, s[k].type, s[k].refs)
      BY DEF StackOK
    <2> QED
      BY <2>1, <2>2, GoodRefsStay, SMTT(30)
  <1> QED
    BY <1>1 DEF StackOK

\* A goroutine that takes no part in a step.
LEMMA OtherOK ==
    ASSUME TypeOK, Grows, NEW h \in Goroutine, LocalOK(h),
           UNCHANGED <<stack[h], pc[h], arg[h], ref[h]>>
    PROVE  LocalOK(h)'
  <1>1. stack[h] \in Seq(Frame)
    BY DEF TypeOK
  <1>2. StackOK(released', encoderCache', stack'[h])
    BY <1>1, StackStays DEF LocalOK, Grows
  <1>3. pc[h] \in InCall => Top(h).type \in Type /\ Top(h)' = Top(h)
    <2> SUFFICES ASSUME pc[h] \in InCall PROVE Top(h).type \in Type /\ Top(h)' = Top(h)
      OBVIOUS
    <2>1. stack[h] # <<>>
      BY DEF LocalOK
    <2>2. stack[h][Len(stack[h])] \in Frame
      BY <1>1, <2>1
    <2> QED
      BY <2>2 DEF Top, Frame
  <1> QED
    BY <1>2, <1>3 DEF LocalOK, InCall, Grows, GoodRef, Awaits, Top

LEMMA TopFacts ==
    ASSUME TypeOK, NEW g \in Goroutine, LocalOK(g), stack[g] # <<>>
    PROVE  /\ Top(g) \in Frame /\ Top(g).type \in Type /\ Top(g).refs \in Seq(Ref)
           /\ GoodRefs(released, encoderCache, Top(g).type, Top(g).refs)
  <1>1. stack[g] \in Seq(Frame) /\ Len(stack[g]) \in 1 .. Len(stack[g])
    BY DEF TypeOK
  <1>2. Top(g) \in Frame
    BY <1>1 DEF Top
  <1>3. GoodRefs(released, encoderCache, Top(g).type, Top(g).refs)
    BY <1>1 DEF LocalOK, StackOK, Top
  <1> QED
    BY <1>2, <1>3 DEF Frame

\* Step by one goroutine.
LEMMA StepOK ==
    ASSUME Inv, NEW g \in Goroutine, TypeOK', SharedOK', Grows, LocalOK(g)',
           \A h \in Goroutine \ {g} : UNCHANGED <<stack[h], pc[h], arg[h], ref[h]>>
    PROVE  Inv'
  <1>1. ASSUME NEW h \in Goroutine PROVE LocalOK(h)'
    <2>1. CASE h = g
      BY <2>1
    <2>2. CASE h # g
      <3>1. TypeOK /\ LocalOK(h)
        BY DEF Inv
      <3> QED
        BY <2>2, <3>1, OtherOK
    <2> QED
      BY <2>1, <2>2
  <1> QED
    BY <1>1 DEF Inv

\* typeEncoder returns a function that may be called.
LEMMA ReturnOK ==
    ASSUME TypeOK, NEW g \in Goroutine, NEW r \in Ref, NEW c \in Type, NEW s \in Seq(Frame),
           StackOK(released', encoderCache', s), s # <<>> => Awaits(s[Len(s)], c),
           GoodRef(released', encoderCache', c, r), arg'[g] = c, Return(g, r, s)
    PROVE  /\ stack' \in [Goroutine -> Seq(Frame)]
           /\ pc' \in [Goroutine -> {"idle", "load", "store", "build", "built", "release",
                            "publish", "fieldsLoad", "fieldsStore", "call", "run", "end"}]
           /\ ref' \in [Goroutine -> Ref]
           /\ LocalOK(g)'
           /\ \A h \in Goroutine \ {g} : UNCHANGED <<stack[h], pc[h], ref[h]>>
  <1>1. CASE s = <<>>
    <2>1. /\ stack' = [stack EXCEPT ![g] = s]
          /\ ref' = [ref EXCEPT ![g] = r]
          /\ pc' = [pc EXCEPT ![g] = "call"]
      BY <1>1 DEF Return, Go
    <2>2. stack'[g] = s /\ ref'[g] = r /\ pc'[g] = "call"
      BY <2>1 DEF TypeOK
    <2>3. LocalOK(g)'
      BY <1>1, <2>2 DEF LocalOK, InCall
    <2> QED
      BY <2>1, <2>3 DEF TypeOK
  <1>2. CASE s # <<>>
    <2> DEFINE w == WithRefs(s, Append(s[Len(s)].refs, r))
    <2>1. /\ stack' = [stack EXCEPT ![g] = w]
          /\ ref' = ref
          /\ pc' = [pc EXCEPT ![g] = "build"]
      BY <1>2 DEF Return, Go
    <2>2. s[Len(s)] \in Frame /\ GoodRefs(released', encoderCache', s[Len(s)].type, s[Len(s)].refs)
      <3>1. Len(s) \in 1 .. Len(s)
        BY <1>2
      <3> QED
        BY <3>1 DEF StackOK
    <2>3. /\ Append(s[Len(s)].refs, r) \in Seq(Ref)
          /\ GoodRefs(released', encoderCache', s[Len(s)].type, Append(s[Len(s)].refs, r))
      BY <1>2, <2>2, AppendGood
    <2>4. w \in Seq(Frame) /\ w # <<>> /\ StackOK(released', encoderCache', w)
      BY <1>2, <2>3, WithRefsOK
    <2> HIDE DEF w
    <2>5. stack'[g] = w /\ pc'[g] = "build"
      BY <2>1 DEF TypeOK
    <2>6. LocalOK(g)'
      BY <2>4, <2>5 DEF LocalOK, InCall
    <2> QED
      BY <2>1, <2>4, <2>6 DEF TypeOK
  <1> QED
    BY <1>1, <1>2

\* The shared variables stay as they are.
LEMMA SharedSame ==
    ASSUME Inv, UNCHANGED <<encoderCache, fieldCache, f, released>>
    PROVE  SharedOK' /\ Grows
  BY DEF Inv, SharedOK, Grows

\* What f and fieldCache hold stays good while they do not change.
LEMMA SharedStays ==
    ASSUME TypeOK, SharedOK, Grows, UNCHANGED <<fieldCache, f>>,
           \A t \in Type : released'[t] => f[t] # NoRefs,
           \A t \in Type : encoderCache'[t] = "real" => released'[t]
    PROVE  SharedOK'
  <1>1. ASSUME NEW t \in Type, f[t] # NoRefs PROVE GoodRefs(released', encoderCache', t, f[t])
    <2>1. f[t] \in Seq(Ref) /\ GoodRefs(released, encoderCache, t, f[t])
      BY <1>1 DEF SharedOK, TypeOK
    <2> QED
      BY <2>1, GoodRefsStay DEF Grows
  <1>2. ASSUME NEW t \in Type, fieldCache[t] # NoRefs
        PROVE  GoodRefs(released', encoderCache', t, fieldCache[t])
    <2>1. fieldCache[t] \in Seq(Ref) /\ GoodRefs(released, encoderCache, t, fieldCache[t])
      BY <1>2 DEF SharedOK, TypeOK
    <2> QED
      BY <2>1, GoodRefsStay DEF Grows
  <1> QED
    BY <1>1, <1>2 DEF SharedOK

LEMMA LoadStep ==
    ASSUME Inv, NEW g \in Goroutine, Load(g)
    PROVE  Inv'
  <1>0. TypeOK /\ LocalOK(g) /\ SharedOK
    BY DEF Inv
  <1>1. /\ UNCHANGED <<encoderCache, fieldCache, f, released, arg, depth>>
        /\ pc[g] = "load" /\ arg[g] \in Type /\ stack[g] \in Seq(Frame)
        /\ stack[g] # <<>> => Awaits(stack[g][Len(stack[g])], arg[g])
        /\ StackOK(released', encoderCache', stack[g])
    BY <1>0 DEF Load, LocalOK, TypeOK, Top
  <1>2. SharedOK' /\ Grows
    BY <1>1, SharedSame
  <1>3. CASE encoderCache[arg[g]] \in Ref /\ Return(g, encoderCache[arg[g]], stack[g])
    <2>1. GoodRef(released', encoderCache', arg[g], encoderCache[arg[g]])
      BY <1>0, <1>1, <1>3 DEF SharedOK, GoodRef, Ref
    <2>2. /\ stack' \in [Goroutine -> Seq(Frame)]
          /\ pc' \in [Goroutine -> {"idle", "load", "store", "build", "built", "release",
                           "publish", "fieldsLoad", "fieldsStore", "call", "run", "end"}]
          /\ ref' \in [Goroutine -> Ref]
          /\ LocalOK(g)'
          /\ \A h \in Goroutine \ {g} : UNCHANGED <<stack[h], pc[h], ref[h]>>
      BY <1>0, <1>1, <1>3, <2>1, ReturnOK
    <2>3. TypeOK'
      BY <1>0, <1>1, <2>2 DEF TypeOK
    <2> QED
      BY <1>1, <1>2, <2>2, <2>3, StepOK
  <1>4. CASE Go(g, "store") /\ UNCHANGED <<stack, ref>>
    <2>1. TypeOK'
      BY <1>0, <1>1, <1>4 DEF TypeOK, Go
    <2>2. pc'[g] = "store"
      BY <1>0, <1>4 DEF TypeOK, Go
    <2>3. LocalOK(g)'
      BY <1>0, <1>1, <1>4, <2>2 DEF LocalOK, InCall, Top
    <2>4. \A h \in Goroutine \ {g} : UNCHANGED <<stack[h], pc[h], arg[h], ref[h]>>
      BY <1>0, <1>1, <1>4 DEF TypeOK, Go
    <2> QED
      BY <1>2, <2>1, <2>3, <2>4, StepOK
  <1> QED
    BY <1>3, <1>4 DEF Load

LEMMA LoadOrStoreStep ==
    ASSUME Inv, NEW g \in Goroutine, LoadOrStore(g)
    PROVE  Inv'
  <1>0. TypeOK /\ LocalOK(g) /\ SharedOK
    BY DEF Inv
  <1>1. /\ UNCHANGED <<fieldCache, f, released, arg, depth>>
        /\ pc[g] = "store" /\ arg[g] \in Type /\ stack[g] \in Seq(Frame)
        /\ stack[g] # <<>> => Awaits(stack[g][Len(stack[g])], arg[g])
    BY <1>0 DEF LoadOrStore, LocalOK, TypeOK, Top
  <1>2. CASE /\ encoderCache[arg[g]] \in Ref /\ encoderCache' = encoderCache
             /\ Return(g, encoderCache[arg[g]], stack[g])
    <2>0. SharedOK' /\ Grows /\ StackOK(released', encoderCache', stack[g])
      BY <1>0, <1>1, <1>2, SharedSame DEF LocalOK
    <2>1. GoodRef(released', encoderCache', arg[g], encoderCache[arg[g]])
      BY <1>0, <1>1, <1>2 DEF SharedOK, GoodRef, Ref
    <2>2. /\ stack' \in [Goroutine -> Seq(Frame)]
          /\ pc' \in [Goroutine -> {"idle", "load", "store", "build", "built", "release",
                           "publish", "fieldsLoad", "fieldsStore", "call", "run", "end"}]
          /\ ref' \in [Goroutine -> Ref]
          /\ LocalOK(g)'
          /\ \A h \in Goroutine \ {g} : UNCHANGED <<stack[h], pc[h], ref[h]>>
      BY <1>0, <1>1, <1>2, <2>0, <2>1, ReturnOK
    <2>3. TypeOK'
      BY <1>0, <1>1, <1>2, <2>2 DEF TypeOK
    <2> QED
      BY <1>1, <2>0, <2>2, <2>3, StepOK
  <1>3. CASE encoderCache[arg[g]] \notin Ref
    <2> DEFINE fr == [kind |-> "encoder", type |-> arg[g], refs |-> <<>>]
               w == Append(stack[g], fr)
               p == IF arg[g] \in Struct THEN "fieldsLoad" ELSE "build"
    <2>1. /\ encoderCache' = [encoderCache EXCEPT ![arg[g]] = "indirect"]
          /\ stack' = [stack EXCEPT ![g] = w]
          /\ pc' = [pc EXCEPT ![g] = p]
          /\ ref' = ref
      BY <1>3 DEF LoadOrStore, Go
    <2>2. fr \in Frame /\ fr.type = arg[g] /\ fr.refs = <<>> /\ fr.kind = "encoder"
      BY <1>1 DEF Frame
    <2>3. Grows
      BY <1>0, <1>1, <2>1 DEF Grows, TypeOK
    <2>4. StackOK(released', encoderCache', stack[g])
      BY <1>0, <1>1, <2>3, StackStays DEF LocalOK, Grows
    <2>5. p \in {"fieldsLoad", "build"}
      OBVIOUS
    <2> HIDE DEF p, fr
    <2>6. w \in Seq(Frame) /\ w # <<>> /\ StackOK(released', encoderCache', w)
      BY <1>1, <2>2, <2>4, PushOK
    <2> HIDE DEF w
    <2>7. stack'[g] = w /\ pc'[g] = p
      BY <1>0, <2>1 DEF TypeOK
    <2>8. LocalOK(g)'
      BY <2>5, <2>6, <2>7 DEF LocalOK, InCall
    <2>9. TypeOK'
      BY <1>0, <1>1, <2>1, <2>5, <2>6 DEF TypeOK, Ref
    <2>10. SharedOK'
      <3>1. \A u \in Type : released'[u] => f[u] # NoRefs
        BY <1>0, <1>1 DEF SharedOK
      <3>2. \A u \in Type : encoderCache'[u] = "real" => released'[u]
        BY <1>0, <1>1, <2>1 DEF SharedOK, TypeOK
      <3> QED
        BY <1>0, <1>1, <2>3, <3>1, <3>2, SharedStays
    <2>11. \A h \in Goroutine \ {g} : UNCHANGED <<stack[h], pc[h], arg[h], ref[h]>>
      BY <1>0, <1>1, <2>1 DEF TypeOK
    <2> QED
      BY <2>3, <2>8, <2>9, <2>10, <2>11, StepOK
  <1> QED
    BY <1>2, <1>3 DEF LoadOrStore

LEMMA BuildStep ==
    ASSUME Inv, NEW g \in Goroutine, Build(g)
    PROVE  Inv'
  <1>0. TypeOK /\ LocalOK(g) /\ SharedOK
    BY DEF Inv
  <1>1. /\ UNCHANGED <<encoderCache, fieldCache, f, released, stack, ref, depth>>
        /\ pc[g] = "build" /\ stack[g] # <<>>
    BY <1>0 DEF Build, LocalOK, InCall
  <1>2. Top(g) \in Frame /\ Top(g).type \in Type /\ Top(g).refs \in Seq(Ref)
    BY <1>0, <1>1, TopFacts
  <1>3. SharedOK' /\ Grows
    BY <1>1, SharedSame
  <1> DEFINE t == Top(g).type
             n == Len(Top(g).refs)
             c == Child[t][n + 1]
  <1>4. n \in Nat /\ Child[t] \in Seq(Type) /\ Len(Child[t]) \in Nat
    BY <1>2, TypeFacts
  <1>5. CASE n < Len(Child[t])
    <2>1. arg' = [arg EXCEPT ![g] = c] /\ pc' = [pc EXCEPT ![g] = "load"]
      BY <1>5 DEF Build, Go
    <2>2. c \in Type /\ Awaits(Top(g), c)
      BY <1>4, <1>5 DEF Awaits
    <2>3. arg'[g] = c /\ pc'[g] = "load" /\ Top(g)' = Top(g)
      BY <1>0, <1>1, <2>1 DEF TypeOK, Top
    <2> HIDE DEF c
    <2>4. LocalOK(g)'
      BY <1>0, <1>1, <2>2, <2>3 DEF LocalOK, InCall
    <2>5. TypeOK'
      BY <1>0, <1>1, <2>1, <2>2 DEF TypeOK
    <2>6. \A h \in Goroutine \ {g} : UNCHANGED <<stack[h], pc[h], arg[h], ref[h]>>
      BY <1>0, <1>1, <2>1 DEF TypeOK
    <2> QED
      BY <1>3, <2>4, <2>5, <2>6, StepOK
  <1>6. CASE ~(n < Len(Child[t]))
    <2> DEFINE p == IF t \in Struct THEN "fieldsStore" ELSE "built"
    <2>1. arg' = arg /\ pc' = [pc EXCEPT ![g] = p]
      BY <1>6 DEF Build, Go
    <2>2. p \in {"fieldsStore", "built"}
      OBVIOUS
    <2> HIDE DEF p
    <2>3. pc'[g] = p
      BY <1>0, <2>1 DEF TypeOK
    <2>4. LocalOK(g)'
      BY <1>0, <1>1, <2>2, <2>3 DEF LocalOK, InCall
    <2>5. TypeOK'
      BY <1>0, <1>1, <2>1, <2>2 DEF TypeOK
    <2>6. \A h \in Goroutine \ {g} : UNCHANGED <<stack[h], pc[h], arg[h], ref[h]>>
      BY <1>0, <1>1, <2>1 DEF TypeOK
    <2> QED
      BY <1>3, <2>4, <2>5, <2>6, StepOK
  <1> QED
    BY <1>5, <1>6

LEMMA AssignStep ==
    ASSUME Inv, NEW g \in Goroutine, Assign(g)
    PROVE  Inv'
  <1>0. TypeOK /\ LocalOK(g) /\ SharedOK
    BY DEF Inv
  <1>1. /\ UNCHANGED <<encoderCache, fieldCache, released, stack, arg, ref, depth>>
        /\ pc[g] = "built" /\ stack[g] # <<>>
        /\ f' = [f EXCEPT ![Top(g).type] = Top(g).refs]
        /\ pc' = [pc EXCEPT ![g] = "release"]
    BY <1>0 DEF Assign, LocalOK, InCall, Go
  <1> DEFINE t == Top(g).type
             rs == Top(g).refs
  <1>2. t \in Type /\ rs \in Seq(Ref) /\ GoodRefs(released, encoderCache, t, rs)
    BY <1>0, <1>1, TopFacts
  <1>3. rs # NoRefs
    BY <1>2, CacheAssumption
  <1>4. pc'[g] = "release" /\ f'[t] # NoRefs /\ Top(g)' = Top(g)
    BY <1>0, <1>1, <1>2, <1>3 DEF TypeOK, Top
  <1>5. LocalOK(g)'
    BY <1>0, <1>1, <1>4 DEF LocalOK, InCall
  <1>6. TypeOK'
    BY <1>0, <1>1, <1>2 DEF TypeOK
  <1>7. \A u \in Type : f'[u] = IF u = t THEN rs ELSE f[u]
    BY <1>0, <1>1 DEF TypeOK
  <1>8. SharedOK' /\ Grows
    BY <1>0, <1>1, <1>2, <1>3, <1>7 DEF SharedOK, Grows
  <1>9. \A h \in Goroutine \ {g} : UNCHANGED <<stack[h], pc[h], arg[h], ref[h]>>
    BY <1>0, <1>1 DEF TypeOK
  <1> QED
    BY <1>5, <1>6, <1>8, <1>9, StepOK

LEMMA ReleaseStep ==
    ASSUME Inv, NEW g \in Goroutine, Release(g)
    PROVE  Inv'
  <1>0. TypeOK /\ LocalOK(g) /\ SharedOK
    BY DEF Inv
  <1>1. /\ UNCHANGED <<encoderCache, fieldCache, f, stack, arg, ref, depth>>
        /\ pc[g] = "release" /\ stack[g] # <<>> /\ f[Top(g).type] # NoRefs
        /\ released' = [released EXCEPT ![Top(g).type] = TRUE]
        /\ pc' = [pc EXCEPT ![g] = "publish"]
    BY <1>0 DEF Release, LocalOK, InCall, Go
  <1> DEFINE t == Top(g).type
  <1>2. t \in Type
    BY <1>0, <1>1, TopFacts
  <1>3. \A u \in Type : released'[u] = (u = t \/ released[u])
    BY <1>0, <1>1 DEF TypeOK
  <1>4. Grows
    BY <1>1, <1>3 DEF Grows
  <1>5. StackOK(released', encoderCache', stack[g])
    <2>1. stack[g] \in Seq(Frame) /\ StackOK(released, encoderCache, stack[g])
      BY <1>0 DEF TypeOK, LocalOK
    <2> QED
      BY <1>4, <2>1, StackStays DEF Grows
  <1>6. pc'[g] = "publish" /\ released'[t] /\ Top(g)' = Top(g)
    BY <1>0, <1>1, <1>2, <1>3 DEF TypeOK, Top
  <1>7. LocalOK(g)'
    BY <1>1, <1>5, <1>6 DEF LocalOK, InCall
  <1>8. TypeOK'
    BY <1>0, <1>1 DEF TypeOK
  <1>9. SharedOK'
    <2>1. \A u \in Type : released'[u] => f[u] # NoRefs
      BY <1>0, <1>1, <1>3 DEF SharedOK
    <2>2. \A u \in Type : encoderCache'[u] = "real" => released'[u]
      BY <1>0, <1>1, <1>3 DEF SharedOK
    <2> QED
      BY <1>0, <1>1, <1>4, <2>1, <2>2, SharedStays
  <1>10. \A h \in Goroutine \ {g} : UNCHANGED <<stack[h], pc[h], arg[h], ref[h]>>
    BY <1>0, <1>1 DEF TypeOK
  <1> QED
    BY <1>4, <1>7, <1>8, <1>9, <1>10, StepOK

LEMMA PublishStep ==
    ASSUME Inv, NEW g \in Goroutine, Publish(g)
    PROVE  Inv'
  <1>0. TypeOK /\ LocalOK(g) /\ SharedOK
    BY DEF Inv
  <1>1. /\ UNCHANGED <<fieldCache, f, released, depth>>
        /\ pc[g] = "publish" /\ stack[g] # <<>> /\ released[Top(g).type]
        /\ encoderCache' = [encoderCache EXCEPT ![Top(g).type] = "real"]
        /\ arg' = [arg EXCEPT ![g] = Top(g).type]
        /\ Return(g, "real", Pop(stack[g]))
        /\ stack[g] \in Seq(Frame)
    BY <1>0 DEF Publish, LocalOK, InCall, TypeOK
  <1> DEFINE t == Top(g).type
             w == Pop(stack[g])
  <1>2. t \in Type
    BY <1>0, <1>1, TopFacts
  <1>3. \A u \in Type : encoderCache'[u] = IF u = t THEN "real" ELSE encoderCache[u]
    BY <1>0, <1>1 DEF TypeOK
  <1>4. Grows
    BY <1>1, <1>3 DEF Grows
  <1>5. StackOK(released', encoderCache', stack[g])
    <2>1. stack[g] \in Seq(Frame) /\ StackOK(released, encoderCache, stack[g])
      BY <1>0 DEF TypeOK, LocalOK
    <2> QED
      BY <1>4, <2>1, StackStays DEF Grows
  <1>6. /\ w \in Seq(Frame) /\ StackOK(released', encoderCache', w)
        /\ w # <<>> => Awaits(w[Len(w)], t)
    BY <1>1, <1>5, PopOK DEF Top
  <1>7. arg'[g] = t /\ GoodRef(released', encoderCache', t, "real") /\ "real" \in Ref
    BY <1>0, <1>1, <1>2, <1>3 DEF TypeOK, GoodRef, Ref
  <1>8. Return(g, "real", w) /\ released[t]
    BY <1>1
  <1>9. arg' = [arg EXCEPT ![g] = t] /\ encoderCache' = [encoderCache EXCEPT ![t] = "real"]
    BY <1>1
  <1> HIDE DEF t, w
  <1>10. /\ stack' \in [Goroutine -> Seq(Frame)]
         /\ pc' \in [Goroutine -> {"idle", "load", "store", "build", "built", "release",
                          "publish", "fieldsLoad", "fieldsStore", "call", "run", "end"}]
         /\ ref' \in [Goroutine -> Ref]
         /\ LocalOK(g)'
         /\ \A h \in Goroutine \ {g} : UNCHANGED <<stack[h], pc[h], ref[h]>>
    BY <1>0, <1>2, <1>6, <1>7, <1>8, ReturnOK
  <1>11. TypeOK'
    <2>1. arg' \in [Goroutine -> Type \cup {NoType}]
      BY <1>0, <1>2, <1>9 DEF TypeOK
    <2>2. encoderCache' \in [Type -> Ref \cup {"none"}]
      BY <1>0, <1>7, <1>9 DEF TypeOK
    <2> QED
      BY <1>0, <1>1, <1>10, <2>1, <2>2 DEF TypeOK
  <1>12. SharedOK'
    <2>1. \A u \in Type : released'[u] => f[u] # NoRefs
      BY <1>0, <1>1 DEF SharedOK
    <2>2. \A u \in Type : encoderCache'[u] = "real" => released'[u]
      BY <1>0, <1>1, <1>3, <1>8 DEF SharedOK
    <2> QED
      BY <1>0, <1>1, <1>4, <2>1, <2>2, SharedStays
  <1>13. \A h \in Goroutine \ {g} : UNCHANGED <<stack[h], pc[h], arg[h], ref[h]>>
    BY <1>0, <1>9, <1>10 DEF TypeOK
  <1> QED
    BY <1>4, <1>10, <1>11, <1>12, <1>13, StepOK

\* The call on top goes on with other fields of its type, or with its own.
LEMMA FieldsOK ==
    ASSUME Inv, NEW g \in Goroutine, stack[g] # <<>>, NEW p \in {"build", "built"}, Go(g, p),
           \/ UNCHANGED stack
           \/ /\ fieldCache[Top(g).type] # NoRefs
              /\ stack' = [stack EXCEPT ![g] = WithRefs(@, fieldCache[Top(g).type])],
           UNCHANGED <<encoderCache, released, arg, ref>>
    PROVE  /\ stack' \in [Goroutine -> Seq(Frame)]
           /\ pc' \in [Goroutine -> {"idle", "load", "store", "build", "built", "release",
                            "publish", "fieldsLoad", "fieldsStore", "call", "run", "end"}]
           /\ LocalOK(g)'
           /\ \A h \in Goroutine \ {g} : UNCHANGED <<stack[h], pc[h], arg[h], ref[h]>>
  <1>0. TypeOK /\ LocalOK(g) /\ SharedOK
    BY DEF Inv
  <1>1. stack[g] \in Seq(Frame) /\ StackOK(released', encoderCache', stack[g]) /\ pc'[g] = p
    BY <1>0 DEF TypeOK, LocalOK, Go
  <1>2. Top(g).type \in Type
    BY <1>0, TopFacts
  <1>3. CASE UNCHANGED stack
    <2>1. LocalOK(g)'
      BY <1>1, <1>3 DEF LocalOK, InCall
    <2> QED
      BY <1>0, <1>3, <2>1 DEF TypeOK, Go
  <1>4. CASE /\ fieldCache[Top(g).type] # NoRefs
             /\ stack' = [stack EXCEPT ![g] = WithRefs(@, fieldCache[Top(g).type])]
    <2> DEFINE rs == fieldCache[Top(g).type]
               w == WithRefs(stack[g], rs)
    <2>1. rs \in Seq(Ref) /\ GoodRefs(released', encoderCache', Top(g).type, rs)
      BY <1>0, <1>2, <1>4 DEF TypeOK, SharedOK
    <2>2. w \in Seq(Frame) /\ w # <<>> /\ StackOK(released', encoderCache', w)
      BY <1>1, <2>1, WithRefsOK DEF Top
    <2> HIDE DEF w
    <2>3. stack' = [stack EXCEPT ![g] = w]
      BY <1>4 DEF w
    <2>4. stack'[g] = w
      BY <1>0, <2>3 DEF TypeOK
    <2>5. LocalOK(g)'
      BY <1>1, <2>2, <2>4 DEF LocalOK, InCall
    <2> QED
      BY <1>0, <2>2, <2>3, <2>5 DEF TypeOK, Go
  <1> QED
    BY <1>3, <1>4

LEMMA FieldsLoadStep ==
    ASSUME Inv, NEW g \in Goroutine, FieldsLoad(g)
    PROVE  Inv'
  <1>0. TypeOK /\ LocalOK(g)
    BY DEF Inv
  <1>1. /\ UNCHANGED <<encoderCache, fieldCache, f, released, arg, ref, depth>>
        /\ stack[g] # <<>>
    BY <1>0 DEF FieldsLoad, LocalOK, InCall
  <1>2. PICK p \in {"build", "built"} :
            /\ Go(g, p)
            /\ \/ UNCHANGED stack
               \/ /\ fieldCache[Top(g).type] # NoRefs
                  /\ stack' = [stack EXCEPT ![g] = WithRefs(@, fieldCache[Top(g).type])]
    BY DEF FieldsLoad
  <1>3. /\ stack' \in [Goroutine -> Seq(Frame)]
        /\ pc' \in [Goroutine -> {"idle", "load", "store", "build", "built", "release",
                         "publish", "fieldsLoad", "fieldsStore", "call", "run", "end"}]
        /\ LocalOK(g)'
        /\ \A h \in Goroutine \ {g} : UNCHANGED <<stack[h], pc[h], arg[h], ref[h]>>
    BY <1>1, <1>2, FieldsOK
  <1>4. TypeOK'
    BY <1>0, <1>1, <1>3 DEF TypeOK
  <1> QED
    BY <1>1, <1>3, <1>4, SharedSame, StepOK

LEMMA FieldsStoreStep ==
    ASSUME Inv, NEW g \in Goroutine, FieldsStore(g)
    PROVE  Inv'
  <1>0. TypeOK /\ LocalOK(g) /\ SharedOK
    BY DEF Inv
  <1>1. /\ UNCHANGED <<encoderCache, f, released, arg, ref, depth>>
        /\ Go(g, "built")
        /\ stack[g] # <<>>
    BY <1>0 DEF FieldsStore, LocalOK, InCall
  <1>2. \/ UNCHANGED stack
        \/ /\ fieldCache[Top(g).type] # NoRefs
           /\ stack' = [stack EXCEPT ![g] = WithRefs(@, fieldCache[Top(g).type])]
    BY DEF FieldsStore
  <1>3. /\ stack' \in [Goroutine -> Seq(Frame)]
        /\ pc' \in [Goroutine -> {"idle", "load", "store", "build", "built", "release",
                         "publish", "fieldsLoad", "fieldsStore", "call", "run", "end"}]
        /\ LocalOK(g)'
        /\ \A h \in Goroutine \ {g} : UNCHANGED <<stack[h], pc[h], arg[h], ref[h]>>
    BY <1>1, <1>2, FieldsOK
  <1> DEFINE t == Top(g).type
             rs == Top(g).refs
  <1>4. t \in Type /\ rs \in Seq(Ref) /\ GoodRefs(released, encoderCache, t, rs)
    BY <1>0, <1>1, TopFacts
  <1>5. fieldCache' = fieldCache \/ fieldCache' = [fieldCache EXCEPT ![t] = rs]
    BY DEF FieldsStore
  <1> HIDE DEF t, rs
  <1>6. TypeOK'
    BY <1>0, <1>1, <1>3, <1>4, <1>5 DEF TypeOK
  <1>7. \A u \in Type : fieldCache'[u] = fieldCache[u] \/ (u = t /\ fieldCache'[u] = rs)
    BY <1>0, <1>5 DEF TypeOK
  <1>8. SharedOK' /\ Grows
    BY <1>0, <1>1, <1>4, <1>7 DEF SharedOK, Grows
  <1> QED
    BY <1>3, <1>6, <1>8, StepOK

LEMMA DecodedStep ==
    ASSUME Inv, NEW g \in Goroutine, Decoded(g)
    PROVE  Inv'
  <1>0. TypeOK
    BY DEF Inv
  <1>1. /\ UNCHANGED <<encoderCache, fieldCache, f, released, arg, ref, depth>>
        /\ stack' = [stack EXCEPT ![g] = <<>>] /\ pc' = [pc EXCEPT ![g] = "end"]
    BY DEF Decoded, Go
  <1>2. stack'[g] = <<>> /\ pc'[g] = "end"
    BY <1>0, <1>1 DEF TypeOK
  <1>3. LocalOK(g)'
    BY <1>2 DEF LocalOK, InCall, StackOK
  <1>4. TypeOK'
    BY <1>0, <1>1 DEF TypeOK
  <1>5. \A h \in Goroutine \ {g} : UNCHANGED <<stack[h], pc[h], arg[h], ref[h]>>
    BY <1>0, <1>1 DEF TypeOK
  <1> QED
    BY <1>1, <1>3, <1>4, <1>5, SharedSame, StepOK

LEMMA UnmarshalStep ==
    ASSUME Inv, NEW g \in Goroutine, NEW t \in Type, Unmarshal(g, t)
    PROVE  Inv'
  <1>0. TypeOK
    BY DEF Inv
  <1> DEFINE fr == [kind |-> "decoder", type |-> t, refs |-> <<>>]
             w == Append(<<>>, fr)
  <1>1. /\ UNCHANGED <<encoderCache, fieldCache, f, released, arg, ref, depth>>
        /\ stack' = [stack EXCEPT ![g] = <<fr>>] /\ pc' = [pc EXCEPT ![g] = "fieldsLoad"]
    BY DEF Unmarshal, Go
  <1>2. fr \in Frame /\ fr.refs = <<>>
    BY DEF Frame
  <1>3. StackOK(released', encoderCache', <<>>)
    BY DEF StackOK
  <1>4. w \in Seq(Frame) /\ w # <<>> /\ StackOK(released', encoderCache', w)
    <2>1. <<>> \in Seq(Frame) /\ ~(<<>> # <<>>)
      OBVIOUS
    <2> HIDE DEF fr
    <2> QED
      BY <1>2, <1>3, <2>1, PushOK
  <1>5. stack' = [stack EXCEPT ![g] = w]
    BY <1>1
  <1> HIDE DEF w, fr
  <1>6. stack'[g] = w /\ pc'[g] = "fieldsLoad"
    BY <1>0, <1>1, <1>5 DEF TypeOK
  <1>7. LocalOK(g)'
    BY <1>4, <1>6 DEF LocalOK, InCall
  <1>8. TypeOK'
    BY <1>0, <1>1, <1>4, <1>5 DEF TypeOK
  <1>9. \A h \in Goroutine \ {g} : UNCHANGED <<stack[h], pc[h], arg[h], ref[h]>>
    BY <1>0, <1>1, <1>5 DEF TypeOK
  <1> QED
    BY <1>1, <1>7, <1>8, <1>9, SharedSame, StepOK

LEMMA CallStep ==
    ASSUME Inv, NEW g \in Goroutine, Call(g)
    PROVE  Inv'
  <1>0. TypeOK /\ LocalOK(g) /\ SharedOK
    BY DEF Inv
  <1>1. /\ UNCHANGED <<encoderCache, fieldCache, f, released, stack, arg, ref, depth>>
        /\ pc[g] = "call" /\ pc' = [pc EXCEPT ![g] = "run"] /\ arg[g] \in Type
    BY <1>0 DEF Call, Go, LocalOK
  <1>2. released[arg[g]]
    BY <1>0 DEF Call, LocalOK, GoodRef, TypeOK, Ref
  <1>3. f[arg[g]] # NoRefs
    BY <1>0, <1>1, <1>2 DEF SharedOK
  <1>4. pc'[g] = "run"
    BY <1>0, <1>1 DEF TypeOK
  <1>5. LocalOK(g)'
    BY <1>0, <1>1, <1>3, <1>4 DEF LocalOK, InCall
  <1>6. TypeOK'
    BY <1>0, <1>1 DEF TypeOK
  <1>7. \A h \in Goroutine \ {g} : UNCHANGED <<stack[h], pc[h], arg[h], ref[h]>>
    BY <1>0, <1>1 DEF TypeOK
  <1> QED
    BY <1>1, <1>5, <1>6, <1>7, SharedSame, StepOK

LEMMA DescendStep ==
    ASSUME Inv, NEW g \in Goroutine, Descend(g)
    PROVE  Inv'
  <1>0. TypeOK /\ LocalOK(g) /\ SharedOK
    BY DEF Inv
  <1>1. /\ UNCHANGED <<encoderCache, fieldCache, f, released, stack>>
        /\ pc[g] = "run" /\ pc' = [pc EXCEPT ![g] = "call"]
        /\ arg[g] \in Type /\ f[arg[g]] # NoRefs
        /\ depth[g] < MaxDepth /\ depth' = [depth EXCEPT ![g] = @ + 1]
    BY <1>0 DEF Descend, Go, LocalOK
  <1>2. PICK i \in DOMAIN f[arg[g]] : /\ arg' = [arg EXCEPT ![g] = Child[arg[g]][i]]
                                      /\ ref' = [ref EXCEPT ![g] = f[arg[g]][i]]
    BY DEF Descend
  <1>3. /\ f[arg[g]] \in Seq(Ref) /\ GoodRefs(released, encoderCache, arg[g], f[arg[g]])
    BY <1>0, <1>1 DEF TypeOK, SharedOK
  <1> DEFINE t == Child[arg[g]][i]
             r == f[arg[g]][i]
  <1>4. i \in 1 .. Len(f[arg[g]]) /\ r \in Ref
    BY <1>2, <1>3
  <1>5. t \in Type /\ GoodRef(released, encoderCache, t, r)
    BY <1>1, <1>3, <1>4, TypeFacts DEF GoodRefs
  <1> HIDE DEF t, r
  <1>6. arg' = [arg EXCEPT ![g] = t] /\ ref' = [ref EXCEPT ![g] = r]
    BY <1>2 DEF t, r
  <1>7. arg'[g] = t /\ ref'[g] = r /\ pc'[g] = "call"
    BY <1>0, <1>1, <1>6 DEF TypeOK
  <1>8. LocalOK(g)'
    BY <1>0, <1>1, <1>5, <1>7 DEF LocalOK, InCall, GoodRef
  <1>9. depth' \in [Goroutine -> 0 .. MaxDepth]
    BY <1>0, <1>1, CacheAssumption DEF TypeOK
  <1>10. TypeOK'
    BY <1>0, <1>1, <1>4, <1>5, <1>6, <1>9 DEF TypeOK
  <1>11. \A h \in Goroutine \ {g} : UNCHANGED <<stack[h], pc[h], arg[h], ref[h]>>
    BY <1>0, <1>1, <1>6 DEF TypeOK
  <1> QED
    BY <1>1, <1>8, <1>10, <1>11, SharedSame, StepOK

LEMMA DescendIfaceStep ==
    ASSUME Inv, NEW g \in Goroutine, DescendIface(g)
    PROVE  Inv'
  <1>0. TypeOK /\ LocalOK(g)
    BY DEF Inv
  <1>1. PICK t \in Type \ Iface : arg' = [arg EXCEPT ![g] = t]
    BY DEF DescendIface
  <1>2. /\ UNCHANGED <<encoderCache, fieldCache, f, released, stack, ref, depth>>
        /\ pc' = [pc EXCEPT ![g] = "load"]
        /\ stack[g] = <<>>
    BY <1>0 DEF DescendIface, Go, LocalOK
  <1>3. pc'[g] = "load" /\ arg'[g] = t
    BY <1>0, <1>1, <1>2 DEF TypeOK
  <1>4. LocalOK(g)'
    BY <1>0, <1>1, <1>2, <1>3 DEF LocalOK, InCall
  <1>5. TypeOK'
    BY <1>0, <1>1, <1>2 DEF TypeOK
  <1>6. \A h \in Goroutine \ {g} : UNCHANGED <<stack[h], pc[h], arg[h], ref[h]>>
    BY <1>0, <1>1, <1>2 DEF TypeOK
  <1> QED
    BY <1>2, <1>4, <1>5, <1>6, SharedSame, StepOK

LEMMA EncodedStep ==
    ASSUME Inv, NEW g \in Goroutine, Encoded(g)
    PROVE  Inv'
  <1>0. TypeOK /\ LocalOK(g)
    BY DEF Inv
  <1>1. /\ UNCHANGED <<encoderCache, fieldCache, f, released, stack>>
        /\ pc' = [pc EXCEPT ![g] = "end"]
        /\ arg' = [arg EXCEPT ![g] = NoType]
        /\ ref' = [ref EXCEPT ![g] = "real"]
        /\ depth' = [depth EXCEPT ![g] = 0]
    BY DEF Encoded, Go
  <1>2. pc'[g] = "end"
    BY <1>0, <1>1 DEF TypeOK
  <1>3. LocalOK(g)'
    BY <1>0, <1>1, <1>2 DEF LocalOK, InCall
  <1>4. TypeOK'
    BY <1>0, <1>1, CacheAssumption DEF TypeOK, Ref
  <1>5. \A h \in Goroutine \ {g} : UNCHANGED <<stack[h], pc[h], arg[h], ref[h]>>
    BY <1>0, <1>1 DEF TypeOK
  <1> QED
    BY <1>1, <1>3, <1>4, <1>5, SharedSame, StepOK

LEMMA MarshalStep ==
    ASSUME Inv, NEW g \in Goroutine, NEW t \in Type, Marshal(g, t)
    PROVE  Inv'
  <1>0. TypeOK /\ LocalOK(g)
    BY DEF Inv
  <1>1. /\ UNCHANGED <<encoderCache, fieldCache, f, released, stack, ref, depth>>
        /\ arg' = [arg EXCEPT ![g] = t] /\ pc' = [pc EXCEPT ![g] = "load"]
        /\ stack[g] = <<>>
    BY <1>0 DEF Marshal, Go, LocalOK
  <1>2. pc'[g] = "load" /\ arg'[g] = t
    BY <1>0, <1>1 DEF TypeOK
  <1>3. LocalOK(g)'
    BY <1>0, <1>1, <1>2 DEF LocalOK, InCall
  <1>4. TypeOK'
    BY <1>0, <1>1 DEF TypeOK
  <1>5. \A h \in Goroutine \ {g} : UNCHANGED <<stack[h], pc[h], arg[h], ref[h]>>
    BY <1>0, <1>1 DEF TypeOK
  <1> QED
    BY <1>1, <1>3, <1>4, <1>5, SharedSame, StepOK

LEMMA InitInv == Init => Inv
  <1> SUFFICES ASSUME Init PROVE Inv
    OBVIOUS
  <1>1. TypeOK
    BY CacheAssumption DEF Init, TypeOK, Ref
  <1>2. SharedOK
    BY DEF Init, SharedOK
  <1>3. ASSUME NEW g \in Goroutine PROVE LocalOK(g)
    BY DEF Init, LocalOK, StackOK, InCall
  <1> QED
    BY <1>1, <1>2, <1>3 DEF Inv

LEMMA NextInv == Inv /\ [Next]_vars => Inv'
  <1> SUFFICES ASSUME Inv, [Next]_vars PROVE Inv'
    OBVIOUS
  <1>1. ASSUME NEW g \in Goroutine, Step(g) PROVE Inv'
    <2>1. CASE Load(g)
      BY <2>1, LoadStep
    <2>2. CASE LoadOrStore(g)
      BY <2>2, LoadOrStoreStep
    <2>3. CASE Build(g)
      BY <2>3, BuildStep
    <2>4. CASE Assign(g)
      BY <2>4, AssignStep
    <2>5. CASE Release(g)
      BY <2>5, ReleaseStep
    <2>6. CASE Publish(g)
      BY <2>6, PublishStep
    <2>7. CASE FieldsLoad(g)
      BY <2>7, FieldsLoadStep
    <2>8. CASE FieldsStore(g)
      BY <2>8, FieldsStoreStep
    <2>9. CASE Decoded(g)
      BY <2>9, DecodedStep
    <2>10. CASE Call(g)
      BY <2>10, CallStep
    <2>11. CASE Descend(g)
      BY <2>11, DescendStep
    <2>12. CASE DescendIface(g)
      BY <2>12, DescendIfaceStep
    <2>13. CASE Encoded(g)
      BY <2>13, EncodedStep
    <2> QED
      BY <1>1, <2>1, <2>2, <2>3, <2>4, <2>5, <2>6, <2>7, <2>8, <2>9, <2>10, <2>11, <2>12, <2>13
         DEF Step
  <1>2. ASSUME NEW g \in Goroutine, NEW t \in Type, Marshal(g, t) \/ Unmarshal(g, t) PROVE Inv'
    BY <1>2, MarshalStep, UnmarshalStep
  <1>3. CASE UNCHANGED vars
    <2>1. TypeOK' /\ SharedOK'
      BY <1>3 DEF Inv, TypeOK, SharedOK, vars
    <2>2. ASSUME NEW g \in Goroutine PROVE LocalOK(g)'
      BY <1>3 DEF Inv, LocalOK, Top, vars
    <2> QED
      BY <2>1, <2>2 DEF Inv
  <1> QED
    BY <1>1, <1>2, <1>3 DEF Next

-----------------------------------------------------------------------------
(* Who builds which encoder.                                               *)

\* The builders of a type have its indirect function in the cache.
Claimed == \A g \in Goroutine, t \in Type : Builds(g, t) => encoderCache[t] # "none"

\* The calls on a stack, without what they have collected.
SameCalls(s, w) ==
    \A k \in 1 .. Len(w) : k <= Len(s) /\ w[k].kind = s[k].kind /\ w[k].type = s[k].type

LEMMA WithRefsCalls ==
    ASSUME NEW s \in Seq(Frame), s # <<>>, NEW r \in Seq(Ref)
    PROVE  SameCalls(s, WithRefs(s, r))
  <1> DEFINE w == WithRefs(s, r)
  <1>1. /\ w \in Seq(Frame) /\ Len(w) = Len(s) /\ Len(s) \in Nat \ {0}
        /\ w[Len(s)] = [s[Len(s)] EXCEPT !.refs = r]
        /\ \A k \in 1 .. Len(s) - 1 : w[k] = s[k]
    BY WithRefsFacts
  <1> HIDE DEF w
  <1>2. s[Len(s)] \in Frame
    BY <1>1
  <1>3. w[Len(s)].type = s[Len(s)].type /\ w[Len(s)].kind = s[Len(s)].kind
    BY <1>1, <1>2 DEF Frame
  <1>4. \A k \in 1 .. Len(w) : k = Len(s) \/ k \in 1 .. Len(s) - 1
    BY <1>1
  <1>5. ASSUME NEW k \in 1 .. Len(w)
        PROVE  k <= Len(s) /\ w[k].kind = s[k].kind /\ w[k].type = s[k].type
    <2>0. Len(s) \in Nat
      OBVIOUS
    <2>1. CASE k = Len(s)
      <3>1. k <= Len(s)
        BY <2>0, <2>1
      <3> QED
        BY <1>3, <2>1, <3>1, Zenon
    <2>2. CASE k \in 1 .. Len(s) - 1
      <3>1. w[k] = s[k]
        BY <1>1, <2>2
      <3> QED
        BY <2>0, <2>2, <3>1
    <2> QED
      BY <1>4, <2>1, <2>2
  <1> QED
    BY <1>5 DEF SameCalls, w

\* The stack of one goroutine changes to one with the same calls, or fewer.
LEMMA CallsBuild ==
    ASSUME TypeOK, NEW g \in Goroutine, NEW w \in Seq(Frame), SameCalls(stack[g], w),
           stack' = [stack EXCEPT ![g] = w], NEW h \in Goroutine, NEW t \in Type, Builds(h, t)'
    PROVE  Builds(h, t)
  <1>1. PICK i \in DOMAIN stack'[h] : stack'[h][i].kind = "encoder" /\ stack'[h][i].type = t
    BY DEF Builds
  <1>2. CASE h # g
    <2>1. stack'[h] = stack[h]
      BY <1>2 DEF TypeOK
    <2> QED
      BY <1>1, <2>1 DEF Builds
  <1>3. CASE h = g
    <2>1. stack'[h] = w /\ stack[g] \in Seq(Frame)
      BY <1>3 DEF TypeOK
    <2>2. i \in 1 .. Len(w) /\ w[i].kind = "encoder" /\ w[i].type = t
      BY <1>1, <2>1
    <2>3. i \in 1 .. Len(stack[g]) /\ stack[g][i].kind = "encoder" /\ stack[g][i].type = t
      BY <2>1, <2>2 DEF SameCalls
    <2> QED
      BY <1>3, <2>1, <2>3 DEF Builds
  <1> QED
    BY <1>2, <1>3

\* What typeEncoder's return does to the calls.
LEMMA ReturnBuilds ==
    ASSUME TypeOK, NEW g \in Goroutine, NEW r \in Ref, NEW s \in Seq(Frame),
           SameCalls(stack[g], s), Return(g, r, s),
           NEW h \in Goroutine, NEW t \in Type, Builds(h, t)'
    PROVE  Builds(h, t)
  <1>1. CASE s = <<>>
    <2>1. stack' = [stack EXCEPT ![g] = s]
      BY <1>1 DEF Return
    <2> QED
      BY <2>1, CallsBuild
  <1>2. CASE s # <<>>
    <2> DEFINE rs == Append(s[Len(s)].refs, r)
               w == WithRefs(s, rs)
    <2>1. s[Len(s)] \in Frame
      BY <1>2
    <2>2. rs \in Seq(Ref)
      BY <2>1 DEF Frame
    <2>3. w \in Seq(Frame) /\ Len(w) = Len(s) /\ Len(s) \in Nat /\ SameCalls(s, w)
      BY <1>2, <2>2, WithRefsFacts, WithRefsCalls
    <2>4. stack' = [stack EXCEPT ![g] = w]
      BY <1>2 DEF Return
    <2> HIDE DEF w, rs
    <2>5. SameCalls(stack[g], w)
      BY <2>3 DEF SameCalls
    <2> QED
      BY <2>3, <2>4, <2>5, CallsBuild
  <1> QED
    BY <1>1, <1>2

\* A step makes its goroutine the builder of a type that nobody builds or has
\* built, or it makes nobody a builder.
NewBuilder(g, h, t) == h = g /\ encoderCache[t] = "none" /\ encoderCache'[t] # "none"

LEMMA StoreBuilds ==
    ASSUME Inv, NEW g \in Goroutine, LoadOrStore(g),
           NEW h \in Goroutine, NEW t \in Type, Builds(h, t)'
    PROVE  Builds(h, t) \/ NewBuilder(g, h, t)
  <1>0. TypeOK /\ stack[g] \in Seq(Frame) /\ arg[g] \in Type
    BY DEF Inv, TypeOK, LocalOK, LoadOrStore
  <1>1. CASE encoderCache[arg[g]] \in Ref /\ Return(g, encoderCache[arg[g]], stack[g])
    <2>1. SameCalls(stack[g], stack[g])
      BY <1>0 DEF SameCalls
    <2> QED
      BY <1>0, <1>1, <2>1, ReturnBuilds
  <1>2. CASE encoderCache[arg[g]] \notin Ref
    <2> DEFINE fr == [kind |-> "encoder", type |-> arg[g], refs |-> <<>>]
               w == Append(stack[g], fr)
    <2>1. /\ encoderCache' = [encoderCache EXCEPT ![arg[g]] = "indirect"]
          /\ stack' = [stack EXCEPT ![g] = w]
      BY <1>2 DEF LoadOrStore
    <2>2. fr \in Frame /\ fr.type = arg[g]
      BY <1>0 DEF Frame
    <2>3. /\ w \in Seq(Frame) /\ Len(w) = Len(stack[g]) + 1 /\ Len(stack[g]) \in Nat
          /\ w[Len(stack[g]) + 1] = fr
          /\ \A k \in 1 .. Len(stack[g]) : w[k] = stack[g][k]
      BY <1>0, <2>2, PushFacts
    <2> HIDE DEF w, fr
    <2>4. PICK i \in DOMAIN stack'[h] : stack'[h][i].kind = "encoder" /\ stack'[h][i].type = t
      BY DEF Builds
    <2>5. CASE h # g
      <3>1. stack'[h] = stack[h]
        BY <1>0, <2>1, <2>5 DEF TypeOK
      <3> QED
        BY <2>4, <3>1 DEF Builds
    <2>6. CASE h = g /\ i = Len(stack[g]) + 1
      <3>1. stack'[h] = w
        BY <1>0, <2>1, <2>6 DEF TypeOK
      <3>2. t = arg[g]
        BY <2>2, <2>3, <2>4, <2>6, <3>1
      <3>3. encoderCache[t] = "none" /\ encoderCache'[t] = "indirect"
        BY <1>0, <1>2, <2>1, <3>2 DEF TypeOK
      <3> QED
        BY <2>6, <3>3 DEF NewBuilder
    <2>7. CASE h = g /\ i # Len(stack[g]) + 1
      <3>1. stack'[h] = w
        BY <1>0, <2>1, <2>7 DEF TypeOK
      <3>2. i \in 1 .. Len(stack[g]) /\ stack'[h][i] = stack[g][i]
        BY <2>3, <2>4, <2>7, <3>1
      <3> QED
        BY <1>0, <2>4, <2>7, <3>2 DEF Builds
    <2> QED
      BY <2>5, <2>6, <2>7
  <1> QED
    BY <1>1, <1>2 DEF LoadOrStore

LEMMA FieldsBuilds ==
    ASSUME Inv, NEW g \in Goroutine, FieldsLoad(g) \/ FieldsStore(g),
           NEW h \in Goroutine, NEW t \in Type, Builds(h, t)'
    PROVE  Builds(h, t)
  <1>0. TypeOK /\ LocalOK(g) /\ stack[g] \in Seq(Frame)
    BY DEF Inv, TypeOK
  <1>1. stack[g] # <<>>
    BY <1>0 DEF FieldsLoad, FieldsStore, LocalOK, InCall
  <1>2. CASE UNCHANGED stack
    BY <1>2 DEF Builds
  <1> DEFINE rs == fieldCache[Top(g).type]
             w == WithRefs(stack[g], rs)
  <1>3. CASE rs # NoRefs /\ stack' = [stack EXCEPT ![g] = w]
    <2>0. Top(g).type \in Type
      BY <1>0, <1>1, TopFacts
    <2>1. rs \in Seq(Ref)
      BY <1>0, <1>3, <2>0 DEF TypeOK
    <2> HIDE DEF rs
    <2>2. w \in Seq(Frame) /\ SameCalls(stack[g], w)
      BY <1>0, <1>1, <2>1, WithRefsFacts, WithRefsCalls
    <2> HIDE DEF w
    <2> QED
      BY <1>0, <1>3, <2>2, CallsBuild
  <1> QED
    BY <1>2, <1>3 DEF FieldsLoad, FieldsStore

LEMMA OtherBuilds ==
    ASSUME Inv, NEW g \in Goroutine, Load(g) \/ Publish(g) \/ Decoded(g),
           NEW h \in Goroutine, NEW t \in Type, Builds(h, t)'
    PROVE  Builds(h, t)
  <1>0. TypeOK /\ LocalOK(g) /\ stack[g] \in Seq(Frame)
    BY DEF Inv, TypeOK
  <1>1. CASE Load(g)
    <2>1. SameCalls(stack[g], stack[g])
      BY <1>0 DEF SameCalls
    <2>2. CASE encoderCache[arg[g]] \in Ref /\ Return(g, encoderCache[arg[g]], stack[g])
      BY <1>0, <2>1, <2>2, ReturnBuilds
    <2>3. CASE UNCHANGED stack
      BY <2>3 DEF Builds
    <2> QED
      BY <1>1, <2>2, <2>3 DEF Load
  <1>2. CASE Publish(g)
    <2>1. stack[g] # <<>> /\ Return(g, "real", Pop(stack[g]))
      BY <1>0, <1>2 DEF Publish, LocalOK, InCall
    <2> DEFINE w == Pop(stack[g])
    <2>2. /\ w \in Seq(Frame) /\ Len(w) = Len(stack[g]) - 1 /\ Len(stack[g]) \in Nat \ {0}
          /\ \A k \in 1 .. Len(stack[g]) - 1 : w[k] = stack[g][k]
      BY <1>0, <2>1, PopFacts
    <2> HIDE DEF w
    <2>3. SameCalls(stack[g], w)
      BY <2>2 DEF SameCalls
    <2>4. Return(g, "real", w) /\ "real" \in Ref
      BY <2>1 DEF w, Ref
    <2> QED
      BY <1>0, <2>2, <2>3, <2>4, ReturnBuilds
  <1>3. CASE Decoded(g)
    <2>1. stack' = [stack EXCEPT ![g] = <<>>] /\ <<>> \in Seq(Frame)
      BY <1>3 DEF Decoded
    <2>2. SameCalls(stack[g], <<>>)
      BY DEF SameCalls
    <2> QED
      BY <1>0, <2>1, <2>2, CallsBuild
  <1> QED
    BY <1>1, <1>2, <1>3

LEMMA UnmarshalBuilds ==
    ASSUME Inv, NEW g \in Goroutine, NEW u \in Type, Unmarshal(g, u),
           NEW h \in Goroutine, NEW t \in Type, Builds(h, t)'
    PROVE  Builds(h, t)
  <1> DEFINE fr == [kind |-> "decoder", type |-> u, refs |-> <<>>]
  <1>0. TypeOK /\ stack' = [stack EXCEPT ![g] = <<fr>>] /\ fr.kind = "decoder"
    BY DEF Inv, Unmarshal
  <1> HIDE DEF fr
  <1>1. h # g
    <2> SUFFICES ASSUME h = g PROVE FALSE
      OBVIOUS
    <2>1. stack'[h] = <<fr>>
      BY <1>0 DEF TypeOK
    <2>2. \A i \in DOMAIN <<fr>> : <<fr>>[i].kind = "decoder"
      BY <1>0
    <2> QED
      BY <2>1, <2>2 DEF Builds
  <1>2. stack'[h] = stack[h]
    BY <1>0, <1>1 DEF TypeOK
  <1> QED
    BY <1>2 DEF Builds

LEMMA StepBuilds ==
    ASSUME Inv, NEW g \in Goroutine,
           Step(g) \/ \E u \in Type : Marshal(g, u) \/ Unmarshal(g, u),
           NEW h \in Goroutine, NEW t \in Type, Builds(h, t)'
    PROVE  Builds(h, t) \/ NewBuilder(g, h, t)
  <1>1. CASE LoadOrStore(g)
    BY <1>1, StoreBuilds
  <1>2. CASE FieldsLoad(g) \/ FieldsStore(g)
    BY <1>2, FieldsBuilds
  <1>3. CASE Load(g) \/ Publish(g) \/ Decoded(g)
    BY <1>3, OtherBuilds
  <1>4. CASE \E u \in Type : Unmarshal(g, u)
    BY <1>4, UnmarshalBuilds
  <1>5. CASE \/ Build(g) \/ Assign(g) \/ Release(g) \/ Call(g)
             \/ Descend(g) \/ DescendIface(g) \/ Encoded(g)
             \/ \E u \in Type : Marshal(g, u)
    <2>1. UNCHANGED stack
      BY <1>5 DEF Build, Assign, Release, Call, Descend, DescendIface, Encoded, Marshal
    <2> QED
      BY <2>1 DEF Builds
  <1> QED
    BY <1>1, <1>2, <1>3, <1>4, <1>5 DEF Step

\* One step of the caches.
Settles ==
    \A t \in Type :
        /\ encoderCache[t] # "none" => encoderCache'[t] \in {encoderCache[t], "real"}
        /\ fieldCache[t] # NoRefs => fieldCache'[t] = fieldCache[t]

LEMMA StepSettles ==
    ASSUME Inv, [Next]_vars
    PROVE  Settles
  <1>0. TypeOK
    BY DEF Inv
  <1>1. ASSUME NEW g \in Goroutine, LoadOrStore(g) PROVE Settles
    <2>1. arg[g] \in Type /\ fieldCache' = fieldCache
      BY <1>1 DEF Inv, LocalOK, LoadOrStore
    <2>2. \/ encoderCache' = encoderCache
          \/ /\ encoderCache[arg[g]] = "none"
             /\ encoderCache' = [encoderCache EXCEPT ![arg[g]] = "indirect"]
      BY <1>0, <1>1, <2>1 DEF LoadOrStore, TypeOK
    <2> QED
      BY <1>0, <2>1, <2>2 DEF Settles, TypeOK
  <1>2. ASSUME NEW g \in Goroutine, Publish(g) PROVE Settles
    BY <1>0, <1>2 DEF Publish, Settles, TypeOK
  <1>3. ASSUME NEW g \in Goroutine, FieldsStore(g) PROVE Settles
    BY <1>0, <1>3 DEF FieldsStore, Settles, TypeOK
  <1>4. ASSUME UNCHANGED <<encoderCache, fieldCache>> PROVE Settles
    BY <1>4 DEF Settles
  <1> QED
    BY <1>1, <1>2, <1>3, <1>4
       DEF Next, Step, Load, Build, Assign, Release, FieldsLoad, Decoded, Marshal, Unmarshal,
           Call, Descend, DescendIface, Encoded, vars

LEMMA InitBuilders == Init => Claimed /\ OneBuilder
  BY DEF Init, Claimed, OneBuilder, Builds

LEMMA NextBuilders ==
    ASSUME Inv, Claimed, OneBuilder, [Next]_vars
    PROVE  Claimed' /\ OneBuilder'
  <1>1. Settles
    BY StepSettles
  <1>2. CASE UNCHANGED vars
    BY <1>2 DEF vars, Claimed, OneBuilder, Builds
  <1>3. ASSUME NEW g \in Goroutine, Step(g) \/ \E u \in Type : Marshal(g, u) \/ Unmarshal(g, u)
        PROVE  Claimed' /\ OneBuilder'
    <2>1. ASSUME NEW h \in Goroutine, NEW t \in Type, Builds(h, t)'
          PROVE  Builds(h, t) \/ NewBuilder(g, h, t)
      BY <1>3, <2>1, StepBuilds
    <2>2. ASSUME NEW h \in Goroutine, NEW t \in Type, Builds(h, t)'
          PROVE  encoderCache'[t] # "none"
      <3>1. CASE Builds(h, t)
        BY <1>1, <3>1 DEF Claimed, Settles
      <3>2. CASE NewBuilder(g, h, t)
        BY <3>2 DEF NewBuilder
      <3> QED
        BY <2>1, <2>2, <3>1, <3>2
    <2>3. ASSUME NEW h \in Goroutine, NEW k \in Goroutine, NEW t \in Type,
                 Builds(h, t)', Builds(k, t)'
          PROVE  h = k
      BY <2>1, <2>3 DEF Claimed, OneBuilder, NewBuilder
    <2> QED
      BY <2>2, <2>3 DEF Claimed, OneBuilder
  <1> QED
    BY <1>2, <1>3 DEF Next

-----------------------------------------------------------------------------
(* Whom a goroutine waits for.                                             *)

\* An encoder that has been asked for is ready or is being built.
Served ==
    \A t \in Type : encoderCache[t] # "none" => released[t] \/ \E h \in Goroutine : Builds(h, t)

\* One of the calls on stack s builds the encoder of t.
HasCall(s, t) == \E i \in 1 .. Len(s) : s[i].kind = "encoder" /\ s[i].type = t

LEMMA BuildsCalls ==
    ASSUME TypeOK, NEW h \in Goroutine, NEW t
    PROVE  Builds(h, t) <=> HasCall(stack[h], t)
  <1>1. DOMAIN stack[h] = 1 .. Len(stack[h])
    BY DEF TypeOK
  <1> QED
    BY <1>1 DEF Builds, HasCall

LEMMA WithRefsKeeps ==
    ASSUME NEW s \in Seq(Frame), s # <<>>, NEW r \in Seq(Ref), NEW t, HasCall(s, t)
    PROVE  HasCall(WithRefs(s, r), t)
  <1> DEFINE w == WithRefs(s, r)
  <1>1. /\ w \in Seq(Frame) /\ Len(w) = Len(s) /\ Len(s) \in Nat \ {0}
        /\ w[Len(s)] = [s[Len(s)] EXCEPT !.refs = r]
        /\ \A k \in 1 .. Len(s) - 1 : w[k] = s[k]
    BY WithRefsFacts
  <1> HIDE DEF w
  <1>2. w[Len(s)].type = s[Len(s)].type /\ w[Len(s)].kind = s[Len(s)].kind
    <2>1. s[Len(s)] \in Frame
      BY <1>1
    <2> QED
      BY <1>1, <2>1 DEF Frame
  <1>3. PICK i \in 1 .. Len(s) : s[i].kind = "encoder" /\ s[i].type = t
    BY DEF HasCall
  <1>4. w[i].kind = "encoder" /\ w[i].type = t
    <2>1. CASE i = Len(s)
      BY <1>2, <1>3, <2>1
    <2>2. CASE i \in 1 .. Len(s) - 1
      BY <1>1, <1>3, <2>2
    <2> QED
      BY <1>1, <2>1, <2>2
  <1>5. HasCall(w, t)
    BY <1>1, <1>3, <1>4 DEF HasCall
  <1> QED
    BY <1>5 DEF w

LEMMA PushKeeps ==
    ASSUME NEW s \in Seq(Frame), NEW fr \in Frame, NEW t,
           HasCall(s, t) \/ (fr.kind = "encoder" /\ fr.type = t)
    PROVE  HasCall(Append(s, fr), t)
  <1> DEFINE w == Append(s, fr)
  <1>1. /\ w \in Seq(Frame) /\ Len(w) = Len(s) + 1 /\ Len(s) \in Nat
        /\ w[Len(s) + 1] = fr
        /\ \A k \in 1 .. Len(s) : w[k] = s[k]
    BY PushFacts
  <1> HIDE DEF w
  <1>2. CASE HasCall(s, t)
    <2>1. PICK i \in 1 .. Len(s) : s[i].kind = "encoder" /\ s[i].type = t
      BY <1>2 DEF HasCall
    <2>2. i \in 1 .. Len(w) /\ w[i] = s[i]
      BY <1>1
    <2>3. HasCall(w, t)
      BY <2>1, <2>2 DEF HasCall
    <2> QED
      BY <2>3 DEF w
  <1>3. CASE fr.kind = "encoder" /\ fr.type = t
    <2>1. Len(s) + 1 \in 1 .. Len(w)
      BY <1>1
    <2>2. HasCall(w, t)
      BY <1>1, <1>3, <2>1 DEF HasCall
    <2> QED
      BY <2>2 DEF w
  <1> QED
    BY <1>2, <1>3

LEMMA PopKeeps ==
    ASSUME NEW s \in Seq(Frame), s # <<>>, NEW t, HasCall(s, t), s[Len(s)].type # t
    PROVE  HasCall(Pop(s), t)
  <1> DEFINE w == Pop(s)
  <1>1. /\ w \in Seq(Frame) /\ Len(w) = Len(s) - 1 /\ Len(s) \in Nat \ {0}
        /\ \A k \in 1 .. Len(s) - 1 : w[k] = s[k]
    BY PopFacts
  <1> HIDE DEF w
  <1>2. PICK i \in 1 .. Len(s) : s[i].kind = "encoder" /\ s[i].type = t
    BY DEF HasCall
  <1>3. i \in 1 .. Len(w) /\ w[i] = s[i]
    BY <1>1, <1>2
  <1>4. HasCall(w, t)
    BY <1>2, <1>3 DEF HasCall
  <1> QED
    BY <1>4 DEF w

LEMMA ReturnKeeps ==
    ASSUME TypeOK, NEW g \in Goroutine, NEW r \in Ref, NEW s \in Seq(Frame), Return(g, r, s),
           NEW t, HasCall(s, t)
    PROVE  HasCall(stack'[g], t)
  <1>1. s # <<>>
    BY DEF HasCall
  <1> DEFINE rs == Append(s[Len(s)].refs, r)
             w == WithRefs(s, rs)
  <1>2. s[Len(s)] \in Frame
    BY <1>1
  <1>3. rs \in Seq(Ref)
    BY <1>2 DEF Frame
  <1>4. stack' = [stack EXCEPT ![g] = w]
    BY <1>1 DEF Return
  <1> HIDE DEF rs
  <1>5. HasCall(w, t)
    BY <1>1, <1>3, WithRefsKeeps
  <1> HIDE DEF w
  <1>6. stack'[g] = w
    BY <1>4 DEF TypeOK
  <1> QED
    BY <1>5, <1>6

\* Whoever builds an encoder goes on until wg.Done was called for the type.
LEMMA StepKeeps ==
    ASSUME Inv, NEW g \in Goroutine,
           Step(g) \/ \E u \in Type : Marshal(g, u) \/ Unmarshal(g, u),
           NEW t \in Type, HasCall(stack[g], t)
    PROVE  HasCall(stack'[g], t) \/ released'[t]
  <1>0. TypeOK /\ LocalOK(g) /\ stack[g] \in Seq(Frame) /\ stack[g] # <<>>
    BY DEF Inv, TypeOK, HasCall
  <1>1. CASE Load(g) \/ LoadOrStore(g)
    <2>1. CASE encoderCache[arg[g]] \in Ref /\ Return(g, encoderCache[arg[g]], stack[g])
      BY <1>0, <2>1, ReturnKeeps
    <2>2. CASE stack' = stack
      BY <2>2
    <2> DEFINE fr == [kind |-> "encoder", type |-> arg[g], refs |-> <<>>]
    <2>3. CASE pc[g] = "store" /\ stack' = [stack EXCEPT ![g] = Append(@, fr)]
      <3>1. fr \in Frame
        BY <1>0, <2>3 DEF LocalOK, Frame
      <3> HIDE DEF fr
      <3>2. stack'[g] = Append(stack[g], fr)
        BY <1>0, <2>3 DEF TypeOK
      <3> QED
        BY <1>0, <3>1, <3>2, PushKeeps
    <2> QED
      BY <1>1, <2>1, <2>2, <2>3 DEF Load, LoadOrStore
  <1>2. CASE FieldsLoad(g) \/ FieldsStore(g)
    <2> DEFINE rs == fieldCache[Top(g).type]
    <2>1. CASE rs # NoRefs /\ stack' = [stack EXCEPT ![g] = WithRefs(@, rs)]
      <3>1. Top(g).type \in Type
        BY <1>0, TopFacts
      <3>2. rs \in Seq(Ref)
        BY <1>0, <2>1, <3>1 DEF TypeOK
      <3> HIDE DEF rs
      <3>3. stack'[g] = WithRefs(stack[g], rs)
        BY <1>0, <2>1 DEF TypeOK
      <3> QED
        BY <1>0, <3>2, <3>3, WithRefsKeeps
    <2> QED
      BY <1>2, <2>1 DEF FieldsLoad, FieldsStore
  <1>3. CASE Publish(g)
    <2>1. Return(g, "real", Pop(stack[g])) /\ released'[Top(g).type] /\ "real" \in Ref
      BY <1>0, <1>3 DEF Publish, LocalOK, Ref
    <2>2. Pop(stack[g]) \in Seq(Frame)
      BY <1>0, PopFacts
    <2>3. CASE Top(g).type # t
      BY <1>0, <2>1, <2>2, <2>3, PopKeeps, ReturnKeeps DEF Top
    <2> QED
      BY <2>1, <2>3
  <1>4. CASE Decoded(g)
    <2>1. Top(g).kind = "decoder"
      BY <1>4 DEF Decoded
    <2>2. Len(stack[g]) \in Nat \ {0}
      BY <1>0
    <2>3. Len(stack[g]) = 1
      <3>1. \A k \in 2 .. Len(stack[g]) : stack[g][k].kind = "encoder"
        BY <1>0 DEF LocalOK, StackOK
      <3>2. Len(stack[g]) \notin 2 .. Len(stack[g])
        BY <2>1, <3>1 DEF Top
      <3>3. \A n \in Nat \ {0} : n \notin 2 .. n => n = 1
        OBVIOUS
      <3> QED
        BY <2>2, <3>2, <3>3, Zenon
    <2>4. ~HasCall(stack[g], t)
      BY <2>1, <2>3 DEF HasCall, Top
    <2> QED
      BY <2>4
  <1>5. CASE \E u \in Type : Unmarshal(g, u)
    BY <1>0, <1>5 DEF Unmarshal, LocalOK
  <1>6. CASE \/ Build(g) \/ Assign(g) \/ Release(g) \/ Call(g)
             \/ Descend(g) \/ DescendIface(g) \/ Encoded(g)
             \/ \E u \in Type : Marshal(g, u)
    <2>1. stack' = stack
      BY <1>6 DEF Build, Assign, Release, Call, Descend, DescendIface, Encoded, Marshal
    <2> QED
      BY <2>1
  <1> QED
    BY <1>1, <1>2, <1>3, <1>4, <1>5, <1>6 DEF Step

\* A type enters the cache with a goroutine that builds its encoder.
LEMMA StepServes ==
    ASSUME Inv, NEW g \in Goroutine,
           Step(g) \/ \E u \in Type : Marshal(g, u) \/ Unmarshal(g, u),
           NEW t \in Type, encoderCache[t] = "none", encoderCache'[t] # "none"
    PROVE  HasCall(stack'[g], t) \/ released'[t]
  <1>0. TypeOK /\ LocalOK(g) /\ stack[g] \in Seq(Frame)
    BY DEF Inv, TypeOK
  <1>1. CASE LoadOrStore(g)
    <2> DEFINE fr == [kind |-> "encoder", type |-> arg[g], refs |-> <<>>]
    <2>1. /\ encoderCache' = [encoderCache EXCEPT ![arg[g]] = "indirect"]
          /\ stack' = [stack EXCEPT ![g] = Append(@, fr)]
          /\ arg[g] \in Type
      BY <1>0, <1>1 DEF LoadOrStore, LocalOK
    <2>2. t = arg[g]
      BY <1>0, <2>1 DEF TypeOK
    <2>3. fr \in Frame /\ fr.kind = "encoder" /\ fr.type = t
      BY <2>1, <2>2 DEF Frame
    <2> HIDE DEF fr
    <2>4. stack'[g] = Append(stack[g], fr)
      BY <1>0, <2>1 DEF TypeOK
    <2> QED
      BY <1>0, <2>3, <2>4, PushKeeps
  <1>2. CASE Publish(g)
    <2>1. /\ encoderCache' = [encoderCache EXCEPT ![Top(g).type] = "real"]
          /\ released'[Top(g).type]
      BY <1>0, <1>2 DEF Publish, LocalOK
    <2>2. t = Top(g).type
      BY <1>0, <2>1 DEF TypeOK
    <2> QED
      BY <2>1, <2>2
  <1>3. CASE encoderCache' = encoderCache
    BY <1>3
  <1> QED
    BY <1>1, <1>2, <1>3
       DEF Step, Load, Build, Assign, Release, FieldsLoad, FieldsStore, Decoded, Marshal,
           Unmarshal, Call, Descend, DescendIface, Encoded

\* A step leaves the stacks of the other goroutines alone, and releases stay.
LEMMA StepFrame ==
    ASSUME Inv, NEW g \in Goroutine,
           Step(g) \/ \E u \in Type : Marshal(g, u) \/ Unmarshal(g, u)
    PROVE  /\ \A h \in Goroutine \ {g} : stack'[h] = stack[h]
           /\ \A t \in Type : released[t] => released'[t]
  <1>0. TypeOK
    BY DEF Inv
  <1>1. \/ stack' = stack
        \/ \E w : stack' = [stack EXCEPT ![g] = w]
    BY DEF Step, Load, LoadOrStore, Publish, Return, Build, Assign, Release, FieldsLoad,
           FieldsStore, Decoded, Marshal, Unmarshal, Call, Descend, DescendIface, Encoded
  <1>2. \/ released' = released
        \/ released' = [released EXCEPT ![Top(g).type] = TRUE]
    BY DEF Step, Load, LoadOrStore, Publish, Build, Assign, Release, FieldsLoad,
           FieldsStore, Decoded, Marshal, Unmarshal, Call, Descend, DescendIface, Encoded
  <1>3. \A h \in Goroutine \ {g} : stack'[h] = stack[h]
    BY <1>0, <1>1 DEF TypeOK
  <1>4. \A t \in Type : released[t] => released'[t]
    BY <1>0, <1>2 DEF TypeOK
  <1> QED
    BY <1>3, <1>4

LEMMA NextServed ==
    ASSUME Inv, Inv', Served, [Next]_vars
    PROVE  Served'
  <1>1. CASE UNCHANGED vars
    BY <1>1 DEF vars, Served, Builds
  <1>2. ASSUME NEW g \in Goroutine, Step(g) \/ \E u \in Type : Marshal(g, u) \/ Unmarshal(g, u)
        PROVE  Served'
    <2>0. TypeOK /\ TypeOK'
      BY DEF Inv
    <2>1. ASSUME NEW t \in Type, encoderCache'[t] # "none"
          PROVE  released'[t] \/ \E h \in Goroutine : HasCall(stack'[h], t)
      <3>1. CASE encoderCache[t] = "none"
        BY <1>2, <2>1, <3>1, StepServes
      <3>2. CASE released[t]
        BY <1>2, <3>2, StepFrame
      <3>3. CASE encoderCache[t] # "none" /\ ~released[t]
        <4>1. PICK h \in Goroutine : HasCall(stack[h], t)
          BY <2>0, <3>3, BuildsCalls DEF Served
        <4>2. CASE h = g
          BY <1>2, <4>1, <4>2, StepKeeps
        <4>3. CASE h # g
          BY <1>2, <4>1, <4>3, StepFrame
        <4> QED
          BY <4>2, <4>3
      <3> QED
        BY <3>1, <3>2, <3>3
    <2>2. ASSUME NEW t \in Type, NEW h \in Goroutine, HasCall(stack'[h], t)
          PROVE  Builds(h, t)'
      <3>1. DOMAIN stack'[h] = 1 .. Len(stack'[h])
        BY <2>0 DEF TypeOK
      <3> QED
        BY <2>2, <3>1 DEF Builds, HasCall
    <2> QED
      BY <2>1, <2>2 DEF Served
  <1> QED
    BY <1>1, <1>2 DEF Next

LEMMA ServedNoCircle ==
    ASSUME Inv, Served
    PROVE  WaitedForIsBuilt
  <1> SUFFICES ASSUME NEW g \in Goroutine, Waits(g)
               PROVE  \E h \in Goroutine : Builds(h, arg[g]) /\ ~Waits(h)
    BY DEF WaitedForIsBuilt
  <1>1. LocalOK(g) /\ pc[g] = "call"
    BY DEF Inv, Waits
  <1>2. arg[g] \in Type /\ encoderCache[arg[g]] # "none" /\ ~released[arg[g]]
    BY <1>1 DEF LocalOK, GoodRef, Waits
  <1>3. PICK h \in Goroutine : Builds(h, arg[g])
    BY <1>2 DEF Served
  <1>4. LocalOK(h) /\ stack[h] # <<>>
    BY <1>3 DEF Inv, Builds
  <1>5. ~Waits(h)
    BY <1>4 DEF LocalOK, Waits
  <1> QED
    BY <1>3, <1>5

-----------------------------------------------------------------------------
(* Theorems.                                                               *)

\* The invariant holds in every reachable state, for any types and goroutines.
THEOREM Invariance == Spec => []Inv
  BY InitInv, NextInv, PTL DEF Spec

\* Type correctness of the caches and of the goroutines' stacks.
THEOREM TypeCorrect == Spec => []TypeOK
  <1>1. Inv => TypeOK
    BY DEF Inv
  <1> QED
    BY <1>1, Invariance, PTL

\* typeEncoder's f is never called while it is nil, whichever way a goroutine
\* got hold of the function: wg.Done comes after the assignment, and nobody
\* keeps the real function of a type that is not released.
THEOREM NoNilCall == Spec => []NeverNil
  <1>1. Inv => NeverNil
    BY DEF Inv, LocalOK, NeverNil
  <1> QED
    BY <1>1, Invariance, PTL

\* LoadOrStore lets one goroutine build the encoder of a type.
THEOREM SingleBuilder == Spec => []OneBuilder
  <1>1. Init => Claimed /\ OneBuilder
    BY InitBuilders
  <1>2. Inv /\ (Claimed /\ OneBuilder) /\ [Next]_vars => (Claimed /\ OneBuilder)'
    BY NextBuilders
  <1> QED
    BY <1>1, <1>2, Invariance, PTL DEF Spec

\* The safety part of CallsReturn: no circle of goroutines in the wg.Wait of
\* the indirect functions, and none left waiting for an encoder that nobody
\* builds, for any types.
THEOREM NoWaitingCircle == Spec => []WaitedForIsBuilt
  <1>1. Init => Served
    BY DEF Init, Served
  <1>2. Inv /\ Inv' /\ Served /\ [Next]_vars => Served'
    BY NextServed
  <1>3. Inv /\ Served => WaitedForIsBuilt
    BY ServedNoCircle
  <1> QED
    BY <1>1, <1>2, <1>3, Invariance, PTL DEF Spec

\* Entries of encoderCache and fieldCache are never taken back.
THEOREM Settling == Spec => CachesSettle
  <1>1. Inv /\ [Next]_vars => [Settles]_vars
    BY StepSettles
  <1>2. CachesSettle <=> [][Settles]_vars
    BY PTL DEF CachesSettle, Settles
  <1> QED
    BY <1>1, <1>2, Invariance, PTL DEF Spec
=============================================================================
