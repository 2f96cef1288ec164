---------------------------- MODULE EncoderCache ----------------------------
(***************************************************************************)
(* The two caches of package bencode that all goroutines share             *)
(* (bencode/encode.go): encoderCache, from a type to the function that     *)
(* encodes it, and fieldCache, from a struct type to its fields.  Each     *)
(* announce, each torrent and each DHT message goes through them.          *)
(*                                                                         *)
(* The encoder of a type holds the encoders of the types it is made of.    *)
(* Types may contain themselves, so typeEncoder first stores an indirect   *)
(* function that waits for the real one, and whoever asks meanwhile gets   *)
(* the indirect one and keeps it.  A sync.Map operation is one step;       *)
(* everything between two of them interleaves.                             *)
(***************************************************************************)
EXTENDS Naturals, Sequences

CONSTANTS
    Goroutine,
    Type,
    Struct,     \* the struct types
    Iface,      \* the interface types
    Child,      \* the types a type is made of, in order
    NoRefs,     \* no entry in fieldCache, or a variable f not assigned yet
    NoType,
    MaxDepth    \* bound on the nesting of a value that is encoded

\* An encoderFunc of a known type: the real one, or the indirect one.
Ref == {"indirect", "real"}

ASSUME CacheAssumption ==
    /\ Struct \subseteq Type
    /\ Iface \subseteq Type
    /\ Child \in [Type -> Seq(Type)]
    /\ NoRefs \notin Seq(Ref)
    /\ NoType \notin Type
    /\ MaxDepth \in Nat

VARIABLES
    encoderCache,   \* "none", or the Ref stored for a type
    fieldCache,     \* NoRefs, or the encoders of the fields of a struct type
    f,              \* what typeEncoder's variable f of a type holds
    released,       \* wg.Done was called for the type
    stack,          \* of each goroutine, the calls under way: [kind, type, refs]
    pc,             \* of each goroutine, what it does next
    arg, ref,       \* the type it asks for or encodes, and the function it calls
    depth           \* how deep in the value its encoding is

vars == <<encoderCache, fieldCache, f, released, stack, pc, arg, ref, depth>>

Top(g) == stack[g][Len(stack[g])]
Pop(s) == SubSeq(s, 1, Len(s) - 1)

\* The call on top has collected the encoders r so far.
WithRefs(s, r) == [s EXCEPT ![Len(s)].refs = r]

Go(g, p) == pc' = [pc EXCEPT ![g] = p]

-----------------------------------------------------------------------------
(* typeEncoder(arg).                                                       *)

\* typeEncoder returns function r: to newTypeEncoder or typeFields, which go
\* on with the next type, or to Marshal, which calls it.
Return(g, r, s) ==
    IF s = <<>>
    THEN /\ stack' = [stack EXCEPT ![g] = s]
         /\ ref' = [ref EXCEPT ![g] = r]
         /\ Go(g, "call")
    ELSE /\ stack' = [stack EXCEPT ![g] = WithRefs(s, Append(s[Len(s)].refs, r))]
         /\ Go(g, "build")
         /\ UNCHANGED ref

Load(g) ==
    /\ pc[g] = "load"
    /\ IF encoderCache[arg[g]] \in Ref
       THEN Return(g, encoderCache[arg[g]], stack[g])
       ELSE Go(g, "store") /\ UNCHANGED <<stack, ref>>
    /\ UNCHANGED <<encoderCache, fieldCache, f, released, arg, depth>>

\* Variant for mutation: Store instead of LoadOrStore.
StoreAnyway(g) ==
    /\ pc[g] = "store"
    /\ encoderCache' = [encoderCache EXCEPT ![arg[g]] = "indirect"]
    /\ stack' = [stack EXCEPT ![g] =
                    Append(@, [kind |-> "encoder", type |-> arg[g], refs |-> <<>>])]
    /\ Go(g, IF arg[g] \in Struct THEN "fieldsLoad" ELSE "build")
    /\ UNCHANGED <<fieldCache, f, released, arg, ref, depth>>

LoadOrStore(g) ==
    /\ pc[g] = "store"
    /\ IF encoderCache[arg[g]] \in Ref
       THEN /\ Return(g, encoderCache[arg[g]], stack[g])
            /\ UNCHANGED encoderCache
       ELSE /\ encoderCache' = [encoderCache EXCEPT ![arg[g]] = "indirect"]
            /\ stack' = [stack EXCEPT ![g] =
                            Append(@, [kind |-> "encoder", type |-> arg[g], refs |-> <<>>])]
            /\ Go(g, IF arg[g] \in Struct THEN "fieldsLoad" ELSE "build")
            /\ UNCHANGED ref
    /\ UNCHANGED <<fieldCache, f, released, arg, depth>>

\* Variant for mutation: wg.Done is called before f is assigned.
BuildReleasing(g) ==
    /\ pc[g] = "build"
    /\ LET t == Top(g).type
           n == Len(Top(g).refs)
       IN  /\ IF n < Len(Child[t])
              THEN arg' = [arg EXCEPT ![g] = Child[t][n + 1]] /\ Go(g, "load")
              ELSE Go(g, IF t \in Struct THEN "fieldsStore" ELSE "built") /\ UNCHANGED arg
           /\ released' = [released EXCEPT ![t] = TRUE]
    /\ UNCHANGED <<encoderCache, fieldCache, f, stack, ref, depth>>

\* newTypeEncoder asks for the next type it needs.
Build(g) ==
    /\ pc[g] = "build"
    /\ LET t == Top(g).type
           n == Len(Top(g).refs)
       IN  IF n < Len(Child[t])
           THEN arg' = [arg EXCEPT ![g] = Child[t][n + 1]] /\ Go(g, "load")
           ELSE Go(g, IF t \in Struct THEN "fieldsStore" ELSE "built") /\ UNCHANGED arg
    /\ UNCHANGED <<encoderCache, fieldCache, f, released, stack, ref, depth>>

\* f = newTypeEncoder(t, true)
Assign(g) ==
    /\ pc[g] = "built"
    /\ Top(g).kind = "encoder"
    /\ f' = [f EXCEPT ![Top(g).type] = Top(g).refs]
    /\ Go(g, "release")
    /\ UNCHANGED <<encoderCache, fieldCache, released, stack, arg, ref, depth>>

\* Variant for mutation: wg.Done is forgotten.
ReleaseNever(g) ==
    /\ pc[g] = "release"
    /\ Go(g, "publish")
    /\ UNCHANGED <<encoderCache, fieldCache, f, released, stack, arg, ref, depth>>

\* wg.Done()
Release(g) ==
    /\ pc[g] = "release"
    /\ released' = [released EXCEPT ![Top(g).type] = TRUE]
    /\ Go(g, "publish")
    /\ UNCHANGED <<encoderCache, fieldCache, f, stack, arg, ref, depth>>

\* encoderCache.Store(t, f); return f.  The type is now the one asked for.
Publish(g) ==
    /\ pc[g] = "publish"
    /\ encoderCache' = [encoderCache EXCEPT ![Top(g).type] = "real"]
    /\ arg' = [arg EXCEPT ![g] = Top(g).type]
    /\ Return(g, "real", Pop(stack[g]))
    /\ UNCHANGED <<fieldCache, f, released, depth>>

-----------------------------------------------------------------------------
(* cachedTypeFields(t), called to build the encoder of a struct and by the *)
(* decoder.                                                                *)

FieldsLoad(g) ==
    /\ pc[g] = "fieldsLoad"
    /\ LET t == Top(g).type
       IN  IF fieldCache[t] = NoRefs
           THEN Go(g, "build") /\ UNCHANGED stack
           ELSE /\ stack' = [stack EXCEPT ![g] = WithRefs(@, fieldCache[t])]
                /\ Go(g, "built")
    /\ UNCHANGED <<encoderCache, fieldCache, f, released, arg, ref, depth>>

\* Variant for mutation: Store instead of LoadOrStore.
FieldsOverwrite(g) ==
    /\ pc[g] = "fieldsStore"
    /\ fieldCache' = [fieldCache EXCEPT ![Top(g).type] = Top(g).refs]
    /\ Go(g, "built")
    /\ UNCHANGED <<encoderCache, f, released, stack, arg, ref, depth>>

\* fieldCache.LoadOrStore(t, typeFields(t)): of several goroutines that have
\* computed the fields, all go on with those of the first.
FieldsStore(g) ==
    /\ pc[g] = "fieldsStore"
    /\ LET t == Top(g).type
       IN  IF fieldCache[t] = NoRefs
           THEN fieldCache' = [fieldCache EXCEPT ![t] = Top(g).refs] /\ UNCHANGED stack
           ELSE stack' = [stack EXCEPT ![g] = WithRefs(@, fieldCache[t])] /\ UNCHANGED fieldCache
    /\ Go(g, "built")
    /\ UNCHANGED <<encoderCache, f, released, arg, ref, depth>>

\* The decoder has its fields.
Decoded(g) ==
    /\ pc[g] = "built"
    /\ Top(g).kind = "decoder"
    /\ stack' = [stack EXCEPT ![g] = <<>>]
    /\ Go(g, "end")
    /\ UNCHANGED <<encoderCache, fieldCache, f, released, arg, ref, depth>>

-----------------------------------------------------------------------------
(* The callers.  Of an encoding only one path down the value is followed:  *)
(* it changes nothing that others see.                                     *)

\* reflect.ValueOf(v) is what an interface{} holds, never itself an interface.
Marshal(g, t) ==
    /\ pc[g] = "idle"
    /\ t \notin Iface
    /\ arg' = [arg EXCEPT ![g] = t]
    /\ Go(g, "load")
    /\ UNCHANGED <<encoderCache, fieldCache, f, released, stack, ref, depth>>

Unmarshal(g, t) ==
    /\ pc[g] = "idle"
    /\ t \in Struct
    /\ stack' = [stack EXCEPT ![g] = <<[kind |-> "decoder", type |-> t, refs |-> <<>>]>>]
    /\ Go(g, "fieldsLoad")
    /\ UNCHANGED <<encoderCache, fieldCache, f, released, arg, ref, depth>>

\* The indirect function waits for the real one.
Call(g) ==
    /\ pc[g] = "call"
    /\ ref[g] = "indirect" => released[arg[g]]
    /\ Go(g, "run")
    /\ UNCHANGED <<encoderCache, fieldCache, f, released, stack, arg, ref, depth>>

\* f(e, v) calls the encoder of a part of the value, or is done with it.
Descend(g) ==
    /\ pc[g] = "run"
    /\ depth[g] < MaxDepth
    /\ \E i \in DOMAIN f[arg[g]] :
        /\ arg' = [arg EXCEPT ![g] = Child[arg[g]][i]]
        /\ ref' = [ref EXCEPT ![g] = f[arg[g]][i]]
    /\ depth' = [depth EXCEPT ![g] = @ + 1]
    /\ Go(g, "call")
    /\ UNCHANGED <<encoderCache, fieldCache, f, released, stack>>

\* interfaceEncoder calls reflectValue with the value in the interface: the
\* encoder of its type is asked for in the middle of the encoding.
DescendIface(g) ==
    /\ pc[g] = "run"
    /\ arg[g] \in Iface
    /\ \E t \in Type \ Iface : arg' = [arg EXCEPT ![g] = t]
    /\ Go(g, "load")
    /\ UNCHANGED <<encoderCache, fieldCache, f, released, stack, ref, depth>>

\* Marshal returns, and its variables are gone.
Encoded(g) ==
    /\ pc[g] = "run"
    /\ Go(g, "end")
    /\ arg' = [arg EXCEPT ![g] = NoType]
    /\ ref' = [ref EXCEPT ![g] = "real"]
    /\ depth' = [depth EXCEPT ![g] = 0]
    /\ UNCHANGED <<encoderCache, fieldCache, f, released, stack>>

-----------------------------------------------------------------------------

Init ==
    /\ encoderCache = [t \in Type |-> "none"]
    /\ fieldCache = [t \in Type |-> NoRefs]
    /\ f = [t \in Type |-> NoRefs]
    /\ released = [t \in Type |-> FALSE]
    /\ stack = [g \in Goroutine |-> <<>>]
    /\ pc = [g \in Goroutine |-> "idle"]
    /\ arg = [g \in Goroutine |-> NoType]
    /\ ref = [g \in Goroutine |-> "real"]
    /\ depth = [g \in Goroutine |-> 0]

\* A step of a goroutine that is in a call.
Step(g) ==
    \/ Load(g) \/ LoadOrStore(g) \/ Build(g) \/ Assign(g) \/ Release(g) \/ Publish(g)
    \/ FieldsLoad(g) \/ FieldsStore(g) \/ Decoded(g)
    \/ Call(g) \/ Descend(g) \/ DescendIface(g) \/ Encoded(g)

Next ==
    \E g \in Goroutine : Step(g) \/ \E t \in Type : Marshal(g, t) \/ Unmarshal(g, t)

\* The scheduler runs every goroutine that can run.
Spec == Init /\ [][Next]_vars /\ \A g \in Goroutine : WF_vars(Step(g))

-----------------------------------------------------------------------------
(* Properties.                                                             *)

Frame == [kind : {"encoder", "decoder"}, type : Type, refs : Seq(Ref)]

\* Every variable has its type.
TypeOK ==
    /\ encoderCache \in [Type -> Ref \cup {"none"}]
    /\ fieldCache \in [Type -> Seq(Ref) \cup {NoRefs}]
    /\ f \in [Type -> Seq(Ref) \cup {NoRefs}]
    /\ released \in [Type -> BOOLEAN]
    /\ stack \in [Goroutine -> Seq(Frame)]
    /\ pc \in [Goroutine -> {"idle", "load", "store", "build", "built", "release", "publish",
                             "fieldsLoad", "fieldsStore", "call", "run", "end"}]
    /\ arg \in [Goroutine -> Type \cup {NoType}]
    /\ ref \in [Goroutine -> Ref]
    /\ depth \in [Goroutine -> 0 .. MaxDepth]

\* No goroutine calls typeEncoder's f before newTypeEncoder has returned it,
\* be it through the cache, an indirect function it kept or its own result.
NeverNil == \A g \in Goroutine : pc[g] = "run" => f[arg[g]] # NoRefs

Builds(g, t) ==
    \E i \in DOMAIN stack[g] : stack[g][i].kind = "encoder" /\ stack[g][i].type = t

\* The encoder of a type is built once, by one goroutine, even when several
\* miss the cache at the same time: so every indirect function that was handed
\* out is the one whose wait ends.
OneBuilder ==
    \A g, h \in Goroutine, t \in Type : Builds(g, t) /\ Builds(h, t) => g = h

\* g is in wg.Wait, in an indirect function it was handed.
Waits(g) == pc[g] = "call" /\ ref[g] = "indirect" /\ ~released[arg[g]]

\* Nobody waits in vain or in a circle, however the types contain each other:
\* an encoder that is waited for is being built by a goroutine that does not
\* itself wait, because indirect functions are only called once nothing is
\* being built.
WaitedForIsBuilt ==
    \A g \in Goroutine :
        Waits(g) => \E h \in Goroutine : Builds(h, arg[g]) /\ ~Waits(h)

\* What a cache has once returned stays: an encoder is not taken back or made
\* indirect again, and the fields of a type never change.
CachesSettle ==
    [][\A t \in Type :
        /\ encoderCache[t] # "none" => encoderCache'[t] \in {encoderCache[t], "real"}
        /\ fieldCache[t] # NoRefs => fieldCache'[t] = fieldCache[t]]_vars

\* Every call of Marshal and Unmarshal returns: a goroutine that waits for
\* another to build an encoder is never waited for in turn.
CallsReturn == \A g \in Goroutine : pc[g] # "idle" ~> pc[g] = "end"
=============================================================================
