-------------------------- MODULE DescriptorProofs --------------------------
(***************************************************************************)
(* Proofs about Descriptor and BuildMessage, for any schema, any types and *)
(* any number of loads.  BuildInv, the loop invariant of build_message,    *)
(* says what a call has set after some of its fields.  LoadInv says which  *)
(* load each member of the Descriptor belongs to, between the three        *)
(* assignments of load_json too.                                           *)
(***************************************************************************)
EXTENDS Descriptor, SequenceTheorems, TLAPS

(* Shown and Legible, of the fields before f only.                         *)
ShownBefore(t, f) ==
    {i \in Fields(t) :
        /\ i < f
        /\ IsMessage(FieldOf(t, i))
        /\ \A k \in Siblings(t, i) :
              (i < k /\ k < f) => ~IsMessage(FieldOf(t, k))}

LegibleBefore(t, f) ==
    CASE Schema[t].kind = "timestamp" -> {<<<<>>, "now">>}
      [] Schema[t].kind = "map_entry" ->
            {<<<<i>>, IF i = 1 THEN "Key" ELSE "Val">> :
                i \in {k \in Fields(t) : k < f /\ FieldOf(t, k).type = "string"}}
      [] Schema[t].kind = "plain" -> {}

Sub(t, i) == Placed(t, i, Legible(FieldOf(t, i).type))

SetBefore(t, f) ==
    IF Schema[t].kind = "timestamp" THEN LegibleBefore(t, f)
    ELSE LegibleBefore(t, f) \cup UNION {Sub(t, i) : i \in ShownBefore(t, f)}

CallInv(call) ==
    /\ call = [type |-> call.type, field |-> call.field, message |-> call.message]
    /\ call.type \in DOMAIN Schema
    /\ call.field \in Nat \ {0}

BuildInv ==
    \/ stack = <<>>
    \/ \E outer : /\ stack = <<outer>>
                  /\ CallInv(outer)
                  /\ outer.message = SetBefore(outer.type, outer.field)
    \/ \E outer, inner :
          /\ stack = <<outer, inner>>
          /\ CallInv(outer)
          /\ outer.message = SetBefore(outer.type, outer.field)
          /\ ~Complete(outer)
          /\ CallInv(inner)
          /\ IsMessage(FieldOf(outer.type, outer.field))
          /\ inner.type = FieldOf(outer.type, outer.field).type
          /\ inner.message = LegibleBefore(inner.type, inner.field)

(* What the constants are.                                                 *)
LEMMA SchemaFacts ==
    ASSUME NEW t \in DOMAIN Schema
    PROVE  /\ Schema[t].kind \in {"plain", "timestamp", "map_entry"}
           /\ Fields(t) = 1..Len(Schema[t].fields)
           /\ Len(Schema[t].fields) \in Nat
           /\ \A i \in Fields(t) : FieldOf(t, i) \in Field
           /\ Schema[t].kind = "map_entry" =>
                 \A i \in Fields(t) : FieldOf(t, i).oneof = 0
<1>1. Schema[t].fields \in Seq(Field)
  BY BuildMessageAssumption
<1> QED
  BY <1>1, BuildMessageAssumption DEF Kinds, Fields, FieldOf

LEMMA LegiblePaths ==
    ASSUME NEW t \in DOMAIN Schema, NEW fact \in Legible(t)
    PROVE  fact[1] \in Seq(Nat)
<1>1. CASE Schema[t].kind = "timestamp"
  <2>1. fact = <<<<>>, "now">>
    BY <1>1 DEF Legible
  <2>2. fact[1] = <<>>
    BY <2>1
  <2> QED
    BY <2>2
<1>2. CASE Schema[t].kind = "map_entry"
  <2>1. PICK i \in Fields(t) : fact[1] = <<i>>
    BY <1>2 DEF Legible
  <2> QED
    BY <2>1, SchemaFacts
<1>3. CASE Schema[t].kind = "plain"
  BY <1>3 DEF Legible
<1> QED
  BY <1>1, <1>2, <1>3, SchemaFacts

(* Everything in field i is on a path that begins with i.                  *)
LEMMA PlacedPaths ==
    ASSUME NEW t \in DOMAIN Schema, NEW i \in Fields(t),
           IsMessage(FieldOf(t, i)),
           NEW fact \in Sub(t, i)
    PROVE  fact[1][1] = i
<1> DEFINE u == FieldOf(t, i).type
<1>1. CASE fact = <<<<i>>, IF FieldOf(t, i).repeated THEN "element" ELSE "message">>
  BY <1>1
<1>2. ASSUME NEW g \in Legible(u), fact = <<<<i>> \o g[1], g[2]>>
      PROVE  fact[1][1] = i
  <2>1. g[1] \in Seq(Nat) /\ i \in Nat
    BY LegiblePaths, SchemaFacts DEF IsMessage
  <2>2. (<<i>> \o g[1])[1] = i
    BY <2>1
  <2> QED
    BY <1>2, <2>2
<1> QED
  BY <1>1, <1>2 DEF Sub, Placed

(* One more field of message type.                                         *)
LEMMA InsertOneMore ==
    ASSUME NEW t \in DOMAIN Schema, NEW f \in Fields(t),
           IsMessage(FieldOf(t, f)), Schema[t].kind # "timestamp"
    PROVE  {fact \in SetBefore(t, f) : fact[1][1] \notin Siblings(t, f)}
              \cup Sub(t, f) = SetBefore(t, f + 1)
<1>0. f \in Nat /\ Fields(t) \subseteq Nat
  BY SchemaFacts
<1>1. LegibleBefore(t, f + 1) = LegibleBefore(t, f)
  <2>1. FieldOf(t, f).type # "string"
    BY BuildMessageAssumption DEF IsMessage
  <2>2. {k \in Fields(t) : k < f + 1 /\ FieldOf(t, k).type = "string"}
        = {k \in Fields(t) : k < f /\ FieldOf(t, k).type = "string"}
    BY <1>0, <2>1
  <2> QED
    BY <2>2 DEF LegibleBefore
<1>2. \A fact \in LegibleBefore(t, f) : fact[1][1] \notin Siblings(t, f)
  <2>1. CASE Schema[t].kind = "map_entry"
    <3>1. Siblings(t, f) = {}
      BY <2>1, SchemaFacts DEF Siblings
    <3> QED
      BY <3>1
  <2>2. CASE Schema[t].kind = "plain"
    BY <2>2 DEF LegibleBefore
  <2> QED
    BY <2>1, <2>2, SchemaFacts
<1>3. ShownBefore(t, f + 1) = (ShownBefore(t, f) \ Siblings(t, f)) \cup {f}
  <2>1. f \in ShownBefore(t, f + 1)
    <3>1. \A k \in Siblings(t, f) : ~(f < k /\ k < f + 1)
      BY <1>0 DEF Siblings
    <3> QED
      BY <1>0, <3>1 DEF ShownBefore
  <2>2. ASSUME NEW i \in Fields(t), i # f
        PROVE  i \in ShownBefore(t, f + 1) <=>
                   i \in ShownBefore(t, f) /\ i \notin Siblings(t, f)
    <3>1. i \in Siblings(t, f) <=> f \in Siblings(t, i)
      BY <2>2 DEF Siblings
    <3>2. i < f + 1 <=> i < f
      BY <1>0, <2>2
    <3>3. \A k \in Siblings(t, i) : k \in Nat
      BY <1>0 DEF Siblings
    <3>4. \A k \in Siblings(t, i) : k < f + 1 <=> (k < f \/ k = f)
      BY <1>0, <3>3
    <3> QED
      BY <3>1, <3>2, <3>4 DEF ShownBefore
  <2>3. f \notin ShownBefore(t, f)
    BY <1>0 DEF ShownBefore
  <2> QED
    BY <2>1, <2>2, <2>3 DEF ShownBefore
<1>4. \A i \in ShownBefore(t, f) : \A fact \in Sub(t, i) : fact[1][1] = i
  BY PlacedPaths DEF ShownBefore
<1>5. {fact \in UNION {Sub(t, i) : i \in ShownBefore(t, f)} :
          fact[1][1] \notin Siblings(t, f)}
      = UNION {Sub(t, i) : i \in ShownBefore(t, f) \ Siblings(t, f)}
  BY <1>4
<1> DEFINE Outside(fact) == fact[1][1] \notin Siblings(t, f)
           Old == UNION {Sub(t, i) : i \in ShownBefore(t, f)}
           New == UNION {Sub(t, i) : i \in ShownBefore(t, f + 1)}
           Kept == UNION {Sub(t, i) : i \in ShownBefore(t, f) \ Siblings(t, f)}
<1>6. New = Kept \cup Sub(t, f)
  <2>1. ASSUME NEW x \in New
        PROVE  x \in Kept \cup Sub(t, f)
    <3>1. PICK i \in ShownBefore(t, f + 1) : x \in Sub(t, i)
      OBVIOUS
    <3>2. i = f \/ i \in ShownBefore(t, f) \ Siblings(t, f)
      BY <1>3
    <3> QED
      BY <3>1, <3>2
  <2>2. Kept \subseteq New
    BY <1>3
  <2>3. f \in ShownBefore(t, f + 1)
    BY <1>3
  <2>4. Sub(t, f) \subseteq New
    BY <2>3
  <2> QED
    BY <2>1, <2>2, <2>4
<1>7. {fact \in SetBefore(t, f) : Outside(fact)}
      = LegibleBefore(t, f) \cup {fact \in Old : Outside(fact)}
  BY <1>2 DEF SetBefore
<1>8. {fact \in Old : Outside(fact)} = Kept
  BY <1>5
<1>9. SetBefore(t, f + 1) = LegibleBefore(t, f) \cup New
  BY <1>1 DEF SetBefore
<1> HIDE DEF Old, New, Kept
<1> QED
  BY <1>6, <1>7, <1>8, <1>9

(* One more field that is left alone, or is a string of a map entry.       *)
LEMMA ShowNoMore ==
    ASSUME NEW t \in DOMAIN Schema, NEW f \in Fields(t),
           ~IsMessage(FieldOf(t, f))
    PROVE  ShownBefore(t, f + 1) = ShownBefore(t, f)
<1>0. f \in Nat /\ Fields(t) \subseteq Nat
  BY SchemaFacts
<1>1. ASSUME NEW i \in Fields(t)
      PROVE  i \in ShownBefore(t, f + 1) <=> i \in ShownBefore(t, f)
  <2>1. \A k \in Siblings(t, i) : k \in Nat
    BY <1>0 DEF Siblings
  <2>2. \A k \in Siblings(t, i) : k < f + 1 <=> (k < f \/ k = f)
    BY <1>0, <2>1
  <2>3. IsMessage(FieldOf(t, i)) => (i < f + 1 <=> i < f)
    BY <1>0
  <2> QED
    BY <2>2, <2>3 DEF ShownBefore
<1> QED
  BY <1>1 DEF ShownBefore

LEMMA LegibleOneMore ==
    ASSUME NEW t \in DOMAIN Schema, NEW f \in Fields(t),
           Schema[t].kind # "timestamp"
    PROVE  LegibleBefore(t, f + 1) =
              IF FieldOf(t, f).type = "string" /\ Schema[t].kind = "map_entry"
              THEN LegibleBefore(t, f)
                       \cup {<<<<f>>, IF f = 1 THEN "Key" ELSE "Val">>}
              ELSE LegibleBefore(t, f)
<1>0. f \in Nat /\ Fields(t) \subseteq Nat
  BY SchemaFacts
<1>1. {k \in Fields(t) : k < f + 1 /\ FieldOf(t, k).type = "string"}
      = {k \in Fields(t) : k < f /\ FieldOf(t, k).type = "string"}
            \cup {k \in {f} : FieldOf(t, f).type = "string"}
  BY <1>0
<1> QED
  BY <1>1, SchemaFacts DEF LegibleBefore

(* After the last field there is nothing left to set.                      *)
LEMMA AllFieldsSet ==
    ASSUME NEW t \in DOMAIN Schema, NEW f \in Nat \ {0},
           Schema[t].kind = "timestamp" \/ f > Len(Schema[t].fields)
    PROVE  /\ LegibleBefore(t, f) = Legible(t)
           /\ Schema[t].kind # "timestamp" => ShownBefore(t, f) = Shown(t)
<1>1. \A i \in Fields(t) : f > Len(Schema[t].fields) => i < f
  BY SchemaFacts
<1>2. CASE Schema[t].kind = "timestamp"
  BY <1>2 DEF LegibleBefore, Legible
<1>3. CASE Schema[t].kind # "timestamp"
  <2>1. \A i \in Fields(t) : i < f
    BY <1>1, <1>3
  <2>2. {k \in Fields(t) : k < f /\ FieldOf(t, k).type = "string"}
        = {k \in Fields(t) : FieldOf(t, k).type = "string"}
    BY <2>1
  <2>3. \A i \in Fields(t) : \A k \in Siblings(t, i) :
           (i < k /\ k < f) <=> k > i
    BY <2>1, SchemaFacts DEF Siblings
  <2> QED
    BY <2>1, <2>2, <2>3 DEF LegibleBefore, Legible, ShownBefore, Shown
<1> QED
  BY <1>2, <1>3

(* Stacks of one and of two calls.                                         *)
LEMMA OneCall == ASSUME NEW S, NEW s \in Seq(S), Len(s) = 1
                 PROVE  s = <<s[1]>>
  OBVIOUS

LEMMA TwoCalls == ASSUME NEW S, NEW s \in Seq(S), Len(s) = 2
                  PROVE  s = <<s[1], s[2]>>
<1> DEFINE u == <<s[1], s[2]>>
<1>1. s[1] \in S /\ s[2] \in S
  <2>1. 1 \in 1..Len(s) /\ 2 \in 1..Len(s)
    OBVIOUS
  <2> QED
    BY <2>1, ElementOfSeq
<1>2. u \in Seq(S) /\ Len(u) = 2 /\ \A i \in 1..2 : s[i] = u[i]
  BY <1>1
<1> HIDE DEF u
<1>3. s = u
  BY <1>2, SeqEqual
<1> QED
  BY <1>3 DEF u

LEMMA Push == ASSUME NEW a, NEW b
              PROVE  Append(<<a>>, b) = <<a, b>>
<1>1. /\ Append(<<a>>, b) \in Seq({a, b})
      /\ Len(Append(<<a>>, b)) = 2
      /\ Append(<<a>>, b)[1] = a
      /\ Append(<<a>>, b)[2] = b
  OBVIOUS
<1> QED
  BY <1>1, TwoCalls

LEMMA Pop == ASSUME NEW a, NEW b
             PROVE  SubSeq(<<a, b>>, 1, 1) = <<a>>
<1>1. <<a, b>> \in Seq({a, b})
  OBVIOUS
<1>2. /\ SubSeq(<<a, b>>, 1, 1) \in Seq({a, b})
      /\ Len(SubSeq(<<a, b>>, 1, 1)) = 1
      /\ SubSeq(<<a, b>>, 1, 1)[1] = a
  BY <1>1
<1> QED
  BY <1>2, OneCall

LEMMA ReplaceOne == ASSUME NEW a, NEW b
                    PROVE  [<<a>> EXCEPT ![1] = b] = <<b>>
  OBVIOUS

LEMMA ReplaceTwo == ASSUME NEW a, NEW b, NEW c
                    PROVE  [<<a, b>> EXCEPT ![2] = c] = <<a, c>>
  OBVIOUS

(* A call begins with nothing set.                                         *)
LEMMA NothingSetYet ==
    ASSUME NEW t \in DOMAIN Schema
    PROVE  /\ CallInv(NewCall(t))
           /\ NewCall(t).type = t
           /\ NewCall(t).field = 1
           /\ NewCall(t).message = LegibleBefore(t, 1)
           /\ NewCall(t).message = SetBefore(t, 1)
<1>0. \A i \in Fields(t) : ~(i < 1)
  BY SchemaFacts
<1>1. ShownBefore(t, 1) = {}
  BY <1>0 DEF ShownBefore
<1>2. {k \in Fields(t) : k < 1 /\ FieldOf(t, k).type = "string"} = {}
  BY <1>0
<1>3. LegibleBefore(t, 1) =
          IF Schema[t].kind = "timestamp" THEN {<<<<>>, "now">>} ELSE {}
  BY <1>2, SchemaFacts DEF LegibleBefore
<1>4. SetBefore(t, 1) = LegibleBefore(t, 1)
  BY <1>1 DEF SetBefore
<1> QED
  BY <1>3, <1>4 DEF CallInv, NewCall

LEMMA BuildInitHolds == BuildInit => BuildInv
  BY DEF BuildInit, BuildInv

LEMMA BuildStartHolds ==
    ASSUME NEW t \in DOMAIN Schema, BuildStart(t)
    PROVE  BuildInv'
<1>1. stack' = <<NewCall(t)>>
  BY DEF BuildStart
<1> QED
  BY <1>1, NothingSetYet DEF BuildInv

LEMMA BuildDoneHolds == BuildDone => BuildInv'
  BY DEF BuildDone, BuildInv

\* a call that goes on to its next field
LEMMA NextField ==
    ASSUME NEW call, CallInv(call), ~Complete(call)
    PROVE  /\ call.field \in Fields(call.type)
           /\ Schema[call.type].kind # "timestamp"
  BY SchemaFacts DEF CallInv, Complete

LEMMA BuildSubMessageHolds == BuildInv /\ BuildSubMessage => BuildInv'
<1> SUFFICES ASSUME BuildInv, BuildSubMessage
             PROVE  BuildInv'
  OBVIOUS
<1>1. CASE stack = <<>>
  BY <1>1 DEF BuildSubMessage, Building
<1>2. ASSUME NEW outer, stack = <<outer>>, CallInv(outer),
             outer.message = SetBefore(outer.type, outer.field)
      PROVE  BuildInv'
  <2> DEFINE u == FieldOf(outer.type, outer.field).type
  <2>1. Top = outer /\ Len(stack) = 1
    BY <1>2 DEF Top
  <2>2. /\ ~Complete(outer)
        /\ IsMessage(FieldOf(outer.type, outer.field))
        /\ stack' = Append(stack, NewCall(u))
    BY <2>1 DEF BuildSubMessage
  <2>3. u \in DOMAIN Schema
    BY <2>2 DEF IsMessage
  <2>4. stack' = <<outer, NewCall(u)>>
    BY <1>2, <2>2, Push
  <2>5. /\ CallInv(NewCall(u))
        /\ NewCall(u).type = u
        /\ NewCall(u).field = 1
        /\ NewCall(u).message = LegibleBefore(u, 1)
    BY <2>3, NothingSetYet DEF NewCall
  <2> QED
    BY <1>2, <2>2, <2>4, <2>5 DEF BuildInv, u
<1>3. ASSUME NEW outer, NEW inner, stack = <<outer, inner>>
      PROVE  BuildInv'
  BY <1>3 DEF BuildSubMessage, MaxDepth
<1> QED
  BY <1>1, <1>2, <1>3 DEF BuildInv

LEMMA BuildFieldHolds == BuildInv /\ BuildField => BuildInv'
<1> SUFFICES ASSUME BuildInv, BuildField
             PROVE  BuildInv'
  OBVIOUS
<1>1. CASE stack = <<>>
  BY <1>1 DEF BuildField, Building
<1> DEFINE Legible1(call) == /\ FieldOf(call.type, call.field).type = "string"
                             /\ Schema[call.type].kind = "map_entry"
           Grown(call) ==
               IF Legible1(call)
               THEN Set(call.message, call.field,
                        IF call.field = 1 THEN "Key" ELSE "Val")
               ELSE call.message
           After(call) == [type |-> call.type, field |-> call.field + 1,
                           message |-> Grown(call)]
<1>2. ASSUME NEW outer, stack = <<outer>>, CallInv(outer),
             outer.message = SetBefore(outer.type, outer.field)
      PROVE  BuildInv'
  <2>1. Top = outer /\ Len(stack) = 1
    BY <1>2 DEF Top
  <2>2. ~Complete(outer) /\ ~IsMessage(FieldOf(outer.type, outer.field))
    BY <2>1 DEF BuildField, MaxDepth
  <2>3. stack' = <<After(outer)>>
    BY <1>2, <2>1, ReplaceOne DEF BuildField, Past
  <2>4. CallInv(After(outer))
    BY <1>2 DEF CallInv
  <2>5. After(outer).message = SetBefore(outer.type, outer.field + 1)
    <3>1. /\ outer.field \in Fields(outer.type)
          /\ Schema[outer.type].kind # "timestamp"
          /\ outer.type \in DOMAIN Schema
      BY <1>2, <2>2, NextField DEF CallInv
    <3>2. ShownBefore(outer.type, outer.field + 1)
          = ShownBefore(outer.type, outer.field)
      BY <2>2, <3>1, ShowNoMore
    <3>3. LegibleBefore(outer.type, outer.field + 1) =
              IF Legible1(outer)
              THEN LegibleBefore(outer.type, outer.field)
                   \cup {<<<<outer.field>>,
                           IF outer.field = 1 THEN "Key" ELSE "Val">>}
              ELSE LegibleBefore(outer.type, outer.field)
      BY <3>1, LegibleOneMore
    <3> QED
      BY <1>2, <3>2, <3>3 DEF SetBefore, Set
  <2> HIDE DEF After
  <2>6. After(outer).type = outer.type /\ After(outer).field = outer.field + 1
    BY DEF After
  <2> QED
    BY <2>3, <2>4, <2>5, <2>6 DEF BuildInv
<1>3. ASSUME NEW outer, NEW inner, stack = <<outer, inner>>,
             CallInv(outer),
             outer.message = SetBefore(outer.type, outer.field),
             ~Complete(outer), CallInv(inner),
             IsMessage(FieldOf(outer.type, outer.field)),
             inner.type = FieldOf(outer.type, outer.field).type,
             inner.message = LegibleBefore(inner.type, inner.field)
      PROVE  BuildInv'
  <2>1. Top = inner /\ Len(stack) = 2
    BY <1>3 DEF Top
  <2>2. ~Complete(inner)
    BY <2>1 DEF BuildField
  <2>3. stack' = <<outer, After(inner)>>
    BY <1>3, <2>1, ReplaceTwo DEF BuildField, Past
  <2>4. CallInv(After(inner))
    BY <1>3 DEF CallInv
  <2>5. After(inner).message = LegibleBefore(inner.type, inner.field + 1)
    <3>1. /\ inner.field \in Fields(inner.type)
          /\ Schema[inner.type].kind # "timestamp"
          /\ inner.type \in DOMAIN Schema
      BY <1>3, <2>2, NextField DEF CallInv
    <3>2. LegibleBefore(inner.type, inner.field + 1) =
              IF Legible1(inner)
              THEN LegibleBefore(inner.type, inner.field)
                   \cup {<<<<inner.field>>,
                           IF inner.field = 1 THEN "Key" ELSE "Val">>}
              ELSE LegibleBefore(inner.type, inner.field)
      BY <3>1, LegibleOneMore
    <3> QED
      BY <1>3, <3>2 DEF Set
  <2> HIDE DEF After
  <2>6. After(inner).type = inner.type /\ After(inner).field = inner.field + 1
    BY DEF After
  <2> QED
    BY <1>3, <2>3, <2>4, <2>5, <2>6 DEF BuildInv
<1> QED
  BY <1>1, <1>2, <1>3 DEF BuildInv

LEMMA BuildReturnHolds == BuildInv /\ BuildReturn => BuildInv'
<1> SUFFICES ASSUME BuildInv, BuildReturn
             PROVE  BuildInv'
  OBVIOUS
<1>1. ASSUME NEW outer, NEW inner, stack = <<outer, inner>>,
             CallInv(outer),
             outer.message = SetBefore(outer.type, outer.field),
             ~Complete(outer), CallInv(inner),
             IsMessage(FieldOf(outer.type, outer.field)),
             inner.type = FieldOf(outer.type, outer.field).type,
             inner.message = LegibleBefore(inner.type, inner.field)
      PROVE  BuildInv'
  <2> DEFINE after == [type |-> outer.type, field |-> outer.field + 1,
                       message |-> Insert(outer, inner.message)]
  <2>1. Top = inner /\ Len(stack) = 2 /\ stack[1] = outer
    BY <1>1 DEF Top
  <2>2. Complete(inner)
    BY <2>1 DEF BuildReturn
  <2>3. SubSeq(stack, 1, 1) = <<outer>>
    BY <1>1, Pop
  <2>4. stack' = <<after>>
    <3>1. Len(stack) - 1 = 1
      BY <2>1
    <3> QED
      BY <2>1, <2>3, <3>1, ReplaceOne DEF BuildReturn, Past
  <2>5. inner.message = Legible(inner.type)
    BY <1>1, <2>2, AllFieldsSet DEF CallInv, Complete
  <2>6. /\ outer.field \in Fields(outer.type)
        /\ Schema[outer.type].kind # "timestamp"
        /\ outer.type \in DOMAIN Schema
    BY <1>1, NextField DEF CallInv
  <2>7. after.message = SetBefore(outer.type, outer.field + 1)
    BY <1>1, <2>5, <2>6, InsertOneMore DEF Insert, Sub
  <2>8. CallInv(after)
    BY <1>1 DEF CallInv
  <2> HIDE DEF after
  <2>9. after.type = outer.type /\ after.field = outer.field + 1
    BY DEF after
  <2> QED
    BY <2>4, <2>7, <2>8, <2>9 DEF BuildInv
<1> QED
  BY <1>1 DEF BuildInv, BuildReturn

LEMMA BuildStepHolds == BuildInv /\ BuildStep => BuildInv'
  BY BuildSubMessageHolds, BuildFieldHolds, BuildReturnHolds DEF BuildStep

(* The invariant gives the property.                                       *)
LEMMA BuildInvSuffices ==
    ASSUME BuildInv
    PROVE  MessageAsSpecified
<1>1. ASSUME NEW outer, stack = <<outer>>, CallInv(outer),
             outer.message = SetBefore(outer.type, outer.field),
             Complete(outer)
      PROVE  outer.message = Specified(outer.type)
  <2>1. /\ LegibleBefore(outer.type, outer.field) = Legible(outer.type)
        /\ Schema[outer.type].kind # "timestamp" =>
               ShownBefore(outer.type, outer.field) = Shown(outer.type)
    BY <1>1, AllFieldsSet DEF CallInv, Complete
  <2> QED
    BY <1>1, <2>1 DEF Specified, SetBefore, Sub
<1> QED
  BY <1>1 DEF BuildInv, MessageAsSpecified, Top

-----------------------------------------------------------------------------
(* The descriptor.                                                         *)

LoadInv ==
    /\ TypeOK
    /\ db = loads
    /\ loading = "no" => pool = db /\ factory = db
    /\ loading = "factory_" => pool = db
    /\ loading # "no" => object = "alive"
    /\ prototypes /\ loading # "no" => "reloaded_after_use" \in misuse
    /\ object = "none" => loads = 0
    /\ Building => loading = "no" /\ loads # 0
    /\ FaultNeedsMisuse

LEMMA InitHolds == Init => LoadInv
<1> SUFFICES ASSUME Init
             PROVE  LoadInv
  OBVIOUS
<1>1. 0 \in 0..MaxLoads
  BY DescriptorAssumption
<1>2. TypeOK
  BY <1>1 DEF Init, TypeOK
<1> QED
  BY <1>2 DEF Init, LoadInv, FaultNeedsMisuse, BuildInit, Building

LEMMA StepHolds == LoadInv /\ [Next]_vars => LoadInv'
<1> SUFFICES ASSUME LoadInv, [Next]_vars
             PROVE  LoadInv'
  OBVIOUS
<1> USE DescriptorAssumption
    DEF LoadInv, TypeOK, FaultNeedsMisuse, Misuses, ownVars, clientVars, Building
<1>1. CASE Construct
  BY <1>1 DEF Construct, Definitions
<1>2. CASE ConstructEmpty
  BY <1>2 DEF ConstructEmpty
<1>3. CASE LoadDatabase
  BY <1>3 DEF LoadDatabase, Definitions, Ready, Misused
<1>4. CASE LoadPool
  BY <1>4 DEF LoadPool
<1>5. CASE LoadFactory
  BY <1>5 DEF LoadFactory, Fails
<1>6. ASSUME NEW t \in DOMAIN Schema,
             MessageFromJson(t) \/ CreateMessage(t) \/ DebugString(t)
      PROVE  LoadInv'
  <2>1. CASE MessageFromJson(t)
    <3>1. CASE NoPool /\ UNCHANGED <<prototypes, messages>>
      BY <2>1, <3>1 DEF MessageFromJson, Ready, NoPool, Fails, Misused
    <3>2. CASE pool # 0 /\ messages' = messages \cup {factory}
                        /\ prototypes' = TRUE /\ UNCHANGED <<misuse, fault>>
      <4>1. loads \in 1..loads /\ factory = loads
        BY <2>1, <3>2 DEF MessageFromJson, Ready
      <4>2. messages' \subseteq 1..loads'
        BY <2>1, <3>2, <4>1 DEF MessageFromJson
      <4> QED
        BY <2>1, <3>2, <4>2 DEF MessageFromJson, Ready
    <3> QED
      BY <2>1, <3>1, <3>2 DEF MessageFromJson
  <2>2. CASE CreateMessage(t)
    BY <2>2 DEF CreateMessage, BuildStart, Ready, NoPool, Fails, Misused
  <2>3. CASE DebugString(t)
    BY <2>3 DEF DebugString, Ready, NoPool, Fails, Misused
  <2> QED
    BY <1>6, <2>1, <2>2, <2>3
<1>building. CASE BuildGoesOn
  BY <1>building DEF BuildGoesOn, BuildStep, BuildSubMessage, BuildField, BuildReturn
<1>created. CASE MessageCreated
  <2>1. loads \in 1..loads /\ factory = loads
    BY <1>created DEF MessageCreated, BuildDone
  <2>2. messages' \subseteq 1..loads'
    BY <1>created, <2>1 DEF MessageCreated
  <2> QED
    BY <1>created, <2>2 DEF MessageCreated, BuildDone
<1>method. ASSUME NEW t \in Methods, GetMethod(t)
       PROVE  LoadInv'
  <2>1. CASE NoPool /\ UNCHANGED methods
    BY <1>method, <2>1 DEF GetMethod, Ready, NoPool, Fails, Misused
  <2>2. CASE pool # 0 /\ methods' = methods \cup {pool}
                      /\ UNCHANGED <<misuse, fault>>
    <3>1. loads \in 1..loads /\ pool = loads
      BY <1>method, <2>2 DEF GetMethod, Ready
    <3>2. methods' \subseteq 1..loads'
      BY <1>method, <2>2, <3>1 DEF GetMethod
    <3> QED
      BY <1>method, <2>2, <3>2 DEF GetMethod, Ready
  <2> QED
    BY <1>method, <2>1, <2>2 DEF GetMethod
<1>7. CASE ToJson
  BY <1>7 DEF ToJson, Ready, Fails, Misused
<1>8. CASE Destroy
  BY <1>8 DEF Destroy, Ready
<1>9. CASE UseMessage
  BY <1>9 DEF UseMessage, Touch, Stands, Fails, Misused
<1>10. CASE FreeMessages
  BY <1>10 DEF FreeMessages, Touch, Stands, Fails, Misused
<1>11. CASE UseMethod
  BY <1>11 DEF UseMethod, Touch, Stands, Fails, Misused
<1>12. CASE UNCHANGED vars
  BY <1>12 DEF vars
<1> QED
  BY <1>1, <1>2, <1>3, <1>4, <1>5, <1>6, <1>7, <1>8, <1>9, <1>10, <1>11, <1>12,
     <1>building, <1>created, <1>method
     DEF Next

LEMMA Inductive == Spec => []LoadInv
  BY InitHolds, StepHolds, PTL DEF Spec

(* Every variable keeps its type.                                          *)
THEOREM TypeCorrect == Spec => []TypeOK
<1>1. LoadInv => TypeOK
  BY DEF LoadInv
<1> QED
  BY <1>1, Inductive, PTL

(* Between calls database, pool and factory are of one load.               *)
THEOREM MembersAgree == Spec => []Coherent
<1>1. LoadInv => Coherent
  BY DEF LoadInv, Coherent
<1> QED
  BY <1>1, Inductive, PTL

(* A client that keeps the four rules never reaches anything that is gone  *)
(* or was never there, however often it loads.                             *)
THEOREM RulesSuffice == Spec => []FaultNeedsMisuse
<1>1. LoadInv => FaultNeedsMisuse
  BY DEF LoadInv
<1> QED
  BY <1>1, Inductive, PTL

LEMMA BuildInductive == Spec => []BuildInv
<1>1. Init => BuildInv
  BY BuildInitHolds DEF Init
<1>2. BuildInv /\ [Next]_vars => BuildInv'
  <2> SUFFICES ASSUME BuildInv, [Next]_vars
               PROVE  BuildInv'
    OBVIOUS
  <2>1. CASE UNCHANGED stack
    BY <2>1 DEF BuildInv
  <2>2. ASSUME NEW t \in DOMAIN Schema, BuildStart(t)
        PROVE  BuildInv'
    BY <2>2, BuildStartHolds
  <2>3. CASE BuildGoesOn
    BY <2>3, BuildStepHolds DEF BuildGoesOn
  <2>4. CASE MessageCreated
    BY <2>4, BuildDoneHolds DEF MessageCreated
  <2>5. CASE Next /\ ~BuildGoesOn /\ ~MessageCreated
    BY <2>1, <2>2, <2>5
       DEF Next, Construct, ConstructEmpty, LoadDatabase, LoadPool, LoadFactory,
           MessageFromJson, CreateMessage, DebugString, GetMethod, ToJson,
           Destroy, UseMessage, FreeMessages, UseMethod
  <2>6. CASE UNCHANGED vars
    BY <2>1, <2>6 DEF vars
  <2> QED
    BY <2>3, <2>4, <2>5, <2>6
<1> QED
  BY <1>1, <1>2, PTL DEF Spec

(* For any schema, create_message returns the message specified: one level *)
(* of messages, the last of each oneof, legible maps and timestamps.       *)
THEOREM MessagesAreAsSpecified == Spec => []MessageAsSpecified
<1>1. BuildInv => MessageAsSpecified
  BY BuildInvSuffices
<1> QED
  BY <1>1, BuildInductive, PTL

=============================================================================
