---------------------------- MODULE BuildMessage ----------------------------
(***************************************************************************)
(* Descriptor::build_message (src/src/descriptor.cpp): a message with some *)
(* sensible defaults, built field by field by a recursion over the types   *)
(* of its fields.                                                          *)
(*                                                                         *)
(* The recursion is a stack of calls, the innermost last.  A message is    *)
(* the set of what was set in it: facts of a path of field numbers and     *)
(* what is found there.                                                    *)
(***************************************************************************)
EXTENDS Naturals, Sequences, FiniteSets

CONSTANT Schema   \* of each message type: its kind and its fields

\* max_depth, as no caller gives one
MaxDepth == 1

(* A field that is not of message type has the type "string" or "scalar".  *)
(* oneof is the number of the oneof it is a member of, 0 for none.         *)
Field == [type : DOMAIN Schema \cup {"string", "scalar"},
          repeated : BOOLEAN, oneof : Nat]

Kinds == {"plain", "timestamp", "map_entry"}

ASSUME BuildMessageAssumption ==
    /\ {"string", "scalar"} \cap DOMAIN Schema = {}
    /\ \A t \in DOMAIN Schema :
          /\ Schema[t].kind \in Kinds
          /\ Schema[t].fields \in Seq(Field)
          /\ Schema[t].kind = "map_entry" =>
                \A i \in DOMAIN Schema[t].fields : Schema[t].fields[i].oneof = 0

VARIABLE stack   \* the calls of build_message

Fields(t) == DOMAIN Schema[t].fields
FieldOf(t, i) == Schema[t].fields[i]
IsMessage(f) == f.type \in DOMAIN Schema
Siblings(t, i) ==
    {k \in Fields(t) : /\ FieldOf(t, k).oneof = FieldOf(t, i).oneof
                       /\ FieldOf(t, k).oneof # 0
                       /\ k # i}

Top == stack[Len(stack)]
Building == stack # <<>>

\* a call that has gone through all the fields, or has none to go through
Complete(call) ==
    \/ Schema[call.type].kind = "timestamp"
    \/ call.field > Len(Schema[call.type].fields)

-----------------------------------------------------------------------------
(* SetString, SetInt64: what is set in a message.                          *)
Set(message, i, value) == message \cup {<<<<i>>, value>>}

(* A message with what was set in it, as field i of a message of type t.   *)
Placed(t, i, sub) ==
    {<<<<i>>, IF FieldOf(t, i).repeated THEN "element" ELSE "message">>}
        \cup {<<<<i>> \o fact[1], fact[2]>> : fact \in sub}

\* faulty variant of Insert: the earlier member of a oneof stays
InsertBeside(call, sub) ==
    call.message \cup Placed(call.type, call.field, sub)

(* AddMessage and MutableMessage, then CopyFrom: a member of a oneof takes *)
(* the place of the one that was set before.                               *)
Insert(call, sub) ==
    {fact \in call.message :
        fact[1][1] \notin Siblings(call.type, call.field)}
    \cup Placed(call.type, call.field, sub)

\* i++
Past(call, message) ==
    [type |-> call.type, field |-> call.field + 1, message |-> message]

NewCall(t) ==
    [type |-> t, field |-> 1,
     message |-> IF Schema[t].kind = "timestamp" THEN {<<<<>>, "now">>} ELSE {}]

-----------------------------------------------------------------------------
BuildInit == stack = <<>>

\* build_message(*descr, *factory_)
BuildStart(t) ==
    /\ ~Building
    /\ stack' = <<NewCall(t)>>

\* the call for a field of message type, not too deep
BuildSubMessage ==
    /\ Building
    /\ ~Complete(Top)
    /\ IsMessage(FieldOf(Top.type, Top.field))
    /\ Len(stack) - 1 < MaxDepth
    /\ stack' = Append(stack, NewCall(FieldOf(Top.type, Top.field).type))

\* any other field keeps its default, but for the strings of a map entry
BuildField ==
    /\ Building
    /\ ~Complete(Top)
    /\ ~(IsMessage(FieldOf(Top.type, Top.field)) /\ Len(stack) - 1 < MaxDepth)
    /\ LET field == Top.field
           legible == /\ FieldOf(Top.type, field).type = "string"
                      /\ Schema[Top.type].kind = "map_entry"
       IN  stack' = [stack EXCEPT ![Len(stack)] = Past(Top,
               IF legible
               THEN Set(Top.message, field, IF field = 1 THEN "Key" ELSE "Val")
               ELSE Top.message)]

\* the return of a call into another, which goes on to the next field
BuildReturn ==
    /\ Len(stack) > 1
    /\ Complete(Top)
    /\ LET n == Len(stack) - 1
       IN  stack' = [SubSeq(stack, 1, n) EXCEPT
               ![n] = Past(stack[n], Insert(stack[n], Top.message))]

\* the return of the first call
BuildDone ==
    /\ Len(stack) = 1
    /\ Complete(Top)
    /\ stack' = <<>>

BuildStep == BuildSubMessage \/ BuildField \/ BuildReturn

-----------------------------------------------------------------------------
(* What build_message is to give, said of the whole message: a field of    *)
(* message type is set, unless a later member of its oneof is; one level   *)
(* further down only what makes timestamps and maps legible.               *)

Shown(t) ==
    {i \in Fields(t) :
        /\ IsMessage(FieldOf(t, i))
        /\ \A k \in Siblings(t, i) : k > i => ~IsMessage(FieldOf(t, k))}

Legible(t) ==
    CASE Schema[t].kind = "timestamp" -> {<<<<>>, "now">>}
      [] Schema[t].kind = "map_entry" ->
            {<<<<i>>, IF i = 1 THEN "Key" ELSE "Val">> :
                i \in {k \in Fields(t) : FieldOf(t, k).type = "string"}}
      [] Schema[t].kind = "plain" -> {}

Specified(t) ==
    IF Schema[t].kind = "timestamp" THEN Legible(t)
    ELSE Legible(t) \cup UNION {Placed(t, i, Legible(FieldOf(t, i).type)) :
                                    i \in Shown(t)}

(* The message that create_message returns is the one specified, whatever  *)
(* order its fields come in and however its types contain one another: one *)
(* level of messages, a member of each oneof, legible maps and timestamps. *)
MessageAsSpecified ==
    (Len(stack) = 1 /\ Complete(Top)) => Top.message = Specified(Top.type)

=============================================================================
