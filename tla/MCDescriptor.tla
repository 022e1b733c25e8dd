---------------------------- MODULE MCDescriptor ----------------------------
(***************************************************************************)
(* Message types for Descriptor.  Request has a time stamp, a map and a    *)
(* oneof of two messages around a scalar; Tree contains itself.            *)
(***************************************************************************)
EXTENDS Descriptor

CONSTANTS Request, Tree, Attribute, Timestamp

One(type) == [type |-> type, repeated |-> FALSE, oneof |-> 0]
Many(type) == [type |-> type, repeated |-> TRUE, oneof |-> 0]
Choice(type) == [type |-> type, repeated |-> FALSE, oneof |-> 1]

Plain(fields) == [kind |-> "plain", fields |-> fields]

MCSchema ==
    [t \in {Request, Tree, Attribute, Timestamp} |->
        CASE t = Request ->
                Plain(<<One("string"), Choice(Tree), One(Timestamp),
                        Choice(Timestamp), Choice("scalar"), Many(Attribute)>>)
          [] t = Tree -> Plain(<<Many(Tree), One(Timestamp), One("scalar")>>)
          [] t = Attribute ->
                [kind |-> "map_entry", fields |-> <<One("string"), One("string")>>]
          [] t = Timestamp ->
                [kind |-> "timestamp", fields |-> <<One("scalar"), One("scalar")>>]]

=============================================================================
