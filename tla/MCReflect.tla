------------------------------ MODULE MCReflect ------------------------------
(***************************************************************************)
(* Servers for DescriptorsFromReflect.  greet and admin are services, each *)
(* in a file of its own; both files import common.  On the deep server     *)
(* common imports base, and admin's file imports greet's.                  *)
(***************************************************************************)
EXTENDS DescriptorsFromReflect

CONSTANTS greet, admin, greet_proto, admin_proto, common, base

MCServices == {greet, admin}

MCHome == [s \in MCServices |-> IF s = greet THEN greet_proto ELSE admin_proto]

DeepFiles == {greet_proto, admin_proto, common, base}

DeepImports ==
    [f \in DeepFiles |-> CASE f = base -> {}
                           [] f = common -> {base}
                           [] f = greet_proto -> {common}
                           [] f = admin_proto -> {common, greet_proto}]

=============================================================================
