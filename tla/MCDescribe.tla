----------------------------- MODULE MCDescribe -----------------------------
(***************************************************************************)
(* A disk for DescribeCommand.  Both directories have a greet.proto; the   *)
(* one here imports a file that is missing.  The common.proto there gives  *)
(* a warning, and nothing can be made of its admin.proto.  The names       *)
(* are also those of the server's files.                                   *)
(***************************************************************************)
EXTENDS DescribeCommand, MCReflect

CONSTANTS here, there

DiskNames == {greet_proto, admin_proto, common, base}

MCDisk == [d \in {here, there} |->
              IF d = here THEN {greet_proto, base}
              ELSE {greet_proto, admin_proto, common, base}]

MCDiskImports ==
    [f \in {here, there} \X DiskNames |->
        CASE f = <<here, greet_proto>> -> {base, admin_proto}
          [] f = <<there, greet_proto>> -> {common}
          [] f = <<there, common>> -> {base}
          [] OTHER -> {}]

MCBroken == {<<there, admin_proto>>}
MCWarned == {<<there, common>>, <<there, base>>}

MCLists ==
    {<<>>, <<<<there, greet_proto>>>>, <<<<here, base>>, <<there, common>>>>,
     <<<<here, greet_proto>>, <<there, greet_proto>>>>,
     <<<<there, base>>, <<here, greet_proto>>>>,
     <<<<there, common>>, <<there, admin_proto>>>>,
     <<<<here, common>>>>, <<<<here, common>>, <<there, greet_proto>>>>}

=============================================================================
