------------------------------ MODULE MCLookup ------------------------------
(***************************************************************************)
(* A server for LookupClient: two symbols and an extension in two files,   *)
(* where looking up Reply or Options may bring in the file of Request.     *)
(* The file of Reply and Options defines what another one does, too.       *)
(***************************************************************************)
EXTENDS LookupClient

CONSTANTS Request, Reply, Options, request_proto, reply_proto

MCHome == [k \in {Request, Reply, Options} |->
              IF k = Request THEN request_proto ELSE reply_proto]

MCImports == [f \in {request_proto, reply_proto} |->
                 IF f = reply_proto THEN {request_proto} ELSE {}]

=============================================================================
