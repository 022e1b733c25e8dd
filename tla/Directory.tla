------------------------------ MODULE Directory ------------------------------
(***************************************************************************)
(* What ProtoReflectionDescriptorDatabase promises to the DescriptorPool   *)
(* that asks it (the DescriptorDatabase interface in                       *)
(* src/src/vendor/proto_reflection_descriptor_database.h), without the     *)
(* stream, the requests or the caches:                                     *)
(*                                                                         *)
(*   - a lookup says whether what it looks for is held: the name of a      *)
(*     file, or a symbol or an extension that one defines;                 *)
(*   - things are only ever added, so that what was found once is found    *)
(*     again;                                                              *)
(*   - a symbol or an extension may be given up, which holds until it is   *)
(*     brought in by another lookup; the name of a file never is, nor is   *)
(*     anything given up by a lookup that brought something in.            *)
(***************************************************************************)

CONSTANTS
    Names,   \* names of files
    Others   \* symbols and extensions

VARIABLES
    held,      \* what came in
    given_up,  \* symbols and extensions that are asked for no more
    answer     \* <<key, found>> of the last such lookup, or <<>>

directoryVars == <<held, given_up, answer>>

Found(k) == k \in held

Init ==
    /\ held = {}
    /\ given_up = {}
    /\ answer = <<>>

\* the answer is there
Recall(k) ==
    /\ Found(k) \/ k \in given_up
    /\ answer' = <<k, Found(k)>>
    /\ UNCHANGED <<held, given_up>>

\* what is neither held nor given up is asked for: it may come in, or not,
\* with other things or without
BringIn(k) ==
    /\ ~Found(k)
    /\ k \notin given_up
    /\ \E ks \in SUBSET (Names \cup Others) : held' = held \cup ks
    /\ answer' = <<k, k \in held'>>
    /\ UNCHANGED given_up

GiveUp(k) ==
    /\ k \in Others
    /\ ~Found(k)
    /\ k \notin given_up
    /\ given_up' = given_up \cup {k}
    /\ answer' = <<k, FALSE>>
    /\ UNCHANGED held

\* a call that looks for no file
Other ==
    /\ answer' = <<>>
    /\ UNCHANGED <<held, given_up>>

Next ==
    \/ \E k \in Names \cup Others : Recall(k) \/ BringIn(k) \/ GiveUp(k)
    \/ Other

Spec == Init /\ [][Next]_directoryVars

=============================================================================
