----------------------------- MODULE CallCommand -----------------------------
(***************************************************************************)
(* auxl_grpc_cli call (cmd_call in src/src/cli/auxl_grpc_cli.cpp): the     *)
(* options, the descriptors, one Session, and the menu from which a user   *)
(* of a streaming call picks the messages to send.                         *)
(*                                                                         *)
(* The command is the caller of a Session: cmd says where it is, and its   *)
(* steps run Start, SendMessage and Close.  A message file is a number.    *)
(***************************************************************************)
EXTENDS Session

CONSTANT MaxFiles   \* bound: --message options given

ASSUME CallCommandAssumption == MaxFiles \in Nat

VARIABLES
    cmd,     \* where cmd_call is
    args,    \* what the user and the file system give it
    chosen   \* the message file last chosen, 0 for none

cmdVars == <<cmd, args, chosen>>
commandVars == <<allVars, cmdVars>>

Args ==
    UNION {[files : {n}, readable : SUBSET (1..n),
            descriptors : {"unreadable", "malformed", "good"},
            method_known : BOOLEAN,
            client_streaming : BOOLEAN, server_streaming : BOOLEAN] :
           n \in 0..MaxFiles}

CommandSteps == {"descriptors", "messages", "method", "session", "starting",
                 "menu", "load", "sending", "close", "closing", "returned",
                 "terminated"}

CommandTypeOK ==
    /\ SessionTypeOK
    /\ cmd \in CommandSteps
    /\ args \in Args
    /\ chosen \in 0..args.files

\* util::call_info
CallType ==
    CASE args.client_streaming /\ args.server_streaming -> "BidirectionalStreaming"
      [] args.client_streaming /\ ~args.server_streaming -> "ClientStreaming"
      [] ~args.client_streaming /\ args.server_streaming -> "ServerStreaming"
      [] OTHER -> "Unary"

\* faulty variant: a call with several messages is taken for a streaming one
TakesOneMessageByCount == args.files = 1

\* one message, or a menu until the user quits
TakesOneMessage ==
    args.files = 1 \/ CallType \in {"Unary", "ServerStreaming"}

-----------------------------------------------------------------------------
(* Faulty variants of the definitions around, used by no specification.    *)

\* the result of start is not looked at
StartedUnchecked ==
    /\ cmd = "starting"
    /\ user \in {"refused", "ready"}
    /\ cmd' = IF args.files > 1 THEN "menu" ELSE "load"
    /\ chosen' = IF args.files > 1 THEN 0 ELSE 1
    /\ UNCHANGED <<args, allVars>>

\* a user that quits leaves without close
QuitAtOnce ==
    /\ cmd = "menu"
    /\ cmd' = "returned"
    /\ UNCHANGED <<args, chosen, allVars>>

\* a message that was sent is taken for one that was not loaded
LoadMessageInverted ==
    /\ cmd = "load"
    /\ IF chosen \notin args.readable
       THEN SendMessage /\ cmd' = "sending"
       ELSE cmd' = (IF TakesOneMessage THEN "close" ELSE "menu")
            /\ UNCHANGED allVars
    /\ UNCHANGED <<args, chosen>>

-----------------------------------------------------------------------------

CommandInit ==
    /\ SessionInit
    /\ cmd = "descriptors"
    /\ args \in Args
    /\ chosen = 0

\* load_file and load_json: json::parse throws on malformed text, and
\* nothing catches it
LoadDescriptors ==
    /\ cmd = "descriptors"
    /\ cmd' = CASE args.descriptors = "unreadable" -> "returned"
                [] args.descriptors = "malformed" -> "terminated"
                [] args.descriptors = "good" -> "messages"
    /\ UNCHANGED <<args, chosen, allVars>>

\* result["message"].as<...>() throws when the option was not given
ReadMessages ==
    /\ cmd = "messages"
    /\ cmd' = IF args.files = 0 THEN "terminated" ELSE "method"
    /\ UNCHANGED <<args, chosen, allVars>>

FindMethod ==
    /\ cmd = "method"
    /\ cmd' = IF args.method_known THEN "session" ELSE "returned"
    /\ UNCHANGED <<args, chosen, allVars>>

StartSession ==
    /\ cmd = "session"
    /\ Start
    /\ cmd' = "starting"
    /\ UNCHANGED <<args, chosen>>

Started ==
    /\ cmd = "starting"
    /\ \/ user = "refused" /\ cmd' = "returned" /\ UNCHANGED chosen
       \/ /\ user = "ready"
          /\ cmd' = IF args.files > 1 THEN "menu" ELSE "load"
          /\ chosen' = IF args.files > 1 THEN 0 ELSE 1
    /\ UNCHANGED <<args, allVars>>

\* a line with the number of a file; other lines only show the menu again
Choose ==
    /\ cmd = "menu"
    /\ sent < MaxWrites
    /\ \E n \in 1..args.files : chosen' = n
    /\ cmd' = "load"
    /\ UNCHANGED <<args, allVars>>

\* "q", or the end of the input
Quit ==
    /\ cmd = "menu"
    /\ cmd' = "close"
    /\ UNCHANGED <<args, chosen, allVars>>

\* load_and_send_message_at_path: a file that cannot be read is skipped
LoadMessage ==
    /\ cmd = "load"
    /\ IF chosen \in args.readable
       THEN SendMessage /\ cmd' = "sending"
       ELSE cmd' = (IF TakesOneMessage THEN "close" ELSE "menu")
            /\ UNCHANGED allVars
    /\ UNCHANGED <<args, chosen>>

MessageSent ==
    /\ cmd = "sending"
    /\ user = "ready"
    /\ cmd' = IF TakesOneMessage THEN "close" ELSE "menu"
    /\ UNCHANGED <<args, chosen, allVars>>

CloseSession ==
    /\ cmd = "close"
    /\ Close
    /\ cmd' = "closing"
    /\ UNCHANGED <<args, chosen>>

\* return 0, which destroys the session, the delegate and the descriptors
Return ==
    /\ cmd = "closing"
    /\ user = "closed"
    /\ cmd' = "returned"
    /\ UNCHANGED <<args, chosen, allVars>>

CommandProceeds ==
    \/ LoadDescriptors
    \/ ReadMessages
    \/ FindMethod
    \/ StartSession
    \/ Started
    \/ LoadMessage
    \/ MessageSent
    \/ CloseSession
    \/ Return

CommandNext ==
    \/ CommandProceeds
    \/ Choose
    \/ Quit
    \/ UserReturns /\ UNCHANGED cmdVars
    \/ ReadThreadNext /\ UNCHANGED cmdVars
    \/ In(Inside) /\ UNCHANGED cmdVars

CommandSpec == CommandInit /\ [][CommandNext]_commandVars

(* The command runs on, a user who is at the menu again and again quits at *)
(* last (the input ends), and inside the session the fairness of Session.  *)
CommandFairSpec ==
    /\ CommandSpec
    /\ WF_commandVars(CommandProceeds)
    /\ SF_commandVars(Quit)
    /\ SessionFairness

-----------------------------------------------------------------------------
(* A method that takes one message gets one, however many files were named *)
(* and whatever the user types (auxl_grpc_cli.cpp:277).                    *)
UnaryGetsOneMessage == ~args.client_streaming => sent <= 1

(* When the command returns, its locals are destroyed: no thread is left   *)
(* in the session or its delegate, and nothing completes into the call.    *)
ReturnsClean ==
    cmd = "returned" =>
        /\ read_thread = "none"
        /\ writer = "out"
        /\ \A t \in Tags : ~InFlight(t)

(* The call is closed with nothing sent only if the user chose nothing or  *)
(* the chosen file could not be read.                                      *)
EmptyCallIsKnown ==
    (cmd \in {"close", "closing"} /\ sent = 0) =>
        chosen \notin args.readable

(* The command comes to an end, unless an assertion fails or the RPC ends  *)
(* before the half-close.                                                  *)
CommandEnds == <>(cmd \in {"returned", "terminated"} \/ ~Alive \/ early)

=============================================================================
