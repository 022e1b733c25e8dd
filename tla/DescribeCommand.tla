--------------------------- MODULE DescribeCommand ---------------------------
(***************************************************************************)
(* auxl_grpc_cli describe (cmd_describe in src/src/cli/auxl_grpc_cli.cpp)  *)
(* and the constructor of Descriptor it calls: connect when there is an    *)
(* endpoint (ConnectionOptions), read the proto files (ProtoFiles), ask    *)
(* the server (DescriptorsFromReflect), and print what was found, or only  *)
(* the errors when one of them is FATAL.                                   *)
(*                                                                         *)
(* One thread runs it all; what may vary is the disk, the options file and *)
(* the server.  The three sources report to one error collector, and put   *)
(* their files into one database, which keeps the first of each name.      *)
(***************************************************************************)
EXTENDS DescriptorsFromReflect, ConnectionOptions, ProtoFiles

CONSTANT Lists   \* the lists of proto files a user may give

ASSUME DescribeAssumption == Lists \subseteq Seq(Directories \X Names)

VARIABLES
    cmd,       \* where cmd_describe is
    endpoint   \* was one given?

describeVars == <<vars, optionsVars, protoVars, cmd, endpoint>>

DescribeTypeOK ==
    /\ TypeOK
    /\ OptionsTypeOK
    /\ ProtoTypeOK
    /\ cmd \in {"connect", "files", "reflect", "print", "printed", "failed",
                "crashed", "aborted"}
    /\ endpoint \in BOOLEAN

\* the names in the database, and those of them that the server gave
Database == local \cup stored
FromServer == stored \ local

Fatal == collector.count > 0 /\ collector.fatal

-----------------------------------------------------------------------------

DescribeInit ==
    /\ Init
    /\ OptionsInit
    /\ ProtoInit(Lists)
    /\ cmd = "connect"
    /\ endpoint \in BOOLEAN
    /\ ~endpoint => file = "not_given"
    /\ endpoint \/ given # <<>>

\* cli_create_connection
Connecting ==
    /\ cmd = "connect"
    /\ endpoint
    /\ OptionsNext
    /\ UNCHANGED <<vars, protoVars, cmd, endpoint>>

\* an assertion of gRPC stops the program
Aborted ==
    /\ cmd = "connect"
    /\ step = "aborted"
    /\ cmd' = "aborted"
    /\ UNCHANGED <<vars, optionsVars, protoVars, endpoint>>

Connected ==
    /\ cmd = "connect"
    /\ endpoint => step = "done"
    /\ Forget
    /\ cmd' = "files"
    /\ UNCHANGED <<vars, step, fault, channel, protoVars, endpoint>>

\* the constructor of Descriptor: first the files
ReadingFiles ==
    /\ cmd = "files"
    /\ ImportFile
    /\ UNCHANGED <<vars, optionsVars, cmd, endpoint>>

FilesRead ==
    /\ cmd = "files"
    /\ turn > Len(given)
    /\ cmd' = IF endpoint THEN "reflect" ELSE "print"
    /\ UNCHANGED <<vars, optionsVars, protoVars, endpoint>>

\* then the server, whose failure is one FATAL error
Reflecting ==
    /\ cmd = "reflect"
    /\ Next
    /\ IF errors' # errors THEN Report(0, 1, 0) ELSE UNCHANGED reportVars
    /\ UNCHANGED <<optionsVars, given, turn, parsed, refused, local, cmd,
                   endpoint>>

Reflected ==
    /\ cmd = "reflect"
    /\ \/ pc = "done" /\ cmd' = "print"
       \/ pc = "crashed" /\ cmd' = "crashed"
    /\ UNCHANGED <<vars, optionsVars, protoVars, endpoint>>

\* to_json, and the errors
PrintAll ==
    /\ cmd = "print"
    /\ cmd' = IF Fatal THEN "failed" ELSE "printed"
    /\ UNCHANGED <<vars, optionsVars, protoVars, endpoint>>

DescribeNext ==
    \/ Connecting
    \/ Aborted
    \/ Connected
    \/ ReadingFiles
    \/ FilesRead
    \/ Reflecting
    \/ Reflected
    \/ PrintAll

(* The command runs on; the server answers, or the stream breaks.          *)
DescribeSpec ==
    DescribeInit /\ [][DescribeNext]_describeVars /\ WF_describeVars(DescribeNext)

-----------------------------------------------------------------------------
(* When there is a description, every given file is in it with all that it *)
(* imports, as it stands in its own directory if that has it, unless the   *)
(* directory of a file given before has one of the same name.  Only an     *)
(* error report that found no room may hide that one could not be read.    *)
GivenIsRead ==
    (cmd = "printed" /\ ~missed) =>
        \A i \in DOMAIN given :
            LET name == given[i][2]
            IN  /\ {name} \cup ImportsOf(name) \subseteq local
                /\ \/ Source(name) = given[i][1]
                   \/ name \notin Disk[given[i][1]]
                   \/ \E j \in 1..(i - 1) : name \in Disk[given[j][1]]

(* The verdict is that of the files and of the stream: the command gives   *)
(* no description exactly when a file could not be read or the stream      *)
(* ended with an error status, which the client learns only from Finish,   *)
(* unless the collector was full of warnings before the first FATAL error. *)
(* Error responses, and a stream that the server ends with status OK, are  *)
(* not part of it: PrintedIsComplete says what they do to the description. *)
Failed == broken \/ \E i \in DOMAIN given : ~Builds(given[i][2])

VerdictIsTrue ==
    /\ cmd = "failed" => Failed
    /\ cmd = "printed" => (~Failed \/ missed)
    /\ missed => collector = [count |-> MaxErrors, fatal |-> FALSE]

(* What is printed of a server is complete but for what did not come when  *)
(* it was asked for, be it because of an error response, a wrong answer or *)
(* the end of the stream: no service is missing unless the list of them    *)
(* was lost, no file unless it was lost itself, and an empty file stands   *)
(* for lost imports only.  The given files take the place of the server's  *)
(* of the same name.                                                       *)
PrintedIsComplete ==
    (cmd = "printed" /\ endpoint) =>
        /\ listed = Services \/ Listing \in lost
        /\ \A s \in listed : /\ Home[s] \in Database
                             /\ Wanted(s) \subseteq Database \cup lost
        /\ FromServer \subseteq UNION {Wanted(s) : s \in listed}
        /\ EmptyOnlyIfLost

(* The command never goes round in circles, whatever the server lists and  *)
(* however the files import one another: what is left to do gets less with *)
(* every step.                                                             *)
OptionsWork ==
    CASE step = "load"    -> 4
      [] step = "parse"   -> 3
      [] step = "connect" -> 2
      [] step = "release" -> 1
      [] OTHER            -> 0

CommandWork ==
    CASE cmd = "connect" -> 4
      [] cmd = "files"   -> 3
      [] cmd = "reflect" -> 2
      [] cmd = "print"   -> 1
      [] OTHER           -> 0

FilesWork == Len(given) + 1 - turn

WorkLeft == OptionsWork + FilesWork + ServerWork + CommandWork

WorkGetsLess == [][(WorkLeft' < WorkLeft /\ WorkLeft' >= 0)]_describeVars

(* The command comes back, or stops on the descriptor it did not get or on *)
(* gRPC's assertion.                                                       *)
DescribeReturns == <>(cmd \in {"printed", "failed", "crashed", "aborted"})

=============================================================================
