----------------------------- MODULE ProtoFiles -----------------------------
(***************************************************************************)
(* descriptors_from_proto_files (src/src/parser.cpp): fill a descriptor    *)
(* database with the proto files given on the command line and the files   *)
(* that they import, through protobuf's Importer.                          *)
(*                                                                         *)
(* The directory of every given file is mapped to the root of one virtual  *)
(* tree, and files are asked for by base name: the first directory that    *)
(* has the name serves it.  The Importer belongs to protobuf: it builds a  *)
(* file with all that it imports, or reports errors and remembers that the *)
(* file is bad.  Imports are assumed to have no cycles.                    *)
(***************************************************************************)
EXTENDS Naturals, Sequences, FiniteSetsExt

CONSTANTS
    Directories,  \* directories of the disk
    Names,        \* base names of proto files
    Disk,         \* the names each directory has
    DiskImports,  \* of each directory and name: the names that file imports
    Broken,       \* the <<directory, name>> that do not parse
    Warned,       \* the <<directory, name>> that give a warning
    MaxErrors     \* MAX_ERROR_SIZE, 32 in the code

ASSUME ProtoFilesAssumption ==
    /\ IsFiniteSet(Names)
    /\ Disk \in [Directories -> SUBSET Names]
    /\ DiskImports \in [Directories \X Names -> SUBSET Names]
    /\ MaxErrors \in Nat \ {0}

VARIABLES
    given,      \* proto_files: a sequence of <<directory, name>>
    turn,       \* the given file to import next
    parsed,     \* names in the importer's pool
    refused,    \* names the pool knows as bad
    local,      \* names in db
    collector,  \* how many errors are stored, is one of them FATAL?
    missed      \* was a first FATAL error turned away? (history)

reportVars == <<collector, missed>>
protoVars == <<given, turn, parsed, refused, local, reportVars>>

ProtoTypeOK ==
    /\ given \in Seq(Directories \X Names)
    /\ turn \in 1..(Len(given) + 1)
    /\ parsed \subseteq Names
    /\ refused \subseteq Names
    /\ local \subseteq parsed
    /\ collector \in [count : 0..MaxErrors, fatal : BOOLEAN]
    /\ missed \in BOOLEAN

-----------------------------------------------------------------------------
(* error_collector_add_error, for warnings, then errors, then warnings: a  *)
(* full collector takes nothing.                                           *)
Report(early, fatal, late) ==
    LET taken == fatal > 0 /\ collector.count + early < MaxErrors
    IN  /\ collector' =
               [count |-> Min({collector.count + early + fatal + late, MaxErrors}),
                fatal |-> collector.fatal \/ taken]
        /\ missed' = (missed \/ (fatal > 0 /\ ~collector'.fatal))

\* faulty variant of Source: the last directory that has the name serves it
SourceIsLast(name) ==
    given[Max({i \in DOMAIN given : name \in Disk[given[i][1]]})][1]

(* DiskSourceTree, after one MapPath("", dirname) for each given file.     *)
Found(name) == \E i \in DOMAIN given : name \in Disk[given[i][1]]

Source(name) == given[Min({i \in DOMAIN given : name \in Disk[given[i][1]]})][1]

Parses(name) == Found(name) /\ <<Source(name), name>> \notin Broken

ImportsOf(name) ==
    IF Parses(name) THEN DiskImports[<<Source(name), name>>] ELSE {}

(* What the importer asks the disk for on behalf of a name, itself         *)
(* included.                                                               *)
Reached(name) ==
    {n \in Names : \A ns \in SUBSET Names :
        (name \in ns /\ \A m \in ns : ImportsOf(m) \subseteq ns) => n \in ns}

Builds(name) == \A n \in Reached(name) : Parses(n)

-----------------------------------------------------------------------------
(* Faulty variant of the step below, used by no specification.             *)

\* a file that is bad is passed over without a report
ImportFailsQuietly ==
    /\ turn <= Len(given)
    /\ ~Builds(given[turn][2])
    /\ refused' = refused \cup {given[turn][2]}
    /\ turn' = turn + 1
    /\ UNCHANGED <<given, parsed, local, reportVars>>

-----------------------------------------------------------------------------

\* the warnings that parsing these files gives
Warnings(names) ==
    Cardinality({n \in names : Parses(n) /\ <<Source(n), n>> \in Warned})

ProtoInit(choices) ==
    /\ given \in choices
    /\ turn = 1
    /\ parsed = {}
    /\ refused = {}
    /\ local = {}
    /\ collector = [count |-> 0, fatal |-> FALSE]
    /\ missed = FALSE

\* Import succeeds: the file and its direct dependencies are added, those
\* that db has already are left alone; a new file may give a warning
ImportSucceeds ==
    /\ turn <= Len(given)
    /\ LET name == given[turn][2]
           new == Reached(name) \ parsed
       IN  /\ Builds(name)
           /\ parsed' = parsed \cup new
           /\ local' = local \cup {name} \cup ImportsOf(name)
           /\ Report(Warnings(new), 0, 0)
    /\ turn' = turn + 1
    /\ UNCHANGED <<given, refused>>

\* Import returns nullptr: one or more errors for a file not known as bad;
\* what it imports may have been built, or be bad now too
ImportFails ==
    /\ turn <= Len(given)
    /\ LET name == given[turn][2]
           tried == Reached(name) \ (parsed \cup refused)
       IN  /\ ~Builds(name)
           /\ parsed' = parsed \cup {n \in tried : Builds(n)}
           /\ refused' = refused \cup {n \in tried : ~Builds(n)}
           /\ \E early \in 0..Warnings(tried), of_each \in 1..2 :
                 Report(early, of_each * Cardinality(refused' \ refused),
                        Warnings(tried) - early)
    /\ turn' = turn + 1
    /\ UNCHANGED <<given, local>>

ImportFile == ImportSucceeds \/ ImportFails

=============================================================================
