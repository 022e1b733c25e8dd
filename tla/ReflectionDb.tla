----------------------------- MODULE ReflectionDb -----------------------------
(***************************************************************************)
(* grpc::ProtoReflectionDescriptorDatabase                                 *)
(* (src/src/vendor/proto_reflection_descriptor_database.{h,cc}): a         *)
(* database of proto files that asks a server's reflection service for     *)
(* what it does not have and keeps what it got.                            *)
(*                                                                         *)
(* A lookup is one call: DoOneRequest holds stream_mutex_ from its Write   *)
(* to its Read, and one thread uses the database.  Files, symbols and      *)
(* extensions are model values; a file stands for its name and contents.   *)
(*                                                                         *)
(* cached_db_ is protobuf's SimpleDescriptorDatabase.  Its Add enters a    *)
(* file under its name first and then under each symbol and extension it   *)
(* defines, and stops at one that another file has entered: such a file is *)
(* found by its name, and by some of what it defines only.                 *)
(***************************************************************************)
EXTENDS Naturals, FiniteSets

CONSTANTS
    Files,       \* the proto files of the server
    Symbols,     \* the symbols asked for
    Extensions,  \* the <containing type, field number> pairs asked for
    Home,        \* the file that defines a symbol or an extension
    Imports,     \* the files a file imports directly
    Clashing,    \* files that define something another file defines too
    Listing      \* stands for the list of services

ASSUME ReflectionDbAssumption ==
    /\ Symbols \cap Extensions = {}
    /\ Files \cap (Symbols \cup Extensions) = {}
    /\ Home \in [Symbols \cup Extensions -> Files]
    /\ Imports \in [Files -> SUBSET Files]
    /\ Clashing \subseteq Files
    /\ Listing \notin Files \cup Symbols \cup Extensions

VARIABLES
    cached,              \* names, symbols and extensions cached_db_ finds
    known_files,         \* known_files_
    missing_symbols,     \* missing_symbols_
    missing_extensions,  \* missing_extensions_, as pairs
    numbered,            \* types that are in cached_extension_numbers_
    stream,              \* "none", "open", "ended" (a Write or Read failed),
                         \* or "closed"
    broken,              \* did the server, or the channel, end the stream
                         \* with an error status?
    denied,              \* keys the server said NOT_FOUND to (history)
    lost                 \* what was asked for and did not come (history)

negativeVars == <<missing_symbols, missing_extensions>>
dbVars == <<cached, known_files, negativeVars, numbered, stream, broken, denied,
            lost>>

Keys == Files \cup Symbols \cup Extensions

FileOf(k) == IF k \in Files THEN k ELSE Home[k]

DbTypeOK ==
    /\ cached \subseteq Keys
    /\ known_files \subseteq Files
    /\ missing_symbols \subseteq Symbols
    /\ missing_extensions \subseteq Extensions
    /\ numbered \subseteq Symbols
    /\ stream \in {"none", "open", "ended", "closed"}
    /\ broken \in BOOLEAN
    /\ denied \subseteq Keys
    /\ lost \subseteq Keys \cup {Listing}

DbInit ==
    /\ cached = {}
    /\ known_files = {}
    /\ missing_symbols = {}
    /\ missing_extensions = {}
    /\ numbered = {}
    /\ stream = "none"
    /\ broken = FALSE
    /\ denied = {}
    /\ lost = {}

(* The files that f needs, itself included: those in every set that has f  *)
(* and whatever its members import.                                        *)
Closed(fs) == \A f \in fs : Imports[f] \subseteq fs

Needs(f) == {g \in Files : \A fs \in SUBSET Files :
                               (f \in fs /\ Closed(fs)) => g \in fs}

-----------------------------------------------------------------------------
(* The server's side of one request.                                       *)

\* DoOneRequest: Write and Read succeed, on a stream opened when needed
RequestSucceeds ==
    /\ stream \in {"none", "open"}
    /\ stream' = "open"
    /\ UNCHANGED broken

(* DoOneRequest: Write or Read fails, and will from now on.  The stream is *)
(* over, with an error or, if the server just ended it, with status OK.    *)
RequestFails ==
    /\ stream # "closed"
    /\ stream' = "ended"
    /\ broken' \in IF stream = "ended" THEN {broken} ELSE BOOLEAN

(* AddFileFromResponse: every file that is new is known from now on, by    *)
(* its name, and by what it defines as far as Add gets.                    *)
AddFileFromResponse(fs) ==
    LET new == fs \ known_files
        defined == {k \in Symbols \cup Extensions : Home[k] \in new}
    IN  /\ known_files' = known_files \cup fs
        /\ \E entered \in SUBSET defined :
              /\ {k \in defined : Home[k] \notin Clashing} \subseteq entered
              /\ cached' = cached \cup new \cup entered

\* faulty variant of NoAnswer: any failed request is remembered as a missing symbol
NoAnswerRemembered(k) ==
    /\ RequestSucceeds \/ RequestFails
    /\ lost' = lost \cup {k}
    /\ missing_symbols' = missing_symbols \cup ({k} \cap Symbols)
    /\ UNCHANGED <<cached, known_files, missing_extensions, numbered, denied>>

(* A file response to a request about k.  Servers differ in how many of    *)
(* the imports they send along, and one that knows the file under another  *)
(* name answers with files that are not the one looked for.                *)
FileResponse(k) ==
    /\ RequestSucceeds
    /\ \E fs \in SUBSET Needs(FileOf(k)) : AddFileFromResponse(fs)
    /\ lost' = IF k \in cached' THEN lost ELSE lost \cup {k}
    /\ UNCHANGED <<negativeVars, numbered, denied>>

(* An error response that is not NOT_FOUND, a response of another type, or *)
(* no response at all: nothing is remembered.                              *)
NoAnswer(k) ==
    /\ RequestSucceeds \/ RequestFails
    /\ lost' = lost \cup {k}
    /\ UNCHANGED <<cached, known_files, negativeVars, numbered, denied>>

NotFound(k) ==
    /\ RequestSucceeds
    /\ denied' = denied \cup {k}
    /\ lost' = lost \cup {k}
    /\ UNCHANGED <<cached, known_files, numbered>>

-----------------------------------------------------------------------------
(* Faulty variants of the operations around, used by no specification.     *)

\* the negative cache is asked before the positive one
FindSymbolMissingFirst(s, found) ==
    \/ s \in missing_symbols /\ ~found /\ UNCHANGED dbVars
    \/ s \in cached \ missing_symbols /\ found /\ UNCHANGED dbVars
    \/ /\ s \notin cached \cup missing_symbols
       /\ \/ FileResponse(s)
          \/ NoAnswer(s)
          \/ /\ NotFound(s)
             /\ missing_symbols' = missing_symbols \cup {s}
             /\ UNCHANGED missing_extensions
       /\ found = (s \in cached')

\* the symbol is looked for in the cache as it was before the request
FindSymbolTooSoon(s, found) ==
    \/ s \in cached /\ found /\ UNCHANGED dbVars
    \/ /\ s \notin cached
       /\ FileResponse(s) \/ NoAnswer(s)
       /\ ~found

\* missing_symbols_ is not asked
FindSymbolAgain(s, found) ==
    \/ s \in cached /\ found /\ UNCHANGED dbVars
    \/ /\ s \notin cached
       /\ \/ FileResponse(s)
          \/ NoAnswer(s)
          \/ /\ NotFound(s)
             /\ missing_symbols' = missing_symbols \cup {s}
             /\ UNCHANGED missing_extensions
       /\ found = (s \in cached')

-----------------------------------------------------------------------------
(* The lookups.  found is the result of the C++ function.                  *)

(* What is cached, or remembered as missing, is not asked for.             *)
Recalled(k, missing, found) ==
    /\ k \in cached \/ missing
    /\ found = (k \in cached)
    /\ UNCHANGED dbVars

FindFileByName(f, found) ==
    \/ Recalled(f, f \in known_files, found)
    \/ /\ f \notin cached \cup known_files
       /\ \/ FileResponse(f)
          \/ NoAnswer(f)
          \/ NotFound(f) /\ UNCHANGED negativeVars
       /\ found = (f \in cached')

FindFileContainingSymbol(s, found) ==
    \/ Recalled(s, s \in missing_symbols, found)
    \/ /\ s \notin cached \cup missing_symbols
       /\ \/ FileResponse(s)
          \/ NoAnswer(s)
          \/ /\ NotFound(s)
             /\ missing_symbols' = missing_symbols \cup {s}
             /\ UNCHANGED missing_extensions
       /\ found = (s \in cached')

FindFileContainingExtension(e, found) ==
    \/ Recalled(e, e \in missing_extensions, found)
    \/ /\ e \notin cached \cup missing_extensions
       /\ \/ FileResponse(e)
          \/ NoAnswer(e)
          \/ /\ NotFound(e)
             /\ missing_extensions' = missing_extensions \cup {e}
             /\ UNCHANGED missing_symbols
       /\ found = (e \in cached')

(* FindAllExtensionNumbers: only an answer is remembered.                  *)
FindAllExtensionNumbers(t, found) ==
    \/ t \in numbered /\ found /\ UNCHANGED dbVars
    \/ /\ t \notin numbered
       /\ \/ RequestSucceeds /\ found /\ numbered' = numbered \cup {t}
          \/ (RequestSucceeds \/ RequestFails) /\ ~found /\ UNCHANGED numbered
       /\ UNCHANGED <<cached, known_files, negativeVars, denied, lost>>

(* GetServices: what the server lists, or nothing.                         *)
GetServices(listed, found) ==
    /\ \/ RequestSucceeds /\ found /\ UNCHANGED lost
       \/ /\ RequestSucceeds \/ RequestFails
          /\ ~found
          /\ listed = {}
          /\ lost' = lost \cup {Listing}
    /\ UNCHANGED <<cached, known_files, negativeVars, numbered, denied>>

(* CloseStream: WritesDone and Finish, which gives the status the stream   *)
(* ended with; one that is open may still fail.  Without a stream it is OK.*)
CloseStream(ok) ==
    /\ stream # "closed"
    /\ stream = "none" => ok
    /\ stream = "ended" => ok = ~broken
    /\ stream' = "closed"
    /\ broken' = ~ok
    /\ UNCHANGED <<cached, known_files, negativeVars, numbered, denied, lost>>

=============================================================================
