----------------------- MODULE DescriptorsFromReflect -----------------------
(***************************************************************************)
(* descriptors_from_reflect (src/src/parser.cpp): fill a descriptor        *)
(* database with the files of every service a server lists, through a      *)
(* ReflectionDb and a DescriptorPool on top of it.                         *)
(*                                                                         *)
(* The pool belongs to protobuf.  To find a service it asks the database   *)
(* for the file with that symbol and then, one by one, for the files it    *)
(* imports; with AllowUnknownDependencies an import that cannot be had is  *)
(* replaced by a placeholder.  A file the pool failed to get by name, or   *)
(* refused for a clash with one it has, stays bad (its known_bad_files_).  *)
(***************************************************************************)
EXTENDS ReflectionDb

CONSTANTS
    Services,  \* what the server lists
    None       \* no service

ASSUME ServicesAssumption ==
    /\ Services \subseteq Symbols
    /\ None \notin Symbols
    /\ IsFiniteSet(Services)
    /\ IsFiniteSet(Files)

VARIABLES
    pc,        \* where the function is
    listed,    \* service_names
    services,  \* those still to do
    service,   \* serv
    todo,      \* files the pool, or the loop over the dependencies, has to ask
    built,     \* files in the pool
    bad,       \* files the pool could not get, or not build
    stored,    \* files in db
    empty,     \* has an empty FileDescriptorProto been added to db?
    errors     \* what was added to the error collector

ownVars == <<pc, listed, services, service, todo, built, bad, stored, empty,
             errors>>
vars == <<dbVars, ownVars>>

TypeOK ==
    /\ DbTypeOK
    /\ pc \in {"list", "next", "resolve", "build", "fetch", "imports", "done",
               "crashed"}
    /\ listed \subseteq Services
    /\ services \subseteq listed
    /\ service \in Services \cup {None}
    /\ todo \subseteq Files
    /\ built \subseteq Files
    /\ bad \subseteq Files
    /\ stored \subseteq Files
    /\ empty \in BOOLEAN
    /\ errors \subseteq {"REFLECTION_NOT_AVAILABLE", "REFLECTION_FAILED"}

-----------------------------------------------------------------------------
(* Faulty variants of the steps below, used by no specification.           *)

\* stops after the first service
NextServiceOnly ==
    /\ pc = "next"
    /\ \E s \in services : service' = s
    /\ services' = {}
    /\ pc' = "resolve"
    /\ UNCHANGED <<dbVars, listed, todo, built, bad, stored, empty, errors>>

\* does not get on to the next dependency
StoreImportAgain ==
    /\ pc = "imports"
    /\ \E f \in todo :
          /\ FindFileByName(f, TRUE)
          /\ stored' = stored \cup {f}
    /\ UNCHANGED <<pc, listed, services, service, todo, built, bad, empty, errors>>

\* the status of the stream is not looked at
CloseUnchecked ==
    /\ pc = "next"
    /\ services = {}
    /\ \E ok \in BOOLEAN : CloseStream(ok)
    /\ pc' = "done"
    /\ UNCHANGED <<listed, services, service, todo, built, bad, stored, empty,
                   errors>>

-----------------------------------------------------------------------------

Init ==
    /\ DbInit
    /\ pc = "list"
    /\ listed = {}
    /\ services = {}
    /\ service = None
    /\ todo = {}
    /\ built = {}
    /\ bad = {}
    /\ stored = {}
    /\ empty = FALSE
    /\ errors = {}

\* the result of GetServices is not looked at, only the names it left
ListServices ==
    /\ pc = "list"
    /\ \E found \in BOOLEAN, names \in {{}, Services} :
          /\ found => names = Services
          /\ GetServices(names, found)
          /\ listed' = names
    /\ services' = listed'
    /\ pc' = "next"
    /\ UNCHANGED <<service, todo, built, bad, stored, empty, errors>>

NextService ==
    /\ pc = "next"
    /\ \E s \in services : service' = s /\ services' = services \ {s}
    /\ pc' = "resolve"
    /\ UNCHANGED <<dbVars, listed, todo, built, bad, stored, empty, errors>>

\* desc_pool.FindServiceByName; the next line dereferences its result
FindService ==
    /\ pc = "resolve"
    /\ \/ /\ Home[service] \in built
          /\ pc' = "fetch"
          /\ UNCHANGED <<dbVars, todo, built>>
       \/ /\ Home[service] \notin built
          /\ FindFileContainingSymbol(service, TRUE)
          /\ Home[service] \notin bad
          /\ built' = built \cup {Home[service]}
          /\ todo' = Imports[Home[service]] \ (built' \cup bad)
          /\ pc' = "build"
       \/ /\ Home[service] \notin built
          /\ \/ FindFileContainingSymbol(service, FALSE)
             \/ FindFileContainingSymbol(service, TRUE) /\ Home[service] \in bad
          /\ pc' = "crashed"
          /\ UNCHANGED <<todo, built>>
    /\ UNCHANGED <<listed, services, service, bad, stored, empty, errors>>

\* the pool asks for the imports, and for theirs
BuildImport ==
    /\ pc = "build"
    /\ \E f \in todo :
          \/ /\ FindFileByName(f, TRUE)
             /\ built' = built \cup {f}
             /\ todo' = (todo \cup Imports[f]) \ (built' \cup bad)
             /\ UNCHANGED bad
          \/ /\ f \in Clashing
             /\ FindFileByName(f, TRUE)
             /\ bad' = bad \cup {f}
             /\ todo' = (todo \cup Imports[f]) \ (built \cup bad')
             /\ UNCHANGED built
          \/ /\ FindFileByName(f, FALSE)
             /\ bad' = bad \cup {f}
             /\ todo' = todo \ {f}
             /\ UNCHANGED built
    /\ UNCHANGED <<pc, listed, services, service, stored, empty, errors>>

\* the imports are there, and the file of the service is built on them;
\* FindServiceByName returns no service of a file refused for a clash
Built ==
    /\ pc = "build"
    /\ todo = {}
    /\ \/ pc' = "fetch"
       \/ Home[service] \in Clashing /\ pc' = "crashed"
    /\ UNCHANGED <<dbVars, listed, services, service, todo, built, bad, stored,
                   empty, errors>>

\* the proto of a lookup that failed is empty, and added all the same
Store(f, found) ==
    /\ stored' = IF found THEN stored \cup {f} ELSE stored
    /\ empty' = (empty \/ ~found)

FetchFile ==
    /\ pc = "fetch"
    /\ \E found \in BOOLEAN :
          /\ FindFileByName(Home[service], found)
          /\ Store(Home[service], found)
          /\ todo' = IF found THEN Imports[Home[service]] ELSE {}
    /\ pc' = "imports"
    /\ UNCHANGED <<listed, services, service, built, bad, errors>>

StoreImport ==
    /\ pc = "imports"
    /\ \E f \in todo, found \in BOOLEAN :
          /\ FindFileByName(f, found)
          /\ Store(f, found)
          /\ todo' = todo \ {f}
    /\ UNCHANGED <<pc, listed, services, service, built, bad, errors>>

ServiceDone ==
    /\ pc = "imports"
    /\ todo = {}
    /\ pc' = "next"
    /\ UNCHANGED <<dbVars, listed, services, service, todo, built, bad, stored,
                   empty, errors>>

Close ==
    /\ pc = "next"
    /\ services = {}
    /\ \/ CloseStream(TRUE) /\ UNCHANGED errors
       \/ /\ CloseStream(FALSE)
          /\ \E e \in {"REFLECTION_NOT_AVAILABLE", "REFLECTION_FAILED"} :
                errors' = errors \cup {e}
    /\ pc' = "done"
    /\ UNCHANGED <<listed, services, service, todo, built, bad, stored, empty>>

Next ==
    \/ ListServices
    \/ NextService
    \/ FindService
    \/ BuildImport
    \/ Built
    \/ FetchFile
    \/ StoreImport
    \/ ServiceDone
    \/ Close

(* The server answers every request or the stream breaks: the code sets no *)
(* deadline on the stream, so nothing else keeps it from waiting for ever. *)
Spec == Init /\ [][Next]_vars /\ WF_vars(Next)

-----------------------------------------------------------------------------
(* How many steps are left at most.  A service takes as many as the server *)
(* has files, and six more; a file is built, or found bad, once in all.    *)
ServiceWork == Cardinality(Files) + 6

PlaceWork ==
    CASE pc = "list"    -> 2
      [] pc = "next"    -> 1
      [] pc = "resolve" -> Cardinality(Files) + 5
      [] pc = "build"   -> Cardinality(Files) + 4
      [] pc = "fetch"   -> Cardinality(Files) + 3
      [] pc = "imports" -> Cardinality(todo) + 2
      [] OTHER          -> 0

ServerWork ==
    Cardinality(IF pc = "list" THEN Services ELSE services) * ServiceWork
        + Cardinality(Files \ (built \cup bad)) + PlaceWork

(* A service without descriptor stops the program only if that service, or *)
(* its file, was asked for and did not come, or if the file clashes with   *)
(* another one.                                                            *)
CrashOnlyIfLost ==
    pc = "crashed" => \/ {service, Home[service]} \cap lost # {}
                      \/ Home[service] \in Clashing

(* The files that the function means to store for service s.               *)
Wanted(s) == {Home[s]} \cup Imports[Home[s]]

(* An empty file gets into the result only for an import that was lost.    *)
EmptyOnlyIfLost ==
    empty => \E s \in listed : Imports[Home[s]] \cap lost # {}

(* When every request was answered, the result has the file of every       *)
(* service of the server and the files it imports, and nothing else.       *)
CompleteIfAnswered ==
    (pc = "done" /\ lost = {}) =>
        /\ listed = Services
        /\ stored = UNION {Wanted(s) : s \in listed}

(* The README's "describe, then call": Descriptor::get_method_descriptor   *)
(* finds a method when its file and all that it needs are in the database  *)
(* and do not clash.  True of servers whose files import one level deep.   *)
Resolves(s) == Needs(Home[s]) \subseteq stored \ Clashing

DescribedServicesResolve ==
    (pc = "done" /\ lost = {} /\ errors = {}) => \A s \in listed : Resolves(s)

=============================================================================
