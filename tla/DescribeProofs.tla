---------------------------- MODULE DescribeProofs ----------------------------
(***************************************************************************)
(* Proofs about DescribeCommand: what the server's part, the options' part *)
(* and the files' part keep, and then the command around them.             *)
(***************************************************************************)
EXTENDS DescribeCommand, FiniteSetTheorems, WellFoundedInduction, TLAPS

-----------------------------------------------------------------------------
(* The server: descriptors_from_reflect over ReflectionDb.                 *)

(* What is known is found by name, and a symbol that is found has its file *)
(* there, too; a stream that works is not broken.                          *)
CacheInv ==
    /\ DbTypeOK
    /\ known_files \subseteq cached
    /\ \A s \in Symbols \cap cached : Home[s] \in cached
    /\ missing_symbols \subseteq lost
    /\ stream \in {"none", "open"} => ~broken

InService == pc \in {"resolve", "build", "fetch", "imports"}

BadInv ==
    /\ bad \subseteq lost \cup Clashing
    /\ built \subseteq cached
    /\ pc \in {"build", "fetch"} => Home[service] \in cached
    /\ CrashOnlyIfLost

ServiceInv ==
    /\ InService => service \in listed
    /\ pc = "imports" => todo \subseteq Imports[Home[service]]

(* What is left to store for service s.                                    *)
Waiting(s) ==
    \/ s \in services
    \/ pc \in {"resolve", "build", "fetch", "crashed"} /\ s = service

StillDue(s) ==
    IF Waiting(s) THEN Wanted(s)
    ELSE IF pc = "imports" /\ s = service THEN todo
    ELSE {}

StoredInv ==
    /\ stored \subseteq UNION {Wanted(s) : s \in listed}
    /\ \A s \in listed : Waiting(s) \/ Home[s] \in stored
    /\ \A s \in listed : Wanted(s) \subseteq stored \cup lost \cup StillDue(s)
    /\ EmptyOnlyIfLost

StageInv ==
    /\ pc = "list" => listed = {} /\ services = {} /\ stored = {} /\ stream = "none"
    /\ pc # "list" => listed = Services \/ Listing \in lost
    /\ pc = "done" => services = {}
    /\ pc # "done" => errors = {}
    /\ pc = "done" => (broken <=> errors # {})

RInv ==
    /\ TypeOK
    /\ CacheInv
    /\ BadInv
    /\ ServiceInv
    /\ StoredInv
    /\ StageInv

LEMMA ReflectInitHolds == Init => RInv
<1> SUFFICES ASSUME Init PROVE RInv
  OBVIOUS
<1>1. TypeOK /\ CacheInv
  BY ServicesAssumption, ReflectionDbAssumption DEF Init, DbInit, TypeOK,
     DbTypeOK, CacheInv
<1>2. BadInv /\ ServiceInv /\ StoredInv /\ StageInv
  BY DEF Init, DbInit, BadInv, ServiceInv, StoredInv, StageInv, InService,
     CrashOnlyIfLost, EmptyOnlyIfLost
<1> QED
  BY <1>1, <1>2 DEF RInv

LEMMA HomesAreFiles ==
    ASSUME NEW s \in Services
    PROVE  Home[s] \in Files /\ Imports[Home[s]] \subseteq Files /\ FileOf(s) = Home[s]
           /\ s \in Symbols
  BY ServicesAssumption, ReflectionDbAssumption DEF FileOf

(* What every call of the database keeps, and what only grows.             *)
CacheGrows ==
    /\ CacheInv'
    /\ cached \subseteq cached'
    /\ lost \subseteq lost'
    /\ broken => broken'

LEMMA NothingAsked == CacheInv /\ UNCHANGED dbVars => CacheGrows /\ lost' = lost
  BY DEF dbVars, negativeVars, CacheInv, DbTypeOK, CacheGrows

\* what the stream does at a request
LEMMA StreamStep ==
    ASSUME CacheInv, RequestSucceeds \/ RequestFails
    PROVE  /\ stream' \in {"none", "open", "ended", "closed"}
           /\ broken' \in BOOLEAN
           /\ stream' \in {"none", "open"} => ~broken'
           /\ broken => broken'
  BY DEF RequestSucceeds, RequestFails, CacheInv, DbTypeOK

LEMMA FilesComeIn ==
    ASSUME CacheInv, NEW fs \in SUBSET Files, AddFileFromResponse(fs)
    PROVE  /\ cached' \subseteq Keys
           /\ cached \subseteq cached'
           /\ known_files' \subseteq cached'
           /\ known_files' \subseteq Files
           /\ \A s \in Symbols \cap cached' : Home[s] \in cached'
<1> DEFINE new == fs \ known_files
           defined == {k \in Symbols \cup Extensions : Home[k] \in new}
<1>1. PICK entered \in SUBSET defined : cached' = cached \cup new \cup entered
  BY DEF AddFileFromResponse
<1>2. known_files' = known_files \cup new
  BY DEF AddFileFromResponse
<1>3. cached \subseteq Keys /\ new \subseteq Keys /\ entered \subseteq Keys
  BY DEF CacheInv, DbTypeOK, Keys
<1>4. \A k \in entered : Home[k] \in new
  BY <1>1
<1>5. new \subseteq Files /\ new \cap Symbols = {}
  BY ReflectionDbAssumption
<1> HIDE DEF new, defined
<1>6. known_files' \subseteq Files
  BY <1>2, <1>5 DEF CacheInv, DbTypeOK
<1>7. \A s \in Symbols \cap cached' : Home[s] \in cached'
  BY <1>1, <1>4, <1>5 DEF CacheInv
<1> QED
  BY <1>1, <1>2, <1>3, <1>6, <1>7 DEF CacheInv

\* what is looked up may bring in files, and is lost when it is not found then
LEMMA ResponseStep ==
    ASSUME CacheInv, NEW k \in Keys, FileResponse(k)
    PROVE  CacheGrows /\ (k \notin cached' => k \in lost')
<1>1. PICK fs \in SUBSET Needs(FileOf(k)) : AddFileFromResponse(fs)
  BY DEF FileResponse
<1>2. fs \in SUBSET Files
  BY <1>1 DEF Needs
<1>3. /\ lost' = IF k \in cached' THEN lost ELSE lost \cup {k}
      /\ missing_symbols' = missing_symbols
      /\ missing_extensions' = missing_extensions
      /\ numbered' = numbered
      /\ denied' = denied
      /\ RequestSucceeds
  BY DEF FileResponse, negativeVars
<1>4. /\ cached' \subseteq Keys
      /\ cached \subseteq cached'
      /\ known_files' \subseteq cached'
      /\ known_files' \subseteq Files
      /\ \A s \in Symbols \cap cached' : Home[s] \in cached'
  BY <1>1, <1>2, FilesComeIn
<1>5. /\ stream' \in {"none", "open", "ended", "closed"}
      /\ broken' \in BOOLEAN
      /\ stream' \in {"none", "open"} => ~broken'
      /\ broken => broken'
  BY <1>3, StreamStep
<1>6. DbTypeOK'
  BY <1>3, <1>4, <1>5 DEF CacheInv, DbTypeOK
<1>7. lost \subseteq lost' /\ missing_symbols' \subseteq lost'
  BY <1>3 DEF CacheInv
<1> QED
  BY <1>3, <1>4, <1>5, <1>6, <1>7 DEF CacheInv, CacheGrows

\* what is not answered with a file is lost
LEMMA NoFileStep ==
    ASSUME CacheInv, NEW k \in Keys, RequestSucceeds \/ RequestFails,
           UNCHANGED <<cached, known_files, numbered, missing_extensions>>,
           denied' \in {denied, denied \cup {k}},
           lost' = lost \cup {k},
           missing_symbols' \in {missing_symbols, missing_symbols \cup ({k} \cap Symbols)}
    PROVE  CacheGrows /\ k \in lost'
<1>1. /\ stream' \in {"none", "open", "ended", "closed"}
      /\ broken' \in BOOLEAN
      /\ stream' \in {"none", "open"} => ~broken'
      /\ broken => broken'
  BY StreamStep
<1>2. DbTypeOK'
  BY <1>1 DEF CacheInv, DbTypeOK
<1> QED
  BY <1>1, <1>2 DEF CacheInv, CacheGrows

LEMMA FileLookup ==
    ASSUME CacheInv, NEW f \in Files, NEW found \in BOOLEAN,
           FindFileByName(f, found)
    PROVE  /\ CacheGrows
           /\ found => f \in cached'
           /\ ~found => f \in lost'
           /\ f \in cached => found
<1>0. f \in Keys
  BY DEF Keys
<1>1. CASE Recalled(f, f \in known_files, found)
  BY <1>1, NothingAsked DEF Recalled, CacheInv, dbVars
<1>2. CASE /\ f \notin cached
           /\ found = (f \in cached')
           /\ FileResponse(f)
  BY <1>0, <1>2, ResponseStep
<1>3. CASE /\ f \notin cached
           /\ found = (f \in cached')
           /\ NoAnswer(f) \/ (NotFound(f) /\ UNCHANGED negativeVars)
  BY <1>0, <1>3, NoFileStep DEF NoAnswer, NotFound, negativeVars
<1> QED
  BY <1>1, <1>2, <1>3 DEF FindFileByName

LEMMA SymbolLookup ==
    ASSUME CacheInv, NEW s \in Services, NEW found \in BOOLEAN,
           FindFileContainingSymbol(s, found)
    PROVE  /\ CacheGrows
           /\ found => Home[s] \in cached'
           /\ ~found => s \in lost'
<1>0. s \in Symbols /\ s \in Keys
  BY HomesAreFiles DEF Keys
<1>1. CASE Recalled(s, s \in missing_symbols, found)
  BY <1>0, <1>1, NothingAsked DEF Recalled, CacheInv, dbVars
<1>2. CASE FileResponse(s) /\ found = (s \in cached')
  BY <1>0, <1>2, ResponseStep DEF CacheGrows, CacheInv
<1>3. CASE NoAnswer(s) /\ found = (s \in cached')
  BY <1>0, <1>3, NoFileStep DEF NoAnswer, negativeVars, CacheGrows, CacheInv
<1>4. CASE NotFound(s) /\ missing_symbols' = missing_symbols \cup {s}
                       /\ UNCHANGED missing_extensions
                       /\ found = (s \in cached')
  BY <1>0, <1>4, NoFileStep DEF NotFound, CacheGrows, CacheInv
<1> QED
  BY <1>1, <1>2, <1>3, <1>4 DEF FindFileContainingSymbol

LEMMA ListKeeps ==
    ASSUME RInv, ListServices
    PROVE  RInv' /\ CacheGrows
<1>1. PICK found \in BOOLEAN, names \in {{}, Services} :
          /\ found => names = Services
          /\ GetServices(names, found)
          /\ listed' = names
  BY DEF ListServices
<1>2. /\ UNCHANGED <<cached, known_files, missing_symbols, missing_extensions,
                     numbered, denied>>
      /\ RequestSucceeds \/ RequestFails
      /\ \/ found /\ lost' = lost
         \/ lost' = lost \cup {Listing}
  BY <1>1 DEF GetServices, negativeVars
<1>3. CacheGrows
  <2>1. /\ stream' \in {"none", "open", "ended", "closed"}
        /\ broken' \in BOOLEAN
        /\ stream' \in {"none", "open"} => ~broken'
        /\ broken => broken'
    BY <1>2, StreamStep DEF RInv
  <2>2. DbTypeOK'
    BY <1>2, <2>1 DEF RInv, CacheInv, DbTypeOK
  <2> QED
    BY <1>2, <2>1, <2>2 DEF RInv, CacheInv, CacheGrows
<1>4. /\ UNCHANGED <<service, todo, built, bad, stored, empty, errors>>
      /\ pc = "list" /\ pc' = "next" /\ services' = listed'
      /\ listed' \subseteq Services
  BY <1>1 DEF ListServices
<1>5. TypeOK'
  BY <1>3, <1>4 DEF RInv, TypeOK, CacheInv, CacheGrows
<1>6. BadInv' /\ ServiceInv'
  BY <1>3, <1>4 DEF RInv, BadInv, ServiceInv, InService, CrashOnlyIfLost, CacheGrows
<1>7. StageInv'
  BY <1>1, <1>2, <1>4 DEF RInv, StageInv
<1>8. StoredInv'
  BY <1>2, <1>4 DEF RInv, StoredInv, StageInv, Waiting, StillDue, EmptyOnlyIfLost, Wanted
<1> QED
  BY <1>3, <1>5, <1>6, <1>7, <1>8 DEF RInv, CacheGrows

\* a step of the pool, that stores nothing
LEMMA NothingStored ==
    ASSUME RInv, lost \subseteq lost',
           UNCHANGED <<listed, services, service, stored, empty>>,
           pc \in {"resolve", "build", "fetch"},
           pc' \in {"build", "fetch", "crashed"}
    PROVE  StoredInv'
<1>1. \A s : Waiting(s)' = Waiting(s) /\ StillDue(s)' = StillDue(s)
  BY DEF Waiting, StillDue, Wanted
<1> QED
  BY <1>1 DEF RInv, StoredInv, EmptyOnlyIfLost, Wanted

LEMMA NextServiceKeeps ==
    ASSUME RInv, NextService
    PROVE  RInv' /\ CacheGrows
<1>1. PICK s \in services : service' = s /\ services' = services \ {s}
  BY DEF NextService
<1>2. CacheGrows /\ lost' = lost /\ UNCHANGED <<cached, broken>>
  BY NothingAsked DEF NextService, RInv, dbVars
<1>3. /\ UNCHANGED <<listed, todo, built, bad, stored, empty, errors>>
      /\ pc = "next" /\ pc' = "resolve"
  BY DEF NextService
<1>4. TypeOK'
  BY <1>1, <1>2, <1>3 DEF RInv, TypeOK, CacheInv, CacheGrows
<1>5. BadInv' /\ ServiceInv' /\ StageInv'
  BY <1>1, <1>2, <1>3 DEF RInv, BadInv, ServiceInv, StageInv, InService,
     CrashOnlyIfLost, TypeOK
<1>6. \A t : Waiting(t)' = Waiting(t) /\ StillDue(t)' = StillDue(t)
  BY <1>1, <1>3 DEF Waiting, StillDue, Wanted
<1>7. StoredInv'
  BY <1>2, <1>3, <1>6 DEF RInv, StoredInv, EmptyOnlyIfLost, Wanted
<1> QED
  BY <1>2, <1>4, <1>5, <1>7 DEF RInv, CacheGrows

LEMMA FindServiceKeeps ==
    ASSUME RInv, FindService
    PROVE  RInv' /\ CacheGrows
<1>0. service \in listed /\ service \in Services
  BY DEF FindService, RInv, ServiceInv, InService, TypeOK
<1>1. /\ UNCHANGED <<listed, services, service, bad, stored, empty, errors>>
      /\ pc = "resolve"
      /\ \/ pc' = "fetch" /\ UNCHANGED built /\ Home[service] \in built /\ UNCHANGED dbVars
         \/ /\ pc' = "build" /\ built' = built \cup {Home[service]}
            /\ FindFileContainingSymbol(service, TRUE)
         \/ pc' = "crashed" /\ UNCHANGED built /\ FindFileContainingSymbol(service, FALSE)
         \/ /\ pc' = "crashed" /\ UNCHANGED built /\ Home[service] \in bad
            /\ FindFileContainingSymbol(service, TRUE)
  BY DEF FindService
<1>2. CacheGrows
  BY <1>0, <1>1, SymbolLookup, NothingAsked DEF RInv
<1>3. pc' \in {"build", "fetch"} => Home[service] \in cached'
  BY <1>0, <1>1, <1>2, SymbolLookup DEF RInv, BadInv, CacheGrows
<1>4. built' \subseteq cached'
  BY <1>1, <1>2, <1>3 DEF RInv, BadInv, CacheGrows
<1>5. CrashOnlyIfLost'
  BY <1>0, <1>1, <1>2, SymbolLookup DEF RInv, BadInv, CrashOnlyIfLost, CacheGrows
<1>6. built' \subseteq Files /\ todo' \subseteq Files
  BY <1>0, HomesAreFiles DEF FindService, RInv, TypeOK
<1>7. TypeOK'
  BY <1>1, <1>2, <1>6 DEF RInv, TypeOK, CacheInv, CacheGrows
<1>8. BadInv' /\ ServiceInv' /\ StageInv'
  BY <1>0, <1>1, <1>2, <1>3, <1>4, <1>5 DEF RInv, BadInv, ServiceInv, StageInv,
     InService, CacheGrows
<1>9. StoredInv'
  BY <1>1, <1>2, NothingStored DEF CacheGrows
<1> QED
  BY <1>2, <1>7, <1>8, <1>9 DEF RInv, CacheGrows

LEMMA BuildImportKeeps ==
    ASSUME RInv, BuildImport
    PROVE  RInv' /\ CacheGrows
<1>1. PICK f \in todo, found \in BOOLEAN :
          /\ FindFileByName(f, found)
          /\ todo' \subseteq todo \cup Imports[f]
          /\ \/ found /\ built' = built \cup {f} /\ UNCHANGED bad
             \/ (~found \/ f \in Clashing) /\ bad' = bad \cup {f} /\ UNCHANGED built
  BY DEF BuildImport
<1>2. f \in Files /\ Imports[f] \subseteq Files
  BY ReflectionDbAssumption DEF RInv, TypeOK
<1>3. /\ CacheGrows
      /\ found => f \in cached'
      /\ ~found => f \in lost'
  BY <1>1, <1>2, FileLookup DEF RInv
<1>4. /\ UNCHANGED <<pc, listed, services, service, stored, empty, errors>>
      /\ pc = "build"
  BY DEF BuildImport
<1>5. TypeOK'
  BY <1>1, <1>2, <1>3, <1>4 DEF RInv, TypeOK, CacheInv, CacheGrows
<1>6. bad' \subseteq lost' \cup Clashing /\ built' \subseteq cached'
  BY <1>1, <1>3 DEF RInv, BadInv, CacheGrows
<1>7. BadInv' /\ ServiceInv' /\ StageInv'
  BY <1>3, <1>4, <1>6 DEF RInv, BadInv, ServiceInv, StageInv, InService,
     CrashOnlyIfLost, CacheGrows
<1>8. StoredInv'
  BY <1>3, <1>4, NothingStored DEF CacheGrows
<1> QED
  BY <1>3, <1>5, <1>7, <1>8 DEF RInv, CacheGrows

\* the pool has the file of the service, so that its name is found
LEMMA FetchFileKeeps ==
    ASSUME RInv, FetchFile
    PROVE  RInv' /\ CacheGrows
<1>0. service \in listed /\ service \in Services /\ Home[service] \in cached
  BY DEF FetchFile, RInv, ServiceInv, InService, TypeOK, BadInv
<1>1. Home[service] \in Files /\ Imports[Home[service]] \subseteq Files
  BY <1>0, HomesAreFiles
<1>2. PICK found \in BOOLEAN :
          /\ FindFileByName(Home[service], found)
          /\ Store(Home[service], found)
          /\ todo' = IF found THEN Imports[Home[service]] ELSE {}
  BY DEF FetchFile
<1>3. CacheGrows /\ found
  BY <1>0, <1>1, <1>2, FileLookup DEF RInv
<1>4. /\ stored' = stored \cup {Home[service]}
      /\ empty' = empty
      /\ todo' = Imports[Home[service]]
  BY <1>2, <1>3 DEF Store, RInv, TypeOK
<1>5. /\ UNCHANGED <<listed, services, service, built, bad, errors>>
      /\ pc = "fetch" /\ pc' = "imports"
  BY DEF FetchFile
<1>6. TypeOK'
  BY <1>1, <1>3, <1>4, <1>5 DEF RInv, TypeOK, CacheInv, CacheGrows
<1>7. BadInv' /\ ServiceInv' /\ StageInv'
  BY <1>0, <1>3, <1>4, <1>5 DEF RInv, BadInv, ServiceInv, StageInv, InService,
     CrashOnlyIfLost, CacheGrows
<1>8. StoredInv'
  <2>1. stored' \subseteq UNION {Wanted(s) : s \in listed'}
    BY <1>0, <1>4, <1>5 DEF RInv, StoredInv, Wanted
  <2>2. ASSUME NEW s \in listed
        PROVE  /\ Waiting(s)' \/ Home[s] \in stored'
               /\ Wanted(s) \subseteq stored' \cup lost' \cup StillDue(s)'
    <3>1. /\ Waiting(s) \/ Home[s] \in stored
          /\ Wanted(s) \subseteq stored \cup lost \cup StillDue(s)
      BY DEF RInv, StoredInv
    <3>2. lost \subseteq lost'
      BY <1>3 DEF CacheGrows
    <3> QED
      BY <1>4, <1>5, <3>1, <3>2 DEF Waiting, StillDue, Wanted
  <2>3. EmptyOnlyIfLost'
    BY <1>3, <1>4, <1>5 DEF RInv, StoredInv, EmptyOnlyIfLost, CacheGrows
  <2> QED
    BY <1>5, <2>1, <2>2, <2>3 DEF StoredInv, Wanted
<1> QED
  BY <1>3, <1>6, <1>7, <1>8 DEF RInv, CacheGrows

LEMMA StoreImportKeeps ==
    ASSUME RInv, StoreImport
    PROVE  RInv' /\ CacheGrows
<1>0. service \in listed /\ service \in Services /\ todo \subseteq Imports[Home[service]]
  BY DEF StoreImport, RInv, ServiceInv, InService, TypeOK
<1>1. PICK f \in todo, found \in BOOLEAN :
          /\ FindFileByName(f, found)
          /\ Store(f, found)
          /\ todo' = todo \ {f}
  BY DEF StoreImport
<1>2. f \in Files /\ f \in Imports[Home[service]]
  BY <1>0 DEF RInv, TypeOK
<1>3. CacheGrows /\ (~found => f \in lost')
  BY <1>1, <1>2, FileLookup DEF RInv
<1>4. /\ stored' = IF found THEN stored \cup {f} ELSE stored
      /\ empty' = (empty \/ ~found)
  BY <1>1 DEF Store
<1>5. /\ UNCHANGED <<pc, listed, services, service, built, bad, errors>>
      /\ pc = "imports"
  BY DEF StoreImport
<1>6. TypeOK'
  BY <1>1, <1>2, <1>3, <1>4, <1>5 DEF RInv, TypeOK, CacheInv, CacheGrows
<1>7. BadInv' /\ ServiceInv' /\ StageInv'
  BY <1>0, <1>1, <1>3, <1>5 DEF RInv, BadInv, ServiceInv, StageInv, InService,
     CrashOnlyIfLost, CacheGrows
<1>8. StoredInv'
  <2>1. stored' \subseteq UNION {Wanted(s) : s \in listed'}
    BY <1>0, <1>2, <1>4, <1>5 DEF RInv, StoredInv, Wanted
  <2>2. ASSUME NEW s \in listed
        PROVE  /\ Waiting(s)' \/ Home[s] \in stored'
               /\ Wanted(s) \subseteq stored' \cup lost' \cup StillDue(s)'
    <3>1. /\ Waiting(s) \/ Home[s] \in stored
          /\ Wanted(s) \subseteq stored \cup lost \cup StillDue(s)
      BY DEF RInv, StoredInv
    <3>2. lost \subseteq lost' /\ f \in stored' \cup lost' /\ stored \subseteq stored'
      BY <1>3, <1>4 DEF CacheGrows
    <3> QED
      BY <1>1, <1>5, <3>1, <3>2 DEF Waiting, StillDue, Wanted
  <2>3. EmptyOnlyIfLost'
    <3>1. CASE found
      BY <1>3, <1>4, <1>5, <3>1 DEF RInv, StoredInv, EmptyOnlyIfLost, CacheGrows
    <3>2. CASE ~found
      BY <1>0, <1>2, <1>3, <1>5, <3>2 DEF EmptyOnlyIfLost
    <3> QED
      BY <3>1, <3>2
  <2> QED
    BY <1>5, <2>1, <2>2, <2>3 DEF StoredInv, Wanted
<1> QED
  BY <1>3, <1>6, <1>7, <1>8 DEF RInv, CacheGrows

LEMMA BuiltKeeps ==
    ASSUME RInv, Built
    PROVE  RInv' /\ CacheGrows
<1>1. CacheGrows /\ UNCHANGED <<lost, cached>>
  BY NothingAsked DEF Built, RInv, dbVars
<1>2. /\ UNCHANGED <<listed, services, service, todo, built, bad, stored, empty, errors>>
      /\ pc = "build"
      /\ pc' = "fetch" \/ (pc' = "crashed" /\ Home[service] \in Clashing)
  BY DEF Built
<1>3. TypeOK'
  BY <1>1, <1>2 DEF RInv, TypeOK, CacheInv, CacheGrows
<1>4. BadInv' /\ ServiceInv' /\ StageInv'
  BY <1>1, <1>2 DEF RInv, BadInv, ServiceInv, StageInv, InService, CrashOnlyIfLost
<1>5. StoredInv'
  BY <1>1, <1>2, NothingStored
<1> QED
  BY <1>1, <1>3, <1>4, <1>5 DEF RInv, CacheGrows

LEMMA ServiceDoneKeeps ==
    ASSUME RInv, ServiceDone
    PROVE  RInv' /\ CacheGrows
<1>1. CacheGrows /\ UNCHANGED <<lost, cached>>
  BY NothingAsked DEF ServiceDone, RInv, dbVars
<1>2. /\ UNCHANGED <<listed, services, service, todo, built, bad, stored, empty, errors>>
      /\ pc = "imports" /\ todo = {} /\ pc' = "next"
  BY DEF ServiceDone
<1>3. TypeOK'
  BY <1>1, <1>2 DEF RInv, TypeOK, CacheInv, CacheGrows
<1>4. BadInv' /\ ServiceInv' /\ StageInv'
  BY <1>1, <1>2 DEF RInv, BadInv, ServiceInv, StageInv, InService, CrashOnlyIfLost
<1>5. \A s : Waiting(s)' = Waiting(s) /\ StillDue(s)' = StillDue(s)
  BY <1>2 DEF Waiting, StillDue, Wanted, InService
<1>6. StoredInv'
  BY <1>1, <1>2, <1>5 DEF RInv, StoredInv, EmptyOnlyIfLost, Wanted
<1> QED
  BY <1>1, <1>3, <1>4, <1>6 DEF RInv, CacheGrows

\* the errors are those of a broken stream
LEMMA CloseKeeps ==
    ASSUME RInv, Close
    PROVE  RInv' /\ CacheGrows /\ (errors' # errors => broken')
<1>1. PICK ok \in BOOLEAN :
          /\ CloseStream(ok)
          /\ \/ ok /\ errors' = errors
             \/ /\ ~ok
                /\ \E e \in {"REFLECTION_NOT_AVAILABLE", "REFLECTION_FAILED"} :
                      errors' = errors \cup {e}
  BY DEF Close
<1>2. /\ UNCHANGED <<listed, services, service, todo, built, bad, stored, empty>>
      /\ pc = "next" /\ services = {} /\ pc' = "done" /\ errors = {}
  BY DEF Close, RInv, StageInv
<1>3. /\ UNCHANGED <<cached, known_files, missing_symbols, missing_extensions,
                     numbered, denied, lost>>
      /\ stream' = "closed" /\ broken' = ~ok
      /\ stream # "closed" /\ (stream = "ended" => ok = ~broken)
  BY <1>1 DEF CloseStream, negativeVars
<1>4. broken => broken'
  BY <1>3 DEF RInv, CacheInv, DbTypeOK
<1>5. CacheGrows
  <2>1. DbTypeOK'
    BY <1>3 DEF RInv, CacheInv, DbTypeOK
  <2> QED
    BY <1>3, <1>4, <2>1 DEF RInv, CacheInv, CacheGrows
<1>6. errors' \subseteq {"REFLECTION_NOT_AVAILABLE", "REFLECTION_FAILED"}
      /\ (broken' <=> errors' # {}) /\ (errors' # errors => broken')
  BY <1>1, <1>2, <1>3
<1>7. TypeOK'
  BY <1>2, <1>5, <1>6 DEF RInv, TypeOK, CacheInv, CacheGrows
<1>8. BadInv' /\ ServiceInv' /\ StageInv'
  BY <1>2, <1>3, <1>6 DEF RInv, BadInv, ServiceInv, StageInv, InService, CrashOnlyIfLost
<1>9. \A s : Waiting(s)' = Waiting(s) /\ StillDue(s)' = StillDue(s)
  BY <1>2 DEF Waiting, StillDue, Wanted
<1>10. StoredInv'
  BY <1>2, <1>3, <1>9 DEF RInv, StoredInv, EmptyOnlyIfLost, Wanted
<1> QED
  BY <1>5, <1>6, <1>7, <1>8, <1>10 DEF RInv, CacheGrows

LEMMA ReflectStutter ==
    ASSUME RInv, UNCHANGED vars
    PROVE  RInv'
<1>1. CacheGrows /\ UNCHANGED <<lost, cached, stream, broken>>
  BY NothingAsked DEF vars, dbVars, RInv
<1>2. UNCHANGED <<pc, listed, services, service, todo, built, bad, stored, empty, errors>>
  BY DEF vars, ownVars
<1>3. TypeOK' /\ BadInv' /\ ServiceInv' /\ StageInv'
  BY <1>1, <1>2 DEF RInv, TypeOK, CacheInv, CacheGrows, BadInv, ServiceInv, StageInv,
     InService, CrashOnlyIfLost
<1>4. \A s : Waiting(s)' = Waiting(s) /\ StillDue(s)' = StillDue(s)
  BY <1>2 DEF Waiting, StillDue, Wanted
<1>5. StoredInv'
  BY <1>1, <1>2, <1>4 DEF RInv, StoredInv, EmptyOnlyIfLost, Wanted
<1> QED
  BY <1>1, <1>3, <1>5 DEF RInv, CacheGrows

LEMMA NextKeeps ==
    ASSUME RInv, Next
    PROVE  /\ RInv'
           /\ broken => broken'
           /\ errors' # errors => broken'
<1>1. CASE Close
  BY <1>1, CloseKeeps DEF CacheGrows
<1>2. CASE ~Close
  <2>1. RInv' /\ CacheGrows
    BY <1>2, ListKeeps, NextServiceKeeps, FindServiceKeeps, BuildImportKeeps, BuiltKeeps,
       FetchFileKeeps, StoreImportKeeps, ServiceDoneKeeps DEF Next
  <2>2. errors' = errors
    BY <1>2 DEF Next, ListServices, NextService, FindService, BuildImport, Built,
       FetchFile, StoreImport, ServiceDone
  <2> QED
    BY <2>1, <2>2 DEF CacheGrows
<1> QED
  BY <1>1, <1>2

LEMMA ReflectStep ==
    ASSUME RInv, [Next]_vars
    PROVE  RInv'
  BY ReflectStutter, NextKeeps

LEMMA ReflectIsSafe ==
    ASSUME RInv
    PROVE  CrashOnlyIfLost /\ EmptyOnlyIfLost /\ CompleteIfAnswered
<1>1. CrashOnlyIfLost /\ EmptyOnlyIfLost
  BY DEF RInv, BadInv, StoredInv
<1>2. ASSUME pc = "done", lost = {}
      PROVE  /\ listed = Services
             /\ stored = UNION {Wanted(s) : s \in listed}
  <2>1. listed = Services
    BY <1>2 DEF RInv, StageInv
  <2>2. \A s \in listed : StillDue(s) = {}
    BY <1>2 DEF RInv, StageInv, Waiting, StillDue, InService
  <2> QED
    BY <1>2, <2>1, <2>2 DEF RInv, StoredInv
<1> QED
  BY <1>1, <1>2 DEF CompleteIfAnswered

(* What the function leaves when it comes to its end, whatever was lost.   *)
LEMMA ReflectEnds ==
    ASSUME RInv, pc = "done"
    PROVE  /\ listed = Services \/ Listing \in lost
           /\ \A s \in listed : Home[s] \in stored /\ Wanted(s) \subseteq stored \cup lost
           /\ stored \subseteq UNION {Wanted(s) : s \in listed}
<1>1. \A s \in listed : ~Waiting(s) /\ StillDue(s) = {}
  BY DEF RInv, StageInv, Waiting, StillDue, InService
<1>2. listed = Services \/ Listing \in lost
  BY DEF RInv, StageInv
<1> QED
  BY <1>1, <1>2 DEF RInv, StoredInv

-----------------------------------------------------------------------------
(* descriptors_from_reflect by itself, and the README's "describe, then    *)
(* call".                                                                  *)
LEMMA ReflectInductive == Spec => []RInv
<1>1. Init => RInv
  BY ReflectInitHolds
<1>2. RInv /\ [Next]_vars => RInv'
  BY ReflectStep
<1> QED
  BY <1>1, <1>2, PTL DEF Spec

\* a set that is closed under imports holds all that its files need
LEMMA ClosedHoldsNeeds ==
    ASSUME NEW fs \in SUBSET Files, NEW f \in fs, Closed(fs)
    PROVE  Needs(f) \subseteq fs
  BY DEF Needs

(* A service can be called with what describe has stored exactly when all  *)
(* that its file needs is among the files of the services and their direct *)
(* imports, and clashes with nothing: the loop over the dependencies goes  *)
(* one level deep.                                                         *)
THEOREM ResolvesWhatIsOneLevelDeep ==
    Spec => []((pc = "done" /\ lost = {}) =>
                   \A s \in Services :
                       Resolves(s) <=> Needs(Home[s]) \subseteq
                                           (UNION {Wanted(t) : t \in Services}) \ Clashing)
<1>1. RInv => ((pc = "done" /\ lost = {}) =>
                   \A s \in Services :
                       Resolves(s) <=> Needs(Home[s]) \subseteq
                                           (UNION {Wanted(t) : t \in Services}) \ Clashing)
  <2> SUFFICES ASSUME RInv, pc = "done", lost = {}, NEW s \in Services
               PROVE  Resolves(s) <=> Needs(Home[s]) \subseteq
                                          (UNION {Wanted(t) : t \in Services}) \ Clashing
    BY Zenon
  <2>1. stored = UNION {Wanted(t) : t \in Services}
    BY ReflectIsSafe DEF CompleteIfAnswered
  <2> QED
    BY <2>1, Zenon DEF Resolves
<1> QED
  BY <1>1, ReflectInductive, PTL

(* The claim that a deep server refutes (DescribedServicesResolve) holds   *)
(* of every server whose services import files that import nothing new,    *)
(* when none of those files clashes with another.                          *)
THEOREM ShallowServicesResolve ==
    ASSUME \A s \in Services : Closed(Wanted(s)),
           \A s \in Services : Wanted(s) \cap Clashing = {}
    PROVE  Spec => []DescribedServicesResolve
<1>1. RInv => DescribedServicesResolve
  <2> SUFFICES ASSUME RInv, pc = "done", lost = {}, NEW s \in listed
               PROVE  Needs(Home[s]) \subseteq stored \ Clashing
    BY DEF DescribedServicesResolve, Resolves
  <2>1. listed \subseteq Services
    BY DEF RInv, TypeOK
  <2>2. stored = UNION {Wanted(t) : t \in listed}
    BY ReflectIsSafe DEF CompleteIfAnswered
  <2>3. Wanted(s) \in SUBSET Files /\ Home[s] \in Wanted(s)
    BY <2>1, HomesAreFiles DEF Wanted
  <2>4. Needs(Home[s]) \subseteq Wanted(s)
    BY <2>1, <2>3, ClosedHoldsNeeds
  <2>5. Wanted(s) \cap Clashing = {}
    BY <2>1
  <2> QED
    BY <2>2, <2>4, <2>5
<1> QED
  BY <1>1, ReflectInductive, PTL

-----------------------------------------------------------------------------
(* The options: cli_create_connection.                                     *)

RecordsInv ==
    /\ step = "load" => opts = 0 /\ DOMAIN records = {} /\ freed = {}
    /\ step = "parse" => opts = 1 /\ DOMAIN records = 1..1 /\ freed = {}
    /\ step \in {"connect", "release"} =>
           \/ opts = 1 /\ DOMAIN records = 1..1 /\ freed = {}
           \/ opts = 2 /\ DOMAIN records = 1..2 /\ freed = {1}
    /\ step = "done" => freed = DOMAIN records
    /\ fault = "none"

CredentialsInv ==
    /\ json \in Json
    /\ step \notin {"release", "done"} => channel = Insecure
    /\ step = "connect" /\ file = "json" => records[opts] = FromJson
    /\ step = "aborted" /\ file = "json" => Asserts(FromJson)
    /\ step \in {"release", "done"} /\ file = "json" =>
           ~Asserts(FromJson) /\ channel = Credentials(FromJson)

OInv == OptionsTypeOK /\ RecordsInv /\ CredentialsInv

LEMMA OptionsInitHolds == OptionsInit => OInv
<1> SUFFICES ASSUME OptionsInit PROVE OInv
  OBVIOUS
<1>1. records \in [1..0 -> Options] /\ DOMAIN records = {}
  BY DEF OptionsInit
<1>2. records \in UNION {[1..n -> Options] : n \in 0..2}
  BY <1>1
<1>3. json \in Json
  BY DEF OptionsInit, Json, Omitted, Bool
<1>4. channel \in Channels
  BY DEF OptionsInit, Channels, Insecure
<1> QED
  BY <1>1, <1>2, <1>3, <1>4 DEF OptionsInit, OInv, OptionsTypeOK, RecordsInv,
     CredentialsInv

LEMMA DefaultIsOptions == Default \in Options /\ (json \in Json => FromJson \in Options)
  BY DEF Default, Options, FromJson, OptionsOf, OrElse

LEMMA OptionsTypeStep ==
    ASSUME OInv, OptionsNext
    PROVE  OptionsTypeOK'
<1>1. Default \in Options /\ FromJson \in Options
  BY DefaultIsOptions DEF OInv, CredentialsInv
<1>2. CASE Defaults
  <2>1. records' \in [1..1 -> Options] /\ opts' = 1
    BY <1>1, <1>2 DEF Defaults, Allocate, OInv, RecordsInv
  <2>2. DOMAIN records = {} /\ DOMAIN records' = 1..1
    BY <1>2, <2>1 DEF Defaults, OInv, RecordsInv
  <2>3. records' \in UNION {[1..n -> Options] : n \in 0..2}
    BY <2>1
  <2> QED
    BY <1>2, <2>1, <2>2, <2>3 DEF Defaults, OInv, OptionsTypeOK
<1>3. CASE Replace
  <2>1. records[1] \in Options
    BY <1>3 DEF Replace, OInv, OptionsTypeOK, RecordsInv
  <2>2. records' \in [1..2 -> Options] /\ opts' = 2 /\ freed' = {1} /\ fault' = "none"
    BY <1>1, <1>3, <2>1 DEF Replace, FreeOptions, Allocate, OInv, RecordsInv
  <2>3. records' \in UNION {[1..n -> Options] : n \in 0..2}
    BY <2>2
  <2>4. DOMAIN records' = 1..2
    BY <2>2
  <2> QED
    BY <1>3, <2>2, <2>3, <2>4 DEF Replace, OInv, OptionsTypeOK
<1>4. CASE Connect
  <2>1. records[opts] \in Options
    BY <1>4 DEF Connect, OInv, OptionsTypeOK, RecordsInv
  <2>2. Credentials(records[opts]) \in Channels
    BY <2>1 DEF Credentials, Channels, Insecure, Options
  <2>3. channel' \in Channels
    BY <1>4, <2>2 DEF Connect, OInv, OptionsTypeOK
  <2> QED
    BY <1>4, <2>3 DEF Connect, OInv, OptionsTypeOK
<1>5. CASE Release
  <2>1. opts \in DOMAIN records
    BY <1>5 DEF Release, OInv, RecordsInv
  <2> QED
    BY <1>5, <2>1 DEF Release, FreeOptions, OInv, OptionsTypeOK
<1> QED
  BY <1>2, <1>3, <1>4, <1>5 DEF OptionsNext

LEMMA OptionsStep ==
    ASSUME OInv, OptionsNext
    PROVE  OInv'
<1> USE DEF OInv, RecordsInv, CredentialsInv
<1>0. OptionsTypeOK'
  BY OptionsTypeStep
<1>1. UNCHANGED <<file, json>> /\ FromJson' = FromJson
  BY DEF OptionsNext, Defaults, Replace, Connect, Release, FromJson, Throws, OptionsOf
<1>2. CASE Defaults
  <2>1. /\ opts' = 1
        /\ records' = [r \in 1..1 |-> IF r = 1 THEN Default ELSE records[r]]
        /\ UNCHANGED <<freed, fault>>
        /\ step' = "parse" \/ (step' = "connect" /\ file # "json")
    BY <1>2 DEF Defaults, Allocate
  <2> QED
    BY <1>0, <1>1, <1>2, <2>1 DEF Defaults
<1>3. CASE Replace
  <2>1. /\ opts' = 2
        /\ records' = [r \in 1..2 |-> IF r = 2 THEN FromJson ELSE records[r]]
        /\ freed' = {1}
        /\ UNCHANGED <<fault, channel>>
        /\ step = "parse" /\ step' = "connect"
    BY <1>3 DEF Replace, Allocate, FreeOptions
  <2> QED
    BY <1>0, <1>1, <2>1
<1>4. CASE Connect
  <2>1. /\ UNCHANGED <<opts, records, freed>>
        /\ step = "connect"
        /\ fault' = fault
        /\ \/ /\ ~Asserts(records[opts]) /\ step' = "release"
              /\ channel' = Credentials(records[opts])
           \/ Asserts(records[opts]) /\ step' = "aborted" /\ channel' = channel
    BY <1>4 DEF Connect
  <2>2. file = "json" => \/ /\ ~Asserts(FromJson) /\ step' = "release"
                            /\ channel' = Credentials(FromJson)
                         \/ Asserts(FromJson) /\ step' = "aborted"
    BY <2>1
  <2>3. Asserts(FromJson)' = Asserts(FromJson)
        /\ Credentials(FromJson)' = Credentials(FromJson)
    BY <1>1 DEF Asserts, Credentials
  <2> QED
    BY <1>0, <1>1, <2>1, <2>2, <2>3
<1>5. CASE Release
  <2>1. freed' = DOMAIN records' /\ UNCHANGED <<channel, fault>> /\ step' = "done"
    BY <1>5 DEF Release, FreeOptions
  <2>2. step = "release"
    BY <1>5 DEF Release
  <2>3. file = "json" => ~Asserts(FromJson) /\ channel' = Credentials(FromJson)
    BY <2>1, <2>2
  <2>4. Asserts(FromJson)' = Asserts(FromJson)
        /\ Credentials(FromJson)' = Credentials(FromJson)
    BY <1>1 DEF Asserts, Credentials
  <2> QED
    BY <1>0, <1>1, <2>1, <2>3, <2>4
<1> QED
  BY <1>2, <1>3, <1>4, <1>5 DEF OptionsNext

LEMMA ForgetStep ==
    ASSUME OInv, Forget, UNCHANGED <<step, fault, channel>>, step \in {"load", "done"}
    PROVE  OInv'
<1>1. records' \in [1..0 -> Options] /\ DOMAIN records' = {}
  BY DEF Forget
<1>2. records' \in UNION {[1..n -> Options] : n \in 0..2}
  BY <1>1
<1>3. OptionsTypeOK'
  BY <1>1, <1>2 DEF OInv, OptionsTypeOK, Forget, FileKinds, Json, Omitted, Bool
<1> QED
  BY <1>1, <1>3 DEF OInv, RecordsInv, CredentialsInv, Forget, Json, Omitted, Bool

LEMMA OptionsAreSafe ==
    ASSUME OInv
    PROVE  FreedOnce /\ TlsUnlessBlank
<1>1. FreedOnce
  BY DEF OInv, RecordsInv, FreedOnce
<1>2. ASSUME file = "json", json.enable_tls = "true"
      PROVE  /\ step = "aborted" =>
                    ~LeftBlank /\ json.pem_root_certs_path # "path"
             /\ step = "done" => (channel.tls <=> ~LeftBlank)
             /\ channel.tls =>
                    /\ channel.roots = Path
                    /\ channel.verify_server_certs <=> json.validate_tls # "false"
                    /\ channel.check_call_host <=> json.validate_tls # "false"
  <2>1. Throws <=> LeftBlank
    BY <1>2 DEF Throws, LeftBlank
  <2>2. /\ json.validate_tls \in {"omitted", "blank", "true", "false"}
        /\ json.pem_root_certs_path \in {"omitted", "blank", "path"}
    BY DEF OInv, CredentialsInv, Json, Bool
  <2>3. ~Insecure.tls /\ (step \notin {"release", "done"} => channel = Insecure)
    BY DEF OInv, CredentialsInv, Insecure
  <2>4. CASE LeftBlank
    <3>1. FromJson = Default
      BY <1>2, <2>1, <2>4 DEF FromJson
    <3>2. ~Asserts(FromJson) /\ Credentials(FromJson) = Insecure
      BY <3>1 DEF Default, Asserts, Credentials
    <3>3. step # "aborted" /\ channel = Insecure
      BY <1>2, <2>3, <3>2 DEF OInv, CredentialsInv
    <3> QED
      BY <2>4, <2>3, <3>3
  <2>5. CASE ~LeftBlank
    <3>1. FromJson = OptionsOf(json) /\ json.validate_tls # "blank"
      BY <1>2, <2>1, <2>5 DEF FromJson, LeftBlank
    <3>2. /\ OptionsOf(json).enable_tls
          /\ OptionsOf(json).validate_tls <=> json.validate_tls # "false"
          /\ OptionsOf(json).pem_root_certs_path
                 = IF json.pem_root_certs_path = "path" THEN Path ELSE ""
      BY <1>2, <2>2, <3>1 DEF OptionsOf, OrElse
    <3>3. Asserts(FromJson) => json.pem_root_certs_path # "path"
      BY <3>1, <3>2, ConnectionOptionsAssumption DEF Asserts
    <3>4. ~Asserts(FromJson) =>
              /\ Credentials(FromJson).tls
              /\ Credentials(FromJson).roots = Path
              /\ Credentials(FromJson).verify_server_certs <=> json.validate_tls # "false"
              /\ Credentials(FromJson).check_call_host <=> json.validate_tls # "false"
      BY <3>1, <3>2 DEF Asserts, Credentials
    <3> QED
      BY <1>2, <2>5, <2>3, <3>3, <3>4 DEF OInv, CredentialsInv
  <2> QED
    BY <2>4, <2>5
<1> QED
  BY <1>1, <1>2 DEF TlsUnlessBlank

-----------------------------------------------------------------------------
(* The files: descriptors_from_proto_files.                                *)

(* Every nonempty set of natural numbers has a least member.               *)
LEMMA LessIsWellFounded ==
    \E R : IsWellFoundedOn(R, Nat) /\ \A a, b \in Nat : a < b => <<a, b>> \in R
<1>1. IsWellFoundedOn(OpToRel(<, Nat), Nat)
  BY NatLessThanWellFounded
<1>2. ASSUME NEW a \in Nat, NEW b \in Nat, a < b
      PROVE  <<a, b>> \in OpToRel(<, Nat)
  BY <1>2 DEF OpToRel
<1> QED
  BY <1>1, <1>2, Zenon

LEMMA HasLeast ==
    ASSUME NEW S, S \subseteq Nat, S # {}
    PROVE  Min(S) \in S /\ \A y \in S : Min(S) <= y
<1>1. PICK R : IsWellFoundedOn(R, Nat) /\ \A a, b \in Nat : a < b => <<a, b>> \in R
  BY LessIsWellFounded
<1>2. IsWellFoundedOn(R, Nat)
  BY <1>1
<1>3. \A r, D, T : IsWellFoundedOn(r, D) /\ T \subseteq D /\ T # {} =>
          \E x \in T : \A y \in T : ~(<<y, x>> \in r)
  BY WFMin, Zenon
<1>4. \E x \in S : \A y \in S : ~(<<y, x>> \in R)
  BY <1>2, <1>3, Zenon
<1>5. PICK x \in S : \A y \in S : ~(<<y, x>> \in R)
  BY <1>4
<1>6. \A a, b \in Nat : a < b => <<a, b>> \in R
  BY <1>1
<1>7. ASSUME NEW y \in S PROVE x <= y
  <2>1. x \in Nat /\ y \in Nat
    OBVIOUS
  <2>2. ~(y < x)
    BY <1>5, <1>6, <2>1
  <2> QED
    BY <2>1, <2>2
<1> QED
  BY <1>7 DEF Min

LEMMA LeastOfTwo ==
    ASSUME NEW a \in Nat, NEW b \in Nat
    PROVE  Min({a, b}) = IF a <= b THEN a ELSE b
<1>1. Min({a, b}) \in {a, b} /\ \A y \in {a, b} : Min({a, b}) <= y
  BY HasLeast
<1> QED
  BY <1>1

(* An error is counted, or turned away because the collector is full.      *)
ReportInv ==
    /\ collector \in [count : 0..MaxErrors, fatal : BOOLEAN]
    /\ missed \in BOOLEAN
    /\ collector.fatal => collector.count > 0
    /\ missed => collector = [count |-> MaxErrors, fatal |-> FALSE]

LEMMA ReportStep ==
    ASSUME ReportInv, NEW early \in Nat, NEW fatal \in Nat, NEW late \in Nat,
           Report(early, fatal, late)
    PROVE  /\ ReportInv'
           /\ (collector.fatal \/ missed) => (collector'.fatal \/ missed')
           /\ fatal > 0 => (collector'.fatal \/ missed')
           /\ collector'.fatal => (collector.fatal \/ fatal > 0)
<1> DEFINE sum == collector.count + early + fatal + late
           taken == fatal > 0 /\ collector.count + early < MaxErrors
<1>1. MaxErrors \in Nat \ {0} /\ collector.count \in 0..MaxErrors
      /\ collector.fatal \in BOOLEAN
  BY ProtoFilesAssumption DEF ReportInv
<1>2. sum \in Nat
  BY <1>1
<1>3. collector' = [count |-> IF sum <= MaxErrors THEN sum ELSE MaxErrors,
                    fatal |-> collector.fatal \/ taken]
  BY <1>1, <1>2, LeastOfTwo DEF Report
<1>4. missed' = (missed \/ (fatal > 0 /\ ~collector'.fatal))
  BY DEF Report
<1>5. collector'.count = IF sum <= MaxErrors THEN sum ELSE MaxErrors
  BY <1>3
<1>6. collector'.fatal = (collector.fatal \/ taken)
  BY <1>3
<1>7. missed \in BOOLEAN /\ (collector.fatal => collector.count > 0)
      /\ (missed => collector = [count |-> MaxErrors, fatal |-> FALSE])
  BY DEF ReportInv
<1>8. missed => collector.count = MaxErrors /\ ~collector.fatal
  BY <1>7
<1>9. collector' \in [count : 0..MaxErrors, fatal : BOOLEAN] /\ missed' \in BOOLEAN
  BY <1>1, <1>2, <1>3, <1>4, <1>7
<1>10. collector'.fatal => collector'.count > 0
  BY <1>1, <1>2, <1>5, <1>6, <1>7
<1>11. missed' => collector'.count = MaxErrors /\ ~collector'.fatal
  <2>1. CASE missed
    BY <1>1, <1>2, <1>5, <1>6, <1>8, <2>1
  <2>2. CASE fatal > 0 /\ ~collector'.fatal
    <3>1. ~(collector.count + early < MaxErrors)
      BY <1>6, <2>2
    <3>2. sum >= MaxErrors
      BY <1>1, <3>1
    <3> QED
      BY <1>1, <1>2, <1>5, <2>2, <3>2
  <2> QED
    BY <1>4, <2>1, <2>2
<1>12. missed' => collector' = [count |-> MaxErrors, fatal |-> FALSE]
  BY <1>3, <1>5, <1>6, <1>11
<1> QED
  BY <1>4, <1>6, <1>7, <1>9, <1>10, <1>12 DEF ReportInv

(* What a name reaches is closed under imports, so it builds when it is    *)
(* reached by a name that builds.                                          *)
LEMMA ReachedFacts ==
    ASSUME NEW name \in Names, given \in Seq(Directories \X Names)
    PROVE  /\ name \in Reached(name)
           /\ ImportsOf(name) \subseteq Reached(name)
           /\ Reached(name) \subseteq Names
           /\ Builds(name) => \A n \in Reached(name) : Builds(n)
<1>1. name \in Reached(name) /\ Reached(name) \subseteq Names
  BY DEF Reached
<1>2. ImportsOf(name) \subseteq Names
  <2>1. CASE ~Parses(name)
    BY <2>1 DEF ImportsOf
  <2>2. CASE Parses(name)
    <3> DEFINE S == {i \in DOMAIN given : name \in Disk[given[i][1]]}
    <3>1. S \subseteq Nat /\ S # {}
      BY <2>2 DEF Parses, Found
    <3>2. Min(S) \in DOMAIN given
      BY <3>1, HasLeast
    <3>3. Source(name) \in Directories
      BY <3>2 DEF Source
    <3> QED
      BY <2>2, <3>3, ProtoFilesAssumption DEF ImportsOf
  <2> QED
    BY <2>1, <2>2
<1>3. ImportsOf(name) \subseteq Reached(name)
  BY <1>2 DEF Reached
<1>4. ASSUME NEW n \in Reached(name)
      PROVE  Reached(n) \subseteq Reached(name)
  BY DEF Reached
<1> QED
  BY <1>1, <1>3, <1>4 DEF Builds

LEMMA WarningsAreCounted ==
    ASSUME NEW ns \in SUBSET Names
    PROVE  Warnings(ns) \in Nat
<1>1. IsFiniteSet({n \in ns : Parses(n) /\ <<Source(n), n>> \in Warned})
  <2> DEFINE S == {n \in ns : Parses(n) /\ <<Source(n), n>> \in Warned}
  <2>1. S \in SUBSET Names /\ IsFiniteSet(Names)
    BY ProtoFilesAssumption
  <2> HIDE DEF S
  <2>2. IsFiniteSet(S)
    BY <2>1, FS_Subset
  <2> QED
    BY <2>2 DEF S
<1> QED
  BY <1>1, FS_CardinalityType DEF Warnings

\* a file given before turn is in, or its error was reported or turned away
Reported == collector.fatal \/ missed

FInv ==
    /\ ProtoTypeOK
    /\ ReportInv
    /\ \A n \in parsed : Builds(n)
    /\ refused # {} => Reported
    /\ \A i \in 1..(turn - 1) :
           IF Builds(given[i][2])
           THEN {given[i][2]} \cup ImportsOf(given[i][2]) \subseteq local
           ELSE Reported

LEMMA FilesInitHolds == DescribeInit => FInv
<1> SUFFICES ASSUME DescribeInit PROVE FInv
  OBVIOUS
<1>1. given \in Seq(Directories \X Names)
  BY DescribeAssumption DEF DescribeInit, ProtoInit
<1>2. MaxErrors \in Nat \ {0}
  BY ProtoFilesAssumption
<1>3. /\ turn = 1 /\ parsed = {} /\ refused = {} /\ local = {}
      /\ collector = [count |-> 0, fatal |-> FALSE] /\ missed = FALSE
  BY DEF DescribeInit, ProtoInit
<1>4. ProtoTypeOK
  <2>1. collector \in [count : 0..MaxErrors, fatal : BOOLEAN]
    BY <1>2, <1>3
  <2>2. turn \in 1..(Len(given) + 1)
    BY <1>1, <1>3
  <2> QED
    BY <1>1, <1>3, <2>1, <2>2 DEF ProtoTypeOK
<1>5. ReportInv
  BY <1>3, <1>4 DEF ProtoTypeOK, ReportInv
<1> QED
  BY <1>3, <1>4, <1>5 DEF FInv

\* what the disk gives depends on the list of files only
LEMMA GivenFixesBuilds ==
    ASSUME UNCHANGED given, NEW n
    PROVE  Builds(n)' = Builds(n) /\ ImportsOf(n)' = ImportsOf(n)
  BY DEF Builds, Reached, ImportsOf, Parses, Found, Source

LEMMA ImportSucceedsKeeps ==
    ASSUME FInv, ImportSucceeds
    PROVE  FInv' /\ (Reported => Reported') /\ (collector'.fatal => collector.fatal)
<1> DEFINE name == given[turn][2]
           added == Reached(name) \ parsed
<1>1. /\ given \in Seq(Directories \X Names)
      /\ turn \in 1..Len(given)
      /\ parsed \subseteq Names /\ local \subseteq parsed /\ refused \subseteq Names
  BY DEF FInv, ProtoTypeOK, ImportSucceeds
<1>2. given[turn] \in Directories \X Names
  BY <1>1
<1>3. name \in Names
  BY <1>2
<1>4. /\ Builds(name)
      /\ parsed' = parsed \cup added
      /\ local' = local \cup {name} \cup ImportsOf(name)
      /\ Report(Warnings(added), 0, 0)
      /\ turn' = turn + 1
      /\ UNCHANGED <<given, refused>>
  BY DEF ImportSucceeds
<1>5. /\ name \in Reached(name)
      /\ ImportsOf(name) \subseteq Reached(name)
      /\ Reached(name) \subseteq Names
      /\ \A n \in Reached(name) : Builds(n)
  BY <1>1, <1>3, <1>4, ReachedFacts
<1>6. Warnings(added) \in Nat
  BY <1>5, WarningsAreCounted
<1> HIDE DEF name, added
<1>7. /\ ReportInv'
      /\ Reported => Reported'
      /\ collector'.fatal => collector.fatal
  BY <1>4, <1>6, ReportStep DEF FInv, Reported
<1>8. ProtoTypeOK'
  BY <1>1, <1>3, <1>4, <1>5, <1>7 DEF ProtoTypeOK, ReportInv, added
<1>9. \A n \in parsed' : Builds(n)'
  BY <1>4, <1>5, GivenFixesBuilds DEF FInv, added
<1>10. ASSUME NEW i \in 1..(turn' - 1)
       PROVE  IF Builds(given[i][2])'
              THEN ({given[i][2]} \cup ImportsOf(given[i][2]))' \subseteq local'
              ELSE Reported'
  <2>1. /\ Builds(given[i][2])' = Builds(given[i][2])
        /\ ImportsOf(given[i][2])' = ImportsOf(given[i][2])
    BY <1>4, GivenFixesBuilds
  <2>2. CASE i = turn
    BY <1>4, <2>1, <2>2 DEF name
  <2>3. CASE i \in 1..(turn - 1)
    BY <1>4, <1>7, <2>1, <2>3 DEF FInv
  <2> QED
    BY <1>1, <1>4, <2>2, <2>3
<1> QED
  BY <1>4, <1>7, <1>8, <1>9, <1>10 DEF FInv

LEMMA ImportFailsKeeps ==
    ASSUME FInv, ImportFails
    PROVE  FInv' /\ Reported' /\ \E i \in DOMAIN given : ~Builds(given[i][2])
<1> DEFINE name == given[turn][2]
           tried == Reached(name) \ (parsed \cup refused)
<1>1. /\ given \in Seq(Directories \X Names)
      /\ turn \in 1..Len(given)
      /\ parsed \subseteq Names /\ local \subseteq parsed /\ refused \subseteq Names
  BY DEF FInv, ProtoTypeOK, ImportFails
<1>2. given[turn] \in Directories \X Names
  BY <1>1
<1>3. name \in Names
  BY <1>2
<1>4. /\ ~Builds(name)
      /\ parsed' = parsed \cup {n \in tried : Builds(n)}
      /\ refused' = refused \cup {n \in tried : ~Builds(n)}
      /\ turn' = turn + 1
      /\ UNCHANGED <<given, local>>
  BY DEF ImportFails
<1>5. PICK early \in 0..Warnings(tried), of_each \in 1..2 :
          Report(early, of_each * Cardinality(refused' \ refused),
                 Warnings(tried) - early)
  BY DEF ImportFails
<1>6. name \in Reached(name) /\ Reached(name) \subseteq Names
  BY <1>1, <1>3, ReachedFacts
<1>7. Warnings(tried) \in Nat
  BY <1>6, WarningsAreCounted
<1> HIDE DEF name, tried
<1>8. Cardinality(refused' \ refused) \in Nat
      /\ (refused' \ refused # {} => Cardinality(refused' \ refused) > 0)
  <2>1. refused' \ refused \in SUBSET Names
    BY <1>4, <1>6 DEF tried
  <2>2. IsFiniteSet(refused' \ refused)
    BY <2>1, ProtoFilesAssumption, FS_Subset
  <2> QED
    BY <2>2, FS_CardinalityType, FS_EmptySet
<1>9. /\ early \in Nat /\ Warnings(tried) - early \in Nat
      /\ of_each * Cardinality(refused' \ refused) \in Nat
      /\ refused' \ refused # {} => of_each * Cardinality(refused' \ refused) > 0
  <2>1. of_each = 1 \/ of_each = 2
    OBVIOUS
  <2> QED
    BY <1>7, <1>8, <2>1
<1>10. /\ ReportInv'
       /\ Reported => Reported'
       /\ refused' \ refused # {} => Reported'
  BY <1>5, <1>9, ReportStep DEF FInv, Reported
<1>11. Reported'
  <2>1. CASE name \in refused
    BY <1>10, <2>1 DEF FInv
  <2>2. CASE name \notin refused
    <3>1. name \notin parsed
      BY <1>4 DEF FInv
    <3> QED
      BY <1>4, <1>6, <1>10, <2>2, <3>1 DEF tried
  <2> QED
    BY <2>1, <2>2
<1>12. ProtoTypeOK'
  BY <1>1, <1>4, <1>6, <1>10 DEF ProtoTypeOK, ReportInv, tried
<1>13. \A n \in parsed' : Builds(n)'
  BY <1>4, GivenFixesBuilds DEF FInv
<1>14. ASSUME NEW i \in 1..(turn' - 1)
       PROVE  IF Builds(given[i][2])'
              THEN ({given[i][2]} \cup ImportsOf(given[i][2]))' \subseteq local'
              ELSE Reported'
  <2>1. /\ Builds(given[i][2])' = Builds(given[i][2])
        /\ ImportsOf(given[i][2])' = ImportsOf(given[i][2])
    BY <1>4, GivenFixesBuilds
  <2>2. CASE i = turn
    BY <1>4, <1>11, <2>1, <2>2 DEF name
  <2>3. CASE i \in 1..(turn - 1)
    BY <1>4, <1>10, <2>1, <2>3 DEF FInv
  <2> QED
    BY <1>1, <1>4, <2>2, <2>3
<1>15. \E i \in DOMAIN given : ~Builds(given[i][2])
  BY <1>1, <1>4 DEF name
<1> QED
  BY <1>4, <1>11, <1>10, <1>12, <1>13, <1>14, <1>15 DEF FInv

-----------------------------------------------------------------------------
(* The command.                                                            *)

(* Where the command is against where its parts are, and what the          *)
(* collector knows against what happened.                                  *)
CommandInv ==
    /\ cmd \in {"connect", "files", "reflect", "print", "printed", "failed",
                "crashed", "aborted"}
    /\ endpoint \in BOOLEAN
    /\ ~endpoint => step = "load" /\ pc = "list" /\ cmd # "reflect"
    /\ cmd \notin {"connect", "files", "aborted"} => turn = Len(given) + 1
    /\ cmd \in {"print", "printed", "failed"} /\ endpoint => pc = "done"
    /\ errors # {} => Reported
    /\ collector.fatal => Failed
    /\ cmd = "failed" => collector.fatal
    /\ cmd = "printed" => ~collector.fatal

DescribeInv ==
    /\ RInv
    /\ OInv
    /\ FInv
    /\ CommandInv

LEMMA DescribeInitHolds == DescribeInit => DescribeInv
<1> SUFFICES ASSUME DescribeInit PROVE DescribeInv
  OBVIOUS
<1>1. RInv /\ OInv /\ FInv
  BY ReflectInitHolds, OptionsInitHolds, FilesInitHolds DEF DescribeInit
<1>2. CommandInv
  BY DEF DescribeInit, Init, ProtoInit, OptionsInit, CommandInv
<1> QED
  BY <1>1, <1>2 DEF DescribeInv

\* a part of the state that a step leaves alone
LEMMA FilesStutter ==
    ASSUME FInv, UNCHANGED protoVars
    PROVE  FInv' /\ Reported' = Reported
<1>1. UNCHANGED <<given, turn, parsed, refused, local, collector, missed>>
  BY DEF protoVars, reportVars
<1>2. \A n : Builds(n)' = Builds(n) /\ ImportsOf(n)' = ImportsOf(n)
  BY <1>1, GivenFixesBuilds
<1>3. ProtoTypeOK' /\ ReportInv' /\ Reported' = Reported
  BY <1>1 DEF FInv, ProtoTypeOK, ReportInv, Reported
<1>4. \A n \in parsed' : Builds(n)'
  BY <1>1, <1>2 DEF FInv
<1>5. ASSUME NEW i \in 1..(turn' - 1)
      PROVE  IF Builds(given[i][2])'
             THEN ({given[i][2]} \cup ImportsOf(given[i][2]))' \subseteq local'
             ELSE Reported'
  <2>1. /\ Builds(given[i][2])' = Builds(given[i][2])
        /\ ImportsOf(given[i][2])' = ImportsOf(given[i][2])
    BY <1>1, GivenFixesBuilds
  <2> QED
    BY <1>1, <1>3, <2>1 DEF FInv
<1> QED
  BY <1>1, <1>3, <1>4, <1>5 DEF FInv

LEMMA OptionsStutter ==
    ASSUME OInv, UNCHANGED optionsVars
    PROVE  OInv'
  BY DEF OInv, OptionsTypeOK, RecordsInv, CredentialsInv, optionsVars, FromJson,
     Throws, OptionsOf, Credentials, Asserts

LEMMA FailedStays ==
    ASSUME UNCHANGED given, broken => broken'
    PROVE  Failed => Failed'
<1> SUFFICES ASSUME Failed PROVE Failed'
  OBVIOUS
<1>1. CASE broken
  BY <1>1 DEF Failed
<1>2. CASE \E i \in DOMAIN given : ~Builds(given[i][2])
  <2>1. PICK i \in DOMAIN given : ~Builds(given[i][2])
    BY <1>2
  <2>2. Builds(given[i][2])' = Builds(given[i][2])
    BY GivenFixesBuilds
  <2> QED
    BY <2>1, <2>2 DEF Failed
<1> QED
  BY <1>1, <1>2 DEF Failed

LEMMA ConnectingKeeps ==
    ASSUME DescribeInv, Connecting
    PROVE  DescribeInv'
<1>1. UNCHANGED vars /\ UNCHANGED protoVars /\ UNCHANGED <<cmd, endpoint>> /\ OptionsNext
      /\ endpoint
  BY DEF Connecting
<1>2. RInv' /\ OInv' /\ FInv' /\ Reported' = Reported
  BY <1>1, ReflectStutter, OptionsStep, FilesStutter DEF DescribeInv
<1>3. Failed => Failed'
  BY <1>1, FailedStays DEF vars, dbVars, protoVars
<1>4. CommandInv'
  BY <1>1, <1>2, <1>3 DEF DescribeInv, CommandInv, vars, ownVars, protoVars,
     reportVars, optionsVars
<1> QED
  BY <1>2, <1>4 DEF DescribeInv

LEMMA ConnectedKeeps ==
    ASSUME DescribeInv, Connected
    PROVE  DescribeInv'
<1>1. UNCHANGED vars /\ UNCHANGED protoVars /\ UNCHANGED endpoint
      /\ Forget /\ UNCHANGED <<step, fault, channel>>
      /\ cmd' = "files" /\ (endpoint => step = "done")
  BY DEF Connected
<1>2. RInv' /\ FInv' /\ Reported' = Reported
  BY <1>1, ReflectStutter, FilesStutter DEF DescribeInv
<1>3. OInv'
  BY <1>1, ForgetStep DEF DescribeInv, CommandInv
<1>4. Failed => Failed'
  BY <1>1, FailedStays DEF vars, dbVars, protoVars
<1>5. CommandInv'
  BY <1>1, <1>2, <1>4 DEF DescribeInv, CommandInv, vars, ownVars, protoVars,
     reportVars, optionsVars
<1> QED
  BY <1>2, <1>3, <1>5 DEF DescribeInv

LEMMA ReadingKeeps ==
    ASSUME DescribeInv, ReadingFiles
    PROVE  DescribeInv'
<1>1. UNCHANGED vars /\ UNCHANGED optionsVars /\ UNCHANGED <<cmd, endpoint>>
      /\ ImportFile /\ cmd = "files" /\ UNCHANGED given
  BY DEF ReadingFiles, ImportFile, ImportSucceeds, ImportFails
<1>2. RInv' /\ OInv'
  BY <1>1, ReflectStutter, OptionsStutter DEF DescribeInv
<1>3. /\ FInv'
      /\ Reported => Reported'
      /\ collector'.fatal =>
             collector.fatal \/ \E i \in DOMAIN given : ~Builds(given[i][2])
  BY <1>1, ImportSucceedsKeeps, ImportFailsKeeps DEF ImportFile, DescribeInv
<1>4. Failed => Failed'
  BY <1>1, FailedStays DEF vars, dbVars
<1>5. collector'.fatal => Failed'
  BY <1>3, <1>4 DEF DescribeInv, CommandInv, Failed
<1>6. CommandInv'
  BY <1>1, <1>3, <1>5 DEF DescribeInv, CommandInv, vars, ownVars, optionsVars
<1> QED
  BY <1>2, <1>3, <1>6 DEF DescribeInv

\* the report of the server's failure changes the collector, not the files
LEMMA ReflectReports ==
    ASSUME FInv, UNCHANGED <<given, turn, parsed, refused, local>>,
           IF errors' # errors THEN Report(0, 1, 0) ELSE UNCHANGED reportVars
    PROVE  /\ FInv'
           /\ Reported => Reported'
           /\ errors' # errors => Reported'
           /\ collector'.fatal => (collector.fatal \/ errors' # errors)
<1>1. /\ ReportInv'
      /\ Reported => Reported'
      /\ errors' # errors => Reported'
      /\ collector'.fatal => (collector.fatal \/ errors' # errors)
  <2>1. CASE errors' # errors
    BY <2>1, ReportStep DEF FInv, Reported
  <2>2. CASE errors' = errors
    BY <2>2 DEF FInv, Reported, ReportInv, reportVars
  <2> QED
    BY <2>1, <2>2
<1>2. ProtoTypeOK'
  BY <1>1 DEF FInv, ProtoTypeOK, ReportInv
<1>3. \A n \in parsed' : Builds(n)'
  BY GivenFixesBuilds DEF FInv
<1>4. ASSUME NEW i \in 1..(turn' - 1)
      PROVE  IF Builds(given[i][2])'
             THEN ({given[i][2]} \cup ImportsOf(given[i][2]))' \subseteq local'
             ELSE Reported'
  <2>1. /\ Builds(given[i][2])' = Builds(given[i][2])
        /\ ImportsOf(given[i][2])' = ImportsOf(given[i][2])
    BY GivenFixesBuilds
  <2> QED
    BY <1>1, <2>1 DEF FInv
<1> QED
  BY <1>1, <1>2, <1>3, <1>4 DEF FInv

LEMMA ReflectingKeeps ==
    ASSUME DescribeInv, Reflecting
    PROVE  DescribeInv'
<1>1. /\ cmd = "reflect" /\ Next
      /\ IF errors' # errors THEN Report(0, 1, 0) ELSE UNCHANGED reportVars
      /\ UNCHANGED optionsVars
      /\ UNCHANGED <<given, turn, parsed, refused, local, cmd, endpoint>>
  BY DEF Reflecting
<1>2. /\ RInv' /\ OInv'
      /\ broken => broken'
      /\ errors' # errors => broken'
  BY <1>1, NextKeeps, OptionsStutter DEF DescribeInv
<1>3. /\ FInv'
      /\ Reported => Reported'
      /\ errors' # errors => Reported'
      /\ collector'.fatal => (collector.fatal \/ errors' # errors)
  BY <1>1, ReflectReports DEF DescribeInv
<1>4. Failed => Failed'
  BY <1>1, <1>2, FailedStays
<1>5. collector'.fatal => Failed'
  BY <1>2, <1>3, <1>4 DEF DescribeInv, CommandInv, Failed
<1>6. errors' # {} => Reported'
  BY <1>3 DEF DescribeInv, CommandInv
<1>7. CommandInv'
  BY <1>1, <1>3, <1>5, <1>6 DEF DescribeInv, CommandInv, optionsVars
<1> QED
  BY <1>2, <1>3, <1>7 DEF DescribeInv

\* Aborted, FilesRead, Reflected and PrintAll move the command only
LEMMA MovingKeeps ==
    ASSUME DescribeInv, Aborted \/ FilesRead \/ Reflected \/ PrintAll
    PROVE  DescribeInv'
<1>1. UNCHANGED <<vars, optionsVars, protoVars, endpoint>>
  BY DEF Aborted, FilesRead, Reflected, PrintAll
<1>2. RInv' /\ OInv' /\ FInv' /\ Reported' = Reported
  BY <1>1, ReflectStutter, OptionsStutter, FilesStutter DEF DescribeInv
<1>3. Failed => Failed'
  BY <1>1, FailedStays DEF vars, dbVars, protoVars
<1>4. UNCHANGED <<pc, errors, given, turn, collector, step>>
  BY <1>1 DEF vars, ownVars, protoVars, reportVars, optionsVars
<1>5. CommandInv'
  <2>1. CASE FilesRead
    <3>1. turn = Len(given) + 1
      BY <2>1 DEF FilesRead, DescribeInv, FInv, ProtoTypeOK
    <3> QED
      BY <1>1, <1>2, <1>3, <1>4, <2>1, <3>1 DEF FilesRead, DescribeInv, CommandInv
  <2>2. CASE Reflected
    BY <1>1, <1>2, <1>3, <1>4, <2>2 DEF Reflected, DescribeInv, CommandInv
  <2>3. CASE PrintAll
    BY <1>1, <1>2, <1>3, <1>4, <2>3 DEF PrintAll, Fatal, DescribeInv, CommandInv,
       FInv, ReportInv
  <2>4. CASE Aborted
    BY <1>1, <1>2, <1>3, <1>4, <2>4 DEF Aborted, DescribeInv, CommandInv
  <2> QED
    BY <2>1, <2>2, <2>3, <2>4
<1> QED
  BY <1>2, <1>5 DEF DescribeInv

LEMMA DescribeStutter ==
    ASSUME DescribeInv, UNCHANGED describeVars
    PROVE  DescribeInv'
<1>1. UNCHANGED <<vars, optionsVars, protoVars, cmd, endpoint>>
  BY DEF describeVars
<1>2. RInv' /\ OInv' /\ FInv' /\ Reported' = Reported
  BY <1>1, ReflectStutter, OptionsStutter, FilesStutter DEF DescribeInv
<1>3. Failed => Failed'
  BY <1>1, FailedStays DEF vars, dbVars, protoVars
<1>4. CommandInv'
  BY <1>1, <1>2, <1>3 DEF DescribeInv, CommandInv, vars, ownVars, protoVars,
     reportVars, optionsVars
<1> QED
  BY <1>2, <1>4 DEF DescribeInv

LEMMA DescribeStep ==
    ASSUME DescribeInv, [DescribeNext]_describeVars
    PROVE  DescribeInv'
  BY ConnectingKeeps, ConnectedKeeps, ReadingKeeps, ReflectingKeeps, MovingKeeps,
     DescribeStutter DEF DescribeNext

LEMMA DescribeInvHolds == DescribeSpec => []DescribeInv
<1>1. DescribeInit => DescribeInv
  BY DescribeInitHolds
<1>2. DescribeInv /\ [DescribeNext]_describeVars => DescribeInv'
  BY DescribeStep
<1> QED
  BY <1>1, <1>2, PTL DEF DescribeSpec

LEMMA FilesAreReported ==
    ASSUME DescribeInv, cmd = "printed", ~missed
    PROVE  ~Failed
<1>1. ~Reported
  BY DEF DescribeInv, CommandInv, Reported
<1>2. errors = {} /\ turn = Len(given) + 1
  BY <1>1 DEF DescribeInv, CommandInv
<1>4. ~broken
  <2>1. CASE endpoint
    BY <1>2, <2>1 DEF DescribeInv, CommandInv, RInv, StageInv
  <2>2. CASE ~endpoint
    BY <2>2 DEF DescribeInv, CommandInv, RInv, StageInv, CacheInv
  <2> QED
    BY <2>1, <2>2
<1>3. ASSUME NEW i \in DOMAIN given
      PROVE  Builds(given[i][2])
  BY <1>1, <1>2, <1>3 DEF DescribeInv, FInv, ProtoTypeOK
<1> QED
  BY <1>3, <1>4 DEF Failed

LEMMA GivenFilesAreIn ==
    ASSUME DescribeInv
    PROVE  GivenIsRead
<1> SUFFICES ASSUME cmd = "printed", ~missed, NEW i \in DOMAIN given
             PROVE  LET name == given[i][2]
                    IN  /\ {name} \cup ImportsOf(name) \subseteq local
                        /\ \/ Source(name) = given[i][1]
                           \/ name \notin Disk[given[i][1]]
                           \/ \E j \in 1..(i - 1) : name \in Disk[given[j][1]]
  BY DEF GivenIsRead
<1> DEFINE name == given[i][2]
           S == {k \in DOMAIN given : name \in Disk[given[k][1]]}
<1>1. Builds(name)
  BY FilesAreReported DEF Failed
<1>2. turn = Len(given) + 1 /\ given \in Seq(Directories \X Names)
  BY DEF DescribeInv, CommandInv, FInv, ProtoTypeOK
<1>3. {name} \cup ImportsOf(name) \subseteq local
  BY <1>1, <1>2 DEF DescribeInv, FInv
<1>4. ASSUME name \in Disk[given[i][1]], Source(name) # given[i][1]
      PROVE  \E j \in 1..(i - 1) : name \in Disk[given[j][1]]
  <2>1. S \subseteq Nat /\ i \in S
    BY <1>2, <1>4
  <2>2. Min(S) \in S /\ Min(S) <= i
    BY <2>1, HasLeast
  <2>3. Source(name) = given[Min(S)][1]
    BY DEF Source
  <2>4. Min(S) # i
    BY <1>4, <2>3
  <2> HIDE DEF S
  <2>5. Min(S) \in 1..(i - 1)
    BY <1>2, <2>1, <2>2, <2>4 DEF S
  <2> QED
    BY <2>2, <2>5 DEF S
<1> QED
  BY <1>3, <1>4

(* A given file is in the description with what it imports (GivenIsRead).  *)
THEOREM GivenFilesAreRead == DescribeSpec => []GivenIsRead
<1>1. DescribeInv => GivenIsRead
  BY GivenFilesAreIn
<1> QED
  BY <1>1, DescribeInvHolds, PTL

(* Whatever the disk and the server do, the command fails exactly when a   *)
(* given file cannot be read or the stream ended with an error status, but *)
(* for an error that found no room (VerdictIsTrue).  A server that answers *)
(* with errors and ends the stream with status OK makes no failure: what   *)
(* it costs the description is said by PrintsAll.                          *)
THEOREM VerdictsAreTrue == DescribeSpec => []VerdictIsTrue
<1>1. DescribeInv => VerdictIsTrue
  BY FilesAreReported DEF DescribeInv, CommandInv, FInv, ReportInv, VerdictIsTrue
<1> QED
  BY <1>1, DescribeInvHolds, PTL

(* Of any server, also one that answers with errors or stops answering, a  *)
(* description lacks only what was asked for and did not come: the list of *)
(* services, or imports of their files (PrintedIsComplete).                *)
THEOREM PrintsAll == DescribeSpec => []PrintedIsComplete
<1>1. DescribeInv => PrintedIsComplete
  <2> SUFFICES ASSUME DescribeInv, cmd = "printed", endpoint
               PROVE  /\ listed = Services \/ Listing \in lost
                      /\ \A s \in listed : /\ Home[s] \in Database
                                           /\ Wanted(s) \subseteq Database \cup lost
                      /\ FromServer \subseteq UNION {Wanted(s) : s \in listed}
                      /\ EmptyOnlyIfLost
    BY DEF PrintedIsComplete
  <2>1. RInv /\ pc = "done"
    BY DEF DescribeInv, CommandInv
  <2>2. /\ listed = Services \/ Listing \in lost
        /\ \A s \in listed : Home[s] \in stored /\ Wanted(s) \subseteq stored \cup lost
        /\ stored \subseteq UNION {Wanted(s) : s \in listed}
        /\ EmptyOnlyIfLost
    BY <2>1, ReflectEnds, ReflectIsSafe
  <2> QED
    BY <2>2 DEF Database, FromServer
<1> QED
  BY <1>1, DescribeInvHolds, PTL

(* The null descriptor is dereferenced only when a listed service, or its  *)
(* file, was asked for and did not come, or clashes (CrashOnlyIfLost).     *)
THEOREM CrashesOnlyIfLost == DescribeSpec => []CrashOnlyIfLost
<1>1. DescribeInv => CrashOnlyIfLost
  BY ReflectIsSafe DEF DescribeInv
<1> QED
  BY <1>1, DescribeInvHolds, PTL

(* The option records are freed once each and not used after (FreedOnce).  *)
THEOREM OptionsFreedOnce == DescribeSpec => []FreedOnce
<1>1. DescribeInv => FreedOnce
  BY OptionsAreSafe DEF DescribeInv
<1> QED
  BY <1>1, DescribeInvHolds, PTL

(* An options file that asks for TLS gets a TLS channel with its roots and *)
(* its switches, or the assertion of gRPC when it names no roots, unless   *)
(* it leaves a switch or the timeout blank: then TLS is lost               *)
(* (TlsUnlessBlank).                                                       *)
THEOREM TlsIsLostOnlyToBlanks == DescribeSpec => []TlsUnlessBlank
<1>1. DescribeInv => TlsUnlessBlank
  BY OptionsAreSafe DEF DescribeInv
<1> QED
  BY <1>1, DescribeInvHolds, PTL

(* Every variable of DescribeCommand keeps its type (DescribeTypeOK).      *)
THEOREM DescribeTypeCorrect == DescribeSpec => []DescribeTypeOK
<1>1. DescribeInv => DescribeTypeOK
  BY DEF DescribeInv, RInv, OInv, FInv, CommandInv, DescribeTypeOK
<1> QED
  BY <1>1, DescribeInvHolds, PTL

-----------------------------------------------------------------------------
(* The work that is left.  What the pool has still to ask for is neither   *)
(* built nor bad, so that every answer makes the unbuilt files fewer.      *)
PoolInv == pc = "build" => todo \cap (built \cup bad) = {}

LEMMA PoolStep == PoolInv /\ [Next]_vars => PoolInv'
<1> SUFFICES ASSUME PoolInv, [Next]_vars PROVE PoolInv'
  OBVIOUS
<1>1. CASE FindService \/ BuildImport
  BY <1>1 DEF FindService, BuildImport, PoolInv
<1>2. CASE pc' # "build"
  BY <1>2 DEF PoolInv
<1>3. CASE UNCHANGED vars
  BY <1>3 DEF vars, ownVars, PoolInv
<1> QED
  BY <1>1, <1>2, <1>3 DEF Next, ListServices, NextService, Built, FetchFile,
     StoreImport, ServiceDone, Close

LEMMA Products ==
    \A j, k, n \in Nat : /\ k * n \in Nat
                         /\ (k + 1) * n = k * n + n
                         /\ j <= k => j * n <= k * n
  OBVIOUS

Due == IF pc = "list" THEN Services ELSE services
Unbuilt == Files \ (built \cup bad)

NaturalWork ==
    /\ IsFiniteSet(Due) /\ Cardinality(Due) \in Nat
    /\ IsFiniteSet(Unbuilt) /\ Cardinality(Unbuilt) \in Nat
    /\ IsFiniteSet(todo) /\ Cardinality(todo) \in 0..Cardinality(Files)
    /\ Cardinality(Files) \in Nat /\ ServiceWork \in Nat
    /\ PlaceWork \in Nat
    /\ ServerWork = Cardinality(Due) * ServiceWork + Cardinality(Unbuilt) + PlaceWork
    /\ ServerWork \in Nat

LEMMA WorkIsNatural == RInv => NaturalWork
<1> SUFFICES ASSUME RInv PROVE NaturalWork
  OBVIOUS
<1>1. Due \subseteq Services /\ Unbuilt \subseteq Files /\ todo \subseteq Files
  BY DEF Due, Unbuilt, RInv, TypeOK
<1>2. /\ IsFiniteSet(Due) /\ Cardinality(Due) \in Nat
      /\ IsFiniteSet(Unbuilt) /\ Cardinality(Unbuilt) \in Nat
      /\ IsFiniteSet(todo) /\ Cardinality(todo) \in Nat
      /\ Cardinality(Files) \in Nat
      /\ Cardinality(todo) <= Cardinality(Files)
  BY <1>1, ServicesAssumption, FS_Subset, FS_CardinalityType
<1>3. ServiceWork \in Nat /\ PlaceWork \in Nat
  BY <1>2 DEF ServiceWork, PlaceWork
<1>4. ServerWork = Cardinality(Due) * ServiceWork + Cardinality(Unbuilt) + PlaceWork
  BY DEF ServerWork, Due, Unbuilt
<1>5. Cardinality(Due) * ServiceWork \in Nat
  BY <1>2, <1>3, Products
<1> QED
  BY <1>2, <1>3, <1>4, <1>5 DEF NaturalWork

\* a step after which less is due, or as much and the rest is less
LEMMA ServerStep ==
    ASSUME RInv, RInv', PoolInv, Next
    PROVE  ServerWork' < ServerWork
<1> DEFINE d == Cardinality(Due)
           u == Cardinality(Unbuilt)
           n == Cardinality(Files)
           k == Cardinality(todo)
<1>1. /\ IsFiniteSet(Due) /\ d \in Nat
      /\ IsFiniteSet(Unbuilt) /\ u \in Nat
      /\ IsFiniteSet(todo) /\ k \in 0..n
      /\ n \in Nat /\ ServiceWork \in Nat
      /\ PlaceWork \in Nat
      /\ ServerWork = d * ServiceWork + u + PlaceWork
  BY WorkIsNatural DEF NaturalWork
<1>2. /\ IsFiniteSet(Due') /\ d' \in Nat
      /\ IsFiniteSet(Unbuilt') /\ u' \in Nat
      /\ IsFiniteSet(todo') /\ k' \in 0..n
      /\ PlaceWork' \in Nat
      /\ ServerWork' = d' * ServiceWork + u' + PlaceWork'
  <2>1. RInv' => NaturalWork'
    BY WorkIsNatural, PTL
  <2> QED
    BY <2>1 DEF NaturalWork, ServiceWork
<1>3. d * ServiceWork \in Nat /\ d' * ServiceWork \in Nat
  BY <1>1, <1>2, Products
\* nothing is built or found bad, and as much is due
<1>4. ASSUME UNCHANGED <<services, built, bad>>, pc # "list", pc' # "list",
             PlaceWork' < PlaceWork
      PROVE  ServerWork' < ServerWork
  <2>1. d' = d /\ u' = u
    BY <1>4 DEF Due, Unbuilt
  <2> QED
    BY <1>1, <1>2, <1>3, <1>4, <2>1
<1>5. CASE ListServices
  <2>1. Due' \subseteq Due /\ Unbuilt' = Unbuilt /\ PlaceWork = 2 /\ PlaceWork' = 1
    BY <1>5 DEF ListServices, Due, Unbuilt, PlaceWork
  <2>2. d' <= d
    BY <1>1, <2>1, FS_Subset
  <2>3. d' * ServiceWork <= d * ServiceWork
    BY <1>1, <1>2, <2>2, Products
  <2> QED
    BY <1>1, <1>2, <1>3, <2>1, <2>3
<1>6. CASE NextService
  <2>1. PICK s \in services : services' = services \ {s}
    BY <1>6 DEF NextService
  <2>2. /\ Due = services /\ Due' = services \ {s} /\ Unbuilt' = Unbuilt
        /\ PlaceWork = 1 /\ PlaceWork' = n + 5
    BY <1>6, <2>1 DEF NextService, Due, Unbuilt, PlaceWork
  <2>3. d = d' + 1
    BY <1>1, <1>2, <2>1, <2>2, FS_RemoveElement
  <2>4. d * ServiceWork = d' * ServiceWork + ServiceWork
    BY <1>1, <1>2, <2>3, Products
  <2> QED
    BY <1>1, <1>2, <1>3, <2>2, <2>4 DEF ServiceWork
<1>7. CASE FindService
  <2>1. Due' = Due /\ Unbuilt' \subseteq Unbuilt
    BY <1>7 DEF FindService, Due, Unbuilt
  <2>4. pc = "resolve" /\ pc' \in {"fetch", "build", "crashed"}
    BY <1>7 DEF FindService
  <2>3. PlaceWork' < PlaceWork
    BY <1>1, <2>4 DEF PlaceWork
  <2>2. u' <= u
    BY <1>1, <2>1, FS_Subset
  <2> QED
    BY <1>1, <1>2, <1>3, <2>1, <2>2, <2>3
<1>8. CASE BuildImport
  <2>1. PICK f \in todo : \/ built' = built \cup {f} /\ bad' = bad
                          \/ bad' = bad \cup {f} /\ built' = built
    BY <1>8 DEF BuildImport
  <2>2. f \in Unbuilt
    BY <1>8, <2>1 DEF BuildImport, PoolInv, Unbuilt, RInv, TypeOK
  <2>3. Due' = Due /\ Unbuilt' = Unbuilt \ {f} /\ PlaceWork' = PlaceWork
    BY <1>8, <2>1 DEF BuildImport, Due, Unbuilt, PlaceWork
  <2>4. u' = u - 1
    BY <1>1, <2>2, <2>3, FS_RemoveElement
  <2> QED
    BY <1>1, <1>2, <1>3, <2>3, <2>4
<1>9. CASE Built \/ FetchFile \/ Close
  <2>1. /\ UNCHANGED <<services, built, bad>>
        /\ \/ pc = "build" /\ pc' = "fetch"
           \/ pc = "fetch" /\ pc' = "imports"
           \/ pc = "build" /\ pc' = "crashed"
           \/ pc = "next" /\ pc' = "done"
    BY <1>9 DEF Built, FetchFile, Close
  <2>2. PlaceWork' < PlaceWork
    BY <1>1, <1>2, <2>1 DEF PlaceWork
  <2> QED
    BY <1>4, <2>1, <2>2
<1>10. CASE StoreImport
  <2>1. PICK f \in todo : todo' = todo \ {f}
    BY <1>10 DEF StoreImport
  <2>2. k' < k
    BY <1>1, <1>2, <2>1, FS_RemoveElement
  <2>3. /\ UNCHANGED <<services, built, bad>> /\ pc # "list" /\ pc' # "list"
        /\ PlaceWork' < PlaceWork
    BY <1>1, <1>2, <1>10, <2>2 DEF StoreImport, PlaceWork
  <2> QED
    BY <1>4, <2>3
<1>11. CASE ServiceDone
  <2>1. k = 0
    BY <1>11, FS_EmptySet DEF ServiceDone
  <2>2. /\ UNCHANGED <<services, built, bad>> /\ pc # "list" /\ pc' # "list"
        /\ PlaceWork' < PlaceWork
    BY <1>11, <2>1 DEF ServiceDone, PlaceWork
  <2> QED
    BY <1>4, <2>2
<1> QED
  BY <1>5, <1>6, <1>7, <1>8, <1>9, <1>10, <1>11 DEF Next

\* the command's own part of it, and the files'
NaturalWorkLeft ==
    /\ OptionsWork \in Nat
    /\ CommandWork \in Nat
    /\ FilesWork \in Nat
    /\ Len(given) \in Nat
    /\ turn \in Nat
    /\ ServerWork \in Nat
    /\ WorkLeft = OptionsWork + FilesWork + ServerWork + CommandWork
    /\ WorkLeft \in Nat

LEMMA CommandWorkIsNatural == DescribeInv => NaturalWorkLeft
<1> SUFFICES ASSUME DescribeInv PROVE NaturalWorkLeft
  OBVIOUS
<1>1. OptionsWork \in Nat
  BY DEF DescribeInv, OInv, OptionsTypeOK, OptionsWork
<1>2. CommandWork \in Nat
  BY DEF CommandWork
<1>3. given \in Seq(Directories \X Names) /\ turn \in 1..(Len(given) + 1)
  BY DEF DescribeInv, FInv, ProtoTypeOK
<1>4. FilesWork \in Nat /\ Len(given) \in Nat /\ turn \in Nat
  BY <1>3 DEF FilesWork
<1>5. ServerWork \in Nat
  BY WorkIsNatural DEF DescribeInv, NaturalWork
<1> QED
  BY <1>1, <1>2, <1>4, <1>5 DEF WorkLeft, NaturalWorkLeft

LEMMA SumGetsLess ==
    \A o, f, s, c, o2, f2, s2, c2 \in Nat :
        (/\ o2 <= o /\ f2 <= f /\ s2 <= s /\ c2 <= c
         /\ o2 < o \/ f2 < f \/ s2 < s \/ c2 < c)
            => /\ o2 + f2 + s2 + c2 < o + f + s + c
               /\ o2 + f2 + s2 + c2 >= 0
  OBVIOUS

LEMMA DescribeWork ==
    ASSUME DescribeInv, DescribeInv', PoolInv, DescribeNext
    PROVE  WorkLeft' < WorkLeft /\ WorkLeft' >= 0
<1>1. /\ OptionsWork \in Nat /\ CommandWork \in Nat /\ FilesWork \in Nat
      /\ Len(given) \in Nat /\ turn \in Nat
      /\ ServerWork \in Nat
      /\ WorkLeft = OptionsWork + FilesWork + ServerWork + CommandWork
  BY CommandWorkIsNatural DEF NaturalWorkLeft
<1>2. /\ OptionsWork' \in Nat /\ CommandWork' \in Nat /\ FilesWork' \in Nat
      /\ ServerWork' \in Nat
      /\ WorkLeft' = OptionsWork' + FilesWork' + ServerWork' + CommandWork'
      /\ WorkLeft' \in Nat
  <2>1. DescribeInv' => NaturalWorkLeft'
    BY CommandWorkIsNatural, PTL
  <2> QED
    BY <2>1 DEF NaturalWorkLeft
<1>3. ASSUME UNCHANGED vars PROVE ServerWork' = ServerWork
  BY <1>3 DEF vars, ownVars, ServerWork, PlaceWork
<1>4. ASSUME UNCHANGED protoVars PROVE FilesWork' = FilesWork
  BY <1>4 DEF protoVars, FilesWork
<1>5. ASSUME UNCHANGED step PROVE OptionsWork' = OptionsWork
  BY <1>5 DEF OptionsWork
<1>6. ASSUME UNCHANGED cmd PROVE CommandWork' = CommandWork
  BY <1>6 DEF CommandWork
<1> SUFFICES /\ OptionsWork' <= OptionsWork /\ FilesWork' <= FilesWork
             /\ ServerWork' <= ServerWork /\ CommandWork' <= CommandWork
             /\ \/ OptionsWork' < OptionsWork \/ FilesWork' < FilesWork
                \/ ServerWork' < ServerWork \/ CommandWork' < CommandWork
  <2>1. /\ OptionsWork' + FilesWork' + ServerWork' + CommandWork'
               < OptionsWork + FilesWork + ServerWork + CommandWork
        /\ OptionsWork' + FilesWork' + ServerWork' + CommandWork' >= 0
    BY <1>1, <1>2, SumGetsLess, ZenonT(60)
  <2> QED
    BY <1>1, <1>2, <2>1, Zenon
<1>7. CASE Connecting
  <2>1. OptionsWork' < OptionsWork
    BY <1>7 DEF Connecting, OptionsNext, Defaults, Replace, Connect, Release, OptionsWork
  <2>2. ServerWork' = ServerWork /\ FilesWork' = FilesWork /\ CommandWork' = CommandWork
    BY <1>3, <1>4, <1>6, <1>7 DEF Connecting
  <2> QED
    BY <1>1, <1>2, <2>1, <2>2
<1>8. CASE Aborted \/ Connected \/ FilesRead \/ Reflected \/ PrintAll
  <2>1. CommandWork' < CommandWork
    BY <1>8 DEF Aborted, Connected, FilesRead, Reflected, PrintAll, CommandWork
  <2>2. UNCHANGED vars /\ UNCHANGED protoVars /\ UNCHANGED step
    BY <1>8 DEF Aborted, Connected, FilesRead, Reflected, PrintAll, optionsVars
  <2>3. ServerWork' = ServerWork /\ FilesWork' = FilesWork /\ OptionsWork' = OptionsWork
    BY <1>3, <1>4, <1>5, <2>2
  <2> QED
    BY <1>1, <1>2, <2>1, <2>3
<1>9. CASE ReadingFiles
  <2>1. UNCHANGED vars /\ UNCHANGED step /\ UNCHANGED <<cmd, given>> /\ turn' = turn + 1
    BY <1>9 DEF ReadingFiles, ImportFile, ImportSucceeds, ImportFails, optionsVars
  <2>2. FilesWork' < FilesWork
    BY <1>1, <2>1 DEF FilesWork
  <2>3. ServerWork' = ServerWork /\ CommandWork' = CommandWork /\ OptionsWork' = OptionsWork
    BY <1>3, <1>5, <1>6, <2>1
  <2> QED
    BY <1>1, <1>2, <2>2, <2>3
<1>10. CASE Reflecting
  <2>1. Next /\ UNCHANGED step /\ UNCHANGED <<cmd, given, turn>>
    BY <1>10 DEF Reflecting, optionsVars
  <2>2. ServerWork' < ServerWork
    BY <2>1, ServerStep DEF DescribeInv
  <2>3. FilesWork' = FilesWork /\ CommandWork' = CommandWork /\ OptionsWork' = OptionsWork
    BY <1>5, <1>6, <2>1 DEF FilesWork
  <2> QED
    BY <1>1, <1>2, <2>2, <2>3
<1> QED
  BY <1>7, <1>8, <1>9, <1>10 DEF DescribeNext

LEMMA PoolInvHolds == DescribeSpec => []PoolInv
<1>1. DescribeInit => PoolInv
  BY DEF DescribeInit, Init, PoolInv
<1>2. PoolInv /\ [DescribeNext]_describeVars => PoolInv'
  <2>1. [DescribeNext]_describeVars => [Next]_vars
    BY DEF DescribeNext, Connecting, Aborted, Connected, ReadingFiles, FilesRead, Reflecting,
       Reflected, PrintAll, describeVars
  <2> QED
    BY <2>1, PoolStep
<1> QED
  BY <1>1, <1>2, PTL DEF DescribeSpec

(* The command never goes round in circles: every step leaves less to do,  *)
(* and nothing is left below zero (WorkGetsLess), however many services,   *)
(* files and imports there are.                                            *)
THEOREM DescribeGetsOn == DescribeSpec => WorkGetsLess
<1>1. DescribeInv /\ DescribeInv' /\ PoolInv /\ [DescribeNext]_describeVars
          => [(WorkLeft' < WorkLeft /\ WorkLeft' >= 0)]_describeVars
  BY DescribeWork
<1> QED
  BY <1>1, DescribeInvHolds, PoolInvHolds, PTL DEF DescribeSpec, WorkGetsLess

=============================================================================
