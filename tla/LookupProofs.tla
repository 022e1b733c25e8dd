----------------------------- MODULE LookupProofs -----------------------------
(***************************************************************************)
(* Proofs about LookupClient: the caches of ReflectionDb, for every server *)
(* and every sequence of lookups.                                          *)
(***************************************************************************)
EXTENDS LookupClient, TLAPS

(* The files that are known are those found by their names; a symbol or an *)
(* extension is remembered as missing exactly when the server denied it.   *)
CacheInv ==
    /\ DbTypeOK
    /\ cached \cap Files = known_files
    /\ denied \cap Symbols = missing_symbols
    /\ denied \cap Extensions = missing_extensions

LInv ==
    /\ CacheInv
    /\ answer \in Lookup \cup {NoLookup}
    /\ AnswersAreTrue

LEMMA InitHolds == Init => LInv
<1> SUFFICES ASSUME Init
             PROVE  LInv
  OBVIOUS
<1>1. CacheInv
  BY DEF Init, DbInit, CacheInv, DbTypeOK
<1>2. answer = NoLookup /\ AnswersAreTrue
  BY DEF Init, AnswersAreTrue, NoLookup, LookedFor
<1> QED
  BY <1>1, <1>2 DEF LInv

LEMMA NeedsAreFiles ==
    ASSUME NEW k \in Keys
    PROVE  Needs(FileOf(k)) \subseteq Files
  BY DEF Needs

(* What one request may do to the database.                                *)
LEMMA FilesComeIn ==
    ASSUME CacheInv, NEW fs \in SUBSET Files, AddFileFromResponse(fs)
    PROVE  /\ cached' \subseteq Keys
           /\ cached \subseteq cached'
           /\ cached' \cap Files = known_files'
<1> DEFINE new == fs \ known_files
           defined == {k \in Symbols \cup Extensions : Home[k] \in new}
<1>1. PICK entered \in SUBSET defined : cached' = cached \cup new \cup entered
  BY DEF AddFileFromResponse
<1>2. entered \cap Files = {} /\ entered \subseteq Keys
  BY ReflectionDbAssumption DEF Keys
<1>3. cached \subseteq Keys /\ new \subseteq Keys
  BY DEF CacheInv, DbTypeOK, Keys
<1>4. known_files' = known_files \cup new
  BY DEF AddFileFromResponse
<1> HIDE DEF new, defined
<1>5. new \subseteq Files
  BY DEF new
<1> QED
  BY <1>1, <1>2, <1>3, <1>4, <1>5 DEF CacheInv

LEMMA FileResponseStep ==
    ASSUME CacheInv, NEW k \in Keys, FileResponse(k)
    PROVE  CacheInv'
<1>1. PICK fs \in SUBSET Needs(FileOf(k)) : AddFileFromResponse(fs)
  BY DEF FileResponse
<1>2. fs \in SUBSET Files
  BY <1>1, NeedsAreFiles
<1>3. cached' \subseteq Keys /\ cached' \cap Files = known_files'
  BY <1>1, <1>2, FilesComeIn
<1> QED
  BY <1>3 DEF FileResponse, CacheInv, DbTypeOK, negativeVars, RequestSucceeds

LEMMA NoAnswerStep ==
    ASSUME CacheInv, NEW k \in Keys, NoAnswer(k)
    PROVE  CacheInv'
  BY DEF NoAnswer, CacheInv, DbTypeOK, negativeVars, RequestSucceeds,
     RequestFails

LEMMA Unchanged == CacheInv /\ UNCHANGED dbVars => CacheInv'
  BY DEF dbVars, negativeVars, CacheInv, DbTypeOK

LEMMA FileStep ==
    ASSUME CacheInv, NEW f \in Files, NEW found \in BOOLEAN,
           FindFileByName(f, found)
    PROVE  /\ CacheInv'
           /\ found <=> f \in cached'
           /\ f \in known_files => UNCHANGED dbVars
<1> USE DEF Keys
<1>1. CASE Recalled(f, f \in known_files, found)
  BY <1>1, Unchanged DEF Recalled, dbVars
<1>2. CASE f \notin cached \cup known_files /\ found = (f \in cached')
  <2>1. CASE FileResponse(f)
    BY <1>2, <2>1, FileResponseStep
  <2>2. CASE NoAnswer(f)
    BY <1>2, <2>2, NoAnswerStep
  <2>3. CASE NotFound(f) /\ UNCHANGED negativeVars
    <3>1. f \notin Symbols \cup Extensions
      BY ReflectionDbAssumption
    <3>2. /\ denied' = denied \cup {f}
          /\ lost' = lost \cup {f}
          /\ UNCHANGED <<cached, known_files, missing_symbols,
                         missing_extensions, numbered, broken>>
          /\ stream' = "open"
      BY <2>3 DEF NotFound, RequestSucceeds, negativeVars
    <3>3. DbTypeOK'
      BY <3>2 DEF CacheInv, DbTypeOK
    <3>4. denied' \cap Symbols = missing_symbols' /\ denied' \cap Extensions = missing_extensions'
      BY <3>1, <3>2 DEF CacheInv
    <3> QED
      BY <1>2, <3>2, <3>3, <3>4 DEF CacheInv
  <2> QED
    BY <1>1, <1>2, <2>1, <2>2, <2>3 DEF FindFileByName
<1> QED
  BY <1>1, <1>2 DEF FindFileByName

LEMMA SymbolStep ==
    ASSUME CacheInv, NEW s \in Symbols, NEW found \in BOOLEAN,
           FindFileContainingSymbol(s, found)
    PROVE  /\ CacheInv'
           /\ found <=> s \in cached'
           /\ s \in cached \cup denied => UNCHANGED dbVars
<1> USE DEF Keys
<1>0. s \in denied <=> s \in missing_symbols
  BY DEF CacheInv
<1>1. CASE Recalled(s, s \in missing_symbols, found)
  BY <1>1, Unchanged DEF Recalled, dbVars
<1>2. CASE /\ s \notin cached \cup missing_symbols
           /\ found = (s \in cached')
  <2>1. CASE FileResponse(s)
    BY <1>0, <1>2, <2>1, FileResponseStep
  <2>2. CASE NoAnswer(s)
    BY <1>0, <1>2, <2>2, NoAnswerStep
  <2>3. CASE NotFound(s) /\ missing_symbols' = missing_symbols \cup {s}
                         /\ UNCHANGED missing_extensions
    <3>1. s \notin Extensions
      BY ReflectionDbAssumption
    <3>2. /\ denied' = denied \cup {s}
          /\ lost' = lost \cup {s}
          /\ cached' = cached
          /\ known_files' = known_files
          /\ numbered' = numbered
          /\ stream' = "open"
          /\ broken' = broken
      BY <2>3 DEF NotFound, RequestSucceeds
    <3>3. DbTypeOK'
      BY <2>3, <3>2 DEF CacheInv, DbTypeOK
    <3>4. denied' \cap Symbols = missing_symbols' /\ denied' \cap Extensions = missing_extensions'
      BY <2>3, <3>1, <3>2 DEF CacheInv
    <3> QED
      BY <1>0, <1>2, <3>2, <3>3, <3>4 DEF CacheInv
  <2> QED
    BY <1>0, <1>1, <1>2, <2>1, <2>2, <2>3 DEF FindFileContainingSymbol
<1> QED
  BY <1>1, <1>2 DEF FindFileContainingSymbol

LEMMA ExtensionStep ==
    ASSUME CacheInv, NEW e \in Extensions, NEW found \in BOOLEAN,
           FindFileContainingExtension(e, found)
    PROVE  /\ CacheInv'
           /\ found <=> e \in cached'
           /\ e \in cached \cup denied => UNCHANGED dbVars
<1> USE DEF Keys
<1>0. e \in denied <=> e \in missing_extensions
  BY DEF CacheInv
<1>1. CASE Recalled(e, e \in missing_extensions, found)
  BY <1>1, Unchanged DEF Recalled, dbVars
<1>2. CASE /\ e \notin cached \cup missing_extensions
           /\ found = (e \in cached')
  <2>1. CASE FileResponse(e)
    BY <1>0, <1>2, <2>1, FileResponseStep
  <2>2. CASE NoAnswer(e)
    BY <1>0, <1>2, <2>2, NoAnswerStep
  <2>3. CASE NotFound(e) /\ missing_extensions' = missing_extensions \cup {e}
                         /\ UNCHANGED missing_symbols
    <3>1. e \notin Symbols
      BY ReflectionDbAssumption
    <3>2. /\ denied' = denied \cup {e}
          /\ lost' = lost \cup {e}
          /\ cached' = cached
          /\ known_files' = known_files
          /\ numbered' = numbered
          /\ stream' = "open"
          /\ broken' = broken
      BY <2>3 DEF NotFound, RequestSucceeds
    <3>3. DbTypeOK'
      BY <2>3, <3>2 DEF CacheInv, DbTypeOK
    <3>4. denied' \cap Extensions = missing_extensions' /\ denied' \cap Symbols = missing_symbols'
      BY <2>3, <3>1, <3>2 DEF CacheInv
    <3> QED
      BY <1>0, <1>2, <3>2, <3>3, <3>4 DEF CacheInv
  <2> QED
    BY <1>0, <1>1, <1>2, <2>1, <2>2, <2>3 DEF FindFileContainingExtension
<1> QED
  BY <1>1, <1>2 DEF FindFileContainingExtension

LEMMA NumbersStep ==
    ASSUME CacheInv, NEW t \in Symbols, NEW found \in BOOLEAN,
           FindAllExtensionNumbers(t, found)
    PROVE  CacheInv' /\ (t \in numbered => UNCHANGED dbVars)
  BY DEF FindAllExtensionNumbers, CacheInv, DbTypeOK, dbVars, negativeVars,
     RequestSucceeds, RequestFails

-----------------------------------------------------------------------------
(* Every step answers truly, and asks nothing that is settled.             *)
LEMMA LookupStep ==
    LInv /\ [Next]_vars => LInv' /\ ((Settled(answer') /\ Next) => UNCHANGED dbVars)
<1> SUFFICES ASSUME LInv, [Next]_vars
             PROVE  LInv' /\ ((Settled(answer') /\ Next) => UNCHANGED dbVars)
  OBVIOUS
<1> USE DEF LInv, AnswersAreTrue, Answer, Lookup, NoLookup, Keys, Settled
<1>1. ASSUME NEW f \in Files, LookupFile(f)
      PROVE  LInv' /\ (Settled(answer') => UNCHANGED dbVars)
  <2>1. PICK found \in BOOLEAN :
            FindFileByName(f, found) /\ Answer("file", f, found)
    BY <1>1 DEF LookupFile
  <2>2. /\ CacheInv'
        /\ found <=> f \in cached'
        /\ f \in known_files => UNCHANGED dbVars
    BY <2>1, FileStep
  <2>3. answer' = [kind |-> "file", key |-> f, found |-> found]
    BY <2>1
  <2> QED
    BY <2>2, <2>3 DEF LookedFor
<1>2. ASSUME NEW s \in Symbols, LookupSymbol(s)
      PROVE  LInv' /\ (Settled(answer') => UNCHANGED dbVars)
  <2>1. PICK found \in BOOLEAN :
            FindFileContainingSymbol(s, found) /\ Answer("symbol", s, found)
    BY <1>2 DEF LookupSymbol
  <2>2. /\ CacheInv'
        /\ found <=> s \in cached'
        /\ s \in cached \cup denied => UNCHANGED dbVars
    BY <2>1, SymbolStep
  <2>3. answer' = [kind |-> "symbol", key |-> s, found |-> found]
    BY <2>1
  <2> QED
    BY <2>2, <2>3 DEF LookedFor
<1>3. ASSUME NEW e \in Extensions, LookupExtension(e)
      PROVE  LInv' /\ (Settled(answer') => UNCHANGED dbVars)
  <2>1. PICK found \in BOOLEAN :
            FindFileContainingExtension(e, found) /\ Answer("extension", e, found)
    BY <1>3 DEF LookupExtension
  <2>2. /\ CacheInv'
        /\ found <=> e \in cached'
        /\ e \in cached \cup denied => UNCHANGED dbVars
    BY <2>1, ExtensionStep
  <2>3. answer' = [kind |-> "extension", key |-> e, found |-> found]
    BY <2>1
  <2> QED
    BY <2>2, <2>3 DEF LookedFor
<1>4. ASSUME NEW t \in Symbols, LookupNumbers(t)
      PROVE  LInv' /\ (Settled(answer') => UNCHANGED dbVars)
  <2>1. PICK found \in BOOLEAN :
            FindAllExtensionNumbers(t, found) /\ Answer("numbers", t, found)
    BY <1>4 DEF LookupNumbers
  <2>2. CacheInv' /\ (t \in numbered => UNCHANGED dbVars)
    BY <2>1, NumbersStep
  <2>3. answer' = [kind |-> "numbers", key |-> t, found |-> found]
    BY <2>1
  <2> QED
    BY <2>2, <2>3 DEF LookedFor
<1>5. CASE ListAll \/ CloseOnce
  <2>1. CacheInv'
    <3>1. /\ UNCHANGED <<cached, known_files, missing_symbols,
                         missing_extensions, numbered, denied>>
          /\ lost' \in {lost, lost \cup {Listing}}
          /\ broken' \in BOOLEAN
          /\ stream' \in {"none", "open", "ended", "closed"}
      BY <1>5 DEF ListAll, CloseOnce, GetServices, CloseStream, negativeVars,
         RequestSucceeds, RequestFails, CacheInv, DbTypeOK
    <3> QED
      BY <3>1 DEF CacheInv, DbTypeOK
  <2>2. answer' = NoLookup
    BY <1>5 DEF ListAll, CloseOnce
  <2> QED
    BY <2>1, <2>2 DEF LookedFor
<1>6. CASE UNCHANGED vars
  BY <1>6 DEF vars, dbVars, negativeVars, CacheInv, DbTypeOK, LookedFor
<1> QED
  BY <1>1, <1>2, <1>3, <1>4, <1>5, <1>6 DEF Next

LEMMA LookupInductive == Spec => []LInv
  BY InitHolds, LookupStep, PTL DEF Spec

-----------------------------------------------------------------------------
(* No lookup says "not there" of what came in, nor "there" of what did not. *)
THEOREM CacheAnswersTruly == Spec => []AnswersAreTrue
<1>1. LInv => AnswersAreTrue
  BY DEF LInv
<1> QED
  BY <1>1, LookupInductive, PTL

(* A failure of the stream or of the server is never taken for a NOT_FOUND *)
(* later on.                                                               *)
THEOREM FailuresAreForgotten == Spec => []OnlyDenialsRemembered
<1>1. LInv => OnlyDenialsRemembered
  BY DEF LInv, CacheInv, OnlyDenialsRemembered
<1> QED
  BY <1>1, LookupInductive, PTL

(* What was answered once is answered from the caches ever after.          *)
THEOREM AnswersAreKept == Spec => SettledIsNotAskedAgain
<1>1. LInv /\ [Next]_vars => [Settled(answer') => UNCHANGED dbVars]_vars
  BY LookupStep
<1> QED
  BY <1>1, LookupInductive, PTL DEF Spec, SettledIsNotAskedAgain

(* What a lookup does, told in the terms of Directory: a request without a *)
(* denial to remember brings things in, or nothing.                        *)
LEMMA RequestBringsIn ==
    ASSUME CacheInv, NEW k \in Keys,
           FileResponse(k) \/ UNCHANGED <<cached, negativeVars>>
    PROVE  /\ \E ks \in SUBSET (Files \cup (Symbols \cup Extensions)) :
                  cached' = cached \cup ks
           /\ UNCHANGED <<missing_symbols, missing_extensions>>
<1>1. CASE FileResponse(k)
  <2>1. PICK fs \in SUBSET Needs(FileOf(k)) : AddFileFromResponse(fs)
    BY <1>1 DEF FileResponse
  <2>2. cached' \subseteq Keys /\ cached \subseteq cached'
    BY <2>1, NeedsAreFiles, FilesComeIn
  <2>3. cached' \in SUBSET (Files \cup (Symbols \cup Extensions))
        /\ cached' = cached \cup cached'
    BY <2>2 DEF Keys
  <2> QED
    BY <1>1, <2>3 DEF FileResponse, negativeVars
<1>2. CASE UNCHANGED <<cached, negativeVars>>
  <2>1. {} \in SUBSET (Files \cup (Symbols \cup Extensions))
        /\ cached' = cached \cup {}
    BY <1>2
  <2> QED
    BY <1>2, <2>1 DEF negativeVars
<1> QED
  BY <1>1, <1>2

(* Any of the three lookups, its answer and what it remembers of a denial. *)
LEMMA DirectoryLookup ==
    ASSUME CacheInv, NEW k \in Keys, NEW kind, NEW found \in BOOLEAN,
           kind \in {"file", "symbol", "extension"},
           answer' = [kind |-> kind, key |-> k, found |-> found],
           found <=> k \in cached',
           \/ /\ k \in cached \cup missing_symbols \cup missing_extensions
              /\ UNCHANGED dbVars
           \/ /\ k \notin cached \cup missing_symbols \cup missing_extensions
              /\ \/ FileResponse(k)
                 \/ UNCHANGED <<cached, negativeVars>>
                 \/ /\ k \notin Files
                    /\ UNCHANGED cached
                    /\ (missing_symbols \cup missing_extensions)'
                           = missing_symbols \cup missing_extensions \cup {k}
    PROVE  AsDirectory!Next
<1>1. k \in Files \cup (Symbols \cup Extensions)
  BY DEF Keys
<1>2. (IF LookedFor THEN <<answer.key, answer.found>> ELSE <<>>)'
          = <<k, k \in cached'>>
  BY DEF LookedFor
<1>3. CASE /\ k \in cached \cup missing_symbols \cup missing_extensions
           /\ UNCHANGED dbVars
  <2>1. UNCHANGED <<cached, missing_symbols \cup missing_extensions>>
    BY <1>3 DEF dbVars, negativeVars
  <2>2. (k \in cached') = AsDirectory!Found(k)
    BY <2>1, Zenon DEF AsDirectory!Found
  <2>3. AsDirectory!Found(k) \/ k \in missing_symbols \cup missing_extensions
    BY <1>3 DEF AsDirectory!Found
  <2>4. (IF LookedFor THEN <<answer.key, answer.found>> ELSE <<>>)'
            = <<k, AsDirectory!Found(k)>>
    BY <1>2, <2>2, Zenon
  <2>5. AsDirectory!Recall(k)
    BY <2>1, <2>3, <2>4 DEF AsDirectory!Recall
  <2> QED
    BY <1>1, <2>5 DEF AsDirectory!Next
<1>4. CASE /\ k \notin cached \cup missing_symbols \cup missing_extensions
           /\ FileResponse(k) \/ UNCHANGED <<cached, negativeVars>>
  <2>1. /\ \E ks \in SUBSET (Files \cup (Symbols \cup Extensions)) :
               cached' = cached \cup ks
        /\ UNCHANGED <<missing_symbols, missing_extensions>>
    BY <1>4, RequestBringsIn
  <2>2. AsDirectory!BringIn(k)
    BY <1>2, <1>4, <2>1 DEF AsDirectory!BringIn, AsDirectory!Found
  <2> QED
    BY <1>1, <2>2 DEF AsDirectory!Next
<1>5. CASE /\ k \notin cached \cup missing_symbols \cup missing_extensions
           /\ k \notin Files
           /\ UNCHANGED cached
           /\ (missing_symbols \cup missing_extensions)'
                  = missing_symbols \cup missing_extensions \cup {k}
  <2>1. (IF LookedFor THEN <<answer.key, answer.found>> ELSE <<>>)' = <<k, FALSE>>
    BY <1>2, <1>5
  <2>2. AsDirectory!GiveUp(k)
    BY <1>1, <1>5, <2>1 DEF AsDirectory!GiveUp, AsDirectory!Found
  <2> QED
    BY <1>1, <2>2 DEF AsDirectory!Next
<1> QED
  BY <1>3, <1>4, <1>5

LEMMA DirectoryStep ==
    LInv /\ [Next]_vars => [AsDirectory!Next]_(AsDirectory!directoryVars)
<1> SUFFICES ASSUME LInv, [Next]_vars
             PROVE  [AsDirectory!Next]_(AsDirectory!directoryVars)
  OBVIOUS
<1>0. CacheInv /\ missing_symbols \cap Extensions = {}
               /\ missing_extensions \cap Symbols = {}
  BY ReflectionDbAssumption DEF LInv, CacheInv, DbTypeOK
<1>1. ASSUME NEW f \in Files, LookupFile(f)
      PROVE  AsDirectory!Next
  <2>1. PICK found \in BOOLEAN :
            FindFileByName(f, found) /\ Answer("file", f, found)
    BY <1>1 DEF LookupFile
  <2>2. f \in Keys /\ (found <=> f \in cached')
    BY <1>0, <2>1, FileStep DEF Keys
  <2>3. f \notin missing_symbols \cup missing_extensions
    BY <1>0, ReflectionDbAssumption DEF CacheInv, DbTypeOK
  <2>4. \/ /\ f \in cached \cup missing_symbols \cup missing_extensions
           /\ UNCHANGED dbVars
        \/ /\ f \notin cached \cup missing_symbols \cup missing_extensions
           /\ \/ FileResponse(f)
              \/ UNCHANGED <<cached, negativeVars>>
              \/ /\ f \notin Files
                 /\ UNCHANGED cached
                 /\ (missing_symbols \cup missing_extensions)'
                        = missing_symbols \cup missing_extensions \cup {f}
    BY <1>0, <2>1, <2>3, ReflectionDbAssumption DEF FindFileByName, Recalled, NoAnswer,
       NotFound, CacheInv, DbTypeOK, negativeVars
  <2> QED
    BY <1>0, <2>1, <2>2, <2>4, DirectoryLookup DEF Answer
<1>2. ASSUME NEW s \in Symbols, LookupSymbol(s)
      PROVE  AsDirectory!Next
  <2>1. PICK found \in BOOLEAN :
            FindFileContainingSymbol(s, found) /\ Answer("symbol", s, found)
    BY <1>2 DEF LookupSymbol
  <2>2. s \in Keys /\ (found <=> s \in cached')
    BY <1>0, <2>1, SymbolStep DEF Keys
  <2>3. s \notin missing_extensions \cup Files
    BY <1>0, ReflectionDbAssumption DEF CacheInv, DbTypeOK
  <2>4. \/ /\ s \in cached \cup missing_symbols \cup missing_extensions
           /\ UNCHANGED dbVars
        \/ /\ s \notin cached \cup missing_symbols \cup missing_extensions
           /\ \/ FileResponse(s)
              \/ UNCHANGED <<cached, negativeVars>>
              \/ /\ s \notin Files
                 /\ UNCHANGED cached
                 /\ (missing_symbols \cup missing_extensions)'
                        = missing_symbols \cup missing_extensions \cup {s}
    BY <1>0, <2>1, <2>3, ReflectionDbAssumption DEF FindFileContainingSymbol, Recalled, NoAnswer,
       NotFound, CacheInv, DbTypeOK, negativeVars
  <2> QED
    BY <1>0, <2>1, <2>2, <2>4, DirectoryLookup DEF Answer
<1>3. ASSUME NEW e \in Extensions, LookupExtension(e)
      PROVE  AsDirectory!Next
  <2>1. PICK found \in BOOLEAN :
            FindFileContainingExtension(e, found) /\ Answer("extension", e, found)
    BY <1>3 DEF LookupExtension
  <2>2. e \in Keys /\ (found <=> e \in cached')
    BY <1>0, <2>1, ExtensionStep DEF Keys
  <2>3. e \notin missing_symbols \cup Files
    BY <1>0, ReflectionDbAssumption DEF CacheInv, DbTypeOK
  <2>4. \/ /\ e \in cached \cup missing_symbols \cup missing_extensions
           /\ UNCHANGED dbVars
        \/ /\ e \notin cached \cup missing_symbols \cup missing_extensions
           /\ \/ FileResponse(e)
              \/ UNCHANGED <<cached, negativeVars>>
              \/ /\ e \notin Files
                 /\ UNCHANGED cached
                 /\ (missing_symbols \cup missing_extensions)'
                        = missing_symbols \cup missing_extensions \cup {e}
    BY <1>0, <2>1, <2>3, ReflectionDbAssumption DEF FindFileContainingExtension, Recalled, NoAnswer,
       NotFound, CacheInv, DbTypeOK, negativeVars
  <2> QED
    BY <1>0, <2>1, <2>2, <2>4, DirectoryLookup DEF Answer
<1>4. CASE ListAll \/ CloseOnce \/ \E t \in Symbols : LookupNumbers(t)
  <2>1. UNCHANGED <<cached, missing_symbols, missing_extensions>>
    BY <1>4 DEF ListAll, CloseOnce, LookupNumbers, GetServices, CloseStream,
       FindAllExtensionNumbers, dbVars, negativeVars
  <2>2. ~LookedFor'
    BY <1>4 DEF ListAll, CloseOnce, LookupNumbers, Answer, NoLookup, LookedFor
  <2> QED
    BY <2>1, <2>2 DEF AsDirectory!Next, AsDirectory!Other
<1>5. CASE UNCHANGED vars
  BY <1>5 DEF vars, dbVars, negativeVars, LookedFor, AsDirectory!directoryVars
<1> QED
  BY <1>1, <1>2, <1>3, <1>4, <1>5 DEF Next

(* The database is a Directory: lookups in any order, against any server,  *)
(* tell the truth about what came in, lose nothing, and give up for good   *)
(* only what may be missed.                                                *)
THEOREM DatabaseIsDirectory == Spec => IsDirectory
<1>1. Init => AsDirectory!Init
  BY DEF Init, DbInit, NoLookup, LookedFor, AsDirectory!Init
<1> QED
  BY <1>1, DirectoryStep, LookupInductive, PTL
     DEF Spec, IsDirectory, AsDirectory!Spec

(* Every variable of LookupClient keeps its type (TypeOK).                 *)
THEOREM LookupTypeCorrect == Spec => []TypeOK
<1>1. LInv => TypeOK
  BY DEF LInv, CacheInv, TypeOK
<1> QED
  BY <1>1, LookupInductive, PTL

=============================================================================
