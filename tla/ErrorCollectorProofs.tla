------------------------ MODULE ErrorCollectorProofs ------------------------
(***************************************************************************)
(* Proofs about ErrorCollector, for any collectors, any number of messages *)
(* and any MAX_ERROR_SIZE, when the caller frees only collectors that      *)
(* share nothing.  IInv adds who may point to a message: the records of a  *)
(* live collector point to the heap, each to a string of its own, and no   *)
(* record points to an address that strdup has still to return.            *)
(***************************************************************************)
EXTENDS ErrorCollector, FiniteSetTheorems, TLAPS

Distinct(s) ==
    \A i, j \in 1..Len(s) : i # j => s[i].message # s[j].message

IInv ==
    /\ TypeOK
    /\ \A c \in Collectors :
          state[c] = "none" => errors[c] = <<>> /\ c \notin told_fatal
    /\ \A c \in Live : MessagesOf(c) \subseteq heap
    /\ \A c \in Collectors : Distinct(errors[c])
    /\ \A c \in Collectors : MessagesOf(c) \cap unused = {}
    /\ fault = "none"
    /\ FatalMissedOnlyWhenFull
    /\ LeaksOnlyDropped

-----------------------------------------------------------------------------
(* MessagesOf and HasFatal, by index.                                      *)
LEMMA ByIndex ==
    ASSUME TypeOK, NEW c \in Collectors
    PROVE  /\ MessagesOf(c) = {errors[c][i].message : i \in 1..Len(errors[c])}
           /\ HasFatal(c) <=> \E i \in 1..Len(errors[c]) :
                                  errors[c][i].level = "FATAL"
<1>1. errors[c] \in Seq(Record)
  BY DEF TypeOK
<1>2. DOMAIN errors[c] = 1..Len(errors[c])
  BY <1>1
<1>3. ToSet(errors[c]) = {errors[c][i] : i \in 1..Len(errors[c])}
  BY <1>2 DEF ToSet
<1> QED
  BY <1>3 DEF MessagesOf, HasFatal

(* Records with messages of their own have as many messages as there are   *)
(* records: error_collector_free frees none of them twice.                 *)
LEMMA DistinctCount ==
    ASSUME TypeOK, NEW c \in Collectors, Distinct(errors[c])
    PROVE  Cardinality(MessagesOf(c)) = Len(errors[c])
<1> DEFINE n == Len(errors[c])
           f == [i \in 1..n |-> errors[c][i].message]
<1>1. n \in Nat
  BY DEF TypeOK
<1>2. f \in [1..n -> MessagesOf(c)] /\ \A m \in MessagesOf(c) : \E i \in 1..n : f[i] = m
  BY ByIndex
<1>4. \A i, j \in 1..n : f[i] = f[j] => i = j
  BY DEF Distinct
<1>5. f \in Bijection(1..n, MessagesOf(c))
  BY <1>2, <1>4 DEF Bijection, Injection, Surjection, IsInjective
<1>3. ExistsBijection(1..n, MessagesOf(c))
  BY <1>5 DEF ExistsBijection
<1> QED
  BY <1>1, <1>3, FS_CountingElements

(* error_collector_add_error_ keeps the records and adds one if it can.    *)
LEMMA PushKeeps ==
    ASSUME NEW s \in Seq(Record), NEW e \in Record, Len(s) <= MaxErrors
    PROVE  /\ Push(s, e) \in Seq(Record)
           /\ Len(Push(s, e)) <= MaxErrors
           /\ \/ Push(s, e) = s /\ Len(s) = MaxErrors
              \/ /\ Push(s, e) # s
                 /\ Len(Push(s, e)) = Len(s) + 1
                 /\ \A i \in 1..Len(s) : Push(s, e)[i] = s[i]
                 /\ Push(s, e)[Len(s) + 1] = e
<1>1. CASE Len(s) + 1 > MaxErrors
  BY <1>1, ErrorCollectorAssumption DEF Push
<1>2. CASE ~(Len(s) + 1 > MaxErrors)
  <2>1. Push(s, e) = Append(s, e)
    BY <1>2 DEF Push
  <2>2. Len(Append(s, e)) = Len(s) + 1
    OBVIOUS
  <2> QED
    BY <1>2, <2>1, <2>2, ErrorCollectorAssumption
<1> QED
  BY <1>1, <1>2

-----------------------------------------------------------------------------
LEMMA InitHolds == Init => IInv
<1> SUFFICES ASSUME Init
             PROVE  IInv
  OBVIOUS
<1>1. TypeOK
  BY ErrorCollectorAssumption DEF Init, TypeOK
<1>2. Live = {}
  BY DEF Init, Live
<1>3. \A c \in Collectors : MessagesOf(c) = {} /\ Distinct(errors[c])
  BY <1>1, ByIndex DEF Init, Distinct
<1> QED
  BY <1>1, <1>2, <1>3 DEF Init, IInv, FatalMissedOnlyWhenFull, LeaksOnlyDropped

(* An operation that leaves the errors alone leaves alone what is read     *)
(* from them.                                                              *)
LEMMA SameErrors ==
    ASSUME errors' = errors
    PROVE  \A c \in Collectors :
              /\ MessagesOf(c)' = MessagesOf(c)
              /\ HasFatal(c)' = HasFatal(c)
              /\ Distinct(errors[c])' = Distinct(errors[c])
  BY DEF MessagesOf, HasFatal, Distinct

LEMMA CreateHolds ==
    ASSUME IInv, NEW c \in Collectors, Create(c)
    PROVE  IInv'
<1> USE DEF IInv
<1>1. errors' = errors /\ Live' = Live \cup {c} /\ c \notin Live
  BY DEF Create, Live, TypeOK
<1>2. TypeOK'
  BY DEF Create, TypeOK
<1>3. MessagesOf(c) = {} /\ c \notin told_fatal
  BY ByIndex DEF Create
<1>4. Held' = Held
  BY <1>1, <1>3, SameErrors DEF Held, Live
<1>5. \A d \in Collectors :
         state'[d] = "none" => state[d] = "none"
  BY DEF Create, TypeOK
<1>6. FatalMissedOnlyWhenFull'
  BY <1>1, <1>3, SameErrors DEF Create, FatalMissedOnlyWhenFull, Live
<1>7. LeaksOnlyDropped'
  BY <1>4 DEF Create, LeaksOnlyDropped
<1> QED
  BY <1>1, <1>2, <1>3, <1>5, <1>6, <1>7, SameErrors DEF Create, Live

(* What one more record does to its collector, and to nothing else.        *)
LEMMA AddKeeps ==
    ASSUME IInv, NEW c \in Collectors, NEW level \in Levels, NEW m \in unused,
           LET e == [message |-> m, level |-> level]
           IN  errors' = [errors EXCEPT ![c] = Push(errors[c], e)]
    PROVE  /\ errors' \in [Collectors -> Seq(Record)]
           /\ \A d \in Collectors : Len(errors[d])' <= MaxErrors
           /\ \A d \in Collectors : Distinct(errors[d])'
           /\ \A d \in Collectors \ {c} : errors'[d] = errors[d]
           /\ \/ errors' = errors /\ Len(errors[c]) = MaxErrors
              \/ /\ Len(errors[c]) < MaxErrors
                 /\ MessagesOf(c)' = MessagesOf(c) \cup {m}
                 /\ HasFatal(c)' <=> (HasFatal(c) \/ level = "FATAL")
<1> DEFINE e == [message |-> m, level |-> level]
           s == errors[c]
           p == Push(s, e)
<1>1. /\ m \in Messages
      /\ s \in Seq(Record)
      /\ Len(s) \in Nat
      /\ Len(s) <= MaxErrors
      /\ \A i \in 1..Len(s) : s[i].message # m
  BY ByIndex DEF IInv, TypeOK
<1>2. e \in Record /\ e.message = m /\ e.level = level
  BY <1>1 DEF Record
<1>3. /\ p \in Seq(Record)
      /\ Len(p) <= MaxErrors
      /\ \/ p = s /\ Len(s) = MaxErrors
         \/ /\ p # s
            /\ Len(p) = Len(s) + 1
            /\ \A i \in 1..Len(s) : p[i] = s[i]
            /\ p[Len(s) + 1] = e
  <2> HIDE DEF p, s, e
  <2> QED
    BY <1>1, <1>2, PushKeeps DEF p
<1>4. errors' = [errors EXCEPT ![c] = p]
  OBVIOUS
<1> HIDE DEF p, e
<1>5. errors'[c] = p /\ \A d \in Collectors \ {c} : errors'[d] = errors[d]
  BY <1>4 DEF IInv, TypeOK
<1>6. errors' \in [Collectors -> Seq(Record)]
  BY <1>3, <1>4 DEF IInv, TypeOK
<1>7. \A d \in Collectors : Len(errors[d])' <= MaxErrors
  BY <1>3, <1>5 DEF IInv, TypeOK
<1>8. Distinct(p)
  <2>1. \A i, j \in 1..Len(s) : i # j => s[i].message # s[j].message
    BY DEF IInv, Distinct
  <2>2. CASE p = s
    BY <2>1, <2>2 DEF Distinct
  <2>3. CASE p # s
    <3>1. 1..Len(p) = (1..Len(s)) \cup {Len(s) + 1}
      BY <1>1, <1>3, <2>3
    <3>2. \A i \in 1..Len(s) : p[i].message = s[i].message
      BY <1>3, <2>3
    <3>3. p[Len(s) + 1].message = m
      BY <1>2, <1>3, <2>3
    <3> HIDE DEF s
    <3> QED
      BY <1>1, <2>1, <3>1, <3>2, <3>3 DEF Distinct
  <2> QED
    BY <2>2, <2>3
<1>9. \A d \in Collectors : Distinct(errors[d])'
  BY <1>5, <1>8 DEF IInv, Distinct
<1>10. CASE p = s
  BY <1>3, <1>4, <1>5, <1>6, <1>7, <1>9, <1>10 DEF IInv, TypeOK
<1>11. CASE p # s
  <2>1. DOMAIN p = 1..(Len(s) + 1) /\ DOMAIN s = 1..Len(s)
    BY <1>1, <1>3, <1>11
  <2>2. MessagesOf(c)' = {p[i].message : i \in 1..(Len(s) + 1)}
    BY <1>5, <2>1 DEF MessagesOf, ToSet
  <2>3. MessagesOf(c) = {s[i].message : i \in 1..Len(s)}
    BY ByIndex DEF IInv
  <2>4. MessagesOf(c)' = MessagesOf(c) \cup {m}
    <3>1. 1..(Len(s) + 1) = (1..Len(s)) \cup {Len(s) + 1}
      BY <1>1
    <3>2. \A i \in 1..Len(s) : p[i].message = s[i].message
      BY <1>3, <1>11
    <3>3. p[Len(s) + 1].message = m
      BY <1>2, <1>3, <1>11
    <3> HIDE DEF s
    <3> QED
      BY <2>2, <2>3, <3>1, <3>2, <3>3
  <2>5. HasFatal(c)' <=> \E i \in 1..(Len(s) + 1) : p[i].level = "FATAL"
    BY <1>5, <2>1 DEF HasFatal, ToSet
  <2>6. HasFatal(c) <=> \E i \in 1..Len(s) : s[i].level = "FATAL"
    BY ByIndex DEF IInv
  <2>7. HasFatal(c)' <=> (HasFatal(c) \/ level = "FATAL")
    BY <1>1, <1>2, <1>3, <1>11, <2>5, <2>6
  <2>8. Len(s) < MaxErrors
    BY <1>1, <1>3, <1>11, ErrorCollectorAssumption
  <2> QED
    BY <1>5, <1>6, <1>7, <1>9, <2>4, <2>7, <2>8
<1> QED
  BY <1>10, <1>11

LEMMA AddHolds ==
    ASSUME IInv, NEW c \in Collectors, NEW level \in Levels, AddError(c, level)
    PROVE  IInv'
<1> USE DEF IInv
<1>1. PICK m \in unused :
         LET pushed == Push(errors[c], [message |-> m, level |-> level])
         IN  /\ errors' = [errors EXCEPT ![c] = pushed]
             /\ dropped' = IF pushed = errors[c] THEN dropped \cup {m}
                           ELSE dropped
             /\ heap' = heap \cup {m}
             /\ unused' = unused \ {m}
  BY DEF AddError
<1>2. /\ state' = state /\ fault' = fault /\ state[c] = "live"
      /\ told_fatal' = IF level = "FATAL" THEN told_fatal \cup {c}
                       ELSE told_fatal
  BY DEF AddError
<1>3. Live' = Live /\ c \in Live
  BY <1>2 DEF Live
<1>4. /\ errors' \in [Collectors -> Seq(Record)]
      /\ \A d \in Collectors : Len(errors[d])' <= MaxErrors
      /\ \A d \in Collectors : Distinct(errors[d])'
      /\ \A d \in Collectors \ {c} : errors'[d] = errors[d]
      /\ \/ errors' = errors /\ Len(errors[c]) = MaxErrors
         \/ /\ Len(errors[c]) < MaxErrors
            /\ MessagesOf(c)' = MessagesOf(c) \cup {m}
            /\ HasFatal(c)' <=> (HasFatal(c) \/ level = "FATAL")
  BY <1>1, AddKeeps
<1>5. \A d \in Collectors \ {c} :
         MessagesOf(d)' = MessagesOf(d) /\ HasFatal(d)' = HasFatal(d)
  BY <1>4 DEF MessagesOf, HasFatal
<1>6. m \in Messages /\ dropped' \subseteq dropped \cup {m}
                      /\ dropped \subseteq dropped'
  BY <1>1 DEF TypeOK
<1>7. TypeOK'
  BY <1>1, <1>2, <1>4, <1>6 DEF TypeOK
<1>8. CASE errors' = errors /\ Len(errors[c]) = MaxErrors
  <2>1. \A d \in Collectors : /\ MessagesOf(d)' = MessagesOf(d)
                              /\ HasFatal(d)' = HasFatal(d)
    BY <1>8, SameErrors
  <2>2. Push(errors[c], [message |-> m, level |-> level]) = errors[c]
    BY <1>1, <1>8 DEF TypeOK
  <2>3. dropped' = dropped \cup {m}
    BY <1>1, <2>2
  <2>4. Held' = Held
    BY <1>3, <2>1 DEF Held, Live
  <2>5. LeaksOnlyDropped'
    BY <1>1, <2>3, <2>4 DEF LeaksOnlyDropped
  <2>6. FatalMissedOnlyWhenFull'
    BY <1>2, <1>3, <1>8, <2>1 DEF FatalMissedOnlyWhenFull, Live
  <2> QED
    BY <1>1, <1>2, <1>3, <1>4, <1>7, <1>8, <2>1, <2>5, <2>6 DEF Live
<1>9. CASE /\ Len(errors[c]) < MaxErrors
           /\ MessagesOf(c)' = MessagesOf(c) \cup {m}
           /\ HasFatal(c)' <=> (HasFatal(c) \/ level = "FATAL")
  <2>1. Held' = Held \cup {m}
    BY <1>3, <1>5, <1>9 DEF Held, Live
  <2>2. LeaksOnlyDropped'
    BY <1>1, <1>6, <2>1 DEF LeaksOnlyDropped
  <2>3. FatalMissedOnlyWhenFull'
    BY <1>2, <1>3, <1>4, <1>5, <1>9 DEF FatalMissedOnlyWhenFull, Live
  <2>4. \A d \in Collectors : MessagesOf(d)' \cap unused' = {}
    BY <1>1, <1>5, <1>9
  <2>5. \A d \in Live' : MessagesOf(d)' \subseteq heap'
    BY <1>1, <1>3, <1>5, <1>9 DEF Live
  <2>6. \A d \in Collectors :
           state'[d] = "none" => errors'[d] = <<>> /\ d \notin told_fatal'
    BY <1>2, <1>4
  <2> QED
    BY <1>2, <1>4, <1>7, <2>2, <2>3, <2>4, <2>5, <2>6
<1> QED
  BY <1>4, <1>8, <1>9

LEMMA CopyHolds ==
    ASSUME IInv, NEW c \in Collectors, NEW d \in Collectors, Copy(c, d)
    PROVE  IInv'
<1> USE DEF IInv
<1>1. /\ state[c] = "live" /\ state[d] = "none" /\ c # d
      /\ state' = [state EXCEPT ![d] = "live"]
      /\ errors' = [errors EXCEPT ![d] = errors[c]]
      /\ told_fatal' = IF c \in told_fatal THEN told_fatal \cup {d}
                       ELSE told_fatal
      /\ UNCHANGED <<heap, unused, dropped, fault>>
  BY DEF Copy
<1>2. Live' = Live \cup {d} /\ c \in Live /\ d \notin Live
  BY <1>1 DEF Live, TypeOK
<1>3. /\ errors'[d] = errors[c]
      /\ \A x \in Collectors \ {d} : errors'[x] = errors[x]
  BY <1>1 DEF TypeOK
<1>4. TypeOK'
  BY <1>1, <1>3 DEF TypeOK
<1>5. MessagesOf(d)' = MessagesOf(c) /\ HasFatal(d)' = HasFatal(c)
  BY <1>3 DEF MessagesOf, HasFatal
<1>6. \A x \in Collectors \ {d} :
         MessagesOf(x)' = MessagesOf(x) /\ HasFatal(x)' = HasFatal(x)
  BY <1>3 DEF MessagesOf, HasFatal
<1>7. Held' = Held
  BY <1>2, <1>5, <1>6 DEF Held, Live
<1>8. \A x \in Collectors : Distinct(errors[x])'
  BY <1>3 DEF Distinct
<1>9. \A x \in Live' : MessagesOf(x)' \subseteq heap'
  BY <1>1, <1>2, <1>5, <1>6 DEF Live
<1>10. \A x \in Collectors : MessagesOf(x)' \cap unused' = {}
  BY <1>1, <1>5, <1>6
<1>11. \A x \in Collectors :
          state'[x] = "none" => errors'[x] = <<>> /\ x \notin told_fatal'
  BY <1>1, <1>3 DEF TypeOK
<1>12. FatalMissedOnlyWhenFull'
  BY <1>1, <1>2, <1>3, <1>5, <1>6 DEF FatalMissedOnlyWhenFull, Live
<1>13. LeaksOnlyDropped'
  BY <1>1, <1>7 DEF LeaksOnlyDropped
<1> QED
  BY <1>1, <1>4, <1>8, <1>9, <1>10, <1>11, <1>12, <1>13

(* The calling rule is used here: nobody else points to what is freed.     *)
LEMMA FreeHolds ==
    ASSUME IInv, ~FreesShared, NEW c \in Collectors, Free(c)
    PROVE  IInv'
<1> USE DEF IInv
<1>1. /\ c \in Live
      /\ \A d \in Live \ {c} : MessagesOf(c) \cap MessagesOf(d) = {}
      /\ state' = [state EXCEPT ![c] = "freed"]
      /\ heap' = heap \ MessagesOf(c)
      /\ UNCHANGED <<errors, unused, dropped, told_fatal>>
  BY DEF Free, Shares, Live
<1>2. fault' = fault
  <2>1. MessagesOf(c) \subseteq heap
    BY <1>1
  <2>2. Cardinality(MessagesOf(c)) = Len(errors[c])
    BY DistinctCount
  <2> QED
    BY <2>1, <2>2 DEF Free
<1>3. Live' = Live \ {c}
  BY <1>1 DEF Live, TypeOK
<1>4. TypeOK'
  BY <1>1, <1>2 DEF TypeOK
<1>5. \A d \in Collectors : /\ MessagesOf(d)' = MessagesOf(d)
                            /\ HasFatal(d)' = HasFatal(d)
                            /\ Distinct(errors[d])' = Distinct(errors[d])
  BY <1>1, SameErrors
<1>6. Held \ MessagesOf(c) \subseteq Held'
  BY <1>3, <1>5 DEF Held, Live
<1>7. LeaksOnlyDropped'
  BY <1>1, <1>6 DEF LeaksOnlyDropped
<1>8. FatalMissedOnlyWhenFull'
  BY <1>1, <1>3, <1>5 DEF FatalMissedOnlyWhenFull, Live
<1>9. \A d \in Live' : MessagesOf(d)' \subseteq heap'
  BY <1>1, <1>3, <1>5 DEF Live
<1>10. \A d \in Collectors :
          state'[d] = "none" => errors'[d] = <<>> /\ d \notin told_fatal'
  BY <1>1 DEF TypeOK
<1> QED
  BY <1>1, <1>2, <1>4, <1>5, <1>7, <1>8, <1>9, <1>10

LEMMA UnchangedHolds ==
    ASSUME IInv, UNCHANGED <<state, errors, heap, unused, dropped, told_fatal>>,
           fault' = fault
    PROVE  IInv'
<1>1. \A d \in Collectors : /\ MessagesOf(d)' = MessagesOf(d)
                            /\ HasFatal(d)' = HasFatal(d)
                            /\ Distinct(errors[d])' = Distinct(errors[d])
  BY SameErrors
<1>2. Live' = Live
  BY DEF Live
<1>3. Held' = Held
  BY <1>1, <1>2 DEF Held, Live
<1>4. FatalMissedOnlyWhenFull'
  BY <1>1, <1>2 DEF IInv, FatalMissedOnlyWhenFull, Live
<1> QED
  BY <1>1, <1>2, <1>3, <1>4 DEF IInv, TypeOK, LeaksOnlyDropped, Live

LEMMA StepHolds ==
    ASSUME IInv, ~FreesShared, [Next]_vars
    PROVE  IInv'
<1>1. ASSUME NEW c \in Collectors, PrintErrors(c)
      PROVE  IInv'
  <2>1. MessagesOf(c) \subseteq heap
    BY <1>1 DEF PrintErrors, IInv, Live
  <2> QED
    BY <1>1, <2>1, UnchangedHolds DEF PrintErrors
<1>2. CASE UNCHANGED vars
  BY <1>2, UnchangedHolds DEF vars
<1> QED
  BY <1>1, <1>2, CreateHolds, AddHolds, CopyHolds, FreeHolds DEF Next

-----------------------------------------------------------------------------
LEMMA Invariant == ASSUME ~FreesShared PROVE Spec => []IInv
<1>1. IInv /\ [Next]_vars => IInv'
  BY StepHolds
<1> QED
  BY InitHolds, <1>1, PTL DEF Spec

(* error_collector_free and the printing of errors never meet a message    *)
(* that is already freed, if collectors that share are not both freed.     *)
THEOREM MessagesAreSafe == ASSUME ~FreesShared PROVE Spec => []NoFault
<1>1. IInv => NoFault
  BY DEF IInv, NoFault
<1> QED
  BY Invariant, <1>1, PTL

(* error_collector_has_fatal_error misses a FATAL error only in a full     *)
(* collector.                                                              *)
THEOREM FatalIsSeen == ASSUME ~FreesShared PROVE Spec => []FatalMissedOnlyWhenFull
<1>1. IInv => FatalMissedOnlyWhenFull
  BY DEF IInv
<1> QED
  BY Invariant, <1>1, PTL

(* Nothing leaks but the messages that add_error_ turned away.             *)
THEOREM LittleLeaks == ASSUME ~FreesShared PROVE Spec => []LeaksOnlyDropped
<1>1. IInv => LeaksOnlyDropped
  BY DEF IInv
<1> QED
  BY Invariant, <1>1, PTL

(* What a collector reported stays, in its order.                          *)
THEOREM ReportsStay == ASSUME ~FreesShared PROVE Spec => ErrorsOnlyGrow
<1>1. ASSUME IInv, [Next]_vars
      PROVE  \A c \in Live : IsPrefix(errors[c], errors'[c])
  <2>1. SUFFICES ASSUME NEW c \in Live
                 PROVE  IsPrefix(errors[c], errors'[c])
    OBVIOUS
  <2>2. c \in Collectors /\ errors[c] \in Seq(Record) /\ state[c] = "live"
    BY <1>1 DEF IInv, TypeOK, Live
  <2>3. CASE errors'[c] = errors[c]
    BY <2>2, <2>3 DEF IsPrefix
  <2>4. ASSUME NEW level \in Levels, AddError(c, level)
        PROVE  IsPrefix(errors[c], errors'[c])
    <3>1. PICK e \in Record : errors'[c] = Push(errors[c], e)
      BY <1>1, <2>2, <2>4 DEF AddError, IInv, TypeOK, Record
    <3>2. CASE Push(errors[c], e) = errors[c]
      BY <2>3, <3>1, <3>2
    <3>3. CASE Push(errors[c], e) = Append(errors[c], e)
      BY <2>2, <3>1, <3>3 DEF IsPrefix
    <3> QED
      BY <3>2, <3>3 DEF Push
  <2>5. CASE ~\E level \in Levels : AddError(c, level)
    <3>1. ASSUME NEW d \in Collectors, NEW level \in Levels, d # c,
                 AddError(d, level)
          PROVE  errors'[c] = errors[c]
      BY <1>1, <2>2, <3>1 DEF AddError, IInv, TypeOK
    <3>2. ASSUME NEW d \in Collectors, NEW x \in Collectors, Copy(d, x)
          PROVE  errors'[c] = errors[c]
      BY <1>1, <2>2, <3>2 DEF Copy, IInv, TypeOK
    <3>3. errors'[c] = errors[c]
      BY <1>1, <2>5, <3>1, <3>2 DEF Next, vars, Create, Free, PrintErrors
    <3> QED
      BY <2>3, <3>3
  <2> QED
    BY <2>4, <2>5
<1>2. IInv /\ [Next]_vars => [\A c \in Live : IsPrefix(errors[c], errors'[c])]_vars
  BY <1>1
<1> QED
  BY Invariant, <1>2, PTL DEF Spec, ErrorsOnlyGrow

(* The state keeps its type.                                               *)
THEOREM TypeCorrect == ASSUME ~FreesShared PROVE Spec => []TypeOK
<1>1. IInv => TypeOK
  BY DEF IInv
<1> QED
  BY Invariant, <1>1, PTL

=============================================================================
