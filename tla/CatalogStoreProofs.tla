------------------------- MODULE CatalogStoreProofs -------------------------
(***************************************************************************)
(* CatalogStore for any handlers, any original file and any number of      *)
(* crashes: no saved edit is lost, no temporary file stays, and only a     *)
(* deletion makes an edit hit another item than it read.                   *)
(***************************************************************************)
EXTENDS CatalogStore, FiniteSetTheorems, SequenceTheorems, TLAPS

Inside == {"loaded", "writing", "written"}

\* Only the holder of the lock is in the locked section, its document is
\* the file or its change of it, and it alone may have a temporary file.
\* While the process is down nobody is there.
LockInv ==
    /\ DOMAIN at = Handlers /\ DOMAIN doc = Handlers
    /\ DOMAIN index = Handlers /\ DOMAIN existing = Handlers
    /\ \A h \in Handlers : at[h] \in Inside => lock = h
    /\ \A h \in Handlers : at[h] = "loaded" => doc[h] = file
    /\ \A h \in Handlers : at[h] = "writing" => doc[h] = Changed(h, file)
    /\ running => \A h \in temps : at[h] = "writing"
    /\ temps \subseteq Handlers
    /\ ~ running => \A h \in Handlers : at[h] \in {"idle", "lost"} \cup Answered

CatalogInv == LockInv /\ NoEditLost

\* At the start no handler is in the locked section.
LEMMA CatalogInit == Init => CatalogInv
BY DEF Init, CatalogInv, LockInv, NoEditLost, Inside

\* A step of one handler outside the locked section.
LEMMA OutsideStep ==
    ASSUME CatalogInv, running, NEW h \in Handlers, at[h] \notin Inside,
           NEW place \in {"form", "locking", "notFound", "invalid"}, Move(h, place),
           UNCHANGED <<file, temps, lock, doc, running, wanted>>,
           DOMAIN index' = Handlers, DOMAIN existing' = Handlers,
           \A g \in Handlers : g # h => index'[g] = index[g] /\ existing'[g] = existing[g]
    PROVE  CatalogInv'
<1>1. DOMAIN at' = Handlers /\ \A g \in Handlers : at'[g] = IF g = h THEN place ELSE at[g]
  BY DEF Move, CatalogInv, LockInv
<1>2. \A g \in Handlers : g # h => Changed(g, file)' = Changed(g, file)
  BY DEF Changed, NewVersion
<1>3. at'[h] \notin Inside /\ at[h] # "writing"
  BY <1>1 DEF Inside
<1>4. \A g \in Handlers : at'[g] = "writing" => g # h /\ at[g] = "writing"
  BY <1>1
<1>5. \A g \in temps : at'[g] = "writing"
  BY <1>1, <1>3 DEF CatalogInv, LockInv
<1>6. \A g \in Handlers : at'[g] = "writing" => doc[g] = Changed(g, file)'
  BY <1>2, <1>4 DEF CatalogInv, LockInv
<1> QED
  BY <1>1, <1>3, <1>5, <1>6 DEF CatalogInv, LockInv, NoEditLost, Inside

\* What the steps of the locked section keep of the other handlers.
LEMMA HolderIsAlone ==
    ASSUME CatalogInv, NEW h \in Handlers, at[h] \in Inside
    PROVE  /\ running /\ lock = h
           /\ \A g \in Handlers : g # h => at[g] \notin Inside
           /\ temps \subseteq {h}
<1>1. running
  BY DEF CatalogInv, LockInv, Inside, Answered
<1>2. \A g \in Handlers : g # h => at[g] \notin Inside
  BY DEF CatalogInv, LockInv
<1>3. \A g \in temps : at[g] \in Inside
  BY <1>1 DEF CatalogInv, LockInv, Inside
<1> QED
  BY <1>1, <1>2, <1>3 DEF CatalogInv, LockInv

\* A handler that takes the lock finds no temporary file, and reads the file
\* as it is.
LEMMA LoadStep ==
    ASSUME CatalogInv, NEW h \in Handlers, Load(h)
    PROVE  CatalogInv'
<1>1. \A g \in Handlers : at[g] \notin Inside
  BY CatalogAssumption DEF Load, LockIsFree, CatalogInv, LockInv
<1>2. running /\ temps = {}
  <2>1. running
    BY DEF Load, CatalogInv, LockInv, Answered
  <2>2. \A g \in temps : at[g] \in Inside /\ g \in Handlers
    BY <2>1 DEF CatalogInv, LockInv, Inside
  <2> QED
    BY <1>1, <2>1, <2>2
<1>3. /\ DOMAIN at' = Handlers /\ \A g \in Handlers : at'[g] = IF g = h THEN "loaded" ELSE at[g]
      /\ DOMAIN doc' = Handlers /\ doc'[h] = file
  BY DEF Load, Move, CatalogInv, LockInv
<1>4. \A g \in Handlers : at'[g] \in Inside => g = h /\ at'[g] # "writing"
  BY <1>1, <1>3
<1>5. lock' = h /\ UNCHANGED <<file, temps, running, wanted, index, existing>>
  BY DEF Load
<1> QED
  BY <1>2, <1>3, <1>4, <1>5 DEF CatalogInv, LockInv, NoEditLost, Inside

\* The document to be written is the change of the file as it still is.
LEMMA ChangeStep ==
    ASSUME CatalogInv, NEW h \in Handlers, Change(h)
    PROVE  CatalogInv'
<1>1. running /\ lock = h /\ temps \subseteq {h} /\ \A g \in Handlers : g # h => at[g] \notin Inside
  BY HolderIsAlone DEF Change, Inside
<1>2. /\ DOMAIN at' = Handlers /\ \A g \in Handlers : at'[g] = IF g = h THEN "writing" ELSE at[g]
      /\ DOMAIN doc' = Handlers /\ doc'[h] = Changed(h, file)
  BY DEF Change, Move, CatalogInv, LockInv
<1>3. Changed(h, file)' = Changed(h, file)
  BY DEF Change, Changed, NewVersion
<1>4. \A g \in Handlers : at'[g] \in Inside => g = h
  BY <1>1, <1>2
<1>5. \A g \in Handlers : at'[g] = "writing" => doc'[g] = Changed(g, file)'
  BY <1>2, <1>3, <1>4 DEF Inside
<1>6. temps' \subseteq {h} /\ UNCHANGED <<file, lock, running, wanted, index, existing>>
  BY <1>1 DEF Change
<1> QED
  BY <1>1, <1>2, <1>4, <1>5, <1>6 DEF CatalogInv, LockInv, NoEditLost, Inside

\* The lock is given back, or about to be: nobody writes.
LEMMA LeaveStep ==
    ASSUME CatalogInv, NEW h \in Handlers, at[h] \in Inside,
           NEW place \in {"written"} \cup Answered, Move(h, place),
           place = "written" => lock' = lock,
           temps' = temps \ {h}, UNCHANGED <<doc, running, index, existing>>, file' = wanted'
    PROVE  CatalogInv'
<1>1. running /\ lock = h /\ temps \subseteq {h} /\ \A g \in Handlers : g # h => at[g] \notin Inside
  BY HolderIsAlone
<1>2. DOMAIN at' = Handlers /\ \A g \in Handlers : at'[g] = IF g = h THEN place ELSE at[g]
  BY DEF Move, CatalogInv, LockInv
<1>3. \A g \in Handlers : at'[g] \in Inside => g = h /\ place = "written"
  BY <1>1, <1>2 DEF Inside, Answered
<1>4. \A g \in Handlers : at'[g] \notin {"loaded", "writing"}
  BY <1>2, <1>3 DEF Inside
<1>5. temps' = {}
  BY <1>1
<1> QED
  BY <1>1, <1>2, <1>3, <1>4, <1>5 DEF CatalogInv, LockInv, NoEditLost

\* No step breaks it: a handler outside the section touches neither file nor
\* temporaries, and a crash leaves the file as it was.
LEMMA CatalogNext == CatalogInv /\ [Next]_vars => CatalogInv'
<1> SUFFICES ASSUME CatalogInv, [Next]_vars PROVE CatalogInv'
  OBVIOUS
<1>1. ASSUME NEW h \in Handlers, Arrive(h) \/ ReadExisting(h) \/ TakeForm(h) PROVE CatalogInv'
  <2>1. at[h] \in {"idle", "form"} /\ at[h] \notin Inside /\ running
    BY <1>1 DEF Arrive, ReadExisting, TakeForm, Inside, CatalogInv, LockInv, Answered
  <2>2. DOMAIN index = Handlers /\ DOMAIN existing = Handlers
    BY DEF CatalogInv, LockInv
  <2>3. CASE Arrive(h)
    BY <2>1, <2>2, <2>3, OutsideStep DEF Arrive
  <2>4. CASE ReadExisting(h)
    <3>1. /\ DOMAIN index' = Handlers /\ DOMAIN existing' = Handlers
          /\ \A g \in Handlers : g # h => index'[g] = index[g] /\ existing'[g] = existing[g]
      BY <2>2, <2>4 DEF ReadExisting
    <3> QED
      BY <2>1, <2>4, <3>1, OutsideStep DEF ReadExisting
  <2>5. CASE TakeForm(h)
    BY <2>1, <2>2, <2>5, OutsideStep DEF TakeForm
  <2> QED
    BY <1>1, <2>3, <2>4, <2>5
<1>2. ASSUME NEW h \in Handlers, FindBadIndex(h) PROVE CatalogInv'
  <2>1. temps' = temps \ {h}
    BY <1>2 DEF FindBadIndex, CatalogInv, LockInv, Answered
  <2> QED
    BY <1>2, <2>1, LeaveStep DEF FindBadIndex, Inside, Answered, CatalogInv, NoEditLost
<1>3. ASSUME NEW h \in Handlers, Replace(h) PROVE CatalogInv'
  <2>1. file' = wanted'
    BY <1>3 DEF Replace, CatalogInv, LockInv, NoEditLost
  <2> QED
    BY <1>3, <2>1, LeaveStep DEF Replace, Inside, Answered
<1>4. ASSUME NEW h \in Handlers, FailWrite(h) PROVE CatalogInv'
  BY <1>4, LeaveStep DEF FailWrite, Inside, Answered, CatalogInv, NoEditLost
<1>5. ASSUME NEW h \in Handlers, Release(h) PROVE CatalogInv'
  <2>1. temps' = temps \ {h}
    BY <1>5 DEF Release, CatalogInv, LockInv, Answered
  <2> QED
    BY <1>5, <2>1, LeaveStep DEF Release, Inside, Answered, CatalogInv, NoEditLost
<1>6. CASE Crash
  BY <1>6 DEF Crash, CatalogInv, LockInv, NoEditLost, Inside, Answered
<1>7. CASE Start
  BY <1>7 DEF Start, CatalogInv, LockInv, NoEditLost, Inside, Answered, Changed, NewVersion
<1>8. CASE UNCHANGED vars
  BY <1>8 DEF vars, CatalogInv, LockInv, NoEditLost, Inside, Changed, NewVersion
<1> QED
  BY <1>1, <1>2, <1>3, <1>4, <1>5, <1>6, <1>7, <1>8, LoadStep, ChangeStep DEF Next, Handler

(* What is served is what the saved edits make of the original, each on    *)
(* top of the ones before it (_lock_for, _atomic_write).                   *)
THEOREM NoEditIsLost == Spec => []NoEditLost
<1>1. CatalogInv => NoEditLost
  BY DEF CatalogInv
<1> QED
  BY <1>1, CatalogInit, CatalogNext, PTL DEF Spec

(* While the service is up, a temporary file belongs to a handler that is  *)
(* writing it (_cleanup_stale_temp_files).                                 *)
THEOREM TempsAreWritten == Spec => []NoStaleTemps
<1>1. CatalogInv => NoStaleTemps
  BY DEF CatalogInv, LockInv, NoStaleTemps
<1> QED
  BY <1>1, CatalogInit, CatalogNext, PTL DEF Spec
-----------------------------------------------------------------------------
\* Handlers that have replaced the file, or may have before they died.
Gone == {"written", "saved", "lost"}
Past == {h \in Adders : at[h] \in Gone}

\* The file has grown by one item at most per addition.
LengthInv == Len(file) <= Len(Original) + Cardinality(Past)

\* What is written is a change at an index the file has.
WritingInv == \A h \in Handlers : (at[h] = "writing" /\ h \notin Adders) => HasIndex(file, index[h])

Reading == {"form", "locking", "loaded", "writing"}

\* The item an editor has read is still at its index, but for what forms
\* set, unless the editor was displaced.
ShiftInv ==
    \A h \in Editors : at[h] \in Reading /\ h \notin displaced =>
       HasIndex(file, index[h]) /\ file[index[h] + 1].rest = existing[h].rest

SpanInv == TypeOK /\ CatalogInv /\ LengthInv /\ WritingInv /\ ShiftInv

\* What a change makes of a document: its length, and that only a deletion
\* moves an item or loses what forms do not set.
LEMMA ChangeIsLocal ==
    ASSUME NEW items \in Seq(Item), NEW h \in Handlers, index[h] \in Nat, existing[h] \in Item,
           h \notin Adders => HasIndex(items, index[h])
    PROVE  /\ Changed(h, items) \in Seq(Item)
           /\ Len(Changed(h, items)) <= Len(items) + IF h \in Adders THEN 1 ELSE 0
           /\ h \in Adders => \A i \in 1..Len(items) : Changed(h, items)[i] = items[i]
           /\ h \notin Removers => Len(items) <= Len(Changed(h, items))
           /\ h \in Editors => \A i \in 1..Len(items) :
                 \/ Changed(h, items)[i] = items[i]
                 \/ i = index[h] + 1 /\ Changed(h, items)[i].rest = existing[h].rest
           /\ h \in Removers =>
                 /\ Len(Changed(h, items)) = Len(items) - 1
                 /\ \A i \in 1..index[h] : Changed(h, items)[i] = items[i]
<1>1. CASE h \in Adders
  <2>1. Changed(h, items) = Append(items, NewItem(h)) /\ h \notin Editors /\ h \notin Removers
    BY <1>1, CatalogAssumption DEF Changed
  <2>2. NewItem(h) \in Item
    BY DEF NewItem, Item, Names
  <2> QED
    BY <1>1, <2>1, <2>2
<1>2. CASE h \in Editors
  <2>1. /\ Changed(h, items) = [items EXCEPT ![index[h] + 1] = NewVersion(h)]
        /\ h \notin Adders /\ h \notin Removers
    BY <1>2, CatalogAssumption DEF Changed, ReplaceAt
  <2>2. NewVersion(h) \in Item /\ NewVersion(h).rest = existing[h].rest
    BY DEF NewVersion, Item, Names
  <2>3. index[h] + 1 \in 1..Len(items)
    BY <2>1 DEF HasIndex
  <2> QED
    BY <2>1, <2>2, <2>3
<1>3. CASE h \in Removers
  <2> DEFINE before == SubSeq(items, 1, index[h])
             after == SubSeq(items, index[h] + 2, Len(items))
  <2>1. /\ Changed(h, items) = RemoveAt(items, index[h] + 1)
        /\ h \notin Adders /\ h \notin Editors
    BY <1>3, CatalogAssumption DEF Changed
  <2>2. index[h] < Len(items) /\ Len(items) \in Nat
    BY <2>1 DEF HasIndex
  <2>3. (index[h] + 1) - 1 = index[h] /\ (index[h] + 1) + 1 = index[h] + 2
    OBVIOUS
  <2>4. Changed(h, items) = before \o after
    <3>1. RemoveAt(items, index[h] + 1) =
            SubSeq(items, 1, (index[h] + 1) - 1) \o SubSeq(items, (index[h] + 1) + 1, Len(items))
      BY DEF RemoveAt
    <3> QED
      BY <2>1, <2>3, <3>1
  <2>5. before \in Seq(Item) /\ Len(before) = index[h]
    <3>1. \A i \in 1..index[h] : items[i] \in Item
      BY <2>2
    <3>2. /\ SubSeq(items, 1, index[h]) \in Seq(Item)
          /\ Len(SubSeq(items, 1, index[h])) = IF 1 <= index[h] THEN index[h] - 1 + 1 ELSE 0
      BY <3>1, SubSeqProperties
    <3> QED
      BY <3>2
  <2>6. after \in Seq(Item) /\ Len(after) = Len(items) - index[h] - 1
    <3>1. \A i \in index[h] + 2..Len(items) : items[i] \in Item
      BY <2>2
    <3>2. index[h] + 2 \in Int /\ Len(items) \in Int
      BY <2>2
    <3>3. /\ SubSeq(items, index[h] + 2, Len(items)) \in Seq(Item)
          /\ Len(SubSeq(items, index[h] + 2, Len(items))) =
               IF index[h] + 2 <= Len(items) THEN Len(items) - (index[h] + 2) + 1 ELSE 0
      BY <3>1, <3>2, SubSeqProperties
    <3> QED
      BY <2>2, <3>3
  <2>7. \A i \in 1..index[h] : before[i] = items[i]
    <3>1. \A i \in 1..index[h] : items[i] \in Item
      BY <2>2
    <3> QED
      BY <2>2, <3>1, SubSeqProperties
  <2> HIDE DEF before, after
  <2>8. Changed(h, items) \in Seq(Item) /\ Len(Changed(h, items)) = Len(items) - 1
    BY <2>2, <2>4, <2>5, <2>6
  <2>9. \A i \in 1..index[h] : Changed(h, items)[i] = items[i]
    BY <2>4, <2>5, <2>6, <2>7
  <2> QED
    BY <1>3, <2>1, <2>2, <2>8, <2>9
<1> QED
  BY <1>1, <1>2, <1>3 DEF Handlers

\* How many have added to the file, and that there is room for one more.
LEMMA RoomForAddition ==
    ASSUME SpanInv
    PROVE  /\ IsFiniteSet(Past) /\ Cardinality(Past) \in Nat /\ Cardinality(Past) <= Cardinality(Adders)
           /\ Cardinality(Adders) \in Nat /\ MaxLen = Len(Original) + Cardinality(Adders)
           /\ Len(Original) \in Nat /\ Len(file) \in Nat
           /\ \A h \in Adders : at[h] \notin Gone =>
                 /\ Cardinality(Past \cup {h}) = Cardinality(Past) + 1
                 /\ Cardinality(Past) + 1 <= Cardinality(Adders)
<1>1. IsFiniteSet(Adders) /\ Cardinality(Adders) \in Nat
  <2>1. Adders \in SUBSET Handlers
    BY DEF Handlers
  <2> QED
    BY <2>1, CatalogAssumption, FS_Subset, FS_CardinalityType
<1>2. \A S \in SUBSET Adders : IsFiniteSet(S) /\ Cardinality(S) \in Nat /\ Cardinality(S) <= Cardinality(Adders)
  BY <1>1, FS_Subset, FS_CardinalityType
<1>3. Past \in SUBSET Adders
  BY DEF Past
<1>4. \A h \in Adders : at[h] \notin Gone =>
         /\ Cardinality(Past \cup {h}) = Cardinality(Past) + 1
         /\ Cardinality(Past) + 1 <= Cardinality(Adders)
  <2> SUFFICES ASSUME NEW h \in Adders, at[h] \notin Gone
               PROVE  /\ Cardinality(Past \cup {h}) = Cardinality(Past) + 1
                      /\ Cardinality(Past) + 1 <= Cardinality(Adders)
    OBVIOUS
  <2>1. h \notin Past /\ Past \cup {h} \in SUBSET Adders
    BY <1>3 DEF Past
  <2>2. Cardinality(Past \cup {h}) = Cardinality(Past) + 1
    BY <1>2, <1>3, <2>1, FS_AddElement
  <2> QED
    BY <1>2, <2>1, <2>2
<1>5. file \in Seq(Item) /\ Original \in Seq(Names)
  BY CatalogAssumption DEF SpanInv, TypeOK
<1> QED
  BY <1>1, <1>2, <1>3, <1>4, <1>5 DEF MaxLen

\* A step that leaves the file alone.
LEMMA FileKept ==
    ASSUME SpanInv, file' = file,
           \A g \in Handlers : at[g] \in Gone => at'[g] \in Gone,
           \A g \in Handlers : (at'[g] = "writing" /\ g \notin Adders) =>
              index'[g] = index[g] /\ (at[g] = "writing" \/ HasIndex(file, index[g])),
           \A g \in Editors : at'[g] \in Reading =>
              \/ /\ at[g] \in Reading /\ index'[g] = index[g] /\ existing'[g] = existing[g]
                 /\ g \in displaced => g \in displaced'
              \/ HasIndex(file, index'[g]) /\ existing'[g] = file[index'[g] + 1]
    PROVE  LengthInv' /\ WritingInv' /\ ShiftInv'
<1>1. LengthInv'
  <2>1. Past \subseteq Past' /\ Past' \subseteq Adders
    BY DEF Past, Handlers
  <2>2. IsFiniteSet(Adders)
    BY CatalogAssumption, FS_Subset DEF Handlers
  <2>3. IsFiniteSet(Past')
    BY <2>1, <2>2, FS_Subset
  <2>4. Cardinality(Past) <= Cardinality(Past') /\ Cardinality(Past') \in Nat
    BY <2>1, <2>3, FS_Subset, FS_CardinalityType
  <2> QED
    BY <2>4, RoomForAddition DEF SpanInv, LengthInv
<1>2. WritingInv'
  BY DEF SpanInv, WritingInv
<1>3. ShiftInv'
  <2> SUFFICES ASSUME NEW h \in Editors, at'[h] \in Reading, h \notin displaced'
               PROVE  HasIndex(file, index'[h]) /\ file[index'[h] + 1].rest = existing'[h].rest
    BY DEF ShiftInv
  <2> QED
    BY DEF SpanInv, ShiftInv
<1> QED
  BY <1>1, <1>2, <1>3

\* A handler that reads its path and its item, or takes the form.
LEMMA ArriveSpan ==
    ASSUME SpanInv, NEW h \in Handlers, Arrive(h) \/ ReadExisting(h) \/ TakeForm(h)
    PROVE  TypeOK' /\ LengthInv' /\ WritingInv' /\ ShiftInv'
<1>1. /\ at[h] \in {"idle", "form"} /\ file' = file
      /\ UNCHANGED <<temps, lock, doc, running, crashes, wanted>>
      /\ \E place \in {"form", "locking", "notFound", "invalid"} : at' = [at EXCEPT ![h] = place]
  BY DEF Arrive, ReadExisting, TakeForm, Move
<1>2. /\ at \in [Handlers -> Places] /\ index \in [Handlers -> 0..MaxLen]
      /\ existing \in [Handlers -> Item] /\ file \in Seq(Item)
  BY DEF SpanInv, TypeOK
<1>3. at' \in [Handlers -> Places] /\ index' \in [Handlers -> 0..MaxLen]
  BY <1>1, <1>2 DEF Places, Answered, Arrive, ReadExisting, TakeForm
<1>4. existing' \in [Handlers -> Item]
  <2>1. CASE ReadExisting(h)
    <3>1. PICK i \in 0..MaxLen :
             IF HasIndex(file, i) THEN existing' = [existing EXCEPT ![h] = file[i + 1]] ELSE UNCHANGED existing
      BY <2>1 DEF ReadExisting
    <3>2. i \in Nat
      BY RoomForAddition
    <3>3. HasIndex(file, i) => file[i + 1] \in Item
      BY <1>2, <3>2 DEF HasIndex
    <3> QED
      BY <1>2, <3>1, <3>3
  <2> QED
    BY <1>2, <2>1 DEF Arrive, TakeForm
<1>5. TypeOK'
  <2>1. displaced' \subseteq Editors
    BY DEF Arrive, ReadExisting, TakeForm, SpanInv, TypeOK
  <2> QED
    BY <1>1, <1>3, <1>4, <2>1 DEF SpanInv, TypeOK
<1>6. \A g \in Handlers : g # h => at'[g] = at[g] /\ index'[g] = index[g] /\ existing'[g] = existing[g]
  BY <1>1, <1>2 DEF Arrive, ReadExisting, TakeForm
<1>7. \A g \in Handlers : g \in displaced /\ (g # h \/ ~ ReadExisting(h)) => g \in displaced'
  BY DEF Arrive, ReadExisting, TakeForm
<1>8. at[h] \notin Gone /\ at'[h] # "writing"
  BY <1>1, <1>2 DEF Gone
<1>9. (h \in Editors /\ at'[h] \in Reading) =>
         \/ /\ at[h] \in Reading /\ index'[h] = index[h] /\ existing'[h] = existing[h]
            /\ h \in displaced => h \in displaced'
         \/ HasIndex(file, index'[h]) /\ existing'[h] = file[index'[h] + 1]
  <2> SUFFICES ASSUME h \in Editors, at'[h] \in Reading
               PROVE  \/ /\ at[h] \in Reading /\ index'[h] = index[h] /\ existing'[h] = existing[h]
                         /\ h \in displaced => h \in displaced'
                      \/ HasIndex(file, index'[h]) /\ existing'[h] = file[index'[h] + 1]
    OBVIOUS
  <2>1. CASE ReadExisting(h)
    BY <1>2, <2>1 DEF ReadExisting, Move, Reading
  <2>2. CASE TakeForm(h)
    BY <2>2 DEF TakeForm, Reading
  <2> QED
    BY <2>1, <2>2, CatalogAssumption DEF Arrive
<1>10. \A g \in Editors : at'[g] \in Reading =>
         \/ /\ at[g] \in Reading /\ index'[g] = index[g] /\ existing'[g] = existing[g]
            /\ g \in displaced => g \in displaced'
         \/ HasIndex(file, index'[g]) /\ existing'[g] = file[index'[g] + 1]
  BY <1>6, <1>9, <1>7 DEF Handlers
<1>11. /\ \A g \in Handlers : at[g] \in Gone => at'[g] \in Gone
       /\ \A g \in Handlers : (at'[g] = "writing" /\ g \notin Adders) =>
             index'[g] = index[g] /\ (at[g] = "writing" \/ HasIndex(file, index[g]))
  BY <1>6, <1>8
<1> QED
  BY <1>1, <1>5, <1>10, <1>11, FileKept

\* The steps in the locked section that leave the file alone: the item read
\* stays the one at the index.
LEMMA LockedSpan ==
    ASSUME SpanInv, NEW h \in Handlers,
           Load(h) \/ Change(h) \/ FindBadIndex(h) \/ FailWrite(h) \/ Release(h)
    PROVE  TypeOK' /\ LengthInv' /\ WritingInv' /\ ShiftInv'
<1>1. /\ UNCHANGED <<file, index, existing, running, crashes, wanted, displaced>>
      /\ at[h] \in {"locking", "loaded", "writing", "written"}
      /\ \E place \in {"loaded", "writing", "notFound", "error", "saved"} : at' = [at EXCEPT ![h] = place]
  BY DEF Load, Change, FindBadIndex, FailWrite, Release, Move
<1>2. at \in [Handlers -> Places] /\ file \in Seq(Item) /\ index[h] \in Nat /\ existing[h] \in Item
  <2>1. index[h] \in 0..MaxLen /\ MaxLen \in Nat
    BY RoomForAddition DEF SpanInv, TypeOK
  <2> QED
    BY <2>1 DEF SpanInv, TypeOK
<1>3. at' \in [Handlers -> Places]
  BY <1>1, <1>2 DEF Places, Answered
<1>4. lock' \in Handlers \cup {Nobody} /\ temps' \subseteq Handlers
  BY DEF Load, Change, FindBadIndex, FailWrite, Release, SpanInv, TypeOK
<1>5. at[h] = "loaded" => doc[h] = file
  BY DEF SpanInv, CatalogInv, LockInv
<1>6. \A g \in Handlers : doc'[g] \in Seq(Item) /\ Len(doc'[g]) <= MaxLen
  <2>1. \A g \in Handlers : doc[g] \in Seq(Item) /\ Len(doc[g]) <= MaxLen
    BY DEF SpanInv, TypeOK
  <2>2. file \in Seq(Item) /\ Len(file) <= MaxLen
    BY DEF SpanInv, TypeOK
  <2>3. CASE Change(h)
    <3>1. /\ doc[h] = file /\ at[h] \notin Gone
          /\ h \notin Adders => HasIndex(file, index[h])
      BY <1>5, <2>3 DEF Change, Gone
    <3>2. /\ Changed(h, file) \in Seq(Item)
          /\ Len(Changed(h, file)) <= Len(file) + IF h \in Adders THEN 1 ELSE 0
      BY <1>2, <3>1, ChangeIsLocal
    <3>3. Len(Changed(h, file)) <= MaxLen
      <4>1. Len(Changed(h, file)) \in Nat /\ Len(file) \in Nat
        BY <2>2, <3>2
      <4>2. CASE h \in Adders
        <5>1. Len(file) <= Len(Original) + Cardinality(Past)
          BY DEF SpanInv, LengthInv
        <5>2. Len(Changed(h, file)) <= Len(file) + 1
          BY <3>2, <4>2
        <5>3. Cardinality(Past) + 1 <= Cardinality(Adders)
          BY <3>1, <4>2, RoomForAddition
        <5>4. /\ Cardinality(Past) \in Nat /\ Cardinality(Adders) \in Nat /\ Len(Original) \in Nat
              /\ MaxLen = Len(Original) + Cardinality(Adders)
          BY RoomForAddition
        <5> QED
          BY <4>1, <5>1, <5>2, <5>3, <5>4
      <4>3. CASE h \notin Adders
        BY <2>2, <3>2, <4>1, <4>3, RoomForAddition
      <4> QED
        BY <4>2, <4>3
    <3>4. \A g \in Handlers : doc'[g] = IF g = h THEN Changed(h, file) ELSE doc[g]
      BY <2>3, <3>1 DEF Change, SpanInv, CatalogInv, LockInv
    <3> QED
      BY <2>1, <3>2, <3>3, <3>4
  <2>4. CASE Load(h)
    <3>1. \A g \in Handlers : doc'[g] = IF g = h THEN file ELSE doc[g]
      BY <2>4 DEF Load, SpanInv, CatalogInv, LockInv
    <3> QED
      BY <2>1, <2>2, <3>1
  <2>5. CASE FindBadIndex(h) \/ FailWrite(h) \/ Release(h)
    BY <2>1, <2>5 DEF FindBadIndex, FailWrite, Release
  <2> QED
    BY <2>3, <2>4, <2>5
<1>7. TypeOK'
  BY <1>1, <1>3, <1>4, <1>6 DEF SpanInv, TypeOK
<1>8. \A g \in Handlers : g # h => at'[g] = at[g]
  BY <1>1, <1>2
<1>9. at[h] \in Gone => at'[h] \in Gone
  BY <1>1, <1>2 DEF Load, Change, FindBadIndex, FailWrite, Release, Gone, Move
<1>10. (at'[h] = "writing" /\ h \notin Adders) => HasIndex(file, index[h])
  BY <1>2, <1>5 DEF Load, Change, FindBadIndex, FailWrite, Release, Move
<1>11. at'[h] \in Reading => at[h] \in Reading
  BY <1>2 DEF Load, Change, FindBadIndex, FailWrite, Release, Move, Reading
<1>12. /\ \A g \in Handlers : at[g] \in Gone => at'[g] \in Gone
       /\ \A g \in Handlers : (at'[g] = "writing" /\ g \notin Adders) =>
             index'[g] = index[g] /\ (at[g] = "writing" \/ HasIndex(file, index[g]))
       /\ \A g \in Editors : at'[g] \in Reading =>
             at[g] \in Reading /\ index'[g] = index[g] /\ existing'[g] = existing[g]
  BY <1>1, <1>8, <1>9, <1>10, <1>11 DEF Handlers
<1> QED
  BY <1>1, <1>7, <1>12, FileKept

\* A document that becomes the file: an addition makes it one longer, an edit
\* keeps what forms do not set, a deletion is one.
LEMMA ReplaceSpan ==
    ASSUME SpanInv, NEW h \in Handlers, Replace(h)
    PROVE  TypeOK' /\ LengthInv' /\ WritingInv' /\ ShiftInv'
<1>1. /\ at[h] = "writing" /\ file' = doc[h] /\ doc[h] = Changed(h, file)
      /\ UNCHANGED <<lock, index, existing, doc, running, crashes>>
      /\ at' = [at EXCEPT ![h] = "written"] /\ wanted' = Changed(h, wanted) /\ wanted = file
      /\ displaced' = displaced \cup {e \in Editors : Displaces(h, e)}
  BY DEF Replace, Move, SpanInv, CatalogInv, LockInv, NoEditLost
<1>2. /\ at \in [Handlers -> Places] /\ file \in Seq(Item) /\ Len(file) \in Nat
      /\ \A g \in Handlers : index[g] \in Nat /\ existing[g] \in Item
  <2>1. \A g \in Handlers : index[g] \in 0..MaxLen /\ MaxLen \in Nat
    BY RoomForAddition DEF SpanInv, TypeOK
  <2> QED
    BY <2>1 DEF SpanInv, TypeOK
<1>3. \A g \in Handlers : at'[g] = IF g = h THEN "written" ELSE at[g]
  BY <1>1, <1>2
<1>4. file' \in Seq(Item) /\ Len(file') <= MaxLen /\ wanted' = file'
  BY <1>1 DEF SpanInv, TypeOK
<1>5. TypeOK'
  <2>1. at' \in [Handlers -> Places] /\ temps' \subseteq Handlers
    BY <1>1, <1>2 DEF Places, Replace, SpanInv, TypeOK
  <2> QED
    BY <1>1, <1>4, <2>1 DEF SpanInv, TypeOK
<1>6. h \notin Adders => HasIndex(file, index[h])
  BY <1>1 DEF SpanInv, WritingInv
<1>7. /\ Len(file') <= Len(file) + IF h \in Adders THEN 1 ELSE 0
      /\ h \in Adders => \A i \in 1..Len(file) : file'[i] = file[i]
      /\ h \notin Removers => Len(file) <= Len(file')
      /\ h \in Editors => \A i \in 1..Len(file) :
            \/ file'[i] = file[i]
            \/ i = index[h] + 1 /\ file'[i].rest = existing[h].rest
  BY <1>1, <1>2, <1>6, ChangeIsLocal
<1>8. h \in Removers => Len(file') = Len(file) - 1 /\ \A i \in 1..index[h] : file'[i] = file[i]
  <2>1. h \in Removers =>
           Len(Changed(h, file)) = Len(file) - 1 /\ \A i \in 1..index[h] : Changed(h, file)[i] = file[i]
    BY <1>2, <1>6, ChangeIsLocal
  <2>2. file' = Changed(h, file)
    BY <1>1
  <2> HIDE DEF Changed
  <2> QED
    BY <2>1, <2>2
<1>9. LengthInv'
  <2>1. at[h] \notin Gone
    BY <1>1 DEF Gone
  <2>2. CASE h \in Adders
    <3>1. Past' = Past \cup {h}
      BY <1>3, <2>2 DEF Past, Gone, Handlers
    <3>2. Cardinality(Past') = Cardinality(Past) + 1
      BY <2>1, <2>2, <3>1, RoomForAddition
    <3> QED
      BY <1>2, <1>4, <1>7, <2>2, <3>2, RoomForAddition DEF SpanInv, LengthInv
  <2>3. CASE h \notin Adders
    <3>1. Past' = Past
      BY <1>3, <2>3 DEF Past, Handlers
    <3> QED
      BY <1>2, <1>4, <1>7, <2>3, <3>1, RoomForAddition DEF SpanInv, LengthInv
  <2> QED
    BY <2>2, <2>3
<1>10. \A g \in Handlers : at'[g] # "writing"
  <2>1. \A g \in Handlers : g # h => at[g] # "writing"
    BY <1>1 DEF SpanInv, CatalogInv, LockInv, Inside
  <2> QED
    BY <1>3, <2>1
<1>11. WritingInv'
  BY <1>10 DEF WritingInv
<1>12. ShiftInv'
  <2> SUFFICES ASSUME NEW g \in Editors, at'[g] \in Reading, g \notin displaced'
               PROVE  HasIndex(file', index'[g]) /\ file'[index'[g] + 1].rest = existing'[g].rest
    BY DEF ShiftInv
  <2>1. g \notin displaced /\ ~ Displaces(h, g)
    BY <1>1
  <2>2. h \in Removers => index[g] < index[h]
    BY <1>2, <2>1 DEF Displaces, Handlers
  <2>3. g \in Handlers /\ g # h /\ at[g] \in Reading
    BY <1>3 DEF Handlers, Reading
  <2>4. HasIndex(file, index[g]) /\ file[index[g] + 1].rest = existing[g].rest
    BY <2>1, <2>3 DEF SpanInv, ShiftInv
  <2>5. index[g] + 1 \in 1..Len(file) /\ index[g] \in Nat
    BY <1>2, <2>3, <2>4 DEF HasIndex
  <2>6. HasIndex(file', index[g])
    <3>1. Len(file') \in Nat
      BY <1>4
    <3>2. CASE h \in Removers
      <4>1. index[h] \in Nat /\ index[h] < Len(file)
        BY <1>2, <1>6, <3>2, CatalogAssumption DEF HasIndex
      <4> QED
        BY <1>2, <1>8, <2>2, <2>5, <3>2, <4>1 DEF HasIndex
    <3>3. CASE h \notin Removers
      BY <1>2, <1>7, <2>4, <2>5, <3>1, <3>3 DEF HasIndex
    <3> QED
      BY <3>2, <3>3
  <2>7. file'[index[g] + 1].rest = file[index[g] + 1].rest
    <3>1. CASE h \in Adders
      BY <1>7, <2>5, <3>1
    <3>2. CASE h \in Editors /\ h \in displaced
      <4>1. index[h] # index[g] /\ index[h] \in Nat
        BY <1>2, <2>1, <3>2 DEF Displaces
      <4>2. index[g] + 1 # index[h] + 1
        BY <2>5, <4>1
      <4> QED
        BY <1>7, <2>5, <3>2, <4>2
    <3>3. CASE h \in Editors /\ h \notin displaced
      <4>1. file[index[h] + 1].rest = existing[h].rest
        BY <1>1, <3>3 DEF SpanInv, ShiftInv, Reading
      <4> QED
        BY <1>7, <2>5, <3>3, <4>1
    <3>4. CASE h \in Removers
      <4>1. index[g] + 1 \in 1..index[h]
        BY <1>2, <2>2, <2>5, <3>4
      <4> QED
        BY <1>8, <3>4, <4>1
    <3> QED
      BY <3>1, <3>2, <3>3, <3>4 DEF Handlers
  <2> QED
    BY <1>1, <2>4, <2>6, <2>7
<1> QED
  BY <1>5, <1>9, <1>11, <1>12

\* A crash and a start leave the file alone, and whoever may have changed it
\* is lost.
LEMMA CrashSpan ==
    ASSUME SpanInv, Crash \/ Start \/ UNCHANGED vars
    PROVE  TypeOK' /\ LengthInv' /\ WritingInv' /\ ShiftInv'
<1>1. UNCHANGED <<file, index, existing, doc, wanted, displaced>>
  BY DEF Crash, Start, vars
<1>2. \A g \in Handlers : at'[g] = at[g] \/ at'[g] = "lost"
  BY DEF Crash, Start, vars
<1>3. at' \in [Handlers -> Places] /\ crashes' \in 0..MaxCrashes
  <2>1. CASE Crash
    BY <2>1, CatalogAssumption DEF Crash, Places, SpanInv, TypeOK
  <2> QED
    BY <2>1 DEF Start, vars, SpanInv, TypeOK
<1>4. lock' \in Handlers \cup {Nobody} /\ temps' \subseteq Handlers /\ running' \in BOOLEAN
  BY DEF Crash, Start, vars, SpanInv, TypeOK
<1>5. TypeOK'
  BY <1>1, <1>3, <1>4 DEF SpanInv, TypeOK
<1>6. /\ \A g \in Handlers : at[g] \in Gone => at'[g] \in Gone
      /\ \A g \in Handlers : at'[g] = "writing" => at[g] = "writing"
      /\ \A g \in Editors : at'[g] \in Reading => at[g] \in Reading
  BY <1>2 DEF Gone, Reading, Handlers
<1> QED
  BY <1>1, <1>5, <1>6, FileKept

\* At the start the file is the original and nobody has read it.
LEMMA SpanInit == Init => SpanInv
<1> SUFFICES ASSUME Init PROVE SpanInv
  OBVIOUS
<1>1. file \in Seq(Item) /\ Len(file) = Len(Original)
  <2>1. Original \in Seq(Names) /\ DOMAIN Original = 1..Len(Original) /\ Len(Original) \in Nat
    BY CatalogAssumption
  <2>2. \A n \in Names : NewItem(n) \in Item
    BY DEF NewItem, Item
  <2>3. file = [i \in 1..Len(Original) |-> NewItem(Original[i])]
    BY <2>1 DEF Init
  <2> QED
    BY <2>1, <2>2, <2>3
<1>2. Cardinality(Adders) \in Nat /\ Len(Original) \in Nat
  BY CatalogAssumption, FS_Subset, FS_CardinalityType DEF Handlers
<1>3. MaxLen \in Nat /\ Len(Original) <= MaxLen
  BY <1>2 DEF MaxLen
<1>4. existing \in [Handlers -> Item]
  <2>1. \A h \in Handlers : Blank \in Item
    BY DEF Blank, NewItem, Item, Names
  <2> QED
    BY <2>1 DEF Init
<1>5. \A h \in Handlers : doc[h] \in Seq(Item) /\ Len(doc[h]) <= MaxLen
  BY <1>3 DEF Init
<1>6. TypeOK
  BY <1>1, <1>3, <1>4, <1>5, CatalogAssumption DEF Init, TypeOK, Places
<1>7. LengthInv
  <2>1. Past = {}
    BY DEF Init, Past, Gone, Handlers
  <2> QED
    BY <1>1, <1>2, <2>1, FS_EmptySet DEF LengthInv
<1>8. WritingInv /\ ShiftInv
  BY DEF Init, WritingInv, ShiftInv, Reading, Handlers
<1> QED
  BY <1>6, <1>7, <1>8, CatalogInit DEF SpanInv

\* Every step keeps it.
LEMMA SpanNext == SpanInv /\ [Next]_vars => SpanInv'
<1> SUFFICES ASSUME SpanInv, [Next]_vars PROVE SpanInv'
  OBVIOUS
<1>1. CatalogInv'
  BY CatalogNext DEF SpanInv
<1> QED
  BY <1>1, ArriveSpan, LockedSpan, ReplaceSpan, CrashSpan DEF Next, Handler, SpanInv

(* Whatever the handlers, the file and the documents are item lists, and   *)
(* no longer than the original and every addition together (add_item).     *)
THEOREM ListsAreBounded == Spec => []TypeOK
<1>1. SpanInv => TypeOK
  BY DEF SpanInv
<1> QED
  BY <1>1, SpanInit, SpanNext, PTL DEF Spec

(* An edit replaces the item it read before it awaited the form, unless a  *)
(* deletion saved since then has shifted the list under its index, or such *)
(* an edit went before it to the same index: additions go to the end,      *)
(* edits keep what the form does not set, and a deletion moves nothing     *)
(* before its own index (catalog_update, update_item, delete_item,         *)
(* item_from_form).                                                        *)
THEOREM DeletionsShift == Spec => OnlyDeletionsShift
<1>1. SpanInv /\ [Next]_vars =>
        [\A h \in Editors : at[h] = "writing" /\ at'[h] = "written" =>
            h \in displaced \/ file[index[h] + 1].rest = existing[h].rest]_vars
  BY DEF SpanInv, ShiftInv, Reading
<1> QED
  BY <1>1, SpanInit, SpanNext, PTL DEF Spec, OnlyDeletionsShift
=============================================================================
