--------------------------- MODULE SarCreateProofs ---------------------------
(***************************************************************************)
(* Proofs about make_sar, for every folder, number of threads, alignment,  *)
(* block size and bound on crashes.                                        *)
(***************************************************************************)
EXTENDS SarCreate, SequenceTheorems, TLAPS

-----------------------------------------------------------------------------
(* Offsets and lengths.                                                    *)

(* An offset field holds a natural number, the one stored if that fits.    *)
LEMMA WrapNat ==
  ASSUME NEW n \in Nat
  PROVE  /\ Wrap(n) \in Nat
         /\ n < OffsetRange => Wrap(n) = n
BY FormatAssumption DEF Wrap

(* ApplyPadding never writes a negative number of bytes.                   *)
LEMMA PaddingNat ==
  ASSUME NEW n \in Nat
  PROVE  Padding(n) \in Nat
BY CreateAssumption DEF Padding

(* The body starts at a natural offset, further back for a longer table.   *)
LEMMA DataOffsetNat ==
  ASSUME NEW n \in Nat
  PROVE  /\ DataOffset(n) \in Nat \ {0}
         /\ DataOffset(n + 1) = DataOffset(n) + EntrySize
<1>1. n * EntrySize \in Nat
  BY FormatAssumption
<1>2. (n + 1) * EntrySize = n * EntrySize + EntrySize
  BY FormatAssumption
<1> QED
  BY <1>1, <1>2, FormatAssumption DEF DataOffset

(* The bytes ApplyPadding writes.                                          *)
LEMMA PadBytes ==
  ASSUME NEW n \in Nat
  PROVE  [i \in 1 .. Padding(n) |-> Pad] \in Seq(Byte)
BY PaddingNat, CreateAssumption, SMTT(20)

(* A content lying in a sequence of bytes still lies there when it grows.  *)
LEMMA HoldsGrows ==
  ASSUME NEW s \in Seq(Byte), NEW t \in Seq(Byte), NEW c \in Seq(Byte),
         NEW at \in Nat, Holds(s, at, c)
  PROVE  Holds(s \o t, at, c)
<1>1. Len(s \o t) = Len(s) + Len(t)
  BY ConcatProperties
<1>2. ASSUME NEW k \in 1 .. Len(c)
      PROVE  (s \o t)[at + k] = c[k]
  <2>1. at + k \in 1 .. Len(s)
    BY DEF Holds
  <2>2. (s \o t)[at + k] = s[at + k]
    BY <2>1, ConcatProperties
  <2> QED
    BY <2>2 DEF Holds
<1> QED
  BY <1>1, <1>2 DEF Holds

(* A content appended to a sequence of bytes lies at its old end.          *)
LEMMA HoldsAppended ==
  ASSUME NEW s \in Seq(Byte), NEW c \in Seq(Byte)
  PROVE  Holds(s \o c, Len(s), c)
<1>1. Len(s \o c) = Len(s) + Len(c)
  BY ConcatProperties
<1>2. ASSUME NEW k \in 1 .. Len(c)
      PROVE  (s \o c)[Len(s) + k] = c[k]
  BY ConcatProperties
<1> QED
  BY <1>1, <1>2 DEF Holds

-----------------------------------------------------------------------------
(* Type correctness.                                                       *)

(* An entry that takes a new offset is an entry.                           *)
LEMMA EntryAtOffset ==
  ASSUME NEW e \in Entry, NEW d \in Nat
  PROVE  /\ [e EXCEPT !.data = d] \in Entry
         /\ [e EXCEPT !.data = d].data = d
         /\ [e EXCEPT !.data = d].file = e.file
         /\ [e EXCEPT !.data = d].dataSize = e.dataSize
BY DEF Entry

(***************************************************************************)
(* The entries Finish writes are the context's, each at its new offset.    *)
(***************************************************************************)
LEMMA RelocatedType ==
  ASSUME files \in Seq(Entry)
  PROVE  LET moved == Relocated(DataOffset(Len(files)))
         IN  /\ moved \in Seq(Entry)
             /\ Len(moved) = Len(files)
             /\ \A i \in 1 .. Len(files) :
                  /\ moved[i].file = files[i].file
                  /\ moved[i].dataSize = files[i].dataSize
                  /\ moved[i].data = Wrap(files[i].data + DataOffset(Len(files)))
<1> DEFINE move(i) ==
      [files[i] EXCEPT !.data = Wrap(@ + DataOffset(Len(files)))]
<1>1. ASSUME NEW i \in 1 .. Len(files)
      PROVE  /\ move(i) \in Entry
             /\ move(i).file = files[i].file
             /\ move(i).dataSize = files[i].dataSize
             /\ move(i).data = Wrap(files[i].data + DataOffset(Len(files)))
  <2>1. files[i] \in Entry
    OBVIOUS
  <2>2. files[i].data \in Nat
    BY <2>1 DEF Entry
  <2>3. DataOffset(Len(files)) \in Nat
    BY DataOffsetNat
  <2>4. files[i].data + DataOffset(Len(files)) \in Nat
    BY <2>2, <2>3
  <2>5. Wrap(files[i].data + DataOffset(Len(files))) \in Nat
    BY <2>4, WrapNat
  <2> QED
    BY <2>1, <2>5, EntryAtOffset
<1>2. Relocated(DataOffset(Len(files))) = [i \in 1 .. Len(files) |-> move(i)]
  BY DEF Relocated
<1> HIDE DEF move
<1> QED
  BY <1>1, <1>2

(* What a new process knows is of its kind.                                *)
LEMMA TypeInit == Init => TypeOK
<1> SUFFICES ASSUME Init
             PROVE  TypeOK
  OBVIOUS
<1>1. image \in [id : MagicRead, big : BOOLEAN, table : Seq(Entry), body : Seq(Byte)]
  BY DEF Init, NoImage, MagicRead
<1>2. cur \in [Threads -> Entry \cup {None}]
  BY DEF Init
<1>3. pc \in [Threads -> {"idle"}]
  BY DEF Init
<1>4. crashes \in 0 .. MaxCrashes
  BY CreateAssumption DEF Init
<1>5. files \in Seq(Entry) /\ store \in Seq(Byte)
  BY DEF Init
<1>6. \A t \in Threads : pc[t] = "idle"
  BY DEF Init
<1>7. /\ todo \subseteq Files /\ skipped \subseteq Files
      /\ mtx = None /\ phase = "new" /\ storeOnDisk = FALSE
  BY DEF Init
<1> QED
  BY <1>1, <1>2, <1>3, <1>4, <1>5, <1>6, <1>7 DEF TypeOK

(* No step of any thread, of Finish or of a crash leaves the types.        *)
LEMMA TypeStep == TypeOK /\ [Next]_vars => TypeOK'
<1> SUFFICES ASSUME TypeOK, [Next]_vars
             PROVE  TypeOK'
  OBVIOUS
<1> USE DEF TypeOK
<1>1. CASE NewArchive
  BY <1>1 DEF NewArchive
<1>2. ASSUME NEW t \in Threads, NEW f \in Files, SkipFile(t, f)
      PROVE  TypeOK'
  BY <1>2 DEF SkipFile, diskVars
<1>3. ASSUME NEW t \in Threads, NEW f \in Files, BeginSend(t, f)
      PROVE  TypeOK'
  <2>1. Wrap(Len(Content[f])) \in Nat
    BY WrapNat, CreateAssumption
  <2>2. cur' \in [Threads -> Entry \cup {None}]
    BY <1>3, <2>1 DEF BeginSend, Entry
  <2>3. \A u \in Threads : pc'[u] # "idle" => cur'[u] \in Entry
    BY <1>3, <2>1 DEF BeginSend, Step, Entry
  <2> QED
    BY <1>3, <2>2, <2>3 DEF BeginSend, Step, diskVars
<1>4. ASSUME NEW t \in Threads, LockMutex(t)
      PROVE  TypeOK'
  BY <1>4 DEF LockMutex, Step, diskVars
<1>5. ASSUME NEW t \in Threads, AddEntry(t)
      PROVE  TypeOK'
  <2> DEFINE e == [cur[t] EXCEPT !.data = Wrap(Len(store))]
  <2>1. cur[t] \in Entry
    BY <1>5 DEF AddEntry, Step
  <2>2. e \in Entry
    BY <2>1, WrapNat, EntryAtOffset
  <2>3. cur' = [cur EXCEPT ![t] = e] /\ files' = Append(files, e)
    BY <1>5 DEF AddEntry
  <2> HIDE DEF e
  <2>4. files' \in Seq(Entry)
    BY <2>2, <2>3, AppendProperties
  <2> QED
    BY <1>5, <2>2, <2>3, <2>4 DEF AddEntry, Step, diskVars
<1>6. ASSUME NEW t \in Threads, WriteData(t)
      PROVE  TypeOK'
  <2>1. Content[cur[t].file] \in Seq(Byte)
    BY <1>6, CreateAssumption DEF WriteData, Step, Entry
  <2> QED
    BY <1>6, <2>1, ConcatProperties DEF WriteData, Step
<1>7. ASSUME NEW t \in Threads, PadAndUnlock(t)
      PROVE  TypeOK'
  <2>1. [i \in 1 .. Padding(Len(store)) |-> Pad] \in Seq(Byte)
    BY PadBytes
  <2>2. store' \in Seq(Byte)
    BY <1>7, <2>1, ConcatProperties DEF PadAndUnlock
  <2> QED
    BY <1>7, <2>2 DEF PadAndUnlock, Step
<1>8. CASE WriteTable
  BY <1>8, RelocatedType, CreateAssumption
     DEF WriteTable, AllSent, WriteEntries
<1>9. CASE CopyBlock \/ CopyRest
  <2>1. PICK n \in Nat : Copied + n <= Len(store) /\ CopyBytes(n)
    BY <1>9, CreateAssumption DEF CopyBlock, CopyRest, Copied
  <2>2. SubSeq(store, Copied + 1, Copied + n) \in Seq(Byte)
    BY <2>1 DEF Copied
  <2>3. image.body \o SubSeq(store, Copied + 1, Copied + n) \in Seq(Byte)
    BY <2>2, ConcatProperties
  <2> QED
    BY <2>1, <2>3 DEF CopyBytes, sendVars
<1>10. CASE RemoveStore
  BY <1>10 DEF RemoveStore, sendVars
<1>11. CASE Crash
  BY <1>11, CreateAssumption DEF Crash, NoImage, MagicRead
<1>12. CASE UNCHANGED vars
  BY <1>12 DEF vars, sendVars, diskVars
<1> QED
  BY <1>1, <1>2, <1>3, <1>4, <1>5, <1>6, <1>7, <1>8, <1>9, <1>10, <1>11, <1>12
     DEF Next, SendFile, Finish, Done

(* Every value the tool keeps is of its kind.                              *)
THEOREM TypeCorrect == Spec => []TypeOK
BY TypeInit, TypeStep, PTL DEF Spec

-----------------------------------------------------------------------------
(* Mutual exclusion.                                                       *)

(* Only the thread inside the guarded section ever holds the mutex.        *)
LEMMA MutexStep == TypeOK /\ MutexHeld /\ [Next]_vars => MutexHeld'
<1> SUFFICES ASSUME TypeOK, MutexHeld, [Next]_vars
             PROVE  MutexHeld'
  OBVIOUS
<1> USE CreateAssumption DEF TypeOK, MutexHeld
<1>1. CASE NewArchive
  BY <1>1 DEF NewArchive
<1>2. ASSUME NEW t \in Threads, NEW f \in Files, SkipFile(t, f)
      PROVE  MutexHeld'
  BY <1>2 DEF SkipFile
<1>3. ASSUME NEW t \in Threads, NEW f \in Files, BeginSend(t, f)
      PROVE  MutexHeld'
  BY <1>3 DEF BeginSend, Step
<1>4. ASSUME NEW t \in Threads, LockMutex(t)
      PROVE  MutexHeld'
  BY <1>4 DEF LockMutex, Step
<1>5. ASSUME NEW t \in Threads, AddEntry(t)
      PROVE  MutexHeld'
  BY <1>5 DEF AddEntry, Step
<1>6. ASSUME NEW t \in Threads, WriteData(t)
      PROVE  MutexHeld'
  BY <1>6 DEF WriteData, Step
<1>7. ASSUME NEW t \in Threads, PadAndUnlock(t)
      PROVE  MutexHeld'
  BY <1>7 DEF PadAndUnlock, Step
<1>8. CASE WriteTable
  BY <1>8 DEF WriteTable, AllSent, WriteEntries
<1>9. CASE CopyBlock \/ CopyRest
  BY <1>9 DEF CopyBlock, CopyRest, CopyBytes, sendVars
<1>10. CASE RemoveStore
  BY <1>10 DEF RemoveStore, sendVars
<1>11. CASE Crash
  BY <1>11 DEF Crash
<1>12. CASE UNCHANGED vars
  BY <1>12 DEF vars, sendVars
<1> QED
  BY <1>1, <1>2, <1>3, <1>4, <1>5, <1>6, <1>7, <1>8, <1>9, <1>10, <1>11, <1>12
     DEF Next, SendFile, Finish, Done

-----------------------------------------------------------------------------
(* What a thread holds.                                                    *)

(* A thread keeps describing its own file until it has stored it.          *)
LEMMA OwnStep == TypeOK /\ MutexHeld /\ OwnEntry /\ [Next]_vars => OwnEntry'
<1> SUFFICES ASSUME TypeOK, MutexHeld, OwnEntry, [Next]_vars
             PROVE  OwnEntry'
  OBVIOUS
<1> USE DEF TypeOK, OwnEntry
<1>1. CASE NewArchive
  BY <1>1 DEF NewArchive, MutexHeld
<1>2. ASSUME NEW t \in Threads, NEW f \in Files, SkipFile(t, f)
      PROVE  OwnEntry'
  BY <1>2 DEF SkipFile
<1>3. ASSUME NEW t \in Threads, NEW f \in Files, BeginSend(t, f)
      PROVE  OwnEntry'
  BY <1>3 DEF BeginSend, Step
<1>4. ASSUME NEW t \in Threads, LockMutex(t)
      PROVE  OwnEntry'
  BY <1>4 DEF LockMutex, Step
<1>5. ASSUME NEW t \in Threads, AddEntry(t)
      PROVE  OwnEntry'
  <2> DEFINE e == [cur[t] EXCEPT !.data = Wrap(Len(store))]
  <2>1. cur[t] \in Entry /\ pc[t] # "idle"
    BY <1>5 DEF AddEntry, Step
  <2>2. e \in Entry /\ e.file = cur[t].file /\ e.dataSize = cur[t].dataSize
    BY <2>1, WrapNat, EntryAtOffset
  <2>3. cur' = [cur EXCEPT ![t] = e] /\ files' = Append(files, e)
    BY <1>5 DEF AddEntry
  <2> HIDE DEF e
  <2>4. Len(files') > 0 /\ files'[Len(files')] = e
    BY <2>2, <2>3, AppendProperties
  <2>5. pc' = [pc EXCEPT ![t] = "added"]
    BY <1>5 DEF AddEntry, Step
  <2>6. \A u \in Threads : u # t => pc[u] # "added"
    BY <1>5 DEF AddEntry, Step, MutexHeld
  <2> QED
    BY <2>1, <2>2, <2>3, <2>4, <2>5, <2>6
<1>6. ASSUME NEW t \in Threads, WriteData(t)
      PROVE  OwnEntry'
  BY <1>6 DEF WriteData, Step
<1>7. ASSUME NEW t \in Threads, PadAndUnlock(t)
      PROVE  OwnEntry'
  BY <1>7 DEF PadAndUnlock, Step
<1>8. CASE WriteTable
  BY <1>8 DEF WriteTable, AllSent, WriteEntries
<1>9. CASE CopyBlock \/ CopyRest
  BY <1>9 DEF CopyBlock, CopyRest, CopyBytes, sendVars
<1>10. CASE RemoveStore
  BY <1>10 DEF RemoveStore, sendVars
<1>11. CASE Crash
  BY <1>11 DEF Crash
<1>12. CASE UNCHANGED vars
  BY <1>12 DEF vars, sendVars
<1> QED
  BY <1>1, <1>2, <1>3, <1>4, <1>5, <1>6, <1>7, <1>8, <1>9, <1>10, <1>11, <1>12
     DEF Next, SendFile, Finish, Done

-----------------------------------------------------------------------------
(* Every file in one place.                                                *)

(***************************************************************************)
(* A step that leaves the queue, the files of the entries and those the    *)
(* threads wait with as they are leaves every file where it is.            *)
(***************************************************************************)
LEMMA OnceFrame ==
  ASSUME EachFileOnce, todo' = todo,
         Len(files') = Len(files),
         \A i \in 1 .. Len(files) : files'[i].file = files[i].file,
         \A t \in Threads : Waiting(t)' <=> Waiting(t),
         \A t \in Threads : Waiting(t) => cur'[t].file = cur[t].file
  PROVE  EachFileOnce'
<1>1. OneEntryPerFile'
  BY DEF EachFileOnce, OneEntryPerFile
<1>2. EntriesTaken'
  BY DEF EachFileOnce, EntriesTaken, Fitting
<1>3. WaitingApart'
  BY DEF EachFileOnce, WaitingApart
<1>4. NoFileLost'
  BY DEF EachFileOnce, NoFileLost, Fitting
<1> QED
  BY <1>1, <1>2, <1>3, <1>4 DEF EachFileOnce

(* A thread takes a file from the queue.                                   *)
LEMMA OnceTaken ==
  ASSUME EachFileOnce, NEW t \in Threads, NEW f \in todo \cap Fitting,
         ~Waiting(t), Waiting(t)', cur'[t].file = f,
         todo' = todo \ {f}, files' = files,
         \A u \in Threads : u # t => (Waiting(u)' <=> Waiting(u)) /\ cur'[u] = cur[u]
  PROVE  EachFileOnce'
<1>1. OneEntryPerFile'
  BY DEF EachFileOnce, OneEntryPerFile
<1>2. EntriesTaken'
  BY DEF EachFileOnce, EntriesTaken, Fitting
<1>3. \A i \in 1 .. Len(files) : files[i].file # f
  BY DEF EachFileOnce, EntriesTaken
<1>4. \A u \in Threads : Waiting(u) => cur[u].file # f
  BY DEF EachFileOnce, WaitingApart
<1>5. WaitingApart'
  BY <1>3, <1>4 DEF EachFileOnce, WaitingApart
<1>6. NoFileLost'
  BY DEF EachFileOnce, NoFileLost, Fitting
<1> QED
  BY <1>1, <1>2, <1>5, <1>6 DEF EachFileOnce

(* A thread's file moves from its hands to a new entry.                    *)
LEMMA OnceAdded ==
  ASSUME EachFileOnce, files \in Seq(Entry), NEW t \in Threads, NEW e \in Entry,
         Waiting(t), ~Waiting(t)', e.file = cur[t].file, e.file \in Fitting,
         todo' = todo, files' = Append(files, e),
         \A u \in Threads : u # t => (Waiting(u)' <=> Waiting(u)) /\ cur'[u] = cur[u]
  PROVE  EachFileOnce'
<1>1. /\ Len(files) \in Nat
      /\ Len(files') = Len(files) + 1
      /\ files'[Len(files) + 1] = e
      /\ \A i \in 1 .. Len(files) : files'[i] = files[i]
  BY AppendProperties
<1>2. \A i \in 1 .. Len(files') : i \in 1 .. Len(files) \/ i = Len(files) + 1
  BY <1>1
<1>3. /\ e.file \notin todo
      /\ \A i \in 1 .. Len(files) : files[i].file # e.file
      /\ \A u \in Threads : Waiting(u) /\ cur[u].file = e.file => u = t
  BY DEF EachFileOnce, WaitingApart
<1>4. OneEntryPerFile'
  <2> SUFFICES ASSUME NEW i \in 1 .. Len(files'), NEW j \in 1 .. Len(files'),
                      files'[i].file = files'[j].file
               PROVE  i = j
    BY DEF OneEntryPerFile
  <2>1. CASE i \in 1 .. Len(files) /\ j \in 1 .. Len(files)
    BY <2>1, <1>1 DEF EachFileOnce, OneEntryPerFile
  <2>2. CASE i = Len(files) + 1 \/ j = Len(files) + 1
    BY <2>2, <1>1, <1>2, <1>3
  <2> QED
    BY <2>1, <2>2, <1>2
<1>5. EntriesTaken'
  <2> SUFFICES ASSUME NEW i \in 1 .. Len(files')
               PROVE  files'[i].file \in Fitting \ todo
    BY DEF EntriesTaken, Fitting
  <2> QED
    BY <1>1, <1>2, <1>3 DEF EachFileOnce, EntriesTaken
<1>6. WaitingApart'
  <2> SUFFICES ASSUME NEW u \in Threads, Waiting(u)'
               PROVE  /\ cur'[u].file \notin todo
                      /\ \A i \in 1 .. Len(files') : files'[i].file # cur'[u].file
                      /\ \A v \in Threads :
                           Waiting(v)' /\ cur'[v].file = cur'[u].file => v = u
    BY DEF WaitingApart
  <2>1. u # t /\ Waiting(u) /\ cur'[u] = cur[u]
    OBVIOUS
  <2>2. \A i \in 1 .. Len(files) : files[i].file # cur[u].file
    BY <2>1 DEF EachFileOnce, WaitingApart
  <2>3. \A i \in 1 .. Len(files') : files'[i].file # cur[u].file
    BY <2>1, <2>2, <1>1, <1>2, <1>3
  <2> QED
    BY <2>1, <2>3 DEF EachFileOnce, WaitingApart
<1>7. NoFileLost'
  <2> SUFFICES ASSUME NEW f \in Fitting
               PROVE  \/ f \in todo
                      \/ \E i \in 1 .. Len(files') : files'[i].file = f
                      \/ \E u \in Threads : Waiting(u)' /\ cur'[u].file = f
    BY DEF NoFileLost, Fitting
  <2>1. Len(files) + 1 \in 1 .. Len(files') /\ 1 .. Len(files) \subseteq 1 .. Len(files')
    BY <1>1
  <2>2. CASE f = e.file
    BY <2>1, <2>2, <1>1
  <2>3. CASE f # e.file
    BY <2>1, <2>3, <1>1 DEF EachFileOnce, NoFileLost
  <2> QED
    BY <2>2, <2>3
<1> QED
  BY <1>4, <1>5, <1>6, <1>7 DEF EachFileOnce

(* With no entry and no thread at work, all files that fit are queued.     *)
LEMMA OnceAtStart ==
  ASSUME files = <<>>, \A t \in Threads : ~Waiting(t), Fitting \subseteq todo
  PROVE  EachFileOnce
BY DEF EachFileOnce, OneEntryPerFile, EntriesTaken, WaitingApart, NoFileLost

(* Nothing is taken before a context is created.                           *)
LEMMA FreshStep == FreshStart /\ [Next]_vars => FreshStart'
<1> SUFFICES ASSUME FreshStart, [Next]_vars, phase' = "new"
             PROVE  todo' = Files /\ files' = <<>>
  BY DEF FreshStart
<1>1. CASE Crash
  BY <1>1 DEF Crash
<1>2. CASE UNCHANGED vars
  BY <1>2 DEF FreshStart, vars, sendVars
<1>3. CASE NewArchive \/ Finish \/ \E t \in Threads : SendFile(t)
  BY <1>3 DEF NewArchive, Finish, WriteTable, WriteEntries, CopyBlock, CopyRest,
     CopyBytes, RemoveStore, SendFile, SkipFile, BeginSend, LockMutex, AddEntry,
     WriteData, PadAndUnlock, Step
<1> QED
  BY <1>1, <1>2, <1>3 DEF Next, Done

(* No step loses a file or stores it twice.                                *)
LEMMA OnceStep ==
  TypeOK /\ OwnEntry /\ MutexHeld /\ FreshStart /\ EachFileOnce /\ [Next]_vars
    => EachFileOnce'
<1> SUFFICES ASSUME TypeOK, OwnEntry, MutexHeld, FreshStart, EachFileOnce, [Next]_vars
             PROVE  EachFileOnce'
  OBVIOUS
<1> DEFINE Here == /\ todo' = todo
                   /\ Len(files') = Len(files)
                   /\ \A i \in 1 .. Len(files) : files'[i].file = files[i].file
                   /\ \A t \in Threads : Waiting(t)' <=> Waiting(t)
                   /\ \A t \in Threads : Waiting(t) => cur'[t].file = cur[t].file
<1>a. pc \in [Threads -> {"idle", "ready", "locked", "added", "written"}]
  BY DEF TypeOK
<1>b. cur \in [Threads -> Entry \cup {None}] /\ files \in Seq(Entry)
  BY DEF TypeOK
<1>c. Here => EachFileOnce'
  BY OnceFrame
<1>1. CASE NewArchive
  <2>1. files' = <<>> /\ todo' = Files /\ \A t \in Threads : ~Waiting(t)'
    BY <1>1 DEF NewArchive, FreshStart, MutexHeld, Waiting
  <2> QED
    BY <2>1 DEF EachFileOnce, OneEntryPerFile, EntriesTaken, WaitingApart,
       NoFileLost, Fitting
<1>2. ASSUME NEW t \in Threads, NEW f \in Files, SkipFile(t, f)
      PROVE  EachFileOnce'
  <2>1. /\ todo' = todo \ {f} /\ f \notin Fitting
        /\ files' = files /\ cur' = cur /\ pc' = pc
    BY <1>2 DEF SkipFile
  <2> QED
    BY <2>1 DEF EachFileOnce, OneEntryPerFile, EntriesTaken, WaitingApart,
       NoFileLost, Fitting, Waiting
<1>3. ASSUME NEW t \in Threads, NEW f \in Files, BeginSend(t, f)
      PROVE  EachFileOnce'
  <2>1. /\ f \in todo \cap Fitting /\ todo' = todo \ {f} /\ files' = files
        /\ pc[t] = "idle" /\ pc' = [pc EXCEPT ![t] = "ready"]
    BY <1>3 DEF BeginSend, Step
  <2>2. cur'[t].file = f /\ \A u \in Threads : u # t => cur'[u] = cur[u]
    BY <1>3, <1>b DEF BeginSend
  <2>3. ~Waiting(t) /\ Waiting(t)'
    BY <2>1, <1>a DEF Waiting
  <2>4. \A u \in Threads : u # t => (Waiting(u)' <=> Waiting(u))
    BY <2>1, <1>a DEF Waiting
  <2> QED
    BY <2>1, <2>2, <2>3, <2>4, OnceTaken
<1>4. ASSUME NEW t \in Threads, LockMutex(t)
      PROVE  EachFileOnce'
  BY <1>4, <1>a, <1>c DEF LockMutex, Step, Waiting
<1>5. ASSUME NEW t \in Threads, AddEntry(t)
      PROVE  EachFileOnce'
  <2> DEFINE e == [cur[t] EXCEPT !.data = Wrap(Len(store))]
  <2>1. cur[t] \in Entry /\ cur[t].file \in Fitting /\ Waiting(t)
    BY <1>5 DEF AddEntry, Step, Waiting, TypeOK, OwnEntry
  <2>2. e \in Entry /\ e.file = cur[t].file
    BY <2>1, WrapNat, EntryAtOffset DEF TypeOK
  <2>3. cur' = [cur EXCEPT ![t] = e] /\ files' = Append(files, e) /\ todo' = todo
    BY <1>5 DEF AddEntry
  <2>4. ~Waiting(t)' /\ \A u \in Threads : u # t => (Waiting(u)' <=> Waiting(u))
    BY <1>5, <1>a DEF AddEntry, Step, Waiting
  <2> HIDE DEF e
  <2>5. \A u \in Threads : u # t => cur'[u] = cur[u]
    BY <2>3, <1>b
  <2> QED
    BY <1>b, <2>1, <2>2, <2>3, <2>4, <2>5, OnceAdded
<1>6. ASSUME NEW t \in Threads, WriteData(t)
      PROVE  EachFileOnce'
  BY <1>6, <1>a, <1>c DEF WriteData, Step, Waiting
<1>7. ASSUME NEW t \in Threads, PadAndUnlock(t)
      PROVE  EachFileOnce'
  BY <1>7, <1>a, <1>b, <1>c DEF PadAndUnlock, Step, Waiting
<1>8. CASE WriteTable
  <2>1. files' = Relocated(DataOffset(Len(files)))
    BY <1>8 DEF WriteTable, WriteEntries
  <2>2. /\ Len(files') = Len(files)
        /\ \A i \in 1 .. Len(files) : files'[i].file = files[i].file
    BY <2>1, <1>b, RelocatedType
  <2>4. todo' = todo /\ cur' = cur /\ pc' = pc
    BY <1>8 DEF WriteTable, WriteEntries
  <2> QED
    BY <1>c, <2>2, <2>4 DEF Waiting
<1>9. CASE CopyBlock \/ CopyRest
  BY <1>9, <1>c DEF CopyBlock, CopyRest, CopyBytes, sendVars, Waiting
<1>10. CASE RemoveStore
  BY <1>10, <1>c DEF RemoveStore, sendVars, Waiting
<1>11. CASE Crash
  <2>1. files' = <<>> /\ todo' = Files /\ \A t \in Threads : ~Waiting(t)'
    BY <1>11 DEF Crash, Waiting
  <2> QED
    BY <2>1 DEF EachFileOnce, OneEntryPerFile, EntriesTaken, WaitingApart,
       NoFileLost, Fitting
<1>12. CASE UNCHANGED vars
  BY <1>12, <1>c DEF vars, sendVars, Waiting
<1> QED
  BY <1>1, <1>2, <1>3, <1>4, <1>5, <1>6, <1>7, <1>8, <1>9, <1>10, <1>11, <1>12
     DEF Next, SendFile, Finish, Done

-----------------------------------------------------------------------------
(* Entries and store.                                                      *)

(* The content of an entry's file, and where the entry says it lies.       *)
LEMMA EntryFields ==
  ASSUME TypeOK, NEW i \in 1 .. Len(files)
  PROVE  /\ files[i].file \in Files
         /\ files[i].data \in Nat
         /\ Content[files[i].file] \in Seq(Byte)
         /\ Len(Content[files[i].file]) \in Nat
         /\ DataOffset(Len(files)) \in Nat
         /\ Len(store) \in Nat
<1>1. files[i] \in Entry /\ Len(files) \in Nat /\ Len(store) \in Nat
  BY DEF TypeOK
<1>2. Content[files[i].file] \in Seq(Byte)
  BY <1>1, CreateAssumption DEF Entry
<1>3. DataOffset(Len(files)) \in Nat
  BY <1>1, DataOffsetNat
<1> QED
  BY <1>1, <1>2, <1>3 DEF Entry

(* What fits after entries or bytes were added fitted before.              *)
LEMMA FitsBefore ==
  ASSUME TypeOK, NEW s \in Seq(Byte), Len(s) >= Len(store),
         NEW n \in {Len(files), Len(files) + 1},
         DataOffset(n) + Len(s) < OffsetRange
  PROVE  /\ Fits
         /\ Len(s) < OffsetRange
<1>1. Len(files) \in Nat /\ Len(store) \in Nat /\ Len(s) \in Nat
  BY DEF TypeOK
<1>2. /\ DataOffset(Len(files)) \in Nat
      /\ DataOffset(Len(files) + 1) = DataOffset(Len(files)) + EntrySize
  BY <1>1, DataOffsetNat
<1> QED
  BY <1>1, <1>2, FormatAssumption DEF Fits

(* Bytes appended to the store leave every stored entry stored.            *)
LEMMA StoredGrows ==
  ASSUME TypeOK, NEW i \in 1 .. Len(files), Stored(i), NEW b \in Seq(Byte),
         store' = store \o b, files' = files
  PROVE  Stored(i)'
BY EntryFields, HoldsGrows DEF Stored, TypeOK

(* No step separates an entry from the bytes it points at.                 *)
LEMMA ReadBackStep ==
  TypeOK /\ MutexHeld /\ OwnEntry /\ EntriesReadBack /\ [Next]_vars
    => EntriesReadBack'
<1> SUFFICES ASSUME TypeOK, MutexHeld, OwnEntry, EntriesReadBack, [Next]_vars,
                    phase' = "send", Fits'
             PROVE  \A i \in 1 .. Len(files') :
                      IF Pending(i)' THEN files'[i].data = Len(store') ELSE Stored(i)'
  BY DEF EntriesReadBack
<1> DEFINE Goal == \A i \in 1 .. Len(files') :
                     IF Pending(i)' THEN files'[i].data = Len(store') ELSE Stored(i)'
<1>a. pc \in [Threads -> {"idle", "ready", "locked", "added", "written"}]
  BY DEF TypeOK
<1>b. files \in Seq(Entry) /\ store \in Seq(Byte)
  BY DEF TypeOK
<1>1. CASE NewArchive
  BY <1>1 DEF NewArchive
<1>2. ASSUME phase = "send", files' = files, store' = store,
             (\E t \in Threads : pc'[t] = "added") <=> (\E t \in Threads : pc[t] = "added")
      PROVE  Goal
  BY <1>2 DEF EntriesReadBack, Pending, Stored, Fits
<1>3. ASSUME NEW t \in Threads, NEW f \in Files, SkipFile(t, f)
      PROVE  Goal
  BY <1>2, <1>3 DEF SkipFile, diskVars
<1>4. ASSUME NEW t \in Threads, NEW f \in Files, BeginSend(t, f)
      PROVE  Goal
  BY <1>2, <1>4, <1>a DEF BeginSend, Step, diskVars
<1>5. ASSUME NEW t \in Threads, LockMutex(t)
      PROVE  Goal
  BY <1>2, <1>5, <1>a DEF LockMutex, Step, diskVars
<1>6. ASSUME NEW t \in Threads, AddEntry(t)
      PROVE  Goal
  <2> DEFINE e == [cur[t] EXCEPT !.data = Wrap(Len(store))]
  <2>1. cur[t] \in Entry
    BY <1>6 DEF AddEntry, Step, TypeOK
  <2>2. e \in Entry /\ e.data = Wrap(Len(store))
    <3>1. Len(store) \in Nat
      BY <1>b
    <3>2. Wrap(Len(store)) \in Nat
      BY <3>1, WrapNat
    <3> QED
      BY <2>1, <3>2, EntryAtOffset
  <2>3. /\ phase = "send" /\ files' = Append(files, e) /\ store' = store
        /\ pc' = [pc EXCEPT ![t] = "added"]
    BY <1>6 DEF AddEntry, Step, diskVars
  <2> HIDE DEF e
  <2>4. /\ Len(files') = Len(files) + 1
        /\ files'[Len(files) + 1] = e
        /\ \A i \in 1 .. Len(files) : files'[i] = files[i]
    BY <2>2, <2>3, <1>b, AppendProperties
  <2>5. Fits /\ Len(store) < OffsetRange
    BY <2>3, <2>4, <1>b, FitsBefore DEF Fits
  <2>6. \A i \in 1 .. Len(files) : Stored(i)
    BY <2>3, <2>5, <1>6 DEF EntriesReadBack, Pending, MutexHeld, AddEntry, Step
  <2>7. ASSUME NEW i \in 1 .. Len(files)
        PROVE  ~Pending(i)' /\ Stored(i)'
    BY <2>3, <2>4, <2>6, <1>b DEF Pending, Stored
  <2>8. files'[Len(files')].data = Len(store')
    BY <2>2, <2>3, <2>4, <2>5, <1>b, WrapNat, SMTT(20)
  <2>9. \A i \in 1 .. Len(files') : i \in 1 .. Len(files) \/ i = Len(files')
    BY <2>4, <1>b
  <2>10. \E u \in Threads : pc'[u] = "added"
    BY <2>3, <1>a
  <2> QED
    BY <2>7, <2>8, <2>9, <2>10 DEF Pending
<1>7. ASSUME NEW t \in Threads, WriteData(t)
      PROVE  Goal
  <2> DEFINE c == Content[cur[t].file]
             n == Len(files)
  <2>1. /\ phase = "send" /\ pc[t] = "added" /\ store' = store \o c /\ files' = files
        /\ pc' = [pc EXCEPT ![t] = "written"]
    BY <1>7 DEF WriteData, Step
  <2>2. \A u \in Threads : pc'[u] # "added"
    BY <2>1, <1>a DEF MutexHeld
  <2>3. n > 0 /\ files[n] = cur[t] /\ cur[t].dataSize = Wrap(Len(c))
    BY <2>1 DEF OwnEntry
  <2>4. n \in 1 .. Len(files) /\ c \in Seq(Byte)
    BY <2>3, <1>b, EntryFields
  <2> HIDE DEF c
  <2>5. Len(store') = Len(store) + Len(c) /\ store' \in Seq(Byte)
    BY <2>1, <2>4, <1>b, ConcatProperties
  <2>6. Fits /\ Len(store') < OffsetRange
    <3>1. DataOffset(Len(files)) + Len(store') < OffsetRange
      BY <2>1 DEF Fits
    <3>2. Len(store') >= Len(store)
      BY <2>4, <2>5, <1>b
    <3> QED
      BY <2>5, <3>1, <3>2, FitsBefore
  <2>7. files[n].data = Len(store) /\ Wrap(Len(c)) = Len(c)
    <3>1. files[n].data = Len(store)
      BY <2>1, <2>4, <2>6 DEF EntriesReadBack, Pending
    <3>2. Len(c) \in Nat /\ Len(c) < OffsetRange
      BY <2>4, <2>5, <2>6, <1>b, FormatAssumption
    <3> QED
      BY <3>1, <3>2, WrapNat
  <2>8. Stored(n)'
    BY <2>1, <2>3, <2>4, <2>7, <1>b, HoldsAppended DEF Stored, c
  <2>9. ASSUME NEW i \in 1 .. Len(files), i # n
        PROVE  Stored(i)'
    <3>1. Stored(i)
      BY <2>1, <2>6, <2>9 DEF EntriesReadBack, Pending
    <3> QED
      BY <3>1, <2>1, <2>4, StoredGrows
  <2> QED
    BY <2>1, <2>2, <2>8, <2>9 DEF Pending
<1>8. ASSUME NEW t \in Threads, PadAndUnlock(t)
      PROVE  Goal
  <2> DEFINE b == [i \in 1 .. Padding(Len(store)) |-> Pad]
  <2>1. /\ phase = "send" /\ pc[t] = "written" /\ store' = store \o b /\ files' = files
        /\ pc' = [pc EXCEPT ![t] = "idle"]
    BY <1>8 DEF PadAndUnlock, Step
  <2>2. \A u \in Threads : pc[u] # "added" /\ pc'[u] # "added"
    BY <2>1, <1>a DEF MutexHeld
  <2>3. b \in Seq(Byte)
    BY <1>b, PadBytes
  <2> HIDE DEF b
  <2>4. Len(store') >= Len(store) /\ store' \in Seq(Byte)
    BY <2>1, <2>3, <1>b, ConcatProperties
  <2>5. Fits
    BY <2>1, <2>4, <1>b, FitsBefore DEF Fits
  <2>6. \A i \in 1 .. Len(files) : Stored(i)
    BY <2>1, <2>2, <2>5 DEF EntriesReadBack, Pending
  <2> QED
    BY <2>1, <2>2, <2>3, <2>6, StoredGrows DEF Pending
<1>9. CASE Finish \/ Crash
  BY <1>9 DEF Finish, WriteTable, WriteEntries, CopyBlock, CopyRest, CopyBytes,
     RemoveStore, Crash
<1>10. CASE UNCHANGED vars
  BY <1>10, <1>2 DEF vars, sendVars, diskVars
<1> QED
  BY <1>1, <1>3, <1>4, <1>5, <1>6, <1>7, <1>8, <1>9, <1>10 DEF Next, SendFile, Done

-----------------------------------------------------------------------------
(* Finish.                                                                 *)

(* A relocated offset leads back to where the entry's bytes are stored.    *)
LEMMA RelocatedStored ==
  ASSUME TypeOK, Fits, NEW i \in 1 .. Len(files), Stored(i),
         NEW d, d = Wrap(files[i].data + DataOffset(Len(files)))
  PROVE  /\ d >= DataOffset(Len(files))
         /\ d - DataOffset(Len(files)) = files[i].data
<1>1. /\ files[i].data \in Nat
      /\ DataOffset(Len(files)) \in Nat
      /\ Len(store) \in Nat
      /\ Len(Content[files[i].file]) \in Nat
  BY EntryFields
<1>2. files[i].data <= Len(store)
  BY <1>1 DEF Stored, Holds
<1>3. /\ files[i].data + DataOffset(Len(files)) \in Nat
      /\ files[i].data + DataOffset(Len(files)) < OffsetRange
  BY <1>1, <1>2, FormatAssumption DEF Fits
<1>4. d = files[i].data + DataOffset(Len(files))
  BY <1>3, WrapNat
<1> QED
  BY <1>1, <1>4

(* Relocating the table and copying the store keep what was stored.        *)
LEMMA CopyStep ==
  TypeOK /\ EntriesReadBack /\ CopiedSoFar /\ [Next]_vars => CopiedSoFar'
<1> SUFFICES ASSUME TypeOK, EntriesReadBack, CopiedSoFar, [Next]_vars,
                    phase' \in {"copy", "done"}
             PROVE  CopiedSoFar'
  BY DEF CopiedSoFar
<1>a. /\ files \in Seq(Entry) /\ store \in Seq(Byte) /\ image.body \in Seq(Byte)
      /\ image \in [id : MagicRead, big : BOOLEAN, table : Seq(Entry), body : Seq(Byte)]
  BY DEF TypeOK
<1>1. CASE WriteTable
  <2> DEFINE d == DataOffset(Len(files))
  <2>1. /\ phase = "send" /\ todo = {} /\ todo' = {} /\ store' = store
        /\ \A t \in Threads : pc[t] = "idle"
        /\ files' = Relocated(d) /\ phase' = "copy"
        /\ image'.table = files' /\ image'.body = <<>>
    BY <1>1 DEF WriteTable, AllSent, WriteEntries
  <2>2. /\ Len(files') = Len(files)
        /\ \A i \in 1 .. Len(files) :
             /\ files'[i].file = files[i].file
             /\ files'[i].dataSize = files[i].dataSize
             /\ files'[i].data = Wrap(files[i].data + d)
    BY <2>1, <1>a, RelocatedType
  <2>3. ASSUME Fits', NEW i \in 1 .. Len(files)
        PROVE  /\ files'[i].dataSize = Len(Content[files'[i].file])
               /\ files'[i].data >= d
               /\ Holds(store, files'[i].data - d, Content[files'[i].file])
    <3>1. Fits
      BY <2>1, <2>2, <2>3 DEF Fits
    <3>2. Stored(i)
      BY <2>1, <3>1 DEF EntriesReadBack, Pending
    <3>3. files'[i].data >= d /\ files'[i].data - d = files[i].data
      BY <2>2, <3>1, <3>2, RelocatedStored
    <3> QED
      BY <2>2, <3>2, <3>3 DEF Stored
  <2> QED
    BY <2>1, <2>2, <2>3, <1>a DEF CopiedSoFar, Copied
<1>2. CASE CopyBlock \/ CopyRest
  <2>1. PICK n \in Nat : Copied + n <= Len(store) /\ CopyBytes(n)
    BY <1>2, <1>a, CreateAssumption DEF CopyBlock, CopyRest, Copied
  <2> DEFINE b == SubSeq(store, Copied + 1, Copied + n)
  <2>2. /\ image' = [image EXCEPT !.body = image.body \o b] /\ phase = "copy"
        /\ files' = files /\ store' = store /\ todo' = todo /\ phase' = phase
    BY <2>1 DEF CopyBytes, sendVars
  <2>3. Copied \in Nat
    BY <1>a DEF Copied
  <2>4. /\ b \in Seq(Byte) /\ Len(b) = n
        /\ \A k \in 1 .. n : b[k] = store[Copied + k]
    BY <2>1, <2>3, <1>a
  <2> HIDE DEF b
  <2>5. image'.body = image.body \o b /\ image'.table = image.table
    BY <2>2, <1>a
  <2>6. /\ Len(image'.body) = Copied + n
        /\ Copied = Len(image.body)
        /\ \A k \in 1 .. Copied + n :
             image'.body[k] = IF k <= Copied THEN image.body[k] ELSE b[k - Copied]
    <3>1. Copied = Len(image.body) /\ image.body \in Seq(Byte)
      BY <1>a DEF Copied
    <3>2. /\ Len(image.body \o b) = Len(image.body) + Len(b)
          /\ \A k \in 1 .. Len(image.body) + Len(b) :
               (image.body \o b)[k] =
                 IF k <= Len(image.body) THEN image.body[k] ELSE b[k - Len(image.body)]
      BY <3>1, <2>4, ConcatProperties, ZenonT(40)
    <3> QED
      BY <3>1, <3>2, <2>4, <2>5
  <2>7. \A k \in 1 .. Copied + n : image'.body[k] = store[k]
    <3> SUFFICES ASSUME NEW k \in 1 .. Copied + n
                 PROVE  image'.body[k] = store[k]
      OBVIOUS
    <3>1. CASE k <= Copied
      BY <3>1, <2>2, <2>3, <2>6 DEF CopiedSoFar
    <3>2. CASE k > Copied
      <4>1. k - Copied \in 1 .. n
        BY <3>2, <2>3
      <4>2. b[k - Copied] = store[Copied + (k - Copied)]
        BY <4>1, <2>4
      <4> QED
        BY <3>2, <4>2, <2>3, <2>6
    <3> QED
      BY <3>1, <3>2, <2>3
  <2> QED
    BY <2>1, <2>2, <2>5, <2>6, <2>7 DEF CopiedSoFar, Copied, Fits
<1>3. CASE RemoveStore
  BY <1>3 DEF RemoveStore, sendVars, CopiedSoFar, Copied, Fits
<1>4. CASE UNCHANGED vars
  BY <1>4 DEF vars, sendVars, diskVars, CopiedSoFar, Copied, Fits
<1>5. CASE NewArchive \/ Crash \/ \E t \in Threads : SendFile(t)
  BY <1>5 DEF NewArchive, Crash, SendFile, SkipFile, BeginSend, LockMutex, AddEntry,
     WriteData, PadAndUnlock, Step
<1> QED
  BY <1>1, <1>2, <1>3, <1>4, <1>5 DEF Next, Finish, Done

-----------------------------------------------------------------------------
(* The results.                                                            *)

(* The invariant holds before the tool starts.                             *)
LEMMA InvariantInit == Init => IInv
<1> SUFFICES ASSUME Init
             PROVE  IInv
  OBVIOUS
<1>1. TypeOK
  BY TypeInit
<1>2. MutexHeld /\ OwnEntry /\ FreshStart
  BY CreateAssumption DEF Init, MutexHeld, OwnEntry, FreshStart
<1>3. EachFileOnce
  BY OnceAtStart DEF Init, Waiting, Fitting
<1>4. EntriesReadBack /\ CopiedSoFar
  BY DEF Init, EntriesReadBack, CopiedSoFar
<1> QED
  BY <1>1, <1>2, <1>3, <1>4 DEF IInv

(* Every step preserves the invariant.                                     *)
LEMMA InvariantStep == IInv /\ [Next]_vars => IInv'
BY TypeStep, MutexStep, FreshStep, OwnStep, OnceStep, ReadBackStep, CopyStep DEF IInv

(* The invariant that carries the rest.                                    *)
THEOREM Invariance == Spec => []IInv
BY InvariantInit, InvariantStep, PTL DEF Spec

(***************************************************************************)
(* However the threads of SendFile interleave, every entry already added   *)
(* selects its own file's bytes in the store (make_sar.cpp:84-87).         *)
(***************************************************************************)
THEOREM EntriesAlwaysReadBack == Spec => []EntriesReadBack
BY Invariance, PTL DEF IInv

(* In a closed archive the invariant is what its reader needs.             *)
LEMMA InvariantRoundTrip == IInv => RoundTrip
<1> SUFFICES ASSUME IInv, phase = "done", Fits
             PROVE  /\ {image.table[i].file : i \in 1 .. Len(image.table)} = Fitting
                    /\ \A i, j \in 1 .. Len(image.table) :
                         image.table[i].file = image.table[j].file => i = j
                    /\ \A i \in 1 .. Len(image.table) :
                         Yields(image, image.table[i], Content[image.table[i].file])
  BY DEF RoundTrip
<1>1. /\ image.table = files /\ todo = {}
      /\ Len(image.body) = Len(store)
      /\ \A k \in 1 .. Len(store) : image.body[k] = store[k]
      /\ \A i \in 1 .. Len(files) :
           /\ files[i].dataSize = Len(Content[files[i].file])
           /\ files[i].data >= DataOffset(Len(files))
           /\ Holds(store, files[i].data - DataOffset(Len(files)),
                    Content[files[i].file])
  BY DEF IInv, CopiedSoFar, Copied
<1>2. \A t \in Threads : ~Waiting(t)
  BY DEF IInv, MutexHeld, Waiting
<1>3. {files[i].file : i \in 1 .. Len(files)} = Fitting
  BY <1>1, <1>2 DEF IInv, EachFileOnce, NoFileLost, EntriesTaken
<1>4. \A i, j \in 1 .. Len(files) : files[i].file = files[j].file => i = j
  BY DEF IInv, EachFileOnce, OneEntryPerFile
<1>5. ASSUME NEW i \in 1 .. Len(files)
      PROVE  Yields(image, files[i], Content[files[i].file])
  <2> DEFINE c == Content[files[i].file]
             at == files[i].data - DataOffset(Len(files))
  <2>1. /\ files[i].data \in Nat /\ DataOffset(Len(files)) \in Nat
        /\ Len(c) \in Nat /\ Len(store) \in Nat
    BY EntryFields DEF IInv
  <2>2. at \in Nat /\ Holds(store, at, c)
    BY <1>1, <2>1
  <2> HIDE DEF c, at
  <2>3. \A k \in 1 .. Len(c) : at + k \in 1 .. Len(store)
    BY <2>1, <2>2 DEF Holds
  <2>4. Holds(image.body, at, c)
    BY <1>1, <2>2, <2>3 DEF Holds
  <2>5. EntryAt(image, files[i]) = at
    BY <1>1 DEF EntryAt, at
  <2> QED
    BY <1>1, <2>1, <2>2, <2>4, <2>5 DEF Yields, c
<1> QED
  BY <1>1, <1>3, <1>4, <1>5

(***************************************************************************)
(* What make_sar closes, sar_extract reads back: exactly the files whose   *)
(* paths fit, each with its own content (make_sar.cpp:92-128).             *)
(***************************************************************************)
THEOREM ClosedArchiveReadsBack == Spec => []RoundTrip
BY Invariance, InvariantRoundTrip, PTL

(***************************************************************************)
(* The store outlives what is still missing from the archive, and only     *)
(* grows until then (make_sar.cpp:110-127).                                *)
(***************************************************************************)
THEOREM StoreIsKept == Spec => StoreKept
<1> DEFINE Kept == /\ storeOnDisk /\ ~storeOnDisk' => image'.body = store
                   /\ phase \in {"send", "copy"} => Len(store') >= Len(store)
<1>1. IInv /\ [Next]_vars => [Kept]_vars
  <2> SUFFICES ASSUME IInv, Next
               PROVE  Kept
    OBVIOUS
  <2>a. /\ store \in Seq(Byte) /\ image.body \in Seq(Byte)
        /\ Len(store) \in Nat
    BY DEF IInv, TypeOK
  <2>1. CASE RemoveStore
    <3>1. Len(image.body) = Len(store) /\ \A k \in 1 .. Len(store) : image.body[k] = store[k]
      BY <2>1 DEF RemoveStore, Copied, IInv, CopiedSoFar
    <3>2. image.body = store
      BY <3>1, <2>a, SeqEqual
    <3>3. image' = image /\ store' = store
      BY <2>1 DEF RemoveStore
    <3>4. image'.body = store
      BY <3>2, <3>3
    <3>5. Len(store') >= Len(store)
      BY <2>a, <3>3
    <3> QED
      BY <3>4, <3>5
  <2>2. ASSUME NEW t \in Threads, WriteData(t)
        PROVE  Kept
    <3>1. Content[cur[t].file] \in Seq(Byte)
      BY <2>2, CreateAssumption DEF WriteData, Step, IInv, TypeOK, Entry
    <3> QED
      BY <2>2, <2>a, <3>1, ConcatProperties DEF WriteData
  <2>3. ASSUME NEW t \in Threads, PadAndUnlock(t)
        PROVE  Kept
    <3> DEFINE b == [i \in 1 .. Padding(Len(store)) |-> Pad]
    <3>1. b \in Seq(Byte)
      BY <2>a, PadBytes
    <3>2. store' = store \o b
      BY <2>3 DEF PadAndUnlock
    <3> HIDE DEF b
    <3>3. Len(store') >= Len(store)
      BY <2>a, <3>1, <3>2, ConcatProperties
    <3> QED
      BY <2>3, <3>3 DEF PadAndUnlock
  <2>4. CASE NewArchive
    BY <2>4 DEF NewArchive
  <2>5. ASSUME store' = store, storeOnDisk' = storeOnDisk
        PROVE  Kept
    BY <2>5, <2>a
  <2> QED
    BY <2>1, <2>2, <2>3, <2>4, <2>5 DEF Next, SendFile, SkipFile, BeginSend, LockMutex,
       AddEntry, Finish, WriteTable, WriteEntries, CopyBlock, CopyRest, CopyBytes,
       Crash, Done, vars, diskVars
<1> QED
  BY <1>1, Invariance, PTL DEF Spec, StoreKept

-----------------------------------------------------------------------------
(* The refinement: packing keeps the promise of SarPack.                   *)

(* Only files whose path does not fit are skipped, and none is forgotten.  *)
SkippedRight ==
  /\ skipped \cap Fitting = {}
  /\ Files \ Fitting \subseteq todo \cup skipped

(* The files whose bytes are complete, and files with their contents.      *)
SettledFiles == {files[i].file : i \in Settled}
Pairs(fs) == {<<f, Content[f]>> : f \in fs}
Members == {<<files[i].file, ReadEntry(files[i])>> : i \in Settled}

(* A process that has not started has skipped nothing.                     *)
LEMMA SkippedInit == Init => SkippedRight
BY DEF Init, SkippedRight

(* A file leaves the queue for a thread if its path fits, else as skipped. *)
LEMMA SkippedStep == SkippedRight /\ FreshStart /\ [Next]_vars => SkippedRight'
<1> SUFFICES ASSUME SkippedRight, FreshStart, [Next]_vars
             PROVE  SkippedRight'
  OBVIOUS
<1> USE DEF SkippedRight, Fitting
<1>1. ASSUME NEW t \in Threads, NEW f \in Files, SkipFile(t, f)
      PROVE  SkippedRight'
  BY <1>1 DEF SkipFile
<1>2. ASSUME NEW t \in Threads, NEW f \in Files, BeginSend(t, f)
      PROVE  SkippedRight'
  BY <1>2 DEF BeginSend
<1>3. CASE Crash
  BY <1>3 DEF Crash
<1>4. ASSUME todo' = todo, skipped' = skipped
      PROVE  SkippedRight'
  BY <1>4
<1> QED
  BY <1>1, <1>2, <1>3, <1>4 DEF Next, SendFile, NewArchive, LockMutex, AddEntry,
     WriteData, PadAndUnlock, Finish, WriteTable, WriteEntries, CopyBlock, CopyRest,
     CopyBytes, RemoveStore, Done, vars, sendVars

(* The bytes a content lies at are that content.                           *)
LEMMA HoldsReads ==
  ASSUME NEW s \in Seq(Byte), NEW c \in Seq(Byte), NEW at \in Nat, Holds(s, at, c)
  PROVE  SubSeq(s, at + 1, at + Len(c)) = c
<1> DEFINE r == SubSeq(s, at + 1, at + Len(c))
<1>1. Len(c) \in Nat /\ at + Len(c) <= Len(s)
  BY DEF Holds
<1>2. /\ r \in Seq(Byte) /\ Len(r) = Len(c)
      /\ \A k \in 1 .. Len(c) : r[k] = s[at + k]
  BY <1>1, SMTT(20)
<1>3. \A k \in 1 .. Len(c) : s[at + k] = c[k]
  BY DEF Holds
<1> HIDE DEF r
<1>4. r = c
  BY <1>2, <1>3, SeqEqual
<1> QED
  BY <1>4 DEF r

(* Read through its entry, a settled file has its own content.             *)
LEMMA EntryReads ==
  ASSUME IInv, Fits, NEW i \in Settled
  PROVE  ReadEntry(files[i]) = Content[files[i].file]
<1> DEFINE c == Content[files[i].file]
           d == DataOffset(Len(files))
<1>1. /\ i \in 1 .. Len(files) /\ ~Pending(i)
      /\ files[i].data \in Nat /\ d \in Nat
      /\ c \in Seq(Byte) /\ store \in Seq(Byte)
  BY EntryFields DEF IInv, TypeOK, Settled
<1>2. CASE phase = "send"
  <2>1. files[i].dataSize = Len(c) /\ Holds(store, files[i].data, c)
    BY <1>1, <1>2 DEF IInv, EntriesReadBack, Stored
  <2> HIDE DEF c
  <2>2. SubSeq(store, files[i].data + 1, files[i].data + Len(c)) = c
    BY <1>1, <2>1, HoldsReads
  <2> QED
    BY <1>2, <2>1, <2>2 DEF ReadEntry, c
<1>3. CASE phase \in {"copy", "done"}
  <2>1. /\ files[i].dataSize = Len(c)
        /\ files[i].data >= d
        /\ Holds(store, files[i].data - d, c)
        /\ image.table = files
    BY <1>1, <1>3 DEF IInv, CopiedSoFar
  <2>2. EntryAt(image, files[i]) = files[i].data - d
    BY <2>1 DEF EntryAt
  <2> DEFINE at == files[i].data - d
  <2>3. at \in Nat
    BY <1>1, <2>1
  <2> HIDE DEF c, at
  <2>4. SubSeq(store, at + 1, at + Len(c)) = c
    BY <1>1, <2>1, <2>3, HoldsReads DEF at
  <2> QED
    BY <1>3, <2>1, <2>2, <2>4 DEF ReadEntry, c, at
<1>4. CASE phase = "new"
  BY <1>1, <1>4 DEF IInv, FreshStart
<1> QED
  BY <1>2, <1>3, <1>4 DEF IInv, TypeOK

(* So the members are the settled files with their contents.               *)
OwnContents == Members = Pairs(SettledFiles)

LEMMA MembersAre == IInv /\ Fits => OwnContents
<1> SUFFICES ASSUME IInv, Fits
             PROVE  Members = Pairs(SettledFiles)
  BY DEF OwnContents
<1>1. \A i \in Settled : ReadEntry(files[i]) = Content[files[i].file]
  BY EntryReads
<1> QED
  BY <1>1 DEF Members, Pairs, SettledFiles

(* The settled files fit, and their entries are the only ones they have.   *)
LEMMA SettledFit == IInv => SettledFiles \subseteq Fitting
BY DEF IInv, EachFileOnce, EntriesTaken, SettledFiles, Settled

(* A step that adds nothing to the entries settles nothing.                *)
LEMMA SettledFrame ==
  ASSUME Len(files') = Len(files),
         \A i \in 1 .. Len(files) : files'[i].file = files[i].file,
         (\E t \in Threads : pc'[t] = "added") <=> (\E t \in Threads : pc[t] = "added")
  PROVE  SettledFiles' = SettledFiles
BY DEF SettledFiles, Settled, Pending

(* Adding an entry settles nothing yet: its bytes are still to come.       *)
LEMMA SettledAdd ==
  ASSUME IInv, NEW t \in Threads, AddEntry(t)
  PROVE  SettledFiles' = SettledFiles
<1> DEFINE e == [cur[t] EXCEPT !.data = Wrap(Len(store))]
<1>1. cur[t] \in Entry /\ pc[t] = "locked"
  BY DEF IInv, TypeOK, AddEntry, Step
<1>2. e \in Entry
  BY <1>1, WrapNat, EntryAtOffset DEF IInv, TypeOK
<1>3. files' = Append(files, e) /\ pc' = [pc EXCEPT ![t] = "added"]
  BY DEF AddEntry, Step
<1> HIDE DEF e
<1>4. /\ Len(files) \in Nat /\ Len(files') = Len(files) + 1
      /\ \A i \in 1 .. Len(files) : files'[i] = files[i]
  BY <1>2, <1>3, AppendProperties DEF IInv, TypeOK
<1>5. \A u \in Threads : pc[u] # "added"
  BY <1>1 DEF IInv, MutexHeld
<1>6. Settled = 1 .. Len(files)
  BY <1>5 DEF Settled, Pending
<1>7. \E u \in Threads : pc'[u] = "added"
  BY <1>3 DEF IInv, TypeOK
<1>8. Settled' = {i \in 1 .. Len(files') : i # Len(files')}
  BY <1>7 DEF Settled, Pending
<1>9. Settled' = 1 .. Len(files)
  BY <1>4, <1>8
<1> QED
  BY <1>4, <1>6, <1>9 DEF SettledFiles

(* Writing a file's bytes settles that file, which was not settled before. *)
LEMMA SettledWrite ==
  ASSUME IInv, NEW t \in Threads, WriteData(t)
  PROVE  /\ cur[t].file \in Fitting \ SettledFiles
         /\ SettledFiles' = SettledFiles \cup {cur[t].file}
<1> DEFINE n == Len(files)
<1>1. /\ pc[t] = "added" /\ files' = files
      /\ pc' = [pc EXCEPT ![t] = "written"]
  BY DEF WriteData, Step
<1>2. /\ files \in Seq(Entry) /\ n \in Nat \ {0}
      /\ files[n] = cur[t] /\ cur[t].file \in Fitting
  BY <1>1 DEF IInv, TypeOK, OwnEntry
<1>3. \A u \in Threads : pc'[u] # "added"
  BY <1>1 DEF IInv, TypeOK, MutexHeld
<1>4. Settled = {i \in 1 .. n : i # n}
  BY <1>1 DEF Settled, Pending
<1>5. Settled' = 1 .. n
  BY <1>1, <1>3 DEF Settled, Pending
<1>6. Settled' = Settled \cup {n} /\ n \notin Settled /\ n \in 1 .. n
  BY <1>2, <1>4, <1>5
<1>7. \A i \in Settled : files[i].file # files[n].file
  BY <1>4, <1>6 DEF IInv, EachFileOnce, OneEntryPerFile
<1> QED
  BY <1>1, <1>2, <1>6, <1>7 DEF SettledFiles

(* What Finish closes is complete: every file is settled or skipped.       *)
LEMMA ClosedComplete ==
  ASSUME IInv, SkippedRight, RemoveStore
  PROVE  /\ Files \subseteq SettledFiles \cup skipped
         /\ SettledFiles' = SettledFiles
<1>1. phase = "copy" /\ files' = files /\ pc' = pc
  BY DEF RemoveStore, sendVars
<1>2. /\ todo = {}
      /\ \A u \in Threads : pc[u] = "idle" /\ ~Waiting(u)
  BY <1>1 DEF IInv, CopiedSoFar, MutexHeld, Waiting
<1>3. Settled = 1 .. Len(files)
  BY <1>2 DEF Settled, Pending
<1>4. Fitting \subseteq SettledFiles
  BY <1>2, <1>3 DEF IInv, EachFileOnce, NoFileLost, SettledFiles
<1> QED
  BY <1>1, <1>2, <1>4, SettledFrame DEF SkippedRight

(* The rest of the invariant the refinement needs.                         *)
RInv == IInv /\ SkippedRight

(* Every step preserves it too.                                           *)
LEMMA RInvStep == RInv /\ [Next]_vars => RInv'
BY InvariantStep, SkippedStep DEF RInv, IInv

(***************************************************************************)
(* What a step does to the settled files, as SarPack sees it: nothing, one *)
(* more of them, one more skipped, the archive closed, or all forgotten.   *)
(***************************************************************************)
Moves ==
  \/ /\ SettledFiles' = SettledFiles /\ skipped' = skipped
     /\ (phase' = "done") = (phase = "done")
  \/ \E f \in Fitting \ (SettledFiles \cup skipped) :
       /\ SettledFiles' = SettledFiles \cup {f} /\ skipped' = skipped
       /\ phase # "done" /\ phase' # "done"
  \/ \E f \in (Files \ Fitting) \ (SettledFiles \cup skipped) :
       /\ SettledFiles' = SettledFiles /\ skipped' = skipped \cup {f}
       /\ phase # "done" /\ phase' # "done"
  \/ /\ phase # "done" /\ phase' = "done" /\ Files \subseteq SettledFiles \cup skipped
     /\ SettledFiles' = SettledFiles /\ skipped' = skipped
  \/ /\ phase # "done" /\ phase' # "done"
     /\ SettledFiles' = {} /\ skipped' = {}

LEMMA StepMoves == RInv /\ [Next]_vars => Moves
<1> SUFFICES ASSUME RInv, [Next]_vars
             PROVE  Moves
  OBVIOUS
<1>a. pc \in [Threads -> {"idle", "ready", "locked", "added", "written"}]
  BY DEF RInv, IInv, TypeOK
<1>1. CASE NewArchive
  <2>1. /\ files = <<>> /\ files' = <<>> /\ pc' = pc /\ skipped' = skipped
        /\ phase = "new" /\ phase' = "send"
    BY <1>1 DEF NewArchive, RInv, IInv, FreshStart
  <2> QED
    BY <2>1, SettledFrame DEF Moves
<1>2. ASSUME NEW t \in Threads, NEW f \in Files, SkipFile(t, f)
      PROVE  Moves
  <2>1. /\ files' = files /\ pc' = pc /\ phase = "send" /\ phase' = "send"
        /\ f \in Files \ Fitting /\ skipped' = skipped \cup {f}
    BY <1>2 DEF SkipFile
  <2>2. SettledFiles' = SettledFiles
    BY <2>1, SettledFrame
  <2>3. f \notin SettledFiles
    BY <2>1, SettledFit DEF RInv
  <2>4. CASE f \in skipped
    <3>1. skipped' = skipped
      BY <2>1, <2>4
    <3> QED
      BY <2>1, <2>2, <3>1 DEF Moves
  <2>5. CASE f \notin skipped
    BY <2>1, <2>2, <2>3, <2>5 DEF Moves
  <2> QED
    BY <2>4, <2>5
<1>3. ASSUME NEW t \in Threads, NEW f \in Files, BeginSend(t, f)
      PROVE  Moves
  <2>1. /\ files' = files /\ skipped' = skipped /\ phase' = phase
        /\ pc[t] = "idle" /\ pc' = [pc EXCEPT ![t] = "ready"]
    BY <1>3 DEF BeginSend, Step
  <2>2. (\E u \in Threads : pc'[u] = "added") <=> (\E u \in Threads : pc[u] = "added")
    BY <2>1, <1>a
  <2> QED
    BY <2>1, <2>2, SettledFrame DEF Moves
<1>4. ASSUME NEW t \in Threads, LockMutex(t)
      PROVE  Moves
  <2>1. /\ files' = files /\ skipped' = skipped /\ phase' = phase
        /\ pc[t] = "ready" /\ pc' = [pc EXCEPT ![t] = "locked"]
    BY <1>4 DEF LockMutex, Step
  <2>2. (\E u \in Threads : pc'[u] = "added") <=> (\E u \in Threads : pc[u] = "added")
    BY <2>1, <1>a
  <2> QED
    BY <2>1, <2>2, SettledFrame DEF Moves
<1>5. ASSUME NEW t \in Threads, AddEntry(t)
      PROVE  Moves
  BY <1>5, SettledAdd DEF Moves, RInv, AddEntry
<1>6. ASSUME NEW t \in Threads, WriteData(t)
      PROVE  Moves
  <2>1. phase = "send" /\ phase' = "send" /\ skipped' = skipped
    BY <1>6 DEF WriteData, Step
  <2>2. /\ cur[t].file \in Fitting \ SettledFiles
        /\ SettledFiles' = SettledFiles \cup {cur[t].file}
    BY <1>6, SettledWrite DEF RInv
  <2>3. cur[t].file \notin skipped
    BY <2>2 DEF RInv, SkippedRight
  <2> QED
    BY <2>1, <2>2, <2>3 DEF Moves
<1>7. ASSUME NEW t \in Threads, PadAndUnlock(t)
      PROVE  Moves
  <2>1. /\ files' = files /\ skipped' = skipped /\ phase' = phase
        /\ pc[t] = "written" /\ pc' = [pc EXCEPT ![t] = "idle"]
    BY <1>7 DEF PadAndUnlock, Step
  <2>2. (\E u \in Threads : pc'[u] = "added") <=> (\E u \in Threads : pc[u] = "added")
    BY <2>1, <1>a
  <2> QED
    BY <2>1, <2>2, SettledFrame DEF Moves
<1>8. CASE WriteTable
  <2>1. /\ files' = Relocated(DataOffset(Len(files)))
        /\ pc' = pc /\ skipped' = skipped /\ phase = "send" /\ phase' = "copy"
    BY <1>8 DEF WriteTable, WriteEntries
  <2>2. /\ Len(files') = Len(files)
        /\ \A i \in 1 .. Len(files) : files'[i].file = files[i].file
    BY <2>1, RelocatedType DEF RInv, IInv, TypeOK
  <2> QED
    BY <2>1, <2>2, SettledFrame DEF Moves
<1>9. CASE CopyBlock \/ CopyRest
  <2>1. files' = files /\ pc' = pc /\ skipped' = skipped /\ phase' = phase
    BY <1>9 DEF CopyBlock, CopyRest, CopyBytes, sendVars
  <2> QED
    BY <2>1, SettledFrame DEF Moves
<1>10. CASE RemoveStore
  BY <1>10, ClosedComplete DEF Moves, RInv, RemoveStore, sendVars
<1>11. CASE Crash
  <2>1. files' = <<>> /\ skipped' = {} /\ phase # "done" /\ phase' # "done"
    BY <1>11 DEF Crash
  <2>2. SettledFiles' = {}
    BY <2>1 DEF SettledFiles, Settled
  <2> QED
    BY <2>1, <2>2 DEF Moves
<1>12. CASE UNCHANGED vars
  <2>1. files' = files /\ pc' = pc /\ skipped' = skipped /\ phase' = phase
    BY <1>12 DEF vars, sendVars
  <2> QED
    BY <2>1, SettledFrame DEF Moves
<1> QED
  BY <1>1, <1>2, <1>3, <1>4, <1>5, <1>6, <1>7, <1>8, <1>9, <1>10, <1>11, <1>12
     DEF Next, SendFile, Finish, Done

(* The files of the members are the settled ones.                          *)
LEMMA PairsStored == ASSUME NEW fs PROVE {m[1] : m \in Pairs(fs)} = fs
<1>1. \A f \in fs : <<f, Content[f]>>[1] = f
  OBVIOUS
<1>2. \A f \in fs : f \in {m[1] : m \in Pairs(fs)}
  <2> TAKE f \in fs
  <2>1. <<f, Content[f]>> \in Pairs(fs)
    BY DEF Pairs
  <2> QED
    BY <1>1, <2>1
<1>3. \A m \in Pairs(fs) : m[1] \in fs
  BY <1>1 DEF Pairs
<1> QED
  BY <1>2, <1>3

(* Each of those moves is a step SarPack allows.                           *)
LEMMA MovesAllowed ==
  ASSUME Moves, OwnContents, OwnContents', SettledFiles \subseteq Files
  PROVE  [Pack!Next]_(Pack!packVars)
<1>a. Members = Pairs(SettledFiles) /\ Members' = Pairs(SettledFiles')
  BY DEF OwnContents, Pairs
<1>1. Pack!Stored = SettledFiles
  BY <1>a, PairsStored DEF Pack!Stored, Members
<1>2. Pack!Undecided = Files \ (SettledFiles \cup skipped)
  BY <1>1 DEF Pack!Undecided
<1>3. CASE /\ SettledFiles' = SettledFiles /\ skipped' = skipped
           /\ (phase' = "done") = (phase = "done")
  <2>1. Members' = Members
    BY <1>a, <1>3
  <2> QED
    BY <2>1, <1>3 DEF Pack!packVars, Members
<1>4. ASSUME NEW f \in Fitting \ (SettledFiles \cup skipped),
             SettledFiles' = SettledFiles \cup {f}, skipped' = skipped,
             phase # "done", phase' # "done"
      PROVE  Pack!Store(f)
  <2>1. Members' = Members \cup {<<f, Content[f]>>}
    BY <1>a, <1>4 DEF Pairs
  <2> QED
    BY <2>1, <1>2, <1>4 DEF Pack!Store, Members, Fitting
<1>5. ASSUME NEW f \in (Files \ Fitting) \ (SettledFiles \cup skipped),
             SettledFiles' = SettledFiles, skipped' = skipped \cup {f},
             phase # "done", phase' # "done"
      PROVE  Pack!Skip(f)
  <2>1. Members' = Members
    BY <1>a, <1>5
  <2> QED
    BY <2>1, <1>2, <1>5 DEF Pack!Skip, Members
<1>6. CASE /\ phase # "done" /\ phase' = "done" /\ Files \subseteq SettledFiles \cup skipped
           /\ SettledFiles' = SettledFiles /\ skipped' = skipped
  <2>1. Members' = Members
    BY <1>a, <1>6
  <2> QED
    BY <2>1, <1>2, <1>6 DEF Pack!Next, Pack!Close, Members
<1>7. CASE /\ phase # "done" /\ phase' # "done"
           /\ SettledFiles' = {} /\ skipped' = {}
  <2>1. Members' = {}
    BY <1>a, <1>7 DEF Pairs
  <2> QED
    BY <2>1, <1>7 DEF Pack!Next, Pack!StartOver, Members
<1> QED
  BY <1>3, <1>4, <1>5, <1>6, <1>7 DEF Moves, Pack!Next, Fitting

(***************************************************************************)
(* As long as offsets fit their fields, packing a folder, however threads  *)
(* and crashes interleave, implements SarPack (make_sar.cpp:63-128).       *)
(***************************************************************************)
THEOREM PacksAsPromised == Spec /\ []Fits => PackSpec
<1>1. Init => RInv
  BY InvariantInit, SkippedInit DEF RInv
<1>2. Init => Pack!Init
  <2> SUFFICES ASSUME Init
               PROVE  Pack!Init
    OBVIOUS
  <2>1. files = <<>> /\ skipped = {} /\ phase = "new"
    BY DEF Init
  <2>2. Members = {}
    BY <2>1 DEF Members, Settled
  <2> QED
    BY <2>1, <2>2 DEF Pack!Init, Members
<1>3. RInv /\ Fits => OwnContents
  BY MembersAre DEF RInv
<1>4. RInv /\ OwnContents /\ OwnContents' /\ [Next]_vars => [Pack!Next]_(Pack!packVars)
  <2> SUFFICES ASSUME RInv, OwnContents, OwnContents', [Next]_vars
               PROVE  [Pack!Next]_(Pack!packVars)
    OBVIOUS
  <2>1. Moves
    BY StepMoves
  <2>2. SettledFiles \subseteq Files
    BY SettledFit DEF RInv, Fitting
  <2> QED
    BY <2>1, <2>2, MovesAllowed
<1> QED
  BY <1>1, <1>2, <1>3, <1>4, RInvStep, PTL DEF Spec, PackSpec, Pack!Spec
=============================================================================
