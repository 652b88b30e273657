------------------------------ MODULE SarCreate ------------------------------
(***************************************************************************)
(* make_sar: worker threads hand the files of a folder to one              *)
(* SarMakeContext, which appends their bytes to a side file, the store     *)
(* (<archive>.data), and collects their entries in memory; Finish writes   *)
(* header and entries, copies the store behind them block by block and     *)
(* removes it.  The process may die anywhere before the end and be run     *)
(* again, finding on disk what it left.                                    *)
(***************************************************************************)
EXTENDS SarFormat

CONSTANTS
  Files,        (* The files of the folder, one per path.                  *)
  Threads,      (* The threads that call SendFile.                         *)
  None,         (* No thread holds the mutex; a thread has no curFile.     *)
  Content,      (* What each file holds.                                   *)
  NameLen,      (* The length of each file's path.                         *)
  NameCap,      (* sizeof(SAR::FileEntry::fileName), 52 in the code.       *)
  Pad,          (* The byte ApplyPadding writes.                           *)
  Align,        (* The alignment ApplyPadding pads to.                     *)
  BlockSize,    (* The buffer Finish copies with, 0x40000 in the code.     *)
  BigEndian,    (* settings.bigEndian                                      *)
  MaxCrashes    (* Bound: how often the process may die.                   *)

ASSUME CreateAssumption ==
  /\ None \notin Threads
  /\ Content \in [Files -> Seq(Byte)]
  /\ NameLen \in [Files -> Nat]
  /\ NameCap \in Nat
  /\ Pad \in Byte
  /\ Align \in Nat \ {0}
  /\ BlockSize \in Nat \ {0}
  /\ BigEndian \in BOOLEAN
  /\ MaxCrashes \in Nat

VARIABLES
  pc,           (* Where each thread is in SendFile.                       *)
  cur,          (* Each thread's curFile, or None.                         *)
  todo,         (* The files no thread has taken yet.                      *)
  skipped,      (* The files refused for their path.                       *)
  mtx,          (* The thread that holds SendFile's mutex, or None.        *)
  files,        (* The context's entries, in the order they were added.    *)
  phase,        (* The context: "new", "send", "copy" or "done".           *)
  store,        (* The bytes of <archive>.data.                            *)
  storeOnDisk,  (* Whether <archive>.data exists.                          *)
  image,        (* The archive file, as the reader will see it.            *)
  crashes       (* How often the process has died.                         *)

sendVars == <<pc, cur, todo, skipped, mtx, files>>
diskVars == <<store, storeOnDisk, image>>
vars == <<sendVars, phase, diskVars, crashes>>

(* The guard of SendFile: one byte of fileName is left for a terminator.   *)
Fitting == {f \in Files : NameLen[f] < NameCap}

Entry ==
  [file : Files, data : Nat, dataSize : Nat, terminated : BOOLEAN]

(* How far ApplyPadding is from the next aligned offset.                   *)
Padding(n) == IF n % Align = 0 THEN 0 ELSE Align - (n % Align)

NoImage == [id |-> "other", big |-> FALSE, table |-> <<>>, body |-> <<>>]

-----------------------------------------------------------------------------
Init ==
  /\ pc = [t \in Threads |-> "idle"]
  /\ cur = [t \in Threads |-> None]
  /\ todo = Files
  /\ skipped = {}
  /\ mtx = None
  /\ files = <<>>
  /\ phase = "new"
  /\ store = <<>>
  /\ storeOnDisk = FALSE
  /\ image = NoImage
  /\ crashes = 0

(* A thread goes from one step of SendFile to the next.                    *)
Step(t, from, to) ==
  /\ phase = "send"
  /\ pc[t] = from
  /\ pc' = [pc EXCEPT ![t] = to]

(***************************************************************************)
(* AppNewArchive: a fresh context for the folder.  Opening the store       *)
(* empties what an earlier run may have left of it.                        *)
(***************************************************************************)
NewArchive ==
  /\ phase = "new"
  /\ phase' = "send"
  /\ store' = <<>>
  /\ storeOnDisk' = TRUE
  /\ files' = <<>>
  /\ UNCHANGED <<pc, cur, todo, skipped, mtx, image, crashes>>

(* SendFile returns early, with a warning, when the path is too long.      *)
SkipFile(t, f) ==
  /\ phase = "send"
  /\ pc[t] = "idle"
  /\ f \in todo \ Fitting
  /\ todo' = todo \ {f}
  /\ skipped' = skipped \cup {f}
  /\ UNCHANGED <<pc, cur, mtx, files, phase, diskVars, crashes>>

(* Mutation: the file is left in the queue, for another thread to take.    *)
BeginSendAgain(t, f) ==
  /\ Step(t, "idle", "ready")
  /\ f \in todo \cap Fitting
  /\ cur' = [cur EXCEPT ![t] = [file |-> f, data |-> 0,
                                dataSize |-> Wrap(Len(Content[f])),
                                terminated |-> TRUE]]
  /\ UNCHANGED <<todo, skipped, mtx, files, phase, diskVars, crashes>>

(***************************************************************************)
(* SendFile up to the mutex: size, path and hash in curFile, bytes read.   *)
(* curFile is not initialised and only the path is copied into fileName:   *)
(* the byte after it is a terminator only if the stack held a zero there.  *)
(***************************************************************************)
BeginSend(t, f) ==
  /\ Step(t, "idle", "ready")
  /\ f \in todo \cap Fitting
  /\ todo' = todo \ {f}
  /\ \E terminated \in BOOLEAN :
       cur' = [cur EXCEPT ![t] = [file |-> f, data |-> 0,
                                  dataSize |-> Wrap(Len(Content[f])),
                                  terminated |-> terminated]]
  /\ UNCHANGED <<skipped, mtx, files, phase, diskVars, crashes>>

(* Mutation: SendFile without the lock_guard.                              *)
LockMutexUnguarded(t) ==
  /\ Step(t, "ready", "locked")
  /\ mtx' = t
  /\ UNCHANGED <<cur, todo, skipped, files, phase, diskVars, crashes>>

(* std::lock_guard: wait for the mutex and take it.                        *)
LockMutex(t) ==
  /\ Step(t, "ready", "locked")
  /\ mtx = None
  /\ mtx' = t
  /\ UNCHANGED <<cur, todo, skipped, files, phase, diskVars, crashes>>

(* curFile.data takes the store's position; the entry joins the context's. *)
AddEntry(t) ==
  /\ Step(t, "locked", "added")
  /\ LET e == [cur[t] EXCEPT !.data = Wrap(Len(store))]
     IN  /\ cur' = [cur EXCEPT ![t] = e]
         /\ files' = Append(files, e)
  /\ UNCHANGED <<todo, skipped, mtx, phase, diskVars, crashes>>

(* WriteContainer: the file's bytes go to the end of the store.            *)
WriteData(t) ==
  /\ Step(t, "added", "written")
  /\ store' = store \o Content[cur[t].file]
  /\ UNCHANGED <<cur, todo, skipped, mtx, files, phase, storeOnDisk, image, crashes>>

(* Mutation: the mutex stays locked.                                       *)
PadAndKeepLock(t) ==
  /\ Step(t, "written", "idle")
  /\ store' = store \o [i \in 1 .. Padding(Len(store)) |-> Pad]
  /\ cur' = [cur EXCEPT ![t] = None]
  /\ UNCHANGED <<todo, skipped, mtx, files, phase, storeOnDisk, image, crashes>>

(* ApplyPadding, and the lock_guard's destructor.                          *)
PadAndUnlock(t) ==
  /\ Step(t, "written", "idle")
  /\ store' = store \o [i \in 1 .. Padding(Len(store)) |-> Pad]
  /\ cur' = [cur EXCEPT ![t] = None]
  /\ mtx' = None
  /\ UNCHANGED <<todo, skipped, files, phase, storeOnDisk, image, crashes>>

-----------------------------------------------------------------------------
(* The entries with their offsets shifted by n.                            *)
Relocated(n) ==
  [i \in 1 .. Len(files) |-> [files[i] EXCEPT !.data = Wrap(@ + n)]]

(* What WriteTable writes, and keeps: the entries, relocated.              *)
WriteEntries(entries) ==
  /\ phase = "send"
  /\ files' = entries
  /\ \E id \in MagicRead :
       image' = [id |-> id, big |-> BigEndian, table |-> entries, body |-> <<>>]
  /\ phase' = "copy"
  /\ UNCHANGED <<pc, cur, todo, skipped, mtx, store, storeOnDisk, crashes>>

AllSent == todo = {} /\ \A t \in Threads : pc[t] = "idle"

(* Mutations: offsets left relative to the store; Finish while a thread is *)
(* still inside SendFile.                                                  *)
WriteTableRelative == AllSent /\ WriteEntries(Relocated(0))
WriteTableEarly == todo = {} /\ WriteEntries(Relocated(DataOffset(Len(files))))

(***************************************************************************)
(* Finish.  The framework calls it when every file has been sent.  Of the  *)
(* header only version, entries and data are assigned: id is whatever was  *)
(* on the stack.                                                           *)
(***************************************************************************)
WriteTable == AllSent /\ WriteEntries(Relocated(DataOffset(Len(files))))

Copied == Len(image.body)

(* The next n bytes of the store go to the end of the archive.             *)
CopyBytes(n) ==
  /\ phase = "copy"
  /\ image' = [image EXCEPT !.body = @ \o SubSeq(store, Copied + 1, Copied + n)]
  /\ UNCHANGED <<sendVars, phase, store, storeOnDisk, crashes>>

CopyBlock ==
  /\ Copied + BlockSize <= Len(store)
  /\ CopyBytes(BlockSize)

CopyRest ==
  /\ Copied + BlockSize > Len(store)
  /\ Copied < Len(store)
  /\ CopyBytes(Len(store) - Copied)

(* Mutation: the bytes after the last whole block are forgotten.           *)
RemoveStoreEarly ==
  /\ phase = "copy"
  /\ Copied + BlockSize > Len(store)
  /\ storeOnDisk' = FALSE
  /\ phase' = "done"
  /\ UNCHANGED <<sendVars, store, image, crashes>>

RemoveStore ==
  /\ phase = "copy"
  /\ Copied = Len(store)
  /\ storeOnDisk' = FALSE
  /\ phase' = "done"
  /\ UNCHANGED <<sendVars, store, image, crashes>>

-----------------------------------------------------------------------------
(***************************************************************************)
(* The process dies.  Memory is lost and the store stays on disk as it is. *)
(* So does a partial archive, but Finish empties that before anything      *)
(* reads it: it is dropped here.                                           *)
(***************************************************************************)
Crash ==
  /\ crashes < MaxCrashes
  /\ phase \in {"send", "copy"}
  /\ crashes' = crashes + 1
  /\ phase' = "new"
  /\ pc' = [t \in Threads |-> "idle"]
  /\ cur' = [t \in Threads |-> None]
  /\ todo' = Files
  /\ skipped' = {}
  /\ mtx' = None
  /\ files' = <<>>
  /\ image' = NoImage
  /\ UNCHANGED <<store, storeOnDisk>>

SendFile(t) ==
  \/ \E f \in Files : SkipFile(t, f) \/ BeginSend(t, f)
  \/ LockMutex(t)
  \/ AddEntry(t)
  \/ WriteData(t)
  \/ PadAndUnlock(t)

Finish == WriteTable \/ CopyBlock \/ CopyRest \/ RemoveStore

(* Nothing is left to do once the archive is closed.                       *)
Done == phase = "done" /\ UNCHANGED vars

Next ==
  \/ NewArchive
  \/ \E t \in Threads : SendFile(t)
  \/ Finish
  \/ Crash
  \/ Done

(***************************************************************************)
(* The process is assumed to be scheduled: a thread that can take its next *)
(* step takes it, and so does the thread that calls Finish.  Crashes are   *)
(* not fair.                                                               *)
(***************************************************************************)
Fairness ==
  /\ WF_vars(NewArchive)
  /\ \A t \in Threads : WF_vars(SendFile(t))
  /\ WF_vars(Finish)

Spec == Init /\ [][Next]_vars
FairSpec == Spec /\ Fairness

-----------------------------------------------------------------------------
TypeOK ==
  /\ pc \in [Threads -> {"idle", "ready", "locked", "added", "written"}]
  /\ cur \in [Threads -> Entry \cup {None}]
  /\ \A t \in Threads : pc[t] # "idle" => cur[t] \in Entry
  /\ todo \subseteq Files
  /\ skipped \subseteq Files
  /\ mtx \in Threads \cup {None}
  /\ files \in Seq(Entry)
  /\ phase \in {"new", "send", "copy", "done"}
  /\ store \in Seq(Byte)
  /\ storeOnDisk \in BOOLEAN
  /\ image \in [id : MagicRead, big : BOOLEAN, table : Seq(Entry), body : Seq(Byte)]
  /\ crashes \in 0 .. MaxCrashes

(* Every offset the archive needs fits its field, even the one past it.    *)
Fits == DataOffset(Len(files)) + Len(store) < OffsetRange

(* The entry a thread has just added: its bytes are not in the store yet.  *)
Pending(i) == i = Len(files) /\ \E t \in Threads : pc[t] = "added"

(* Entry i's bytes lie in the store, where it says and as many as it says. *)
Stored(i) ==
  /\ files[i].dataSize = Len(Content[files[i].file])
  /\ Holds(store, files[i].data, Content[files[i].file])

(***************************************************************************)
(* While files are sent, by however many threads at once, every entry but  *)
(* the pending one points at the bytes of its own file in the store, and   *)
(* the pending one at the store's end (make_sar.cpp:84-87).                *)
(***************************************************************************)
EntriesReadBack ==
  phase = "send" /\ Fits =>
    \A i \in 1 .. Len(files) :
      IF Pending(i) THEN files[i].data = Len(store) ELSE Stored(i)

(***************************************************************************)
(* A closed archive, read as sar_extract reads it, yields every file of    *)
(* the folder whose path fits, with that file's content: relocating the    *)
(* offsets and copying by blocks lose and move nothing                     *)
(* (make_sar.cpp:92-128 against sar_extract.cpp:50-53).                    *)
(***************************************************************************)
RoundTrip ==
  phase = "done" /\ Fits =>
    /\ {image.table[i].file : i \in 1 .. Len(image.table)} = Fitting
    /\ \A i, j \in 1 .. Len(image.table) :
         image.table[i].file = image.table[j].file => i = j
    /\ \A i \in 1 .. Len(image.table) :
         Yields(image, image.table[i], Content[image.table[i].file])

(***************************************************************************)
(* The store is removed, by Finish, only when all of it is in the archive, *)
(* and no step of the tool shortens a store that is still being written or *)
(* copied (make_sar.cpp:110-127).                                          *)
(***************************************************************************)
StoreKept ==
  [][ /\ storeOnDisk /\ ~storeOnDisk' => image'.body = store
      /\ phase \in {"send", "copy"} => Len(store') >= Len(store) ]_vars

(***************************************************************************)
(* Why these hold, as an invariant that every step preserves.              *)
(***************************************************************************)
Waiting(t) == pc[t] \in {"ready", "locked"}

(* The mutex is with the thread that is between LockMutex and Unlock.      *)
MutexHeld ==
  /\ \A t \in Threads : pc[t] \in {"locked", "added", "written"} <=> mtx = t
  /\ phase # "send" => \A t \in Threads : pc[t] = "idle"

(* A context is created before any file is taken.                          *)
FreshStart == phase = "new" => todo = Files /\ files = <<>>

(* A thread's curFile describes its file, and is the entry it added last.  *)
OwnEntry ==
  \A t \in Threads :
    /\ pc[t] # "idle" => /\ cur[t].file \in Fitting
                         /\ cur[t].dataSize = Wrap(Len(Content[cur[t].file]))
    /\ pc[t] = "added" => Len(files) > 0 /\ files[Len(files)] = cur[t]

(***************************************************************************)
(* A file whose path fits is in exactly one place: the queue, one thread's *)
(* hands, or one entry.                                                    *)
(***************************************************************************)
OneEntryPerFile ==
  \A i, j \in 1 .. Len(files) : files[i].file = files[j].file => i = j

EntriesTaken ==
  \A i \in 1 .. Len(files) : files[i].file \in Fitting \ todo

WaitingApart ==
  \A t \in Threads : Waiting(t) =>
    /\ cur[t].file \notin todo
    /\ \A i \in 1 .. Len(files) : files[i].file # cur[t].file
    /\ \A u \in Threads : Waiting(u) /\ cur[u].file = cur[t].file => u = t

NoFileLost ==
  \A f \in Fitting :
    \/ f \in todo
    \/ \E i \in 1 .. Len(files) : files[i].file = f
    \/ \E t \in Threads : Waiting(t) /\ cur[t].file = f

EachFileOnce ==
  OneEntryPerFile /\ EntriesTaken /\ WaitingApart /\ NoFileLost

(***************************************************************************)
(* The archive's table is the context's entries, its body a beginning of   *)
(* the store, and a relocated entry still selects its own file's bytes.    *)
(***************************************************************************)
CopiedSoFar ==
  phase \in {"copy", "done"} =>
    /\ todo = {}
    /\ image.table = files
    /\ Copied <= Len(store)
    /\ \A k \in 1 .. Copied : image.body[k] = store[k]
    /\ phase = "done" => Copied = Len(store)
    /\ Fits => \A i \in 1 .. Len(files) :
         /\ files[i].dataSize = Len(Content[files[i].file])
         /\ files[i].data >= DataOffset(Len(files))
         /\ Holds(store, files[i].data - DataOffset(Len(files)),
                  Content[files[i].file])

IInv ==
  /\ TypeOK
  /\ MutexHeld
  /\ FreshStart
  /\ OwnEntry
  /\ EachFileOnce
  /\ EntriesReadBack
  /\ CopiedSoFar

(***************************************************************************)
(* The archive sar_extract opens is one it recognises: what make_sar       *)
(* closes has a magic that ProcessClass(SAR::Header) accepts, and paths    *)
(* that end inside fileName.                                               *)
(***************************************************************************)
Recognised ==
  phase = "done" =>
    /\ Decodes(image)
    /\ \A i \in 1 .. Len(image.table) : image.table[i].terminated

(***************************************************************************)
(* However threads and crashes interleave, packing ends with the archive   *)
(* closed: nobody waits for the mutex for ever.                            *)
(***************************************************************************)
EventuallyClosed == <>[](phase = "done")

(***************************************************************************)
(* Packing implements its promise.  A file is a member from the moment its *)
(* bytes are complete; what it then holds is read back from the store      *)
(* through its entry.                                                      *)
(***************************************************************************)
Settled == {i \in 1 .. Len(files) : ~Pending(i)}

ReadEntry(e) ==
  LET at == IF phase = "send" THEN e.data ELSE EntryAt(image, e)
  IN  SubSeq(store, at + 1, at + e.dataSize)

Pack ==
  INSTANCE SarPack WITH
    members <- {<<files[i].file, ReadEntry(files[i])>> : i \in Settled},
    closed <- (phase = "done")

PackSpec == Pack!Spec
=============================================================================
