----------------------------- MODULE ArhExtract -----------------------------
(***************************************************************************)
(* extract_arh: the files of an ARH/ARD pair.  The ARH's directory is a    *)
(* trie in two arrays: cell n has a parent b, and the letter between them  *)
(* is n XOR the parent's a.  A cell with a < 0 and b > 0 is a leaf: -a is  *)
(* where the rest of the name, a zero and the number of the file are among *)
(* the tails.  Both arrays are XORed with a key, which itself is the first *)
(* word of the tails.  The tool walks up from every leaf to a cell without *)
(* a parent, collects the letters backwards, and then sends the files in   *)
(* the order of the file entries.                                          *)
(*                                                                         *)
(* One element of a sequence of words stands for the four bytes of a word; *)
(* letters of a tail take one element each.                                *)
(***************************************************************************)
EXTENDS Integers, Sequences, SequencesExt

CONSTANTS
  Word,         (* The signed words.                                       *)
  Xor(_, _),    (* ^ on words.                                             *)
  LetterRange,  (* How many values a char has.                             *)
  Archives      (* What the tool may be given, see IsArchive below.        *)

Cells(a) == 0 .. Len(a.trie) - 1
Cell(trie, n) == trie[n + 1]

IsLeaf(cell) == cell.a < 0 /\ cell.b > 0

(* The text that starts behind element i and ends before a zero.           *)
TextLen(tails, i) ==
  CHOOSE k \in 0 .. Len(tails) :
    tails[i + k + 1] = 0 /\ \A j \in 1 .. k : tails[i + j] # 0
TextAt(tails, i) == [j \in 1 .. TextLen(tails, i) |-> tails[i + j]]

(* -a counts the key, which is not among the tails any more.               *)
TailStart(cell) == -cell.a - 1

(* Behind the zero is the number of the file.                              *)
FileIndex(tails, cell) ==
  tails[TailStart(cell) + TextLen(tails, TailStart(cell)) + 2]

Letter(parent, n) == Xor(parent.a, n) % LetterRange

NameOf(a, n) == a.path[n] \o a.tail[n]

(***************************************************************************)
(* An archive as arh.hpp has it.  path and tail are not part of the file:  *)
(* the letters from the topmost cell, the one without a parent, down to    *)
(* each cell, and the text that each leaf leads to.                        *)
(***************************************************************************)
IsTail(a, n) ==
  LET start == TailStart(Cell(a.trie, n)) text == a.tail[n] IN
    /\ start \in Nat /\ start + Len(text) + 2 <= Len(a.tails)
    /\ \A j \in 1 .. Len(text) : a.tails[start + j] = text[j] /\ text[j] # 0
    /\ a.tails[start + Len(text) + 1] = 0
    /\ a.tails[start + Len(text) + 2] = a.file[n]

IsPath(a, n) ==
  LET parent == Cell(a.trie, n).b IN
    /\ parent = 0 => a.path[n] = <<>>
    /\ parent > 0 =>
         /\ parent \in Cells(a) /\ Cell(a.trie, parent).b >= 0
         /\ a.path[n] = Append(a.path[parent], Letter(Cell(a.trie, parent), n))

LeavesOf(a) == {n \in Cells(a) : IsLeaf(Cell(a.trie, n))}

IsArchive(a) ==
  /\ a.valid \in BOOLEAN
  /\ a.key \in Word /\ a.keySeed \in Word
  /\ a.trie \in Seq([a : Word, b : Word])
  /\ Cells(a) \subseteq Word
  /\ Len(a.entries) \in Nat
  /\ \A i \in 1 .. Len(a.entries) : a.entries[i].index \in Nat
  /\ a.tails \in Seq(Word)
  /\ a.path \in [Cells(a) -> Seq(Word)]
  /\ a.tail \in [LeavesOf(a) -> Seq(Word)]
  /\ a.file \in [LeavesOf(a) -> 0 .. Len(a.entries) - 1]
  /\ \A n \in Cells(a) : IsPath(a, n)
  /\ \A n \in LeavesOf(a) : IsTail(a, n)
  /\ \A m, n \in LeavesOf(a) : a.file[m] = a.file[n] => m = n

ASSUME ArhAssumption ==
  /\ Word \subseteq Int /\ 0 \in Word
  /\ LetterRange \in Nat \ {0}
  /\ \A x, y \in Word : Xor(x, y) \in Word /\ Xor(Xor(x, y), y) = x
  /\ \A a \in Archives : IsArchive(a)

VARIABLES
  arc,          (* The archive, as it was before its words were mixed.     *)
  stage,        (* "open", "tails", "trie", "names", "climb", "send",      *)
                (* "done" or "failed".                                     *)
  key,          (* The first word of the tails until it is read; the key.  *)
  tailBuffer,
  trieBuffer,
  index,        (* The cell the loop over the trie is at.                  *)
  parentId, curentXor, curPath,
  fileNames,
  f,            (* How many file entries are done.                         *)
  sent          (* What the tool has sent.                                 *)

vars == <<arc, stage, key, tailBuffer, trieBuffer, index, parentId, curentXor,
          curPath, fileNames, f, sent>>

MixCell(cell, k) == [a |-> Xor(cell.a, k), b |-> Xor(cell.b, k)]
MixAll(words, k) == [i \in 1 .. Len(words) |-> Xor(words[i], k)]
MixTrie(trie, k) == [i \in 1 .. Len(trie) |-> MixCell(trie[i], k)]

Init ==
  /\ arc \in Archives
  /\ stage = "open"
  /\ key = Xor(arc.key, arc.keySeed)
  /\ tailBuffer = MixAll(arc.tails, arc.key)
  /\ trieBuffer = MixTrie(arc.trie, arc.key)
  /\ index = 0 /\ parentId = 0 /\ curentXor = 0 /\ curPath = <<>>
  /\ fileNames = <<>>
  /\ f = 0
  /\ sent = <<>>

-----------------------------------------------------------------------------
(* The header is read, and the key.                                        *)
Open ==
  /\ stage = "open"
  /\ IF arc.valid
       THEN stage' = "tails" /\ key' = Xor(key, arc.keySeed)
       ELSE stage' = "failed" /\ key' = key
  /\ UNCHANGED <<arc, tailBuffer, trieBuffer, index, parentId, curentXor,
                 curPath, fileNames, f, sent>>

DecryptTails ==
  /\ stage = "tails"
  /\ tailBuffer' = MixAll(tailBuffer, key)
  /\ stage' = "trie"
  /\ UNCHANGED <<arc, key, trieBuffer, index, parentId, curentXor, curPath,
                 fileNames, f, sent>>

DecryptTrie ==
  /\ stage = "trie"
  /\ trieBuffer' = MixTrie(trieBuffer, key)
  /\ fileNames' = [i \in 1 .. Len(arc.entries) |-> <<>>]
  /\ stage' = "names"
  /\ UNCHANGED <<arc, key, tailBuffer, index, parentId, curentXor, curPath, f, sent>>

-----------------------------------------------------------------------------
HasCell == stage = "names" /\ index < Len(trieBuffer)
Current == Cell(trieBuffer, index)

(* Mutation: the loop goes on without counting the cell.                   *)
NoLeafUncounted ==
  /\ HasCell /\ ~IsLeaf(Current)
  /\ UNCHANGED vars

NoLeaf ==
  /\ HasCell /\ ~IsLeaf(Current)
  /\ index' = index + 1
  /\ UNCHANGED <<arc, stage, key, tailBuffer, trieBuffer, parentId, curentXor,
                 curPath, fileNames, f, sent>>

(* A leaf: its name is read from the end.                                  *)
Leaf ==
  /\ HasCell /\ IsLeaf(Current)
  /\ parentId' = Current.b
  /\ curentXor' = index
  /\ curPath' = <<>>
  /\ stage' = "climb"
  /\ UNCHANGED <<arc, key, tailBuffer, trieBuffer, index, fileNames, f, sent>>

(* Mutation: every letter is taken with the leaf's cell.                   *)
ClimbFromLeaf ==
  /\ stage = "climb" /\ parentId # 0
  /\ LET parent == Cell(trieBuffer, parentId) IN
       /\ curPath' = Append(curPath, Letter(parent, curentXor))
       /\ parentId' = parent.b
  /\ UNCHANGED <<arc, stage, key, tailBuffer, trieBuffer, index, curentXor,
                 fileNames, f, sent>>

Climb ==
  /\ stage = "climb" /\ parentId # 0
  /\ LET parent == Cell(trieBuffer, parentId) IN
       /\ curPath' = Append(curPath, Letter(parent, curentXor))
       /\ curentXor' = parentId
       /\ parentId' = parent.b
  /\ UNCHANGED <<arc, stage, key, tailBuffer, trieBuffer, index, fileNames, f, sent>>

(* Mutation: the letters stay as they were found.                          *)
NameFileBackwards ==
  /\ stage = "climb" /\ parentId = 0
  /\ fileNames' = [fileNames EXCEPT ![FileIndex(tailBuffer, Current) + 1] =
       curPath \o TextAt(tailBuffer, TailStart(Current))]
  /\ index' = index + 1
  /\ stage' = "names"
  /\ UNCHANGED <<arc, key, tailBuffer, trieBuffer, parentId, curentXor, curPath,
                 f, sent>>

(* At the top: the letters are turned round and the tail put behind them.  *)
NameFile ==
  /\ stage = "climb" /\ parentId = 0
  /\ fileNames' = [fileNames EXCEPT ![FileIndex(tailBuffer, Current) + 1] =
       Reverse(curPath) \o TextAt(tailBuffer, TailStart(Current))]
  /\ index' = index + 1
  /\ stage' = "names"
  /\ UNCHANGED <<arc, key, tailBuffer, trieBuffer, parentId, curentXor, curPath,
                 f, sent>>

(* The loop over the trie is over; the buffers are disposed of.            *)
EndNames ==
  /\ stage = "names" /\ index = Len(trieBuffer)
  /\ stage' = "send"
  /\ UNCHANGED <<arc, key, tailBuffer, trieBuffer, index, parentId, curentXor,
                 curPath, fileNames, f, sent>>

-----------------------------------------------------------------------------
HasEntry == stage = "send" /\ f < Len(arc.entries)
Entry == arc.entries[f + 1]
KnownFile == Entry.index < Len(fileNames)
Name == fileNames[Entry.index + 1]

(* DecompressXBC1 throws at data without its header.                       *)
Readable(entry) == entry.compressed => entry.stored.xbc1
Content(entry) ==
  IF entry.compressed THEN entry.stored.content ELSE entry.stored

Skip ==
  /\ HasEntry /\ KnownFile /\ Name = <<>>
  /\ f' = f + 1
  /\ UNCHANGED <<arc, stage, key, tailBuffer, trieBuffer, index, parentId,
                 curentXor, curPath, fileNames, sent>>

(* Mutation: names are taken in the order of the entries.                  *)
SendByPosition ==
  /\ HasEntry /\ KnownFile /\ Name # <<>> /\ Readable(Entry)
  /\ sent' = Append(sent, [name |-> fileNames[f + 1], data |-> Content(Entry)])
  /\ f' = f + 1
  /\ UNCHANGED <<arc, stage, key, tailBuffer, trieBuffer, index, parentId,
                 curentXor, curPath, fileNames>>

Send ==
  /\ HasEntry /\ KnownFile /\ Name # <<>> /\ Readable(Entry)
  /\ sent' = Append(sent, [name |-> Name, data |-> Content(Entry)])
  /\ f' = f + 1
  /\ UNCHANGED <<arc, stage, key, tailBuffer, trieBuffer, index, parentId,
                 curentXor, curPath, fileNames>>

(* fileNames.at or DecompressXBC1 throws; what was sent stays, and of the  *)
(* entry at most an empty file.                                            *)
Throw ==
  /\ HasEntry
  /\ KnownFile => Name # <<>> /\ ~Readable(Entry)
  /\ stage' = "failed"
  /\ UNCHANGED <<arc, key, tailBuffer, trieBuffer, index, parentId, curentXor,
                 curPath, fileNames, f, sent>>

EndSend ==
  /\ stage = "send" /\ f = Len(arc.entries)
  /\ stage' = "done"
  /\ UNCHANGED <<arc, key, tailBuffer, trieBuffer, index, parentId, curentXor,
                 curPath, fileNames, f, sent>>

Step ==
  \/ Open \/ DecryptTails \/ DecryptTrie
  \/ NoLeaf \/ Leaf \/ Climb \/ NameFile \/ EndNames
  \/ Skip \/ Send \/ Throw \/ EndSend

Ended == stage \in {"done", "failed"}

Next == Step \/ (Ended /\ UNCHANGED vars)

(* The tool is one thread that does nothing but this.                      *)
Spec == Init /\ [][Next]_vars /\ WF_vars(Step)

-----------------------------------------------------------------------------
Stages == {"open", "tails", "trie", "names", "climb", "send", "done", "failed"}

TypeOK ==
  /\ arc \in Archives
  /\ stage \in Stages
  /\ key \in Word
  /\ tailBuffer \in Seq(Word)
  /\ trieBuffer \in Seq([a : Word, b : Word])
  /\ index \in Nat
  /\ parentId \in Word
  /\ curentXor \in Word
  /\ curPath \in Seq(Int)
  /\ fileNames \in Seq(Seq(Int))
  /\ f \in 0 .. Len(arc.entries)

(* What is read with the key is what the archive was made of.              *)
Decrypted ==
  /\ stage = "open" => key = Xor(arc.key, arc.keySeed)
  /\ stage \in {"tails", "trie"} => key = arc.key
  /\ stage \in {"open", "tails"} => tailBuffer = MixAll(arc.tails, arc.key)
  /\ stage \in {"open", "tails", "trie"} =>
       trieBuffer = MixTrie(arc.trie, arc.key) /\ index = 0
  /\ stage \in {"trie", "names", "climb", "send"} => tailBuffer = arc.tails
  /\ stage \in {"names", "climb", "send"} =>
       /\ trieBuffer = arc.trie
       /\ Len(fileNames) = Len(arc.entries)

(* The letters so far are the end of the path to the leaf, backwards.      *)
ClimbRight ==
  stage = "climb" =>
    /\ index \in LeavesOf(arc) /\ curentXor \in Cells(arc)
    /\ parentId = Cell(arc.trie, curentXor).b /\ parentId >= 0
    /\ arc.path[index] = arc.path[curentXor] \o Reverse(curPath)

(***************************************************************************)
(* Every leaf that the loop has passed has given its file the name it has  *)
(* in the trie, however deep it is and wherever its tail is                *)
(* (extract_arh.cpp:78-100), and files without a leaf have none.           *)
(***************************************************************************)
Passed(n) == n < index \/ stage \in {"send", "done"}

NamesRight ==
  stage \in {"names", "climb", "send", "done"} =>
    \A i \in 0 .. Len(arc.entries) - 1 :
      /\ \A n \in LeavesOf(arc) :
           arc.file[n] = i /\ Passed(n) => fileNames[i + 1] = NameOf(arc, n)
      /\ (\A n \in LeavesOf(arc) : arc.file[n] = i => ~Passed(n))
           => fileNames[i + 1] = <<>>

IInv == TypeOK /\ Decrypted /\ ClimbRight /\ NamesRight

(***************************************************************************)
(* What was sent is, in the order of the entries, each file that has a     *)
(* name, under the name that the trie has for it and with its own content  *)
(* (extract_arh.cpp:113-138), also when a later entry cannot be read.      *)
(***************************************************************************)
Leads(n, e) == arc.file[n] = e.index
Named == {p \in 1 .. f : \E n \in LeavesOf(arc) : Leads(n, arc.entries[p])}

SentRight ==
  \E from \in [1 .. Len(sent) -> 1 .. f] :
    /\ \A i, j \in 1 .. Len(sent) : i < j => from[i] < from[j]
    /\ {from[i] : i \in 1 .. Len(sent)} = Named
    /\ \A i \in 1 .. Len(sent) : \E n \in LeavesOf(arc) :
         /\ Leads(n, arc.entries[from[i]])
         /\ sent[i] = [name |-> NameOf(arc, n),
                       data |-> Content(arc.entries[from[i]])]

(***************************************************************************)
(* The tool ends, and fails only at a file that is no archive, or at an    *)
(* entry that has no place for its name or cannot be unpacked.             *)
(***************************************************************************)
BadEntry(e) == e.index >= Len(arc.entries) \/ ~Readable(e)

Ends ==
  <>(\/ stage = "done"
     \/ stage = "failed" /\ (arc.valid => BadEntry(arc.entries[f + 1])))
=============================================================================
