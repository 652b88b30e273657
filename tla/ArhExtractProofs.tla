-------------------------- MODULE ArhExtractProofs --------------------------
(***************************************************************************)
(* The names that extract_arh reads from a trie, for every archive that is *)
(* as arh.hpp has it, every key and every width of words.                  *)
(***************************************************************************)
EXTENDS ArhExtract, SequenceTheorems, TLAPS

TrieCell == [a : Word, b : Word]

(* The parts of an archive that the steps below need.                      *)
LEMMA ArchiveFacts ==
  ASSUME NEW a \in Archives
  PROVE  /\ a.key \in Word /\ a.keySeed \in Word
         /\ a.trie \in Seq(TrieCell) /\ Len(a.trie) \in Nat
         /\ a.tails \in Seq(Word) /\ Len(a.tails) \in Nat
         /\ Cells(a) \subseteq Word
         /\ a.path \in [Cells(a) -> Seq(Word)]
         /\ a.tail \in [LeavesOf(a) -> Seq(Word)]
         /\ a.file \in [LeavesOf(a) -> 0 .. Len(a.entries) - 1]
         /\ \A n \in Cells(a) : IsPath(a, n) /\ Cell(a.trie, n) \in TrieCell
         /\ \A n \in LeavesOf(a) : IsTail(a, n) /\ n \in Cells(a)
         /\ \A m, n \in LeavesOf(a) : a.file[m] = a.file[n] => m = n
<1>1. IsArchive(a)
  BY ArhAssumption
<1>2. a.trie \in Seq(TrieCell) /\ a.tails \in Seq(Word)
  BY <1>1 DEF IsArchive, TrieCell
<1>3. Len(a.trie) \in Nat /\ Len(a.tails) \in Nat
  BY <1>2
<1>4. ASSUME NEW n \in Cells(a) PROVE Cell(a.trie, n) \in TrieCell
  <2>1. n + 1 \in 1 .. Len(a.trie)
    BY <1>3 DEF Cells
  <2>. QED
    BY <1>2, <2>1 DEF Cell
<1>. QED
  BY <1>1, <1>2, <1>3, <1>4 DEF IsArchive, LeavesOf

(* A function on 1 .. n is a sequence.                                     *)
LEMMA FunctionIsSeq ==
  ASSUME NEW S, NEW n \in Nat, NEW g \in [1 .. n -> S]
  PROVE  g \in Seq(S) /\ Len(g) = n
  OBVIOUS

(* Mixing a key into words gives words.                                    *)
LEMMA MixAllType ==
  ASSUME NEW w \in Seq(Word), NEW k \in Word
  PROVE  /\ MixAll(w, k) \in Seq(Word) /\ Len(MixAll(w, k)) = Len(w)
         /\ \A i \in 1 .. Len(w) : MixAll(w, k)[i] = Xor(w[i], k)
<1>1. Len(w) \in Nat /\ \A i \in 1 .. Len(w) : w[i] \in Word
  OBVIOUS
<1>2. \A i \in 1 .. Len(w) : Xor(w[i], k) \in Word
  BY <1>1, ArhAssumption
<1>3. MixAll(w, k) \in [1 .. Len(w) -> Word]
  BY <1>2 DEF MixAll
<1>. QED
  BY <1>1, <1>3, FunctionIsSeq DEF MixAll

(* A key mixed in twice is gone.                                           *)
LEMMA MixTwice ==
  ASSUME NEW w \in Seq(Word), NEW k \in Word
  PROVE  MixAll(MixAll(w, k), k) = w
<1>1. MixAll(w, k) \in Seq(Word) /\ Len(MixAll(w, k)) = Len(w)
  BY MixAllType
<1>2. /\ MixAll(MixAll(w, k), k) \in Seq(Word)
      /\ Len(MixAll(MixAll(w, k), k)) = Len(w)
  BY <1>1, MixAllType
<1>3. ASSUME NEW i \in 1 .. Len(w)
      PROVE  MixAll(MixAll(w, k), k)[i] = w[i]
  <2>1. w[i] \in Word
    OBVIOUS
  <2>2. MixAll(MixAll(w, k), k)[i] = Xor(MixAll(w, k)[i], k)
    BY <1>1, MixAllType
  <2>3. MixAll(w, k)[i] = Xor(w[i], k)
    BY MixAllType
  <2>. QED
    BY <2>1, <2>2, <2>3, ArhAssumption
<1>. QED
  BY <1>2, <1>3, SeqEqual

(* A key mixed into a cell.                                                *)
LEMMA MixCellTwice ==
  ASSUME NEW c \in TrieCell, NEW k \in Word
  PROVE  MixCell(c, k) \in TrieCell /\ MixCell(MixCell(c, k), k) = c
<1>1. c.a \in Word /\ c.b \in Word /\ c = [a |-> c.a, b |-> c.b]
  BY DEF TrieCell
<1>2. /\ Xor(c.a, k) \in Word /\ Xor(Xor(c.a, k), k) = c.a
      /\ Xor(c.b, k) \in Word /\ Xor(Xor(c.b, k), k) = c.b
  BY <1>1, ArhAssumption
<1>. QED
  BY <1>1, <1>2 DEF MixCell, TrieCell

(* Mixing a key into cells gives cells.                                    *)
LEMMA MixTrieType ==
  ASSUME NEW t \in Seq(TrieCell), NEW k \in Word
  PROVE  /\ MixTrie(t, k) \in Seq(TrieCell) /\ Len(MixTrie(t, k)) = Len(t)
         /\ \A i \in 1 .. Len(t) : MixTrie(t, k)[i] = MixCell(t[i], k)
<1>1. Len(t) \in Nat /\ \A i \in 1 .. Len(t) : t[i] \in TrieCell
  OBVIOUS
<1>2. \A i \in 1 .. Len(t) : MixCell(t[i], k) \in TrieCell
  BY <1>1, MixCellTwice
<1>3. MixTrie(t, k) \in [1 .. Len(t) -> TrieCell]
  BY <1>2 DEF MixTrie
<1>. QED
  BY <1>1, <1>3, FunctionIsSeq DEF MixTrie

(* A key mixed into the trie twice is gone.                                *)
LEMMA MixTrieTwice ==
  ASSUME NEW t \in Seq(TrieCell), NEW k \in Word
  PROVE  MixTrie(MixTrie(t, k), k) = t
<1>1. MixTrie(t, k) \in Seq(TrieCell) /\ Len(MixTrie(t, k)) = Len(t)
  BY MixTrieType
<1>2. /\ MixTrie(MixTrie(t, k), k) \in Seq(TrieCell)
      /\ Len(MixTrie(MixTrie(t, k), k)) = Len(t)
  BY <1>1, MixTrieType
<1>3. ASSUME NEW i \in 1 .. Len(t)
      PROVE  MixTrie(MixTrie(t, k), k)[i] = t[i]
  <2>1. t[i] \in TrieCell
    OBVIOUS
  <2>2. MixTrie(MixTrie(t, k), k)[i] = MixCell(MixTrie(t, k)[i], k)
    BY <1>1, MixTrieType
  <2>3. MixTrie(t, k)[i] = MixCell(t[i], k)
    BY MixTrieType
  <2>. QED
    BY <2>1, <2>2, <2>3, MixCellTwice
<1>. QED
  BY <1>2, <1>3, SeqEqual

(* A leaf leads to its text and its file.                                  *)
LEMMA TextRight ==
  ASSUME NEW a \in Archives, NEW n \in LeavesOf(a)
  PROVE  /\ TextAt(a.tails, TailStart(Cell(a.trie, n))) = a.tail[n]
         /\ FileIndex(a.tails, Cell(a.trie, n)) = a.file[n]
<1>. DEFINE s == TailStart(Cell(a.trie, n))
            text == a.tail[n]
            P(k) == /\ a.tails[s + k + 1] = 0
                    /\ \A j \in 1 .. k : a.tails[s + j] # 0
<1>1. /\ s \in Nat /\ s + Len(text) + 2 <= Len(a.tails)
      /\ \A j \in 1 .. Len(text) : a.tails[s + j] = text[j] /\ text[j] # 0
      /\ a.tails[s + Len(text) + 1] = 0
      /\ a.tails[s + Len(text) + 2] = a.file[n]
  BY ArchiveFacts DEF IsTail
<1>2. text \in Seq(Word) /\ Len(a.tails) \in Nat
  BY ArchiveFacts
<1>3. Len(text) \in Nat
  BY <1>2
<1>. HIDE DEF s, text
<1>4. Len(text) \in 0 .. Len(a.tails) /\ P(Len(text))
  BY <1>1, <1>2, <1>3, SMTT(20)
<1>5. ASSUME NEW k \in 0 .. Len(a.tails), P(k)
      PROVE  k = Len(text)
  <2>1. CASE k < Len(text)
    <3>1. k + 1 \in 1 .. Len(text) /\ s + k + 1 = s + (k + 1)
      BY <1>1, <1>3, <2>1
    <3>. QED
      BY <1>1, <1>5, <3>1
  <2>2. CASE k > Len(text)
    <3>1. Len(text) + 1 \in 1 .. k /\ s + Len(text) + 1 = s + (Len(text) + 1)
      BY <1>1, <1>3, <2>2
    <3>. QED
      BY <1>1, <1>5, <3>1
  <2>. QED
    BY <1>3, <2>1, <2>2
<1>6. TextLen(a.tails, s) = CHOOSE k \in 0 .. Len(a.tails) : P(k)
  BY DEF TextLen
<1>7. TextLen(a.tails, s) = Len(text)
  BY <1>4, <1>5, <1>6
<1>8. TextAt(a.tails, s) = text
  <2>1. TextAt(a.tails, s) = [j \in 1 .. Len(text) |-> text[j]]
    BY <1>1, <1>7 DEF TextAt
  <2>. QED
    BY <1>2, <2>1
<1>9. FileIndex(a.tails, Cell(a.trie, n)) = a.file[n]
  BY <1>1, <1>7 DEF FileIndex, s
<1>. QED
  BY <1>8, <1>9 DEF s, text

(* The last element of a path comes first when it is turned round.         *)
LEMMA ReverseType ==
  ASSUME NEW p \in Seq(Int)
  PROVE  /\ Reverse(p) \in Seq(Int) /\ Len(Reverse(p)) = Len(p)
         /\ \A i \in 1 .. Len(p) : Reverse(p)[i] = p[(Len(p) - i) + 1]
<1>1. Len(p) \in Nat
  OBVIOUS
<1>2. \A i \in 1 .. Len(p) : (Len(p) - i) + 1 \in 1 .. Len(p)
  BY <1>1
<1>3. Reverse(p) \in [1 .. Len(p) -> Int]
  BY <1>2 DEF Reverse
<1>. QED
  BY <1>1, <1>3, FunctionIsSeq DEF Reverse

(* Turning round a path with a letter behind it.                           *)
LEMMA ReverseAppend ==
  ASSUME NEW p \in Seq(Int), NEW l \in Int
  PROVE  Reverse(Append(p, l)) = <<l>> \o Reverse(p)
<1>1. Len(p) \in Nat
  OBVIOUS
<1>2. /\ Append(p, l) \in Seq(Int) /\ Len(Append(p, l)) = Len(p) + 1
      /\ Append(p, l)[Len(p) + 1] = l
      /\ \A i \in 1 .. Len(p) : Append(p, l)[i] = p[i]
  BY AppendProperties
<1>3. /\ Reverse(p) \in Seq(Int) /\ Len(Reverse(p)) = Len(p)
      /\ \A i \in 1 .. Len(p) : Reverse(p)[i] = p[(Len(p) - i) + 1]
  BY ReverseType
<1>4. <<l>> \in Seq(Int) /\ Len(<<l>>) = 1 /\ <<l>>[1] = l
  OBVIOUS
<1>5. /\ <<l>> \o Reverse(p) \in Seq(Int)
      /\ Len(<<l>> \o Reverse(p)) = Len(p) + 1
      /\ \A i \in 1 .. Len(p) + 1 :
           (<<l>> \o Reverse(p))[i] = IF i = 1 THEN l ELSE Reverse(p)[i - 1]
  BY <1>1, <1>3, <1>4, ConcatProperties
<1>6. /\ Reverse(Append(p, l)) \in Seq(Int)
      /\ Len(Reverse(Append(p, l))) = Len(p) + 1
      /\ \A i \in 1 .. Len(p) + 1 :
           Reverse(Append(p, l))[i] = Append(p, l)[(Len(p) + 1 - i) + 1]
  <2>. DEFINE q == Append(p, l)
  <2>1. q \in Seq(Int) /\ Len(q) = Len(p) + 1
    BY <1>2
  <2>. HIDE DEF q
  <2>2. /\ Reverse(q) \in Seq(Int) /\ Len(Reverse(q)) = Len(q)
        /\ \A i \in 1 .. Len(q) : Reverse(q)[i] = q[(Len(q) - i) + 1]
    BY <2>1, ReverseType
  <2>3. /\ Reverse(q) \in Seq(Int) /\ Len(Reverse(q)) = Len(p) + 1
        /\ \A i \in 1 .. Len(p) + 1 : Reverse(q)[i] = q[(Len(p) + 1 - i) + 1]
    BY <2>1, <2>2
  <2>. QED
    BY <2>3 DEF q
<1>7. ASSUME NEW i \in 1 .. Len(p) + 1
      PROVE  Reverse(Append(p, l))[i] = (<<l>> \o Reverse(p))[i]
  <2>1. CASE i = 1
    <3>1. (Len(p) + 1 - i) + 1 = Len(p) + 1
      BY <1>1, <2>1
    <3>. QED
      BY <1>2, <1>5, <1>6, <2>1, <3>1
  <2>2. CASE i # 1
    <3>1. i - 1 \in 1 .. Len(p)
      BY <1>1, <2>2
    <3>2. /\ (Len(p) + 1 - i) + 1 = (Len(p) - (i - 1)) + 1
          /\ (Len(p) - (i - 1)) + 1 \in 1 .. Len(p)
      BY <1>1, <3>1
    <3>3. Reverse(Append(p, l))[i] = p[(Len(p) - (i - 1)) + 1]
      BY <1>2, <1>6, <3>2
    <3>4. (<<l>> \o Reverse(p))[i] = Reverse(p)[i - 1]
      BY <1>5, <2>2
    <3>. QED
      BY <1>3, <3>1, <3>3, <3>4
  <2>. QED
    BY <2>1, <2>2
<1>. QED
  BY <1>5, <1>6, <1>7, SeqEqual, ZenonT(40)

-----------------------------------------------------------------------------
(* The types and the decryption together.                                  *)
Plain == TypeOK /\ Decrypted

(* What the two buffers and the names are while the tool works on them.    *)
LEMMA PlainInit == Init => Plain
<1>. SUFFICES ASSUME Init PROVE Plain
  OBVIOUS
<1>1. arc \in Archives
  BY DEF Init
<1>2. /\ arc.key \in Word /\ arc.keySeed \in Word
      /\ arc.trie \in Seq(TrieCell) /\ arc.tails \in Seq(Word)
  BY <1>1, ArchiveFacts
<1>3. key \in Word
  BY <1>2, ArhAssumption DEF Init
<1>4. tailBuffer \in Seq(Word)
  BY <1>2, MixAllType DEF Init
<1>5. trieBuffer \in Seq(TrieCell)
  BY <1>2, MixTrieType DEF Init
<1>6. 0 \in 0 .. Len(arc.entries)
  BY <1>1, ArhAssumption DEF IsArchive
<1>7. TypeOK
  BY <1>1, <1>3, <1>4, <1>5, <1>6, ArhAssumption DEF Init, TypeOK, TrieCell, Stages
<1>8. Decrypted
  BY DEF Init, Decrypted
<1>. QED
  BY <1>7, <1>8 DEF Plain

(* A cell of the trie that the loop is at.                                 *)
LEMMA CellFacts ==
  ASSUME Plain, stage \in {"names", "climb", "send"}, NEW n \in Cells(arc)
  PROVE  /\ Cell(trieBuffer, n) = Cell(arc.trie, n)
         /\ Cell(arc.trie, n).a \in Word /\ Cell(arc.trie, n).b \in Word
         /\ n \in Word
<1>1. arc \in Archives /\ trieBuffer = arc.trie
  BY DEF Plain, TypeOK, Decrypted
<1>. QED
  BY <1>1, ArchiveFacts DEF TrieCell

(* The two steps that decrypt restore what the archive was made of.        *)
LEMMA PlainOpen ==
  ASSUME Plain, Open \/ DecryptTails \/ DecryptTrie
  PROVE  Plain'
<1>1. arc \in Archives /\ arc' = arc
  BY DEF Plain, TypeOK, Open, DecryptTails, DecryptTrie
<1>2. /\ arc.key \in Word /\ arc.keySeed \in Word
      /\ arc.trie \in Seq(TrieCell) /\ arc.tails \in Seq(Word)
  BY <1>1, ArchiveFacts
<1>3. CASE Open
  <2>1. key = Xor(arc.key, arc.keySeed)
    BY <1>3 DEF Open, Plain, Decrypted
  <2>2. Xor(key, arc.keySeed) = arc.key
    BY <1>2, <2>1, ArhAssumption
  <2>3. TypeOK'
    BY <1>2, <1>3, <2>2 DEF Open, Plain, TypeOK, Stages
  <2>4. Decrypted'
    BY <1>3, <2>2 DEF Open, Plain, Decrypted
  <2>. QED
    BY <2>3, <2>4 DEF Plain
<1>4. CASE DecryptTails
  <2>1. key = arc.key /\ tailBuffer = MixAll(arc.tails, arc.key)
    BY <1>4 DEF DecryptTails, Plain, Decrypted
  <2>2. tailBuffer' = arc.tails
    BY <1>2, <1>4, <2>1, MixTwice DEF DecryptTails
  <2>3. TypeOK'
    BY <1>2, <1>4, <2>2 DEF DecryptTails, Plain, TypeOK, Stages
  <2>4. Decrypted'
    BY <1>4, <2>2 DEF DecryptTails, Plain, Decrypted
  <2>. QED
    BY <2>3, <2>4 DEF Plain
<1>5. CASE DecryptTrie
  <2>1. key = arc.key /\ trieBuffer = MixTrie(arc.trie, arc.key)
    BY <1>5 DEF DecryptTrie, Plain, Decrypted
  <2>2. trieBuffer' = arc.trie
    BY <1>2, <1>5, <2>1, MixTrieTwice DEF DecryptTrie
  <2>3. Len(arc.entries) \in Nat
    BY <1>1, ArhAssumption DEF IsArchive
  <2>4. fileNames' \in Seq(Seq(Int)) /\ Len(fileNames') = Len(arc.entries)
    <3>1. <<>> \in Seq(Int)
      OBVIOUS
    <3>2. fileNames' \in [1 .. Len(arc.entries) -> Seq(Int)]
      BY <1>5, <3>1 DEF DecryptTrie
    <3>. QED
      BY <2>3, <3>2, FunctionIsSeq
  <2>5. TypeOK'
    BY <1>2, <1>5, <2>2, <2>4 DEF DecryptTrie, Plain, TypeOK, Stages, TrieCell
  <2>6. Decrypted'
    BY <1>5, <2>2, <2>4 DEF DecryptTrie, Plain, Decrypted
  <2>. QED
    BY <2>5, <2>6 DEF Plain
<1>. QED
  BY <1>3, <1>4, <1>5

-----------------------------------------------------------------------------
(* Every other step leaves the archive and the buffers alone; what is left *)
(* to show is the types of what it changes.                                *)
LEMMA PlainKept ==
  ASSUME Plain, UNCHANGED <<arc, key, tailBuffer, trieBuffer>>,
         \/ stage \in {"names", "climb"} /\ stage' \in {"names", "climb", "send"}
         \/ stage = "send" /\ stage' \in {"send", "done", "failed"},
         index' \in Nat, parentId' \in Word, curentXor' \in Word,
         curPath' \in Seq(Int), fileNames' \in Seq(Seq(Int)),
         Len(fileNames') = Len(fileNames), f' \in 0 .. Len(arc.entries)
  PROVE  Plain'
<1>1. TypeOK'
  BY DEF Plain, TypeOK, Stages
<1>2. Decrypted'
  BY DEF Plain, Decrypted
<1>. QED
  BY <1>1, <1>2 DEF Plain

(* The index of the loop over the trie, as long as there is a cell.        *)
LEMMA IndexFacts ==
  ASSUME Plain, HasCell
  PROVE  /\ index \in Cells(arc) /\ index \in Nat /\ index \in Word
         /\ Current = Cell(arc.trie, index)
         /\ IsLeaf(Current) <=> index \in LeavesOf(arc)
<1>1. trieBuffer = arc.trie /\ arc \in Archives /\ index \in Nat
  BY DEF Plain, TypeOK, Decrypted, HasCell
<1>2. Len(arc.trie) \in Nat /\ Cells(arc) \subseteq Word
  BY <1>1, ArchiveFacts
<1>3. index \in Cells(arc)
  BY <1>1, <1>2 DEF HasCell, Cells
<1>. QED
  BY <1>1, <1>2, <1>3 DEF Current, LeavesOf

(* A cell that is no leaf is passed.                                       *)
LEMMA StepNoLeaf ==
  ASSUME IInv, NoLeaf
  PROVE  IInv'
<1>1. Plain /\ HasCell
  BY DEF IInv, Plain, NoLeaf
<1>2. /\ index \in Nat /\ index \notin LeavesOf(arc)
      /\ stage = "names" /\ stage' = "names" /\ index' = index + 1
      /\ UNCHANGED <<arc, key, tailBuffer, trieBuffer, parentId, curentXor,
                     curPath, fileNames, f>>
  BY <1>1, IndexFacts DEF NoLeaf, HasCell
<1>3. Plain'
  BY <1>1, <1>2, PlainKept DEF Plain, TypeOK
<1>4. LeavesOf(arc) \subseteq Int
  BY <1>1, ArchiveFacts, ArhAssumption DEF Plain, TypeOK
<1>5. \A n \in LeavesOf(arc) : Passed(n)' <=> Passed(n)
  BY <1>2, <1>4 DEF Passed
<1>6. NamesRight'
  BY <1>2, <1>5, ZenonT(40) DEF IInv, NamesRight, NameOf, LeavesOf
<1>. QED
  BY <1>2, <1>3, <1>6 DEF IInv, Plain, ClimbRight

(* The walk begins at a leaf with no letters.                              *)
LEMMA StepLeaf ==
  ASSUME IInv, Leaf
  PROVE  IInv'
<1>1. Plain /\ HasCell
  BY DEF IInv, Plain, Leaf
<1>2. /\ index \in Nat /\ index \in Word /\ index \in LeavesOf(arc)
      /\ index \in Cells(arc) /\ Current = Cell(arc.trie, index)
      /\ stage = "names" /\ stage' = "climb" /\ curPath' = <<>>
      /\ parentId' = Current.b /\ curentXor' = index /\ IsLeaf(Current)
      /\ UNCHANGED <<arc, key, tailBuffer, trieBuffer, index, fileNames, f>>
  BY <1>1, IndexFacts DEF Leaf, HasCell
<1>3. Current.b \in Word /\ Current.b > 0 /\ Current.b \in Int
  BY <1>1, <1>2, CellFacts, ArhAssumption DEF IsLeaf
<1>4. Plain'
  BY <1>1, <1>2, <1>3, PlainKept DEF Plain, TypeOK
<1>5. arc.path[index] = arc.path[index] \o Reverse(<<>>)
  <2>1. arc.path[index] \in Seq(Word)
    BY <1>1, <1>2, ArchiveFacts DEF Plain, TypeOK
  <2>2. Reverse(<<>>) = <<>>
    BY DEF Reverse
  <2>. QED
    BY <2>1, <2>2, ConcatEmptySeq
<1>6. ClimbRight'
  BY <1>2, <1>3, <1>5 DEF ClimbRight, LeavesOf, Cells
<1>7. NamesRight'
  BY <1>2, ZenonT(40) DEF IInv, NamesRight, NameOf, LeavesOf, Passed
<1>. QED
  BY <1>4, <1>6, <1>7 DEF IInv, Plain

(* A letter more, nearer to the top.                                       *)
LEMMA StepClimb ==
  ASSUME IInv, Climb
  PROVE  IInv'
<1>. DEFINE parent == Cell(arc.trie, parentId)
            l == Letter(parent, curentXor)
<1>1. Plain /\ arc \in Archives
  BY DEF IInv, Plain, TypeOK
<1>2. /\ stage = "climb" /\ stage' = "climb" /\ parentId # 0
      /\ trieBuffer = arc.trie
      /\ curPath' = Append(curPath, l)
      /\ curentXor' = parentId /\ parentId' = parent.b
      /\ UNCHANGED <<arc, key, tailBuffer, trieBuffer, index, fileNames, f>>
  BY DEF Climb, IInv, Decrypted
<1>3. /\ index \in LeavesOf(arc) /\ index \in Cells(arc)
      /\ curentXor \in Cells(arc)
      /\ parentId = Cell(arc.trie, curentXor).b /\ parentId >= 0
      /\ arc.path[index] = arc.path[curentXor] \o Reverse(curPath)
  BY <1>1, <1>2, ArchiveFacts DEF IInv, ClimbRight
<1>4. curPath \in Seq(Int) /\ curPath' \in Seq(Int) /\ l \in Int
  <2>1. curPath \in Seq(Int) /\ curentXor \in Word
    BY DEF IInv, TypeOK
  <2>2. parentId \in Word /\ parentId \in Int
    BY ArhAssumption DEF IInv, TypeOK
  <2>3. parentId > 0
    BY <1>2, <1>3, <2>2
  <2>4. parentId \in Cells(arc)
    BY <1>1, <1>3, <2>3, ArchiveFacts DEF IsPath
  <2>5. parent.a \in Word
    BY <1>1, <2>4, ArchiveFacts DEF TrieCell
  <2>6. Xor(parent.a, curentXor) \in Int
    BY <2>1, <2>5, ArhAssumption
  <2>7. l \in Int
    BY <2>6, ArhAssumption DEF Letter
  <2>. QED
    BY <1>2, <2>1, <2>7
<1>5. /\ parentId \in Cells(arc) /\ parent.b >= 0 /\ parent.b \in Word
      /\ arc.path[curentXor] = Append(arc.path[parentId], l)
  <2>1. parentId \in Int
    BY ArhAssumption DEF IInv, TypeOK
  <2>2. parentId > 0
    BY <1>2, <1>3, <2>1
  <2>3. /\ parentId \in Cells(arc) /\ parent.b >= 0
        /\ arc.path[curentXor] = Append(arc.path[parentId], l)
    BY <1>1, <1>3, <2>2, ArchiveFacts DEF IsPath
  <2>. QED
    BY <1>1, <2>3, ArchiveFacts DEF TrieCell
<1>6. arc.path[index] = arc.path[parentId] \o Reverse(curPath')
  <2>. DEFINE p == arc.path[parentId]
              r == Reverse(curPath)
  <2>1. p \in Seq(Int)
    <3>1. p \in Seq(Word)
      BY <1>1, <1>5, ArchiveFacts
    <3>. QED
      BY <3>1, ArhAssumption, SeqMonotonic
  <2>2. r \in Seq(Int)
    BY <1>4, ReverseType
  <2>3. Reverse(curPath') = <<l>> \o r
    BY <1>2, <1>4, ReverseAppend
  <2>4. arc.path[curentXor] = p \o <<l>>
    BY <1>4, <1>5, <2>1, AppendIsConcat
  <2>5. <<l>> \in Seq(Int)
    BY <1>4
  <2>. HIDE DEF p, r, l
  <2>6. (p \o <<l>>) \o r = p \o (<<l>> \o r)
    BY <2>1, <2>2, <2>5, ConcatAssociative, SMTT(20)
  <2>. QED
    BY <1>3, <2>3, <2>4, <2>6, Zenon DEF p, r
<1>7. Plain'
  BY <1>1, <1>2, <1>4, <1>5, PlainKept DEF Plain, TypeOK
<1>8. ClimbRight'
  BY <1>2, <1>3, <1>5, <1>6, Zenon DEF ClimbRight, LeavesOf, Cells
<1>9. NamesRight'
  BY <1>2 DEF IInv, NamesRight, NameOf, LeavesOf, Passed
<1>. QED
  BY <1>7, <1>8, <1>9 DEF IInv, Plain

(* At the top all letters are there; the file gets its name.               *)
LEMMA StepNameFile ==
  ASSUME IInv, NameFile
  PROVE  IInv'
<1>. DEFINE name == NameOf(arc, index)
            at == arc.file[index] + 1
<1>1. /\ Plain /\ arc \in Archives /\ index \in Nat
      /\ fileNames \in Seq(Seq(Int)) /\ Len(fileNames) = Len(arc.entries)
      /\ curPath \in Seq(Int) /\ tailBuffer = arc.tails
  BY DEF IInv, Plain, TypeOK, Decrypted, NameFile
<1>2. /\ stage = "climb" /\ stage' = "names" /\ parentId = 0
      /\ trieBuffer = arc.trie /\ index' = index + 1
      /\ UNCHANGED <<arc, key, tailBuffer, trieBuffer, parentId, curentXor,
                     curPath, f>>
  BY DEF NameFile, IInv, Decrypted
<1>3. /\ index \in LeavesOf(arc) /\ curentXor \in Cells(arc)
      /\ Cell(arc.trie, curentXor).b = 0
      /\ arc.path[index] = arc.path[curentXor] \o Reverse(curPath)
  BY <1>2 DEF IInv, ClimbRight
<1>4. /\ index \in Cells(arc) /\ Len(arc.entries) \in Nat
      /\ arc.file[index] \in 0 .. Len(arc.entries) - 1
      /\ at \in 1 .. Len(arc.entries)
  BY <1>1, <1>3, ArchiveFacts, ArhAssumption, SMTT(20) DEF IsArchive
<1>5. arc.path[index] = Reverse(curPath)
  <2>1. arc.path[curentXor] = <<>>
    BY <1>1, <1>3, ArchiveFacts DEF IsPath
  <2>2. Reverse(curPath) \in Seq(Int)
    BY <1>1, ReverseType
  <2>. QED
    BY <1>3, <2>1, <2>2, ConcatEmptySeq
<1>6. Current = Cell(arc.trie, index)
  BY <1>2 DEF Current
<1>7. /\ TextAt(tailBuffer, TailStart(Current)) = arc.tail[index]
      /\ FileIndex(tailBuffer, Current) = arc.file[index]
  BY <1>1, <1>3, <1>6, TextRight
<1>8. fileNames' = [fileNames EXCEPT ![at] = name]
  BY <1>5, <1>7 DEF NameFile, NameOf
<1>9. name \in Seq(Int)
  <2>1. arc.tail[index] \in Seq(Word)
    BY <1>1, <1>3, ArchiveFacts
  <2>2. arc.tail[index] \in Seq(Int)
    BY <2>1, ArhAssumption, SeqMonotonic
  <2>3. arc.path[index] \in Seq(Int)
    BY <1>1, <1>5, ReverseType
  <2>. QED
    BY <2>2, <2>3, ConcatProperties DEF NameOf
<1>. HIDE DEF name
<1>10. /\ fileNames' \in Seq(Seq(Int)) /\ Len(fileNames') = Len(fileNames)
       /\ \A j \in 1 .. Len(fileNames) :
            fileNames'[j] = IF j = at THEN name ELSE fileNames[j]
  BY <1>1, <1>4, <1>8, <1>9, ExceptSeq, SMTT(20)
<1>11. Plain'
  BY <1>1, <1>2, <1>10, PlainKept DEF Plain, TypeOK
<1>12. LeavesOf(arc) \subseteq Int
  BY <1>1, ArchiveFacts, ArhAssumption
<1>13. \A n \in LeavesOf(arc) : Passed(n)' <=> Passed(n) \/ n = index
  BY <1>1, <1>2, <1>12 DEF Passed
<1>14. ASSUME NEW i \in 0 .. Len(arc.entries) - 1
       PROVE  /\ \A n \in LeavesOf(arc) :
                   arc.file[n] = i /\ Passed(n)' => fileNames'[i + 1] = NameOf(arc, n)
              /\ (\A n \in LeavesOf(arc) : arc.file[n] = i => ~Passed(n)')
                   => fileNames'[i + 1] = <<>>
  <2>1. i + 1 \in 1 .. Len(fileNames)
    BY <1>1, <1>4
  <2>2. /\ \A n \in LeavesOf(arc) :
             arc.file[n] = i /\ Passed(n) => fileNames[i + 1] = NameOf(arc, n)
        /\ (\A n \in LeavesOf(arc) : arc.file[n] = i => ~Passed(n))
             => fileNames[i + 1] = <<>>
    BY <1>2 DEF IInv, NamesRight
  <2>3. CASE i = arc.file[index]
    <3>1. fileNames'[i + 1] = name
      BY <1>10, <2>1, <2>3
    <3>2. \A n \in LeavesOf(arc) : arc.file[n] = i => n = index
      BY <1>1, <1>3, <2>3, ArchiveFacts
    <3>3. \E n \in LeavesOf(arc) : arc.file[n] = i /\ Passed(n)'
      BY <1>3, <1>13, <2>3
    <3>4. \A n \in LeavesOf(arc) :
            arc.file[n] = i => fileNames'[i + 1] = NameOf(arc, n)
      BY <3>1, <3>2 DEF name
    <3>. QED
      BY <3>3, <3>4
  <2>4. CASE i # arc.file[index]
    <3>1. fileNames'[i + 1] = fileNames[i + 1]
      BY <1>4, <1>10, <2>1, <2>4
    <3>2. \A n \in LeavesOf(arc) : arc.file[n] = i => (Passed(n)' <=> Passed(n))
      BY <1>13, <2>4
    <3>. QED
      BY <2>2, <3>1, <3>2
  <2>. QED
    BY <2>3, <2>4
<1>15. NamesRight'
  BY <1>2, <1>14 DEF NamesRight, NameOf, LeavesOf
<1>16. ClimbRight'
  BY <1>2 DEF ClimbRight
<1>. QED
  BY <1>11, <1>15, <1>16 DEF IInv, Plain

(* At the end of the loop all leaves are passed, and stay so.              *)
LEMMA StepAfterNames ==
  ASSUME IInv, EndNames \/ Skip \/ Send \/ Throw \/ EndSend
  PROVE  IInv'
<1>1. /\ UNCHANGED <<arc, key, tailBuffer, trieBuffer, index, parentId,
                     curentXor, curPath, fileNames>>
      /\ \/ stage = "names" /\ index = Len(trieBuffer) /\ stage' = "send" /\ f' = f
         \/ stage = "send" /\ stage' \in {"send", "failed", "done"}
            /\ (f' = f \/ (f < Len(arc.entries) /\ f' = f + 1))
  <2>1. CASE EndNames
    BY <2>1 DEF EndNames
  <2>2. CASE Skip
    BY <2>2 DEF Skip, HasEntry
  <2>3. CASE Send
    BY <2>3 DEF Send, HasEntry
  <2>4. CASE Throw
    BY <2>4 DEF Throw, HasEntry
  <2>5. CASE EndSend
    BY <2>5 DEF EndSend
  <2>. QED
    BY <2>1, <2>2, <2>3, <2>4, <2>5
<1>2. Plain /\ arc \in Archives /\ f \in 0 .. Len(arc.entries)
  BY DEF IInv, Plain, TypeOK
<1>3. Len(arc.entries) \in Nat
  BY <1>2, ArhAssumption DEF IsArchive
<1>4. f' \in 0 .. Len(arc.entries)
  BY <1>1, <1>2, <1>3
<1>5. Plain'
  BY <1>1, <1>2, <1>4, PlainKept DEF Plain, TypeOK
<1>6. ClimbRight'
  BY <1>1 DEF ClimbRight
<1>7. ASSUME NEW n \in LeavesOf(arc), stage' \in {"send", "done"}
      PROVE  Passed(n) /\ Passed(n)'
  <2>1. CASE stage = "names"
    <3>1. trieBuffer = arc.trie
      BY <2>1 DEF IInv, Decrypted
    <3>2. n \in Cells(arc) /\ Len(arc.trie) \in Nat
      BY <1>2, <1>7, ArchiveFacts
    <3>. QED
      BY <1>1, <1>7, <2>1, <3>1, <3>2 DEF Passed, Cells
  <2>2. CASE stage = "send"
    BY <1>7, <2>2 DEF Passed
  <2>. QED
    BY <1>1, <2>1, <2>2
<1>8. NamesRight'
  <2>1. CASE stage' = "failed"
    BY <2>1 DEF NamesRight
  <2>2. CASE stage' \in {"send", "done"}
    <3>1. \A n \in LeavesOf(arc) : Passed(n)' <=> Passed(n)
      BY <1>7, <2>2
    <3>2. stage \in {"names", "send"}
      BY <1>1
    <3>. QED
      BY <1>1, <3>1, <3>2 DEF IInv, NamesRight, NameOf, LeavesOf
  <2>. QED
    BY <1>1, <2>1, <2>2
<1>. QED
  BY <1>5, <1>6, <1>8 DEF IInv, Plain

(* Before the loop no leaf is passed and no file has a name.               *)
LEMMA StepOpen ==
  ASSUME IInv, Open \/ DecryptTails \/ DecryptTrie
  PROVE  IInv'
<1>1. Plain' /\ Plain
  BY PlainOpen DEF IInv, Plain
<1>2. /\ stage' \in {"tails", "trie", "names", "failed"} /\ arc' = arc
      /\ index' = index
      /\ stage' = "names" => DecryptTrie
  BY DEF Open, DecryptTails, DecryptTrie
<1>3. ClimbRight'
  BY <1>2 DEF ClimbRight
<1>4. NamesRight'
  <2>1. CASE stage' # "names"
    BY <1>2, <2>1 DEF NamesRight
  <2>2. CASE stage' = "names"
    <3>1. index = 0 /\ fileNames' = [i \in 1 .. Len(arc.entries) |-> <<>>]
      BY <1>2, <2>2 DEF IInv, Decrypted, DecryptTrie
    <3>2. arc \in Archives /\ Len(arc.entries) \in Nat
      BY ArhAssumption DEF IInv, TypeOK, IsArchive
    <3>3. \A n \in LeavesOf(arc) : n >= 0
      BY <3>2, ArchiveFacts DEF Cells
    <3>4. \A n \in LeavesOf(arc) : n \in Int
      BY <3>2, ArchiveFacts, ArhAssumption
    <3>5. \A n \in LeavesOf(arc) : ~Passed(n)'
      BY <1>2, <2>2, <3>1, <3>3, <3>4 DEF Passed
    <3>6. \A i \in 0 .. Len(arc.entries) - 1 : fileNames'[i + 1] = <<>>
      BY <3>1, <3>2
    <3>. QED
      BY <1>2, <3>5, <3>6 DEF NamesRight, NameOf, LeavesOf
  <2>. QED
    BY <2>1, <2>2
<1>. QED
  BY <1>1, <1>3, <1>4 DEF IInv, Plain

-----------------------------------------------------------------------------
(***************************************************************************)
(* The inductive invariant of the tool: types, decryption, the walk from a *)
(* leaf to the top and the names so far (extract_arh.cpp:40-104).          *)
(***************************************************************************)
THEOREM Invariance == Spec => []IInv
<1>1. Init => IInv
  <2>. SUFFICES ASSUME Init PROVE IInv
    OBVIOUS
  <2>1. Plain
    BY PlainInit
  <2>. QED
    BY <2>1 DEF Init, IInv, Plain, ClimbRight, NamesRight
<1>2. IInv /\ [Next]_vars => IInv'
  <2>. SUFFICES ASSUME IInv, [Next]_vars PROVE IInv'
    OBVIOUS
  <2>1. CASE Open \/ DecryptTails \/ DecryptTrie
    BY <2>1, StepOpen
  <2>2. CASE NoLeaf
    BY <2>2, StepNoLeaf
  <2>3. CASE Leaf
    BY <2>3, StepLeaf
  <2>4. CASE Climb
    BY <2>4, StepClimb
  <2>5. CASE NameFile
    BY <2>5, StepNameFile
  <2>6. CASE EndNames \/ Skip \/ Send \/ Throw \/ EndSend
    BY <2>6, StepAfterNames
  <2>7. CASE UNCHANGED vars
    BY <2>7 DEF vars, IInv, TypeOK, Decrypted, ClimbRight, NamesRight, Passed
  <2>. QED
    BY <2>1, <2>2, <2>3, <2>4, <2>5, <2>6, <2>7 DEF Next, Step
<1>. QED
  BY <1>1, <1>2, PTL DEF Spec

(***************************************************************************)
(* Every file gets the name that the trie has for it and a file without a  *)
(* leaf none, for every trie, key and tail (extract_arh.cpp:78-100).       *)
(***************************************************************************)
THEOREM NamesAreRight == Spec => []NamesRight
<1>1. IInv => NamesRight
  BY DEF IInv
<1>. QED
  BY <1>1, Invariance, PTL

-----------------------------------------------------------------------------
(* What is sent.                                                           *)

(* What the tool sends: names, and the contents of entries.                *)
Contents == {Content(arc.entries[i]) : i \in 1 .. Len(arc.entries)}
SentType == sent \in Seq([name : Seq(Int), data : Contents])

(* A leaf's name has at least the letter of its own cell.                  *)
LEMMA LeafNamed ==
  ASSUME NEW a \in Archives, NEW n \in LeavesOf(a)
  PROVE  NameOf(a, n) # <<>>
<1>1. /\ n \in Cells(a) /\ IsPath(a, n) /\ a.path[n] \in Seq(Word)
      /\ a.tail[n] \in Seq(Word)
  BY ArchiveFacts
<1>2. Cell(a.trie, n).b > 0
  BY DEF LeavesOf, IsLeaf
<1> DEFINE up == Cell(a.trie, n).b
           letter == Letter(Cell(a.trie, up), n)
<1>3. up \in Cells(a) /\ a.path[n] = Append(a.path[up], letter)
  BY <1>1, <1>2 DEF IsPath
<1>4. a.path[up] \in Seq(Word)
  BY <1>3, ArchiveFacts
<1>5. letter \in Int
  <2>1. n \in Word /\ Cell(a.trie, up).a \in Word
    BY <1>1, <1>3, ArchiveFacts DEF TrieCell
  <2>2. Xor(Cell(a.trie, up).a, n) \in Int
    BY <2>1, ArhAssumption
  <2> QED
    BY <2>2, ArhAssumption DEF Letter
<1>6. a.path[up] \in Seq(Int) /\ a.tail[n] \in Seq(Int)
  BY <1>1, <1>4, ArhAssumption, SeqMonotonic
<1> HIDE DEF up, letter
<1>7. a.path[n] \in Seq(Int) /\ Len(a.path[n]) = Len(a.path[up]) + 1
  BY <1>3, <1>5, <1>6, AppendProperties
<1>8. Len(NameOf(a, n)) = Len(a.path[n]) + Len(a.tail[n])
  BY <1>6, <1>7, ConcatProperties DEF NameOf
<1>9. Len(a.path[up]) \in Nat /\ Len(a.tail[n]) \in Nat
  BY <1>6
<1>10. Len(NameOf(a, n)) # 0
  <2>1. \A x, y \in Nat : x + 1 + y # 0
    OBVIOUS
  <2>2. Len(NameOf(a, n)) = Len(a.path[up]) + 1 + Len(a.tail[n])
    BY <1>7, <1>8
  <2> QED
    BY <1>9, <2>1, <2>2
<1>11. Len(<<>>) = 0
  OBVIOUS
<1> QED
  BY <1>10, <1>11

(***************************************************************************)
(* While entries are sent, a file has a name if and only if a leaf leads   *)
(* to it, and then it is that leaf's.                                      *)
(***************************************************************************)
LEMMA NameOfEntry ==
  ASSUME IInv, HasEntry, KnownFile
  PROVE  /\ f + 1 \in 1 .. Len(arc.entries)
         /\ Name \in Seq(Int)
         /\ Name = <<>> => \A n \in LeavesOf(arc) : ~Leads(n, Entry)
         /\ Name # <<>> => \E n \in LeavesOf(arc) :
                             Leads(n, Entry) /\ Name = NameOf(arc, n)
<1>1. /\ stage = "send" /\ arc \in Archives /\ f \in 0 .. Len(arc.entries)
      /\ f < Len(arc.entries) /\ Len(fileNames) = Len(arc.entries)
      /\ fileNames \in Seq(Seq(Int))
  BY DEF IInv, TypeOK, Decrypted, HasEntry
<1>2. /\ Len(arc.entries) \in Nat
      /\ \A i \in 1 .. Len(arc.entries) : arc.entries[i].index \in Nat
  BY <1>1, ArhAssumption DEF IsArchive
<1>3. f + 1 \in 1 .. Len(arc.entries)
  BY <1>1, <1>2
<1>4. Entry.index \in 0 .. Len(arc.entries) - 1
  BY <1>1, <1>2, <1>3 DEF Entry, KnownFile
<1>5. Entry.index + 1 \in 1 .. Len(fileNames)
  BY <1>1, <1>2, <1>4
<1>6. \A n \in LeavesOf(arc) : Passed(n)
  BY <1>1 DEF Passed
<1>7. /\ \A n \in LeavesOf(arc) : Leads(n, Entry) => Name = NameOf(arc, n)
      /\ (\A n \in LeavesOf(arc) : ~Leads(n, Entry)) => Name = <<>>
  BY <1>1, <1>4, <1>6 DEF IInv, NamesRight, Leads, Name
<1>8. Name \in Seq(Int)
  BY <1>1, <1>5 DEF Name
<1> QED
  BY <1>1, <1>3, <1>7, <1>8, LeafNamed

(***************************************************************************)
(* SentRight, with what it speaks of spelled out: `from' gives for each    *)
(* item of `out' the one of the first `n' entries of `a' that it is.       *)
(***************************************************************************)
NamedIn(a, n) ==
  {p \in 1 .. n : \E l \in LeavesOf(a) : a.file[l] = a.entries[p].index}

Item(a, l, p) == [name |-> NameOf(a, l), data |-> Content(a.entries[p])]

Sends(from, out, n, a) ==
  /\ from \in [1 .. Len(out) -> 1 .. n]
  /\ \A i, j \in 1 .. Len(out) : i < j => from[i] < from[j]
  /\ {from[i] : i \in 1 .. Len(out)} = NamedIn(a, n)
  /\ \A i \in 1 .. Len(out) : \E l \in LeavesOf(a) :
       a.file[l] = a.entries[from[i]].index /\ out[i] = Item(a, l, from[i])

LEMMA SentIs == SentRight => \E from : Sends(from, sent, f, arc)
<1> SUFFICES ASSUME SentRight
             PROVE  \E from : Sends(from, sent, f, arc)
  OBVIOUS
<1>1. Named = NamedIn(arc, f)
  BY DEF Named, NamedIn, Leads
<1> QED
  BY <1>1 DEF SentRight, Sends, Leads, Item

LEMMA IsSent ==
  ASSUME NEW from, Sends(from, sent, f, arc)
  PROVE  SentRight
<1>1. Named = NamedIn(arc, f)
  BY DEF Named, NamedIn, Leads
<1> QED
  BY <1>1 DEF SentRight, Sends, Leads, Item

(* The same of the next state.                                             *)
LEMMA IsSentNext ==
  ASSUME NEW from, Sends(from, sent', f', arc')
  PROVE  SentRight'
<1>1. Named' = NamedIn(arc', f')
  BY DEF Named, NamedIn, Leads
<1> QED
  BY <1>1 DEF SentRight, Sends, Leads, Item

(* A step that neither sends nor passes an entry leaves what was sent.     *)
LEMMA SentFrame ==
  ASSUME SentType, SentRight, arc' = arc, f' = f, sent' = sent
  PROVE  SentType' /\ SentRight'
<1>1. PICK from : Sends(from, sent, f, arc)
  BY SentIs
<1>2. SentRight'
  BY <1>1, IsSentNext
<1> QED
  BY <1>2 DEF SentType, Contents

(* Passing over a file without a name sends nothing.                       *)
LEMMA SentSkip ==
  ASSUME IInv, SentType, SentRight, Skip
  PROVE  SentType' /\ SentRight'
<1>1. HasEntry /\ KnownFile /\ Name = <<>> /\ f' = f + 1 /\ arc' = arc /\ sent' = sent
  BY DEF Skip
<1>2. \A n \in LeavesOf(arc) : ~Leads(n, arc.entries[f + 1])
  BY <1>1, NameOfEntry DEF Entry
<1>3. f \in Nat
  BY ArhAssumption DEF IInv, TypeOK, IsArchive
<1>4. NamedIn(arc, f + 1) = NamedIn(arc, f)
  <2>1. \A p \in 1 .. f + 1 : p \in 1 .. f \/ p = f + 1
    BY <1>3
  <2>2. 1 .. f \subseteq 1 .. f + 1
    BY <1>3
  <2> QED
    BY <1>2, <2>1, <2>2 DEF NamedIn, Leads
<1>5. PICK from : Sends(from, sent, f, arc)
  BY SentIs
<1>6. from \in [1 .. Len(sent) -> 1 .. f + 1]
  BY <1>3, <1>5 DEF Sends
<1>7. Sends(from, sent, f + 1, arc)
  BY <1>4, <1>5, <1>6 DEF Sends
<1>8. SentRight'
  BY <1>1, <1>7, IsSentNext
<1> QED
  BY <1>1, <1>8 DEF SentType, Contents

(* A file with a name is sent under it, behind those of earlier entries.   *)
LEMMA SentSend ==
  ASSUME IInv, SentType, SentRight, Send
  PROVE  SentType' /\ SentRight'
<1> DEFINE item == [name |-> Name, data |-> Content(Entry)]
<1>1. /\ HasEntry /\ KnownFile /\ Name # <<>> /\ f' = f + 1 /\ arc' = arc
      /\ sent' = Append(sent, item)
  BY DEF Send
<1>2. /\ f + 1 \in 1 .. Len(arc.entries) /\ Name \in Seq(Int)
      /\ Entry = arc.entries[f + 1]
  BY <1>1, NameOfEntry DEF Entry
<1>3. PICK leaf \in LeavesOf(arc) : Leads(leaf, Entry) /\ Name = NameOf(arc, leaf)
  BY <1>1, NameOfEntry
<1>4. item \in [name : Seq(Int), data : Contents]
  BY <1>2 DEF Contents
<1>5. f \in Nat
  BY ArhAssumption DEF IInv, TypeOK, IsArchive
<1> HIDE DEF item
<1>6. /\ sent' \in Seq([name : Seq(Int), data : Contents])
      /\ Len(sent) \in Nat /\ Len(sent') = Len(sent) + 1
      /\ sent'[Len(sent) + 1] = item
      /\ \A i \in 1 .. Len(sent) : sent'[i] = sent[i]
  BY <1>1, <1>4, AppendProperties DEF SentType
<1>7. SentType'
  BY <1>1, <1>6 DEF SentType, Contents
<1>8. PICK from : Sends(from, sent, f, arc)
  BY SentIs
<1> DEFINE last == Len(sent) + 1
           more == [i \in 1 .. last |-> IF i = last THEN f + 1 ELSE from[i]]
<1>9. \A i \in 1 .. last : i \in 1 .. Len(sent) \/ i = last
  BY <1>6
<1>10. /\ more \in [1 .. last -> 1 .. f + 1]
       /\ more[last] = f + 1
       /\ \A i \in 1 .. Len(sent) : more[i] = from[i]
  <2>1. 1 .. f \subseteq 1 .. f + 1 /\ f + 1 \in 1 .. f + 1
    BY <1>5
  <2>2. \A i \in 1 .. last : i # last => from[i] \in 1 .. f
    BY <1>8, <1>9 DEF Sends
  <2>3. last \in 1 .. last /\ \A i \in 1 .. Len(sent) : i \in 1 .. last /\ i # last
    BY <1>6
  <2> QED
    BY <2>1, <2>2, <2>3
<1> HIDE DEF more
<1>11. \A i, j \in 1 .. last : i < j => more[i] < more[j]
  <2> SUFFICES ASSUME NEW i \in 1 .. last, NEW j \in 1 .. last, i < j
               PROVE  more[i] < more[j]
    OBVIOUS
  <2>1. i \in 1 .. Len(sent)
    BY <1>6
  <2>2. CASE j \in 1 .. Len(sent)
    BY <1>8, <1>10, <2>1, <2>2 DEF Sends
  <2>3. CASE j = last
    <3>1. more[i] \in 1 .. f /\ more[j] = f + 1
      BY <1>8, <1>10, <2>1, <2>3 DEF Sends
    <3> QED
      BY <1>5, <3>1
  <2> QED
    BY <1>9, <2>2, <2>3
<1>12. {more[i] : i \in 1 .. last} = NamedIn(arc, f + 1)
  <2>1. {more[i] : i \in 1 .. last} = {from[i] : i \in 1 .. Len(sent)} \cup {f + 1}
    <3>1. last \in 1 .. last /\ 1 .. Len(sent) \subseteq 1 .. last
      BY <1>6
    <3> QED
      BY <1>9, <1>10, <3>1
  <2>2. 1 .. f + 1 = (1 .. f) \cup {f + 1}
    BY <1>5
  <2>3. NamedIn(arc, f + 1) = NamedIn(arc, f) \cup {f + 1}
    BY <1>2, <1>3, <2>2 DEF NamedIn, Leads
  <2> QED
    BY <1>8, <2>1, <2>3 DEF Sends
<1>13. \A i \in 1 .. last : \E l \in LeavesOf(arc) :
         arc.file[l] = arc.entries[more[i]].index /\ sent'[i] = Item(arc, l, more[i])
  <2>1. \A i \in 1 .. Len(sent) : \E l \in LeavesOf(arc) :
          arc.file[l] = arc.entries[more[i]].index /\ sent'[i] = Item(arc, l, more[i])
    BY <1>6, <1>8, <1>10 DEF Sends
  <2>2. /\ arc.file[leaf] = arc.entries[more[last]].index
        /\ sent'[last] = Item(arc, leaf, more[last])
    BY <1>2, <1>3, <1>6, <1>10 DEF item, Item, Leads
  <2> QED
    BY <1>3, <1>9, <2>1, <2>2
<1>14. Len(sent') = last
  BY <1>6
<1> HIDE DEF last
<1>15. Sends(more, sent', f + 1, arc)
  BY <1>10, <1>11, <1>12, <1>13, <1>14 DEF Sends
<1>16. SentRight'
  BY <1>1, <1>15, IsSentNext
<1> QED
  BY <1>7, <1>16

(***************************************************************************)
(* What the tool has sent, when it ends or fails, is each entry with a     *)
(* name, in the order of the entries, under the name that the trie has and *)
(* with its own content (extract_arh.cpp:113-138).                         *)
(***************************************************************************)
THEOREM SentIsRight == Spec => []SentRight
<1>1. Init => SentType /\ SentRight
  <2> SUFFICES ASSUME Init
               PROVE  SentType /\ SentRight
    OBVIOUS
  <2>1. sent = <<>> /\ f = 0
    BY DEF Init
  <2>2. SentType
    BY <2>1, EmptySeq DEF SentType
  <2> DEFINE none == [i \in 1 .. 0 |-> i]
  <2>3. /\ none \in [1 .. Len(sent) -> 1 .. f] /\ Len(sent) = 0
        /\ NamedIn(arc, f) = {}
    BY <2>1 DEF NamedIn
  <2> HIDE DEF none
  <2>4. Sends(none, sent, f, arc)
    BY <2>3 DEF Sends
  <2> QED
    BY <2>2, <2>4, IsSent
<1>2. IInv /\ SentType /\ SentRight /\ [Next]_vars => SentType' /\ SentRight'
  <2> SUFFICES ASSUME IInv, SentType, SentRight, [Next]_vars
               PROVE  SentType' /\ SentRight'
    OBVIOUS
  <2>1. CASE Skip
    BY <2>1, SentSkip
  <2>2. CASE Send
    BY <2>2, SentSend
  <2>3. ASSUME arc' = arc, f' = f, sent' = sent
        PROVE  SentType' /\ SentRight'
    BY <2>3, SentFrame
  <2> QED
    BY <2>1, <2>2, <2>3 DEF Next, Step, Open, DecryptTails, DecryptTrie, NoLeaf, Leaf,
       Climb, NameFile, EndNames, Throw, EndSend, vars
<1> QED
  BY <1>1, <1>2, Invariance, PTL DEF Spec
=============================================================================
