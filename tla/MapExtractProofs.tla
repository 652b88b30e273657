-------------------------- MODULE MapExtractProofs --------------------------
(***************************************************************************)
(* Proofs about the shared buffers of sm_extract, for every map.           *)
(*                                                                         *)
(* The views of all the streams of a buffer tile it, none overlapping      *)
(* another and nothing lying outside them.  The views of the stream being  *)
(* written are counted as those of one more finished stream: each pass     *)
(* begins a view where the buffer ends, so the view of the current pass is *)
(* the one that can grow, and the views of later passes are still empty.   *)
(*                                                                         *)
(* What the header says leads back to the values it is about.  A record    *)
(* that has been made leads to its values by the views as they are now,    *)
(* and goes on doing so: the file is only written on, and a view keeps its *)
(* place once anything is in it.  Which records have been made follows     *)
(* from the pass and what is left of it.  Packed UVs lie aside until their *)
(* pass ends, so their records are about uv16 until then.                  *)
(***************************************************************************)
EXTENDS MapExtract, SequenceTheorems, FiniteSetTheorems, TLAPS

(* A set of numbers has a smallest one, and a set of pairs a first one.    *)
LEMMA Smallest ==
  ASSUME NEW T, T \subseteq Nat, T # {} PROVE \E n \in T : \A m \in T : n <= m
<1>1. PICK n \in T : \A m \in T : ~(<<m, n>> \in OpToRel(<, Nat))
  BY NatLessThanWellFounded, WFMin, Zenon
<1>2. \A m \in T : ~(m < n)
  BY <1>1 DEF OpToRel
<1>3. \A m \in T : n <= m
  <2> TAKE m \in T
  <2>1. m \in Nat /\ n \in Nat /\ ~(m < n)
    BY <1>2
  <2> QED
    BY <2>1
<1> QED
  BY <1>3, Zenon

LEMMA Ordered ==
  \A i, j, k \in Nat \X Nat :
    /\ ~Before(i, i)
    /\ Before(i, j) /\ Before(j, k) => Before(i, k)
    /\ i = j \/ Before(i, j) \/ Before(j, i)
<1> SUFFICES ASSUME NEW i \in Nat \X Nat, NEW j \in Nat \X Nat, NEW k \in Nat \X Nat
             PROVE  /\ ~Before(i, i)
                    /\ Before(i, j) /\ Before(j, k) => Before(i, k)
                    /\ i = j \/ Before(i, j) \/ Before(j, i)
  OBVIOUS
<1>1. PICK a, b, c, d, e, f \in Nat : i = <<a, b>> /\ j = <<c, d>> /\ k = <<e, f>>
  BY SMTT(20)
<1>2. /\ i[1] = a /\ i[2] = b /\ j[1] = c /\ j[2] = d /\ k[1] = e /\ k[2] = f
  BY <1>1
<1>3. ~Before(i, i)
  BY <1>2 DEF Before
<1>4. Before(i, j) /\ Before(j, k) => Before(i, k)
  BY <1>2 DEF Before
<1>5. i = j \/ Before(i, j) \/ Before(j, i)
  BY <1>1, <1>2 DEF Before
<1> QED
  BY <1>3, <1>4, <1>5

LEMMA FirstPair ==
  ASSUME NEW S, S \subseteq Nat \X Nat, S # {}
  PROVE  \E i \in S : \A j \in S \ {i} : Before(i, j)
<1> DEFINE rows == {i[1] : i \in S}
<1>1. rows \subseteq Nat /\ rows # {}
  OBVIOUS
<1>2. PICK r \in rows : \A q \in rows : r <= q
  BY <1>1, Smallest
<1> DEFINE columns == {i[2] : i \in {j \in S : j[1] = r}}
<1>3. columns \subseteq Nat /\ columns # {}
  BY <1>2
<1>4. PICK c \in columns : \A d \in columns : c <= d
  BY <1>3, Smallest
<1>5. PICK i \in S : i[1] = r /\ i[2] = c
  BY <1>4
<1>6. ASSUME NEW j \in S, j # i PROVE Before(i, j)
  <2>1. i \in Nat \X Nat /\ j \in Nat \X Nat
    OBVIOUS
  <2>2. r <= j[1] /\ (j[1] = r => c <= j[2])
    BY <1>2, <1>4
  <2>3. ~Before(j, i)
    BY <1>5, <2>1, <2>2 DEF Before
  <2> QED
    BY <1>6, <2>1, <2>3, Ordered
<1> QED
  BY <1>6

(***************************************************************************)
(* The ranks of a finite set of pairs are the numbers from 1 on, each of   *)
(* one pair.                                                               *)
(***************************************************************************)
Below(S, i) == {j \in S : Before(j, i)}

LEMMA RankRange ==
  ASSUME NEW S, S \subseteq Nat \X Nat, IsFiniteSet(S)
  PROVE  /\ Cardinality(S) \in Nat
         /\ \A i \in S : Rank(S, i) \in 1 .. Cardinality(S)
         /\ \A i, j \in S : Before(i, j) => Rank(S, i) < Rank(S, j)
<1>1. Cardinality(S) \in Nat
  BY FS_CardinalityType
<1>2. \A i \in S : IsFiniteSet(Below(S, i)) /\ Cardinality(Below(S, i)) \in Nat
  BY FS_Subset, FS_CardinalityType DEF Below
<1>3. \A i : Rank(S, i) = Cardinality(Below(S, i)) + 1
  BY DEF Rank, Below
<1>4. ASSUME NEW i \in S, NEW T, T \subseteq S, Below(S, i) \cup {i} \subseteq T
      PROVE  Rank(S, i) <= Cardinality(T) /\ Cardinality(T) \in Nat
  <2>1. i \notin Below(S, i)
    BY Ordered DEF Below
  <2>2. Cardinality(Below(S, i) \cup {i}) = Cardinality(Below(S, i)) + 1
    BY <1>2, <2>1, FS_AddElement
  <2>3. IsFiniteSet(T)
    BY <1>4, FS_Subset
  <2> QED
    BY <1>3, <1>4, <2>2, <2>3, FS_Subset, FS_CardinalityType
<1>5. \A i \in S : Rank(S, i) \in 1 .. Cardinality(S)
  <2> TAKE i \in S
  <2>1. Rank(S, i) <= Cardinality(S)
    BY <1>4 DEF Below
  <2> QED
    BY <1>1, <1>2, <1>3, <2>1
<1>6. ASSUME NEW i \in S, NEW j \in S, Before(i, j) PROVE Rank(S, i) < Rank(S, j)
  <2>1. Below(S, i) \cup {i} \subseteq Below(S, j) /\ Below(S, j) \subseteq S
    BY <1>6, Ordered DEF Below
  <2>2. Rank(S, i) <= Cardinality(Below(S, j))
    BY <1>4, <2>1
  <2> QED
    BY <1>2, <1>3, <2>2
<1> QED
  BY <1>1, <1>5, <1>6

LEMMA RankOnce ==
  ASSUME NEW S, S \subseteq Nat \X Nat, IsFiniteSet(S),
         NEW i \in S, NEW j \in S, Rank(S, i) = Rank(S, j)
  PROVE  i = j
<1>1. Rank(S, i) \in Nat /\ Rank(S, j) \in Nat
  BY RankRange
<1>2. ~Before(i, j) /\ ~Before(j, i)
  BY <1>1, RankRange
<1> QED
  BY <1>2, Ordered

LEMMA RankOnto ==
  ASSUME NEW S, S \subseteq Nat \X Nat, IsFiniteSet(S), NEW n \in 1 .. Cardinality(S)
  PROVE  \E i \in S : Rank(S, i) = n
<1> DEFINE f == [i \in S |-> Rank(S, i)]
           N == 1 .. Cardinality(S)
<1>1. Cardinality(S) \in Nat
  BY FS_CardinalityType
<1>2. IsFiniteSet(N) /\ Cardinality(N) = Cardinality(S)
  BY <1>1, FS_Interval
<1>3. f \in [S -> N]
  BY RankRange
<1>4. \A i, j \in S : f[i] = f[j] => i = j
  BY RankOnce
<1> HIDE DEF N
<1>5. f \in Injection(S, N)
  BY <1>3, <1>4 DEF Injection, IsInjective
<1>6. f \in Surjection(S, N)
  BY <1>2, <1>5, FS_Injection
<1> QED
  BY <1>6 DEF Surjection, N

-----------------------------------------------------------------------------

(* The units of a view, and the views of stream s: those of the header, or *)
(* of the stream being written.                                            *)
UnitsOf(w) == w.offset + 1 .. w.offset + w.size

ViewsAt(h, vs, s) == IF s <= Len(h) THEN h[s].views ELSE vs

Places(h) == (1 .. Len(h) + 1) \X Slots

UnitsAt(h, vs, x) == UnitsOf(ViewsAt(h, vs, x[1])[x[2]])

Tiling(h, vs, end) ==
  /\ \A x, y \in Places(h) : x # y => UnitsAt(h, vs, x) \cap UnitsAt(h, vs, y) = {}
  /\ \A x \in Places(h) : UnitsAt(h, vs, x) \subseteq 1 .. end
  /\ \A u \in 1 .. end : \E x \in Places(h) : u \in UnitsAt(h, vs, x)

(* A view that ends where the buffer does grows with it.                   *)
LEMMA Extended ==
  ASSUME NEW h, Len(h) \in Nat, NEW vs \in [Slots -> View], NEW end \in Nat, NEW n \in Nat,
         NEW slot \in Slots, vs[slot].offset + vs[slot].size = end,
         NEW new \in [Slots -> View],
         new[slot].offset = vs[slot].offset, new[slot].size = vs[slot].size + n,
         \A p \in Slots : p # slot => new[p] = vs[p],
         Tiling(h, vs, end)
  PROVE  Tiling(h, new, end + n)
<1> DEFINE here == <<Len(h) + 1, slot>>
<1>1. here \in Places(h) /\ ~(Len(h) + 1 <= Len(h))
  BY DEF Places
<1>2. UnitsAt(h, new, here) = UnitsAt(h, vs, here) \cup (end + 1 .. end + n)
  <2>1. /\ UnitsAt(h, new, here) = UnitsOf(new[slot])
        /\ UnitsAt(h, vs, here) = UnitsOf(vs[slot])
    BY <1>1 DEF UnitsAt, ViewsAt
  <2>2. vs[slot].offset \in Nat /\ vs[slot].size \in Nat
    <3>1. vs[slot] \in View
      OBVIOUS
    <3> QED
      BY <3>1 DEF View
  <2>3. \A o, z \in Nat : o + z = end =>
          (o + 1 .. o + (z + n)) = (o + 1 .. o + z) \cup (end + 1 .. end + n)
    OBVIOUS
  <2> DEFINE o == vs[slot].offset
             z == vs[slot].size
  <2>4. UnitsOf(new[slot]) = (o + 1 .. o + (z + n)) /\ UnitsOf(vs[slot]) = (o + 1 .. o + z)
    BY DEF UnitsOf
  <2>5. o \in Nat /\ z \in Nat /\ o + z = end
    BY <2>2
  <2> HIDE DEF o, z
  <2>6. (o + 1 .. o + (z + n)) = (o + 1 .. o + z) \cup (end + 1 .. end + n)
    BY <2>3, <2>5
  <2> QED
    BY <2>1, <2>4, <2>6, Zenon
<1>3. \A x \in Places(h) : x # here => UnitsAt(h, new, x) = UnitsAt(h, vs, x)
  <2> TAKE x \in Places(h)
  <2> HAVE x # here
  <2>1. CASE x[1] <= Len(h)
    BY <2>1 DEF UnitsAt, ViewsAt
  <2>2. CASE ~(x[1] <= Len(h))
    <3>1. x[1] = Len(h) + 1 /\ x[2] \in Slots /\ x[2] # slot
      BY <2>2 DEF Places
    <3> QED
      BY <2>2, <3>1 DEF UnitsAt, ViewsAt
  <2> QED
    BY <2>1, <2>2
<1> HIDE DEF here
<1>4. \A u \in 1 .. end : u \notin end + 1 .. end + n
  OBVIOUS
<1>5. \A u : u \in 1 .. end + n <=> u \in 1 .. end \/ u \in end + 1 .. end + n
  OBVIOUS
<1>6. ASSUME NEW x \in Places(h), NEW y \in Places(h), x # y
      PROVE  UnitsAt(h, new, x) \cap UnitsAt(h, new, y) = {}
  <2>1. /\ UnitsAt(h, vs, x) \cap UnitsAt(h, vs, y) = {}
        /\ UnitsAt(h, vs, x) \subseteq 1 .. end /\ UnitsAt(h, vs, y) \subseteq 1 .. end
    BY <1>6 DEF Tiling
  <2>2. CASE x = here
    BY <1>2, <1>3, <1>4, <1>6, <2>1, <2>2
  <2>3. CASE y = here
    BY <1>2, <1>3, <1>4, <1>6, <2>1, <2>3
  <2>4. CASE x # here /\ y # here
    BY <1>3, <2>1, <2>4
  <2> QED
    BY <2>2, <2>3, <2>4
<1>7. \A x \in Places(h) : UnitsAt(h, new, x) \subseteq 1 .. end + n
  BY <1>2, <1>3, <1>5 DEF Tiling
<1>8. \A u \in 1 .. end + n : \E x \in Places(h) : u \in UnitsAt(h, new, x)
  <2> TAKE u \in 1 .. end + n
  <2>1. CASE u \in 1 .. end
    BY <1>2, <1>3, <2>1 DEF Tiling
  <2>2. CASE u \in end + 1 .. end + n
    BY <1>1, <1>2, <2>2
  <2> QED
    BY <1>5, <2>1, <2>2
<1> QED
  BY <1>6, <1>7, <1>8 DEF Tiling

(* An empty view has no place.                                             *)
LEMMA EmptyMoved ==
  ASSUME NEW h, Len(h) \in Nat, NEW vs \in [Slots -> View], NEW end \in Nat,
         NEW new \in [Slots -> View],
         \A p \in Slots : new[p] = vs[p] \/ (new[p].size = 0 /\ vs[p].size = 0),
         Tiling(h, vs, end)
  PROVE  Tiling(h, new, end)
<1>1. \A w \in View : w.size = 0 => UnitsOf(w) = {}
  BY DEF UnitsOf, View
<1>2. \A p \in Slots : UnitsOf(new[p]) = UnitsOf(vs[p])
  BY <1>1
<1>3. \A x \in Places(h) : UnitsAt(h, new, x) = UnitsAt(h, vs, x)
  BY <1>2 DEF UnitsAt, ViewsAt, Places
<1> QED
  BY <1>3 DEF Tiling

(* A stream is finished, and the views of the next one are empty.          *)
LEMMA Closed ==
  ASSUME NEW h, Len(h) \in Nat, NEW vs \in [Slots -> View], NEW end \in Nat,
         NEW h2, Len(h2) = Len(h) + 1, h2[Len(h) + 1].views = vs,
         \A s \in 1 .. Len(h) : h2[s] = h[s],
         NEW new \in [Slots -> View], \A p \in Slots : new[p].size = 0,
         Tiling(h, vs, end)
  PROVE  Tiling(h2, new, end)
<1>1. \A p \in Slots : UnitsOf(new[p]) = {}
  BY DEF UnitsOf, View
<1>2. \A x : x \in Places(h2) <=>
        x \in Places(h) \/ (x \in {Len(h) + 2} \X Slots)
  <2>1. \A s : s \in 1 .. Len(h) + 2 <=> s \in 1 .. Len(h) + 1 \/ s = Len(h) + 2
    OBVIOUS
  <2> QED
    BY <2>1 DEF Places
<1>3. \A x \in Places(h) : UnitsAt(h2, new, x) = UnitsAt(h, vs, x)
  <2> TAKE x \in Places(h)
  <2>1. x[1] \in 1 .. Len(h) + 1
    BY DEF Places
  <2>2. CASE x[1] \in 1 .. Len(h)
    <3>1. x[1] <= Len(h) /\ x[1] <= Len(h) + 1
      BY <2>2
    <3> QED
      BY <2>2, <3>1 DEF UnitsAt, ViewsAt
  <2>3. CASE x[1] = Len(h) + 1
    <3>1. ~(x[1] <= Len(h)) /\ x[1] <= Len(h) + 1
      BY <2>3
    <3> QED
      BY <2>3, <3>1 DEF UnitsAt, ViewsAt
  <2> QED
    BY <2>1, <2>2, <2>3
<1>4. \A x \in {Len(h) + 2} \X Slots : UnitsAt(h2, new, x) = {}
  <2>1. ~(Len(h) + 2 <= Len(h) + 1)
    OBVIOUS
  <2> QED
    BY <1>1, <2>1 DEF UnitsAt, ViewsAt
<1> QED
  BY <1>2, <1>3, <1>4 DEF Tiling

-----------------------------------------------------------------------------
(* The views the passes after pass p are for.                              *)
Ahead ==
  [none      |-> Slots,
   index     |-> {"Float3", "Short4", "Float2", "Short2", "Byte4", "IndexInt"},
   position  |-> {"Short4", "Float2", "Short2", "Byte4", "IndexInt"},
   direction |-> {"Float2", "Short2", "Byte4", "IndexInt"},
   uv        |-> {"Short2", "Byte4", "IndexInt"},
   colour    |-> {}]

Passes == {"none"} \cup DOMAIN PassSlot

(* The view of pass p ends where the buffer does, and later ones are empty. *)
ViewsRight(vs, end, p) ==
  /\ vs \in [Slots -> View] /\ end \in Nat
  /\ p # "none" => vs[PassSlot[p]].offset + vs[PassSlot[p]].size = end
  /\ \A slot \in Ahead[p] : vs[slot].size = 0

LEMMA Names ==
  /\ Slots = {"Float3", "Float2", "Short2", "Short4", "Byte4", "IndexShort", "IndexInt"}
  /\ Passes = {"none", "index", "position", "direction", "uv", "colour"}
  /\ DOMAIN Wanted = {"position", "direction", "uv", "colour"}
  BY DEF Slots, Stride, Passes, PassSlot, Wanted

LEMMA SlotOfPass ==
  \A p \in Passes \ {"none"} : PassSlot[p] \in Slots /\ PassSlot[p] \notin Ahead[p]
  BY Names DEF PassSlot, Ahead

LEMMA AheadSlots == \A p \in Passes : Ahead[p] \subseteq Slots
  BY Names DEF Ahead

LEMMA NoViewsRight ==
  /\ NoViews \in [Slots -> View]
  /\ \A slot \in Slots : NoViews[slot].size = 0
  BY DEF NoViews, View

(* A pass begins.                                                          *)
LEMMA Entered ==
  ASSUME NEW h, Len(h) \in Nat, NEW vs, NEW end, NEW old \in Passes,
         NEW p \in Passes \ {"none"},
         PassSlot[p] \in Ahead[old], Ahead[p] \subseteq Ahead[old],
         ViewsRight(vs, end, old), Tiling(h, vs, end),
         NEW new, new = [vs EXCEPT ![PassSlot[p]].offset = end]
  PROVE  ViewsRight(new, end, p) /\ Tiling(h, new, end)
<1> DEFINE slot == PassSlot[p]
<1>1. slot \in Slots /\ vs \in [Slots -> View] /\ end \in Nat /\ vs[slot].size = 0
  BY SlotOfPass DEF ViewsRight
<1>2. \A q \in Ahead[p] : q \in Slots /\ q # slot /\ vs[q].size = 0
  BY SlotOfPass, AheadSlots DEF ViewsRight
<1>3. new = [vs EXCEPT ![slot].offset = end]
  OBVIOUS
<1> HIDE DEF slot
<1>4. vs[slot] \in View
  BY <1>1
<1>5. /\ new \in [Slots -> View] /\ new[slot].offset = end /\ new[slot].size = 0
      /\ \A q \in Slots : q # slot => new[q] = vs[q]
  <2>1. [vs[slot] EXCEPT !.offset = end] \in View
    BY <1>1, <1>4 DEF View
  <2> QED
    BY <1>1, <1>3, <1>4, <2>1, ZenonT(40) DEF View
<1>6. Tiling(h, new, end)
  BY <1>1, <1>5, EmptyMoved, ZenonT(40)
<1>7. new[slot].offset + new[slot].size = end
  BY <1>1, <1>5
<1> QED
  BY <1>1, <1>2, <1>5, <1>6, <1>7 DEF ViewsRight, slot

(* Something is written in a pass.                                         *)
LEMMA Written ==
  ASSUME NEW h, Len(h) \in Nat, NEW vs, NEW end, NEW n \in Nat,
         NEW p \in Passes \ {"none"},
         ViewsRight(vs, end, p), Tiling(h, vs, end),
         NEW new, new = [vs EXCEPT ![PassSlot[p]].size = @ + n]
  PROVE  ViewsRight(new, end + n, p) /\ Tiling(h, new, end + n)
<1> DEFINE slot == PassSlot[p]
<1>1. slot \in Slots /\ vs \in [Slots -> View] /\ end \in Nat
      /\ vs[slot].offset + vs[slot].size = end
  BY SlotOfPass DEF ViewsRight
<1>2. \A q \in Ahead[p] : q \in Slots /\ q # slot /\ vs[q].size = 0
  BY SlotOfPass, AheadSlots DEF ViewsRight
<1>3. new = [vs EXCEPT ![slot].size = vs[slot].size + n]
  OBVIOUS
<1> HIDE DEF slot
<1>4. vs[slot] \in View
  BY <1>1
<1>5. /\ new \in [Slots -> View]
      /\ new[slot].offset = vs[slot].offset /\ new[slot].size = vs[slot].size + n
      /\ \A q \in Slots : q # slot => new[q] = vs[q]
  <2>1. [vs[slot] EXCEPT !.size = vs[slot].size + n] \in View
    BY <1>1, <1>4, SMTT(20) DEF View
  <2> QED
    BY <1>1, <1>3, <1>4, <2>1, ZenonT(40) DEF View
<1>6. Tiling(h, new, end + n)
  BY <1>1, <1>5, Extended
<1>7. new[slot].offset + new[slot].size = end + n
  BY <1>1, <1>4, <1>5 DEF View
<1> QED
  BY <1>1, <1>2, <1>5, <1>6, <1>7 DEF ViewsRight, slot

(* The packed UVs are written after the wide ones.                         *)
LEMMA Flushed ==
  ASSUME NEW h, Len(h) \in Nat, NEW vs, NEW end, NEW n \in Nat,
         ViewsRight(vs, end, "uv"), Tiling(h, vs, end),
         NEW new,
         new = [vs EXCEPT
                  !.Short2 = IF n = 0 THEN @ ELSE [offset |-> end, size |-> n],
                  !.Byte4.offset = end + n]
  PROVE  ViewsRight(new, end + n, "colour") /\ Tiling(h, new, end + n)
<1> DEFINE begun == [vs EXCEPT !["Short2"] = [offset |-> end, size |-> 0]]
           moved == [vs EXCEPT !["Short2"] = [offset |-> end, size |-> n]]
<1>1. /\ vs \in [Slots -> View] /\ end \in Nat /\ end + n \in Nat
      /\ vs["Short2"].size = 0 /\ vs["Byte4"].size = 0
  BY DEF ViewsRight, Ahead
<1>2. /\ begun \in [Slots -> View] /\ moved \in [Slots -> View]
      /\ begun["Short2"] = [offset |-> end, size |-> 0]
      /\ moved["Short2"] = [offset |-> end, size |-> n]
      /\ \A q \in Slots : q # "Short2" => begun[q] = vs[q] /\ moved[q] = vs[q]
  BY <1>1, Names DEF View
<1>3. new = [(IF n = 0 THEN vs ELSE moved) EXCEPT !["Byte4"].offset = end + n]
  <2>1. CASE n = 0
    BY <1>1, <2>1, Names
  <2>2. CASE n # 0
    BY <1>1, <2>2, Names
  <2> QED
    BY <2>1, <2>2
<1> HIDE DEF begun, moved
<1>4. Tiling(h, begun, end)
  BY <1>1, <1>2, EmptyMoved
<1>5. begun["Short2"].offset + begun["Short2"].size = end
  BY <1>1, <1>2
<1>6. Tiling(h, moved, end + n)
  BY <1>1, <1>2, <1>4, <1>5, Extended, Names, SMTT(20)
<1> DEFINE mid == IF n = 0 THEN vs ELSE moved
<1>7. /\ mid \in [Slots -> View] /\ mid["Byte4"].size = 0 /\ Tiling(h, mid, end + n)
  <2>1. CASE n = 0
    BY <1>1, <2>1
  <2>2. CASE n # 0
    BY <1>1, <1>2, <1>6, <2>2, Names
  <2> QED
    BY <2>1, <2>2
<1>8. new = [mid EXCEPT !["Byte4"].offset = end + n]
  BY <1>3
<1> HIDE DEF mid
<1>9. mid["Byte4"] \in View
  BY <1>7, Names
<1> DEFINE colours == [offset |-> end + n, size |-> mid["Byte4"].size]
<1>10. /\ new \in [Slots -> View] /\ new["Byte4"].offset = end + n /\ new["Byte4"].size = 0
       /\ \A q \in Slots : q # "Byte4" => new[q] = mid[q]
  <2>1. [mid["Byte4"] EXCEPT !.offset = end + n] = colours
    BY <1>9 DEF View
  <2>2. colours \in View
    BY <1>1, <1>9 DEF View
  <2>3. new = [mid EXCEPT !["Byte4"] = colours]
    BY <1>8, <2>1
  <2>4. colours.offset = end + n /\ colours.size = 0
    BY <1>7
  <2> HIDE DEF colours
  <2>5. mid \in [Slots -> View] /\ "Byte4" \in Slots
    BY <1>7, Names
  <2>6. new \in [Slots -> View]
    BY <2>2, <2>3, <2>5
  <2>7. new["Byte4"] = colours
    BY <2>3, <2>5
  <2>8. \A q \in Slots : q # "Byte4" => new[q] = mid[q]
    BY <2>3, <2>5
  <2> QED
    BY <2>4, <2>6, <2>7, <2>8
<1>11. Tiling(h, new, end + n)
  <2> DEFINE e == end + n
  <2>1. e \in Nat /\ Tiling(h, mid, e)
    BY <1>1, <1>7
  <2> HIDE DEF e
  <2>2. \A q \in Slots : new[q] = mid[q] \/ (new[q].size = 0 /\ mid[q].size = 0)
    BY <1>7, <1>10
  <2>3. Tiling(h, new, e)
    BY <1>7, <1>10, <2>1, <2>2, EmptyMoved
  <2> QED
    BY <2>3 DEF e
<1>12. new["Byte4"].offset + new["Byte4"].size = end + n
  BY <1>1, <1>10
<1> QED
  BY <1>1, <1>10, <1>11, <1>12 DEF ViewsRight, Ahead, PassSlot

-----------------------------------------------------------------------------
(* The inductive invariant, in parts.                                      *)
SourceRight ==
  /\ map \in MapFiles
  /\ IsStreams(source)
  /\ at \in Nat \ {0}
  /\ pass \in Passes
  /\ pass # "none" => at <= Len(source)

QueueRight ==
  /\ pass = "index" => queue \subseteq (DOMAIN Stream.indices) \X {0}
  /\ pass \in DOMAIN Wanted => queue \subseteq Items(Stream, pass)

ListsRight == (\E S : header \in Seq(S)) /\ (\E S : uv16 \in Seq(S))

BufferRight == ViewsRight(views, total, pass) /\ Tiling(header, views, total)

Inv == SourceRight /\ QueueRight /\ ListsRight /\ BufferRight

(* The stream being written is one of the map's.                           *)
LEMMA StreamRight ==
  ASSUME SourceRight, at <= Len(source)
  PROVE  /\ IsStream(Stream)
         /\ Stream.indices \in Seq(Nat) /\ Len(Stream.indices) \in Nat
         /\ DOMAIN Stream.indices = 1 .. Len(Stream.indices)
         /\ \A i \in DOMAIN Stream.indices : Stream.indices[i] \in Nat
<1>1. source \in Seq(Range(source)) /\ at \in 1 .. Len(source)
  BY DEF SourceRight, IsStreams
<1>2. Stream \in Range(source)
  BY <1>1, ElementOfSeq DEF Stream
<1>3. IsStream(Stream)
  BY <1>2 DEF SourceRight, IsStreams
<1>4. Stream.indices \in Seq(Nat)
  BY <1>3 DEF IsStream
<1> QED
  BY <1>3, <1>4, LenProperties, ElementOfSeq

(* Its vertex buffers, and the places of their descriptors.                *)
LEMMA VerticesRight ==
  ASSUME NEW s, IsStream(s)
  PROVE  /\ Len(s.vertices) \in Nat /\ DOMAIN s.vertices = 1 .. Len(s.vertices)
         /\ \A v \in DOMAIN s.vertices :
              /\ s.vertices[v].n \in Nat
              /\ s.vertices[v].descs \in Seq(Descriptors)
              /\ Len(s.vertices[v].descs) \in Nat
              /\ DOMAIN s.vertices[v].descs = 1 .. Len(s.vertices[v].descs)
              /\ IsFiniteSet(DOMAIN s.vertices[v].descs)
<1>1. s.vertices \in Seq([n : Nat, descs : Seq(Descriptors)])
  BY DEF IsStream
<1>2. Len(s.vertices) \in Nat /\ DOMAIN s.vertices = 1 .. Len(s.vertices)
  BY <1>1, LenProperties
<1>3. \A v \in DOMAIN s.vertices : s.vertices[v] \in [n : Nat, descs : Seq(Descriptors)]
  BY <1>1, <1>2, ElementOfSeq
<1>4. ASSUME NEW v \in DOMAIN s.vertices
      PROVE  /\ s.vertices[v].n \in Nat
             /\ s.vertices[v].descs \in Seq(Descriptors)
             /\ Len(s.vertices[v].descs) \in Nat
             /\ DOMAIN s.vertices[v].descs = 1 .. Len(s.vertices[v].descs)
             /\ IsFiniteSet(DOMAIN s.vertices[v].descs)
  <2>1. s.vertices[v].n \in Nat /\ s.vertices[v].descs \in Seq(Descriptors)
    BY <1>3
  <2>2. /\ Len(s.vertices[v].descs) \in Nat
        /\ DOMAIN s.vertices[v].descs = 1 .. Len(s.vertices[v].descs)
    BY <2>1, LenProperties
  <2>3. \A m \in Nat : IsFiniteSet(1 .. m)
    BY FS_Interval
  <2> QED
    BY <2>1, <2>2, <2>3
<1> QED
  BY <1>2, <1>4

LEMMA PositionsRight ==
  ASSUME NEW s, IsStream(s)
  PROVE  /\ Positions(s) \subseteq (Nat \X Nat)
         /\ \A i \in Positions(s) :
              i[1] \in DOMAIN s.vertices /\ i[2] \in DOMAIN s.vertices[i[1]].descs
         /\ \A v \in DOMAIN s.vertices : \A d \in DOMAIN s.vertices[v].descs :
              <<v, d>> \in Positions(s)
<1>1. \A i \in Positions(s) : \E v \in DOMAIN s.vertices :
        i \in {v} \X (DOMAIN s.vertices[v].descs)
  BY DEF Positions
<1>2. \A v \in DOMAIN s.vertices : v \in Nat /\ \A d \in DOMAIN s.vertices[v].descs : d \in Nat
  BY VerticesRight
<1>3. \A v \in DOMAIN s.vertices : \A d \in DOMAIN s.vertices[v].descs :
        <<v, d>> \in Positions(s)
  BY DEF Positions
<1> QED
  BY <1>1, <1>2, <1>3

(* What a pass comes to next is in its queue, and the first of it.         *)
LEMMA ItemOfQueue ==
  ASSUME queue \subseteq Nat \X Nat, queue # {}
  PROVE  Item \in queue /\ \A j \in queue \ {Item} : Before(Item, j)
  BY FirstPair DEF Item

LEMMA QueueOfPairs ==
  ASSUME SourceRight, QueueRight, pass # "none"
  PROVE  queue \subseteq Nat \X Nat
<1>1. IsStream(Stream) /\ DOMAIN Stream.indices \subseteq Nat
  BY StreamRight DEF SourceRight
<1>2. CASE pass = "index"
  BY <1>1, <1>2 DEF QueueRight
<1>3. CASE pass \in DOMAIN Wanted
  BY <1>1, <1>3, PositionsRight DEF QueueRight, Items
<1> QED
  BY <1>2, <1>3, Names DEF SourceRight

LEMMA UnitsRight == \A n \in Nat : \A tag : Units(n, tag) \in Seq({tag})
  BY SeqDef DEF Units

LEMMA IndexLength ==
  ASSUME SourceRight, QueueRight, pass = "index", queue # {}
  PROVE  Len(IndexUnits) \in Nat
<1>1. Item \in (DOMAIN Stream.indices) \X {0}
  BY ItemOfQueue, QueueOfPairs DEF QueueRight
<1>4. IndexCount \in Nat
  BY <1>1, StreamRight DEF IndexCount, SourceRight
<1>5. IndexCount % 2 \in Nat
  BY <1>4
<1> DEFINE tag == <<at, "index", Item[1], 0>>
           pad == <<at, "pad", Item[1], 0>>
<1>6. Units(IndexCount, tag) \in Seq({tag, pad}) /\ Units(IndexCount % 2, pad) \in Seq({tag, pad})
  <2>1. Units(IndexCount, tag) \in Seq({tag}) /\ Units(IndexCount % 2, pad) \in Seq({pad})
    BY <1>4, <1>5, UnitsRight
  <2> HIDE DEF tag, pad
  <2>2. Seq({tag}) \subseteq Seq({tag, pad}) /\ Seq({pad}) \subseteq Seq({tag, pad})
    BY SeqDef
  <2> QED
    BY <2>1, <2>2
<1>7. IndexUnits \in Seq({tag, pad})
  BY <1>6, ConcatProperties DEF IndexUnits
<1> QED
  BY <1>7, LenProperties

LEMMA ItemRight ==
  ASSUME SourceRight, QueueRight, pass \in DOMAIN Wanted, queue # {}, NEW slot \in Slots
  PROVE  /\ \E S : ItemUnits(slot) \in Seq(S)
         /\ Item \in queue /\ Item \in Items(Stream, pass)
         /\ Item[1] \in DOMAIN Stream.vertices
         /\ Stream.vertices[Item[1]].n * Stride[slot] \in Nat
<1>0. IsStream(Stream)
  BY StreamRight, Names DEF SourceRight
<1>1. /\ Item \in queue /\ Item \in Items(Stream, pass)
      /\ \A v \in DOMAIN Stream.vertices : Stream.vertices[v].n \in Nat
  BY <1>0, ItemOfQueue, QueueOfPairs, VerticesRight, Names DEF QueueRight
<1>2. Item[1] \in DOMAIN Stream.vertices
  BY <1>0, <1>1, PositionsRight DEF Items
<1>3. Stride[slot] \in Nat
  BY Names DEF Stride
<1>4. \A m, n \in Nat : m * n \in Nat
  OBVIOUS
<1>5. Stream.vertices[Item[1]].n * Stride[slot] \in Nat
  BY <1>1, <1>2, <1>3, <1>4
<1> QED
  BY <1>1, <1>2, <1>5, UnitsRight DEF ItemUnits

(* What is left of a pass is of the same kind.                             *)
LEMMA QueueLess ==
  ASSUME QueueRight, queue' \subseteq queue, UNCHANGED <<source, at, pass>>
  PROVE  QueueRight'
  BY DEF QueueRight, Stream

(* Header and packed UVs have a length.                                    *)
LEMMA Lengths == ListsRight => Len(header) \in Nat /\ Len(uv16) \in Nat
  BY LenProperties DEF ListsRight

(* An empty buffer is tiled by no views.                                   *)
LEMMA NoTiles == ASSUME NEW h, Len(h) = 0 PROVE Tiling(h, NoViews, 0)
<1>1. \A slot \in Slots : UnitsOf(NoViews[slot]) = {}
  BY NoViewsRight DEF UnitsOf, NoViews
<1>2. \A x \in Places(h) : x[1] = 1 /\ x[2] \in Slots
  BY DEF Places
<1>3. \A x \in Places(h) : UnitsAt(h, NoViews, x) = {}
  BY <1>1, <1>2 DEF UnitsAt, ViewsAt
<1> QED
  BY <1>3 DEF Tiling

-----------------------------------------------------------------------------
LEMMA InitRight == ExtractInit => Inv
<1> SUFFICES ASSUME ExtractInit PROVE Inv
  OBVIOUS
<1>1. Len(<<>>) = 0
  BY EmptySeq
<1>2. source = <<>> /\ header = <<>> /\ uv16 = <<>> /\ at = 1 /\ pass = "none" /\ total = 0
      /\ views = NoViews /\ map \in MapFiles
  BY DEF ExtractInit, Fresh
<1>3. IsStreams(source)
  <2>1. source \in Seq(Range(source)) /\ Range(source) = {}
    BY <1>2, EmptySeq DEF Range
  <2> QED
    BY <2>1 DEF IsStreams
<1>4. SourceRight
  BY <1>2, <1>3 DEF SourceRight, Passes
<1>5. QueueRight
  BY <1>2, Names DEF QueueRight
<1>6. ListsRight
  BY <1>2, EmptySeq DEF ListsRight
<1>7. ViewsRight(views, total, pass)
  BY <1>2, NoViewsRight DEF ViewsRight, Ahead
<1>8. Tiling(<<>>, NoViews, 0)
  BY NoTiles, <1>1
<1> QED
  BY <1>2, <1>4, <1>5, <1>6, <1>7, <1>8 DEF Inv, BufferRight

(* The session goes on without the shared buffers.                         *)
LEMMA Elsewhere == ASSUME Inv, map' = map, UNCHANGED mapVars PROVE Inv'
  BY DEF Inv, SourceRight, QueueRight, ListsRight, BufferRight, Stream,
         mapVars, streamVars, fileVars

(* A shared buffer is begun.                                               *)
LEMMA OpenBinRight == ASSUME Inv, OpenBin PROVE Inv'
<1> DEFINE streams == IF Part = "oj.bin" THEN map.objects ELSE map.terrain
<1>1. /\ source' = streams /\ header' = <<>> /\ uv16' = <<>> /\ at' = 1 /\ pass' = "none"
      /\ total' = 0 /\ views' = NoViews /\ map' = map
  BY DEF OpenBin, Start
<1>2. IsStreams(source')
  <2>1. IsStreams(streams)
    BY MapAssumption DEF Inv, SourceRight
  <2> HIDE DEF streams
  <2> QED
    BY <1>1, <2>1
<1>3. SourceRight'
  BY <1>1, <1>2 DEF Inv, SourceRight, Passes
<1>4. QueueRight'
  BY <1>1, Names DEF QueueRight
<1>5. ListsRight'
  BY <1>1, EmptySeq DEF ListsRight
<1>6. ViewsRight(views', total', pass')
  BY <1>1, NoViewsRight DEF ViewsRight, Ahead
<1>7. Tiling(<<>>, NoViews, 0)
  BY NoTiles, EmptySeq
<1> QED
  BY <1>1, <1>3, <1>4, <1>5, <1>6, <1>7 DEF Inv, BufferRight

(* A pass over the stream begins.                                          *)
LEMMA BeginStreamRight == ASSUME Inv, BeginStream, map' = map PROVE Inv'
<1>1. /\ pass = "none" /\ at <= Len(source) /\ pass' = "index"
      /\ queue' = (DOMAIN Stream.indices) \X {0}
      /\ views' = [views EXCEPT ![PassSlot["index"]].offset = total]
      /\ UNCHANGED <<source, at, uv16, total, header>>
  BY DEF BeginStream, Enter, fileVars
<1>2. SourceRight'
  BY <1>1, Names DEF Inv, SourceRight
<1>3. QueueRight'
  <2>1. Stream' = Stream
    BY <1>1 DEF Stream
  <2> QED
    BY <1>1, <2>1, Names DEF QueueRight
<1>4. ListsRight'
  BY <1>1 DEF Inv, ListsRight
<1>5. BufferRight'
  <2>1. PassSlot["index"] \in Ahead["none"] /\ Ahead["index"] \subseteq Ahead["none"]
    BY Names DEF PassSlot, Ahead
  <2>2. ViewsRight(views', total, "index") /\ Tiling(header, views', total)
    BY <1>1, <2>1, Entered, Lengths, Names DEF Inv, BufferRight
  <2> QED
    BY <1>1, <2>2 DEF BufferRight
<1> QED
  BY <1>2, <1>3, <1>4, <1>5 DEF Inv

LEMMA TakeVerticesRight == ASSUME Inv, TakeVertices, map' = map PROVE Inv'
<1>1. /\ pass = "index" /\ pass' = "position" /\ queue' = Items(Stream, "position")
      /\ views' = [views EXCEPT ![PassSlot["position"]].offset = total]
      /\ UNCHANGED <<source, at, uv16, total, header>>
  BY DEF TakeVertices, Enter, fileVars
<1>2. SourceRight'
  BY <1>1, Names DEF Inv, SourceRight
<1>3. QueueRight'
  <2>2. Stream' = Stream
    BY <1>1 DEF Stream
  <2> QED
    BY <1>1, <2>2, Names DEF QueueRight
<1>4. ListsRight'
  BY <1>1 DEF Inv, ListsRight
<1>5. BufferRight'
  <2>1. PassSlot["position"] \in Ahead["index"] /\ Ahead["position"] \subseteq Ahead["index"]
    BY DEF PassSlot, Ahead
  <2>2. ViewsRight(views', total, "position") /\ Tiling(header, views', total)
    BY <1>1, <2>1, Entered, Lengths, Names DEF Inv, BufferRight
  <2> QED
    BY <1>1, <2>2 DEF BufferRight
<1> QED
  BY <1>2, <1>3, <1>4, <1>5 DEF Inv

LEMMA NextPassRight == ASSUME Inv, NextPass, map' = map PROVE Inv'
<1> DEFINE p == IF pass = "position" THEN "direction" ELSE "uv"
<1>1. /\ pass \in {"position", "direction"} /\ pass' = p /\ queue' = Items(Stream, p)
      /\ views' = [views EXCEPT ![PassSlot[p]].offset = total]
      /\ UNCHANGED <<source, at, uv16, total, header>>
  BY DEF NextPass, Enter, fileVars
<1>2. p \in {"direction", "uv"} /\ p \in Passes \ {"none"} /\ p \in DOMAIN Wanted
  BY Names
<1>3. PassSlot[p] \in Ahead[pass] /\ Ahead[p] \subseteq Ahead[pass]
  BY <1>1 DEF PassSlot, Ahead
<1> HIDE DEF p
<1>4. SourceRight'
  BY <1>1, <1>2 DEF Inv, SourceRight
<1>5. QueueRight'
  <2>2. Stream' = Stream
    BY <1>1 DEF Stream
  <2> QED
    BY <1>1, <1>2, <2>2, Names DEF QueueRight
<1>6. ListsRight'
  BY <1>1 DEF Inv, ListsRight
<1>7. BufferRight'
  <2>1. ViewsRight(views', total, p) /\ Tiling(header, views', total)
    BY <1>1, <1>2, <1>3, Entered, Lengths DEF Inv, SourceRight, BufferRight
  <2> QED
    BY <1>1, <2>1 DEF BufferRight
<1> QED
  BY <1>4, <1>5, <1>6, <1>7 DEF Inv

(* What a pass writes.                                                     *)
LEMMA WriteIndicesRight == ASSUME Inv, WriteIndices, map' = map PROVE Inv'
<1> DEFINE n == Len(IndexUnits)
<1>1. /\ pass = "index" /\ queue # {} /\ queue' = queue \ {Item}
      /\ total' = total + n
      /\ views' = [views EXCEPT !["IndexShort"].size = @ + n]
      /\ UNCHANGED <<source, at, pass, uv16, header>>
  BY DEF WriteIndices, Send
<1>2. n \in Nat
  BY <1>1, IndexLength DEF Inv
<1> HIDE DEF n
<1>3. SourceRight'
  BY <1>1 DEF Inv, SourceRight
<1>4. QueueRight'
  BY <1>1, QueueLess DEF Inv
<1>5. ListsRight'
  BY <1>1 DEF Inv, ListsRight
<1>6. BufferRight'
  <2>1. PassSlot["index"] = "IndexShort"
    BY DEF PassSlot
  <2>2. ViewsRight(views', total + n, "index") /\ Tiling(header, views', total + n)
    BY <1>1, <1>2, <2>1, Written, Lengths, Names DEF Inv, BufferRight
  <2> QED
    BY <1>1, <2>2 DEF BufferRight
<1> QED
  BY <1>3, <1>4, <1>5, <1>6 DEF Inv

LEMMA WriteAttributeRight == ASSUME Inv, WriteAttribute, map' = map PROVE Inv'
<1> DEFINE n == Len(ItemUnits(PassSlot[pass]))
<1>1. /\ pass \in DOMAIN Wanted /\ queue # {} /\ queue' = queue \ {Item}
      /\ total' = total + n
      /\ views' = [views EXCEPT ![PassSlot[pass]].size = @ + n]
      /\ UNCHANGED <<source, at, pass, uv16, header>>
  BY DEF WriteAttribute, Send
<1>2. n \in Nat
  <2>1. PassSlot[pass] \in Slots
    BY <1>1, SlotOfPass, Names
  <2> QED
    BY <1>1, <2>1, ItemRight, LenProperties DEF Inv
<1> HIDE DEF n
<1>3. SourceRight'
  BY <1>1 DEF Inv, SourceRight
<1>4. QueueRight'
  BY <1>1, QueueLess DEF Inv
<1>5. ListsRight'
  BY <1>1 DEF Inv, ListsRight
<1>6. BufferRight'
  <2>1. pass \in Passes \ {"none"}
    BY <1>1, Names
  <2>2. ViewsRight(views', total + n, pass) /\ Tiling(header, views', total + n)
    BY <1>1, <1>2, <2>1, Written, Lengths DEF Inv, BufferRight
  <2> QED
    BY <1>1, <2>2 DEF BufferRight
<1> QED
  BY <1>3, <1>4, <1>5, <1>6 DEF Inv

LEMMA KeepPackedUVRight == ASSUME Inv, KeepPackedUV, map' = map PROVE Inv'
<1>1. /\ pass = "uv" /\ queue # {} /\ queue' = queue \ {Item}
      /\ uv16' = uv16 \o ItemUnits("Short2")
      /\ UNCHANGED <<source, at, pass, views, total, header>>
  BY DEF KeepPackedUV, fileVars
<1>2. SourceRight'
  BY <1>1 DEF Inv, SourceRight
<1>3. QueueRight'
  BY <1>1, QueueLess DEF Inv
<1>4. ListsRight'
  <2>1. PICK S : uv16 \in Seq(S)
    BY DEF Inv, ListsRight
  <2>2. PICK T : ItemUnits("Short2") \in Seq(T)
    BY <1>1, ItemRight, Names DEF Inv
  <2>3. Seq(S) \subseteq Seq(S \cup T) /\ Seq(T) \subseteq Seq(S \cup T)
    BY SeqDef
  <2>4. uv16' \in Seq(S \cup T)
    BY <1>1, <2>1, <2>2, <2>3, ConcatProperties
  <2> QED
    BY <1>1, <2>4 DEF Inv, ListsRight
<1>5. BufferRight'
  BY <1>1 DEF Inv, BufferRight
<1> QED
  BY <1>2, <1>3, <1>4, <1>5 DEF Inv

LEMMA FlushPackedUVsRight == ASSUME Inv, FlushPackedUVs, map' = map PROVE Inv'
<1> DEFINE n == Len(uv16)
<1>1. /\ pass = "uv" /\ pass' = "colour" /\ queue' = Items(Stream, "colour")
      /\ total' = total + n
      /\ views' = [views EXCEPT
              !.Short2 = IF uv16 = <<>> THEN @ ELSE [offset |-> total, size |-> n],
              !.Byte4.offset = total + n]
      /\ UNCHANGED <<source, at, uv16, header>>
  BY DEF FlushPackedUVs
<1>2. n \in Nat /\ (uv16 = <<>> <=> n = 0)
  <2>1. PICK S : uv16 \in Seq(S)
    BY DEF Inv, ListsRight
  <2> QED
    BY <2>1, LenProperties, EmptySeq
<1> HIDE DEF n
<1>3. SourceRight'
  BY <1>1, Names DEF Inv, SourceRight
<1>4. QueueRight'
  <2>2. Stream' = Stream
    BY <1>1 DEF Stream
  <2> QED
    BY <1>1, <2>2, Names DEF QueueRight
<1>5. ListsRight'
  BY <1>1 DEF Inv, ListsRight
<1>6. BufferRight'
  <2>1. views' = [views EXCEPT
              !.Short2 = IF n = 0 THEN @ ELSE [offset |-> total, size |-> n],
              !.Byte4.offset = total + n]
    BY <1>1, <1>2
  <2>2. ViewsRight(views', total + n, "colour") /\ Tiling(header, views', total + n)
    BY <1>1, <1>2, <2>1, Flushed, Lengths DEF Inv, BufferRight
  <2> QED
    BY <1>1, <2>2 DEF BufferRight
<1> QED
  BY <1>3, <1>4, <1>5, <1>6 DEF Inv

(* A stream is finished.                                                   *)
LEMMA EndStreamRight == ASSUME Inv, EndStream, map' = map PROVE Inv'
<1> DEFINE described == [indices |-> indices, vertices |-> attrs, views |-> views]
<1>1. /\ pass = "colour" /\ pass' = "none" /\ header' = Append(header, described)
      /\ at' = at + 1 /\ views' = NoViews /\ uv16' = <<>> /\ UNCHANGED <<source, total>>
  BY DEF EndStream
<1>2. described.views = views
  OBVIOUS
<1> HIDE DEF described
<1>3. SourceRight'
  BY <1>1, Names DEF Inv, SourceRight
<1>4. QueueRight'
  BY <1>1, Names DEF QueueRight
<1>5. PICK S : header \in Seq(S)
  BY DEF Inv, ListsRight
<1>6. header \in Seq(S \cup {described})
  BY <1>5, SeqDef
<1>7. /\ header' \in Seq(S \cup {described}) /\ Len(header') = Len(header) + 1
      /\ header'[Len(header) + 1] = described
      /\ \A s \in 1 .. Len(header) : header'[s] = header[s]
  BY <1>1, <1>6, AppendProperties
<1>8. ListsRight'
  BY <1>1, <1>7, EmptySeq DEF ListsRight
<1>9. BufferRight'
  <2>1. views \in [Slots -> View] /\ total \in Nat /\ Tiling(header, views, total)
    BY DEF Inv, BufferRight, ViewsRight
  <2>2. Tiling(header', views', total)
    BY <1>1, <1>2, <1>7, <2>1, NoViewsRight, Lengths, Closed DEF Inv
  <2>3. ViewsRight(views', total, "none")
    BY <1>1, <2>1, NoViewsRight DEF ViewsRight, Ahead
  <2> QED
    BY <1>1, <2>2, <2>3 DEF BufferRight
<1> QED
  BY <1>3, <1>4, <1>8, <1>9 DEF Inv

(* A buffer is given up or has its header written.                         *)
LEMMA StatusRight ==
  ASSUME Inv, UNCHANGED <<map, source, streamVars, bin, total, header>>
  PROVE  Inv'
  BY DEF Inv, SourceRight, QueueRight, ListsRight, BufferRight, Stream, streamVars

LEMMA ExtractRight == ASSUME Inv, Extract, map' = map PROVE Inv'
<1>1. CASE Refuse
  BY <1>1, StatusRight DEF Refuse
<1>2. CASE BeginStream
  BY <1>2, BeginStreamRight
<1>3. CASE WriteIndices
  BY <1>3, WriteIndicesRight
<1>4. CASE TakeVertices
  BY <1>4, TakeVerticesRight
<1>5. CASE WriteAttribute
  BY <1>5, WriteAttributeRight
<1>6. CASE KeepPackedUV
  BY <1>6, KeepPackedUVRight
<1>7. CASE NextPass
  BY <1>7, NextPassRight
<1>8. CASE FlushPackedUVs
  BY <1>8, FlushPackedUVsRight
<1>9. CASE EndStream
  BY <1>9, EndStreamRight
<1>10. CASE WriteHeader
  BY <1>10, StatusRight DEF WriteHeader
<1> QED
  BY <1>1, <1>2, <1>3, <1>4, <1>5, <1>6, <1>7, <1>8, <1>9, <1>10 DEF Extract

LEMMA StepRight == ASSUME Inv, [Next]_sessionVars PROVE Inv'
<1>1. CASE OpenBin
  BY <1>1, OpenBinRight
<1>2. CASE WriteBin
  BY <1>2, ExtractRight DEF WriteBin, extractVars
<1>3. CASE RefuseMap \/ RefuseTexture
  BY <1>3, Elsewhere DEF RefuseMap, RefuseTexture, GiveUp
<1>4. CASE SendTexture \/ SendCached \/ SendEntry \/ SendModel
  BY <1>4, Elsewhere DEF SendTexture, SendCached, SendEntry, SendModel, WriteFile
<1>5. CASE CloseBin \/ NextPart \/ EndMap
  BY <1>5, Elsewhere DEF CloseBin, NextPart, EndMap
<1>6. CASE UNCHANGED sessionVars
  BY <1>6, Elsewhere DEF sessionVars, extractVars
<1> QED
  BY <1>1, <1>2, <1>3, <1>4, <1>5, <1>6 DEF Next, AppProcessFile, Done

-----------------------------------------------------------------------------
(***************************************************************************)
(* What records of the header lead to, for the proof that they lead back.  *)
(* The n units of b from begin on belong to tag.                           *)
(***************************************************************************)
Holds(b, begin, n, tag) ==
  /\ begin + n <= Len(b)
  /\ \A u \in begin + 1 .. begin + n : b[u] = tag

InView(b, w, offset, n, tag) ==
  offset + n <= w.size /\ Holds(b, w.offset + offset, n, tag)

(* b has been written on to c.                                             *)
Grown(b, c) ==
  /\ Len(b) \in Nat /\ Len(c) \in Nat /\ Len(b) <= Len(c)
  /\ \A u \in 1 .. Len(b) : c[u] = b[u]

LEMMA Joined ==
  ASSUME NEW S, NEW b \in Seq(S), NEW T, NEW c \in Seq(T)
  PROVE  /\ b \o c \in Seq(S \cup T)
         /\ Len(b) \in Nat /\ Len(c) \in Nat /\ Len(b \o c) = Len(b) + Len(c)
         /\ Grown(b, b \o c)
         /\ \A u \in 1 .. Len(c) : (b \o c)[Len(b) + u] = c[u]
<1>1. b \in Seq(S \cup T) /\ c \in Seq(S \cup T)
  BY SeqMonotonic
<1>2. Len(b) \in Nat /\ Len(c) \in Nat
  BY LenProperties
<1>3. /\ b \o c \in Seq(S \cup T) /\ Len(b \o c) = Len(b) + Len(c)
      /\ \A u \in 1 .. Len(b) + Len(c) :
           (b \o c)[u] = IF u <= Len(b) THEN b[u] ELSE c[u - Len(b)]
  BY <1>1, ConcatProperties
<1>4. \A u \in 1 .. Len(b) : (b \o c)[u] = b[u]
  BY <1>2, <1>3
<1>5. \A u \in 1 .. Len(c) : (b \o c)[Len(b) + u] = c[u]
  <2> TAKE u \in 1 .. Len(c)
  <2>1. /\ Len(b) + u \in 1 .. Len(b) + Len(c) /\ ~(Len(b) + u <= Len(b))
        /\ (Len(b) + u) - Len(b) = u
    BY <1>2
  <2> QED
    BY <1>3, <2>1
<1> QED
  BY <1>2, <1>3, <1>4, <1>5 DEF Grown

LEMMA HoldsGrown ==
  ASSUME NEW b, NEW c, Grown(b, c), NEW begin \in Nat, NEW n \in Nat, NEW tag,
         Holds(b, begin, n, tag)
  PROVE  Holds(c, begin, n, tag)
<1>1. begin + n <= Len(c)
  BY DEF Grown, Holds
<1>2. \A u \in begin + 1 .. begin + n : u \in 1 .. Len(b)
  BY DEF Grown, Holds
<1> QED
  BY <1>1, <1>2 DEF Grown, Holds

LEMMA HoldsJoined ==
  ASSUME NEW S, NEW b \in Seq(S), NEW T, NEW c \in Seq(T), NEW n \in Nat, n <= Len(c),
         NEW tag, \A u \in 1 .. n : c[u] = tag
  PROVE  Holds(b \o c, Len(b), n, tag)
<1>1. /\ Len(b) \in Nat /\ Len(c) \in Nat /\ Len(b \o c) = Len(b) + Len(c)
      /\ \A u \in 1 .. Len(c) : (b \o c)[Len(b) + u] = c[u]
  BY Joined
<1>2. ASSUME NEW u \in Len(b) + 1 .. Len(b) + n PROVE (b \o c)[u] = tag
  <2>1. PICK w \in 1 .. n : u = Len(b) + w
    <3>1. u - Len(b) \in 1 .. n /\ u = Len(b) + (u - Len(b))
      BY <1>1
    <3> QED
      BY <3>1
  <2>2. w \in 1 .. Len(c)
    BY <1>1
  <2> QED
    BY <1>1, <2>1, <2>2
<1> QED
  BY <1>1, <1>2 DEF Holds

(* A view that keeps its place and loses nothing, in a buffer written on.  *)
LEMMA InViewGrown ==
  ASSUME NEW b, NEW c, Grown(b, c), NEW w \in View, NEW x \in View,
         x.offset = w.offset, w.size <= x.size,
         NEW offset \in Nat, NEW n \in Nat, NEW tag, InView(b, w, offset, n, tag)
  PROVE  InView(c, x, offset, n, tag)
<1>1. w.offset \in Nat /\ w.size \in Nat /\ x.size \in Nat
  BY DEF View
<1>2. w.offset + offset \in Nat
  BY <1>1
<1>3. Holds(c, w.offset + offset, n, tag)
  BY <1>2, HoldsGrown DEF InView
<1>4. offset + n <= x.size
  BY <1>1 DEF InView
<1> QED
  BY <1>3, <1>4 DEF InView

-----------------------------------------------------------------------------
(* The slot of a descriptor, its units and what they are tagged with.      *)
SlotOf(desc) ==
  IF desc \in Packed THEN "Short2" ELSE PassSlot[PassOrder[Turn(desc)]]

UnitCount(s, i) == s.vertices[i[1]].n * Stride[SlotOf(DescAt(s, i))]

VertexTag(n, i) == <<n, "vertex", i[1], i[2]>>

PassTurn == [position |-> 1, direction |-> 2, uv |-> 3, colour |-> 4]

LEMMA TurnFacts ==
  /\ \A p \in DOMAIN Wanted : PassTurn[p] \in 1 .. 4 /\ PassOrder[PassTurn[p]] = p
  /\ \A p \in DOMAIN Wanted : \A desc \in Wanted[p] : Turn(desc) = PassTurn[p]
<1>1. /\ PassOrder[1] = "position" /\ PassOrder[2] = "direction"
      /\ PassOrder[3] = "uv" /\ PassOrder[4] = "colour"
  BY DEF PassOrder
<1>2. \A p \in DOMAIN Wanted : PassTurn[p] \in 1 .. 4 /\ PassOrder[PassTurn[p]] = p
  BY <1>1, Names DEF PassTurn
<1>3. \A p, q \in DOMAIN Wanted : \A desc : desc \in Wanted[p] /\ desc \in Wanted[q] => p = q
  BY Names DEF Wanted, Packed
<1>4. \A n \in 1 .. 4 : PassOrder[n] \in DOMAIN Wanted /\ PassTurn[PassOrder[n]] = n
  <2>1. \A n \in 1 .. 4 : n = 1 \/ n = 2 \/ n = 3 \/ n = 4
    OBVIOUS
  <2> QED
    BY <1>1, <2>1, Names DEF PassTurn
<1>5. ASSUME NEW p \in DOMAIN Wanted, NEW desc \in Wanted[p]
      PROVE  Turn(desc) = PassTurn[p]
  <2>1. \E n \in 1 .. 4 : desc \in Wanted[PassOrder[n]]
    BY <1>2
  <2>2. Turn(desc) \in 1 .. 4 /\ desc \in Wanted[PassOrder[Turn(desc)]]
    BY <2>1 DEF Turn
  <2> QED
    BY <1>3, <1>4, <2>2
<1> QED
  BY <1>2, <1>5

(* A descriptor of a pass: its turn and its slot.                          *)
LEMMA SlotFacts ==
  ASSUME NEW p \in DOMAIN Wanted, NEW desc \in Wanted[p]
  PROVE  /\ Turn(desc) = PassTurn[p]
         /\ SlotOf(desc) = IF desc \in Packed THEN "Short2" ELSE PassSlot[p]
         /\ SlotOf(desc) \in Slots /\ Stride[SlotOf(desc)] \in Nat
         /\ desc \in Packed => p = "uv"
<1>1. Turn(desc) = PassTurn[p] /\ PassOrder[PassTurn[p]] = p
  BY TurnFacts
<1>2. SlotOf(desc) = IF desc \in Packed THEN "Short2" ELSE PassSlot[p]
  BY <1>1 DEF SlotOf
<1>3. SlotOf(desc) \in Slots
  BY <1>2, SlotOfPass, Names
<1>4. \A slot \in Slots : Stride[slot] \in Nat
  BY Names DEF Stride
<1>5. desc \in Packed => p = "uv"
  BY Names DEF Wanted, Packed
<1> QED
  BY <1>1, <1>2, <1>3, <1>4, <1>5

-----------------------------------------------------------------------------
(* The descriptors of vertex buffer v that have a record when a pass of    *)
(* this turn has q left.                                                   *)
DoneOf(s, q, turn, v) ==
  {d \in Recorded(s, v) :
     \/ Turn(DescAt(s, <<v, d>>)) < turn
     \/ Turn(DescAt(s, <<v, d>>)) = turn /\ <<v, d>> \notin q}

LEMMA RecordedFacts ==
  ASSUME NEW s, IsStream(s), NEW v \in DOMAIN s.vertices
  PROVE  /\ IsFiniteSet(Recorded(s, v)) /\ Recorded(s, v) \subseteq Nat
         /\ \A d \in Recorded(s, v) :
              /\ <<v, d>> \in Positions(s)
              /\ Turn(DescAt(s, <<v, d>>)) \in 1 .. 4
              /\ Due(s, <<v, d>>) = <<Turn(DescAt(s, <<v, d>>)), d>>
              /\ Due(s, <<v, d>>) \in Nat \X Nat
              /\ \E p \in DOMAIN Wanted : DescAt(s, <<v, d>>) \in Wanted[p]
<1>1. /\ Recorded(s, v) \subseteq DOMAIN s.vertices[v].descs
      /\ IsFiniteSet(DOMAIN s.vertices[v].descs)
      /\ DOMAIN s.vertices[v].descs \subseteq Nat
  BY VerticesRight DEF Recorded
<1>2. IsFiniteSet(Recorded(s, v))
  BY <1>1, FS_Subset
<1>3. ASSUME NEW d \in Recorded(s, v)
      PROVE  /\ <<v, d>> \in Positions(s)
             /\ Turn(DescAt(s, <<v, d>>)) \in 1 .. 4
             /\ Due(s, <<v, d>>) = <<Turn(DescAt(s, <<v, d>>)), d>>
             /\ Due(s, <<v, d>>) \in Nat \X Nat
             /\ \E p \in DOMAIN Wanted : DescAt(s, <<v, d>>) \in Wanted[p]
  <2>1. <<v, d>> \in Positions(s)
    BY <1>1, PositionsRight
  <2>2. PICK p \in DOMAIN Wanted : DescAt(s, <<v, d>>) \in Wanted[p]
    BY DEF Recorded
  <2>3. Turn(DescAt(s, <<v, d>>)) \in 1 .. 4
    BY <2>2, TurnFacts
  <2>4. Due(s, <<v, d>>) = <<Turn(DescAt(s, <<v, d>>)), d>>
    BY DEF Due
  <2> QED
    BY <1>1, <2>1, <2>2, <2>3, <2>4
<1> QED
  BY <1>1, <1>2, <1>3

(* Each has a due of its own.                                              *)
Dues(s, v, E) == {Due(s, <<v, e>>) : e \in E}

LEMMA DuesCounted ==
  ASSUME NEW s, IsStream(s), NEW v \in DOMAIN s.vertices, NEW E, E \subseteq Recorded(s, v)
  PROVE  /\ IsFiniteSet(Dues(s, v, E)) /\ Cardinality(Dues(s, v, E)) = Cardinality(E)
         /\ IsFiniteSet(E) /\ Cardinality(E) \in Nat
<1> DEFINE T == Dues(s, v, E)
           f == [e \in E |-> Due(s, <<v, e>>)]
<1>1. IsFiniteSet(E) /\ Cardinality(E) \in Nat
  BY RecordedFacts, FS_Subset, FS_CardinalityType
<1>2. \A e \in E : f[e][2] = e
  BY RecordedFacts
<1>3. f \in Surjection(E, T)
  BY DEF Surjection, Dues
<1>4. f \in Injection(E, T)
  BY <1>2 DEF Injection, IsInjective, Dues
<1>5. ExistsBijection(E, T)
  BY <1>3, <1>4 DEF Bijection, ExistsBijection
<1> HIDE DEF T
<1>6. IsFiniteSet(T) /\ Cardinality(T) = Cardinality(E)
  BY <1>1, <1>5, FS_Bijection
<1> QED
  BY <1>1, <1>6 DEF T

LEMMA RecordCounted ==
  ASSUME NEW s, IsStream(s), NEW v \in DOMAIN s.vertices, NEW d \in Recorded(s, v),
         NEW E, E \subseteq Recorded(s, v),
         \A e \in Recorded(s, v) : e \in E <=> Before(Due(s, <<v, e>>), Due(s, <<v, d>>))
  PROVE  RecordNumber(s, <<v, d>>) = Cardinality(E) + 1
<1> DEFINE S == Dues(s, v, Recorded(s, v))
           i == <<v, d>>
<1>1. i[1] = v /\ RecordNumber(s, i) = Rank(S, Due(s, i))
  BY DEF RecordNumber, Dues
<1>2. {j \in S : Before(j, Due(s, i))} = Dues(s, v, E)
  BY DEF Dues
<1>3. Rank(S, Due(s, i)) = Cardinality(Dues(s, v, E)) + 1
  BY <1>2 DEF Rank
<1>4. Cardinality(Dues(s, v, E)) = Cardinality(E)
  BY DuesCounted
<1> QED
  BY <1>1, <1>3, <1>4

(* What is left of a pass comes after what is done, x first.               *)
InOrder(S, q) == \A i \in S \ q : \A j \in q : Before(i, j)

Rest(q, x) == q \ {x}

IsFirst(q, x) == x \in q /\ \A j \in q \ {x} : Before(x, j)

(* The next item of a pass gets the next record.                           *)
LEMMA NextRecord ==
  ASSUME NEW s, IsStream(s), NEW p \in DOMAIN Wanted, NEW q, q \subseteq Items(s, p),
         NEW x, IsFirst(q, x), InOrder(Items(s, p), q), NEW t, t = PassTurn[p],
         NEW r, r = Rest(q, x)
  PROVE  /\ x[1] \in DOMAIN s.vertices /\ x[2] \in Recorded(s, x[1])
         /\ x[2] \notin DoneOf(s, q, t, x[1])
         /\ \A e : e \in DoneOf(s, r, t, x[1]) <=> e \in DoneOf(s, q, t, x[1]) \/ e = x[2]
         /\ RecordNumber(s, x) = Cardinality(DoneOf(s, q, t, x[1])) + 1
         /\ \A v : v # x[1] => DoneOf(s, r, t, v) = DoneOf(s, q, t, v)
         /\ InOrder(Items(s, p), r)
<1> DEFINE v == x[1]
           d == x[2]
           old == DoneOf(s, q, t, v)
<1>0. x \in q /\ \A j : j \in r <=> j \in q /\ j # x
  BY DEF IsFirst, Rest
<1>1. /\ x \in Positions(s) /\ DescAt(s, x) \in Wanted[p] /\ x \in Nat \X Nat
      /\ v \in DOMAIN s.vertices /\ d \in DOMAIN s.vertices[v].descs /\ x = <<v, d>>
  BY <1>0, PositionsRight DEF Items
<1>2. d \in Recorded(s, v)
  BY <1>1 DEF Recorded
<1>3. Turn(DescAt(s, <<v, d>>)) = t
  BY <1>1, TurnFacts
<1>4. d \notin old
  BY <1>0, <1>1, <1>3, TurnFacts DEF DoneOf
<1>5. \A e : e \in DoneOf(s, r, t, v) <=> e \in old \/ e = d
  BY <1>0, <1>1, <1>2, <1>3 DEF DoneOf
<1>6. \A w : w # v => DoneOf(s, r, t, w) = DoneOf(s, q, t, w)
  BY <1>0, <1>1 DEF DoneOf
<1>7. ASSUME NEW e \in Recorded(s, v)
      PROVE  e \in old <=> Before(Due(s, <<v, e>>), Due(s, <<v, d>>))
  <2> DEFINE te == Turn(DescAt(s, <<v, e>>))
             y == <<v, e>>
  <2>1. /\ te \in Nat /\ t \in Nat /\ e \in Nat /\ d \in Nat
        /\ Due(s, y) = <<te, e>> /\ Due(s, x) = <<t, d>> /\ y \in Nat \X Nat
    BY <1>1, <1>2, <1>3, RecordedFacts, PositionsRight
  <2>2. Before(Due(s, y), Due(s, x)) <=> te < t \/ (te = t /\ e < d)
    BY <2>1 DEF Before
  <2>3. ASSUME te = t PROVE y \notin q <=> e < d
    <3>1. y \in Items(s, p)
      <4>1. PICK o \in DOMAIN Wanted : DescAt(s, y) \in Wanted[o] /\ y \in Positions(s)
        BY <1>1, RecordedFacts
      <4>2. PassTurn[o] = t
        BY <2>3, <4>1, TurnFacts
      <4>3. o = p
        BY <4>2, TurnFacts
      <4> QED
        BY <4>1, <4>3 DEF Items
    <3>2. v \in Nat /\ y[1] = v /\ y[2] = e
      BY <1>1
    <3>3. Before(y, x) <=> e < d
      BY <2>1, <3>2 DEF Before
    <3>4. Before(x, y) <=> d < e
      BY <2>1, <3>2 DEF Before
    <3>5. CASE y \in q
      <4>1. y = x \/ Before(x, y)
        BY <3>5 DEF IsFirst
      <4>2. y = x => e = d
        BY <3>2
      <4> QED
        BY <2>1, <3>4, <3>5, <4>1, <4>2
    <3>6. CASE y \notin q
      BY <1>0, <3>1, <3>3, <3>6 DEF InOrder
    <3> QED
      BY <3>5, <3>6
  <2>4. e \in old <=> te < t \/ (te = t /\ y \notin q)
    BY DEF DoneOf
  <2> HIDE DEF old, te, y
  <2> QED
    BY <1>1, <2>2, <2>3, <2>4 DEF y
<1>8. old \subseteq Recorded(s, v)
  BY DEF DoneOf
<1>9. RecordNumber(s, x) = Cardinality(old) + 1
  BY <1>1, <1>2, <1>7, <1>8, RecordCounted
<1>10. InOrder(Items(s, p), r)
  BY <1>0 DEF InOrder, IsFirst
<1> QED
  BY <1>1, <1>2, <1>4, <1>5, <1>6, <1>9, <1>10

(* A pass ends and the next one begins.                                    *)
LEMMA NextTurn ==
  ASSUME NEW s, NEW p \in DOMAIN Wanted, NEW r \in DOMAIN Wanted,
         PassTurn[r] = PassTurn[p] + 1, IsStream(s), NEW v \in DOMAIN s.vertices
  PROVE  DoneOf(s, Items(s, r), PassTurn[r], v) = DoneOf(s, {}, PassTurn[p], v)
<1>1. PassTurn[p] \in Nat
  BY TurnFacts
<1>2. ASSUME NEW d \in Recorded(s, v)
      PROVE  d \in DoneOf(s, Items(s, r), PassTurn[r], v) <=> d \in DoneOf(s, {}, PassTurn[p], v)
  <2> DEFINE t == Turn(DescAt(s, <<v, d>>))
  <2>1. PICK o \in DOMAIN Wanted : DescAt(s, <<v, d>>) \in Wanted[o] /\ <<v, d>> \in Positions(s)
    BY RecordedFacts
  <2>2. t = PassTurn[o] /\ t \in Nat
    BY <2>1, TurnFacts
  <2>3. t = PassTurn[r] => <<v, d>> \in Items(s, r)
    <3>1. t = PassTurn[r] => o = r
      BY <2>2, TurnFacts
    <3> QED
      BY <2>1, <3>1 DEF Items
  <2>4. t < PassTurn[r] <=> t < PassTurn[p] \/ t = PassTurn[p]
    BY <1>1, <2>2
  <2>5. d \in DoneOf(s, Items(s, r), PassTurn[r], v) <=> t < PassTurn[r]
    BY <2>3 DEF DoneOf
  <2>6. d \in DoneOf(s, {}, PassTurn[p], v) <=> t < PassTurn[p] \/ t = PassTurn[p]
    BY DEF DoneOf
  <2> QED
    BY <2>4, <2>5, <2>6
<1> QED
  BY <1>2 DEF DoneOf

LEMMA FirstTurn ==
  ASSUME NEW s, IsStream(s), NEW v \in DOMAIN s.vertices
  PROVE  DoneOf(s, Items(s, "position"), 1, v) = {}
<1>1. "position" \in DOMAIN Wanted /\ PassTurn["position"] = 1
  BY Names DEF PassTurn
<1>2. ASSUME NEW d \in DoneOf(s, Items(s, "position"), 1, v) PROVE FALSE
  <2>1. PICK o \in DOMAIN Wanted : DescAt(s, <<v, d>>) \in Wanted[o] /\ <<v, d>> \in Positions(s)
    BY RecordedFacts DEF DoneOf
  <2>2. Turn(DescAt(s, <<v, d>>)) = PassTurn[o] /\ PassTurn[o] \in 1 .. 4
    BY <2>1, TurnFacts
  <2>3. PassTurn[o] = 1 /\ <<v, d>> \notin Items(s, "position")
    BY <2>2 DEF DoneOf
  <2>4. o = "position"
    BY <1>1, <2>3, TurnFacts
  <2> QED
    BY <2>1, <2>3, <2>4 DEF Items
<1> QED
  BY <1>2

LEMMA LastTurn ==
  ASSUME NEW s, IsStream(s), NEW v \in DOMAIN s.vertices
  PROVE  DoneOf(s, {}, 4, v) = Recorded(s, v)
<1>1. \A d \in Recorded(s, v) : Turn(DescAt(s, <<v, d>>)) \in 1 .. 4
  BY RecordedFacts
<1>2. \A t \in 1 .. 4 : t < 4 \/ t = 4
  OBVIOUS
<1> QED
  BY <1>1, <1>2 DEF DoneOf

-----------------------------------------------------------------------------
(* A view as it was, or written on; an empty one may have moved.           *)
Kept(c, w, x) ==
  \/ x.offset = w.offset /\ w.size <= x.size
  \/ w.size = 0 /\ x.offset <= Len(c)

LEMMA InViewKept ==
  ASSUME NEW b, NEW c, Grown(b, c), NEW w \in View, NEW x \in View, Kept(c, w, x),
         NEW offset \in Nat, NEW n \in Nat, NEW tag, InView(b, w, offset, n, tag)
  PROVE  InView(c, x, offset, n, tag)
<1>1. CASE x.offset = w.offset /\ w.size <= x.size
  BY <1>1, InViewGrown
<1>2. CASE w.size = 0 /\ x.offset <= Len(c)
  <2>1. offset = 0 /\ n = 0 /\ x.offset \in Nat /\ x.size \in Nat
    BY <1>2 DEF InView, View
  <2> QED
    BY <1>2, <2>1 DEF InView, Holds
<1> QED
  BY <1>1, <1>2 DEF Kept

(***************************************************************************)
(* A record of index buffer i of stream s, number n, leads to its values,  *)
(* by view w; and the record of descriptor i, by the views ws.  The values *)
(* of the descriptors in late are still in kept.                           *)
(***************************************************************************)
IndexRight(b, n, s, x, w, i) ==
  /\ x.offset \in Nat /\ x.count = s.indices[i]
  /\ InView(b, w, x.offset, x.count, <<n, "index", i, 0>>)

RecordRight(b, kept, late, n, s, a, ws, i) ==
  /\ a.desc = DescAt(s, i) /\ a.slot = SlotOf(DescAt(s, i)) /\ a.offset \in Nat
  /\ \/ LaterPacked(s, i)
     \/ /\ DescAt(s, i) \in late /\ a.offset = 0
        /\ Holds(kept, 0, UnitCount(s, i), VertexTag(n, i))
     \/ /\ DescAt(s, i) \notin late
        /\ InView(b, ws[a.slot], a.offset, UnitCount(s, i), VertexTag(n, i))

(* The records of vertex buffer v: those of its descriptors E so far.      *)
VertexRight(b, kept, late, n, s, as, ws, v, E) ==
  /\ Len(as) = Cardinality(E)
  /\ \A d \in E :
       /\ RecordNumber(s, <<v, d>>) \in 1 .. Len(as)
       /\ RecordRight(b, kept, late, n, s, as[RecordNumber(s, <<v, d>>)], ws, <<v, d>>)

IndicesOf(b, n, s, is, w) ==
  /\ is \in Seq(VtIndex) /\ Len(is) <= Len(s.indices)
  /\ \A i \in 1 .. Len(is) : IndexRight(b, n, s, is[i], w, i)

AttrsOf(b, kept, late, n, s, as, ws, q, t) ==
  /\ as \in Seq(Seq(VtAttr)) /\ Len(as) = Len(s.vertices)
  /\ \A v \in DOMAIN s.vertices :
       VertexRight(b, kept, late, n, s, as[v], ws, v, DoneOf(s, q, t, v))

FinishedRight(b, n, s, h) ==
  /\ h.views \in [Slots -> View]
  /\ IndicesOf(b, n, s, h.indices, h.views["IndexShort"])
  /\ Len(h.indices) = Len(s.indices)
  /\ h.vertices \in Seq(Seq(VtAttr)) /\ Len(h.vertices) = Len(s.vertices)
  /\ \A v \in DOMAIN s.vertices :
       VertexRight(b, <<>>, {}, n, s, h.vertices[v], h.views, v, Recorded(s, v))

LEMMA IndicesGrown ==
  ASSUME NEW b, NEW c, Grown(b, c), NEW w \in View, NEW x \in View, Kept(c, w, x),
         NEW n, NEW s, IsStream(s), NEW is, IndicesOf(b, n, s, is, w)
  PROVE  IndicesOf(c, n, s, is, x)
<1>1. s.indices \in Seq(Nat)
  BY DEF IsStream
<1>2. is \in Seq(VtIndex) /\ Len(is) <= Len(s.indices) /\ Len(is) \in Nat /\ Len(s.indices) \in Nat
  BY <1>1, LenProperties DEF IndicesOf
<1>3. ASSUME NEW i \in 1 .. Len(is) PROVE IndexRight(c, n, s, is[i], x, i)
  <2>1. i \in 1 .. Len(s.indices)
    BY <1>2
  <2>2. s.indices[i] \in Nat
    BY <1>1, <2>1, ElementOfSeq
  <2>3. IndexRight(b, n, s, is[i], w, i)
    BY DEF IndicesOf
  <2> DEFINE tag == <<n, "index", i, 0>>
  <2>4. is[i].offset \in Nat /\ is[i].count \in Nat /\ InView(b, w, is[i].offset, is[i].count, tag)
    BY <2>2, <2>3 DEF IndexRight
  <2> HIDE DEF tag
  <2>5. InView(c, x, is[i].offset, is[i].count, tag)
    BY <2>4, InViewKept
  <2> QED
    BY <2>3, <2>5 DEF IndexRight, tag
<1> QED
  BY <1>2, <1>3 DEF IndicesOf

(* What a descriptor with a record has.                                    *)
LEMMA RecordedDesc ==
  ASSUME NEW s, IsStream(s), NEW v \in DOMAIN s.vertices, NEW d \in Recorded(s, v)
  PROVE  /\ UnitCount(s, <<v, d>>) \in Nat
         /\ SlotOf(DescAt(s, <<v, d>>)) \in Slots
         /\ <<v, d>>[1] = v /\ <<v, d>>[2] = d
<1>1. PICK p \in DOMAIN Wanted : DescAt(s, <<v, d>>) \in Wanted[p]
  BY RecordedFacts
<1>2. SlotOf(DescAt(s, <<v, d>>)) \in Slots /\ Stride[SlotOf(DescAt(s, <<v, d>>))] \in Nat
  BY <1>1, SlotFacts
<1>3. s.vertices[v].n \in Nat
  BY VerticesRight
<1>4. \A k, m \in Nat : k * m \in Nat
  OBVIOUS
<1>5. UnitCount(s, <<v, d>>) = s.vertices[v].n * Stride[SlotOf(DescAt(s, <<v, d>>))]
  BY DEF UnitCount
<1> QED
  BY <1>2, <1>3, <1>4, <1>5

LEMMA RecordGrown ==
  ASSUME NEW b, NEW c, Grown(b, c), NEW ws \in [Slots -> View], NEW xs \in [Slots -> View],
         \A slot \in Slots : Kept(c, ws[slot], xs[slot]),
         NEW s, IsStream(s), NEW v \in DOMAIN s.vertices, NEW d \in Recorded(s, v),
         NEW kept, NEW late, NEW n, NEW a,
         RecordRight(b, kept, late, n, s, a, ws, <<v, d>>)
  PROVE  RecordRight(c, kept, late, n, s, a, xs, <<v, d>>)
<1> DEFINE i == <<v, d>>
           u == UnitCount(s, i)
           tag == VertexTag(n, i)
<1>1. u \in Nat /\ SlotOf(DescAt(s, i)) \in Slots
  BY RecordedDesc
<1>2. a.slot \in Slots /\ a.offset \in Nat
  BY <1>1 DEF RecordRight
<1>3. ws[a.slot] \in View /\ xs[a.slot] \in View /\ Kept(c, ws[a.slot], xs[a.slot])
  BY <1>2
<1> HIDE DEF i
<1>4. RecordRight(b, kept, late, n, s, a, ws, i)
  BY DEF i
<1> HIDE DEF u, tag
<1>5. InView(b, ws[a.slot], a.offset, u, tag) => InView(c, xs[a.slot], a.offset, u, tag)
  BY <1>1, <1>2, <1>3, InViewKept
<1>6. RecordRight(c, kept, late, n, s, a, xs, i)
  BY <1>4, <1>5 DEF RecordRight, u, tag
<1> QED
  BY <1>6 DEF i

LEMMA VertexGrown ==
  ASSUME NEW b, NEW c, Grown(b, c), NEW ws \in [Slots -> View], NEW xs \in [Slots -> View],
         \A slot \in Slots : Kept(c, ws[slot], xs[slot]),
         NEW s, IsStream(s), NEW v \in DOMAIN s.vertices, NEW E, E \subseteq Recorded(s, v),
         NEW kept, NEW late, NEW n, NEW as,
         VertexRight(b, kept, late, n, s, as, ws, v, E)
  PROVE  VertexRight(c, kept, late, n, s, as, xs, v, E)
<1>1. ASSUME NEW d \in E
      PROVE  RecordRight(c, kept, late, n, s, as[RecordNumber(s, <<v, d>>)], xs, <<v, d>>)
  <2> DEFINE a == as[RecordNumber(s, <<v, d>>)]
  <2>1. RecordRight(b, kept, late, n, s, a, ws, <<v, d>>)
    BY DEF VertexRight
  <2>2. d \in Recorded(s, v)
    OBVIOUS
  <2> HIDE DEF a
  <2>3. RecordRight(c, kept, late, n, s, a, xs, <<v, d>>)
    BY <2>1, <2>2, RecordGrown
  <2> QED
    BY <2>3 DEF a
<1> QED
  BY <1>1 DEF VertexRight

LEMMA AttrsGrown ==
  ASSUME NEW b, NEW c, Grown(b, c), NEW ws \in [Slots -> View], NEW xs \in [Slots -> View],
         \A slot \in Slots : Kept(c, ws[slot], xs[slot]),
         NEW s, IsStream(s), NEW kept, NEW late, NEW n, NEW as, NEW q, NEW t,
         AttrsOf(b, kept, late, n, s, as, ws, q, t)
  PROVE  AttrsOf(c, kept, late, n, s, as, xs, q, t)
<1>1. ASSUME NEW v \in DOMAIN s.vertices
      PROVE  VertexRight(c, kept, late, n, s, as[v], xs, v, DoneOf(s, q, t, v))
  <2>1. VertexRight(b, kept, late, n, s, as[v], ws, v, DoneOf(s, q, t, v))
    BY DEF AttrsOf
  <2>2. DoneOf(s, q, t, v) \subseteq Recorded(s, v)
    BY DEF DoneOf
  <2> QED
    BY <2>1, <2>2, VertexGrown
<1> QED
  BY <1>1 DEF AttrsOf

LEMMA FinishedGrown ==
  ASSUME NEW b, NEW c, Grown(b, c), NEW s, IsStream(s), NEW n, NEW h, FinishedRight(b, n, s, h)
  PROVE  FinishedRight(c, n, s, h)
<1>1. h.views \in [Slots -> View] /\ "IndexShort" \in Slots
  BY Names DEF FinishedRight
<1>2. \A w \in View : Kept(c, w, w)
  BY DEF Kept, View
<1>3. h.views["IndexShort"] \in View /\ Kept(c, h.views["IndexShort"], h.views["IndexShort"])
  BY <1>1, <1>2
<1>4. IndicesOf(c, n, s, h.indices, h.views["IndexShort"])
  BY <1>3, IndicesGrown DEF FinishedRight
<1>5. \A slot \in Slots : Kept(c, h.views[slot], h.views[slot])
  BY <1>1, <1>2
<1>6. ASSUME NEW v \in DOMAIN s.vertices
      PROVE  VertexRight(c, <<>>, {}, n, s, h.vertices[v], h.views, v, Recorded(s, v))
  <2> DEFINE as == h.vertices[v]
             ws == h.views
  <2>1. VertexRight(b, <<>>, {}, n, s, as, ws, v, Recorded(s, v))
    BY DEF FinishedRight
  <2>2. ws \in [Slots -> View] /\ \A slot \in Slots : Kept(c, ws[slot], ws[slot])
    BY <1>1, <1>5
  <2> HIDE DEF as, ws
  <2>3. VertexRight(c, <<>>, {}, n, s, as, ws, v, Recorded(s, v))
    BY <2>1, <2>2, VertexGrown
  <2> QED
    BY <2>3 DEF as, ws
<1> QED
  BY <1>4, <1>6 DEF FinishedRight

-----------------------------------------------------------------------------
(* The values kept aside grow.                                             *)
LEMMA KeptGrown ==
  ASSUME NEW k, NEW m, Grown(k, m), NEW s, IsStream(s), NEW b, NEW late, NEW n, NEW as,
         NEW ws, NEW q, NEW t, AttrsOf(b, k, late, n, s, as, ws, q, t)
  PROVE  AttrsOf(b, m, late, n, s, as, ws, q, t)
<1>1. ASSUME NEW v \in DOMAIN s.vertices, NEW d \in DoneOf(s, q, t, v), NEW a,
             RecordRight(b, k, late, n, s, a, ws, <<v, d>>)
      PROVE  RecordRight(b, m, late, n, s, a, ws, <<v, d>>)
  <2> DEFINE u == UnitCount(s, <<v, d>>)
             tag == VertexTag(n, <<v, d>>)
             i == <<v, d>>
  <2>1. u \in Nat
    BY RecordedDesc DEF DoneOf
  <2> HIDE DEF tag, u
  <2>2. Holds(k, 0, u, tag) => Holds(m, 0, u, tag)
    BY <2>1, HoldsGrown
  <2> HIDE DEF i
  <2>3. u = UnitCount(s, i) /\ tag = VertexTag(n, i)
    BY DEF u, tag, i
  <2>4. RecordRight(b, k, late, n, s, a, ws, i)
    BY <1>1 DEF i
  <2>5. RecordRight(b, m, late, n, s, a, ws, i)
    BY <2>2, <2>3, <2>4 DEF RecordRight
  <2> QED
    BY <2>5 DEF i
<1>2. ASSUME NEW v \in DOMAIN s.vertices
      PROVE  VertexRight(b, m, late, n, s, as[v], ws, v, DoneOf(s, q, t, v))
  <2>1. VertexRight(b, k, late, n, s, as[v], ws, v, DoneOf(s, q, t, v))
    BY DEF AttrsOf
  <2> QED
    BY <1>1, <2>1 DEF VertexRight
<1> QED
  BY <1>2 DEF AttrsOf

(* One of a sequence of sequences gets longer, by r.                       *)
IsLonger(S, as, v, r, l, new) ==
  /\ new \in Seq(Seq(S)) /\ Len(new) = Len(as)
  /\ Len(as[v]) \in Nat /\ Len(l) = Len(as[v]) + 1
  /\ l[Len(as[v]) + 1] = r /\ Len(as[v]) + 1 \in 1 .. Len(l)
  /\ \A k \in 1 .. Len(as[v]) : l[k] = as[v][k] /\ k \in 1 .. Len(l)
  /\ new[v] = l /\ \A w \in DOMAIN as : w # v => new[w] = as[w]

LEMMA LongerAt ==
  ASSUME NEW S, NEW as \in Seq(Seq(S)), NEW v \in DOMAIN as, NEW r \in S,
         NEW l, l = Append(as[v], r), NEW new, new = [as EXCEPT ![v] = l]
  PROVE  IsLonger(S, as, v, r, l, new)
<1>1. v \in 1 .. Len(as)
  BY LenProperties
<1>2. PICK x : x = as[v] /\ x \in Seq(S)
  BY <1>1, ElementOfSeq
<1>3. l = Append(x, r)
  BY <1>2
<1>4. /\ Len(x) \in Nat /\ l \in Seq(S) /\ Len(l) = Len(x) + 1
      /\ \A k \in 1 .. Len(x) : l[k] = x[k]
      /\ l[Len(x) + 1] = r
  <2>1. Len(x) \in Nat /\ x \in Seq(S)
    BY <1>2, LenProperties
  <2>2. /\ Append(x, r) \in Seq(S) /\ Len(Append(x, r)) = Len(x) + 1
        /\ \A k \in 1 .. Len(x) : Append(x, r)[k] = x[k]
        /\ Append(x, r)[Len(x) + 1] = r
    BY <2>1, AppendProperties
  <2> QED
    BY <1>3, <2>1, <2>2, Zenon
<1>5. Len(x) + 1 \in 1 .. Len(l) /\ \A k \in 1 .. Len(x) : k \in 1 .. Len(l)
  BY <1>4
<1>6. new \in Seq(Seq(S)) /\ Len(new) = Len(as)
  BY <1>1, <1>4, ExceptSeq
<1>7. new[v] = l /\ \A w \in DOMAIN as : w # v => new[w] = as[w]
  BY <1>1
<1> QED
  BY <1>2, <1>4, <1>5, <1>6, <1>7, Zenon DEF IsLonger

(* The next item of a pass has its record made.                            *)
LEMMA ItemAdded ==
  ASSUME NEW s, IsStream(s), NEW p \in DOMAIN Wanted, NEW q, q \subseteq Items(s, p),
         NEW x, IsFirst(q, x), InOrder(Items(s, p), q), NEW t, t = PassTurn[p],
         NEW z, z = Rest(q, x),
         NEW b, NEW kept, NEW late, NEW n, NEW as, NEW ws,
         AttrsOf(b, kept, late, n, s, as, ws, q, t),
         NEW r \in VtAttr, RecordRight(b, kept, late, n, s, r, ws, x)
  PROVE  AttrsOf(b, kept, late, n, s, [as EXCEPT ![x[1]] = Append(@, r)], ws, z, t)
<1> DEFINE v == x[1]
           d == x[2]
           E == DoneOf(s, q, t, v)
           new == [as EXCEPT ![v] = Append(as[v], r)]
<1>1. /\ v \in DOMAIN s.vertices /\ d \in Recorded(s, v) /\ d \notin E
      /\ \A e : e \in DoneOf(s, z, t, v) <=> e \in E \/ e = d
      /\ \A w : w # v => DoneOf(s, z, t, w) = DoneOf(s, q, t, w)
      /\ RecordNumber(s, x) = Cardinality(E) + 1
  BY NextRecord
<1>2. x = <<v, d>>
  BY PositionsRight DEF Items, IsFirst
<1>a. RecordRight(b, kept, late, n, s, r, ws, <<v, d>>)
  BY <1>2, Zenon
<1>b. RecordNumber(s, <<v, d>>) = Cardinality(E) + 1
  BY <1>1, <1>2, Zenon
<1>c. x[1] = v
  OBVIOUS
<1> HIDE DEF v, d, E
<1>3. as \in Seq(Seq(VtAttr)) /\ Len(as) = Len(s.vertices) /\ DOMAIN as = DOMAIN s.vertices
  <2>1. as \in Seq(Seq(VtAttr)) /\ Len(as) = Len(s.vertices)
    BY DEF AttrsOf
  <2> QED
    BY <2>1, VerticesRight, LenProperties
<1> DEFINE longer == Append(as[v], r)
<1>5. new = [as EXCEPT ![v] = longer]
  OBVIOUS
<1>6. v \in DOMAIN as
  BY <1>1, <1>3
<1>d. longer = Append(as[v], r)
  OBVIOUS
<1> HIDE DEF new, longer
<1>4. /\ new \in Seq(Seq(VtAttr)) /\ Len(new) = Len(as)
      /\ Len(as[v]) \in Nat /\ Len(longer) = Len(as[v]) + 1
      /\ longer[Len(as[v]) + 1] = r /\ Len(as[v]) + 1 \in 1 .. Len(longer)
      /\ \A k \in 1 .. Len(as[v]) : longer[k] = as[v][k] /\ k \in 1 .. Len(longer)
      /\ new[v] = longer /\ \A w \in DOMAIN as : w # v => new[w] = as[w]
  <2>1. IsLonger(VtAttr, as, v, r, longer, new)
    BY <1>3, <1>5, <1>6, <1>d, LongerAt, Zenon
  <2> QED
    BY <2>1, Zenon DEF IsLonger
<1>7. VertexRight(b, kept, late, n, s, as[v], ws, v, E)
  BY <1>1 DEF AttrsOf, E
<1>8. VertexRight(b, kept, late, n, s, longer, ws, v, E \cup {d})
  <2>1. IsFiniteSet(E) /\ Cardinality(E) \in Nat
    <3>1. E \subseteq Recorded(s, v)
      BY DEF DoneOf, E
    <3> QED
      BY <1>1, <3>1, DuesCounted
  <2>2. Cardinality(E \cup {d}) = Cardinality(E) + 1
    BY <1>1, <2>1, FS_AddElement
  <2>3. Len(as[v]) = Cardinality(E)
    BY <1>7 DEF VertexRight
  <2>4. Len(longer) = Cardinality(E \cup {d}) /\ Len(longer) = Len(as[v]) + 1
    BY <1>4, <2>2, <2>3
  <2>5. ASSUME NEW e \in E
        PROVE  /\ RecordNumber(s, <<v, e>>) \in 1 .. Len(longer)
               /\ RecordRight(b, kept, late, n, s, longer[RecordNumber(s, <<v, e>>)], ws, <<v, e>>)
    <3>1. /\ RecordNumber(s, <<v, e>>) \in 1 .. Len(as[v])
          /\ RecordRight(b, kept, late, n, s, as[v][RecordNumber(s, <<v, e>>)], ws, <<v, e>>)
      BY <1>7 DEF VertexRight
    <3> QED
      BY <1>4, <3>1
  <2>6. /\ RecordNumber(s, <<v, d>>) \in 1 .. Len(longer)
        /\ RecordRight(b, kept, late, n, s, longer[RecordNumber(s, <<v, d>>)], ws, <<v, d>>)
    <3>1. RecordNumber(s, <<v, d>>) = Len(as[v]) + 1
      BY <1>b, <2>3, Zenon
    <3> QED
      BY <1>a, <1>4, <3>1
  <2> QED
    BY <2>4, <2>5, <2>6 DEF VertexRight
<1>9. ASSUME NEW w \in DOMAIN s.vertices
      PROVE  VertexRight(b, kept, late, n, s, new[w], ws, w, DoneOf(s, z, t, w))
  <2>1. CASE w = v
    <3>1. DoneOf(s, z, t, v) = E \cup {d}
      BY <1>1
    <3> QED
      BY <1>4, <1>8, <2>1, <3>1, Zenon
  <2>2. CASE w # v
    <3>1. VertexRight(b, kept, late, n, s, as[w], ws, w, DoneOf(s, q, t, w))
      BY DEF AttrsOf
    <3> QED
      BY <1>1, <1>3, <1>4, <1>c, <2>2, <3>1
  <2> QED
    BY <2>1, <2>2
<1>10. AttrsOf(b, kept, late, n, s, new, ws, z, t)
  BY <1>3, <1>4, <1>9 DEF AttrsOf
<1> QED
  BY <1>10, <1>c DEF new

(* The pass over the UVs begins: none of the packed ones is done.          *)
LEMMA LateBegun ==
  ASSUME NEW s, IsStream(s), NEW b, NEW kept, NEW n, NEW as, NEW ws,
         NEW q, q = Items(s, "uv"), AttrsOf(b, kept, {}, n, s, as, ws, q, 3)
  PROVE  AttrsOf(b, kept, Packed, n, s, as, ws, q, 3)
<1>1. "uv" \in DOMAIN Wanted /\ PassTurn["uv"] = 3 /\ Packed \subseteq Wanted["uv"]
  BY Names DEF PassTurn, Wanted
<1>2. ASSUME NEW v \in DOMAIN s.vertices, NEW d \in DoneOf(s, q, 3, v)
      PROVE  DescAt(s, <<v, d>>) \notin Packed
  <2> SUFFICES ASSUME DescAt(s, <<v, d>>) \in Packed PROVE FALSE
    OBVIOUS
  <2>1. d \in Recorded(s, v) /\ DescAt(s, <<v, d>>) \in Wanted["uv"]
    BY <1>1 DEF DoneOf
  <2>2. Turn(DescAt(s, <<v, d>>)) = 3 /\ <<v, d>> \in Positions(s)
    BY <1>1, <2>1, TurnFacts, RecordedFacts
  <2>3. <<v, d>> \notin q
    BY <2>2 DEF DoneOf
  <2> QED
    BY <2>1, <2>2, <2>3 DEF Items
<1>3. ASSUME NEW v \in DOMAIN s.vertices
      PROVE  VertexRight(b, kept, Packed, n, s, as[v], ws, v, DoneOf(s, q, 3, v))
  <2>1. VertexRight(b, kept, {}, n, s, as[v], ws, v, DoneOf(s, q, 3, v))
    BY DEF AttrsOf
  <2> QED
    BY <1>2, <2>1 DEF VertexRight, RecordRight
<1> QED
  BY <1>3 DEF AttrsOf

(* They are written, and have a view of their own.                         *)
LEMMA LateFlushed ==
  ASSUME NEW b, NEW c, Grown(b, c), NEW ws \in [Slots -> View], NEW xs \in [Slots -> View],
         \A slot \in Slots : Kept(c, ws[slot], xs[slot]),
         NEW kept, \A u \in Nat : \A tag : Holds(kept, 0, u, tag) => InView(c, xs["Short2"], 0, u, tag),
         NEW s, IsStream(s), NEW n, NEW as, NEW q, NEW t,
         AttrsOf(b, kept, Packed, n, s, as, ws, q, t)
  PROVE  AttrsOf(c, kept, {}, n, s, as, xs, q, t)
<1>1. ASSUME NEW v \in DOMAIN s.vertices, NEW d \in DoneOf(s, q, t, v), NEW a,
             RecordRight(b, kept, Packed, n, s, a, ws, <<v, d>>)
      PROVE  RecordRight(c, kept, {}, n, s, a, xs, <<v, d>>)
  <2>1. RecordRight(c, kept, Packed, n, s, a, xs, <<v, d>>)
    BY <1>1, RecordGrown DEF DoneOf
  <2> DEFINE i == <<v, d>>
             u == UnitCount(s, i)
             tag == VertexTag(n, i)
  <2>2. u \in Nat
    BY RecordedDesc DEF DoneOf
  <2>3. RecordRight(c, kept, Packed, n, s, a, xs, i)
    BY <2>1
  <2> HIDE DEF i, u, tag
  <2>4. CASE DescAt(s, i) \in Packed
    <3>1. a.slot = "Short2"
      BY <2>3, <2>4 DEF RecordRight, SlotOf
    <3>2. Holds(kept, 0, u, tag) => InView(c, xs["Short2"], 0, u, tag)
      BY <2>2
    <3>3. RecordRight(c, kept, {}, n, s, a, xs, i)
      BY <2>3, <2>4, <3>1, <3>2 DEF RecordRight, u, tag
    <3> QED
      BY <3>3 DEF i
  <2>5. CASE DescAt(s, i) \notin Packed
    <3>1. RecordRight(c, kept, {}, n, s, a, xs, i)
      BY <2>3, <2>5 DEF RecordRight
    <3> QED
      BY <3>1 DEF i
  <2> QED
    BY <2>4, <2>5
<1>2. ASSUME NEW v \in DOMAIN s.vertices
      PROVE  VertexRight(c, kept, {}, n, s, as[v], xs, v, DoneOf(s, q, t, v))
  <2>1. VertexRight(b, kept, Packed, n, s, as[v], ws, v, DoneOf(s, q, t, v))
    BY DEF AttrsOf
  <2> QED
    BY <1>1, <2>1 DEF VertexRight
<1> QED
  BY <1>2 DEF AttrsOf

(* Another pass begins with all of this one done.                          *)
LEMMA TurnKept ==
  ASSUME NEW p \in DOMAIN Wanted, NEW r \in DOMAIN Wanted, PassTurn[r] = PassTurn[p] + 1,
         NEW s, IsStream(s), NEW b, NEW kept, NEW late, NEW n, NEW as, NEW ws,
         AttrsOf(b, kept, late, n, s, as, ws, {}, PassTurn[p])
  PROVE  AttrsOf(b, kept, late, n, s, as, ws, Items(s, r), PassTurn[r])
<1>1. ASSUME NEW v \in DOMAIN s.vertices
      PROVE  VertexRight(b, kept, late, n, s, as[v], ws, v, DoneOf(s, Items(s, r), PassTurn[r], v))
  <2>1. VertexRight(b, kept, late, n, s, as[v], ws, v, DoneOf(s, {}, PassTurn[p], v))
    BY DEF AttrsOf
  <2>2. DoneOf(s, Items(s, r), PassTurn[r], v) = DoneOf(s, {}, PassTurn[p], v)
    BY NextTurn, Zenon
  <2> QED
    BY <2>1, <2>2, Zenon
<1> QED
  BY <1>1 DEF AttrsOf

(* After the last pass only the file and the views matter.                 *)
LEMMA AttrsFinished ==
  ASSUME NEW s, IsStream(s), NEW b, NEW kept, NEW n, NEW as, NEW ws,
         AttrsOf(b, kept, {}, n, s, as, ws, {}, 4)
  PROVE  /\ as \in Seq(Seq(VtAttr)) /\ Len(as) = Len(s.vertices)
         /\ \A v \in DOMAIN s.vertices :
              VertexRight(b, <<>>, {}, n, s, as[v], ws, v, Recorded(s, v))
<1>1. ASSUME NEW v \in DOMAIN s.vertices
      PROVE  VertexRight(b, <<>>, {}, n, s, as[v], ws, v, Recorded(s, v))
  <2>1. VertexRight(b, kept, {}, n, s, as[v], ws, v, DoneOf(s, {}, 4, v))
    BY DEF AttrsOf
  <2>2. VertexRight(b, kept, {}, n, s, as[v], ws, v, Recorded(s, v))
    BY <2>1, LastTurn, Zenon
  <2> QED
    BY <2>2 DEF VertexRight, RecordRight
<1> QED
  BY <1>1 DEF AttrsOf

-----------------------------------------------------------------------------
(* The second invariant, in parts: what the file and its header hold.      *)
FileRight ==
  /\ \E S : bin \in Seq(S)
  /\ total = Len(bin)
  /\ \A slot \in Slots : views[slot].offset + views[slot].size <= total

HeadersRight ==
  /\ at = Len(header) + 1 /\ at <= Len(source) + 1
  /\ \A n \in 1 .. Len(header) : FinishedRight(bin, n, source[n], header[n])

IndicesRight ==
  /\ pass = "none" => indices = <<>>
  /\ pass # "none" => IndicesOf(bin, at, Stream, indices, views["IndexShort"])
  /\ pass = "index" => queue = (Len(indices) + 1 .. Len(Stream.indices)) \X {0}
  /\ pass \in DOMAIN Wanted => Len(indices) = Len(Stream.indices)

Late(p) == IF p = "uv" THEN Packed ELSE {}

AttrsRight ==
  pass \in DOMAIN Wanted =>
    /\ AttrsOf(bin, uv16, Late(pass), at, Stream, attrs, views, queue, PassTurn[pass])
    /\ InOrder(Items(Stream, pass), queue)

UvRight ==
  /\ pass \in {"none", "index", "position", "direction"} => uv16 = <<>>
  /\ pass = "uv" /\ uv16 # <<>> =>
       \E i \in Items(Stream, "uv") \ queue : DescAt(Stream, i) \in Packed

ReadRight == FileRight /\ HeadersRight /\ IndicesRight /\ AttrsRight /\ UvRight

LEMMA FinishedStreams ==
  ASSUME Inv, HeadersRight
  PROVE  \A n \in 1 .. Len(header) : n \in 1 .. Len(source) /\ IsStream(source[n])
<1>1. source \in Seq(Range(source)) /\ \A s \in Range(source) : IsStream(s)
  BY DEF Inv, SourceRight, IsStreams
<1>2. Len(source) \in Nat /\ Len(header) \in Nat
  BY <1>1, Lengths, LenProperties DEF Inv
<1>3. \A n \in 1 .. Len(header) : n \in 1 .. Len(source)
  BY <1>2 DEF HeadersRight
<1>4. \A n \in 1 .. Len(source) : source[n] \in Range(source)
  BY <1>1, ElementOfSeq
<1> QED
  BY <1>1, <1>3, <1>4

LEMMA HeadersKept ==
  ASSUME Inv, HeadersRight, Grown(bin, bin'), UNCHANGED <<source, at, header>>
  PROVE  HeadersRight'
<1>1. ASSUME NEW n \in 1 .. Len(header) PROVE FinishedRight(bin', n, source[n], header[n])
  <2>1. FinishedRight(bin, n, source[n], header[n]) /\ IsStream(source[n])
    BY FinishedStreams DEF HeadersRight
  <2> DEFINE s == source[n]
             h == header[n]
  <2>2. FinishedRight(bin, n, s, h) /\ IsStream(s)
    BY <2>1
  <2> HIDE DEF s, h
  <2>3. FinishedRight(bin', n, s, h)
    BY <2>2, FinishedGrown
  <2> QED
    BY <2>3 DEF s, h
<1> QED
  BY <1>1 DEF HeadersRight

LEMMA GrownSelf == FileRight => Grown(bin, bin)
  BY LenProperties DEF FileRight, Grown

(* A pass begins where the file ends.                                      *)
LEMMA EnteredRead ==
  ASSUME Inv, FileRight, NEW slot \in Slots, views[slot].size = 0,
         views' = [views EXCEPT ![slot].offset = total], UNCHANGED <<bin, total>>
  PROVE  /\ FileRight' /\ views \in [Slots -> View] /\ views' \in [Slots -> View]
         /\ \A p \in Slots : Kept(bin', views[p], views'[p])
<1>1. views \in [Slots -> View] /\ total \in Nat /\ total = Len(bin)
  BY DEF Inv, BufferRight, ViewsRight, FileRight
<1>2. views[slot] \in View
  BY <1>1
<1> DEFINE w == [views[slot] EXCEPT !.offset = total]
<1>3. w \in View /\ w.offset = total /\ w.size = 0
  BY <1>1, <1>2 DEF View
<1>4. views' = [views EXCEPT ![slot] = w]
  OBVIOUS
<1> HIDE DEF w
<1>5. /\ views' \in [Slots -> View] /\ views'[slot] = w
      /\ \A p \in Slots : p # slot => views'[p] = views[p]
  BY <1>1, <1>3, <1>4
<1>6. ASSUME NEW p \in Slots
      PROVE  Kept(bin', views[p], views'[p]) /\ views'[p].offset + views'[p].size <= total'
  <2>1. CASE p = slot
    BY <1>1, <1>3, <1>5, <2>1 DEF Kept
  <2>2. CASE p # slot
    <3>1. views[p] \in View
      BY <1>1
    <3>2. views[p].size <= views[p].size
      BY <3>1 DEF View
    <3> QED
      BY <1>5, <2>2, <3>2 DEF Kept, FileRight
  <2> QED
    BY <2>1, <2>2
<1> QED
  BY <1>1, <1>5, <1>6 DEF FileRight

(* Something is written to the view of slot, which ends the file.          *)
LEMMA SentRead ==
  ASSUME Inv, FileRight, NEW slot \in Slots,
         views[slot].offset + views[slot].size = total,
         NEW T, NEW units \in Seq(T), bin' = bin \o units, total' = total + Len(units),
         views' = [views EXCEPT ![slot].size = @ + Len(units)]
  PROVE  /\ FileRight' /\ Grown(bin, bin')
         /\ views \in [Slots -> View] /\ views' \in [Slots -> View]
         /\ \A p \in Slots : Kept(bin', views[p], views'[p])
         /\ views[slot].size \in Nat
         /\ \A n \in Nat : \A tag :
              n <= Len(units) /\ (\A u \in 1 .. n : units[u] = tag) =>
                InView(bin', views'[slot], views[slot].size, n, tag)
<1>1. views \in [Slots -> View] /\ total \in Nat /\ total = Len(bin)
  BY DEF Inv, BufferRight, ViewsRight, FileRight
<1>2. views[slot] \in View
  BY <1>1
<1>3. PICK S : bin \in Seq(S)
  BY DEF FileRight
<1>4. /\ bin' \in Seq(S \cup T) /\ Len(units) \in Nat /\ Len(bin') = Len(bin) + Len(units)
      /\ Grown(bin, bin')
  BY <1>3, Joined
<1> DEFINE w == [views[slot] EXCEPT !.size = views[slot].size + Len(units)]
<1>5. /\ w \in View /\ w.offset = views[slot].offset /\ w.size = views[slot].size + Len(units)
      /\ views[slot].size \in Nat /\ views[slot].offset \in Nat
  <2>1. \A x \in View : \A m \in Nat :
          /\ [x EXCEPT !.size = x.size + m] \in View
          /\ [x EXCEPT !.size = x.size + m].offset = x.offset
          /\ [x EXCEPT !.size = x.size + m].size = x.size + m
          /\ x.size \in Nat /\ x.offset \in Nat
    BY SMTT(20) DEF View
  <2> QED
    BY <1>2, <1>4, <2>1, Zenon
<1>6. views' = [views EXCEPT ![slot] = w]
  OBVIOUS
<1> HIDE DEF w
<1>7. /\ views' \in [Slots -> View] /\ views'[slot] = w
      /\ \A p \in Slots : p # slot => views'[p] = views[p]
  BY <1>1, <1>5, <1>6
<1>8. ASSUME NEW p \in Slots
      PROVE  Kept(bin', views[p], views'[p]) /\ views'[p].offset + views'[p].size <= total'
  <2>1. CASE p = slot
    BY <1>1, <1>4, <1>5, <1>7, <2>1 DEF Kept
  <2>2. CASE p # slot
    <3>1. views[p] \in View
      BY <1>1
    <3>2. views[p].size \in Nat /\ views[p].offset \in Nat
      BY <3>1 DEF View
    <3>3. views[p].offset + views[p].size <= total'
      BY <1>1, <1>4, <3>2 DEF FileRight
    <3>4. views[p].size <= views[p].size
      BY <3>2
    <3> QED
      BY <1>7, <2>2, <3>3, <3>4 DEF Kept
  <2> QED
    BY <2>1, <2>2
<1>9. FileRight'
  <2>1. total' = Len(bin')
    BY <1>1, <1>4
  <2> QED
    BY <1>4, <1>8, <2>1 DEF FileRight
<1>10. ASSUME NEW n \in Nat, NEW tag, n <= Len(units), \A u \in 1 .. n : units[u] = tag
       PROVE  InView(bin', views'[slot], views[slot].size, n, tag)
  <2>1. Holds(bin \o units, Len(bin), n, tag)
    BY <1>3, <1>10, HoldsJoined
  <2>2. views[slot].size + n <= w.size
    BY <1>4, <1>5, <1>10
  <2>3. w.offset + views[slot].size = Len(bin)
    BY <1>1, <1>5
  <2> QED
    BY <1>7, <2>1, <2>2, <2>3 DEF InView
<1> QED
  BY <1>1, <1>4, <1>5, <1>7, <1>8, <1>9, <1>10

(* What a step leaves of the lists of the stream being written.            *)
LEMMA IndicesKept ==
  ASSUME Inv, IndicesRight, Grown(bin, bin'), pass # "none",
         views \in [Slots -> View], views' \in [Slots -> View],
         \A p \in Slots : Kept(bin', views[p], views'[p]), UNCHANGED <<source, at>>
  PROVE  Stream' = Stream /\ IndicesOf(bin', at, Stream, indices, views'["IndexShort"])
<1>1. IsStream(Stream) /\ Stream' = Stream
  BY StreamRight DEF Inv, SourceRight, Stream
<1>2. /\ "IndexShort" \in Slots /\ views["IndexShort"] \in View /\ views'["IndexShort"] \in View
      /\ Kept(bin', views["IndexShort"], views'["IndexShort"])
  BY Names
<1>3. IndicesOf(bin, at, Stream, indices, views["IndexShort"])
  BY DEF IndicesRight
<1> DEFINE s == Stream
           w == views["IndexShort"]
           x == views'["IndexShort"]
<1>4. /\ IsStream(s) /\ w \in View /\ x \in View /\ Kept(bin', w, x)
      /\ IndicesOf(bin, at, s, indices, w)
  BY <1>1, <1>2, <1>3
<1> HIDE DEF s, w, x
<1>5. IndicesOf(bin', at, s, indices, x)
  BY <1>4, IndicesGrown
<1> QED
  BY <1>1, <1>5 DEF s, x

LEMMA BeginStreamRead == ASSUME Inv, ReadRight, BeginStream PROVE ReadRight'
<1>1. /\ pass = "none" /\ pass' = "index" /\ at <= Len(source)
      /\ queue' = (DOMAIN Stream.indices) \X {0}
      /\ views' = [views EXCEPT !["IndexShort"].offset = total]
      /\ UNCHANGED <<source, at, indices, uv16, bin, total, header>>
  BY DEF BeginStream, Enter, PassSlot, fileVars
<1>2. "IndexShort" \in Slots /\ views["IndexShort"].size = 0
  BY <1>1, Names DEF Inv, BufferRight, ViewsRight, Ahead
<1>3. FileRight' /\ views' \in [Slots -> View]
  BY <1>1, <1>2, EnteredRead DEF ReadRight
<1>4. HeadersRight'
  BY <1>1, GrownSelf, HeadersKept DEF ReadRight
<1>5. /\ IsStream(Stream) /\ Stream' = Stream /\ Len(Stream.indices) \in Nat
      /\ DOMAIN Stream.indices = 1 .. Len(Stream.indices)
  BY <1>1, StreamRight DEF Inv, Stream
<1>6. indices' = <<>> /\ Len(indices') = 0 /\ indices' \in Seq(VtIndex)
  BY <1>1, EmptySeq DEF ReadRight, IndicesRight
<1>7. IndicesRight'
  <2>1. IndicesOf(bin', at', Stream', indices', views'["IndexShort"])
    BY <1>5, <1>6 DEF IndicesOf
  <2>2. queue' = (Len(indices') + 1 .. Len(Stream'.indices)) \X {0}
    BY <1>1, <1>5, <1>6
  <2> QED
    BY <1>1, <2>1, <2>2, Names DEF IndicesRight
<1>8. AttrsRight' /\ UvRight'
  BY <1>1, Names DEF ReadRight, AttrsRight, UvRight
<1> QED
  BY <1>3, <1>4, <1>7, <1>8 DEF ReadRight

(* The next index buffer is the first without a record.                    *)
LEMMA NextIndex ==
  ASSUME Inv, ReadRight, pass = "index", queue # {}
  PROVE  /\ Item = <<Len(indices) + 1, 0>> /\ Len(indices) \in Nat
         /\ Len(indices) + 1 \in 1 .. Len(Stream.indices) /\ IndexCount \in Nat
         /\ IndexCount = Stream.indices[Len(indices) + 1]
         /\ queue \ {Item} = (Len(indices) + 2 .. Len(Stream.indices)) \X {0}
<1>1. /\ Item \in queue /\ \A j \in queue \ {Item} : Before(Item, j)
  BY ItemOfQueue, QueueOfPairs DEF Inv
<1>2. /\ queue = (Len(indices) + 1 .. Len(Stream.indices)) \X {0}
      /\ indices \in Seq(VtIndex) /\ Len(indices) \in Nat
  BY LenProperties DEF ReadRight, IndicesRight, IndicesOf
<1>3. Len(Stream.indices) \in Nat /\ \A i \in 1 .. Len(Stream.indices) : Stream.indices[i] \in Nat
  BY StreamRight DEF Inv, SourceRight
<1>4. PICK k : k \in Len(indices) + 1 .. Len(Stream.indices) /\ Item = <<k, 0>>
  BY <1>1, <1>2
<1>5. k = Len(indices) + 1
  <2> SUFFICES ASSUME k # Len(indices) + 1 PROVE FALSE
    OBVIOUS
  <2>1. <<Len(indices) + 1, 0>> \in queue /\ <<Len(indices) + 1, 0>> # Item
    BY <1>2, <1>3, <1>4
  <2>2. Before(<<k, 0>>, <<Len(indices) + 1, 0>>)
    BY <1>1, <1>4, <2>1
  <2>3. k < Len(indices) + 1
    BY <1>2, <1>4, <2>2 DEF Before
  <2> QED
    BY <1>2, <1>3, <1>4, <2>3
<1>6. Len(indices) + 1 \in 1 .. Len(Stream.indices)
  BY <1>2, <1>3, <1>4, <1>5
<1>7. IndexCount = Stream.indices[Len(indices) + 1]
  BY <1>4, <1>5 DEF IndexCount
<1>8. queue \ {Item} = (Len(indices) + 2 .. Len(Stream.indices)) \X {0}
  <2>1. \A m, n \in Nat : \A i : i \in (m + 1 .. n) \ {m + 1} <=> i \in m + 2 .. n
    OBVIOUS
  <2>2. \A i : i \in (Len(indices) + 1 .. Len(Stream.indices)) \ {k}
               <=> i \in Len(indices) + 2 .. Len(Stream.indices)
    BY <1>2, <1>3, <1>5, <2>1, Zenon
  <2> QED
    BY <1>2, <1>4, <2>2
<1> QED
  BY <1>2, <1>3, <1>4, <1>5, <1>6, <1>7, <1>8

(* Units of one kind, and what follows them.                               *)
Begins(units, n, tag) ==
  /\ \E S : units \in Seq(S)
  /\ n <= Len(units) /\ \A u \in 1 .. n : units[u] = tag

LEMMA UnitsBegin ==
  ASSUME NEW n \in Nat, NEW tag, NEW m \in Nat, NEW pad
  PROVE  Begins(Units(n, tag), n, tag) /\ Begins(Units(n, tag) \o Units(m, pad), n, tag)
<1> DEFINE b == Units(n, tag)
           c == Units(m, pad)
<1>1. b \in Seq({tag}) /\ Len(b) = n /\ \A u \in 1 .. n : b[u] = tag
  BY UnitsRight, LenProperties DEF Units
<1>2. c \in Seq({pad}) /\ Len(c) = m
  BY UnitsRight, LenProperties DEF Units
<1> HIDE DEF b, c
<1>3. b \o c \in Seq({tag} \cup {pad}) /\ Grown(b, b \o c)
  BY <1>1, <1>2, Joined
<1>4. Begins(b, n, tag)
  BY <1>1 DEF Begins
<1>5. Begins(b \o c, n, tag)
  BY <1>1, <1>3 DEF Begins, Grown
<1> QED
  BY <1>4, <1>5 DEF b, c

LEMMA WriteIndicesRead == ASSUME Inv, ReadRight, WriteIndices PROVE ReadRight'
<1> DEFINE n == IndexCount
           k == Len(indices) + 1
           tag == <<at, "index", k, 0>>
           pad == <<at, "pad", k, 0>>
           units == Units(n, tag) \o Units(n % 2, pad)
           x == [offset |-> views["IndexShort"].size, count |-> n]
<1>1. /\ pass = "index" /\ queue # {} /\ queue' = queue \ {Item}
      /\ indices' = Append(indices, x) /\ bin' = bin \o IndexUnits
      /\ total' = total + Len(IndexUnits)
      /\ views' = [views EXCEPT !["IndexShort"].size = @ + Len(IndexUnits)]
      /\ UNCHANGED <<source, at, pass, uv16, header>>
  BY DEF WriteIndices, DescribeIndices, Send
<1>2. /\ Item = <<k, 0>> /\ Len(indices) \in Nat /\ k \in 1 .. Len(Stream.indices) /\ n \in Nat
      /\ n = Stream.indices[k]
      /\ queue \ {Item} = (Len(indices) + 2 .. Len(Stream.indices)) \X {0}
  BY <1>1, NextIndex
<1>3. IndexUnits = units
  BY <1>2 DEF IndexUnits
<1>4. n % 2 \in Nat
  BY <1>2
<1>5. Begins(units, n, tag)
  BY <1>2, <1>4, UnitsBegin, Zenon
<1>s. PICK T : units \in Seq(T)
  BY <1>5 DEF Begins
<1>6. /\ "IndexShort" \in Slots
      /\ views["IndexShort"].offset + views["IndexShort"].size = total
  BY <1>1, Names DEF Inv, BufferRight, ViewsRight, PassSlot
<1> HIDE DEF units, tag, pad, k, x
<1>7. /\ FileRight' /\ Grown(bin, bin') /\ views \in [Slots -> View] /\ views' \in [Slots -> View]
      /\ \A p \in Slots : Kept(bin', views[p], views'[p])
      /\ views["IndexShort"].size \in Nat
      /\ \A m \in Nat : \A g :
           m <= Len(units) /\ (\A u \in 1 .. m : units[u] = g) =>
             InView(bin', views'["IndexShort"], views["IndexShort"].size, m, g)
  BY <1>1, <1>3, <1>s, <1>6, SentRead DEF ReadRight
<1>8. HeadersRight'
  BY <1>1, <1>7, HeadersKept DEF ReadRight
<1>9. Stream' = Stream /\ IndicesOf(bin', at, Stream, indices, views'["IndexShort"])
  BY <1>1, <1>7, IndicesKept DEF ReadRight
<1>10. IndexRight(bin', at, Stream, x, views'["IndexShort"], k)
  <2>1. InView(bin', views'["IndexShort"], views["IndexShort"].size, n, tag)
    BY <1>2, <1>5, <1>7 DEF Begins
  <2> QED
    BY <1>2, <1>7, <2>1 DEF IndexRight, x, tag
<1>11. x \in VtIndex
  BY <1>2, <1>7 DEF x, VtIndex
<1>12. /\ indices' \in Seq(VtIndex) /\ Len(indices') = k /\ indices'[k] = x
       /\ \A i \in 1 .. Len(indices) : indices'[i] = indices[i]
  <2>1. indices \in Seq(VtIndex)
    BY <1>9 DEF IndicesOf
  <2> QED
    BY <1>1, <1>11, <2>1, AppendProperties DEF k
<1>13. IndicesOf(bin', at, Stream, indices', views'["IndexShort"])
  <2>1. ASSUME NEW i \in 1 .. Len(indices')
        PROVE  IndexRight(bin', at, Stream, indices'[i], views'["IndexShort"], i)
    <3>1. i \in 1 .. Len(indices) \/ i = k
      BY <1>2, <1>12 DEF k
    <3>2. CASE i = k
      BY <1>10, <1>12, <3>2
    <3>3. CASE i \in 1 .. Len(indices)
      <4>1. IndexRight(bin', at, Stream, indices[i], views'["IndexShort"], i)
        BY <1>9, <3>3 DEF IndicesOf
      <4> QED
        BY <1>12, <3>3, <4>1
    <3> QED
      BY <3>1, <3>2, <3>3
  <2>2. Len(indices') <= Len(Stream.indices)
    <3>1. Len(Stream.indices) \in Nat
      BY <1>1, StreamRight DEF Inv, SourceRight
    <3> QED
      BY <1>2, <1>12, <3>1
  <2> QED
    BY <1>12, <2>1, <2>2 DEF IndicesOf
<1>14. IndicesRight'
  <2>1. queue' = (Len(indices') + 1 .. Len(Stream'.indices)) \X {0}
    <3>1. Len(indices') + 1 = Len(indices) + 2
      BY <1>2, <1>12 DEF k
    <3> QED
      BY <1>1, <1>2, <1>9, <3>1
  <2> QED
    BY <1>1, <1>9, <1>13, <2>1, Names DEF IndicesRight
<1>15. AttrsRight' /\ UvRight'
  BY <1>1, Names DEF ReadRight, AttrsRight, UvRight
<1> QED
  BY <1>7, <1>8, <1>14, <1>15 DEF ReadRight

LEMMA AttrsKept ==
  ASSUME Inv, AttrsRight, Grown(bin, bin'), pass \in DOMAIN Wanted,
         views \in [Slots -> View], views' \in [Slots -> View],
         \A p \in Slots : Kept(bin', views[p], views'[p])
  PROVE  /\ IsStream(Stream)
         /\ AttrsOf(bin', uv16, Late(pass), at, Stream, attrs, views', queue, PassTurn[pass])
<1>1. IsStream(Stream)
  BY StreamRight, Names DEF Inv, SourceRight
<1>2. AttrsOf(bin, uv16, Late(pass), at, Stream, attrs, views, queue, PassTurn[pass])
  BY DEF AttrsRight
<1> DEFINE s == Stream
           late == Late(pass)
           t == PassTurn[pass]
<1>3. IsStream(s) /\ AttrsOf(bin, uv16, late, at, s, attrs, views, queue, t)
  BY <1>1, <1>2
<1> HIDE DEF s, late, t
<1>4. AttrsOf(bin', uv16, late, at, s, attrs, views', queue, t)
  BY <1>3, AttrsGrown
<1> QED
  BY <1>1, <1>4 DEF s, late, t

LEMMA TakeVerticesRead == ASSUME Inv, ReadRight, TakeVertices PROVE ReadRight'
<1>1. /\ pass = "index" /\ pass' = "position" /\ queue = {}
      /\ queue' = Items(Stream, "position")
      /\ attrs' = [v \in 1 .. Len(Stream.vertices) |-> <<>>]
      /\ views' = [views EXCEPT !["Float3"].offset = total]
      /\ UNCHANGED <<source, at, indices, uv16, bin, total, header>>
  BY DEF TakeVertices, Enter, PassSlot, fileVars
<1>2. "Float3" \in Slots /\ views["Float3"].size = 0
  BY <1>1, Names DEF Inv, BufferRight, ViewsRight, Ahead
<1>3. /\ FileRight' /\ views \in [Slots -> View] /\ views' \in [Slots -> View]
      /\ \A p \in Slots : Kept(bin', views[p], views'[p])
  BY <1>1, <1>2, EnteredRead DEF ReadRight
<1>4. HeadersRight' /\ Grown(bin, bin')
  BY <1>1, GrownSelf, HeadersKept DEF ReadRight
<1>5. Stream' = Stream /\ IndicesOf(bin', at, Stream, indices, views'["IndexShort"])
  BY <1>1, <1>3, <1>4, IndicesKept DEF ReadRight
<1>6. IsStream(Stream) /\ Len(Stream.indices) \in Nat
  BY <1>1, StreamRight DEF Inv, SourceRight
<1>7. Len(indices) = Len(Stream.indices)
  <2>1. Len(indices) \in Nat /\ Len(indices) <= Len(Stream.indices)
    BY <1>5, LenProperties DEF IndicesOf
  <2>2. (Len(indices) + 1 .. Len(Stream.indices)) \X {0} = {}
    BY <1>1 DEF ReadRight, IndicesRight
  <2>3. ~(Len(indices) + 1 \in Len(indices) + 1 .. Len(Stream.indices))
    <3>1. \A S, k : S \X {0} = {} => k \notin S
      <4> SUFFICES ASSUME NEW S, NEW k, S \X {0} = {}, k \in S PROVE FALSE
        OBVIOUS
      <4>1. <<k, 0>> \in S \X {0}
        OBVIOUS
      <4> QED
        BY <4>1
    <3> QED
      BY <2>2, <3>1, Zenon
  <2> QED
    BY <1>6, <2>1, <2>3
<1>8. IndicesRight'
  BY <1>1, <1>5, <1>7, Names DEF IndicesRight
<1>9. AttrsOf(bin', uv16', {}, at, Stream, attrs', views', Items(Stream, "position"), 1)
  <2>1. Len(Stream.vertices) \in Nat /\ DOMAIN Stream.vertices = 1 .. Len(Stream.vertices)
    BY <1>6, VerticesRight
  <2>2. <<>> \in Seq(VtAttr) /\ Len(<<>>) = 0 /\ Cardinality({}) = 0
    BY EmptySeq, FS_EmptySet
  <2>3. attrs' \in Seq(Seq(VtAttr)) /\ Len(attrs') = Len(Stream.vertices)
    <3>1. attrs' \in [1 .. Len(Stream.vertices) -> Seq(VtAttr)]
      BY <1>1, <2>2
    <3> QED
      BY <2>1, <3>1, LenProperties, SeqDef
  <2>4. ASSUME NEW v \in DOMAIN Stream.vertices
        PROVE  VertexRight(bin', uv16', {}, at, Stream, attrs'[v], views', v,
                           DoneOf(Stream, Items(Stream, "position"), 1, v))
    <3>1. DoneOf(Stream, Items(Stream, "position"), 1, v) = {}
      BY <1>6, FirstTurn
    <3>2. attrs'[v] = <<>>
      BY <1>1, <2>1
    <3> QED
      BY <2>2, <3>1, <3>2 DEF VertexRight
  <2> QED
    BY <2>3, <2>4 DEF AttrsOf
<1>10. AttrsRight'
  <2>1. Late("position") = {} /\ PassTurn["position"] = 1
    BY DEF Late, PassTurn
  <2>2. InOrder(Items(Stream, "position"), Items(Stream, "position"))
    BY DEF InOrder
  <2> QED
    BY <1>1, <1>5, <1>9, <2>1, <2>2 DEF AttrsRight
<1>11. UvRight'
  BY <1>1, Names DEF ReadRight, UvRight
<1> QED
  BY <1>3, <1>4, <1>8, <1>10, <1>11 DEF ReadRight

(* What a pass over the vertex buffers comes to next.                      *)
LEMMA NextItem ==
  ASSUME Inv, ReadRight, pass \in DOMAIN Wanted, queue # {}
  PROVE  /\ IsStream(Stream) /\ queue \subseteq Items(Stream, pass) /\ IsFirst(queue, Item)
         /\ InOrder(Items(Stream, pass), queue) /\ InOrder(Items(Stream, pass), Rest(queue, Item))
         /\ Desc \in Wanted[pass] /\ Item \in Items(Stream, pass) /\ Item = <<Item[1], Item[2]>>
         /\ Item[1] \in DOMAIN Stream.vertices /\ Item[2] \in Recorded(Stream, Item[1])
         /\ Stream.vertices[Item[1]].n \in Nat
<1>1. IsStream(Stream) /\ queue \subseteq Items(Stream, pass)
  BY StreamRight, Names DEF Inv, SourceRight, QueueRight
<1>2. IsFirst(queue, Item)
  BY ItemOfQueue, QueueOfPairs, Names DEF Inv, IsFirst
<1>3. InOrder(Items(Stream, pass), queue)
  BY DEF ReadRight, AttrsRight
<1>4. Item \in Items(Stream, pass)
  BY <1>1, <1>2 DEF IsFirst
<1>5. Desc \in Wanted[pass] /\ Item \in Positions(Stream)
  BY <1>4 DEF Items, Desc
<1>6. /\ Item[1] \in DOMAIN Stream.vertices /\ Item = <<Item[1], Item[2]>>
      /\ Stream.vertices[Item[1]].n \in Nat
  BY <1>1, <1>5, PositionsRight, VerticesRight
<1> DEFINE s == Stream
           p == pass
           x == Item
           t == PassTurn[p]
           r == Rest(queue, x)
<1>7. IsStream(s) /\ p \in DOMAIN Wanted /\ queue \subseteq Items(s, p) /\ IsFirst(queue, x)
      /\ InOrder(Items(s, p), queue) /\ t = PassTurn[p] /\ r = Rest(queue, x)
  BY <1>1, <1>2, <1>3
<1> HIDE DEF s, p, x, t, r
<1>8. x[2] \in Recorded(s, x[1]) /\ InOrder(Items(s, p), r)
  BY <1>7, NextRecord
<1> QED
  BY <1>1, <1>2, <1>3, <1>4, <1>5, <1>6, <1>8 DEF s, p, x, r

(* It gets its record.                                                     *)
LEMMA RecordMade ==
  ASSUME Inv, ReadRight, pass \in DOMAIN Wanted, queue # {}, NEW slot, NEW offset, NEW b, NEW kept,
         NEW ws, Describe(slot, offset), NEW r, r = [slot |-> slot, offset |-> offset, desc |-> Desc],
         slot \in Slots, offset \in Nat,
         AttrsOf(b, kept, Late(pass), at, Stream, attrs, ws, queue, PassTurn[pass]),
         RecordRight(b, kept, Late(pass), at, Stream, r, ws, Item)
  PROVE  AttrsOf(b, kept, Late(pass), at, Stream, attrs', ws, Rest(queue, Item), PassTurn[pass])
<1>1. Desc \in Descriptors
  <2>1. Desc \in Wanted[pass]
    BY NextItem
  <2> QED
    BY <2>1, Names DEF Wanted, Descriptors, Packed
<1>2. r \in VtAttr
  BY <1>1 DEF VtAttr
<1>3. attrs' = [attrs EXCEPT ![Item[1]] = Append(@, r)]
  BY DEF Describe
<1> DEFINE s == Stream
           p == pass
           x == Item
           t == PassTurn[p]
           z == Rest(queue, x)
           late == Late(pass)
<1>4. /\ IsStream(s) /\ p \in DOMAIN Wanted /\ queue \subseteq Items(s, p) /\ IsFirst(queue, x)
      /\ InOrder(Items(s, p), queue) /\ t = PassTurn[p] /\ z = Rest(queue, x)
      /\ AttrsOf(b, kept, late, at, s, attrs, ws, queue, t)
      /\ RecordRight(b, kept, late, at, s, r, ws, x)
      /\ attrs' = [attrs EXCEPT ![x[1]] = Append(@, r)]
  BY <1>3, NextItem
<1> HIDE DEF s, p, x, t, z, late
<1>5. AttrsOf(b, kept, late, at, s, [attrs EXCEPT ![x[1]] = Append(@, r)], ws, z, t)
  BY <1>2, <1>4, ItemAdded
<1>6. AttrsOf(b, kept, late, at, s, attrs', ws, z, t)
  BY <1>4, <1>5, Zenon
<1> QED
  BY <1>6 DEF s, p, x, t, z, late

LEMMA WriteAttributeRead == ASSUME Inv, ReadRight, WriteAttribute PROVE ReadRight'
<1> DEFINE slot == PassSlot[pass]
           tag == <<at, "vertex", Item[1], Item[2]>>
           n == Stream.vertices[Item[1]].n * Stride[slot]
           units == ItemUnits(slot)
           r == [slot |-> slot, offset |-> views[slot].size, desc |-> Desc]
<1>1. /\ pass \in DOMAIN Wanted /\ queue # {} /\ Desc \notin Packed
      /\ queue' = Rest(queue, Item) /\ Describe(slot, views[slot].size)
      /\ bin' = bin \o units /\ total' = total + Len(units)
      /\ views' = [views EXCEPT ![slot].size = @ + Len(units)]
      /\ UNCHANGED <<source, at, pass, indices, uv16, header>>
  BY DEF WriteAttribute, Send, Rest
<1>2. /\ IsStream(Stream) /\ Desc \in Wanted[pass] /\ Item = <<Item[1], Item[2]>>
      /\ Stream.vertices[Item[1]].n \in Nat
      /\ InOrder(Items(Stream, pass), Rest(queue, Item))
  BY <1>1, NextItem
<1>3. SlotOf(Desc) = slot /\ slot \in Slots /\ Stride[slot] \in Nat
  BY <1>1, <1>2, SlotFacts
<1>4. n \in Nat /\ UnitCount(Stream, Item) = n /\ VertexTag(at, Item) = tag
  <2>1. \A k, m \in Nat : k * m \in Nat
    OBVIOUS
  <2>2. n \in Nat
    BY <1>2, <1>3, <2>1
  <2>3. UnitCount(Stream, Item) = n
    BY <1>3 DEF UnitCount, Desc
  <2> QED
    BY <2>2, <2>3 DEF VertexTag
<1>5. Begins(units, n, tag) /\ Len(units) \in Nat
  <2>1. units = Units(n, tag)
    BY DEF ItemUnits
  <2> HIDE DEF n, tag, units
  <2>2. Begins(Units(n, tag), n, tag)
    BY <1>4, UnitsBegin
  <2> QED
    BY <2>1, <2>2, LenProperties DEF Begins
<1>s. PICK T : units \in Seq(T)
  BY <1>5 DEF Begins
<1>6. views[slot].offset + views[slot].size = total
  BY <1>1, Names DEF Inv, BufferRight, ViewsRight
<1> HIDE DEF units, tag, n, slot
<1>7. /\ FileRight' /\ Grown(bin, bin') /\ views \in [Slots -> View] /\ views' \in [Slots -> View]
      /\ \A p \in Slots : Kept(bin', views[p], views'[p])
      /\ views[slot].size \in Nat
      /\ \A m \in Nat : \A g :
           m <= Len(units) /\ (\A u \in 1 .. m : units[u] = g) =>
             InView(bin', views'[slot], views[slot].size, m, g)
  BY <1>1, <1>3, <1>s, <1>6, SentRead DEF ReadRight
<1>8. HeadersRight'
  BY <1>1, <1>7, HeadersKept DEF ReadRight
<1>9. Stream' = Stream /\ IndicesOf(bin', at, Stream, indices, views'["IndexShort"])
  BY <1>1, <1>7, IndicesKept, Names DEF ReadRight
<1>10. IndicesRight'
  BY <1>1, <1>9, Names DEF ReadRight, IndicesRight
<1>11. AttrsOf(bin', uv16, Late(pass), at, Stream, attrs, views', queue, PassTurn[pass])
  BY <1>1, <1>7, AttrsKept DEF ReadRight
<1>12. RecordRight(bin', uv16, Late(pass), at, Stream, r, views', Item)
  <2>1. InView(bin', views'[slot], views[slot].size, n, tag)
    BY <1>4, <1>5, <1>7 DEF Begins
  <2>2. r.desc = Desc /\ r.slot = slot /\ r.offset = views[slot].size
    OBVIOUS
  <2>3. Desc \notin Late(pass)
    BY <1>1 DEF Late
  <2> HIDE DEF r
  <2> QED
    BY <1>3, <1>4, <1>7, <2>1, <2>2, <2>3 DEF RecordRight, Desc
<1>13. AttrsOf(bin', uv16, Late(pass), at, Stream, attrs', views', Rest(queue, Item), PassTurn[pass])
  BY <1>1, <1>3, <1>7, <1>11, <1>12, RecordMade
<1>14. AttrsRight'
  BY <1>1, <1>2, <1>9, <1>13 DEF AttrsRight
<1>15. UvRight'
  BY <1>1, <1>9, Names DEF ReadRight, UvRight, Rest
<1> QED
  BY <1>7, <1>8, <1>10, <1>14, <1>15 DEF ReadRight

(* A packed UV is the first, or one met it before.                         *)
LEMMA KeepPackedUVRead == ASSUME Inv, ReadRight, KeepPackedUV PROVE ReadRight'
<1> DEFINE tag == <<at, "vertex", Item[1], Item[2]>>
           n == Stream.vertices[Item[1]].n * Stride["Short2"]
           units == ItemUnits("Short2")
           r == [slot |-> "Short2", offset |-> 0, desc |-> Desc]
<1>1. /\ pass = "uv" /\ pass \in DOMAIN Wanted /\ queue # {} /\ Desc \in Packed
      /\ queue' = Rest(queue, Item) /\ Describe("Short2", views["Short2"].size)
      /\ uv16' = uv16 \o units
      /\ UNCHANGED <<source, at, pass, views, indices, bin, total, header>>
  BY Names DEF KeepPackedUV, Rest, fileVars
<1>2. /\ IsStream(Stream) /\ Desc \in Wanted[pass] /\ Item = <<Item[1], Item[2]>>
      /\ Stream.vertices[Item[1]].n \in Nat
      /\ InOrder(Items(Stream, pass), Rest(queue, Item))
      /\ InOrder(Items(Stream, pass), queue) /\ IsFirst(queue, Item)
      /\ Item \in Items(Stream, pass)
  BY <1>1, NextItem
<1>3. SlotOf(Desc) = "Short2" /\ "Short2" \in Slots /\ Stride["Short2"] \in Nat
  BY <1>1, <1>2, SlotFacts, Names
<1>4. n \in Nat /\ UnitCount(Stream, Item) = n /\ VertexTag(at, Item) = tag
  <2>1. \A k, m \in Nat : k * m \in Nat
    OBVIOUS
  <2>2. n \in Nat
    BY <1>2, <1>3, <2>1
  <2>3. UnitCount(Stream, Item) = n
    BY <1>3 DEF UnitCount, Desc
  <2> QED
    BY <2>2, <2>3 DEF VertexTag
<1>5. Begins(units, n, tag) /\ Len(units) \in Nat
  <2>1. units = Units(n, tag)
    BY DEF ItemUnits
  <2> HIDE DEF n, tag, units
  <2>2. Begins(Units(n, tag), n, tag)
    BY <1>4, UnitsBegin
  <2> QED
    BY <2>1, <2>2, LenProperties DEF Begins
<1>s. PICK T : units \in Seq(T)
  BY <1>5 DEF Begins
<1>6. views["Short2"].size = 0 /\ views \in [Slots -> View]
  BY <1>1 DEF Inv, BufferRight, ViewsRight, Ahead
<1> HIDE DEF units, tag, n
<1>7. PICK S : uv16 \in Seq(S)
  BY DEF Inv, ListsRight
<1>8. Grown(uv16, uv16')
  BY <1>1, <1>s, <1>7, Joined
<1>9. Stream' = Stream
  BY <1>1 DEF Stream
<1>10. AttrsOf(bin, uv16', Late(pass), at, Stream, attrs, views, queue, PassTurn[pass])
  <2> DEFINE s == Stream
             late == Late(pass)
             t == PassTurn[pass]
  <2>1. IsStream(s) /\ AttrsOf(bin, uv16, late, at, s, attrs, views, queue, t)
    BY <1>1, <1>2 DEF ReadRight, AttrsRight
  <2> HIDE DEF s, late, t
  <2>2. AttrsOf(bin, uv16', late, at, s, attrs, views, queue, t)
    BY <1>8, <2>1, KeptGrown
  <2> QED
    BY <2>2 DEF s, late, t
<1>11. LaterPacked(Stream, Item) \/ Holds(uv16', 0, n, tag)
  <2>1. CASE uv16 = <<>>
    <3>1. Holds(uv16 \o units, Len(uv16), n, tag)
      BY <1>4, <1>5, <1>s, <1>7, HoldsJoined DEF Begins
    <3>2. Len(uv16) = 0
      BY <2>1, EmptySeq
    <3> QED
      BY <1>1, <3>1, <3>2
  <2>2. CASE uv16 # <<>>
    <3>1. PICK i \in Items(Stream, "uv") \ queue : DescAt(Stream, i) \in Packed
      BY <1>1, <2>2 DEF ReadRight, UvRight
    <3>2. Before(i, Item)
      BY <1>1, <1>2, <3>1 DEF InOrder, IsFirst
    <3> QED
      BY <1>1, <3>1, <3>2 DEF LaterPacked, Items, Desc
  <2> QED
    BY <2>1, <2>2
<1>12. RecordRight(bin, uv16', Late(pass), at, Stream, r, views, Item)
  <2>1. r.desc = Desc /\ r.slot = "Short2" /\ r.offset = 0 /\ 0 \in Nat
    OBVIOUS
  <2>2. Desc \in Late(pass)
    BY <1>1 DEF Late
  <2> HIDE DEF r
  <2> QED
    BY <1>3, <1>4, <1>11, <2>1, <2>2 DEF RecordRight, Desc
<1>13. AttrsOf(bin, uv16', Late(pass), at, Stream, attrs', views, Rest(queue, Item), PassTurn[pass])
  BY <1>1, <1>3, <1>6, <1>10, <1>12, RecordMade
<1>14. AttrsRight'
  BY <1>1, <1>2, <1>9, <1>13 DEF AttrsRight
<1>15. UvRight'
  <2>1. Item \in Items(Stream, "uv") \ queue' /\ DescAt(Stream, Item) \in Packed
    BY <1>1, <1>2 DEF Rest, Desc
  <2> QED
    BY <1>1, <1>9, <2>1 DEF UvRight
<1>16. FileRight' /\ HeadersRight' /\ IndicesRight'
  BY <1>1, <1>9, Names DEF ReadRight, FileRight, HeadersRight, IndicesRight
<1> QED
  BY <1>14, <1>15, <1>16 DEF ReadRight

LEMMA NextPassRead == ASSUME Inv, ReadRight, NextPass PROVE ReadRight'
<1> DEFINE p == IF pass = "position" THEN "direction" ELSE "uv"
           slot == PassSlot[p]
<1>1. /\ pass \in {"position", "direction"} /\ pass \in DOMAIN Wanted /\ pass' = p /\ queue = {}
      /\ queue' = Items(Stream, p) /\ views' = [views EXCEPT ![slot].offset = total]
      /\ UNCHANGED <<source, at, indices, attrs, uv16, bin, total, header>>
  BY Names DEF NextPass, Enter, fileVars
<1>2. /\ p \in DOMAIN Wanted /\ p \in {"direction", "uv"} /\ p # "none" /\ p # "index"
      /\ slot \in Slots /\ slot \in Ahead[pass]
      /\ PassTurn[p] = PassTurn[pass] + 1 /\ Late(pass) = {} /\ (p = "uv" => PassTurn[p] = 3)
  BY <1>1, Names DEF PassSlot, Ahead, PassTurn, Late
<1> HIDE DEF p, slot
<1>3. views[slot].size = 0
  BY <1>2 DEF Inv, BufferRight, ViewsRight
<1>4. /\ FileRight' /\ views \in [Slots -> View] /\ views' \in [Slots -> View]
      /\ \A k \in Slots : Kept(bin', views[k], views'[k])
  BY <1>1, <1>2, <1>3, EnteredRead DEF ReadRight
<1>5. HeadersRight' /\ Grown(bin, bin')
  BY <1>1, GrownSelf, HeadersKept DEF ReadRight
<1>6. Stream' = Stream /\ IndicesOf(bin', at, Stream, indices, views'["IndexShort"])
  BY <1>1, <1>4, <1>5, IndicesKept, Names DEF ReadRight
<1>7. IndicesRight'
  BY <1>1, <1>2, <1>6 DEF ReadRight, IndicesRight
<1>8. /\ IsStream(Stream)
      /\ AttrsOf(bin', uv16, {}, at, Stream, attrs, views', {}, PassTurn[pass])
  <2>1. /\ IsStream(Stream)
        /\ AttrsOf(bin', uv16, Late(pass), at, Stream, attrs, views', queue, PassTurn[pass])
    BY <1>1, <1>4, <1>5, AttrsKept DEF ReadRight
  <2> QED
    BY <1>1, <1>2, <2>1, Zenon
<1> DEFINE s == Stream
           q == Items(s, p)
           t == PassTurn[p]
<1>9. IsStream(s) /\ AttrsOf(bin', uv16, {}, at, s, attrs, views', q, t)
  <2>1. AttrsOf(bin', uv16, {}, at, s, attrs, views', {}, PassTurn[pass]) /\ IsStream(s)
    BY <1>8
  <2> HIDE DEF s
  <2>2. AttrsOf(bin', uv16, {}, at, s, attrs, views', Items(s, p), PassTurn[p])
    BY <1>1, <1>2, <2>1, TurnKept
  <2> QED
    BY <2>1, <2>2
<1>10. AttrsOf(bin', uv16, Late(p), at, s, attrs, views', q, t)
  <2>1. CASE p = "uv"
    <3>1. t = 3 /\ q = Items(s, "uv") /\ Late(p) = Packed
      BY <1>2, <2>1 DEF Late
    <3> HIDE DEF s, q, t
    <3>2. AttrsOf(bin', uv16, {}, at, s, attrs, views', q, 3)
      BY <1>9, <3>1
    <3>3. AttrsOf(bin', uv16, Packed, at, s, attrs, views', q, 3)
      BY <1>9, <3>1, <3>2, LateBegun
    <3> QED
      BY <3>1, <3>3, Zenon
  <2>2. CASE p # "uv"
    <3>1. Late(p) = {}
      BY <2>2 DEF Late
    <3> QED
      BY <1>9, <3>1, Zenon
  <2> QED
    BY <2>1, <2>2
<1>11. AttrsRight'
  <2>1. InOrder(q, q)
    BY DEF InOrder
  <2> QED
    BY <1>1, <1>2, <1>6, <1>10, <2>1 DEF AttrsRight
<1>12. UvRight'
  BY <1>1, <1>2 DEF ReadRight, UvRight
<1> QED
  BY <1>4, <1>5, <1>7, <1>11, <1>12 DEF ReadRight

(* The views after the packed UVs are written, see Flushed.                *)
LEMMA FlushedRead ==
  ASSUME NEW S, NEW b \in Seq(S), NEW T, NEW k \in Seq(T), NEW vs \in [Slots -> View],
         vs["Short2"].size = 0, vs["Byte4"].size = 0, NEW new,
         \A slot \in Slots : vs[slot].offset + vs[slot].size <= Len(b),
         new = [vs EXCEPT
                  !.Short2 = IF k = <<>> THEN @ ELSE [offset |-> Len(b), size |-> Len(k)],
                  !.Byte4.offset = Len(b) + Len(k)]
  PROVE  /\ new \in [Slots -> View]
         /\ \A slot \in Slots : /\ Kept(b \o k, vs[slot], new[slot])
                                /\ new[slot].offset + new[slot].size <= Len(b) + Len(k)
         /\ \A u \in Nat : \A tag : Holds(k, 0, u, tag) => InView(b \o k, new["Short2"], 0, u, tag)
<1>1. /\ Len(b) \in Nat /\ Len(k) \in Nat /\ Len(b \o k) = Len(b) + Len(k)
      /\ \A u \in 1 .. Len(k) : (b \o k)[Len(b) + u] = k[u]
  BY Joined
<1>2. vs["Short2"] \in View /\ vs["Byte4"] \in View /\ "Short2" \in Slots /\ "Byte4" \in Slots
  BY Names
<1> DEFINE x == IF k = <<>> THEN vs["Short2"] ELSE [offset |-> Len(b), size |-> Len(k)]
           y == [vs["Byte4"] EXCEPT !.offset = Len(b) + Len(k)]
<1>3. x \in View /\ y \in View /\ y.offset = Len(b) + Len(k) /\ y.size = 0
  BY <1>1, <1>2 DEF View
<1>4. new = [[vs EXCEPT !["Short2"] = x] EXCEPT !["Byte4"] = y]
  <2>1. new = [[vs EXCEPT !["Short2"] = x] EXCEPT !["Byte4"].offset = Len(b) + Len(k)]
    OBVIOUS
  <2>2. [vs EXCEPT !["Short2"] = x]["Byte4"] = vs["Byte4"]
    BY <1>2
  <2> QED
    BY <2>1, <2>2
<1>5. /\ k # <<>> => x.offset = Len(b) /\ x.size = Len(k)
      /\ k = <<>> => x = vs["Short2"] /\ Len(k) = 0
  BY EmptySeq
<1> HIDE DEF x, y
<1>6. /\ new \in [Slots -> View] /\ new["Short2"] = x /\ new["Byte4"] = y
      /\ \A slot \in Slots : slot \notin {"Short2", "Byte4"} => new[slot] = vs[slot]
  BY <1>2, <1>3, <1>4, ZenonT(40)
<1>7. ASSUME NEW slot \in Slots
      PROVE  /\ Kept(b \o k, vs[slot], new[slot])
             /\ new[slot].offset + new[slot].size <= Len(b) + Len(k)
  <2>0. vs[slot] \in View
    OBVIOUS
  <2>1. vs[slot].offset \in Nat /\ vs[slot].size \in Nat /\ vs[slot].size <= vs[slot].size
        /\ vs[slot].offset + vs[slot].size <= Len(b)
    BY <2>0 DEF View
  <2>2. CASE slot \notin {"Short2", "Byte4"}
    BY <1>1, <1>6, <2>1, <2>2 DEF Kept
  <2>3. CASE slot = "Byte4"
    BY <1>1, <1>3, <1>6, <2>3 DEF Kept
  <2>4. CASE slot = "Short2" /\ k = <<>>
    BY <1>1, <1>5, <1>6, <2>1, <2>4 DEF Kept
  <2>5. CASE slot = "Short2" /\ k # <<>>
    BY <1>1, <1>5, <1>6, <2>1, <2>5 DEF Kept
  <2> QED
    BY <2>2, <2>3, <2>4, <2>5
<1>8. ASSUME NEW u \in Nat, NEW tag, Holds(k, 0, u, tag)
      PROVE  InView(b \o k, new["Short2"], 0, u, tag)
  <2>1. u <= Len(k) /\ \A w \in 1 .. u : k[w] = tag
    BY <1>8 DEF Holds
  <2>2. CASE k # <<>>
    <3>1. Holds(b \o k, Len(b), u, tag)
      BY <2>1, HoldsJoined
    <3>2. x.offset + 0 = Len(b) /\ 0 + u <= x.size
      BY <1>1, <1>5, <2>1, <2>2
    <3> QED
      BY <1>6, <3>1, <3>2 DEF InView
  <2>3. CASE k = <<>>
    <3>1. u = 0 /\ x.size = 0 /\ x.offset \in Nat
      BY <1>3, <1>5, <2>1, <2>3 DEF View
    <3>2. x.offset + x.size <= Len(b) + Len(k)
      BY <1>2, <1>6, <1>7
    <3> QED
      BY <1>1, <1>6, <3>1, <3>2 DEF InView, Holds
  <2> QED
    BY <2>2, <2>3
<1> QED
  BY <1>6, <1>7, <1>8

LEMMA FlushPackedUVsRead == ASSUME Inv, ReadRight, FlushPackedUVs PROVE ReadRight'
<1>1. /\ pass = "uv" /\ pass \in DOMAIN Wanted /\ queue = {} /\ pass' = "colour"
      /\ bin' = bin \o uv16 /\ total' = total + Len(uv16)
      /\ views' = [views EXCEPT
                     !.Short2 = IF uv16 = <<>> THEN @ ELSE [offset |-> total, size |-> Len(uv16)],
                     !.Byte4.offset = total + Len(uv16)]
      /\ queue' = Items(Stream, "colour") /\ UNCHANGED <<source, at, indices, attrs, uv16, header>>
  BY Names DEF FlushPackedUVs
<1>2. PICK S : bin \in Seq(S)
  BY DEF ReadRight, FileRight
<1>3. PICK T : uv16 \in Seq(T)
  BY DEF Inv, ListsRight
<1>4. /\ views \in [Slots -> View] /\ views["Short2"].size = 0 /\ views["Byte4"].size = 0
      /\ total = Len(bin)
      /\ \A slot \in Slots : views[slot].offset + views[slot].size <= Len(bin)
  BY <1>1 DEF Inv, BufferRight, ViewsRight, Ahead, ReadRight, FileRight
<1>5. /\ views' \in [Slots -> View]
      /\ \A slot \in Slots : /\ Kept(bin \o uv16, views[slot], views'[slot])
                             /\ views'[slot].offset + views'[slot].size <= Len(bin) + Len(uv16)
      /\ \A u \in Nat : \A tag :
           Holds(uv16, 0, u, tag) => InView(bin \o uv16, views'["Short2"], 0, u, tag)
  <2>1. views' = [views EXCEPT
                    !.Short2 = IF uv16 = <<>> THEN @ ELSE [offset |-> Len(bin), size |-> Len(uv16)],
                    !.Byte4.offset = Len(bin) + Len(uv16)]
    BY <1>1, <1>4
  <2>2. PICK new : new = views'
    OBVIOUS
  <2>3. new = [views EXCEPT
                    !.Short2 = IF uv16 = <<>> THEN @ ELSE [offset |-> Len(bin), size |-> Len(uv16)],
                    !.Byte4.offset = Len(bin) + Len(uv16)]
    BY <2>1, <2>2
  <2>4. /\ new \in [Slots -> View]
        /\ \A slot \in Slots : /\ Kept(bin \o uv16, views[slot], new[slot])
                               /\ new[slot].offset + new[slot].size <= Len(bin) + Len(uv16)
        /\ \A u \in Nat : \A tag :
             Holds(uv16, 0, u, tag) => InView(bin \o uv16, new["Short2"], 0, u, tag)
    BY <1>2, <1>3, <1>4, <2>3, FlushedRead
  <2> QED
    BY <2>2, <2>4
<1>6. /\ bin' \in Seq(S \cup T) /\ Len(bin') = Len(bin) + Len(uv16) /\ Grown(bin, bin')
  BY <1>1, <1>2, <1>3, Joined
<1>7. FileRight'
  BY <1>1, <1>4, <1>5, <1>6 DEF FileRight
<1>8. HeadersRight'
  BY <1>1, <1>6, HeadersKept DEF ReadRight
<1>9. Stream' = Stream /\ IndicesOf(bin', at, Stream, indices, views'["IndexShort"])
  BY <1>1, <1>4, <1>5, <1>6, IndicesKept, Names DEF ReadRight
<1>10. IndicesRight'
  BY <1>1, <1>9, Names DEF ReadRight, IndicesRight
<1> DEFINE s == Stream
<1>11. IsStream(s)
  BY <1>1, Names, StreamRight DEF Inv, SourceRight
<1>12. AttrsOf(bin', uv16, {}, at, s, attrs, views', {}, 3)
  <2>1. AttrsOf(bin, uv16, Packed, at, s, attrs, views, {}, 3)
    BY <1>1 DEF ReadRight, AttrsRight, Late, PassTurn
  <2> HIDE DEF s
  <2> DEFINE c == bin'
             xs == views'
  <2>2. /\ Grown(bin, c) /\ xs \in [Slots -> View] /\ \A slot \in Slots : Kept(c, views[slot], xs[slot])
        /\ \A u \in Nat : \A tag : Holds(uv16, 0, u, tag) => InView(c, xs["Short2"], 0, u, tag)
    BY <1>1, <1>5, <1>6
  <2> HIDE DEF c, xs
  <2>3. AttrsOf(c, uv16, {}, at, s, attrs, xs, {}, 3)
    BY <1>4, <1>11, <2>1, <2>2, LateFlushed
  <2> QED
    BY <2>3 DEF c, xs
<1>13. AttrsOf(bin', uv16, {}, at, s, attrs, views', Items(s, "colour"), 4)
  <2>1. "uv" \in DOMAIN Wanted /\ "colour" \in DOMAIN Wanted
        /\ PassTurn["uv"] = 3 /\ PassTurn["colour"] = 4
    BY Names DEF PassTurn
  <2> HIDE DEF s
  <2>2. AttrsOf(bin', uv16, {}, at, s, attrs, views', {}, PassTurn["uv"])
    BY <1>12, <2>1
  <2>3. AttrsOf(bin', uv16, {}, at, s, attrs, views', Items(s, "colour"), PassTurn["colour"])
    BY <1>11, <2>1, <2>2, TurnKept
  <2> QED
    BY <2>1, <2>3
<1>14. AttrsRight'
  <2>1. InOrder(Items(s, "colour"), Items(s, "colour"))
    BY DEF InOrder
  <2>2. Late("colour") = {} /\ PassTurn["colour"] = 4
    BY DEF Late, PassTurn
  <2> QED
    BY <1>1, <1>9, <1>13, <2>1, <2>2 DEF AttrsRight
<1>15. UvRight'
  BY <1>1 DEF UvRight
<1> QED
  BY <1>7, <1>8, <1>10, <1>14, <1>15 DEF ReadRight

(* A finished stream joins the header.                                     *)
LEMMA EndStreamRead == ASSUME Inv, ReadRight, EndStream PROVE ReadRight'
<1> DEFINE h == [indices |-> indices, vertices |-> attrs, views |-> views]
<1>1. /\ pass = "colour" /\ pass \in DOMAIN Wanted /\ queue = {} /\ pass' = "none"
      /\ header' = Append(header, h) /\ at' = at + 1 /\ views' = NoViews /\ indices' = <<>>
      /\ attrs' = <<>> /\ uv16' = <<>> /\ UNCHANGED <<source, queue, bin, total>>
  BY Names DEF EndStream
<1> DEFINE s == Stream
<1>2. at \in 1 .. Len(source) /\ IsStream(s) /\ Len(source) \in Nat
  <2>1. at <= Len(source) /\ IsStream(s) /\ Len(source) \in Nat /\ at \in Nat \ {0}
    BY <1>1, Names, StreamRight, LenProperties DEF Inv, SourceRight, IsStreams
  <2> QED
    BY <2>1
<1>3. FinishedRight(bin, at, s, h)
  <2>1. AttrsOf(bin, uv16, {}, at, s, attrs, views, {}, 4)
    BY <1>1 DEF ReadRight, AttrsRight, Late, PassTurn
  <2>2. /\ IndicesOf(bin, at, s, indices, views["IndexShort"]) /\ Len(indices) = Len(s.indices)
        /\ views \in [Slots -> View]
    BY <1>1 DEF ReadRight, IndicesRight, Inv, BufferRight, ViewsRight
  <2> HIDE DEF s
  <2>3. /\ attrs \in Seq(Seq(VtAttr)) /\ Len(attrs) = Len(s.vertices)
        /\ \A v \in DOMAIN s.vertices :
             VertexRight(bin, <<>>, {}, at, s, attrs[v], views, v, Recorded(s, v))
    BY <1>2, <2>1, AttrsFinished
  <2>4. h.indices = indices /\ h.vertices = attrs /\ h.views = views
    OBVIOUS
  <2> HIDE DEF h
  <2> QED
    BY <2>2, <2>3, <2>4 DEF FinishedRight
<1> HIDE DEF h
<1>4. /\ Len(header) \in Nat /\ at = Len(header) + 1 /\ Len(header') = Len(header) + 1
      /\ header'[Len(header) + 1] = h
      /\ \A n \in 1 .. Len(header) : header'[n] = header[n]
  <2>1. PICK S : header \in Seq(S)
    BY DEF Inv, ListsRight
  <2>2. header \in Seq(S \cup {h}) /\ h \in S \cup {h}
    BY <2>1, SeqMonotonic
  <2>3. Len(header) \in Nat /\ at = Len(header) + 1
    BY <2>1, LenProperties DEF ReadRight, HeadersRight
  <2> QED
    BY <1>1, <2>2, <2>3, AppendProperties
<1>5. HeadersRight'
  <2>1. ASSUME NEW n \in 1 .. Len(header') PROVE FinishedRight(bin, n, source[n], header'[n])
    <3>1. n \in 1 .. Len(header) \/ n = Len(header) + 1
      BY <1>4
    <3>2. CASE n \in 1 .. Len(header)
      BY <1>4, <3>2 DEF ReadRight, HeadersRight
    <3>3. CASE n = Len(header) + 1
      BY <1>3, <1>4, <3>3 DEF Stream
    <3> QED
      BY <3>1, <3>2, <3>3
  <2>2. at' = Len(header') + 1 /\ at' <= Len(source) + 1
    BY <1>1, <1>2, <1>4
  <2> QED
    BY <1>1, <2>1, <2>2 DEF HeadersRight
<1>6. FileRight'
  <2>1. total \in Nat
    BY DEF Inv, BufferRight, ViewsRight
  <2>2. \A slot \in Slots : views'[slot].offset + views'[slot].size <= total
    BY <1>1, <2>1 DEF NoViews
  <2> QED
    BY <1>1, <2>2 DEF ReadRight, FileRight
<1>7. IndicesRight' /\ AttrsRight' /\ UvRight'
  BY <1>1, Names DEF IndicesRight, AttrsRight, UvRight
<1> QED
  BY <1>5, <1>6, <1>7 DEF ReadRight

(* Nothing the invariant is about changes.                                 *)
LEMMA ElsewhereRead ==
  ASSUME ReadRight, UNCHANGED <<source, streamVars, bin, total, header>> PROVE ReadRight'
<1>1. UNCHANGED <<source, at, pass, queue, bin, total, views, indices, attrs, uv16, header>>
  BY DEF streamVars
<1>2. Stream' = Stream
  BY <1>1 DEF Stream
<1> QED
  BY <1>1, <1>2 DEF ReadRight, FileRight, HeadersRight, IndicesRight, AttrsRight, UvRight

LEMMA ExtractRead == ASSUME Inv, ReadRight, Extract PROVE ReadRight'
<1>1. CASE Refuse \/ WriteHeader
  BY <1>1, ElsewhereRead DEF Refuse, WriteHeader
<1>2. CASE BeginStream
  BY <1>2, BeginStreamRead
<1>3. CASE WriteIndices
  BY <1>3, WriteIndicesRead
<1>4. CASE TakeVertices
  BY <1>4, TakeVerticesRead
<1>5. CASE WriteAttribute
  BY <1>5, WriteAttributeRead
<1>6. CASE KeepPackedUV
  BY <1>6, KeepPackedUVRead
<1>7. CASE NextPass
  BY <1>7, NextPassRead
<1>8. CASE FlushPackedUVs
  BY <1>8, FlushPackedUVsRead
<1>9. CASE EndStream
  BY <1>9, EndStreamRead
<1> QED
  BY <1>1, <1>2, <1>3, <1>4, <1>5, <1>6, <1>7, <1>8, <1>9 DEF Extract

(* Of nothing written nothing is wrong.                                    *)
LEMMA OpenBinRead == ASSUME Inv, OpenBin PROVE ReadRight'
<1>1. Inv'
  BY OpenBinRight
<1>2. Len(source') \in Nat
  BY <1>1, LenProperties DEF Inv, SourceRight, IsStreams
<1>3. /\ pass' = "none" /\ at' = 1 /\ bin' = <<>> /\ total' = 0 /\ views' = NoViews
      /\ indices' = <<>> /\ uv16' = <<>> /\ header' = <<>>
  BY DEF OpenBin, Start
<1>4. FileRight'
  BY <1>3, EmptySeq DEF FileRight, NoViews
<1>5. HeadersRight'
  BY <1>2, <1>3, EmptySeq DEF HeadersRight
<1>6. IndicesRight' /\ AttrsRight' /\ UvRight'
  BY <1>3, Names DEF IndicesRight, AttrsRight, UvRight
<1> QED
  BY <1>4, <1>5, <1>6 DEF ReadRight

LEMMA InitRead == ExtractInit => ReadRight
<1> SUFFICES ASSUME ExtractInit PROVE ReadRight
  OBVIOUS
<1>1. Len(source) \in Nat
  BY EmptySeq DEF ExtractInit
<1>2. bin \in Seq({}) /\ Len(bin) = 0 /\ Len(header) = 0
  BY EmptySeq DEF ExtractInit, Fresh
<1>3. FileRight
  BY <1>2 DEF ExtractInit, Fresh, FileRight, NoViews
<1>4. HeadersRight
  BY <1>1, <1>2 DEF ExtractInit, Fresh, HeadersRight
<1>5. IndicesRight /\ AttrsRight /\ UvRight
  BY Names DEF ExtractInit, Fresh, IndicesRight, AttrsRight, UvRight
<1> QED
  BY <1>3, <1>4, <1>5 DEF ReadRight

LEMMA StepRead == ASSUME Inv, ReadRight, [Next]_sessionVars PROVE ReadRight'
<1>1. CASE UNCHANGED mapVars
  BY <1>1, ElsewhereRead DEF mapVars, fileVars
<1>2. CASE OpenBin
  BY <1>2, OpenBinRead
<1>3. CASE WriteBin
  BY <1>3, ExtractRead DEF WriteBin
<1>4. UNCHANGED mapVars \/ OpenBin \/ WriteBin
  BY DEF Next, AppProcessFile, Done, sessionVars, RefuseMap, GiveUp, SendTexture, WriteFile,
         RefuseTexture, SendCached, SendEntry, SendModel, CloseBin, NextPart, EndMap
<1> QED
  BY <1>1, <1>2, <1>3, <1>4

-----------------------------------------------------------------------------
(* The types of what the two invariants leave open.                        *)
Described ==
  [indices : Seq(VtIndex), vertices : Seq(Seq(VtAttr)), views : [Slots -> View]]

TypeRight ==
  /\ header \in Seq(Described)
  /\ attrs \in Seq(Seq(VtAttr))
  /\ queue \subseteq Nat \X Nat
  /\ status \in {"closed", "open", "written", "failed"}

LEMMA ItemsArePairs ==
  ASSUME SourceRight, pass # "none" PROVE \A p : Items(Stream, p) \subseteq Nat \X Nat
<1>1. IsStream(Stream)
  BY StreamRight DEF SourceRight
<1> QED
  BY <1>1, PositionsRight DEF Items

LEMMA ExtractTyped ==
  ASSUME Inv, ReadRight, ReadRight', TypeRight, Extract PROVE TypeRight'
<1>1. SourceRight /\ (pass = "none" /\ at <= Len(source) => IsStream(Stream))
  BY StreamRight DEF Inv
<1>2. queue' \subseteq Nat \X Nat
  <2>1. CASE BeginStream
    <3>1. queue' = (DOMAIN Stream.indices) \X {0} /\ at <= Len(source)
      BY <2>1 DEF BeginStream, Enter
    <3>2. DOMAIN Stream.indices \subseteq Nat
      BY <1>1, <3>1, StreamRight
    <3> QED
      BY <3>1, <3>2
  <2>2. CASE TakeVertices \/ NextPass \/ FlushPackedUVs
    <3>1. pass # "none" /\ \E p : queue' = Items(Stream, p)
      BY <2>2 DEF TakeVertices, NextPass, FlushPackedUVs, Enter
    <3> QED
      BY <1>1, <3>1, ItemsArePairs
  <2>3. CASE ~(BeginStream \/ TakeVertices \/ NextPass \/ FlushPackedUVs)
    <3>1. queue' \subseteq queue
      BY <2>3 DEF Extract, Refuse, WriteIndices, WriteAttribute, KeepPackedUV, EndStream, WriteHeader,
                  streamVars
    <3> QED
      BY <3>1 DEF TypeRight
  <2> QED
    BY <2>1, <2>2, <2>3
<1>3. attrs' \in Seq(Seq(VtAttr))
  <2>1. attrs' = attrs \/ attrs' = <<>> \/ pass' \in DOMAIN Wanted
    BY Names DEF Extract, Refuse, BeginStream, WriteIndices, TakeVertices, WriteAttribute,
       KeepPackedUV, NextPass, FlushPackedUVs, EndStream, WriteHeader, streamVars, Enter
  <2>2. CASE pass' \in DOMAIN Wanted
    BY <2>2 DEF ReadRight, AttrsRight, AttrsOf
  <2> QED
    BY <2>1, <2>2, EmptySeq DEF TypeRight
<1>4. header' \in Seq(Described)
  <2>1. CASE EndStream
    <3> DEFINE h == [indices |-> indices, vertices |-> attrs, views |-> views]
    <3>1. header' = Append(header, h) /\ pass = "colour"
      BY <2>1 DEF EndStream
    <3>2. indices \in Seq(VtIndex) /\ attrs \in Seq(Seq(VtAttr)) /\ views \in [Slots -> View]
      BY <3>1 DEF ReadRight, IndicesRight, IndicesOf, TypeRight, Inv, BufferRight, ViewsRight
    <3>3. h \in Described
      BY <3>2 DEF Described
    <3> HIDE DEF h
    <3> QED
      BY <3>1, <3>3, AppendProperties DEF TypeRight
  <2>2. CASE ~EndStream
    <3>1. header' = header
      BY <2>2 DEF Extract, Refuse, BeginStream, WriteIndices, TakeVertices, WriteAttribute,
         KeepPackedUV, NextPass, FlushPackedUVs, WriteHeader, fileVars
    <3> QED
      BY <3>1 DEF TypeRight
  <2> QED
    BY <2>1, <2>2
<1>5. status' \in {"closed", "open", "written", "failed"}
  BY DEF Extract, Refuse, BeginStream, WriteIndices, TakeVertices, WriteAttribute,
     KeepPackedUV, NextPass, FlushPackedUVs, EndStream, WriteHeader, fileVars, TypeRight
<1> QED
  BY <1>2, <1>3, <1>4, <1>5 DEF TypeRight

LEMMA StepTyped ==
  ASSUME Inv, ReadRight, ReadRight', TypeRight, [Next]_sessionVars PROVE TypeRight'
<1>1. CASE UNCHANGED mapVars
  BY <1>1 DEF mapVars, streamVars, fileVars, TypeRight
<1>2. CASE OpenBin
  BY <1>2, EmptySeq DEF OpenBin, Start, TypeRight
<1>3. CASE WriteBin
  BY <1>3, ExtractTyped DEF WriteBin
<1>4. UNCHANGED mapVars \/ OpenBin \/ WriteBin
  BY DEF Next, AppProcessFile, Done, sessionVars, RefuseMap, GiveUp, SendTexture, WriteFile,
         RefuseTexture, SendCached, SendEntry, SendModel, CloseBin, NextPart, EndMap
<1> QED
  BY <1>1, <1>2, <1>3, <1>4

LEMMA InitTyped == ExtractInit => TypeRight
  BY EmptySeq DEF ExtractInit, Fresh, TypeRight

LEMMA TypesRight == Inv /\ ReadRight /\ TypeRight => TypeOK
<1> SUFFICES ASSUME Inv, ReadRight, TypeRight PROVE TypeOK
  OBVIOUS
<1>1. at \in 1 .. Len(source) + 1
  BY LenProperties DEF Inv, SourceRight, IsStreams, ReadRight, HeadersRight
<1>2. indices \in Seq(VtIndex)
  BY EmptySeq DEF ReadRight, IndicesRight, IndicesOf
<1> QED
  BY <1>1, <1>2 DEF TypeOK, Inv, SourceRight, Passes, BufferRight, ViewsRight, ReadRight, FileRight,
                    TypeRight, Described

-----------------------------------------------------------------------------
(***************************************************************************)
(* The third invariant is about the files of the shared buffers.  b is     *)
(* what was written of streams, and h the header that describes it.        *)
(***************************************************************************)
StreamsOf(p) == IF p = "oj.bin" THEN map.objects ELSE map.terrain

BufferMade(streams, b, h) ==
  /\ \E S : b \in Seq(S)
  /\ h \in Seq(Described) /\ Len(h) = Len(streams)
  /\ \A n \in 1 .. Len(h) : FinishedRight(b, n, streams[n], h[n])
  /\ Tiling(h, NoViews, Len(b))

(* Part p is behind, or being closed.                                      *)
Past(p) == \E k \in DOMAIN Parts : Parts[k] = p /\ (k < part \/ (k = part /\ item = 2))

FilesMade ==
  /\ \E S : files \in Seq(S)
  /\ \A f \in Range(files) : f.part \in Bins => Past(f.part)
  /\ \A f \in Range(files) :
       f.part \in Bins /\ f.name = "binh" =>
         /\ \E g \in Range(files) : g.part = f.part /\ g.name = "bin"
         /\ \A g \in Range(files) :
              g.part = f.part /\ g.name = "bin" => BufferMade(StreamsOf(f.part), g.data, f.data)

WorkRight ==
  /\ item \in Nat /\ part \in DOMAIN Parts
  /\ AtBin /\ item = 1 =>
       /\ source = StreamsOf(Part)
       /\ status \in {"open", "written", "failed"}
       /\ status = "written" => pass = "none" /\ at = Len(source) + 1

LEMMA PartsFacts ==
  /\ DOMAIN Parts = 1 .. Len(Parts) /\ Len(Parts) \in Nat
  /\ \A j, k \in DOMAIN Parts : Parts[j] = Parts[k] /\ Parts[j] \in Bins => j = k
<1>1. CASE map.version = "V2"
  <2>1. Parts = <<"tex/h">>
    BY <1>1 DEF Parts
  <2>2. Parts \in Seq({"tex/h"}) /\ Len(Parts) = 1
    BY <2>1
  <2>3. DOMAIN Parts = 1 .. Len(Parts) /\ \A j, k \in 1 .. 1 : j = k
    BY <2>2, LenProperties
  <2> QED
    BY <2>2, <2>3
<1>2. CASE map.version # "V2"
  <2>1. Parts = <<"tex/h", "tex/m", "tgld", "skybox", "oj", "oj.bin", "terrain", "terrain.bin",
           "landmark", "collision", "grass", "effect", "unk00", "unk01", "unk02",
           "rest", "bvsc">>
    BY <1>2 DEF Parts
  <2>2. DOMAIN Parts = 1 .. 17 /\ Len(Parts) = 17
    BY <2>1
  <2>3. \A j \in 1 .. 17 : (Parts[j] = "oj.bin" => j = 6) /\ (Parts[j] = "terrain.bin" => j = 8)
    BY <2>1
  <2> QED
    BY <2>2, <2>3 DEF Bins
<1> QED
  BY <1>1, <1>2

(* A buffer without an exception is described whole.                       *)
LEMMA BinDescribed ==
  ASSUME Inv, ReadRight, TypeRight, pass = "none", at = Len(source) + 1
  PROVE  BufferMade(source, bin, header)
<1>1. /\ (\E S : bin \in Seq(S)) /\ total = Len(bin)
      /\ \A n \in 1 .. Len(header) : FinishedRight(bin, n, source[n], header[n])
  BY DEF ReadRight, FileRight, HeadersRight
<1>2. Len(header) \in Nat /\ Len(source) \in Nat /\ Len(header) = Len(source)
  <2>1. Len(header) \in Nat /\ Len(source) \in Nat
    BY Lengths, LenProperties DEF Inv, SourceRight, IsStreams
  <2> QED
    BY <2>1 DEF ReadRight, HeadersRight
<1>3. /\ views \in [Slots -> View] /\ total \in Nat /\ Tiling(header, views, total)
      /\ \A slot \in Slots : views[slot].size = 0
  BY DEF Inv, BufferRight, ViewsRight, Ahead
<1>4. Tiling(header, NoViews, total)
  BY <1>2, <1>3, NoViewsRight, EmptyMoved
<1> QED
  BY <1>1, <1>2, <1>4 DEF BufferMade, TypeRight

LEMMA InRange ==
  ASSUME NEW S, NEW s \in Seq(S), NEW T, NEW t \in Seq(T)
  PROVE  /\ s \o t \in Seq(S \cup T)
         /\ \A x : x \in Range(s \o t) <=> x \in Range(s) \/ x \in Range(t)
<1>1. /\ s \o t \in Seq(S \cup T)
      /\ Len(s) \in Nat /\ Len(t) \in Nat /\ Len(s \o t) = Len(s) + Len(t)
      /\ \A u \in 1 .. Len(t) : (s \o t)[Len(s) + u] = t[u]
      /\ \A u \in 1 .. Len(s) : (s \o t)[u] = s[u]
  BY Joined DEF Grown
<1>2. DOMAIN s = 1 .. Len(s) /\ DOMAIN t = 1 .. Len(t) /\ DOMAIN (s \o t) = 1 .. Len(s) + Len(t)
  BY <1>1, LenProperties
<1> DEFINE r == s \o t
<1> HIDE DEF r
<1>3. /\ DOMAIN r = 1 .. Len(s) + Len(t)
      /\ \A u \in DOMAIN t : r[Len(s) + u] = t[u]
      /\ \A u \in DOMAIN s : r[u] = s[u]
  BY <1>1, <1>2 DEF r
<1>4. ASSUME NEW x, x \in Range(r) PROVE x \in Range(s) \/ x \in Range(t)
  <2>1. PICK u \in 1 .. Len(s) + Len(t) : x = r[u]
    BY <1>3, <1>4 DEF Range
  <2>2. CASE u <= Len(s)
    <3>1. u \in DOMAIN s
      BY <1>1, <1>2, <2>2
    <3> QED
      BY <1>3, <2>1, <3>1 DEF Range
  <2>3. CASE ~(u <= Len(s))
    <3>1. PICK w \in DOMAIN t : u = Len(s) + w
      <4>1. u - Len(s) \in 1 .. Len(t) /\ u = Len(s) + (u - Len(s))
        BY <1>1, <2>3
      <4> QED
        BY <1>2, <4>1
    <3> QED
      BY <1>3, <2>1, <3>1 DEF Range
  <2> QED
    BY <2>2, <2>3
<1>5. \A x \in Range(s) : x \in Range(r)
  <2>1. \A u \in DOMAIN s : u \in DOMAIN r
    BY <1>1, <1>2, <1>3
  <2> QED
    BY <1>3, <2>1 DEF Range
<1>6. \A x \in Range(t) : x \in Range(r)
  <2>1. \A u \in DOMAIN t : Len(s) + u \in DOMAIN r
    BY <1>1, <1>2, <1>3
  <2> QED
    BY <1>3, <2>1 DEF Range
<1> QED
  BY <1>1, <1>4, <1>5, <1>6 DEF r

LEMMA One == ASSUME NEW x PROVE <<x>> \in Seq({x}) /\ \A y : y \in Range(<<x>>) <=> y = x
<1>1. <<x>> \in Seq({x}) /\ DOMAIN <<x>> = {1} /\ <<x>>[1] = x
  OBVIOUS
<1> QED
  BY <1>1 DEF Range

(* Files of other parts change nothing about those of the shared buffers.  *)
LEMMA NoBinAdded ==
  ASSUME FilesMade, map' = map,
         \A p \in Bins : Past(p) => Past(p)',
         \E S : files' \in Seq(S),
         \A f \in Range(files') : f \in Range(files) \/ f.part \notin Bins,
         \A f \in Range(files) : f \in Range(files')
  PROVE  FilesMade'
<1>1. \A p : StreamsOf(p)' = StreamsOf(p)
  BY DEF StreamsOf
<1> QED
  BY <1>1 DEF FilesMade

LEMMA PastKept ==
  ASSUME WorkRight, map' = map, NEW p \in Bins, Past(p),
         \/ part' = part /\ (Part = p => item' = item \/ item # 2)
         \/ part' = part + 1
  PROVE  Past(p)'
<1>1. Parts' = Parts
  BY DEF Parts
<1>2. PICK k \in DOMAIN Parts : Parts[k] = p /\ (k < part \/ (k = part /\ item = 2))
  BY DEF Past
<1>3. k \in Nat /\ part \in Nat
  BY <1>2, PartsFacts DEF WorkRight
<1> QED
  BY <1>1, <1>2, <1>3 DEF Past, Part

LEMMA WriteFileMade ==
  ASSUME FilesMade, WorkRight, Part \notin Bins, NEW name, NEW data, WriteFile(name, data)
  PROVE  FilesMade' /\ WorkRight'
<1> DEFINE f == [part |-> Part, name |-> name, data |-> data]
<1>1. /\ files' = Append(files, f) /\ item' = item + 1
      /\ UNCHANGED <<map, part, outcome, mapVars>>
  BY DEF WriteFile
<1>2. f.part = Part
  OBVIOUS
<1> HIDE DEF f
<1>3. PICK S : files \in Seq(S)
  BY DEF FilesMade
<1>4. files' = files \o <<f>>
  BY <1>1, <1>3, AppendIsConcat
<1>5. /\ files' \in Seq(S \cup {f})
      /\ \A x : x \in Range(files') <=> x \in Range(files) \/ x = f
  BY <1>3, <1>4, One, InRange
<1>6. \A p \in Bins : Past(p) => Past(p)'
  <2> SUFFICES ASSUME NEW p \in Bins, Past(p) PROVE Past(p)'
    OBVIOUS
  <2> QED
    BY <1>1, PastKept
<1>7. FilesMade'
  BY <1>1, <1>2, <1>5, <1>6, NoBinAdded
<1>8. WorkRight'
  <2>1. Parts' = Parts /\ Part' = Part
    BY <1>1 DEF Parts, Part
  <2> QED
    BY <1>1, <2>1 DEF WorkRight, AtBin
<1> QED
  BY <1>7, <1>8

LEMMA OpenBinMade ==
  ASSUME FilesMade, WorkRight, OpenBin PROVE FilesMade' /\ WorkRight'
<1>1. /\ AtBin /\ item = 0 /\ item' = 1 /\ UNCHANGED <<map, part, files, outcome>>
      /\ source' = StreamsOf(Part) /\ status' = "open"
  BY DEF OpenBin, Start, StreamsOf
<1>2. \A p \in Bins : Past(p) => Past(p)'
  <2> SUFFICES ASSUME NEW p \in Bins, Past(p) PROVE Past(p)'
    OBVIOUS
  <2> QED
    BY <1>1, PastKept
<1>3. FilesMade'
  BY <1>1, <1>2, NoBinAdded DEF FilesMade
<1>4. Parts' = Parts /\ Part' = Part /\ StreamsOf(Part)' = StreamsOf(Part)
  BY <1>1 DEF Parts, Part, StreamsOf
<1>5. WorkRight'
  BY <1>1, <1>4 DEF WorkRight
<1> QED
  BY <1>3, <1>5

LEMMA WriteBinMade ==
  ASSUME Inv, ReadRight, FilesMade, WorkRight, WriteBin PROVE FilesMade' /\ WorkRight'
<1>1. UNCHANGED <<map, part, item, files, outcome>> /\ Extract /\ AtBin /\ item = 1
  BY DEF WriteBin, extractVars
<1>2. FilesMade'
  <2>1. \A p : StreamsOf(p)' = StreamsOf(p) /\ Past(p)' = Past(p)
    BY <1>1 DEF StreamsOf, Past, Parts
  <2> QED
    BY <1>1, <2>1 DEF FilesMade
<1>3. Parts' = Parts /\ Part' = Part /\ StreamsOf(Part)' = StreamsOf(Part)
  BY <1>1 DEF Parts, Part, StreamsOf
<1>4. source' = source
  BY <1>1 DEF Extract, Refuse, BeginStream, WriteIndices, TakeVertices, WriteAttribute,
     KeepPackedUV, NextPass, FlushPackedUVs, EndStream, WriteHeader
<1>5. /\ status' \in {"open", "written", "failed"}
      /\ status' = "written" => pass' = "none" /\ at' = Len(source) + 1
  <2>1. CASE WriteHeader
    <3>1. at = Len(source) + 1
      <4>1. Len(source) \in Nat /\ Len(header) \in Nat
        BY Lengths, LenProperties DEF Inv, SourceRight, IsStreams
      <4> QED
        BY <2>1, <4>1 DEF WriteHeader, ReadRight, HeadersRight
    <3> QED
      BY <2>1, <3>1 DEF WriteHeader, streamVars
  <2>2. CASE ~WriteHeader
    <3>1. status' \in {"open", "failed"}
      BY <1>1, <2>2 DEF Extract, Refuse, BeginStream, WriteIndices, TakeVertices, WriteAttribute,
         KeepPackedUV, NextPass, FlushPackedUVs, EndStream, fileVars
    <3> QED
      BY <3>1
  <2> QED
    BY <2>1, <2>2
<1>6. WorkRight'
  BY <1>1, <1>3, <1>4, <1>5 DEF WorkRight
<1> QED
  BY <1>2, <1>6

LEMMA CloseBinMade ==
  ASSUME Inv, ReadRight, TypeRight, FilesMade, WorkRight, CloseBin PROVE FilesMade' /\ WorkRight'
<1> DEFINE b == [part |-> Part, name |-> "bin", data |-> bin]
           h == [part |-> Part, name |-> "binh", data |-> header]
           more == IF status = "failed" THEN <<>> ELSE <<h>>
<1>1. /\ AtBin /\ item = 1 /\ status # "open" /\ item' = 2
      /\ files' = files \o <<b>> \o more /\ UNCHANGED <<map, part, outcome, mapVars>>
  BY DEF CloseBin
<1>2. b.part = Part /\ b.name = "bin" /\ b.data = bin /\ h.part = Part /\ h.name = "binh" /\ h.data = header
  OBVIOUS
<1> HIDE DEF b, h
<1>3. PICK S : files \in Seq(S)
  BY DEF FilesMade
<1>4. /\ more \in Seq({h})
      /\ \A x : x \in Range(more) <=> status # "failed" /\ x = h
  <2>1. CASE status = "failed"
    BY <2>1, EmptySeq DEF Range
  <2>2. CASE status # "failed"
    BY <2>2, One
  <2> QED
    BY <2>1, <2>2
<1> HIDE DEF more
<1>5. /\ \E T : files' \in Seq(T)
      /\ \A x : x \in Range(files') <=>
                  x \in Range(files) \/ x = b \/ (status # "failed" /\ x = h)
  <2>1. PICK one : one = <<b>>
    OBVIOUS
  <2>2. one \in Seq({b}) /\ \A x : x \in Range(one) <=> x = b
    BY <2>1, One
  <2>3. PICK two : two = files \o one
    OBVIOUS
  <2>4. two \in Seq(S \cup {b}) /\ \A x : x \in Range(two) <=> x \in Range(files) \/ x = b
    BY <1>3, <2>2, <2>3, InRange
  <2>5. files' = two \o more
    BY <1>1, <2>1, <2>3
  <2>6. /\ files' \in Seq((S \cup {b}) \cup {h})
        /\ \A x : x \in Range(files') <=> x \in Range(two) \/ x \in Range(more)
    BY <1>4, <2>4, <2>5, InRange, ZenonT(40)
  <2> QED
    BY <1>4, <2>4, <2>6
<1>6. Parts' = Parts /\ Part' = Part /\ Part \in Bins /\ \A p : StreamsOf(p)' = StreamsOf(p)
  BY <1>1 DEF Parts, Part, StreamsOf, AtBin
<1>7. \A p : Past(p) \/ p = Part => Past(p)'
  <2> SUFFICES ASSUME NEW p, Past(p) \/ p = Part PROVE Past(p)'
    OBVIOUS
  <2>1. CASE Past(p)
    BY <1>1, <1>6, <2>1 DEF Past
  <2>2. CASE p = Part
    BY <1>1, <1>6, <2>2 DEF Past, WorkRight, Part
  <2> QED
    BY <2>1, <2>2
<1>8. \A f \in Range(files) : f.part # Part
  <2>1. SUFFICES ASSUME Past(Part) PROVE FALSE
    BY <1>6 DEF FilesMade
  <2>2. PICK k \in DOMAIN Parts : Parts[k] = Part /\ (k < part \/ (k = part /\ item = 2))
    BY <2>1 DEF Past
  <2>3. k = part /\ part \in Nat
    BY <1>6, <2>2, PartsFacts DEF WorkRight, Part
  <2> QED
    BY <1>1, <2>2, <2>3
<1>9. status # "failed" => BufferMade(StreamsOf(Part), bin, header)
  <2>1. status # "failed" =>
          source = StreamsOf(Part) /\ pass = "none" /\ at = Len(source) + 1
    BY <1>1 DEF WorkRight
  <2> QED
    BY <2>1, BinDescribed
<1>10. FilesMade'
  <2>1. \A f \in Range(files') : f.part \in Bins => Past(f.part)'
    BY <1>2, <1>5, <1>7 DEF FilesMade
  <2>2. ASSUME NEW f \in Range(files'), f.part \in Bins, f.name = "binh"
        PROVE  /\ \E g \in Range(files') : g.part = f.part /\ g.name = "bin"
               /\ \A g \in Range(files') :
                    g.part = f.part /\ g.name = "bin" =>
                      BufferMade(StreamsOf(f.part), g.data, f.data)
    <3>1. CASE f \in Range(files)
      BY <1>2, <1>5, <1>8, <2>2, <3>1 DEF FilesMade
    <3>2. CASE f = h /\ status # "failed"
      <4>1. \A g \in Range(files') : g.part = Part /\ g.name = "bin" => g = b
        BY <1>2, <1>5, <1>8
      <4> QED
        BY <1>2, <1>5, <1>9, <3>2, <4>1
    <3> QED
      BY <1>2, <1>5, <2>2, <3>1, <3>2
  <2> QED
    BY <1>5, <1>6, <2>1, <2>2 DEF FilesMade
<1>11. WorkRight'
  BY <1>1, <1>6 DEF WorkRight
<1> QED
  BY <1>10, <1>11

LEMMA NextPartMade ==
  ASSUME FilesMade, WorkRight, NextPart PROVE FilesMade' /\ WorkRight'
<1>1. /\ part < Len(Parts) /\ part' = part + 1 /\ item' = 0
      /\ UNCHANGED <<map, files, outcome, mapVars>>
  BY DEF NextPart
<1>2. Parts' = Parts /\ \A p : StreamsOf(p)' = StreamsOf(p)
  BY <1>1 DEF Parts, StreamsOf
<1>3. \A p \in Bins : Past(p) => Past(p)'
  <2> SUFFICES ASSUME NEW p \in Bins, Past(p) PROVE Past(p)'
    OBVIOUS
  <2> QED
    BY <1>1, PastKept
<1>4. FilesMade'
  BY <1>1, <1>3, NoBinAdded DEF FilesMade
<1>5. part + 1 \in DOMAIN Parts
  BY <1>1, PartsFacts DEF WorkRight
<1> QED
  BY <1>1, <1>2, <1>4, <1>5 DEF WorkRight

LEMMA StepMade ==
  ASSUME Inv, ReadRight, TypeRight, FilesMade, WorkRight, [Next]_sessionVars
  PROVE  FilesMade' /\ WorkRight'
<1>1. ASSUME HasItem PROVE Part \notin Bins
  <2>1. Part \in Bins => Entries(Part) = <<>>
    BY DEF Entries, Bins
  <2> QED
    BY <1>1, <2>1, EmptySeq DEF HasItem, WorkRight
<1>2. CASE SendTexture \/ SendCached \/ SendEntry \/ SendModel
  <2>1. Part \notin Bins
    BY <1>1, <1>2 DEF SendTexture, SendCached, SendEntry, SendModel
  <2>2. \E name, data : WriteFile(name, data)
    BY <1>2 DEF SendTexture, SendCached, SendEntry, SendModel
  <2> QED
    BY <2>1, <2>2, WriteFileMade
<1>3. CASE UNCHANGED <<map, part, item, files, mapVars>> /\ (outcome' = "working" => outcome = "working")
  <2>1. /\ Parts' = Parts /\ Part' = Part /\ \A p : StreamsOf(p)' = StreamsOf(p) /\ Past(p)' = Past(p)
    BY <1>3 DEF Parts, Part, StreamsOf, Past
  <2>2. FilesMade'
    BY <1>3, <2>1 DEF FilesMade
  <2>3. AtBin' => AtBin
    BY <1>3, <2>1 DEF AtBin, Working
  <2> QED
    BY <1>3, <2>1, <2>2, <2>3 DEF WorkRight, mapVars, streamVars, fileVars
<1>4. CASE OpenBin
  BY <1>4, OpenBinMade
<1>5. CASE WriteBin
  BY <1>5, WriteBinMade
<1>6. CASE CloseBin
  BY <1>6, CloseBinMade
<1>7. CASE NextPart
  BY <1>7, NextPartMade
<1> QED
  BY <1>2, <1>3, <1>4, <1>5, <1>6, <1>7 DEF Next, AppProcessFile, Done, sessionVars, extractVars,
     RefuseMap, GiveUp, RefuseTexture, EndMap, Working, HasItem

LEMMA InitMade == ExtractInit => FilesMade /\ WorkRight
<1> SUFFICES ASSUME ExtractInit PROVE FilesMade /\ WorkRight
  OBVIOUS
<1>1. files \in Seq({}) /\ Range(files) = {} /\ item = 0 /\ part = 1
  BY EmptySeq DEF ExtractInit, Range
<1>2. 1 \in DOMAIN Parts
  <2>1. CASE map.version = "V2"
    BY <2>1 DEF Parts
  <2>2. CASE map.version # "V2"
    BY <2>2 DEF Parts
  <2> QED
    BY <2>1, <2>2
<1> QED
  BY <1>1, <1>2 DEF FilesMade, WorkRight

-----------------------------------------------------------------------------
(* All of it together is inductive.                                        *)
SessionRight == Inv /\ ReadRight /\ TypeRight /\ FilesMade /\ WorkRight

LEMMA SessionInit == ExtractInit => SessionRight
  BY InitRight, InitRead, InitTyped, InitMade DEF SessionRight

LEMMA SessionStep == SessionRight /\ [Next]_sessionVars => SessionRight'
  BY StepRight, StepRead, StepTyped, StepMade DEF SessionRight

(* It holds of every extraction.                                           *)
THEOREM Invariance == Spec => []SessionRight
  BY SessionInit, SessionStep, PTL DEF Spec

(* As ViewsTile says it.                                                   *)
LEMMA TilesOfRight == Inv => ViewsTile
<1> SUFFICES ASSUME Inv PROVE ViewsTile
  OBVIOUS
<1>1. Len(header) \in Nat /\ total \in Nat /\ views \in [Slots -> View]
      /\ Tiling(header, views, total)
  BY Lengths DEF Inv, BufferRight, ViewsRight
<1>2. \A s \in 1 .. Len(header) : \A p \in Slots :
        <<s, p>> \in Places(header) /\ UnitsAt(header, views, <<s, p>>) = ViewUnits(s, p)
  <2> TAKE s \in 1 .. Len(header)
  <2> TAKE p \in Slots
  <2>1. s \in 1 .. Len(header) + 1 /\ s <= Len(header)
    BY <1>1
  <2>2. <<s, p>> \in Places(header)
    BY <2>1 DEF Places
  <2>3. <<s, p>>[1] = s /\ <<s, p>>[2] = p
    OBVIOUS
  <2>4. UnitsAt(header, views, <<s, p>>) = UnitsOf(header[s].views[p])
    BY <2>1, <2>3, Zenon DEF UnitsAt, ViewsAt
  <2> QED
    BY <2>2, <2>4 DEF UnitsOf, ViewUnits
<1>3. \A s, t \in 1 .. Len(header) : \A p, q \in Slots :
        <<s, p>> # <<t, q>> => ViewUnits(s, p) \cap ViewUnits(t, q) = {}
  <2>1. \A x, y \in Places(header) :
          x # y => UnitsAt(header, views, x) \cap UnitsAt(header, views, y) = {}
    BY <1>1 DEF Tiling
  <2> QED
    BY <1>2, <2>1, Zenon
<1>4. ASSUME pass = "none"
      PROVE  UNION {ViewUnits(s, p) : s \in 1 .. Len(header), p \in Slots} = 1 .. total
  <2>1. \A p \in Slots : UnitsOf(views[p]) = {}
    <3>1. \A p \in Slots : views[p].size = 0
      BY <1>4 DEF Inv, BufferRight, ViewsRight, Ahead
    <3>2. \A w \in View : w.size = 0 => UnitsOf(w) = {}
      BY DEF View, UnitsOf
    <3> QED
      BY <1>1, <3>1, <3>2
  <2>2. \A x \in Places(header) :
          \/ x[1] \in 1 .. Len(header) /\ x[2] \in Slots /\ x = <<x[1], x[2]>>
          \/ UnitsAt(header, views, x) = {}
    <3> TAKE x \in Places(header)
    <3>1. x[1] \in 1 .. Len(header) + 1 /\ x[2] \in Slots /\ x = <<x[1], x[2]>>
      BY DEF Places
    <3>2. CASE x[1] \in 1 .. Len(header)
      BY <3>1, <3>2
    <3>3. CASE ~(x[1] <= Len(header))
      BY <2>1, <3>1, <3>3 DEF UnitsAt, ViewsAt
    <3> QED
      BY <1>1, <3>1, <3>2, <3>3
  <2>3. \A u \in 1 .. total : \E s \in 1 .. Len(header) : \E p \in Slots : u \in ViewUnits(s, p)
    BY <1>1, <1>2, <2>2 DEF Tiling
  <2>4. \A s \in 1 .. Len(header) : \A p \in Slots : ViewUnits(s, p) \subseteq 1 .. total
    <3>1. \A x \in Places(header) : UnitsAt(header, views, x) \subseteq 1 .. total
      BY <1>1 DEF Tiling
    <3> QED
      BY <1>2, <3>1, Zenon
  <2>5. ASSUME NEW U, NEW I, NEW F(_, _),
               \A u \in U : \E s \in I : \E p \in Slots : u \in F(s, p),
               \A s \in I : \A p \in Slots : F(s, p) \subseteq U
        PROVE  UNION {F(s, p) : s \in I, p \in Slots} = U
    BY <2>5
  <2> QED
    BY <2>3, <2>4, <2>5
<1> QED
  BY <1>3, <1>4 DEF ViewsTile

(* A record that leads to its values as a reader of the header sees it.    *)
LEMMA FinishedReadsBack ==
  ASSUME Inv, ReadRight, NEW n \in 1 .. Len(header)
  PROVE  /\ IndicesReadBack(n)
         /\ Len(header[n].vertices) = Len(source[n].vertices)
         /\ \A v \in 1 .. Len(header[n].vertices) :
              /\ Len(header[n].vertices[v]) = Cardinality(Recorded(source[n], v))
              /\ \A d \in Recorded(source[n], v) :
                   \/ LaterPacked(source[n], <<v, d>>)
                   \/ AttributeReadsBack(n, <<v, d>>, RecordOf(n, <<v, d>>))
<1> DEFINE s == source[n]
           h == header[n]
<1>1. FinishedRight(bin, n, s, h) /\ IsStream(s)
  BY FinishedStreams DEF ReadRight, HeadersRight
<1>2. ASSUME NEW begin, NEW k, NEW tag PROVE Belongs(begin, k, tag) <=> Holds(bin, begin, k, tag)
  BY DEF Belongs, Holds
<1>3. IndicesReadBack(n)
  <2>1. ASSUME NEW i \in 1 .. Len(h.indices)
        PROVE  /\ h.indices[i].count = s.indices[i]
               /\ Holds(bin, h.views["IndexShort"].offset + h.indices[i].offset,
                        h.indices[i].count, <<n, "index", i, 0>>)
    BY <1>1 DEF FinishedRight, IndicesOf, IndexRight, InView
  <2>2. Len(h.indices) = Len(s.indices)
    BY <1>1 DEF FinishedRight
  <2> QED
    BY <1>2, <2>1, <2>2 DEF IndicesReadBack
<1>4. Len(h.vertices) = Len(s.vertices) /\ DOMAIN s.vertices = 1 .. Len(s.vertices)
  BY <1>1, VerticesRight DEF FinishedRight
<1>5. ASSUME NEW v \in 1 .. Len(h.vertices)
      PROVE  /\ Len(h.vertices[v]) = Cardinality(Recorded(s, v))
             /\ \A d \in Recorded(s, v) :
                  \/ LaterPacked(s, <<v, d>>)
                  \/ AttributeReadsBack(n, <<v, d>>, RecordOf(n, <<v, d>>))
  <2>1. VertexRight(bin, <<>>, {}, n, s, h.vertices[v], h.views, v, Recorded(s, v))
    BY <1>1, <1>4 DEF FinishedRight
  <2>2. ASSUME NEW d \in Recorded(s, v), ~LaterPacked(s, <<v, d>>)
        PROVE  AttributeReadsBack(n, <<v, d>>, RecordOf(n, <<v, d>>))
    <3> DEFINE i == <<v, d>>
               a == h.vertices[v][RecordNumber(s, i)]
    <3>1. RecordRight(bin, <<>>, {}, n, s, a, h.views, i)
      BY <2>1 DEF VertexRight
    <3>2. i[1] = v /\ i[2] = d
      OBVIOUS
    <3>3. RecordOf(n, i) = a
      BY <3>2 DEF RecordOf
    <3> HIDE DEF a, i
    <3>4. /\ a.desc = DescAt(s, i) /\ a.slot = SlotOf(DescAt(s, i))
          /\ Holds(bin, h.views[a.slot].offset + a.offset, UnitCount(s, i), VertexTag(n, i))
      BY <2>2, <3>1 DEF RecordRight, InView, i
    <3>5. UnitCount(s, i) = s.vertices[i[1]].n * Stride[a.slot]
      BY <3>4 DEF UnitCount
    <3>6. Belongs(h.views[a.slot].offset + a.offset, s.vertices[i[1]].n * Stride[a.slot],
                  <<n, "vertex", i[1], i[2]>>)
      BY <1>2, <3>4, <3>5 DEF VertexTag
    <3>7. AttributeReadsBack(n, i, a)
      BY <3>4, <3>6 DEF AttributeReadsBack
    <3> QED
      BY <3>3, <3>7 DEF i
  <2> QED
    BY <2>1, <2>2 DEF VertexRight
<1> QED
  BY <1>3, <1>4, <1>5

LEMMA ReadsBackOfRight == Inv /\ ReadRight => StreamsReadBack
  BY FinishedReadsBack DEF StreamsReadBack

(* The views of a buffer's finished streams tile what was written for them *)
(* (sm_extract.cpp:50-333): none overlaps another, and between two streams *)
(* nothing written so far lies outside them.                               *)
THEOREM ViewsAlwaysTile == Spec => []ViewsTile
  BY Invariance, TilesOfRight, PTL DEF SessionRight

(***************************************************************************)
(* Whatever the streams of a map, following view and offset leads from the *)
(* header to every stream's own indices and vertices (sm_extract.cpp:      *)
(* 50-333).                                                                *)
(***************************************************************************)
THEOREM StreamsAlwaysReadBack == Spec => []StreamsReadBack
  BY Invariance, ReadsBackOfRight, PTL DEF SessionRight
=============================================================================
