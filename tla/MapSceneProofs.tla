--------------------------- MODULE MapSceneProofs ---------------------------
(***************************************************************************)
(* Proofs about the documents of im_to_gltf and tm_to_gltf, for every map  *)
(* and every model file that can be trusted with what SceneAssumption      *)
(* says.  The inductive invariant has four parts, proved one after the     *)
(* other:                                                                  *)
(*   SceneRight     the nodes drawn so far are a tree of two layers;       *)
(*   SharedRight    the buffer the extractor wrote stays as it was proved  *)
(*                  to be in MapExtractProofs;                             *)
(*   LoadedRight    the model library has placed what it passed of the     *)
(*                  matrices, and levelled what it passed of the clusters; *)
(*   DocumentRight  accessors, views, streams, meshes and instances of the *)
(*                  document fit each other.                               *)
(*                                                                         *)
(* A node is added in one of two ways: as a root without children, for a   *)
(* level, or behind all others below the root of its level, for a model.   *)
(* The first lemmas are about these two ways.                              *)
(***************************************************************************)
EXTENDS MapScene, MapExtractProofs

IsNode(x, n) ==
  /\ {"mesh", "children"} \subseteq DOMAIN x
  /\ x.mesh \in Nat
  /\ x.children \in Seq(1 .. n)

AreNodes(ns) ==
  /\ \E S : ns \in Seq(S)
  /\ \A p \in 1 .. Len(ns) : IsNode(ns[p], Len(ns))

ParentsIn(ns, n) == {p \in 1 .. Len(ns) : n \in Range(ns[p].children)}

(* Every node is a root, or the child of one root.                         *)
TreeRight(ns, rs) ==
  /\ AreNodes(ns)
  /\ rs \in Seq(1 .. Len(ns))
  /\ \A n \in 1 .. Len(ns) : n \in Range(rs) <=> ParentsIn(ns, n) = {}
  /\ \A n \in 1 .. Len(ns) :
       ParentsIn(ns, n) = {} \/ \E p \in Range(rs) : ParentsIn(ns, n) = {p}

(* The range of a sequence, through its positions.                          *)
LEMMA RangeFacts ==
  ASSUME NEW S, NEW s \in Seq(S)
  PROVE  Range(s) = {s[i] : i \in 1 .. Len(s)} /\ Range(s) \subseteq S
<1>1. DOMAIN s = 1 .. Len(s) /\ s \in [1 .. Len(s) -> S]
  BY LenProperties
<1>2. Range(s) = {s[i] : i \in 1 .. Len(s)}
  BY <1>1 DEF Range
<1>3. \A i \in 1 .. Len(s) : s[i] \in S
  BY <1>1
<1> QED
  BY <1>2, <1>3

LEMMA Appended ==
  ASSUME NEW S, NEW s \in Seq(S), NEW x
  PROVE  /\ Append(s, x) \in Seq(S \cup {x}) /\ Len(Append(s, x)) = Len(s) + 1
         /\ Append(s, x)[Len(s) + 1] = x
         /\ \A i \in 1 .. Len(s) : Append(s, x)[i] = s[i]
<1>1. s \in Seq(S \cup {x})
  BY SeqMonotonic
<1>2. Len(s) \in Nat
  BY LenProperties
<1>3. /\ Append(s, x) \in Seq(S \cup {x}) /\ Len(Append(s, x)) = Len(s) + 1
      /\ \A i \in 1 .. Len(s) + 1 : Append(s, x)[i] = IF i <= Len(s) THEN s[i] ELSE x
  BY <1>1, AppendProperties
<1> QED
  BY <1>2, <1>3

LEMMA RangeAppended ==
  ASSUME NEW S, NEW s \in Seq(S), NEW x
  PROVE  \A v : v \in Range(Append(s, x)) <=> v \in Range(s) \/ v = x
<1>1. \A i : i \in DOMAIN Append(s, x) <=> i \in DOMAIN s \/ i = Len(s) + 1
  <2>1. \A n \in Nat : \A i : i \in 1 .. n + 1 <=> i \in 1 .. n \/ i = n + 1
    OBVIOUS
  <2>2. Len(s) \in Nat /\ DOMAIN s = 1 .. Len(s)
    BY LenProperties
  <2>3. DOMAIN Append(s, x) = 1 .. Len(s) + 1
    BY Appended, LenProperties
  <2> QED
    BY <2>1, <2>2, <2>3, Zenon
<1>2. Append(s, x)[Len(s) + 1] = x /\ \A i \in DOMAIN s : Append(s, x)[i] = s[i]
  BY Appended, LenProperties
<1> DEFINE t == Append(s, x)
          n == Len(s) + 1
<1>3. /\ \A i : i \in DOMAIN t <=> i \in DOMAIN s \/ i = n
      /\ t[n] = x /\ \A i \in DOMAIN s : t[i] = s[i]
  BY <1>1, <1>2
<1> HIDE DEF t, n
<1>4. \A v : v \in Range(t) <=> v \in Range(s) \/ v = x
  BY <1>3 DEF Range
<1> QED
  BY <1>4 DEF t

(* A node behind the others, without children.                             *)
LEMMA NodeAppended ==
  ASSUME NEW ns, AreNodes(ns), NEW x, IsNode(x, 0), x.children = <<>>
  PROVE  /\ AreNodes(Append(ns, x)) /\ Len(ns) \in Nat
         /\ Len(Append(ns, x)) = Len(ns) + 1
         /\ Append(ns, x)[Len(ns) + 1] = x
         /\ \A i \in 1 .. Len(ns) : Append(ns, x)[i] = ns[i]
         /\ \A n : ParentsIn(Append(ns, x), n) = ParentsIn(ns, n)
<1>1. PICK S : ns \in Seq(S)
  BY DEF AreNodes
<1> DEFINE new == Append(ns, x)
<1>2. /\ new \in Seq(S \cup {x}) /\ Len(new) = Len(ns) + 1 /\ Len(ns) \in Nat
      /\ new[Len(ns) + 1] = x /\ \A i \in 1 .. Len(ns) : new[i] = ns[i]
  BY <1>1, Appended, LenProperties
<1> HIDE DEF new
<1>3. \A i : i \in 1 .. Len(new) <=> i \in 1 .. Len(ns) \/ i = Len(ns) + 1
  BY <1>2
<1>4. Seq(1 .. Len(ns)) \subseteq Seq(1 .. Len(new))
  BY <1>3, SeqMonotonic
<1>5. IsNode(x, Len(new))
  BY EmptySeq DEF IsNode
<1>6. \A i \in 1 .. Len(ns) : IsNode(new[i], Len(new))
  BY <1>2, <1>4 DEF AreNodes, IsNode
<1>7. AreNodes(new)
  BY <1>2, <1>3, <1>5, <1>6 DEF AreNodes
<1>8. Range(x.children) = {}
  BY EmptySeq DEF Range
<1>9. \A n : ParentsIn(new, n) = ParentsIn(ns, n)
  BY <1>2, <1>3, <1>8 DEF ParentsIn
<1> QED
  BY <1>2, <1>7, <1>9 DEF new

(* A level gets its node.                                                  *)
LEMMA Rooted ==
  ASSUME NEW ns, NEW rs, TreeRight(ns, rs), NEW x, IsNode(x, 0), x.children = <<>>
  PROVE  /\ TreeRight(Append(ns, x), Append(rs, Len(ns) + 1))
         /\ Range(rs) \subseteq Range(Append(rs, Len(ns) + 1))
         /\ Len(ns) + 1 \in Range(Append(rs, Len(ns) + 1))
<1> DEFINE new == Append(ns, x)
           roots == Append(rs, Len(ns) + 1)
<1>1. /\ AreNodes(new) /\ Len(ns) \in Nat /\ Len(new) = Len(ns) + 1
      /\ \A n : ParentsIn(new, n) = ParentsIn(ns, n)
  BY NodeAppended DEF TreeRight
<1>2. rs \in Seq(1 .. Len(ns)) /\ Range(rs) \subseteq 1 .. Len(ns)
  BY RangeFacts DEF TreeRight
<1>3. /\ roots \in Seq((1 .. Len(ns)) \cup {Len(ns) + 1})
      /\ Range(roots) = Range(rs) \cup {Len(ns) + 1}
  <2>1. PICK m, S : m = Len(ns) + 1 /\ S = 1 .. Len(ns)
    OBVIOUS
  <2>2. rs \in Seq(S)
    BY <1>2, <2>1
  <2>3. Append(rs, m) \in Seq(S \cup {m})
    BY <2>2, Appended
  <2>4. Range(Append(rs, m)) = Range(rs) \cup {m}
    BY <2>2, RangeAppended
  <2> QED
    BY <2>1, <2>3, <2>4, Zenon DEF roots
<1> HIDE DEF new, roots
<1>4. (1 .. Len(ns)) \cup {Len(ns) + 1} = 1 .. Len(new)
  <2>1. \A n \in Nat : (1 .. n) \cup {n + 1} = 1 .. n + 1
    OBVIOUS
  <2> QED
    BY <1>1, <2>1, Zenon
<1>5. Len(ns) + 1 \notin 1 .. Len(ns)
  BY <1>1
<1>6. ParentsIn(ns, Len(ns) + 1) = {}
  <2>1. \A p \in 1 .. Len(ns) : Range(ns[p].children) \subseteq 1 .. Len(ns)
    BY RangeFacts DEF TreeRight, AreNodes, IsNode
  <2> QED
    BY <1>5, <2>1 DEF ParentsIn
<1>7. \A n \in 1 .. Len(new) : n \in Range(roots) <=> ParentsIn(new, n) = {}
  BY <1>1, <1>3, <1>4, <1>5, <1>6 DEF TreeRight
<1>8. \A n \in 1 .. Len(new) :
        ParentsIn(new, n) = {} \/ \E p \in Range(roots) : ParentsIn(new, n) = {p}
  BY <1>1, <1>3, <1>4, <1>6 DEF TreeRight
<1>9. TreeRight(new, roots)
  BY <1>1, <1>3, <1>4, <1>7, <1>8 DEF TreeRight
<1> QED
  BY <1>3, <1>9 DEF new, roots

(* Element i becomes y; nothing happens beyond the end.                    *)
LEMMA Changed ==
  ASSUME NEW S, NEW s \in Seq(S), NEW i, NEW y
  PROVE  /\ [s EXCEPT ![i] = y] \in Seq(S \cup {y})
         /\ Len([s EXCEPT ![i] = y]) = Len(s)
<1> DEFINE t == [s EXCEPT ![i] = y]
<1>1. Len(s) \in Nat /\ DOMAIN s = 1 .. Len(s) /\ s \in [1 .. Len(s) -> S]
  BY LenProperties
<1>2. t \in [1 .. Len(s) -> S \cup {y}]
  BY <1>1
<1> HIDE DEF t
<1>3. t \in Seq(S \cup {y})
  BY <1>1, <1>2, SeqDef
<1>4. Len(t) = Len(s)
  <2>1. DOMAIN t = 1 .. Len(s)
    BY <1>2
  <2>2. Len(t) \in Nat /\ DOMAIN t = 1 .. Len(t)
    BY <1>3, LenProperties
  <2>3. \A a, b \in Nat : 1 .. a = 1 .. b => a = b
    <3>1. SUFFICES ASSUME NEW a \in Nat, NEW b \in Nat, 1 .. a = 1 .. b
                   PROVE  a <= b /\ b <= a
      OBVIOUS
    <3>2. a <= b
      <4>1. a > 0 => a \in 1 .. b
        BY <3>1
      <4> QED
        BY <4>1
    <3>3. b <= a
      <4>1. b > 0 => b \in 1 .. a
        BY <3>1
      <4> QED
        BY <4>1
    <3> QED
      BY <3>2, <3>3
  <2> QED
    BY <1>1, <2>1, <2>2, <2>3
<1> QED
  BY <1>3, <1>4 DEF t

(* A node behind the others, below root P.                                 *)
HungBelow(ns, P, y) ==
  Append([ns EXCEPT ![P].children = Append(@, Len(ns) + 1)], y)

LEMMA Hung ==
  ASSUME NEW ns, NEW rs, TreeRight(ns, rs), NEW P \in Range(rs),
         NEW y, IsNode(y, 0), y.children = <<>>
  PROVE  /\ TreeRight(HungBelow(ns, P, y), rs)
         /\ Len(ns) \in Nat /\ Len(HungBelow(ns, P, y)) = Len(ns) + 1
         /\ HungBelow(ns, P, y)[Len(ns) + 1] = y
         /\ \A i \in 1 .. Len(ns) : HungBelow(ns, P, y)[i].mesh = ns[i].mesh
         /\ \A n \in 1 .. Len(ns) : ParentsIn(HungBelow(ns, P, y), n) = ParentsIn(ns, n)
         /\ ParentsIn(HungBelow(ns, P, y), Len(ns) + 1) = {P}
<1> DEFINE M == Len(ns) + 1
           c == Append(ns[P].children, M)
           z == [ns[P] EXCEPT !.children = c]
           mid == [ns EXCEPT ![P] = z]
           new == HungBelow(ns, P, y)
<1>1. PICK S : ns \in Seq(S)
  BY DEF TreeRight, AreNodes
<1>2. Len(ns) \in Nat
  BY <1>1, LenProperties
<1>3. Range(rs) \subseteq 1 .. Len(ns)
  BY RangeFacts DEF TreeRight
<1>4. P \in 1 .. Len(ns) /\ IsNode(ns[P], Len(ns))
  BY <1>3 DEF TreeRight, AreNodes
<1>5. /\ c \in Seq((1 .. Len(ns)) \cup {M})
      /\ Range(c) = Range(ns[P].children) \cup {M}
  <2>1. PICK m, A : m = M /\ A = 1 .. Len(ns)
    OBVIOUS
  <2>2. PICK s : s = ns[P].children
    OBVIOUS
  <2>3. s \in Seq(A)
    BY <1>4, <2>1, <2>2 DEF IsNode
  <2>4. Append(s, m) \in Seq(A \cup {m})
    BY <2>3, Appended
  <2>5. Range(Append(s, m)) = Range(s) \cup {m}
    BY <2>3, RangeAppended
  <2> QED
    BY <2>1, <2>2, <2>4, <2>5, Zenon
<1> HIDE DEF c
<1>6. /\ z.children = c /\ z.mesh = ns[P].mesh
      /\ {"mesh", "children"} \subseteq DOMAIN z
  BY <1>4 DEF IsNode
<1> HIDE DEF z
<1>7. /\ mid \in Seq(S \cup {z}) /\ Len(mid) = Len(ns)
      /\ \A j \in 1 .. Len(ns) : mid[j] = IF j = P THEN z ELSE ns[j]
  <2>1. mid \in Seq(S \cup {z}) /\ Len(mid) = Len(ns)
    BY <1>1, Changed
  <2>2. DOMAIN ns = 1 .. Len(ns)
    BY <1>1, LenProperties
  <2> QED
    BY <2>1, <2>2
<1>8. new = Append(mid, y)
  BY <1>1, <1>4 DEF HungBelow, z, c
<1> HIDE DEF mid, new
<1>9. /\ new \in Seq((S \cup {z}) \cup {y}) /\ Len(new) = M /\ new[M] = y
      /\ \A j \in 1 .. Len(ns) : new[j] = mid[j]
  BY <1>7, <1>8, Appended
<1>10. (1 .. Len(ns)) \cup {M} = 1 .. Len(new) /\ M \notin 1 .. Len(ns)
  <2>1. \A n \in Nat : (1 .. n) \cup {n + 1} = 1 .. n + 1 /\ n + 1 \notin 1 .. n
    OBVIOUS
  <2> QED
    BY <1>2, <1>9, <2>1, Zenon
<1> HIDE DEF M
<1>11. Seq(1 .. Len(ns)) \subseteq Seq(1 .. Len(new))
  BY <1>10, SeqMonotonic
<1>12. AreNodes(new)
  <2>1. IsNode(y, Len(new))
    BY EmptySeq DEF IsNode
  <2>2. IsNode(z, Len(new))
    BY <1>4, <1>5, <1>6, <1>10 DEF IsNode
  <2>3. \A j \in 1 .. Len(ns) : IsNode(ns[j], Len(new))
    BY <1>11 DEF TreeRight, AreNodes, IsNode
  <2>4. \A j \in 1 .. Len(new) : IsNode(new[j], Len(new))
    BY <1>7, <1>9, <1>10, <2>1, <2>2, <2>3
  <2> QED
    BY <1>9, <2>4 DEF AreNodes
<1>13. \A j \in 1 .. Len(ns) : new[j].mesh = ns[j].mesh
  BY <1>6, <1>7, <1>9
<1>14. Range(y.children) = {}
  BY EmptySeq DEF Range
<1>15. \A j \in 1 .. Len(ns) :
         /\ Range(ns[j].children) \subseteq 1 .. Len(ns)
         /\ Range(new[j].children) =
              IF j = P THEN Range(ns[j].children) \cup {M} ELSE Range(ns[j].children)
  <2>1. \A j \in 1 .. Len(ns) : Range(ns[j].children) \subseteq 1 .. Len(ns)
    BY RangeFacts DEF TreeRight, AreNodes, IsNode
  <2> QED
    BY <1>5, <1>6, <1>7, <1>9, <2>1
<1>16. \A n \in 1 .. Len(ns) : ParentsIn(new, n) = ParentsIn(ns, n)
  BY <1>9, <1>10, <1>14, <1>15 DEF ParentsIn
<1>17. ParentsIn(new, M) = {P}
  BY <1>4, <1>9, <1>10, <1>14, <1>15 DEF ParentsIn
<1>18. rs \in Seq(1 .. Len(new))
  BY <1>11 DEF TreeRight
<1>19. \A n \in 1 .. Len(new) : n \in Range(rs) <=> ParentsIn(new, n) = {}
  BY <1>3, <1>10, <1>16, <1>17 DEF TreeRight
<1>20. \A n \in 1 .. Len(new) :
         ParentsIn(new, n) = {} \/ \E p \in Range(rs) : ParentsIn(new, n) = {p}
  BY <1>10, <1>16, <1>17 DEF TreeRight
<1>21. TreeRight(new, rs)
  BY <1>12, <1>18, <1>19, <1>20 DEF TreeRight
<1> QED
  BY <1>2, <1>9, <1>13, <1>16, <1>17, <1>21 DEF new, M

-----------------------------------------------------------------------------
(***************************************************************************)
(* ns are nodes, ln the nodes of the levels, ms the models, the first n of *)
(* them drawn: each has its node, below the node of its level.             *)
(***************************************************************************)
LevelNodesRight(ln, rs) == ln \in [0 .. Levels - 1 -> Range(rs) \cup {0}]

Levelled(ms, n) == \A k \in 1 .. n : ms[k].lod \in 0 .. Levels - 1

Drawn(ns, ln, ms, n) ==
  /\ \A j \in 1 .. Len(ns) : ns[j].mesh \in 0 .. n
  /\ \A k \in 1 .. n : \E j \in 1 .. Len(ns) : ns[j].mesh = k
  /\ \A j \in 1 .. Len(ns) :
       ns[j].mesh # 0 => ParentsIn(ns, j) = {ln[ms[ns[j].mesh].lod]}

LEMMA DrawnWithRoot ==
  ASSUME NEW ns, NEW rs, TreeRight(ns, rs), NEW x, IsNode(x, 0),
         x.children = <<>>, x.mesh = 0,
         NEW ln, LevelNodesRight(ln, rs), NEW level, ln[level] = 0,
         NEW ms, NEW n \in Nat, Levelled(ms, n), Drawn(ns, ln, ms, n)
  PROVE  /\ LevelNodesRight([ln EXCEPT ![level] = Len(ns) + 1], Append(rs, Len(ns) + 1))
         /\ Drawn(Append(ns, x), [ln EXCEPT ![level] = Len(ns) + 1], ms, n)
<1> DEFINE new == Append(ns, x)
           roots == Append(rs, Len(ns) + 1)
           M == Len(ns) + 1
           lm == [ln EXCEPT ![level] = M]
<1>1. /\ Len(ns) \in Nat /\ Len(new) = M /\ new[M] = x
      /\ \A i \in 1 .. Len(ns) : new[i] = ns[i]
      /\ \A j : ParentsIn(new, j) = ParentsIn(ns, j)
  BY NodeAppended DEF TreeRight
<1>2. Range(rs) \subseteq Range(roots) /\ M \in Range(roots)
  BY Rooted
<1>3. (1 .. Len(ns)) \cup {M} = 1 .. Len(new) /\ M \notin 1 .. Len(ns)
  <2>1. \A m \in Nat : (1 .. m) \cup {m + 1} = 1 .. m + 1 /\ m + 1 \notin 1 .. m
    OBVIOUS
  <2> QED
    BY <1>1, <2>1, Zenon
<1> HIDE DEF new, roots, M
<1>4. LevelNodesRight(lm, roots)
  BY <1>2 DEF LevelNodesRight
<1>5. \A j \in 1 .. Len(ns) : 0 \notin ParentsIn(ns, j)
  BY DEF ParentsIn
<1>6. \A j \in 1 .. Len(ns) :
        ns[j].mesh # 0 => ParentsIn(ns, j) = {lm[ms[ns[j].mesh].lod]}
  <2> SUFFICES ASSUME NEW j \in 1 .. Len(ns), ns[j].mesh # 0
               PROVE  ParentsIn(ns, j) = {lm[ms[ns[j].mesh].lod]}
    OBVIOUS
  <2> DEFINE l == ms[ns[j].mesh].lod
  <2>1. ns[j].mesh \in 1 .. n
    BY DEF Drawn
  <2>2. l \in 0 .. Levels - 1
    BY <2>1 DEF Levelled
  <2>3. ParentsIn(ns, j) = {ln[l]}
    BY DEF Drawn
  <2>4. l # level
    BY <1>5, <2>3
  <2> HIDE DEF l
  <2>5. lm[l] = ln[l]
    BY <2>2, <2>4 DEF LevelNodesRight
  <2> QED
    BY <2>3, <2>5 DEF l
<1> HIDE DEF lm
<1>7. Drawn(new, lm, ms, n)
  <2>1. \A j \in 1 .. Len(new) : new[j].mesh \in 0 .. n
    <3>1. \A j \in 1 .. Len(ns) : ns[j].mesh \in 0 .. n
      BY DEF Drawn
    <3>2. \A j \in 1 .. Len(ns) : new[j].mesh \in 0 .. n
      BY <1>1, <3>1
    <3>3. new[M].mesh \in 0 .. n
      BY <1>1
    <3> QED
      BY <1>3, <3>2, <3>3
  <2>2. \A k \in 1 .. n : \E j \in 1 .. Len(new) : new[j].mesh = k
    <3>1. \A j \in 1 .. Len(ns) : j \in 1 .. Len(new) /\ new[j].mesh = ns[j].mesh
      BY <1>1, <1>3
    <3>2. \A k \in 1 .. n : \E j \in 1 .. Len(ns) : ns[j].mesh = k
      BY DEF Drawn
    <3> QED
      BY <3>1, <3>2, Zenon
  <2>3. \A j \in 1 .. Len(new) :
          new[j].mesh # 0 => ParentsIn(new, j) = {lm[ms[new[j].mesh].lod]}
    BY <1>1, <1>3, <1>6
  <2> QED
    BY <2>1, <2>2, <2>3 DEF Drawn
<1> QED
  BY <1>4, <1>7 DEF new, roots, lm, M

LEMMA DrawnWithModel ==
  ASSUME NEW ns, NEW rs, TreeRight(ns, rs), NEW P \in Range(rs),
         NEW y, IsNode(y, 0), y.children = <<>>,
         NEW ln, NEW ms, NEW n \in Nat, Drawn(ns, ln, ms, n),
         y.mesh = n + 1, ln[ms[n + 1].lod] = P
  PROVE  Drawn(HungBelow(ns, P, y), ln, ms, n + 1)
<1> DEFINE new == HungBelow(ns, P, y)
           M == Len(ns) + 1
<1>1. /\ Len(ns) \in Nat /\ Len(new) = M /\ new[M] = y
      /\ \A i \in 1 .. Len(ns) : new[i].mesh = ns[i].mesh
      /\ \A j \in 1 .. Len(ns) : ParentsIn(new, j) = ParentsIn(ns, j)
      /\ ParentsIn(new, M) = {P}
  BY Hung
<1>2. (1 .. Len(ns)) \cup {M} = 1 .. Len(new)
  <2>1. \A m \in Nat : (1 .. m) \cup {m + 1} = 1 .. m + 1
    OBVIOUS
  <2> QED
    BY <1>1, <2>1, Zenon
<1>3. (1 .. n) \cup {n + 1} = 1 .. n + 1
  OBVIOUS
<1> HIDE DEF new, M
<1>4. \A j \in 1 .. Len(new) : new[j].mesh \in 0 .. n + 1
  BY <1>1, <1>2, SMTT(20) DEF Drawn
<1>5. \A k \in 1 .. n + 1 : \E j \in 1 .. Len(new) : new[j].mesh = k
  BY <1>1, <1>2, <1>3 DEF Drawn
<1>6. \A j \in 1 .. Len(new) :
        new[j].mesh # 0 => ParentsIn(new, j) = {ln[ms[new[j].mesh].lod]}
  BY <1>1, <1>2 DEF Drawn
<1>7. Drawn(new, ln, ms, n + 1)
  BY <1>4, <1>5, <1>6 DEF Drawn
<1> QED
  BY <1>7 DEF new

-----------------------------------------------------------------------------
(***************************************************************************)
(* What every state satisfies.                                             *)
(***************************************************************************)
AreModels(ms) ==
  /\ \E S : ms \in Seq(S)
  /\ \A k \in 1 .. Len(ms) : "lod" \in DOMAIN ms[k] /\ ms[k].lod \in 0 .. Levels - 1

LoaderRight ==
  /\ file \in ModelFiles
  /\ AreModels(models)
  /\ cursor \in Nat \X Nat
  /\ stage \in {"place", "lods"} => file.kind = "im"
  /\ stage = "lods" /\ cursor[1] < Len(file.clusters) =>
       cursor[2] = 0 \/ cursor[2] < file.clusters[cursor[1] + 1].num

DrawnRight ==
  /\ drawn \in Nat /\ drawn <= Len(models)
  /\ fate \in {"extract", "load"} => drawn = 0

DocRight ==
  /\ {"nodes", "roots", "lodNodes", "meshes"} \subseteq DOMAIN doc
  /\ (\E S : doc.meshes \in Seq(S)) /\ Len(doc.meshes) = drawn
  /\ TreeRight(doc.nodes, doc.roots)
  /\ LevelNodesRight(doc.lodNodes, doc.roots)
  /\ Drawn(doc.nodes, doc.lodNodes, models, drawn)

SceneRight == LoaderRight /\ DrawnRight /\ DocRight

-----------------------------------------------------------------------------
(* A model more, or one changed that keeps a level.                        *)
LEMMA ModelAdded ==
  ASSUME NEW ms, AreModels(ms), NEW m, "lod" \in DOMAIN m, m.lod \in 0 .. Levels - 1
  PROVE  AreModels(Append(ms, m))
<1>1. PICK S : ms \in Seq(S)
  BY DEF AreModels
<1> DEFINE new == Append(ms, m)
<1>2. /\ new \in Seq(S \cup {m}) /\ Len(new) = Len(ms) + 1 /\ Len(ms) \in Nat
      /\ new[Len(ms) + 1] = m /\ \A i \in 1 .. Len(ms) : new[i] = ms[i]
  BY <1>1, Appended, LenProperties
<1> HIDE DEF new
<1>3. \A i : i \in 1 .. Len(new) <=> i \in 1 .. Len(ms) \/ i = Len(ms) + 1
  BY <1>2
<1>4. \A k \in 1 .. Len(new) : "lod" \in DOMAIN new[k] /\ new[k].lod \in 0 .. Levels - 1
  BY <1>2, <1>3 DEF AreModels
<1>5. AreModels(new)
  BY <1>2, <1>4 DEF AreModels
<1> QED
  BY <1>5 DEF new

LEMMA ModelChanged ==
  ASSUME NEW ms, AreModels(ms), NEW i, NEW m,
         i \in 1 .. Len(ms) => "lod" \in DOMAIN m /\ m.lod \in 0 .. Levels - 1
  PROVE  AreModels([ms EXCEPT ![i] = m])
<1>1. PICK S : ms \in Seq(S)
  BY DEF AreModels
<1> DEFINE new == [ms EXCEPT ![i] = m]
<1>2. new \in Seq(S \cup {m}) /\ Len(new) = Len(ms)
  BY <1>1, Changed
<1>3. DOMAIN ms = 1 .. Len(ms)
  BY <1>1, LenProperties
<1>4. \A k \in 1 .. Len(ms) : new[k] = IF k = i THEN m ELSE ms[k]
  BY <1>3
<1> HIDE DEF new
<1>5. \A k \in 1 .. Len(new) : "lod" \in DOMAIN new[k] /\ new[k].lod \in 0 .. Levels - 1
  BY <1>2, <1>4 DEF AreModels
<1>6. AreModels(new)
  BY <1>2, <1>5 DEF AreModels
<1> QED
  BY <1>6 DEF new

LEMMA SceneRightInit == SceneInit => SceneRight
<1> SUFFICES ASSUME SceneInit PROVE SceneRight
  OBVIOUS
<1>1. \A S : <<>> \in Seq(S) /\ Len(<<>>) = 0 /\ Range(<<>>) = {}
  BY EmptySeq DEF Range
<1>2. /\ file \in ModelFiles /\ models = <<>> /\ stage = "models"
      /\ cursor = <<0, 0>> /\ drawn = 0 /\ doc = EmptyDoc(file.kind)
  BY DEF SceneInit, Loader!Init
<1>3. LoaderRight
  <2>1. AreModels(<<>>)
    BY <1>1 DEF AreModels
  <2> QED
    BY <1>2, <2>1 DEF LoaderRight
<1>4. Len(models) = 0
  BY <1>1, <1>2
<1>5. DrawnRight
  BY <1>2, <1>4 DEF DrawnRight
<1>6. /\ {"nodes", "roots", "lodNodes", "meshes"} \subseteq DOMAIN doc
      /\ doc.nodes = <<>> /\ doc.roots = <<>> /\ doc.meshes = <<>>
      /\ doc.lodNodes = [l \in 0 .. Levels - 1 |-> 0]
  BY <1>2 DEF EmptyDoc
<1>7. TreeRight(<<>>, <<>>)
  BY <1>1 DEF TreeRight, AreNodes
<1>8. LevelNodesRight(doc.lodNodes, <<>>)
  BY <1>6 DEF LevelNodesRight
<1>9. Drawn(<<>>, doc.lodNodes, models, 0)
  BY <1>1 DEF Drawn
<1> QED
  BY <1>1, <1>2, <1>3, <1>5, <1>6, <1>7, <1>8, <1>9 DEF SceneRight, DocRight

-----------------------------------------------------------------------------
(* The loader gives every model a level that lodNodes has.                 *)
LEMMA LoaderStepRight ==
  ASSUME LoaderRight, Loader!Load PROVE LoaderRight'
<1> USE DEF Loader!Elem
<1>0. /\ file \in ModelFiles /\ AreModels(models) /\ LevelsFit(file) /\ Levels \in Nat
      /\ cursor \in Nat \X Nat
  BY SceneAssumption DEF LoaderRight
<1>1. Len(models) \in Nat
  BY <1>0, LenProperties DEF AreModels
<1>2. CASE Loader!RefuseV2
  BY <1>2 DEF Loader!RefuseV2, LoaderRight
<1>3. CASE Loader!LoadObject
  <2> DEFINE m == [stream |-> file.streams[Len(models) + 1], lod |-> 0,
                   matrices |-> <<>>, prims |-> file.meshes[Len(models) + 1]]
  <2>1. models' = Append(models, m) /\ UNCHANGED <<file, stage, cursor>>
    BY <1>3 DEF Loader!LoadObject, Loader!AddModel
  <2>2. 0 \in 0 .. Levels - 1
    BY <1>0, <1>3 DEF Loader!LoadObject, LevelsFit
  <2>3. "lod" \in DOMAIN m /\ m.lod \in 0 .. Levels - 1
    BY <2>2
  <2> HIDE DEF m
  <2>4. AreModels(models')
    BY <1>0, <2>1, <2>3, ModelAdded
  <2> QED
    BY <2>1, <2>4 DEF LoaderRight
<1>4. CASE Loader!LoadTerrain
  <2> DEFINE big == file.meshIndices[Len(models) + 1]
             lod == big \div Len(file.lookups)
  <2>1. PICK stream : models' = Append(models,
          [stream |-> stream, lod |-> lod, matrices |-> <<>>,
           prims |-> file.meshes[Len(models) + 1]])
    BY <1>4, Zenon DEF Loader!LoadTerrain, Loader!AddModel
  <2>2. UNCHANGED <<file, stage, cursor>> /\ file.kind = "tm" /\ Len(models) < Len(file.meshes)
    BY <1>4 DEF Loader!LoadTerrain, Loader!MoreMeshes
  <2>3. Len(models) + 1 \in 1 .. Len(file.meshes)
    BY <1>0, <1>1, <2>2 DEF LevelsFit
  <2>4. lod \in 0 .. Levels - 1
    BY <1>0, <2>2, <2>3 DEF LevelsFit
  <2> DEFINE m == [stream |-> stream, lod |-> lod, matrices |-> <<>>,
                   prims |-> file.meshes[Len(models) + 1]]
  <2>5. "lod" \in DOMAIN m /\ m.lod \in 0 .. Levels - 1
    BY <2>4
  <2>6. models' = Append(models, m)
    BY <2>1
  <2> HIDE DEF m
  <2>7. AreModels(models')
    BY <1>0, <2>5, <2>6, ModelAdded
  <2> QED
    BY <2>2, <2>7 DEF LoaderRight
<1>5. CASE Loader!EndModels
  BY <1>5 DEF Loader!EndModels, LoaderRight
<1>6. CASE Loader!RefuseIndex
  BY <1>6 DEF Loader!RefuseIndex, LoaderRight
<1>7. CASE Loader!SkipMatrix
  BY <1>7 DEF Loader!SkipMatrix, Loader!MoreMatrices, Loader!Advance, LoaderRight
<1>8. CASE Loader!PlaceMatrix
  <2>1. PICK i : models' = [models EXCEPT ![i].matrices = Append(@, Loader!Matrix)]
    BY <1>8 DEF Loader!PlaceMatrix
  <2> DEFINE m == [models[i] EXCEPT !.matrices = Append(@, Loader!Matrix)]
  <2>2. models' = [models EXCEPT ![i] = m]
    BY <2>1
  <2>3. i \in 1 .. Len(models) => "lod" \in DOMAIN m /\ m.lod \in 0 .. Levels - 1
    BY <1>0 DEF AreModels
  <2> HIDE DEF m
  <2>4. AreModels(models')
    BY <1>0, <2>2, <2>3, ModelChanged
  <2>5. cursor' \in Nat \X Nat
    BY <1>0, <1>8 DEF Loader!PlaceMatrix, Loader!Advance
  <2> QED
    BY <1>8, <2>4, <2>5 DEF LoaderRight, Loader!PlaceMatrix, Loader!MoreMatrices
<1>9. CASE Loader!EndPlaces
  BY <1>9 DEF Loader!EndPlaces, LoaderRight
<1>10. CASE Loader!SkipCluster
  BY <1>0, <1>10 DEF Loader!SkipCluster, Loader!MoreClusters, Loader!Advance, LoaderRight
<1>11. CASE Loader!SetLevel
  <2> DEFINE c == file.clusters[cursor[1] + 1]
  <2>1. PICK i : models' = [models EXCEPT ![i].lod = cursor[2]]
    BY <1>11 DEF Loader!SetLevel
  <2>2. /\ stage = "lods" /\ cursor[1] < Len(file.clusters) /\ c.num > 0
        /\ cursor' = IF cursor[2] + 1 = c.num THEN <<cursor[1] + 1, 0>>
                     ELSE <<cursor[1], cursor[2] + 1>>
        /\ UNCHANGED <<file, stage>>
    BY <1>11 DEF Loader!SetLevel, Loader!MoreClusters, Loader!Advance
  <2>3. file.kind = "im" /\ Len(file.clusters) \in Nat
    BY <1>0, <2>2 DEF LoaderRight, LevelsFit
  <2>4. cursor[1] + 1 \in 1 .. Len(file.clusters)
    BY <1>0, <2>2, <2>3
  <2>5. c.num \in 0 .. Levels
    BY <1>0, <2>3, <2>4 DEF LevelsFit
  <2>6. cursor[2] = 0 \/ cursor[2] < c.num
    BY <2>2 DEF LoaderRight
  <2> HIDE DEF c
  <2>7. cursor[2] \in Nat /\ cursor[1] \in Nat /\ cursor[2] < c.num /\ cursor[2] \in 0 .. Levels - 1
    BY <1>0, <2>2, <2>5, <2>6
  <2> DEFINE m == [models[i] EXCEPT !.lod = cursor[2]]
  <2>8. models' = [models EXCEPT ![i] = m]
    BY <2>1
  <2>9. i \in 1 .. Len(models) => "lod" \in DOMAIN m /\ m.lod \in 0 .. Levels - 1
    BY <1>0, <2>7 DEF AreModels
  <2> HIDE DEF m
  <2>10. AreModels(models')
    BY <1>0, <2>8, <2>9, ModelChanged
  <2>11. /\ cursor' \in Nat \X Nat
         /\ cursor'[2] = 0 \/ (cursor'[1] = cursor[1] /\ cursor'[2] < c.num)
    BY <2>2, <2>5, <2>7
  <2> QED
    BY <1>0, <2>2, <2>3, <2>10, <2>11 DEF LoaderRight, c
<1>12. CASE Loader!EndLevels
  BY <1>12 DEF Loader!EndLevels, LoaderRight
<1> QED
  BY <1>2, <1>3, <1>4, <1>5, <1>6, <1>7, <1>8, <1>9, <1>10, <1>11, <1>12
  DEF Loader!Load

-----------------------------------------------------------------------------
(* A drawn model keeps the tree, whether its level had a node or not.      *)
LEMMA DrawRight ==
  ASSUME SceneRight, DrawModel PROVE DocRight' /\ DrawnRight'
<1> DEFINE level == models[drawn + 1].lod
           made == doc.lodNodes[level] # 0
           parent == IF made THEN doc.lodNodes[level] ELSE Len(doc.nodes) + 1
           group == [mesh |-> 0, children |-> <<>>, place |-> <<>>]
           before == IF made THEN doc.nodes ELSE Append(doc.nodes, group)
           roots == IF made THEN doc.roots ELSE Append(doc.roots, parent)
           levels == [doc.lodNodes EXCEPT ![level] = parent]
           node == [mesh |-> Len(doc.meshes) + 1, children |-> <<>>,
                    place |-> Place(models[drawn + 1])]
<1>1. /\ {"nodes", "roots", "lodNodes", "meshes"} \subseteq DOMAIN doc
      /\ drawn \in Nat /\ drawn < Len(models) /\ fate = "convert"
      /\ drawn' = drawn + 1 /\ UNCHANGED <<models, fate>>
      /\ AddNode(Model, Model.lod)
  BY DEF SceneRight, DocRight, DrawnRight, DrawModel, MoreModels, loaderVars
<1>2. AreModels(models) /\ Len(models) \in Nat
  BY LenProperties DEF SceneRight, LoaderRight, AreModels
<1>3. DrawnRight'
  BY <1>1, <1>2 DEF DrawnRight
<1>4. /\ {"nodes", "roots", "lodNodes", "meshes"} \subseteq DOMAIN doc'
      /\ doc'.nodes = HungBelow(before, parent, node)
      /\ doc'.roots = roots /\ doc'.lodNodes = levels
      /\ \E m : doc'.meshes = Append(doc.meshes, m)
  BY <1>1, Zenon DEF AddNode, HasNode, Model, HungBelow
<1>5. (\E S : doc'.meshes \in Seq(S)) /\ Len(doc'.meshes) = drawn'
  <2>1. PICK m : doc'.meshes = Append(doc.meshes, m)
    BY <1>4
  <2>2. PICK S : doc.meshes \in Seq(S)
    BY DEF SceneRight, DocRight
  <2>3. Append(doc.meshes, m) \in Seq(S \cup {m})
    BY <2>2, Appended
  <2>4. Len(Append(doc.meshes, m)) = Len(doc.meshes) + 1
    BY <2>2, Appended
  <2>5. \E T : doc'.meshes \in Seq(T)
    BY <2>1, <2>3
  <2>6. Len(doc'.meshes) = drawn'
    BY <1>1, <2>1, <2>4 DEF SceneRight, DocRight
  <2> QED
    BY <2>5, <2>6
<1>6. level \in 0 .. Levels - 1 /\ Levelled(models, drawn)
  BY <1>1, <1>2 DEF AreModels, Levelled
<1>7. IsNode(group, 0) /\ group.children = <<>> /\ group.mesh = 0
  BY EmptySeq DEF IsNode
<1>8. IsNode(node, 0) /\ node.children = <<>> /\ node.mesh = drawn + 1
  BY <1>1, EmptySeq DEF IsNode, SceneRight, DocRight
<1> HIDE DEF level, group, node
<1>9. /\ TreeRight(doc.nodes, doc.roots) /\ LevelNodesRight(doc.lodNodes, doc.roots)
      /\ Drawn(doc.nodes, doc.lodNodes, models, drawn)
  BY DEF SceneRight, DocRight
<1>10. /\ TreeRight(before, roots) /\ parent \in Range(roots)
       /\ LevelNodesRight(levels, roots) /\ levels[level] = parent
       /\ Drawn(before, levels, models, drawn)
  <2>1. CASE made
    <3>1. before = doc.nodes /\ roots = doc.roots /\ parent = doc.lodNodes[level]
      BY <2>1
    <3>2. levels = doc.lodNodes
      BY <1>9, <3>1 DEF LevelNodesRight
    <3>3. parent \in Range(roots)
      BY <1>6, <1>9, <2>1, <3>1 DEF LevelNodesRight
    <3> QED
      BY <1>9, <3>1, <3>2, <3>3
  <2>2. CASE ~made
    <3>1. /\ before = Append(doc.nodes, group) /\ parent = Len(doc.nodes) + 1
          /\ roots = Append(doc.roots, Len(doc.nodes) + 1)
          /\ levels = [doc.lodNodes EXCEPT ![level] = Len(doc.nodes) + 1]
          /\ doc.lodNodes[level] = 0
      BY <2>2
    <3> HIDE DEF before, parent, roots, levels, made
    <3>2. TreeRight(before, roots) /\ parent \in Range(roots)
      BY <1>7, <1>9, <3>1, Rooted
    <3>3. LevelNodesRight(levels, roots) /\ Drawn(before, levels, models, drawn)
      BY <1>1, <1>6, <1>7, <1>9, <3>1, DrawnWithRoot
    <3>4. levels[level] = parent
      BY <1>6, <1>9, <3>1 DEF LevelNodesRight
    <3> QED
      BY <3>2, <3>3, <3>4
  <2> QED
    BY <2>1, <2>2
<1> HIDE DEF before, parent, roots, levels
<1>11. TreeRight(doc'.nodes, roots)
  BY <1>4, <1>8, <1>10, Hung
<1>12. levels[models[drawn + 1].lod] = parent
  BY <1>10 DEF level
<1>13. Drawn(doc'.nodes, levels, models, drawn + 1)
  BY <1>1, <1>4, <1>8, <1>10, <1>12, DrawnWithModel
<1>14. DocRight'
  BY <1>1, <1>4, <1>5, <1>10, <1>11, <1>13 DEF DocRight
<1> QED
  BY <1>3, <1>14

LEMMA SceneRightStep ==
  ASSUME SceneRight, [SceneNext]_vars PROVE SceneRight'
<1> USE DEF SceneRight
<1>1. CASE UNCHANGED vars
  BY <1>1 DEF vars, loaderVars, sceneVars, LoaderRight, DrawnRight, DocRight
<1>2. CASE LoadStep
  <2>1. LoaderRight'
    BY <1>2, LoaderStepRight DEF LoadStep
  <2>2. drawn = 0 /\ UNCHANGED sceneVars
    BY <1>2 DEF LoadStep, DrawnRight
  <2>3. Len(models') \in Nat
    BY <2>1, LenProperties DEF LoaderRight, AreModels
  <2>4. DrawnRight'
    BY <2>2, <2>3 DEF DrawnRight, sceneVars
  <2>5. \A j \in 1 .. Len(doc.nodes) : doc.nodes[j].mesh = 0
    BY <2>2 DEF DocRight, Drawn
  <2>6. Drawn(doc.nodes, doc.lodNodes, models', 0)
    BY <2>5 DEF Drawn
  <2>7. DocRight'
    BY <2>2, <2>6 DEF DocRight, sceneVars
  <2> QED
    BY <2>1, <2>4, <2>7
<1>3. CASE DrawModel
  <2>1. UNCHANGED loaderVars
    BY <1>3 DEF DrawModel
  <2> QED
    BY <1>3, <2>1, DrawRight DEF loaderVars, LoaderRight
<1>4. CASE OpenStream
  <2>1. UNCHANGED <<loaderVars, fate, drawn>>
    BY <1>4 DEF OpenStream
  <2>2. /\ DOMAIN doc' = DOMAIN doc /\ doc'.nodes = doc.nodes /\ doc'.roots = doc.roots
        /\ doc'.lodNodes = doc.lodNodes /\ doc'.meshes = doc.meshes
    BY <1>4 DEF OpenStream, AddStream, DocRight
  <2> QED
    BY <2>1, <2>2 DEF loaderVars, LoaderRight, DrawnRight, DocRight
<1>5. CASE Save
  <2>1. UNCHANGED <<loaderVars, drawn>> /\ fate' = "saved"
    BY <1>5 DEF Save
  <2>2. /\ DOMAIN doc' = DOMAIN doc /\ doc'.nodes = doc.nodes /\ doc'.roots = doc.roots
        /\ doc'.lodNodes = doc.lodNodes /\ doc'.meshes = doc.meshes
    BY <1>5 DEF Save, DocRight
  <2> QED
    BY <2>1, <2>2 DEF loaderVars, LoaderRight, DrawnRight, DocRight
<1>6. CASE ExtractStep
  BY <1>6 DEF ExtractStep, loaderVars, sceneVars, LoaderRight, DrawnRight, DocRight
<1>7. ASSUME OpenHeader \/ MissHeader \/ EndLoad \/ RefuseSlot \/ RefuseBuffer
      PROVE  SceneRight'
  <2>1. UNCHANGED <<loaderVars, drawn, doc>> /\ (fate' = "load" => fate = "extract")
        /\ fate' # "extract"
    BY <1>7 DEF OpenHeader, AtHeader, MissHeader, EndLoad, RefuseSlot, RefuseBuffer
  <2> QED
    BY <2>1 DEF loaderVars, LoaderRight, DrawnRight, DocRight
<1> QED
  BY <1>1, <1>2, <1>3, <1>4, <1>5, <1>6, <1>7 DEF SceneNext, Work, SceneDone

-----------------------------------------------------------------------------
(* The tree the invariant promises, as SceneIsTree says it.                *)
LEMMA TreeOfRight == SceneRight => SceneIsTree
<1> SUFFICES ASSUME SceneRight PROVE SceneIsTree
  OBVIOUS
<1>1. TreeRight(doc.nodes, doc.roots) /\ Drawn(doc.nodes, doc.lodNodes, models, drawn)
  BY DEF SceneRight, DocRight
<1>2. \A n : Parents(n) = ParentsIn(doc.nodes, n)
  BY DEF Parents, ParentsIn
<1>3. \A n \in 1 .. Len(doc.nodes) : n \in Range(doc.roots) <=> Parents(n) = {}
  BY <1>1, <1>2 DEF TreeRight
<1>4. ASSUME NEW n \in 1 .. Len(doc.nodes)
      PROVE  Cardinality(Parents(n)) <= 1 /\ Parents(n) \subseteq Range(doc.roots)
  <2>1. CASE Parents(n) = {}
    BY <2>1, FS_EmptySet
  <2>2. CASE \E p \in Range(doc.roots) : Parents(n) = {p}
    <3>1. PICK p \in Range(doc.roots) : Parents(n) = {p}
      BY <2>2
    <3>2. Cardinality({p}) = 1
      BY FS_Singleton
    <3> QED
      BY <3>1, <3>2
  <2> QED
    BY <1>1, <1>2, <2>1, <2>2 DEF TreeRight
<1>5. ASSUME NEW k \in 1 .. drawn
      PROVE  Parents(NodeOf(k)) = {doc.lodNodes[models[k].lod]}
  <2>1. \E n \in 1 .. Len(doc.nodes) : doc.nodes[n].mesh = k
    BY <1>1 DEF Drawn
  <2>2. NodeOf(k) \in 1 .. Len(doc.nodes) /\ doc.nodes[NodeOf(k)].mesh = k
    BY <2>1 DEF NodeOf
  <2>3. k # 0
    OBVIOUS
  <2> QED
    BY <1>1, <1>2, <2>2, <2>3 DEF Drawn
<1> QED
  BY <1>3, <1>4, <1>5 DEF SceneIsTree

-----------------------------------------------------------------------------
(***************************************************************************)
(* The shared buffers stay as sm_extract left them: a converter finds a    *)
(* header that describes the whole buffer its models draw from.            *)
(***************************************************************************)
SharedRight ==
  /\ Inv /\ ReadRight /\ TypeRight
  /\ fate = "extract" => FilesMade /\ WorkRight
  /\ fate \in {"load", "convert", "saved"} =>
       source = SharedStreams /\ Len(header) = Len(source)

(* The shared buffer: what the extraction proves outlives it.               *)
LEMMA SharedRightInit == SceneInit => SharedRight
<1> SUFFICES ASSUME SceneInit PROVE SharedRight
  OBVIOUS
<1>1. SessionRight /\ fate = "extract"
  BY SessionInit DEF SceneInit
<1> QED
  BY <1>1 DEF SessionRight, SharedRight

LEMMA OpenHeaderShared == ASSUME SharedRight, OpenHeader PROVE SharedRight'
<1> DEFINE b == SharedFile("bin")
           h == SharedFile("binh")
<1>1. /\ fate = "extract" /\ HasHeader /\ fate' = "load"
      /\ Reopen(SharedStreams, b.data, h.data) /\ UNCHANGED <<extractVars, loaderVars>>
  BY DEF OpenHeader, AtHeader
<1>2. h \in Range(files) /\ h.part = SharedPart /\ h.name = "binh" /\ SharedPart \in Bins
  BY <1>1 DEF HasHeader, SharedFile, IsShared, SharedPart, Bins
<1>3. \E g \in Range(files) : IsShared(g, "bin")
  BY <1>1, <1>2 DEF SharedRight, FilesMade, IsShared
<1>4. b \in Range(files) /\ b.part = SharedPart /\ b.name = "bin"
  BY <1>3 DEF SharedFile, IsShared
<1>5. StreamsOf(SharedPart) = SharedStreams
  BY DEF StreamsOf, SharedPart, SharedStreams
<1>6. BufferMade(SharedStreams, b.data, h.data)
  BY <1>1, <1>2, <1>4, <1>5 DEF SharedRight, FilesMade
<1> DEFINE streams == SharedStreams
           c == b.data
           d == h.data
<1>7. /\ source' = streams /\ at' = Len(streams) + 1 /\ pass' = "none" /\ queue' = {} /\ bin' = c
      /\ total' = Len(c) /\ views' = NoViews /\ indices' = <<>> /\ attrs' = <<>> /\ uv16' = <<>>
      /\ header' = d /\ status' = "written" /\ map' = map /\ file' = file
  BY <1>1 DEF Reopen, extractVars, loaderVars
<1>8. BufferMade(streams, c, d)
  BY <1>6
<1>9. IsStreams(streams) /\ map \in MapFiles
  BY MapAssumption DEF SharedRight, Inv, SourceRight, SharedStreams
<1>10. SharedStreams' = streams
  BY <1>7 DEF SharedStreams
<1> HIDE DEF streams, c, d
<1>11. /\ (\E S : c \in Seq(S)) /\ Len(c) \in Nat /\ d \in Seq(Described) /\ Len(d) = Len(streams)
       /\ Len(streams) \in Nat /\ \A n \in 1 .. Len(d) : FinishedRight(c, n, streams[n], d[n])
       /\ Tiling(d, NoViews, Len(c))
  BY <1>8, <1>9, LenProperties DEF BufferMade, IsStreams
<1>12. Inv'
  <2>1. SourceRight'
    BY <1>7, <1>9, <1>11, Names DEF SourceRight
  <2>2. QueueRight'
    BY <1>7, Names DEF QueueRight
  <2>3. ListsRight'
    BY <1>7, <1>11, EmptySeq DEF ListsRight
  <2>4. BufferRight'
    <3>1. ViewsRight(NoViews, Len(c), "none")
      BY <1>11, NoViewsRight, AheadSlots, Names DEF ViewsRight
    <3> QED
      BY <1>7, <1>11, <3>1 DEF BufferRight
  <2> QED
    BY <2>1, <2>2, <2>3, <2>4 DEF Inv
<1>13. ReadRight'
  <2>1. FileRight'
    BY <1>7, <1>11 DEF FileRight, NoViews
  <2>2. HeadersRight'
    BY <1>7, <1>11 DEF HeadersRight
  <2>3. IndicesRight' /\ AttrsRight' /\ UvRight'
    BY <1>7, Names DEF IndicesRight, AttrsRight, UvRight
  <2> QED
    BY <2>1, <2>2, <2>3 DEF ReadRight
<1>14. TypeRight'
  BY <1>7, <1>11, EmptySeq DEF TypeRight
<1> QED
  BY <1>1, <1>7, <1>10, <1>11, <1>12, <1>13, <1>14 DEF SharedRight

LEMMA SharedRightStep ==
  ASSUME SharedRight, [SceneNext]_vars PROVE SharedRight'
<1>1. CASE ExtractStep
  <2>1. /\ fate = "extract" /\ fate' = "extract" /\ [Next]_sessionVars
    BY <1>1 DEF ExtractStep, Next, sceneVars
  <2>2. SessionRight'
    BY <2>1, SessionStep DEF SharedRight, SessionRight
  <2> QED
    BY <2>1, <2>2 DEF SharedRight, SessionRight
<1>2. CASE OpenHeader
  BY <1>2, OpenHeaderShared
<1>3. CASE UNCHANGED sessionVars /\ ~OpenHeader
  <2>1. [Next]_sessionVars
    BY <1>3
  <2>2. Inv' /\ ReadRight' /\ TypeRight'
    BY <2>1, StepRight, StepRead, StepTyped DEF SharedRight
  <2>3. file' = file /\ (fate' \in {"load", "convert", "saved"} => fate \in {"load", "convert", "saved"})
        /\ (fate' = "extract" => fate = "extract")
    BY <1>3 DEF SceneNext, Work, SceneDone, ExtractStep, MissHeader, LoadStep, EndLoad, RefuseSlot, OpenStream,
       RefuseBuffer, DrawModel, Save, vars, loaderVars, sceneVars, MoreModels, Finished, Loader!Load,
       Loader!RefuseV2, Loader!LoadObject, Loader!LoadTerrain, Loader!EndModels, Loader!RefuseIndex,
       Loader!SkipMatrix, Loader!PlaceMatrix, Loader!EndPlaces, Loader!SkipCluster, Loader!SetLevel,
       Loader!EndLevels
  <2>4. SharedStreams' = SharedStreams /\ source' = source /\ header' = header
    BY <1>3, <2>3 DEF SharedStreams, sessionVars, mapVars, fileVars, extractVars
  <2>5. fate = "extract" => FilesMade' /\ WorkRight'
    BY <2>1, StepMade DEF SharedRight
  <2> QED
    BY <2>2, <2>3, <2>4, <2>5 DEF SharedRight
<1> QED
  BY <1>1, <1>2, <1>3 DEF SceneNext, Work, SceneDone, MissHeader, LoadStep, EndLoad, RefuseSlot,
     OpenStream, RefuseBuffer, DrawModel, Save, vars

-----------------------------------------------------------------------------
(***************************************************************************)
(* The loader, position by position.  A matrix list holds what the         *)
(* clusters of the matrices list up to the cursor of the placing loop, and *)
(* a level is one that a cluster lists up to the cursor of the last loop.  *)
(***************************************************************************)
ListsAt(f, c, l, k) == Loader!ModelIndex(f.modelLODs[c.start + l + 1]) = k

ClusterAt(f, m) == f.clusters[f.matrices[m + 1] + 1]

Placed(f, k, m, p) ==
  {l \in 0 .. ClusterAt(f, m).num - 1 :
     ListsAt(f, ClusterAt(f, m), l, k) /\ Before(<<m, l>>, p)}

Occurrences(s, m) == {i \in 1 .. Len(s) : s[i] = m}

(* Matrix list s of model k, at place p.                                   *)
PlacedTo(f, k, s, p) ==
  /\ s \in Seq(Nat)
  /\ \A i \in 1 .. Len(s) : s[i] <= p[1]
  /\ \A i, j \in 1 .. Len(s) : i < j => s[i] <= s[j]
  /\ \A m \in 0 .. Len(f.matrices) - 1 :
       Cardinality(Occurrences(s, m)) = Cardinality(Placed(f, k, m, p))

LevelAt(f, k, l, q) ==
  \E c \in 1 .. Len(f.clusters) :
    /\ l \in 0 .. f.clusters[c].num - 1
    /\ ListsAt(f, f.clusters[c], l, k) /\ Before(<<c - 1, l>>, q)

LevelledTo(f, k, lod, q) == (\E l : LevelAt(f, k, l, q)) => LevelAt(f, k, lod, q)

PlaceReached(f, st, at_) ==
  CASE st = "models" -> <<0, 0>>
    [] st = "place" -> at_
    [] OTHER -> <<Len(f.matrices), 0>>

LevelReached(f, st, at_) ==
  CASE st \in {"models", "place"} -> <<0, 0>>
    [] st = "lods" -> at_
    [] OTHER -> <<Len(f.clusters), 0>>

(* Model k of the loader, the first being 1.                               *)
ModelLoaded(f, k, model, p, q) ==
  /\ {"stream", "lod", "matrices", "prims"} \subseteq DOMAIN model
  /\ model.stream = StreamOfMesh(f, k) /\ model.prims = f.meshes[k]
  /\ f.kind = "im" => /\ PlacedTo(f, k - 1, model.matrices, p)
                      /\ LevelledTo(f, k - 1, model.lod, q)
  /\ f.kind = "tm" => /\ model.matrices = <<>>
                      /\ model.lod = f.meshIndices[k] \div Len(f.lookups)

LoadedRight ==
  /\ stage \in {"models", "place", "lods", "ready", "failed"}
  /\ stage = "models" => cursor = <<0, 0>>
  /\ stage = "ready" => file.kind \in {"im", "tm"}
  /\ Len(models) <= Len(file.meshes)
  /\ Len(models) > 0 => file.kind \in {"im", "tm"}
  /\ stage = "place" /\ cursor[1] < Len(file.matrices) =>
       cursor[2] = 0 \/ cursor[2] < ClusterAt(file, cursor[1]).num
  /\ stage = "place" => cursor[1] <= Len(file.matrices)
  /\ stage \in {"place", "lods", "ready"} => Len(models) = Len(file.meshes)
  /\ stage # "failed" =>
       \A k \in 1 .. Len(models) :
         ModelLoaded(file, k, models[k], PlaceReached(file, stage, cursor),
                     LevelReached(file, stage, cursor))

ObjectFile(f) == f.kind = "im" /\ LevelsFit(f) /\ ListsFit(f)

(* The clusters of an object file, and what is passed of them.              *)
LEMMA ClusterFacts ==
  ASSUME NEW f, ObjectFile(f), NEW m \in 0 .. Len(f.matrices) - 1
  PROVE  /\ m \in Nat /\ Len(f.matrices) \in Nat /\ f.matrices[m + 1] + 1 \in 1 .. Len(f.clusters)
         /\ ClusterAt(f, m).num \in Nat /\ ClusterAt(f, m).start \in Nat
         /\ ClusterAt(f, m).start + ClusterAt(f, m).num <= Len(f.modelLODs)
<1>1. f.matrices \in Seq(0 .. Len(f.clusters) - 1) /\ Len(f.clusters) \in Nat
  BY DEF ObjectFile, ListsFit, LevelsFit
<1>2. Len(f.matrices) \in Nat /\ \A i \in 1 .. Len(f.matrices) : f.matrices[i] \in 0 .. Len(f.clusters) - 1
  BY <1>1, LenProperties
<1>3. f.matrices[m + 1] \in 0 .. Len(f.clusters) - 1
  BY <1>2
<1>4. f.matrices[m + 1] + 1 \in 1 .. Len(f.clusters)
  BY <1>1, <1>3
<1>5. /\ ClusterAt(f, m).num \in 0 .. Levels /\ ClusterAt(f, m).start \in Nat
      /\ ClusterAt(f, m).start + ClusterAt(f, m).num <= Len(f.modelLODs)
  BY <1>4 DEF ObjectFile, ListsFit, LevelsFit, ClusterAt
<1> QED
  BY <1>2, <1>4, <1>5, SceneAssumption

(* The matrices that name a cluster are finitely many.                      *)
LEMMA PlacedFinite ==
  ASSUME NEW f, ObjectFile(f), NEW k, NEW m \in 0 .. Len(f.matrices) - 1, NEW p
  PROVE  IsFiniteSet(Placed(f, k, m, p))
<1>1. ClusterAt(f, m).num \in Nat
  BY ClusterFacts
<1>2. IsFiniteSet(0 .. ClusterAt(f, m).num - 1)
  <2>1. \A n \in Nat : IsFiniteSet(0 .. n - 1)
    <3> TAKE n \in Nat
    <3>1. 0 \in Int /\ n - 1 \in Int
      OBVIOUS
    <3> QED
      BY <3>1, FS_Interval
  <2> QED
    BY <1>1, <2>1
<1>3. Placed(f, k, m, p) \subseteq 0 .. ClusterAt(f, m).num - 1
  BY DEF Placed
<1> QED
  BY <1>2, <1>3, FS_Subset

(* The cursor of a loop passes one entry.                                  *)
Following(p, n) == IF p[2] + 1 = n THEN <<p[1] + 1, 0>> ELSE <<p[1], p[2] + 1>>

LEMMA Passed ==
  \A a, b, m, l \in Nat : \A n \in Nat : b < n /\ (m = a => l < n) =>
    (Before(<<m, l>>, Following(<<a, b>>, n)) <=> Before(<<m, l>>, <<a, b>>) \/ (m = a /\ l = b))
  BY DEF Before, Following

LEMMA PassedNone ==
  \A a, m, l \in Nat : m # a => (Before(<<m, l>>, <<a + 1, 0>>) <=> Before(<<m, l>>, <<a, 0>>))
  BY DEF Before

(* A model placed once more has one more matrix.                            *)
LEMMA CountAppended ==
  ASSUME NEW s \in Seq(Nat), NEW m
  PROVE  /\ \A n : n # m => Occurrences(Append(s, m), n) = Occurrences(s, n)
         /\ Cardinality(Occurrences(Append(s, m), m)) = Cardinality(Occurrences(s, m)) + 1
<1> DEFINE t == Append(s, m)
<1>1. /\ Len(t) = Len(s) + 1 /\ Len(s) \in Nat
      /\ t[Len(s) + 1] = m /\ \A i \in 1 .. Len(s) : t[i] = s[i]
  BY Appended, LenProperties
<1> HIDE DEF t
<1>2. \A i : i \in 1 .. Len(t) <=> i \in 1 .. Len(s) \/ i = Len(s) + 1
  BY <1>1
<1>3. \A n : n # m => Occurrences(t, n) = Occurrences(s, n)
  BY <1>1, <1>2 DEF Occurrences
<1>4. Occurrences(t, m) = Occurrences(s, m) \cup {Len(s) + 1} /\ Len(s) + 1 \notin Occurrences(s, m)
  BY <1>1, <1>2 DEF Occurrences
<1>5. IsFiniteSet(Occurrences(s, m))
  <2>1. Occurrences(s, m) \subseteq 1 .. Len(s)
    BY DEF Occurrences
  <2>2. IsFiniteSet(1 .. Len(s))
    BY <1>1, FS_Interval
  <2> QED
    BY <2>1, <2>2, FS_Subset
<1>6. Cardinality(Occurrences(s, m) \cup {Len(s) + 1}) = Cardinality(Occurrences(s, m)) + 1
  BY <1>4, <1>5, FS_AddElement
<1>7. Cardinality(Occurrences(t, m)) = Cardinality(Occurrences(s, m)) + 1
  BY <1>4, <1>6, Zenon
<1> QED
  BY <1>3, <1>7, Zenon DEF t

(* The loop passes entry b of matrix a: model k is placed, or is not.      *)
OnePlaced(f, k, a, b, m, p, r) ==
  IF m = a /\ ListsAt(f, ClusterAt(f, a), b, k)
  THEN b \notin Placed(f, k, m, p) /\ Placed(f, k, m, r) = Placed(f, k, m, p) \cup {b}
  ELSE Placed(f, k, m, r) = Placed(f, k, m, p)

LEMMA PlacedPassed ==
  ASSUME NEW f, ObjectFile(f), NEW k, NEW a \in 0 .. Len(f.matrices) - 1,
         NEW b \in Nat, b < ClusterAt(f, a).num,
         NEW p, p = <<a, b>>, NEW r, r = Following(p, ClusterAt(f, a).num),
         NEW m \in 0 .. Len(f.matrices) - 1
  PROVE  OnePlaced(f, k, a, b, m, p, r)
<1> DEFINE n == ClusterAt(f, a).num
           c == ClusterAt(f, m)
<1>1. m \in Nat /\ a \in Nat /\ n \in Nat /\ c.num \in Nat
  BY ClusterFacts
<1>2. m = a => c.num = n
  OBVIOUS
<1> HIDE DEF n
<1>3. \A l \in 0 .. c.num - 1 :
        Before(<<m, l>>, r) <=> Before(<<m, l>>, p) \/ (m = a /\ l = b)
  <2> TAKE l \in 0 .. c.num - 1
  <2>1. l \in Nat /\ l < c.num
    BY <1>1
  <2> QED
    BY <1>1, <1>2, <2>1, Passed DEF n
<1>4. ~(m = a /\ Before(<<m, b>>, p))
  BY <1>1 DEF Before
<1>5. m = a => b \in 0 .. c.num - 1
  BY <1>1, <1>2 DEF n
<1>6. CASE m = a /\ ListsAt(f, ClusterAt(f, a), b, k)
  <2>1. b \notin Placed(f, k, m, p)
    BY <1>4, <1>6 DEF Placed
  <2>2. \A l : l \in Placed(f, k, m, r) <=> l \in Placed(f, k, m, p) \/ l = b
    BY <1>3, <1>5, <1>6, Zenon DEF Placed
  <2> QED
    <3>1. Placed(f, k, m, r) = Placed(f, k, m, p) \cup {b}
      BY <2>2
    <3> QED
      BY <1>6, <2>1, <3>1, Zenon DEF OnePlaced
<1>7. CASE ~(m = a /\ ListsAt(f, ClusterAt(f, a), b, k))
  <2>1. \A l : l \in Placed(f, k, m, r) <=> l \in Placed(f, k, m, p)
    BY <1>3, <1>7, Zenon DEF Placed
  <2> QED
    <3>1. Placed(f, k, m, r) = Placed(f, k, m, p)
      BY <2>1
    <3> QED
      BY <1>7, <3>1, Zenon DEF OnePlaced
<1> QED
  BY <1>6, <1>7

LEMMA PlacedSkipped ==
  ASSUME NEW f, ObjectFile(f), NEW k, NEW a \in 0 .. Len(f.matrices) - 1,
         ClusterAt(f, a).num = 0, NEW p, p = <<a, 0>>, NEW r, r = <<a + 1, 0>>,
         NEW m \in 0 .. Len(f.matrices) - 1
  PROVE  Placed(f, k, m, r) = Placed(f, k, m, p)
<1>1. m \in Nat /\ a \in Nat /\ ClusterAt(f, m).num \in Nat
  BY ClusterFacts
<1>2. \A l \in 0 .. ClusterAt(f, m).num - 1 : Before(<<m, l>>, r) <=> Before(<<m, l>>, p)
  <2> TAKE l \in 0 .. ClusterAt(f, m).num - 1
  <2>1. l \in Nat /\ m # a
    BY <1>1
  <2> QED
    BY <1>1, <2>1, PassedNone
<1> QED
  BY <1>2 DEF Placed

(* A list that gets no entry, and one that does.                           *)
LEMMA PlacedKept ==
  ASSUME NEW f, NEW k, NEW s, NEW p, NEW r, PlacedTo(f, k, s, p),
         p[1] \in Nat, r[1] \in Nat, p[1] <= r[1],
         \A m \in 0 .. Len(f.matrices) - 1 : Placed(f, k, m, r) = Placed(f, k, m, p)
  PROVE  PlacedTo(f, k, s, r)
<1>1. \A i \in 1 .. Len(s) : s[i] \in Nat
  BY LenProperties DEF PlacedTo
<1>2. \A i \in 1 .. Len(s) : s[i] <= r[1]
  BY <1>1 DEF PlacedTo
<1> QED
  BY <1>2 DEF PlacedTo

LEMMA PlacedMore ==
  ASSUME NEW f, ObjectFile(f), NEW k, NEW a \in 0 .. Len(f.matrices) - 1,
         NEW b \in Nat, b < ClusterAt(f, a).num,
         NEW p, p = <<a, b>>, NEW r, r = Following(p, ClusterAt(f, a).num),
         NEW s, PlacedTo(f, k, s, p), ListsAt(f, ClusterAt(f, a), b, k)
  PROVE  PlacedTo(f, k, Append(s, a), r)
<1> DEFINE t == Append(s, a)
<1>1. a \in Nat /\ s \in Seq(Nat) /\ Len(f.matrices) \in Nat
  BY ClusterFacts DEF PlacedTo
<1>2. t \in Seq(Nat)
  BY <1>1, AppendProperties
<1>3. /\ Len(t) = Len(s) + 1 /\ Len(s) \in Nat
      /\ t[Len(s) + 1] = a /\ \A i \in 1 .. Len(s) : t[i] = s[i]
  BY <1>1, Appended, LenProperties
<1>4. \A m \in 0 .. Len(f.matrices) - 1 :
        Cardinality(Occurrences(t, m)) = Cardinality(Placed(f, k, m, r))
  <2> TAKE m \in 0 .. Len(f.matrices) - 1
  <2>1. Cardinality(Occurrences(s, m)) = Cardinality(Placed(f, k, m, p))
    BY DEF PlacedTo
  <2>2. CASE m = a
    <3>1. Placed(f, k, m, r) = Placed(f, k, m, p) \cup {b} /\ b \notin Placed(f, k, m, p)
      <4>1. OnePlaced(f, k, a, b, m, p, r)
        BY PlacedPassed
      <4> QED
        BY <2>2, <4>1 DEF OnePlaced
    <3> DEFINE A == Placed(f, k, m, p)
               B == Placed(f, k, m, r)
    <3>2. Cardinality(B) = Cardinality(A) + 1
      <4>1. IsFiniteSet(A) /\ B = A \cup {b} /\ b \notin A
        BY <3>1, PlacedFinite
      <4> HIDE DEF A, B
      <4> QED
        BY <4>1, FS_AddElement
    <3>3. Cardinality(Occurrences(t, m)) = Cardinality(Occurrences(s, m)) + 1
      BY <1>1, <2>2, CountAppended
    <3> QED
      BY <2>1, <3>2, <3>3
  <2>3. CASE m # a
    <3>1. Placed(f, k, m, r) = Placed(f, k, m, p)
      <4>1. OnePlaced(f, k, a, b, m, p, r)
        BY PlacedPassed
      <4> QED
        BY <2>3, <4>1 DEF OnePlaced
    <3>2. Occurrences(t, m) = Occurrences(s, m)
      BY <1>1, <2>3, CountAppended, Zenon
    <3> QED
      BY <2>1, <3>1, <3>2
  <2> QED
    BY <2>2, <2>3
<1> HIDE DEF t
<1>5. p[1] = a /\ r[1] \in Nat /\ a <= r[1]
  BY <1>1 DEF Following
<1>6. \A i \in 1 .. Len(s) : s[i] \in Nat /\ s[i] <= a
  BY <1>1, <1>5, LenProperties DEF PlacedTo
<1>7. \A i \in 1 .. Len(t) : t[i] \in Nat /\ t[i] <= a
  BY <1>1, <1>3, <1>6, SMTT(20)
<1>8. \A i \in 1 .. Len(t) : t[i] <= r[1]
  BY <1>1, <1>5, <1>7
<1>9. ASSUME NEW i \in 1 .. Len(t), NEW j \in 1 .. Len(t), i < j PROVE t[i] <= t[j]
  <2>1. CASE j \in 1 .. Len(s)
    <3>1. i \in 1 .. Len(s)
      BY <1>3, <1>9, <2>1
    <3> QED
      BY <1>3, <1>9, <2>1, <3>1 DEF PlacedTo
  <2>2. CASE j = Len(s) + 1
    BY <1>3, <1>7, <2>2
  <2> QED
    BY <1>3, <2>1, <2>2
<1>10. PlacedTo(f, k, t, r)
  BY <1>2, <1>4, <1>8, <1>9 DEF PlacedTo
<1> QED
  BY <1>10 DEF t

LEMMA PlacedNone ==
  ASSUME NEW f, ObjectFile(f), NEW k PROVE PlacedTo(f, k, <<>>, <<0, 0>>)
<1>1. <<>> \in Seq(Nat) /\ Len(<<>>) = 0 /\ Cardinality({}) = 0
  BY EmptySeq, FS_EmptySet
<1>2. \A m, l \in Nat : ~Before(<<m, l>>, <<0, 0>>)
  BY DEF Before
<1>3. \A m \in 0 .. Len(f.matrices) - 1 : Placed(f, k, m, <<0, 0>>) = {}
  <2> TAKE m \in 0 .. Len(f.matrices) - 1
  <2>1. m \in Nat /\ ClusterAt(f, m).num \in Nat
    BY ClusterFacts
  <2>2. \A l \in 0 .. ClusterAt(f, m).num - 1 : l \in Nat
    BY <2>1
  <2> QED
    BY <1>2, <2>1, <2>2 DEF Placed
<1>4. \A m : Occurrences(<<>>, m) = {}
  BY <1>1 DEF Occurrences
<1>5. \A m \in 0 .. Len(f.matrices) - 1 :
        Cardinality(Occurrences(<<>>, m)) = Cardinality(Placed(f, k, m, <<0, 0>>))
  BY <1>3, <1>4, Zenon
<1>6. ASSUME NEW s, s = <<>>, NEW p, p = <<0, 0>> PROVE PlacedTo(f, k, s, p)
  BY <1>1, <1>5, <1>6 DEF PlacedTo
<1> QED
  BY <1>6, Zenon

(* All matrices have had their turn.                                       *)
LEMMA PlacedAll ==
  ASSUME NEW f, ObjectFile(f), NEW k, NEW p, p[1] = Len(f.matrices),
         NEW s, PlacedTo(f, k, s, p)
  PROVE  /\ PlacedTo(f, k, s, <<Len(f.matrices), 0>>)
         /\ \A m \in 0 .. Len(f.matrices) - 1 :
              Placed(f, k, m, p) = {l \in 0 .. ClusterAt(f, m).num - 1 : ListsAt(f, ClusterAt(f, m), l, k)}
<1> DEFINE r == <<Len(f.matrices), 0>>
<1>1. Len(f.matrices) \in Nat
  BY LenProperties DEF ObjectFile, ListsFit
<1>2. \A x : \A m \in 0 .. Len(f.matrices) - 1 : \A l : x[1] = Len(f.matrices) => Before(<<m, l>>, x)
  BY <1>1 DEF Before
<1>3. r[1] = Len(f.matrices)
  OBVIOUS
<1> HIDE DEF r
<1>4. \A m \in 0 .. Len(f.matrices) - 1 : Placed(f, k, m, r) = Placed(f, k, m, p)
  BY <1>2, <1>3 DEF Placed
<1>5. PlacedTo(f, k, s, r)
  BY <1>1, <1>3, <1>4, PlacedKept
<1> QED
  BY <1>2, <1>5 DEF Placed, r

(* The levels the clusters list up to q.                                   *)
LEMMA LevelBound ==
  ASSUME NEW f, ObjectFile(f), NEW c \in 1 .. Len(f.clusters)
  PROVE  c - 1 \in Nat /\ f.clusters[c].num \in Nat /\ Len(f.clusters) \in Nat
         /\ \A l \in 0 .. f.clusters[c].num - 1 : l \in Nat /\ l < f.clusters[c].num
<1>1. f.clusters[c].num \in 0 .. Levels /\ Len(f.clusters) \in Nat /\ Levels \in Nat
  BY SceneAssumption DEF ObjectFile, LevelsFit
<1> QED
  BY <1>1

LevelStep(f, k, l, q, r, a, b) ==
  LevelAt(f, k, l, r) <=> LevelAt(f, k, l, q) \/ (l = b /\ ListsAt(f, f.clusters[a], b, k))

LEMMA LevelPassed ==
  ASSUME NEW f, ObjectFile(f), NEW a \in 1 .. Len(f.clusters),
         NEW b \in Nat, b < f.clusters[a].num,
         NEW q, q = <<a - 1, b>>, NEW r, r = Following(q, f.clusters[a].num),
         NEW k, NEW l
  PROVE  LevelStep(f, k, l, q, r, a, b)
<1> DEFINE n == f.clusters[a].num
           A == a - 1
<1>1. A \in Nat /\ n \in Nat
  BY LevelBound
<1>2. ASSUME NEW c \in 1 .. Len(f.clusters), l \in 0 .. f.clusters[c].num - 1
      PROVE  Before(<<c - 1, l>>, r) <=> Before(<<c - 1, l>>, q) \/ (c = a /\ l = b)
  <2>1. c - 1 \in Nat /\ l \in Nat /\ (c = a => l < n) /\ (c - 1 = A <=> c = a)
    BY <1>2, LevelBound
  <2> HIDE DEF A, n
  <2>2. PICK C : C = c - 1
    OBVIOUS
  <2>3. q = <<A, b>> /\ r = Following(q, n) /\ b < n
    BY DEF A, n
  <2>4. Before(<<C, l>>, r) <=> Before(<<C, l>>, q) \/ (C = A /\ l = b)
    BY <1>1, <2>1, <2>2, <2>3, Passed
  <2> QED
    BY <2>1, <2>2, <2>4
<1>3. b \in 0 .. n - 1
  BY <1>1
<1> HIDE DEF n, A
<1>4. \A c \in 1 .. Len(f.clusters) :
        /\ l \in 0 .. f.clusters[c].num - 1
        /\ ListsAt(f, f.clusters[c], l, k)
        /\ Before(<<c - 1, l>>, r)
        => LevelAt(f, k, l, q) \/ (l = b /\ ListsAt(f, f.clusters[a], b, k))
  BY <1>2, Zenon DEF LevelAt
<1>5. LevelAt(f, k, l, q) => LevelAt(f, k, l, r)
  BY <1>2, Zenon DEF LevelAt
<1>6. l = b /\ ListsAt(f, f.clusters[a], b, k) => LevelAt(f, k, l, r)
  BY <1>2, <1>3, Zenon DEF LevelAt, n
<1> QED
  BY <1>4, <1>5, <1>6, Zenon DEF LevelAt, LevelStep

LEMMA LevelSkipped ==
  ASSUME NEW f, ObjectFile(f), NEW a \in 1 .. Len(f.clusters), f.clusters[a].num = 0,
         NEW q, q = <<a - 1, 0>>, NEW r, r = <<a, 0>>, NEW k, NEW l
  PROVE  LevelAt(f, k, l, r) <=> LevelAt(f, k, l, q)
<1>1. ASSUME NEW c \in 1 .. Len(f.clusters), l \in 0 .. f.clusters[c].num - 1
      PROVE  Before(<<c - 1, l>>, r) <=> Before(<<c - 1, l>>, q)
  <2>1. c - 1 \in Nat /\ l \in Nat /\ c # a /\ a - 1 \in Nat
    BY <1>1, LevelBound
  <2>2. PICK C, A : C = c - 1 /\ A = a - 1 /\ C \in Nat /\ A \in Nat /\ C # A /\ a = A + 1
    BY <2>1
  <2>3. Before(<<C, l>>, <<A + 1, 0>>) <=> Before(<<C, l>>, <<A, 0>>)
    BY <2>1, <2>2, PassedNone
  <2> QED
    BY <2>2, <2>3
<1> QED
  BY <1>1, Zenon DEF LevelAt

LEMMA LevelNone ==
  ASSUME NEW f, ObjectFile(f), NEW k, NEW l PROVE ~LevelAt(f, k, l, <<0, 0>>)
<1>1. \A m, n \in Nat : ~Before(<<m, n>>, <<0, 0>>)
  BY DEF Before
<1>2. \A c \in 1 .. Len(f.clusters) : l \in 0 .. f.clusters[c].num - 1 => ~Before(<<c - 1, l>>, <<0, 0>>)
  BY <1>1, LevelBound
<1> QED
  BY <1>2, Zenon DEF LevelAt

LEMMA LevelAll ==
  ASSUME NEW f, ObjectFile(f), NEW k, NEW l, NEW q, q[1] = Len(f.clusters)
  PROVE  LevelAt(f, k, l, q) <=>
           \E c \in 1 .. Len(f.clusters) :
             l \in 0 .. f.clusters[c].num - 1 /\ ListsAt(f, f.clusters[c], l, k)
<1>1. \A c \in 1 .. Len(f.clusters) : Before(<<c - 1, l>>, q)
  BY LevelBound DEF Before
<1> QED
  BY <1>1, Zenon DEF LevelAt

(* The loader: nothing is loaded, nothing is passed.                        *)
LEMMA LoadedRightInit == SceneInit => LoadedRight
<1> SUFFICES ASSUME SceneInit PROVE LoadedRight
  OBVIOUS
<1>1. file \in ModelFiles /\ models = <<>> /\ stage = "models" /\ cursor = <<0, 0>>
  BY DEF SceneInit, Loader!Init
<1>2. Len(models) = 0 /\ Len(file.meshes) \in Nat
  BY <1>1, EmptySeq, SceneAssumption DEF LevelsFit
<1> QED
  BY <1>1, <1>2 DEF LoadedRight

LEMMA Reached ==
  \A f, x :
    /\ PlaceReached(f, "models", x) = <<0, 0>> /\ LevelReached(f, "models", x) = <<0, 0>>
    /\ PlaceReached(f, "place", x) = x /\ LevelReached(f, "place", x) = <<0, 0>>
    /\ PlaceReached(f, "lods", x) = <<Len(f.matrices), 0>> /\ LevelReached(f, "lods", x) = x
    /\ PlaceReached(f, "ready", x) = <<Len(f.matrices), 0>>
    /\ LevelReached(f, "ready", x) = <<Len(f.clusters), 0>>
  BY DEF PlaceReached, LevelReached

(* The file being converted is one of the trusted ones.                     *)
LEMMA FileFits ==
  LoaderRight => /\ LevelsFit(file) /\ ListsFit(file) /\ Len(file.meshes) \in Nat
                 /\ file.kind = "im" => ObjectFile(file)
                 /\ (\E S : models \in Seq(S)) /\ Len(models) \in Nat
  BY SceneAssumption, LenProperties DEF LoaderRight, LevelsFit, ObjectFile, AreModels

(* A model is loaded.                                                      *)
LEMMA ModelLoadedAdded ==
  ASSUME LoaderRight, LoadedRight, Loader!MoreMeshes, file.kind \in {"im", "tm"},
         UNCHANGED <<file, stage, cursor>>,
         NEW m, models' = Append(models, m),
         ModelLoaded(file, Len(models) + 1, m, <<0, 0>>, <<0, 0>>)
  PROVE  LoadedRight'
<1>1. stage = "models" /\ cursor = <<0, 0>> /\ Len(models) < Len(file.meshes)
  BY DEF LoadedRight, Loader!MoreMeshes
<1>2. PICK S : models \in Seq(S)
  BY FileFits
<1> DEFINE new == Append(models, m)
<1>3. /\ Len(new) = Len(models) + 1 /\ Len(models) \in Nat /\ Len(file.meshes) \in Nat
      /\ new[Len(models) + 1] = m /\ \A i \in 1 .. Len(models) : new[i] = models[i]
  BY <1>2, Appended, FileFits
<1>4. models' = new
  OBVIOUS
<1> HIDE DEF new
<1>5. \A k \in 1 .. Len(models) : ModelLoaded(file, k, models[k], <<0, 0>>, <<0, 0>>)
  BY <1>1, Reached DEF LoadedRight
<1>6. \A k \in 1 .. Len(new) : ModelLoaded(file, k, new[k], <<0, 0>>, <<0, 0>>)
  <2> TAKE k \in 1 .. Len(new)
  <2>1. CASE k \in 1 .. Len(models)
    BY <1>3, <1>5, <2>1
  <2>2. CASE k = Len(models) + 1
    BY <1>3, <2>2
  <2> QED
    BY <1>3, <2>1, <2>2
<1>7. Len(models') <= Len(file.meshes)
  BY <1>1, <1>3, <1>4
<1>8. \A k \in 1 .. Len(models') :
        ModelLoaded(file', k, models'[k], PlaceReached(file', stage', cursor'),
                    LevelReached(file', stage', cursor'))
  BY <1>1, <1>4, <1>6, Reached
<1> QED
  BY <1>1, <1>7, <1>8 DEF LoadedRight

LEMMA LoadObjectLoaded == ASSUME LoaderRight, LoadedRight, Loader!LoadObject PROVE LoadedRight'
<1> DEFINE K == Len(models) + 1
           m == [stream |-> file.streams[K], lod |-> 0, matrices |-> <<>>, prims |-> file.meshes[K]]
<1>1. /\ models' = Append(models, m) /\ UNCHANGED <<file, stage, cursor>>
      /\ Loader!MoreMeshes /\ file.kind = "im"
  BY DEF Loader!LoadObject, Loader!AddModel, Loader!Elem
<1>2. ObjectFile(file)
  BY <1>1, FileFits
<1>3. /\ m.stream = StreamOfMesh(file, K) /\ m.prims = file.meshes[K]
      /\ m.matrices = <<>> /\ {"stream", "lod", "matrices", "prims"} \subseteq DOMAIN m
  BY <1>1 DEF StreamOfMesh
<1> HIDE DEF m, K
<1>4. PlacedTo(file, K - 1, m.matrices, <<0, 0>>) /\ LevelledTo(file, K - 1, m.lod, <<0, 0>>)
  BY <1>2, <1>3, PlacedNone, LevelNone DEF LevelledTo
<1>5. ModelLoaded(file, K, m, <<0, 0>>, <<0, 0>>)
  BY <1>1, <1>3, <1>4 DEF ModelLoaded
<1> QED
  BY <1>1, <1>5, ModelLoadedAdded DEF K

LEMMA LoadTerrainLoaded == ASSUME LoaderRight, LoadedRight, Loader!LoadTerrain PROVE LoadedRight'
<1> DEFINE K == Len(models) + 1
           big == file.meshIndices[K]
           n == Len(file.lookups)
           lod == big \div n
           m == [stream |-> file.lookups[(big % n) + 1][lod + 1], lod |-> lod,
                 matrices |-> <<>>, prims |-> file.meshes[K]]
<1>1. /\ models' = Append(models, m) /\ UNCHANGED <<file, stage, cursor>>
      /\ Loader!MoreMeshes /\ file.kind = "tm"
  BY DEF Loader!LoadTerrain, Loader!AddModel, Loader!Elem
<1>2. /\ m.stream = StreamOfMesh(file, K) /\ m.prims = file.meshes[K]
      /\ m.matrices = <<>> /\ {"stream", "lod", "matrices", "prims"} \subseteq DOMAIN m
      /\ m.lod = file.meshIndices[K] \div Len(file.lookups)
  BY <1>1 DEF StreamOfMesh
<1> HIDE DEF m, K
<1>3. ModelLoaded(file, K, m, <<0, 0>>, <<0, 0>>)
  BY <1>1, <1>2 DEF ModelLoaded
<1> QED
  BY <1>1, <1>3, ModelLoadedAdded DEF K

(* The loop of a stage ends, or passes something that lists no model.      *)
LEMMA LoadedKept ==
  ASSUME LoaderRight, LoadedRight, UNCHANGED <<file, models>>, stage # "failed",
         NEW p, p = PlaceReached(file, stage, cursor), NEW q, q = LevelReached(file, stage, cursor),
         NEW r, r = PlaceReached(file, stage', cursor'),
         NEW t, t = LevelReached(file, stage', cursor'),
         file.kind = "im" =>
           \A k, s, lod : /\ PlacedTo(file, k, s, p) => PlacedTo(file, k, s, r)
                          /\ LevelledTo(file, k, lod, q) => LevelledTo(file, k, lod, t)
  PROVE  \A k \in 1 .. Len(models') :
           ModelLoaded(file', k, models'[k], PlaceReached(file', stage', cursor'),
                       LevelReached(file', stage', cursor'))
<1> SUFFICES ASSUME NEW k \in 1 .. Len(models) PROVE ModelLoaded(file, k, models[k], r, t)
  OBVIOUS
<1>1. ModelLoaded(file, k, models[k], p, q)
  BY DEF LoadedRight
<1> QED
  BY <1>1 DEF ModelLoaded

LEMMA EndModelsLoaded == ASSUME LoaderRight, LoadedRight, Loader!EndModels PROVE LoadedRight'
<1>1. /\ stage = "models" /\ cursor = <<0, 0>> /\ file.kind \in {"im", "tm"}
      /\ Len(models) = Len(file.meshes) /\ UNCHANGED <<file, models, cursor>>
      /\ stage' = IF file.kind = "im" THEN "place" ELSE "ready"
  BY DEF Loader!EndModels, LoadedRight
<1>2. file.kind = "im" => /\ PlaceReached(file, stage', cursor') = <<0, 0>>
                          /\ LevelReached(file, stage', cursor') = <<0, 0>>
  BY <1>1, Reached
<1>3. PlaceReached(file, stage, cursor) = <<0, 0>> /\ LevelReached(file, stage, cursor) = <<0, 0>>
  BY <1>1, Reached
<1>4. \A k \in 1 .. Len(models') :
        ModelLoaded(file', k, models'[k], PlaceReached(file', stage', cursor'),
                    LevelReached(file', stage', cursor'))
  BY <1>1, <1>2, <1>3, LoadedKept
<1>5. stage' = "place" => 0 <= Len(file.matrices)
  BY <1>1, FileFits, LenProperties DEF ListsFit
<1> QED
  BY <1>1, <1>4, <1>5 DEF LoadedRight

LEMMA SkipMatrixLoaded == ASSUME LoaderRight, LoadedRight, Loader!SkipMatrix PROVE LoadedRight'
<1> DEFINE a == cursor[1]
<1>1. /\ stage = "place" /\ a < Len(file.matrices) /\ ClusterAt(file, a).num = 0
      /\ cursor' = <<a + 1, 0>> /\ UNCHANGED <<file, models, stage>>
  BY DEF Loader!SkipMatrix, Loader!MoreMatrices, Loader!Matrix, Loader!Advance, Loader!Cluster,
     Loader!Elem, ClusterAt
<1>2. cursor \in Nat \X Nat /\ file.kind = "im" /\ ObjectFile(file) /\ Len(file.matrices) \in Nat
  BY <1>1, FileFits, LenProperties DEF LoaderRight, ObjectFile, ListsFit
<1>3. cursor[2] = 0
  BY <1>1, <1>2 DEF LoadedRight
<1>4. cursor = <<a, 0>> /\ a \in 0 .. Len(file.matrices) - 1
  BY <1>1, <1>2, <1>3
<1> HIDE DEF a
<1>5. ASSUME NEW k, NEW s, PlacedTo(file, k, s, cursor) PROVE PlacedTo(file, k, s, cursor')
  <2>1. \A m \in 0 .. Len(file.matrices) - 1 : Placed(file, k, m, cursor') = Placed(file, k, m, cursor)
    BY <1>1, <1>2, <1>4, PlacedSkipped
  <2>2. cursor[1] = a /\ cursor'[1] = a + 1 /\ a \in Nat
    BY <1>1, <1>2, <1>4
  <2>3. cursor[1] \in Nat /\ cursor'[1] \in Nat /\ cursor[1] <= cursor'[1]
    BY <2>2
  <2> QED
    BY <1>5, <2>1, <2>3, PlacedKept
<1>6. \A k \in 1 .. Len(models') :
        ModelLoaded(file', k, models'[k], PlaceReached(file', stage', cursor'),
                    LevelReached(file', stage', cursor'))
  BY <1>1, <1>5, Reached, LoadedKept
<1>7. cursor'[1] <= Len(file.matrices) /\ cursor'[2] = 0
  BY <1>1, <1>2, <1>4
<1> QED
  BY <1>1, <1>2, <1>6, <1>7 DEF LoadedRight

(* An entry of modelLODs names a model once its sign is taken off.          *)
LEMMA IndexOfModel ==
  ASSUME NEW f, ObjectFile(f), NEW c \in 1 .. Len(f.clusters), NEW l \in Nat, l < f.clusters[c].num
  PROVE  Loader!ModelIndex(f.modelLODs[f.clusters[c].start + l + 1]) \in Nat
<1> DEFINE i == f.clusters[c].start + l + 1
           x == f.modelLODs[i]
<1>1. /\ f.clusters[c].num \in Nat /\ f.clusters[c].start \in Nat
      /\ f.clusters[c].start + f.clusters[c].num <= Len(f.modelLODs)
      /\ f.modelLODs \in Seq(-SignBit .. SignBit - 1) /\ SignBit \in Nat
  BY LevelBound, SceneAssumption DEF ObjectFile, ListsFit
<1>2. Len(f.modelLODs) \in Nat /\ \A j \in 1 .. Len(f.modelLODs) : f.modelLODs[j] \in -SignBit .. SignBit - 1
  BY <1>1, LenProperties
<1>3. i \in 1 .. Len(f.modelLODs)
  <2>1. \A n, t, e, j \in Nat : t + n <= e /\ j < n => t + j + 1 \in 1 .. e
    OBVIOUS
  <2> QED
    BY <1>1, <1>2, <2>1, Zenon
<1>4. x \in -SignBit .. SignBit - 1
  BY <1>2, <1>3
<1> HIDE DEF x, i
<1>5. Loader!ModelIndex(x) \in Nat
  BY <1>1, <1>4 DEF Loader!ModelIndex
<1> QED
  BY <1>5 DEF x, i

(* An action that changes one model.                                       *)
LEMMA ModelEdited ==
  ASSUME LoaderRight, NEW K \in Nat, K < Len(models), NEW m, NEW new,
         new = [models EXCEPT ![K + 1] = m]
  PROVE  /\ Len(new) = Len(models)
         /\ \A k \in 1 .. Len(models) : new[k] = IF k - 1 = K THEN m ELSE models[k]
<1>1. PICK S : models \in Seq(S)
  BY FileFits
<1>2. Len(new) = Len(models)
  BY <1>1, Changed
<1>3. DOMAIN models = 1 .. Len(models) /\ Len(models) \in Nat
  BY <1>1, LenProperties
<1> QED
  BY <1>2, <1>3

LEMMA PlaceMatrixLoaded == ASSUME LoaderRight, LoadedRight, Loader!PlaceMatrix PROVE LoadedRight'
<1> DEFINE a == cursor[1]
           b == cursor[2]
           c == ClusterAt(file, a)
           K == Loader!ModelIndex(file.modelLODs[c.start + b + 1])
           m == [models[K + 1] EXCEPT !.matrices = Append(@, a)]
<1>1. /\ stage = "place" /\ a < Len(file.matrices) /\ c.num > 0 /\ K < Len(models)
      /\ models' = [models EXCEPT ![K + 1] = m]
      /\ cursor' = Following(cursor, c.num) /\ UNCHANGED <<file, stage>>
  BY Zenon DEF Loader!PlaceMatrix, Loader!MoreMatrices, Loader!Matrix, Loader!Advance, Loader!Cluster,
     Loader!Elem, Loader!Known, Loader!Listed, ClusterAt, Following
<1>2. cursor \in Nat \X Nat /\ file.kind = "im" /\ ObjectFile(file) /\ Len(file.matrices) \in Nat
  BY <1>1, FileFits, LenProperties DEF LoaderRight, ObjectFile, ListsFit
<1>3. cursor = <<a, b>> /\ a \in 0 .. Len(file.matrices) - 1 /\ b \in Nat
  BY <1>1, <1>2
<1>4. c.num \in Nat /\ b < c.num
  BY <1>1, <1>2, <1>3, ClusterFacts DEF LoadedRight
<1>5. K \in Nat /\ ListsAt(file, c, b, K)
  <2>1. file.matrices[a + 1] + 1 \in 1 .. Len(file.clusters)
    BY <1>2, <1>3, ClusterFacts
  <2>2. K \in Nat
    BY <1>2, <1>3, <1>4, <2>1, IndexOfModel DEF ClusterAt
  <2> QED
    BY <2>2 DEF ListsAt
<1>6. \A k \in 1 .. Len(models) : ModelLoaded(file, k, models[k], cursor, <<0, 0>>)
  BY <1>1, Reached, Zenon DEF LoadedRight
<1>7. K + 1 \in 1 .. Len(models)
  <2> HIDE DEF K
  <2> QED
    BY <1>1, <1>5, FileFits
<1>8. /\ Len(models') = Len(models)
      /\ \A k \in 1 .. Len(models) : models'[k] = IF k - 1 = K THEN m ELSE models[k]
  <2> HIDE DEF K, m
  <2> QED
    BY <1>1, <1>5, ModelEdited
<1>9. /\ m.stream = models[K + 1].stream /\ m.prims = models[K + 1].prims
      /\ m.lod = models[K + 1].lod /\ DOMAIN m = DOMAIN models[K + 1]
      /\ m.matrices = Append(models[K + 1].matrices, a)
  BY <1>5, <1>6, <1>7, Zenon DEF ModelLoaded
<1>10. \A k : k # K => ~ListsAt(file, c, b, k)
  BY DEF ListsAt
<1> HIDE DEF a, b, K, m
<1>11. cursor[1] \in Nat /\ cursor'[1] \in Nat /\ cursor[1] <= cursor'[1] /\ cursor'[1] <= Len(file.matrices)
  BY <1>1, <1>2, <1>3, <1>4 DEF Following
<1>12. ASSUME NEW k, k # K, NEW s, PlacedTo(file, k, s, cursor) PROVE PlacedTo(file, k, s, cursor')
  <2>1. \A n \in 0 .. Len(file.matrices) - 1 : Placed(file, k, n, cursor') = Placed(file, k, n, cursor)
    <3> TAKE n \in 0 .. Len(file.matrices) - 1
    <3>1. OnePlaced(file, k, a, b, n, cursor, cursor')
      BY <1>1, <1>2, <1>3, <1>4, PlacedPassed
    <3> QED
      BY <1>10, <1>12, <3>1 DEF OnePlaced
  <2> QED
    BY <1>11, <1>12, <2>1, PlacedKept
<1>13. ASSUME NEW s, PlacedTo(file, K, s, cursor) PROVE PlacedTo(file, K, Append(s, a), cursor')
  BY <1>1, <1>2, <1>3, <1>4, <1>5, <1>13, PlacedMore
<1>14. \A k \in 1 .. Len(models) : ModelLoaded(file, k, models'[k], cursor', <<0, 0>>)
  <2> TAKE k \in 1 .. Len(models)
  <2>1. ModelLoaded(file, k, models[k], cursor, <<0, 0>>)
    BY <1>6
  <2>2. CASE k - 1 = K
    <3>1. k = K + 1 /\ models'[k] = m
      BY <1>8, <2>2, <1>5
    <3>2. PlacedTo(file, k - 1, m.matrices, cursor')
      BY <1>2, <1>9, <1>13, <2>1, <2>2, <3>1 DEF ModelLoaded
    <3> QED
      BY <1>2, <1>9, <2>1, <3>1, <3>2 DEF ModelLoaded
  <2>3. CASE k - 1 # K
    <3>1. models'[k] = models[k]
      BY <1>8, <2>3
    <3> QED
      BY <1>2, <1>12, <2>1, <2>3, <3>1 DEF ModelLoaded
  <2> QED
    BY <2>2, <2>3
<1>15. \A k \in 1 .. Len(models') :
        ModelLoaded(file', k, models'[k], PlaceReached(file', stage', cursor'),
                    LevelReached(file', stage', cursor'))
  BY <1>1, <1>8, <1>14, Reached
<1>16. cursor'[1] < Len(file.matrices) => cursor'[2] = 0 \/ cursor'[2] < ClusterAt(file, cursor'[1]).num
  <2>1. cursor'[2] = 0 \/ (cursor'[1] = a /\ cursor'[2] = b + 1 /\ b + 1 # c.num)
    BY <1>1, <1>3 DEF Following
  <2> QED
    BY <1>3, <1>4, <2>1
<1> QED
  BY <1>1, <1>2, <1>8, <1>11, <1>15, <1>16 DEF LoadedRight

LEMMA EndPlacesLoaded == ASSUME LoaderRight, LoadedRight, Loader!EndPlaces PROVE LoadedRight'
<1>1. /\ stage = "place" /\ cursor[1] = Len(file.matrices) /\ stage' = "lods" /\ cursor' = <<0, 0>>
      /\ UNCHANGED <<file, models>> /\ file.kind = "im" /\ ObjectFile(file)
  BY FileFits DEF Loader!EndPlaces, Loader!Matrix, LoaderRight
<1>2. \A k, s : PlacedTo(file, k, s, cursor) => PlacedTo(file, k, s, <<Len(file.matrices), 0>>)
  BY <1>1, PlacedAll
<1>3. \A k \in 1 .. Len(models') :
        ModelLoaded(file', k, models'[k], PlaceReached(file', stage', cursor'),
                    LevelReached(file', stage', cursor'))
  BY <1>1, <1>2, Reached, LoadedKept
<1> QED
  BY <1>1, <1>3 DEF LoadedRight

LEMMA SkipClusterLoaded == ASSUME LoaderRight, LoadedRight, Loader!SkipCluster PROVE LoadedRight'
<1> DEFINE a == cursor[1] + 1
<1>1. /\ stage = "lods" /\ cursor[1] < Len(file.clusters) /\ file.clusters[a].num = 0
      /\ cursor' = <<cursor[1] + 1, 0>> /\ UNCHANGED <<file, models, stage>>
  BY DEF Loader!SkipCluster, Loader!MoreClusters, Loader!Advance, Loader!Elem
<1>2. cursor \in Nat \X Nat /\ file.kind = "im" /\ ObjectFile(file) /\ Len(file.clusters) \in Nat
  BY <1>1, FileFits DEF LoaderRight, ObjectFile, LevelsFit
<1>3. cursor[2] = 0
  BY <1>1, <1>2 DEF LoaderRight
<1>4. cursor = <<a - 1, 0>> /\ a \in 1 .. Len(file.clusters) /\ cursor' = <<a, 0>>
  BY <1>1, <1>2, <1>3
<1> HIDE DEF a
<1>5. \A k, l : LevelAt(file, k, l, cursor') <=> LevelAt(file, k, l, cursor)
  BY <1>1, <1>2, <1>4, LevelSkipped
<1>6. \A k, lod : LevelledTo(file, k, lod, cursor) => LevelledTo(file, k, lod, cursor')
  BY <1>5 DEF LevelledTo
<1>7. \A k \in 1 .. Len(models') :
        ModelLoaded(file', k, models'[k], PlaceReached(file', stage', cursor'),
                    LevelReached(file', stage', cursor'))
  BY <1>1, <1>6, Reached, LoadedKept
<1> QED
  BY <1>1, <1>7 DEF LoadedRight

LEMMA SetLevelLoaded == ASSUME LoaderRight, LoadedRight, Loader!SetLevel PROVE LoadedRight'
<1> DEFINE a == cursor[1] + 1
           b == cursor[2]
           c == file.clusters[a]
           K == Loader!ModelIndex(file.modelLODs[c.start + b + 1])
           m == [models[K + 1] EXCEPT !.lod = b]
<1>1. /\ stage = "lods" /\ cursor[1] < Len(file.clusters) /\ c.num > 0 /\ K < Len(models)
      /\ models' = [models EXCEPT ![K + 1] = m]
      /\ cursor' = Following(cursor, c.num) /\ UNCHANGED <<file, stage>>
  BY ZenonT(40) DEF Loader!SetLevel, Loader!MoreClusters, Loader!Advance, Loader!Elem, Loader!Known,
     Loader!Listed, Following
<1>2. cursor \in Nat \X Nat /\ file.kind = "im" /\ ObjectFile(file) /\ Len(file.clusters) \in Nat
  BY <1>1, FileFits, Zenon DEF LoaderRight, ObjectFile, LevelsFit
<1>3. cursor = <<a - 1, b>> /\ a \in 1 .. Len(file.clusters) /\ b \in Nat
  <2> HIDE DEF c, K, m
  <2>1. cursor = <<cursor[1], cursor[2]>> /\ cursor[1] \in Nat /\ cursor[2] \in Nat
    BY <1>2
  <2> QED
    BY <1>1, <1>2, <2>1
<1>4. c.num \in Nat /\ b < c.num
  BY <1>1, <1>2, <1>3, LevelBound, Zenon DEF LoaderRight
<1>5. K \in Nat /\ ListsAt(file, c, b, K)
  <2>1. K \in Nat
    BY <1>2, <1>3, <1>4, IndexOfModel
  <2> QED
    BY <2>1 DEF ListsAt
<1>6. \A k \in 1 .. Len(models) : ModelLoaded(file, k, models[k], <<Len(file.matrices), 0>>, cursor)
  BY <1>1, Reached, Zenon DEF LoadedRight
<1>7. K + 1 \in 1 .. Len(models)
  <2> HIDE DEF K
  <2> QED
    BY <1>1, <1>5, FileFits
<1>8. /\ Len(models') = Len(models)
      /\ \A k \in 1 .. Len(models) : models'[k] = IF k - 1 = K THEN m ELSE models[k]
  <2> HIDE DEF K, m
  <2> QED
    BY <1>1, <1>5, ModelEdited
<1>9. /\ m.stream = models[K + 1].stream /\ m.prims = models[K + 1].prims
      /\ m.lod = b /\ DOMAIN m = DOMAIN models[K + 1]
      /\ m.matrices = models[K + 1].matrices
  BY <1>5, <1>6, <1>7, Zenon DEF ModelLoaded
<1>10. \A k : k # K => ~ListsAt(file, c, b, k)
  BY DEF ListsAt
<1>11. \A k, l : LevelAt(file, k, l, cursor') <=> LevelAt(file, k, l, cursor) \/ (l = b /\ ListsAt(file, c, b, k))
  <2> HIDE DEF a, b, K, m
  <2>1. cursor' = Following(cursor, file.clusters[a].num) /\ b < file.clusters[a].num
    BY <1>1, <1>4
  <2> TAKE k, l
  <2>2. LevelAt(file, k, l, cursor') <=>
          LevelAt(file, k, l, cursor) \/ (l = b /\ ListsAt(file, file.clusters[a], b, k))
    <3>1. LevelStep(file, k, l, cursor, cursor', a, b)
      BY <1>2, <1>3, <2>1, LevelPassed
    <3> QED
      BY <3>1, Zenon DEF LevelStep
  <2> QED
    BY <2>2 DEF c
<1> HIDE DEF a, b, K, m, c
<1>12. ASSUME NEW k, k # K, NEW lod, LevelledTo(file, k, lod, cursor)
       PROVE  LevelledTo(file, k, lod, cursor')
  BY <1>10, <1>11, <1>12 DEF LevelledTo
<1>13. LevelledTo(file, K, b, cursor')
  BY <1>5, <1>11 DEF LevelledTo
<1>14. \A k \in 1 .. Len(models) : ModelLoaded(file, k, models'[k], <<Len(file.matrices), 0>>, cursor')
  <2> TAKE k \in 1 .. Len(models)
  <2>1. ModelLoaded(file, k, models[k], <<Len(file.matrices), 0>>, cursor)
    BY <1>6
  <2>2. CASE k - 1 = K
    <3>1. k = K + 1 /\ models'[k] = m
      BY <1>8, <2>2, <1>5
    <3> QED
      BY <1>2, <1>9, <1>13, <2>1, <2>2, <3>1 DEF ModelLoaded
  <2>3. CASE k - 1 # K
    <3>1. models'[k] = models[k]
      BY <1>8, <2>3
    <3> QED
      BY <1>2, <1>12, <2>1, <2>3, <3>1 DEF ModelLoaded
  <2> QED
    BY <2>2, <2>3
<1>15. \A k \in 1 .. Len(models') :
        ModelLoaded(file', k, models'[k], PlaceReached(file', stage', cursor'),
                    LevelReached(file', stage', cursor'))
  BY <1>1, <1>8, <1>14, Reached
<1> QED
  BY <1>1, <1>2, <1>8, <1>15 DEF LoadedRight

LEMMA EndLevelsLoaded == ASSUME LoaderRight, LoadedRight, Loader!EndLevels PROVE LoadedRight'
<1>1. /\ stage = "lods" /\ cursor[1] = Len(file.clusters) /\ stage' = "ready"
      /\ UNCHANGED <<file, models, cursor>> /\ file.kind = "im" /\ ObjectFile(file)
  BY FileFits DEF Loader!EndLevels, LoaderRight
<1> DEFINE t == <<Len(file.clusters), 0>>
<1>2. t[1] = Len(file.clusters)
  OBVIOUS
<1>3. LevelReached(file, "ready", cursor) = t
  BY Reached
<1> HIDE DEF t
<1>4. \A k, l : LevelAt(file, k, l, t) <=> LevelAt(file, k, l, cursor)
  BY <1>1, <1>2, LevelAll
<1>5. \A k, lod : LevelledTo(file, k, lod, cursor) => LevelledTo(file, k, lod, t)
  BY <1>4 DEF LevelledTo
<1>6. \A k \in 1 .. Len(models') :
        ModelLoaded(file', k, models'[k], PlaceReached(file', stage', cursor'),
                    LevelReached(file', stage', cursor'))
  BY <1>1, <1>3, <1>5, Reached, LoadedKept
<1> QED
  BY <1>1, <1>6 DEF LoadedRight

LEMMA LoadedRightStep ==
  ASSUME LoaderRight, LoadedRight, [SceneNext]_vars PROVE LoadedRight'
<1>1. CASE LoadStep
  <2>1. CASE Loader!RefuseV2 \/ Loader!RefuseIndex
    <3>1. stage' = "failed" /\ UNCHANGED <<file, models, cursor>>
      BY <2>1 DEF Loader!RefuseV2, Loader!RefuseIndex
    <3> QED
      BY <3>1 DEF LoadedRight
  <2> QED
    BY <1>1, <2>1, LoadObjectLoaded, LoadTerrainLoaded, EndModelsLoaded, SkipMatrixLoaded,
       PlaceMatrixLoaded, EndPlacesLoaded, SkipClusterLoaded, SetLevelLoaded, EndLevelsLoaded
    DEF LoadStep, Loader!Load
<1>2. CASE UNCHANGED loaderVars
  BY <1>2 DEF loaderVars, LoadedRight
<1> QED
  BY <1>1, <1>2 DEF SceneNext, Work, SceneDone, ExtractStep, OpenHeader, MissHeader, EndLoad,
     RefuseSlot, OpenStream, RefuseBuffer, DrawModel, Save, vars

(* What the file says of loaded model k, its matrices and its level.       *)
PlacedRight(k, s) ==
  /\ \A m \in 0 .. Len(file.matrices) - 1 :
       Cardinality({i \in 1 .. Len(s) : s[i] = m}) = Cardinality(Loader!Listings(Loader!Cluster(m), k))
  /\ \A i, j \in 1 .. Len(s) : i < j => s[i] <= s[j]

LevelsListed(k) ==
  UNION {Loader!Listings(file.clusters[c], k) : c \in 1 .. Len(file.clusters)}

LevelRight(k, model) ==
  IF file.kind = "im"
  THEN Cardinality(LevelsListed(k)) = 1 => model.lod \in LevelsListed(k)
  ELSE \E piece \in 0 .. Len(file.lookups) - 1 :
         /\ file.meshIndices[k + 1] = piece + model.lod * Len(file.lookups)
         /\ model.stream = file.lookups[piece + 1][model.lod + 1]

(* MapModels has counting under a name of its own.                         *)
LEMMA SameCardinality == \A S : Loader!Cardinality(S) = Cardinality(S)
  BY Zenon DEF Loader!Cardinality, Cardinality

LEMMA PlacedOfLoaded ==
  LoaderRight /\ LoadedRight => Loader!PlacedAsListed
<1> SUFFICES ASSUME LoaderRight, LoadedRight, stage = "ready", file.kind = "im"
             PROVE  \A k \in 0 .. Len(models) - 1 : PlacedRight(k, models[k + 1].matrices)
  BY SameCardinality DEF Loader!PlacedAsListed, Loader!Elem, PlacedRight
<1> TAKE k \in 0 .. Len(models) - 1
<1> DEFINE s == models[k + 1].matrices
<1>1. ObjectFile(file) /\ Len(models) \in Nat
  BY FileFits
<1>2. k + 1 \in 1 .. Len(models) /\ (k + 1) - 1 = k
  BY <1>1
<1>3. ModelLoaded(file, k + 1, models[k + 1], <<Len(file.matrices), 0>>, <<Len(file.clusters), 0>>)
  BY <1>2, Reached DEF LoadedRight
<1>4. PlacedTo(file, k, s, <<Len(file.matrices), 0>>)
  BY <1>2, <1>3 DEF ModelLoaded
<1> HIDE DEF s
<1>5. ASSUME NEW m \in 0 .. Len(file.matrices) - 1
      PROVE  Cardinality({i \in 1 .. Len(s) : s[i] = m})
               = Cardinality(Loader!Listings(Loader!Cluster(m), k))
  <2> DEFINE p == <<Len(file.matrices), 0>>
  <2>1. p[1] = Len(file.matrices)
    OBVIOUS
  <2>2. PlacedTo(file, k, s, p)
    BY <1>4
  <2> HIDE DEF p
  <2>3. Placed(file, k, m, p) = {l \in 0 .. ClusterAt(file, m).num - 1 : ListsAt(file, ClusterAt(file, m), l, k)}
    BY <1>1, <2>1, <2>2, PlacedAll
  <2>4. Loader!Cluster(m) = ClusterAt(file, m)
    BY DEF Loader!Cluster, Loader!Elem, ClusterAt
  <2>5. Loader!Listings(Loader!Cluster(m), k) = Placed(file, k, m, p)
    BY <2>3, <2>4 DEF Loader!Listings, Loader!Listed, Loader!Elem, ListsAt
  <2>6. Cardinality(Occurrences(s, m)) = Cardinality(Placed(file, k, m, p))
    BY <2>2 DEF PlacedTo
  <2> QED
    BY <2>5, <2>6 DEF Occurrences
<1>6. PlacedRight(k, s)
  BY <1>4, <1>5 DEF PlacedTo, PlacedRight
<1> QED
  BY <1>6 DEF s

LEMMA LevelsOfLoaded ==
  LoaderRight /\ LoadedRight => Loader!LevelsAsListed
<1> SUFFICES ASSUME LoaderRight, LoadedRight, stage = "ready"
             PROVE  \A k \in 0 .. Len(models) - 1 : LevelRight(k, models[k + 1])
  BY SameCardinality DEF Loader!LevelsAsListed, Loader!Elem, LevelRight, LevelsListed
<1> TAKE k \in 0 .. Len(models) - 1
<1>1. Len(models) \in Nat
  BY FileFits
<1>2. k + 1 \in 1 .. Len(models) /\ (k + 1) - 1 = k
  BY <1>1
<1>3. ModelLoaded(file, k + 1, models[k + 1], <<Len(file.matrices), 0>>, <<Len(file.clusters), 0>>)
  BY <1>2, Reached DEF LoadedRight
<1>4. CASE file.kind = "im"
  <2> DEFINE levels == LevelsListed(k)
             q == <<Len(file.clusters), 0>>
  <2>1. LevelledTo(file, k, models[k + 1].lod, q) /\ q[1] = Len(file.clusters)
    BY <1>2, <1>3, <1>4 DEF ModelLoaded
  <2>2. \A l : l \in levels <=> \E c \in 1 .. Len(file.clusters) :
           l \in 0 .. file.clusters[c].num - 1 /\ ListsAt(file, file.clusters[c], l, k)
    BY DEF Loader!Listings, Loader!Listed, Loader!Elem, ListsAt, LevelsListed
  <2> HIDE DEF levels, q
  <2>3. \A l : l \in levels <=> LevelAt(file, k, l, q)
    BY <1>4, <2>1, <2>2, FileFits, LevelAll
  <2>4. Cardinality(levels) = 1 => levels # {}
    BY FS_EmptySet
  <2>5. Cardinality(levels) = 1 => models[k + 1].lod \in levels
    BY <2>1, <2>3, <2>4 DEF LevelledTo
  <2> QED
    BY <1>4, <2>5 DEF levels, LevelRight
<1>5. CASE file.kind # "im"
  <2> DEFINE big == file.meshIndices[k + 1]
             n == Len(file.lookups)
             piece == big % n
  <2>1. file.kind = "tm"
    BY <1>2, <1>1, <1>5 DEF LoadedRight
  <2>2. k + 1 \in 1 .. Len(file.meshes)
    BY <1>2, FileFits DEF LoadedRight
  <2>3. n \in Nat \ {0} /\ big \in Nat
    BY <2>1, <2>2, FileFits DEF ListsFit
  <2>4. models[k + 1].lod = big \div n /\ models[k + 1].stream = file.lookups[piece + 1][(big \div n) + 1]
    BY <1>3, <2>1 DEF ModelLoaded, StreamOfMesh
  <2> HIDE DEF big, n
  <2>5. \A x \in Nat : \A y \in Nat \ {0} : x % y \in 0 .. y - 1 /\ x = (x % y) + (x \div y) * y
    OBVIOUS
  <2>6. piece \in 0 .. n - 1 /\ big = piece + (big \div n) * n
    BY <2>3, <2>5
  <2> QED
    BY <1>5, <2>4, <2>6, Zenon DEF big, n, LevelRight
<1> QED
  BY <1>4, <1>5

-----------------------------------------------------------------------------
(***************************************************************************)
(* The bufferViews and accessors of a stream: the member of a set with     *)
(* the rank of i is i.                                                     *)
(***************************************************************************)
LEMMA RankedOf ==
  ASSUME NEW S, S \subseteq Nat \X Nat, IsFiniteSet(S)
  PROVE  /\ \A i \in S : Ranked(S, Rank(S, i)) = i
         /\ \A n \in 1 .. Cardinality(S) : Ranked(S, n) \in S /\ Rank(S, Ranked(S, n)) = n
<1>1. \A i, j \in S : Rank(S, i) = Rank(S, j) => i = j
  BY RankOnce
<1>2. \A i \in S : Ranked(S, Rank(S, i)) = i
  BY <1>1 DEF Ranked
<1>3. \A n \in 1 .. Cardinality(S) : \E i \in S : Rank(S, i) = n
  BY RankOnto
<1>4. \A n \in 1 .. Cardinality(S) : Ranked(S, n) \in S /\ Rank(S, Ranked(S, n)) = n
  BY <1>3 DEF Ranked
<1> QED
  BY <1>2, <1>4

(* The place of a slot in SlotOrder.                                       *)
LEMMA SlotPlaces ==
  /\ DOMAIN SlotOrder = 1 .. 7
  /\ \A i \in 1 .. 7 : SlotOrder[i] \in Slots
  /\ \A slot \in Slots : \E i \in 1 .. 7 : SlotOrder[i] = slot
  /\ \A i, j \in 1 .. 7 : SlotOrder[i] = SlotOrder[j] => i = j
<1>1. DOMAIN SlotOrder = 1 .. 7
  BY DEF SlotOrder
<1>2. \A i \in 1 .. 7 : i = 1 \/ i = 2 \/ i = 3 \/ i = 4 \/ i = 5 \/ i = 6 \/ i = 7
  OBVIOUS
<1>3. /\ SlotOrder[1] = "Float3" /\ SlotOrder[2] = "Float2" /\ SlotOrder[3] = "Short2"
      /\ SlotOrder[4] = "Short4" /\ SlotOrder[5] = "Byte4" /\ SlotOrder[6] = "IndexShort"
      /\ SlotOrder[7] = "IndexInt"
  BY DEF SlotOrder
<1>4. Slots = {"Float3", "Float2", "Short2", "Short4", "Byte4", "IndexShort", "IndexInt"}
  BY DEF Slots, Stride
<1>5. \A i \in 1 .. 7 : SlotOrder[i] \in Slots
  BY <1>2, <1>3, <1>4
<1>6. \A slot \in Slots : \E i \in 1 .. 7 : SlotOrder[i] = slot
  BY <1>3, <1>4
<1>7. \A i, j \in 1 .. 7 : SlotOrder[i] = SlotOrder[j] => i = j
  BY <1>2, <1>3
<1> QED
  BY <1>1, <1>5, <1>6, <1>7

(* View v of a document is the view w of a header.                         *)
ViewOf(v, w) == v.offset = w.offset /\ v.length = w.size

(* The slots that a stream's descriptors use are those of its records.      *)
LEMMA SlotsUsed ==
  ASSUME NEW h
  PROVE  UsedSlots(h) \subseteq Nat \X Nat /\ IsFiniteSet(UsedSlots(h))
<1>1. UsedSlots(h) \subseteq (1 .. 7) \X {0}
  BY SlotPlaces DEF UsedSlots
<1>2. IsFiniteSet((1 .. 7) \X {0})
  <2>1. IsFiniteSet({0}) /\ IsFiniteSet(1 .. 7)
    <3>1. IsFiniteSet({0})
      BY FS_Singleton, Zenon
    <3>2. \A m, n \in Int : IsFiniteSet(m .. n)
      BY FS_Interval
    <3>3. IsFiniteSet(1 .. 7)
      <4>1. 1 \in Int /\ 7 \in Int
        OBVIOUS
      <4> QED
        BY <3>2, <4>1, Zenon
    <3> QED
      BY <3>1, <3>3
  <2> DEFINE A == 1 .. 7
             B == {0}
  <2>2. IsFiniteSet(A) /\ IsFiniteSet(B)
    BY <2>1
  <2> HIDE DEF A, B
  <2>3. IsFiniteSet(A \X B)
    BY <2>2, FS_Product
  <2> QED
    BY <2>3 DEF A, B
<1> QED
  BY <1>1, <1>2, FS_Subset

LEMMA BufferViewsRight ==
  ASSUME NEW h, NEW b
  PROVE  /\ \E S : BufferViews(h, b) \in Seq(S)
         /\ Len(BufferViews(h, b)) = Cardinality(UsedSlots(h)) /\ Cardinality(UsedSlots(h)) \in Nat
         /\ \A n \in 1 .. Cardinality(UsedSlots(h)) :
              DOMAIN BufferViews(h, b)[n] = {"buffer", "offset", "length"} /\ BufferViews(h, b)[n].buffer = b
         /\ \A slot \in Slots : h.views[slot].size > 0 =>
              /\ ViewNumber(h, slot) \in 1 .. Cardinality(UsedSlots(h))
              /\ ViewOf(BufferViews(h, b)[ViewNumber(h, slot)], h.views[slot])
<1> DEFINE N == Cardinality(UsedSlots(h))
           W(n) == h.views[SlotOrder[Ranked(UsedSlots(h), n)[1]]]
           V(n) == [buffer |-> b, offset |-> W(n).offset, length |-> W(n).size]
           vs == [n \in 1 .. N |-> V(n)]
<1>1. N \in Nat
  BY SlotsUsed, FS_CardinalityType
<1>2. vs = BufferViews(h, b)
  BY DEF BufferViews
<1>3. vs \in Seq({V(n) : n \in 1 .. N}) /\ Len(vs) = N
  <2> HIDE DEF N, V
  <2>1. vs \in [1 .. N -> {V(n) : n \in 1 .. N}]
    OBVIOUS
  <2> QED
    BY <1>1, <2>1, SeqDef, LenProperties
<1>4. \A n \in 1 .. N : vs[n] = V(n)
  OBVIOUS
<1>5. \A n : DOMAIN V(n) = {"buffer", "offset", "length"} /\ V(n).buffer = b /\ ViewOf(V(n), W(n))
  BY DEF ViewOf
<1>6. ASSUME NEW slot \in Slots, h.views[slot].size > 0
      PROVE  ViewNumber(h, slot) \in 1 .. N /\ W(ViewNumber(h, slot)) = h.views[slot]
  <2>1. PICK i \in 1 .. 7 : SlotOrder[i] = slot
    BY SlotPlaces
  <2>2. <<i, 0>> \in UsedSlots(h)
    BY <1>6, <2>1, SlotPlaces DEF UsedSlots
  <2> DEFINE x == CHOOSE y \in UsedSlots(h) : SlotOrder[y[1]] = slot
  <2>3. x \in UsedSlots(h) /\ SlotOrder[x[1]] = slot
    BY <2>1, <2>2
  <2>4. ViewNumber(h, slot) = Rank(UsedSlots(h), x)
    BY DEF ViewNumber
  <2> HIDE DEF x
  <2>5. ViewNumber(h, slot) \in 1 .. N
    BY <2>3, <2>4, SlotsUsed, RankRange
  <2>6. Ranked(UsedSlots(h), ViewNumber(h, slot)) = x
    BY <2>3, <2>4, SlotsUsed, RankedOf
  <2> QED
    BY <2>3, <2>5, <2>6
<1> HIDE DEF vs, N, V, W
<1>7. \A n \in 1 .. N : DOMAIN vs[n] = {"buffer", "offset", "length"} /\ vs[n].buffer = b
  BY <1>4, <1>5
<1>8. \A slot \in Slots : h.views[slot].size > 0 =>
        ViewNumber(h, slot) \in 1 .. N /\ ViewOf(vs[ViewNumber(h, slot)], h.views[slot])
  BY <1>4, <1>5, <1>6
<1> QED
  BY <1>1, <1>2, <1>3, <1>7, <1>8 DEF N

(* A set of numbers up to n has a largest one.                             *)
LEMMA Largest ==
  ASSUME NEW n \in Nat, NEW T, T \subseteq 1 .. n, T # {} PROVE Max(T) \in T
<1> DEFINE U == {n - k : k \in T}
<1>1. U \subseteq Nat /\ U # {}
  <2>1. \A k \in T : k \in 1 .. n
    OBVIOUS
  <2>2. \A k \in 1 .. n : n - k \in Nat
    OBVIOUS
  <2>3. U \subseteq Nat
    BY <2>1, <2>2
  <2> QED
    BY <2>3
<1>2. PICK u \in U : \A m \in U : u <= m
  BY <1>1, Smallest
<1>3. PICK k \in T : u = n - k
  OBVIOUS
<1>4. \A j \in T : n - k <= n - j
  BY <1>2, <1>3
<1>5. k \in Int /\ \A j \in T : j \in Int
  <2>1. \A j \in T : j \in 1 .. n
    OBVIOUS
  <2>2. \A j \in 1 .. n : j \in Int
    OBVIOUS
  <2> QED
    BY <2>1, <2>2
<1>6. \A j \in T : k >= j
  BY <1>4, <1>5
<1> QED
  BY <1>6 DEF Max

(* The records of all vertex buffers.                                      *)
LEMMA RecordsCounted ==
  ASSUME NEW h, h.vertices \in Seq(Seq(VtAttr))
  PROVE  /\ Records(h) \subseteq Nat \X Nat /\ IsFiniteSet(Records(h)) /\ Cardinality(Records(h)) \in Nat
         /\ \A i : i \in Records(h) <=>
              \E v \in 1 .. Len(h.vertices) : \E k \in 1 .. Len(h.vertices[v]) : i = <<v, k>>
         /\ Len(h.vertices) \in Nat
         /\ \A v \in 1 .. Len(h.vertices) :
              /\ Len(h.vertices[v]) \in Nat
              /\ \A k \in 1 .. Len(h.vertices[v]) : h.vertices[v][k] \in VtAttr
<1>1. DOMAIN h.vertices = 1 .. Len(h.vertices) /\ Len(h.vertices) \in Nat
  BY LenProperties
<1>2. \A v \in 1 .. Len(h.vertices) : h.vertices[v] \in Seq(VtAttr)
  BY <1>1, LenProperties
<1>3. \A v \in 1 .. Len(h.vertices) :
        /\ Len(h.vertices[v]) \in Nat /\ DOMAIN h.vertices[v] = 1 .. Len(h.vertices[v])
        /\ \A k \in 1 .. Len(h.vertices[v]) : h.vertices[v][k] \in VtAttr
  BY <1>2, LenProperties
<1> DEFINE F(v) == {v} \X (DOMAIN h.vertices[v])
<1>4. Records(h) = UNION {F(v) : v \in 1 .. Len(h.vertices)}
  BY <1>1 DEF Records
<1>5. \A v \in 1 .. Len(h.vertices) : IsFiniteSet(F(v))
  <2> TAKE v \in 1 .. Len(h.vertices)
  <2>1. IsFiniteSet({v}) /\ IsFiniteSet(1 .. Len(h.vertices[v]))
    <3>1. \A n \in Nat : IsFiniteSet(1 .. n)
      BY FS_Interval
    <3> QED
      BY <1>3, <3>1, FS_Singleton
  <2>2. IsFiniteSet({v} \X (1 .. Len(h.vertices[v])))
    <3> DEFINE A == {v}
               B == 1 .. Len(h.vertices[v])
    <3>1. IsFiniteSet(A) /\ IsFiniteSet(B)
      BY <2>1
    <3> HIDE DEF A, B
    <3>2. IsFiniteSet(A \X B)
      BY <3>1, FS_Product
    <3> QED
      BY <3>2 DEF A, B
  <2> QED
    BY <1>3, <2>2
<1>6. IsFiniteSet({F(v) : v \in 1 .. Len(h.vertices)})
  <2>1. IsFiniteSet(1 .. Len(h.vertices))
    BY <1>1, FS_Interval
  <2> DEFINE G == [v \in 1 .. Len(h.vertices) |-> F(v)]
  <2>2. G \in Surjection(1 .. Len(h.vertices), {F(v) : v \in 1 .. Len(h.vertices)})
    BY DEF Surjection
  <2> QED
    BY <2>1, <2>2, FS_Surjection
<1>7. IsFiniteSet(Records(h))
  <2> DEFINE A == {F(v) : v \in 1 .. Len(h.vertices)}
  <2>1. \A B \in A : IsFiniteSet(B)
    BY <1>5
  <2>2. IsFiniteSet(A)
    BY <1>6
  <2>3. Records(h) = UNION A
    BY <1>4
  <2> HIDE DEF A
  <2> QED
    BY <2>1, <2>2, <2>3, FS_UNION
<1>8. \A i : i \in Records(h) <=>
        \E v \in 1 .. Len(h.vertices) : \E k \in 1 .. Len(h.vertices[v]) : i = <<v, k>>
  BY <1>3, <1>4
<1>9. Records(h) \subseteq Nat \X Nat
  BY <1>1, <1>3, <1>8
<1> QED
  BY <1>1, <1>3, <1>7, <1>8, <1>9, FS_CardinalityType

(* An accessor selects a run of elements of one slot of h.                 *)
AccRight(vs, a, h, slot, offset, count) ==
  /\ a.slot = slot /\ a.offset = offset /\ a.count = count
  /\ a.view \in 1 .. Len(vs) /\ ViewOf(vs[a.view], h.views[slot])

(* What a document has for stream s, whose header entry is h.              *)
RecordAccessor(vs, as, s, h, v, r, x) ==
  /\ x \in 1 .. Len(as)
  /\ AccRight(vs, as[x], h, h.vertices[v][r].slot, h.vertices[v][r].offset, s.vertices[v].n)

OpenedStream(vs, as, s, h, o) ==
  /\ o.beginIndices \in Nat
  /\ \A i \in 1 .. Len(h.indices) :
       /\ o.beginIndices + i \in 1 .. Len(as)
       /\ AccRight(vs, as[o.beginIndices + i], h, "IndexShort", h.indices[i].offset, h.indices[i].count)
  /\ Len(o.vertices) = Len(h.vertices)
  /\ \A v \in 1 .. Len(h.vertices) :
       /\ DOMAIN o.vertices[v] = AttributeNames(h.vertices[v])
       /\ \A name \in AttributeNames(h.vertices[v]) :
            \E r \in Named(h.vertices[v], name) :
              RecordAccessor(vs, as, s, h, v, r, o.vertices[v][name])

(* The views are still where they were.                                    *)
SameView(v, w) == w.offset = v.offset /\ w.length = v.length

Carried(vs, ws) ==
  /\ Len(vs) \in Nat /\ Len(ws) \in Nat /\ Len(vs) <= Len(ws)
  /\ \A i \in 1 .. Len(vs) : SameView(vs[i], ws[i])

LEMMA OpenedKept ==
  ASSUME NEW vs, NEW as, NEW s, NEW h, NEW o, OpenedStream(vs, as, s, h, o),
         NEW ws, Carried(vs, ws), NEW bs, Grown(as, bs)
  PROVE  OpenedStream(ws, bs, s, h, o)
<1>1. \A i \in 1 .. Len(vs) : i \in 1 .. Len(ws)
  BY DEF Carried
<1>2. \A a, slot, offset, count :
        AccRight(vs, a, h, slot, offset, count) => AccRight(ws, a, h, slot, offset, count)
  BY <1>1 DEF Carried, AccRight, SameView, ViewOf
<1>3. \A x \in 1 .. Len(as) : x \in 1 .. Len(bs) /\ bs[x] = as[x]
  <2>1. \A m, n \in Nat : m <= n => \A x \in 1 .. m : x \in 1 .. n
    OBVIOUS
  <2> QED
    BY <2>1, Zenon DEF Grown
<1>4. \A v, r, x : RecordAccessor(vs, as, s, h, v, r, x) => RecordAccessor(ws, bs, s, h, v, r, x)
  BY <1>2, <1>3 DEF RecordAccessor
<1>5. \A i \in 1 .. Len(h.indices) :
        /\ o.beginIndices + i \in 1 .. Len(bs)
        /\ AccRight(ws, bs[o.beginIndices + i], h, "IndexShort", h.indices[i].offset, h.indices[i].count)
  BY <1>2, <1>3 DEF OpenedStream
<1>6. \A v \in 1 .. Len(h.vertices) : \A name \in AttributeNames(h.vertices[v]) :
        \E r \in Named(h.vertices[v], name) :
          RecordAccessor(ws, bs, s, h, v, r, o.vertices[v][name])
  BY <1>4, Zenon DEF OpenedStream
<1> QED
  BY <1>5, <1>6, Zenon DEF OpenedStream

(* r is b written on by c.                                                 *)
IsJoin(b, c, r) ==
  /\ \E S : r \in Seq(S)
  /\ Len(b) \in Nat /\ Len(c) \in Nat /\ Len(r) = Len(b) + Len(c)
  /\ Grown(b, r)
  /\ \A u \in 1 .. Len(c) : r[Len(b) + u] = c[u]

(* What two sequences one behind the other hold.                            *)
LEMMA JoinRight ==
  ASSUME NEW S, NEW b \in Seq(S), NEW T, NEW c \in Seq(T), NEW r, r = b \o c
  PROVE  IsJoin(b, c, r)
<1>1. b \o c \in Seq(S \cup T)
  BY Joined
<1>2. Len(b) \in Nat /\ Len(c) \in Nat /\ Len(b \o c) = Len(b) + Len(c)
  BY Joined
<1>3. Grown(b, b \o c)
  BY Joined
<1>4. \A u \in 1 .. Len(c) : (b \o c)[Len(b) + u] = c[u]
  BY Joined
<1>5. \E A : r \in Seq(A)
  BY <1>1
<1> QED
  BY <1>2, <1>3, <1>4, <1>5, Zenon DEF IsJoin

(* One accessor, made from its view.                                        *)
LEMMA AccessorRight ==
  ASSUME NEW h, h \in Described, NEW b, NEW S, doc.bufferViews \in Seq(S),
         NEW vs, vs = doc.bufferViews \o BufferViews(h, b)
  PROVE  /\ Carried(doc.bufferViews, vs) /\ (\E T : vs \in Seq(T))
         /\ \A slot \in Slots : h.views[slot].size > 0 => \A offset, count :
              AccRight(vs, Accessor(h, slot, offset, count), h, slot, offset, count)
<1> DEFINE new == BufferViews(h, b)
           N == Cardinality(UsedSlots(h))
<1>1. PICK T : new \in Seq(T)
  BY BufferViewsRight
<1>2. /\ Len(new) = N /\ N \in Nat
      /\ \A slot \in Slots : h.views[slot].size > 0 =>
           ViewNumber(h, slot) \in 1 .. N /\ ViewOf(new[ViewNumber(h, slot)], h.views[slot])
  BY BufferViewsRight
<1>3. vs = doc.bufferViews \o new
  OBVIOUS
<1> HIDE DEF new, N
<1>4. IsJoin(doc.bufferViews, new, vs)
  BY <1>1, <1>3, JoinRight
<1>5. Carried(doc.bufferViews, vs)
  BY <1>4 DEF Grown, Carried, SameView, IsJoin
<1>6. ASSUME NEW slot \in Slots, h.views[slot].size > 0, NEW offset, NEW count
      PROVE  AccRight(vs, Accessor(h, slot, offset, count), h, slot, offset, count)
  <2> DEFINE a == Accessor(h, slot, offset, count)
             n == ViewNumber(h, slot)
  <2>1. n \in 1 .. N /\ ViewOf(new[n], h.views[slot])
    BY <1>2, <1>6
  <2>2. a.slot = slot /\ a.offset = offset /\ a.count = count /\ a.view = Len(doc.bufferViews) + n
    BY DEF Accessor
  <2> HIDE DEF a, n
  <2>3. a.view \in 1 .. Len(vs) /\ vs[a.view] = new[n]
    BY <1>2, <1>4, <2>1, <2>2 DEF IsJoin
  <2>4. AccRight(vs, a, h, slot, offset, count)
    BY <2>1, <2>2, <2>3 DEF AccRight
  <2> QED
    BY <2>4 DEF a
<1> QED
  BY <1>4, <1>5, <1>6 DEF IsJoin

LEMMA SlotsPresent ==
  ASSUME NEW h, h \in Described, ~SlotMissing(h)
  PROVE  /\ h.vertices \in Seq(Seq(VtAttr)) /\ h.indices \in Seq(VtIndex)
         /\ "IndexShort" \in Slots
         /\ \A i \in 1 .. Len(h.indices) : h.views["IndexShort"].size > 0
         /\ \A v \in 1 .. Len(h.vertices) : \A k \in 1 .. Len(h.vertices[v]) :
              h.vertices[v][k].slot \in Slots /\ h.views[h.vertices[v][k].slot].size > 0
<1>1. h.vertices \in Seq(Seq(VtAttr)) /\ h.indices \in Seq(VtIndex) /\ h.views \in [Slots -> View]
  BY DEF Described
<1>2. "IndexShort" \in Slots
  BY DEF Slots, Stride
<1>3. \A slot \in Slots : h.views[slot].size \in Nat
  BY <1>1 DEF View
<1>4. \A i \in 1 .. Len(h.indices) : h.views["IndexShort"].size > 0
  <2>1. h.indices # <<>> => h.views["IndexShort"].size # 0
    BY DEF SlotMissing
  <2>2. h.indices = <<>> => Len(h.indices) = 0
    BY EmptySeq
  <2>3. Len(h.indices) = 0 => 1 .. Len(h.indices) = {}
    OBVIOUS
  <2> QED
    BY <1>2, <1>3, <2>1, <2>2, <2>3
<1>5. ASSUME NEW v \in 1 .. Len(h.vertices), NEW k \in 1 .. Len(h.vertices[v])
      PROVE  h.vertices[v][k].slot \in Slots /\ h.views[h.vertices[v][k].slot].size > 0
  <2>1. h.vertices[v][k] \in VtAttr
    BY <1>1, RecordsCounted
  <2>2. h.vertices[v][k].slot \in Slots
    BY <2>1 DEF VtAttr
  <2>3. h.views[h.vertices[v][k].slot].size # 0
    BY DEF SlotMissing
  <2> QED
    BY <1>3, <2>2, <2>3
<1> QED
  BY <1>1, <1>2, <1>4, <1>5

LEMMA IsList ==
  ASSUME NEW n \in Nat, NEW T, NEW f \in [1 .. n -> T] PROVE f \in Seq(T) /\ Len(f) = n
  BY SeqDef, LenProperties

LEMMA IndexAccessorsRight ==
  ASSUME NEW h, h \in Described, ~SlotMissing(h), NEW b, NEW S, doc.bufferViews \in Seq(S),
         NEW vs, vs = doc.bufferViews \o BufferViews(h, b)
  PROVE  /\ \E T : IndexAccessors(h) \in Seq(T)
         /\ Len(IndexAccessors(h)) = Len(h.indices) /\ Len(h.indices) \in Nat
         /\ \A i \in 1 .. Len(h.indices) :
              AccRight(vs, IndexAccessors(h)[i], h, "IndexShort", h.indices[i].offset, h.indices[i].count)
<1> DEFINE A(i) == Accessor(h, "IndexShort", h.indices[i].offset, h.indices[i].count)
           as == [i \in 1 .. Len(h.indices) |-> A(i)]
<1>1. as = IndexAccessors(h)
  BY DEF IndexAccessors
<1>2. Len(h.indices) \in Nat
  BY SlotsPresent, LenProperties
<1>3. as \in Seq({A(i) : i \in 1 .. Len(h.indices)}) /\ Len(as) = Len(h.indices)
  <2> HIDE DEF A
  <2>1. as \in [1 .. Len(h.indices) -> {A(i) : i \in 1 .. Len(h.indices)}]
    OBVIOUS
  <2> QED
    BY <1>2, <2>1, IsList
<1>4. \A i \in 1 .. Len(h.indices) :
        AccRight(vs, A(i), h, "IndexShort", h.indices[i].offset, h.indices[i].count)
  <2> TAKE i \in 1 .. Len(h.indices)
  <2>1. "IndexShort" \in Slots /\ h.views["IndexShort"].size > 0
    BY SlotsPresent
  <2> QED
    BY <2>1, AccessorRight
<1>5. \A i \in 1 .. Len(h.indices) : as[i] = A(i)
  OBVIOUS
<1> HIDE DEF as, A
<1> QED
  BY <1>1, <1>2, <1>3, <1>4, <1>5

LEMMA VertexAccessorsRight ==
  ASSUME NEW h, h \in Described, ~SlotMissing(h), NEW b, NEW S, doc.bufferViews \in Seq(S),
         NEW vs, vs = doc.bufferViews \o BufferViews(h, b), NEW s
  PROVE  /\ \E T : VertexAccessors(s, h) \in Seq(T)
         /\ Len(VertexAccessors(s, h)) = Cardinality(Records(h)) /\ Cardinality(Records(h)) \in Nat
         /\ \A n \in 1 .. Cardinality(Records(h)) : VertexAccessors(s, h)[n].view \in 1 .. Len(vs)
         /\ \A v \in 1 .. Len(h.vertices) : \A k \in 1 .. Len(h.vertices[v]) :
              /\ Rank(Records(h), <<v, k>>) \in 1 .. Cardinality(Records(h))
              /\ AccRight(vs, VertexAccessors(s, h)[Rank(Records(h), <<v, k>>)], h,
                          h.vertices[v][k].slot, h.vertices[v][k].offset, s.vertices[v].n)
<1> DEFINE N == Cardinality(Records(h))
           A(i) == Accessor(h, h.vertices[i[1]][i[2]].slot, h.vertices[i[1]][i[2]].offset, s.vertices[i[1]].n)
           I(n) == Ranked(Records(h), n)
           as == [n \in 1 .. N |-> A(I(n))]
<1>1. as = VertexAccessors(s, h)
  BY DEF VertexAccessors
<1>2. /\ Records(h) \subseteq Nat \X Nat /\ IsFiniteSet(Records(h)) /\ N \in Nat
      /\ \A i : i \in Records(h) <=>
           \E v \in 1 .. Len(h.vertices) : \E k \in 1 .. Len(h.vertices[v]) : i = <<v, k>>
  BY SlotsPresent, RecordsCounted
<1>3. (\E T : as \in Seq(T)) /\ Len(as) = N
  <2>0. PICK T : T = {A(I(n)) : n \in 1 .. N}
    OBVIOUS
  <2>1. as \in [1 .. N -> T]
    BY <2>0
  <2> HIDE DEF as, N
  <2>2. as \in Seq(T) /\ Len(as) = N
    BY <1>2, <2>1, IsList
  <2> QED
    BY <2>2
<1>4. ASSUME NEW v \in 1 .. Len(h.vertices), NEW k \in 1 .. Len(h.vertices[v])
      PROVE  AccRight(vs, A(<<v, k>>), h, h.vertices[v][k].slot, h.vertices[v][k].offset, s.vertices[v].n)
  <2>1. h.vertices[v][k].slot \in Slots /\ h.views[h.vertices[v][k].slot].size > 0
    BY SlotsPresent
  <2>2. AccRight(vs, Accessor(h, h.vertices[v][k].slot, h.vertices[v][k].offset, s.vertices[v].n), h,
                 h.vertices[v][k].slot, h.vertices[v][k].offset, s.vertices[v].n)
    BY <2>1, AccessorRight
  <2> QED
    BY <2>2
<1>5. \A n \in 1 .. N : as[n] = A(I(n))
  OBVIOUS
<1>6. \A n \in 1 .. N : I(n) \in Records(h)
  BY <1>2, RankedOf
<1>7. \A i \in Records(h) : Rank(Records(h), i) \in 1 .. N /\ I(Rank(Records(h), i)) = i
  BY <1>2, RankedOf, RankRange
<1> HIDE DEF as, A, I, N
<1>8. \A n \in 1 .. N : as[n].view \in 1 .. Len(vs)
  <2> TAKE n \in 1 .. N
  <2>0. PICK v \in 1 .. Len(h.vertices) : \E k \in 1 .. Len(h.vertices[v]) : I(n) = <<v, k>>
    BY <1>2, <1>6
  <2>1. PICK k \in 1 .. Len(h.vertices[v]) : I(n) = <<v, k>>
    BY <2>0
  <2>2. as[n] = A(<<v, k>>)
    BY <1>5, <2>1
  <2> QED
    BY <1>4, <2>2 DEF AccRight
<1>9. ASSUME NEW v \in 1 .. Len(h.vertices), NEW k \in 1 .. Len(h.vertices[v])
      PROVE  /\ Rank(Records(h), <<v, k>>) \in 1 .. N
             /\ AccRight(vs, as[Rank(Records(h), <<v, k>>)], h,
                         h.vertices[v][k].slot, h.vertices[v][k].offset, s.vertices[v].n)
  <2> DEFINE i == <<v, k>>
             m == Rank(Records(h), i)
  <2>1. i \in Records(h)
    BY <1>2
  <2>2. m \in 1 .. N /\ I(m) = i
    BY <1>7, <2>1
  <2>3. as[m] = A(i)
    BY <1>5, <2>2
  <2> QED
    BY <1>4, <2>2, <2>3
<1> QED
  BY <1>1, <1>2, <1>3, <1>8, <1>9 DEF N

(* An attribute's name leads to its accessor.                               *)
LEMMA NameRight ==
  ASSUME NEW as, as \in Seq(VtAttr), NEW name \in AttributeNames(as)
  PROVE  Max(Named(as, name)) \in Named(as, name) /\ Named(as, name) \subseteq 1 .. Len(as)
<1>1. Named(as, name) \subseteq 1 .. Len(as) /\ Named(as, name) # {}
  BY DEF Named, AttributeNames
<1>2. Len(as) \in Nat
  BY LenProperties
<1> QED
  BY <1>1, <1>2, Largest

AreViewed(as, vs) == \A i \in 1 .. Len(as) : as[i].view \in 0 .. Len(vs)

(* A place in a joined sequence is one of the first or of the second.      *)
LEMMA InJoin ==
  \A m, n \in Nat : \A x \in 1 .. m + n : x \in 1 .. m \/ \E y \in 1 .. n : x = m + y
<1> TAKE m, n \in Nat
<1> TAKE x \in 1 .. m + n
<1>1. x \in 1 .. m \/ (x - m \in 1 .. n /\ x = m + (x - m))
  OBVIOUS
<1> QED
  BY <1>1

AllOver(P, s) == \A i \in 1 .. Len(s) : DOMAIN s[i] = P

LEMMA AllOfJoin ==
  ASSUME NEW b, NEW c, NEW r, IsJoin(b, c, r), NEW P, AllOver(P, b), AllOver(P, c)
  PROVE  AllOver(P, r)
<1>1. Len(b) \in Nat /\ Len(c) \in Nat /\ Len(r) = Len(b) + Len(c)
      /\ (\A i \in 1 .. Len(b) : r[i] = b[i]) /\ \A i \in 1 .. Len(c) : r[Len(b) + i] = c[i]
  BY DEF IsJoin, Grown
<1>2. \A m, n \in Nat : \A x \in 1 .. m + n : x \in 1 .. m \/ \E y \in 1 .. n : x = m + y
  BY InJoin
<1>3. ASSUME NEW i \in 1 .. Len(r) PROVE DOMAIN r[i] = P
  <2>1. i \in 1 .. Len(b) + Len(c)
    BY <1>1
  <2>2. i \in 1 .. Len(b) \/ \E y \in 1 .. Len(c) : i = Len(b) + y
    BY <1>1, <1>2, <2>1, Zenon
  <2> QED
    BY <1>1, <2>2, Zenon DEF AllOver
<1> QED
  BY <1>3 DEF AllOver

(* Accessors stay viewed while views are only added.                        *)
LEMMA ViewedOn ==
  ASSUME NEW as, NEW ns, NEW bs, IsJoin(as, ns, bs), NEW vs, NEW ws, Carried(vs, ws),
         AreViewed(as, vs), AreViewed(ns, ws)
  PROVE  AreViewed(bs, ws)
<1>1. Len(vs) \in Nat /\ Len(ws) \in Nat /\ Len(vs) <= Len(ws)
  BY DEF Carried
<1>2. Len(as) \in Nat /\ Len(ns) \in Nat /\ Len(bs) = Len(as) + Len(ns)
      /\ (\A i \in 1 .. Len(as) : bs[i] = as[i]) /\ \A i \in 1 .. Len(ns) : bs[Len(as) + i] = ns[i]
  BY DEF IsJoin, Grown
<1>3. \A m, n \in Nat : m <= n => \A x \in 0 .. m : x \in 0 .. n
  OBVIOUS
<1>4. \A m, n \in Nat : \A x \in 1 .. m + n : x \in 1 .. m \/ \E y \in 1 .. n : x = m + y
  BY InJoin
<1>5. ASSUME NEW i \in 1 .. Len(bs) PROVE bs[i].view \in 0 .. Len(ws)
  <2>0. i \in 1 .. Len(as) \/ \E y \in 1 .. Len(ns) : i = Len(as) + y
    <3>1. i \in 1 .. Len(as) + Len(ns)
      BY <1>2
    <3> QED
      BY <1>2, <1>4, <3>1, Zenon
  <2>1. CASE i \in 1 .. Len(as)
    <3>1. bs[i] = as[i] /\ as[i].view \in 0 .. Len(vs)
      BY <1>2, <2>1, Zenon DEF AreViewed
    <3> QED
      BY <1>1, <1>3, <3>1, Zenon
  <2>2. CASE \E y \in 1 .. Len(ns) : i = Len(as) + y
    <3>1. PICK y \in 1 .. Len(ns) : i = Len(as) + y
      BY <2>2
    <3>2. bs[i] = ns[y] /\ ns[y].view \in 0 .. Len(ws)
      BY <1>2, <3>1, Zenon DEF AreViewed
    <3> QED
      BY <3>2
  <2> QED
    BY <2>0, <2>1, <2>2
<1> QED
  BY <1>5 DEF AreViewed

LEMMA GrownOn == \A a, b, c : Grown(a, b) /\ Grown(b, c) => Grown(a, c)
<1> SUFFICES ASSUME NEW a, NEW b, NEW c, Grown(a, b), Grown(b, c) PROVE Grown(a, c)
  OBVIOUS
<1>1. Len(a) \in Nat /\ Len(b) \in Nat /\ Len(c) \in Nat /\ Len(a) <= Len(b) /\ Len(b) <= Len(c)
  BY DEF Grown
<1>2. \A u \in 1 .. Len(a) : u \in 1 .. Len(b)
  BY <1>1
<1>3. \A u \in 1 .. Len(a) : c[u] = a[u]
  BY <1>2 DEF Grown
<1> QED
  BY <1>1, <1>3 DEF Grown

(* A stream is opened.                                                     *)
LEMMA StreamOpened ==
  ASSUME NEW h, h \in Described, ~SlotMissing(h), NEW b, NEW s,
         NEW S, doc.bufferViews \in Seq(S), NEW T, doc.accessors \in Seq(T),
         AreViewed(doc.accessors, doc.bufferViews),
         NEW vs, vs = doc.bufferViews \o BufferViews(h, b),
         NEW as, as = (doc.accessors \o IndexAccessors(h)) \o VertexAccessors(s, h),
         NEW o, o = [vertices |-> [v \in 1 .. Len(h.vertices) |-> Attributes(h, v, Len(doc.accessors))],
                     beginIndices |-> Len(doc.accessors)]
  PROVE  /\ Carried(doc.bufferViews, vs) /\ Grown(doc.accessors, as)
         /\ (\E A : vs \in Seq(A)) /\ (\E A : as \in Seq(A))
         /\ AreViewed(as, vs)
         /\ OpenedStream(vs, as, s, h, o)
<1> DEFINE ia == IndexAccessors(h)
           va == VertexAccessors(s, h)
           mid == doc.accessors \o ia
           B == Len(doc.accessors)
           R == Records(h)
<1>1. Carried(doc.bufferViews, vs) /\ (\E A : vs \in Seq(A)) /\ Len(vs) \in Nat
  BY AccessorRight, LenProperties
<1>2. PICK U : ia \in Seq(U)
  BY IndexAccessorsRight
<1>3. PICK V : va \in Seq(V)
  BY VertexAccessorsRight
<1>4. /\ Len(ia) = Len(h.indices) /\ Len(h.indices) \in Nat
      /\ \A i \in 1 .. Len(h.indices) :
           AccRight(vs, ia[i], h, "IndexShort", h.indices[i].offset, h.indices[i].count)
  BY IndexAccessorsRight
<1>5. /\ Len(va) = Cardinality(R) /\ Cardinality(R) \in Nat
      /\ \A n \in 1 .. Cardinality(R) : va[n].view \in 1 .. Len(vs)
      /\ \A v \in 1 .. Len(h.vertices) : \A k \in 1 .. Len(h.vertices[v]) :
           /\ Rank(R, <<v, k>>) \in 1 .. Cardinality(R)
           /\ AccRight(vs, va[Rank(R, <<v, k>>)], h, h.vertices[v][k].slot,
                       h.vertices[v][k].offset, s.vertices[v].n)
  BY VertexAccessorsRight
<1>6. as = mid \o va
  OBVIOUS
<1>7. /\ o.beginIndices = B
      /\ \A v \in 1 .. Len(h.vertices) : o.vertices[v] = Attributes(h, v, B)
      /\ o.vertices = [v \in 1 .. Len(h.vertices) |-> Attributes(h, v, B)]
  OBVIOUS
<1> HIDE DEF ia, va, R
<1>8. IsJoin(doc.accessors, ia, mid)
  BY <1>2, JoinRight
<1> HIDE DEF mid
<1>9. PICK W : mid \in Seq(W)
  BY <1>8 DEF IsJoin
<1>10. IsJoin(mid, va, as)
  BY <1>3, <1>6, <1>9, JoinRight
<1>11. Grown(doc.accessors, as) /\ \E A : as \in Seq(A)
  BY <1>8, <1>10, GrownOn DEF IsJoin
<1>12. AreViewed(as, vs)
  <2>1. AreViewed(ia, vs)
    BY <1>1, <1>4 DEF AreViewed, AccRight
  <2>2. AreViewed(va, vs)
    BY <1>1, <1>5 DEF AreViewed
  <2>3. AreViewed(mid, vs)
    BY <1>1, <1>8, <2>1, ViewedOn
  <2>4. Carried(vs, vs)
    BY <1>1 DEF Carried, SameView
  <2> QED
    BY <1>10, <2>2, <2>3, <2>4, ViewedOn
<1>13. /\ B \in Nat /\ Len(mid) = B + Len(ia) /\ Len(as) = Len(mid) + Len(va)
       /\ \A i \in 1 .. Len(ia) : mid[B + i] = ia[i]
       /\ \A i \in 1 .. Len(mid) : as[i] = mid[i]
       /\ \A i \in 1 .. Len(va) : as[Len(mid) + i] = va[i]
  BY <1>8, <1>10 DEF IsJoin, Grown
<1> HIDE DEF B
<1>14. \A i \in 1 .. Len(h.indices) : B + i \in 1 .. Len(as) /\ as[B + i] = ia[i]
  <2> TAKE i \in 1 .. Len(h.indices)
  <2>1. B + i \in 1 .. Len(mid) /\ B + i \in 1 .. Len(as)
    BY <1>4, <1>5, <1>13, SMTT(20)
  <2> QED
    BY <1>4, <1>13, <2>1
<1>15. ASSUME NEW n \in 1 .. Cardinality(R)
       PROVE  B + Len(h.indices) + n \in 1 .. Len(as) /\ as[B + Len(h.indices) + n] = va[n]
  <2>1. \A c, d, e \in Nat : \A x \in 1 .. e : c + d + x \in 1 .. c + d + e
    OBVIOUS
  <2>2. Len(mid) = B + Len(h.indices) /\ Len(as) = B + Len(h.indices) + Cardinality(R)
    BY <1>4, <1>5, <1>13
  <2>3. n \in 1 .. Len(va) /\ Cardinality(R) \in Nat /\ Len(h.indices) \in Nat /\ B \in Nat
    BY <1>4, <1>5, <1>13
  <2>4. as[Len(mid) + n] = va[n]
    BY <1>13, <2>3
  <2>5. B + Len(h.indices) + n \in 1 .. Len(as)
    BY <2>1, <2>2, <2>3, Zenon
  <2> QED
    BY <2>2, <2>4, <2>5, Zenon
<1>16. ASSUME NEW v \in 1 .. Len(h.vertices)
       PROVE  /\ DOMAIN o.vertices[v] = AttributeNames(h.vertices[v])
              /\ \A name \in AttributeNames(h.vertices[v]) :
                   \E r \in Named(h.vertices[v], name) :
                     RecordAccessor(vs, as, s, h, v, r, o.vertices[v][name])
  <2> DEFINE g == h.vertices[v]
  <2>1. g \in Seq(VtAttr)
    <3>1. h.vertices \in Seq(Seq(VtAttr))
      BY SlotsPresent
    <3> QED
      BY <3>1, LenProperties
  <2>2. DOMAIN o.vertices[v] = AttributeNames(g)
    BY <1>7 DEF Attributes
  <2>3. ASSUME NEW name \in AttributeNames(g)
        PROVE  \E r \in Named(g, name) : RecordAccessor(vs, as, s, h, v, r, o.vertices[v][name])
    <3> DEFINE r == Max(Named(g, name))
               n == Rank(R, <<v, r>>)
               x == o.vertices[v][name]
    <3>1. r \in Named(g, name) /\ r \in 1 .. Len(g)
      BY <2>1, NameRight
    <3>2. x = B + Len(h.indices) + n
      BY <1>7 DEF Attributes, R
    <3> HIDE DEF r, x
    <3>3. n \in 1 .. Cardinality(R) /\ AccRight(vs, va[n], h, g[r].slot, g[r].offset, s.vertices[v].n)
      BY <1>5, <3>1
    <3> HIDE DEF n
    <3>4. x \in 1 .. Len(as) /\ as[x] = va[n]
      BY <1>15, <3>2, <3>3
    <3>5. RecordAccessor(vs, as, s, h, v, r, x)
      BY <3>3, <3>4 DEF RecordAccessor
    <3> QED
      BY <3>1, <3>5 DEF x
  <2> QED
    BY <2>2, <2>3
<1>17. Len(o.vertices) = Len(h.vertices)
  <2>1. Len(h.vertices) \in Nat
    BY SlotsPresent, LenProperties
  <2>2. PICK T2 : T2 = {Attributes(h, v, B) : v \in 1 .. Len(h.vertices)}
    OBVIOUS
  <2>3. o.vertices \in [1 .. Len(h.vertices) -> T2]
    BY <1>7, <2>2
  <2> QED
    BY <2>1, <2>3, IsList
<1>18. OpenedStream(vs, as, s, h, o)
  <2>1. o.beginIndices = B /\ B \in Nat
    BY <1>7, <1>13
  <2>2. \A i \in 1 .. Len(h.indices) :
          /\ o.beginIndices + i \in 1 .. Len(as)
          /\ AccRight(vs, as[o.beginIndices + i], h, "IndexShort", h.indices[i].offset, h.indices[i].count)
    BY <1>4, <1>14, <2>1
  <2> QED
    BY <1>16, <1>17, <2>1, <2>2, Zenon DEF OpenedStream
<1> QED
  BY <1>1, <1>11, <1>12, <1>18

-----------------------------------------------------------------------------
(***************************************************************************)
(* The parts of the document, and what the steps that change it do to      *)
(* them.                                                                   *)
(***************************************************************************)
PartNames ==
  {"buffers", "bufferViews", "accessors", "meshes", "nodes", "roots", "lodNodes", "tms", "scales"}

ViewFields == {"buffer", "offset", "length"}

PartsRight ==
  /\ DOMAIN doc = PartNames
  /\ (\E S : doc.bufferViews \in Seq(S)) /\ (\E S : doc.accessors \in Seq(S))
  /\ (\E S : doc.tms \in Seq(S)) /\ (\E S : doc.scales \in Seq(S))
  /\ \A i \in 1 .. Len(doc.bufferViews) : DOMAIN doc.bufferViews[i] = ViewFields
  /\ AreViewed(doc.accessors, doc.bufferViews)

BufferNumber == IF file.kind = "im" THEN 2 ELSE 1

OpenedWith(h, begin) ==
  [vertices |-> [v \in 1 .. Len(h.vertices) |-> Attributes(h, v, begin)], beginIndices |-> begin]

(* What opening a stream, drawing a model and saving leave alone.           *)
LEMMA OpenEffect ==
  ASSUME PartsRight, OpenStream, NEW n, n = ModelStream, NEW h, h = header[n]
  PROVE  /\ DOMAIN doc' = PartNames
         /\ doc'.bufferViews = doc.bufferViews \o BufferViews(h, BufferNumber)
         /\ doc'.accessors = (doc.accessors \o IndexAccessors(h)) \o VertexAccessors(source[n], h)
         /\ doc'.buffers = doc.buffers /\ doc'.meshes = doc.meshes /\ doc'.nodes = doc.nodes
         /\ doc'.tms = doc.tms /\ doc'.scales = doc.scales
         /\ n \notin DOMAIN opened /\ ~SlotMissing(h)
         /\ DOMAIN opened' = DOMAIN opened \cup {n}
         /\ \A m \in DOMAIN opened : opened'[m] = opened[m]
         /\ opened'[n] = OpenedWith(h, Len(doc.accessors))
         /\ fate = "convert" /\ fate' = fate /\ drawn' = drawn
         /\ UNCHANGED <<sessionVars, loaderVars>>
<1>1. /\ n \notin DOMAIN opened /\ ~SlotMissing(h) /\ fate = "convert" /\ fate' = fate
      /\ drawn' = drawn /\ UNCHANGED <<sessionVars, loaderVars>>
      /\ AddStream(n, Len(doc.accessors))
  BY DEF OpenStream, MoreModels
<1> DEFINE new == OpenedWith(h, Len(doc.accessors))
<1>2. opened' = [m \in DOMAIN opened \cup {n} |-> IF m = n THEN new ELSE opened[m]]
  BY <1>1, Zenon DEF AddStream, OpenedWith
<1> HIDE DEF new
<1>3. /\ DOMAIN opened' = DOMAIN opened \cup {n}
      /\ \A m \in DOMAIN opened : opened'[m] = opened[m]
      /\ opened'[n] = new
  BY <1>1, <1>2
<1> DEFINE nv == doc.bufferViews \o BufferViews(h, BufferNumber)
           na == (doc.accessors \o IndexAccessors(h)) \o VertexAccessors(source[n], h)
<1>4. doc' = [doc EXCEPT !.bufferViews = nv, !.accessors = na]
  BY <1>1, Zenon DEF AddStream, BufferNumber
<1> HIDE DEF nv, na
<1>5. /\ DOMAIN doc' = PartNames /\ doc'.bufferViews = nv /\ doc'.accessors = na
      /\ doc'.buffers = doc.buffers /\ doc'.meshes = doc.meshes /\ doc'.nodes = doc.nodes
      /\ doc'.tms = doc.tms /\ doc'.scales = doc.scales
  BY <1>4 DEF PartsRight, PartNames
<1> QED
  BY <1>1, <1>3, <1>5 DEF new, nv, na

LEMMA DrawEffect ==
  ASSUME PartsRight, DrawModel, NEW m, m = models[drawn + 1]
  PROVE  /\ DOMAIN doc' = PartNames
         /\ doc'.bufferViews = doc.bufferViews /\ doc'.buffers = doc.buffers
         /\ doc'.meshes = Append(doc.meshes, Mesh(m))
         /\ doc'.accessors = IF Instanced(m) THEN doc.accessors \o InstanceAccessors(m) ELSE doc.accessors
         /\ doc'.tms = IF Instanced(m) THEN doc.tms \o Transforms(m) ELSE doc.tms
         /\ doc'.scales = IF Instanced(m) /\ Rescaled(m) THEN doc.scales \o m.matrices ELSE doc.scales
         /\ m.stream + 1 \in DOMAIN opened /\ ~UnknownBuffer(m) /\ opened' = opened
         /\ fate = "convert" /\ fate' = fate /\ drawn' = drawn + 1
         /\ UNCHANGED <<sessionVars, loaderVars>>
  BY DEF DrawModel, MoreModels, AddNode, PartsRight, PartNames, Model, ModelStream

LEMMA SaveEffect ==
  ASSUME PartsRight, Save
  PROVE  /\ DOMAIN doc' = PartNames
         /\ doc'.accessors = doc.accessors /\ doc'.meshes = doc.meshes /\ doc'.nodes = doc.nodes
         /\ doc'.tms = doc.tms /\ doc'.scales = doc.scales
         /\ IF file.kind = "im" /\ doc.tms = <<>>
            THEN /\ doc'.buffers = Tail(doc.buffers)
                 /\ doc'.bufferViews = [i \in DOMAIN doc.bufferViews |-> [doc.bufferViews[i] EXCEPT !.buffer = 1]]
            ELSE doc'.buffers = doc.buffers /\ doc'.bufferViews = doc.bufferViews
         /\ fate = "convert" /\ fate' = "saved" /\ drawn' = drawn /\ opened' = opened
         /\ UNCHANGED <<sessionVars, loaderVars>>
  BY DEF Save, Finished, PartsRight, PartNames

-----------------------------------------------------------------------------
(***************************************************************************)
(* The document is begun when its files are loaded, and what it draws from *)
(* stays as it is.                                                         *)
(***************************************************************************)
Settled == stage = "ready" /\ source = SharedStreams /\ Len(header) = Len(source)

JobRight ==
  /\ <<map, file>> \in Jobs
  /\ fate \in {"extract", "load", "convert", "saved", "failed"}
  /\ fate \in {"extract", "load"} => opened = <<>>
  /\ fate \in {"convert", "saved"} \/ drawn > 0 \/ DOMAIN opened # {} => Settled

(* Every other step: it touches files only before a document is begun.     *)
Aside ==
  /\ UNCHANGED <<drawn, opened, doc, file, map>>
  /\ fate # "extract" => UNCHANGED sessionVars
  /\ fate # "load" => UNCHANGED loaderVars
  /\ fate' \in {"extract", "load", "convert", "saved", "failed"}
  /\ fate' \in {"extract", "load"} => fate \in {"extract", "load"}
  /\ fate' \in {"convert", "saved"} =>
       fate = fate' \/ (fate = "load" /\ stage = "ready" /\ UNCHANGED loaderVars)
  /\ fate' = "saved" <=> fate = "saved"

(* The steps of the converter, by what they do to the document.             *)
LEMMA StepKinds ==
  ASSUME JobRight, [SceneNext]_vars PROVE OpenStream \/ DrawModel \/ Save \/ Aside
<1>0. fate \in {"extract", "load", "convert", "saved", "failed"}
  BY DEF JobRight
<1>1. CASE UNCHANGED vars
  BY <1>0, <1>1 DEF vars, sceneVars, loaderVars, sessionVars, extractVars, Aside
<1>2. CASE ExtractStep
  <2>1. ASSUME RefuseMap \/ RefuseTexture PROVE map' = map
    BY <2>1 DEF RefuseMap, RefuseTexture, GiveUp
  <2>2. ASSUME SendTexture \/ SendCached \/ SendEntry \/ SendModel PROVE map' = map
    BY <2>2 DEF SendTexture, SendCached, SendEntry, SendModel, WriteFile
  <2>3. ASSUME OpenBin \/ WriteBin \/ CloseBin \/ NextPart \/ EndMap PROVE map' = map
    BY <2>3 DEF OpenBin, WriteBin, CloseBin, NextPart, EndMap, extractVars
  <2>4. map' = map
    BY <1>2, <2>1, <2>2, <2>3 DEF ExtractStep, AppProcessFile
  <2> QED
    BY <1>2, <2>4 DEF ExtractStep, Aside, loaderVars, sceneVars
<1>3. CASE OpenHeader
  BY <1>3 DEF OpenHeader, AtHeader, Aside, loaderVars, extractVars
<1>4. CASE MissHeader
  BY <1>4 DEF MissHeader, AtHeader, Aside, loaderVars, sessionVars, extractVars
<1>5. CASE LoadStep
  <2>1. file' = file
    BY <1>5 DEF LoadStep, Loader!Load, Loader!RefuseV2, Loader!LoadObject, Loader!LoadTerrain, Loader!EndModels,
       Loader!RefuseIndex, Loader!SkipMatrix, Loader!PlaceMatrix, Loader!EndPlaces, Loader!SkipCluster,
       Loader!SetLevel, Loader!EndLevels
  <2> QED
    BY <1>5, <2>1 DEF LoadStep, Aside, sceneVars, sessionVars, extractVars
<1>6. CASE EndLoad
  BY <1>6 DEF EndLoad, Aside, loaderVars, sessionVars, extractVars
<1>7. CASE RefuseSlot \/ RefuseBuffer
  BY <1>7 DEF RefuseSlot, RefuseBuffer, MoreModels, Aside, loaderVars, sessionVars, extractVars
<1>8. CASE SceneDone
  BY <1>1, <1>8 DEF SceneDone
<1> QED
  BY <1>1, <1>2, <1>3, <1>4, <1>5, <1>6, <1>7, <1>8 DEF SceneNext, Work

(* What the tool is about fits the file it was given.                       *)
LEMMA JobRightInit == SceneInit => JobRight
<1> SUFFICES ASSUME SceneInit PROVE JobRight
  OBVIOUS
<1>1. DOMAIN <<>> = {}
  OBVIOUS
<1> QED
  BY <1>1 DEF SceneInit, JobRight

LEMMA JobRightStep ==
  ASSUME SceneRight, PartsRight, JobRight, SharedRight', [SceneNext]_vars PROVE JobRight'
<1>1. ASSUME UNCHANGED <<sessionVars, loaderVars>>, fate = "convert", fate' \in {"convert", "saved"}
      PROVE  JobRight'
  <2>1. Settled
    BY <1>1 DEF JobRight
  <2>2. UNCHANGED <<map, file, stage, source, header>>
    BY <1>1 DEF sessionVars, extractVars, mapVars, fileVars, loaderVars
  <2>3. Settled'
    BY <2>1, <2>2 DEF Settled, SharedStreams
  <2>4. <<map', file'>> \in Jobs
    BY <2>2 DEF JobRight
  <2> QED
    BY <1>1, <2>3, <2>4 DEF JobRight
<1>2. CASE OpenStream
  BY <1>1, <1>2, OpenEffect
<1>3. CASE DrawModel
  BY <1>1, <1>3, DrawEffect
<1>4. CASE Save
  BY <1>1, <1>4, SaveEffect
<1>5. CASE Aside
  <2>1. /\ UNCHANGED <<drawn, opened, doc, file, map>>
        /\ fate # "extract" => UNCHANGED sessionVars
        /\ fate # "load" => UNCHANGED loaderVars
        /\ fate' \in {"extract", "load", "convert", "saved", "failed"}
        /\ fate' \in {"extract", "load"} => fate \in {"extract", "load"}
        /\ fate' \in {"convert", "saved"} =>
             fate = fate' \/ (fate = "load" /\ stage = "ready" /\ UNCHANGED loaderVars)
    BY <1>5 DEF Aside
  <2>2. ASSUME fate' \in {"convert", "saved"} PROVE Settled'
    <3>1. source' = SharedStreams' /\ Len(header)' = Len(source)'
      BY <2>2 DEF SharedRight
    <3>2. stage' = "ready"
      BY <2>1, <2>2 DEF JobRight, Settled, loaderVars
    <3> QED
      BY <3>1, <3>2 DEF Settled
  <2>3. ASSUME drawn' > 0 \/ DOMAIN opened' # {} PROVE Settled'
    <3>1. Settled
      BY <2>1, <2>3 DEF JobRight
    <3>2. fate \notin {"extract", "load"}
      <4>1. DOMAIN <<>> = {} /\ ~(0 > 0)
        OBVIOUS
      <4> QED
        BY <2>1, <2>3, <4>1 DEF JobRight, SceneRight, DrawnRight
    <3>3. UNCHANGED <<map, file, stage, source, header>>
      BY <2>1, <3>2 DEF sessionVars, extractVars, mapVars, fileVars, loaderVars
    <3> QED
      BY <3>1, <3>3 DEF Settled, SharedStreams
  <2> QED
    BY <2>1, <2>2, <2>3 DEF JobRight
<1> QED
  BY <1>2, <1>3, <1>4, <1>5, StepKinds

(* Nothing moves below a document that has streams or models.              *)
LEMMA AsideKeeps ==
  ASSUME SceneRight, JobRight, Aside, drawn > 0 \/ DOMAIN opened # {}
  PROVE  UNCHANGED <<sessionVars, loaderVars, drawn, opened, doc>>
<1>1. DOMAIN <<>> = {} /\ ~(0 > 0)
  OBVIOUS
<1>2. fate \notin {"extract", "load"}
  BY <1>1 DEF JobRight, SceneRight, DrawnRight
<1> QED
  BY <1>2 DEF Aside

-----------------------------------------------------------------------------
(***************************************************************************)
(* The models of a loaded file draw from streams the map has.              *)
(***************************************************************************)
LEMMA ModelFits ==
  ASSUME SharedRight, LoaderRight, LoadedRight, JobRight, Settled, NEW k \in 1 .. Len(models),
         NEW n, n = models[k].stream + 1
  PROVE  /\ n \in 1 .. Len(header) /\ n \in 1 .. Len(source) /\ header[n] \in Described
         /\ IsStream(source[n]) /\ FinishedRight(bin, n, source[n], header[n])
         /\ \A i \in 1 .. Len(models[k].prims) :
              /\ models[k].prims[i].vb \in Nat
              /\ models[k].prims[i].ib \in 0 .. Len(source[n].indices) - 1
<1>1. /\ stage = "ready" /\ source = SharedStreams /\ Len(header) = Len(source)
      /\ file.kind \in {"im", "tm"} /\ Len(models) = Len(file.meshes)
  BY DEF Settled, LoadedRight
<1>2. models[k].stream = StreamOfMesh(file, k) /\ models[k].prims = file.meshes[k]
  BY <1>1 DEF LoadedRight, ModelLoaded
<1>3. StreamsFit(map, file)
  BY <1>1, SceneAssumption DEF JobRight
<1>4. SharedStreams = IF file.kind = "tm" THEN map.terrain ELSE map.objects
  BY DEF SharedStreams
<1> DEFINE Prims(s) == [vb : Nat, ib : 0 .. Len(s.indices) - 1]
<1>5. /\ StreamOfMesh(file, k) \in 0 .. Len(source) - 1
      /\ file.meshes[k] \in Seq(Prims(source[StreamOfMesh(file, k) + 1]))
  BY <1>1, <1>3, <1>4 DEF StreamsFit
<1>6. Len(header) \in Nat /\ \A j \in 1 .. Len(header) : header[j] \in Described
  BY LenProperties DEF SharedRight, TypeRight
<1>7. \A m \in Nat : \A x \in 0 .. m - 1 : x + 1 \in 1 .. m
  OBVIOUS
<1>8. n \in 1 .. Len(source)
  BY <1>1, <1>2, <1>5, <1>6, <1>7, Zenon
<1>9. models[k].prims \in Seq(Prims(source[n]))
  BY <1>2, <1>5
<1>10. \A i \in 1 .. Len(models[k].prims) : models[k].prims[i] \in Prims(source[n])
  BY <1>9, LenProperties
<1>11. IsStream(source[n]) /\ FinishedRight(bin, n, source[n], header[n])
  BY <1>1, <1>8, FinishedStreams DEF SharedRight, ReadRight, HeadersRight
<1> QED
  BY <1>1, <1>6, <1>8, <1>10, <1>11

(* The model that is next, or drawn.                                       *)
LEMMA NextModel ==
  ASSUME SceneRight, drawn < Len(models)
  PROVE  drawn \in Nat /\ Len(models) \in Nat /\ drawn + 1 \in 1 .. Len(models)
<1>1. drawn \in Nat /\ Len(models) \in Nat
  BY FileFits DEF SceneRight, DrawnRight
<1> QED
  BY <1>1

(* Models drawn so far are models of the file.                              *)
LEMMA DrawnModels ==
  ASSUME SceneRight PROVE \A k \in 1 .. drawn : k \in 1 .. Len(models)
<1>1. drawn \in Nat /\ Len(models) \in Nat /\ drawn <= Len(models)
  BY FileFits DEF SceneRight, DrawnRight
<1> QED
  BY <1>1

-----------------------------------------------------------------------------
(***************************************************************************)
(* The opened streams, and the meshes drawn from them.                     *)
(***************************************************************************)
OpenedRight ==
  \A n \in DOMAIN opened :
    /\ n \in 1 .. Len(header)
    /\ OpenedStream(doc.bufferViews, doc.accessors, source[n], header[n], opened[n])

MeshOf(m, o) ==
  [i \in 1 .. Len(m.prims) |->
     [indices |-> o.beginIndices + m.prims[i].ib + 1,
      attributes |-> o.vertices[m.prims[i].vb + 1]]]

Knows(m, o) == \A i \in 1 .. Len(m.prims) : ~(m.prims[i].vb >= Len(o.vertices))

MeshRight(m, o, mesh) == mesh = MeshOf(m, o) /\ Knows(m, o)

MeshesRight ==
  \A k \in 1 .. drawn :
    /\ models[k].stream + 1 \in DOMAIN opened
    /\ MeshRight(models[k], opened[models[k].stream + 1], doc.meshes[k])

(* Opening one stream keeps all the others right.                           *)
LEMMA StreamsStepOpen ==
  ASSUME SharedRight, SceneRight, LoadedRight, PartsRight, JobRight, OpenedRight, MeshesRight, OpenStream
  PROVE  /\ PartsRight' /\ OpenedRight' /\ MeshesRight'
         /\ Carried(doc.bufferViews, doc'.bufferViews) /\ Grown(doc.accessors, doc'.accessors)
<1>a. PICK n : n = ModelStream
  OBVIOUS
<1>b. PICK h : h = header[n]
  OBVIOUS
<1> DEFINE b == BufferNumber
           vs == doc'.bufferViews
           as == doc'.accessors
           o == OpenedWith(h, Len(doc.accessors))
<1>0. drawn < Len(models) /\ fate = "convert"
  BY DEF OpenStream, MoreModels
<1>1. /\ DOMAIN doc' = PartNames
      /\ vs = doc.bufferViews \o BufferViews(h, b)
      /\ as = (doc.accessors \o IndexAccessors(h)) \o VertexAccessors(source[n], h)
      /\ doc'.meshes = doc.meshes /\ doc'.tms = doc.tms /\ doc'.scales = doc.scales
      /\ n \notin DOMAIN opened /\ ~SlotMissing(h)
      /\ DOMAIN opened' = DOMAIN opened \cup {n}
      /\ \A m \in DOMAIN opened : opened'[m] = opened[m]
      /\ opened'[n] = o
      /\ drawn' = drawn /\ UNCHANGED <<sessionVars, loaderVars>>
  BY <1>a, <1>b, OpenEffect, ZenonT(40)
<1>2. Settled /\ drawn + 1 \in 1 .. Len(models)
  BY <1>0, NextModel DEF JobRight
<1>3. n \in 1 .. Len(header) /\ h \in Described
  BY <1>2, <1>a, <1>b, ModelFits DEF SceneRight, ModelStream, Model
<1>4. PICK S : doc.bufferViews \in Seq(S)
  BY DEF PartsRight
<1>5. PICK T : doc.accessors \in Seq(T)
  BY DEF PartsRight
<1>6. AreViewed(doc.accessors, doc.bufferViews)
  BY DEF PartsRight
<1>7. o = [vertices |-> [v \in 1 .. Len(h.vertices) |-> Attributes(h, v, Len(doc.accessors))],
           beginIndices |-> Len(doc.accessors)]
  BY DEF OpenedWith
<1>8. UNCHANGED <<source, header, models>>
  BY <1>1 DEF sessionVars, mapVars, fileVars, loaderVars
<1>9. IsJoin(doc.bufferViews, BufferViews(h, b), vs)
  <2>1. PICK U : BufferViews(h, b) \in Seq(U)
    BY BufferViewsRight
  <2> QED
    BY <1>1, <1>4, <2>1, JoinRight
<1>10. \A u \in 1 .. Len(BufferViews(h, b)) : DOMAIN BufferViews(h, b)[u] = ViewFields
  BY BufferViewsRight DEF ViewFields
<1> HIDE DEF b, vs, as, o
<1>11. /\ Carried(doc.bufferViews, vs) /\ Grown(doc.accessors, as)
       /\ (\E A : vs \in Seq(A)) /\ (\E A : as \in Seq(A))
       /\ AreViewed(as, vs)
       /\ OpenedStream(vs, as, source[n], h, o)
  BY <1>1, <1>3, <1>4, <1>5, <1>6, <1>7, StreamOpened
<1>12. \A i \in 1 .. Len(vs) : DOMAIN vs[i] = ViewFields
  <2>1. AllOver(ViewFields, doc.bufferViews)
    BY DEF PartsRight, AllOver
  <2>2. AllOver(ViewFields, BufferViews(h, b))
    BY <1>10 DEF AllOver
  <2>3. AllOver(ViewFields, vs)
    BY <1>9, <2>1, <2>2, AllOfJoin
  <2> QED
    BY <2>3 DEF AllOver
<1>13. PartsRight'
  BY <1>1, <1>11, <1>12 DEF PartsRight, vs, as
<1>14. OpenedRight'
  <2>1. ASSUME NEW m \in DOMAIN opened'
        PROVE  /\ m \in 1 .. Len(header)
               /\ OpenedStream(vs, as, source[m], header[m], opened'[m])
    <3>1. CASE m = n
      BY <1>1, <1>3, <1>11, <1>b, <3>1
    <3>2. CASE m \in DOMAIN opened
      <4>1. m \in 1 .. Len(header)
            /\ OpenedStream(doc.bufferViews, doc.accessors, source[m], header[m], opened[m])
        BY <3>2 DEF OpenedRight
      <4>2. OpenedStream(vs, as, source[m], header[m], opened[m])
        BY <1>11, <4>1, OpenedKept
      <4> QED
        BY <1>1, <3>2, <4>1, <4>2
    <3> QED
      BY <1>1, <3>1, <3>2
  <2> QED
    BY <1>8, <2>1 DEF OpenedRight, vs, as
<1>15. MeshesRight'
  BY <1>1, <1>8 DEF MeshesRight
<1> QED
  BY <1>11, <1>13, <1>14, <1>15 DEF vs, as

-----------------------------------------------------------------------------
(***************************************************************************)
(* Where a model stands: its instances are in the two streams of the       *)
(* embedded buffer, in the order of its matrices.                          *)
(***************************************************************************)
InstanceRight(a, tms, scs, ms) ==
  /\ a.count = Len(ms) /\ a.offset \in Nat
  /\ a.slot = "scale" =>
       a.offset + Len(ms) <= Len(scs) /\ \A i \in 1 .. Len(ms) : scs[a.offset + i] = ms[i]
  /\ a.slot # "scale" =>
       /\ a.offset + 2 * Len(ms) - 1 <= Len(tms)
       /\ \A i \in 1 .. Len(ms) : tms[a.offset + 2 * i - 1] = <<ms[i], a.slot>>

InstanceSlot == <<"translation", "rotation", "scale">>

InstanceNumber(ms) == IF Range(ms) \cap Scaled # {} THEN 3 ELSE 2

InstanceAt(as, tms, scs, x, i, ms) ==
  x \in 1 .. Len(as) /\ as[x].slot = InstanceSlot[i] /\ InstanceRight(as[x], tms, scs, ms)

PlaceRight(as, tms, scs, place, ms) ==
  /\ Len(ms) <= 1 => place.matrix = ms /\ Len(place.instances) = 0
  /\ ~(Len(ms) <= 1) =>
       /\ Len(place.instances) = InstanceNumber(ms)
       /\ \A i \in 1 .. Len(place.instances) : InstanceAt(as, tms, scs, place.instances[i], i, ms)

(* A model placed in the document stays placed.                             *)
LEMMA PlaceKept ==
  ASSUME NEW as, NEW bs, Grown(as, bs), NEW tms, NEW tns, Grown(tms, tns),
         NEW scs, NEW scn, Grown(scs, scn), NEW ms, Len(ms) \in Nat
  PROVE  \A place : PlaceRight(as, tms, scs, place, ms) => PlaceRight(bs, tns, scn, place, ms)
<1>1. ASSUME NEW a, InstanceRight(a, tms, scs, ms) PROVE InstanceRight(a, tns, scn, ms)
  <2>1. a.count = Len(ms) /\ a.offset \in Nat
    BY <1>1 DEF InstanceRight
  <2>2. ASSUME a.slot = "scale"
        PROVE  a.offset + Len(ms) <= Len(scn) /\ \A i \in 1 .. Len(ms) : scn[a.offset + i] = ms[i]
    <3>1. a.offset + Len(ms) <= Len(scs) /\ \A i \in 1 .. Len(ms) : scs[a.offset + i] = ms[i]
      BY <1>1, <2>2 DEF InstanceRight
    <3>2. \A i \in 1 .. Len(ms) : a.offset + i \in 1 .. Len(scs)
      BY <2>1, <3>1 DEF Grown
    <3> QED
      BY <2>1, <3>1, <3>2, SMTT(20) DEF Grown
  <2>3. ASSUME a.slot # "scale"
        PROVE  /\ a.offset + 2 * Len(ms) - 1 <= Len(tns)
               /\ \A i \in 1 .. Len(ms) : tns[a.offset + 2 * i - 1] = <<ms[i], a.slot>>
    <3>1. /\ a.offset + 2 * Len(ms) - 1 <= Len(tms)
          /\ \A i \in 1 .. Len(ms) : tms[a.offset + 2 * i - 1] = <<ms[i], a.slot>>
      BY <1>1, <2>3 DEF InstanceRight
    <3>2. \A i \in 1 .. Len(ms) : a.offset + 2 * i - 1 \in 1 .. Len(tms)
      BY <2>1, <3>1, SMTT(20) DEF Grown
    <3>3. \A u \in 1 .. Len(tms) : tns[u] = tms[u]
      BY DEF Grown
    <3>4. \A i \in 1 .. Len(ms) : tns[a.offset + 2 * i - 1] = tms[a.offset + 2 * i - 1]
      BY <3>2, <3>3, Zenon
    <3>5. \A i \in 1 .. Len(ms) : tns[a.offset + 2 * i - 1] = <<ms[i], a.slot>>
      BY <3>1, <3>4, Zenon
    <3>6. \A c, d, e \in Nat : \A x \in Nat : x + 2 * c - 1 <= d /\ d <= e => x + 2 * c - 1 <= e
      OBVIOUS
    <3>7. Len(tms) \in Nat /\ Len(tns) \in Nat /\ Len(tms) <= Len(tns)
      BY DEF Grown
    <3>8. a.offset + 2 * Len(ms) - 1 <= Len(tns)
      BY <2>1, <3>1, <3>6, <3>7, Zenon
    <3> QED
      BY <3>5, <3>8
  <2> QED
    BY <2>1, <2>2, <2>3 DEF InstanceRight
<1>2. \A m, n \in Nat : m <= n => \A x \in 1 .. m : x \in 1 .. n
  OBVIOUS
<1>3. \A x \in 1 .. Len(as) : x \in 1 .. Len(bs) /\ bs[x] = as[x]
  BY <1>2, Zenon DEF Grown
<1>4. \A x, i : InstanceAt(as, tms, scs, x, i, ms) => InstanceAt(bs, tns, scn, x, i, ms)
  BY <1>1, <1>3 DEF InstanceAt
<1> QED
  BY <1>4, Zenon DEF PlaceRight

(* The instances of a model, behind those of all models before.             *)
LEMMA TransformsRight ==
  ASSUME NEW m, m.matrices \in Seq(Nat)
  PROVE  /\ \E S : Transforms(m) \in Seq(S)
         /\ Len(Transforms(m)) = 2 * Len(m.matrices)
         /\ \A i \in 1 .. Len(m.matrices) :
              /\ Transforms(m)[2 * i - 1] = <<m.matrices[i], "translation">>
              /\ Transforms(m)[2 * i] = <<m.matrices[i], "rotation">>
<1> DEFINE X(j) == <<m.matrices[(j + 1) \div 2], IF j % 2 = 1 THEN "translation" ELSE "rotation">>
           N == 2 * Len(m.matrices)
           t == [j \in 1 .. N |-> X(j)]
<1>1. Len(m.matrices) \in Nat /\ N \in Nat
  BY LenProperties
<1>2. t = Transforms(m)
  BY DEF Transforms
<1>3. \A j \in 1 .. N : t[j] = X(j)
  OBVIOUS
<1>4. PICK T : T = {X(j) : j \in 1 .. N}
  OBVIOUS
<1>5. t \in [1 .. N -> T]
  BY <1>4
<1>6. \A i \in 1 .. Len(m.matrices) :
        /\ 2 * i - 1 \in 1 .. N /\ 2 * i \in 1 .. N
        /\ (2 * i - 1 + 1) \div 2 = i /\ (2 * i + 1) \div 2 = i
        /\ (2 * i - 1) % 2 = 1 /\ (2 * i) % 2 = 0
  BY <1>1
<1>7. \A i \in 1 .. Len(m.matrices) :
        X(2 * i - 1) = <<m.matrices[i], "translation">> /\ X(2 * i) = <<m.matrices[i], "rotation">>
  BY <1>6
<1> HIDE DEF t, X
<1>8. t \in Seq(T) /\ Len(t) = N
  BY <1>1, <1>5, IsList
<1>9. \A i \in 1 .. Len(m.matrices) :
        t[2 * i - 1] = <<m.matrices[i], "translation">> /\ t[2 * i] = <<m.matrices[i], "rotation">>
  BY <1>3, <1>6, <1>7
<1> QED
  BY <1>2, <1>8, <1>9

LEMMA InstanceAccessorsRight ==
  ASSUME NEW m, m.matrices \in Seq(Nat), NEW S, doc.tms \in Seq(S), NEW T, doc.scales \in Seq(T),
         NEW tms, tms = doc.tms \o Transforms(m),
         NEW scs, Rescaled(m) => scs = doc.scales \o m.matrices
  PROVE  /\ \E A : InstanceAccessors(m) \in Seq(A)
         /\ Len(InstanceAccessors(m)) = InstanceNumber(m.matrices)
         /\ \A i \in 1 .. Len(InstanceAccessors(m)) :
              /\ InstanceAccessors(m)[i].view = 0 /\ InstanceAccessors(m)[i].slot = InstanceSlot[i]
              /\ InstanceRight(InstanceAccessors(m)[i], tms, scs, m.matrices)
<1> DEFINE ms == m.matrices
           n == Len(ms)
           Select(slot, offset) == [view |-> 0, offset |-> offset, count |-> n, slot |-> slot]
           a1 == Select("translation", Len(doc.tms))
           a2 == Select("rotation", Len(doc.tms) + 1)
           a3 == Select("scale", Len(doc.scales))
           ia == InstanceAccessors(m)
<1>1. /\ Rescaled(m) => ia = <<a1, a2>> \o <<a3>>
      /\ ~Rescaled(m) => ia = <<a1, a2>> \o <<>>
  BY DEF InstanceAccessors
<1>2. PICK U : Transforms(m) \in Seq(U)
  BY TransformsRight
<1>3. IsJoin(doc.tms, Transforms(m), tms)
  BY <1>2, JoinRight
<1>4. Rescaled(m) => IsJoin(doc.scales, ms, scs)
  BY JoinRight
<1>5. n \in Nat
  BY LenProperties
<1>6. /\ Len(doc.tms) \in Nat /\ Len(tms) = Len(doc.tms) + 2 * n
      /\ \A u \in 1 .. 2 * n : tms[Len(doc.tms) + u] = Transforms(m)[u]
  BY <1>3, TransformsRight DEF IsJoin
<1>7. \A i \in 1 .. n :
        /\ Transforms(m)[2 * i - 1] = <<ms[i], "translation">>
        /\ Transforms(m)[2 * i] = <<ms[i], "rotation">>
  BY TransformsRight
<1> DEFINE d == Len(doc.tms)
<1> HIDE DEF n, d
<1>8. \A c, e \in Nat : \A i \in 1 .. e :
        /\ 2 * i - 1 \in 1 .. 2 * e /\ 2 * i \in 1 .. 2 * e
        /\ c + 2 * i - 1 = c + (2 * i - 1) /\ (c + 1) + 2 * i - 1 = c + 2 * i
  OBVIOUS
<1>a. \A i \in 1 .. n :
        /\ 2 * i - 1 \in 1 .. 2 * n /\ 2 * i \in 1 .. 2 * n
        /\ d + 2 * i - 1 = d + (2 * i - 1) /\ (d + 1) + 2 * i - 1 = d + 2 * i
  BY <1>5, <1>6, <1>8, Zenon DEF d
<1>b. \A i \in 1 .. n : tms[d + 2 * i - 1] = <<ms[i], "translation">>
  <2>1. \A i \in 1 .. n : tms[d + (2 * i - 1)] = Transforms(m)[2 * i - 1]
    BY <1>6, <1>a, Zenon DEF d
  <2> QED
    BY <1>7, <1>a, <2>1, Zenon
<1>c. \A i \in 1 .. n : tms[(d + 1) + 2 * i - 1] = <<ms[i], "rotation">>
  <2>1. \A i \in 1 .. n : tms[d + 2 * i] = Transforms(m)[2 * i]
    BY <1>6, <1>a, Zenon DEF d
  <2> QED
    BY <1>7, <1>a, <2>1, Zenon
<1>9. InstanceRight(a1, tms, scs, ms)
  <2>1. a1.count = Len(ms) /\ a1.offset = d /\ a1.slot = "translation"
    BY DEF n, d
  <2> HIDE DEF a1
  <2>2. a1.slot # "scale"
    BY <2>1
  <2>3. \A i \in 1 .. n : tms[a1.offset + 2 * i - 1] = <<ms[i], a1.slot>>
    BY <1>b, <2>1, Zenon
  <2>4. d \in Nat /\ Len(tms) = d + 2 * n
    BY <1>6 DEF d
  <2>5. a1.offset \in Nat /\ a1.offset + 2 * n - 1 <= Len(tms)
    BY <1>5, <2>1, <2>4
  <2> QED
    BY <2>1, <2>2, <2>3, <2>5 DEF InstanceRight, n
<1>10. InstanceRight(a2, tms, scs, ms)
  <2>1. a2.count = Len(ms) /\ a2.offset = d + 1 /\ a2.slot = "rotation"
    BY DEF n, d
  <2> HIDE DEF a2
  <2>2. a2.slot # "scale"
    BY <2>1
  <2>3. \A i \in 1 .. n : tms[a2.offset + 2 * i - 1] = <<ms[i], a2.slot>>
    BY <1>c, <2>1, Zenon
  <2>4. d \in Nat /\ Len(tms) = d + 2 * n
    BY <1>6 DEF d
  <2>5. a2.offset \in Nat /\ a2.offset + 2 * n - 1 <= Len(tms)
    BY <1>5, <2>1, <2>4
  <2> QED
    BY <2>1, <2>2, <2>3, <2>5 DEF InstanceRight, n
<1>11. Rescaled(m) => InstanceRight(a3, tms, scs, ms)
  <2>1. a3.count = Len(ms) /\ a3.offset = Len(doc.scales) /\ a3.slot = "scale"
    BY DEF n
  <2> HIDE DEF a3
  <2>2. Rescaled(m) => /\ a3.offset \in Nat /\ a3.offset + Len(ms) <= Len(scs)
                       /\ \A i \in 1 .. Len(ms) : scs[a3.offset + i] = ms[i]
    <3>1. Rescaled(m) => /\ Len(doc.scales) \in Nat /\ Len(ms) \in Nat
                         /\ Len(scs) = Len(doc.scales) + Len(ms)
                         /\ \A i \in 1 .. Len(ms) : scs[Len(doc.scales) + i] = ms[i]
      BY <1>4, Zenon DEF IsJoin
    <3>2. \A x, y, z \in Nat : z = x + y => x + y <= z
      OBVIOUS
    <3>3. Rescaled(m) => Len(scs) \in Nat
      BY <1>4 DEF IsJoin, Grown
    <3> QED
      BY <2>1, <3>1, <3>2, <3>3, Zenon
  <2> QED
    BY <2>1, <2>2 DEF InstanceRight
<1>12. /\ a1.view = 0 /\ a2.view = 0 /\ a3.view = 0
       /\ a1.slot = InstanceSlot[1] /\ a2.slot = InstanceSlot[2] /\ a3.slot = InstanceSlot[3]
  BY DEF InstanceSlot
<1>13. InstanceNumber(ms) = IF Rescaled(m) THEN 3 ELSE 2
  BY DEF InstanceNumber, Rescaled
<1> HIDE DEF a1, a2, a3, ms
<1>14. /\ \E A : ia \in Seq(A)
       /\ Len(ia) = InstanceNumber(ms)
       /\ ia[1] = a1 /\ ia[2] = a2 /\ (Rescaled(m) => ia[3] = a3)
  <2>1. CASE Rescaled(m)
    <3>1. ia = <<a1, a2, a3>>
      BY <1>1, <2>1
    <3>2. ia \in Seq({a1, a2, a3}) /\ Len(ia) = 3 /\ ia[1] = a1 /\ ia[2] = a2 /\ ia[3] = a3
      BY <3>1
    <3> QED
      BY <1>13, <2>1, <3>2
  <2>2. CASE ~Rescaled(m)
    <3>1. ia = <<a1, a2>>
      BY <1>1, <2>2
    <3>2. ia \in Seq({a1, a2}) /\ Len(ia) = 2 /\ ia[1] = a1 /\ ia[2] = a2
      BY <3>1
    <3> QED
      BY <1>13, <2>2, <3>2
  <2> QED
    BY <2>1, <2>2
<1> HIDE DEF ia
<1>15. \A i \in 1 .. Len(ia) : i = 1 \/ i = 2 \/ (i = 3 /\ Rescaled(m))
  BY <1>13, <1>14
<1>16. \A i \in 1 .. Len(ia) : ia[i].view = 0 /\ ia[i].slot = InstanceSlot[i] /\ InstanceRight(ia[i], tms, scs, ms)
  BY <1>9, <1>10, <1>11, <1>12, <1>14, <1>15
<1> QED
  BY <1>14, <1>16 DEF ia, ms

(* A node keeps its mesh and its place when others join it.                *)
SameNode(x, y) ==
  y.mesh = x.mesh /\ ("place" \in DOMAIN x => "place" \in DOMAIN y /\ y.place = x.place)

(* The nodes a model adds.                                                  *)
LEMMA HungNodes ==
  ASSUME NEW ns, AreNodes(ns), NEW P, NEW y
  PROVE  /\ Len(ns) \in Nat /\ Len(HungBelow(ns, P, y)) = Len(ns) + 1
         /\ HungBelow(ns, P, y)[Len(ns) + 1] = y
         /\ \A j \in 1 .. Len(ns) : SameNode(ns[j], HungBelow(ns, P, y)[j])
<1>1. PICK S : ns \in Seq(S)
  BY DEF AreNodes
<1>2. PICK z : z = [ns[P] EXCEPT !.children = Append(@, Len(ns) + 1)]
  OBVIOUS
<1>3. PICK mid : mid = [ns EXCEPT ![P] = z]
  OBVIOUS
<1>4. HungBelow(ns, P, y) = Append(mid, y)
  BY <1>2, <1>3 DEF HungBelow
<1>5. Len(ns) \in Nat /\ DOMAIN ns = 1 .. Len(ns)
  BY <1>1, LenProperties
<1>6. mid \in Seq(S \cup {z}) /\ Len(mid) = Len(ns)
  BY <1>1, <1>3, Changed, ZenonT(40)
<1>7. \A j \in 1 .. Len(ns) : mid[j] = IF j = P THEN z ELSE ns[j]
  BY <1>3, <1>5
<1>8. /\ Len(Append(mid, y)) = Len(ns) + 1 /\ Append(mid, y)[Len(ns) + 1] = y
      /\ \A j \in 1 .. Len(ns) : Append(mid, y)[j] = mid[j]
  BY <1>6, Appended
<1>9. ASSUME P \in 1 .. Len(ns) PROVE SameNode(ns[P], z)
  <2>1. {"mesh", "children"} \subseteq DOMAIN ns[P]
    BY <1>9 DEF AreNodes, IsNode
  <2> QED
    BY <1>2, <2>1 DEF SameNode
<1>10. \A j \in 1 .. Len(ns) : SameNode(ns[j], mid[j])
  BY <1>7, <1>9 DEF SameNode
<1> QED
  BY <1>4, <1>5, <1>8, <1>10

LEMMA DrawnNodes ==
  ASSUME SceneRight, PartsRight, DrawModel, NEW m, m = models[drawn + 1]
  PROVE  \A j \in 1 .. Len(doc'.nodes) :
           \/ j \in 1 .. Len(doc.nodes) /\ SameNode(doc.nodes[j], doc'.nodes[j])
           \/ "place" \in DOMAIN doc'.nodes[j] /\ doc'.nodes[j].mesh = 0
           \/ /\ "place" \in DOMAIN doc'.nodes[j] /\ doc'.nodes[j].mesh = drawn + 1
              /\ doc'.nodes[j].place = Place(m)
<1>1. /\ {"nodes", "roots", "lodNodes", "meshes"} \subseteq DOMAIN doc
      /\ AddNode(m, m.lod) /\ Len(doc.meshes) = drawn /\ AreNodes(doc.nodes)
  BY DEF SceneRight, DocRight, DrawModel, Model, TreeRight
<1>2. PICK group : group = [mesh |-> 0, children |-> <<>>, place |-> <<>>]
  OBVIOUS
<1>3. PICK node : node = [mesh |-> drawn + 1, children |-> <<>>, place |-> Place(m)]
  OBVIOUS
<1>4. PICK before : before = IF HasNode(m.lod) THEN doc.nodes ELSE Append(doc.nodes, group)
  OBVIOUS
<1>5. PICK P : P = IF HasNode(m.lod) THEN doc.lodNodes[m.lod] ELSE Len(doc.nodes) + 1
  OBVIOUS
<1>6. doc'.nodes = HungBelow(before, P, node)
  BY <1>1, <1>2, <1>3, <1>4, <1>5, Zenon DEF AddNode, HungBelow
<1>7. group.mesh = 0 /\ group.children = <<>> /\ "place" \in DOMAIN group /\ IsNode(group, 0)
  BY <1>2, EmptySeq DEF IsNode
<1>8. "place" \in DOMAIN node /\ node.mesh = drawn + 1 /\ node.place = Place(m)
  BY <1>3
<1>9. PICK S : doc.nodes \in Seq(S)
  BY <1>1 DEF AreNodes
<1>10. Len(doc.nodes) \in Nat
  BY <1>9, LenProperties
<1>11. CASE HasNode(m.lod)
  <2>1. before = doc.nodes
    BY <1>4, <1>11
  <2>2. /\ Len(doc'.nodes) = Len(doc.nodes) + 1 /\ doc'.nodes[Len(doc.nodes) + 1] = node
        /\ \A j \in 1 .. Len(doc.nodes) : SameNode(doc.nodes[j], doc'.nodes[j])
    BY <1>1, <1>6, <2>1, HungNodes
  <2>3. \A j \in 1 .. Len(doc'.nodes) : j \in 1 .. Len(doc.nodes) \/ j = Len(doc.nodes) + 1
    BY <1>10, <2>2
  <2> QED
    BY <1>8, <2>2, <2>3
<1>12. CASE ~HasNode(m.lod)
  <2>1. before = Append(doc.nodes, group)
    BY <1>4, <1>12
  <2>2. /\ Len(before) = Len(doc.nodes) + 1 /\ before[Len(doc.nodes) + 1] = group
        /\ \A j \in 1 .. Len(doc.nodes) : before[j] = doc.nodes[j]
        /\ before \in Seq(S \cup {group})
    BY <1>9, <2>1, Appended
  <2>3. AreNodes(before)
    BY <1>1, <1>7, <2>1, NodeAppended
  <2>4. /\ Len(doc'.nodes) = Len(doc.nodes) + 2 /\ doc'.nodes[Len(doc.nodes) + 2] = node
        /\ \A j \in 1 .. Len(doc.nodes) + 1 : SameNode(before[j], doc'.nodes[j])
    <3>1. /\ Len(doc'.nodes) = Len(before) + 1 /\ doc'.nodes[Len(before) + 1] = node
          /\ \A j \in 1 .. Len(before) : SameNode(before[j], doc'.nodes[j])
      BY <1>6, <2>3, HungNodes
    <3>2. Len(before) + 1 = Len(doc.nodes) + 2
      BY <1>10, <2>2
    <3> QED
      BY <2>2, <3>1, <3>2
  <2>5. SameNode(group, doc'.nodes[Len(doc.nodes) + 1])
    BY <1>10, <2>2, <2>4
  <2>6. \A j \in 1 .. Len(doc.nodes) : SameNode(doc.nodes[j], doc'.nodes[j])
    BY <1>10, <2>2, <2>4
  <2>7. \A j \in 1 .. Len(doc'.nodes) :
          j \in 1 .. Len(doc.nodes) \/ j = Len(doc.nodes) + 1 \/ j = Len(doc.nodes) + 2
    BY <1>10, <2>4
  <2> QED
    BY <1>7, <1>8, <2>4, <2>5, <2>6, <2>7 DEF SameNode
<1> QED
  BY <1>11, <1>12

PlacesRight ==
  \A j \in 1 .. Len(doc.nodes) :
    /\ "place" \in DOMAIN doc.nodes[j]
    /\ doc.nodes[j].mesh # 0 =>
         PlaceRight(doc.accessors, doc.tms, doc.scales, doc.nodes[j].place,
                    models[doc.nodes[j].mesh].matrices)

LEMMA ModelMatrices ==
  ASSUME LoadedRight, stage = "ready", NEW k \in 1 .. Len(models)
  PROVE  /\ models[k].matrices \in Seq(Nat) /\ Len(models[k].matrices) \in Nat
         /\ file.kind # "im" => models[k].matrices = <<>>
<1>1. file.kind \in {"im", "tm"} /\ \E p, q : ModelLoaded(file, k, models[k], p, q)
  BY DEF LoadedRight
<1>2. models[k].matrices \in Seq(Nat) /\ (file.kind # "im" => models[k].matrices = <<>>)
  BY <1>1, EmptySeq DEF ModelLoaded, PlacedTo
<1> QED
  BY <1>2, LenProperties

-----------------------------------------------------------------------------
(* A model is drawn.                                                       *)
LEMMA GrownAppend ==
  ASSUME NEW S, NEW s \in Seq(S), NEW x PROVE Grown(s, Append(s, x)) /\ Grown(s, s)
<1>1. Len(s) \in Nat
  BY LenProperties
<1>2. /\ Len(Append(s, x)) = Len(s) + 1
      /\ \A i \in 1 .. Len(s) : Append(s, x)[i] = s[i]
  BY Appended
<1> QED
  BY <1>1, <1>2 DEF Grown

(* What is in the streams of the embedded buffer, and the accessors.       *)
LEMMA DrawnParts ==
  ASSUME SceneRight, LoadedRight, PartsRight, JobRight, DrawModel, NEW m, m = models[drawn + 1]
  PROVE  /\ (\E S : doc'.accessors \in Seq(S)) /\ (\E S : doc'.tms \in Seq(S)) /\ (\E S : doc'.scales \in Seq(S))
         /\ Grown(doc.accessors, doc'.accessors) /\ Grown(doc.tms, doc'.tms) /\ Grown(doc.scales, doc'.scales)
         /\ AreViewed(doc'.accessors, doc.bufferViews)
         /\ PlaceRight(doc'.accessors, doc'.tms, doc'.scales, Place(m), m.matrices)
<1>1. /\ doc'.accessors = IF Instanced(m) THEN doc.accessors \o InstanceAccessors(m) ELSE doc.accessors
      /\ doc'.tms = IF Instanced(m) THEN doc.tms \o Transforms(m) ELSE doc.tms
      /\ doc'.scales = IF Instanced(m) /\ Rescaled(m) THEN doc.scales \o m.matrices ELSE doc.scales
  BY DrawEffect
<1>2. drawn + 1 \in 1 .. Len(models) /\ stage = "ready"
  BY NextModel DEF DrawModel, MoreModels, JobRight, Settled
<1>3. m.matrices \in Seq(Nat) /\ Len(m.matrices) \in Nat /\ (file.kind # "im" => m.matrices = <<>>)
  BY <1>2, ModelMatrices
<1>4. PICK SA : doc.accessors \in Seq(SA)
  BY DEF PartsRight
<1>5. PICK ST : doc.tms \in Seq(ST)
  BY DEF PartsRight
<1>6. PICK SS : doc.scales \in Seq(SS)
  BY DEF PartsRight
<1>7. AreViewed(doc.accessors, doc.bufferViews)
  BY DEF PartsRight
<1>8. Grown(doc.accessors, doc.accessors) /\ Grown(doc.tms, doc.tms) /\ Grown(doc.scales, doc.scales)
  BY <1>4, <1>5, <1>6, GrownAppend
<1>9. CASE ~Instanced(m)
  <2>1. UNCHANGED <<doc.accessors, doc.tms, doc.scales>>
    BY <1>1, <1>9
  <2>2. Len(m.matrices) <= 1
    <3>1. Len(<<>>) = 0
      BY EmptySeq
    <3> QED
      BY <1>3, <1>9, <3>1 DEF Instanced
  <2>3. PICK place : place = Place(m)
    OBVIOUS
  <2>4. place.matrix = m.matrices /\ place.instances = <<>>
    BY <1>3, <1>9, <2>3 DEF Place
  <2>5. PlaceRight(doc'.accessors, doc'.tms, doc'.scales, place, m.matrices)
    BY <2>2, <2>4, EmptySeq DEF PlaceRight
  <2> QED
    BY <1>4, <1>5, <1>6, <1>7, <1>8, <2>1, <2>3, <2>5
<1>10. CASE Instanced(m)
  <2>1. PICK ia : ia = InstanceAccessors(m)
    OBVIOUS
  <2>2. PICK as, tms, scs : as = doc'.accessors /\ tms = doc'.tms /\ scs = doc'.scales
    OBVIOUS
  <2>3. /\ as = doc.accessors \o ia /\ tms = doc.tms \o Transforms(m)
        /\ (Rescaled(m) => scs = doc.scales \o m.matrices) /\ (~Rescaled(m) => scs = doc.scales)
    BY <1>1, <1>10, <2>1, <2>2
  <2>4. /\ \E A : ia \in Seq(A)
        /\ Len(ia) = InstanceNumber(m.matrices)
        /\ \A i \in 1 .. Len(ia) : /\ ia[i].view = 0 /\ ia[i].slot = InstanceSlot[i]
                                   /\ InstanceRight(ia[i], tms, scs, m.matrices)
    BY <1>3, <1>5, <1>6, <2>1, <2>3, InstanceAccessorsRight
  <2>5. IsJoin(doc.accessors, ia, as)
    BY <1>4, <2>3, <2>4, JoinRight
  <2>6. (\E S : tms \in Seq(S)) /\ Grown(doc.tms, tms)
    <3>1. PICK U : Transforms(m) \in Seq(U)
      BY <1>3, TransformsRight
    <3>2. IsJoin(doc.tms, Transforms(m), tms)
      BY <1>5, <2>3, <3>1, JoinRight
    <3> QED
      BY <3>2 DEF IsJoin
  <2>7. (\E S : scs \in Seq(S)) /\ Grown(doc.scales, scs)
    <3>1. ASSUME Rescaled(m) PROVE (\E S : scs \in Seq(S)) /\ Grown(doc.scales, scs)
      <4>1. IsJoin(doc.scales, m.matrices, scs)
        BY <1>3, <1>6, <2>3, <3>1, JoinRight
      <4> QED
        BY <4>1 DEF IsJoin
    <3> QED
      BY <1>6, <1>8, <2>3, <3>1
  <2>8. (\E S : as \in Seq(S)) /\ Grown(doc.accessors, as)
    BY <2>5 DEF IsJoin
  <2>9. AreViewed(as, doc.bufferViews)
    <3>1. Len(doc.bufferViews) \in Nat
      BY LenProperties DEF PartsRight
    <3>2. Carried(doc.bufferViews, doc.bufferViews)
      BY <3>1 DEF Carried, SameView
    <3>3. AreViewed(ia, doc.bufferViews)
      BY <2>4, <3>1 DEF AreViewed
    <3> QED
      BY <1>7, <2>5, <3>2, <3>3, ViewedOn
  <2>10. PlaceRight(as, tms, scs, Place(m), m.matrices)
    <3>1. PICK place : place = Place(m)
      OBVIOUS
    <3>2. ~(Len(m.matrices) <= 1)
      BY <1>3, <1>10 DEF Instanced
    <3>3. place.instances = [i \in 1 .. Len(ia) |-> Len(doc.accessors) + i]
      BY <1>10, <2>1, <3>1 DEF Place
    <3>4. Len(ia) \in Nat /\ Len(doc.accessors) \in Nat
      BY <2>5 DEF IsJoin
    <3>5. place.instances \in [1 .. Len(ia) -> Nat]
      BY <3>3, <3>4
    <3>6. Len(place.instances) = Len(ia)
      BY <3>4, <3>5, IsList
    <3>7. ASSUME NEW i \in 1 .. Len(ia)
          PROVE  InstanceAt(as, tms, scs, place.instances[i], i, m.matrices)
      <4>1. place.instances[i] = Len(doc.accessors) + i
        BY <3>3
      <4>2. Len(doc.accessors) + i \in 1 .. Len(as) /\ as[Len(doc.accessors) + i] = ia[i]
        <5>1. as[Len(doc.accessors) + i] = ia[i] /\ Len(as) = Len(doc.accessors) + Len(ia)
          BY <2>5 DEF IsJoin
        <5> QED
          BY <3>4, <5>1
      <4>3. ia[i].slot = InstanceSlot[i] /\ InstanceRight(ia[i], tms, scs, m.matrices)
        BY <2>4
      <4> QED
        BY <4>1, <4>2, <4>3 DEF InstanceAt
    <3>8. Len(place.instances) = InstanceNumber(m.matrices)
      BY <2>4, <3>6
    <3>9. PlaceRight(as, tms, scs, place, m.matrices)
      BY <3>2, <3>6, <3>7, <3>8 DEF PlaceRight
    <3> QED
      BY <3>1, <3>9
  <2> QED
    BY <2>2, <2>6, <2>7, <2>8, <2>9, <2>10
<1> QED
  BY <1>9, <1>10

LEMMA DrawKeeps ==
  ASSUME SharedRight, SceneRight, LoadedRight, PartsRight, JobRight, OpenedRight, MeshesRight, PlacesRight,
         DrawModel
  PROVE  PartsRight' /\ OpenedRight' /\ MeshesRight' /\ PlacesRight'
<1>a. PICK m : m = models[drawn + 1]
  OBVIOUS
<1>1. /\ DOMAIN doc' = PartNames
      /\ doc'.bufferViews = doc.bufferViews /\ doc'.meshes = Append(doc.meshes, Mesh(m))
      /\ m.stream + 1 \in DOMAIN opened /\ ~UnknownBuffer(m) /\ opened' = opened
      /\ drawn' = drawn + 1 /\ UNCHANGED <<sessionVars, loaderVars>>
  BY <1>a, DrawEffect
<1>2. UNCHANGED <<source, header, models>>
  BY <1>1 DEF sessionVars, mapVars, fileVars, loaderVars
<1>3. /\ (\E S : doc'.accessors \in Seq(S)) /\ (\E S : doc'.tms \in Seq(S)) /\ (\E S : doc'.scales \in Seq(S))
      /\ Grown(doc.accessors, doc'.accessors) /\ Grown(doc.tms, doc'.tms) /\ Grown(doc.scales, doc'.scales)
      /\ AreViewed(doc'.accessors, doc.bufferViews)
      /\ PlaceRight(doc'.accessors, doc'.tms, doc'.scales, Place(m), m.matrices)
  BY <1>a, DrawnParts
<1>4. PartsRight'
  BY <1>1, <1>3 DEF PartsRight
<1>5. OpenedRight'
  <2>1. Len(doc.bufferViews) \in Nat
    BY LenProperties DEF PartsRight
  <2>2. Carried(doc.bufferViews, doc.bufferViews)
    BY <2>1 DEF Carried, SameView
  <2>3. ASSUME NEW n \in DOMAIN opened
        PROVE  /\ n \in 1 .. Len(header)
               /\ OpenedStream(doc.bufferViews, doc'.accessors, source[n], header[n], opened[n])
    <3>1. n \in 1 .. Len(header)
          /\ OpenedStream(doc.bufferViews, doc.accessors, source[n], header[n], opened[n])
      BY DEF OpenedRight
    <3>2. OpenedStream(doc.bufferViews, doc'.accessors, source[n], header[n], opened[n])
      BY <1>3, <2>2, <3>1, OpenedKept
    <3> QED
      BY <3>1, <3>2
  <2> QED
    BY <1>1, <1>2, <2>3 DEF OpenedRight
<1>6. MeshesRight'
  <2>1. drawn \in Nat /\ Len(doc.meshes) = drawn /\ \E S : doc.meshes \in Seq(S)
    BY DEF SceneRight, DrawnRight, DocRight
  <2>2. PICK S : doc.meshes \in Seq(S)
    BY <2>1
  <2>3. /\ Append(doc.meshes, Mesh(m))[Len(doc.meshes) + 1] = Mesh(m)
        /\ \A i \in 1 .. Len(doc.meshes) : Append(doc.meshes, Mesh(m))[i] = doc.meshes[i]
    BY <2>2, Appended
  <2>4. MeshRight(m, opened[m.stream + 1], Mesh(m))
    BY <1>1 DEF MeshRight, Mesh, MeshOf, Knows, UnknownBuffer
  <2>5. \A k \in 1 .. drawn + 1 : k \in 1 .. drawn \/ k = drawn + 1
    BY <2>1
  <2>6. \A k \in 1 .. drawn + 1 :
          /\ models[k].stream + 1 \in DOMAIN opened
          /\ MeshRight(models[k], opened[models[k].stream + 1], doc'.meshes[k])
    BY <1>1, <1>a, <2>1, <2>3, <2>4, <2>5 DEF MeshesRight
  <2> QED
    BY <1>1, <1>2, <2>6 DEF MeshesRight
<1>7. PlacesRight'
  <2>1. drawn \in Nat /\ \A j \in 1 .. Len(doc.nodes) : doc.nodes[j].mesh \in 0 .. drawn
    BY DEF SceneRight, DrawnRight, DocRight, Drawn
  <2>2. stage = "ready" /\ \A k \in 1 .. drawn : k \in 1 .. Len(models)
    BY DrawnModels DEF DrawModel, MoreModels, JobRight, Settled
  <2>3. \A k \in 1 .. drawn : Len(models[k].matrices) \in Nat
    BY <2>2, ModelMatrices
  <2>4. \A k \in 1 .. drawn : \A place :
          PlaceRight(doc.accessors, doc.tms, doc.scales, place, models[k].matrices) =>
          PlaceRight(doc'.accessors, doc'.tms, doc'.scales, place, models[k].matrices)
    BY <1>3, <2>3, PlaceKept
  <2>5. drawn + 1 # 0 /\ \A x \in 0 .. drawn : x # 0 => x \in 1 .. drawn
    BY <2>1
  <2>6. ASSUME NEW j \in 1 .. Len(doc'.nodes)
        PROVE  /\ "place" \in DOMAIN doc'.nodes[j]
               /\ doc'.nodes[j].mesh # 0 =>
                    PlaceRight(doc'.accessors, doc'.tms, doc'.scales, doc'.nodes[j].place,
                               models[doc'.nodes[j].mesh].matrices)
    <3>1. \/ j \in 1 .. Len(doc.nodes) /\ SameNode(doc.nodes[j], doc'.nodes[j])
          \/ "place" \in DOMAIN doc'.nodes[j] /\ doc'.nodes[j].mesh = 0
          \/ /\ "place" \in DOMAIN doc'.nodes[j] /\ doc'.nodes[j].mesh = drawn + 1
             /\ doc'.nodes[j].place = Place(m)
      BY <1>a, DrawnNodes
    <3>2. CASE j \in 1 .. Len(doc.nodes) /\ SameNode(doc.nodes[j], doc'.nodes[j])
      <4>1. /\ "place" \in DOMAIN doc.nodes[j]
            /\ doc.nodes[j].mesh # 0 =>
                 PlaceRight(doc.accessors, doc.tms, doc.scales, doc.nodes[j].place,
                            models[doc.nodes[j].mesh].matrices)
        BY <3>2 DEF PlacesRight
      <4>2. doc.nodes[j].mesh # 0 => doc.nodes[j].mesh \in 1 .. drawn
        BY <2>1, <2>5, <3>2
      <4>3. doc'.nodes[j].mesh = doc.nodes[j].mesh /\ doc'.nodes[j].place = doc.nodes[j].place
            /\ "place" \in DOMAIN doc'.nodes[j]
        BY <3>2, <4>1 DEF SameNode
      <4> QED
        BY <2>4, <4>1, <4>2, <4>3
    <3>3. CASE "place" \in DOMAIN doc'.nodes[j] /\ doc'.nodes[j].mesh = 0
      BY <3>3
    <3>4. CASE /\ "place" \in DOMAIN doc'.nodes[j] /\ doc'.nodes[j].mesh = drawn + 1
               /\ doc'.nodes[j].place = Place(m)
      BY <1>3, <1>a, <3>4
    <3> QED
      BY <3>1, <3>2, <3>3, <3>4
  <2> QED
    BY <1>2, <2>6 DEF PlacesRight
<1> QED
  BY <1>4, <1>5, <1>6, <1>7

-----------------------------------------------------------------------------
(* A document is saved.                                                    *)
AllFrom(b, s) == \A i \in 1 .. Len(s) : s[i].buffer = b

(* Saving renumbers the shared buffer in every view.                        *)
LEMMA SavedViews ==
  ASSUME NEW S, NEW vs \in Seq(S), AllOver(ViewFields, vs),
         NEW ws, ws = [i \in DOMAIN vs |-> [vs[i] EXCEPT !.buffer = 1]]
  PROVE  /\ Carried(vs, ws) /\ (\E T : ws \in Seq(T)) /\ Len(ws) = Len(vs)
         /\ AllOver(ViewFields, ws) /\ AllFrom(1, ws)
<1>1. DOMAIN vs = 1 .. Len(vs) /\ Len(vs) \in Nat
  BY LenProperties
<1> DEFINE V(i) == [vs[i] EXCEPT !.buffer = 1]
<1>2. ws = [i \in 1 .. Len(vs) |-> V(i)]
  BY <1>1
<1>3. \A i \in 1 .. Len(vs) : ws[i] = V(i)
  BY <1>2
<1>4. \A i \in 1 .. Len(vs) : DOMAIN V(i) = ViewFields /\ V(i).buffer = 1 /\ SameView(vs[i], V(i))
  BY DEF SameView, ViewFields, AllOver
<1>5. PICK T : T = {V(i) : i \in 1 .. Len(vs)}
  OBVIOUS
<1>6. ws \in [1 .. Len(vs) -> T]
  BY <1>2, <1>5
<1> HIDE DEF V
<1>7. ws \in Seq(T) /\ Len(ws) = Len(vs)
  BY <1>1, <1>6, IsList
<1>8. Carried(vs, ws)
  BY <1>1, <1>3, <1>4, <1>7 DEF Carried
<1>9. AllOver(ViewFields, ws)
  BY <1>3, <1>4, <1>7, Zenon DEF AllOver
<1>10. AllFrom(1, ws)
  BY <1>3, <1>4, <1>7, Zenon DEF AllFrom
<1> QED
  BY <1>7, <1>8, <1>9, <1>10

LEMMA SaveKeeps ==
  ASSUME SceneRight, PartsRight, JobRight, OpenedRight, MeshesRight, PlacesRight, Save
  PROVE  PartsRight' /\ OpenedRight' /\ MeshesRight' /\ PlacesRight'
<1>1. /\ DOMAIN doc' = PartNames
      /\ doc'.accessors = doc.accessors /\ doc'.meshes = doc.meshes /\ doc'.nodes = doc.nodes
      /\ doc'.tms = doc.tms /\ doc'.scales = doc.scales
      /\ drawn' = drawn /\ opened' = opened /\ UNCHANGED <<sessionVars, loaderVars>>
      /\ \/ doc'.bufferViews = doc.bufferViews
         \/ doc'.bufferViews = [i \in DOMAIN doc.bufferViews |-> [doc.bufferViews[i] EXCEPT !.buffer = 1]]
  BY SaveEffect
<1>2. UNCHANGED <<source, header, models>>
  BY <1>1 DEF sessionVars, mapVars, fileVars, loaderVars
<1>3. PICK S : doc.bufferViews \in Seq(S)
  BY DEF PartsRight
<1>4. AllOver(ViewFields, doc.bufferViews)
  BY DEF PartsRight, AllOver
<1>5. /\ Carried(doc.bufferViews, doc'.bufferViews) /\ (\E T : doc'.bufferViews \in Seq(T))
      /\ Len(doc'.bufferViews) = Len(doc.bufferViews)
      /\ AllOver(ViewFields, doc'.bufferViews)
  <2>1. Len(doc.bufferViews) \in Nat
    BY <1>3, LenProperties
  <2>2. PICK vs, ws : vs = doc.bufferViews /\ ws = doc'.bufferViews
    OBVIOUS
  <2>3. CASE ws = vs
    BY <1>3, <1>4, <2>1, <2>2, <2>3 DEF Carried, SameView
  <2>4. CASE ws = [i \in DOMAIN vs |-> [vs[i] EXCEPT !.buffer = 1]]
    <3>1. vs \in Seq(S) /\ AllOver(ViewFields, vs)
      BY <1>3, <1>4, <2>2
    <3>2. PICK T : ws \in Seq(T)
      BY <2>4, <3>1, SavedViews, ZenonT(40)
    <3>3. Carried(vs, ws) /\ Len(ws) = Len(vs) /\ AllOver(ViewFields, ws)
      BY <2>4, <3>1, SavedViews
    <3> QED
      BY <2>2, <3>2, <3>3
  <2> QED
    BY <1>1, <2>2, <2>3, <2>4
<1>6. PartsRight'
  <2>1. AreViewed(doc.accessors, doc'.bufferViews)
    BY <1>5 DEF PartsRight, AreViewed
  <2> QED
    BY <1>1, <1>5, <2>1 DEF PartsRight, AllOver
<1>7. OpenedRight'
  <2>1. PICK T : doc.accessors \in Seq(T)
    BY DEF PartsRight
  <2>2. Grown(doc.accessors, doc.accessors)
    BY <2>1, GrownAppend
  <2>3. ASSUME NEW n \in DOMAIN opened
        PROVE  /\ n \in 1 .. Len(header)
               /\ OpenedStream(doc'.bufferViews, doc.accessors, source[n], header[n], opened[n])
    <3>1. n \in 1 .. Len(header)
          /\ OpenedStream(doc.bufferViews, doc.accessors, source[n], header[n], opened[n])
      BY DEF OpenedRight
    <3>2. OpenedStream(doc'.bufferViews, doc.accessors, source[n], header[n], opened[n])
      BY <1>5, <2>2, <3>1, OpenedKept
    <3> QED
      BY <3>1, <3>2
  <2> QED
    BY <1>1, <1>2, <2>3 DEF OpenedRight
<1>8. MeshesRight' /\ PlacesRight'
  BY <1>1, <1>2 DEF MeshesRight, PlacesRight
<1> QED
  BY <1>6, <1>7, <1>8

(* The buffer of the views: the last one, the shared one.                  *)
BuffersRight ==
  /\ fate # "saved" =>
       /\ doc.buffers = EmptyDoc(file.kind).buffers
       /\ \A i \in 1 .. Len(doc.bufferViews) : doc.bufferViews[i].buffer = BufferNumber
  /\ ViewsOfShared

LEMMA FromJoin ==
  ASSUME NEW b, NEW c, NEW r, IsJoin(b, c, r), NEW n, AllFrom(n, b), AllFrom(n, c)
  PROVE  AllFrom(n, r)
<1>1. Len(b) \in Nat /\ Len(c) \in Nat /\ Len(r) = Len(b) + Len(c)
      /\ (\A i \in 1 .. Len(b) : r[i] = b[i]) /\ \A i \in 1 .. Len(c) : r[Len(b) + i] = c[i]
  BY DEF IsJoin, Grown
<1>2. ASSUME NEW i \in 1 .. Len(r) PROVE r[i].buffer = n
  <2>1. i \in 1 .. Len(b) + Len(c)
    BY <1>1
  <2>2. i \in 1 .. Len(b) \/ \E y \in 1 .. Len(c) : i = Len(b) + y
    BY <1>1, <2>1, InJoin, Zenon
  <2> QED
    BY <1>1, <2>2, Zenon DEF AllFrom
<1> QED
  BY <1>2 DEF AllFrom

(* The buffers a document may have.                                         *)
LEMMA BuffersStep ==
  ASSUME PartsRight, BuffersRight, JobRight, [SceneNext]_vars PROVE BuffersRight'
<1>1. CASE OpenStream
  <2>1. PICK h : h = header[ModelStream]
    OBVIOUS
  <2>2. /\ doc'.bufferViews = doc.bufferViews \o BufferViews(h, BufferNumber) /\ doc'.buffers = doc.buffers
        /\ fate = "convert" /\ fate' = "convert" /\ file' = file
    BY <1>1, <2>1, OpenEffect DEF loaderVars
  <2>3. PICK S : doc.bufferViews \in Seq(S)
    BY DEF PartsRight
  <2>4. PICK T : BufferViews(h, BufferNumber) \in Seq(T)
    BY BufferViewsRight
  <2>5. IsJoin(doc.bufferViews, BufferViews(h, BufferNumber), doc'.bufferViews)
    BY <2>2, <2>3, <2>4, JoinRight
  <2>6. AllFrom(BufferNumber, doc.bufferViews) /\ doc.buffers = EmptyDoc(file.kind).buffers
    BY <2>2 DEF BuffersRight, AllFrom
  <2>7. AllFrom(BufferNumber, BufferViews(h, BufferNumber))
    BY BufferViewsRight DEF AllFrom
  <2>8. AllFrom(BufferNumber, doc'.bufferViews)
    BY <2>5, <2>6, <2>7, FromJoin
  <2>9. BufferNumber' = BufferNumber /\ EmptyDoc(file.kind)' = EmptyDoc(file.kind)
    BY <2>2 DEF BufferNumber, EmptyDoc
  <2> QED
    BY <2>2, <2>6, <2>8, <2>9 DEF BuffersRight, AllFrom, ViewsOfShared
<1>2. CASE DrawModel
  <2>1. /\ doc'.bufferViews = doc.bufferViews /\ doc'.buffers = doc.buffers
        /\ fate = "convert" /\ fate' = "convert" /\ file' = file
    BY <1>2, DrawEffect DEF loaderVars
  <2>2. BufferNumber' = BufferNumber /\ EmptyDoc(file.kind)' = EmptyDoc(file.kind)
    BY <2>1 DEF BufferNumber, EmptyDoc
  <2> QED
    BY <2>1, <2>2 DEF BuffersRight, ViewsOfShared
<1>3. CASE Save
  <2>1. /\ IF file.kind = "im" /\ doc.tms = <<>>
           THEN /\ doc'.buffers = Tail(doc.buffers)
                /\ doc'.bufferViews = [i \in DOMAIN doc.bufferViews |-> [doc.bufferViews[i] EXCEPT !.buffer = 1]]
           ELSE doc'.buffers = doc.buffers /\ doc'.bufferViews = doc.bufferViews
        /\ fate = "convert" /\ fate' = "saved"
    BY <1>3, SaveEffect
  <2>2. doc.buffers = (IF file.kind = "im" THEN <<"embedded", "shared">> ELSE <<"shared">>)
        /\ \A i \in 1 .. Len(doc.bufferViews) : doc.bufferViews[i].buffer = BufferNumber
    BY <2>1 DEF BuffersRight, EmptyDoc
  <2>3. ASSUME file.kind = "im" /\ doc.tms = <<>> PROVE ViewsOfShared'
    <3>1. PICK vs, ws : /\ vs = doc.bufferViews /\ ws = doc'.bufferViews
                        /\ ws = [i \in DOMAIN vs |-> [vs[i] EXCEPT !.buffer = 1]]
      BY <2>1, <2>3
    <3>2. PICK S : vs \in Seq(S)
      BY <3>1 DEF PartsRight
    <3>3. AllOver(ViewFields, vs)
      BY <3>1 DEF PartsRight, AllOver
    <3>4. AllFrom(1, ws)
      BY <3>1, <3>2, <3>3, SavedViews
    <3>5. doc'.buffers = Tail(<<"embedded", "shared">>)
      BY <2>1, <2>2, <2>3
    <3>6. Tail(<<"embedded", "shared">>) = <<"shared">>
      OBVIOUS
    <3>7. 1 \in 1 .. Len(doc'.buffers) /\ doc'.buffers[1] = "shared"
      BY <3>5, <3>6
    <3> QED
      BY <3>1, <3>4, <3>7 DEF ViewsOfShared, AllFrom
  <2>4. ASSUME ~(file.kind = "im" /\ doc.tms = <<>>) PROVE ViewsOfShared'
    <3>1. doc'.buffers = doc.buffers /\ doc'.bufferViews = doc.bufferViews
      BY <2>1, <2>4
    <3>2. BufferNumber \in 1 .. Len(doc.buffers) /\ doc.buffers[BufferNumber] = "shared"
      BY <2>2 DEF BufferNumber
    <3> QED
      BY <2>2, <3>1, <3>2 DEF ViewsOfShared
  <2> QED
    BY <2>1, <2>3, <2>4 DEF BuffersRight
<1>4. CASE Aside
  <2>1. UNCHANGED <<doc, file>> /\ (fate' = "saved" <=> fate = "saved")
    BY <1>4 DEF Aside
  <2>2. BufferNumber' = BufferNumber /\ EmptyDoc(file.kind)' = EmptyDoc(file.kind)
    BY <2>1 DEF BufferNumber, EmptyDoc
  <2> QED
    BY <2>1, <2>2 DEF BuffersRight, ViewsOfShared
<1> QED
  BY <1>1, <1>2, <1>3, <1>4, StepKinds

-----------------------------------------------------------------------------
(***************************************************************************)
(* All of the document.                                                    *)
(***************************************************************************)
DocumentRight ==
  JobRight /\ PartsRight /\ OpenedRight /\ MeshesRight /\ PlacesRight /\ BuffersRight

(* All parts of the document, at the start and over every step.             *)
LEMMA DocumentRightInit == SceneInit => DocumentRight
<1> SUFFICES ASSUME SceneInit PROVE DocumentRight
  OBVIOUS
<1>1. doc = EmptyDoc(file.kind) /\ opened = <<>> /\ drawn = 0 /\ fate = "extract"
  BY DEF SceneInit
<1>2. \A S : <<>> \in Seq(S) /\ Len(<<>>) = 0
  BY EmptySeq
<1>3. DOMAIN <<>> = {} /\ 1 .. 0 = {}
  OBVIOUS
<1>4. /\ DOMAIN doc = PartNames /\ doc.buffers = EmptyDoc(file.kind).buffers
      /\ doc.bufferViews = <<>> /\ doc.accessors = <<>> /\ doc.tms = <<>> /\ doc.scales = <<>> /\ doc.nodes = <<>>
  BY <1>1 DEF EmptyDoc, PartNames
<1>5. PartsRight
  BY <1>2, <1>3, <1>4 DEF PartsRight, AreViewed
<1>6. OpenedRight /\ MeshesRight /\ PlacesRight
  BY <1>1, <1>2, <1>3, <1>4 DEF OpenedRight, MeshesRight, PlacesRight
<1>7. BuffersRight
  BY <1>1, <1>2, <1>3, <1>4 DEF BuffersRight, ViewsOfShared
<1> QED
  BY <1>5, <1>6, <1>7, JobRightInit DEF DocumentRight

LEMMA PlacesStepOpen ==
  ASSUME SharedRight, SceneRight, LoadedRight, DocumentRight, OpenStream
  PROVE  PlacesRight'
<1>1. /\ doc'.nodes = doc.nodes /\ doc'.tms = doc.tms /\ doc'.scales = doc.scales
      /\ fate = "convert" /\ models' = models
  BY OpenEffect DEF DocumentRight, loaderVars
<1>2. Grown(doc.accessors, doc'.accessors)
  BY StreamsStepOpen DEF DocumentRight
<1>3. PICK ST : doc.tms \in Seq(ST)
  BY DEF DocumentRight, PartsRight
<1>4. PICK SS : doc.scales \in Seq(SS)
  BY DEF DocumentRight, PartsRight
<1>5. Grown(doc.tms, doc.tms) /\ Grown(doc.scales, doc.scales)
  BY <1>3, <1>4, GrownAppend
<1>6. stage = "ready" /\ \A k \in 1 .. drawn : k \in 1 .. Len(models)
  BY <1>1, DrawnModels DEF DocumentRight, JobRight, Settled
<1>7. \A k \in 1 .. drawn : Len(models[k].matrices) \in Nat
  BY <1>6, ModelMatrices
<1>8. \A k \in 1 .. drawn : \A place :
        PlaceRight(doc.accessors, doc.tms, doc.scales, place, models[k].matrices) =>
        PlaceRight(doc'.accessors, doc.tms, doc.scales, place, models[k].matrices)
  BY <1>2, <1>5, <1>7, PlaceKept
<1>9. drawn \in Nat /\ \A j \in 1 .. Len(doc.nodes) : doc.nodes[j].mesh \in 0 .. drawn
  BY DEF SceneRight, DrawnRight, DocRight, Drawn
<1>10. \A x \in 0 .. drawn : x # 0 => x \in 1 .. drawn
  BY <1>9
<1>11. ASSUME NEW j \in 1 .. Len(doc.nodes)
       PROVE  /\ "place" \in DOMAIN doc.nodes[j]
              /\ doc.nodes[j].mesh # 0 =>
                   PlaceRight(doc'.accessors, doc.tms, doc.scales, doc.nodes[j].place,
                              models[doc.nodes[j].mesh].matrices)
  BY <1>8, <1>9, <1>10 DEF DocumentRight, PlacesRight
<1> QED
  BY <1>1, <1>11 DEF PlacesRight

LEMMA DocumentRightStep ==
  ASSUME SharedRight, SceneRight, LoadedRight, DocumentRight, SharedRight', [SceneNext]_vars
  PROVE  DocumentRight'
<1>0. JobRight
  BY DEF DocumentRight
<1>1. JobRight' /\ BuffersRight'
  BY JobRightStep, BuffersStep DEF DocumentRight
<1>2. CASE OpenStream
  BY <1>1, <1>2, StreamsStepOpen, PlacesStepOpen DEF DocumentRight
<1>3. CASE DrawModel
  BY <1>1, <1>3, DrawKeeps DEF DocumentRight
<1>4. CASE Save
  BY <1>1, <1>4, SaveKeeps DEF DocumentRight
<1>5. CASE Aside
  <2>1. UNCHANGED <<drawn, opened, doc>>
    BY <1>5 DEF Aside
  <2>2. PartsRight'
    BY <2>1 DEF DocumentRight, PartsRight
  <2>3. CASE drawn > 0 \/ DOMAIN opened # {}
    <3>1. UNCHANGED <<sessionVars, loaderVars, drawn, opened, doc>>
      BY <1>0, <1>5, <2>3, AsideKeeps
    <3>2. UNCHANGED <<source, header, models, drawn, opened, doc>>
      BY <3>1 DEF sessionVars, mapVars, fileVars, loaderVars
    <3>3. OpenedRight' /\ MeshesRight' /\ PlacesRight'
      BY <3>2 DEF DocumentRight, OpenedRight, MeshesRight, PlacesRight
    <3> QED
      BY <1>1, <2>2, <3>3 DEF DocumentRight
  <2>4. CASE drawn = 0 /\ DOMAIN opened = {}
    <3>1. \A j \in 1 .. Len(doc.nodes) : doc.nodes[j].mesh = 0 /\ "place" \in DOMAIN doc.nodes[j]
      BY <2>4 DEF SceneRight, DocRight, Drawn, DocumentRight, PlacesRight
    <3>2. OpenedRight' /\ MeshesRight' /\ PlacesRight'
      BY <2>1, <2>4, <3>1 DEF DocumentRight, OpenedRight, MeshesRight, PlacesRight
    <3> QED
      BY <1>1, <2>2, <3>2 DEF DocumentRight
  <2>5. drawn \in Nat
    BY DEF SceneRight, DrawnRight
  <2>6. drawn > 0 \/ drawn = 0
    BY <2>5
  <2> QED
    BY <2>3, <2>4, <2>6
<1> QED
  BY <1>0, <1>2, <1>3, <1>4, <1>5, StepKinds

-----------------------------------------------------------------------------
(***************************************************************************)
(* What the document promises, as the properties say it.                   *)
(***************************************************************************)
LEMMA SelectsOf ==
  ASSUME NEW a, NEW h, NEW slot, NEW offset, NEW count, AccRight(doc.bufferViews, a, h, slot, offset, count),
         NEW n, n = count * Stride[slot], NEW tag, InView(bin, h.views[slot], offset, n, tag)
  PROVE  Selects(a, tag)
<1>1. a.slot = slot /\ a.offset = offset /\ a.count = count
  BY DEF AccRight
<1>2. PICK w, y : w = doc.bufferViews[a.view] /\ y = h.views[slot]
  OBVIOUS
<1>3. w.offset = y.offset /\ w.length = y.size
  BY <1>2 DEF AccRight, ViewOf
<1>4. offset + n <= y.size /\ Holds(bin, y.offset + offset, n, tag)
  BY <1>2 DEF InView
<1>5. offset + n <= w.length /\ Belongs(w.offset + offset, n, tag)
  BY <1>3, <1>4 DEF Belongs, Holds
<1>6. a.count * Stride[a.slot] = n
  BY <1>1
<1> QED
  BY <1>1, <1>2, <1>5, <1>6 DEF Selects

(* A record of the stream, read through the accessor of its slot.           *)
LEMMA RecordOnto ==
  ASSUME NEW s, IsStream(s), NEW v \in DOMAIN s.vertices, NEW r \in 1 .. Cardinality(Recorded(s, v))
  PROVE  \E d \in Recorded(s, v) : RecordNumber(s, <<v, d>>) = r
<1>1. PICK S : S = Dues(s, v, Recorded(s, v))
  OBVIOUS
<1>2. IsFiniteSet(S) /\ Cardinality(S) = Cardinality(Recorded(s, v))
  BY <1>1, DuesCounted
<1>3. S \subseteq Nat \X Nat
  <2>1. \A d \in Recorded(s, v) : Due(s, <<v, d>>) \in Nat \X Nat
    BY RecordedFacts
  <2> DEFINE N == Nat \X Nat
  <2> HIDE DEF N
  <2>2. \A d \in Recorded(s, v) : Due(s, <<v, d>>) \in N
    BY <2>1 DEF N
  <2>3. S \subseteq N
    BY <1>1, <2>2 DEF Dues
  <2> QED
    BY <2>3 DEF N
<1>a. r \in 1 .. Cardinality(S)
  BY <1>2
<1>4. PICK i \in S : Rank(S, i) = r
  BY <1>2, <1>3, <1>a, RankOnto
<1>5. PICK d \in Recorded(s, v) : i = Due(s, <<v, d>>)
  BY <1>1, <1>4 DEF Dues
<1>6. RecordNumber(s, <<v, d>>) = Rank(S, Due(s, <<v, d>>))
  BY <1>1 DEF RecordNumber, Dues
<1> QED
  BY <1>4, <1>5, <1>6

(* One primitive reads what its mesh says.                                  *)
LEMMA PrimitiveOfRight ==
  ASSUME SharedRight, SceneRight, LoadedRight, DocumentRight,
         NEW k \in 1 .. drawn, NEW i \in 1 .. Len(models[k].prims)
  PROVE  PrimitiveReadsBack(k, i)
<1>a. PICK p : p = models[k].prims[i]
  OBVIOUS
<1>b. PICK n : n = models[k].stream + 1
  OBVIOUS
<1>c. PICK s, h, o : s = source[n] /\ h = header[n] /\ o = opened[n]
  OBVIOUS
<1>d. PICK mesh : mesh = doc.meshes[k]
  OBVIOUS
<1>e. PICK as : as = doc.accessors
  OBVIOUS
<1>1. Settled /\ k \in 1 .. Len(models)
  <2>1. drawn \in Nat
    BY DEF SceneRight, DrawnRight
  <2>2. drawn > 0
    BY <2>1
  <2> QED
    BY <2>2, DrawnModels DEF DocumentRight, JobRight
<1>2. /\ n \in 1 .. Len(header) /\ n \in 1 .. Len(source) /\ h \in Described
      /\ IsStream(s) /\ FinishedRight(bin, n, s, h)
      /\ p.vb \in Nat /\ p.ib \in 0 .. Len(s.indices) - 1
  BY <1>1, <1>a, <1>b, <1>c, ModelFits DEF SceneRight, DocumentRight
<1>3. n \in DOMAIN opened /\ MeshRight(models[k], o, mesh)
  BY <1>b, <1>c, <1>d DEF DocumentRight, MeshesRight
<1>4. OpenedStream(doc.bufferViews, as, s, h, o)
  BY <1>3, <1>c, <1>e DEF DocumentRight, OpenedRight
<1>5. /\ mesh[i].indices = o.beginIndices + p.ib + 1
      /\ mesh[i].attributes = o.vertices[p.vb + 1]
      /\ ~(p.vb >= Len(o.vertices))
  BY <1>3, <1>a DEF MeshRight, MeshOf, Knows
<1>6. Selects(as[mesh[i].indices], <<n, "index", p.ib + 1, 0>>)
  <2>1. /\ h.indices \in Seq(VtIndex) /\ Len(h.indices) = Len(s.indices)
        /\ \A j \in 1 .. Len(h.indices) : IndexRight(bin, n, s, h.indices[j], h.views["IndexShort"], j)
    BY <1>2 DEF FinishedRight, IndicesOf
  <2>2. Len(h.indices) \in Nat /\ \A j \in 1 .. Len(h.indices) : h.indices[j] \in VtIndex
    BY <2>1, LenProperties
  <2>3. \A m \in Nat : \A x \in 0 .. m - 1 : x + 1 \in 1 .. m /\ \A y \in Nat : y + x + 1 = y + (x + 1)
    OBVIOUS
  <2>4. PICK j \in 1 .. Len(h.indices) : j = p.ib + 1
    BY <1>2, <2>1, <2>2, <2>3, Zenon
  <2>5. o.beginIndices \in Nat
        /\ AccRight(doc.bufferViews, as[o.beginIndices + j], h, "IndexShort", h.indices[j].offset, h.indices[j].count)
    BY <1>4 DEF OpenedStream
  <2>6. mesh[i].indices = o.beginIndices + j
    BY <1>2, <1>5, <2>1, <2>2, <2>3, <2>4, <2>5, Zenon
  <2>7. InView(bin, h.views["IndexShort"], h.indices[j].offset, h.indices[j].count, <<n, "index", j, 0>>)
    BY <2>1 DEF IndexRight
  <2>8. Stride["IndexShort"] = 1 /\ h.indices[j].count \in Nat
    BY <2>2 DEF Stride, VtIndex
  <2>9. h.indices[j].count = h.indices[j].count * Stride["IndexShort"]
    BY <2>8
  <2>10. Selects(as[o.beginIndices + j], <<n, "index", j, 0>>)
    BY <2>5, <2>7, <2>9, SelectsOf
  <2> QED
    BY <2>4, <2>6, <2>10
<1>7. PICK v : v = p.vb + 1
  OBVIOUS
<1>8. /\ v \in 1 .. Len(h.vertices) /\ v \in DOMAIN s.vertices
      /\ DOMAIN o.vertices[v] = AttributeNames(h.vertices[v])
      /\ \A name \in AttributeNames(h.vertices[v]) :
           \E r \in Named(h.vertices[v], name) :
             RecordAccessor(doc.bufferViews, as, s, h, v, r, o.vertices[v][name])
  <2>1. Len(o.vertices) = Len(h.vertices)
    BY <1>4 DEF OpenedStream
  <2>2. Len(h.vertices) \in Nat /\ Len(h.vertices) = Len(s.vertices) /\ DOMAIN s.vertices = 1 .. Len(s.vertices)
    BY <1>2, VerticesRight, LenProperties DEF FinishedRight
  <2>3. v \in 1 .. Len(h.vertices)
    BY <1>2, <1>5, <1>7, <2>1, <2>2
  <2> QED
    BY <1>4, <2>2, <2>3 DEF OpenedStream
<1>9. ASSUME NEW name \in AttributeNames(h.vertices[v])
      PROVE  \E d \in DescriptorsNamed(n, v, name) :
               \/ LaterPacked(source[n], <<v, d>>)
               \/ Selects(as[o.vertices[v][name]], <<n, "vertex", v, d>>)
  <2>1. PICK x : x = o.vertices[v][name]
    OBVIOUS
  <2>2. PICK r \in Named(h.vertices[v], name) : RecordAccessor(doc.bufferViews, as, s, h, v, r, x)
    BY <1>8, <2>1
  <2>3. r \in 1 .. Len(h.vertices[v])
    BY <2>2 DEF Named
  <2>4. VertexRight(bin, <<>>, {}, n, s, h.vertices[v], h.views, v, Recorded(s, v))
    BY <1>2, <1>8 DEF FinishedRight
  <2>5. r \in 1 .. Cardinality(Recorded(s, v))
    BY <2>3, <2>4 DEF VertexRight
  <2>6. PICK d \in Recorded(s, v) : RecordNumber(s, <<v, d>>) = r
    BY <1>2, <1>8, <2>5, RecordOnto
  <2>7. d \in DescriptorsNamed(n, v, name)
    BY <1>c, <2>2, <2>6 DEF DescriptorsNamed
  <2>8. PICK t : t = <<v, d>>
    OBVIOUS
  <2>9. PICK a : a = h.vertices[v][r]
    OBVIOUS
  <2>10. RecordRight(bin, <<>>, {}, n, s, a, h.views, t)
    BY <2>4, <2>6, <2>8, <2>9 DEF VertexRight
  <2>11. ASSUME ~LaterPacked(s, t) PROVE Selects(as[x], <<n, "vertex", v, d>>)
    <3>1. a.slot = SlotOf(DescAt(s, t)) /\ InView(bin, h.views[a.slot], a.offset, UnitCount(s, t), VertexTag(n, t))
      BY <2>10, <2>11 DEF RecordRight
    <3>2. UnitCount(s, t) = s.vertices[v].n * Stride[a.slot] /\ VertexTag(n, t) = <<n, "vertex", v, d>>
      BY <2>8, <3>1 DEF UnitCount, VertexTag
    <3>3. AccRight(doc.bufferViews, as[x], h, a.slot, a.offset, s.vertices[v].n)
      BY <2>2, <2>9 DEF RecordAccessor
    <3>4. InView(bin, h.views[a.slot], a.offset, UnitCount(s, t), <<n, "vertex", v, d>>)
      BY <3>1, <3>2
    <3> QED
      BY <3>2, <3>3, <3>4, SelectsOf
  <2> QED
    BY <1>c, <2>1, <2>7, <2>8, <2>11
<1> QED
  BY <1>5, <1>6, <1>7, <1>8, <1>9, <1>a, <1>b, <1>c, <1>d, <1>e, Zenon DEF PrimitiveReadsBack

LEMMA MeshesOfRight ==
  SharedRight /\ SceneRight /\ LoadedRight /\ DocumentRight => MeshesReadBack
  BY PrimitiveOfRight DEF MeshesReadBack

LEMMA InstancesOfRight ==
  ASSUME SceneRight, LoadedRight, DocumentRight PROVE InstancesReadBack
<1>1. ASSUME NEW k \in 1 .. drawn, NEW ms, ms = models[k].matrices,
             NEW place, place = doc.nodes[NodeOf(k)].place
      PROVE  LET slots == {doc.accessors[place.instances[i]].slot : i \in 1 .. Len(place.instances)}
             IN  IF Len(ms) <= 1
                 THEN place.matrix = ms /\ slots = {}
                 ELSE /\ slots = {"translation", "rotation"}
                           \cup IF Range(ms) \cap Scaled # {} THEN {"scale"} ELSE {}
                      /\ \A i \in 1 .. Len(place.instances) :
                           ReadsInstances(doc.accessors[place.instances[i]], ms)
  <2>1. \E j \in 1 .. Len(doc.nodes) : doc.nodes[j].mesh = k
    BY DEF SceneRight, DocRight, Drawn
  <2>2. NodeOf(k) \in 1 .. Len(doc.nodes) /\ doc.nodes[NodeOf(k)].mesh = k
    BY <2>1 DEF NodeOf
  <2>3. k # 0
    <3>1. drawn \in Nat
      BY DEF SceneRight, DrawnRight
    <3> QED
      BY <3>1
  <2>4. PlaceRight(doc.accessors, doc.tms, doc.scales, place, ms)
    BY <1>1, <2>2, <2>3 DEF DocumentRight, PlacesRight
  <2>5. PICK as, tms, scs : as = doc.accessors /\ tms = doc.tms /\ scs = doc.scales
    OBVIOUS
  <2>6. PICK xs : xs = place.instances
    OBVIOUS
  <2> DEFINE slots == {as[xs[i]].slot : i \in 1 .. Len(xs)}
  <2>7. CASE Len(ms) <= 1
    <3>1. place.matrix = ms /\ Len(xs) = 0
      BY <2>4, <2>6, <2>7 DEF PlaceRight
    <3>2. slots = {}
      BY <3>1
    <3> QED
      BY <2>5, <2>6, <2>7, <3>1, <3>2
  <2>8. CASE ~(Len(ms) <= 1)
    <3>1. /\ Len(xs) = InstanceNumber(ms)
          /\ \A i \in 1 .. Len(xs) : InstanceAt(as, tms, scs, xs[i], i, ms)
      BY <2>4, <2>5, <2>6, <2>8 DEF PlaceRight
    <3>2. \A i \in 1 .. Len(xs) : as[xs[i]].slot = InstanceSlot[i] /\ InstanceRight(as[xs[i]], tms, scs, ms)
      BY <3>1 DEF InstanceAt
    <3>3. InstanceSlot[1] = "translation" /\ InstanceSlot[2] = "rotation" /\ InstanceSlot[3] = "scale"
      BY DEF InstanceSlot
    <3>4. slots = {"translation", "rotation"} \cup IF Range(ms) \cap Scaled # {} THEN {"scale"} ELSE {}
      <4>1. slots = {InstanceSlot[i] : i \in 1 .. Len(xs)}
        BY <3>2
      <4>2. CASE Range(ms) \cap Scaled # {}
        <5>1. Len(xs) = 3
          BY <3>1, <4>2 DEF InstanceNumber
        <5>2. \A i : i \in 1 .. Len(xs) <=> i = 1 \/ i = 2 \/ i = 3
          BY <5>1
        <5>3. \A e : e \in slots <=> \E i : i \in 1 .. Len(xs) /\ e = InstanceSlot[i]
          BY <4>1
        <5> HIDE DEF slots
        <5>4. \A e : e \in slots <=> e = "translation" \/ e = "rotation" \/ e = "scale"
          BY <3>3, <5>2, <5>3, Zenon
        <5> QED
          BY <4>2, <5>4
      <4>3. CASE ~(Range(ms) \cap Scaled # {})
        <5>1. Len(xs) = 2
          BY <3>1, <4>3 DEF InstanceNumber
        <5>2. \A i : i \in 1 .. Len(xs) <=> i = 1 \/ i = 2
          BY <5>1
        <5>3. \A e : e \in slots <=> \E i : i \in 1 .. Len(xs) /\ e = InstanceSlot[i]
          BY <4>1
        <5> HIDE DEF slots
        <5>4. \A e : e \in slots <=> e = "translation" \/ e = "rotation"
          BY <3>3, <5>2, <5>3, Zenon
        <5> QED
          BY <4>3, <5>4
      <4> QED
        BY <4>2, <4>3
    <3>5. \A i \in 1 .. Len(xs) : ReadsInstances(as[xs[i]], ms)
      BY <2>5, <3>2 DEF InstanceRight, ReadsInstances
    <3> QED
      BY <2>5, <2>6, <2>8, <3>4, <3>5
  <2> QED
    BY <2>7, <2>8
<1> QED
  BY <1>1, Zenon DEF InstancesReadBack

(* The invariant bounds every reference of the document.                    *)
LEMMA SceneTypesOfRight ==
  ASSUME SharedRight, SceneRight, LoadedRight, DocumentRight PROVE SceneTypeOK
<1>1. TypeOK
  BY TypesRight DEF SharedRight
<1>2. stage \in {"models", "place", "lods", "ready", "failed"}
      /\ fate \in {"extract", "load", "convert", "saved", "failed"}
  BY DEF LoadedRight, DocumentRight, JobRight
<1>3. drawn \in 0 .. Len(models)
  <2>1. drawn \in Nat /\ Len(models) \in Nat /\ drawn <= Len(models)
    BY FileFits DEF SceneRight, DrawnRight
  <2> QED
    BY <2>1
<1>4. DOMAIN opened \subseteq 1 .. Len(header)
  BY DEF DocumentRight, OpenedRight
<1>5. \A i \in 1 .. Len(doc.accessors) : doc.accessors[i].view \in 0 .. Len(doc.bufferViews)
  BY DEF DocumentRight, PartsRight, AreViewed
<1>6. \A i \in 1 .. Len(doc.nodes) : doc.nodes[i].mesh \in 0 .. Len(doc.meshes)
  BY DEF SceneRight, DocRight, Drawn
<1> QED
  BY <1>1, <1>2, <1>3, <1>4, <1>5, <1>6 DEF SceneTypeOK

(***************************************************************************)
(* Whatever models share levels, and in whatever order they are drawn,     *)
(* every node has one place in the scene: the root of a level, or below    *)
(* the root of its model's level (im_to_gltf.cpp:69-77, 107-128, 195).     *)
(***************************************************************************)
THEOREM SceneIsAlwaysTree == SceneSpec => []SceneIsTree
<1>1. SceneInit => SceneRight
  BY SceneRightInit
<1>2. SceneRight /\ [SceneNext]_vars => SceneRight'
  BY SceneRightStep
<1>3. SceneRight => SceneIsTree
  BY TreeOfRight
<1> QED
  BY <1>1, <1>2, <1>3, PTL DEF SceneSpec

(***************************************************************************)
(* What sm_extract wrote holds for the buffer a converter opens as well,   *)
(* to the end of its run (sm_extract.cpp:50-333).                          *)
(***************************************************************************)
THEOREM SharedBufferStaysRight == SceneSpec => [](StreamsReadBack /\ ViewsTile)
<1>1. SceneInit => SharedRight
  BY SharedRightInit
<1>2. SharedRight /\ [SceneNext]_vars => SharedRight'
  BY SharedRightStep
<1>3. SharedRight => StreamsReadBack /\ ViewsTile
  BY ReadsBackOfRight, TilesOfRight DEF SharedRight
<1> QED
  BY <1>1, <1>2, <1>3, PTL DEF SceneSpec

(***************************************************************************)
(* Whatever clusters repeat, share or leave out models, a loaded model is  *)
(* placed as often as its file says, in the file's order, and has a level  *)
(* the file gives it (msim.cpp:172-229, mstm.cpp:120-153).                 *)
(***************************************************************************)
THEOREM ModelsAlwaysAsListed == SceneSpec => []AsListed
<1>1. SceneInit => SceneRight /\ LoadedRight
  BY SceneRightInit, LoadedRightInit
<1>2. SceneRight /\ LoadedRight /\ [SceneNext]_vars => (SceneRight /\ LoadedRight)'
  BY SceneRightStep, LoadedRightStep DEF SceneRight
<1>3. SceneRight /\ LoadedRight => AsListed
  BY PlacedOfLoaded, LevelsOfLoaded DEF SceneRight, AsListed
<1> QED
  BY <1>1, <1>2, <1>3, PTL DEF SceneSpec

(***************************************************************************)
(* All invariants of the scene hold together: what the files hold, what    *)
(* the loader made of them, and what the document has.                     *)
(***************************************************************************)
AllRight == SharedRight /\ SceneRight /\ LoadedRight /\ DocumentRight

LEMMA AllRightAlways == SceneSpec => []AllRight
<1>1. SceneInit => AllRight
  BY SharedRightInit, SceneRightInit, LoadedRightInit, DocumentRightInit DEF AllRight
<1>2. AllRight /\ [SceneNext]_vars => AllRight'
  BY SharedRightStep, SceneRightStep, LoadedRightStep, DocumentRightStep DEF AllRight, SceneRight
<1> QED
  BY <1>1, <1>2, PTL DEF SceneSpec

(***************************************************************************)
(* Whatever map and whatever model file of it, every primitive of the      *)
(* document reads through mesh, accessor and view the bytes of its own     *)
(* buffers, whatever streams and instances the document took in before     *)
(* (im_to_gltf.cpp:85-323 on what sm_extract.cpp:50-333 wrote).            *)
(***************************************************************************)
THEOREM MeshesAlwaysReadBack == SceneSpec => []MeshesReadBack
  BY AllRightAlways, MeshesOfRight, PTL DEF AllRight

(***************************************************************************)
(* Whatever the number of models and matrices, instances are found in the  *)
(* interleaved stream of the embedded buffer where their accessors look    *)
(* for them (im_to_gltf.cpp:131-193).                                      *)
(***************************************************************************)
THEOREM InstancesAlwaysReadBack == SceneSpec => []InstancesReadBack
  BY AllRightAlways, InstancesOfRight, PTL DEF AllRight

(* A saved document has all its views in the shared buffer, with or        *)
(* without an embedded one before it (im_to_gltf.cpp:381-397).             *)
THEOREM ViewsAlwaysOfShared == SceneSpec => []ViewsOfShared
  BY AllRightAlways, PTL DEF AllRight, DocumentRight, BuffersRight

(* No accessor, node or stream of the document refers beyond its end.      *)
THEOREM SceneTypesAlwaysOK == SceneSpec => []SceneTypeOK
  BY AllRightAlways, SceneTypesOfRight, PTL DEF AllRight
=============================================================================
