---------------------------- MODULE MdoGltfProofs ----------------------------
(***************************************************************************)
(* Proofs about the documents of mdo_to_gltf, for every model and every    *)
(* skeleton.                                                               *)
(*                                                                         *)
(* The nodes are a forest in which every bone is once, and the joints of a *)
(* skin are the nodes of its bones.  Nodes are only ever added behind the  *)
(* others, below at most one of them: the first lemmas are about a list    *)
(* that grows like that, and the steps that add a node then differ in      *)
(* where it hangs and whether it is a root.                                *)
(*                                                                         *)
(* The primitives draw their own buffers, morph targets and weights.       *)
(* Accessors and the sparse stream only grow too, so that what was right   *)
(* of them stays right (Longer, AtKept).  Around that, an invariant for    *)
(* each pass over the model says what it did so far: the buffers drawn     *)
(* (AccessRight), the morphs of each target seen (MorphsRight), the place  *)
(* of each primitive in its mesh and the first primitive over each vertex  *)
(* (PlacedRight), the weights written (WrittenRight), the meshes made      *)
(* (MadeRight).  DrawInv says which of them hold when.                     *)
(***************************************************************************)
EXTENDS MdoGltf, SequenceTheorems, FiniteSetTheorems, WellFoundedInduction, TLAPS

(* A list of nodes: their names and lists of children can be asked for.    *)
Shape(ns) ==
  /\ \E S : ns \in Seq(S)
  /\ \A i \in DOMAIN ns :
       "name" \in DOMAIN ns[i] /\ "children" \in DOMAIN ns[i] /\ ns[i].children \in Seq(Nat)

(* The list has one more node, below parent unless that is 0.              *)
Grown(ns, new, parent, name) ==
  /\ Len(new) = Len(ns) + 1
  /\ new[Len(ns) + 1].name = name /\ new[Len(ns) + 1].children = <<>>
  /\ \A i \in DOMAIN ns :
       /\ new[i].name = ns[i].name
       /\ new[i].children = IF i = parent THEN Append(ns[i].children, Len(ns) + 1)
                                          ELSE ns[i].children

LEMMA Domains ==
  ASSUME NEW ns, Shape(ns)
  PROVE  Len(ns) \in Nat /\ DOMAIN ns = 1 .. Len(ns)
BY DEF Shape

(* A set of naturals that is not empty has a smallest member.              *)
LEMMA SmallestMember ==
  ASSUME NEW T, T \subseteq Nat, T # {}
  PROVE  \E x \in T : \A y \in T : x <= y
<1> DEFINE Less == {ss \in Nat \X Nat : ss[1] < ss[2]}
<1>1. IsWellFoundedOn(Less, Nat)
  BY NatLessThanWellFounded DEF OpToRel
<1>2. PICK x \in T : \A y \in T : ~ (<<y, x>> \in Less)
  <2> HIDE DEF Less
  <2> QED
    BY <1>1, WFMin
<1>3. \A y \in T : ~(y < x)
  BY <1>2
<1> QED
  BY <1>3

LEMMA GrownDomain ==
  ASSUME NEW ns, Shape(ns), NEW new, Shape(new), Len(new) = Len(ns) + 1
  PROVE  DOMAIN new = DOMAIN ns \cup {Len(ns) + 1}
<1>1. Len(ns) \in Nat /\ DOMAIN ns = 1 .. Len(ns) /\ DOMAIN new = 1 .. Len(ns) + 1
  BY Domains
<1> QED
  BY <1>1

(* A sequence with one more element.                                       *)
LEMMA Appended ==
  ASSUME NEW S, NEW s \in Seq(S), NEW x
  PROVE  /\ Append(s, x) \in Seq(S \cup {x})
         /\ Len(s) \in Nat /\ Len(Append(s, x)) = Len(s) + 1
         /\ DOMAIN s = 1 .. Len(s) /\ DOMAIN Append(s, x) = 1 .. Len(s) + 1
         /\ Append(s, x)[Len(s) + 1] = x
         /\ \A k \in 1 .. Len(s) : Append(s, x)[k] = s[k]
<1>1. s \in Seq(S \cup {x}) /\ x \in S \cup {x}
  BY SeqMonotonic
<1>2. /\ Append(s, x) \in Seq(S \cup {x})
      /\ Len(Append(s, x)) = Len(s) + 1
      /\ \A i \in 1 .. Len(s) : Append(s, x)[i] = s[i]
      /\ Append(s, x)[Len(s) + 1] = x
  BY <1>1, AppendProperties
<1>3. Len(s) \in Nat /\ DOMAIN s = 1 .. Len(s)
  BY <1>1
<1>4. DOMAIN Append(s, x) = 1 .. Len(s) + 1
  BY <1>2
<1> QED
  BY <1>2, <1>3, <1>4

LEMMA GrowPlain ==
  ASSUME NEW ns, Shape(ns), NEW x, "name" \in DOMAIN x, "children" \in DOMAIN x,
         x.children = <<>>
  PROVE  Shape(Append(ns, x)) /\ Grown(ns, Append(ns, x), 0, x.name)
<1>1. PICK S : ns \in Seq(S)
  BY DEF Shape
<1> DEFINE new == Append(ns, x)
           N == Len(ns)
<1>2. /\ new \in Seq(S \cup {x}) /\ N \in Nat /\ Len(new) = N + 1
      /\ DOMAIN ns = 1 .. N /\ DOMAIN new = 1 .. N + 1
      /\ new[N + 1] = x /\ \A k \in 1 .. N : new[k] = ns[k]
  BY <1>1, Appended
<1> HIDE DEF new, N
<1>3. \A i \in 1 .. N + 1 : i \in 1 .. N \/ i = N + 1
  BY <1>2
<1>4. <<>> \in Seq(Nat)
  OBVIOUS
<1>5. Shape(new)
  BY <1>2, <1>3, <1>4 DEF Shape
<1>6. \A i \in 1 .. N : i # 0
  BY <1>2
<1>7. Grown(ns, new, 0, x.name)
  BY <1>2, <1>6 DEF Grown, N
<1> QED
  BY <1>5, <1>7 DEF new

LEMMA GrowBelow ==
  ASSUME NEW ns, Shape(ns), NEW parent \in 0 .. Len(ns),
         NEW x, "name" \in DOMAIN x, "children" \in DOMAIN x, x.children = <<>>,
         NEW middle,
         middle = [i \in DOMAIN ns |->
                     IF i = parent
                       THEN [ns[i] EXCEPT !.children = Append(@, Len(ns) + 1)] ELSE ns[i]]
  PROVE  Shape(Append(middle, x)) /\ Grown(ns, Append(middle, x), parent, x.name)
<1> DEFINE N == Len(ns)
<1>1. N \in Nat /\ DOMAIN ns = 1 .. N
  BY Domains
<1>2. \A i \in 1 .. N :
        /\ "name" \in DOMAIN middle[i] /\ "children" \in DOMAIN middle[i]
        /\ middle[i].name = ns[i].name
        /\ middle[i].children = IF i = parent THEN Append(ns[i].children, N + 1)
                                              ELSE ns[i].children
  <2> TAKE i \in 1 .. N
  <2>1. "name" \in DOMAIN ns[i] /\ "children" \in DOMAIN ns[i]
    BY <1>1 DEF Shape
  <2>2. CASE i = parent
    <3>1. middle[i] = [ns[i] EXCEPT !.children = Append(ns[i].children, N + 1)]
      BY <1>1, <2>2
    <3> QED
      BY <2>1, <2>2, <3>1
  <2>3. CASE i # parent
    BY <1>1, <2>1, <2>3
  <2> QED
    BY <2>2, <2>3
<1>3. \A i \in 1 .. N : middle[i].children \in Seq(Nat)
  <2> TAKE i \in 1 .. N
  <2>1. ns[i].children \in Seq(Nat) /\ N + 1 \in Nat
    BY <1>1 DEF Shape
  <2>2. Append(ns[i].children, N + 1) \in Seq(Nat)
    BY <2>1, AppendProperties
  <2> QED
    BY <1>2, <2>1, <2>2
<1> DEFINE S == {middle[i] : i \in 1 .. N}
<1>4. middle \in Seq(S) /\ Len(middle) = N
  <2>1. middle \in [1 .. N -> S]
    <3>1. DOMAIN middle = 1 .. N /\ middle = [i \in 1 .. N |-> middle[i]]
      BY <1>1
    <3> QED
      BY <3>1
  <2> HIDE DEF S, N
  <2>2. middle \in Seq(S)
    BY <1>1, <2>1, SeqDef, ZenonT(40)
  <2> QED
    BY <1>1, <2>1, <2>2, LenProperties
<1> DEFINE new == Append(middle, x)
<1> HIDE DEF S
<1>5. /\ new \in Seq(S \cup {x}) /\ Len(new) = N + 1
      /\ DOMAIN new = 1 .. N + 1
      /\ new[N + 1] = x /\ \A k \in 1 .. N : new[k] = middle[k]
  BY <1>4, Appended
<1> HIDE DEF new, N
<1>6. \A i \in 1 .. N + 1 : i \in 1 .. N \/ i = N + 1
  BY <1>1
<1>7. <<>> \in Seq(Nat)
  OBVIOUS
<1>8. Shape(new)
  BY <1>2, <1>3, <1>5, <1>6, <1>7 DEF Shape
<1>9. Grown(ns, new, parent, x.name)
  BY <1>1, <1>2, <1>5 DEF Grown, N
<1> QED
  BY <1>8, <1>9 DEF new

-----------------------------------------------------------------------------
(* The tree, of any list of nodes and any roots.                           *)
ChildIn(i, p, ns) == \E k \in DOMAIN ns[p].children : ns[p].children[k] = i

RootIn(i, rs) == \E k \in DOMAIN rs : rs[k] = i

FurtherRoot(i) == i \in 2 .. Len(Linked) /\ Linked[i].parent = 0

(* Children are nodes, and each is listed once.                            *)
Children(ns) ==
  \A p \in DOMAIN ns :
    /\ \A k \in DOMAIN ns[p].children : ns[p].children[k] \in DOMAIN ns
    /\ \A k, l \in DOMAIN ns[p].children :
         ns[p].children[k] = ns[p].children[l] => k = l

OneParent(ns, rs) ==
  \A i \in DOMAIN ns : \A p, q \in DOMAIN ns :
    ChildIn(i, p, ns) => p < i /\ ~RootIn(i, rs) /\ (ChildIn(i, q, ns) => p = q)

Reached(ns, rs) ==
  \A i \in DOMAIN ns :
    (RootIn(i, rs) \/ \E p \in DOMAIN ns : ChildIn(i, p, ns)) <=> ~FurtherRoot(i)

TreeIn(ns, rs) == Children(ns) /\ OneParent(ns, rs) /\ Reached(ns, rs)

(* What a growing list does to who is whose child.                         *)
LEMMA GrownChildren ==
  ASSUME NEW ns, Shape(ns), NEW new, Shape(new), NEW parent \in 0 .. Len(ns), NEW name,
         Grown(ns, new, parent, name), Children(ns)
  PROVE  /\ Children(new)
         /\ DOMAIN new = DOMAIN ns \cup {Len(ns) + 1} /\ Len(ns) + 1 \notin DOMAIN ns
         /\ \A i, p \in DOMAIN ns : ChildIn(i, p, new) <=> ChildIn(i, p, ns)
         /\ \A i : ~ChildIn(i, Len(ns) + 1, new)
         /\ \A p \in DOMAIN ns : ChildIn(Len(ns) + 1, p, new) <=> p = parent
<1> DEFINE N == Len(ns)
<1>1. /\ N \in Nat /\ DOMAIN ns = 1 .. N
      /\ DOMAIN new = 1 .. N + 1
  BY Domains DEF Grown
<1>2. DOMAIN new = DOMAIN ns \cup {N + 1} /\ N + 1 \notin DOMAIN ns
  BY <1>1
<1>3. \A p \in DOMAIN ns : p # parent => new[p].children = ns[p].children
  BY DEF Grown
<1>4. new[N + 1].children = <<>> /\ DOMAIN new[N + 1].children = {}
  BY DEF Grown
<1>5. ASSUME parent \in DOMAIN ns
      PROVE  LET old == ns[parent].children
                 own == new[parent].children
             IN  /\ Len(old) + 1 \notin DOMAIN old
                 /\ DOMAIN own = DOMAIN old \cup {Len(old) + 1}
                 /\ own[Len(old) + 1] = N + 1
                 /\ \A k \in DOMAIN old : own[k] = old[k]
  <2> DEFINE old == ns[parent].children
  <2>1. old \in Seq(Nat)
    BY <1>5 DEF Shape
  <2>2. new[parent].children = Append(old, N + 1)
    BY <1>5 DEF Grown
  <2> HIDE DEF old, N
  <2>3. /\ Len(old) \in Nat
        /\ DOMAIN old = 1 .. Len(old) /\ DOMAIN Append(old, N + 1) = 1 .. Len(old) + 1
        /\ Append(old, N + 1)[Len(old) + 1] = N + 1
        /\ \A k \in 1 .. Len(old) : Append(old, N + 1)[k] = old[k]
    BY <2>1, Appended
  <2>4. /\ Len(old) + 1 \notin DOMAIN old
        /\ DOMAIN Append(old, N + 1) = DOMAIN old \cup {Len(old) + 1}
    BY <2>3
  <2> QED
    BY <2>2, <2>3, <2>4 DEF old
<1> HIDE DEF N
<1>6. \A i, p \in DOMAIN ns : ChildIn(i, p, new) <=> ChildIn(i, p, ns)
  <2> TAKE i, p \in DOMAIN ns
  <2>1. CASE p # parent
    BY <1>3, <2>1 DEF ChildIn
  <2>2. CASE p = parent
    BY <1>2, <1>5, <2>2 DEF ChildIn
  <2> QED
    BY <2>1, <2>2
<1>7. \A i : ~ChildIn(i, N + 1, new)
  BY <1>4 DEF ChildIn
<1>8. \A p \in DOMAIN ns : ChildIn(N + 1, p, new) <=> p = parent
  <2> TAKE p \in DOMAIN ns
  <2>1. CASE p # parent
    BY <1>2, <1>3, <2>1 DEF ChildIn, Children
  <2>2. CASE p = parent
    BY <1>5, <2>2 DEF ChildIn
  <2> QED
    BY <2>1, <2>2
<1>9. Children(new)
  <2> SUFFICES ASSUME NEW p \in DOMAIN new
               PROVE  /\ \A k \in DOMAIN new[p].children : new[p].children[k] \in DOMAIN new
                      /\ \A k, l \in DOMAIN new[p].children :
                           new[p].children[k] = new[p].children[l] => k = l
    BY DEF Children
  <2>1. CASE p = N + 1
    BY <1>4, <2>1
  <2>2. CASE p \in DOMAIN ns /\ p # parent
    BY <1>2, <1>3, <2>2 DEF Children
  <2>3. CASE p \in DOMAIN ns /\ p = parent
    BY <1>2, <1>5, <2>3 DEF Children
  <2> QED
    BY <1>2, <2>1, <2>2, <2>3
<1> QED
  BY <1>2, <1>6, <1>7, <1>8, <1>9 DEF N

(* The new node hangs below a node or is a root.                           *)
LEMMA GrownTree ==
  ASSUME NEW ns, Shape(ns), NEW new, Shape(new), NEW parent \in 0 .. Len(ns), NEW name,
         Grown(ns, new, parent, name), NEW rs, TreeIn(ns, rs), NEW rs2,
         \A i \in DOMAIN ns : RootIn(i, rs2) <=> RootIn(i, rs),
         parent # 0 => ~RootIn(Len(ns) + 1, rs2),
         (RootIn(Len(ns) + 1, rs2) \/ parent # 0) <=> ~FurtherRoot(Len(ns) + 1)
  PROVE  TreeIn(new, rs2)
<1> DEFINE N == Len(ns)
<1>1. /\ N \in Nat /\ DOMAIN ns = 1 .. N /\ Children(ns)
  BY Domains DEF TreeIn
<1>2. /\ Children(new)
      /\ DOMAIN new = DOMAIN ns \cup {N + 1} /\ N + 1 \notin DOMAIN ns
      /\ \A i, p \in DOMAIN ns : ChildIn(i, p, new) <=> ChildIn(i, p, ns)
      /\ \A i : ~ChildIn(i, N + 1, new)
      /\ \A p \in DOMAIN ns : ChildIn(N + 1, p, new) <=> p = parent
  BY <1>1, GrownChildren
<1>3. \A p \in DOMAIN ns : p < N + 1
  BY <1>1
<1>4. parent # 0 => parent \in DOMAIN ns
  BY <1>1
<1>5. 0 \notin DOMAIN ns
  BY <1>1
<1> HIDE DEF N
<1>6. OneParent(new, rs2)
  <2> SUFFICES ASSUME NEW i \in DOMAIN new, NEW p \in DOMAIN new, NEW q \in DOMAIN new,
                      ChildIn(i, p, new)
               PROVE  p < i /\ ~RootIn(i, rs2) /\ (ChildIn(i, q, new) => p = q)
    BY DEF OneParent
  <2>1. p \in DOMAIN ns /\ (ChildIn(i, q, new) => q \in DOMAIN ns)
    BY <1>2
  <2>2. CASE i \in DOMAIN ns
    BY <1>2, <2>1, <2>2 DEF TreeIn, OneParent
  <2>3. CASE i = N + 1
    <3>1. p = parent
      BY <1>2, <2>1, <2>3
    <3> QED
      BY <1>2, <1>3, <1>5, <2>1, <2>3, <3>1 DEF N
  <2> QED
    BY <1>2, <2>2, <2>3
<1>7. Reached(new, rs2)
  <2> SUFFICES ASSUME NEW i \in DOMAIN new
               PROVE  (RootIn(i, rs2) \/ \E p \in DOMAIN new : ChildIn(i, p, new))
                        <=> ~FurtherRoot(i)
    BY DEF Reached
  <2>1. CASE i \in DOMAIN ns
    <3>1. (\E p \in DOMAIN new : ChildIn(i, p, new)) <=> \E p \in DOMAIN ns : ChildIn(i, p, ns)
      BY <1>2, <2>1
    <3> QED
      BY <2>1, <3>1 DEF TreeIn, Reached
  <2>2. CASE i = N + 1
    <3>1. (\E p \in DOMAIN new : ChildIn(i, p, new)) <=> parent # 0
      BY <1>2, <1>4, <1>5, <2>2
    <3> QED
      BY <2>2, <3>1 DEF N
  <2> QED
    BY <1>2, <2>1, <2>2
<1> QED
  BY <1>2, <1>6, <1>7 DEF TreeIn

-----------------------------------------------------------------------------
(* The bones of the nodes.                                                 *)
Above(i, bone, ns) == {p \in 1 .. i - 1 : ns[p].name = ParentName(bone)}

(* Node i is a bone's: it has its name and, if it is not the skeleton's,   *)
(* hangs below a node of its parent's name if one was there before.        *)
BoneAt(i, bone, ns) ==
  /\ ns[i].name = bone.name
  /\ i > Len(Linked) /\ bone.parent # 0 /\ Above(i, bone, ns) # {} =>
       \E p \in Above(i, bone, ns) : ChildIn(i, p, ns)

LEMMA GrownBones ==
  ASSUME NEW ns, Shape(ns), NEW new, Shape(new), NEW parent \in 0 .. Len(ns), NEW name,
         Grown(ns, new, parent, name), Children(ns),
         NEW i \in DOMAIN ns, NEW bone, BoneAt(i, bone, ns)
  PROVE  BoneAt(i, bone, new)
<1>1. Len(ns) \in Nat /\ DOMAIN ns = 1 .. Len(ns)
  BY Domains
<1>2. \A p \in 1 .. i - 1 : p \in DOMAIN ns
  BY <1>1
<1>3. \A p \in DOMAIN ns : ChildIn(i, p, new) <=> ChildIn(i, p, ns)
  BY GrownChildren
<1>4. \A p \in DOMAIN ns : new[p].name = ns[p].name
  BY DEF Grown
<1>5. Above(i, bone, new) = Above(i, bone, ns)
  BY <1>2, <1>4 DEF Above
<1>6. \A p \in Above(i, bone, ns) : p \in DOMAIN ns
  BY <1>2 DEF Above
<1> QED
  BY <1>3, <1>4, <1>5, <1>6 DEF BoneAt

(* Which stages come before the meshes, and when the skeleton is complete. *)
Early == {"open", "skeleton", "load", "skins"}

Complete == {"load", "skins", "buffers", "morphs", "prims", "weights", "meshes"}

Placed ==
  /\ model \in Models
  /\ stage \in Early \cup Complete \cup {"saved", "refused"}
  /\ stage = "open" => nodes = <<>> /\ roots = <<>> /\ skins = <<>>
  /\ stage = "skeleton" =>
       /\ \E a \in Opened : a.kind = "skeleton"
       /\ done = Len(nodes) /\ done <= Len(Linked)
       /\ roots = <<1>> /\ skins = <<>>
  /\ stage = "load" => skins = <<>>
  /\ stage \in Complete => Len(Linked) <= Len(nodes)

RootsRight ==
  /\ \E S : roots \in Seq(S)
  /\ \A k \in DOMAIN roots : roots[k] \in DOMAIN nodes \/ roots[k] = 1

(* The nodes the skeleton lacks are bones of the model.                    *)
AddedRight ==
  stage \in Early =>
    \A i \in DOMAIN nodes : i > Len(Linked) =>
      \E b \in DOMAIN model.bones : BoneAt(i, model.bones[b], nodes)

SkinsRight ==
  /\ skins \in Seq(Seq(Nat))
  /\ Len(skins) <= Len(model.skins)
  /\ \A s \in DOMAIN skins : \A k \in DOMAIN skins[s] :
       skins[s][k] \in DOMAIN nodes
         /\ BoneAt(skins[s][k], model.bones[model.skins[s][k]], nodes)

(* The inductive invariant of the nodes.                                   *)
IInv ==
  /\ Placed
  /\ Shape(nodes)
  /\ RootsRight
  /\ TreeIn(nodes, roots)
  /\ AddedRight
  /\ SkinsRight

(* The bones of the skeleton.                                              *)
LEMMA LinkedFacts ==
  ASSUME model \in Models
  PROVE  /\ Len(Linked) \in Nat /\ DOMAIN Linked = 1 .. Len(Linked)
         /\ \A k \in DOMAIN Linked : Linked[k].parent \in Nat
<1>1. CASE \E a \in Opened : a.kind = "skeleton"
  <2> DEFINE a == CHOOSE a \in Opened : a.kind = "skeleton"
  <2>1. a \in Opened /\ a.kind = "skeleton" /\ Linked = a.links
    BY <1>1 DEF Linked, links
  <2> HIDE DEF a
  <2>2. a \in {model.own, model.fallback}
    BY <2>1 DEF Opened
  <2>3. IsList(a.links) /\ \A k \in DOMAIN a.links : a.links[k].parent \in Nat
    BY <2>1, <2>2, ModelAssumption
  <2>4. a.links \in Seq({a.links[i] : i \in DOMAIN a.links})
    BY <2>3 DEF IsList
  <2>5. Len(a.links) \in Nat /\ DOMAIN a.links = 1 .. Len(a.links)
    BY <2>4, LenProperties
  <2> QED
    BY <2>1, <2>3, <2>5
<1>2. CASE ~ \E a \in Opened : a.kind = "skeleton"
  <2>1. Linked = <<>>
    BY <1>2 DEF Linked
  <2> QED
    BY <2>1
<1> QED
  BY <1>1, <1>2

(* What depends on the model alone.                                        *)
LEMMA ModelFrame ==
  ASSUME model' = model
  PROVE  /\ Linked' = Linked /\ Opened' = Opened /\ links' = links
         /\ \A i, b, ns : BoneAt(i, b, ns)' <=> BoneAt(i, b, ns)
         /\ \A ns, rs : TreeIn(ns, rs)' <=> TreeIn(ns, rs)
<1>1. Linked' = Linked /\ Opened' = Opened /\ links' = links
  BY DEF Linked, links, Opened
<1>2. \A b : ParentName(b)' = ParentName(b)
  BY DEF ParentName
<1>3. \A i, b, ns : BoneAt(i, b, ns)' <=> BoneAt(i, b, ns)
  BY <1>1, <1>2 DEF BoneAt, Above, ChildIn
<1>4. \A ns, rs : TreeIn(ns, rs)' <=> TreeIn(ns, rs)
  BY <1>1 DEF TreeIn, Children, OneParent, Reached, FurtherRoot, ChildIn, RootIn
<1> QED
  BY <1>1, <1>3, <1>4

(* A step that leaves the nodes, the scene and the skins alone.            *)
LEMMA StepElsewhere ==
  ASSUME IInv, Placed', UNCHANGED <<model, nodes, roots, skins>>,
         stage' \in Early => stage \in Early
  PROVE  IInv'
<1>1. Shape(nodes)' /\ RootsRight'
  BY DEF IInv, Shape, RootsRight
<1>2. TreeIn(nodes, roots)'
  <2>1. TreeIn(nodes', roots')
    BY DEF IInv
  <2> QED
    BY <2>1, ModelFrame DEF TreeIn, Children, OneParent, Reached, FurtherRoot, ChildIn, RootIn
<1>3. AddedRight'
  BY ModelFrame DEF IInv, AddedRight
<1>4. SkinsRight'
  BY ModelFrame DEF IInv, SkinsRight
<1> QED
  BY <1>1, <1>2, <1>3, <1>4 DEF IInv

-----------------------------------------------------------------------------
(* A step that adds a node.                                                *)
LEMMA StepGrown ==
  ASSUME IInv, model' = model, NEW parent \in 0 .. Len(nodes), NEW name,
         Shape(nodes'), Grown(nodes, nodes', parent, name),
         Placed', RootsRight', SkinsRight',
         \A i \in DOMAIN nodes : RootIn(i, roots') <=> RootIn(i, roots),
         parent # 0 => ~RootIn(Len(nodes) + 1, roots'),
         (RootIn(Len(nodes) + 1, roots') \/ parent # 0) <=> ~FurtherRoot(Len(nodes) + 1),
         stage' \in Early =>
           /\ stage \in Early
           /\ Len(nodes) + 1 > Len(Linked) =>
                \E b \in DOMAIN model.bones : BoneAt(Len(nodes) + 1, model.bones[b], nodes')
  PROVE  IInv'
<1>1. Shape(nodes) /\ TreeIn(nodes, roots) /\ Children(nodes)
  BY DEF IInv, TreeIn
<1>2. TreeIn(nodes', roots')
  BY <1>1, GrownTree
<1>3. TreeIn(nodes, roots)'
  BY <1>2, ModelFrame DEF TreeIn, Children, OneParent, Reached, FurtherRoot, ChildIn, RootIn
<1>4. AddedRight'
  <2> SUFFICES ASSUME stage' \in Early, NEW i \in DOMAIN nodes', i > Len(Linked)
               PROVE  \E b \in DOMAIN model.bones : BoneAt(i, model.bones[b], nodes')
    BY ModelFrame DEF AddedRight
  <2>1. DOMAIN nodes' = DOMAIN nodes \cup {Len(nodes) + 1}
    BY <1>1, GrownChildren
  <2>2. CASE i \in DOMAIN nodes
    <3>1. PICK b \in DOMAIN model.bones : BoneAt(i, model.bones[b], nodes)
      BY <2>2 DEF IInv, AddedRight
    <3> QED
      BY <1>1, <2>2, <3>1, GrownBones
  <2>3. CASE i = Len(nodes) + 1
    BY <2>3
  <2> QED
    BY <2>1, <2>2, <2>3
<1>5. Shape(nodes)'
  BY DEF Shape
<1> QED
  BY <1>3, <1>4, <1>5 DEF IInv

(* The joints that were there keep their nodes.                            *)
LEMMA JointsKept ==
  ASSUME IInv, model' = model, NEW parent \in 0 .. Len(nodes), NEW name,
         Shape(nodes'), Grown(nodes, nodes', parent, name)
  PROVE  \A s \in DOMAIN skins : \A k \in DOMAIN skins[s] :
           /\ skins[s][k] \in DOMAIN nodes'
           /\ BoneAt(skins[s][k], model.bones[model.skins[s][k]], nodes')
<1> TAKE s \in DOMAIN skins
<1> TAKE k \in DOMAIN skins[s]
<1>1. Shape(nodes) /\ Children(nodes)
  BY DEF IInv, TreeIn
<1>2. /\ skins[s][k] \in DOMAIN nodes
      /\ BoneAt(skins[s][k], model.bones[model.skins[s][k]], nodes)
  BY DEF IInv, SkinsRight
<1>3. DOMAIN nodes' = DOMAIN nodes \cup {Len(nodes) + 1}
  BY <1>1, GrownChildren
<1> QED
  BY <1>1, <1>2, <1>3, GrownBones

LEMMA SkinsFrame ==
  ASSUME IInv, model' = model, skins' = skins, NEW parent \in 0 .. Len(nodes), NEW name,
         Shape(nodes'), Grown(nodes, nodes', parent, name)
  PROVE  SkinsRight'
BY JointsKept, ModelFrame DEF IInv, SkinsRight

(* A root behind the others.                                               *)
LEMMA RootAdded ==
  ASSUME IInv, roots' = Append(roots, Len(nodes) + 1),
         DOMAIN nodes' = DOMAIN nodes \cup {Len(nodes) + 1}
  PROVE  /\ RootsRight'
         /\ RootIn(Len(nodes) + 1, roots')
         /\ \A i \in DOMAIN nodes : RootIn(i, roots') <=> RootIn(i, roots)
<1> DEFINE N == Len(nodes)
<1>1. N \in Nat /\ DOMAIN nodes = 1 .. N /\ N + 1 \notin DOMAIN nodes
  BY Domains DEF IInv
<1>2. PICK S : roots \in Seq(S)
  BY DEF IInv, RootsRight
<1> HIDE DEF N
<1>3. /\ roots' \in Seq(S \cup {N + 1}) /\ Len(roots) \in Nat
      /\ DOMAIN roots = 1 .. Len(roots) /\ DOMAIN roots' = 1 .. Len(roots) + 1
      /\ roots'[Len(roots) + 1] = N + 1
      /\ \A k \in 1 .. Len(roots) : roots'[k] = roots[k]
  BY <1>2, Appended DEF N
<1>4. DOMAIN roots' = DOMAIN roots \cup {Len(roots) + 1}
  BY <1>3
<1>5. RootsRight'
  <2>1. \A k \in DOMAIN roots' : roots'[k] \in DOMAIN nodes' \/ roots'[k] = 1
    BY <1>3, <1>4 DEF IInv, RootsRight, N
  <2> QED
    BY <1>3, <2>1 DEF RootsRight
<1>6. RootIn(N + 1, roots')
  BY <1>3, <1>4 DEF RootIn
<1>7. \A i \in DOMAIN nodes : RootIn(i, roots') <=> RootIn(i, roots)
  BY <1>1, <1>3, <1>4 DEF RootIn
<1> QED
  BY <1>5, <1>6, <1>7 DEF N

(* The node of the next bone of the skeleton.                              *)
LEMMA BelowGrows ==
  ASSUME IInv, NEW parent \in 0 .. Len(nodes), NEW name, nodes' = Below(parent, Node(name))
  PROVE  Shape(nodes') /\ Grown(nodes, nodes', parent, name)
<1> DEFINE x == Node(name)
           middle == [i \in DOMAIN nodes |->
                        IF i = parent
                          THEN [nodes[i] EXCEPT !.children = Append(@, Len(nodes) + 1)]
                          ELSE nodes[i]]
<1>1. "name" \in DOMAIN x /\ "children" \in DOMAIN x /\ x.children = <<>> /\ x.name = name
  BY DEF Node
<1>2. nodes' = Append(middle, x)
  BY DEF Below
<1>3. Shape(nodes)
  BY DEF IInv
<1>4. middle = [i \in DOMAIN nodes |->
                  IF i = parent
                    THEN [nodes[i] EXCEPT !.children = Append(@, Len(nodes) + 1)]
                    ELSE nodes[i]]
  OBVIOUS
<1> HIDE DEF x, middle
<1>5. Shape(Append(middle, x)) /\ Grown(nodes, Append(middle, x), parent, x.name)
  BY <1>1, <1>3, <1>4, GrowBelow
<1> QED
  BY <1>1, <1>2, <1>5

LEMMA StepAddLink ==
  ASSUME IInv, AddLink
  PROVE  IInv'
<1>1. /\ stage = "skeleton" /\ done < Len(links) /\ links[done + 1].parent <= Len(nodes)
      /\ nodes' = Below(links[done + 1].parent, Node(links[done + 1].name))
      /\ done' = done + 1 /\ UNCHANGED <<model, stage, roots, skins>>
  BY DEF AddLink, HasLink, link
<1>2. /\ model \in Models /\ Linked = links
      /\ done = Len(nodes) /\ roots = <<1>> /\ skins = <<>>
      /\ \E a \in Opened : a.kind = "skeleton"
  BY <1>1 DEF IInv, Placed, Linked
<1>3. /\ Len(links) \in Nat /\ DOMAIN links = 1 .. Len(links)
      /\ \A k \in DOMAIN links : links[k].parent \in Nat
  BY <1>2, LinkedFacts
<1>4. Len(nodes) \in Nat /\ DOMAIN nodes = 1 .. Len(nodes)
  BY Domains DEF IInv
<1> DEFINE N == Len(nodes)
           parent == links[N + 1].parent
<1>5. parent \in 0 .. N /\ N + 1 \in 1 .. Len(links) /\ N + 1 <= Len(links)
  BY <1>1, <1>2, <1>3, <1>4
<1>6. nodes' = Below(parent, Node(links[N + 1].name))
  BY <1>1, <1>2
<1> HIDE DEF parent
<1>7. Shape(nodes') /\ Grown(nodes, nodes', parent, links[N + 1].name)
  BY <1>5, <1>6, BelowGrows
<1>8. Placed'
  <2>1. Len(nodes') = N + 1 /\ done' = N + 1
    BY <1>1, <1>2, <1>7 DEF Grown
  <2> QED
    BY <1>1, <1>2, <1>5, <2>1, ModelFrame DEF IInv, Placed, Early, Complete
<1>9. DOMAIN nodes' = DOMAIN nodes \cup {N + 1}
  <2>1. Shape(nodes) /\ Shape(nodes') /\ Len(nodes') = Len(nodes) + 1
    BY <1>7 DEF IInv, Grown
  <2> QED
    BY <2>1, GrownDomain
<1>10. RootsRight'
  BY <1>1, <1>2, <1>9 DEF IInv, RootsRight
<1>11. SkinsRight'
  BY <1>1, <1>5, <1>7, SkinsFrame
<1>12. DOMAIN roots = {1} /\ roots[1] = 1 /\ roots' = roots
  BY <1>1, <1>2
<1>13. RootIn(N + 1, roots') <=> N = 0
  BY <1>4, <1>12 DEF RootIn
<1>14. FurtherRoot(N + 1) <=> N # 0 /\ parent = 0
  BY <1>2, <1>4, <1>5 DEF FurtherRoot, parent
<1>15. parent # 0 => N # 0
  BY <1>4, <1>5
<1>16. ~(N + 1 > Len(Linked)) /\ stage \in Early
  BY <1>1, <1>2, <1>3, <1>4, <1>5 DEF Early
<1> QED
  BY <1>1, <1>5, <1>7, <1>8, <1>10, <1>11, <1>12, <1>13, <1>14, <1>15, <1>16, StepGrown

-----------------------------------------------------------------------------
(* The skins.                                                              *)

(* The joint at hand is a bone of the model.                               *)
LEMMA JointFacts ==
  ASSUME IInv, HasJoint
  PROVE  /\ Len(skins) \in Nat /\ Len(skins) \in DOMAIN skins
         /\ skins[Len(skins)] \in Seq(Nat)
         /\ \E b \in DOMAIN model.bones : joint = model.bones[b]
<1> DEFINE S == Len(skins)
           K == Len(skins[S])
<1>1. skins \in Seq(Seq(Nat)) /\ skins # <<>> /\ K < Len(model.skins[S])
  BY DEF IInv, SkinsRight, HasJoint
<1>2. S \in Nat /\ S \in DOMAIN skins /\ DOMAIN skins = 1 .. S /\ skins[S] \in Seq(Nat)
  BY <1>1
<1>3. K \in Nat
  BY <1>2
<1>4. model \in Models /\ S <= Len(model.skins)
  BY DEF IInv, SkinsRight, Placed
<1>5. model.skins \in Seq({model.skins[i] : i \in DOMAIN model.skins})
  BY <1>4, ModelAssumption DEF IsList
<1>6. DOMAIN model.skins = 1 .. Len(model.skins) /\ Len(model.skins) \in Nat
  BY <1>5, LenProperties
<1> HIDE DEF S, K
<1>7. S \in DOMAIN model.skins
  BY <1>2, <1>4, <1>6
<1> DEFINE own == model.skins[S]
<1>8. own \in Seq({own[i] : i \in DOMAIN own}) /\ \A k \in DOMAIN own : own[k] \in DOMAIN model.bones
  BY <1>4, <1>7, ModelAssumption DEF IsList
<1> HIDE DEF own
<1>9. DOMAIN own = 1 .. Len(own) /\ Len(own) \in Nat
  BY <1>8, LenProperties
<1>10. K + 1 \in DOMAIN own
  BY <1>1, <1>3, <1>9 DEF own
<1>11. joint = model.bones[own[K + 1]]
  BY DEF joint, own, K, S
<1> QED
  BY <1>2, <1>8, <1>10, <1>11 DEF S

(* One more joint of the last skin.                                        *)
LEMMA Pushed ==
  ASSUME IInv, HasJoint, NEW node \in Nat, PushJoint(node), model' = model,
         node \in DOMAIN nodes', BoneAt(node, joint, nodes'),
         \A s \in DOMAIN skins : \A k \in DOMAIN skins[s] :
           /\ skins[s][k] \in DOMAIN nodes'
           /\ BoneAt(skins[s][k], model.bones[model.skins[s][k]], nodes')
  PROVE  SkinsRight'
<1> DEFINE S == Len(skins)
           last == skins[S]
           new == Append(last, node)
<1>1. /\ S \in Nat /\ S \in DOMAIN skins /\ last \in Seq(Nat)
      /\ skins \in Seq(Seq(Nat)) /\ S <= Len(model.skins)
  BY JointFacts DEF IInv, SkinsRight
<1>2. skins' = [skins EXCEPT ![S] = new]
  BY DEF PushJoint
<1>3. joint = model.bones[model.skins[S][Len(last) + 1]]
  BY DEF joint
<1> HIDE DEF S, last, new
<1>4. /\ new \in Seq(Nat) /\ Len(last) \in Nat
      /\ DOMAIN last = 1 .. Len(last) /\ DOMAIN new = 1 .. Len(last) + 1
      /\ new[Len(last) + 1] = node
      /\ \A k \in 1 .. Len(last) : new[k] = last[k]
  <2>1. new \in Seq(Nat)
    BY <1>1, AppendProperties DEF new
  <2> QED
    BY <1>1, <2>1, Appended DEF new
<1>5. /\ skins' \in Seq(Seq(Nat)) /\ Len(skins') = S
      /\ DOMAIN skins' = DOMAIN skins /\ skins'[S] = new
      /\ \A s \in DOMAIN skins : s # S => skins'[s] = skins[s]
  <2>1. S \in 1 .. Len(skins)
    BY <1>1
  <2>2. skins' \in Seq(Seq(Nat)) /\ Len(skins') = Len(skins)
    BY <1>1, <1>2, <1>4, <2>1, ExceptSeq
  <2> QED
    BY <1>1, <1>2, <2>2 DEF S
<1>6. ASSUME NEW s \in DOMAIN skins', NEW k \in DOMAIN skins'[s]
      PROVE  /\ skins'[s][k] \in DOMAIN nodes'
             /\ BoneAt(skins'[s][k], model.bones[model.skins[s][k]], nodes')
  <2>1. CASE s # S
    BY <1>5, <2>1
  <2>2. CASE s = S
    <3>1. k \in DOMAIN last \/ k = Len(last) + 1
      BY <1>4, <1>5, <2>2, SMTT(20)
    <3>2. CASE k \in DOMAIN last
      BY <1>1, <1>4, <1>5, <2>2, <3>2 DEF last
    <3>3. CASE k = Len(last) + 1
      BY <1>3, <1>4, <1>5, <2>2, <3>3
    <3> QED
      BY <3>1, <3>2, <3>3
  <2> QED
    BY <2>1, <2>2
<1> QED
  BY <1>1, <1>5, <1>6, ModelFrame DEF SkinsRight

(* The first node of a name has it, and there is none if it is not found.  *)
LEMMA NameFound ==
  ASSUME IInv, NEW name
  PROVE  /\ NodeNamed(name) # 0 =>
              NodeNamed(name) \in DOMAIN nodes /\ nodes[NodeNamed(name)].name = name
         /\ NodeNamed(name) = 0 => \A i \in DOMAIN nodes : nodes[i].name # name
<1>1. Len(nodes) \in Nat /\ DOMAIN nodes = 1 .. Len(nodes)
  BY Domains DEF IInv
<1> DEFINE T == {i \in DOMAIN nodes : nodes[i].name = name}
<1>2. CASE T # {}
  <2>1. T \subseteq Nat
    BY <1>1
  <2>2. PICK i \in T : \A j \in T : i <= j
    BY <1>2, <2>1, SmallestMember
  <2>3. i \in DOMAIN nodes /\ nodes[i].name = name
    OBVIOUS
  <2>4. \A j \in 1 .. i - 1 : nodes[j].name # name
    <3> SUFFICES ASSUME NEW j \in 1 .. i - 1, nodes[j].name = name
                 PROVE  FALSE
      OBVIOUS
    <3>1. j \in DOMAIN nodes /\ ~(i <= j)
      BY <1>1, <2>3
    <3> QED
      BY <2>2, <3>1
  <2>5. NodeNamed(name) \in DOMAIN nodes /\ nodes[NodeNamed(name)].name = name
    BY <2>3, <2>4 DEF NodeNamed
  <2>6. NodeNamed(name) # 0
    BY <1>1, <2>5
  <2> QED
    BY <2>5, <2>6
<1>3. CASE T = {}
  BY <1>3 DEF NodeNamed
<1> QED
  BY <1>2, <1>3

(* Bones of one name are alike to the document.                            *)
LEMMA Namesakes ==
  ASSUME model \in Models, NEW b \in DOMAIN model.bones, NEW c \in DOMAIN model.bones,
         model.bones[b].name = model.bones[c].name,
         NEW i, NEW ns, BoneAt(i, model.bones[b], ns)
  PROVE  BoneAt(i, model.bones[c], ns)
<1>1. /\ model.bones[b].parent = 0 <=> model.bones[c].parent = 0
      /\ model.bones[b].parent # 0 =>
           model.bones[model.bones[b].parent].name = model.bones[model.bones[c].parent].name
  BY ModelAssumption
<1>2. ParentName(model.bones[b]) = ParentName(model.bones[c])
  BY <1>1 DEF ParentName
<1>3. Above(i, model.bones[b], ns) = Above(i, model.bones[c], ns)
  BY <1>2 DEF Above
<1> QED
  BY <1>1, <1>3 DEF BoneAt

(* A skin begins without joints.                                           *)
LEMMA StepBeginSkin ==
  ASSUME IInv, BeginSkin
  PROVE  IInv'
<1>1. /\ stage = "skins" /\ Len(skins) < Len(model.skins) /\ skins' = Append(skins, <<>>)
      /\ UNCHANGED <<model, stage, done, nodes, roots>>
  BY DEF BeginSkin
<1>2. Placed'
  BY <1>1, ModelFrame DEF IInv, Placed, Early, Complete
<1>3. Shape(nodes)' /\ RootsRight' /\ AddedRight'
  BY <1>1, ModelFrame DEF IInv, Shape, RootsRight, AddedRight
<1>4. TreeIn(nodes, roots)'
  <2>1. TreeIn(nodes', roots')
    BY <1>1 DEF IInv
  <2> QED
    BY <1>1, <2>1, ModelFrame DEF TreeIn, Children, OneParent, Reached, FurtherRoot,
       ChildIn, RootIn
<1>5. SkinsRight'
  <2> DEFINE none == <<>>
  <2>1. /\ skins \in Seq(Seq(Nat)) /\ none \in Seq(Nat) /\ DOMAIN none = {}
        /\ Len(skins) \in Nat /\ DOMAIN skins = 1 .. Len(skins)
    BY DEF IInv, SkinsRight
  <2> HIDE DEF none
  <2>2. skins' = Append(skins, none)
    BY <1>1 DEF none
  <2>3. /\ skins' \in Seq(Seq(Nat)) /\ Len(skins') = Len(skins) + 1
        /\ DOMAIN skins' = 1 .. Len(skins) + 1
        /\ skins'[Len(skins) + 1] = none
        /\ \A s \in 1 .. Len(skins) : skins'[s] = skins[s]
    BY <2>1, <2>2, AppendProperties
  <2>4. model \in Models /\ Len(skins) + 1 <= Len(model.skins)
    <3>1. model \in Models
      BY DEF IInv, Placed
    <3>2. model.skins \in Seq({model.skins[i] : i \in DOMAIN model.skins})
      BY <3>1, ModelAssumption DEF IsList
    <3>3. Len(model.skins) \in Nat
      BY <3>2, LenProperties
    <3> QED
      BY <1>1, <2>1, <3>1, <3>3
  <2>5. \A s \in DOMAIN skins' : s \in DOMAIN skins \/ s = Len(skins) + 1
    BY <2>1, <2>3
  <2>6. \A s \in DOMAIN skins' : \A k \in DOMAIN skins'[s] :
          skins'[s][k] \in DOMAIN nodes
            /\ BoneAt(skins'[s][k], model.bones[model.skins[s][k]], nodes)
    BY <2>1, <2>3, <2>5 DEF IInv, SkinsRight
  <2> QED
    BY <1>1, <2>3, <2>4, <2>6, ModelFrame DEF SkinsRight
<1> QED
  BY <1>2, <1>3, <1>4, <1>5 DEF IInv

(* A joint whose node is there.                                            *)
LEMMA StepKnownJoint ==
  ASSUME IInv, KnownJoint
  PROVE  IInv'
<1> DEFINE node == NodeNamed(joint.name)
<1>1. /\ stage = "skins" /\ HasJoint /\ node # 0 /\ PushJoint(node)
      /\ UNCHANGED <<model, stage, done, nodes, roots>>
  BY DEF KnownJoint, HasJoint
<1>2. node \in DOMAIN nodes /\ nodes[node].name = joint.name
  BY <1>1, NameFound
<1>3. PICK c \in DOMAIN model.bones : joint = model.bones[c]
  BY <1>1, JointFacts
<1>4. Len(nodes) \in Nat /\ DOMAIN nodes = 1 .. Len(nodes)
  BY Domains DEF IInv
<1> HIDE DEF node
<1>5. node \in Nat
  BY <1>2, <1>4
<1>6. BoneAt(node, joint, nodes)
  <2>1. CASE node > Len(Linked)
    <3>1. PICK b \in DOMAIN model.bones : BoneAt(node, model.bones[b], nodes)
      BY <1>1, <1>2, <2>1 DEF IInv, AddedRight, Early
    <3>2. model.bones[b].name = model.bones[c].name
      BY <1>2, <1>3, <3>1 DEF BoneAt
    <3>3. model \in Models
      BY DEF IInv, Placed
    <3> QED
      BY <1>3, <3>1, <3>2, <3>3, Namesakes
  <2>2. CASE ~(node > Len(Linked))
    BY <1>2, <2>2 DEF BoneAt
  <2> QED
    BY <2>1, <2>2
<1>7. SkinsRight'
  <2>1. node \in DOMAIN nodes' /\ BoneAt(node, joint, nodes')
    BY <1>1, <1>2, <1>6
  <2>2. \A s \in DOMAIN skins : \A k \in DOMAIN skins[s] :
          /\ skins[s][k] \in DOMAIN nodes'
          /\ BoneAt(skins[s][k], model.bones[model.skins[s][k]], nodes')
    BY <1>1 DEF IInv, SkinsRight
  <2>3. model' = model
    BY <1>1
  <2> QED
    BY <1>1, <1>5, <2>1, <2>2, <2>3, Pushed
<1>8. Placed'
  BY <1>1, ModelFrame DEF IInv, Placed, Early, Complete
<1>9. Shape(nodes)' /\ RootsRight' /\ AddedRight'
  BY <1>1, ModelFrame DEF IInv, Shape, RootsRight, AddedRight
<1>10. TreeIn(nodes, roots)'
  <2>1. TreeIn(nodes', roots')
    BY <1>1 DEF IInv
  <2> QED
    BY <1>1, <2>1, ModelFrame DEF TreeIn, Children, OneParent, Reached, FurtherRoot,
       ChildIn, RootIn
<1> QED
  BY <1>7, <1>8, <1>9, <1>10 DEF IInv

(* A node the skeleton lacks, below that of the bone's parent.             *)
LEMMA StepMissingBone ==
  ASSUME IInv, MissingBone
  PROVE  IInv'
<1> DEFINE N == Len(nodes)
           parent == ParentNode
           name == joint.name
           up == ParentName(joint)
           bone == joint
<1>1. /\ stage = "skins" /\ HasJoint /\ parent # 0
      /\ nodes' = Below(parent, Node(name)) /\ PushJoint(N + 1)
      /\ UNCHANGED <<model, stage, done, roots>>
  BY DEF MissingBone, HasJoint
<1>2. N \in Nat /\ DOMAIN nodes = 1 .. N /\ model \in Models
  BY Domains DEF IInv, Placed
<1>3. parent \in DOMAIN nodes /\ nodes[parent].name = up
  BY <1>1, NameFound DEF ParentNode
<1>4. PICK b \in DOMAIN model.bones : bone = model.bones[b]
  BY <1>1, JointFacts
<1> HIDE DEF parent, name, up, bone
<1>5. parent \in 0 .. N /\ parent \in 1 .. N + 1 - 1 /\ N + 1 # 1 /\ N + 1 \in Nat
  BY <1>1, <1>2, <1>3
<1>6. Shape(nodes') /\ Grown(nodes, nodes', parent, name)
  BY <1>1, <1>5, BelowGrows
<1>7. Shape(nodes) /\ Children(nodes) /\ Len(nodes') = N + 1
  BY <1>6 DEF IInv, TreeIn, Grown
<1>8. DOMAIN nodes' = DOMAIN nodes \cup {N + 1}
  BY <1>6, <1>7, GrownDomain
<1>9. BoneAt(N + 1, bone, nodes')
  <2>1. ChildIn(N + 1, parent, nodes')
    BY <1>3, <1>5, <1>6, <1>7, GrownChildren
  <2>2. nodes'[N + 1].name = name /\ nodes'[parent].name = up
    BY <1>3, <1>6 DEF Grown
  <2>3. parent \in Above(N + 1, bone, nodes')
    BY <1>5, <2>2 DEF Above, up, bone
  <2> QED
    BY <2>1, <2>2, <2>3 DEF BoneAt, name, bone
<1>10. SkinsRight'
  <2>1. model' = model
    BY <1>1
  <2>2. \A s \in DOMAIN skins : \A k \in DOMAIN skins[s] :
          /\ skins[s][k] \in DOMAIN nodes'
          /\ BoneAt(skins[s][k], model.bones[model.skins[s][k]], nodes')
    BY <1>5, <1>6, <2>1, JointsKept
  <2>3. N + 1 \in DOMAIN nodes'
    BY <1>8
  <2> QED
    BY <1>1, <1>5, <1>9, <2>1, <2>2, <2>3, Pushed DEF bone
<1>11. Len(Linked) \in Nat /\ Len(Linked) <= N
  BY <1>1, <1>2, LinkedFacts DEF IInv, Placed, Complete
<1>12. Placed'
  <2>1. Len(Linked) <= N + 1
    BY <1>2, <1>11
  <2> QED
    BY <1>1, <1>7, <2>1, ModelFrame DEF IInv, Placed, Early, Complete
<1>13. RootsRight' /\ ~RootIn(N + 1, roots')
  <2>1. RootsRight'
    BY <1>1, <1>8 DEF IInv, RootsRight
  <2>2. N + 1 \notin DOMAIN nodes /\ N + 1 # 1
    BY <1>2, <1>5
  <2> QED
    BY <1>1, <2>1, <2>2 DEF IInv, RootsRight, RootIn
<1>14. ~FurtherRoot(N + 1)
  BY <1>2, <1>11 DEF FurtherRoot
<1>15. \A i \in DOMAIN nodes : RootIn(i, roots') <=> RootIn(i, roots)
  BY <1>1
<1>16. stage \in Early /\ \E c \in DOMAIN model.bones : BoneAt(N + 1, model.bones[c], nodes')
  BY <1>1, <1>4, <1>9 DEF Early
<1>17. model' = model
  BY <1>1
<1> QED
  BY <1>1, <1>5, <1>6, <1>10, <1>12, <1>13, <1>14, <1>15, <1>16, <1>17, StepGrown

(* A node that becomes a root: of a bone or of a mesh.                     *)
LEMMA StepRoot ==
  ASSUME IInv, model' = model, stage \in Complete, stage' = stage, stage # "load",
         NEW x, "name" \in DOMAIN x, "children" \in DOMAIN x, x.children = <<>>,
         nodes' = Append(nodes, x), roots' = Append(roots, Len(nodes) + 1), SkinsRight',
         stage \in Early =>
           \E b \in DOMAIN model.bones : BoneAt(Len(nodes) + 1, model.bones[b], nodes')
  PROVE  IInv'
<1> DEFINE N == Len(nodes)
<1>1. N \in Nat /\ DOMAIN nodes = 1 .. N /\ model \in Models /\ 0 \in 0 .. N
  BY Domains DEF IInv, Placed
<1>2. Shape(nodes') /\ Grown(nodes, nodes', 0, x.name)
  BY GrowPlain DEF IInv
<1>3. Shape(nodes) /\ Len(nodes') = N + 1
  BY <1>2 DEF IInv, Grown
<1>4. DOMAIN nodes' = DOMAIN nodes \cup {N + 1}
  BY <1>2, <1>3, GrownDomain
<1>5. /\ RootsRight' /\ RootIn(N + 1, roots')
      /\ \A i \in DOMAIN nodes : RootIn(i, roots') <=> RootIn(i, roots)
  BY <1>4, RootAdded
<1>6. Len(Linked) \in Nat /\ Len(Linked) <= N
  BY <1>1, LinkedFacts DEF IInv, Placed
<1>7. Placed'
  <2>1. Len(Linked) <= N + 1
    BY <1>1, <1>6
  <2> QED
    BY <1>3, <2>1, ModelFrame DEF IInv, Placed, Early, Complete
<1>8. ~FurtherRoot(N + 1)
  BY <1>1, <1>6 DEF FurtherRoot
<1> QED
  BY <1>1, <1>2, <1>5, <1>7, <1>8, StepGrown

LEMMA StepMissingRoot ==
  ASSUME IInv, MissingRoot
  PROVE  IInv'
<1> DEFINE N == Len(nodes)
           x == Node(joint.name)
           bone == joint
<1>1. /\ stage = "skins" /\ HasJoint /\ ParentNode = 0
      /\ nodes' = Append(nodes, x) /\ roots' = Append(roots, N + 1) /\ PushJoint(N + 1)
      /\ UNCHANGED <<model, stage, done>>
  BY DEF MissingRoot, HasJoint
<1>2. N \in Nat /\ DOMAIN nodes = 1 .. N /\ 0 \in 0 .. N /\ N + 1 \in Nat
  BY Domains DEF IInv
<1>3. "name" \in DOMAIN x /\ "children" \in DOMAIN x /\ x.children = <<>> /\ x.name = joint.name
  BY DEF Node
<1>4. PICK b \in DOMAIN model.bones : bone = model.bones[b]
  BY <1>1, JointFacts
<1>5. bone.parent # 0 => \A i \in DOMAIN nodes : nodes[i].name # ParentName(bone)
  BY <1>1, NameFound DEF ParentNode
<1> HIDE DEF x
<1>6. Shape(nodes') /\ Grown(nodes, nodes', 0, x.name)
  BY <1>1, <1>3, GrowPlain DEF IInv
<1>7. Shape(nodes) /\ Len(nodes') = N + 1
  BY <1>6 DEF IInv, Grown
<1>8. DOMAIN nodes' = DOMAIN nodes \cup {N + 1}
  BY <1>6, <1>7, GrownDomain
<1>9. BoneAt(N + 1, bone, nodes')
  <2>1. nodes'[N + 1].name = bone.name
    BY <1>3, <1>6 DEF Grown
  <2>2. ASSUME bone.parent # 0
        PROVE  Above(N + 1, bone, nodes') = {}
    <3>1. \A p \in 1 .. N + 1 - 1 : p \in DOMAIN nodes /\ nodes'[p].name = nodes[p].name
      BY <1>2, <1>6 DEF Grown
    <3> HIDE DEF bone
    <3> QED
      BY <1>5, <2>2, <3>1 DEF Above
  <2> HIDE DEF bone
  <2> QED
    BY <2>1, <2>2 DEF BoneAt
<1>10. SkinsRight'
  <2>1. model' = model
    BY <1>1
  <2>2. \A s \in DOMAIN skins : \A k \in DOMAIN skins[s] :
          /\ skins[s][k] \in DOMAIN nodes'
          /\ BoneAt(skins[s][k], model.bones[model.skins[s][k]], nodes')
    BY <1>2, <1>6, <2>1, JointsKept
  <2>3. N + 1 \in DOMAIN nodes'
    BY <1>8
  <2> QED
    BY <1>1, <1>2, <1>9, <2>1, <2>2, <2>3, Pushed
<1>11. \E c \in DOMAIN model.bones : BoneAt(N + 1, model.bones[c], nodes')
  BY <1>4, <1>9
<1>12. stage \in Complete /\ stage # "load" /\ stage' = stage /\ model' = model
  BY <1>1 DEF Complete
<1> QED
  BY <1>1, <1>3, <1>10, <1>11, <1>12, StepRoot

(* A mesh has a node of its own, a root.                                   *)
LEMMA StepMakeMesh ==
  ASSUME IInv, MakeMesh
  PROVE  IInv'
<1> DEFINE N == Len(nodes)
<1>1. PICK key \in Unmade :
        nodes' = Append(nodes, [name |-> key, children |-> <<>>, mesh |-> Len(meshes) + 1,
                                skin |-> IF skins = <<>> THEN None ELSE 1])
  BY DEF MakeMesh
<1> DEFINE x == [name |-> key, children |-> <<>>, mesh |-> Len(meshes) + 1,
                 skin |-> IF skins = <<>> THEN None ELSE 1]
<1>2. "name" \in DOMAIN x /\ "children" \in DOMAIN x /\ x.children = <<>>
  OBVIOUS
<1>3. /\ stage = "meshes" /\ nodes' = Append(nodes, x) /\ roots' = Append(roots, N + 1)
      /\ model' = model /\ stage' = stage /\ skins' = skins
  BY <1>1 DEF MakeMesh
<1>4. N \in Nat /\ 0 \in 0 .. N
  BY Domains DEF IInv
<1> HIDE DEF x
<1>5. Shape(nodes') /\ Grown(nodes, nodes', 0, x.name)
  BY <1>2, <1>3, GrowPlain DEF IInv
<1>6. SkinsRight'
  BY <1>3, <1>4, <1>5, SkinsFrame
<1>7. stage \in Complete /\ stage # "load" /\ stage \notin Early
  BY <1>3 DEF Complete, Early
<1> QED
  BY <1>2, <1>3, <1>6, <1>7, StepRoot

(* The scene gets the first bone of the skeleton before it has a node.     *)
LEMMA StepBeginSkeleton ==
  ASSUME IInv, BeginSkeleton
  PROVE  IInv'
<1>1. /\ stage = "open" /\ stage' = "skeleton" /\ done' = 0 /\ roots' = <<1>>
      /\ \E a \in Opened : a.kind = "skeleton"
      /\ UNCHANGED <<model, nodes, skins>>
  BY DEF BeginSkeleton, GoTo
<1>2. nodes = <<>> /\ skins = <<>> /\ model \in Models
  BY <1>1 DEF IInv, Placed
<1>3. Len(nodes) = 0 /\ DOMAIN nodes = {} /\ DOMAIN skins = {}
  BY <1>2
<1>4. Placed'
  <2>1. 0 <= Len(Linked)
    BY <1>2, LinkedFacts
  <2> QED
    BY <1>1, <1>2, <1>3, <2>1, ModelFrame DEF Placed, Early, Complete
<1>5. RootsRight'
  <2>1. roots' \in Seq({1}) /\ \A k \in DOMAIN roots' : roots'[k] = 1
    BY <1>1
  <2> QED
    BY <2>1 DEF RootsRight
<1>6. Shape(nodes)' /\ AddedRight' /\ SkinsRight'
  BY <1>1, <1>3, ModelFrame DEF IInv, Shape, AddedRight, SkinsRight
<1>7. TreeIn(nodes, roots)'
  BY <1>1, <1>3 DEF TreeIn, Children, OneParent, Reached
<1> QED
  BY <1>4, <1>5, <1>6, <1>7 DEF IInv

(* The steps that leave the nodes alone.                                   *)
LEMMA StepRefused ==
  ASSUME IInv, stage' = "refused", UNCHANGED <<model, nodes, roots, skins>>
  PROVE  IInv'
<1>1. Placed' /\ stage' \notin Early
  BY DEF IInv, Placed, Early, Complete
<1> QED
  BY <1>1, StepElsewhere

LEMMA StepLoad ==
  ASSUME IInv, NoSkeleton \/ EndSkeleton \/ LoadModel \/ EndSkins
  PROVE  IInv'
<1>1. /\ UNCHANGED <<model, nodes, roots, skins>>
      /\ stage \in Early /\ stage' \in {"load", "skins", "buffers"}
      /\ stage' = "load" => stage \in {"open", "skeleton"}
      /\ stage' # "load" => stage \in Complete
  BY DEF NoSkeleton, EndSkeleton, LoadModel, EndSkins, GoTo, Early, Complete
<1>2. Len(Linked) <= Len(nodes)
  <2>1. CASE NoSkeleton
    <3>1. Linked = <<>>
      BY <2>1 DEF NoSkeleton, Linked
    <3>2. Len(nodes) \in Nat
      BY Domains DEF IInv
    <3> QED
      BY <3>1, <3>2
  <2>2. CASE EndSkeleton
    <3>1. Len(Linked) \in Nat
      BY LinkedFacts DEF IInv, Placed
    <3> QED
      BY <2>2, <3>1 DEF EndSkeleton, IInv, Placed, Linked
  <2>3. CASE LoadModel \/ EndSkins
    BY <2>3 DEF LoadModel, EndSkins, IInv, Placed, Complete
  <2> QED
    BY <2>1, <2>2, <2>3
<1>3. Placed'
  BY <1>1, <1>2, ModelFrame DEF IInv, Placed, Early, Complete
<1> QED
  BY <1>1, <1>3, StepElsewhere

Meshing == {"buffers", "morphs", "prims", "weights", "meshes"}

LEMMA StepMeshing ==
  ASSUME IInv, stage \in Meshing, stage' \in Meshing \cup {"saved"},
         UNCHANGED <<model, nodes, roots, skins>>
  PROVE  IInv'
<1>1. Placed' /\ stage' \notin Early
  BY ModelFrame DEF IInv, Placed, Early, Complete, Meshing
<1> QED
  BY <1>1, StepElsewhere

LEMMA StepStill ==
  ASSUME IInv, UNCHANGED <<model, stage, done, nodes, roots, skins>>
  PROVE  IInv'
<1>1. Placed'
  BY ModelFrame DEF IInv, Placed
<1> QED
  BY <1>1, StepElsewhere

LEMMA StepNodes ==
  ASSUME IInv, MakeNodes
  PROVE  IInv'
<1>1. CASE RefuseVersion \/ RefuseArchive \/ RefuseOrder \/ RefuseModel
  <2>1. stage' = "refused" /\ UNCHANGED <<model, nodes, roots, skins>>
    BY <1>1 DEF RefuseVersion, RefuseArchive, RefuseOrder, RefuseModel, Refuse
  <2> QED
    BY <2>1, StepRefused
<1>2. CASE NoSkeleton \/ EndSkeleton \/ LoadModel \/ EndSkins
  BY <1>2, StepLoad
<1>3. CASE BeginSkeleton
  BY <1>3, StepBeginSkeleton
<1>4. CASE AddLink
  BY <1>4, StepAddLink
<1>5. CASE BeginSkin
  BY <1>5, StepBeginSkin
<1>6. CASE KnownJoint
  BY <1>6, StepKnownJoint
<1>7. CASE MissingBone
  BY <1>7, StepMissingBone
<1>8. CASE MissingRoot
  BY <1>8, StepMissingRoot
<1> QED
  BY <1>1, <1>2, <1>3, <1>4, <1>5, <1>6, <1>7, <1>8
  DEF MakeNodes, LoadSkeleton, ProcessSkins

LEMMA StepMeshes ==
  ASSUME IInv, ProcessMeshes \/ Save
  PROVE  IInv'
<1>1. CASE RefuseMorph \/ RefusePrim
  <2>1. stage' = "refused" /\ UNCHANGED <<model, nodes, roots, skins>>
    BY <1>1 DEF RefuseMorph, RefusePrim, RefuseMesh, Refuse
  <2> QED
    BY <2>1, StepRefused
<1>2. CASE DrawBuffers \/ EmptyMorph \/ SparseMorph \/ DrawPrim
  <2>1. /\ stage \in Meshing /\ stage' = stage
        /\ UNCHANGED <<model, nodes, roots, skins>>
    BY <1>2 DEF DrawBuffers, EmptyMorph, SparseMorph, HasMorph, DrawPrim, Meshing
  <2>2. stage' \in Meshing \cup {"saved"}
    BY <2>1
  <2> QED
    BY <2>1, <2>2, StepMeshing
<1>3. CASE EndBuffers \/ EndMorphs \/ EndPrims \/ EndWeights \/ Save
  <2>1. /\ stage \in Meshing /\ stage' \in Meshing \cup {"saved"}
        /\ UNCHANGED <<model, nodes, roots, skins>>
    BY <1>3 DEF EndBuffers, EndMorphs, EndPrims, EndWeights, Save, GoTo, Meshing
  <2> QED
    BY <2>1, StepMeshing
<1>4. CASE WriteWeights
  <2>1. UNCHANGED <<model, stage, done, nodes, roots, skins>>
    BY <1>4 DEF WriteWeights, nodeVars
  <2> QED
    BY <2>1, StepStill
<1>5. CASE MakeMesh
  BY <1>5, StepMakeMesh
<1> QED
  BY <1>1, <1>2, <1>3, <1>4, <1>5 DEF ProcessMeshes

LEMMA Initially ==
  ASSUME Init
  PROVE  IInv
<1>1. /\ model \in Models /\ stage = "open" /\ nodes = <<>> /\ roots = <<>> /\ skins = <<>>
  BY DEF Init, NodeInit
<1>2. DOMAIN nodes = {} /\ DOMAIN roots = {} /\ DOMAIN skins = {}
  BY <1>1
<1>3. /\ nodes \in Seq({}) /\ roots \in Seq({}) /\ skins \in Seq(Seq(Nat))
      /\ Len(skins) = 0
  BY <1>1
<1>4. Placed
  BY <1>1 DEF Placed, Early, Complete
<1>5. Shape(nodes) /\ RootsRight /\ TreeIn(nodes, roots) /\ AddedRight
  BY <1>2, <1>3 DEF Shape, RootsRight, TreeIn, Children, OneParent, Reached, AddedRight
<1>6. SkinsRight
  <2>1. model.skins \in Seq({model.skins[i] : i \in DOMAIN model.skins})
    BY <1>1, ModelAssumption DEF IsList
  <2>2. Len(model.skins) \in Nat
    BY <2>1, LenProperties
  <2>3. Len(skins) <= Len(model.skins)
    BY <1>3, <2>2
  <2> QED
    BY <1>2, <1>3, <2>3 DEF SkinsRight
<1> QED
  BY <1>4, <1>5, <1>6 DEF IInv

THEOREM Invariance == Spec => []IInv
<1>1. Init => IInv
  BY Initially
<1>2. ASSUME IInv, [Next]_vars
      PROVE  IInv'
  <2>1. CASE MakeNodes
    BY <1>2, <2>1, StepNodes
  <2>2. CASE ProcessMeshes \/ Save
    BY <1>2, <2>2, StepMeshes
  <2>3. CASE UNCHANGED vars
    <3>1. UNCHANGED <<model, stage, done, nodes, roots, skins>>
      BY <2>3 DEF vars, nodeVars
    <3> QED
      BY <1>2, <3>1, StepStill
  <2> QED
    BY <1>2, <2>1, <2>2, <2>3 DEF Next, AppProcessFile, Done
<1>3. IInv /\ [Next]_vars => IInv'
  BY <1>2
<1> QED
  BY <1>1, <1>3, PTL DEF Spec

(* Whatever the order of the bones and whichever of the two hierarchies a  *)
(* bone comes from, the nodes are a forest with every bone once, and the   *)
(* joints of the skins are the nodes of their bones (LoadSkeleton,         *)
(* ProcessSkins, and the nodes that ProcessMeshes adds).                   *)
THEOREM NodesAreRight == Spec => []NodesRight
<1>1. IInv => NodesRight
  <2> SUFFICES ASSUME IInv
               PROVE  NodesRight
    OBVIOUS
  <2>1. Tree
    BY DEF IInv, TreeIn, Children, OneParent, Reached, FurtherRoot, ChildIn, RootIn,
       Tree, ChildOf, InScene
  <2>2. Joints
    BY DEF IInv, SkinsRight, BoneAt, Above, ChildIn, Joints, ChildOf
  <2> QED
    BY <2>1, <2>2 DEF NodesRight
<1> QED
  BY Invariance, <1>1, PTL
(***************************************************************************)
(* The primitives, morph targets and weights of the document.              *)
(***************************************************************************)

LEMMA ListFacts ==
  ASSUME NEW s, IsList(s)
  PROVE  /\ s \in Seq({s[i] : i \in DOMAIN s})
         /\ Len(s) \in Nat /\ DOMAIN s = 1 .. Len(s)
<1>1. s \in Seq({s[i] : i \in DOMAIN s})
  BY DEF IsList
<1> QED
  BY <1>1, LenProperties

(* What FlattenSeq makes of its first lists.                               *)
IsFlat(ss, f, n) ==
  f = [i \in 1 .. n |-> IF i = 1 THEN ss[i] ELSE f[i - 1] \o ss[i]]

LEMMA FlatGoesOn ==
  ASSUME NEW ss, NEW n \in Nat, NEW f, IsFlat(ss, f, n)
  PROVE  \E g : IsFlat(ss, g, n + 1)
<1> DEFINE g == [i \in 1 .. n + 1 |-> IF i <= n THEN f[i]
                                      ELSE IF i = 1 THEN ss[i] ELSE f[i - 1] \o ss[i]]
<1>1. \A i \in 1 .. n : g[i] = f[i]
  OBVIOUS
<1>2. ASSUME NEW i \in 1 .. n + 1
      PROVE  g[i] = IF i = 1 THEN ss[i] ELSE g[i - 1] \o ss[i]
  <2>1. i # 1 => g[i - 1] = f[i - 1]
    <3>1. i # 1 => i - 1 \in 1 .. n
      OBVIOUS
    <3> QED
      BY <1>1, <3>1
  <2>2. CASE i \in 1 .. n
    <3>1. f[i] = IF i = 1 THEN ss[i] ELSE f[i - 1] \o ss[i]
      BY <2>2 DEF IsFlat
    <3> HIDE DEF g
    <3> QED
      BY <1>1, <2>1, <2>2, <3>1
  <2>3. CASE i \notin 1 .. n
    <3>1. ~(i <= n)
      BY <2>3
    <3>2. g[i] = IF i = 1 THEN ss[i] ELSE f[i - 1] \o ss[i]
      BY <3>1
    <3> HIDE DEF g
    <3> QED
      BY <2>1, <3>2
  <2> QED
    BY <2>2, <2>3
<1>3. g = [i \in 1 .. n + 1 |-> g[i]]
  OBVIOUS
<1>4. IsFlat(ss, g, n + 1)
  <2> HIDE DEF g
  <2> QED
    BY <1>2, <1>3 DEF IsFlat
<1> QED
  BY <1>4

LEMMA FlatExists ==
  ASSUME NEW ss, NEW n \in Nat
  PROVE  \E f : IsFlat(ss, f, n)
<1> DEFINE Lacks == {m \in Nat : ~ \E f : IsFlat(ss, f, m)}
<1>1. \E f : IsFlat(ss, f, 0)
  <2> DEFINE f == [i \in {} |-> i]
  <2>1. IsFlat(ss, f, 0)
    BY DEF IsFlat
  <2> QED
    BY <2>1
<1>2. Lacks = {}
  <2> SUFFICES ASSUME Lacks # {} PROVE FALSE
    OBVIOUS
  <2>1. Lacks \subseteq Nat
    OBVIOUS
  <2>2. PICK m \in Lacks : \A o \in Lacks : m <= o
    <3> HIDE DEF Lacks
    <3> QED
      BY <2>1, SmallestMember
  <2>3. m \in Nat /\ m # 0 /\ ~ \E f : IsFlat(ss, f, m)
    BY <1>1, <2>2
  <2>4. PICK k : k = m - 1
    OBVIOUS
  <2>5. k \in Nat /\ k + 1 = m /\ ~(m <= k)
    BY <2>3, <2>4
  <2>6. k \notin Lacks
    BY <2>2, <2>5
  <2>7. PICK f : IsFlat(ss, f, k)
    BY <2>5, <2>6
  <2>8. \E g : IsFlat(ss, g, k + 1)
    BY <2>5, <2>7, FlatGoesOn
  <2> QED
    BY <2>3, <2>5, <2>8
<1> QED
  BY <1>2

LEMMA FlatType ==
  ASSUME NEW T, NEW ss \in Seq(Seq(T)), NEW f, IsFlat(ss, f, Len(ss)), NEW n \in 1 .. Len(ss)
  PROVE  f[n] \in Seq(T)
<1> DEFINE Bad == {i \in 1 .. Len(ss) : f[i] \notin Seq(T)}
<1>1. \A i \in 1 .. Len(ss) : f[i] = IF i = 1 THEN ss[i] ELSE f[i - 1] \o ss[i]
  BY DEF IsFlat
<1>2. Bad = {}
  <2> SUFFICES ASSUME Bad # {} PROVE FALSE
    OBVIOUS
  <2>1. Bad \subseteq Nat
    OBVIOUS
  <2>2. PICK i \in Bad : \A o \in Bad : i <= o
    <3> HIDE DEF Bad
    <3> QED
      BY <2>1, SmallestMember
  <2>3. i \in 1 .. Len(ss) /\ f[i] \notin Seq(T)
    BY <2>2
  <2>4. ss[i] \in Seq(T)
    BY <2>3
  <2>5. i # 1
    BY <1>1, <2>3, <2>4
  <2>6. i - 1 \in 1 .. Len(ss) /\ ~(i <= i - 1)
    BY <2>3, <2>5
  <2>7. f[i - 1] \in Seq(T)
    BY <2>2, <2>6
  <2>8. f[i] = f[i - 1] \o ss[i]
    BY <1>1, <2>3, <2>5
  <2>9. f[i - 1] \o ss[i] \in Seq(T)
    BY <2>4, <2>7, ConcatProperties
  <2> QED
    BY <2>3, <2>8, <2>9
<1> QED
  BY <1>2

(* A list of lists becomes a list of their items.                          *)
LEMMA FlattenType ==
  ASSUME NEW T, NEW ss \in Seq(Seq(T))
  PROVE  FlattenSeq(ss) \in Seq(T)
<1>1. Len(ss) \in Nat
  OBVIOUS
<1>2. CASE Len(ss) = 0
  <2>1. ss = <<>>
    BY <1>2
  <2>2. FlattenSeq(ss) = ss
    BY <1>2 DEF FlattenSeq
  <2>3. <<>> \in Seq(T)
    OBVIOUS
  <2>4. FlattenSeq(ss) = <<>>
    BY <2>1, <2>2, Zenon
  <2> QED
    BY <2>3, <2>4, Zenon
<1>3. CASE Len(ss) # 0
  <2> DEFINE f == CHOOSE f : f = [i \in 1 .. Len(ss) |-> IF i = 1 THEN ss[i] ELSE f[i - 1] \o ss[i]]
  <2>1. FlattenSeq(ss) = f[Len(ss)]
    BY <1>3 DEF FlattenSeq
  <2>2. \E g : IsFlat(ss, g, Len(ss))
    BY <1>1, FlatExists
  <2>3. IsFlat(ss, f, Len(ss))
    BY <2>2, Zenon DEF IsFlat
  <2>4. Len(ss) \in 1 .. Len(ss)
    BY <1>1, <1>3
  <2> HIDE DEF f
  <2> QED
    BY <2>1, <2>3, <2>4, FlatType
<1> QED
  BY <1>2, <1>3

(* The vertices whose normals turn, so far.                                *)
TurnRule(m, f, i) ==
  IF i = 0 THEN <<>>
  ELSE IF m.at[i] \in m.turned THEN Append(f[i - 1], m.at[i]) ELSE f[i - 1]

IsTurning(m, f, n) == f = [i \in 0 .. n |-> TurnRule(m, f, i)]

LEMMA TurningGoesOn ==
  ASSUME NEW m, NEW n \in Nat, NEW f, IsTurning(m, f, n)
  PROVE  \E g : IsTurning(m, g, n + 1)
<1> DEFINE g == [i \in 0 .. n + 1 |-> IF i <= n THEN f[i] ELSE TurnRule(m, f, i)]
<1>1. \A i \in 0 .. n : g[i] = f[i]
  OBVIOUS
<1>2. ASSUME NEW i \in 0 .. n + 1
      PROVE  g[i] = TurnRule(m, g, i)
  <2>1. i # 0 => g[i - 1] = f[i - 1]
    <3>1. i # 0 => i - 1 \in 0 .. n
      OBVIOUS
    <3> QED
      BY <1>1, <3>1
  <2>2. TurnRule(m, g, i) = TurnRule(m, f, i)
    <3> HIDE DEF g
    <3> QED
      BY <2>1 DEF TurnRule
  <2>3. CASE i \in 0 .. n
    <3>1. f[i] = TurnRule(m, f, i)
      BY <2>3 DEF IsTurning
    <3> HIDE DEF g
    <3> QED
      BY <1>1, <2>2, <2>3, <3>1
  <2>4. CASE i \notin 0 .. n
    <3>1. ~(i <= n)
      BY <2>4
    <3>2. g[i] = TurnRule(m, f, i)
      BY <3>1
    <3> HIDE DEF g
    <3> QED
      BY <2>2, <3>2
  <2> QED
    BY <2>3, <2>4
<1>3. g = [i \in 0 .. n + 1 |-> g[i]]
  OBVIOUS
<1>4. IsTurning(m, g, n + 1)
  <2> HIDE DEF g
  <2> QED
    BY <1>2, <1>3 DEF IsTurning
<1> QED
  BY <1>4

LEMMA TurningExists ==
  ASSUME NEW m, NEW n \in Nat
  PROVE  \E f : IsTurning(m, f, n)
<1> DEFINE Lacks == {k \in Nat : ~ \E f : IsTurning(m, f, k)}
<1>1. \E f : IsTurning(m, f, 0)
  <2> DEFINE f == [i \in 0 .. 0 |-> <<>>]
  <2>1. f = [i \in 0 .. 0 |-> TurnRule(m, f, i)]
    BY DEF TurnRule
  <2> QED
    BY <2>1 DEF IsTurning
<1>2. Lacks = {}
  <2> SUFFICES ASSUME Lacks # {} PROVE FALSE
    OBVIOUS
  <2>1. Lacks \subseteq Nat
    OBVIOUS
  <2>2. PICK k \in Lacks : \A o \in Lacks : k <= o
    <3> HIDE DEF Lacks
    <3> QED
      BY <2>1, SmallestMember
  <2>3. k \in Nat /\ k # 0 /\ ~ \E f : IsTurning(m, f, k)
    BY <1>1, <2>2
  <2>4. PICK j : j = k - 1
    OBVIOUS
  <2>5. j \in Nat /\ j + 1 = k /\ ~(k <= j)
    BY <2>3, <2>4
  <2>6. j \notin Lacks
    BY <2>2, <2>5
  <2>7. PICK f : IsTurning(m, f, j)
    BY <2>5, <2>6
  <2>8. \E g : IsTurning(m, g, j + 1)
    BY <2>5, <2>7, TurningGoesOn
  <2> QED
    BY <2>3, <2>5, <2>8
<1> QED
  BY <1>2

(* Of the first i vertices as many turn as there are only if all of them   *)
(* do.                                                                     *)
TurnedSome(m, T, f, i) ==
  /\ f[i] \in Seq(T) /\ Len(f[i]) <= i
  /\ Len(f[i]) = i => \A k \in 1 .. i : f[i][k] = m.at[k]

LEMMA TurnedNext ==
  ASSUME NEW T, NEW m, m.at \in Seq(T), NEW f, IsTurning(m, f, Len(m.at)),
         NEW i \in 1 .. Len(m.at), TurnedSome(m, T, f, i - 1)
  PROVE  TurnedSome(m, T, f, i)
<1>1. PICK before : before = f[i - 1]
  OBVIOUS
<1>2. PICK x : x = m.at[i]
  OBVIOUS
<1>3. PICK j : j = i - 1
  OBVIOUS
<1>4. j \in Nat /\ j + 1 = i
  BY <1>3
<1>5. /\ before \in Seq(T) /\ Len(before) <= j
      /\ Len(before) = j => \A k \in 1 .. j : before[k] = m.at[k]
  BY <1>1, <1>3 DEF TurnedSome
<1>6. x \in T
  BY <1>2
<1>7. f[i] = IF x \in m.turned THEN Append(before, x) ELSE before
  <2>1. i \in 0 .. Len(m.at) /\ i # 0
    OBVIOUS
  <2>2. f[i] = TurnRule(m, f, i)
    BY <2>1 DEF IsTurning
  <2> QED
    BY <1>1, <1>2, <2>1, <2>2 DEF TurnRule
<1>8. CASE x \in m.turned
  <2>1. f[i] = Append(before, x)
    BY <1>7, <1>8
  <2>2. /\ Append(before, x) \in Seq(T)
        /\ Len(Append(before, x)) = Len(before) + 1
        /\ \A k \in 1 .. Len(before) : Append(before, x)[k] = before[k]
        /\ Append(before, x)[Len(before) + 1] = x
    BY <1>5, <1>6, AppendProperties
  <2>3. Len(before) \in Nat
    BY <1>5
  <2>4. ASSUME Len(Append(before, x)) = i, NEW k \in 1 .. i
        PROVE  Append(before, x)[k] = m.at[k]
    <3>1. Len(before) = j
      BY <1>4, <2>2, <2>3, <2>4
    <3>2. CASE k = i
      BY <1>2, <1>4, <2>2, <3>1, <3>2
    <3>3. CASE k # i
      <4>1. k \in 1 .. j
        BY <1>4, <3>3
      <4> QED
        BY <1>5, <2>2, <3>1, <4>1
    <3> QED
      BY <3>2, <3>3
  <2>5. Len(Append(before, x)) <= i
    BY <1>4, <1>5, <2>2, <2>3
  <2> QED
    BY <2>1, <2>2, <2>4, <2>5 DEF TurnedSome
<1>9. CASE x \notin m.turned
  <2>1. f[i] = before /\ Len(before) \in Nat
    BY <1>5, <1>7, <1>9
  <2>2. Len(before) <= i /\ Len(before) # i
    BY <1>4, <1>5, <2>1
  <2> QED
    BY <1>5, <2>1, <2>2 DEF TurnedSome
<1> QED
  BY <1>8, <1>9

(* The turned vertices of a morph are a part of those that it moves, and   *)
(* all of them if they are as many.                                        *)
LEMMA TurnedFacts ==
  ASSUME NEW m, IsList(m.at)
  PROVE  /\ Len(Turned(m)) \in Nat
         /\ Turned(m) = <<>> <=> Len(Turned(m)) = 0
         /\ Len(Turned(m)) = Len(m.at) => Turned(m) = m.at
<1>1. PICK T : m.at \in Seq(T)
  BY DEF IsList
<1>2. PICK n : n = Len(m.at)
  OBVIOUS
<1>3. n \in Nat
  BY <1>1, <1>2
<1>4. PICK f : IsTurning(m, f, n) /\ Turned(m) = f[n]
  <2> DEFINE f == CHOOSE f : f = [i \in 0 .. Len(m.at) |->
                     IF i = 0 THEN <<>>
                     ELSE IF m.at[i] \in m.turned THEN Append(f[i - 1], m.at[i]) ELSE f[i - 1]]
  <2>1. Turned(m) = f[Len(m.at)]
    BY DEF Turned
  <2>2. \E g : IsTurning(m, g, Len(m.at))
    BY <1>2, <1>3, TurningExists
  <2>3. IsTurning(m, f, Len(m.at))
    BY <2>2, Zenon DEF IsTurning, TurnRule
  <2> HIDE DEF f
  <2> QED
    BY <1>2, <2>1, <2>3
<1> DEFINE Bad == {i \in 0 .. n : ~TurnedSome(m, T, f, i)}
<1>5. Bad = {}
  <2> SUFFICES ASSUME Bad # {} PROVE FALSE
    OBVIOUS
  <2>1. Bad \subseteq Nat
    OBVIOUS
  <2>2. PICK i \in Bad : \A o \in Bad : i <= o
    <3> HIDE DEF Bad
    <3> QED
      BY <2>1, SmallestMember
  <2>3. i \in 0 .. n /\ ~TurnedSome(m, T, f, i)
    BY <2>2
  <2>4. CASE i = 0
    <3>1. 0 \in 0 .. n
      BY <1>3
    <3>2. f[0] = <<>>
      BY <1>4, <3>1 DEF IsTurning, TurnRule
    <3>3. <<>> \in Seq(T) /\ Len(<<>>) = 0
      OBVIOUS
    <3> QED
      BY <2>3, <2>4, <3>2, <3>3 DEF TurnedSome
  <2>5. CASE i # 0
    <3>1. i - 1 \in 0 .. n /\ ~(i <= i - 1) /\ i \in 1 .. Len(m.at)
      BY <1>2, <2>3, <2>5
    <3>2. i - 1 \notin Bad
      BY <2>2, <3>1
    <3>3. TurnedSome(m, T, f, i - 1)
      BY <3>1, <3>2
    <3> QED
      BY <1>1, <1>2, <1>4, <2>3, <3>1, <3>3, TurnedNext
  <2> QED
    BY <2>4, <2>5
<1>6. n \in 0 .. n
  BY <1>3
<1>7. TurnedSome(m, T, f, n)
  BY <1>5, <1>6
<1>8. PICK t : t = Turned(m)
  OBVIOUS
<1>9. t \in Seq(T) /\ Len(t) \in Nat /\ (Len(t) = n => \A k \in 1 .. n : t[k] = m.at[k])
  BY <1>4, <1>7, <1>8 DEF TurnedSome
<1>10. Len(t) = n => t = m.at
  BY <1>1, <1>2, <1>9, SeqEqual
<1>11. t = <<>> <=> Len(t) = 0
  BY <1>9
<1> QED
  BY <1>2, <1>8, <1>9, <1>10, <1>11

LEMMA LargestMember ==
  ASSUME NEW n \in Nat, NEW S, S \subseteq 0 .. n, S # {}
  PROVE  \E x \in S : \A y \in S : y <= x
<1> DEFINE R == {k \in 0 .. n : n - k \in S}
<1>1. PICK y \in S : TRUE
  OBVIOUS
<1>2. y \in 0 .. n /\ n - y \in 0 .. n /\ n - (n - y) = y
  <2>1. y \in 0 .. n
    BY <1>1
  <2> QED
    BY <2>1
<1>3. R \subseteq Nat /\ R # {}
  <2>1. n - y \in R
    BY <1>1, <1>2
  <2>2. R \subseteq Nat
    OBVIOUS
  <2> HIDE DEF R
  <2> QED
    BY <2>1, <2>2
<1>4. PICK k \in R : \A o \in R : k <= o
  <2> HIDE DEF R
  <2> QED
    BY <1>3, SmallestMember
<1>5. k \in 0 .. n /\ n - k \in S
  BY <1>4
<1>6. ASSUME NEW z \in S PROVE z <= n - k
  <2>1. z \in 0 .. n
    BY <1>6
  <2>2. n - z \in 0 .. n /\ n - (n - z) = z
    BY <2>1
  <2>3. n - z \in R
    BY <1>6, <2>2
  <2>4. k <= n - z
    BY <1>4, <2>3
  <2> QED
    BY <1>5, <2>1, <2>4
<1> QED
  BY <1>5, <1>6

(* What a model is made of.                                                *)
LEMMA ModelLists ==
  ASSUME model \in Models
  PROVE  /\ Len(model.prims) \in Nat /\ DOMAIN model.prims = 1 .. Len(model.prims)
         /\ model.names \in Nat
         /\ DOMAIN model.vertices \subseteq Nat
         /\ \A i \in DOMAIN model.prims : model.prims[i].vertex \in DOMAIN model.vertices
<1>1. IsList(model.prims) /\ IsList(model.vertices)
  BY MeshAssumption
<1>2. DOMAIN model.vertices \subseteq Nat
  <2>1. DOMAIN model.vertices = 1 .. Len(model.vertices) /\ Len(model.vertices) \in Nat
    BY <1>1, ListFacts
  <2> QED
    BY <2>1
<1>3. Len(model.prims) \in Nat /\ DOMAIN model.prims = 1 .. Len(model.prims)
  BY <1>1, ListFacts
<1> QED
  BY <1>2, <1>3, MeshAssumption

(* The attributes of a vertex buffer, of which each has a last descriptor. *)
LEMMA KeysFacts ==
  ASSUME model \in Models, NEW v \in DOMAIN model.vertices
  PROVE  /\ Len(Keys(v)) \in Nat /\ DOMAIN Keys(v) = 1 .. Len(Keys(v))
         /\ "JOINTS_0" \notin ToSet(Keys(v)) /\ "WEIGHTS_0" \notin ToSet(Keys(v))
         /\ \A k \in ToSet(Keys(v)) : LastDescriptor(v, k) \in DOMAIN Keys(v)
<1> DEFINE own == model.vertices[v].keys
           T == ToSet(own) \cup {"POSITION", "NORMAL"}
           ss == [d \in DOMAIN model.morphs |->
                   IF model.morphs[d].target = v THEN <<"POSITION", "NORMAL">> ELSE <<>>]
<1>1. IsList(own) /\ ToSet(own) \cap {"JOINTS_0", "WEIGHTS_0"} = {} /\ IsList(model.morphs)
  BY MeshAssumption
<1>2. own \in Seq(T)
  <2>1. own \in Seq({own[i] : i \in DOMAIN own})
    BY <1>1 DEF IsList
  <2>2. {own[i] : i \in DOMAIN own} \subseteq T
    BY DEF ToSet
  <2> HIDE DEF own, T
  <2> QED
    BY <2>1, <2>2, SeqMonotonic
<1>3. ss \in Seq(Seq(T))
  <2>1. <<"POSITION", "NORMAL">> \in Seq(T) /\ <<>> \in Seq(T)
    OBVIOUS
  <2>2. PICK n : n = Len(model.morphs)
    OBVIOUS
  <2>3. n \in Nat /\ DOMAIN model.morphs = 1 .. n
    BY <1>1, <2>2, ListFacts
  <2>4. \A d \in 1 .. n : ss[d] \in Seq(T)
    <3> HIDE DEF T
    <3> QED
      BY <2>1, <2>3
  <2>5. DOMAIN ss = 1 .. n /\ ss = [d \in 1 .. n |-> ss[d]]
    BY <2>3
  <2> HIDE DEF ss, T
  <2>6. ss \in [1 .. n -> Seq(T)]
    BY <2>4, <2>5
  <2> QED
    BY <2>3, <2>6
<1>4. PICK ks : ks = Keys(v)
  OBVIOUS
<1>5. ks \in Seq(T)
  <2>1. FlattenSeq(ss) \in Seq(T)
    <3> HIDE DEF ss, T
    <3> QED
      BY <1>3, FlattenType
  <2>2. PICK flat : flat = FlattenSeq(ss)
    OBVIOUS
  <2>3. ks = own \o flat
    BY <1>4, <2>2 DEF Keys
  <2> HIDE DEF ss, T, own
  <2> QED
    BY <1>2, <2>1, <2>2, <2>3, ConcatProperties
<1>6. Len(ks) \in Nat /\ DOMAIN ks = 1 .. Len(ks) /\ \A i \in DOMAIN ks : ks[i] \in T
  <2> HIDE DEF T
  <2> QED
    BY <1>5
<1>7. ToSet(ks) \subseteq T
  <2> HIDE DEF T
  <2> QED
    BY <1>6 DEF ToSet
<1>8. "JOINTS_0" \notin T /\ "WEIGHTS_0" \notin T
  <2> HIDE DEF own
  <2> QED
    BY <1>1
<1> HIDE DEF T, ss, own
<1>9. ASSUME NEW k \in ToSet(ks) PROVE LastDescriptor(v, k) \in DOMAIN ks
  <2> DEFINE S == {d \in DOMAIN ks : ks[d] = k}
  <2>1. S \subseteq 0 .. Len(ks) /\ S # {}
    BY <1>6 DEF ToSet
  <2>2. PICK d \in S : \A o \in S : o <= d
    <3> HIDE DEF S
    <3> QED
      BY <1>6, <2>1, LargestMember
  <2>3. d \in DOMAIN ks /\ ks[d] = k
    BY <2>2
  <2>4. ASSUME NEW e \in d + 1 .. Len(ks) PROVE ks[e] # k
    <3>1. e \in DOMAIN ks /\ ~(e <= d)
      BY <1>6, <2>3
    <3> QED
      BY <2>2, <3>1
  <2>5. \E c \in DOMAIN ks : ks[c] = k /\ \A e \in c + 1 .. Len(ks) : ks[e] # k
    BY <2>3, <2>4
  <2> HIDE DEF S
  <2> QED
    BY <1>4, <2>5 DEF LastDescriptor
<1> QED
  BY <1>4, <1>6, <1>7, <1>8, <1>9

(* The morphs of a model in a list of their own.                           *)
LEMMA MorphFacts ==
  ASSUME model \in Models
  PROVE  /\ Len(Morphs) \in Nat /\ DOMAIN Morphs = 1 .. Len(Morphs)
         /\ \A k \in DOMAIN Morphs : IsList(Morphs[k].at)
<1> DEFINE ss == [d \in DOMAIN model.morphs |->
                   [k \in DOMAIN model.morphs[d].ids |->
                     [target |-> model.morphs[d].target,
                      id     |-> model.morphs[d].ids[k],
                      at     |-> model.morphs[d].shapes[k].at,
                      turned |-> model.morphs[d].shapes[k].turned]]]
           T == UNION {{ss[d][k] : k \in DOMAIN ss[d]} : d \in DOMAIN ss}
<1>1. /\ IsList(model.morphs)
      /\ \A d \in DOMAIN model.morphs :
           /\ IsList(model.morphs[d].ids)
           /\ \A k \in DOMAIN model.morphs[d].ids : IsList(model.morphs[d].shapes[k].at)
  BY MeshAssumption
<1>2. PICK n : n = Len(model.morphs) /\ n \in Nat /\ DOMAIN model.morphs = 1 .. n
  BY <1>1, ListFacts
<1>3. DOMAIN ss = 1 .. n /\ ss = [d \in 1 .. n |-> ss[d]]
  BY <1>2
<1>4. ASSUME NEW d \in 1 .. n PROVE ss[d] \in Seq(T)
  <2>1. PICK l : l = Len(model.morphs[d].ids) /\ l \in Nat /\ DOMAIN model.morphs[d].ids = 1 .. l
    BY <1>1, <1>2, ListFacts
  <2>2. PICK s : s = ss[d]
    OBVIOUS
  <2>3. DOMAIN s = 1 .. l /\ s = [k \in 1 .. l |-> s[k]]
    BY <1>2, <2>1, <2>2, Zenon
  <2>4. ASSUME NEW k \in 1 .. l PROVE s[k] \in T
    <3> HIDE DEF ss
    <3>1. s[k] \in {ss[d][j] : j \in DOMAIN ss[d]} /\ d \in DOMAIN ss
      BY <1>3, <2>2, <2>3
    <3> QED
      BY <3>1
  <2> HIDE DEF ss, T
  <2>5. s \in [1 .. l -> T]
    BY <2>3, <2>4
  <2> QED
    BY <2>1, <2>2, <2>5
<1>5. ss \in Seq(Seq(T))
  <2> HIDE DEF ss, T
  <2>1. ss \in [1 .. n -> Seq(T)]
    BY <1>3, <1>4
  <2> QED
    BY <1>2, <2>1
<1>6. PICK ms : ms = Morphs
  OBVIOUS
<1>7. ms \in Seq(T)
  <2>1. ms = FlattenSeq(ss)
    BY <1>6 DEF Morphs
  <2> HIDE DEF ss, T
  <2> QED
    BY <1>5, <2>1, FlattenType
<1>8. \A x \in T : IsList(x.at)
  <2> SUFFICES ASSUME NEW x \in T PROVE IsList(x.at)
    BY Zenon
  <2>1. PICK d \in DOMAIN ss : x \in {ss[d][k] : k \in DOMAIN ss[d]}
    <3> HIDE DEF ss
    <3> QED
      OBVIOUS
  <2>2. PICK k \in DOMAIN ss[d] : x = ss[d][k]
    BY <2>1, ZenonT(40)
  <2>3. d \in DOMAIN model.morphs /\ k \in DOMAIN model.morphs[d].ids
    BY <2>1, <2>2, Zenon
  <2>4. x.at = model.morphs[d].shapes[k].at
    BY <2>2, <2>3, Zenon
  <2> QED
    BY <1>1, <2>3, <2>4
<1>9. Len(ms) \in Nat /\ DOMAIN ms = 1 .. Len(ms) /\ \A k \in DOMAIN ms : ms[k] \in T
  <2> HIDE DEF ss, T
  <2> QED
    BY <1>7
<1> HIDE DEF ss, T
<1> QED
  BY <1>6, <1>8, <1>9

(* The palette a primitive gets.                                           *)
LEMMA SamplerFacts ==
  ASSUME model \in Models, HasWeights, NEW p, p.lod \in Nat, Level(p) < model.lods
  PROVE  Sampler(p).offset \in Nat
<1> DEFINE slots == {s \in 0 .. 15 : PalettesAt(Level(p), s) # {}}
           slot == IF Slot(p) \in slots THEN Slot(p)
                     ELSE CHOOSE s \in slots : \A o \in slots : s <= o
           found == PalettesAt(Level(p), slot)
<1>1. /\ IsList(model.palettes) /\ model.lods \in Nat
      /\ \A k \in DOMAIN model.palettes : model.palettes[k].offset \in Nat
      /\ \A l \in 0 .. model.lods - 1 : \E k \in DOMAIN model.palettes :
           model.palettes[k].lod = l /\ model.palettes[k].slot \in 0 .. 15
  BY MeshAssumption DEF HasWeights
<1>2. Level(p) \in 0 .. model.lods - 1
  BY <1>1 DEF Level
<1>3. slots \subseteq Nat /\ slots # {}
  <2>1. PICK k \in DOMAIN model.palettes :
          model.palettes[k].lod = Level(p) /\ model.palettes[k].slot \in 0 .. 15
    BY <1>1, <1>2
  <2>2. model.palettes[k].slot \in slots
    BY <2>1 DEF PalettesAt
  <2>3. slots \subseteq Nat
    OBVIOUS
  <2> HIDE DEF slots
  <2> QED
    BY <2>2, <2>3
<1>4. slot \in slots
  <2>1. \E s \in slots : \A o \in slots : s <= o
    <3> HIDE DEF slots
    <3> QED
      BY <1>3, SmallestMember
  <2> HIDE DEF slots
  <2> QED
    BY <2>1
<1>5. found # {} /\ found \subseteq DOMAIN model.palettes
  <2>1. found # {}
    <3> HIDE DEF slot
    <3> QED
      BY <1>4
  <2> QED
    BY <2>1 DEF PalettesAt
<1>6. Sampler(p) = model.palettes[CHOOSE k \in found : \A o \in found : o <= k]
  BY DEF Sampler
<1> HIDE DEF found
<1>7. \E k \in found : \A o \in found : o <= k
  <2>1. PICK n : n = Len(model.palettes) /\ n \in Nat /\ DOMAIN model.palettes = 1 .. n
    BY <1>1, ListFacts
  <2>2. found \subseteq 0 .. n
    BY <1>5, <2>1
  <2> QED
    BY <1>5, <2>1, <2>2, LargestMember
<1>8. PICK k : k = CHOOSE c \in found : \A o \in found : o <= c
  OBVIOUS
<1>9. k \in DOMAIN model.palettes
  BY <1>5, <1>7, <1>8
<1> QED
  BY <1>1, <1>6, <1>8, <1>9

(* A primitive covers what lies between two vertices that it uses.         *)
LEMMA CoveredBetween ==
  ASSUME NEW p
  PROVE  /\ \A m \in Covered(p) : \E low \in Used(p) : \E high \in Used(p) : m \in low .. high
         /\ \A low, high \in Used(p) : \A m \in low .. high : m \in Covered(p)
<1>1. PICK U : U = Used(p)
  OBVIOUS
<1> DEFINE C == {low .. high : low, high \in U}
<1>2. Covered(p) = UNION C
  BY <1>1 DEF Covered
<1>3. \A x \in C : \E low \in U : \E high \in U : x = low .. high
  OBVIOUS
<1>4. \A low, high \in U : low .. high \in C
  OBVIOUS
<1> HIDE DEF C
<1> QED
  BY <1>1, <1>2, <1>3, <1>4, ZenonT(40)

(* The row of a vertex that a primitive covers is there.                   *)
LEMMA RowFacts ==
  ASSUME model \in Models, HasWeights, NEW i \in DOMAIN model.prims,
         ~Unweighable(model.prims[i]), NEW m \in Covered(model.prims[i])
  PROVE  /\ Row(model.prims[i], m) \in Nat
         /\ m \in Nat /\ m + 1 \in 1 .. model.vertices[model.prims[i].vertex].count
<1>0. PICK p : p = model.prims[i]
  OBVIOUS
<1>1. /\ p.vertex \in DOMAIN model.vertices
      /\ Used(p) \subseteq Nat
      /\ Ids(p) \in Seq(Nat)
      /\ Len(Ids(p)) <= model.vertices[p.vertex].count
      /\ model.vertices[p.vertex].count \in Nat
      /\ p.lod \in Nat /\ model.lods \in Nat
  BY <1>0, MeshAssumption DEF Used, Ids
<1>2. Len(Ids(p)) \in Nat
  BY <1>1
<1>3. Level(p) < model.lods
  <2>1. Level(p) \in Nat
    BY <1>1 DEF Level
  <2> QED
    BY <1>0, <1>1, <2>1 DEF Unweighable
<1>4. PICK low \in Used(p) : \E top \in Used(p) : m \in low .. top
  BY <1>0, CoveredBetween
<1>5. PICK high \in Used(p) : m \in low .. high
  BY <1>4
<1>6. low \in Nat /\ high \in Nat /\ ~(high >= Len(Ids(p)))
  BY <1>0, <1>1, <1>4, <1>5 DEF Unweighable
<1>7. m \in Nat /\ m + 1 \in 1 .. Len(Ids(p)) /\ m + 1 \in 1 .. model.vertices[p.vertex].count
  BY <1>1, <1>2, <1>5, <1>6
<1>8. PICK a : a = Ids(p)[m + 1]
  OBVIOUS
<1>9. PICK b : b = Sampler(p).offset
  OBVIOUS
<1>10. a \in Nat /\ b \in Nat
  BY <1>1, <1>3, <1>7, <1>8, <1>9, SamplerFacts
<1>11. (a + b) % RowRange \in Nat
  <2>1. PICK r : r = RowRange /\ r \in Nat \ {0}
    BY MeshAssumption
  <2>2. PICK n \in Nat : n = a + b
    BY <1>10
  <2>3. n % r \in Nat
    BY <2>1
  <2> QED
    BY <2>1, <2>2, <2>3
<1> QED
  BY <1>0, <1>7, <1>8, <1>9, <1>11 DEF Row

(* A list of accessors that only grew.                                     *)
Longer(acc, new) ==
  /\ \E T : new \in Seq(T)
  /\ \A k \in DOMAIN acc : k \in DOMAIN new /\ new[k] = acc[k]

(* A list of accessors with some more at its end.                          *)
Joined(acc, more, new) ==
  /\ Longer(acc, new)
  /\ Len(acc) \in Nat /\ Len(more) \in Nat
  /\ Len(new) = Len(acc) + Len(more)
  /\ \A i : i \in DOMAIN new <=> i \in 1 .. Len(acc) + Len(more)
  /\ \A i \in 1 .. Len(more) : new[Len(acc) + i] = more[i]

LEMMA LongerConcat ==
  ASSUME NEW S, NEW T, NEW acc \in Seq(S), NEW more \in Seq(T),
         NEW new, new = acc \o more
  PROVE  Joined(acc, more, new)
<1>1. acc \in Seq(S \cup T) /\ more \in Seq(S \cup T)
  BY SeqMonotonic
<1>3. /\ new \in Seq(S \cup T)
      /\ Len(new) = Len(acc) + Len(more)
      /\ \A i \in 1 .. Len(acc) + Len(more) :
           new[i] = IF i <= Len(acc) THEN acc[i] ELSE more[i - Len(acc)]
  BY <1>1, ConcatProperties
<1>4. /\ Len(acc) \in Nat /\ DOMAIN acc = 1 .. Len(acc)
      /\ Len(more) \in Nat
      /\ DOMAIN new = 1 .. Len(acc) + Len(more)
  BY <1>1, <1>3, LenProperties
<1>5. \A k \in DOMAIN acc : k \in DOMAIN new /\ new[k] = acc[k]
  BY <1>3, <1>4
<1>6. ASSUME NEW i \in 1 .. Len(more) PROVE new[Len(acc) + i] = more[i]
  <2>1. PICK k : k = Len(acc) + i
    OBVIOUS
  <2>2. k \in 1 .. Len(acc) + Len(more) /\ ~(k <= Len(acc)) /\ k - Len(acc) = i
    BY <1>4, <2>1
  <2>3. new[k] = more[k - Len(acc)]
    BY <1>3, <2>2
  <2> QED
    BY <2>1, <2>2, <2>3
<1> QED
  BY <1>3, <1>4, <1>5, <1>6 DEF Longer, Joined

LEMMA LongerSame ==
  ASSUME NEW T, NEW acc \in Seq(T)
  PROVE  Longer(acc, acc)
BY DEF Longer

(* An entry of a map that is replaced or added.                            *)
LEMMA WithFacts ==
  ASSUME NEW f, NEW k, NEW v, NEW g, g = With(f, k, v)
  PROVE  /\ \A i : i \in DOMAIN g <=> i \in DOMAIN f \/ i = k
         /\ g[k] = v
         /\ \A i \in DOMAIN f : i # k => g[i] = f[i]
         /\ g = [i \in DOMAIN g |-> g[i]]
BY DEF With

(* What depends on the model alone.                                        *)
LEMMA ListsKept ==
  ASSUME model' = model
  PROVE  /\ Morphs' = Morphs /\ HasWeights' = HasWeights
         /\ \A v : Keys(v)' = Keys(v)
BY DEF Morphs, HasWeights, Keys

-----------------------------------------------------------------------------
LastIn(ks, k) ==
  CHOOSE d \in DOMAIN ks : ks[d] = k /\ \A e \in d + 1 .. Len(ks) : ks[e] # k

IndexAt(acc, k, i) ==
  i \in DOMAIN acc /\ acc[i] = [holds |-> "indices", of |-> k]

(* What is known of vertex buffer v, with these attributes, is right.      *)
BufferIn(acc, v, ks, b) ==
  /\ DOMAIN b = {"attrs", "morphs", "rows"}
  /\ DOMAIN b.attrs = ToSet(ks)
  /\ \A k \in ToSet(ks) :
       /\ b.attrs[k] \in DOMAIN acc
       /\ acc[b.attrs[k]] = [holds |-> "attribute", of |-> v, desc |-> LastIn(ks, k)]

(* The sparse stream has everything before its end.                        *)
SparseIn(s) ==
  /\ s.size \in Nat
  /\ \A k \in DOMAIN s.at : k \in Nat /\ k < s.size

BuffersIn(acc, bs) ==
  /\ bs = [v \in DOMAIN bs |-> bs[v]]
  /\ \A v \in DOMAIN bs : v \in DOMAIN model.vertices /\ BufferIn(acc, v, Keys(v), bs[v])

Late == {"buffers", "morphs", "prims", "weights", "meshes", "saved"}

(* How many primitives have their buffers drawn.                           *)
PrimsDrawn == IF stage = "buffers" THEN done ELSE Len(model.prims)

AccessRight ==
  /\ done \in Nat
  /\ \E T : accessors \in Seq(T)
  /\ \A k \in DOMAIN drawn : IndexAt(accessors, k, drawn[k])
  /\ BuffersIn(accessors, buffers)
  /\ SparseIn(sparse)
  /\ \A i \in 1 .. PrimsDrawn :
       model.prims[i].index \in DOMAIN drawn /\ model.prims[i].vertex \in DOMAIN buffers

LEMMA BufferKept ==
  ASSUME NEW acc, NEW new, Longer(acc, new), NEW v, NEW ks, NEW b, NEW c,
         BufferIn(acc, v, ks, b), DOMAIN c = DOMAIN b, c.attrs = b.attrs
  PROVE  BufferIn(new, v, ks, c)
BY DEF Longer, BufferIn

(* New accessors, and what is known of the buffers as before but for their *)
(* morphs and their rows.                                                  *)
LEMMA AccessKept ==
  ASSUME AccessRight, model' = model, drawn' = drawn,
         Longer(accessors, accessors'), SparseIn(sparse'), done' \in Nat,
         \A i \in 1 .. PrimsDrawn' : i \in 1 .. PrimsDrawn,
         buffers' = [v \in DOMAIN buffers' |-> buffers'[v]],
         DOMAIN buffers' = DOMAIN buffers,
         \A v \in DOMAIN buffers :
           DOMAIN buffers'[v] = DOMAIN buffers[v] /\ buffers'[v].attrs = buffers[v].attrs
  PROVE  AccessRight'
<1>1. \A k \in DOMAIN drawn' : IndexAt(accessors', k, drawn'[k])
  BY Zenon DEF AccessRight, IndexAt, Longer
<1>2. ASSUME NEW v \in DOMAIN buffers'
      PROVE  v \in DOMAIN model'.vertices /\ BufferIn(accessors', v, Keys(v)', buffers'[v])
  <2>1. v \in DOMAIN model.vertices /\ BufferIn(accessors, v, Keys(v), buffers[v])
    BY <1>2 DEF AccessRight, BuffersIn
  <2>2. Keys(v)' = Keys(v)
    BY ListsKept
  <2> QED
    BY <2>1, <2>2, BufferKept
<1>3. BuffersIn(accessors, buffers)'
  BY <1>2 DEF BuffersIn
<1>4. \E T : accessors' \in Seq(T)
  BY DEF Longer
<1> QED
  BY <1>1, <1>3, <1>4 DEF AccessRight

(* DrawBuffers: the accessors of a buffer are made when a primitive first  *)
(* names it.                                                               *)
LEMMA StepDrawBuffers ==
  ASSUME model \in Models, AccessRight, DrawBuffers
  PROVE  /\ AccessRight' /\ Longer(accessors, accessors')
         /\ \A v \in DOMAIN buffers : v \in DOMAIN buffers' /\ buffers'[v] = buffers[v]
         /\ \A v \in DOMAIN buffers' \ DOMAIN buffers :
              buffers'[v].morphs = <<>> /\ buffers'[v].rows = <<>>
<1>1. /\ stage = "buffers" /\ stage' = "buffers" /\ model' = model
      /\ done' = done + 1 /\ sparse' = sparse /\ done < Len(model.prims)
  BY DEF DrawBuffers, HasPrim
<1>2. done \in Nat /\ done + 1 \in DOMAIN model.prims
  BY <1>1, ModelLists DEF AccessRight
<1>3. PICK v : v = prim.vertex
  OBVIOUS
<1>4. v \in DOMAIN model.vertices
  BY <1>2, <1>3, ModelLists DEF prim
<1>5. PICK ks : ks = Keys(v)
  OBVIOUS
<1>6. Len(ks) \in Nat /\ DOMAIN ks = 1 .. Len(ks) /\ \A k \in ToSet(ks) : LastIn(ks, k) \in DOMAIN ks
  BY <1>4, <1>5, KeysFacts, SMTT(20) DEF LastDescriptor, LastIn
<1>7. PICK index : index = IF prim.index \in DOMAIN drawn THEN <<>>
                             ELSE <<[holds |-> "indices", of |-> prim.index]>>
  OBVIOUS
<1>8. PICK attrs : attrs = IF v \in DOMAIN buffers THEN <<>>
                             ELSE [d \in DOMAIN ks |-> [holds |-> "attribute", of |-> v, desc |-> d]]
  OBVIOUS
<1>9. PICK before : before = Len(accessors) + Len(index)
  OBVIOUS
<1>10. /\ accessors' = accessors \o index \o attrs
       /\ drawn' = IF index = <<>> THEN drawn ELSE With(drawn, prim.index, before)
       /\ buffers' = IF v \in DOMAIN buffers THEN buffers
                       ELSE With(buffers, v, NewBuffer(v, before))
  BY <1>3, <1>5, <1>7, <1>8, <1>9 DEF DrawBuffers
<1>11. PICK A : accessors \in Seq(A)
  BY DEF AccessRight
<1>12. index \in Seq({[holds |-> "indices", of |-> prim.index]}) /\ Len(index) \in {0, 1}
  <2>1. CASE prim.index \in DOMAIN drawn
    BY <1>7, <2>1
  <2>2. CASE prim.index \notin DOMAIN drawn
    BY <1>7, <2>2
  <2> QED
    BY <2>1, <2>2
<1>13. PICK B : attrs \in Seq(B)
  <2>1. PICK n : n = Len(ks) /\ n \in Nat /\ DOMAIN ks = 1 .. n
    BY <1>6
  <2>2. CASE v \in DOMAIN buffers
    <3>1. attrs \in Seq({})
      BY <1>8, <2>2
    <3> QED
      BY <3>1
  <2>3. CASE v \notin DOMAIN buffers
    <3>1. attrs = [d \in 1 .. n |-> [holds |-> "attribute", of |-> v, desc |-> d]]
      BY <1>8, <2>1, <2>3
    <3>2. attrs \in Seq({[holds |-> "attribute", of |-> v, desc |-> d] : d \in 1 .. n})
      BY <2>1, <3>1
    <3> QED
      BY <3>2
  <2> QED
    BY <2>2, <2>3
<1>14. PICK middle : middle = accessors \o index
  OBVIOUS
<1>15. /\ Longer(accessors, middle)
       /\ Len(middle) = before /\ before \in Nat
       /\ \A i \in 1 .. Len(index) : middle[Len(accessors) + i] = index[i]
       /\ \A i : i \in DOMAIN middle <=> i \in 1 .. before
  <2>1. PICK D : index \in Seq(D)
    BY <1>12
  <2>2. Joined(accessors, index, middle)
    BY <1>11, <1>14, <2>1, LongerConcat
  <2> QED
    BY <1>9, <2>2 DEF Joined
<1>16. PICK C : middle \in Seq(C)
  BY <1>15 DEF Longer
<1>17. /\ Longer(middle, accessors')
       /\ \A i \in 1 .. Len(attrs) : accessors'[before + i] = attrs[i]
       /\ \A i : i \in DOMAIN accessors' <=> i \in 1 .. before + Len(attrs)
       /\ Len(attrs) \in Nat
  <2>1. accessors' = middle \o attrs
    BY <1>10, <1>14
  <2>2. PICK new : new = accessors'
    OBVIOUS
  <2>3. Joined(middle, attrs, new)
    BY <1>13, <1>16, <2>1, <2>2, LongerConcat
  <2> QED
    BY <1>15, <2>2, <2>3 DEF Joined
<1>18. Longer(accessors, accessors')
  BY <1>15, <1>17 DEF Longer
<1>19. \A k \in DOMAIN drawn : IndexAt(accessors', k, drawn[k])
  BY <1>18, Zenon DEF AccessRight, IndexAt, Longer
<1>20. (\A k \in DOMAIN drawn' : IndexAt(accessors', k, drawn'[k])) /\ prim.index \in DOMAIN drawn'
       /\ DOMAIN drawn \subseteq DOMAIN drawn'
  <2>1. CASE prim.index \in DOMAIN drawn
    BY <1>7, <1>10, <1>19, <2>1
  <2>2. CASE prim.index \notin DOMAIN drawn
    <3>1. index = <<[holds |-> "indices", of |-> prim.index]>> /\ index # <<>> /\ Len(index) = 1
      BY <1>7, <2>2
    <3>2. drawn' = With(drawn, prim.index, before)
      BY <1>10, <3>1
    <3>3. middle[before] = [holds |-> "indices", of |-> prim.index] /\ before \in DOMAIN middle
      <4>1. before = Len(accessors) + 1 /\ 1 \in 1 .. Len(index) /\ before \in 1 .. before
        <5>1. Len(accessors) \in Nat
          BY <1>11
        <5> QED
          BY <1>9, <3>1, <5>1
      <4>2. middle[before] = index[1]
        BY <1>15, <4>1
      <4>3. before \in DOMAIN middle
        BY <1>15, <4>1
      <4> QED
        BY <3>1, <4>2, <4>3
    <3>4. IndexAt(accessors', prim.index, before)
      BY <1>17, <3>3 DEF IndexAt, Longer
    <3>5. /\ \A k : k \in DOMAIN drawn' <=> k \in DOMAIN drawn \/ k = prim.index
          /\ drawn'[prim.index] = before
          /\ \A k \in DOMAIN drawn : k # prim.index => drawn'[k] = drawn[k]
      BY <3>2, WithFacts
    <3> QED
      BY <1>19, <3>4, <3>5
  <2> QED
    BY <2>1, <2>2
<1>21. \A w \in DOMAIN buffers : BufferIn(accessors', w, Keys(w)', buffers[w])
  <2> SUFFICES ASSUME NEW w \in DOMAIN buffers
               PROVE  BufferIn(accessors', w, Keys(w)', buffers[w])
    OBVIOUS
  <2>1. BufferIn(accessors, w, Keys(w), buffers[w])
    BY DEF AccessRight, BuffersIn
  <2>2. Keys(w)' = Keys(w)
    BY <1>1, ListsKept
  <2> QED
    BY <1>18, <2>1, <2>2, BufferKept
<1>22. v \notin DOMAIN buffers => BufferIn(accessors', v, Keys(v)', NewBuffer(v, before))
  <2> SUFFICES ASSUME v \notin DOMAIN buffers
               PROVE  BufferIn(accessors', v, Keys(v)', NewBuffer(v, before))
    OBVIOUS
  <2>1. Keys(v)' = ks
    BY <1>1, <1>5, ListsKept
  <2>2. PICK b : b = NewBuffer(v, before)
    OBVIOUS
  <2>3. b = [attrs |-> [k \in ToSet(ks) |-> before + LastIn(ks, k)], morphs |-> <<>>, rows |-> <<>>]
    BY <1>5, <2>2 DEF NewBuffer, LastDescriptor, LastIn
  <2>4. attrs = [d \in 1 .. Len(ks) |-> [holds |-> "attribute", of |-> v, desc |-> d]] /\ Len(attrs) = Len(ks)
    BY <1>6, <1>8
  <2>5. ASSUME NEW k \in ToSet(ks)
        PROVE  /\ b.attrs[k] \in DOMAIN accessors'
               /\ accessors'[b.attrs[k]] = [holds |-> "attribute", of |-> v, desc |-> LastIn(ks, k)]
    <3>1. PICK d : d = LastIn(ks, k)
      OBVIOUS
    <3>2. d \in 1 .. Len(attrs)
      BY <1>6, <2>4, <3>1
    <3>3. b.attrs[k] = before + d
      BY <2>3, <3>1
    <3>4. before + d \in 1 .. before + Len(attrs)
      BY <1>15, <1>17, <3>2
    <3>5. accessors'[before + d] = attrs[d] /\ attrs[d] = [holds |-> "attribute", of |-> v, desc |-> d]
      BY <1>17, <2>4, <3>2
    <3> QED
      BY <1>17, <3>1, <3>3, <3>4, <3>5
  <2>6. DOMAIN b = {"attrs", "morphs", "rows"} /\ DOMAIN b.attrs = ToSet(ks)
    BY <2>3
  <2>7. BufferIn(accessors', v, ks, b)
    BY <2>5, <2>6 DEF BufferIn
  <2> QED
    BY <2>1, <2>2, <2>7
<1>23. /\ DOMAIN buffers' = DOMAIN buffers \cup {v}
       /\ buffers' = [w \in DOMAIN buffers' |-> buffers'[w]]
       /\ \A w \in DOMAIN buffers : buffers'[w] = buffers[w]
       /\ v \notin DOMAIN buffers => buffers'[v] = NewBuffer(v, before)
  <2>1. CASE v \in DOMAIN buffers
    <3>1. buffers' = buffers
      BY <1>10, <2>1
    <3> QED
      BY <2>1, <3>1 DEF AccessRight, BuffersIn
  <2>2. CASE v \notin DOMAIN buffers
    <3>1. buffers' = With(buffers, v, NewBuffer(v, before))
      BY <1>10, <2>2
    <3>2. \A w \in DOMAIN buffers : w # v
      BY <2>2
    <3>3. PICK b : b = NewBuffer(v, before)
      OBVIOUS
    <3>4. PICK f : f = With(buffers, v, b)
      OBVIOUS
    <3>5. /\ \A i : i \in DOMAIN f <=> i \in DOMAIN buffers \/ i = v
          /\ f[v] = b
          /\ \A w \in DOMAIN buffers : w # v => f[w] = buffers[w]
          /\ f = [w \in DOMAIN f |-> f[w]]
      BY <3>4, WithFacts
    <3>6. buffers' = f
      BY <3>1, <3>3, <3>4
    <3> QED
      BY <3>2, <3>3, <3>5, <3>6
  <2> QED
    BY <2>1, <2>2
<1>24. BuffersIn(accessors, buffers)'
  <2>1. \A w \in DOMAIN buffers : w \in DOMAIN model'.vertices
    BY <1>1 DEF AccessRight, BuffersIn
  <2>2. \A w \in DOMAIN buffers' :
          w \in DOMAIN model'.vertices /\ BufferIn(accessors', w, Keys(w)', buffers'[w])
    BY <1>1, <1>4, <1>21, <1>22, <1>23, <2>1
  <2> QED
    BY <1>23, <2>2 DEF BuffersIn
<1>25. \A i \in 1 .. done + 1 :
         model.prims[i].index \in DOMAIN drawn' /\ model.prims[i].vertex \in DOMAIN buffers'
  <2> SUFFICES ASSUME NEW i \in 1 .. done + 1
               PROVE  model.prims[i].index \in DOMAIN drawn' /\ model.prims[i].vertex \in DOMAIN buffers'
    OBVIOUS
  <2>1. CASE i = done + 1
    <3>1. model.prims[i] = prim
      BY <2>1 DEF prim
    <3> QED
      BY <1>3, <1>20, <1>23, <3>1
  <2>2. CASE i # done + 1
    <3>1. i \in 1 .. PrimsDrawn
      BY <1>1, <1>2, <2>2 DEF PrimsDrawn
    <3> QED
      BY <1>20, <1>23, <3>1 DEF AccessRight
  <2> QED
    BY <2>1, <2>2
<1>26. AccessRight'
  <2>1. PrimsDrawn' = done + 1 /\ done' \in Nat
    BY <1>1, <1>2 DEF PrimsDrawn
  <2>2. \E T : accessors' \in Seq(T)
    BY <1>18 DEF Longer
  <2>3. SparseIn(sparse)'
    BY <1>1 DEF AccessRight
  <2> QED
    BY <1>1, <1>20, <1>24, <1>25, <2>1, <2>2, <2>3 DEF AccessRight
<1>27. ASSUME NEW w \in DOMAIN buffers' \ DOMAIN buffers
       PROVE  buffers'[w].morphs = <<>> /\ buffers'[w].rows = <<>>
  <2>1. w = v /\ buffers'[w] = NewBuffer(v, before)
    BY <1>23, <1>27
  <2> QED
    BY <2>1 DEF NewBuffer
<1> QED
  BY <1>18, <1>23, <1>26, <1>27

(* What depends on the model alone.                                        *)
LEMMA RowsKept ==
  ASSUME model' = model
  PROVE  /\ \A p : Covered(p)' = Covered(p)
         /\ \A p, m : Row(p, m)' = Row(p, m)
         /\ \A p : Unweighable(p)' <=> Unweighable(p)
<1>1. \A p : Used(p)' = Used(p) /\ Ids(p)' = Ids(p)
  BY DEF Used, Ids
<1>2. \A p : Covered(p)' = Covered(p)
  BY <1>1 DEF Covered
<1>3. \A l, s : PalettesAt(l, s)' = PalettesAt(l, s)
  BY DEF PalettesAt
<1>4. \A p : Level(p)' = Level(p) /\ Slot(p)' = Slot(p)
  BY DEF Level, Slot
<1>5. \A p : Sampler(p)' = Sampler(p)
  BY <1>3, <1>4, ZenonT(40) DEF Sampler
<1>6. \A p, m : Row(p, m)' = Row(p, m)
  BY <1>1, <1>5 DEF Row
<1>7. \A p : Unweighable(p)' <=> Unweighable(p)
  BY <1>1, <1>4 DEF Unweighable, Unhandled
<1> QED
  BY <1>2, <1>6, <1>7

-----------------------------------------------------------------------------
(***************************************************************************)
(* The morph targets.                                                      *)
(***************************************************************************)

(* The morphs, of the first d, that move anything of target i of a buffer. *)
MovesIn(ms, v, i, d) ==
  {k \in 1 .. d : ms[k].target = v /\ ms[k].id = i /\ ms[k].at # <<>>}

ReadsIn(a, at, values, ids) ==
  /\ a.values \in DOMAIN at /\ at[a.values] = values
  /\ a.indices \in DOMAIN at /\ at[a.indices] = ids
  /\ a.indices % 2 = 0 /\ a.count = Len(ids)

(* Target t is that of morph m, the k-th.                                  *)
MovedBy(acc, at, m, k, t) ==
  /\ t["POSITION"] \in DOMAIN acc
  /\ ReadsIn(acc[t["POSITION"]], at, [deltas |-> m.at, of |-> k], m.at)
  /\ acc[t["POSITION"]].values % 4 = 0
  /\ "NORMAL" \in DOMAIN t <=> Turned(m) # <<>>
  /\ "NORMAL" \in DOMAIN t =>
       /\ t["NORMAL"] \in DOMAIN acc
       /\ ReadsIn(acc[t["NORMAL"]], at, [normals |-> Turned(m), of |-> k], Turned(m))

(* Target t is the empty shape of its buffer.                              *)
Unmoved(acc, v, t) ==
  /\ DOMAIN t = {"POSITION"} /\ t["POSITION"] \in DOMAIN acc
  /\ acc[t["POSITION"]] = [holds |-> "nothing", of |-> v]

ShapeIn(acc, at, ms, v, i, d, t) ==
  \/ MovesIn(ms, v, i, d) = {} /\ Unmoved(acc, v, t)
  \/ \E k \in MovesIn(ms, v, i, d) :
       (\A o \in MovesIn(ms, v, i, d) : o <= k) /\ MovedBy(acc, at, ms[k], k, t)

TargetsIn(acc, at, ms, v, n, d, ts) ==
  \/ ts = <<>> /\ (n = 0 \/ \A k \in 1 .. d : ms[k].target # v)
  \/ ts = [j \in 1 .. n |-> ts[j]] /\ \A j \in 1 .. n : ShapeIn(acc, at, ms, v, j, d, ts[j])

AtKept(at, new) == \A k \in DOMAIN at : k \in DOMAIN new /\ new[k] = at[k]

LEMMA ShapeKept ==
  ASSUME NEW acc, NEW new, Longer(acc, new), NEW at, NEW later, AtKept(at, later),
         NEW ms, NEW v, NEW i, NEW d, NEW t, ShapeIn(acc, at, ms, v, i, d, t)
  PROVE  ShapeIn(new, later, ms, v, i, d, t)
<1>1. Unmoved(acc, v, t) => Unmoved(new, v, t)
  BY DEF Unmoved, Longer
<1>2. \A a, x, y : ReadsIn(a, at, x, y) => ReadsIn(a, later, x, y)
  BY DEF ReadsIn, AtKept
<1>3. \A m, k : MovedBy(acc, at, m, k, t) => MovedBy(new, later, m, k, t)
  BY <1>2 DEF MovedBy, Longer
<1> QED
  BY <1>1, <1>3 DEF ShapeIn

LEMMA TargetsKept ==
  ASSUME NEW acc, NEW new, Longer(acc, new), NEW at, NEW later, AtKept(at, later),
         NEW ms, NEW v, NEW n, NEW d, NEW ts, TargetsIn(acc, at, ms, v, n, d, ts)
  PROVE  TargetsIn(new, later, ms, v, n, d, ts)
BY ShapeKept DEF TargetsIn

(* A morph that does not move the target.                                  *)
LEMMA ShapeOther ==
  ASSUME NEW acc, NEW at, NEW ms, NEW v, NEW i, NEW d \in Nat, NEW t,
         ms[d + 1].target # v \/ ms[d + 1].id # i \/ ms[d + 1].at = <<>>,
         ShapeIn(acc, at, ms, v, i, d, t)
  PROVE  ShapeIn(acc, at, ms, v, i, d + 1, t)
<1>1. \A k : k \in MovesIn(ms, v, i, d + 1) <=> k \in MovesIn(ms, v, i, d)
  BY DEF MovesIn
<1>2. MovesIn(ms, v, i, d + 1) = MovesIn(ms, v, i, d)
  BY <1>1
<1> QED
  BY <1>2 DEF ShapeIn

LEMMA TargetsOther ==
  ASSUME NEW acc, NEW at, NEW ms, NEW v, NEW n, NEW d \in Nat, NEW ts,
         ms[d + 1].target # v, TargetsIn(acc, at, ms, v, n, d, ts)
  PROVE  TargetsIn(acc, at, ms, v, n, d + 1, ts)
<1>1. \A k \in 1 .. d + 1 : k \in 1 .. d \/ k = d + 1
  OBVIOUS
<1> QED
  BY <1>1, ShapeOther DEF TargetsIn

(* The morph that does.                                                    *)
LEMMA ShapeMoved ==
  ASSUME NEW acc, NEW at, NEW ms, NEW v, NEW i, NEW d \in Nat, NEW t,
         ms[d + 1].target = v, ms[d + 1].id = i, ms[d + 1].at # <<>>,
         MovedBy(acc, at, ms[d + 1], d + 1, t)
  PROVE  ShapeIn(acc, at, ms, v, i, d + 1, t)
<1>1. d + 1 \in MovesIn(ms, v, i, d + 1) /\ \A o \in MovesIn(ms, v, i, d + 1) : o <= d + 1
  BY DEF MovesIn
<1> QED
  BY <1>1 DEF ShapeIn

(* The targets of a buffer, made when its first morph comes.               *)
MadeOf(ts, n, fresh, us) == us = IF ts # <<>> THEN ts ELSE [j \in 1 .. n |-> fresh]

AllIn(acc, at, ms, v, n, d, us) ==
  us = [j \in 1 .. n |-> us[j]] /\ \A j \in 1 .. n : ShapeIn(acc, at, ms, v, j, d, us[j])

LEMMA TargetsThere ==
  ASSUME NEW acc, NEW new, Longer(acc, new), NEW at, NEW later, AtKept(at, later),
         NEW ms, NEW v, NEW n \in Nat, NEW d \in Nat, NEW ts,
         TargetsIn(acc, at, ms, v, n, d, ts),
         NEW fresh, ts = <<>> => Unmoved(new, v, fresh),
         NEW us, MadeOf(ts, n, fresh, us)
  PROVE  AllIn(new, later, ms, v, n, d, us)
<1>1. CASE ts # <<>>
  <2>1. us = ts
    BY <1>1 DEF MadeOf
  <2>2. ts = [j \in 1 .. n |-> ts[j]] /\ \A j \in 1 .. n : ShapeIn(acc, at, ms, v, j, d, ts[j])
    BY <1>1 DEF TargetsIn
  <2> QED
    BY <2>1, <2>2, ShapeKept DEF AllIn
<1>2. CASE ts = <<>>
  <2>1. us = [j \in 1 .. n |-> fresh]
    BY <1>2 DEF MadeOf
  <2>2. n = 0 \/ \A k \in 1 .. d : ms[k].target # v
    <3>1. CASE ts = [j \in 1 .. n |-> ts[j]]
      <4>1. DOMAIN ts = 1 .. n /\ DOMAIN ts = {}
        BY <1>2, <3>1
      <4>2. 1 \notin 1 .. n
        BY <4>1
      <4> QED
        BY <4>2
    <3> QED
      BY <3>1 DEF TargetsIn
  <2>3. ASSUME NEW j \in 1 .. n PROVE ShapeIn(new, later, ms, v, j, d, us[j])
    <3>1. MovesIn(ms, v, j, d) = {}
      BY <2>2, <2>3 DEF MovesIn
    <3>2. us[j] = fresh
      BY <2>1, <2>3
    <3> QED
      BY <1>2, <3>1, <3>2 DEF ShapeIn
  <2> QED
    BY <2>1, <2>3 DEF AllIn
<1> QED
  BY <1>1, <1>2

LEMMA AlignedFacts ==
  ASSUME NEW n \in Nat
  PROVE  /\ Aligned(n, 4) \in Nat /\ Aligned(n, 4) >= n /\ Aligned(n, 4) % 4 = 0
         /\ Aligned(n, 2) \in Nat /\ Aligned(n, 2) >= n /\ Aligned(n, 2) % 2 = 0
<1>1. Aligned(n, 4) = ((n + 3) \div 4) * 4 /\ Aligned(n, 2) = ((n + 1) \div 2) * 2
  BY DEF Aligned
<1> QED
  BY <1>1

(* What is written where a stream ends leaves the rest of it alone.        *)
Short(at, size) == \A k \in DOMAIN at : k \in Nat /\ k < size

WrittenTo(at, where, what, new, end) ==
  /\ Short(new, end)
  /\ AtKept(at, new)
  /\ where \in DOMAIN new /\ new[where] = what

LEMMA Written ==
  ASSUME NEW at, NEW size \in Nat, Short(at, size),
         NEW where \in Nat, where >= size, NEW what, NEW new, new = With(at, where, what),
         NEW end \in Nat, end > where
  PROVE  WrittenTo(at, where, what, new, end)
<1>1. /\ \A k : k \in DOMAIN new <=> k \in DOMAIN at \/ k = where
      /\ new[where] = what
      /\ \A k \in DOMAIN at : k # where => new[k] = at[k]
  BY WithFacts
<1>2. \A k \in DOMAIN at : k \in Nat /\ k # where /\ k < end
  BY DEF Short
<1> QED
  BY <1>1, <1>2 DEF AtKept, Short, WrittenTo

LEMMA AtKeptTwice ==
  ASSUME NEW a, NEW b, NEW c, AtKept(a, b), AtKept(b, c)
  PROVE  AtKept(a, c)
BY DEF AtKept

(* What a morph adds to the sparse stream: a and b, where its deltas and   *)
(* its vertices are, and c and d, where its normals and theirs are.        *)
MorphAt(at, new, m, k, a, b, c, d) ==
  /\ AtKept(at, new)
  /\ a \in DOMAIN new /\ new[a] = [deltas |-> m.at, of |-> k]
  /\ b \in DOMAIN new /\ new[b] = m.at
  /\ a % 4 = 0 /\ b % 2 = 0
  /\ Turned(m) # <<>> =>
       /\ c \in DOMAIN new /\ new[c] = [normals |-> Turned(m), of |-> k]
       /\ d \in DOMAIN new /\ new[d] = Turned(m) /\ d % 2 = 0

(* Where SparseMorph puts what it writes.                                  *)
Layout(s, m, k, n, turned, l, deltas, ids, normals, again, size, one, two, three, four, new) ==
  /\ n = Len(m.at) /\ turned = Turned(m) /\ l = Len(turned)
  /\ deltas = Aligned(s.size, 4)
  /\ ids = Aligned(deltas + 12 * n, 2)
  /\ normals = ids + 2 * n
  /\ again = IF l \in {0, n} THEN ids ELSE Aligned(normals + 3 * l, 2)
  /\ size = IF l \in {0, n} THEN normals + 3 * l ELSE again + 2 * l
  /\ one = With(s.at, deltas, [deltas |-> m.at, of |-> k])
  /\ two = With(one, ids, m.at)
  /\ three = With(two, normals, [normals |-> turned, of |-> k])
  /\ four = With(three, again, turned)
  /\ new = IF turned = <<>> THEN two ELSE four

LEMMA SparseWritten ==
  ASSUME NEW s, SparseIn(s), NEW m, IsList(m.at), m.at # <<>>, NEW k,
         NEW n, NEW turned, NEW l, NEW deltas, NEW ids, NEW normals, NEW again, NEW size,
         NEW one, NEW two, NEW three, NEW four, NEW new,
         Layout(s, m, k, n, turned, l, deltas, ids, normals, again, size,
                one, two, three, four, new)
  PROVE  /\ SparseIn([size |-> size, at |-> new])
         /\ MorphAt(s.at, new, m, k, deltas, ids, normals, again)
<1>en. n = Len(m.at)
  BY DEF Layout
<1>et. turned = Turned(m)
  BY DEF Layout
<1>el. l = Len(turned)
  BY DEF Layout
<1>ed. deltas = Aligned(s.size, 4)
  BY DEF Layout
<1>ei. ids = Aligned(deltas + 12 * n, 2)
  BY DEF Layout
<1>eo. normals = ids + 2 * n
  BY DEF Layout
<1>eg. again = IF l \in {0, n} THEN ids ELSE Aligned(normals + 3 * l, 2)
  BY DEF Layout
<1>ez. size = IF l \in {0, n} THEN normals + 3 * l ELSE again + 2 * l
  BY DEF Layout
<1>e1. one = With(s.at, deltas, [deltas |-> m.at, of |-> k])
  BY DEF Layout
<1>e2. two = With(one, ids, m.at)
  BY DEF Layout
<1>e3. three = With(two, normals, [normals |-> turned, of |-> k])
  BY DEF Layout
<1>e4. four = With(three, again, turned)
  BY DEF Layout
<1>ew. new = IF turned = <<>> THEN two ELSE four
  BY DEF Layout
<1>1. n \in Nat /\ n > 0
  <2>1. PICK T : m.at \in Seq(T)
    BY DEF IsList
  <2>2. n \in Nat /\ (n = 0 => m.at = <<>>)
    BY <1>en, <2>1, EmptySeq
  <2> QED
    BY <2>2
<1>2. l \in Nat /\ (turned = <<>> <=> l = 0) /\ (l = n => turned = m.at)
  BY <1>en, <1>et, <1>el, TurnedFacts
<1>3. s.size \in Nat /\ Short(s.at, s.size)
  BY DEF SparseIn, Short
<1>4. deltas \in Nat /\ deltas >= s.size /\ deltas % 4 = 0
  BY <1>3, <1>ed, AlignedFacts
<1>5. deltas + 12 * n \in Nat /\ deltas + 12 * n > deltas
  BY <1>1, <1>4
<1>6. ids \in Nat /\ ids > deltas /\ ids % 2 = 0
  <2>1. PICK e : e = deltas + 12 * n
    OBVIOUS
  <2>2. Aligned(e, 2) \in Nat /\ Aligned(e, 2) >= e /\ Aligned(e, 2) % 2 = 0
    BY <1>5, <2>1, AlignedFacts
  <2> QED
    BY <1>4, <1>5, <1>ei, <2>1, <2>2
<1>7. normals \in Nat /\ normals > ids
  BY <1>1, <1>6, <1>eo
<1>8. PICK e : e = normals + 3 * l
  OBVIOUS
<1>9. e \in Nat /\ e >= normals /\ (l > 0 => e > normals)
  BY <1>2, <1>7, <1>8
<1>10. Aligned(e, 2) \in Nat /\ Aligned(e, 2) >= e /\ Aligned(e, 2) % 2 = 0
  BY <1>9, AlignedFacts
<1>11. WrittenTo(s.at, deltas, [deltas |-> m.at, of |-> k], one, ids)
  <2>1. PICK what : what = [deltas |-> m.at, of |-> k]
    OBVIOUS
  <2>2. one = With(s.at, deltas, what)
    BY <1>e1, <2>1
  <2>3. PICK at, old : at = s.at /\ old = s.size
    OBVIOUS
  <2>4. WrittenTo(at, deltas, what, one, ids)
    BY <1>3, <1>4, <1>6, <2>2, <2>3, Written
  <2> QED
    BY <2>1, <2>3, <2>4
<1>12. WrittenTo(one, ids, m.at, two, normals)
  <2>1. ids >= ids /\ Short(one, ids)
    BY <1>6, <1>11 DEF WrittenTo
  <2>2. PICK what : what = m.at
    OBVIOUS
  <2>3. two = With(one, ids, what)
    BY <1>e2, <2>2
  <2>4. WrittenTo(one, ids, what, two, normals)
    BY <1>6, <1>7, <2>1, <2>3, Written
  <2> QED
    BY <2>2, <2>4
<1>13. AtKept(s.at, two) /\ two[deltas] = [deltas |-> m.at, of |-> k] /\ deltas \in DOMAIN two
  <2>1. AtKept(s.at, two)
    BY <1>11, <1>12, AtKeptTwice DEF WrittenTo
  <2> QED
    BY <1>11, <1>12, <2>1 DEF AtKept, WrittenTo
<1>14. CASE turned = <<>>
  <2>1. new = two /\ l = 0 /\ size = e
    BY <1>2, <1>8, <1>14, <1>ew, <1>ez
  <2>2. \A i \in DOMAIN two : i \in Nat /\ i < e
    BY <1>7, <1>9, <1>12 DEF WrittenTo, Short
  <2>3. SparseIn([size |-> size, at |-> new])
    BY <1>9, <2>1, <2>2 DEF SparseIn
  <2> QED
    BY <1>4, <1>6, <1>12, <1>13, <1>14, <2>1, <2>3, <1>et DEF MorphAt, WrittenTo
<1>15. CASE turned # <<>>
  <2>1. new = four /\ l > 0
    BY <1>2, <1>15, <1>ew
  <2>2. WrittenTo(two, normals, [normals |-> turned, of |-> k], three, e)
    <3>1. normals >= normals /\ e > normals /\ Short(two, normals)
      BY <1>7, <1>9, <1>12, <2>1 DEF WrittenTo
    <3>2. PICK what : what = [normals |-> turned, of |-> k]
      OBVIOUS
    <3>3. three = With(two, normals, what)
      BY <1>e3, <3>2
    <3>4. WrittenTo(two, normals, what, three, e)
      BY <1>7, <1>9, <3>1, <3>3, Written
    <3> QED
      BY <3>2, <3>4
  <2>3. AtKept(s.at, three) /\ Short(three, e)
    BY <1>13, <2>2, AtKeptTwice DEF WrittenTo
  <2>4. /\ deltas \in DOMAIN three /\ three[deltas] = [deltas |-> m.at, of |-> k]
        /\ ids \in DOMAIN three /\ three[ids] = m.at
    BY <1>12, <1>13, <2>2 DEF AtKept, WrittenTo
  <2>5. CASE l = n
    <3>1. again = ids /\ size = e
      BY <1>8, <1>eg, <1>ez, <2>5
    <3>2. /\ \A i : i \in DOMAIN four <=> i \in DOMAIN three \/ i = ids
          /\ four[ids] = turned
          /\ \A i \in DOMAIN three : i # ids => four[i] = three[i]
      <4>1. four = With(three, ids, turned)
        BY <1>e4, <3>1
      <4> QED
        BY <4>1, WithFacts
    <3>3. turned = m.at
      BY <1>2, <2>5
    <3>4. AtKept(three, four)
      BY <2>4, <3>2, <3>3 DEF AtKept
    <3>5. AtKept(s.at, four)
      BY <2>3, <3>4, AtKeptTwice
    <3>6. SparseIn([size |-> size, at |-> new])
      <4>1. \A i \in DOMAIN four : i \in DOMAIN three
        BY <2>4, <3>2
      <4>2. Short(four, e)
        BY <2>3, <4>1 DEF Short
      <4> QED
        BY <1>9, <2>1, <3>1, <4>2 DEF SparseIn, Short
    <3>7. /\ deltas \in DOMAIN four /\ four[deltas] = [deltas |-> m.at, of |-> k]
          /\ ids \in DOMAIN four /\ four[ids] = turned
          /\ normals \in DOMAIN four /\ four[normals] = [normals |-> turned, of |-> k]
      <4>1. normals \in DOMAIN three /\ three[normals] = [normals |-> turned, of |-> k]
        BY <2>2 DEF WrittenTo
      <4>2. \A i \in DOMAIN three : i \in DOMAIN four /\ four[i] = three[i]
        BY <3>4 DEF AtKept
      <4>3. ids \in DOMAIN four /\ four[ids] = turned
        BY <3>2
      <4> QED
        BY <2>4, <4>1, <4>2, <4>3
    <3> QED
      BY <1>4, <1>6, <2>1, <3>1, <3>3, <3>5, <3>6, <3>7, <1>et DEF MorphAt
  <2>6. CASE l # n
    <3>1. again = Aligned(e, 2) /\ size = again + 2 * l
      BY <1>8, <1>eg, <1>ez, <2>1, <2>6
    <3>2. again \in Nat /\ again >= e /\ again % 2 = 0 /\ size \in Nat /\ size > again
      BY <1>2, <1>10, <2>1, <3>1
    <3>3. WrittenTo(three, again, turned, four, size)
      BY <1>9, <1>e4, <2>3, <3>2, Written
    <3>4. AtKept(s.at, four)
      BY <2>3, <3>3, AtKeptTwice DEF WrittenTo
    <3>5. SparseIn([size |-> size, at |-> new])
      BY <2>1, <3>2, <3>3 DEF SparseIn, Short, WrittenTo
    <3>6. /\ deltas \in DOMAIN four /\ four[deltas] = [deltas |-> m.at, of |-> k]
          /\ ids \in DOMAIN four /\ four[ids] = m.at
          /\ normals \in DOMAIN four /\ four[normals] = [normals |-> turned, of |-> k]
          /\ again \in DOMAIN four /\ four[again] = turned
      BY <2>2, <2>4, <3>3 DEF AtKept, WrittenTo
    <3> QED
      BY <1>4, <1>6, <2>1, <3>2, <3>4, <3>5, <3>6, <1>et DEF MorphAt
  <2> QED
    BY <2>5, <2>6
<1> QED
  BY <1>14, <1>15

LEMMA LongerTwice ==
  ASSUME NEW a, NEW b, NEW c, Longer(a, b), Longer(b, c)
  PROVE  Longer(a, c)
BY DEF Longer

(* How many morphs have their targets.                                     *)
MorphsDone == IF stage = "buffers" THEN 0 ELSE IF stage = "morphs" THEN done ELSE Len(Morphs)

MorphsRight ==
  \A v \in DOMAIN buffers :
    TargetsIn(accessors, sparse.at, Morphs, v, model.names, MorphsDone, buffers[v].morphs)

(* The targets that a morph finds, or makes with the empty shape.          *)
LEMMA MorphBase ==
  ASSUME model \in Models, AccessRight, MorphsRight, HasMorph, morph.target \in DOMAIN buffers,
         NEW middle, middle = accessors \o Base
  PROVE  /\ Longer(accessors, middle)
         /\ Len(middle) = Len(accessors) + Len(Base) /\ Len(middle) \in Nat
         /\ Targets = [j \in 1 .. model.names |-> Targets[j]]
         /\ \A new, later : Longer(middle, new) /\ AtKept(sparse.at, later) =>
              \A j \in 1 .. model.names :
                ShapeIn(new, later, Morphs, morph.target, j, done, Targets[j])
<1>1. PICK v : v = morph.target
  OBVIOUS
<1>2. PICK ts : ts = buffers[v].morphs
  OBVIOUS
<1>3. PICK nothing : nothing = [holds |-> "nothing", of |-> v]
  OBVIOUS
<1>4. PICK base : base = Base
  OBVIOUS
<1>5. base = IF ts = <<>> THEN <<nothing>> ELSE <<>>
  BY <1>1, <1>2, <1>3, <1>4 DEF Base
<1>6. PICK T : accessors \in Seq(T)
  BY DEF AccessRight
<1>7. /\ base \in Seq({nothing}) /\ Len(base) \in Nat
      /\ ts = <<>> => Len(base) = 1 /\ base[1] = nothing /\ base # <<>>
      /\ ts # <<>> => base = <<>>
  <2>1. CASE ts = <<>>
    BY <1>5, <2>1
  <2>2. CASE ts # <<>>
    <3>1. base = <<>>
      BY <1>5, <2>2
    <3> QED
      BY <2>2, <3>1
  <2> QED
    BY <2>1, <2>2
<1>8. Joined(accessors, base, middle)
  BY <1>4, <1>6, <1>7, LongerConcat
<1>9. PICK fresh : fresh = [k \in {"POSITION"} |-> Len(accessors) + 1]
  OBVIOUS
<1>10. ts = <<>> => Unmoved(middle, v, fresh)
  <2> SUFFICES ASSUME ts = <<>>
               PROVE  Unmoved(middle, v, fresh)
    OBVIOUS
  <2>1. 1 \in 1 .. Len(base) /\ Len(accessors) \in Nat
    BY <1>7, <1>8 DEF Joined
  <2>2. middle[Len(accessors) + 1] = nothing /\ Len(accessors) + 1 \in DOMAIN middle
    BY <1>7, <1>8, <2>1 DEF Joined
  <2> QED
    BY <1>3, <1>9, <2>2 DEF Unmoved
<1>11. PICK n : n = model.names
  OBVIOUS
<1>12. n \in Nat
  BY <1>11, ModelLists
<1>13. PICK us : us = Targets
  OBVIOUS
<1>14. MadeOf(ts, n, fresh, us)
  <2>1. CASE ts # <<>>
    BY <1>1, <1>2, <1>4, <1>7, <1>13, <2>1 DEF Targets, MadeOf
  <2>2. CASE ts = <<>>
    BY <1>1, <1>2, <1>4, <1>7, <1>9, <1>11, <1>13, <2>2 DEF Targets, MadeOf
  <2> QED
    BY <2>1, <2>2
<1>15. PICK d : d = done
  OBVIOUS
<1>16. PICK at : at = sparse.at
  OBVIOUS
<1>17. PICK ms : ms = Morphs
  OBVIOUS
<1>18. d \in Nat /\ TargetsIn(accessors, at, ms, v, n, d, ts)
  BY <1>1, <1>2, <1>11, <1>15, <1>16, <1>17 DEF AccessRight, MorphsRight, MorphsDone, HasMorph
<1>19. ASSUME NEW new, NEW later, Longer(middle, new), AtKept(at, later)
       PROVE  AllIn(new, later, ms, v, n, d, us)
  <2>1. Longer(accessors, new)
    BY <1>8, <1>19, LongerTwice DEF Joined
  <2>2. ts = <<>> => Unmoved(new, v, fresh)
    BY <1>10, <1>19 DEF Unmoved, Longer
  <2> QED
    BY <1>12, <1>14, <1>18, <1>19, <2>1, <2>2, TargetsThere
<1>20. us = [j \in 1 .. n |-> us[j]]
  <2>1. Longer(middle, middle)
    BY <1>8, LongerSame DEF Joined, Longer
  <2>2. AtKept(at, at)
    BY DEF AtKept
  <2> QED
    BY <1>19, <2>1, <2>2 DEF AllIn
<1>21. Len(middle) = Len(accessors) + Len(base) /\ Len(middle) \in Nat /\ Longer(accessors, middle)
  BY <1>8 DEF Joined
<1> QED
  BY <1>1, <1>4, <1>11, <1>13, <1>15, <1>16, <1>17, <1>19, <1>20, <1>21 DEF AllIn

(* Then the other buffers have the targets they had, and this one what the *)
(* morph makes of its own.                                                 *)
LEMMA MorphsStep ==
  ASSUME model \in Models, AccessRight, MorphsRight, HasMorph, morph.target \in DOMAIN buffers,
         model' = model, stage' = stage, done' = done + 1, drawn' = drawn,
         Longer(accessors, accessors'), SparseIn(sparse'), AtKept(sparse.at, sparse'.at),
         NEW us, buffers' = [buffers EXCEPT ![morph.target].morphs = us],
         us = [j \in 1 .. model.names |-> us[j]],
         \A j \in 1 .. model.names :
           ShapeIn(accessors', sparse'.at, Morphs, morph.target, j, done + 1, us[j])
  PROVE  AccessRight' /\ MorphsRight'
<1>1. PICK v : v = morph.target
  OBVIOUS
<1>2. done \in Nat /\ stage = "morphs" /\ Morphs[done + 1].target = v
  BY <1>1 DEF AccessRight, HasMorph, morph
<1>3. /\ DOMAIN buffers' = DOMAIN buffers
      /\ buffers' = [w \in DOMAIN buffers' |-> buffers'[w]]
      /\ \A w \in DOMAIN buffers : w # v => buffers'[w] = buffers[w]
      /\ buffers'[v] = [buffers[v] EXCEPT !.morphs = us]
  BY <1>1 DEF AccessRight, BuffersIn
<1>4. \A w \in DOMAIN buffers :
        DOMAIN buffers'[w] = DOMAIN buffers[w] /\ buffers'[w].attrs = buffers[w].attrs
  <2> TAKE w \in DOMAIN buffers
  <2>1. DOMAIN buffers[w] = {"attrs", "morphs", "rows"}
    BY DEF AccessRight, BuffersIn, BufferIn
  <2>2. CASE w = v
    BY <1>3, <2>1, <2>2
  <2>3. CASE w # v
    BY <1>3, <2>3
  <2> QED
    BY <2>2, <2>3
<1>5. PrimsDrawn' = PrimsDrawn /\ done' \in Nat
  BY <1>2 DEF PrimsDrawn
<1>6. AccessRight'
  BY <1>3, <1>4, <1>5, AccessKept
<1>7. Morphs' = Morphs /\ MorphsDone' = done + 1 /\ MorphsDone = done
  BY <1>2, ListsKept DEF MorphsDone
<1>8. ASSUME NEW w \in DOMAIN buffers
      PROVE  TargetsIn(accessors', sparse'.at, Morphs, w, model.names, done + 1, buffers'[w].morphs)
  <2>1. CASE w = v
    <3>1. DOMAIN buffers[v] = {"attrs", "morphs", "rows"}
      BY <1>8, <2>1 DEF AccessRight, BuffersIn, BufferIn
    <3>2. buffers'[w].morphs = us
      BY <1>3, <2>1, <3>1
    <3> QED
      BY <1>1, <2>1, <3>2 DEF TargetsIn
  <2>2. CASE w # v
    <3>1. TargetsIn(accessors, sparse.at, Morphs, w, model.names, done, buffers[w].morphs)
      BY <1>7, <1>8 DEF MorphsRight
    <3>2. TargetsIn(accessors', sparse'.at, Morphs, w, model.names, done, buffers[w].morphs)
      BY <3>1, TargetsKept
    <3>3. Morphs[done + 1].target # w
      BY <1>2, <2>2
    <3>4. TargetsIn(accessors', sparse'.at, Morphs, w, model.names, done + 1, buffers[w].morphs)
      BY <1>2, <3>2, <3>3, TargetsOther
    <3> QED
      BY <1>3, <2>2, <3>4
  <2> QED
    BY <2>1, <2>2
<1>9. MorphsRight'
  BY <1>3, <1>7, <1>8 DEF MorphsRight
<1> QED
  BY <1>6, <1>9

LEMMA StepEmptyMorph ==
  ASSUME model \in Models, AccessRight, MorphsRight, EmptyMorph
  PROVE  AccessRight' /\ MorphsRight'
<1>1. /\ HasMorph /\ morph.target \in DOMAIN buffers /\ Morphs[done + 1].at = <<>>
      /\ model' = model /\ stage' = stage /\ done' = done + 1 /\ drawn' = drawn
      /\ sparse' = sparse
  BY DEF EmptyMorph, morph
<1>2. PICK us : us = Targets
  OBVIOUS
<1>3. buffers' = [buffers EXCEPT ![morph.target].morphs = us] /\ accessors' = accessors \o Base
  BY <1>2 DEF EmptyMorph
<1>4. PICK middle : middle = accessors \o Base
  OBVIOUS
<1>5. /\ Longer(accessors, middle)
      /\ us = [j \in 1 .. model.names |-> us[j]]
      /\ \A new, later : Longer(middle, new) /\ AtKept(sparse.at, later) =>
           \A j \in 1 .. model.names :
             ShapeIn(new, later, Morphs, morph.target, j, done, us[j])
  BY <1>1, <1>2, <1>4, MorphBase
<1>6. Longer(accessors, accessors') /\ Longer(middle, accessors')
  BY <1>3, <1>4, <1>5 DEF Longer
<1>7. SparseIn(sparse') /\ AtKept(sparse.at, sparse'.at)
  BY <1>1 DEF AccessRight, AtKept
<1>8. done \in Nat
  BY DEF AccessRight
<1>9. \A j \in 1 .. model.names :
        ShapeIn(accessors', sparse'.at, Morphs, morph.target, j, done + 1, us[j])
  <2> TAKE j \in 1 .. model.names
  <2>1. ShapeIn(accessors', sparse'.at, Morphs, morph.target, j, done, us[j])
    BY <1>5, <1>6, <1>7
  <2> QED
    BY <1>1, <1>8, <2>1, ShapeOther
<1> QED
  BY <1>1, <1>3, <1>5, <1>6, <1>7, <1>9, MorphsStep

LEMMA StepSparseMorph ==
  ASSUME model \in Models, AccessRight, MorphsRight, SparseMorph
  PROVE  AccessRight' /\ MorphsRight'
<1>1. /\ HasMorph /\ morph.target \in DOMAIN buffers /\ morph.at # <<>>
      /\ model' = model /\ stage' = stage /\ done' = done + 1 /\ drawn' = drawn
  BY DEF SparseMorph
<1>2. PICK m : m = morph
  OBVIOUS
<1>3. PICK k : k = done + 1
  OBVIOUS
<1>4. m = Morphs[k] /\ IsList(m.at) /\ m.at # <<>> /\ done \in Nat /\ k \in DOMAIN Morphs
  <2>1. done \in Nat /\ done < Len(Morphs)
    BY <1>1 DEF AccessRight, HasMorph
  <2>2. k \in DOMAIN Morphs
    BY <1>3, <2>1, MorphFacts
  <2> QED
    BY <1>1, <1>2, <1>3, <2>1, <2>2, MorphFacts DEF morph
<1>5. PICK s : s = sparse
  OBVIOUS
<1>6. PICK n : n = Len(m.at)
  OBVIOUS
<1>7. PICK turned : turned = Turned(m)
  OBVIOUS
<1>8. PICK l : l = Len(turned)
  OBVIOUS
<1>9. PICK deltas : deltas = Aligned(s.size, 4)
  OBVIOUS
<1>10. PICK ids : ids = Aligned(deltas + 12 * n, 2)
  OBVIOUS
<1>11. PICK normals : normals = ids + 2 * n
  OBVIOUS
<1>12. PICK again : again = IF l \in {0, n} THEN ids ELSE Aligned(normals + 3 * l, 2)
  OBVIOUS
<1>13. PICK size : size = IF l \in {0, n} THEN normals + 3 * l ELSE again + 2 * l
  OBVIOUS
<1>14. PICK one : one = With(s.at, deltas, [deltas |-> m.at, of |-> k])
  OBVIOUS
<1>15. PICK two : two = With(one, ids, m.at)
  OBVIOUS
<1>16. PICK three : three = With(two, normals, [normals |-> turned, of |-> k])
  OBVIOUS
<1>17. PICK four : four = With(three, again, turned)
  OBVIOUS
<1>18. PICK new : new = IF turned = <<>> THEN two ELSE four
  OBVIOUS
<1>19. PICK middle : middle = accessors \o Base
  OBVIOUS
<1>20. PICK first : first = Len(accessors) + Len(Base) + 1
  OBVIOUS
<1>21. PICK a : a = [holds |-> "sparse", values |-> deltas, indices |-> ids, count |-> n]
  OBVIOUS
<1>22. PICK b : b = [holds |-> "sparse", values |-> normals, indices |-> again, count |-> l]
  OBVIOUS
<1>23. PICK more : more = IF turned = <<>> THEN <<>> ELSE <<b>>
  OBVIOUS
<1>24. PICK t : t = [c \in {"POSITION"} \cup (IF turned = <<>> THEN {} ELSE {"NORMAL"}) |->
                      IF c = "POSITION" THEN first ELSE first + 1]
  OBVIOUS
<1>25. PICK old : old = Targets
  OBVIOUS
<1>26. PICK us : us = [old EXCEPT ![morph.id] = t]
  OBVIOUS
<1>27. /\ sparse' = [size |-> size, at |-> new]
       /\ accessors' = middle \o <<a>> \o more
       /\ buffers' = [buffers EXCEPT ![morph.target].morphs = us]
  BY <1>2, <1>3, <1>5, <1>6, <1>7, <1>8, <1>9, <1>10, <1>11, <1>12, <1>13, <1>14, <1>15, <1>16,
     <1>17, <1>18, <1>19, <1>20, <1>21, <1>22, <1>23, <1>24, <1>25, <1>26 DEF SparseMorph
<1>28. Layout(s, m, k, n, turned, l, deltas, ids, normals, again, size, one, two, three, four, new)
  BY <1>6, <1>7, <1>8, <1>9, <1>10, <1>11, <1>12, <1>13, <1>14, <1>15, <1>16, <1>17, <1>18 DEF Layout
<1>29. SparseIn([size |-> size, at |-> new]) /\ MorphAt(s.at, new, m, k, deltas, ids, normals, again)
  <2>1. SparseIn(s)
    BY <1>5 DEF AccessRight
  <2> QED
    BY <1>4, <1>28, <2>1, SparseWritten
<1>30. SparseIn(sparse') /\ sparse'.at = new /\ AtKept(sparse.at, new)
  BY <1>5, <1>27, <1>29 DEF MorphAt
<1>31. /\ Longer(accessors, middle)
       /\ Len(middle) = Len(accessors) + Len(Base) /\ Len(middle) \in Nat
       /\ old = [j \in 1 .. model.names |-> old[j]]
       /\ \A acc, later : Longer(middle, acc) /\ AtKept(sparse.at, later) =>
            \A j \in 1 .. model.names :
              ShapeIn(acc, later, Morphs, morph.target, j, done, old[j])
  BY <1>1, <1>19, <1>25, MorphBase
<1>32. PICK T : middle \in Seq(T)
  BY <1>31 DEF Longer
<1>33. PICK further : further = middle \o <<a>>
  OBVIOUS
<1>34. Joined(middle, <<a>>, further)
  <2>1. PICK alone : alone = <<a>>
    OBVIOUS
  <2>2. alone \in Seq({a})
    BY <2>1
  <2>3. further = middle \o alone
    BY <1>33, <2>1
  <2>4. Joined(middle, alone, further)
    BY <1>32, <2>2, <2>3, LongerConcat
  <2> QED
    BY <2>1, <2>4
<1>35. first \in DOMAIN further /\ further[first] = a /\ Len(further) = first /\ first \in Nat
  <2>1. PICK alone : alone = <<a>>
    OBVIOUS
  <2>2. Len(alone) = 1 /\ alone[1] = a
    BY <2>1
  <2>3. first = Len(middle) + 1
    BY <1>20, <1>31
  <2>4. Joined(middle, alone, further)
    BY <1>34, <2>1
  <2> QED
    BY <2>2, <2>3, <2>4 DEF Joined
<1>36. more \in Seq({b}) /\ (turned # <<>> => Len(more) = 1 /\ more[1] = b)
  <2>1. CASE turned = <<>>
    BY <1>23, <2>1
  <2>2. CASE turned # <<>>
    BY <1>23, <2>2
  <2> QED
    BY <2>1, <2>2
<1>37. PICK acc : acc = accessors'
  OBVIOUS
<1>38. Joined(further, more, acc)
  <2>1. PICK U : further \in Seq(U)
    BY <1>34 DEF Joined, Longer
  <2>2. acc = further \o more
    BY <1>27, <1>33, <1>37
  <2> QED
    BY <1>36, <2>1, <2>2, LongerConcat
<1>39. Longer(accessors, acc) /\ Longer(middle, acc)
  BY <1>31, <1>34, <1>38, LongerTwice DEF Joined
<1>40. first \in DOMAIN acc /\ acc[first] = a
  BY <1>35, <1>38 DEF Joined, Longer
<1>41. turned # <<>> => first + 1 \in DOMAIN acc /\ acc[first + 1] = b
  <2> SUFFICES ASSUME turned # <<>>
               PROVE  first + 1 \in DOMAIN acc /\ acc[first + 1] = b
    OBVIOUS
  <2>1. Len(more) = 1 /\ more[1] = b /\ Len(further) = first
    BY <1>35, <1>36
  <2> QED
    BY <1>38, <2>1 DEF Joined
<1>42. /\ DOMAIN t = {"POSITION"} \cup (IF turned = <<>> THEN {} ELSE {"NORMAL"})
       /\ t["POSITION"] = first
       /\ turned # <<>> => t["NORMAL"] = first + 1
  BY <1>24
<1>43. MovedBy(acc, new, m, k, t)
  <2>1. ReadsIn(a, new, [deltas |-> m.at, of |-> k], m.at) /\ a.values % 4 = 0
    BY <1>6, <1>21, <1>29 DEF ReadsIn, MorphAt
  <2>2. turned # <<>> => ReadsIn(b, new, [normals |-> turned, of |-> k], turned)
    BY <1>7, <1>8, <1>22, <1>29 DEF ReadsIn, MorphAt
  <2>3. "NORMAL" \in DOMAIN t <=> turned # <<>>
    <3>1. "NORMAL" # "POSITION"
      OBVIOUS
    <3> QED
      BY <1>42, <3>1
  <2> QED
    BY <1>7, <1>40, <1>41, <1>42, <2>1, <2>2, <2>3 DEF MovedBy
<1>44. PICK names : names = model.names
  OBVIOUS
<1>45. us = [j \in 1 .. names |-> us[j]]
  BY <1>26, <1>31, <1>44
<1>46. PICK v : v = morph.target
  OBVIOUS
<1>47. PICK ms : ms = Morphs
  OBVIOUS
<1>48. ASSUME NEW j \in 1 .. names
       PROVE  ShapeIn(acc, new, ms, v, j, done + 1, us[j])
  <2>1. ShapeIn(acc, new, ms, v, j, done, old[j])
    BY <1>30, <1>31, <1>39, <1>44, <1>46, <1>47, <1>48
  <2>2. DOMAIN old = 1 .. names
    BY <1>31, <1>44
  <2>3. CASE j = morph.id
    <3>1. us[j] = t
      BY <1>26, <2>2, <2>3
    <3>2. ms[done + 1] = m
      BY <1>3, <1>4, <1>47
    <3>3. m.target = v /\ m.id = j /\ m.at # <<>>
      BY <1>2, <1>4, <1>46, <2>3
    <3>4. MovedBy(acc, new, ms[done + 1], done + 1, t)
      BY <1>3, <1>43, <3>2
    <3>5. ShapeIn(acc, new, ms, v, j, done + 1, t)
      BY <1>4, <3>2, <3>3, <3>4, ShapeMoved
    <3> QED
      BY <3>1, <3>5
  <2>4. CASE j # morph.id
    <3>1. us[j] = old[j]
      BY <1>26, <2>2, <2>4
    <3>2. ms[done + 1].id # j
      BY <1>2, <1>3, <1>4, <1>47, <2>4
    <3>3. ShapeIn(acc, new, ms, v, j, done + 1, old[j])
      BY <1>4, <2>1, <3>2, ShapeOther
    <3> QED
      BY <3>1, <3>3
  <2> QED
    BY <2>3, <2>4
<1>49. \A j \in 1 .. model.names :
         ShapeIn(accessors', sparse'.at, Morphs, morph.target, j, done + 1, us[j])
  BY <1>30, <1>37, <1>44, <1>46, <1>47, <1>48
<1>50. us = [j \in 1 .. model.names |-> us[j]]
  BY <1>44, <1>45
<1> QED
  BY <1>1, <1>27, <1>30, <1>37, <1>39, <1>49, <1>50, MorphsStep

-----------------------------------------------------------------------------
(***************************************************************************)
(* The primitives in their meshes.                                         *)
(***************************************************************************)

(* Which of the first d primitives go to the mesh of a key.                *)
Mates(ks, key, d) == {i \in 1 .. d : ks[i] = key}

(* The meshes of the first d primitives, of these keys and drawings.       *)
LodIn(lm, ks, ds, d) ==
  /\ \A key : key \in DOMAIN lm <=> \E i \in 1 .. d : ks[i] = key
  /\ \A key \in DOMAIN lm :
       (\E T : lm[key] \in Seq(T)) /\ Len(lm[key]) = Cardinality(Mates(ks, key, d))
  /\ \A i \in 1 .. d :
       /\ Cardinality(Mates(ks, ks[i], i)) \in DOMAIN lm[ks[i]]
       /\ lm[ks[i]][Cardinality(Mates(ks, ks[i], i))] = ds[i]

LEMMA CountNext ==
  ASSUME NEW ks, NEW key, NEW d \in Nat
  PROVE  /\ Cardinality(Mates(ks, key, d)) \in Nat
         /\ ks[d + 1] = key =>
              Cardinality(Mates(ks, key, d + 1)) = Cardinality(Mates(ks, key, d)) + 1
         /\ ks[d + 1] # key => Mates(ks, key, d + 1) = Mates(ks, key, d)
<1>1. PICK A : A = Mates(ks, key, d)
  OBVIOUS
<1>2. PICK B : B = Mates(ks, key, d + 1)
  OBVIOUS
<1>3. IsFiniteSet(A) /\ Cardinality(A) \in Nat
  <2>1. A \subseteq 1 .. d /\ IsFiniteSet(1 .. d)
    BY <1>1, FS_Interval DEF Mates
  <2>2. IsFiniteSet(A)
    BY <2>1, FS_Subset
  <2> QED
    BY <2>2, FS_CardinalityType
<1>4. \A i : i \in B <=> i \in A \/ (i = d + 1 /\ ks[i] = key)
  BY <1>1, <1>2 DEF Mates
<1>5. d + 1 \notin A
  BY <1>1 DEF Mates
<1>6. ks[d + 1] = key => Cardinality(B) = Cardinality(A) + 1
  <2> SUFFICES ASSUME ks[d + 1] = key
               PROVE  Cardinality(B) = Cardinality(A) + 1
    OBVIOUS
  <2>1. PICK e : e = d + 1
    OBVIOUS
  <2>2. B = A \cup {e}
    BY <1>4, <2>1
  <2> QED
    BY <1>3, <1>5, <2>1, <2>2, FS_AddElement
<1>7. ks[d + 1] # key => B = A
  BY <1>4
<1> QED
  BY <1>1, <1>2, <1>3, <1>6, <1>7

Appends(s, x, new) == new = Append(s, x)

(* The next primitive goes behind the others of its mesh.                  *)
LEMMA LodNext ==
  ASSUME NEW lm, NEW ks, NEW ds, NEW d \in Nat, LodIn(lm, ks, ds, d),
         NEW key, key = ks[d + 1], NEW x, x = ds[d + 1],
         NEW before, before = IF key \in DOMAIN lm THEN lm[key] ELSE <<>>,
         NEW after, Appends(before, x, after),
         NEW new, new = With(lm, key, after)
  PROVE  LodIn(new, ks, ds, d + 1)
<1>1. PICK c : c = Cardinality(Mates(ks, key, d))
  OBVIOUS
<1>2. c \in Nat /\ Cardinality(Mates(ks, key, d + 1)) = c + 1
  BY <1>1, CountNext
<1>3. /\ \A k : k \in DOMAIN new <=> k \in DOMAIN lm \/ k = key
      /\ new[key] = after
      /\ \A k \in DOMAIN lm : k # key => new[k] = lm[k]
  BY WithFacts
<1>4. (\E T : before \in Seq(T)) /\ Len(before) = c
  <2>1. CASE key \in DOMAIN lm
    BY <1>1, <2>1 DEF LodIn
  <2>2. CASE key \notin DOMAIN lm
    <3>1. before = <<>> /\ before \in Seq({}) /\ Len(before) = 0
      BY <2>2
    <3>2. Mates(ks, key, d) = {}
      BY <2>2 DEF LodIn, Mates
    <3>3. c = 0
      BY <1>1, <3>2, FS_EmptySet
    <3> QED
      BY <3>1, <3>3
  <2> QED
    BY <2>1, <2>2
<1>5. PICK T : before \in Seq(T)
  BY <1>4
<1>6. /\ after \in Seq(T \cup {x}) /\ Len(after) = c + 1
      /\ DOMAIN before = 1 .. c /\ DOMAIN after = 1 .. c + 1
      /\ after[c + 1] = x
      /\ \A k \in 1 .. c : after[k] = before[k]
  <2>1. after = Append(before, x)
    BY DEF Appends
  <2> QED
    BY <1>4, <1>5, <2>1, Appended
<1>7. ASSUME NEW k
      PROVE  k \in DOMAIN new <=> \E i \in 1 .. d + 1 : ks[i] = k
  <2>1. k \in DOMAIN lm <=> \E i \in 1 .. d : ks[i] = k
    BY DEF LodIn
  <2>2. \A i : i \in 1 .. d + 1 <=> i \in 1 .. d \/ i = d + 1
    OBVIOUS
  <2> QED
    BY <1>3, <2>1, <2>2
<1>8. ASSUME NEW k \in DOMAIN new
      PROVE  /\ \E U : new[k] \in Seq(U)
             /\ Len(new[k]) = Cardinality(Mates(ks, k, d + 1))
  <2>1. CASE k = key
    BY <1>2, <1>3, <1>6, <2>1
  <2>2. CASE k # key
    <3>1. k \in DOMAIN lm /\ new[k] = lm[k]
      BY <1>3, <1>8, <2>2
    <3>2. Mates(ks, k, d + 1) = Mates(ks, k, d)
      BY <2>2, CountNext
    <3> QED
      BY <3>1, <3>2 DEF LodIn
  <2> QED
    BY <2>1, <2>2
<1>9. ASSUME NEW i \in 1 .. d + 1
      PROVE  /\ Cardinality(Mates(ks, ks[i], i)) \in DOMAIN new[ks[i]]
             /\ new[ks[i]][Cardinality(Mates(ks, ks[i], i))] = ds[i]
  <2>1. CASE i = d + 1
    <3>1. Cardinality(Mates(ks, ks[i], i)) = c + 1 /\ new[ks[i]] = after /\ ds[i] = x
      BY <1>2, <1>3, <2>1
    <3>2. c + 1 \in DOMAIN after
      BY <1>2, <1>6
    <3> QED
      BY <1>6, <3>1, <3>2
  <2>2. CASE i \in 1 .. d
    <3>1. PICK e : e = Cardinality(Mates(ks, ks[i], i))
      OBVIOUS
    <3>2. ks[i] \in DOMAIN lm /\ e \in DOMAIN lm[ks[i]] /\ lm[ks[i]][e] = ds[i]
      BY <2>2, <3>1 DEF LodIn
    <3>3. CASE ks[i] = key
      <4>1. e \in 1 .. c /\ before[e] = ds[i]
        BY <1>6, <3>2, <3>3
      <4>2. e \in 1 .. c + 1
        BY <1>2, <4>1
      <4>3. after[e] = ds[i] /\ e \in DOMAIN after
        BY <1>6, <4>1, <4>2
      <4>4. new[ks[i]] = after
        BY <1>3, <3>3
      <4> QED
        BY <3>1, <4>3, <4>4
    <3>4. CASE ks[i] # key
      BY <1>3, <3>1, <3>2, <3>4
    <3> QED
      BY <3>3, <3>4
  <2>3. i = d + 1 \/ i \in 1 .. d
    BY <1>9
  <2> QED
    BY <2>1, <2>2, <2>3
<1> QED
  BY <1>7, <1>8, <1>9 DEF LodIn

-----------------------------------------------------------------------------
(***************************************************************************)
(* The rows of the weights.                                                *)
(***************************************************************************)

(* Vertex m of buffer v has row r when, of the first d primitives, the     *)
(* first that covers it leads there; vs[i], cs[i] and rs[i] are the buffer *)
(* of primitive i, the vertices it covers and their rows.                  *)
RowIn(r, vs, cs, rs, v, m, d) ==
  \/ r = None /\ \A i \in 1 .. d : ~(vs[i] = v /\ m \in cs[i])
  \/ \E i \in 1 .. d :
       /\ vs[i] = v /\ m \in cs[i] /\ r = rs[i][m] /\ r # None
       /\ \A k \in 1 .. i - 1 : ~(vs[k] = v /\ m \in cs[k])

RowsIn(rows, n, vs, cs, rs, v, d) ==
  \/ rows = <<>> /\ \A i \in 1 .. d : vs[i] # v
  \/ DOMAIN rows = 1 .. n /\ \A m \in 0 .. n - 1 : RowIn(rows[m + 1], vs, cs, rs, v, m, d)

LEMMA RowOther ==
  ASSUME NEW r, NEW vs, NEW cs, NEW rs, NEW v, NEW m, NEW d \in Nat,
         RowIn(r, vs, cs, rs, v, m, d), r # None \/ vs[d + 1] # v \/ m \notin cs[d + 1]
  PROVE  RowIn(r, vs, cs, rs, v, m, d + 1)
<1>1. \A i : i \in 1 .. d + 1 <=> i \in 1 .. d \/ i = d + 1
  OBVIOUS
<1> QED
  BY <1>1 DEF RowIn

LEMMA RowHere ==
  ASSUME NEW vs, NEW cs, NEW rs, NEW v, NEW m, NEW d \in Nat,
         RowIn(None, vs, cs, rs, v, m, d), vs[d + 1] = v, m \in cs[d + 1],
         NEW r, r = rs[d + 1][m], r # None
  PROVE  RowIn(r, vs, cs, rs, v, m, d + 1)
<1>1. \A k \in 1 .. d : ~(vs[k] = v /\ m \in cs[k])
  BY DEF RowIn
<1>2. PICK i : i = d + 1
  OBVIOUS
<1>3. i \in 1 .. d + 1 /\ \A k : k \in 1 .. i - 1 <=> k \in 1 .. d
  BY <1>2
<1> QED
  BY <1>1, <1>2, <1>3 DEF RowIn

LEMMA RowsOther ==
  ASSUME NEW rows, NEW n \in Nat, NEW vs, NEW cs, NEW rs, NEW v, NEW d \in Nat,
         RowsIn(rows, n, vs, cs, rs, v, d), vs[d + 1] # v
  PROVE  RowsIn(rows, n, vs, cs, rs, v, d + 1)
<1>1. \A i : i \in 1 .. d + 1 <=> i \in 1 .. d \/ i = d + 1
  OBVIOUS
<1>2. \A m, r : RowIn(r, vs, cs, rs, v, m, d) => RowIn(r, vs, cs, rs, v, m, d + 1)
  BY RowOther
<1> QED
  BY <1>1, <1>2 DEF RowsIn

(* The rows, made when a primitive first comes to their buffer, and what   *)
(* it writes to them.                                                      *)
RowsThere(rows, n, old) == old = IF rows # <<>> THEN rows ELSE [m \in 1 .. n |-> None]

RowsAfter(old, c, r, new) ==
  new = [m \in DOMAIN old |-> IF old[m] = None /\ m - 1 \in c THEN r[m - 1] ELSE old[m]]

LEMMA RowsNext ==
  ASSUME NEW rows, NEW n \in Nat, NEW vs, NEW cs, NEW rs, NEW v, NEW d \in Nat,
         RowsIn(rows, n, vs, cs, rs, v, d), vs[d + 1] = v,
         \A m \in cs[d + 1] : rs[d + 1][m] # None,
         NEW old, RowsThere(rows, n, old), NEW new, RowsAfter(old, cs[d + 1], rs[d + 1], new)
  PROVE  RowsIn(new, n, vs, cs, rs, v, d + 1)
<1>a. old = IF rows # <<>> THEN rows ELSE [m \in 1 .. n |-> None]
  BY DEF RowsThere
<1>b. new = [m \in DOMAIN old |->
              IF old[m] = None /\ m - 1 \in cs[d + 1] THEN rs[d + 1][m - 1] ELSE old[m]]
  BY DEF RowsAfter
<1>1. DOMAIN old = 1 .. n /\ \A m \in 0 .. n - 1 : RowIn(old[m + 1], vs, cs, rs, v, m, d)
  <2>1. CASE rows # <<>>
    BY <1>a, <2>1 DEF RowsIn
  <2>2. CASE rows = <<>>
    <3>1. old = [m \in 1 .. n |-> None]
      BY <1>a, <2>2
    <3>2. CASE \A i \in 1 .. d : vs[i] # v
      <4>1. \A m \in 0 .. n - 1 : old[m + 1] = None
        BY <3>1
      <4>2. \A m : RowIn(None, vs, cs, rs, v, m, d)
        BY <3>2 DEF RowIn
      <4> QED
        BY <3>1, <4>1, <4>2
    <3>3. CASE DOMAIN rows = 1 .. n
      <4>1. DOMAIN rows = {}
        BY <2>2
      <4>2. 1 \notin 1 .. n
        BY <3>3, <4>1
      <4>3. \A m : m \notin 0 .. n - 1
        BY <4>2
      <4> QED
        BY <3>1, <4>3
    <3> QED
      BY <3>2, <3>3 DEF RowsIn
  <2> QED
    BY <2>1, <2>2
<1>2. ASSUME NEW m \in 0 .. n - 1
      PROVE  RowIn(new[m + 1], vs, cs, rs, v, m, d + 1)
  <2>1. PICK e : e = m + 1
    OBVIOUS
  <2>2. e \in 1 .. n /\ e - 1 = m /\ e \in DOMAIN old
    BY <1>1, <2>1
  <2>3. RowIn(old[e], vs, cs, rs, v, m, d)
    BY <1>1, <2>1
  <2>4. CASE old[e] = None /\ m \in cs[d + 1]
    <3>1. new[e] = rs[d + 1][m]
      BY <1>b, <2>2, <2>4
    <3>2. PICK r : r = rs[d + 1][m]
      OBVIOUS
    <3>3. RowIn(None, vs, cs, rs, v, m, d) /\ r # None
      BY <2>3, <2>4, <3>2
    <3>4. RowIn(r, vs, cs, rs, v, m, d + 1)
      BY <2>4, <3>2, <3>3, RowHere
    <3> QED
      BY <2>1, <3>1, <3>2, <3>4
  <2>5. CASE ~(old[e] = None /\ m \in cs[d + 1])
    <3>1. new[e] = old[e]
      BY <1>b, <2>2, <2>5
    <3>2. RowIn(old[e], vs, cs, rs, v, m, d + 1)
      BY <2>3, <2>5, RowOther
    <3> QED
      BY <2>1, <3>1, <3>2
  <2> QED
    BY <2>4, <2>5
<1>3. DOMAIN new = 1 .. n
  BY <1>1, <1>b
<1> QED
  BY <1>2, <1>3 DEF RowsIn

-----------------------------------------------------------------------------
Places == [i \in DOMAIN model.prims |-> MeshKey(model.prims[i])]

Drawings ==
  [i \in DOMAIN model.prims |->
    [indices    |-> drawn[model.prims[i].index],
     attributes |-> Attributes(model.prims[i]),
     targets    |-> buffers[model.prims[i].vertex].morphs]]

On == [i \in DOMAIN model.prims |-> model.prims[i].vertex]

Covers == [i \in DOMAIN model.prims |-> Covered(model.prims[i])]

RowsOf ==
  [i \in DOMAIN model.prims |-> [m \in Covered(model.prims[i]) |-> Row(model.prims[i], m)]]

PrimsPlaced == IF stage = "prims" THEN done ELSE Len(model.prims)

RowsRight ==
  HasWeights =>
    /\ \A i \in 1 .. PrimsPlaced : ~Unweighable(model.prims[i])
    /\ \A v \in DOMAIN buffers :
         RowsIn(buffers[v].rows, model.vertices[v].count, On, Covers, RowsOf, v, PrimsPlaced)

PlacedRight ==
  /\ PrimsPlaced <= Len(model.prims)
  /\ LodIn(lodMeshes, Places, Drawings, PrimsPlaced)
  /\ RowsRight

LEMMA ListedKept ==
  ASSUME model' = model
  PROVE  On' = On /\ Covers' = Covers /\ RowsOf' = RowsOf
<1>1. On' = On
  BY DEF On
<1>2. Covers' = Covers
  BY RowsKept DEF Covers
<1>3. RowsOf' = RowsOf
  BY RowsKept DEF RowsOf
<1> QED
  BY <1>1, <1>2, <1>3

(* Only rows change.                                                       *)
OnlyRows ==
  /\ buffers' = [v \in DOMAIN buffers' |-> buffers'[v]]
  /\ DOMAIN buffers' = DOMAIN buffers
  /\ \A v \in DOMAIN buffers :
       /\ DOMAIN buffers'[v] = DOMAIN buffers[v]
       /\ buffers'[v].attrs = buffers[v].attrs /\ buffers'[v].morphs = buffers[v].morphs

LEMMA DrawingsKept ==
  ASSUME AccessRight, PrimsDrawn = Len(model.prims), model \in Models,
         model' = model, drawn' = drawn, OnlyRows
  PROVE  Places' = Places /\ Drawings' = Drawings
<1>1. ASSUME NEW i \in DOMAIN model.prims
      PROVE  /\ MeshKey(model.prims[i])' = MeshKey(model.prims[i])
             /\ Attributes(model.prims[i])' = Attributes(model.prims[i])
             /\ buffers'[model.prims[i].vertex].morphs = buffers[model.prims[i].vertex].morphs
  <2>1. i \in 1 .. PrimsDrawn
    BY <1>1, ModelLists
  <2>2. PICK v : v = model.prims[i].vertex
    OBVIOUS
  <2>3. v \in DOMAIN buffers
    BY <2>1, <2>2 DEF AccessRight
  <2>4. buffers'[v].attrs = buffers[v].attrs /\ buffers'[v].morphs = buffers[v].morphs
    BY <2>3 DEF OnlyRows
  <2>5. HasWeights' = HasWeights
    BY DEF HasWeights
  <2> QED
    BY <2>2, <2>4, <2>5 DEF MeshKey, Attributes
<1>2. Places' = Places
  BY <1>1 DEF Places
<1>3. Drawings' = Drawings
  BY <1>1 DEF Drawings
<1> QED
  BY <1>2, <1>3

(* A step after the morph targets, or one that ends a list.                *)
LEMMA StepRows ==
  ASSUME AccessRight, MorphsRight, model' = model, drawn' = drawn, sparse' = sparse,
         Longer(accessors, accessors'), done' \in Nat, OnlyRows,
         \A i \in 1 .. PrimsDrawn' : i \in 1 .. PrimsDrawn, MorphsDone' = MorphsDone
  PROVE  AccessRight' /\ MorphsRight'
<1>1. SparseIn(sparse')
  BY DEF AccessRight
<1>2. AccessRight'
  BY <1>1, AccessKept DEF OnlyRows
<1>3. Morphs' = Morphs /\ AtKept(sparse.at, sparse'.at)
  BY ListsKept DEF AtKept
<1>4. ASSUME NEW v \in DOMAIN buffers
      PROVE  TargetsIn(accessors', sparse'.at, Morphs', v, model'.names, MorphsDone', buffers'[v].morphs)
  <2>1. TargetsIn(accessors, sparse.at, Morphs, v, model.names, MorphsDone, buffers[v].morphs)
    BY <1>4 DEF MorphsRight
  <2>2. buffers'[v].morphs = buffers[v].morphs
    BY <1>4 DEF OnlyRows
  <2>3. TargetsIn(accessors', sparse'.at, Morphs, v, model.names, MorphsDone, buffers[v].morphs)
    BY <1>3, <2>1, TargetsKept
  <2> QED
    BY <1>3, <2>2, <2>3
<1>5. MorphsRight'
  BY <1>4 DEF MorphsRight, OnlyRows
<1> QED
  BY <1>2, <1>5

LEMMA SameRows ==
  ASSUME AccessRight, buffers' = buffers
  PROVE  OnlyRows
BY DEF AccessRight, BuffersIn, OnlyRows

LEMMA SameAccessors ==
  ASSUME AccessRight, accessors' = accessors
  PROVE  Longer(accessors, accessors')
BY DEF AccessRight, Longer

(* DrawPrim: a primitive goes to its mesh, and its rows where no other     *)
(* primitive's are.                                                        *)
LEMMA StepDrawPrim ==
  ASSUME model \in Models, AccessRight, MorphsRight, PlacedRight, DrawPrim
  PROVE  AccessRight' /\ MorphsRight' /\ PlacedRight'
<1>1. /\ stage = "prims" /\ stage' = stage /\ model' = model /\ done' = done + 1
      /\ drawn' = drawn /\ sparse' = sparse /\ accessors' = accessors
      /\ done < Len(model.prims)
      /\ HasWeights => ~Unweighable(prim)
  BY DEF DrawPrim, HasPrim
<1>2. PICK d : d = done
  OBVIOUS
<1>3. d \in Nat /\ d + 1 \in DOMAIN model.prims /\ done' \in Nat /\ done' = d + 1
  BY <1>1, <1>2, ModelLists DEF AccessRight
<1>4. PICK v : v = prim.vertex
  OBVIOUS
<1>5. prim = model.prims[d + 1] /\ v = model.prims[d + 1].vertex
  BY <1>2, <1>4 DEF prim
<1>6. PrimsDrawn = Len(model.prims) /\ PrimsDrawn' = Len(model.prims) /\ MorphsDone = Len(Morphs)
      /\ MorphsDone' = Len(Morphs) /\ PrimsPlaced = d /\ PrimsPlaced' = d + 1
  BY <1>1, <1>2, ListsKept DEF PrimsDrawn, MorphsDone, PrimsPlaced
<1>7. PICK rows : rows = Rows
  OBVIOUS
<1>8. buffers' = IF HasWeights THEN [buffers EXCEPT ![v].rows = rows] ELSE buffers
  BY <1>4, <1>7 DEF DrawPrim
<1>9. OnlyRows
  <2>1. CASE ~HasWeights
    BY <1>8, <2>1, SameRows
  <2>2. CASE HasWeights
    <3>1. buffers' = [buffers EXCEPT ![v].rows = rows]
      BY <1>8, <2>2
    <3>2. \A w \in DOMAIN buffers : DOMAIN buffers[w] = {"attrs", "morphs", "rows"}
      BY DEF AccessRight, BuffersIn, BufferIn
    <3>3. ASSUME NEW w \in DOMAIN buffers
          PROVE  /\ DOMAIN buffers'[w] = DOMAIN buffers[w]
                 /\ buffers'[w].attrs = buffers[w].attrs /\ buffers'[w].morphs = buffers[w].morphs
      <4>1. CASE w = v
        <5>1. buffers'[w] = [buffers[w] EXCEPT !.rows = rows]
          BY <3>1, <3>3, <4>1
        <5> QED
          BY <3>2, <3>3, <5>1
      <4>2. CASE w # v
        <5>1. buffers'[w] = buffers[w]
          BY <3>1, <3>3, <4>2
        <5> QED
          BY <5>1
      <4> QED
        BY <4>1, <4>2
    <3> QED
      BY <3>1, <3>3 DEF OnlyRows
  <2> QED
    BY <2>1, <2>2
<1>10. AccessRight' /\ MorphsRight'
  <2>1. \A i \in 1 .. PrimsDrawn' : i \in 1 .. PrimsDrawn
    BY <1>6
  <2> QED
    BY <1>1, <1>3, <1>6, <1>9, <2>1, SameAccessors, StepRows
<1>11. Places' = Places /\ Drawings' = Drawings
  BY <1>1, <1>6, <1>9, DrawingsKept
<1>12. v \in DOMAIN buffers /\ v \in DOMAIN model.vertices
  <2>1. d + 1 \in 1 .. PrimsDrawn
    BY <1>1, <1>3, <1>6, ModelLists
  <2>2. v \in DOMAIN buffers
    BY <1>5, <2>1 DEF AccessRight
  <2> QED
    BY <2>2 DEF AccessRight, BuffersIn
<1>13. LodIn(lodMeshes', Places, Drawings, d + 1)
  <2>1. PICK ks, ds : ks = Places /\ ds = Drawings
    OBVIOUS
  <2>2. PICK key : key = MeshKey(prim)
    OBVIOUS
  <2>3. PICK before : before = IF key \in DOMAIN lodMeshes THEN lodMeshes[key] ELSE <<>>
    OBVIOUS
  <2>4. PICK x : x = [indices    |-> drawn[prim.index],
                      attributes |-> Attributes(prim),
                      targets    |-> buffers[prim.vertex].morphs]
    OBVIOUS
  <2>5. PICK after : after = Append(before, x)
    OBVIOUS
  <2>6. lodMeshes' = With(lodMeshes, key, after)
    BY <2>2, <2>3, <2>4, <2>5 DEF DrawPrim
  <2>7. key = ks[d + 1] /\ x = ds[d + 1]
    BY <1>3, <1>5, <2>1, <2>2, <2>4 DEF Places, Drawings
  <2>8. Appends(before, x, after)
    BY <2>5 DEF Appends
  <2>9. PICK lm, new : lm = lodMeshes /\ new = lodMeshes'
    OBVIOUS
  <2>10. LodIn(lm, ks, ds, d)
    BY <1>6, <2>1, <2>9 DEF PlacedRight
  <2>11. /\ before = IF key \in DOMAIN lm THEN lm[key] ELSE <<>>
         /\ new = With(lm, key, after)
    BY <2>3, <2>6, <2>9
  <2>12. LodIn(new, ks, ds, d + 1)
    BY <1>3, <2>7, <2>8, <2>10, <2>11, LodNext
  <2> QED
    BY <2>1, <2>9, <2>12
<1>14. PICK vs, cs, rs : vs = On /\ cs = Covers /\ rs = RowsOf
  OBVIOUS
<1>15. vs' = vs /\ On' = vs /\ Covers' = cs /\ RowsOf' = rs /\ HasWeights' = HasWeights
  BY <1>1, <1>14, ListedKept, ListsKept
<1>16. vs[d + 1] = v /\ cs[d + 1] = Covered(prim)
       /\ \A m \in Covered(prim) : rs[d + 1][m] = Row(prim, m)
  BY <1>3, <1>5, <1>14 DEF On, Covers, RowsOf
<1>17. ASSUME HasWeights, NEW w \in DOMAIN buffers
       PROVE  RowsIn(buffers'[w].rows, model.vertices[w].count, vs, cs, rs, w, d + 1)
  <2>1. PICK n : n = model.vertices[w].count
    OBVIOUS
  <2>2. n \in Nat
    <3>1. w \in DOMAIN model.vertices
      BY <1>17 DEF AccessRight, BuffersIn
    <3> QED
      BY <2>1, <3>1, MeshAssumption
  <2>3. RowsIn(buffers[w].rows, n, vs, cs, rs, w, d)
    BY <1>6, <1>14, <1>17, <2>1 DEF PlacedRight, RowsRight
  <2>4. buffers' = [buffers EXCEPT ![v].rows = rows]
    BY <1>8, <1>17
  <2>5. CASE w # v
    <3>1. buffers'[w] = buffers[w]
      BY <1>17, <2>4, <2>5
    <3>2. vs[d + 1] # w
      BY <1>16, <2>5
    <3>3. RowsIn(buffers[w].rows, n, vs, cs, rs, w, d + 1)
      BY <1>3, <2>2, <2>3, <3>2, RowsOther
    <3> QED
      BY <2>1, <3>1, <3>3
  <2>6. CASE w = v
    <3>1. buffers'[w].rows = rows
      <4>1. DOMAIN buffers[w] = {"attrs", "morphs", "rows"}
        BY <1>17 DEF AccessRight, BuffersIn, BufferIn
      <4>2. buffers'[w] = [buffers[w] EXCEPT !.rows = rows]
        BY <1>17, <2>4, <2>6
      <4> QED
        BY <4>1, <4>2
    <3>2. PICK were : were = buffers[w].rows
      OBVIOUS
    <3>3. PICK old : old = IF were # <<>> THEN were ELSE [m \in 1 .. n |-> None]
      OBVIOUS
    <3>4. rows = [m \in DOMAIN old |->
                   IF old[m] = None /\ m - 1 \in Covered(prim) THEN Row(prim, m - 1) ELSE old[m]]
      BY <1>4, <1>7, <2>1, <2>6, <3>2, <3>3 DEF Rows
    <3>5. rows = [m \in DOMAIN old |->
                   IF old[m] = None /\ m - 1 \in cs[d + 1] THEN rs[d + 1][m - 1] ELSE old[m]]
      BY <1>16, <3>4
    <3>6. \A m \in cs[d + 1] : rs[d + 1][m] # None
      <4> TAKE m \in cs[d + 1]
      <4>1. m \in Covered(model.prims[d + 1]) /\ ~Unweighable(model.prims[d + 1])
        BY <1>1, <1>5, <1>16, <1>17
      <4>2. Row(model.prims[d + 1], m) \in Nat
        BY <1>3, <1>17, <4>1, RowFacts
      <4>3. rs[d + 1][m] = Row(model.prims[d + 1], m)
        BY <1>5, <1>16
      <4> QED
        BY <4>2, <4>3, MeshAssumption
    <3>7. RowsIn(were, n, vs, cs, rs, w, d)
      BY <2>3, <3>2
    <3>8. RowsIn(rows, n, vs, cs, rs, w, d + 1)
      <4>1. RowsThere(were, n, old)
        BY <3>3 DEF RowsThere
      <4>2. RowsAfter(old, cs[d + 1], rs[d + 1], rows)
        BY <3>5 DEF RowsAfter
      <4> QED
        BY <1>3, <1>16, <2>2, <2>6, <3>6, <3>7, <4>1, <4>2, RowsNext
    <3> QED
      BY <2>1, <3>1, <3>8
  <2> QED
    BY <2>5, <2>6
<1>18. RowsRight'
  <2> SUFFICES ASSUME HasWeights
               PROVE  /\ \A i \in 1 .. d + 1 : ~Unweighable(model.prims[i])'
                      /\ \A w \in DOMAIN buffers :
                           RowsIn(buffers'[w].rows, model.vertices[w].count, vs, cs, rs, w, d + 1)
    BY <1>1, <1>6, <1>9, <1>15 DEF RowsRight, OnlyRows
  <2>1. ASSUME NEW i \in 1 .. d + 1
        PROVE  ~Unweighable(model.prims[i])'
    <3>1. ~Unweighable(model.prims[i])
      <4>1. CASE i = d + 1
        BY <1>1, <1>5, <4>1
      <4>2. CASE i \in 1 .. d
        BY <1>6, <4>2 DEF PlacedRight, RowsRight
      <4> QED
        BY <1>3, <2>1, <4>1, <4>2
    <3>2. \A p : Unweighable(p)' <=> Unweighable(p)
      BY <1>1, RowsKept
    <3> QED
      BY <1>1, <3>1, <3>2 DEF Unweighable, Unhandled, Level, Used, Ids
  <2> QED
    BY <1>17, <2>1
<1>19. PlacedRight'
  <2>1. d + 1 <= Len(model.prims)
    BY <1>1, <1>2, <1>3, ModelLists
  <2> QED
    BY <1>1, <1>6, <1>11, <1>13, <1>18, <2>1 DEF PlacedRight
<1> QED
  BY <1>10, <1>19

LEMMA PlacedKept ==
  ASSUME model \in Models, AccessRight, PlacedRight, PrimsDrawn = Len(model.prims),
         model' = model, drawn' = drawn, buffers' = buffers, lodMeshes' = lodMeshes,
         PrimsPlaced' = PrimsPlaced
  PROVE  PlacedRight'
<1>1. Places' = Places /\ Drawings' = Drawings
  BY SameRows, DrawingsKept
<1>2. On' = On /\ Covers' = Covers /\ RowsOf' = RowsOf /\ HasWeights' = HasWeights
  BY ListedKept, ListsKept
<1>3. \A i \in 1 .. PrimsPlaced :
        ~Unweighable(model.prims[i]) => ~Unweighable(model.prims[i])'
  <2> TAKE i \in 1 .. PrimsPlaced
  <2>1. \A p : Unweighable(p)' <=> Unweighable(p)
    BY RowsKept
  <2> QED
    BY <2>1 DEF Unweighable, Unhandled, Level, Used, Ids
<1>4. RowsRight'
  BY <1>2, <1>3 DEF PlacedRight, RowsRight
<1> QED
  BY <1>1, <1>4 DEF PlacedRight

-----------------------------------------------------------------------------
(***************************************************************************)
(* The weights, written buffer by buffer, and the meshes.                  *)
(***************************************************************************)
WtsIn(acc, a, rows) ==
  /\ a \in Nat /\ a \in DOMAIN acc /\ acc[a] = [holds |-> "weights", rows |-> rows]
  /\ a + 1 \in DOMAIN acc /\ acc[a + 1] = [holds |-> "joints", rows |-> rows]

WrittenRight ==
  \A v \in DOMAIN wtsMap : v \in DOMAIN buffers /\ WtsIn(accessors, wtsMap[v], buffers[v].rows)

LEMMA StepWriteWeights ==
  ASSUME AccessRight, WrittenRight, WriteWeights
  PROVE  Longer(accessors, accessors') /\ WrittenRight'
<1>1. PICK v \in Unwritten :
        /\ wtsMap' = With(wtsMap, v, Len(accessors) + 1)
        /\ accessors' = accessors \o <<[holds |-> "weights", rows |-> buffers[v].rows],
                                       [holds |-> "joints", rows |-> buffers[v].rows]>>
  BY DEF WriteWeights
<1>2. buffers' = buffers
  BY DEF WriteWeights
<1>3. v \in DOMAIN buffers /\ v \notin DOMAIN wtsMap
  BY DEF Unwritten
<1>4. PICK a, b : /\ a = [holds |-> "weights", rows |-> buffers[v].rows]
                  /\ b = [holds |-> "joints", rows |-> buffers[v].rows]
  OBVIOUS
<1>5. PICK more : more = <<a, b>>
  OBVIOUS
<1>6. PICK T : accessors \in Seq(T)
  BY DEF AccessRight
<1>7. more \in Seq({a, b}) /\ Len(more) = 2 /\ more[1] = a /\ more[2] = b
  BY <1>5
<1>8. PICK acc : acc = accessors'
  OBVIOUS
<1>9. acc = accessors \o more
  BY <1>1, <1>4, <1>5, <1>8
<1>10. Joined(accessors, more, acc)
  BY <1>6, <1>7, <1>9, LongerConcat
<1>11. PICK at : at = Len(accessors) + 1
  OBVIOUS
<1>12. WtsIn(acc, at, buffers[v].rows)
  <2>1. Len(accessors) \in Nat /\ at \in Nat
    BY <1>10, <1>11 DEF Joined
  <2>2. acc[Len(accessors) + 1] = a /\ acc[Len(accessors) + 2] = b
    BY <1>7, <1>10 DEF Joined
  <2>3. at \in DOMAIN acc /\ at + 1 \in DOMAIN acc
    BY <1>7, <1>10, <1>11, <2>1 DEF Joined
  <2>4. Len(accessors) + 2 = at + 1
    BY <1>11, <2>1
  <2> QED
    BY <1>4, <1>11, <2>1, <2>2, <2>3, <2>4 DEF WtsIn
<1>13. Longer(accessors, acc)
  BY <1>10 DEF Joined
<1>14. PICK new : new = wtsMap'
  OBVIOUS
<1>15. /\ \A w : w \in DOMAIN new <=> w \in DOMAIN wtsMap \/ w = v
       /\ new[v] = at
       /\ \A w \in DOMAIN wtsMap : w # v => new[w] = wtsMap[w]
  <2>1. new = With(wtsMap, v, at)
    BY <1>1, <1>11, <1>14
  <2> QED
    BY <2>1, WithFacts
<1>16. ASSUME NEW w \in DOMAIN new
       PROVE  w \in DOMAIN buffers /\ WtsIn(acc, new[w], buffers[w].rows)
  <2>1. CASE w = v
    BY <1>3, <1>12, <1>15, <2>1
  <2>2. CASE w # v
    <3>1. w \in DOMAIN wtsMap /\ new[w] = wtsMap[w]
      BY <1>15, <1>16, <2>2
    <3>2. w \in DOMAIN buffers /\ WtsIn(accessors, wtsMap[w], buffers[w].rows)
      BY <3>1 DEF WrittenRight
    <3> QED
      BY <1>13, <3>1, <3>2 DEF WtsIn, Longer
  <2> QED
    BY <2>1, <2>2
<1>17. WrittenRight'
  BY <1>2, <1>8, <1>14, <1>16 DEF WrittenRight
<1> QED
  BY <1>8, <1>13, <1>17

PrimsOf(key) == [i \in DOMAIN lodMeshes[key] |-> Resolved(lodMeshes[key][i])]

MadeRight ==
  /\ \E T : meshes \in Seq(T)
  /\ \A n \in DOMAIN meshes :
       meshes[n].key \in DOMAIN lodMeshes /\ meshes[n].prims = PrimsOf(meshes[n].key)
  /\ \A n, o \in DOMAIN meshes : meshes[n].key = meshes[o].key => n = o

LEMMA ResolvedKept ==
  ASSUME model' = model, wtsMap' = wtsMap, lodMeshes' = lodMeshes
  PROVE  \A key : PrimsOf(key)' = PrimsOf(key)
<1>1. HasWeights' = HasWeights
  BY ListsKept
<1>2. \A p : Resolved(p)' = Resolved(p)
  BY <1>1 DEF Resolved
<1> QED
  BY <1>2 DEF PrimsOf

LEMMA StepMesh ==
  ASSUME MadeRight, MakeMesh
  PROVE  MadeRight'
<1>1. model' = model /\ wtsMap' = wtsMap /\ lodMeshes' = lodMeshes
  BY DEF MakeMesh
<1>2. PICK key \in Unmade :
        meshes' = Append(meshes, [key |-> key, prims |-> PrimsOf(key)])
  BY DEF MakeMesh, PrimsOf
<1>3. key \in DOMAIN lodMeshes /\ \A n \in DOMAIN meshes : meshes[n].key # key
  BY DEF Unmade
<1>4. PICK x : x = [key |-> key, prims |-> PrimsOf(key)]
  OBVIOUS
<1>5. PICK new : new = meshes'
  OBVIOUS
<1>6. PICK T : meshes \in Seq(T)
  BY DEF MadeRight
<1>7. new = Append(meshes, x)
  BY <1>2, <1>4, <1>5
<1>8. PICK c : c = Len(meshes)
  OBVIOUS
<1>9. /\ new \in Seq(T \cup {x}) /\ c \in Nat
      /\ DOMAIN meshes = 1 .. c /\ DOMAIN new = 1 .. c + 1
      /\ new[c + 1] = x /\ \A n \in 1 .. c : new[n] = meshes[n]
  BY <1>6, <1>7, <1>8, Appended
<1>10. x.key = key /\ x.prims = PrimsOf(key)
  BY <1>4
<1>11. \A n \in DOMAIN new : n = c + 1 \/ n \in DOMAIN meshes
  BY <1>9
<1>12. \A n \in DOMAIN new :
         new[n].key \in DOMAIN lodMeshes /\ new[n].prims = PrimsOf(new[n].key)
  BY <1>3, <1>9, <1>10, <1>11 DEF MadeRight
<1>13. ASSUME NEW n \in DOMAIN new, NEW o \in DOMAIN new, new[n].key = new[o].key
       PROVE  n = o
  <2>1. \A i \in DOMAIN meshes : new[i] = meshes[i] /\ new[i].key # key
    BY <1>3, <1>9
  <2>2. CASE n \in DOMAIN meshes /\ o \in DOMAIN meshes
    BY <1>13, <2>1, <2>2 DEF MadeRight
  <2>3. CASE n = c + 1 \/ o = c + 1
    BY <1>9, <1>10, <1>11, <1>13, <2>1, <2>3
  <2> QED
    BY <1>11, <2>2, <2>3
<1>14. \A k : PrimsOf(k)' = PrimsOf(k)
  BY <1>1, ResolvedKept
<1>15. \A n \in DOMAIN new :
         new[n].key \in DOMAIN lodMeshes' /\ new[n].prims = PrimsOf(new[n].key)'
  <2> TAKE n \in DOMAIN new
  <2>1. PICK k : k = new[n].key
    OBVIOUS
  <2>2. PrimsOf(k)' = PrimsOf(k) /\ new[n].prims = PrimsOf(k)
    BY <1>12, <1>14, <2>1
  <2> QED
    BY <1>1, <1>12, <2>1, <2>2
<1> QED
  BY <1>5, <1>9, <1>13, <1>15 DEF MadeRight

-----------------------------------------------------------------------------
(***************************************************************************)
(* The invariant of what is drawn.                                         *)
(***************************************************************************)
Placing == {"prims", "weights", "meshes", "saved"}

Blank ==
  /\ accessors = <<>> /\ sparse = [size |-> 0, at |-> NoEntries] /\ drawn = NoEntries
  /\ buffers = NoEntries /\ lodMeshes = NoEntries /\ wtsMap = NoEntries /\ meshes = <<>>

Unplaced == lodMeshes = NoEntries /\ \A v \in DOMAIN buffers : buffers[v].rows = <<>>

DrawInv ==
  /\ stage \notin Late \cup {"refused"} => Blank
  /\ stage \in Late => AccessRight /\ MorphsRight
  /\ stage \in {"buffers", "morphs"} => Unplaced
  /\ stage \in Placing => PlacedRight
  /\ stage \in {"buffers", "morphs", "prims"} => wtsMap = NoEntries
  /\ stage \in {"weights", "meshes", "saved"} => WrittenRight
  /\ stage \in {"buffers", "morphs", "prims", "weights"} => meshes = <<>>
  /\ stage \in {"meshes", "saved"} => Unwritten = {} /\ MadeRight
  /\ stage = "saved" => Unmade = {}

LEMMA BeginDrawing ==
  ASSUME Blank', stage' = "buffers", done' = 0
  PROVE  DrawInv'
<1>1. /\ accessors' = <<>> /\ sparse' = [size |-> 0, at |-> NoEntries] /\ drawn' = NoEntries
      /\ buffers' = NoEntries /\ lodMeshes' = NoEntries /\ wtsMap' = NoEntries /\ meshes' = <<>>
  BY DEF Blank
<1>2. DOMAIN NoEntries = {} /\ NoEntries = [v \in DOMAIN NoEntries |-> NoEntries[v]]
  BY DEF NoEntries
<1>3. AccessRight'
  <2>1. accessors' \in Seq({})
    BY <1>1
  <2>2. SparseIn(sparse')
    BY <1>1, <1>2 DEF SparseIn
  <2>3. BuffersIn(accessors, buffers)'
    BY <1>1, <1>2 DEF BuffersIn
  <2>4. PrimsDrawn' = 0 /\ \A i : i \notin 1 .. 0
    BY DEF PrimsDrawn
  <2> QED
    BY <1>1, <1>2, <2>1, <2>2, <2>3, <2>4 DEF AccessRight
<1>4. MorphsRight' /\ Unplaced'
  BY <1>1, <1>2 DEF MorphsRight, Unplaced
<1> QED
  BY <1>1, <1>3, <1>4 DEF DrawInv, Late, Placing

LEMMA StepBegin ==
  ASSUME DrawInv, MakeNodes
  PROVE  DrawInv'
<1>1. /\ stage \in {"open", "skeleton", "load", "skins"}
      /\ \/ stage' \in {"open", "skeleton", "load", "skins", "refused"}
         \/ stage' = "buffers" /\ done' = 0
  <2>1. CASE RefuseVersion \/ RefuseArchive \/ RefuseOrder \/ RefuseModel
    <3>1. stage \in {"open", "skeleton", "load"} /\ stage' = "refused"
      <4>1. CASE RefuseVersion
        BY <4>1 DEF RefuseVersion, Refuse
      <4>2. CASE RefuseArchive
        BY <4>2 DEF RefuseArchive, Refuse
      <4>3. CASE RefuseOrder
        BY <4>3 DEF RefuseOrder, HasLink, Refuse
      <4>4. CASE RefuseModel
        BY <4>4 DEF RefuseModel, Refuse
      <4> QED
        BY <2>1, <4>1, <4>2, <4>3, <4>4
    <3> QED
      BY <3>1
  <2>2. CASE NoSkeleton \/ EndSkeleton
    <3>1. stage \in {"open", "skeleton"} /\ stage' = "load"
      BY <2>2 DEF NoSkeleton, EndSkeleton, GoTo
    <3> QED
      BY <3>1
  <2>3. CASE BeginSkeleton
    <3>1. stage = "open" /\ stage' = "skeleton"
      BY <2>3 DEF BeginSkeleton, GoTo
    <3> QED
      BY <3>1
  <2>4. CASE AddLink
    <3>1. stage = "skeleton" /\ stage' = "skeleton"
      BY <2>4 DEF AddLink, HasLink
    <3> QED
      BY <3>1
  <2>5. CASE LoadModel
    <3>1. stage = "load" /\ stage' = "skins"
      BY <2>5 DEF LoadModel, GoTo
    <3> QED
      BY <3>1
  <2>6. CASE BeginSkin
    <3>1. stage = "skins" /\ stage' = "skins"
      BY <2>6 DEF BeginSkin
    <3> QED
      BY <3>1
  <2>7. CASE KnownJoint \/ MissingBone \/ MissingRoot
    <3>1. stage = "skins" /\ stage' = "skins"
      BY <2>7 DEF KnownJoint, MissingBone, MissingRoot, HasJoint
    <3> QED
      BY <3>1
  <2>8. CASE EndSkins
    <3>1. stage = "skins" /\ stage' = "buffers" /\ done' = 0
      BY <2>8 DEF EndSkins, GoTo
    <3> QED
      BY <3>1
  <2> QED
    BY <2>1, <2>2, <2>3, <2>4, <2>5, <2>6, <2>7, <2>8 DEF MakeNodes, LoadSkeleton, ProcessSkins
<1>2. Blank
  BY <1>1 DEF DrawInv, Late
<1>3. Blank'
  BY <1>2 DEF MakeNodes, drawVars, Blank
<1>4. CASE stage' = "buffers"
  BY <1>1, <1>3, <1>4, BeginDrawing
<1>5. CASE stage' # "buffers"
  BY <1>1, <1>3, <1>5 DEF DrawInv, Late, Placing
<1> QED
  BY <1>4, <1>5

LEMMA StepBuffers ==
  ASSUME model \in Models, DrawInv, DrawBuffers \/ EndBuffers
  PROVE  DrawInv'
<1>1. stage = "buffers"
  BY DEF DrawBuffers, EndBuffers
<1>2. AccessRight /\ MorphsRight /\ Unplaced /\ wtsMap = NoEntries /\ meshes = <<>>
  BY <1>1 DEF DrawInv, Late
<1>3. CASE DrawBuffers
  <2>1. /\ stage' = "buffers" /\ model' = model /\ sparse' = sparse /\ lodMeshes' = lodMeshes
        /\ wtsMap' = wtsMap /\ meshes' = meshes
    BY <1>1, <1>3 DEF DrawBuffers
  <2>2. /\ AccessRight' /\ Longer(accessors, accessors')
        /\ \A v \in DOMAIN buffers : v \in DOMAIN buffers' /\ buffers'[v] = buffers[v]
        /\ \A v \in DOMAIN buffers' \ DOMAIN buffers :
             buffers'[v].morphs = <<>> /\ buffers'[v].rows = <<>>
    BY <1>2, <1>3, StepDrawBuffers
  <2>3. MorphsDone = 0 /\ MorphsDone' = 0 /\ Morphs' = Morphs /\ AtKept(sparse.at, sparse'.at)
    BY <1>1, <2>1, ListsKept DEF MorphsDone, AtKept
  <2>4. ASSUME NEW v \in DOMAIN buffers'
        PROVE  TargetsIn(accessors', sparse'.at, Morphs, v, model.names, 0, buffers'[v].morphs)
    <3>1. CASE v \in DOMAIN buffers
      <4>1. TargetsIn(accessors, sparse.at, Morphs, v, model.names, 0, buffers[v].morphs)
        BY <1>2, <2>3, <3>1 DEF MorphsRight
      <4>2. TargetsIn(accessors', sparse'.at, Morphs, v, model.names, 0, buffers[v].morphs)
        BY <2>2, <2>3, <4>1, TargetsKept
      <4> QED
        BY <2>2, <3>1, <4>2
    <3>2. CASE v \notin DOMAIN buffers
      <4>1. buffers'[v].morphs = <<>> /\ \A k : k \notin 1 .. 0
        BY <2>2, <2>4, <3>2
      <4> QED
        BY <4>1 DEF TargetsIn
    <3> QED
      BY <3>1, <3>2
  <2>5. MorphsRight'
    BY <2>1, <2>3, <2>4 DEF MorphsRight
  <2>6. \A v \in DOMAIN buffers' : buffers'[v].rows = <<>>
    BY <1>2, <2>2 DEF Unplaced
  <2>7. Unplaced'
    BY <1>2, <2>1, <2>6 DEF Unplaced
  <2> QED
    BY <1>2, <2>1, <2>2, <2>5, <2>7 DEF DrawInv, Late, Placing
<1>4. CASE EndBuffers
  <2>1. /\ stage' = "morphs" /\ done' = 0 /\ model' = model /\ drawn' = drawn
        /\ sparse' = sparse /\ accessors' = accessors /\ buffers' = buffers
        /\ lodMeshes' = lodMeshes /\ wtsMap' = wtsMap /\ meshes' = meshes
        /\ ~(done < Len(model.prims))
    BY <1>4 DEF EndBuffers, GoTo, drawVars, HasPrim
  <2>2. MorphsDone' = MorphsDone
    BY <1>1, <2>1 DEF MorphsDone
  <2>3. \A i \in 1 .. PrimsDrawn' : i \in 1 .. PrimsDrawn
    <3>1. PrimsDrawn' = Len(model.prims) /\ PrimsDrawn = done
      BY <1>1, <2>1 DEF PrimsDrawn
    <3>2. done \in Nat /\ Len(model.prims) \in Nat
      BY <1>2, ModelLists DEF AccessRight
    <3> QED
      BY <2>1, <3>1, <3>2
  <2>4. done' \in Nat
    BY <2>1
  <2>5. OnlyRows /\ Longer(accessors, accessors')
    BY <1>2, <2>1, SameRows, SameAccessors
  <2>6. AccessRight' /\ MorphsRight'
    BY <1>2, <2>1, <2>2, <2>3, <2>4, <2>5, StepRows
  <2> QED
    BY <1>2, <2>1, <2>6 DEF DrawInv, Late, Placing, Unplaced
<1> QED
  BY <1>3, <1>4

LEMMA StepMorphs ==
  ASSUME model \in Models, DrawInv, EmptyMorph \/ SparseMorph \/ EndMorphs
  PROVE  DrawInv'
<1>1. stage = "morphs"
  BY DEF EmptyMorph, SparseMorph, EndMorphs, HasMorph
<1>2. AccessRight /\ MorphsRight /\ Unplaced /\ wtsMap = NoEntries /\ meshes = <<>>
  BY <1>1 DEF DrawInv, Late
<1>3. CASE EmptyMorph \/ SparseMorph
  <2>1. /\ stage' = "morphs" /\ lodMeshes' = lodMeshes /\ wtsMap' = wtsMap /\ meshes' = meshes
    BY <1>1, <1>3 DEF EmptyMorph, SparseMorph
  <2>2. PICK us : buffers' = [buffers EXCEPT ![morph.target].morphs = us]
    BY <1>3 DEF EmptyMorph, SparseMorph
  <2>3. \A v \in DOMAIN buffers' : buffers'[v].rows = <<>>
    <3> TAKE v \in DOMAIN buffers'
    <3>1. v \in DOMAIN buffers /\ DOMAIN buffers[v] = {"attrs", "morphs", "rows"}
      BY <1>2, <2>2 DEF AccessRight, BuffersIn, BufferIn
    <3>2. buffers[v].rows = <<>>
      BY <1>2, <3>1 DEF Unplaced
    <3>3. buffers'[v] = buffers[v] \/ buffers'[v] = [buffers[v] EXCEPT !.morphs = us]
      BY <2>2, <3>1
    <3> QED
      BY <3>1, <3>2, <3>3
  <2>4. AccessRight' /\ MorphsRight'
    BY <1>2, <1>3, StepEmptyMorph, StepSparseMorph
  <2> QED
    BY <1>2, <2>1, <2>3, <2>4 DEF DrawInv, Late, Placing, Unplaced
<1>4. CASE EndMorphs
  <2>1. /\ stage' = "prims" /\ done' = 0 /\ model' = model /\ drawn' = drawn
        /\ sparse' = sparse /\ accessors' = accessors /\ buffers' = buffers
        /\ lodMeshes' = lodMeshes /\ wtsMap' = wtsMap /\ meshes' = meshes
        /\ done = Len(Morphs)
    BY <1>4 DEF EndMorphs, GoTo, drawVars
  <2>2. MorphsDone' = MorphsDone
    BY <1>1, <2>1, ListsKept DEF MorphsDone
  <2>3. \A i \in 1 .. PrimsDrawn' : i \in 1 .. PrimsDrawn
    BY <1>1, <2>1 DEF PrimsDrawn
  <2>4. done' \in Nat
    BY <2>1
  <2>5. OnlyRows /\ Longer(accessors, accessors')
    BY <1>2, <2>1, SameRows, SameAccessors
  <2>6. AccessRight' /\ MorphsRight'
    BY <1>2, <2>1, <2>2, <2>3, <2>4, <2>5, StepRows
  <2>7. PrimsPlaced' = 0 /\ \A i : i \notin 1 .. 0
    BY <2>1 DEF PrimsPlaced
  <2>8. 0 <= Len(model'.prims)
    BY <2>1, ModelLists
  <2>9. LodIn(lodMeshes, Places, Drawings, PrimsPlaced)'
    <3>1. lodMeshes' = NoEntries /\ DOMAIN NoEntries = {}
      BY <1>2, <2>1 DEF Unplaced, NoEntries
    <3> QED
      BY <2>7, <3>1 DEF LodIn
  <2>10. RowsRight'
    <3>1. \A v \in DOMAIN buffers' : buffers'[v].rows = <<>>
      BY <1>2, <2>1 DEF Unplaced
    <3> QED
      BY <2>7, <3>1 DEF RowsRight, RowsIn
  <2>11. PlacedRight'
    BY <2>7, <2>8, <2>9, <2>10 DEF PlacedRight
  <2> QED
    BY <1>2, <2>1, <2>6, <2>11 DEF DrawInv, Late, Placing
<1> QED
  BY <1>3, <1>4

LEMMA StepPrims ==
  ASSUME model \in Models, DrawInv, DrawPrim \/ EndPrims
  PROVE  DrawInv'
<1>1. stage = "prims"
  BY DEF DrawPrim, EndPrims
<1>2. AccessRight /\ MorphsRight /\ PlacedRight /\ wtsMap = NoEntries /\ meshes = <<>>
  BY <1>1 DEF DrawInv, Late, Placing
<1>3. CASE DrawPrim
  <2>1. stage' = "prims" /\ wtsMap' = wtsMap /\ meshes' = meshes
    BY <1>1, <1>3 DEF DrawPrim
  <2>2. AccessRight' /\ MorphsRight' /\ PlacedRight'
    BY <1>2, <1>3, StepDrawPrim
  <2> QED
    BY <1>2, <2>1, <2>2 DEF DrawInv, Late, Placing
<1>4. CASE EndPrims
  <2>1. /\ stage' = "weights" /\ done' = 0 /\ model' = model /\ drawn' = drawn
        /\ sparse' = sparse /\ accessors' = accessors /\ buffers' = buffers
        /\ lodMeshes' = lodMeshes /\ wtsMap' = wtsMap /\ meshes' = meshes
        /\ ~(done < Len(model.prims))
    BY <1>4 DEF EndPrims, GoTo, drawVars, HasPrim
  <2>2. MorphsDone' = MorphsDone /\ PrimsDrawn' = PrimsDrawn /\ PrimsDrawn = Len(model.prims)
    BY <1>1, <2>1, ListsKept DEF MorphsDone, PrimsDrawn
  <2>3. done' \in Nat /\ OnlyRows /\ Longer(accessors, accessors')
    BY <1>2, <2>1, SameRows, SameAccessors
  <2>4. AccessRight' /\ MorphsRight'
    BY <1>2, <2>1, <2>2, <2>3, StepRows
  <2>5. PrimsPlaced' = PrimsPlaced
    <3>1. PrimsPlaced' = Len(model.prims) /\ PrimsPlaced = done
      BY <1>1, <2>1 DEF PrimsPlaced
    <3>2. done \in Nat /\ Len(model.prims) \in Nat /\ done <= Len(model.prims)
      BY <1>2, <3>1, ModelLists DEF AccessRight, PlacedRight
    <3> QED
      BY <2>1, <3>1, <3>2
  <2>6. PlacedRight'
    BY <1>2, <2>1, <2>2, <2>5, PlacedKept
  <2>7. WrittenRight'
    <3>1. DOMAIN wtsMap' = {}
      BY <1>2, <2>1 DEF NoEntries
    <3> QED
      BY <3>1 DEF WrittenRight
  <2> QED
    BY <1>2, <2>1, <2>4, <2>6, <2>7 DEF DrawInv, Late, Placing
<1> QED
  BY <1>3, <1>4

\* What was made stays made while nothing of the meshes changes.
LEMMA MadeKept ==
  ASSUME MadeRight, model' = model, meshes' = meshes, lodMeshes' = lodMeshes, wtsMap' = wtsMap
  PROVE  MadeRight'
<1>1. \A k : PrimsOf(k)' = PrimsOf(k)
  BY ResolvedKept
<1>2. ASSUME NEW n \in DOMAIN meshes
      PROVE  meshes[n].key \in DOMAIN lodMeshes' /\ meshes[n].prims = PrimsOf(meshes[n].key)'
  <2>1. PICK k : k = meshes[n].key
    OBVIOUS
  <2>2. PrimsOf(k)' = PrimsOf(k) /\ meshes[n].prims = PrimsOf(k) /\ k \in DOMAIN lodMeshes
    BY <1>1, <1>2, <2>1 DEF MadeRight
  <2> QED
    BY <2>1, <2>2
<1> QED
  BY <1>2 DEF MadeRight

LEMMA StepWeights ==
  ASSUME model \in Models, DrawInv, WriteWeights \/ EndWeights
  PROVE  DrawInv'
<1>1. stage = "weights" /\ model' = model /\ drawn' = drawn /\ sparse' = sparse
      /\ buffers' = buffers /\ lodMeshes' = lodMeshes /\ meshes' = meshes
  BY DEF WriteWeights, EndWeights, nodeVars, drawVars
<1>2. AccessRight /\ MorphsRight /\ PlacedRight /\ WrittenRight /\ meshes = <<>>
  BY <1>1 DEF DrawInv, Late, Placing
<1>3. /\ stage' \in {"weights", "meshes"} /\ done' \in Nat
      /\ Longer(accessors, accessors') /\ WrittenRight'
      /\ stage' = "meshes" => Unwritten' = {}
  <2>1. CASE WriteWeights
    <3>1. stage' = stage /\ done' = done
      BY <2>1 DEF WriteWeights, nodeVars
    <3> QED
      BY <1>1, <1>2, <2>1, <3>1, StepWriteWeights DEF AccessRight
  <2>2. CASE EndWeights
    <3>1. /\ stage' = "meshes" /\ done' = 0 /\ wtsMap' = wtsMap /\ accessors' = accessors
          /\ Unwritten = {}
      BY <2>2 DEF EndWeights, GoTo, drawVars
    <3>2. HasWeights' = HasWeights
      BY <1>1, ListsKept
    <3> QED
      BY <1>1, <1>2, <3>1, <3>2, SameAccessors DEF Unwritten, WrittenRight
  <2> QED
    BY <2>1, <2>2
<1>4. /\ MorphsDone' = MorphsDone /\ PrimsDrawn' = PrimsDrawn /\ PrimsDrawn = Len(model.prims)
      /\ PrimsPlaced' = PrimsPlaced
  BY <1>1, <1>3, ListsKept DEF MorphsDone, PrimsDrawn, PrimsPlaced
<1>5. AccessRight' /\ MorphsRight'
  BY <1>1, <1>2, <1>3, <1>4, SameRows, StepRows
<1>6. PlacedRight'
  BY <1>1, <1>2, <1>4, PlacedKept
<1>7. stage' = "meshes" => MadeRight'
  <2>1. meshes' = <<>> /\ DOMAIN meshes' = {} /\ meshes' \in Seq({})
    BY <1>1, <1>2
  <2> QED
    BY <2>1 DEF MadeRight
<1> QED
  BY <1>1, <1>2, <1>3, <1>5, <1>6, <1>7 DEF DrawInv, Late, Placing

LEMMA StepMade ==
  ASSUME model \in Models, DrawInv, MakeMesh \/ Save
  PROVE  DrawInv'
<1>1. /\ stage = "meshes" /\ stage' \in {"meshes", "saved"}
      /\ model' = model /\ drawn' = drawn /\ sparse' = sparse /\ accessors' = accessors
      /\ buffers' = buffers /\ lodMeshes' = lodMeshes /\ wtsMap' = wtsMap
  BY DEF MakeMesh, Save, GoTo, drawVars
<1>2. AccessRight /\ MorphsRight /\ PlacedRight /\ WrittenRight /\ Unwritten = {} /\ MadeRight
  BY <1>1 DEF DrawInv, Late, Placing
<1>3. done' \in Nat /\ MadeRight' /\ (stage' = "saved" => Unmade' = {})
  <2>1. CASE MakeMesh
    <3>1. stage' = "meshes" /\ done' = done
      BY <1>1, <2>1 DEF MakeMesh
    <3> QED
      BY <1>2, <2>1, <3>1, StepMesh DEF AccessRight
  <2>2. CASE Save
    <3>1. meshes' = meshes /\ done' = 0 /\ Unmade = {}
      BY <2>2 DEF Save, GoTo, drawVars
    <3>2. MadeRight'
      BY <1>1, <1>2, <3>1, MadeKept
    <3> QED
      BY <1>1, <3>1, <3>2 DEF Unmade
  <2> QED
    BY <2>1, <2>2
<1>4. /\ MorphsDone' = MorphsDone /\ PrimsDrawn' = PrimsDrawn /\ PrimsDrawn = Len(model.prims)
      /\ PrimsPlaced' = PrimsPlaced /\ HasWeights' = HasWeights
  BY <1>1, ListsKept DEF MorphsDone, PrimsDrawn, PrimsPlaced
<1>5. AccessRight' /\ MorphsRight'
  BY <1>1, <1>2, <1>3, <1>4, SameRows, SameAccessors, StepRows
<1>6. PlacedRight'
  BY <1>1, <1>2, <1>4, PlacedKept
<1>7. WrittenRight' /\ Unwritten' = {}
  BY <1>1, <1>2, <1>4 DEF WrittenRight, Unwritten
<1> QED
  BY <1>1, <1>2, <1>3, <1>5, <1>6, <1>7 DEF DrawInv, Late, Placing

LEMMA StepSame ==
  ASSUME model \in Models, DrawInv, UNCHANGED vars
  PROVE  DrawInv'
<1>1. /\ model' = model /\ stage' = stage /\ done' = done
      /\ accessors' = accessors /\ sparse' = sparse /\ drawn' = drawn /\ buffers' = buffers
      /\ lodMeshes' = lodMeshes /\ wtsMap' = wtsMap /\ meshes' = meshes
  BY DEF vars, nodeVars, drawVars
<1>2. /\ MorphsDone' = MorphsDone /\ PrimsDrawn' = PrimsDrawn /\ PrimsPlaced' = PrimsPlaced
      /\ HasWeights' = HasWeights
  BY <1>1, ListsKept DEF MorphsDone, PrimsDrawn, PrimsPlaced
<1>3. stage \in Late => AccessRight' /\ MorphsRight'
  <2> SUFFICES ASSUME stage \in Late
               PROVE  AccessRight' /\ MorphsRight'
    OBVIOUS
  <2>1. AccessRight /\ MorphsRight
    BY DEF DrawInv
  <2>2. done' \in Nat /\ OnlyRows /\ Longer(accessors, accessors')
    BY <1>1, <2>1, SameRows, SameAccessors DEF AccessRight
  <2> QED
    BY <1>1, <1>2, <2>1, <2>2, StepRows
<1>4. stage \in Placing => PlacedRight'
  <2> SUFFICES ASSUME stage \in Placing
               PROVE  PlacedRight'
    OBVIOUS
  <2>1. AccessRight /\ PlacedRight /\ PrimsDrawn = Len(model.prims)
    BY DEF DrawInv, Late, Placing, PrimsDrawn
  <2> QED
    BY <1>1, <1>2, <2>1, PlacedKept
<1>5. stage \in {"meshes", "saved"} => MadeRight'
  BY <1>1, MadeKept DEF DrawInv
<1> QED
  BY <1>1, <1>2, <1>3, <1>4, <1>5 DEF DrawInv, Blank, Unplaced, WrittenRight, Unwritten, Unmade

THEOREM DrawingInvariance == Spec => [](IInv /\ DrawInv)
<1>1. Init => IInv /\ DrawInv
  <2> SUFFICES ASSUME Init
               PROVE  IInv /\ DrawInv
    OBVIOUS
  <2>1. stage = "open" /\ Blank
    BY DEF Init, NodeInit, Blank
  <2>2. DrawInv
    BY <2>1 DEF DrawInv, Late, Placing
  <2>3. IInv
    BY Initially
  <2> QED
    BY <2>2, <2>3
<1>2. ASSUME IInv, DrawInv, [Next]_vars
      PROVE  DrawInv'
  <2>1. model \in Models
    BY <1>2 DEF IInv, Placed
  <2>2. CASE MakeNodes
    BY <1>2, <2>2, StepBegin
  <2>3. CASE RefuseMorph \/ RefusePrim
    <3>1. stage' = "refused"
      BY <2>3 DEF RefuseMorph, RefusePrim, RefuseMesh, Refuse
    <3> QED
      BY <3>1 DEF DrawInv, Late, Placing
  <2>4. CASE ProcessMeshes \/ Save
    BY <1>2, <2>1, <2>3, <2>4, StepBuffers, StepMorphs, StepPrims, StepWeights, StepMade
    DEF ProcessMeshes
  <2>5. CASE UNCHANGED vars
    BY <1>2, <2>1, <2>5, StepSame
  <2> QED
    BY <1>2, <2>2, <2>4, <2>5 DEF Next, AppProcessFile, Done
<1>3. IInv /\ DrawInv /\ [Next]_vars => DrawInv'
  BY <1>2
<1> QED
  BY <1>1, <1>3, Invariance, PTL DEF Spec

-----------------------------------------------------------------------------
(***************************************************************************)
(* What the invariant says of a saved document.                            *)
(***************************************************************************)
LEMMA SavedFacts ==
  ASSUME IInv, DrawInv, stage = "saved"
  PROVE  /\ model \in Models /\ AccessRight /\ MorphsRight /\ PlacedRight /\ WrittenRight
         /\ MadeRight /\ Unwritten = {} /\ Unmade = {}
         /\ PrimsDrawn = Len(model.prims) /\ PrimsPlaced = Len(model.prims)
         /\ MorphsDone = Len(Morphs)
         /\ Len(model.prims) \in Nat /\ DOMAIN model.prims = 1 .. Len(model.prims)
<1>1. model \in Models
  BY DEF IInv, Placed
<1> QED
  BY <1>1, ModelLists DEF DrawInv, Late, Placing, PrimsDrawn, PrimsPlaced, MorphsDone

LEMMA MembersAreMates ==
  ASSUME model \in Models
  PROVE  /\ \A key : Members(key) = Mates(Places, key, Len(model.prims))
         /\ \A i \in DOMAIN model.prims :
              Place(i) = Cardinality(Mates(Places, Places[i], i))
<1>1. Len(model.prims) \in Nat /\ DOMAIN model.prims = 1 .. Len(model.prims)
  BY ModelLists
<1>2. \A i \in DOMAIN model.prims : Places[i] = MeshKey(model.prims[i])
  BY DEF Places
<1>3. ASSUME NEW key
      PROVE  Members(key) = Mates(Places, key, Len(model.prims))
  BY <1>1, <1>2 DEF Members, Mates
<1>4. ASSUME NEW i \in DOMAIN model.prims
      PROVE  Place(i) = Cardinality(Mates(Places, Places[i], i))
  <2>1. PICK key : key = MeshKey(model.prims[i]) /\ key = Places[i]
    BY <1>2, <1>4
  <2>2. PICK n : n = Len(model.prims) /\ n \in Nat /\ DOMAIN model.prims = 1 .. n
    BY <1>1
  <2>3. Members(key) = Mates(Places, key, n)
    BY <1>3, <2>2
  <2>4. i \in 1 .. n
    BY <1>4, <2>2
  <2>5. {k \in Mates(Places, key, n) : k <= i} = Mates(Places, key, i)
    BY <2>2, <2>4 DEF Mates
  <2> QED
    BY <2>1, <2>3, <2>5 DEF Place
<1> QED
  BY <1>3, <1>4

(* A mesh holds the drawings of its primitives, each in its place.         *)
LEMMA DrawnInPlace ==
  ASSUME IInv, DrawInv, stage = "saved",
         NEW n \in DOMAIN meshes, NEW i \in Members(meshes[n].key)
  PROVE  i \in DOMAIN model.prims /\ meshes[n].prims[Place(i)] = Resolved(Drawings[i])
<1>1. /\ model \in Models /\ PlacedRight /\ MadeRight /\ PrimsPlaced = Len(model.prims)
      /\ DOMAIN model.prims = 1 .. Len(model.prims)
  BY SavedFacts
<1>2. PICK key : key = meshes[n].key
  OBVIOUS
<1>3. i \in DOMAIN model.prims /\ Places[i] = key
  BY <1>2 DEF Members, Places
<1>4. PICK c : c = Place(i) /\ c = Cardinality(Mates(Places, key, i))
  BY <1>1, <1>3, MembersAreMates
<1>5. c \in DOMAIN lodMeshes[key] /\ lodMeshes[key][c] = Drawings[i]
  BY <1>1, <1>3, <1>4 DEF PlacedRight, LodIn
<1>6. meshes[n].prims = PrimsOf(key)
  BY <1>1, <1>2 DEF MadeRight
<1>7. PrimsOf(key)[c] = Resolved(lodMeshes[key][c])
  BY <1>5 DEF PrimsOf
<1> QED
  BY <1>3, <1>4, <1>5, <1>6, <1>7

(* What a resolved drawing names.                                          *)
LEMMA ResolvedNames ==
  ASSUME IInv, DrawInv, stage = "saved", NEW i \in DOMAIN model.prims,
         NEW v, v = model.prims[i].vertex, NEW r, r = Resolved(Drawings[i])
  PROVE  /\ v \in DOMAIN buffers /\ v \in DOMAIN model.vertices
         /\ r.indices = drawn[model.prims[i].index]
         /\ r.targets = buffers[v].morphs
         /\ ~HasWeights => DOMAIN r.attributes = ToSet(Keys(v))
         /\ HasWeights => DOMAIN r.attributes = ToSet(Keys(v)) \cup {"JOINTS_0", "WEIGHTS_0"}
         /\ \A k \in ToSet(Keys(v)) : r.attributes[k] = buffers[v].attrs[k]
         /\ HasWeights =>
              r.attributes["JOINTS_0"] = wtsMap[v] + 1 /\ r.attributes["WEIGHTS_0"] = wtsMap[v]
<1>1. /\ model \in Models /\ AccessRight /\ PrimsDrawn = Len(model.prims)
      /\ DOMAIN model.prims = 1 .. Len(model.prims)
  BY SavedFacts
<1>2. v \in DOMAIN buffers /\ v \in DOMAIN model.vertices /\ v \in Nat
  BY <1>1, ModelLists DEF AccessRight
<1>3. PICK A : A = buffers[v].attrs
  OBVIOUS
<1>4. PICK ks : ks = ToSet(Keys(v))
  OBVIOUS
<1>5. DOMAIN A = ks
  BY <1>1, <1>2, <1>3, <1>4 DEF AccessRight, BuffersIn, BufferIn
<1>6. "JOINTS_0" \notin ks /\ "WEIGHTS_0" \notin ks
  BY <1>1, <1>2, <1>4, KeysFacts
<1>7. PICK at : at = Attributes(model.prims[i])
  OBVIOUS
<1>8. PICK d : d = Drawings[i]
  OBVIOUS
<1>11. d = [indices    |-> drawn[model.prims[i].index],
            attributes |-> at,
            targets    |-> buffers[v].morphs]
  BY <1>7, <1>8 DEF Drawings
<1>12. /\ d.indices = drawn[model.prims[i].index] /\ d.attributes = at
       /\ d.targets = buffers[v].morphs
       /\ DOMAIN d = {"indices", "attributes", "targets"}
  BY <1>11
<1>9. CASE ~HasWeights
  <2>1. r = d /\ at = A
    BY <1>3, <1>7, <1>8, <1>9 DEF Resolved, Attributes
  <2> QED
    BY <1>2, <1>3, <1>4, <1>5, <1>9, <1>12, <2>1
<1>10. CASE HasWeights
  <2>1. at = With(With(A, "JOINTS_0", -v), "WEIGHTS_0", -v)
    BY <1>3, <1>7, <1>10 DEF Attributes
  <2>2. PICK one : one = With(A, "JOINTS_0", -v)
    OBVIOUS
  <2>3. /\ DOMAIN one = ks \cup {"JOINTS_0"} /\ one["JOINTS_0"] = -v
        /\ \A k \in ks : one[k] = A[k]
    BY <1>5, <1>6, <2>2 DEF With
  <2>4. at = With(one, "WEIGHTS_0", -v)
    BY <2>1, <2>2
  <2>5. /\ DOMAIN at = ks \cup {"JOINTS_0", "WEIGHTS_0"}
        /\ at["JOINTS_0"] = -v
        /\ \A k \in ks : at[k] = A[k]
    BY <1>6, <2>3, <2>4 DEF With
  <2>6. -d.attributes["JOINTS_0"] = v
    BY <1>2, <1>12, <2>5
  <2>7. r = [d EXCEPT !.attributes["JOINTS_0"] = wtsMap[v] + 1,
                      !.attributes["WEIGHTS_0"] = wtsMap[v]]
    <3>1. r = LET w == -d.attributes["JOINTS_0"]
              IN  [d EXCEPT !.attributes["JOINTS_0"] = wtsMap[w] + 1,
                            !.attributes["WEIGHTS_0"] = wtsMap[w]]
      BY <1>8, <1>10 DEF Resolved
    <3> QED
      BY <2>6, <3>1
  <2>8. r.attributes = [[at EXCEPT !["JOINTS_0"] = wtsMap[v] + 1]
                           EXCEPT !["WEIGHTS_0"] = wtsMap[v]]
    BY <1>12, <2>7
  <2>9. /\ DOMAIN r.attributes = ks \cup {"JOINTS_0", "WEIGHTS_0"}
        /\ r.attributes["JOINTS_0"] = wtsMap[v] + 1 /\ r.attributes["WEIGHTS_0"] = wtsMap[v]
        /\ \A k \in ks : r.attributes[k] = at[k]
    BY <1>6, <2>5, <2>8
  <2>10. r.indices = d.indices /\ r.targets = d.targets
    BY <1>12, <2>7
  <2> QED
    BY <1>2, <1>3, <1>4, <1>10, <1>12, <2>5, <2>9, <2>10
<1> QED
  BY <1>9, <1>10

LEMMA KeysMade ==
  ASSUME IInv, DrawInv, stage = "saved"
  PROVE  {meshes[n].key : n \in DOMAIN meshes} = {MeshKey(model.prims[i]) : i \in DOMAIN model.prims}
<1>1. /\ PlacedRight /\ MadeRight /\ Unmade = {} /\ PrimsPlaced = Len(model.prims)
      /\ DOMAIN model.prims = 1 .. Len(model.prims)
  BY SavedFacts
<1>2. \A key : key \in DOMAIN lodMeshes <=> \E i \in DOMAIN model.prims : Places[i] = key
  BY <1>1 DEF PlacedRight, LodIn
<1>3. \A key : key \in DOMAIN lodMeshes <=>
        \E i \in DOMAIN model.prims : MeshKey(model.prims[i]) = key
  BY <1>2 DEF Places
<1>4. \A n \in DOMAIN meshes : meshes[n].key \in DOMAIN lodMeshes
  BY <1>1 DEF MadeRight
<1>5. \A key \in DOMAIN lodMeshes : \E n \in DOMAIN meshes : meshes[n].key = key
  BY <1>1 DEF Unmade
<1> QED
  BY <1>3, <1>4, <1>5

(* The targets of a buffer are those TargetOf says.                        *)
LEMMA TargetsRight ==
  ASSUME IInv, DrawInv, stage = "saved", NEW v \in DOMAIN buffers,
         NEW ts, ts = buffers[v].morphs
  PROVE  /\ ts # <<>> => Len(ts) = model.names
         /\ \A j \in DOMAIN ts : TargetOf(v, j, ts[j])
<1>1. /\ model \in Models /\ MorphsRight /\ MorphsDone = Len(Morphs)
  BY SavedFacts
<1>2. model.names \in Nat /\ DOMAIN Morphs = 1 .. Len(Morphs)
  BY <1>1, ModelLists, MorphFacts
<1>3. TargetsIn(accessors, sparse.at, Morphs, v, model.names, Len(Morphs), ts)
  BY <1>1 DEF MorphsRight
<1>4. CASE ts = <<>>
  <2>1. DOMAIN ts = {}
    BY <1>4
  <2> QED
    BY <1>4, <2>1
<1>5. CASE /\ ts = [j \in 1 .. model.names |-> ts[j]]
           /\ \A j \in 1 .. model.names :
                ShapeIn(accessors, sparse.at, Morphs, v, j, Len(Morphs), ts[j])
  <2>1. PICK n : n = model.names /\ n \in Nat /\ DOMAIN ts = 1 .. n
    BY <1>2, <1>5
  <2>2. Len(ts) = n
    <3>1. IsList(ts)
      BY <1>5, <2>1 DEF IsList
    <3>2. Len(ts) \in Nat /\ DOMAIN ts = 1 .. Len(ts)
      BY <3>1, ListFacts
    <3> QED
      BY <2>1, <3>2
  <2>3. ASSUME NEW j \in DOMAIN ts
        PROVE  TargetOf(v, j, ts[j])
    <3>1. ShapeIn(accessors, sparse.at, Morphs, v, j, Len(Morphs), ts[j])
      BY <1>5, <2>1, <2>3
    <3>2. PICK t : t = ts[j]
      OBVIOUS
    <3>3. PICK found : found = {k \in DOMAIN Morphs : /\ Morphs[k].target = v
                                                      /\ Morphs[k].id = j /\ Morphs[k].at # <<>>}
      OBVIOUS
    <3>4. MovesIn(Morphs, v, j, Len(Morphs)) = found
      BY <1>2, <3>3 DEF MovesIn
    <3>5. \/ found = {} /\ Unmoved(accessors, v, t)
          \/ \E k \in found : (\A o \in found : o <= k)
                              /\ MovedBy(accessors, sparse.at, Morphs[k], k, t)
      BY <3>1, <3>2, <3>4 DEF ShapeIn
    <3>6. CASE found = {} /\ Unmoved(accessors, v, t)
      BY <3>2, <3>3, <3>6 DEF TargetOf, Unmoved
    <3>7. ASSUME NEW k \in found, \A o \in found : o <= k,
                 MovedBy(accessors, sparse.at, Morphs[k], k, t)
          PROVE  TargetOf(v, j, t)
      <4>1. PICK m : m = Morphs[k]
        OBVIOUS
      <4>2. /\ Reads(accessors[t["POSITION"]], [deltas |-> m.at, of |-> k], m.at)
            /\ accessors[t["POSITION"]].values % 4 = 0
            /\ "NORMAL" \in DOMAIN t <=> Turned(m) # <<>>
            /\ "NORMAL" \in DOMAIN t =>
                 Reads(accessors[t["NORMAL"]], [normals |-> Turned(m), of |-> k], Turned(m))
        BY <3>7, <4>1 DEF MovedBy, ReadsIn, Reads
      <4> QED
        BY <3>3, <3>7, <4>1, <4>2 DEF TargetOf
    <3> QED
      BY <3>2, <3>5, <3>6, <3>7
  <2> QED
    BY <2>1, <2>2, <2>3
<1> QED
  BY <1>3, <1>4, <1>5 DEF TargetsIn

(* A saved document draws what its model says: PrimitivesReadBack of       *)
(* MdoGltf, for every model that is accepted.                              *)
THEOREM PrimitivesAlwaysReadBack == Spec => []PrimitivesReadBack
<1>1. IInv /\ DrawInv => PrimitivesReadBack
  <2> SUFFICES ASSUME IInv, DrawInv, stage = "saved"
               PROVE  PrimitivesReadBack
    BY DEF PrimitivesReadBack
  <2>1. /\ model \in Models /\ AccessRight /\ PlacedRight /\ MadeRight
        /\ PrimsDrawn = Len(model.prims) /\ PrimsPlaced = Len(model.prims)
        /\ DOMAIN model.prims = 1 .. Len(model.prims)
    BY SavedFacts
  <2>2. {meshes[n].key : n \in DOMAIN meshes} = {MeshKey(model.prims[i]) : i \in DOMAIN model.prims}
    BY KeysMade
  <2>3. \A n, o \in DOMAIN meshes : meshes[n].key = meshes[o].key => n = o
    BY <2>1 DEF MadeRight
  <2>4. ASSUME NEW n \in DOMAIN meshes
        PROVE  Len(meshes[n].prims) = Cardinality(Members(meshes[n].key))
    <3>1. PICK key : key = meshes[n].key
      OBVIOUS
    <3>2. key \in DOMAIN lodMeshes /\ meshes[n].prims = PrimsOf(key)
      BY <2>1, <2>4, <3>1 DEF MadeRight
    <3>3. Members(key) = Mates(Places, key, Len(model.prims))
      BY <2>1, MembersAreMates
    <3>4. PICK s : s = lodMeshes[key]
      OBVIOUS
    <3>8. PICK c : c = Len(s)
      OBVIOUS
    <3>9. c = Cardinality(Members(key)) /\ \E T : s \in Seq(T)
      BY <2>1, <3>2, <3>3, <3>4, <3>8 DEF PlacedRight, LodIn
    <3>5. c \in Nat /\ DOMAIN s = 1 .. c
      <4>1. PICK T : s \in Seq(T)
        BY <3>9
      <4>2. Len(s) \in Nat /\ DOMAIN s = 1 .. Len(s)
        BY <4>1
      <4> QED
        BY <3>8, <4>2
    <3>6. PrimsOf(key) = [x \in 1 .. c |-> Resolved(s[x])]
      BY <3>4, <3>5 DEF PrimsOf
    <3>7. Len(PrimsOf(key)) = c
      BY <3>5, <3>6
    <3> QED
      BY <3>1, <3>2, <3>7, <3>9
  <2>5. ASSUME NEW n \in DOMAIN meshes, NEW i \in Members(meshes[n].key),
               NEW p, p = model.prims[i], NEW drawing, drawing = meshes[n].prims[Place(i)]
        PROVE  /\ accessors[drawing.indices] = [holds |-> "indices", of |-> p.index]
               /\ AttributesOf(p, drawing)
               /\ drawing.targets # <<>> => Len(drawing.targets) = model.names
               /\ \A j \in DOMAIN drawing.targets : TargetOf(p.vertex, j, drawing.targets[j])
    <3>1. i \in DOMAIN model.prims /\ drawing = Resolved(Drawings[i])
      BY <2>5, DrawnInPlace
    <3>2. PICK v : v = p.vertex
      OBVIOUS
    <3>3. /\ v \in DOMAIN buffers
          /\ drawing.indices = drawn[p.index]
          /\ drawing.targets = buffers[v].morphs
          /\ ~HasWeights => DOMAIN drawing.attributes = ToSet(Keys(v))
          /\ HasWeights =>
               DOMAIN drawing.attributes = ToSet(Keys(v)) \cup {"JOINTS_0", "WEIGHTS_0"}
          /\ \A k \in ToSet(Keys(v)) : drawing.attributes[k] = buffers[v].attrs[k]
      BY <2>5, <3>1, <3>2, ResolvedNames, SMTT(20)
    <3>4. accessors[drawing.indices] = [holds |-> "indices", of |-> p.index]
      <4>1. p.index \in DOMAIN drawn
        BY <2>1, <2>5, <3>1 DEF AccessRight
      <4> QED
        BY <2>1, <3>3, <4>1 DEF AccessRight, IndexAt
    <3>5. AttributesOf(p, drawing)
      <4>1. BufferIn(accessors, v, Keys(v), buffers[v])
        BY <2>1, <3>3 DEF AccessRight, BuffersIn
      <4>2. \A k : LastDescriptor(v, k) = LastIn(Keys(v), k)
        BY DEF LastDescriptor, LastIn
      <4>3. \A k \in ToSet(Keys(v)) :
              accessors[drawing.attributes[k]] =
                [holds |-> "attribute", of |-> v, desc |-> LastDescriptor(v, k)]
        BY <3>3, <4>1, <4>2 DEF BufferIn
      <4> QED
        BY <3>2, <3>3, <4>3 DEF AttributesOf
    <3>6. /\ drawing.targets # <<>> => Len(drawing.targets) = model.names
          /\ \A j \in DOMAIN drawing.targets : TargetOf(v, j, drawing.targets[j])
      BY <3>3, TargetsRight
    <3> QED
      BY <3>2, <3>4, <3>5, <3>6
  <2> QED
    BY <2>2, <2>3, <2>4, <2>5 DEF PrimitivesReadBack
<1> QED
  BY <1>1, DrawingInvariance, PTL

(* The rows of a buffer at a vertex that primitive i uses.                 *)
LEMMA RowOfFirst ==
  ASSUME IInv, DrawInv, stage = "saved", HasWeights, NEW i \in DOMAIN model.prims,
         NEW m \in Used(model.prims[i])
  PROVE  \E k \in 1 .. i :
           /\ model.prims[k].vertex = model.prims[i].vertex /\ m \in Covered(model.prims[k])
           /\ buffers[model.prims[i].vertex].rows[m + 1] = Row(model.prims[k], m)
<1>1. /\ model \in Models /\ AccessRight /\ PlacedRight
      /\ PrimsDrawn = Len(model.prims) /\ PrimsPlaced = Len(model.prims)
      /\ Len(model.prims) \in Nat /\ DOMAIN model.prims = 1 .. Len(model.prims)
  BY SavedFacts
<1>2. PICK d : d = Len(model.prims) /\ d \in Nat /\ DOMAIN model.prims = 1 .. d
  BY <1>1
<1>3. PICK v : v = model.prims[i].vertex
  OBVIOUS
<1>4. v \in DOMAIN buffers
  BY <1>1, <1>3 DEF AccessRight
<1>5. PICK rows : rows = buffers[v].rows
  OBVIOUS
<1>6. PICK n : n = model.vertices[v].count
  OBVIOUS
<1>7. RowsIn(rows, n, On, Covers, RowsOf, v, d)
  BY <1>1, <1>2, <1>4, <1>5, <1>6 DEF PlacedRight, RowsRight
<1>8. ~Unweighable(model.prims[i])
  BY <1>1, <1>2 DEF PlacedRight, RowsRight
<1>9. m \in Covered(model.prims[i])
  <2>1. m \in Nat
    BY <1>1, MeshAssumption DEF Used
  <2> QED
    BY <2>1, CoveredBetween
<1>10. m \in Nat /\ m + 1 \in 1 .. n
  BY <1>1, <1>3, <1>6, <1>8, <1>9, RowFacts
<1>11. \A k \in 1 .. d : /\ On[k] = model.prims[k].vertex
                         /\ Covers[k] = Covered(model.prims[k])
                         /\ m \in Covered(model.prims[k]) => RowsOf[k][m] = Row(model.prims[k], m)
  BY <1>2 DEF On, Covers, RowsOf
<1>12. i \in 1 .. d /\ On[i] = v /\ m \in Covers[i]
  BY <1>2, <1>3, <1>9, <1>11
<1>13. DOMAIN rows = 1 .. n /\ \A x \in 0 .. n - 1 : RowIn(rows[x + 1], On, Covers, RowsOf, v, x, d)
  BY <1>7, <1>12 DEF RowsIn
<1>14. n \in Nat /\ m \in 0 .. n - 1
  <2>1. n \in Nat
    BY <1>1, <1>4, <1>6, MeshAssumption DEF AccessRight, BuffersIn
  <2> QED
    BY <1>10, <2>1
<1>15. PICK r : r = rows[m + 1]
  OBVIOUS
<1>16. RowIn(r, On, Covers, RowsOf, v, m, d)
  BY <1>13, <1>14, <1>15
<1>17. PICK k \in 1 .. d : /\ On[k] = v /\ m \in Covers[k] /\ r = RowsOf[k][m]
                           /\ \A o \in 1 .. k - 1 : ~(On[o] = v /\ m \in Covers[o])
  BY <1>12, <1>16 DEF RowIn
<1>18. k \in 1 .. i
  BY <1>2, <1>12, <1>17
<1>19. model.prims[k].vertex = v /\ m \in Covered(model.prims[k]) /\ r = Row(model.prims[k], m)
  BY <1>11, <1>17
<1> QED
  BY <1>3, <1>5, <1>15, <1>18, <1>19

(* Every vertex a primitive uses has the weights of its palette, or those  *)
(* of a primitive before it that covers the vertex: WeightsRight of        *)
(* MdoGltf, for every model that is accepted.                              *)
THEOREM WeightsAlwaysRight == Spec => []WeightsRight
<1>1. IInv /\ DrawInv => WeightsRight
  <2> SUFFICES ASSUME IInv, DrawInv, stage = "saved", HasWeights,
                      NEW n \in DOMAIN meshes, NEW i \in Members(meshes[n].key),
                      NEW p, p = model.prims[i], NEW drawing, drawing = meshes[n].prims[Place(i)],
                      NEW weights, weights = accessors[drawing.attributes["WEIGHTS_0"]],
                      NEW joints, joints = accessors[drawing.attributes["JOINTS_0"]]
               PROVE  /\ weights.holds = "weights" /\ joints.holds = "joints"
                      /\ weights.rows = joints.rows
                      /\ \A m \in Used(p) :
                           (\A k \in 1 .. i - 1 :
                              model.prims[k].vertex = p.vertex /\ m \in Covered(model.prims[k])
                                => Row(model.prims[k], m) = Row(p, m))
                             => weights.rows[m + 1] = Row(p, m)
    BY DEF WeightsRight
  <2>1. /\ WrittenRight /\ Unwritten = {} /\ Len(model.prims) \in Nat
        /\ DOMAIN model.prims = 1 .. Len(model.prims)
    BY SavedFacts
  <2>2. i \in DOMAIN model.prims /\ drawing = Resolved(Drawings[i])
    BY DrawnInPlace
  <2>3. PICK v : v = model.prims[i].vertex
    OBVIOUS
  <2>4. /\ v \in DOMAIN buffers
        /\ drawing.attributes["JOINTS_0"] = wtsMap[v] + 1
        /\ drawing.attributes["WEIGHTS_0"] = wtsMap[v]
    BY <2>2, <2>3, ResolvedNames
  <2>5. WtsIn(accessors, wtsMap[v], buffers[v].rows)
    BY <2>1, <2>4 DEF Unwritten, WrittenRight
  <2>6. /\ weights = [holds |-> "weights", rows |-> buffers[v].rows]
        /\ joints = [holds |-> "joints", rows |-> buffers[v].rows]
    BY <2>4, <2>5 DEF WtsIn
  <2>7. /\ weights.holds = "weights" /\ weights.rows = buffers[v].rows
        /\ joints.holds = "joints" /\ joints.rows = buffers[v].rows
    BY <2>6
  <2>8. ASSUME NEW m \in Used(p),
               \A k \in 1 .. i - 1 :
                 model.prims[k].vertex = p.vertex /\ m \in Covered(model.prims[k])
                   => Row(model.prims[k], m) = Row(p, m)
        PROVE  weights.rows[m + 1] = Row(p, m)
    <3>1. PICK k \in 1 .. i : /\ model.prims[k].vertex = v /\ m \in Covered(model.prims[k])
                              /\ buffers[v].rows[m + 1] = Row(model.prims[k], m)
      BY <2>2, <2>3, <2>8, RowOfFirst
    <3>2. CASE k = i
      BY <2>7, <3>1, <3>2
    <3>3. CASE k # i
      <4>1. k \in 1 .. i - 1
        BY <2>1, <2>2, <3>1, <3>3
      <4>2. Row(model.prims[k], m) = Row(p, m)
        BY <2>3, <2>8, <3>1, <4>1
      <4> QED
        BY <2>7, <3>1, <4>2
    <3> QED
      BY <3>2, <3>3
  <2> QED
    BY <2>7, <2>8
<1> QED
  BY <1>1, DrawingInvariance, PTL
=============================================================================
