------------------------------ MODULE MdoNodes -------------------------------
(***************************************************************************)
(* mdo_to_gltf, the nodes of the document: LoadSkeleton makes one of every *)
(* bone of a skeleton archive, ProcessSkins looks up the node of every     *)
(* bone a skin of the model names and adds those the skeleton lacks.       *)
(*                                                                         *)
(* Positions in the document and in the model count from 1; 0 is the bone  *)
(* or the parent that there is not.                                        *)
(***************************************************************************)
EXTENDS Integers, Sequences

CONSTANTS
  Models,   (* The model files with their skeleton archives.               *)
  None      (* No mesh, no skin, no name, no weights.                      *)

(***************************************************************************)
(* A model has the fields                                                  *)
(*   version       1, 2 or 3                                               *)
(*   own, fallback the skeleton archive of its name and the one of the     *)
(*                 settings: [kind, links], where kind is "none" (no file), *)
(*                 "foreign" (another header), "bare" (without a skeleton) *)
(*                 or "skeleton", and links are its bones: [name, parent]  *)
(*   bones         its own bones: [name, parent]                           *)
(*   skins         for each skin the bones of its joints                   *)
(*   streamed      whether there is a stream file, of the third version    *)
(*   procedural    its entries [bone, parent] that give bones a parent     *)
(*   lods          how many levels of detail have weight samplers          *)
(*   palettes      the weight palettes: [lod, slot, offset], lod from 0;   *)
(*                 there are some if there is a skin with a skin manager   *)
(*   weights       the vertex buffer that holds the weights                *)
(* and those MdoGltf adds, the vertex buffers and the morphs among them.   *)
(***************************************************************************)
IsList(s) == s \in Seq({s[i] : i \in DOMAIN s})

\* Joints are bones of the model, and bones of one name have their parents'
\* name in common: the document finds a bone by its name alone.
ASSUME ModelAssumption ==
  \A m \in Models :
    /\ \A a \in {m.own, m.fallback} : a.kind = "skeleton" =>
         IsList(a.links) /\ \A k \in DOMAIN a.links : a.links[k].parent \in Nat
    /\ IsList(m.skins)
    /\ \A s \in DOMAIN m.skins :
         IsList(m.skins[s]) /\ \A k \in DOMAIN m.skins[s] : m.skins[s][k] \in DOMAIN m.bones
    /\ \A b, c \in DOMAIN m.bones : m.bones[b].name = m.bones[c].name =>
         /\ m.bones[b].parent = 0 <=> m.bones[c].parent = 0
         /\ m.bones[b].parent # 0 =>
              m.bones[m.bones[b].parent].name = m.bones[m.bones[c].parent].name

VARIABLES
  model,   (* The model being converted.                                   *)
  stage,   (* Where the conversion is.                                     *)
  done,    (* How many items of the stage's list are done.                 *)
  nodes,   (* The nodes of the document.                                   *)
  roots,   (* The nodes of its scene.                                      *)
  skins    (* The joints of its skins.                                     *)

nodeVars == <<model, stage, done, nodes, roots, skins>>

NodeInit ==
  /\ model \in Models
  /\ stage = "open"
  /\ done = 0
  /\ nodes = <<>>
  /\ roots = <<>>
  /\ skins = <<>>

Refuse ==
  /\ stage' = "refused"
  /\ UNCHANGED <<model, done, nodes, roots, skins>>

GoTo(next) == stage' = next /\ done' = 0

Node(name) == [name |-> name, children |-> <<>>, mesh |-> None, skin |-> None]

(* The second version is known and not supported.                          *)
RefuseVersion == stage = "open" /\ model.version = 2 /\ Refuse

-----------------------------------------------------------------------------
(* The archives TryFindSkeleton opens.                                     *)
Opened ==
  IF model.own.kind \in {"none", "bare"} THEN {model.own, model.fallback} ELSE {model.own}

RefuseArchive ==
  /\ stage = "open" /\ model.version # 2
  /\ \E a \in Opened : a.kind = "foreign"
  /\ Refuse

NoSkeleton ==
  /\ stage = "open" /\ model.version # 2
  /\ \A a \in Opened : a.kind \in {"none", "bare"}
  /\ GoTo("load")
  /\ UNCHANGED <<model, nodes, roots, skins>>

(* The first bone's node to be goes to the scene, and no other.            *)
BeginSkeleton ==
  /\ stage = "open" /\ model.version # 2
  /\ \E a \in Opened : a.kind = "skeleton"
  /\ \A a \in Opened : a.kind # "foreign"
  /\ roots' = <<1>>
  /\ GoTo("skeleton")
  /\ UNCHANGED <<model, nodes, skins>>

links == (CHOOSE a \in Opened : a.kind = "skeleton").links

HasLink == stage = "skeleton" /\ done < Len(links)

link == links[done + 1]

(* nodes.at throws for a parent that has no node yet.                      *)
RefuseOrder == HasLink /\ link.parent > Len(nodes) /\ Refuse

(* The node of a bone with its parent's list of children.                  *)
Below(parent, node) ==
  Append([i \in DOMAIN nodes |->
            IF i = parent
              THEN [nodes[i] EXCEPT !.children = Append(@, Len(nodes) + 1)]
              ELSE nodes[i]], node)

(* Mutation: the parent is not looked up with at.                          *)
AddLinkUnchecked ==
  /\ HasLink
  /\ nodes' = Below(link.parent, Node(link.name))
  /\ done' = done + 1
  /\ UNCHANGED <<model, stage, roots, skins>>

AddLink ==
  /\ HasLink /\ link.parent <= Len(nodes)
  /\ nodes' = Below(link.parent, Node(link.name))
  /\ done' = done + 1
  /\ UNCHANGED <<model, stage, roots, skins>>

EndSkeleton ==
  /\ stage = "skeleton" /\ done = Len(links)
  /\ GoTo("load")
  /\ UNCHANGED <<model, nodes, roots, skins>>

LoadSkeleton ==
  \/ RefuseArchive \/ NoSkeleton \/ BeginSkeleton
  \/ RefuseOrder \/ AddLink \/ EndSkeleton

-----------------------------------------------------------------------------
(* The stream file must be found, and at throws for a bone, a vertex       *)
(* buffer or a level that there is not and a slot that is not of its       *)
(* level's sixteen.  How else loading a file may end is in MxmdLoad.       *)
Loads ==
  /\ model.version = 3 => model.streamed
  /\ \A k \in DOMAIN model.procedural :
       {model.procedural[k].bone, model.procedural[k].parent} \subseteq DOMAIN model.bones
  /\ \A d \in DOMAIN model.morphs : model.morphs[d].target \in DOMAIN model.vertices
  /\ model.palettes # <<>> => model.weights \in DOMAIN model.vertices
  /\ \A k \in DOMAIN model.palettes :
       model.palettes[k].lod < model.lods /\ model.palettes[k].slot \in 0 .. 15

RefuseModel == stage = "load" /\ ~Loads /\ Refuse

LoadModel ==
  /\ stage = "load" /\ Loads
  /\ GoTo("skins")
  /\ UNCHANGED <<model, nodes, roots, skins>>

-----------------------------------------------------------------------------
(* The first node of a name, 0 if there is none.                           *)
NodeNamed(name) ==
  IF \E i \in DOMAIN nodes : nodes[i].name = name
    THEN CHOOSE i \in DOMAIN nodes :
           /\ nodes[i].name = name
           /\ \A j \in 1 .. i - 1 : nodes[j].name # name
    ELSE 0

ParentName(bone) == IF bone.parent = 0 THEN None ELSE model.bones[bone.parent].name

BeginSkin ==
  /\ stage = "skins" /\ Len(skins) < Len(model.skins)
  /\ skins # <<>> => Len(skins[Len(skins)]) = Len(model.skins[Len(skins)])
  /\ skins' = Append(skins, <<>>)
  /\ UNCHANGED <<model, stage, done, nodes, roots>>

HasJoint == stage = "skins" /\ skins # <<>> /\ Len(skins[Len(skins)]) < Len(model.skins[Len(skins)])

joint == model.bones[model.skins[Len(skins)][Len(skins[Len(skins)]) + 1]]

PushJoint(node) == skins' = [skins EXCEPT ![Len(skins)] = Append(@, node)]

KnownJoint ==
  /\ HasJoint /\ NodeNamed(joint.name) # 0
  /\ PushJoint(NodeNamed(joint.name))
  /\ UNCHANGED <<model, stage, done, nodes, roots>>

ParentNode == IF joint.parent = 0 THEN 0 ELSE NodeNamed(ParentName(joint))

(* Mutation: the node of a bone whose parent is known is a root as well.   *)
MissingBoneAsRoot ==
  /\ HasJoint /\ NodeNamed(joint.name) = 0 /\ ParentNode # 0
  /\ nodes' = Below(ParentNode, Node(joint.name))
  /\ roots' = Append(roots, Len(nodes) + 1)
  /\ PushJoint(Len(nodes) + 1)
  /\ UNCHANGED <<model, stage, done>>

(* A bone without a node, below its parent's.                              *)
MissingBone ==
  /\ HasJoint /\ NodeNamed(joint.name) = 0 /\ ParentNode # 0
  /\ nodes' = Below(ParentNode, Node(joint.name))
  /\ PushJoint(Len(nodes) + 1)
  /\ UNCHANGED <<model, stage, done, roots>>

(* A bone without a node whose parent has none or that has no parent.      *)
MissingRoot ==
  /\ HasJoint /\ NodeNamed(joint.name) = 0 /\ ParentNode = 0
  /\ nodes' = Append(nodes, Node(joint.name))
  /\ roots' = Append(roots, Len(nodes) + 1)
  /\ PushJoint(Len(nodes) + 1)
  /\ UNCHANGED <<model, stage, done>>

EndSkins ==
  /\ stage = "skins" /\ Len(skins) = Len(model.skins)
  /\ skins # <<>> => Len(skins[Len(skins)]) = Len(model.skins[Len(skins)])
  /\ GoTo("buffers")
  /\ UNCHANGED <<model, nodes, roots, skins>>

ProcessSkins == BeginSkin \/ KnownJoint \/ MissingBone \/ MissingRoot \/ EndSkins

-----------------------------------------------------------------------------
\* The bones of the skeleton archive, none before it is found.
Linked == IF \E a \in Opened : a.kind = "skeleton" THEN links ELSE <<>>

\* Node i is a child of node p.
ChildOf(i, p) == \E k \in DOMAIN nodes[p].children : nodes[p].children[k] = i

InScene(i) == \E k \in DOMAIN roots : roots[k] = i

\* No bone is twice in the tree: every node has one parent, which comes before
\* it, or is in the scene, but for further roots of the skeleton, which have
\* neither.
Tree ==
  \A i \in DOMAIN nodes :
    /\ \A p, q \in DOMAIN nodes :
         ChildOf(i, p) => p < i /\ ~InScene(i) /\ (ChildOf(i, q) => p = q)
    /\ \A p \in DOMAIN nodes : \A k, l \in DOMAIN nodes[p].children :
         nodes[p].children[k] = nodes[p].children[l] => k = l
    /\ (InScene(i) \/ \E p \in DOMAIN nodes : ChildOf(i, p)) <=>
         ~(i \in 2 .. Len(Linked) /\ Linked[i].parent = 0)

\* A joint is the node of its bone, and a node the skeleton lacked is below the
\* first node with the name of its parent, if that was there before it.
Joints ==
  \A s \in DOMAIN skins : \A k \in DOMAIN skins[s] :
    LET i == skins[s][k]
        bone == model.bones[model.skins[s][k]]
        above == {p \in 1 .. i - 1 : nodes[p].name = ParentName(bone)}
    IN  /\ i \in DOMAIN nodes /\ nodes[i].name = bone.name
        /\ i > Len(Linked) /\ bone.parent # 0 /\ above # {} =>
             \E p \in above : ChildOf(i, p)

(* The nodes are a forest that has every bone once, and the joints of the  *)
(* skins are the nodes of their bones, whichever of the two hierarchies a  *)
(* bone comes from and in whatever order the bones are listed.             *)
NodesRight == Tree /\ Joints
=============================================================================
