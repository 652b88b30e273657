------------------------------- MODULE MdoGltf -------------------------------
(***************************************************************************)
(* mdo_to_gltf: a model becomes one glTF document.  MdoNodes has the nodes *)
(* of the bones; this module has ProcessMeshes, which draws every vertex   *)
(* and index buffer that a primitive names once, then the morph targets,   *)
(* collects the primitives into one mesh per level of detail, and resolves *)
(* the bone weights, which come from a buffer of their own.                *)
(***************************************************************************)
EXTENDS MdoNodes, SequencesExt, FiniteSets

CONSTANT RowRange   (* Rows of the weight buffer are numbered modulo this; *)
                    (* 2^32 in the code.                                   *)

(***************************************************************************)
(* The further fields of a model                                           *)
(*   prims      the primitives: [vertex, index, lod, flags], their vertex  *)
(*              and index buffer, their level and the set bits of skinFlags *)
(*   indices    the index buffers: sequences of vertices, counted from 0   *)
(*   vertices   the vertex buffers: [count, keys, ids, weighs]: the        *)
(*              attributes of their descriptors, for each vertex its       *)
(*              number in the weight buffer, none without such a           *)
(*              descriptor, and whether all are of weights and joints      *)
(*   morphs     the morph descriptors: [target, ids, shapes], and for each *)
(*              of the ids its shape [at, turned]: the vertices it moves   *)
(*              and those of them whose normal changes                     *)
(*   names      how many names of morph targets there are                  *)
(***************************************************************************)
\* The descriptors have no attribute of the weights' names; all vertices of a
\* buffer are numbered or none is; every level has a palette, and no primitive
\* with weights an empty index buffer, whose smallest vertex is above its
\* largest.  Rows are there for all numbers.  The lists of a model belong to a
\* library: a primitive names buffers they have.
ASSUME MeshAssumption ==
  /\ None \notin Nat
  /\ RowRange \in Nat \ {0}
  /\ \A m \in Models :
       /\ IsList(m.prims) /\ IsList(m.vertices) /\ IsList(m.morphs) /\ m.names \in Nat
       /\ \A i \in DOMAIN m.prims :
            /\ m.prims[i].vertex \in DOMAIN m.vertices
            /\ ToSet(m.indices[m.prims[i].index]) \subseteq Nat
            /\ m.prims[i].lod \in Nat
       /\ \A v \in DOMAIN m.vertices :
            /\ IsList(m.vertices[v].keys)
            /\ ToSet(m.vertices[v].keys) \cap {"JOINTS_0", "WEIGHTS_0"} = {}
            /\ m.vertices[v].ids \in Seq(Nat)
            /\ m.vertices[v].count \in Nat /\ Len(m.vertices[v].ids) <= m.vertices[v].count
       /\ \A d \in DOMAIN m.morphs :
            /\ IsList(m.morphs[d].ids)
            /\ \A k \in DOMAIN m.morphs[d].ids : IsList(m.morphs[d].shapes[k].at)
       /\ IsList(m.palettes) /\ m.lods \in Nat
       /\ \A k \in DOMAIN m.palettes : m.palettes[k].offset \in Nat
       /\ m.palettes # <<>> =>
            \A i \in DOMAIN m.prims : m.indices[m.prims[i].index] # <<>>
       /\ m.palettes # <<>> =>
            \A l \in 0 .. m.lods - 1 : \E k \in DOMAIN m.palettes :
              m.palettes[k].lod = l /\ m.palettes[k].slot \in 0 .. 15

VARIABLES
  accessors,   (* The accessors of the document.                           *)
  sparse,      (* The sparse stream: its size, and what starts where.      *)
  drawn,       (* indexBuffers: the accessor of each index buffer drawn.   *)
  buffers,     (* vertexBuffers: what is known of each one drawn.          *)
  lodMeshes,   (* The primitives of each mesh, by key.                     *)
  wtsMap,      (* The accessor of the weights of each vertex buffer.       *)
  meshes       (* The meshes of the document.                              *)

drawVars == <<accessors, sparse, drawn, buffers, lodMeshes, wtsMap, meshes>>
vars == <<nodeVars, drawVars>>

NoEntries == [k \in {} |-> None]

With(f, k, v) == [i \in DOMAIN f \cup {k} |-> IF i = k THEN v ELSE f[i]]

Init ==
  /\ NodeInit
  /\ accessors = <<>>
  /\ sparse = [size |-> 0, at |-> NoEntries]
  /\ drawn = NoEntries
  /\ buffers = NoEntries
  /\ lodMeshes = NoEntries
  /\ wtsMap = NoEntries
  /\ meshes = <<>>

MakeNodes ==
  /\ RefuseVersion \/ LoadSkeleton \/ RefuseModel \/ LoadModel \/ ProcessSkins
  /\ UNCHANGED drawVars

RefuseMesh == Refuse /\ UNCHANGED drawVars

HasWeights == model.palettes # <<>>

-----------------------------------------------------------------------------
(***************************************************************************)
(* The buffers of the primitives.                                          *)
(***************************************************************************)
HasPrim == done < Len(model.prims)

prim == model.prims[done + 1]

(* The base of a morph comes with positions and normals of its own.        *)
Keys(v) ==
  model.vertices[v].keys \o
    FlattenSeq([d \in DOMAIN model.morphs |->
      IF model.morphs[d].target = v THEN <<"POSITION", "NORMAL">> ELSE <<>>])

(* The last descriptor of an attribute is the one the document keeps.      *)
LastDescriptor(v, k) ==
  CHOOSE d \in DOMAIN Keys(v) :
    Keys(v)[d] = k /\ \A e \in d + 1 .. Len(Keys(v)) : Keys(v)[e] # k

NewBuffer(v, before) ==
  [attrs  |-> [k \in ToSet(Keys(v)) |-> before + LastDescriptor(v, k)],
   morphs |-> <<>>,
   rows   |-> <<>>]

DrawBuffers ==
  /\ stage = "buffers" /\ HasPrim
  /\ LET v == prim.vertex
         index == IF prim.index \in DOMAIN drawn THEN <<>>
                    ELSE <<[holds |-> "indices", of |-> prim.index]>>
         attrs == IF v \in DOMAIN buffers THEN <<>>
                    ELSE [d \in DOMAIN Keys(v) |-> [holds |-> "attribute", of |-> v, desc |-> d]]
         before == Len(accessors) + Len(index)
     IN  /\ accessors' = accessors \o index \o attrs
         /\ drawn' = IF index = <<>> THEN drawn ELSE With(drawn, prim.index, before)
         /\ buffers' = IF v \in DOMAIN buffers THEN buffers
                         ELSE With(buffers, v, NewBuffer(v, before))
  /\ done' = done + 1
  /\ UNCHANGED <<model, stage, nodes, roots, skins, sparse, lodMeshes, wtsMap, meshes>>

EndBuffers ==
  /\ stage = "buffers" /\ ~HasPrim
  /\ GoTo("morphs")
  /\ UNCHANGED <<model, nodes, roots, skins, drawVars>>

-----------------------------------------------------------------------------
(***************************************************************************)
(* The morph targets, in the order V3Model lists them.                     *)
(***************************************************************************)
Morphs ==
  FlattenSeq([d \in DOMAIN model.morphs |->
    [k \in DOMAIN model.morphs[d].ids |->
       [target |-> model.morphs[d].target,
        id     |-> model.morphs[d].ids[k],
        at     |-> model.morphs[d].shapes[k].at,
        turned |-> model.morphs[d].shapes[k].turned]]])

HasMorph == stage = "morphs" /\ done < Len(Morphs)

morph == Morphs[done + 1]

(* The vertices of a morph whose normals turn, in order.                   *)
Turned(m) ==
  LET upTo[i \in 0 .. Len(m.at)] ==
        IF i = 0 THEN <<>>
        ELSE IF m.at[i] \in m.turned THEN Append(upTo[i - 1], m.at[i]) ELSE upTo[i - 1]
  IN  upTo[Len(m.at)]

Misnamed(m) == m.at # <<>> /\ m.id > model.names

(* vertexBuffers.at and morphs.at throw.                                   *)
RefuseMorph ==
  /\ HasMorph
  /\ morph.target \notin DOMAIN buffers \/ Misnamed(morph)
  /\ RefuseMesh

(* The first morph of a buffer makes an empty shape, that of every target  *)
(* of the buffer until a morph replaces it.                                *)
Base == IF buffers[morph.target].morphs = <<>> THEN <<[holds |-> "nothing", of |-> morph.target]>>
                                               ELSE <<>>
Targets ==
  IF Base = <<>> THEN buffers[morph.target].morphs
    ELSE [i \in 1 .. model.names |-> [k \in {"POSITION"} |-> Len(accessors) + 1]]

EmptyMorph ==
  /\ HasMorph /\ morph.target \in DOMAIN buffers /\ morph.at = <<>>
  /\ accessors' = accessors \o Base
  /\ buffers' = [buffers EXCEPT ![morph.target].morphs = Targets]
  /\ done' = done + 1
  /\ UNCHANGED <<model, stage, nodes, roots, skins, sparse, drawn, lodMeshes, wtsMap, meshes>>

(* Mutation: the stream is not padded.                                     *)
Unaligned(n, size) == n

(* ApplyPadding.                                                           *)
Aligned(n, size) == ((n + size - 1) \div size) * size

(***************************************************************************)
(* Deltas, their vertices and turned normals follow each other in the      *)
(* sparse stream; when not all the normals turn, the vertices of those     *)
(* that do are written once more.                                          *)
(***************************************************************************)
SparseMorph ==
  /\ HasMorph /\ morph.target \in DOMAIN buffers /\ morph.at # <<>> /\ ~Misnamed(morph)
  /\ LET n == Len(morph.at)
         turned == Turned(morph)
         deltas == Aligned(sparse.size, 4)
         vertices == Aligned(deltas + 12 * n, 2)
         normals == vertices + 2 * n
         again == IF Len(turned) \in {0, n} THEN vertices
                    ELSE Aligned(normals + 3 * Len(turned), 2)
         size == IF Len(turned) \in {0, n} THEN normals + 3 * Len(turned)
                   ELSE again + 2 * Len(turned)
         written == With(With(sparse.at, deltas, [deltas |-> morph.at, of |-> done + 1]),
                         vertices, morph.at)
         turnings == IF turned = <<>> THEN written
                       ELSE With(With(written, normals, [normals |-> turned, of |-> done + 1]),
                                 again, turned)
         first == Len(accessors) + Len(Base) + 1
     IN  /\ sparse' = [size |-> size, at |-> turnings]
         /\ accessors' = accessors \o Base
              \o <<[holds |-> "sparse", values |-> deltas, indices |-> vertices, count |-> n]>>
              \o (IF turned = <<>> THEN <<>>
                    ELSE <<[holds |-> "sparse", values |-> normals, indices |-> again,
                            count |-> Len(turned)]>>)
         /\ buffers' = [buffers EXCEPT ![morph.target].morphs =
              [Targets EXCEPT ![morph.id] =
                 [k \in {"POSITION"} \cup (IF turned = <<>> THEN {} ELSE {"NORMAL"}) |->
                    IF k = "POSITION" THEN first ELSE first + 1]]]
  /\ done' = done + 1
  /\ UNCHANGED <<model, stage, nodes, roots, skins, drawn, lodMeshes, wtsMap, meshes>>

EndMorphs ==
  /\ stage = "morphs" /\ done = Len(Morphs)
  /\ GoTo("prims")
  /\ UNCHANGED <<model, nodes, roots, skins, drawVars>>

-----------------------------------------------------------------------------
(***************************************************************************)
(* The weights of a primitive: its level and its lowest flag select a      *)
(* palette, or else the first of the level; the palette's offset leads     *)
(* from a vertex to a row of the weight buffer.                            *)
(***************************************************************************)
Level(p) == IF p.lod = 0 THEN 0 ELSE p.lod - 1

Slot(p) ==
  IF p.flags = {} THEN 0 ELSE CHOOSE f \in p.flags : \A g \in p.flags : f <= g

PalettesAt(level, slot) ==
  {k \in DOMAIN model.palettes : model.palettes[k].lod = level /\ model.palettes[k].slot = slot}

Sampler(p) ==
  LET slots == {s \in 0 .. 15 : PalettesAt(Level(p), s) # {}}
      slot == IF Slot(p) \in slots THEN Slot(p) ELSE CHOOSE s \in slots : \A o \in slots : s <= o
      found == PalettesAt(Level(p), slot)
  IN  model.palettes[CHOOSE k \in found : \A o \in found : o <= k]

Ids(p) == model.vertices[p.vertex].ids

Used(p) == ToSet(model.indices[p.index])

(* The vertices from minId to maxId.                                       *)
Covered(p) == UNION {low .. high : low, high \in Used(p)}

Row(p, m) == (Ids(p)[m + 1] + Sampler(p).offset) % RowRange

(* The base of a morph has positions as well.                              *)
Unhandled ==
  \/ ~model.vertices[model.weights].weighs
  \/ \E d \in DOMAIN model.morphs : model.morphs[d].target = model.weights

Unweighable(p) ==
  Level(p) >= model.lods \/ Unhandled \/ \E m \in Used(p) : m >= Len(Ids(p))

(* samplers.at, indices.at and boneWts.at throw, and Resample for a        *)
(* descriptor of the weight buffer that is of something else.              *)
RefusePrim == stage = "prims" /\ HasPrim /\ HasWeights /\ Unweighable(prim) /\ RefuseMesh

(* Mutation: the last primitive that covers a vertex decides.              *)
RowsOfLast ==
  LET old == IF buffers[prim.vertex].rows # <<>> THEN buffers[prim.vertex].rows
               ELSE [m \in 1 .. model.vertices[prim.vertex].count |-> None]
  IN  [m \in DOMAIN old |-> IF m - 1 \in Covered(prim) THEN Row(prim, m - 1) ELSE old[m]]

(* A weight word is never 0, for its fourth weight is what the other three *)
(* leave of 1: 0 says that no primitive came to the vertex yet.            *)
Rows ==
  LET old == IF buffers[prim.vertex].rows # <<>> THEN buffers[prim.vertex].rows
               ELSE [m \in 1 .. model.vertices[prim.vertex].count |-> None]
  IN  [m \in DOMAIN old |-> IF old[m] = None /\ m - 1 \in Covered(prim) THEN Row(prim, m - 1)
                                                                       ELSE old[m]]

MeshKey(p) == (p.lod % 256) + (IF buffers[p.vertex].morphs = <<>> THEN 0 ELSE 256)

(* JOINTS_0 and WEIGHTS_0 name the vertex buffer until its weights are     *)
(* written.                                                                *)
Attributes(p) ==
  IF HasWeights
    THEN With(With(buffers[p.vertex].attrs, "JOINTS_0", -p.vertex), "WEIGHTS_0", -p.vertex)
    ELSE buffers[p.vertex].attrs

DrawPrim ==
  /\ stage = "prims" /\ HasPrim
  /\ HasWeights => ~Unweighable(prim)
  /\ LET key == MeshKey(prim)
         before == IF key \in DOMAIN lodMeshes THEN lodMeshes[key] ELSE <<>>
     IN  lodMeshes' = With(lodMeshes, key, Append(before,
           [indices    |-> drawn[prim.index],
            attributes |-> Attributes(prim),
            targets    |-> buffers[prim.vertex].morphs]))
  /\ buffers' = IF HasWeights THEN [buffers EXCEPT ![prim.vertex].rows = Rows] ELSE buffers
  /\ done' = done + 1
  /\ UNCHANGED <<model, stage, nodes, roots, skins, accessors, sparse, drawn, wtsMap, meshes>>

EndPrims ==
  /\ stage = "prims" /\ ~HasPrim
  /\ GoTo("weights")
  /\ UNCHANGED <<model, nodes, roots, skins, drawVars>>

-----------------------------------------------------------------------------
(* The vertex buffers without their weights; a map has them in order.      *)
Unwritten == IF HasWeights THEN DOMAIN buffers \ DOMAIN wtsMap ELSE {}

WriteWeights ==
  /\ stage = "weights"
  /\ \E v \in Unwritten :
       /\ \A o \in Unwritten : v <= o
       /\ wtsMap' = With(wtsMap, v, Len(accessors) + 1)
       /\ accessors' = accessors \o <<[holds |-> "weights", rows |-> buffers[v].rows],
                                      [holds |-> "joints", rows |-> buffers[v].rows]>>
  /\ UNCHANGED <<nodeVars, sparse, drawn, buffers, lodMeshes, meshes>>

EndWeights ==
  /\ stage = "weights" /\ Unwritten = {}
  /\ GoTo("meshes")
  /\ UNCHANGED <<model, nodes, roots, skins, drawVars>>

-----------------------------------------------------------------------------
Unmade == DOMAIN lodMeshes \ {meshes[i].key : i \in DOMAIN meshes}

Resolved(p) ==
  IF ~HasWeights THEN p
    ELSE LET v == -p.attributes["JOINTS_0"]
         IN  [p EXCEPT !.attributes["JOINTS_0"] = wtsMap[v] + 1,
                       !.attributes["WEIGHTS_0"] = wtsMap[v]]

MakeMesh ==
  /\ stage = "meshes"
  /\ \E key \in Unmade :
       /\ \A o \in Unmade : key <= o
       /\ meshes' = Append(meshes,
            [key |-> key, prims |-> [i \in DOMAIN lodMeshes[key] |-> Resolved(lodMeshes[key][i])]])
       /\ nodes' = Append(nodes,
            [name |-> key, children |-> <<>>, mesh |-> Len(meshes) + 1,
             skin |-> IF skins = <<>> THEN None ELSE 1])
  /\ roots' = Append(roots, Len(nodes) + 1)
  /\ UNCHANGED <<model, stage, done, skins, accessors, sparse, drawn, buffers, lodMeshes, wtsMap>>

Save ==
  /\ stage = "meshes" /\ Unmade = {}
  /\ GoTo("saved")
  /\ UNCHANGED <<model, nodes, roots, skins, drawVars>>

ProcessMeshes ==
  \/ DrawBuffers \/ EndBuffers
  \/ RefuseMorph \/ EmptyMorph \/ SparseMorph \/ EndMorphs
  \/ RefusePrim \/ DrawPrim \/ EndPrims
  \/ WriteWeights \/ EndWeights
  \/ MakeMesh

AppProcessFile == MakeNodes \/ ProcessMeshes \/ Save

Done == stage \in {"saved", "refused"} /\ UNCHANGED vars

Next == AppProcessFile \/ Done

Spec == Init /\ [][Next]_vars /\ WF_vars(AppProcessFile)
-----------------------------------------------------------------------------
(* The primitives of the model that go to the mesh of a key, and which of  *)
(* them a primitive is.                                                    *)
Members(key) == {i \in DOMAIN model.prims : MeshKey(model.prims[i]) = key}

Place(i) == Cardinality({k \in Members(MeshKey(model.prims[i])) : k <= i})

(* The accessors of a primitive's attributes hold the last descriptor of   *)
(* its vertex buffer for each, and no other attribute.                     *)
AttributesOf(p, drawing) ==
  /\ DOMAIN drawing.attributes =
       ToSet(Keys(p.vertex)) \cup (IF HasWeights THEN {"JOINTS_0", "WEIGHTS_0"} ELSE {})
  /\ \A k \in ToSet(Keys(p.vertex)) :
       accessors[drawing.attributes[k]] =
         [holds |-> "attribute", of |-> p.vertex, desc |-> LastDescriptor(p.vertex, k)]

(* What a sparse accessor reads.                                           *)
Reads(a, values, vertices) ==
  /\ a.values \in DOMAIN sparse.at /\ sparse.at[a.values] = values
  /\ a.indices \in DOMAIN sparse.at /\ sparse.at[a.indices] = vertices
  /\ a.indices % 2 = 0 /\ a.count = Len(vertices)

(* Target i of a vertex buffer: the last morph of that name that moves     *)
(* anything, or the empty shape.                                           *)
TargetOf(v, i, target) ==
  LET found == {k \in DOMAIN Morphs : Morphs[k].target = v /\ Morphs[k].id = i /\ Morphs[k].at # <<>>}
  IN  \/ /\ found = {} /\ DOMAIN target = {"POSITION"}
         /\ accessors[target["POSITION"]] = [holds |-> "nothing", of |-> v]
      \/ \E k \in found :
           /\ \A o \in found : o <= k
           /\ LET m == Morphs[k]
              IN  /\ Reads(accessors[target["POSITION"]], [deltas |-> m.at, of |-> k], m.at)
                  /\ accessors[target["POSITION"]].values % 4 = 0
                  /\ "NORMAL" \in DOMAIN target <=> Turned(m) # <<>>
                  /\ "NORMAL" \in DOMAIN target =>
                       Reads(accessors[target["NORMAL"]], [normals |-> Turned(m), of |-> k], Turned(m))

(* A saved document has every primitive once, in the mesh of its level and *)
(* with the others of that mesh in order; it draws its own index buffer,   *)
(* attributes and morph targets, whatever buffers it shares with others.   *)
PrimitivesReadBack ==
  stage = "saved" =>
    /\ {meshes[n].key : n \in DOMAIN meshes} = {MeshKey(model.prims[i]) : i \in DOMAIN model.prims}
    /\ \A n, o \in DOMAIN meshes : meshes[n].key = meshes[o].key => n = o
    /\ \A n \in DOMAIN meshes :
         /\ Len(meshes[n].prims) = Cardinality(Members(meshes[n].key))
         /\ \A i \in Members(meshes[n].key) :
              LET p == model.prims[i]
                  drawing == meshes[n].prims[Place(i)]
              IN  /\ accessors[drawing.indices] = [holds |-> "indices", of |-> p.index]
                  /\ AttributesOf(p, drawing)
                  /\ (drawing.targets # <<>> => Len(drawing.targets) = model.names)
                  /\ \A j \in DOMAIN drawing.targets : TargetOf(p.vertex, j, drawing.targets[j])

(* The weights of a vertex that a primitive uses are those its own palette *)
(* leads to, unless a primitive before it covered the vertex with another  *)
(* row; joints and weights are of the same row.                            *)
WeightsRight ==
  stage = "saved" /\ HasWeights =>
    \A n \in DOMAIN meshes : \A i \in Members(meshes[n].key) :
      LET p == model.prims[i]
          drawing == meshes[n].prims[Place(i)]
          weights == accessors[drawing.attributes["WEIGHTS_0"]]
          joints == accessors[drawing.attributes["JOINTS_0"]]
      IN  /\ weights.holds = "weights" /\ joints.holds = "joints"
          /\ weights.rows = joints.rows
          /\ \A m \in Used(p) :
               (\A k \in 1 .. i - 1 :
                  LET q == model.prims[k]
                  IN  q.vertex = p.vertex /\ m \in Covered(q) => Row(q, m) = Row(p, m))
                 => weights.rows[m + 1] = Row(p, m)

(* What a model needs to become a document.                                *)
Convertible ==
  /\ model.version # 2
  /\ \A a \in Opened : a.kind # "foreign"
  /\ \A k \in DOMAIN Linked : Linked[k].parent < k
  /\ Loads
  /\ \A k \in DOMAIN Morphs :
       /\ \E i \in DOMAIN model.prims : model.prims[i].vertex = Morphs[k].target
       /\ ~Misnamed(Morphs[k])
  /\ HasWeights => \A i \in DOMAIN model.prims : ~Unweighable(model.prims[i])

(* Every model that can be converted is saved, and every other refused.    *)
Converts == <>(stage = IF Convertible THEN "saved" ELSE "refused")
=============================================================================
