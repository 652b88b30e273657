------------------------------ MODULE MapScene ------------------------------
(***************************************************************************)
(* From a streamed map to a scene: sm_extract writes the shared buffers,   *)
(* im_to_gltf or tm_to_gltf loads the models that draw from one of them    *)
(* and builds a glTF document whose accessors select bytes of it.          *)
(*                                                                         *)
(* Every primitive of a loaded model has the model's level of detail, so   *)
(* ProcessMeshes makes one mesh and one node per model.  Positions in the  *)
(* document count from 1.                                                  *)
(***************************************************************************)
EXTENDS MapExtract

CONSTANTS
  ModelFiles,   (* The model files, see MapModels, and NoFile.             *)
  Jobs,         (* What is done: <<map, model file>> pairs.                *)
  SignBit,      (* As in MapModels.                                        *)
  Levels,       (* The length of lodNodes, 4 in the code.                  *)
  Scaled        (* The matrices whose scale is not 1.                      *)

(* What a file is trusted with.  Nothing checks that its levels fit        *)
(* lodNodes (im_to_gltf.cpp:70), that the entries of one list lie in the   *)
(* list they point into (msim.cpp:190-195), or that its meshes have        *)
(* streams (im_to_gltf.cpp:375) with the index buffers asked for (101).    *)
LevelsFit(f) ==
  /\ Len(f.meshes) \in Nat
  /\ f.kind = "im" =>
       /\ Levels > 0 /\ Len(f.clusters) \in Nat
       /\ \A c \in 1 .. Len(f.clusters) : f.clusters[c].num \in 0 .. Levels
  /\ f.kind = "tm" =>
       \A k \in 1 .. Len(f.meshes) : f.meshIndices[k] \div Len(f.lookups) \in 0 .. Levels - 1

ListsFit(f) ==
  /\ f.kind = "im" =>
       /\ f.matrices \in Seq(0 .. Len(f.clusters) - 1)
       /\ f.modelLODs \in Seq(-SignBit .. SignBit - 1)
       /\ \A c \in 1 .. Len(f.clusters) :
            /\ f.clusters[c].start \in Nat
            /\ f.clusters[c].start + f.clusters[c].num <= Len(f.modelLODs)
  /\ f.kind = "tm" =>
       /\ Len(f.lookups) \in Nat \ {0}
       /\ \A k \in 1 .. Len(f.meshes) : f.meshIndices[k] \in Nat

StreamOfMesh(f, k) ==
  IF f.kind = "im" THEN f.streams[k]
  ELSE LET n == Len(f.lookups)
       IN  f.lookups[(f.meshIndices[k] % n) + 1][(f.meshIndices[k] \div n) + 1]

StreamsFit(m, f) ==
  LET streams == IF f.kind = "tm" THEN m.terrain ELSE m.objects
      Prims(s) == [vb : Nat, ib : 0 .. Len(s.indices) - 1]
  IN  \A k \in 1 .. Len(f.meshes) :
        /\ StreamOfMesh(f, k) \in 0 .. Len(streams) - 1
        /\ f.meshes[k] \in Seq(Prims(streams[StreamOfMesh(f, k) + 1]))

ASSUME SceneAssumption ==
  /\ Levels \in Nat /\ SignBit \in Nat
  /\ \A f \in ModelFiles : LevelsFit(f) /\ ListsFit(f)
  /\ \A j \in Jobs : j[2].kind \in {"im", "tm"} => StreamsFit(j[1], j[2])

VARIABLES
  file, models, stage, cursor,  (* The model file and its loader.          *)
  fate,       (* "extract", "load", "convert", "saved" or "failed".        *)
  drawn,      (* How many models the document has.                         *)
  opened,     (* The streams ProcessBuffers has been called for.           *)
  doc         (* The document.                                             *)

Loader == INSTANCE MapModels

loaderVars == <<file, models, stage, cursor>>
sceneVars == <<fate, drawn, opened, doc>>
vars == <<sessionVars, loaderVars, sceneVars>>

(* No model of the map is converted.                                       *)
NoFile == [kind |-> "none", meshes |-> <<>>]

(***************************************************************************)
(* The document: buffers, bufferViews, accessors, meshes, nodes, the roots *)
(* of its scene, the nodes of the levels (0: none yet), and the streams of *)
(* its embedded buffer: instance transforms and scales.                    *)
(***************************************************************************)
EmptyDoc(kind) ==
  [buffers |-> IF kind = "im" THEN <<"embedded", "shared">> ELSE <<"shared">>,
   bufferViews |-> <<>>, accessors |-> <<>>, meshes |-> <<>>, nodes |-> <<>>,
   roots |-> <<>>, lodNodes |-> [l \in 0 .. Levels - 1 |-> 0],
   tms |-> <<>>, scales |-> <<>>]

SceneInit ==
  /\ ExtractInit
  /\ Loader!Init
  /\ <<map, file>> \in Jobs
  /\ fate = "extract"
  /\ drawn = 0
  /\ opened = <<>>
  /\ doc = EmptyDoc(file.kind)

(* sm_extract runs.                                                        *)
ExtractStep ==
  /\ fate = "extract"
  /\ AppProcessFile
  /\ UNCHANGED <<loaderVars, sceneVars>>

(* The shared buffer that models of this kind draw from, and its streams.  *)
SharedPart == IF file.kind = "tm" THEN "terrain.bin" ELSE "oj.bin"

SharedStreams == IF file.kind = "tm" THEN map.terrain ELSE map.objects

IsShared(f, name) == f.part = SharedPart /\ f.name = name

SharedFile(name) == CHOOSE f \in Range(files) : IsShared(f, name)

HasHeader == \E f \in Range(files) : IsShared(f, "binh")

(* A converter is started for a model and asks for the header.             *)
AtHeader == fate = "extract" /\ outcome # "working" /\ file # NoFile

OpenHeader ==
  /\ AtHeader /\ HasHeader
  /\ fate' = "load"
  /\ Reopen(SharedStreams, SharedFile("bin").data, SharedFile("binh").data)
  /\ UNCHANGED <<extractVars, loaderVars, drawn, opened, doc>>

MissHeader ==
  /\ AtHeader /\ ~HasHeader
  /\ fate' = "failed"
  /\ UNCHANGED <<sessionVars, loaderVars, drawn, opened, doc>>

LoadStep ==
  /\ fate = "load"
  /\ Loader!Load
  /\ UNCHANGED <<sessionVars, sceneVars>>

(* Mutation: the exception of the loader is swallowed.                     *)
EndLoadAnyway ==
  /\ fate = "load" /\ stage \in {"ready", "failed"}
  /\ fate' = "convert"
  /\ UNCHANGED <<sessionVars, loaderVars, drawn, opened, doc>>

EndLoad ==
  /\ fate = "load" /\ stage \in {"ready", "failed"}
  /\ fate' = IF stage = "ready" THEN "convert" ELSE "failed"
  /\ UNCHANGED <<sessionVars, loaderVars, drawn, opened, doc>>

-----------------------------------------------------------------------------
(* ProcessBuffers.  A stream gets a bufferView for each view with a size.  *)
SlotOrder ==
  <<"Float3", "Float2", "Short2", "Short4", "Byte4", "IndexShort", "IndexInt">>

UsedSlots(h) ==
  {i \in (DOMAIN SlotOrder) \X {0} : h.views[SlotOrder[i[1]]].size > 0}

(* The member of S with this rank.                                         *)
Ranked(S, n) == CHOOSE i \in S : Rank(S, i) = n

BufferViews(h, buffer) ==
  [n \in 1 .. Cardinality(UsedSlots(h)) |->
    LET w == h.views[SlotOrder[Ranked(UsedSlots(h), n)[1]]]
    IN  [buffer |-> buffer, offset |-> w.offset, length |-> w.size]]

(* The number of a slot's bufferView among those of its stream.            *)
ViewNumber(h, slot) ==
  Rank(UsedSlots(h), CHOOSE i \in UsedSlots(h) : SlotOrder[i[1]] = slot)

(* Mutation: the new bufferView is counted before its number is taken.     *)
AccessorNextView(h, slot, offset, count) ==
  [view |-> Len(doc.bufferViews) + 1 + ViewNumber(h, slot),
   offset |-> offset, count |-> count, slot |-> slot]

(* An accessor of the stream whose first bufferView is the next one.       *)
Accessor(h, slot, offset, count) ==
  [view |-> Len(doc.bufferViews) + ViewNumber(h, slot),
   offset |-> offset, count |-> count, slot |-> slot]

IndexAccessors(h) ==
  [i \in 1 .. Len(h.indices) |->
    Accessor(h, "IndexShort", h.indices[i].offset, h.indices[i].count)]

(* The attribute records of all vertex buffers.                            *)
Records(h) == UNION {{v} \X (DOMAIN h.vertices[v]) : v \in DOMAIN h.vertices}

VertexAccessors(s, h) ==
  [n \in 1 .. Cardinality(Records(h)) |->
    LET i == Ranked(Records(h), n)
        a == h.vertices[i[1]][i[2]]
    IN  Accessor(h, a.slot, a.offset, s.vertices[i[1]].n)]

(* What an attribute record is called: UVs and colours are numbered.       *)
Family(desc) ==
  IF desc = "uvWide" \/ desc \in Packed THEN "TEXCOORD" ELSE desc

AttributeName(descs, k) ==
  IF Family(descs[k]) \in {"TEXCOORD", "colour"}
  THEN <<Family(descs[k]),
         Cardinality({j \in 1 .. k - 1 : Family(descs[j]) = Family(descs[k])})>>
  ELSE <<descs[k], 0>>

(* The names of vertex buffer v, each with the last record of its name,    *)
(* and the record's accessor: those of the stream begin after number begin. *)
Named(records, name) ==
  {k \in 1 .. Len(records) :
     AttributeName([j \in 1 .. Len(records) |-> records[j].desc], k) = name}

AttributeNames(records) ==
  {AttributeName([j \in 1 .. Len(records) |-> records[j].desc], k) : k \in 1 .. Len(records)}

Attributes(h, v, begin) ==
  [name \in AttributeNames(h.vertices[v]) |->
    begin + Len(h.indices) + Rank(Records(h), <<v, Max(Named(h.vertices[v], name))>>)]

(* views.at() refuses the slot of an index buffer or attribute without a   *)
(* bufferView.                                                             *)
SlotMissing(h) ==
  \/ h.indices # <<>> /\ h.views.IndexShort.size = 0
  \/ \E v \in 1 .. Len(h.vertices) : \E k \in 1 .. Len(h.vertices[v]) :
       h.views[h.vertices[v][k].slot].size = 0

Model == models[drawn + 1]
ModelStream == Model.stream + 1
MoreModels == fate = "convert" /\ drawn < Len(models)

RefuseSlot ==
  /\ MoreModels /\ ModelStream \notin DOMAIN opened
  /\ SlotMissing(header[ModelStream])
  /\ fate' = "failed"
  /\ UNCHANGED <<sessionVars, loaderVars, drawn, opened, doc>>

(* The accessors of stream n, and where those of its vertex buffers are.   *)
AddStream(n, indexBase) ==
  LET h == header[n]
      begin == Len(doc.accessors)
  IN  /\ doc' = [doc EXCEPT
           !.bufferViews = @ \o BufferViews(h, IF file.kind = "im" THEN 2 ELSE 1),
           !.accessors = @ \o IndexAccessors(h) \o VertexAccessors(source[n], h)]
      /\ opened' = [m \in DOMAIN opened \cup {n} |->
           IF m = n
           THEN [vertices |-> [v \in 1 .. Len(h.vertices) |-> Attributes(h, v, begin)],
                 beginIndices |-> indexBase]
           ELSE opened[m]]

(* Mutation: the index accessors are taken to be the document's first.     *)
OpenStreamAtZero ==
  /\ MoreModels /\ ModelStream \notin DOMAIN opened
  /\ ~SlotMissing(header[ModelStream])
  /\ AddStream(ModelStream, 0)
  /\ UNCHANGED <<sessionVars, loaderVars, fate, drawn>>

OpenStream ==
  /\ MoreModels /\ ModelStream \notin DOMAIN opened
  /\ ~SlotMissing(header[ModelStream])
  /\ AddStream(ModelStream, Len(doc.accessors))
  /\ UNCHANGED <<sessionVars, loaderVars, fate, drawn>>

-----------------------------------------------------------------------------
(* ProcessMeshes.  attrs.first.at() refuses an unknown vertex buffer.      *)
UnknownBuffer(model) ==
  \E i \in 1 .. Len(model.prims) :
    model.prims[i].vb >= Len(opened[model.stream + 1].vertices)

RefuseBuffer ==
  /\ MoreModels /\ ModelStream \in DOMAIN opened
  /\ UnknownBuffer(Model)
  /\ fate' = "failed"
  /\ UNCHANGED <<sessionVars, loaderVars, drawn, opened, doc>>

Mesh(model) ==
  LET o == opened[model.stream + 1]
  IN  [i \in 1 .. Len(model.prims) |->
        [indices |-> o.beginIndices + model.prims[i].ib + 1,
         attributes |-> o.vertices[model.prims[i].vb + 1]]]

(***************************************************************************)
(* Where the model stands: one matrix, or one instance per matrix with its *)
(* translation and rotation, and its scale if any of them needs one.       *)
(***************************************************************************)
Instanced(model) == file.kind = "im" /\ Len(model.matrices) > 1

(* Mutation: the first instance speaks for all of them.                    *)
RescaledFirst(model) == model.matrices[1] \in Scaled

Rescaled(model) == Range(model.matrices) \cap Scaled # {}

Transforms(model) ==
  [j \in 1 .. 2 * Len(model.matrices) |->
    <<model.matrices[(j + 1) \div 2], IF j % 2 = 1 THEN "translation" ELSE "rotation">>]

InstanceAccessors(model) ==
  LET n == Len(model.matrices)
      Select(slot, offset) == [view |-> 0, offset |-> offset, count |-> n, slot |-> slot]
  IN  <<Select("translation", Len(doc.tms)), Select("rotation", Len(doc.tms) + 1)>>
        \o IF Rescaled(model) THEN <<Select("scale", Len(doc.scales))>> ELSE <<>>

Place(model) ==
  IF Instanced(model) THEN
    [instances |-> [i \in 1 .. Len(InstanceAccessors(model)) |->
                     Len(doc.accessors) + i], matrix |-> <<>>]
  ELSE [instances |-> <<>>, matrix |-> IF file.kind = "im" THEN model.matrices ELSE <<>>]

(* Mutation: a level's node is made again for every model.                 *)
HasNodeNever(level) == FALSE

HasNode(level) == doc.lodNodes[level] # 0

(* The model's node joins the node of its level, which is made at need.    *)
AddNode(model, level) ==
  LET made == HasNode(level)
      parent == IF made THEN doc.lodNodes[level] ELSE Len(doc.nodes) + 1
      group == [mesh |-> 0, children |-> <<>>, place |-> <<>>]
      before == IF made THEN doc.nodes ELSE Append(doc.nodes, group)
      node == [mesh |-> Len(doc.meshes) + 1, children |-> <<>>,
               place |-> Place(model)]
  IN  doc' = [doc EXCEPT
        !.nodes = Append([before EXCEPT
                            ![parent].children = Append(@, Len(before) + 1)],
                         node),
        !.lodNodes[level] = parent,
        !.roots = IF made THEN @ ELSE Append(@, parent),
        !.meshes = Append(@, Mesh(model)),
        !.accessors = IF Instanced(model) THEN @ \o InstanceAccessors(model) ELSE @,
        !.tms = IF Instanced(model) THEN @ \o Transforms(model) ELSE @,
        !.scales = IF Instanced(model) /\ Rescaled(model)
                   THEN @ \o model.matrices ELSE @]

DrawModel ==
  /\ MoreModels /\ ModelStream \in DOMAIN opened
  /\ ~UnknownBuffer(Model)
  /\ AddNode(Model, Model.lod)
  /\ drawn' = drawn + 1
  /\ UNCHANGED <<sessionVars, loaderVars, fate, opened>>

-----------------------------------------------------------------------------
(***************************************************************************)
(* Saving.  im_to_gltf keeps its embedded buffer only if instances were    *)
(* written to it; without it the shared buffer becomes the first.          *)
(***************************************************************************)
Finished == fate = "convert" /\ drawn = Len(models)

(* Mutation: the views keep referring to the second buffer.                *)
SaveStale ==
  /\ Finished
  /\ fate' = "saved"
  /\ doc' = IF file.kind = "im" /\ doc.tms = <<>>
            THEN [doc EXCEPT !.buffers = Tail(@)]
            ELSE doc
  /\ UNCHANGED <<sessionVars, loaderVars, drawn, opened>>

Save ==
  /\ Finished
  /\ fate' = "saved"
  /\ doc' = IF file.kind = "im" /\ doc.tms = <<>>
            THEN [doc EXCEPT
                   !.buffers = Tail(@),
                   !.bufferViews = [i \in DOMAIN @ |-> [@[i] EXCEPT !.buffer = 1]]]
            ELSE doc
  /\ UNCHANGED <<sessionVars, loaderVars, drawn, opened>>

SceneDone ==
  /\ \/ fate \in {"saved", "failed"}
     \/ outcome # "working" /\ file = NoFile
  /\ UNCHANGED vars

Work ==
  \/ ExtractStep \/ OpenHeader \/ MissHeader
  \/ LoadStep \/ EndLoad
  \/ RefuseSlot \/ OpenStream
  \/ RefuseBuffer \/ DrawModel
  \/ Save

SceneNext == Work \/ SceneDone

(* One process after the other, neither suspended for ever.                *)
SceneSpec == SceneInit /\ [][SceneNext]_vars /\ WF_vars(Work)

-----------------------------------------------------------------------------
SceneTypeOK ==
  /\ TypeOK
  /\ stage \in {"models", "place", "lods", "ready", "failed"}
  /\ fate \in {"extract", "load", "convert", "saved", "failed"}
  /\ drawn \in 0 .. Len(models)
  /\ DOMAIN opened \subseteq 1 .. Len(header)
  /\ \A i \in 1 .. Len(doc.accessors) :
       doc.accessors[i].view \in 0 .. Len(doc.bufferViews)
  /\ \A i \in 1 .. Len(doc.nodes) : doc.nodes[i].mesh \in 0 .. Len(doc.meshes)

(* The models the loader gave the converter are placed as often and at the *)
(* levels their file lists them with, as stated in MapModels.              *)
AsListed == Loader!PlacedAsListed /\ Loader!LevelsAsListed

(* All units an accessor selects from the shared buffer belong to tag.     *)
Selects(a, tag) ==
  LET w == doc.bufferViews[a.view]
      n == a.count * Stride[a.slot]
  IN  /\ a.offset + n <= w.length
      /\ Belongs(w.offset + a.offset, n, tag)

(* The descriptors of vertex buffer v whose record gets a name.            *)
DescriptorsNamed(n, v, name) ==
  {d \in Recorded(source[n], v) :
     RecordNumber(source[n], <<v, d>>) \in Named(header[n].vertices[v], name)}

PrimitiveReadsBack(k, i) ==
  LET p == models[k].prims[i]
      n == models[k].stream + 1
      drawnAs == doc.meshes[k][i]
  IN  /\ Selects(doc.accessors[drawnAs.indices], <<n, "index", p.ib + 1, 0>>)
      /\ \A name \in DOMAIN drawnAs.attributes :
           \E d \in DescriptorsNamed(n, p.vb + 1, name) :
             \/ LaterPacked(source[n], <<p.vb + 1, d>>)
             \/ Selects(doc.accessors[drawnAs.attributes[name]],
                        <<n, "vertex", p.vb + 1, d>>)

(***************************************************************************)
(* Every primitive of a drawn model reads, through mesh, accessor and      *)
(* view, the indices and the vertex attributes of its own buffers of its   *)
(* own stream, whatever streams and instances came before it in the        *)
(* document (im_to_gltf.cpp:85-323 on what sm_extract.cpp:50-333 wrote).   *)
(* Packed UVs after the first of a stream are left out.                    *)
(***************************************************************************)
MeshesReadBack ==
  \A k \in 1 .. drawn : \A i \in 1 .. Len(models[k].prims) :
    PrimitiveReadsBack(k, i)

(***************************************************************************)
(* The node of a drawn model puts it where the file does: at its one       *)
(* matrix, or at as many instances as it has matrices, in their order,     *)
(* with their scales if one of them has any (im_to_gltf.cpp:131-193).      *)
(***************************************************************************)
NodeOf(k) == CHOOSE n \in 1 .. Len(doc.nodes) : doc.nodes[n].mesh = k

ReadsInstances(a, ms) ==
  /\ a.count = Len(ms)
  /\ \A i \in 1 .. Len(ms) :
       IF a.slot = "scale"
       THEN doc.scales[a.offset + i] = ms[i]
       ELSE doc.tms[a.offset + 2 * i - 1] = <<ms[i], a.slot>>

InstancesReadBack ==
  \A k \in 1 .. drawn :
    LET ms == models[k].matrices
        place == doc.nodes[NodeOf(k)].place
        slots == {doc.accessors[place.instances[i]].slot :
                    i \in 1 .. Len(place.instances)}
    IN  IF Len(ms) <= 1
        THEN place.matrix = ms /\ slots = {}
        ELSE /\ slots = {"translation", "rotation"}
                  \cup IF Range(ms) \cap Scaled # {} THEN {"scale"} ELSE {}
             /\ \A i \in 1 .. Len(place.instances) :
                  ReadsInstances(doc.accessors[place.instances[i]], ms)

(***************************************************************************)
(* The scene is a tree of two layers: every node is a root or the child of *)
(* one root, never both, and every drawn model hangs below the node of its *)
(* level of detail (im_to_gltf.cpp:69-77, 107-128, 195).                   *)
(***************************************************************************)
Parents(n) ==
  {p \in 1 .. Len(doc.nodes) : n \in Range(doc.nodes[p].children)}

SceneIsTree ==
  /\ \A n \in 1 .. Len(doc.nodes) :
       /\ n \in Range(doc.roots) <=> Parents(n) = {}
       /\ Cardinality(Parents(n)) <= 1
       /\ Parents(n) \subseteq Range(doc.roots)
  /\ \A k \in 1 .. drawn : Parents(NodeOf(k)) = {doc.lodNodes[models[k].lod]}

(***************************************************************************)
(* In a saved document every view of the streams is a view of the shared   *)
(* buffer (im_to_gltf.cpp:381-397, tm_to_gltf.cpp:119).                    *)
(***************************************************************************)
ViewsOfShared ==
  fate = "saved" =>
    \A i \in 1 .. Len(doc.bufferViews) :
      /\ doc.bufferViews[i].buffer \in 1 .. Len(doc.buffers)
      /\ doc.buffers[doc.bufferViews[i].buffer] = "shared"

(***************************************************************************)
(* Converting ends, and it ends with a document of all models unless the   *)
(* header is missing, the loader refused the file or a lookup threw.       *)
(***************************************************************************)
Converts ==
  <>[] \/ fate = "saved" /\ drawn = Len(file.meshes)
       \/ fate = "failed" /\ (~HasHeader \/ stage = "failed")
       \/ file = NoFile
       \/ /\ fate = "failed" /\ drawn < Len(models)
          /\ IF ModelStream \in DOMAIN opened THEN UnknownBuffer(Model)
             ELSE SlotMissing(header[ModelStream])
=============================================================================
