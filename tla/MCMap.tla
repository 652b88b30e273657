------------------------------ MODULE MCMap ------------------------------
(***************************************************************************)
(* Two families of jobs.                                                   *)
(*                                                                         *)
(* To extract a map only: its shared buffers have up to two streams, drawn *)
(* from vertex buffers that between them have every kind of descriptor, in *)
(* orders that differ from the passes', and some that nobody decodes.  One *)
(* of the two shared buffers varies freely while the other is one of       *)
(* three; the other parts have an entry of every kind or none at all.      *)
(*                                                                         *)
(* To extract a map and convert a model: one map with two streams in each  *)
(* buffer, one that has a stream without indices to view, one whose buffer *)
(* of the model's kind cannot be decoded; object files with shared,        *)
(* repeated and unplaced models, and terrain files.                        *)
(***************************************************************************)
EXTENDS MapScene

MCBuffers ==
  {[n |-> 1, descs |-> <<"position", "uvUnsigned", "normal", "uvSigned">>],
   [n |-> 2, descs |-> <<"uvWide", "colour", "position", "unused">>],
   [n |-> 1, descs |-> <<"tangent", "uvSigned", "uvWide", "normal", "colour">>]}

MCUndecodable ==
  {[n |-> 1, descs |-> <<"position", "reflection">>],
   [n |-> 1, descs |-> <<"unknown">>]}

\* Odd and even numbers of indices, none.
MCIndices == {<<3, 0>>, <<1, 2>>}

MCStreams ==
  {[indices |-> i, vertices |-> <<a, b>>] :
     i \in MCIndices, a \in MCBuffers, b \in MCBuffers \cup MCUndecodable}

MCSomeStreams ==
  {<<a>> : a \in MCStreams}
    \cup {<<a, b>> : a \in {x \in MCStreams : x.indices = <<3, 0>>},
                     b \in {x \in MCStreams : x.indices = <<1, 2>>}}

MCFew ==
  {<<>>, <<[indices |-> <<1>>, vertices |-> <<[n |-> 1, descs |-> <<"colour">>]>>]>>,
   <<[indices |-> <<1>>, vertices |-> <<[n |-> 1, descs |-> <<"position", "reflection">>]>>]>>}

MCLists ==
  [skybox |-> <<[name |-> "s", at |-> 16]>>,
   landmark |-> <<[name |-> "l", at |-> 20], [name |-> "k", at |-> 18]>>,
   bvsc |-> <<[name |-> "7", at |-> 0], [name |-> "3", at |-> 0]>>,
   rest |-> <<[name |-> "calcmd", at |-> 0], [name |-> "cagld", at |-> 0],
              [name |-> "cacems", at |-> 0], [name |-> "bvsc", at |-> 0]>>]

MCPlain ==
  {"tgld", "oj", "terrain", "collision", "grass", "effect", "unk00", "unk01", "unk02"}

MCListed ==
  [p \in DOMAIN MCLists \cup MCPlain |->
     IF p \in DOMAIN MCLists THEN MCLists[p] ELSE <<[name |-> "e", at |-> 0]>>]

MCEmpty == [p \in DOMAIN MCListed |-> IF p = "rest" THEN MCLists.rest ELSE <<>>]

MCTextures == {[high |-> h, intact |-> i] : h \in BOOLEAN, i \in BOOLEAN}

MCMapOf(version, textures, lists, objects, terrain) ==
  [version |-> version, textures |-> textures, cached |-> <<<<-1, 2>>, <<>>, <<0>>>>,
   lists |-> lists, objects |-> objects, terrain |-> terrain]

MCAll == <<[high |-> TRUE, intact |-> TRUE], [high |-> FALSE, intact |-> TRUE]>>

MCMapFiles ==
  {MCMapOf(v, <<t, u>>, MCListed, <<>>, <<>>) : v \in {"V2", "unknown"}, t \in MCTextures, u \in MCTextures}
    \cup {MCMapOf("V1", MCAll, MCEmpty, a, b) : a \in MCSomeStreams, b \in MCFew}
    \cup {MCMapOf("V1", MCAll, MCListed, b, a) : a \in {m \in MCSomeStreams : Len(m) = 1}, b \in MCFew}

MCSignBit == 16

Plain == [n |-> 1, descs |-> <<"position", "uvUnsigned", "normal">>]
Rich == [n |-> 2, descs |-> <<"colour", "uvWide", "position", "uvSigned", "colour">>]
Mirrored == [n |-> 1, descs |-> <<"reflection">>]

MCBoth ==
  <<[indices |-> <<3, 2>>, vertices |-> <<Plain>>],
    [indices |-> <<1>>, vertices |-> <<Rich, Plain>>]>>

MCUnviewed ==
  <<[indices |-> <<2>>, vertices |-> <<Rich, Rich>>],
    [indices |-> <<0>>, vertices |-> <<Plain>>]>>

MCBroken ==
  <<[indices |-> <<1>>, vertices |-> <<Mirrored>>],
    [indices |-> <<1>>, vertices |-> <<Plain>>]>>

Prim(v, i) == [vb |-> v, ib |-> i]

\* Streams have an index buffer 0 each; a mesh may ask for a vertex buffer
\* its stream does not have.
MCMeshes == {<<Prim(0, 0)>>, <<Prim(1, 0), Prim(0, 0)>>}

MCClusters == {[start |-> s, num |-> n] : s \in 0 .. 1, n \in 0 .. 2}

MCObjects ==
  {[kind |-> "im", meshes |-> <<a, b>>, streams |-> s, clusters |-> <<c, d>>,
    modelLODs |-> l, matrices |-> m] :
     a \in MCMeshes, b \in MCMeshes, s \in {<<0, 1>>, <<1, 0>>, <<1, 1>>},
     c \in MCClusters, d \in {[start |-> 0, num |-> 1], [start |-> 1, num |-> 2]},
     l \in {<<0, 1 - MCSignBit, 1>>, <<1, 0, 2>>},
     m \in {<<0>>, <<0, 1, 0>>, <<1, 1>>}}

MCTerrains ==
  {[kind |-> "tm", meshes |-> <<a, <<Prim(0, 0)>>, <<Prim(0, 0)>> >>,
    lookups |-> <<<<0, 1>>, <<1, 0>>, <<1, 1>> >>, meshIndices |-> i] :
     a \in MCMeshes, i \in {<<0, 3, 1>>, <<5, 2, 4>>}}

MCFiles ==
  MCObjects \cup MCTerrains
    \cup {[kind |-> "v2", meshes |-> <<<<Prim(0, 0)>> >>]}

MCScaled == {2}

MCModelFiles == MCFiles \cup {NoFile}

MCNothing == [p \in DOMAIN MCListed |-> <<>>]

MCSceneMap(objects, terrain) ==
  [MCMapOf("V1", <<>>, MCNothing, objects, terrain) EXCEPT !.cached = <<>>]

MCSceneMaps ==
  {MCSceneMap(MCBoth, MCUnviewed), MCSceneMap(MCUnviewed, MCBroken),
   MCSceneMap(MCBroken, MCBoth)}

MCAllMaps == MCMapFiles \cup MCSceneMaps

\* Every file over the first map, the others over some of them.
MCSomeFiles ==
  MCTerrains \cup {f \in MCFiles : f.kind = "v2"}
    \cup {f \in MCObjects : f.clusters[1] = [start |-> 0, num |-> 2] /\ f.matrices # <<0>>}

MCJobs ==
  (MCMapFiles \X {NoFile})
    \cup ({MCSceneMap(MCBoth, MCUnviewed)} \X MCFiles)
    \cup (MCSceneMaps \X MCSomeFiles)
=============================================================================
