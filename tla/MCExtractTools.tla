--------------------------- MODULE MCExtractTools ---------------------------
(***************************************************************************)
(* The files the five tools are given.  For smt_extract containers with up *)
(* to three textures in every order of textures with and without middle    *)
(* mips, one or two of them with a highest mip in a stream of its own,     *)
(* every stream whole, corrupt or no xbc1 stream at all, and model files   *)
(* of each version with up to three groups that share names.  For the      *)
(* loader a full model file of every version, each with one part missing,  *)
(* one mark or one wrong header.  Tiled textures of every mode and size of *)
(* a texel, fonts with one row short, and shaders that share their data.   *)
(***************************************************************************)
EXTENDS ExtractTools

StreamData == {"good", "otherHeader", "corrupt"}

\* What ProcessClass asserts of the indices of a container with textures; one
\* without middle mips may have no middle stream.
Container(streams, textures, indices, high, external) ==
  [version |-> TRUE, resources |-> TRUE, streams |-> streams,
   textures |-> textures, textureIndices |-> indices,
   midIndex |-> IF Len(streams) = 1 THEN 0 ELSE 1,
   midBegin |-> IF Len(streams) = 1 THEN 0 ELSE 3, lowIndex |-> 0,
   entryStreams |-> <<0, 0, 0>> \o high, external |-> external]

Bad == [version |-> FALSE, resources |-> TRUE]

Foreign == [version |-> TRUE, resources |-> FALSE]

TwoStreams == {<<a, b>> : a \in StreamData, b \in StreamData}

FourStreams == {<<a, b, c, "good">> : a \in {"good", "corrupt"}, b \in StreamData, c \in StreamData}

MCContainers ==
  {None, Bad, Foreign}
    \cup {Container(<<a>>, t, <<>>, <<>>, FALSE) : a \in StreamData, t \in {None, <<"a", "b">>}}
    \cup {Container(s, t, i, [k \in DOMAIN i |-> 0], e) :
            s \in TwoStreams, t \in {<<"a", "b">>, <<"a", "b", "a">>},
            i \in {<<>>, <<0>>, <<1>>, <<1, 0>>}, e \in BOOLEAN}
    \cup {Container(s, <<"a", "b", "c">>, i, h, FALSE) :
            s \in FourStreams, i \in {<<2, 0>>, <<0, 2>>}, h \in {<<0, 3>>, <<4, 3>>}}
    \cup {Container(<<"good", "good">>, <<"a">>, <<0>>, <<0>>, TRUE)}

Group(names, data) == [names |-> names, data |-> data]

MCGroups ==
  {<<>>}
    \cup {<<Group(n, d)>> : n \in {<<>>, <<"a", "b">>}, d \in StreamData}
    \cup {<<Group(m, d), Group(n, "good")>> :
            m \in {<<"a", "b">>, <<"b", "b">>}, n \in {<<"b">>, <<"c", "a">>}, d \in StreamData}
    \cup {<<Group(<<"a">>, "good"), Group(<<"a">>, "good"), Group(<<"b">>, "good")>>}

-----------------------------------------------------------------------------
(* Model files as graphs.                                                  *)
Node(class, kids) == [class |-> class, kids |-> kids, marks |-> {}]

WordsNode == Node("Words", <<>>)

BytesNode == Node("Bytes", <<>>)

Graph(magic, version, nodes, stream) ==
  [magic |-> magic, version |-> version, nodes |-> nodes, stream |-> stream,
   container |-> IF stream = <<>> THEN "missing" ELSE "whole"]

MagicOf(version) == IF version = 1 THEN "MXMD" ELSE "DMXM"

HeaderClass == <<"Header1", "Header2", "Header3">>

\* The textures of a model file alone: its header, the version, the cached
\* textures, the list of the groups and the groups.
TexturesOnly(version, groups, cached) ==
  Graph(MagicOf(version), version,
    <<Node(HeaderClass[version],
        [version |-> <<2>>,
         cachedTextures |-> IF cached = None THEN <<>> ELSE <<3>>,
         uncachedTextures |-> IF groups = <<>> THEN <<>> ELSE <<4>>]),
      WordsNode,
      Node("Textures", [textures |-> IF cached = None THEN <<>> ELSE <<5>>]),
      Node(IF version # 3 THEN "SMTHeader" ELSE IF cached = None THEN "Resources" ELSE "SMTHeader3",
        [groups |-> [k \in DOMAIN groups |-> 6 + k], groupIds |-> <<6>>, textures |-> <<5>>]),
      IF version = 3 THEN WordsNode ELSE Node("Texture", [name |-> <<>>]),
      WordsNode>>
    \o [k \in DOMAIN groups |-> Node(IF version = 3 THEN "Bytes" ELSE "Textures", [textures |-> <<>>])],
    <<>>)

Model(version, groups, cached) ==
  [graph |-> TexturesOnly(version, groups, cached),
   version |-> version, groups |-> groups, cached |-> cached]

Foreignised(m) == [m EXCEPT !.graph.magic = "other"]

MCModels ==
  {None}
    \cup {Model(v, g, c) : v \in 1 .. 3, g \in MCGroups,
            c \in {None, <<>>, <<"b">>, <<"c", "a", "c">>}}
    \cup {Foreignised(Model(1, <<Group(<<"a">>, "good")>>, None))}

\* Beside a container a model file of the first version is enough.
SomeModels == {None, Model(1, <<Group(<<"a">>, "good")>>, None)}

MCFiles ==
  {[use |-> "smt", ext |-> "wismt", drsm |-> d, mdo |-> m] : d \in MCContainers, m \in SomeModels}
    \cup {[use |-> "smt", ext |-> e, drsm |-> None, mdo |-> m] : e \in {"wismt", "casmt"}, m \in MCModels}

\* Everything a file of the first version can have; 14 are the names.
FullV1 ==
  Graph("MXMD", 1,
    <<Node("Header1", [version |-> <<2>>, models |-> <<3>>, materials |-> <<4>>, streams |-> <<5>>,
                       shaders |-> <<6>>, cachedTextures |-> <<7>>, uncachedTextures |-> <<8>>]),
      WordsNode,
      Node("Model", [boneNames |-> <<9>>, bones |-> <<10>>, floats |-> <<11>>, meshes |-> <<12, 31>>,
                     skins |-> <<13>>]),
      Node("Materials", [materials |-> <<17>>]),
      Node("Stream", [vertexBuffers |-> <<19>>, indexBuffers |-> <<20>>]),
      Node("Shaders", [shaders |-> <<24, 25>>]),
      Node("Textures", [textures |-> <<26>>, names |-> <<14>>]),
      Node("SMTHeader", [groups |-> <<27>>, groupIds |-> <<28>>]),
      Node("BoneName", [text |-> <<14>>]),
      Node("Bone", [name |-> <<14>>]),
      WordsNode,
      Node("Mesh", [primitives |-> <<15>>]),
      Node("MeshSkin", [boneIndices |-> <<16>>]),
      BytesNode, WordsNode, WordsNode,
      Node("Material", [textures |-> <<11>>]),
      WordsNode,
      Node("VertexBuffer", [data |-> <<21>>, descriptors |-> <<22>>]),
      Node("IndexBuffer", [indices |-> <<23>>]),
      WordsNode, WordsNode, WordsNode,
      Node("Shader", [data |-> <<29>>]),
      Node("Shader", [data |-> <<29>>]),
      Node("Texture", [name |-> <<14>>]),
      Node("Textures", [textures |-> <<30>>, names |-> <<14>>]),
      WordsNode, BytesNode,
      Node("Texture", [name |-> <<14>>]),
      Node("Mesh", [primitives |-> <<18>>])>>,
    <<>>)

\* The third version; 14 are names and other bytes, 17 is its stream file.
FullV3 ==
  Graph("DMXM", 3,
    <<Node("Header3", [version |-> <<2>>, models |-> <<3>>, materials |-> <<4>>,
                       uncachedTextures |-> <<5>>, cachedTextures |-> <<>>, streams |-> <<>>,
                       shaders |-> <<>>]),
      WordsNode,
      Node("Model3", [meshes |-> <<6>>, morphs |-> <<7>>, skin |-> <<8>>]),
      Node("Materials3", [materials |-> <<9>>]),
      Node("Resources", [textures |-> <<10>>, streams |-> <<14>>, streamEntries |-> <<14>>]),
      Node("Mesh3", [primitives |-> <<14>>]),
      Node("Morphs", [controls |-> <<11>>]),
      Node("Skin", [nodes |-> <<12>>, nodeIBMs |-> <<14>>, proceduralBones |-> <<13>>]),
      Node("Material3", [textures |-> <<14>>]),
      Node("Textures", [textures |-> <<15>>]),
      Node("MorphControl", [name1 |-> <<14>>, name2 |-> <<14>>]),
      Node("Bone3", [name |-> <<14>>]),
      Node("ProcBones", [bones |-> <<14>>, boneTMs |-> <<14>>, values |-> <<14>>]),
      BytesNode,
      Node("Texture", [name |-> <<14>>]),
      WordsNode,
      Node("Stream3", [vertexBuffers |-> <<18>>, indexBuffers |-> <<19>>, skinManager |-> <<20>>,
                       morphs |-> <<21>>]),
      Node("VertexBuffer3", [data |-> <<14>>, descriptors |-> <<14>>]),
      Node("IndexBuffer3", [indices |-> <<14>>]),
      Node("SkinManager", [weightPalettes |-> <<14>>, lodMergeTables |-> <<14>>]),
      Node("MorphsHeader", [descs |-> <<22>>, buffers |-> <<14>>]),
      Node("MorphDescriptor", [morphIDs |-> <<14>>])>>,
    <<17>>)

Marked(graph, n, mark) == [graph EXCEPT !.nodes[n].marks = {mark}]

Without(graph, n, pointer) == [graph EXCEPT !.nodes[n].kids[pointer] = <<>>]

MCGraphs ==
  {FullV1, FullV3, TexturesOnly(2, <<Group(<<"a">>, "good")>>, <<"b">>)}
    \cup {[FullV3 EXCEPT !.stream = <<>>, !.container = c] : c \in {"hollow", "other", "missing"}}
    \cup {[FullV3 EXCEPT !.container = "indices"], Without(Without(FullV3, 3, "morphs"), 17, "morphs")}
    \cup {[FullV1 EXCEPT !.magic = g] : g \in {"DMXM", "other"}}
    \cup {[FullV3 EXCEPT !.magic = "MXMD"], [FullV1 EXCEPT !.version = 0]}
    \cup {Without(FullV1, 1, p) : p \in HeaderPointers}
    \cup {Without(FullV1, 3, p) : p \in {"boneNames", "skins"}}
    \cup {Marked(FullV1, 19, "unhandled")}
    \cup {Without(FullV3, 1, p) : p \in {"models", "materials", "uncachedTextures"}}
    \cup {Without(FullV3, 3, p) : p \in {"morphs", "skin"}}
    \cup {Marked(FullV3, 8, "procedural"), Marked(FullV3, 5, "id"), Marked(FullV3, 18, "assert")}
    \cup {Without(Marked(FullV3, 8, "procedural"), 8, "proceduralBones")}
    \cup {TexturesOnly(3, <<Group(<<"a">>, "good")>>, <<"b">>)}
    \cup {[FullV3 EXCEPT !.nodes[5].class = "SMTHeader3"]}

MCModelGraphs == {[use |-> "model", ext |-> "mdo", drsm |-> None, mdo |-> None, graph |-> g] : g \in MCGraphs}

-----------------------------------------------------------------------------
(* Shaders.                                                                *)
Thing(name, type) == [name |-> name, type |-> type]

Stage(samplers, attributes, variables, program) ==
  [samplers |-> samplers, attributes |-> attributes, vars |-> variables,
   blocks |-> <<"U_Mate">>, program |-> program]

MCStages ==
  {None, Stage(<<Thing("gTex", "2D")>>, <<Thing("vPos", "float4")>>, <<>>, "code1"),
   Stage(<<>>, <<>>, <<Thing("gMat", "mat4"), Thing("gNew", "unknown")>>, "code2")}

Blobs == {[sound |-> s, vertex |-> v, fragment |-> f] : s \in {TRUE}, v \in MCStages, f \in MCStages}

Unsound == [sound |-> FALSE, vertex |-> None, fragment |-> None]

MCKnownTypes == {"2D", "float4", "mat4"}

ShaderFile(id, graph, blobs, programs) ==
  [use |-> "shaders", ext |-> "cashd", drsm |-> None, mdo |-> None,
   id |-> id, graph |-> graph, blobs |-> blobs, programs |-> programs]

MCShaderFiles ==
  {ShaderFile("MTHS", None, <<b>>, <<1>>) : b \in Blobs \cup {Unsound}}
    \cup {ShaderFile("other", None, <<>>, <<>>)}
    \cup {ShaderFile("MXMD", FullV1, <<b, c>>, p) :
            b \in Blobs, c \in Blobs \cup {Unsound}, p \in {<<1, 2>>, <<1, 1>>}}
    \cup {ShaderFile(g.magic, g, <<Unsound, Unsound>>, <<1, 2>>) :
            g \in {h \in MCGraphs : h.magic # "other"}}

-----------------------------------------------------------------------------
(* Textures and fonts.                                                     *)
LBIMTexture(cube, format) ==
  [kind |-> "LBIM", width |-> 4, height |-> 8, depth |-> 1, cube |-> cube, format |-> format]

Unread == [kind |-> "none"]

\* The banks of 16 byte texels are swapped from a pitch of 64 on.
MTXTTexture(mode, format, numbers, height, swizzle) ==
  [kind |-> "MTXT", width |-> 60, height |-> height, format |-> format, numbers |-> numbers,
   mode |-> mode, pitch |-> 64, pipe |-> swizzle[1], bank |-> swizzle[2]]

MTXTTextures ==
  {MTXTTexture(m, f, "UNORM", 24, <<1, 2>>) :
     m \in Micro \cup Macro, f \in {"R8", "RGBA8", "BC1", "BC3"}}
    \cup {MTXTTexture("Tiled2DThin1", "BC1", n, 40, s) :
            n \in {"UNORM", "SNORM", "SRGB"}, s \in {<<0, 0>>, <<1, 3>>}}
    \cup {MTXTTexture("LinearAligned", "BC5", "SNORM", 16, <<0, 0>>)}

TextureFile(ext, streamed, xbc1, data, high, texture) ==
  [use |-> "texture", ext |-> ext, drsm |-> None, mdo |-> None, streamed |-> streamed,
   xbc1 |-> xbc1, data |-> data, high |-> high, texture |-> texture]

LBIMTextures == {LBIMTexture(c, f) : c \in BOOLEAN, f \in {"BC1", "BGRA8", "other"}}

MCTextures ==
  {TextureFile("wismt", s, x, d, h, t) :
     s \in BOOLEAN, x \in BOOLEAN, d \in StreamData, h \in {None, "good", "corrupt"},
     t \in {Unread} \cup LBIMTextures}
    \cup {TextureFile("pcsmt", FALSE, x, d, None, Unread) : x \in BOOLEAN, d \in StreamData}
    \cup {TextureFile(e, FALSE, FALSE, "good", None, t) :
            e \in {"witex", "catex"}, t \in {Unread} \cup LBIMTextures}
    \cup {TextureFile("catex", FALSE, FALSE, "good", None, t) : t \in MTXTTextures}

MCFonts ==
  {[use |-> "font", ext |-> "fnt", drsm |-> None, mdo |-> None, wide |-> w, texture |-> t,
    chars |-> c, rows |-> r] :
     w \in BOOLEAN, t \in {Unread, MTXTTexture("Tiled1DThin1", "RGBA8", "UNORM", 16, <<0, 0>>)},
     c \in {<<>>, [k \in 1 .. 5 |-> [char |-> k, other |-> k, bytes |-> <<k, 2 * k>>]]},
     r \in {0, 2, 7}}
=============================================================================
