------------------------------ MODULE MxmdLoad ------------------------------
(***************************************************************************)
(* Wrap::Load: a model file is read into memory whole and made usable      *)
(* there.  ProcessClass turns the words of one object into the byte order  *)
(* of the host, makes pointers of the offsets it holds and goes on to the  *)
(* objects they point to; every class of a version has one of its own, and *)
(* the header leaves out the parts a tool does not ask for.                *)
(*                                                                         *)
(* A file is a graph of nodes, each [class, kids, marks]: kids has for     *)
(* every pointer the nodes behind it, none for a null pointer, and marks   *)
(* is what the code branches on beside them.  Node 1 is the header.  The   *)
(* words of an array, and objects that a loop of their owner's             *)
(* ProcessClass handles, are nodes like any other.                         *)
(***************************************************************************)
EXTENDS Integers, Sequences, SequencesExt

CONSTANTS
  Builds    \* Whether a build keeps its assertions: those looked at.

ASSUME BuildsAssumption == Builds \subseteq BOOLEAN

VARIABLES
  mxmd,     \* The file: [magic, version, nodes], version is 1, 2, 3 or 0, with
            \* its stream file: [container, stream], see HasRoots.
  tool,     \* The tool that loads it.
  asserts,  \* Whether its build keeps its assertions.
  loading,  \* Where Load stands, or how it ended.
  todo,     \* The nodes ProcessClass has still to be called with.
  swaps,    \* How often the words of each node have been swapped.
  fixed     \* How often each pointer of each node has been made one.

loadVars == <<mxmd, tool, asserts, loading, todo, swaps, fixed>>

Row(order, pointers, visits) == [order |-> order, pointers |-> pointers, visits |-> visits]

\* Words, and bytes that have no order.
PlainRows == [Words |-> Row("any", {}, <<>>), Bytes |-> Row("any", {}, <<>>)]

V1ModelRows ==
  [Model     |-> Row("big", {"boneNames", "bones", "floats", "meshes", "skins"},
                     <<"boneNames", "bones", "meshes", "skins">>),
   BoneName  |-> Row("big", {"text"}, <<>>),
   Bone      |-> Row("big", {"name"}, <<>>),
   Mesh      |-> Row("big", {"primitives"}, <<"primitives">>),
   MeshSkin  |-> Row("big", {"boneIndices"}, <<"boneIndices">>),
   Materials |-> Row("big", {"materials"}, <<"materials">>),
   Material  |-> Row("big", {"textures"}, <<"textures">>)]

\* Mutation: the index buffers are processed without a loop over their words.
V1StreamRowsWithoutIndices ==
  [Stream       |-> Row("big", {"vertexBuffers", "indexBuffers"},
                        <<"vertexBuffers", "indexBuffers">>),
   VertexBuffer |-> Row("big", {"data", "descriptors"}, <<"descriptors", "data">>),
   IndexBuffer  |-> Row("big", {"indices"}, <<>>)]

V1StreamRows ==
  [Stream       |-> Row("big", {"vertexBuffers", "indexBuffers"},
                        <<"vertexBuffers", "indexBuffers">>),
   VertexBuffer |-> Row("big", {"data", "descriptors"}, <<"descriptors", "data">>),
   IndexBuffer  |-> Row("big", {"indices"}, <<"indices">>)]

TextureRows ==
  [SMTHeader |-> Row("any", {"groupIds", "groups"}, <<"groups", "groupIds">>),
   Textures  |-> Row("any", {"names", "textures"}, <<"textures">>),
   Texture   |-> Row("any", {"name"}, <<>>)]

ShaderRows ==
  [Shaders |-> Row("big", {"shaders"}, <<"shaders">>), Shader |-> Row("big", {"data"}, <<>>)]

V3StreamRows ==
  [SMTHeader3      |-> Row("little", {"groupIds", "groups"}, <<"groups", "groupIds">>),
   Stream3         |-> Row("little", {"vertexBuffers", "indexBuffers", "skinManager", "morphs"},
                           <<"vertexBuffers", "indexBuffers", "skinManager", "morphs">>),
   VertexBuffer3   |-> Row("little", {"data", "descriptors"}, <<>>),
   IndexBuffer3    |-> Row("little", {"indices"}, <<>>),
   MorphsHeader    |-> Row("little", {"descs", "buffers"}, <<"descs">>),
   MorphDescriptor |-> Row("little", {"morphIDs"}, <<>>),
   SkinManager     |-> Row("little", {"weightPalettes", "lodMergeTables"}, <<>>)]

V3ModelRows ==
  [Model3       |-> Row("little", {"meshes", "morphs", "skin"}, <<"meshes", "morphs", "skin">>),
   Mesh3        |-> Row("little", {"primitives"}, <<>>),
   Skin         |-> Row("little", {"nodes", "nodeIBMs", "nodeTMs0", "nodeTMs1", "skeletonIds",
                                   "proceduralBones"}, <<"proceduralBones", "nodes">>),
   Bone3        |-> Row("little", {"name"}, <<>>),
   ProcBones    |-> Row("little", {"bones", "boneTMs", "values"}, <<>>),
   Morphs       |-> Row("little", {"controls"}, <<"controls">>),
   MorphControl |-> Row("little", {"name1", "name2"}, <<>>),
   Materials3   |-> Row("little", {"materials"}, <<"materials">>),
   Material3    |-> Row("little", {"textures"}, <<>>)]

ResourceRows ==
  [Resources |-> Row("little", {"externalResources", "streamEntries", "streams",
                                "textureIndices", "textures"}, <<"textures">>)]

HeaderPointers ==
  {"models", "materials", "streams", "shaders", "cachedTextures", "uncachedTextures"}

HeaderRows ==
  [Header1 |-> Row("big", HeaderPointers, <<>>),
   Header2 |-> Row("little", HeaderPointers, <<>>),
   Header3 |-> Row("little", HeaderPointers, <<>>)]

Tables ==
  {PlainRows, V1ModelRows, V1StreamRows, TextureRows, ShaderRows, V3StreamRows, V3ModelRows,
   ResourceRows, HeaderRows}

Rows ==
  [class \in UNION {DOMAIN t : t \in Tables} |-> (CHOOSE t \in Tables : class \in DOMAIN t)[class]]

-----------------------------------------------------------------------------
(***************************************************************************)
(* The files there are.  Nothing in the code notices an object that it     *)
(* goes on to twice, one of another class than its place in the file is    *)
(* for, or words where it expects bytes: the specifications that load      *)
(* files assume that there are none (IsModelGraph).                        *)
(***************************************************************************)
IsList(s) == s \in Seq(Range(s))

KidsOf(graph, n, pointer) ==
  IF pointer \in DOMAIN graph.nodes[n].kids THEN graph.nodes[n].kids[pointer] ELSE <<>>

\* A graph whose pointers lead to its own nodes.
IsGraph(g) ==
  /\ {"version", "nodes"} \subseteq DOMAIN g
  /\ IsList(g.nodes) /\ g.nodes # <<>>
  /\ \A n \in DOMAIN g.nodes :
       /\ {"class", "kids"} \subseteq DOMAIN g.nodes[n]
       /\ \A p \in DOMAIN g.nodes[n].kids : g.nodes[n].kids[p] \in Seq(DOMAIN g.nodes)

\* The header is the one of the version, and the only one.
ClassesKnown(g) ==
  /\ \A n \in DOMAIN g.nodes : g.nodes[n].class \in DOMAIN Rows
  /\ \A n \in DOMAIN g.nodes : n # 1 => g.nodes[n].class \notin DOMAIN HeaderRows
  /\ g.version \in 1 .. 3 => g.nodes[1].class = <<"Header1", "Header2", "Header3">>[g.version]
  /\ KidsOf(g, 1, "version") # <<>>

\* The pointers of node n whose objects are processed, in some tool.
ProcessedBehind(g, n) ==
  IF n = 1 THEN HeaderPointers \cup {"version"} ELSE ToSet(Rows[g.nodes[n].class].visits)

\* What is processed is behind one of these pointers at most, and there once.
IsForest(g) ==
  \A m, n \in DOMAIN g.nodes :
    \A p \in ProcessedBehind(g, m), q \in ProcessedBehind(g, n) :
      \A i \in DOMAIN KidsOf(g, m, p), j \in DOMAIN KidsOf(g, n, q) :
        KidsOf(g, m, p)[i] = KidsOf(g, n, q)[j] => m = n /\ p = q /\ i = j

\* The header, and what is in a file of its own, are behind none.  That file is
\* a container, which is whole, has other indices than its assertions ask for,
\* lacks its entries or its streams, is of another kind or corrupt, or is not
\* there; only of the first two there is a stream.
HasRoots(g) ==
  /\ "stream" \in DOMAIN g /\ g.stream \in Seq(DOMAIN g.nodes) /\ Len(g.stream) <= 1
  /\ "container" \in DOMAIN g
  /\ g.container \in {"whole", "indices", "hollow", "other", "missing"}
  /\ g.stream # <<>> <=> g.container \in {"whole", "indices"}
  /\ \A n \in ToSet(g.stream) :
       n # 1 /\ g.nodes[n].class = "Stream3" /\ "vertexBuffers" \in DOMAIN g.nodes[n].kids
  /\ \A n \in DOMAIN g.nodes : \A p \in ProcessedBehind(g, n) :
       ToSet(KidsOf(g, n, p)) \cap ({1} \cup ToSet(g.stream)) = {}

\* Everything else is data: names and programs are bytes.
HasLeaves(g) ==
  \A n \in DOMAIN g.nodes : n # 1 =>
    \A p \in Rows[g.nodes[n].class].pointers \ ProcessedBehind(g, n) :
      \A e \in ToSet(KidsOf(g, n, p)) :
        g.nodes[e].class \in IF p \in {"name", "data"} THEN {"Bytes"} ELSE {"Bytes", "Words"}

IsModelGraph(g) ==
  IsGraph(g) /\ ClassesKnown(g) /\ IsForest(g) /\ HasRoots(g) /\ HasLeaves(g)

-----------------------------------------------------------------------------
(* What each tool has Load leave out.                                      *)
Excluded ==
  [mdo |-> {}, smt |-> {"Materials", "Model", "Shaders"},
   shader |-> {"Materials", "Model", "LowTextures", "TextureStreams"}]

node(n) == mxmd.nodes[n]

RowOf(n) == Rows[node(n).class]

Behind(n, pointer) == KidsOf(mxmd, n, pointer)

Big == mxmd.magic = "MXMD"

\* The words of node n are in the byte order of the host.
InHostOrder(n) == node(n).class = "Bytes" \/ (swaps[n] % 2 = 1) = Big

Start(graph, by) ==
  /\ mxmd' = graph
  /\ tool' = by
  /\ asserts' \in Builds
  /\ loading' = "header"
  /\ todo' = <<>>
  /\ swaps' = [n \in DOMAIN graph.nodes |-> 0]
  /\ fixed' = [n \in DOMAIN graph.nodes |-> [p \in DOMAIN graph.nodes[n].kids |-> 0]]

Stop(how) == loading' = how /\ UNCHANGED <<mxmd, tool, asserts, todo, swaps, fixed>>

\* The word of the version is a node of its own, the first one of the header.
Version == Behind(1, "version")[1]

Swapped(ns) == [n \in DOMAIN swaps |-> IF n \in ns THEN swaps[n] + 1 ELSE swaps[n]]

\* Mutation: the version is not swapped back before the header swaps it.
HeaderBaseSwappedOnce ==
  /\ loading = "header"
  /\ mxmd.magic \in {"MXMD", "DMXM"} /\ mxmd.version \in 1 .. 3
  /\ swaps' = [swaps EXCEPT ![Version] = IF Big THEN 1 ELSE 0]
  /\ loading' = "walk"
  /\ todo' = <<1>>
  /\ UNCHANGED <<mxmd, tool, asserts, fixed>>

(* The version of a file in the other byte order is swapped to be looked   *)
(* at; the first version swaps it back, for its header swaps it again.     *)
HeaderBase ==
  /\ loading = "header"
  /\ mxmd.magic \in {"MXMD", "DMXM"} /\ mxmd.version \in 1 .. 3
  /\ swaps' = [swaps EXCEPT ![Version] =
                 (IF Big THEN 1 ELSE 0) + (IF mxmd.version = 1 THEN 1 ELSE 0)]
  /\ loading' = "walk"
  /\ todo' = <<1>>
  /\ UNCHANGED <<mxmd, tool, asserts, fixed>>

RefuseHeader ==
  /\ loading = "header"
  /\ mxmd.magic = "other" \/ mxmd.version \notin 1 .. 3
  /\ Stop("refused")

-----------------------------------------------------------------------------
PartOf ==
  [models |-> "Model", shaders |-> "Shaders", materials |-> "Materials",
   cachedTextures |-> "LowTextures", uncachedTextures |-> "TextureStreams"]

Wanted(part) == PartOf[part] \notin Excluded[tool] /\ Behind(1, part) # <<>>

\* The parts whose pointers a version's header resets unless they are wanted.
Reviewed ==
  IF mxmd.version = 2 THEN {"cachedTextures", "uncachedTextures"} ELSE DOMAIN PartOf

\* The parts that it goes on to where they are wanted.
Followed ==
  CASE mxmd.version = 1 ->
         <<"models", "shaders", "materials", "cachedTextures", "uncachedTextures">>
    [] mxmd.version = 2 -> <<"cachedTextures", "uncachedTextures">>
    [] OTHER -> <<"models", "materials", "uncachedTextures">>

LeftOut(part) ==
  IF part = "streams" THEN mxmd.version # 2 /\ ~Wanted("models")
  ELSE part \in Reviewed /\ ~Wanted(part)

LeftPointers == [p \in DOMAIN node(1).kids |-> IF LeftOut(p) THEN <<>> ELSE node(1).kids[p]]

\* In the third version what GetSMT takes the streamed textures for: the
\* pointer of the cached textures, reset or not, decides.
SMTClass == IF Wanted("cachedTextures") THEN "SMTHeader3" ELSE "Resources"

Mistaken ==
  /\ mxmd.version = 3 /\ Wanted("uncachedTextures")
  /\ node(Behind(1, "uncachedTextures")[1]).class # SMTClass

\* The assertions of the header of the third version.
HeaderAsserts ==
  mxmd.version = 3 =>
    \A p \in {"cachedTextures", "streams", "shaders"} : Behind(1, p) = <<>>

Misordered(n) ==
  \/ RowOf(n).order = "big" /\ ~Big
  \/ RowOf(n).order = "little" /\ Big

\* The first version processes the streams of a model it wants, there or not.
NoStreams == mxmd.version = 1 /\ Wanted("models") /\ Behind(1, "streams") = <<>>

AtHeader == loading = "walk" /\ todo # <<>> /\ Head(todo) = 1

StopAtHeader ==
  /\ AtHeader
  /\ \/ Misordered(1) /\ Stop("refused")
     \/ ~Misordered(1) /\ asserts /\ ~HeaderAsserts /\ Stop("aborted")
     \/ ~Misordered(1) /\ (asserts => HeaderAsserts) /\ Mistaken /\ Stop("refused")
     \/ ~Misordered(1) /\ NoStreams /\ Stop("undefined")

PointersMade(n, pointers) ==
  [fixed EXCEPT ![n] =
     [p \in DOMAIN @ |-> IF p \in pointers THEN @[p] + 1 ELSE @[p]]]

\* The streams go with the model.
RootsBehind(part) ==
  IF ~Wanted(part) THEN <<>>
  ELSE IF part = "models" /\ mxmd.version = 1
    THEN Behind(1, "models") \o Behind(1, "streams") ELSE Behind(1, part)

ProcessHeader ==
  /\ AtHeader /\ ~Misordered(1) /\ (asserts => HeaderAsserts) /\ ~Mistaken /\ ~NoStreams
  /\ IF mxmd.version = 1 THEN swaps' = Swapped({1, Version}) ELSE UNCHANGED swaps
  /\ fixed' = PointersMade(1, HeaderPointers)
  /\ todo' = FlattenSeq([k \in DOMAIN Followed |-> RootsBehind(Followed[k])])
  /\ mxmd' = [mxmd EXCEPT !.nodes[1].kids = LeftPointers]
  /\ UNCHANGED <<tool, asserts, loading>>

-----------------------------------------------------------------------------
\* The words of a class of any order are swapped in a file of the other one.
SwapsSelf(n) == RowOf(n).order = "big" \/ (RowOf(n).order = "any" /\ Big)

\* A model's bones wait for its bone names, procedural bones for their mark.
Visits(n, pointer) ==
  CASE pointer = "bones" -> Behind(n, "boneNames") # <<>>
    [] pointer = "proceduralBones" -> "procedural" \in node(n).marks
    [] OTHER -> TRUE

Visited(n) ==
  LET visits == RowOf(n).visits
  IN FlattenSeq([k \in DOMAIN visits |-> IF Visits(n, visits[k]) THEN Behind(n, visits[k]) ELSE <<>>])

\* What a ProcessClass throws for: a list of no group or of more than two, its
\* first word, a vertex type it does not know, the identifier of resources.
Refused(n) ==
  \/ Misordered(n)
  \/ node(n).marks \cap {"unk", "unhandled", "id"} # {}
  \/ node(n).class \in {"SMTHeader", "SMTHeader3"} /\ Len(Behind(n, "groups")) \notin 1 .. 2

\* Procedural bones are called for without a look at their pointer.
Astray(n) ==
  node(n).class = "Skin" /\ "procedural" \in node(n).marks /\ Behind(n, "proceduralBones") = <<>>

AtNode == loading = "walk" /\ todo # <<>> /\ Head(todo) # 1

StopAtNode ==
  /\ AtNode
  /\ \/ Refused(Head(todo)) /\ Stop("refused")
     \/ ~Refused(Head(todo)) /\ Astray(Head(todo)) /\ Stop("undefined")
     \/ /\ ~Refused(Head(todo)) /\ ~Astray(Head(todo))
        /\ asserts /\ "assert" \in node(Head(todo)).marks /\ Stop("aborted")

ProcessNode ==
  /\ AtNode
  /\ LET n == Head(todo) IN
       /\ ~Refused(n) /\ ~Astray(n) /\ (asserts => "assert" \notin node(n).marks)
       /\ IF SwapsSelf(n) THEN swaps' = Swapped({n}) ELSE UNCHANGED swaps
       /\ fixed' = PointersMade(n, RowOf(n).pointers)
       /\ todo' = Visited(n) \o Tail(todo)
  /\ UNCHANGED <<mxmd, tool, asserts, loading>>

\* The model of the third version has its buffers in another file, whose
\* container is taken apart first: its stream is processed with no flags.
NeedsStream == mxmd.version = 3 /\ Behind(1, "models") # <<>>

StreamNext ==
  NeedsStream /\ (mxmd.stream # <<>> => fixed[mxmd.stream[1]].vertexBuffers = 0)

AtStream == loading = "walk" /\ todo = <<>> /\ StreamNext

StopAtStream ==
  /\ AtStream
  /\ \/ mxmd.container = "other" /\ Stop("refused")
     \/ mxmd.container = "indices" /\ asserts /\ Stop("aborted")
     \/ mxmd.container \in {"hollow", "missing"} /\ Stop("undefined")

LoadStream ==
  /\ AtStream
  /\ mxmd.stream # <<>> /\ (asserts => mxmd.container # "indices")
  /\ todo' = mxmd.stream
  /\ UNCHANGED <<mxmd, tool, asserts, loading, swaps, fixed>>

\* What V1Model and V3Model go on to without a look at its pointer: the
\* materials, and the names of the morphs that the stream has.
Dangling ==
  /\ Behind(1, "models") # <<>>
  /\ \/ mxmd.version = 1 /\ Behind(1, "materials") = <<>>
     \/ /\ NeedsStream /\ Behind(mxmd.stream[1], "morphs") # <<>>
        /\ Behind(Behind(1, "models")[1], "morphs") = <<>>

\* Load, and the tools, ask the version again, where the header has it now.
Loaded ==
  /\ loading = "walk" /\ todo = <<>> /\ ~StreamNext
  /\ Stop(IF ~InHostOrder(Version) THEN "refused"
          ELSE IF Dangling THEN "undefined" ELSE "loaded")

Load ==
  \/ HeaderBase \/ RefuseHeader \/ StopAtHeader \/ ProcessHeader
  \/ StopAtNode \/ ProcessNode \/ StopAtStream \/ LoadStream \/ Loaded

-----------------------------------------------------------------------------
\* What the tools follow in a loaded file, class by class.  The model tool
\* takes neither the names nor the textures of materials, and the stream tool
\* no cached textures of the third version.
FollowedBy ==
  [mdo |->
     [Header1 |-> {"models", "streams", "materials"}, Header3 |-> {"models"},
      Model |-> {"bones", "meshes", "skins"}, Bone |-> {"name"}, Mesh |-> {"primitives"},
      MeshSkin |-> {"boneIndices"}, Materials |-> {"materials"},
      Stream |-> {"vertexBuffers", "indexBuffers"}, VertexBuffer |-> {"data", "descriptors"},
      IndexBuffer |-> {"indices"},
      Model3 |-> {"meshes", "morphs", "skin"}, Mesh3 |-> {"primitives"},
      Skin |-> {"nodes", "nodeIBMs", "proceduralBones"}, Bone3 |-> {"name"},
      ProcBones |-> {"bones", "boneTMs"}, Morphs |-> {"controls"}, MorphControl |-> {"name1"},
      Stream3 |-> {"vertexBuffers", "indexBuffers", "skinManager", "morphs"},
      VertexBuffer3 |-> {"data", "descriptors"}, IndexBuffer3 |-> {"indices"},
      MorphsHeader |-> {"descs", "buffers"}, MorphDescriptor |-> {"morphIDs"},
      SkinManager |-> {"weightPalettes", "lodMergeTables"}],
   smt |->
     [Header1 |-> {"cachedTextures", "uncachedTextures"},
      Header2 |-> {"cachedTextures", "uncachedTextures"}, Header3 |-> {"uncachedTextures"},
      SMTHeader |-> {"groups"}, SMTHeader3 |-> {"groups"}, Textures |-> {"textures"},
      Texture |-> {"name"}],
   shader |->
     [Header1 |-> {"shaders"}, Shaders |-> {"shaders"}, Shader |-> {"data"}]]

Follows(n) ==
  IF node(n).class \in DOMAIN FollowedBy[tool]
    THEN {p \in FollowedBy[tool][node(n).class] : Behind(n, p) # <<>> /\ Visits(n, p)} ELSE {}

Onward(ns) == ns \cup UNION {UNION {ToSet(Behind(n, p)) : p \in Follows(n)} : n \in ns}

\* The nodes a tool comes to, six pointers deep at most.
Reachable ==
  LET roots == {1} \cup (IF tool = "mdo" /\ NeedsStream THEN ToSet(mxmd.stream) ELSE {})
  IN Onward(Onward(Onward(Onward(Onward(Onward(roots))))))

\* A file in which nothing is wrong: it has the byte order of its version, and
\* a model of the first one has its streams.
Sound(graph) ==
  /\ graph.version \in 1 .. 3
  /\ graph.magic = IF graph.version = 1 THEN "MXMD" ELSE "DMXM"
  /\ graph.version = 1 /\ KidsOf(graph, 1, "models") # <<>> => KidsOf(graph, 1, "streams") # <<>>
  /\ \A n \in DOMAIN graph.nodes :
       /\ graph.nodes[n].marks \subseteq {"procedural"}
       /\ graph.nodes[n].marks # {} => KidsOf(graph, n, "proceduralBones") # <<>>

(* Every object a tool comes to in a loaded file is in the byte order of   *)
(* the host and every pointer it follows there was made one exactly once,  *)
(* whatever the version, the byte order and the parts left out; except the *)
(* bones of a model without bone names, which are left as they are.        *)
ReadsRight ==
  loading = "loaded" =>
    \A n \in Reachable :
      /\ InHostOrder(n)
      /\ \A p \in Follows(n) : fixed[n][p] = 1
=============================================================================
