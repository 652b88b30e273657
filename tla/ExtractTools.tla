---------------------------- MODULE ExtractTools ----------------------------
(***************************************************************************)
(* The tools that take one file apart: smt_extract, tex_to_dds,            *)
(* fnt_extract and extract_shaders, and what mdo_to_gltf loads.  Each is   *)
(* a program of its own; what a run of one of them does depends on its     *)
(* file alone.  Model files go through the same loader for three of them,  *)
(* each leaving out what it does not need.                                 *)
(***************************************************************************)
EXTENDS TexTools, ShaderExtract

CONSTANTS
  ModelGraphs   \* The model files mdo_to_gltf loads, in ModelFile.

ASSUME ToolsAssumption == \A f \in ModelGraphs : IsModelGraph(f.graph)

toolVars == <<vars, shaderVars>>

ModelInit == file \in ModelGraphs /\ fate = "model file" /\ Begin

ToolsInit ==
  \/ ShaderInit
  \/ (Init \/ TextureInit \/ FontInit \/ ModelInit) /\ ShaderIdle

\* Before it loads anything mdo_to_gltf looks at the header, and asks for the
\* stream file of every file that is not of the first version.
Unsupported == file.graph.magic = "other" \/ file.graph.version \notin {1, 3}

Streamless == file.graph.version # 1 /\ file.graph.container = "missing"

RefuseModelFile ==
  /\ fate = "model file" /\ loading = "idle"
  /\ Unsupported \/ Streamless
  /\ fate' = "failed"
  /\ UNCHANGED <<file, cache, group, pos, seen, out, num, viaModel, loadVars, shaderVars>>

(* It loads everything; the conversion is the one of MdoGltf.              *)
LoadAll ==
  /\ fate = "model file"
  /\ \/ loading = "idle" /\ ~Unsupported /\ ~Streamless /\ Start(file.graph, "mdo")
     \/ Load
  /\ UNCHANGED <<smtVars, shaderVars>>

AllLoaded ==
  /\ fate = "model file" /\ loading \notin {"idle", "header", "walk"}
  /\ fate' = CASE loading = "loaded" -> "done"
               [] loading = "undefined" -> "undefined"
               [] OTHER -> "failed"
  /\ UNCHANGED <<file, cache, group, pos, seen, out, num, viaModel, loadVars, shaderVars>>

ProcessFile ==
  \/ AppProcessFile /\ UNCHANGED shaderVars
  \/ (ConvertTexture \/ ExtractFont) /\ UNCHANGED <<loadVars, shaderVars>>
  \/ ExtractShaders
  \/ RefuseModelFile \/ LoadAll \/ AllLoaded

ToolsDone == fate \in Ended /\ UNCHANGED toolVars

ToolsNext == ProcessFile \/ ToolsDone

ToolsSpec == ToolsInit /\ [][ToolsNext]_toolVars /\ WF_toolVars(ProcessFile)
-----------------------------------------------------------------------------
\* Files in which nothing is wrong, by their tools.
WholeTexture ==
  file.data = "good" /\ file.texture.kind # "none" /\ (file.ext = "wismt" => file.high = "good")

WholeFont ==
  file.wide /\ file.texture.kind = "MTXT" /\ (file.chars # <<>> => file.rows > 0)

TypesNamed(stage) == stage = None \/ ~Misnamed(stage)

WholeShaders ==
  /\ file.id = "MTHS" \/ (file.graph # None /\ Sound(file.graph) /\ file.graph.version = 1)
  /\ \A i, j \in DOMAIN file.programs : file.programs[i] = file.programs[j] => i = j
  /\ \A b \in ToSet(file.blobs) : b.sound /\ TypesNamed(b.vertex) /\ TypesNamed(b.fragment)

\* A model of the first version has its materials.  The third version has
\* neither cached textures nor streams nor shaders, the loader asserts, and so
\* no list of groups; it has its stream file, and names for the morphs in it.
WholeModel ==
  LET graph == file.graph
      models == KidsOf(graph, 1, "models")
  IN  /\ Sound(graph) /\ graph.version # 2
      /\ graph.version = 1 /\ models # <<>> => KidsOf(graph, 1, "materials") # <<>>
      /\ graph.version = 3 =>
           /\ \A p \in {"cachedTextures", "streams", "shaders"} : KidsOf(graph, 1, p) = <<>>
           /\ \A n \in ToSet(KidsOf(graph, 1, "uncachedTextures")) :
                graph.nodes[n].class = "Resources"
           /\ graph.container = "whole"
           /\ models # <<>> /\ KidsOf(graph, graph.stream[1], "morphs") # <<>> =>
                KidsOf(graph, models[1], "morphs") # <<>>

WholeStream ==
  (file.ext # "casmt" /\ HealthyDrsm) \/ (HealthyModel /\ mdo.version # 3)

Whole ==
  CASE file.use = "texture" -> WholeTexture
    [] file.use = "font" -> WholeFont
    [] file.use = "shaders" -> WholeShaders
    [] file.use = "model" -> WholeModel
    [] OTHER -> WholeStream

(* Every tool ends, whatever it is given, and ends well when nothing is    *)
(* wrong with its file, mdo_to_gltf as far as loading goes; smt_extract    *)
(* but for the third version of model files.                               *)
EveryFileEnds == <>(fate \in Ended /\ (Whole => fate = "done"))
=============================================================================
