--------------------------- MODULE ShaderExtract ----------------------------
(***************************************************************************)
(* extract_shaders: the shaders of a model file, or one shader of its own, *)
(* written as text, a file for the vertex and one for the fragment stage.  *)
(*                                                                         *)
(* A file for it has, beside ext,                                          *)
(*   id        "MTHS", "MXMD", "DMXM" or "other"                           *)
(*   graph     for a model file what Load is given                         *)
(*   blobs     the shader data: [sound, vertex, fragment], sound when its  *)
(*             identifier and version are the expected ones                *)
(*   programs  the data of each shader, by its position in blobs           *)
(* A stage is None or [samplers, attributes, vars, blocks, program]; what  *)
(* it declares has a name and, but for blocks, a type.                     *)
(***************************************************************************)
EXTENDS SmtExtract

CONSTANTS
  ShaderFiles,   \* The files for extract_shaders.
  KnownTypes     \* The types of samplers and variables there are names for.

IsStage(s) ==
  s # None => IsList(s.samplers) /\ IsList(s.attributes) /\ IsList(s.vars) /\ IsList(s.blocks)

(* Every shader of a file has its data, one shader in a file of its own.   *)
ASSUME ShaderAssumption ==
  \A f \in ShaderFiles :
    /\ IsList(f.programs)
    /\ \A i \in DOMAIN f.programs :
         IsStage(f.blobs[f.programs[i]].vertex) /\ IsStage(f.blobs[f.programs[i]].fragment)
    /\ f.id = "MTHS" => Len(f.programs) = 1
    /\ f.id \in {"MXMD", "DMXM"} =>
         /\ IsModelGraph(f.graph)
         /\ LET lists == KidsOf(f.graph, 1, "shaders")
            IN  f.graph.version = 1 /\ lists # <<>> =>
                  Len(f.programs) = Len(KidsOf(f.graph, lists[1], "shaders"))

VARIABLES
  text,      \* output: what has been put together for the current shader.
  swapped    \* The shader data whose header has been swapped.

shaderVars == <<text, swapped>>

ShaderIdle == text = <<>> /\ swapped = {}

ShaderInit == file \in ShaderFiles /\ fate = "shaders" /\ Begin /\ ShaderIdle

GoOn(next) == fate' = next /\ UNCHANGED <<file, cache, group, pos, seen, out, num, viaModel>>

(* The first word of the file tells what it is.                            *)
GetType ==
  /\ fate = "shaders"
  /\ GoOn(CASE file.id = "MTHS" -> "shader"
            [] file.id \in {"MXMD", "DMXM"} -> "shaderModel"
            [] OTHER -> "failed")
  /\ UNCHANGED <<text, swapped, loadVars>>

LoadShaders ==
  /\ fate = "shaderModel"
  /\ \/ loading = "idle" /\ Start(file.graph, "shader")
     \/ Load
  /\ UNCHANGED <<smtVars, text, swapped>>

(* Only the first version of model files has shaders it knows.             *)
ShadersLoaded ==
  /\ fate = "shaderModel" /\ loading \notin {"idle", "header", "walk"}
  /\ GoOn(CASE loading = "undefined" -> "undefined"
            [] loading = "loaded" /\ mxmd.version = 1 -> "shader"
            [] OTHER -> "failed")
  /\ UNCHANGED <<text, swapped, loadVars>>

ShaderCount ==
  IF file.id = "MTHS" THEN 1
  ELSE IF Behind(1, "shaders") = <<>> THEN 0 ELSE Len(Behind(Behind(1, "shaders")[1], "shaders"))

HasShader == fate = "shader" /\ pos < ShaderCount

blob == file.blobs[file.programs[pos + 1]]

(* The identifier is looked for before it is swapped: data that two        *)
(* shaders share is no shader any more to the second.                      *)
RefuseShader ==
  /\ HasShader
  /\ ~blob.sound \/ file.programs[pos + 1] \in swapped
  /\ GoOn("failed")
  /\ UNCHANGED <<text, swapped, loadVars>>

ProcessShader ==
  /\ HasShader
  /\ blob.sound /\ file.programs[pos + 1] \notin swapped
  /\ swapped' = swapped \cup {file.programs[pos + 1]}
  /\ text' = <<>>
  /\ GoOn("vertex")
  /\ UNCHANGED loadVars

Declared(as, things) == [i \in DOMAIN things |-> [as |-> as, what |-> things[i]]]

\* What is written of a stage, its attributes only when it is the first one.
VertexText(stage) ==
  Declared("sampler", stage.samplers) \o Declared("attribute", stage.attributes)
    \o Declared("variable", stage.vars) \o Declared("block", stage.blocks)
    \o <<[as |-> "program", what |-> stage.program]>>

FragmentText(stage) ==
  Declared("sampler", stage.samplers)
    \o Declared("variable", stage.vars) \o Declared("block", stage.blocks)
    \o <<[as |-> "program", what |-> stage.program]>>

\* The name of a type is found in a list; of one that is not in it the list is
\* read beyond its end.
Named(things) == \A i \in DOMAIN things : things[i].type \in KnownTypes

WriteShader(stage, content) ==
  out' = Append(out, [name |-> stage, kind |-> "glsl", stream |-> 0, item |-> pos, text |-> content])

SkipVertex ==
  /\ fate = "vertex" /\ blob.vertex = None
  /\ GoOn("fragment")
  /\ UNCHANGED <<text, swapped, loadVars>>

Misnamed(stage) == ~(Named(stage.samplers) /\ Named(stage.vars) /\ Named(stage.attributes))

(* Mutation: what was put together for the vertex stage is kept.           *)
ExtractVertexKeeping ==
  /\ fate = "vertex" /\ blob.vertex # None
  /\ IF Misnamed(blob.vertex) THEN GoOn("undefined") /\ UNCHANGED text
     ELSE /\ WriteShader("vert", text \o VertexText(blob.vertex))
          /\ text' = text \o VertexText(blob.vertex)
          /\ fate' = "fragment"
          /\ UNCHANGED <<file, cache, group, pos, seen, num, viaModel>>
  /\ UNCHANGED <<swapped, loadVars>>

(* The text is written and then emptied.                                   *)
ExtractVertex ==
  /\ fate = "vertex" /\ blob.vertex # None
  /\ IF Misnamed(blob.vertex) THEN GoOn("undefined") /\ UNCHANGED text
     ELSE /\ WriteShader("vert", text \o VertexText(blob.vertex))
          /\ text' = <<>>
          /\ fate' = "fragment"
          /\ UNCHANGED <<file, cache, group, pos, seen, num, viaModel>>
  /\ UNCHANGED <<swapped, loadVars>>

SkipFragment ==
  /\ fate = "fragment" /\ blob.fragment = None
  /\ fate' = "shader" /\ pos' = pos + 1
  /\ UNCHANGED <<file, cache, group, seen, out, num, viaModel, text, swapped, loadVars>>

ExtractFragment ==
  /\ fate = "fragment" /\ blob.fragment # None
  /\ IF Misnamed([blob.fragment EXCEPT !.attributes = <<>>])
     THEN GoOn("undefined") /\ UNCHANGED text
     ELSE /\ WriteShader("frag", text \o FragmentText(blob.fragment))
          /\ text' = text \o FragmentText(blob.fragment)
          /\ fate' = "shader" /\ pos' = pos + 1
          /\ UNCHANGED <<file, cache, group, seen, num, viaModel>>
  /\ UNCHANGED <<swapped, loadVars>>

EndShaders ==
  /\ fate = "shader" /\ pos = ShaderCount
  /\ GoOn("done")
  /\ UNCHANGED <<text, swapped, loadVars>>

ExtractShaders ==
  \/ GetType \/ LoadShaders \/ ShadersLoaded \/ RefuseShader \/ ProcessShader
  \/ SkipVertex \/ ExtractVertex \/ SkipFragment \/ ExtractFragment \/ EndShaders

-----------------------------------------------------------------------------
StageOf(o) ==
  LET b == file.blobs[file.programs[o.item + 1]] IN IF o.name = "vert" THEN b.vertex ELSE b.fragment

(* Every written text is of one stage of one shader, declares what that    *)
(* stage declares and ends with its program, and no stage is written       *)
(* twice; of the shaders that are done every stage was written.            *)
ShadersRight ==
  /\ \A k \in Written({"glsl"}) :
       LET o == out[k] IN
       /\ StageOf(o) # None
       /\ o.text = IF o.name = "vert" THEN VertexText(StageOf(o)) ELSE FragmentText(StageOf(o))
       /\ \A j \in Written({"glsl"}) :
            out[j].name = o.name /\ file.programs[out[j].item + 1] = file.programs[o.item + 1] => j = k
  /\ fate = "done" /\ swapped # {} =>
       \A i \in DOMAIN file.programs : \A s \in {"vert", "frag"} :
         StageOf([name |-> s, item |-> i - 1]) # None =>
           \E k \in Written({"glsl"}) : out[k].name = s /\ out[k].item = i - 1
=============================================================================
