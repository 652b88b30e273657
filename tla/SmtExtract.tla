----------------------------- MODULE SmtExtract -----------------------------
(***************************************************************************)
(* smt_extract: textures out of a stream file.  A .wismt or .pcsmt file is *)
(* first tried as a DRSM container (TryExtractDRSM); when a header in it is *)
(* not the expected one, and for every .casmt file, its model file is      *)
(* loaded instead (TryExtactMDO) and the texture groups and the cached     *)
(* textures that file lists are written (ExtractSimple).                   *)
(*                                                                         *)
(* A written file is a name and where its bytes were cut from: a stream of *)
(* the container and one of its entries or, for a low texture, the texture *)
(* itself; a group of the model file or its cached textures.  Streams,     *)
(* entries, textures and groups count from 0, as in the files.             *)
(***************************************************************************)
EXTENDS MxmdLoad, FiniteSets

CONSTANTS
  Files,     (* The stream files, each with its model file.                *)
  None       (* A null pointer, an empty cache slot, no group.             *)

(* A container with its streams within bounds.  Of the assertions of       *)
(* drsm.cpp that of the middle stream is needed of one that lists textures *)
(* with middle mips: those have entries of their own, from number 3 on.    *)
IsContainer(d) ==
  /\ Len(d.streams) \in Nat \ {0}
  /\ d.textures # None =>
       /\ d.lowIndex = 0 /\ d.midBegin \in Nat
       /\ d.textureIndices \in Seq(0 .. Len(d.textures) - 1)
       /\ d.textureIndices # <<>> => d.midIndex = 1 /\ Len(d.streams) # 1
       /\ \A h \in DOMAIN d.textureIndices :
            d.entryStreams[d.midBegin + h] \in 0 .. Len(d.streams)

IsModelFile(m) ==
  /\ IsList(m.groups)
  /\ \A g \in 1 .. Len(m.groups) : IsList(m.groups[g].names)
  /\ m.cached # None => IsList(m.cached)
  /\ IsModelGraph(m.graph)

ASSUME SmtAssumption ==
  /\ None \notin Nat
  /\ \A f \in Files :
       /\ f.drsm # None => (f.drsm.version /\ f.drsm.resources => IsContainer(f.drsm))
       /\ f.mdo # None => IsModelFile(f.mdo)

VARIABLES
  file,    (* [ext, drsm, mdo]; drsm is None when the identifier is wrong. *)
  fate,    (* Where AppProcessFile stands, or how it ended.                *)
  cache,   (* LocalCache: the stream whose data each slot holds, or None.  *)
  group,   (* The group being extracted, or None for the cached textures.  *)
  pos,     (* How many textures of the current list have been handled.     *)
  seen,    (* processedTextures, the names already written.                *)
  out,     (* The files written.                                           *)
  num,     (* numProcessedTextures.                                        *)
  viaModel (* Whether the model file is what is extracted.                 *)

smtVars == <<file, fate, cache, group, pos, seen, out, num, viaModel>>

vars == <<smtVars, loadVars>>

drsm == file.drsm
mdo == file.mdo

At(s, i) == s[i + 1]

Ended == {"done", "failed", "undefined"}

Begin ==
  /\ cache = <<None, None>>
  /\ group = None
  /\ pos = 0
  /\ seen = {}
  /\ out = <<>>
  /\ num = 0
  /\ viaModel = FALSE
  /\ mxmd = None /\ tool = None /\ asserts = FALSE
  /\ loading = "idle"
  /\ todo = <<>> /\ swaps = <<>> /\ fixed = <<>>

Init == file \in Files /\ fate = "open" /\ Begin

\* A header error makes the model file the next thing to try.
FallBack == fate' = "mdo" /\ pos' = 0 /\ viaModel' = TRUE

Fail == fate' = "failed" /\ UNCHANGED <<pos, viaModel>>

\* What an exception out of a stream does to a DRSM file.
Thrown(stream) ==
  /\ IF At(drsm.streams, stream) = "otherHeader" THEN FallBack ELSE Fail
  /\ UNCHANGED <<file, cache, group, seen, out, num>>

(***************************************************************************)
(* LocalCache::GetSet decompresses the stream it is asked for only when    *)
(* the slot is empty, whichever stream filled the slot before.             *)
(***************************************************************************)
Held(stream, slot) == IF At(cache, slot) = None THEN stream ELSE At(cache, slot)

Readable(stream, slot) ==
  At(cache, slot) # None \/ At(drsm.streams, stream) = "good"

GetSet(stream, slot) == cache' = [cache EXCEPT ![slot + 1] = Held(stream, slot)]

(***************************************************************************)
(* The container is mounted: a wrong identifier of the file or of its      *)
(* resources is a header error, a wrong version is not.                    *)
(***************************************************************************)
TriedAsContainer == file.ext # "casmt" /\ drsm # None

NotAContainer ==
  /\ fate = "open"
  /\ TriedAsContainer => drsm.version /\ ~drsm.resources
  /\ FallBack
  /\ UNCHANGED <<file, cache, group, seen, out, num>>

RefuseVersion ==
  /\ fate = "open" /\ TriedAsContainer /\ ~drsm.version
  /\ Fail
  /\ UNCHANGED <<file, cache, group, seen, out, num>>

Mount ==
  /\ fate = "open" /\ TriedAsContainer /\ drsm.version /\ drsm.resources
  /\ fate' = "model"
  /\ UNCHANGED <<file, cache, group, pos, seen, out, num, viaModel>>

(* Mutation: the file of the geometry is made before its stream is read.    *)
ExtractModelEagerly ==
  /\ fate = "model"
  /\ out' = Append(out, [name |-> "vertexindexbuffer", kind |-> "model",
                         stream |-> 0, item |-> 0])
  /\ IF Readable(0, 0)
     THEN /\ GetSet(0, 0)
          /\ fate' = IF drsm.textures = None THEN "done" ELSE "textures"
          /\ UNCHANGED <<file, group, pos, seen, num, viaModel>>
     ELSE /\ IF At(drsm.streams, 0) = "otherHeader" THEN FallBack ELSE Fail
          /\ UNCHANGED <<file, cache, group, seen, num>>

(* The geometry and the shaders are cut from the first stream.             *)
ExtractModel ==
  /\ fate = "model"
  /\ IF Readable(0, 0)
     THEN /\ GetSet(0, 0)
          /\ out' = out \o
               <<[name |-> "vertexindexbuffer", kind |-> "model",
                  stream |-> Held(0, 0), item |-> 0],
                 [name |-> "shaders.wishp", kind |-> "shaders",
                  stream |-> Held(0, 0), item |-> 1]>>
          /\ fate' = IF drsm.textures = None THEN "done" ELSE "textures"
          /\ UNCHANGED <<file, group, pos, seen, num, viaModel>>
     ELSE Thrown(0)

MoreTextures == fate = "textures" /\ pos < Len(drsm.textures)

\* The places of the texture in textureIndices, the list of the textures
\* that have middle mips.
Places(t) == {h \in DOMAIN drsm.textureIndices : drsm.textureIndices[h] = t}

HasMiddle(t) == Places(t) # {}

hIndex(t) == CHOOSE h \in Places(t) : \A k \in Places(t) : h <= k

MiddleEntry(t) == drsm.midBegin + hIndex(t) - 1

\* The highest mip is a whole stream of its own, counted from one past
\* the middle stream.
HasHigh(t) == At(drsm.entryStreams, MiddleEntry(t)) > drsm.midIndex

HighStream(t) == At(drsm.entryStreams, MiddleEntry(t)) - drsm.midIndex

Write(name, kind, stream, item) ==
  out' = Append(out, [name |-> name, kind |-> kind, stream |-> stream, item |-> item])

\* The texture is written and counted, and the next one is taken.
Processed == pos' = pos + 1 /\ num' = num + 1 /\ UNCHANGED <<file, fate, group, seen, viaModel>>

(* Mutation: an external texture ends the loop.                             *)
SkipExternalAndRest ==
  /\ MoreTextures /\ HasMiddle(pos) /\ drsm.external
  /\ fate' = "done"
  /\ UNCHANGED <<file, cache, group, pos, seen, out, num, viaModel>>

(* Textures with middle mips are left to the external resources.           *)
SkipExternal ==
  /\ MoreTextures /\ HasMiddle(pos) /\ drsm.external
  /\ pos' = pos + 1
  /\ UNCHANGED <<file, fate, cache, group, seen, out, num, viaModel>>

(* Mutation: the middle stream takes the slot of the first one.             *)
MiddleTextureInSlot0 ==
  /\ MoreTextures /\ HasMiddle(pos) /\ ~drsm.external /\ ~HasHigh(pos)
  /\ IF Readable(drsm.midIndex, 0)
     THEN /\ GetSet(drsm.midIndex, 0)
          /\ Write(At(drsm.textures, pos), "middle", Held(drsm.midIndex, 0), MiddleEntry(pos))
          /\ Processed
     ELSE Thrown(drsm.midIndex)

MiddleTexture ==
  /\ MoreTextures /\ HasMiddle(pos) /\ ~drsm.external /\ ~HasHigh(pos)
  /\ IF Readable(drsm.midIndex, 1)
     THEN /\ GetSet(drsm.midIndex, 1)
          /\ Write(At(drsm.textures, pos), "middle", Held(drsm.midIndex, 1), MiddleEntry(pos))
          /\ Processed
     ELSE Thrown(drsm.midIndex)

(* The header is read from the middle stream and doubled, the texels are a *)
(* stream that is decompressed for this texture alone.                     *)
HighTexture ==
  /\ MoreTextures /\ HasMiddle(pos) /\ ~drsm.external /\ HasHigh(pos)
  /\ IF ~Readable(drsm.midIndex, 1) THEN Thrown(drsm.midIndex)
     ELSE IF At(drsm.streams, HighStream(pos)) # "good" THEN
       /\ IF At(drsm.streams, HighStream(pos)) = "otherHeader" THEN FallBack ELSE Fail
       /\ GetSet(drsm.midIndex, 1)
       /\ num' = num + 1
       /\ UNCHANGED <<file, group, seen, out>>
     ELSE
       /\ GetSet(drsm.midIndex, 1)
       /\ Write(At(drsm.textures, pos), "high", HighStream(pos), MiddleEntry(pos))
       /\ Processed

LowTexture ==
  /\ MoreTextures /\ ~HasMiddle(pos)
  /\ GetSet(drsm.lowIndex, 0)
  /\ Write(At(drsm.textures, pos), "low", Held(drsm.lowIndex, 0), pos)
  /\ Processed

EndTextures ==
  /\ fate = "textures" /\ pos = Len(drsm.textures)
  /\ fate' = IF num = 0 THEN "failed" ELSE "done"
  /\ UNCHANGED <<file, cache, group, pos, seen, out, num, viaModel>>

(***************************************************************************)
(* The model file: it may be missing, and Load may refuse it.  The         *)
(* extractor takes the streamed textures of the third version for a list   *)
(* of groups, which GetSMT calls them only beside cached textures.         *)
(***************************************************************************)
NoModel ==
  /\ fate = "mdo" /\ mdo = None
  /\ fate' = "failed"
  /\ UNCHANGED <<file, cache, group, pos, seen, out, num, viaModel>>

OpenModel ==
  /\ fate = "mdo" /\ mdo # None /\ loading = "idle"
  /\ Start(mdo.graph, "smt")
  /\ UNCHANGED smtVars

LoadStep == fate = "mdo" /\ Load /\ UNCHANGED smtVars

RefuseModel ==
  /\ fate = "mdo" /\ loading \in {"refused", "aborted", "undefined"}
  /\ fate' = IF loading = "undefined" THEN "undefined" ELSE "failed"
  /\ UNCHANGED <<file, cache, group, pos, seen, out, num, viaModel>>

GroupsTaken == mdo.version = 3 => Behind(1, "cachedTextures") # <<>>

LoadModel ==
  /\ fate = "mdo" /\ loading = "loaded"
  /\ IF GroupsTaken
     THEN /\ fate' = "simple"
          /\ group' = IF mdo.groups = <<>> THEN None ELSE Len(mdo.groups) - 1
     ELSE fate' = "failed" /\ UNCHANGED group
  /\ UNCHANGED <<file, cache, pos, seen, out, num, viaModel>>

Names(g) == At(mdo.groups, g).names

\* Only the third version compresses its groups.
GroupReadable(g) == mdo.version = 3 => At(mdo.groups, g).data = "good"

RefuseGroup ==
  /\ fate = "simple" /\ group # None /\ pos = 0 /\ ~GroupReadable(group)
  /\ fate' = "failed"
  /\ UNCHANGED <<file, cache, group, pos, seen, out, num, viaModel>>

(* Mutation: the names of a group are not remembered.                       *)
GroupTextureForgotten ==
  /\ fate = "simple" /\ group # None /\ GroupReadable(group)
  /\ pos < Len(Names(group))
  /\ Write(At(Names(group), pos), "group", group, pos)
  /\ pos' = pos + 1
  /\ UNCHANGED <<file, fate, cache, group, seen, num, viaModel>>

\* Groups are taken from the last to the first, and a name only once.
GroupTexture ==
  /\ fate = "simple" /\ group # None /\ GroupReadable(group)
  /\ pos < Len(Names(group))
  /\ LET name == At(Names(group), pos) IN
     IF name \in seen THEN UNCHANGED <<seen, out>>
     ELSE seen' = seen \cup {name} /\ Write(name, "group", group, pos)
  /\ pos' = pos + 1
  /\ UNCHANGED <<file, fate, cache, group, num, viaModel>>

NextGroup ==
  /\ fate = "simple" /\ group # None /\ GroupReadable(group)
  /\ pos = Len(Names(group))
  /\ pos' = 0
  /\ group' = IF group = 0 THEN None ELSE group - 1
  /\ UNCHANGED <<file, fate, cache, seen, out, num, viaModel>>

(* The cached textures of the third version are never processed: a list    *)
(* that is not empty is read through pointers that point nowhere.          *)
CachedTexture ==
  /\ fate = "simple" /\ group = None /\ mdo.cached # None
  /\ pos < Len(mdo.cached)
  /\ IF mdo.version = 3 THEN fate' = "undefined" /\ UNCHANGED <<pos, out>>
     ELSE /\ LET name == At(mdo.cached, pos) IN
             IF name \in seen THEN UNCHANGED out ELSE Write(name, "cached", None, pos)
          /\ pos' = pos + 1 /\ UNCHANGED fate
  /\ UNCHANGED <<file, cache, group, seen, num, viaModel>>

(* Mutation: the cached textures are extracted only when there are no groups.*)
EndSimpleAfterGroups ==
  /\ fate = "simple" /\ group = None
  /\ mdo.groups = <<>> /\ mdo.cached # None => pos = Len(mdo.cached)
  /\ fate' = "done"
  /\ UNCHANGED <<file, cache, group, pos, seen, out, num, viaModel>>

EndSimple ==
  /\ fate = "simple" /\ group = None
  /\ mdo.cached # None => pos = Len(mdo.cached)
  /\ fate' = "done"
  /\ UNCHANGED <<file, cache, group, pos, seen, out, num, viaModel>>

ExtractStep ==
  \/ NotAContainer \/ RefuseVersion \/ Mount \/ ExtractModel
  \/ SkipExternal \/ MiddleTexture \/ HighTexture \/ LowTexture \/ EndTextures
  \/ NoModel \/ RefuseModel \/ LoadModel
  \/ RefuseGroup \/ GroupTexture \/ NextGroup \/ CachedTexture \/ EndSimple

AppProcessFile == (ExtractStep /\ UNCHANGED loadVars) \/ OpenModel \/ LoadStep

Done == fate \in Ended /\ UNCHANGED vars

Next == AppProcessFile \/ Done

Spec == Init /\ [][Next]_vars /\ WF_vars(AppProcessFile)
-----------------------------------------------------------------------------
Written(kinds) == {k \in DOMAIN out : out[k].kind \in kinds}

DrsmKinds == {"model", "shaders", "low", "middle", "high"}

\* The types of the state.
TypeOK ==
  /\ fate \in {"open", "model", "textures", "mdo", "simple"} \cup Ended
  /\ \A slot \in 1 .. 2 : cache[slot] \in Nat \cup {None}
  /\ group # None => group \in 0 .. Len(mdo.groups) - 1
  /\ pos \in Nat /\ num \in 0 .. Len(out)
  /\ viaModel \in BOOLEAN

(* Every cut of a container is made in the stream that holds it: what has  *)
(* middle mips and no higher stream in the middle one, a higher mip in the *)
(* stream its entry names (counted from 1), everything else in the first;  *)
(* although the two slots of the cache are filled by whoever comes first.  *)
CutFromItsStream ==
  \A k \in Written(DrsmKinds) :
    LET o == out[k] IN
    o.stream = CASE o.kind = "middle" -> 1
                 [] o.kind = "high" -> At(drsm.entryStreams, o.item) - 1
                 [] OTHER -> 0

(* The entry a middle or a high mip is cut with is the one listed for the  *)
(* texture whose name it gets, and a texture that has one is never written *)
(* in its low resolution.                                                  *)
CutNamedAsListed ==
  \A k \in Written({"middle", "high", "low"}) :
    LET o == out[k]
        listed == [h \in DOMAIN drsm.textureIndices |->
                     At(drsm.textures, drsm.textureIndices[h])]
    IN IF o.kind = "low"
       THEN o.name = At(drsm.textures, o.item) /\ o.item \notin Range(drsm.textureIndices)
       ELSE o.name = listed[o.item - drsm.midBegin + 1]

(* The cuts of a container are the right bytes under the right name.       *)
CutsRight == CutFromItsStream /\ CutNamedAsListed

\* The textures before the p-th that are not left to external resources.
KeptBefore(p) ==
  {t \in 0 .. p - 1 : ~(drsm.external /\ t \in Range(drsm.textureIndices))}

(* A finished container has had every texture written once and in order,   *)
(* but for those left to its external resources.                           *)
DrsmComplete ==
  fate = "done" /\ ~viaModel /\ drsm # None /\ drsm.textures # None =>
    LET n == Len(drsm.textures)
    IN  /\ Len(out) = 2 + Cardinality(KeptBefore(n))
        /\ \A t \in KeptBefore(n) :
             out[3 + Cardinality(KeptBefore(t))].name = At(drsm.textures, t)

(* A texture of a model file is written from the last group that has its   *)
(* name, and from the cached textures only when no group has it.           *)
HighestGroupWins ==
  \A k \in Written({"group", "cached"}) :
    LET o == out[k]
        first == IF o.kind = "cached" THEN 0 ELSE o.stream + 1
    IN /\ \A g \in first .. Len(mdo.groups) - 1 : o.name \notin Range(Names(g))
       /\ o.kind = "group" =>
            \A j \in Written({"group", "cached"}) : out[j].name = o.name => j = k

(* Every name of a model file that was extracted to the end was written.   *)
NothingLost ==
  fate = "done" /\ viaModel =>
    /\ \A g \in 0 .. Len(mdo.groups) - 1 : \A name \in Range(Names(g)) :
         \E k \in Written({"group"}) : out[k].name = name
    /\ mdo.cached # None =>
         \A name \in Range(mdo.cached) : \E k \in Written({"group", "cached"}) : out[k].name = name

(* Files of both kinds are written for one input only when a header other  *)
(* than the first stream's was wrong: what was written before the fallback *)
(* is not taken back.                                                      *)
MixedByLateHeader ==
  viaModel /\ Written(DrsmKinds) # {} =>
    \E s \in 1 .. Len(drsm.streams) - 1 : At(drsm.streams, s) = "otherHeader"

\* A file in which nothing is wrong and something is to be extracted.
HealthyDrsm ==
  /\ drsm # None /\ drsm.version /\ drsm.resources
  /\ Range(drsm.streams) = {"good"}
  /\ drsm.textures # None => \E t \in 0 .. Len(drsm.textures) - 1 : ~(drsm.external /\ HasMiddle(t))

HealthyModel ==
  /\ drsm = None
  /\ mdo # None /\ Sound(mdo.graph) /\ Len(mdo.groups) \in 1 .. 2
  /\ mdo.version = 3 => mdo.cached # None
  /\ \A g \in DOMAIN mdo.groups : mdo.groups[g].data = "good"

(* A stream file in which nothing is wrong is extracted whatever the       *)
(* version of its model file, as the description of the tool has it.       *)
EveryVersionExtracts == HealthyModel => fate # "failed"
=============================================================================
