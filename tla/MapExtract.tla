----------------------------- MODULE MapExtract -----------------------------
(***************************************************************************)
(* sm_extract: everything a streamed map consists of becomes a file.  The  *)
(* header of the map lists the entries, by the parts of ExtractV1; two of  *)
(* the parts are shared buffers, which MapStream writes, each inside a try *)
(* of its own.  Of the second version only the textures are extracted.     *)
(***************************************************************************)
EXTENDS MapStream

CONSTANT MapFiles   (* The maps to extract.                                *)

(***************************************************************************)
(* A map has the fields                                                    *)
(*   version    "V1", "V2" or "unknown": any other version, identifier or  *)
(*              byte order                                                 *)
(*   textures   the objects' textures: [high, intact]: whether there is a  *)
(*              high map, and whether its data decompress                  *)
(*   cached     for each cached terrain texture file the uncachedID of its *)
(*              textures, -1 for one the file itself has                   *)
(*   lists      for each further part its entries: [name, at], the name in *)
(*              the map and the offset of a section of the entry's data    *)
(*   objects, terrain   the streams of the two shared buffers              *)
(***************************************************************************)
ASSUME MapAssumption ==
  \A m \in MapFiles : IsStreams(m.objects) /\ IsStreams(m.terrain)

VARIABLES
  map,       (* The map being extracted.                                   *)
  part,      (* The part being extracted, by number.                       *)
  item,      (* How many entries of the part are.                          *)
  files,     (* The files written: [part, name, data].                     *)
  outcome    (* "working", "extracted" or "refused".                       *)

extractVars == <<map, part, item, files, outcome>>
sessionVars == <<mapVars, extractVars>>

Parts ==
  IF map.version = "V2" THEN <<"tex/h">>
    ELSE <<"tex/h", "tex/m", "tgld", "skybox", "oj", "oj.bin", "terrain", "terrain.bin",
           "landmark", "collision", "grass", "effect", "unk00", "unk01", "unk02",
           "rest", "bvsc">>

Part == Parts[part]

Bins == {"oj.bin", "terrain.bin"}

(* The words of the header an entry comes with and of the one it is given. *)
OldHeader == [skybox |-> 16, landmark |-> 18]
NewHeader == 17

(* <<file, texture>> pairs, in order.                                      *)
CachedTextures ==
  FlattenSeq([f \in DOMAIN map.cached |-> [t \in DOMAIN map.cached[f] |-> <<f, t>>]])

Entries(p) ==
  CASE p = "tex/h" -> map.textures
    [] p = "tex/m" -> CachedTextures
    [] p \in Bins -> <<>>
    [] OTHER -> map.lists[p]

ExtractInit ==
  /\ map \in MapFiles
  /\ part = 1
  /\ item = 0
  /\ files = <<>>
  /\ outcome = "working"
  /\ source = <<>> /\ Fresh /\ status = "closed"

-----------------------------------------------------------------------------
Working == outcome = "working" /\ map.version # "unknown"

HasItem == Working /\ item < Len(Entries(Part))

Entry == Entries(Part)[item + 1]

WriteFile(name, data) ==
  /\ files' = Append(files, [part |-> Part, name |-> name, data |-> data])
  /\ item' = item + 1
  /\ UNCHANGED <<map, part, outcome, mapVars>>

GiveUp == outcome' = "refused" /\ UNCHANGED <<map, part, item, files, mapVars>>

(* ProcessClass knows two versions.                                        *)
RefuseMap == outcome = "working" /\ map.version = "unknown" /\ GiveUp

(* A texture is its high map or else its middle one; a map of the second   *)
(* version keeps both, the high one first, under the doubled size of the   *)
(* middle one.                                                             *)
SendTexture ==
  /\ HasItem /\ Part = "tex/h"
  /\ map.version = "V1" \/ Entry.intact
  /\ WriteFile(item,
       IF ~Entry.high THEN [maps |-> <<"mid">>, of |-> item + 1, scale |-> 1]
         ELSE IF map.version = "V1" THEN [maps |-> <<"high">>, of |-> item + 1, scale |-> 1]
         ELSE [maps |-> <<"high", "mid">>, of |-> item + 1, scale |-> 2])

(* DecompressXBC1 throws.                                                  *)
RefuseTexture ==
  /\ HasItem /\ Part = "tex/h" /\ map.version = "V2" /\ ~Entry.intact
  /\ GiveUp

SendCached ==
  /\ HasItem /\ Part = "tex/m"
  /\ LET id == map.cached[Entry[1]][Entry[2]]
     IN  WriteFile(Entry, IF id > -1 THEN [streaming |-> id] ELSE [cached |-> Entry])

(* The name is in the map, or the number of the entry.                     *)
EntryName == IF Part \in {"tgld", "collision", "rest", "bvsc"} THEN Entry.name ELSE item

(* An entry goes to its file as it is.                                     *)
SendEntry ==
  /\ HasItem /\ Part \notin {"tex/h", "tex/m", "skybox", "landmark"}
  /\ WriteFile(EntryName, [of |-> item + 1])

(* Pointers follow the body when the header before it changes its length.  *)
Moved(offset) == IF Part = "skybox" THEN offset + 1 ELSE offset - 1

SendModel ==
  /\ HasItem /\ Part \in {"skybox", "landmark"}
  /\ WriteFile(item, [of |-> item + 1, at |-> Moved(Entry.at)])

-----------------------------------------------------------------------------
AtBin == Working /\ Part \in Bins

OpenBin ==
  /\ AtBin /\ item = 0 /\ status # "open"
  /\ Start(IF Part = "oj.bin" THEN map.objects ELSE map.terrain)
  /\ item' = 1
  /\ UNCHANGED <<map, part, files, outcome>>

WriteBin == AtBin /\ item = 1 /\ Extract /\ UNCHANGED extractVars

(* Mutation: an exception of one shared buffer ends the extraction.        *)
CloseBinOrGiveUp ==
  /\ AtBin /\ item = 1 /\ status # "open"
  /\ IF status = "failed" THEN outcome' = "refused" /\ UNCHANGED files
       ELSE /\ files' = files \o
                 (<<[part |-> Part, name |-> "bin", data |-> bin],
                    [part |-> Part, name |-> "binh", data |-> header]>>)
            /\ UNCHANGED outcome
  /\ item' = 2
  /\ UNCHANGED <<map, part, mapVars>>

(* The buffer, whatever is in it; its header only if nothing was thrown.   *)
CloseBin ==
  /\ AtBin /\ item = 1 /\ status # "open"
  /\ files' = files \o <<[part |-> Part, name |-> "bin", data |-> bin]>>
                    \o (IF status = "failed" THEN <<>>
                          ELSE <<[part |-> Part, name |-> "binh", data |-> header]>>)
  /\ item' = 2
  /\ UNCHANGED <<map, part, outcome, mapVars>>

NextPart ==
  /\ Working /\ part < Len(Parts)
  /\ item = IF Part \in Bins THEN 2 ELSE Len(Entries(Part))
  /\ part' = part + 1
  /\ item' = 0
  /\ UNCHANGED <<map, files, outcome, mapVars>>

EndMap ==
  /\ Working /\ part = Len(Parts) /\ item = Len(Entries(Part))
  /\ outcome' = "extracted"
  /\ UNCHANGED <<map, part, item, files, mapVars>>

AppProcessFile ==
  \/ RefuseMap \/ SendTexture \/ RefuseTexture \/ SendCached \/ SendEntry \/ SendModel
  \/ OpenBin \/ WriteBin \/ CloseBin \/ NextPart \/ EndMap

Done == outcome # "working" /\ UNCHANGED sessionVars

Next == AppProcessFile \/ Done

(* A single thread, which nothing suspends for ever.                       *)
Spec == ExtractInit /\ [][Next]_sessionVars /\ WF_sessionVars(AppProcessFile)

-----------------------------------------------------------------------------
(* The files of a part.                                                    *)
FilesOf(p) == SelectSeq(files, LAMBDA f : f.part = p)

(* A shared buffer has a header exactly if all its streams can be decoded, *)
(* and the header then describes all of them.                              *)
BinRight(p, streams) ==
  IF \A s \in DOMAIN streams : Decodable(streams[s])
    THEN Len(FilesOf(p)) = 2 /\ Len(FilesOf(p)[2].data) = Len(streams)
    ELSE Len(FilesOf(p)) = 1

(* Every entry has its file, in order, and a texture one is not overtaken  *)
(* by its lower resolution.                                                *)
EntriesRight ==
  \A n \in DOMAIN Parts \ {k \in DOMAIN Parts : Parts[k] \in Bins} :
    /\ Len(FilesOf(Parts[n])) = Len(Entries(Parts[n]))
    /\ \A i \in DOMAIN Entries(Parts[n]) :
         LET entry == Entries(Parts[n])[i]
             data == FilesOf(Parts[n])[i].data
         IN  CASE Parts[n] = "tex/h" ->
                    /\ entry.high <=> Head(data.maps) = "high"
                    /\ data.scale = Len(data.maps)
               [] Parts[n] = "tex/m" ->
                    map.cached[entry[1]][entry[2]] # -1 <=> "streaming" \in DOMAIN data
               [] Parts[n] \in DOMAIN OldHeader ->
                    data.of = i /\ data.at - NewHeader = entry.at - OldHeader[Parts[n]]
               [] OTHER -> data.of = i

(* A map is refused for an unknown version, or when a texture of the second *)
(* version is broken; from any other every entry is extracted, pointers to *)
(* the same section of its data and all, whichever of the shared buffers   *)
(* cannot be finished.                                                     *)
Extracted ==
  <>[] IF map.version = "unknown"
            \/ (map.version = "V2" /\ \E i \in DOMAIN map.textures : ~map.textures[i].intact)
         THEN outcome = "refused"
         ELSE /\ outcome = "extracted"
              /\ EntriesRight
              /\ map.version = "V1" =>
                   BinRight("oj.bin", map.objects) /\ BinRight("terrain.bin", map.terrain)
=============================================================================
