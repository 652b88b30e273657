------------------------------ MODULE MapModels ------------------------------
(***************************************************************************)
(* The models of a streamed map as MSIM::Wrap (instanced objects, .caim)   *)
(* and MSTM::Wrap (terrain, .catm) load them: one model per mesh, with the *)
(* stream of sm_extract it draws from, its level of detail and, for        *)
(* instanced objects, the matrices that place it.                          *)
(*                                                                         *)
(* Numbers in a file count from 0.                                         *)
(***************************************************************************)
EXTENDS Integers, Sequences, FiniteSets, FiniteSetsExt

CONSTANTS
  ModelFiles,   (* The files to load.                                      *)
  SignBit       (* 2^31: a flag in a model index, seen as its sign.        *)

VARIABLES
  file,         (* The file.                                               *)
  models,       (* The models so far.                                      *)
  stage,        (* "models", "place", "lods", "ready" or "failed".         *)
  cursor        (* <<outer, inner>> counters of the loop of this stage.    *)

modelVars == <<file, models, stage, cursor>>

(***************************************************************************)
(* A file is                                                               *)
(*   kind         "im", "tm", or "v2" for the later format                 *)
(*   meshes       per mesh its primitives, one at least, each with the     *)
(*                vertex buffer vb and the index buffer ib it draws        *)
(*   streams      im: per mesh its stream                                  *)
(*   clusters     im: which run of modelLODs a cluster draws, finest first *)
(*   modelLODs    im: model indices                                        *)
(*   matrices     im: per instance its cluster                             *)
(*   lookups      tm: per piece of terrain the streams of its two levels   *)
(*   meshIndices  tm: per mesh its piece and level, as one number          *)
(***************************************************************************)
Elem(s, i) == s[i + 1]

ModelIndex(x) == IF x < 0 THEN x + SignBit ELSE x

Cluster(m) == Elem(file.clusters, Elem(file.matrices, m))
Listed(c, l) == ModelIndex(Elem(file.modelLODs, c.start + l))
Known(k) == k < Len(models)

-----------------------------------------------------------------------------
Init ==
  /\ file \in ModelFiles
  /\ models = <<>>
  /\ stage = "models"
  /\ cursor = <<0, 0>>

(* LoadV2 is not implemented, and says so.                                 *)
RefuseV2 ==
  /\ stage = "models" /\ file.kind = "v2"
  /\ stage' = "failed"
  /\ UNCHANGED <<file, models, cursor>>

AddModel(stream, lod) ==
  models' = Append(models, [stream |-> stream, lod |-> lod, matrices |-> <<>>,
                            prims |-> file.meshes[Len(models) + 1]])

MoreMeshes == stage = "models" /\ Len(models) < Len(file.meshes)

LoadObject ==
  /\ MoreMeshes /\ file.kind = "im"
  /\ AddModel(Elem(file.streams, Len(models)), 0)
  /\ UNCHANGED <<file, stage, cursor>>

(* meshIndices runs over all pieces of the first level, then the second.   *)
LoadTerrain ==
  /\ MoreMeshes /\ file.kind = "tm"
  /\ LET big == Elem(file.meshIndices, Len(models))
         n == Len(file.lookups)
         lod == big \div n
     IN  AddModel(Elem(Elem(file.lookups, big % n), lod), lod)
  /\ UNCHANGED <<file, stage, cursor>>

EndModels ==
  /\ stage = "models" /\ file.kind \in {"im", "tm"}
  /\ Len(models) = Len(file.meshes)
  /\ stage' = IF file.kind = "im" THEN "place" ELSE "ready"
  /\ UNCHANGED <<file, models, cursor>>

(* The next model of the cluster, or the next matrix or cluster.           *)
Advance(last) ==
  cursor' = IF last THEN <<cursor[1] + 1, 0>> ELSE <<cursor[1], cursor[2] + 1>>

Matrix == cursor[1]
MoreMatrices == stage = "place" /\ Matrix < Len(file.matrices)

(* An index that models.storage.at() refuses.                              *)
RefuseIndex ==
  /\ \/ MoreMatrices /\ Cluster(Matrix).num > 0
        /\ ~Known(Listed(Cluster(Matrix), cursor[2]))
     \/ stage = "lods" /\ cursor[1] < Len(file.clusters)
        /\ Elem(file.clusters, cursor[1]).num > 0
        /\ ~Known(Listed(Elem(file.clusters, cursor[1]), cursor[2]))
  /\ stage' = "failed"
  /\ UNCHANGED <<file, models, cursor>>

SkipMatrix ==
  /\ MoreMatrices /\ Cluster(Matrix).num = 0
  /\ Advance(TRUE)
  /\ UNCHANGED <<file, models, stage>>

(* Mutation: only the first model of a cluster is placed.                  *)
PlaceFirst ==
  /\ MoreMatrices /\ Cluster(Matrix).num > 0
  /\ Known(Listed(Cluster(Matrix), cursor[2]))
  /\ models' = [models EXCEPT
       ![Listed(Cluster(Matrix), cursor[2]) + 1].matrices = Append(@, Matrix)]
  /\ Advance(TRUE)
  /\ UNCHANGED <<file, stage>>

(* The matrix joins the skin of the next model its cluster lists.          *)
PlaceMatrix ==
  /\ MoreMatrices /\ Cluster(Matrix).num > 0
  /\ Known(Listed(Cluster(Matrix), cursor[2]))
  /\ models' = [models EXCEPT
       ![Listed(Cluster(Matrix), cursor[2]) + 1].matrices = Append(@, Matrix)]
  /\ Advance(cursor[2] + 1 = Cluster(Matrix).num)
  /\ UNCHANGED <<file, stage>>

EndPlaces ==
  /\ stage = "place" /\ Matrix = Len(file.matrices)
  /\ stage' = "lods"
  /\ cursor' = <<0, 0>>
  /\ UNCHANGED <<file, models>>

(* A model's position in the cluster is the level of its primitives.       *)
MoreClusters == stage = "lods" /\ cursor[1] < Len(file.clusters)

SkipCluster ==
  /\ MoreClusters /\ Elem(file.clusters, cursor[1]).num = 0
  /\ Advance(TRUE)
  /\ UNCHANGED <<file, models, stage>>

(* Mutation: the level counts on from one cluster to the next.             *)
SetLevelRunning ==
  LET c == Elem(file.clusters, cursor[1])
  IN  /\ MoreClusters /\ c.num > 0
      /\ Known(Listed(c, cursor[2]))
      /\ models' = [models EXCEPT
           ![Listed(c, cursor[2]) + 1].lod = cursor[1] + cursor[2]]
      /\ Advance(cursor[2] + 1 = c.num)
      /\ UNCHANGED <<file, stage>>

SetLevel ==
  LET c == Elem(file.clusters, cursor[1])
  IN  /\ MoreClusters /\ c.num > 0
      /\ Known(Listed(c, cursor[2]))
      /\ models' = [models EXCEPT ![Listed(c, cursor[2]) + 1].lod = cursor[2]]
      /\ Advance(cursor[2] + 1 = c.num)
      /\ UNCHANGED <<file, stage>>

EndLevels ==
  /\ stage = "lods" /\ cursor[1] = Len(file.clusters)
  /\ stage' = "ready"
  /\ UNCHANGED <<file, models, cursor>>

Load ==
  \/ RefuseV2
  \/ LoadObject \/ LoadTerrain \/ EndModels
  \/ RefuseIndex
  \/ SkipMatrix \/ PlaceMatrix \/ EndPlaces
  \/ SkipCluster \/ SetLevel \/ EndLevels

-----------------------------------------------------------------------------
(***************************************************************************)
(* Once loaded, an instanced model has a matrix as often as the matrix's   *)
(* cluster lists the model, and has its matrices in the file's order.      *)
(***************************************************************************)
Listings(c, k) == {l \in 0 .. c.num - 1 : Listed(c, l) = k}

PlacedAsListed ==
  stage = "ready" /\ file.kind = "im" =>
    \A k \in 0 .. Len(models) - 1 :
      LET placed == Elem(models, k).matrices
      IN  /\ \A m \in 0 .. Len(file.matrices) - 1 :
               Cardinality({i \in 1 .. Len(placed) : placed[i] = m})
                 = Cardinality(Listings(Cluster(m), k))
          /\ \A i, j \in 1 .. Len(placed) : i < j => placed[i] <= placed[j]

(***************************************************************************)
(* A model that all clusters list at one position is at that level of      *)
(* detail (another one is at the level the last of them gives it); terrain *)
(* of level l draws from the stream its piece has for level l, and the     *)
(* meshIndices of a piece's two levels differ by the number of pieces.     *)
(***************************************************************************)
LevelsAsListed ==
  stage = "ready" =>
    \A k \in 0 .. Len(models) - 1 :
      LET model == Elem(models, k)
      IN  IF file.kind = "im"
          THEN LET levels == UNION {Listings(file.clusters[c], k) :
                                      c \in 1 .. Len(file.clusters)}
               IN  Cardinality(levels) = 1 => model.lod \in levels
          ELSE \E piece \in 0 .. Len(file.lookups) - 1 :
                 /\ Elem(file.meshIndices, k)
                      = piece + model.lod * Len(file.lookups)
                 /\ model.stream = Elem(Elem(file.lookups, piece), model.lod)
=============================================================================
