-------------------------- MODULE SmtExtractProofs --------------------------
(***************************************************************************)
(* Proofs about smt_extract, for every container and every model file: the *)
(* cuts of a container are the right ones although the slots of its cache  *)
(* are filled by whoever comes first, none of its textures is left out,    *)
(* and of a model file every texture is written once, from the last group  *)
(* that has it.  And about all the tools: the shaders that extract_shaders *)
(* writes are those of its file, and whatever a tool reads of a model file *)
(* that Load has been through is in the right order, its pointers made.    *)
(* Last the textures: every texel of a surface has bytes of its own.       *)
(***************************************************************************)
EXTENDS ExtractTools, SequenceTheorems, FiniteSetTheorems, WellFoundedInduction, TLAPS

(* A set of naturals that is not empty has a smallest member.              *)
LEMMA SmallestMember ==
  ASSUME NEW T, T \subseteq Nat, T # {}
  PROVE  \E x \in T : \A y \in T : x <= y
<1>1. IsWellFoundedOn({ss \in Nat \X Nat : ss[1] < ss[2]}, Nat)
  BY NatLessThanWellFounded DEF OpToRel
<1> DEFINE R == {ss \in Nat \X Nat : ss[1] < ss[2]}
<1>2. PICK x \in T : \A y \in T : ~ (<<y, x>> \in R)
  <2> HIDE DEF R
  <2> QED
    BY <1>1, WFMin DEF R
<1>3. \A y \in T : ~(y < x)
  BY <1>2
<1> QED
  BY <1>3

(* A sequence with one more element.                                       *)
LEMMA Appended ==
  ASSUME NEW S, NEW s \in Seq(S), NEW x
  PROVE  /\ Append(s, x) \in Seq(S \cup {x})
         /\ Len(s) + 1 \notin DOMAIN s
         /\ DOMAIN Append(s, x) = DOMAIN s \cup {Len(s) + 1}
         /\ Append(s, x)[Len(s) + 1] = x
         /\ \A k \in DOMAIN s : Append(s, x)[k] = s[k]
<1>1. s \in Seq(S \cup {x}) /\ x \in S \cup {x}
  BY SeqMonotonic
<1>2. /\ Append(s, x) \in Seq(S \cup {x})
      /\ Len(Append(s, x)) = Len(s) + 1
      /\ \A i \in 1 .. Len(s) : Append(s, x)[i] = s[i]
      /\ Append(s, x)[Len(s) + 1] = x
  BY <1>1, AppendProperties
<1>3. Len(s) \in Nat /\ DOMAIN s = 1 .. Len(s)
  BY <1>1
<1>4. DOMAIN Append(s, x) = 1 .. Len(s) + 1
  BY <1>2
<1> QED
  BY <1>2, <1>3, <1>4

-----------------------------------------------------------------------------
(* What holds of everything written.                                       *)

OutIsSeq == \E S : out \in Seq(S)

NumGroups == Len(mdo.groups)

Listed(o) ==
  At(drsm.textures, drsm.textureIndices[o.item - drsm.midBegin + 1])

CutRight(o) ==
  /\ o.kind \in {"model", "shaders", "low"} => o.stream = 0
  /\ o.kind = "middle" => o.stream = 1
  /\ o.kind = "high" => o.stream = At(drsm.entryStreams, o.item) - 1
  /\ o.kind \in {"middle", "high"} =>
       /\ o.item - drsm.midBegin + 1 \in DOMAIN drsm.textureIndices
       /\ o.name = Listed(o)
  /\ o.kind = "low" =>
       o.name = At(drsm.textures, o.item) /\ o.item \notin Range(drsm.textureIndices)

GroupRight(o) ==
  o.kind = "group" =>
    /\ o.stream \in 0 .. NumGroups - 1
    /\ o.name \in Range(Names(o.stream))
    /\ \A g \in o.stream + 1 .. NumGroups - 1 : o.name \notin Range(Names(g))

CachedRight(o) ==
  o.kind = "cached" => \A g \in 0 .. NumGroups - 1 : o.name \notin Range(Names(g))

ItemRight(o) == CutRight(o) /\ GroupRight(o) /\ CachedRight(o)

ItemsRight == OutIsSeq /\ \A k \in DOMAIN out : ItemRight(out[k])

(* One more file that is right.                                            *)
LEMMA ItemsGrow ==
  ASSUME ItemsRight, NEW x, ItemRight(x), out' = Append(out, x), file' = file
  PROVE  /\ ItemsRight'
         /\ \E n : /\ n \notin DOMAIN out /\ DOMAIN out' = DOMAIN out \cup {n}
                   /\ out'[n] = x /\ \A k \in DOMAIN out : out'[k] = out[k]
<1>1. PICK S : out \in Seq(S)
  BY DEF ItemsRight, OutIsSeq
<1>2. /\ out' \in Seq(S \cup {x})
      /\ Len(out) + 1 \notin DOMAIN out
      /\ DOMAIN out' = DOMAIN out \cup {Len(out) + 1}
      /\ out'[Len(out) + 1] = x
      /\ \A k \in DOMAIN out : out'[k] = out[k]
  BY <1>1, Appended
<1>3. \A k \in DOMAIN out' : ItemRight(out'[k])
  BY <1>2 DEF ItemsRight
<1>4. \A o : ItemRight(o) => ItemRight(o)'
  BY DEF ItemRight, CutRight, GroupRight, CachedRight, Listed, NumGroups, Names, drsm, mdo
<1>5. ItemsRight'
  BY <1>2, <1>3, <1>4 DEF ItemsRight, OutIsSeq
<1> QED
  BY <1>2, <1>5

(* Nothing more.                                                           *)
LEMMA ItemsKept ==
  ASSUME ItemsRight, out' = out, file' = file
  PROVE  ItemsRight'
<1>1. \A o : ItemRight(o) => ItemRight(o)'
  BY DEF ItemRight, CutRight, GroupRight, CachedRight, Listed, NumGroups, Names, drsm, mdo
<1> QED
  BY <1>1 DEF ItemsRight, OutIsSeq

-----------------------------------------------------------------------------
(* The container.                                                          *)

(* What the slots of the cache can hold.                                   *)
CacheRight ==
  /\ cache \in [1 .. 2 -> {None, 0, 1}]
  /\ cache[1] \in {None, 0} /\ cache[2] \in {None, 1}

(* Where the tool stands, and what it has written until then.              *)
Taken(kinds) == \E k \in DOMAIN out : out[k].kind \in kinds

StageRight ==
  /\ file \in Files
  /\ fate \in {"open", "model", "textures", "mdo", "simple"} \cup Ended
  /\ fate \in {"model", "textures"} =>
       drsm # None /\ drsm.version /\ drsm.resources
  /\ fate = "textures" => drsm.textures # None
  /\ pos \in Nat
  /\ fate \in {"open", "model"} => pos = 0 /\ out = <<>>
  /\ fate \in {"open", "model", "textures"} => ~viaModel
  /\ fate \in {"mdo", "simple"} => viaModel
  /\ fate = "mdo" => pos = 0
  /\ fate = "simple" => mdo # None
  /\ fate = "done" /\ ~viaModel => group = None
  /\ fate \in {"open", "model", "textures", "mdo"} =>
       /\ seen = {} /\ group = None /\ ~Taken({"group", "cached"})

(* The model file that is loaded is there.                                 *)
LoadingRight == loading # "idle" => mdo # None

(* What a mounted container with textures is like.                         *)
LEMMA ContainerFacts ==
  ASSUME StageRight, fate = "textures"
  PROVE  /\ drsm.lowIndex = 0 /\ drsm.midBegin \in Nat
         /\ drsm.textureIndices \in Seq(0 .. Len(drsm.textures) - 1)
         /\ \A t : HasMiddle(t) =>
              /\ drsm.midIndex = 1 /\ Len(drsm.streams) \in Nat \ {0, 1}
              /\ 0 \in 0 .. Len(drsm.streams) - 1 /\ 1 \in 0 .. Len(drsm.streams) - 1
         /\ \A h \in DOMAIN drsm.textureIndices :
              drsm.entryStreams[drsm.midBegin + h] \in 0 .. Len(drsm.streams)
<1>1. drsm.textures # None /\ IsContainer(drsm)
  BY SmtAssumption DEF StageRight, drsm
<1>2. /\ drsm.lowIndex = 0 /\ drsm.midBegin \in Nat
      /\ drsm.textureIndices \in Seq(0 .. Len(drsm.textures) - 1)
      /\ Len(drsm.streams) \in Nat \ {0}
      /\ drsm.textureIndices # <<>> => drsm.midIndex = 1 /\ Len(drsm.streams) # 1
      /\ \A h \in DOMAIN drsm.textureIndices :
           drsm.entryStreams[drsm.midBegin + h] \in 0 .. Len(drsm.streams)
  BY <1>1 DEF IsContainer
<1>3. ASSUME NEW t, HasMiddle(t)
      PROVE  /\ drsm.midIndex = 1 /\ Len(drsm.streams) \in Nat \ {0, 1}
             /\ 0 \in 0 .. Len(drsm.streams) - 1 /\ 1 \in 0 .. Len(drsm.streams) - 1
  <2>1. \A n \in Nat \ {0, 1} : 0 \in 0 .. n - 1 /\ 1 \in 0 .. n - 1
    OBVIOUS
  <2>2. drsm.textureIndices # <<>>
    BY <1>3 DEF HasMiddle, Places
  <2>3. drsm.midIndex = 1 /\ Len(drsm.streams) \in Nat \ {0, 1}
    BY <1>2, <2>2
  <2> QED
    BY <2>1, <2>3, Zenon
<1> QED
  BY <1>2, <1>3

(* The first place of a texture among those with middle mips.              *)
LEMMA FirstPlace ==
  ASSUME StageRight, fate = "textures", HasMiddle(pos)
  PROVE  /\ hIndex(pos) \in Nat /\ hIndex(pos) \in DOMAIN drsm.textureIndices
         /\ drsm.textureIndices[hIndex(pos)] = pos
         /\ MiddleEntry(pos) - drsm.midBegin + 1 = hIndex(pos)
         /\ At(drsm.entryStreams, MiddleEntry(pos)) \in 0 .. Len(drsm.streams)
<1>1. Places(pos) \subseteq Nat /\ Places(pos) # {}
  BY ContainerFacts DEF Places, HasMiddle
<1>2. \E h \in Places(pos) : \A k \in Places(pos) : h <= k
  BY <1>1, SmallestMember
<1>3. hIndex(pos) \in Places(pos)
  BY <1>2 DEF hIndex
<1>4. /\ hIndex(pos) \in DOMAIN drsm.textureIndices
      /\ drsm.textureIndices[hIndex(pos)] = pos
  BY <1>3 DEF Places
<1> DEFINE h == hIndex(pos)
           b == drsm.midBegin
<1>5. h \in Nat /\ b \in Nat
  BY <1>1, <1>3, ContainerFacts
<1>6. MiddleEntry(pos) = b + h - 1
  BY DEF MiddleEntry
<1>7. drsm.entryStreams[b + h] \in 0 .. Len(drsm.streams)
  BY <1>4, ContainerFacts
<1> HIDE DEF h, b
<1>8. b + h - 1 - b + 1 = h /\ b + h - 1 + 1 = b + h
  BY <1>5
<1>9. At(drsm.entryStreams, MiddleEntry(pos)) = drsm.entryStreams[b + h]
  BY <1>6, <1>8 DEF At
<1> QED
  BY <1>4, <1>5, <1>6, <1>7, <1>8, <1>9 DEF h, b

(* What a slot holds after it was asked for its own stream.                *)
LEMMA HeldRight ==
  ASSUME CacheRight
  PROVE  Held(0, 0) = 0 /\ Held(1, 1) = 1
BY DEF CacheRight, Held, At

LEMMA CacheFilled ==
  ASSUME CacheRight, GetSet(0, 0) \/ GetSet(1, 1)
  PROVE  CacheRight'
<1>1. CASE GetSet(0, 0)
  <2>1. cache' = [cache EXCEPT ![1] = 0]
    <3>1. 0 + 1 = 1 /\ Held(0, 0) = 0
      BY HeldRight
    <3>2. cache' = [cache EXCEPT ![0 + 1] = Held(0, 0)]
      BY <1>1 DEF GetSet
    <3> QED
      BY <3>1, <3>2, Zenon
  <2> QED
    BY <2>1 DEF CacheRight
<1>2. CASE GetSet(1, 1)
  <2>1. cache' = [cache EXCEPT ![2] = 1]
    <3>1. 1 + 1 = 2 /\ Held(1, 1) = 1
      BY HeldRight
    <3>2. cache' = [cache EXCEPT ![1 + 1] = Held(1, 1)]
      BY <1>2 DEF GetSet
    <3> QED
      BY <3>1, <3>2, Zenon
  <2> QED
    BY <2>1 DEF CacheRight
<1> QED
  BY <1>1, <1>2

(* The cuts of the textures are right.                                     *)
LEMMA LowRight ==
  ASSUME StageRight, CacheRight, LowTexture
  PROVE  ItemRight([name |-> At(drsm.textures, pos), kind |-> "low",
                    stream |-> Held(drsm.lowIndex, 0), item |-> pos])
<1>1. fate = "textures" /\ ~HasMiddle(pos)
  BY DEF LowTexture, MoreTextures
<1>2. Held(drsm.lowIndex, 0) = 0
  BY <1>1, ContainerFacts, HeldRight
<1>3. pos \notin Range(drsm.textureIndices)
  BY <1>1 DEF HasMiddle, Places, Range
<1> QED
  BY <1>2, <1>3 DEF ItemRight, CutRight, GroupRight, CachedRight

LEMMA MiddleRight ==
  ASSUME StageRight, CacheRight, MiddleTexture
  PROVE  ItemRight([name |-> At(drsm.textures, pos), kind |-> "middle",
                    stream |-> Held(drsm.midIndex, 1), item |-> MiddleEntry(pos)])
<1>1. fate = "textures" /\ HasMiddle(pos)
  BY DEF MiddleTexture, MoreTextures
<1>2. Held(drsm.midIndex, 1) = 1
  BY <1>1, ContainerFacts, HeldRight
<1>3. /\ MiddleEntry(pos) - drsm.midBegin + 1 \in DOMAIN drsm.textureIndices
      /\ At(drsm.textures, pos)
           = At(drsm.textures, drsm.textureIndices[MiddleEntry(pos) - drsm.midBegin + 1])
  BY <1>1, FirstPlace
<1> QED
  BY <1>2, <1>3 DEF ItemRight, CutRight, GroupRight, CachedRight, Listed

LEMMA HighRight ==
  ASSUME StageRight, CacheRight, fate = "textures", HasMiddle(pos)
  PROVE  ItemRight([name |-> At(drsm.textures, pos), kind |-> "high",
                    stream |-> HighStream(pos), item |-> MiddleEntry(pos)])
<1>1. HighStream(pos) = At(drsm.entryStreams, MiddleEntry(pos)) - 1
  BY ContainerFacts DEF HighStream
<1>2. /\ MiddleEntry(pos) - drsm.midBegin + 1 \in DOMAIN drsm.textureIndices
      /\ At(drsm.textures, pos)
           = At(drsm.textures, drsm.textureIndices[MiddleEntry(pos) - drsm.midBegin + 1])
  BY FirstPlace
<1> QED
  BY <1>1, <1>2 DEF ItemRight, CutRight, GroupRight, CachedRight, Listed

(* Files of both kinds need a wrong header in a later stream.              *)
LaterHeader ==
  \E st \in 1 .. Len(drsm.streams) - 1 : At(drsm.streams, st) = "otherHeader"

MixedRight == viaModel /\ Taken(DrsmKinds) => LaterHeader

-----------------------------------------------------------------------------
(* The model file.                                                         *)

(* The names already written are those written from groups, each once.     *)
SeenRight ==
  /\ \A k \in DOMAIN out : out[k].kind = "group" => out[k].name \in seen
  /\ \A n \in seen : \E k \in DOMAIN out : out[k].kind = "group" /\ out[k].name = n
  /\ \A j, k \in DOMAIN out :
       out[j].kind = "group" /\ out[k].kind = "group" /\ out[j].name = out[k].name => j = k

(* A name of the cached textures is written, from there or from a group.   *)
HasName(n, names, files) ==
  n \in names \/ \E k \in DOMAIN files : files[k].kind = "cached" /\ files[k].name = n

(* The groups behind the current one are through, the current one up to    *)
(* where the tool is; of the cached textures likewise.                     *)
GroupPassed(g) == group = None \/ g > group

GroupsRight ==
  fate = "simple" =>
    /\ group # None =>
         /\ group \in 0 .. NumGroups - 1 /\ pos <= Len(Names(group))
         /\ \A i \in 1 .. pos : Names(group)[i] \in seen
    /\ \A g \in 0 .. NumGroups - 1 : GroupPassed(g) => Range(Names(g)) \subseteq seen
    /\ group = None /\ mdo.cached # None =>
         /\ pos <= Len(mdo.cached)
         /\ \A i \in 1 .. pos : HasName(mdo.cached[i], seen, out)

AllTaken ==
  fate = "done" /\ viaModel =>
    /\ \A g \in 0 .. NumGroups - 1 : Range(Names(g)) \subseteq seen
    /\ mdo.cached # None => \A n \in Range(mdo.cached) : HasName(n, seen, out)

CoreInv ==
  /\ StageRight
  /\ CacheRight
  /\ ItemsRight
  /\ MixedRight
  /\ SeenRight
  /\ GroupsRight
  /\ AllTaken

(* A list as a sequence.                                                   *)
LEMMA ListFacts ==
  ASSUME NEW s, IsList(s)
  PROVE  /\ Len(s) \in Nat /\ DOMAIN s = 1 .. Len(s)
         /\ s # <<>> => Len(s) - 1 \in Nat
<1>1. s \in Seq(Range(s))
  BY DEF IsList
<1>2. Len(s) \in Nat /\ DOMAIN s = 1 .. Len(s) /\ (Len(s) = 0 => s = <<>>)
  BY <1>1, EmptySeq, LenProperties
<1> QED
  BY <1>2

(* The groups and names of a model file are sequences.                     *)
LEMMA ModelFacts ==
  ASSUME file \in Files, mdo # None
  PROVE  /\ NumGroups \in Nat /\ (mdo.groups # <<>> => NumGroups - 1 \in Nat)
         /\ \A g \in 0 .. NumGroups - 1 :
              Len(Names(g)) \in Nat /\ DOMAIN Names(g) = 1 .. Len(Names(g))
         /\ mdo.cached # None =>
              Len(mdo.cached) \in Nat /\ DOMAIN mdo.cached = 1 .. Len(mdo.cached)
<1>1. IsModelFile(mdo)
  BY SmtAssumption DEF mdo
<1>2. NumGroups \in Nat /\ (mdo.groups # <<>> => NumGroups - 1 \in Nat)
  BY <1>1, ListFacts DEF IsModelFile, NumGroups
<1>3. ASSUME NEW g \in 0 .. NumGroups - 1
      PROVE  Len(Names(g)) \in Nat /\ DOMAIN Names(g) = 1 .. Len(Names(g))
  <2>1. g + 1 \in 1 .. Len(mdo.groups)
    BY <1>2, <1>3 DEF NumGroups
  <2>2. IsList(Names(g))
    BY <1>1, <2>1 DEF IsModelFile, Names, At
  <2> QED
    BY <2>2, ListFacts
<1>4. mdo.cached # None =>
        Len(mdo.cached) \in Nat /\ DOMAIN mdo.cached = 1 .. Len(mdo.cached)
  BY <1>1, ListFacts DEF IsModelFile
<1> QED
  BY <1>2, <1>3, <1>4

(* A step before the model file is taken apart, or one that ends the tool, *)
(* that writes at most what is cut from the container.                     *)
LEMMA SeenFrame ==
  ASSUME SeenRight, seen' = seen, out' = out
  PROVE  SeenRight'
BY DEF SeenRight

LEMMA SeenOther ==
  ASSUME SeenRight, seen' = seen, NEW n, n \notin DOMAIN out,
         DOMAIN out' = DOMAIN out \cup {n}, out'[n].kind # "group",
         \A k \in DOMAIN out : out'[k] = out[k]
  PROVE  SeenRight'
BY DEF SeenRight

(* The next texture of a group.                                            *)
LEMMA StepGroupTexture ==
  ASSUME CoreInv, GroupTexture
  PROVE  CoreInv'
<1> DEFINE name == At(Names(group), pos)
           x == [name |-> name, kind |-> "group", stream |-> group, item |-> pos]
<1>1. /\ fate = "simple" /\ group # None /\ pos < Len(Names(group))
      /\ pos' = pos + 1
      /\ UNCHANGED <<file, fate, cache, group, num, viaModel>>
      /\ \/ name \in seen /\ seen' = seen /\ out' = out
         \/ name \notin seen /\ seen' = seen \cup {name} /\ out' = Append(out, x)
  BY DEF GroupTexture, Write
<1>2. /\ file \in Files /\ mdo # None /\ pos \in Nat
      /\ group \in 0 .. NumGroups - 1
      /\ Len(Names(group)) \in Nat /\ DOMAIN Names(group) = 1 .. Len(Names(group))
  BY <1>1, ModelFacts DEF CoreInv, StageRight, GroupsRight
<1>3. name \in Range(Names(group)) /\ pos + 1 <= Len(Names(group))
  BY <1>1, <1>2 DEF Range, At
<1>4. \A g \in group + 1 .. NumGroups - 1 : Range(Names(g)) \subseteq seen
  <2> TAKE g \in group + 1 .. NumGroups - 1
  <2>1. g \in 0 .. NumGroups - 1 /\ GroupPassed(g)
    BY <1>2 DEF GroupPassed
  <2> QED
    BY <1>1, <2>1 DEF CoreInv, GroupsRight
<1>5. /\ ItemsRight' /\ SeenRight'
      /\ Taken(DrsmKinds)' => Taken(DrsmKinds)
      /\ name \in seen' /\ seen \subseteq seen'
  <2>1. CASE name \in seen /\ seen' = seen /\ out' = out
    BY <1>1, <2>1, ItemsKept, SeenFrame DEF CoreInv, Taken, DrsmKinds
  <2>2. CASE name \notin seen /\ seen' = seen \cup {name} /\ out' = Append(out, x)
    <3>1. ItemRight(x)
      <4>1. CutRight(x) /\ CachedRight(x)
        BY DEF CutRight, CachedRight
      <4>2. GroupRight(x)
        BY <1>2, <1>3, <1>4, <2>2 DEF GroupRight
      <4> QED
        BY <4>1, <4>2 DEF ItemRight
    <3> HIDE DEF x
    <3>2. ItemsRight' /\ \E n : /\ n \notin DOMAIN out /\ DOMAIN out' = DOMAIN out \cup {n}
                                /\ out'[n] = x /\ \A k \in DOMAIN out : out'[k] = out[k]
      BY <1>1, <2>2, <3>1, ItemsGrow DEF CoreInv
    <3>3. PICK n : /\ n \notin DOMAIN out /\ DOMAIN out' = DOMAIN out \cup {n}
                   /\ out'[n] = x /\ \A k \in DOMAIN out : out'[k] = out[k]
      BY <3>2
    <3>4. x.kind = "group" /\ x.name = name
      BY DEF x
    <3>5. SeenRight'
      BY <2>2, <3>3, <3>4 DEF CoreInv, SeenRight
    <3>6. Taken(DrsmKinds)' => Taken(DrsmKinds)
      BY <3>3, <3>4 DEF Taken, DrsmKinds
    <3> QED
      BY <2>2, <3>2, <3>5, <3>6
  <2> QED
    BY <1>1, <2>1, <2>2
<1> HIDE DEF name, x
<1>6. StageRight'
  BY <1>1, <1>2 DEF CoreInv, StageRight, Ended, drsm, mdo
<1>7. CacheRight' /\ AllTaken'
  BY <1>1 DEF CoreInv, CacheRight, AllTaken
<1>8. MixedRight'
  BY <1>1, <1>5 DEF CoreInv, MixedRight, LaterHeader, drsm
<1>9. GroupsRight'
  <2>1. \A i \in 1 .. pos + 1 : Names(group)[i] \in seen'
    <3> TAKE i \in 1 .. pos + 1
    <3>1. CASE i \in 1 .. pos
      BY <1>1, <1>5, <3>1 DEF CoreInv, GroupsRight
    <3>2. CASE i = pos + 1
      BY <1>5, <3>2 DEF name, At
    <3> QED
      BY <1>2, <3>1, <3>2
  <2>2. \A g \in 0 .. NumGroups - 1 : GroupPassed(g) => Range(Names(g)) \subseteq seen'
    BY <1>1, <1>5 DEF CoreInv, GroupsRight
  <2> QED
    BY <1>1, <1>2, <1>3, <2>1, <2>2 DEF GroupsRight, GroupPassed, NumGroups, Names, mdo
<1> QED
  BY <1>5, <1>6, <1>7, <1>8, <1>9 DEF CoreInv

(* The next of the cached textures.                                        *)
LEMMA StepCachedTexture ==
  ASSUME CoreInv, CachedTexture
  PROVE  CoreInv'
<1> DEFINE name == At(mdo.cached, pos)
           x == [name |-> name, kind |-> "cached", stream |-> None, item |-> pos]
<1>1. /\ fate = "simple" /\ group = None /\ mdo.cached # None /\ pos < Len(mdo.cached)
      /\ UNCHANGED <<file, cache, group, seen, num, viaModel>>
  BY DEF CachedTexture
<1>2. /\ file \in Files /\ mdo # None /\ pos \in Nat
      /\ Len(mdo.cached) \in Nat
  BY <1>1, ModelFacts DEF CoreInv, StageRight
<1>3. CASE fate' = "undefined" /\ pos' = pos /\ out' = out
  <2>1. StageRight'
    BY <1>1, <1>2, <1>3 DEF CoreInv, StageRight, Ended, drsm, mdo
  <2>2. ItemsRight' /\ SeenRight'
    BY <1>1, <1>3, ItemsKept, SeenFrame DEF CoreInv
  <2>3. CacheRight' /\ MixedRight' /\ GroupsRight' /\ AllTaken'
    BY <1>1, <1>3 DEF CoreInv, CacheRight, MixedRight, LaterHeader, Taken, drsm,
       GroupsRight, AllTaken
  <2> QED
    BY <2>1, <2>2, <2>3 DEF CoreInv
<1>4. CASE /\ fate' = fate /\ pos' = pos + 1
           /\ out' = IF name \in seen THEN out ELSE Append(out, x)
  <2>1. \A g \in 0 .. NumGroups - 1 : Range(Names(g)) \subseteq seen
    BY <1>1 DEF CoreInv, GroupsRight, GroupPassed
  <2>2. /\ ItemsRight' /\ SeenRight'
        /\ Taken(DrsmKinds)' => Taken(DrsmKinds)
        /\ HasName(name, seen', out')
        /\ \A n : HasName(n, seen, out) => HasName(n, seen', out')
    <3>1. CASE name \in seen
      BY <1>1, <1>4, <3>1, ItemsKept, SeenFrame DEF CoreInv, Taken, DrsmKinds, HasName
    <3>2. CASE name \notin seen
      <4>1. CutRight(x) /\ GroupRight(x)
        BY DEF CutRight, GroupRight
      <4>2. CachedRight(x)
        BY <2>1, <3>2 DEF CachedRight
      <4>3. ItemRight(x) /\ out' = Append(out, x)
        BY <1>4, <3>2, <4>1, <4>2 DEF ItemRight
      <4> HIDE DEF x
      <4>4. ItemsRight' /\ \E n : /\ n \notin DOMAIN out /\ DOMAIN out' = DOMAIN out \cup {n}
                                  /\ out'[n] = x /\ \A k \in DOMAIN out : out'[k] = out[k]
        BY <1>1, <4>3, ItemsGrow DEF CoreInv
      <4>5. PICK n : /\ n \notin DOMAIN out /\ DOMAIN out' = DOMAIN out \cup {n}
                     /\ out'[n] = x /\ \A k \in DOMAIN out : out'[k] = out[k]
        BY <4>4
      <4>6. x.kind = "cached" /\ x.name = name
        BY DEF x
      <4> HIDE DEF name
      <4>7. SeenRight'
        BY <1>1, <4>5, <4>6, SeenOther DEF CoreInv
      <4>8. Taken(DrsmKinds)' => Taken(DrsmKinds)
        BY <4>5, <4>6 DEF Taken, DrsmKinds
      <4>9. HasName(name, seen', out') /\ \A m : HasName(m, seen, out) => HasName(m, seen', out')
        BY <1>1, <4>5, <4>6 DEF HasName
      <4> QED
        BY <4>4, <4>7, <4>8, <4>9
    <3> QED
      BY <3>1, <3>2
  <2>3. StageRight'
    BY <1>1, <1>2, <1>4 DEF CoreInv, StageRight, Ended, drsm, mdo
  <2>4. CacheRight' /\ AllTaken'
    BY <1>1, <1>4 DEF CoreInv, CacheRight, AllTaken
  <2>5. MixedRight'
    BY <1>1, <2>2 DEF CoreInv, MixedRight, LaterHeader, drsm
  <2>6. \A i \in 1 .. pos + 1 : HasName(mdo.cached[i], seen', out')
    <3> TAKE i \in 1 .. pos + 1
    <3>1. CASE i \in 1 .. pos
      <4>1. HasName(mdo.cached[i], seen, out)
        BY <1>1, <3>1 DEF CoreInv, GroupsRight
      <4> QED
        BY <1>1, <2>2, <4>1 DEF mdo
    <3>2. CASE i = pos + 1
      BY <1>1, <2>2, <3>2 DEF At, mdo
    <3> QED
      BY <1>2, <3>1, <3>2
  <2>7. GroupsRight'
    <3>1. pos + 1 <= Len(mdo.cached)
      BY <1>1, <1>2
    <3>2. \A i \in 1 .. pos' : HasName(mdo'.cached[i], seen', out')
      BY <1>1, <1>4, <2>6 DEF mdo
    <3> QED
      BY <1>1, <1>4, <2>1, <3>1, <3>2 DEF GroupsRight, NumGroups, Names, mdo
  <2> QED
    BY <2>2, <2>3, <2>4, <2>5, <2>7 DEF CoreInv
<1> QED
  BY <1>3, <1>4 DEF CachedTexture, Write

(* The last texture of a group: the one before is taken, or none.          *)
LEMMA StepNextGroup ==
  ASSUME CoreInv, NextGroup
  PROVE  CoreInv'
<1>1. /\ fate = "simple" /\ group # None /\ pos = Len(Names(group)) /\ pos' = 0
      /\ group' = (IF group = 0 THEN None ELSE group - 1)
      /\ UNCHANGED <<file, fate, cache, seen, out, num, viaModel>>
  BY DEF NextGroup
<1>2. /\ file \in Files /\ mdo # None
      /\ group \in 0 .. NumGroups - 1 /\ NumGroups \in Nat
      /\ \A g \in 0 .. NumGroups - 1 :
           Len(Names(g)) \in Nat /\ DOMAIN Names(g) = 1 .. Len(Names(g))
      /\ mdo.cached # None => Len(mdo.cached) \in Nat
  BY <1>1, ModelFacts DEF CoreInv, StageRight, GroupsRight
<1>3. Range(Names(group)) \subseteq seen
  BY <1>1, <1>2 DEF CoreInv, GroupsRight, Range
<1>4. \A g \in 0 .. NumGroups - 1 :
        (group' = None \/ g > group') => Range(Names(g)) \subseteq seen
  <2> SUFFICES ASSUME NEW g \in 0 .. NumGroups - 1, group' = None \/ g > group'
               PROVE  Range(Names(g)) \subseteq seen
    OBVIOUS
  <2>1. g = group \/ g > group
    <3>1. CASE group = 0
      BY <1>2, <3>1
    <3>2. CASE group # 0
      <4>1. group' = group - 1 /\ group - 1 \in Nat
        BY <1>1, <1>2, <3>2
      <4>2. g > group - 1
        BY <4>1, SmtAssumption
      <4> QED
        BY <1>2, <4>2
    <3> QED
      BY <3>1, <3>2
  <2>2. CASE g = group
    BY <1>3, <2>2
  <2>3. CASE g > group
    BY <1>1, <2>3 DEF CoreInv, GroupsRight, GroupPassed
  <2> QED
    BY <2>1, <2>2, <2>3
<1>5. StageRight'
  BY <1>1, <1>2 DEF CoreInv, StageRight, Ended, drsm, mdo, Taken
<1>6. ItemsRight' /\ SeenRight'
  BY <1>1, ItemsKept, SeenFrame DEF CoreInv
<1>7. CacheRight' /\ MixedRight' /\ AllTaken'
  BY <1>1 DEF CoreInv, CacheRight, MixedRight, LaterHeader, Taken, drsm, AllTaken
<1>8. GroupsRight'
  <2>1. group' # None => group' \in 0 .. NumGroups - 1
    BY <1>1, <1>2
  <2>2. group' # None => 0 <= Len(Names(group'))
    BY <1>2, <2>1
  <2>3. \A i \in 1 .. 0 : FALSE
    OBVIOUS
  <2>4. /\ mdo' = mdo /\ NumGroups' = NumGroups /\ pos' = 0
        /\ \A g : Names(g)' = Names(g)
    BY <1>1 DEF mdo, NumGroups, Names
  <2>5. group' # None => Names(group)' = Names(group')
    BY <1>1 DEF Names, mdo
  <2>6. \A g \in 0 .. NumGroups - 1 : GroupPassed(g)' => Range(Names(g)) \subseteq seen
    BY <1>4 DEF GroupPassed
  <2>7. mdo.cached # None => 0 <= Len(mdo.cached)
    BY <1>2
  <2> QED
    BY <1>1, <2>1, <2>2, <2>3, <2>4, <2>5, <2>6, <2>7 DEF GroupsRight
<1> QED
  BY <1>5, <1>6, <1>7, <1>8 DEF CoreInv

(* The model file is loaded: its last group comes first.                   *)
LEMMA StepLoadModel ==
  ASSUME CoreInv, mdo # None, LoadModel
  PROVE  CoreInv'
<1>1. /\ fate = "mdo" /\ fate' \in {"simple", "failed"}
      /\ fate' = "simple" =>
           group' = IF mdo.groups = <<>> THEN None ELSE NumGroups - 1
      /\ fate' = "failed" => group' = group
      /\ UNCHANGED <<file, cache, pos, seen, out, num, viaModel>>
  BY DEF LoadModel, NumGroups
<1>2. /\ file \in Files /\ pos = 0 /\ viaModel /\ group = None
      /\ NumGroups \in Nat /\ (mdo.groups # <<>> => NumGroups - 1 \in Nat)
      /\ \A g \in 0 .. NumGroups - 1 : Len(Names(g)) \in Nat
      /\ mdo.cached # None => Len(mdo.cached) \in Nat
  BY <1>1, ModelFacts DEF CoreInv, StageRight
<1>3. ItemsRight' /\ SeenRight'
  BY <1>1, ItemsKept, SeenFrame DEF CoreInv
<1>4. CacheRight' /\ MixedRight' /\ AllTaken'
  BY <1>1 DEF CoreInv, CacheRight, MixedRight, LaterHeader, Taken, drsm, AllTaken
<1>5. StageRight'
  BY <1>1, <1>2 DEF CoreInv, StageRight, Ended, drsm, mdo, Taken
<1>6. GroupsRight'
  <2> SUFFICES ASSUME fate' = "simple"
               PROVE  GroupsRight'
    BY DEF GroupsRight
  <2>1. CASE mdo.groups = <<>>
    <3>1. group' = None /\ NumGroups = 0
      BY <1>1, <2>1 DEF NumGroups
    <3> QED
      BY <1>1, <1>2, <3>1 DEF GroupsRight, NumGroups, mdo
  <2>2. CASE mdo.groups # <<>>
    <3>1. group' = NumGroups - 1 /\ group' # None /\ group' \in 0 .. NumGroups - 1
      BY <1>1, <1>2, <2>2, SmtAssumption
    <3>2. 0 <= Len(Names(group'))
      BY <1>2, <3>1
    <3>3. \A g \in 0 .. NumGroups - 1 : ~(group' = None \/ g > group')
      BY <1>2, <3>1
    <3> QED
      BY <1>1, <1>2, <3>1, <3>2, <3>3 DEF GroupsRight, GroupPassed, NumGroups, Names, mdo
  <2> QED
    BY <2>1, <2>2
<1> QED
  BY <1>3, <1>4, <1>5, <1>6 DEF CoreInv

(* The model file is through.                                              *)
LEMMA StepEndSimple ==
  ASSUME CoreInv, EndSimple
  PROVE  CoreInv'
<1>1. /\ fate = "simple" /\ group = None /\ fate' = "done"
      /\ mdo.cached # None => pos = Len(mdo.cached)
      /\ UNCHANGED <<file, cache, group, pos, seen, out, num, viaModel>>
  BY DEF EndSimple
<1>2. /\ file \in Files /\ mdo # None /\ viaModel
      /\ mdo.cached # None =>
           Len(mdo.cached) \in Nat /\ DOMAIN mdo.cached = 1 .. Len(mdo.cached)
  BY <1>1, ModelFacts DEF CoreInv, StageRight
<1>3. ItemsRight' /\ SeenRight'
  BY <1>1, ItemsKept, SeenFrame DEF CoreInv
<1>4. CacheRight' /\ MixedRight' /\ GroupsRight'
  BY <1>1 DEF CoreInv, CacheRight, MixedRight, LaterHeader, Taken, drsm, GroupsRight
<1>5. StageRight'
  BY <1>1, <1>2 DEF CoreInv, StageRight, Ended, drsm, mdo
<1>6. /\ \A g \in 0 .. NumGroups - 1 : Range(Names(g)) \subseteq seen
      /\ mdo.cached # None => \A n \in Range(mdo.cached) : HasName(n, seen, out)
  BY <1>1, <1>2 DEF CoreInv, GroupsRight, GroupPassed, Range
<1>7. AllTaken'
  BY <1>1, <1>6 DEF AllTaken, NumGroups, Names, mdo, HasName
<1> QED
  BY <1>3, <1>4, <1>5, <1>7 DEF CoreInv

-----------------------------------------------------------------------------
(* The steps on the container, and those that end the tool.                *)

(* A step that writes nothing, into or out of a stage of the container.    *)
LEMMA StepQuiet ==
  ASSUME CoreInv, StageRight', CacheRight', fate' # "simple",
         UNCHANGED <<file, group, seen, out>>,
         fate' = "done" => ~viaModel',
         viaModel' /\ Taken(DrsmKinds) => viaModel \/ LaterHeader
  PROVE  CoreInv'
<1>1. ItemsRight' /\ SeenRight'
  BY ItemsKept, SeenFrame DEF CoreInv
<1>2. MixedRight'
  BY DEF CoreInv, MixedRight, LaterHeader, Taken, drsm
<1>3. GroupsRight' /\ AllTaken'
  BY DEF GroupsRight, AllTaken
<1> QED
  BY <1>1, <1>2, <1>3 DEF CoreInv

(* A stream of the container that cannot be read: the first one, before    *)
(* anything is written, or a later one.                                    *)
LEMMA StepThrown ==
  ASSUME CoreInv, CacheRight', fate \in {"model", "textures"},
         NEW st \in 0 .. Len(drsm.streams) - 1,
         st = 0 => fate = "model",
         IF At(drsm.streams, st) = "otherHeader" THEN FallBack ELSE Fail,
         UNCHANGED <<file, group, seen, out>>
  PROVE  CoreInv'
<1>1. /\ \/ /\ At(drsm.streams, st) = "otherHeader"
            /\ fate' = "mdo" /\ pos' = 0 /\ viaModel' = TRUE
         \/ fate' = "failed" /\ pos' = pos /\ viaModel' = viaModel
      /\ ~viaModel
  BY DEF FallBack, Fail, CoreInv, StageRight
<1>2. StageRight'
  BY <1>1 DEF CoreInv, StageRight, Ended, drsm, mdo, Taken
<1>3. viaModel' /\ Taken(DrsmKinds) => LaterHeader
  <2> SUFFICES ASSUME viaModel', Taken(DrsmKinds)
               PROVE  LaterHeader
    OBVIOUS
  <2>1. fate # "model"
    BY DEF CoreInv, StageRight, Taken
  <2>2. st \in 1 .. Len(drsm.streams) - 1
    BY <2>1
  <2> QED
    BY <1>1, <2>2 DEF LaterHeader
<1> QED
  BY <1>1, <1>2, <1>3, StepQuiet

(* A texture of the container that is written.                             *)
LEMMA StepWritten ==
  ASSUME CoreInv, CacheRight', fate = "textures", fate' = fate, pos' = pos + 1,
         NEW x, ItemRight(x), x.kind \in {"low", "middle", "high"},
         out' = Append(out, x),
         UNCHANGED <<file, group, seen, viaModel>>
  PROVE  CoreInv'
<1>1. ItemsRight' /\ \E n : /\ n \notin DOMAIN out /\ DOMAIN out' = DOMAIN out \cup {n}
                            /\ out'[n] = x /\ \A k \in DOMAIN out : out'[k] = out[k]
  BY ItemsGrow DEF CoreInv
<1>2. PICK n : /\ n \notin DOMAIN out /\ DOMAIN out' = DOMAIN out \cup {n}
               /\ out'[n] = x /\ \A k \in DOMAIN out : out'[k] = out[k]
  BY <1>1
<1>3. SeenRight'
  BY <1>2, SeenOther DEF CoreInv
<1>4. Taken({"group", "cached"})' => Taken({"group", "cached"})
  BY <1>2 DEF Taken
<1>5. StageRight'
  BY <1>4 DEF CoreInv, StageRight, drsm, mdo
<1>6. MixedRight' /\ GroupsRight' /\ AllTaken'
  BY DEF CoreInv, StageRight, MixedRight, GroupsRight, AllTaken
<1> QED
  BY <1>1, <1>3, <1>5, <1>6 DEF CoreInv

(* What becomes of a file before its container is mounted.                 *)
LEMMA StepOpen ==
  ASSUME CoreInv, NotAContainer \/ RefuseVersion \/ Mount
  PROVE  CoreInv'
<1>1. /\ fate = "open" /\ UNCHANGED <<file, cache, group, seen, out>>
      /\ \/ fate' = "mdo" /\ pos' = 0 /\ viaModel' = TRUE
         \/ fate' = "failed" /\ pos' = pos /\ viaModel' = viaModel
         \/ /\ fate' = "model" /\ pos' = pos /\ viaModel' = viaModel
            /\ drsm # None /\ drsm.version /\ drsm.resources
  BY DEF NotAContainer, RefuseVersion, Mount, FallBack, Fail, TriedAsContainer
<1>2. StageRight'
  BY <1>1 DEF CoreInv, StageRight, Ended, drsm, mdo, Taken
<1>3. CacheRight' /\ ~Taken(DrsmKinds)
  BY <1>1 DEF CoreInv, CacheRight, StageRight, Taken
<1> QED
  BY <1>1, <1>2, <1>3, StepQuiet

(* The first stream: its two cuts are the first files.                     *)
LEMMA StepExtractModel ==
  ASSUME CoreInv, ExtractModel
  PROVE  CoreInv'
<1> DEFINE a == [name |-> "vertexindexbuffer", kind |-> "model",
                 stream |-> Held(0, 0), item |-> 0]
           b == [name |-> "shaders.wishp", kind |-> "shaders",
                 stream |-> Held(0, 0), item |-> 1]
<1>1. /\ fate = "model" /\ out = <<>> /\ pos = 0 /\ ~viaModel /\ seen = {}
      /\ group = None /\ file \in Files
      /\ drsm # None /\ drsm.version /\ drsm.resources
  BY DEF ExtractModel, CoreInv, StageRight
<1>2. CASE /\ GetSet(0, 0) /\ out' = out \o <<a, b>>
           /\ fate' = (IF drsm.textures = None THEN "done" ELSE "textures")
           /\ UNCHANGED <<file, group, pos, seen, num, viaModel>>
  <2>1. ItemRight(a) /\ ItemRight(b) /\ a.kind = "model" /\ b.kind = "shaders"
    <3>1. Held(0, 0) = 0
      BY HeldRight DEF CoreInv
    <3> QED
      BY <3>1 DEF ItemRight, CutRight, GroupRight, CachedRight
  <2> HIDE DEF a, b
  <2>2. out' = <<a, b>>
    BY <1>1, <1>2
  <2>3. /\ out' \in Seq({a, b}) /\ DOMAIN out' = {1, 2}
        /\ out'[1] = a /\ out'[2] = b
    BY <2>2
  <2>4. \A o : ItemRight(o) => ItemRight(o)'
    BY <1>2 DEF ItemRight, CutRight, GroupRight, CachedRight, Listed, NumGroups, Names,
       drsm, mdo
  <2>5. ItemsRight'
    BY <2>1, <2>3, <2>4 DEF ItemsRight, OutIsSeq
  <2>6. SeenRight' /\ ~Taken({"group", "cached"})'
    BY <1>1, <1>2, <2>1, <2>3 DEF SeenRight, Taken
  <2>7. StageRight'
    BY <1>1, <1>2, <2>6 DEF StageRight, Ended, drsm, mdo
  <2>8. CacheRight'
    BY <1>2, CacheFilled DEF CoreInv
  <2>9. MixedRight' /\ GroupsRight' /\ AllTaken'
    BY <1>1, <1>2 DEF MixedRight, GroupsRight, AllTaken
  <2> QED
    BY <2>5, <2>6, <2>7, <2>8, <2>9 DEF CoreInv
<1>3. CASE Thrown(0)
  <2>1. /\ IF At(drsm.streams, 0) = "otherHeader" THEN FallBack ELSE Fail
        /\ UNCHANGED <<file, group, seen, out>> /\ cache' = cache
    BY <1>3 DEF Thrown
  <2>2. 0 \in 0 .. Len(drsm.streams) - 1
    <3>1. Len(drsm.streams) \in Nat \ {0}
      BY SmtAssumption, <1>1 DEF IsContainer, drsm
    <3> QED
      BY <3>1
  <2>3. CacheRight'
    BY <2>1 DEF CoreInv, CacheRight
  <2> QED
    BY <1>1, <2>1, <2>2, <2>3, StepThrown
<1> QED
  BY <1>2, <1>3 DEF ExtractModel

(* The texture files of the container.                                     *)
LEMMA StepLowTexture ==
  ASSUME CoreInv, LowTexture
  PROVE  CoreInv'
<1> DEFINE x == [name |-> At(drsm.textures, pos), kind |-> "low",
                 stream |-> Held(drsm.lowIndex, 0), item |-> pos]
<1>1. ItemRight(x) /\ x.kind = "low"
  BY LowRight DEF CoreInv
<1>2. /\ fate = "textures" /\ fate' = fate /\ pos' = pos + 1 /\ out' = Append(out, x)
      /\ UNCHANGED <<file, group, seen, viaModel>> /\ GetSet(drsm.lowIndex, 0)
  BY DEF LowTexture, MoreTextures, Write, Processed
<1> HIDE DEF x
<1>3. CacheRight'
  BY <1>2, ContainerFacts, CacheFilled DEF CoreInv
<1> QED
  BY <1>1, <1>2, <1>3, StepWritten

LEMMA StepMiddleTexture ==
  ASSUME CoreInv, MiddleTexture
  PROVE  CoreInv'
<1> DEFINE x == [name |-> At(drsm.textures, pos), kind |-> "middle",
                 stream |-> Held(drsm.midIndex, 1), item |-> MiddleEntry(pos)]
<1>1. ItemRight(x) /\ x.kind = "middle"
  BY MiddleRight DEF CoreInv
<1>2. /\ fate = "textures" /\ drsm.midIndex = 1 /\ Len(drsm.streams) \in Nat \ {0, 1}
      /\ 1 \in 0 .. Len(drsm.streams) - 1
  BY ContainerFacts DEF MiddleTexture, MoreTextures, CoreInv
<1>3. CASE /\ fate' = fate /\ pos' = pos + 1 /\ out' = Append(out, x)
           /\ UNCHANGED <<file, group, seen, viaModel>> /\ GetSet(drsm.midIndex, 1)
  <2> HIDE DEF x
  <2>1. CacheRight'
    BY <1>2, <1>3, CacheFilled DEF CoreInv
  <2> QED
    BY <1>1, <1>2, <1>3, <2>1, StepWritten
<1>4. CASE Thrown(drsm.midIndex)
  <2>1. /\ IF At(drsm.streams, 1) = "otherHeader" THEN FallBack ELSE Fail
        /\ UNCHANGED <<file, group, seen, out>> /\ cache' = cache
    BY <1>2, <1>4 DEF Thrown
  <2>2. 1 \in 0 .. Len(drsm.streams) - 1
    BY <1>2
  <2>3. CacheRight'
    BY <2>1 DEF CoreInv, CacheRight
  <2> QED
    BY <1>2, <2>1, <2>2, <2>3, StepThrown
<1> QED
  BY <1>3, <1>4 DEF MiddleTexture, Write, Processed

LEMMA StepHighTexture ==
  ASSUME CoreInv, HighTexture
  PROVE  CoreInv'
<1> DEFINE x == [name |-> At(drsm.textures, pos), kind |-> "high",
                 stream |-> HighStream(pos), item |-> MiddleEntry(pos)]
<1>1. /\ fate = "textures" /\ drsm.midIndex = 1 /\ Len(drsm.streams) \in Nat \ {0, 1}
      /\ HasMiddle(pos) /\ HasHigh(pos) /\ 1 \in 0 .. Len(drsm.streams) - 1
  BY ContainerFacts DEF HighTexture, MoreTextures, CoreInv
<1>2. ItemRight(x) /\ x.kind = "high"
  BY <1>1, HighRight DEF CoreInv
<1>3. HighStream(pos) \in 1 .. Len(drsm.streams) - 1
  BY <1>1, FirstPlace DEF CoreInv, HasHigh, HighStream
<1>4. CASE Thrown(drsm.midIndex)
  <2>1. /\ IF At(drsm.streams, 1) = "otherHeader" THEN FallBack ELSE Fail
        /\ UNCHANGED <<file, group, seen, out>> /\ cache' = cache
    BY <1>1, <1>4 DEF Thrown
  <2>2. 1 \in 0 .. Len(drsm.streams) - 1
    BY <1>1
  <2>3. CacheRight'
    BY <2>1 DEF CoreInv, CacheRight
  <2> QED
    BY <1>1, <2>1, <2>2, <2>3, StepThrown
<1>5. CASE /\ IF At(drsm.streams, HighStream(pos)) = "otherHeader" THEN FallBack ELSE Fail
           /\ GetSet(drsm.midIndex, 1) /\ UNCHANGED <<file, group, seen, out>>
  <2>1. CacheRight'
    BY <1>1, <1>5, CacheFilled DEF CoreInv
  <2>2. HighStream(pos) \in 0 .. Len(drsm.streams) - 1 /\ HighStream(pos) # 0
    BY <1>1, <1>3
  <2> QED
    BY <1>1, <1>5, <2>1, <2>2, StepThrown
<1>6. CASE /\ GetSet(drsm.midIndex, 1) /\ fate' = fate /\ pos' = pos + 1
           /\ out' = Append(out, x) /\ UNCHANGED <<file, group, seen, viaModel>>
  <2> HIDE DEF x
  <2>1. CacheRight'
    BY <1>1, <1>6, CacheFilled DEF CoreInv
  <2> QED
    BY <1>1, <1>2, <1>6, <2>1, StepWritten
<1> QED
  BY <1>4, <1>5, <1>6 DEF HighTexture, Write, Processed

(* A texture that is passed over, and the ends of the other kinds.         *)
LEMMA StepSkipExternal ==
  ASSUME CoreInv, SkipExternal
  PROVE  CoreInv'
<1>1. /\ fate = "textures" /\ fate' = fate /\ pos' = pos + 1
      /\ UNCHANGED <<file, cache, group, seen, out, viaModel>>
  BY DEF SkipExternal, MoreTextures
<1>2. StageRight' /\ CacheRight'
  BY <1>1 DEF CoreInv, StageRight, CacheRight, drsm, mdo, Taken
<1> QED
  BY <1>1, <1>2, StepQuiet

LEMMA StepEnds ==
  ASSUME CoreInv, EndTextures \/ NoModel \/ RefuseModel \/ RefuseGroup
  PROVE  CoreInv'
<1>1. /\ fate' \in Ended /\ (fate' = "done" => fate = "textures")
      /\ UNCHANGED <<file, cache, group, pos, seen, out, viaModel>>
  BY DEF EndTextures, NoModel, RefuseModel, RefuseGroup, Ended
<1>2. StageRight' /\ CacheRight' /\ (fate' = "done" => ~viaModel')
  BY <1>1 DEF CoreInv, StageRight, CacheRight, Ended, drsm, mdo, Taken
<1>3. fate' # "simple"
  BY <1>1 DEF Ended
<1> QED
  BY <1>1, <1>2, <1>3, StepQuiet

(* The steps of Load leave the extraction as it is.                        *)
LEMMA StepElsewhere ==
  ASSUME CoreInv, UNCHANGED smtVars
  PROVE  CoreInv'
<1>1. UNCHANGED <<file, fate, cache, group, pos, seen, out, num, viaModel>>
  BY DEF smtVars
<1>2. ItemsRight' /\ SeenRight'
  BY <1>1, ItemsKept, SeenFrame DEF CoreInv
<1>3. StageRight' /\ CacheRight' /\ MixedRight'
  BY <1>1 DEF CoreInv, StageRight, CacheRight, MixedRight, LaterHeader, Taken, drsm, mdo
<1>4. GroupsRight' /\ AllTaken'
  BY <1>1 DEF CoreInv, GroupsRight, GroupPassed, AllTaken, NumGroups, Names, mdo
<1> QED
  BY <1>2, <1>3, <1>4 DEF CoreInv

-----------------------------------------------------------------------------
(* Every step of the extraction.                                           *)
LEMMA StepOfExtract ==
  ASSUME CoreInv, LoadingRight, ExtractStep
  PROVE  CoreInv'
<1>1. CASE NotAContainer \/ RefuseVersion \/ Mount
  BY <1>1, StepOpen
<1>2. CASE ExtractModel
  BY <1>2, StepExtractModel
<1>3. CASE SkipExternal
  BY <1>3, StepSkipExternal
<1>4. CASE MiddleTexture
  BY <1>4, StepMiddleTexture
<1>5. CASE HighTexture
  BY <1>5, StepHighTexture
<1>6. CASE LowTexture
  BY <1>6, StepLowTexture
<1>7. CASE EndTextures \/ NoModel \/ RefuseModel \/ RefuseGroup
  BY <1>7, StepEnds
<1>8. CASE LoadModel
  <2>1. mdo # None
    BY <1>8 DEF LoadModel, LoadingRight
  <2> QED
    BY <1>8, <2>1, StepLoadModel
<1>9. CASE GroupTexture
  BY <1>9, StepGroupTexture
<1>10. CASE NextGroup
  BY <1>10, StepNextGroup
<1>11. CASE CachedTexture
  BY <1>11, StepCachedTexture
<1>12. CASE EndSimple
  BY <1>12, StepEndSimple
<1> QED
  BY <1>1, <1>2, <1>3, <1>4, <1>5, <1>6, <1>7, <1>8, <1>9, <1>10, <1>11, <1>12
  DEF ExtractStep

IInv == CoreInv /\ LoadingRight

LEMMA Initially == Init => IInv
<1> SUFFICES ASSUME Init PROVE IInv
  OBVIOUS
<1>1. /\ file \in Files /\ fate = "open" /\ cache = <<None, None>> /\ group = None
      /\ pos = 0 /\ seen = {} /\ out = <<>> /\ viaModel = FALSE /\ loading = "idle"
  BY DEF Init, Begin
<1>2. DOMAIN out = {} /\ out \in Seq({})
  BY <1>1
<1>3. StageRight /\ LoadingRight
  BY <1>1, <1>2 DEF StageRight, LoadingRight, Taken
<1>4. CacheRight
  BY <1>1 DEF CacheRight
<1>5. ItemsRight /\ SeenRight
  BY <1>1, <1>2 DEF ItemsRight, OutIsSeq, SeenRight
<1>6. MixedRight /\ GroupsRight /\ AllTaken
  BY <1>1 DEF MixedRight, GroupsRight, AllTaken
<1> QED
  BY <1>3, <1>4, <1>5, <1>6 DEF IInv, CoreInv

(* Loading starts with a model file that is there, and never without one.  *)
LEMMA StepLoading ==
  ASSUME IInv, [Next]_vars
  PROVE  LoadingRight'
<1>1. CASE ExtractStep /\ UNCHANGED loadVars
  <2>1. file' = file
    BY <1>1 DEF ExtractStep, NotAContainer, RefuseVersion, Mount, ExtractModel, SkipExternal,
       MiddleTexture, HighTexture, LowTexture, EndTextures, NoModel, RefuseModel, LoadModel,
       RefuseGroup, GroupTexture, NextGroup, CachedTexture, EndSimple, Thrown, Processed
  <2> QED
    BY <1>1, <2>1 DEF IInv, LoadingRight, loadVars, mdo
<1>2. CASE OpenModel
  BY <1>2 DEF OpenModel, LoadingRight, smtVars, mdo
<1>3. CASE LoadStep
  <2>1. loading # "idle"
    BY <1>3 DEF LoadStep, Load, HeaderBase, RefuseHeader, StopAtHeader, ProcessHeader,
       StopAtNode, ProcessNode, StopAtStream, LoadStream, Loaded, AtHeader, AtNode, AtStream
  <2> QED
    BY <1>3, <2>1 DEF LoadStep, IInv, LoadingRight, smtVars, mdo
<1>4. CASE UNCHANGED vars
  BY <1>4 DEF vars, smtVars, loadVars, IInv, LoadingRight, mdo
<1> QED
  BY <1>1, <1>2, <1>3, <1>4 DEF Next, AppProcessFile, Done

LEMMA Stepwise ==
  ASSUME IInv, [Next]_vars
  PROVE  IInv'
<1>1. CASE ExtractStep
  BY <1>1, StepOfExtract, StepLoading DEF IInv
<1>2. CASE UNCHANGED smtVars
  BY <1>2, StepElsewhere, StepLoading DEF IInv
<1> QED
  BY <1>1, <1>2 DEF Next, AppProcessFile, Done, OpenModel, LoadStep, vars

(* The inductive invariant of the extraction.                              *)
THEOREM Invariance == Spec => []IInv
<1>1. IInv /\ [Next]_vars => IInv'
  BY Stepwise
<1> QED
  BY Initially, <1>1, PTL DEF Spec

(* Whatever filled the slots of the cache first, and however the textures  *)
(* with middle and higher mips are listed, every cut of a container is     *)
(* made in its own stream and gets its own name (TryExtractDRSM).          *)
THEOREM CutsAreRight == Spec => []CutsRight
<1>1. IInv => CutsRight
  <2> SUFFICES ASSUME IInv PROVE CutsRight
    OBVIOUS
  <2>1. \A k \in DOMAIN out : CutRight(out[k])
    BY DEF IInv, CoreInv, ItemsRight, ItemRight
  <2>2. CutFromItsStream
    BY <2>1 DEF CutFromItsStream, CutRight, Written, DrsmKinds
  <2>3. CutNamedAsListed
    BY <2>1 DEF CutNamedAsListed, CutRight, Written, Listed
  <2> QED
    BY <2>2, <2>3 DEF CutsRight
<1> QED
  BY Invariance, <1>1, PTL

(* A texture comes from the last group that has its name, once, and from   *)
(* the cached textures only when no group has it (ExtractSimple).          *)
THEOREM HighestGroupAlwaysWins == Spec => []HighestGroupWins
<1>1. IInv => HighestGroupWins
  <2> SUFFICES ASSUME IInv, NEW k \in Written({"group", "cached"})
               PROVE  /\ \A g \in (IF out[k].kind = "cached" THEN 0 ELSE out[k].stream + 1)
                                     .. Len(mdo.groups) - 1 :
                            out[k].name \notin Range(Names(g))
                      /\ out[k].kind = "group" =>
                           \A j \in Written({"group", "cached"}) :
                              out[j].name = out[k].name => j = k
    BY DEF HighestGroupWins
  <2>1. /\ k \in DOMAIN out /\ out[k].kind \in {"group", "cached"}
        /\ ItemRight(out[k])
    BY DEF Written, IInv, CoreInv, ItemsRight
  <2>2. CASE out[k].kind = "cached"
    BY <2>1, <2>2 DEF ItemRight, CachedRight, NumGroups
  <2>3. CASE out[k].kind = "group"
    <3>1. /\ \A g \in out[k].stream + 1 .. NumGroups - 1 : out[k].name \notin Range(Names(g))
          /\ out[k].name \in Range(Names(out[k].stream))
          /\ out[k].stream \in 0 .. NumGroups - 1
      BY <2>1, <2>3 DEF ItemRight, GroupRight
    <3>2. ASSUME NEW j \in Written({"group", "cached"}), out[j].name = out[k].name
          PROVE  j = k
      <4>1. /\ j \in DOMAIN out /\ out[j].kind \in {"group", "cached"}
            /\ ItemRight(out[j])
        BY DEF Written, IInv, CoreInv, ItemsRight
      <4>2. out[j].kind # "cached"
        BY <3>1, <3>2, <4>1 DEF ItemRight, CachedRight
      <4> QED
        BY <2>1, <2>3, <3>2, <4>1, <4>2 DEF IInv, CoreInv, SeenRight
    <3> QED
      BY <2>3, <3>1, <3>2 DEF NumGroups
  <2> QED
    BY <2>1, <2>2, <2>3
<1> QED
  BY Invariance, <1>1, PTL

(* Every name a model file lists has been written when the tool is through *)
(* with it.                                                                *)
THEOREM NothingIsLost == Spec => []NothingLost
<1>1. IInv => NothingLost
  <2> SUFFICES ASSUME IInv, fate = "done", viaModel
               PROVE  NothingLost
    BY DEF NothingLost
  <2>1. /\ \A g \in 0 .. NumGroups - 1 : Range(Names(g)) \subseteq seen
        /\ mdo.cached # None => \A n \in Range(mdo.cached) : HasName(n, seen, out)
    BY DEF IInv, CoreInv, AllTaken
  <2>2. \A n \in seen : \E k \in Written({"group"}) : out[k].name = n
    BY DEF IInv, CoreInv, SeenRight, Written
  <2>3. \A n : HasName(n, seen, out) =>
          \E k \in Written({"group", "cached"}) : out[k].name = n
    BY <2>2 DEF HasName, Written
  <2> QED
    BY <2>1, <2>2, <2>3 DEF NothingLost, NumGroups
<1> QED
  BY Invariance, <1>1, PTL

(* A container's files and a model file's together need a header other     *)
(* than the first stream's to be wrong.                                    *)
THEOREM MixedOnlyByLateHeader == Spec => []MixedByLateHeader
<1>1. IInv => MixedByLateHeader
  BY DEF IInv, CoreInv, MixedRight, MixedByLateHeader, LaterHeader, Taken, Written
<1> QED
  BY Invariance, <1>1, PTL

-----------------------------------------------------------------------------
(***************************************************************************)
(* The textures of a container: the place of a texture among the files is  *)
(* the number of those kept before it.                                     *)
(***************************************************************************)
TexturesRight(p) ==
  /\ Len(out) = 2 + Cardinality(KeptBefore(p))
  /\ \A t \in KeptBefore(p) :
       /\ 3 + Cardinality(KeptBefore(t)) \in DOMAIN out
       /\ out[3 + Cardinality(KeptBefore(t))].name = At(drsm.textures, t)

CompleteInv ==
  /\ fate = "textures" => TexturesRight(pos)
  /\ fate = "done" /\ ~viaModel /\ drsm # None /\ drsm.textures # None =>
       TexturesRight(Len(drsm.textures))

IsKept(t) == ~(drsm.external /\ HasMiddle(t))

LEMMA KeptMember ==
  ASSUME NEW p \in Nat
  PROVE  \A t : t \in KeptBefore(p) <=> t \in Nat /\ t < p /\ IsKept(t)
<1>1. \A t : HasMiddle(t) <=> t \in Range(drsm.textureIndices)
  BY DEF HasMiddle, Places, Range
<1>2. \A t : t \in 0 .. p - 1 <=> t \in Nat /\ t < p
  OBVIOUS
<1> QED
  BY <1>1, <1>2, Zenon DEF KeptBefore, IsKept

LEMMA KeptFinite ==
  ASSUME NEW p \in Nat
  PROVE  IsFiniteSet(KeptBefore(p)) /\ Cardinality(KeptBefore(p)) \in Nat
<1>1. IsFiniteSet(0 .. p - 1)
  BY FS_Interval
<1>2. KeptBefore(p) \subseteq 0 .. p - 1
  BY DEF KeptBefore
<1>3. IsFiniteSet(KeptBefore(p))
  BY <1>1, <1>2, FS_Subset
<1> QED
  BY <1>3, FS_CardinalityType

LEMMA KeptNext ==
  ASSUME NEW p \in Nat
  PROVE  /\ ~IsKept(p) => KeptBefore(p + 1) = KeptBefore(p)
         /\ IsKept(p) =>
              /\ \A t : t \in KeptBefore(p + 1) <=> t \in KeptBefore(p) \/ t = p
              /\ Cardinality(KeptBefore(p + 1)) = Cardinality(KeptBefore(p)) + 1
<1>1. p + 1 \in Nat /\ \A t \in Nat : t < p + 1 <=> t < p \/ t = p
  OBVIOUS
<1>2. \A t : t \in KeptBefore(p + 1) <=> t \in Nat /\ t < p + 1 /\ IsKept(t)
  BY <1>1, KeptMember
<1>3. \A t : t \in KeptBefore(p) <=> t \in Nat /\ t < p /\ IsKept(t)
  BY KeptMember
<1>4. \A t : t \in KeptBefore(p + 1) <=> t \in KeptBefore(p) \/ (t = p /\ IsKept(p))
  BY <1>1, <1>2, <1>3, Zenon
<1>5. CASE ~IsKept(p)
  <2>1. KeptBefore(p + 1) = KeptBefore(p)
    BY <1>4, <1>5
  <2> QED
    BY <1>5, <2>1
<1>6. CASE IsKept(p)
  <2>1. KeptBefore(p + 1) = KeptBefore(p) \cup {p}
    BY <1>4, <1>6
  <2>2. p \notin KeptBefore(p)
    BY <1>3
  <2>3. Cardinality(KeptBefore(p + 1)) = Cardinality(KeptBefore(p)) + 1
    BY <2>1, <2>2, KeptFinite, FS_AddElement
  <2> QED
    BY <1>4, <1>6, <2>3
<1> QED
  BY <1>5, <1>6

(* A kept texture is written behind all others, one that is not kept is    *)
(* passed over.                                                            *)
LEMMA TexturesWritten ==
  ASSUME OutIsSeq, pos \in Nat, TexturesRight(pos), IsKept(pos), file' = file, pos' = pos + 1,
         NEW x, x.name = At(drsm.textures, pos), out' = Append(out, x)
  PROVE  TexturesRight(pos)'
<1>1. PICK S : out \in Seq(S)
  BY DEF OutIsSeq
<1>2. /\ DOMAIN out' = DOMAIN out \cup {Len(out) + 1} /\ out'[Len(out) + 1] = x
      /\ \A k \in DOMAIN out : out'[k] = out[k]
      /\ Len(out') = Len(out) + 1 /\ Len(out) \in Nat
  <2>1. out' \in Seq(S \cup {x}) /\ x \in S \cup {x} /\ out \in Seq(S \cup {x})
    BY <1>1, Appended, SeqMonotonic
  <2> QED
    BY <1>1, <2>1, Appended, AppendProperties
<1>3. \A q : KeptBefore(q)' = KeptBefore(q)
  BY DEF KeptBefore, drsm
<1>4. drsm' = drsm
  BY DEF drsm
<1> DEFINE K(t) == Cardinality(KeptBefore(t))
<1>5. /\ Len(out) = 2 + K(pos) /\ K(pos) \in Nat /\ K(pos + 1) = K(pos) + 1
      /\ \A t : t \in KeptBefore(pos + 1) <=> t \in KeptBefore(pos) \/ t = pos
  BY KeptFinite, KeptNext DEF TexturesRight
<1>6. Len(out') = 2 + K(pos + 1) /\ 3 + K(pos) = Len(out) + 1
  BY <1>2, <1>5
<1>7. \A t \in KeptBefore(pos) :
        3 + K(t) \in DOMAIN out /\ out[3 + K(t)].name = At(drsm.textures, t)
  BY DEF TexturesRight
<1> HIDE DEF K
<1>8. ASSUME NEW t \in KeptBefore(pos + 1)
      PROVE  3 + K(t) \in DOMAIN out' /\ out'[3 + K(t)].name = At(drsm.textures, t)
  <2>1. CASE t \in KeptBefore(pos)
    BY <1>2, <1>7, <2>1
  <2>2. CASE t = pos
    BY <1>2, <1>6, <2>2
  <2> QED
    BY <1>5, <2>1, <2>2
<1> QED
  BY <1>3, <1>4, <1>6, <1>8 DEF TexturesRight, At, K

LEMMA TexturesPassed ==
  ASSUME pos \in Nat, TexturesRight(pos), ~IsKept(pos), UNCHANGED <<file, out>>, pos' = pos + 1
  PROVE  TexturesRight(pos)'
<1>1. KeptBefore(pos + 1) = KeptBefore(pos)
  BY KeptNext
<1>2. \A q : KeptBefore(q)' = KeptBefore(q)
  BY DEF KeptBefore, drsm
<1> QED
  BY <1>1, <1>2 DEF TexturesRight, At, drsm

LEMMA TexturesKept ==
  ASSUME NEW p, TexturesRight(p), UNCHANGED <<file, out>>
  PROVE  TexturesRight(p)'
<1>1. \A q : KeptBefore(q)' = KeptBefore(q)
  BY DEF KeptBefore, drsm
<1> QED
  BY <1>1 DEF TexturesRight, At, drsm

(* What a step does to the textures of a container.                        *)
LEMMA StepComplete ==
  ASSUME IInv, CompleteInv, ExtractStep
  PROVE  CompleteInv'
<1>0. file' = file
  BY DEF ExtractStep, NotAContainer, RefuseVersion, Mount, ExtractModel, SkipExternal,
     MiddleTexture, HighTexture, LowTexture, EndTextures, NoModel, RefuseModel, LoadModel,
     RefuseGroup, GroupTexture, NextGroup, CachedTexture, EndSimple, Thrown, Processed
<1>1. StageRight /\ OutIsSeq /\ pos \in Nat
  BY DEF IInv, CoreInv, ItemsRight, StageRight
<1>2. CASE fate' \notin {"textures", "done"}
  BY <1>2 DEF CompleteInv
<1>3. CASE ExtractModel /\ fate' \in {"textures", "done"}
  <2>1. CASE Thrown(0)
    BY <1>3, <2>1 DEF Thrown, FallBack, Fail
  <2>2. CASE ~Thrown(0)
    <3>1. /\ \E a, b : out' = out \o <<a, b>>
          /\ out = <<>> /\ pos = 0 /\ pos' = pos
          /\ fate' = IF drsm.textures = None THEN "done" ELSE "textures"
      BY <1>1, <1>3, <2>2 DEF ExtractModel, StageRight
    <3>2. Len(out') = 2
      <4>1. PICK a, b : out' = <<>> \o <<a, b>>
        BY <3>1
      <4> QED
        BY <4>1
    <3>3. KeptBefore(0)' = {}
      BY DEF KeptBefore
    <3>4. TexturesRight(0)'
      BY <3>2, <3>3, FS_EmptySet DEF TexturesRight
    <3>5. TexturesRight(pos)'
      BY <3>1, <3>4
    <3> QED
      BY <1>0, <3>1, <3>5 DEF CompleteInv, drsm
  <2> QED
    BY <2>1, <2>2
<1>4. CASE SkipExternal
  <2>1. /\ fate = "textures" /\ fate' = fate /\ pos' = pos + 1 /\ out' = out /\ ~IsKept(pos)
    BY <1>4 DEF SkipExternal, MoreTextures, IsKept
  <2>2. TexturesRight(pos)'
    BY <1>0, <1>1, <2>1, TexturesPassed DEF CompleteInv
  <2> QED
    BY <2>1, <2>2 DEF CompleteInv
<1>5. CASE (MiddleTexture \/ HighTexture \/ LowTexture) /\ fate' \in {"textures", "done"}
  <2>1. fate = "textures" /\ IsKept(pos)
    BY <1>5 DEF MiddleTexture, HighTexture, LowTexture, MoreTextures, IsKept
  <2>2. /\ fate' = fate /\ pos' = pos + 1
        /\ \E x : x.name = At(drsm.textures, pos) /\ out' = Append(out, x)
    BY <1>5 DEF MiddleTexture, HighTexture, LowTexture, Thrown, FallBack, Fail, Write, Processed
  <2>3. TexturesRight(pos)'
    BY <1>0, <1>1, <2>1, <2>2, TexturesWritten DEF CompleteInv
  <2> QED
    BY <2>1, <2>2, <2>3 DEF CompleteInv
<1>6. CASE EndTextures
  <2>1. /\ fate = "textures" /\ pos = Len(drsm.textures) /\ out' = out /\ fate' # "textures"
    BY <1>6 DEF EndTextures
  <2>2. TexturesRight(Len(drsm.textures))'
    BY <1>0, <2>1, TexturesKept DEF CompleteInv, drsm
  <2> QED
    BY <2>1, <2>2 DEF CompleteInv
<1>7. CASE EndSimple
  BY <1>1, <1>7 DEF EndSimple, StageRight, CompleteInv
<1>8. CASE /\ ~(ExtractModel \/ SkipExternal \/ MiddleTexture \/ HighTexture \/ LowTexture)
           /\ ~(EndTextures \/ EndSimple)
  <2>1. fate' \notin {"textures", "done"}
    BY <1>8 DEF ExtractStep, NotAContainer, RefuseVersion, Mount, NoModel, RefuseModel, LoadModel,
       RefuseGroup, GroupTexture, NextGroup, CachedTexture, FallBack, Fail
  <2> QED
    BY <2>1 DEF CompleteInv
<1> QED
  BY <1>2, <1>3, <1>4, <1>5, <1>6, <1>7, <1>8

(* Whatever lists of textures with middle mips, and however the streams    *)
(* fail: a container that ends well has all of its textures in order, but  *)
(* for those its external resources have (TryExtractDRSM).                 *)
THEOREM DrsmAlwaysComplete == Spec => []DrsmComplete
<1>1. Init => CompleteInv
  BY DEF Init, CompleteInv
<1>2. IInv /\ CompleteInv /\ [Next]_vars => CompleteInv'
  <2>1. IInv /\ CompleteInv /\ ExtractStep => CompleteInv'
    BY StepComplete
  <2>2. CompleteInv /\ UNCHANGED smtVars => CompleteInv'
    <3> SUFFICES ASSUME CompleteInv, UNCHANGED smtVars PROVE CompleteInv'
      OBVIOUS
    <3>1. \A p : TexturesRight(p) => TexturesRight(p)'
      BY TexturesKept DEF smtVars
    <3> QED
      BY <3>1 DEF CompleteInv, smtVars, drsm
  <2> QED
    BY <2>1, <2>2 DEF Next, AppProcessFile, Done, OpenModel, LoadStep, vars
<1>3. CompleteInv => DrsmComplete
  BY DEF CompleteInv, DrsmComplete, TexturesRight
<1> QED
  BY Invariance, <1>1, <1>2, <1>3, PTL DEF Spec

-----------------------------------------------------------------------------
(***************************************************************************)
(* extract_shaders, among the tools: a run that is not one of it writes no *)
(* shader, and no other tool goes on with what it has begun.               *)
(***************************************************************************)
ShaderFates == {"shaders", "shaderModel", "shader", "vertex", "fragment"}

AtShader == fate \in {"shader", "vertex", "fragment"}

InShader == fate \in {"vertex", "fragment"}

Glsl == Written({"glsl"})

NoShaders == fate \notin ShaderFates /\ swapped = {} /\ Glsl = {}

ProgramOf(o) == file.programs[o.item + 1]

TextRight(o) ==
  /\ StageOf(o) # None
  /\ o.text = IF o.name = "vert" THEN VertexText(StageOf(o)) ELSE FragmentText(StageOf(o))

(* Of shader i stage s was written, if it has one.                         *)
StageWritten(i, s) ==
  StageOf([name |-> s, item |-> i - 1]) # None =>
    \E k \in Glsl : out[k].name = s /\ out[k].item = i - 1

(* The loader resets the pointers of parts a tool leaves out, and the      *)
(* shaders are not one of them for this tool.                              *)
GraphKept ==
  /\ tool = "shader" /\ mxmd.version = file.graph.version
  /\ {"version", "nodes"} \subseteq DOMAIN mxmd
  /\ DOMAIN mxmd.nodes = DOMAIN file.graph.nodes
  /\ \A n \in DOMAIN mxmd.nodes :
       /\ "kids" \in DOMAIN mxmd.nodes[n]
       /\ mxmd.version = 1 => Behind(n, "shaders") = KidsOf(file.graph, n, "shaders")

LoadedShaders ==
  /\ file \in ShaderFiles
  /\ fate \in {"shaders", "shaderModel"} => pos = 0 /\ swapped = {}
  /\ fate = "shaders" => loading = "idle"
  /\ fate = "shaderModel" =>
       file.id \in {"MXMD", "DMXM"} /\ (loading = "idle" \/ GraphKept)
  /\ AtShader => ShaderCount \in {0, Len(file.programs)}

GlslRight ==
  /\ \A k \in Glsl : TextRight(out[k]) /\ ProgramOf(out[k]) \in swapped
  /\ \A j, k \in Glsl :
       out[j].name = out[k].name /\ ProgramOf(out[j]) = ProgramOf(out[k]) => j = k

(* Nothing was written yet of stage s of the current shader's data.        *)
NoneYet(s) ==
  \A k \in Glsl : out[k].name = s => ProgramOf(out[k]) # file.programs[pos + 1]

Progress ==
  /\ fate = "vertex" => NoneYet("vert")
  /\ InShader => NoneYet("frag")
  /\ fate = "shader" /\ pos = 0 => swapped = {}
  /\ InShader =>
       pos < Len(file.programs) /\ file.programs[pos + 1] \in swapped /\ text = <<>>
  /\ AtShader => \A i \in 1 .. pos : \A s \in {"vert", "frag"} : StageWritten(i, s)
  /\ fate = "fragment" => StageWritten(pos + 1, "vert")
  /\ fate = "done" /\ swapped # {} =>
       \A i \in DOMAIN file.programs : \A s \in {"vert", "frag"} : StageWritten(i, s)

ShaderRun ==
  fate \in ShaderFates \cup Ended /\ pos \in Nat /\ LoadedShaders /\ GlslRight /\ Progress

ToolInv == OutIsSeq /\ (NoShaders \/ ShaderRun)

-----------------------------------------------------------------------------
(* The other tools: what they write is no shader, and they go on to no     *)
(* stage of the shaders.                                                   *)
LEMMA OutGrows ==
  ASSUME OutIsSeq, NEW x, out' = Append(out, x)
  PROVE  /\ OutIsSeq'
         /\ \A k : k \in DOMAIN out' <=> k \in DOMAIN out \/ k = Len(out) + 1
         /\ Len(out) + 1 \notin DOMAIN out /\ out'[Len(out) + 1] = x
         /\ \A k \in DOMAIN out : out'[k] = out[k]
<1>1. PICK S : out \in Seq(S)
  BY DEF OutIsSeq
<1>2. /\ out' \in Seq(S \cup {x})
      /\ Len(out) + 1 \notin DOMAIN out /\ out'[Len(out) + 1] = x
      /\ DOMAIN out' = DOMAIN out \cup {Len(out) + 1}
      /\ \A k \in DOMAIN out : out'[k] = out[k]
  BY <1>1, Appended
<1>3. OutIsSeq'
  BY <1>2 DEF OutIsSeq
<1> QED
  BY <1>2, <1>3

LEMMA NoGlslKept ==
  ASSUME OutIsSeq, Glsl = {}, UNCHANGED out
  PROVE  OutIsSeq' /\ Glsl' = {}
BY DEF OutIsSeq, Glsl, Written

LEMMA NoGlslMore ==
  ASSUME OutIsSeq, Glsl = {}, NEW x, x.kind # "glsl", out' = Append(out, x)
  PROVE  OutIsSeq' /\ Glsl' = {}
<1>1. /\ OutIsSeq' /\ out'[Len(out) + 1] = x
      /\ \A k : k \in DOMAIN out' <=> k \in DOMAIN out \/ k = Len(out) + 1
      /\ \A k \in DOMAIN out : out'[k] = out[k]
  BY OutGrows
<1>2. \A k \in DOMAIN out : out[k].kind # "glsl"
  BY DEF Glsl, Written
<1>3. \A k \in DOMAIN out' : out'[k].kind # "glsl"
  BY <1>1, <1>2, Zenon
<1> QED
  BY <1>1, <1>3 DEF Glsl, Written

LEMMA NoGlslEnd ==
  ASSUME OutIsSeq, Glsl = {}, NEW ws, \E T : ws \in Seq(T),
         \A i \in 1 .. Len(ws) : ws[i].kind # "glsl", out' = out \o ws
  PROVE  OutIsSeq' /\ Glsl' = {}
<1>1. PICK S : out \in Seq(S)
  BY DEF OutIsSeq
<1>2. PICK T : ws \in Seq(T)
  OBVIOUS
<1>3. out \in Seq(S \cup T) /\ ws \in Seq(S \cup T)
  BY <1>1, <1>2, SeqMonotonic
<1>4. /\ out' \in Seq(S \cup T) /\ Len(out') = Len(out) + Len(ws)
      /\ \A i \in 1 .. Len(out') : out'[i] = IF i <= Len(out) THEN out[i] ELSE ws[i - Len(out)]
  BY <1>3, ConcatProperties
<1>5. Len(out) \in Nat /\ Len(ws) \in Nat /\ DOMAIN out = 1 .. Len(out) /\ DOMAIN out' = 1 .. Len(out')
  BY <1>3, <1>4, LenProperties
<1>6. ASSUME NEW i \in 1 .. Len(out') PROVE out'[i].kind # "glsl"
  <2>1. CASE i <= Len(out)
    <3>1. out'[i] = out[i] /\ i \in DOMAIN out
      BY <1>4, <1>5, <2>1
    <3> QED
      BY <3>1 DEF Glsl, Written
  <2>2. CASE ~(i <= Len(out))
    <3>1. out'[i] = ws[i - Len(out)] /\ i - Len(out) \in 1 .. Len(ws)
      BY <1>4, <1>5, <2>2
    <3> QED
      BY <3>1
  <2> QED
    BY <2>1, <2>2
<1> QED
  BY <1>4, <1>5, <1>6 DEF OutIsSeq, Glsl, Written

LEMMA NoGlslOne ==
  ASSUME OutIsSeq, Glsl = {}, NEW x, x.kind # "glsl", out' = out \o <<x>>
  PROVE  OutIsSeq' /\ Glsl' = {}
<1>1. PICK ws : ws = <<x>>
  OBVIOUS
<1>2. (\E T : ws \in Seq(T)) /\ \A i \in 1 .. Len(ws) : ws[i].kind # "glsl"
  <2>1. ws \in Seq({x}) /\ Len(ws) = 1 /\ ws[1] = x
    BY <1>1
  <2> QED
    BY <2>1
<1> QED
  BY <1>1, <1>2, NoGlslEnd

LEMMA NoGlslTwo ==
  ASSUME OutIsSeq, Glsl = {}, NEW x, NEW y, x.kind # "glsl", y.kind # "glsl",
         out' = out \o <<x, y>>
  PROVE  OutIsSeq' /\ Glsl' = {}
<1>1. PICK ws : ws = <<x, y>>
  OBVIOUS
<1>2. (\E T : ws \in Seq(T)) /\ \A i \in 1 .. Len(ws) : ws[i].kind # "glsl"
  <2>1. ws \in Seq({x, y}) /\ Len(ws) = 2 /\ ws[1] = x /\ ws[2] = y
    BY <1>1
  <2> QED
    BY <2>1
<1> QED
  BY <1>1, <1>2, NoGlslEnd

LEMMA NoGlslNone ==
  ASSUME OutIsSeq, Glsl = {}, out' = out \o <<>>
  PROVE  OutIsSeq' /\ Glsl' = {}
<1>1. PICK S : out \in Seq(S)
  BY DEF OutIsSeq
<1>2. out' = out
  BY <1>1
<1> QED
  BY <1>2, NoGlslKept

NoGlslAnyhow == OutIsSeq' /\ Glsl' = {} /\ fate' \notin ShaderFates /\ swapped' = {}

(* What smt_extract writes in a step.                                      *)
StreamKinds == {"model", "shaders", "low", "middle", "high", "group", "cached"}

LEMMA StreamWrites ==
  ASSUME ExtractStep
  PROVE  \/ UNCHANGED out
         \/ \E x : x.kind \in StreamKinds /\ out' = Append(out, x)
         \/ \E x, y : x.kind \in StreamKinds /\ y.kind \in StreamKinds /\ out' = out \o <<x, y>>
<1>1. CASE ExtractModel /\ ~Thrown(0)
  <2> DEFINE a == [name |-> "vertexindexbuffer", kind |-> "model", stream |-> Held(0, 0), item |-> 0]
             b == [name |-> "shaders.wishp", kind |-> "shaders", stream |-> Held(0, 0), item |-> 1]
  <2>1. a.kind \in StreamKinds /\ b.kind \in StreamKinds /\ out' = out \o <<a, b>>
    BY <1>1 DEF ExtractModel, StreamKinds
  <2> HIDE DEF a, b
  <2> QED
    BY <2>1
<1>2. CASE ExtractModel /\ Thrown(0)
  BY <1>2 DEF Thrown
<1>3. \A name, kind, stream, item : kind \in StreamKinds /\ Write(name, kind, stream, item) =>
        \E x : x.kind \in StreamKinds /\ out' = Append(out, x)
  <2> SUFFICES ASSUME NEW name, NEW kind \in StreamKinds, NEW stream, NEW item,
                      Write(name, kind, stream, item)
               PROVE  \E x : x.kind \in StreamKinds /\ out' = Append(out, x)
    OBVIOUS
  <2>1. PICK x : x = [name |-> name, kind |-> kind, stream |-> stream, item |-> item]
    OBVIOUS
  <2>2. x.kind = kind /\ out' = Append(out, x)
    BY <2>1 DEF Write
  <2> QED
    BY <2>2
<1>4. CASE MiddleTexture \/ HighTexture \/ LowTexture
  BY <1>3, <1>4 DEF MiddleTexture, HighTexture, LowTexture, Thrown, StreamKinds
<1>5. CASE GroupTexture \/ CachedTexture
  BY <1>3, <1>5 DEF GroupTexture, CachedTexture, StreamKinds
<1>6. CASE ~(ExtractModel \/ MiddleTexture \/ HighTexture \/ LowTexture \/ GroupTexture \/ CachedTexture)
  BY <1>6 DEF ExtractStep, NotAContainer, RefuseVersion, Mount, SkipExternal, EndTextures, NoModel,
     RefuseModel, LoadModel, RefuseGroup, NextGroup, EndSimple
<1> QED
  BY <1>1, <1>2, <1>4, <1>5, <1>6

LEMMA StreamStep ==
  ASSUME OutIsSeq, NoShaders, ExtractStep, swapped' = swapped
  PROVE  NoGlslAnyhow
<1>1. Glsl = {} /\ swapped' = {}
  BY DEF NoShaders
<1>2. fate' \notin ShaderFates
  BY DEF ExtractStep, NotAContainer, RefuseVersion, Mount, ExtractModel, SkipExternal,
     MiddleTexture, HighTexture, LowTexture, EndTextures, NoModel, RefuseModel, LoadModel,
     RefuseGroup, GroupTexture, NextGroup, CachedTexture, EndSimple, Thrown, FallBack, Fail,
     Processed, MoreTextures, NoShaders, ShaderFates
<1>3. "glsl" \notin StreamKinds
  BY DEF StreamKinds
<1>4. CASE UNCHANGED out
  BY <1>1, <1>2, <1>4, NoGlslKept DEF NoGlslAnyhow
<1>5. CASE \E x : x.kind \in StreamKinds /\ out' = Append(out, x)
  BY <1>1, <1>2, <1>3, <1>5, NoGlslMore DEF NoGlslAnyhow
<1>6. CASE \E x, y : x.kind \in StreamKinds /\ y.kind \in StreamKinds /\ out' = out \o <<x, y>>
  BY <1>1, <1>2, <1>3, <1>6, NoGlslTwo DEF NoGlslAnyhow
<1> QED
  BY <1>4, <1>5, <1>6, StreamWrites

(* What tex_to_dds and fnt_extract write in a step.                        *)
Nothing == out' = out \/ out' = out \o <<>>

Adds(x) == out' = out \o <<x>>

NoImage == \E x : x.kind \in {"copy", "font"} /\ Adds(x)

OneImage ==
  /\ fate \in {"header", "font"} /\ file.texture.kind = "MTXT"
  /\ \E st : out' = out \o <<MTXTImage(file.texture, st)>>

LEMMA TextureWrites ==
  ASSUME ConvertTexture \/ ExtractFont
  PROVE  Nothing \/ NoImage \/ OneImage \/ ConvertLBIM
<1>1. CASE PassOver \/ RefuseData \/ RequestHigh \/ Open \/ RefuseTexture \/ Decompress \/ RefuseFont
  BY <1>1 DEF PassOver, RefuseData, Decompress, RequestHigh, Open, RefuseTexture, RefuseFont, End, Step,
     Nothing
<1>2. CASE CopyOut
  <2>1. PICK x : x = [name |-> "pcsmt", kind |-> "copy", stream |-> 0, item |-> 0]
    OBVIOUS
  <2>2. x.kind \in {"copy", "font"} /\ Adds(x)
    BY <1>2, <2>1 DEF CopyOut, End, Adds
  <2>3. NoImage
    BY <2>2 DEF NoImage
  <2> QED
    BY <2>3
<1>3. CASE ConvertMTXT \/ FontTexture
  <2>1. OneImage
    BY <1>3 DEF ConvertMTXT, FontTexture, End, OneImage
  <2> QED
    BY <2>1
<1>4. CASE FontChars
  <2>1. PICK x : x = [name |-> "json", kind |-> "font", stream |-> 0, item |-> 0,
                      rows |-> IF file.chars = <<>> THEN <<>> ELSE GlyphRows]
    OBVIOUS
  <2>2. x.kind \in {"copy", "font"}
    BY <2>1
  <2>3. out' = out \o <<>> \/ Adds(x)
    BY <1>4, <2>1 DEF FontChars, End, Adds
  <2>4. Nothing \/ NoImage
    BY <2>2, <2>3 DEF Nothing, NoImage
  <2> QED
    BY <2>4
<1> QED
  BY <1>1, <1>2, <1>3, <1>4 DEF ConvertTexture, ExtractFont

LEMMA TextureStep ==
  ASSUME OutIsSeq, NoShaders, ConvertTexture \/ ExtractFont, swapped' = swapped
  PROVE  NoGlslAnyhow
<1>1. Glsl = {} /\ swapped' = {}
  BY DEF NoShaders
<1>2. \A t, st : MTXTImage(t, st).kind # "glsl"
  BY DEF MTXTImage
<1>3. \A t, w, h, st : LBIMImage(t, w, h, st).kind # "glsl"
  BY DEF LBIMImage
<1>4. fate' \notin ShaderFates
  BY DEF ConvertTexture, ExtractFont, PassOver, RefuseData, CopyOut, Decompress, RequestHigh, Open,
     RefuseTexture, ConvertMTXT, ConvertLBIM, RefuseFont, FontTexture, FontChars, End, Step, ShaderFates
<1>5. \/ out' = out \/ out' = out \o <<>>
      \/ \E x : x.kind # "glsl" /\ out' = out \o <<x>>
  <2>1. CASE ConvertLBIM
    BY <1>3, <2>1 DEF ConvertLBIM, End
  <2>2. CASE ~ConvertLBIM
    BY <1>2, <2>2, TextureWrites DEF Nothing, NoImage, OneImage, Adds
  <2> QED
    BY <2>1, <2>2
<1> QED
  BY <1>1, <1>4, <1>5, NoGlslKept, NoGlslNone, NoGlslOne DEF NoGlslAnyhow

LEMMA OtherTools ==
  ASSUME OutIsSeq, NoShaders, ToolsNext \/ UNCHANGED toolVars
  PROVE  OutIsSeq' /\ NoShaders'
<1>1. CASE ExtractStep /\ UNCHANGED shaderVars
  BY <1>1, StreamStep DEF shaderVars, NoGlslAnyhow, NoShaders
<1>2. CASE (ConvertTexture \/ ExtractFont) /\ UNCHANGED <<loadVars, shaderVars>>
  BY <1>2, TextureStep DEF shaderVars, NoGlslAnyhow, NoShaders
<1>3. CASE UNCHANGED <<smtVars, shaderVars>>
  BY <1>3, NoGlslKept DEF smtVars, shaderVars, NoShaders
<1>4. CASE AllLoaded \/ RefuseModelFile
  BY <1>4, NoGlslKept DEF AllLoaded, RefuseModelFile, shaderVars, NoShaders, ShaderFates
<1>5. ~ExtractShaders
  BY DEF NoShaders, ShaderFates, ExtractShaders, GetType, LoadShaders, ShadersLoaded, RefuseShader,
     HasShader, ProcessShader, SkipVertex, ExtractVertex, SkipFragment, ExtractFragment, EndShaders
<1> QED
  BY <1>1, <1>2, <1>3, <1>4, <1>5
  DEF ToolsNext, ProcessFile, ToolsDone, toolVars, vars, AppProcessFile, OpenModel, LoadStep, LoadAll

-----------------------------------------------------------------------------
(* The shaders themselves.                                                 *)
LEMMA GlslKept ==
  ASSUME GlslRight, UNCHANGED <<file, out>>, swapped \subseteq swapped'
  PROVE  GlslRight'
BY DEF GlslRight, Glsl, Written, TextRight, ProgramOf, StageOf

LEMMA StagesKept ==
  ASSUME UNCHANGED <<file, out>>, NEW i, NEW s, StageWritten(i, s)
  PROVE  StageWritten(i, s)'
BY DEF StageWritten, StageOf, Glsl, Written

(* One more text.                                                          *)
LEMMA OneMore ==
  ASSUME OutIsSeq, NEW x, x.kind = "glsl", out' = Append(out, x)
  PROVE  /\ OutIsSeq'
         /\ \E n : /\ \A k : k \in Glsl' <=> k \in Glsl \/ k = n
                   /\ n \notin Glsl /\ out'[n] = x
                   /\ \A k \in Glsl : out'[k] = out[k]
<1>1. /\ OutIsSeq' /\ out'[Len(out) + 1] = x /\ Len(out) + 1 \notin DOMAIN out
      /\ \A k : k \in DOMAIN out' <=> k \in DOMAIN out \/ k = Len(out) + 1
      /\ \A k \in DOMAIN out : out'[k] = out[k]
  BY OutGrows
<1>2. PICK n : n = Len(out) + 1
  OBVIOUS
<1>3. /\ \A k : k \in Glsl <=> k \in DOMAIN out /\ out[k].kind = "glsl"
      /\ \A k : k \in Glsl' <=> k \in DOMAIN out' /\ out'[k].kind = "glsl"
  BY DEF Glsl, Written
<1>4. /\ \A k : k \in Glsl' <=> k \in Glsl \/ k = n
      /\ n \notin Glsl /\ out'[n] = x
      /\ \A k \in Glsl : out'[k] = out[k]
  BY <1>1, <1>2, <1>3, ZenonT(40)
<1> QED
  BY <1>1, <1>4

LEMMA GlslMore ==
  ASSUME GlslRight, UNCHANGED <<file, swapped>>, NEW x, TextRight(x), ProgramOf(x) \in swapped,
         \A k \in Glsl : out[k].name = x.name => ProgramOf(out[k]) # ProgramOf(x),
         NEW n, \A k : k \in Glsl' <=> k \in Glsl \/ k = n,
         n \notin Glsl, out'[n] = x, \A k \in Glsl : out'[k] = out[k]
  PROVE  GlslRight' /\ \A i, s : StageWritten(i, s) => StageWritten(i, s)'
<1>1. \A o : TextRight(o)' <=> /\ StageOf(o) # None
                               /\ o.text = IF o.name = "vert" THEN VertexText(StageOf(o))
                                           ELSE FragmentText(StageOf(o))
  BY DEF TextRight, StageOf
<1>2. \A k \in Glsl' : TextRight(out'[k]) /\ ProgramOf(out'[k]) \in swapped
  BY DEF GlslRight
<1>3. \A k \in Glsl' : /\ StageOf(out'[k]) # None
                       /\ out'[k].text = IF out'[k].name = "vert" THEN VertexText(StageOf(out'[k]))
                                         ELSE FragmentText(StageOf(out'[k]))
  BY <1>2 DEF TextRight
<1>4. \A k \in Glsl' : TextRight(out[k])'
  BY <1>3, Zenon DEF TextRight, StageOf
<1>5. \A k \in Glsl' : ProgramOf(out[k])' \in swapped'
  BY <1>2 DEF ProgramOf
<1>6. ASSUME NEW j \in Glsl', NEW k \in Glsl', out'[j].name = out'[k].name,
             ProgramOf(out'[j]) = ProgramOf(out'[k])
      PROVE  j = k
  BY <1>6 DEF GlslRight
<1>7. GlslRight'
  BY <1>4, <1>5, <1>6 DEF GlslRight, ProgramOf
<1>8. ASSUME NEW i, NEW s, StageWritten(i, s) PROVE StageWritten(i, s)'
  BY <1>8 DEF StageWritten, StageOf
<1> QED
  BY <1>7, <1>8

(* What is put together for a stage is its text alone.                     *)
IsSequence(s) == \E S : s \in Seq(S)

LEMMA Joined ==
  ASSUME NEW a, NEW b, IsSequence(a), IsSequence(b)
  PROVE  IsSequence(a \o b)
<1>1. PICK S : a \in Seq(S)
  BY DEF IsSequence
<1>2. PICK T : b \in Seq(T)
  BY DEF IsSequence
<1>3. a \in Seq(S \cup T) /\ b \in Seq(S \cup T)
  BY <1>1, <1>2, SeqMonotonic
<1>4. a \o b \in Seq(S \cup T)
  BY <1>3, ConcatProperties
<1> QED
  BY <1>4 DEF IsSequence

LEMMA OneIsSequence == \A x : IsSequence(<<x>>)
<1> SUFFICES ASSUME NEW x PROVE IsSequence(<<x>>)
  BY Zenon
<1>1. <<x>> \in Seq({x})
  OBVIOUS
<1> QED
  BY <1>1 DEF IsSequence

LEMMA DeclaredIsSequence ==
  ASSUME NEW as, NEW things, IsList(things)
  PROVE  IsSequence(Declared(as, things))
<1>1. things \in Seq(Range(things))
  BY DEF IsList
<1>2. DOMAIN things = 1 .. Len(things) /\ Len(things) \in Nat
  BY <1>1, LenProperties
<1> DEFINE T == {[as |-> as, what |-> things[i]] : i \in DOMAIN things}
<1>3. Declared(as, things) \in [1 .. Len(things) -> T]
  BY <1>2 DEF Declared
<1>4. Declared(as, things) \in Seq(T)
  <2> HIDE DEF T
  <2>1. PICK d, n : d = Declared(as, things) /\ n = Len(things)
    OBVIOUS
  <2>2. n \in Nat /\ d \in [1 .. n -> T]
    BY <1>2, <1>3, <2>1
  <2>3. d \in Seq(T)
    BY <2>2
  <2> QED
    BY <2>1, <2>3
<1> QED
  BY <1>4 DEF IsSequence

LEMMA TextsAreSequences ==
  ASSUME NEW b, IsStage(b), b # None
  PROVE  IsSequence(VertexText(b)) /\ IsSequence(FragmentText(b))
<1>1. IsList(b.samplers) /\ IsList(b.attributes) /\ IsList(b.vars) /\ IsList(b.blocks)
  BY DEF IsStage
<1>2. PICK s, a, v, k, p : /\ s = Declared("sampler", b.samplers) /\ a = Declared("attribute", b.attributes)
                           /\ v = Declared("variable", b.vars) /\ k = Declared("block", b.blocks)
                           /\ p = <<[as |-> "program", what |-> b.program]>>
  OBVIOUS
<1>3. IsSequence(s) /\ IsSequence(a) /\ IsSequence(v) /\ IsSequence(k) /\ IsSequence(p)
  BY <1>1, <1>2, DeclaredIsSequence, OneIsSequence
<1>4. VertexText(b) = s \o a \o v \o k \o p /\ FragmentText(b) = s \o v \o k \o p
  BY <1>2 DEF VertexText, FragmentText
<1>5. PICK sa, sav, savk, sv, svk : /\ sa = s \o a /\ sav = sa \o v /\ savk = sav \o k
                                    /\ sv = s \o v /\ svk = sv \o k
  OBVIOUS
<1>6. IsSequence(sa) /\ IsSequence(sv)
  BY <1>3, <1>5, Joined
<1>7. IsSequence(sav) /\ IsSequence(svk)
  BY <1>3, <1>5, <1>6, Joined
<1>8. IsSequence(savk)
  BY <1>3, <1>5, <1>7, Joined
<1>9. IsSequence(savk \o p) /\ IsSequence(svk \o p)
  BY <1>3, <1>7, <1>8, Joined
<1> QED
  BY <1>4, <1>5, <1>9

LEMMA AddedToNothing ==
  ASSUME NEW s, IsSequence(s)
  PROVE  <<>> \o s = s
<1>1. PICK S : s \in Seq(S)
  BY DEF IsSequence
<1> QED
  BY <1>1

LEMMA StageTexts ==
  ASSUME ShaderRun, InShader
  PROVE  /\ blob.vertex # None => text \o VertexText(blob.vertex) = VertexText(blob.vertex)
         /\ blob.fragment # None => text \o FragmentText(blob.fragment) = FragmentText(blob.fragment)
         /\ \A s, t : StageOf([name |-> s, kind |-> "glsl", stream |-> 0, item |-> pos, text |-> t])
                        = IF s = "vert" THEN blob.vertex ELSE blob.fragment
<1>1. pos \in Nat /\ pos < Len(file.programs) /\ text = <<>> /\ file \in ShaderFiles
  BY DEF ShaderRun, Progress, LoadedShaders
<1>2. file.programs \in Seq(Range(file.programs))
  BY <1>1, ShaderAssumption DEF IsList
<1>3. pos + 1 \in DOMAIN file.programs
  <2>1. DOMAIN file.programs = 1 .. Len(file.programs) /\ Len(file.programs) \in Nat
    BY <1>2, LenProperties
  <2> QED
    BY <1>1, <2>1
<1>4. IsStage(blob.vertex) /\ IsStage(blob.fragment)
  BY <1>1, <1>3, ShaderAssumption DEF blob
<1>5. \A s, t : StageOf([name |-> s, kind |-> "glsl", stream |-> 0, item |-> pos, text |-> t])
                  = IF s = "vert" THEN blob.vertex ELSE blob.fragment
  BY DEF StageOf, blob
<1> QED
  BY <1>1, <1>4, <1>5, TextsAreSequences, AddedToNothing

(* The stages one after the other.                                         *)
LEMMA AtShaderSteps ==
  ASSUME ShaderRun, AtShader, UNCHANGED <<file, mxmd>>
  PROVE  /\ ShaderCount' = ShaderCount /\ file \in ShaderFiles
         /\ ShaderCount \in {0, Len(file.programs)}
         /\ Len(file.programs) \in Nat /\ DOMAIN file.programs = 1 .. Len(file.programs)
<1>1. file \in ShaderFiles /\ ShaderCount \in {0, Len(file.programs)}
  BY DEF ShaderRun, LoadedShaders
<1>2. file.programs \in Seq(Range(file.programs))
  BY <1>1, ShaderAssumption DEF IsList
<1>3. ShaderCount' = ShaderCount
  BY DEF ShaderCount, Behind, KidsOf, node
<1> QED
  BY <1>1, <1>2, <1>3, LenProperties

LEMMA StepProcessShader ==
  ASSUME OutIsSeq, ShaderRun, ProcessShader
  PROVE  OutIsSeq' /\ ShaderRun'
<1>1. /\ fate = "shader" /\ pos < ShaderCount /\ file.programs[pos + 1] \notin swapped
      /\ swapped' = swapped \cup {file.programs[pos + 1]} /\ text' = <<>> /\ fate' = "vertex"
      /\ UNCHANGED <<file, out, pos, mxmd>>
  BY DEF ProcessShader, HasShader, GoOn, loadVars
<1>2. AtShader /\ AtShader'
  BY <1>1 DEF AtShader
<1>3. /\ ShaderCount' = ShaderCount /\ file \in ShaderFiles
      /\ ShaderCount \in {0, Len(file.programs)} /\ Len(file.programs) \in Nat /\ pos \in Nat
  BY <1>1, <1>2, AtShaderSteps DEF ShaderRun
<1>4. pos < Len(file.programs)
  BY <1>1, <1>3
<1>5. LoadedShaders'
  BY <1>1, <1>3 DEF LoadedShaders
<1>6. GlslRight'
  BY <1>1, GlslKept DEF ShaderRun
<1>7. NoneYet("vert")' /\ NoneYet("frag")'
  BY <1>1 DEF NoneYet, Glsl, Written, ProgramOf, ShaderRun, GlslRight
<1>8. \A i \in 1 .. pos : \A s \in {"vert", "frag"} : StageWritten(i, s)'
  BY <1>1, <1>2, StagesKept DEF ShaderRun, Progress
<1>9. Progress'
  BY <1>1, <1>4, <1>7, <1>8 DEF Progress
<1> QED
  BY <1>1, <1>3, <1>5, <1>6, <1>9 DEF ShaderRun, ShaderFates, OutIsSeq

LEMMA NextStage ==
  ASSUME NEW p, p = pos + 1, UNCHANGED pos, NEW s, StageWritten(p, s)'
  PROVE  StageWritten(pos + 1, s)'
BY DEF StageWritten, StageOf

(* Without a vertex stage, or with one.                                    *)
VertexDone ==
  /\ fate = "vertex" /\ fate' = "fragment"
  /\ UNCHANGED <<file, pos, mxmd, swapped>> /\ text' = <<>>

LEMMA AfterVertex ==
  ASSUME ShaderRun, VertexDone, GlslRight', NoneYet("frag")',
         \A i, s : StageWritten(i, s) => StageWritten(i, s)',
         StageWritten(pos + 1, "vert")'
  PROVE  ShaderRun'
<1>1. AtShader /\ AtShader'
  BY DEF AtShader, VertexDone
<1>2. /\ ShaderCount' = ShaderCount /\ file \in ShaderFiles
      /\ ShaderCount \in {0, Len(file.programs)} /\ Len(file.programs) \in Nat /\ pos \in Nat
  BY <1>1, AtShaderSteps DEF ShaderRun, VertexDone
<1>3. LoadedShaders'
  BY <1>2 DEF LoadedShaders, VertexDone
<1>4. \A i \in 1 .. pos : \A s \in {"vert", "frag"} : StageWritten(i, s)'
  BY <1>1 DEF ShaderRun, Progress
<1>5. pos < Len(file.programs) /\ file.programs[pos + 1] \in swapped
  BY DEF ShaderRun, Progress, VertexDone, InShader
<1>6. Progress'
  BY <1>4, <1>5 DEF Progress, VertexDone
<1> QED
  BY <1>2, <1>3, <1>6 DEF ShaderRun, ShaderFates, VertexDone

LEMMA StepSkipVertex ==
  ASSUME OutIsSeq, ShaderRun, SkipVertex
  PROVE  OutIsSeq' /\ ShaderRun'
<1>1. fate = "vertex" /\ blob.vertex = None /\ out' = out /\ VertexDone
  BY DEF SkipVertex, GoOn, VertexDone, loadVars, ShaderRun, Progress, InShader
<1>2. GlslRight'
  BY <1>1, GlslKept DEF ShaderRun, VertexDone
<1>3. NoneYet("frag")'
  BY <1>1 DEF ShaderRun, Progress, InShader, NoneYet, Glsl, Written, ProgramOf, VertexDone
<1>4. \A i, s : StageWritten(i, s) => StageWritten(i, s)'
  BY <1>1, StagesKept DEF VertexDone
<1>5. pos \in Nat
  BY DEF ShaderRun
<1>6. StageWritten(pos + 1, "vert")'
  <2>1. PICK p : p = pos + 1 /\ p - 1 = pos
    BY <1>5
  <2>2. StageOf([name |-> "vert", item |-> p - 1]) = None
    BY <1>1, <2>1 DEF StageOf, blob
  <2>3. StageWritten(p, "vert")
    BY <2>2 DEF StageWritten
  <2> QED
    BY <1>1, <1>4, <2>1, <2>3, NextStage DEF VertexDone
<1> QED
  BY <1>1, <1>2, <1>3, <1>4, <1>6, AfterVertex DEF OutIsSeq

LEMMA StepExtractVertex ==
  ASSUME OutIsSeq, ShaderRun, ExtractVertex, fate' # "undefined"
  PROVE  OutIsSeq' /\ ShaderRun'
<1> DEFINE x == [name |-> "vert", kind |-> "glsl", stream |-> 0, item |-> pos,
                 text |-> text \o VertexText(blob.vertex)]
<1>1. blob.vertex # None /\ out' = Append(out, x) /\ VertexDone
  BY DEF ExtractVertex, GoOn, WriteShader, VertexDone, loadVars
<1>2. InShader /\ pos \in Nat
  BY <1>1 DEF InShader, VertexDone, ShaderRun
<1>3. x.name = "vert" /\ x.kind = "glsl" /\ x.item = pos
  OBVIOUS
<1>4. TextRight(x)
  BY <1>1, <1>2, StageTexts DEF TextRight
<1>5. ProgramOf(x) = file.programs[pos + 1]
  BY DEF ProgramOf
<1>6. ProgramOf(x) \in swapped /\ NoneYet("vert") /\ NoneYet("frag") /\ GlslRight
  BY <1>1, <1>2, <1>5 DEF ShaderRun, Progress, VertexDone
<1> HIDE DEF x
<1>7. OutIsSeq'
  BY <1>1, <1>3, OneMore
<1>8. PICK n : /\ \A k : k \in Glsl' <=> k \in Glsl \/ k = n
               /\ n \notin Glsl /\ out'[n] = x
               /\ \A k \in Glsl : out'[k] = out[k]
  BY <1>1, <1>3, OneMore
<1>9. \A k \in Glsl : out[k].name = x.name => ProgramOf(out[k]) # ProgramOf(x)
  BY <1>3, <1>5, <1>6 DEF NoneYet
<1>10. GlslRight' /\ \A i, s : StageWritten(i, s) => StageWritten(i, s)'
  BY <1>1, <1>4, <1>6, <1>8, <1>9, GlslMore DEF VertexDone
<1>11. NoneYet("frag")'
  BY <1>1, <1>3, <1>6, <1>8 DEF NoneYet, ProgramOf, VertexDone
<1>12. StageWritten(pos + 1, "vert")'
  <2>1. PICK p : p = pos + 1 /\ p - 1 = pos
    BY <1>2
  <2>2. n \in Glsl' /\ out'[n].name = "vert" /\ out'[n].item = p - 1
    BY <1>3, <1>8, <2>1
  <2>3. StageWritten(p, "vert")'
    BY <2>2 DEF StageWritten
  <2> QED
    BY <1>1, <2>1, <2>3, NextStage DEF VertexDone
<1> QED
  BY <1>1, <1>7, <1>10, <1>11, <1>12, AfterVertex

(* Without a fragment stage, or with one.                                  *)
FragmentDone ==
  /\ fate = "fragment" /\ fate' = "shader"
  /\ UNCHANGED <<file, mxmd, swapped>> /\ pos' = pos + 1

LEMMA AfterFragment ==
  ASSUME ShaderRun, FragmentDone, GlslRight',
         \A i, s : StageWritten(i, s) => StageWritten(i, s)',
         NEW p, p = pos + 1, StageWritten(p, "frag")'
  PROVE  ShaderRun'
<1>1. AtShader /\ AtShader' /\ pos \in Nat
  BY DEF AtShader, FragmentDone, ShaderRun
<1>2. /\ ShaderCount' = ShaderCount /\ file \in ShaderFiles
      /\ ShaderCount \in {0, Len(file.programs)} /\ Len(file.programs) \in Nat
  BY <1>1, AtShaderSteps DEF FragmentDone
<1>3. LoadedShaders'
  BY <1>2 DEF LoadedShaders, FragmentDone
<1>4. \A i \in 1 .. pos : \A s \in {"vert", "frag"} : StageWritten(i, s)'
  BY <1>1 DEF ShaderRun, Progress
<1>5. StageWritten(p, "vert")
  BY DEF ShaderRun, Progress, FragmentDone
<1>6. \A i \in 1 .. p : i \in 1 .. pos \/ i = p
  BY <1>1
<1>7. \A i \in 1 .. p : \A s \in {"vert", "frag"} : StageWritten(i, s)'
  BY <1>4, <1>5, <1>6
<1>8. Progress'
  BY <1>1, <1>7 DEF Progress, FragmentDone, AtShader, InShader
<1> QED
  BY <1>1, <1>2, <1>3, <1>8 DEF ShaderRun, ShaderFates, FragmentDone

LEMMA StepSkipFragment ==
  ASSUME OutIsSeq, ShaderRun, SkipFragment
  PROVE  OutIsSeq' /\ ShaderRun'
<1>1. fate = "fragment" /\ blob.fragment = None /\ out' = out /\ FragmentDone
  BY DEF SkipFragment, FragmentDone, loadVars
<1>2. GlslRight'
  BY <1>1, GlslKept DEF ShaderRun, FragmentDone
<1>3. \A i, s : StageWritten(i, s) => StageWritten(i, s)'
  BY <1>1, StagesKept DEF FragmentDone
<1>4. PICK p : p = pos + 1 /\ p - 1 = pos
  BY DEF ShaderRun
<1>5. StageOf([name |-> "frag", item |-> p - 1]) = None
  BY <1>1, <1>4 DEF StageOf, blob
<1>6. StageWritten(p, "frag")
  BY <1>5 DEF StageWritten
<1> QED
  BY <1>1, <1>2, <1>3, <1>4, <1>6, AfterFragment DEF OutIsSeq

LEMMA StepExtractFragment ==
  ASSUME OutIsSeq, ShaderRun, ExtractFragment, fate' # "undefined"
  PROVE  OutIsSeq' /\ ShaderRun'
<1> DEFINE x == [name |-> "frag", kind |-> "glsl", stream |-> 0, item |-> pos,
                 text |-> text \o FragmentText(blob.fragment)]
<1>1. blob.fragment # None /\ out' = Append(out, x) /\ FragmentDone
  BY DEF ExtractFragment, GoOn, WriteShader, FragmentDone, loadVars
<1>2. InShader /\ pos \in Nat
  BY <1>1 DEF InShader, FragmentDone, ShaderRun
<1>3. x.name = "frag" /\ x.kind = "glsl" /\ x.item = pos
  OBVIOUS
<1>4. TextRight(x)
  BY <1>1, <1>2, StageTexts DEF TextRight
<1>5. ProgramOf(x) = file.programs[pos + 1]
  BY DEF ProgramOf
<1>6. ProgramOf(x) \in swapped /\ NoneYet("frag") /\ GlslRight
  BY <1>1, <1>2, <1>5 DEF ShaderRun, Progress, FragmentDone
<1> HIDE DEF x
<1>7. OutIsSeq'
  BY <1>1, <1>3, OneMore
<1>8. PICK n : /\ \A k : k \in Glsl' <=> k \in Glsl \/ k = n
               /\ n \notin Glsl /\ out'[n] = x
               /\ \A k \in Glsl : out'[k] = out[k]
  BY <1>1, <1>3, OneMore
<1>9. \A k \in Glsl : out[k].name = x.name => ProgramOf(out[k]) # ProgramOf(x)
  BY <1>3, <1>5, <1>6 DEF NoneYet
<1>10. GlslRight' /\ \A i, s : StageWritten(i, s) => StageWritten(i, s)'
  BY <1>1, <1>4, <1>6, <1>8, <1>9, GlslMore DEF FragmentDone
<1>11. PICK p : p = pos + 1 /\ p - 1 = pos
  BY <1>2
<1>12. StageWritten(p, "frag")'
  <2>1. n \in Glsl' /\ out'[n].name = "frag" /\ out'[n].item = p - 1
    BY <1>3, <1>8, <1>11
  <2> QED
    BY <2>1 DEF StageWritten
<1> QED
  BY <1>1, <1>7, <1>10, <1>11, <1>12, AfterFragment

(* A run that ends without writing more.                                   *)
LEMMA StepEnded ==
  ASSUME OutIsSeq, ShaderRun, fate' \in {"failed", "undefined"}, UNCHANGED <<file, out, pos, swapped>>
  PROVE  OutIsSeq' /\ ShaderRun'
<1>1. GlslRight'
  BY GlslKept DEF ShaderRun
<1>2. LoadedShaders' /\ Progress'
  BY DEF ShaderRun, LoadedShaders, Progress, AtShader, InShader
<1> QED
  BY <1>1, <1>2 DEF ShaderRun, OutIsSeq, Ended

LEMMA StepEndShaders ==
  ASSUME OutIsSeq, ShaderRun, EndShaders
  PROVE  OutIsSeq' /\ ShaderRun'
<1>1. /\ fate = "shader" /\ pos = ShaderCount /\ fate' = "done"
      /\ UNCHANGED <<file, out, pos, swapped, mxmd>>
  BY DEF EndShaders, GoOn, loadVars
<1>2. /\ AtShader /\ ShaderCount \in {0, Len(file.programs)}
      /\ DOMAIN file.programs = 1 .. Len(file.programs) /\ file \in ShaderFiles
  BY <1>1, AtShaderSteps DEF AtShader
<1>3. swapped # {} => pos # 0
  BY <1>1 DEF ShaderRun, Progress
<1>4. swapped # {} => DOMAIN file.programs = 1 .. pos
  BY <1>1, <1>2, <1>3
<1>5. \A i \in 1 .. pos : \A s \in {"vert", "frag"} : StageWritten(i, s)'
  BY <1>1, <1>2, StagesKept DEF ShaderRun, Progress
<1>6. GlslRight'
  BY <1>1, GlslKept DEF ShaderRun
<1>7. LoadedShaders'
  BY <1>1, <1>2 DEF LoadedShaders, AtShader
<1>8. Progress'
  BY <1>1, <1>4, <1>5 DEF Progress, AtShader, InShader
<1> QED
  BY <1>1, <1>6, <1>7, <1>8 DEF ShaderRun, OutIsSeq, Ended

(* The loader, and what it leaves of the shaders.                          *)
LEMMA GraphStarted ==
  ASSUME file \in ShaderFiles, file.id \in {"MXMD", "DMXM"}, Start(file.graph, "shader"), file' = file
  PROVE  GraphKept'
<1>1. IsGraph(file.graph)
  BY ShaderAssumption DEF IsModelGraph
<1>2. mxmd' = file.graph /\ tool' = "shader"
  BY DEF Start
<1> QED
  BY <1>1, <1>2 DEF GraphKept, IsGraph, Behind, KidsOf, node

LEMMA HeaderKeeps ==
  ASSUME GraphKept, ProcessHeader
  PROVE  /\ {"version", "nodes"} \subseteq DOMAIN mxmd' /\ mxmd'.version = mxmd.version
         /\ DOMAIN mxmd'.nodes = DOMAIN mxmd.nodes
         /\ \A n \in DOMAIN mxmd.nodes :
              /\ "kids" \in DOMAIN mxmd'.nodes[n]
              /\ mxmd.version = 1 => Behind(n, "shaders")' = Behind(n, "shaders")
<1> DEFINE kept == LeftPointers
<1>1. /\ mxmd' = [mxmd EXCEPT !.nodes[1].kids = kept]
      /\ {"version", "nodes"} \subseteq DOMAIN mxmd
      /\ \A n \in DOMAIN mxmd.nodes : "kids" \in DOMAIN mxmd.nodes[n]
  BY DEF ProcessHeader, GraphKept
<1>2. /\ DOMAIN kept = DOMAIN mxmd.nodes[1].kids
      /\ mxmd.version = 1 /\ "shaders" \in DOMAIN kept =>
           kept["shaders"] = mxmd.nodes[1].kids["shaders"]
  <2>1. DOMAIN kept = DOMAIN mxmd.nodes[1].kids
    BY DEF LeftPointers, node
  <2>2. ASSUME mxmd.version = 1, "shaders" \in DOMAIN kept
        PROVE  kept["shaders"] = mxmd.nodes[1].kids["shaders"]
    <3>1. kept["shaders"] = IF LeftOut("shaders") THEN <<>> ELSE mxmd.nodes[1].kids["shaders"]
      BY <2>1, <2>2 DEF LeftPointers, node
    <3>2. CASE LeftOut("shaders")
      <4>1. ~Wanted("shaders")
        BY <3>2 DEF LeftOut
      <4>2. tool = "shader" /\ PartOf["shaders"] = "Shaders"
        BY DEF GraphKept, PartOf
      <4>3. PartOf["shaders"] \notin Excluded[tool]
        BY <4>2 DEF Excluded
      <4>4. Behind(1, "shaders") = <<>>
        BY <4>1, <4>3 DEF Wanted
      <4> QED
        BY <2>1, <2>2, <3>1, <3>2, <4>4 DEF Behind, KidsOf, node
    <3> QED
      BY <3>1, <3>2
  <2> QED
    BY <2>1, <2>2
<1> HIDE DEF kept
<1>3. /\ DOMAIN mxmd' = DOMAIN mxmd /\ mxmd'.version = mxmd.version
      /\ mxmd'.nodes = [mxmd.nodes EXCEPT ![1].kids = kept]
  BY <1>1
<1>4. DOMAIN mxmd'.nodes = DOMAIN mxmd.nodes
  BY <1>3
<1>5. ASSUME NEW n \in DOMAIN mxmd.nodes
      PROVE  /\ "kids" \in DOMAIN mxmd'.nodes[n]
             /\ mxmd.version = 1 => Behind(n, "shaders")' = Behind(n, "shaders")
  <2>1. CASE n = 1
    <3>1. mxmd'.nodes[1] = [mxmd.nodes[1] EXCEPT !.kids = kept]
      BY <1>3, <1>5, <2>1
    <3>2. "kids" \in DOMAIN mxmd'.nodes[1] /\ mxmd'.nodes[1].kids = kept
      BY <1>1, <1>5, <2>1, <3>1
    <3> QED
      BY <1>2, <2>1, <3>2 DEF Behind, KidsOf, node
  <2>2. CASE n # 1
    <3>1. mxmd'.nodes[n] = mxmd.nodes[n]
      BY <1>3, <1>5, <2>2
    <3> QED
      BY <1>1, <1>5, <3>1 DEF Behind, KidsOf, node
  <2> QED
    BY <2>1, <2>2
<1> QED
  BY <1>1, <1>3, <1>4, <1>5

LEMMA GraphAfterLoad ==
  ASSUME GraphKept, Load, file' = file
  PROVE  GraphKept'
<1>1. CASE ProcessHeader
  <2>1. tool' = tool
    BY <1>1 DEF ProcessHeader
  <2> QED
    BY <1>1, <2>1, HeaderKeeps DEF GraphKept
<1>2. CASE ~ProcessHeader
  <2>1. mxmd' = mxmd /\ tool' = tool
    BY <1>2 DEF Load, HeaderBase, RefuseHeader, StopAtHeader, StopAtNode, ProcessNode, StopAtStream,
       LoadStream, Loaded, Stop
  <2> QED
    BY <2>1 DEF GraphKept, Behind, KidsOf, node
<1> QED
  BY <1>1, <1>2

(* The numbers of the shaders found and listed are the same.               *)
LEMMA ShadersCounted ==
  ASSUME file \in ShaderFiles, file.id \in {"MXMD", "DMXM"}, GraphKept, mxmd.version = 1
  PROVE  ShaderCount \in {0, Len(file.programs)}
<1>1. IsGraph(file.graph) /\ file.graph.version = 1
  BY ShaderAssumption DEF GraphKept, IsModelGraph
<1>2. PICK lists : lists = KidsOf(file.graph, 1, "shaders")
  OBVIOUS
<1>3. 1 \in DOMAIN file.graph.nodes
  <2>1. file.graph.nodes \in Seq(Range(file.graph.nodes)) /\ file.graph.nodes # <<>>
    BY <1>1 DEF IsGraph, IsList
  <2> QED
    BY <2>1
<1>4. Behind(1, "shaders") = lists
  BY <1>1, <1>2, <1>3 DEF GraphKept
<1>5. CASE lists = <<>>
  BY <1>4, <1>5 DEF ShaderCount, GraphKept
<1>6. CASE lists # <<>>
  <2>1. lists \in Seq(DOMAIN file.graph.nodes)
    BY <1>1, <1>2, <1>3, <1>6 DEF KidsOf, IsGraph
  <2>2. lists[1] \in DOMAIN file.graph.nodes
    BY <1>6, <2>1
  <2>3. Behind(lists[1], "shaders") = KidsOf(file.graph, lists[1], "shaders")
    BY <1>1, <2>2 DEF GraphKept
  <2>4. Len(file.programs) = Len(KidsOf(file.graph, lists[1], "shaders"))
    BY <1>1, <1>2, <1>6, ShaderAssumption
  <2>5. file.id # "MTHS"
    OBVIOUS
  <2>6. ShaderCount = Len(Behind(lists[1], "shaders"))
    BY <1>4, <1>6, <2>5 DEF ShaderCount
  <2> QED
    BY <2>3, <2>4, <2>6
<1> QED
  BY <1>5, <1>6

LEMMA StepGetType ==
  ASSUME OutIsSeq, ShaderRun, GetType
  PROVE  OutIsSeq' /\ ShaderRun'
<1>1. /\ fate = "shaders" /\ UNCHANGED <<file, out, pos, swapped, mxmd, loading>>
      /\ pos = 0 /\ swapped = {} /\ loading = "idle" /\ file \in ShaderFiles
      /\ \/ fate' = "shader" /\ file.id = "MTHS"
         \/ fate' = "shaderModel" /\ file.id \in {"MXMD", "DMXM"}
         \/ fate' = "failed"
  BY DEF GetType, GoOn, loadVars, ShaderRun, LoadedShaders
<1>2. file.id = "MTHS" => ShaderCount' \in {0, Len(file.programs)}
  BY <1>1, ShaderAssumption DEF ShaderCount
<1>3. LoadedShaders'
  BY <1>1, <1>2 DEF LoadedShaders, AtShader
<1>4. GlslRight'
  BY <1>1, GlslKept DEF ShaderRun
<1>5. Progress'
  BY <1>1 DEF Progress, InShader
<1> QED
  BY <1>1, <1>3, <1>4, <1>5 DEF ShaderRun, ShaderFates, Ended, OutIsSeq

LEMMA StepLoadShaders ==
  ASSUME OutIsSeq, ShaderRun, LoadShaders
  PROVE  OutIsSeq' /\ ShaderRun'
<1>1. /\ fate = "shaderModel" /\ UNCHANGED <<file, fate, out, pos, swapped>>
      /\ (loading = "idle" /\ Start(file.graph, "shader")) \/ Load
      /\ file \in ShaderFiles /\ file.id \in {"MXMD", "DMXM"} /\ pos = 0 /\ swapped = {}
      /\ loading = "idle" \/ GraphKept
  BY DEF LoadShaders, smtVars, ShaderRun, LoadedShaders
<1>2. Load => loading # "idle"
  BY DEF Load, HeaderBase, RefuseHeader, StopAtHeader, ProcessHeader, StopAtNode, ProcessNode,
     StopAtStream, LoadStream, Loaded, AtHeader, AtNode, AtStream
<1>3. GraphKept'
  BY <1>1, <1>2, GraphStarted, GraphAfterLoad
<1>4. LoadedShaders'
  BY <1>1, <1>3 DEF LoadedShaders, AtShader
<1>5. GlslRight'
  BY <1>1, GlslKept DEF ShaderRun
<1>6. Progress'
  BY <1>1 DEF Progress, InShader, AtShader
<1> QED
  BY <1>1, <1>4, <1>5, <1>6 DEF ShaderRun, ShaderFates, OutIsSeq

LEMMA StepShadersLoaded ==
  ASSUME OutIsSeq, ShaderRun, ShadersLoaded
  PROVE  OutIsSeq' /\ ShaderRun'
<1>1. /\ fate = "shaderModel" /\ UNCHANGED <<file, out, pos, swapped, mxmd>> /\ loading # "idle"
      /\ \/ fate' = "shader" /\ mxmd.version = 1
         \/ fate' \in {"failed", "undefined"}
      /\ file \in ShaderFiles /\ file.id \in {"MXMD", "DMXM"} /\ pos = 0 /\ swapped = {}
      /\ GraphKept
  BY DEF ShadersLoaded, GoOn, loadVars, ShaderRun, LoadedShaders
<1>2. CASE fate' \in {"failed", "undefined"}
  BY <1>1, <1>2, StepEnded
<1>3. CASE fate' = "shader" /\ mxmd.version = 1
  <2>1. ShaderCount \in {0, Len(file.programs)}
    BY <1>1, <1>3, ShadersCounted
  <2>2. ShaderCount' = ShaderCount
    BY <1>1 DEF ShaderCount, Behind, KidsOf, node
  <2>3. LoadedShaders'
    BY <1>1, <1>3, <2>1, <2>2 DEF LoadedShaders
  <2>4. GlslRight'
    BY <1>1, GlslKept DEF ShaderRun
  <2>5. Progress'
    BY <1>1, <1>3 DEF Progress, InShader
  <2> QED
    BY <1>1, <1>3, <2>3, <2>4, <2>5 DEF ShaderRun, ShaderFates, OutIsSeq
<1> QED
  BY <1>1, <1>2, <1>3

LEMMA ShaderSteps ==
  ASSUME OutIsSeq, ShaderRun, ExtractShaders
  PROVE  OutIsSeq' /\ ShaderRun'
<1>1. CASE RefuseShader
  BY <1>1, StepEnded DEF RefuseShader, GoOn
<1>2. CASE ExtractVertex
  <2>1. fate' = "undefined" => UNCHANGED <<file, out, pos, swapped>>
    BY <1>2 DEF ExtractVertex, GoOn
  <2> QED
    BY <1>2, <2>1, StepExtractVertex, StepEnded
<1>3. CASE ExtractFragment
  <2>1. fate' = "undefined" => UNCHANGED <<file, out, pos, swapped>>
    BY <1>3 DEF ExtractFragment, GoOn
  <2> QED
    BY <1>3, <2>1, StepExtractFragment, StepEnded
<1> QED
  BY <1>1, <1>2, <1>3, StepGetType, StepLoadShaders, StepShadersLoaded, StepProcessShader,
     StepSkipVertex, StepSkipFragment, StepEndShaders DEF ExtractShaders

(* No other tool goes on with a shader file.                               *)
LEMMA OnlyShaders ==
  ASSUME OutIsSeq, ShaderRun, ToolsNext \/ UNCHANGED toolVars
  PROVE  OutIsSeq' /\ ShaderRun'
<1>1. fate \in ShaderFates \cup Ended
  BY DEF ShaderRun
<1>2. ~ExtractStep
  BY <1>1 DEF ExtractStep, NotAContainer, RefuseVersion, Mount, ExtractModel, SkipExternal,
     MiddleTexture, HighTexture, LowTexture, EndTextures, NoModel, RefuseModel, LoadModel,
     RefuseGroup, GroupTexture, NextGroup, CachedTexture, EndSimple, MoreTextures, ShaderFates, Ended
<1>3. ~(OpenModel \/ LoadStep \/ RefuseModelFile \/ LoadAll \/ AllLoaded)
  BY <1>1 DEF OpenModel, LoadStep, RefuseModelFile, LoadAll, AllLoaded, ShaderFates, Ended
<1>4. ~(ConvertTexture \/ ExtractFont)
  BY <1>1 DEF ConvertTexture, ExtractFont, PassOver, RefuseData, CopyOut, Compressed, Decompress,
     RequestHigh, Open, RefuseTexture, ConvertMTXT, ConvertLBIM, RefuseFont, FontTexture, FontChars,
     ShaderFates, Ended
<1>5. CASE UNCHANGED toolVars
  <2>1. UNCHANGED <<file, fate, out, pos, swapped, text, mxmd, loading, tool>>
    BY <1>5 DEF toolVars, vars, smtVars, loadVars, shaderVars
  <2>2. GlslRight'
    BY <2>1, GlslKept DEF ShaderRun
  <2>3. LoadedShaders'
    BY <2>1, Zenon DEF ShaderRun, LoadedShaders, AtShader, GraphKept, ShaderCount, Behind, KidsOf, node
  <2>4. Progress'
    BY <2>1 DEF ShaderRun, Progress, AtShader, InShader, NoneYet, ProgramOf, StageWritten, StageOf,
       Glsl, Written
  <2> QED
    BY <2>1, <2>2, <2>3, <2>4 DEF ShaderRun, OutIsSeq
<1> QED
  BY <1>2, <1>3, <1>4, <1>5, ShaderSteps DEF ToolsNext, ProcessFile, ToolsDone, AppProcessFile

LEMMA ToolsBegin == ToolsInit => ToolInv
<1> SUFFICES ASSUME ToolsInit PROVE ToolInv
  OBVIOUS
<1>1. /\ out = <<>> /\ swapped = {} /\ pos = 0 /\ loading = "idle"
      /\ \/ fate = "shaders" /\ file \in ShaderFiles
         \/ fate \in {"open", "texture", "font", "model file"}
  BY DEF ToolsInit, ShaderInit, Init, TextureInit, FontInit, ModelInit, Begin, ShaderIdle
<1>2. OutIsSeq /\ Glsl = {}
  <2>1. <<>> \in Seq({}) /\ DOMAIN <<>> = {}
    OBVIOUS
  <2> QED
    BY <1>1, <2>1 DEF OutIsSeq, Glsl, Written
<1>3. CASE fate = "shaders" /\ file \in ShaderFiles
  <2>1. LoadedShaders /\ GlslRight /\ Progress
    BY <1>1, <1>2, <1>3 DEF LoadedShaders, GlslRight, Progress, AtShader, InShader
  <2> QED
    BY <1>1, <1>2, <1>3, <2>1 DEF ToolInv, ShaderRun, ShaderFates
<1>4. CASE fate \in {"open", "texture", "font", "model file"}
  BY <1>1, <1>2, <1>4 DEF ToolInv, NoShaders, ShaderFates
<1> QED
  BY <1>1, <1>3, <1>4

(***************************************************************************)
(* Of all five tools, whatever they are given: the shaders written are     *)
(* those of the file, each stage of each program once and with its own     *)
(* text, and a run that ends well has left out none (extract_shaders.cpp:  *)
(* 128-209, and the shaders that Load keeps for it, mxmd.cpp:613-654).     *)
(***************************************************************************)
THEOREM ShadersAlwaysRight == ToolsSpec => []ShadersRight
<1>1. ToolInv /\ [ToolsNext]_toolVars => ToolInv'
  BY OtherTools, OnlyShaders DEF ToolInv
<1>2. ToolInv => ShadersRight
  <2> SUFFICES ASSUME ToolInv PROVE ShadersRight
    OBVIOUS
  <2>1. CASE NoShaders
    BY <2>1 DEF NoShaders, ShadersRight, Glsl
  <2>2. CASE ShaderRun
    <3>1. \A k \in Glsl :
            /\ StageOf(out[k]) # None
            /\ out[k].text = IF out[k].name = "vert" THEN VertexText(StageOf(out[k]))
                             ELSE FragmentText(StageOf(out[k]))
            /\ \A j \in Glsl : out[j].name = out[k].name /\ ProgramOf(out[j]) = ProgramOf(out[k])
                                 => j = k
      BY <2>2 DEF ShaderRun, GlslRight, TextRight
    <3>2. fate = "done" /\ swapped # {} =>
            \A i \in DOMAIN file.programs : \A s \in {"vert", "frag"} : StageWritten(i, s)
      BY <2>2 DEF ShaderRun, Progress
    <3> QED
      BY <3>1, <3>2 DEF ShadersRight, Glsl, ProgramOf, StageWritten
  <2> QED
    BY <2>1, <2>2 DEF ToolInv
<1> QED
  BY ToolsBegin, <1>1, <1>2, PTL DEF ToolsSpec

-----------------------------------------------------------------------------
(***************************************************************************)
(* The loader of model files.  First the table of the classes.             *)
(***************************************************************************)
ToolNames == {"mdo", "smt", "shader"}

Distinct(s) == \A i, j \in DOMAIN s : s[i] = s[j] => i = j

RowShape(r) ==
  /\ r.order \in {"any", "big", "little"}
  /\ Len(r.visits) \in Nat /\ DOMAIN r.visits = 1 .. Len(r.visits)
  /\ \A i, j \in DOMAIN r.visits : r.visits[i] = r.visits[j] => i = j

(* What a tool follows is made a pointer.                                  *)
Within(c, r) ==
  \A by \in ToolNames : c \in DOMAIN FollowedBy[by] => FollowedBy[by][c] \subseteq r.pointers

(* What it follows of a class of either order is processed, or bytes.      *)
Handled(c, r) ==
  r.order = "little" \/
    \A by \in ToolNames : c \in DOMAIN FollowedBy[by] =>
      \A p \in FollowedBy[by][c] : p \in ToSet(r.visits) \/ p \in {"name", "data"}

RowRight(c, r) ==
  RowShape(r) /\ Within(c, r) /\ (c \notin DOMAIN HeaderRows => Handled(c, r))

LEMMA PlainRight == \A c \in DOMAIN PlainRows :
    RowRight(c, PlainRows[c]) /\ \A by \in ToolNames : c \notin DOMAIN FollowedBy[by]
<1>1. \A c \in DOMAIN PlainRows : RowShape(PlainRows[c])
  BY DEF PlainRows, Row, RowShape
<1>2. \A c \in DOMAIN PlainRows : \A by \in ToolNames : c \notin DOMAIN FollowedBy[by]
  BY DEF PlainRows, FollowedBy, ToolNames
<1> QED
  BY <1>1, <1>2 DEF RowRight, Within, Handled

LEMMA V1ModelRight == \A c \in DOMAIN V1ModelRows : RowRight(c, V1ModelRows[c])
<1>1. \A c \in DOMAIN V1ModelRows : RowShape(V1ModelRows[c])
  <2>1. \A c \in DOMAIN V1ModelRows :
          /\ V1ModelRows[c].order = "big"
          /\ Len(V1ModelRows[c].visits) \in Nat
          /\ DOMAIN V1ModelRows[c].visits = 1 .. Len(V1ModelRows[c].visits)
    BY DEF V1ModelRows, Row
  <2>2. \A c \in DOMAIN V1ModelRows :
          LET visits == V1ModelRows[c].visits
          IN  \A i, j \in DOMAIN visits : visits[i] = visits[j] => i = j
    BY DEF V1ModelRows, Row
  <2> QED
    BY <2>1, <2>2 DEF RowShape
<1>2. \A c \in DOMAIN V1ModelRows : Within(c, V1ModelRows[c])
  BY SMTT(20) DEF V1ModelRows, Row, Within, FollowedBy, ToolNames
<1>3. \A c \in DOMAIN V1ModelRows : Handled(c, V1ModelRows[c])
  BY DEF V1ModelRows, Row, Handled, FollowedBy, ToolNames, ToSet
<1> QED
  BY <1>1, <1>2, <1>3 DEF RowRight

LEMMA V1StreamRight == \A c \in DOMAIN V1StreamRows : RowRight(c, V1StreamRows[c])
<1>1. \A c \in DOMAIN V1StreamRows : RowShape(V1StreamRows[c])
  BY DEF V1StreamRows, Row, RowShape
<1>2. \A c \in DOMAIN V1StreamRows : Within(c, V1StreamRows[c])
  BY DEF V1StreamRows, Row, Within, FollowedBy, ToolNames
<1>3. \A c \in DOMAIN V1StreamRows : Handled(c, V1StreamRows[c])
  BY DEF V1StreamRows, Row, Handled, FollowedBy, ToolNames, ToSet
<1> QED
  BY <1>1, <1>2, <1>3 DEF RowRight

LEMMA TextureRight == \A c \in DOMAIN TextureRows : RowRight(c, TextureRows[c])
<1>1. \A c \in DOMAIN TextureRows : RowShape(TextureRows[c])
  BY DEF TextureRows, Row, RowShape
<1>2. \A c \in DOMAIN TextureRows : Within(c, TextureRows[c])
  BY DEF TextureRows, Row, Within, FollowedBy, ToolNames
<1>3. \A c \in DOMAIN TextureRows : Handled(c, TextureRows[c])
  BY DEF TextureRows, Row, Handled, FollowedBy, ToolNames, ToSet
<1> QED
  BY <1>1, <1>2, <1>3 DEF RowRight

LEMMA ShaderRight == \A c \in DOMAIN ShaderRows : RowRight(c, ShaderRows[c])
<1>1. \A c \in DOMAIN ShaderRows : RowShape(ShaderRows[c])
  BY DEF ShaderRows, Row, RowShape
<1>2. \A c \in DOMAIN ShaderRows : Within(c, ShaderRows[c])
  BY DEF ShaderRows, Row, Within, FollowedBy, ToolNames
<1>3. \A c \in DOMAIN ShaderRows : Handled(c, ShaderRows[c])
  BY DEF ShaderRows, Row, Handled, FollowedBy, ToolNames, ToSet
<1> QED
  BY <1>1, <1>2, <1>3 DEF RowRight

LEMMA V3StreamRight == \A c \in DOMAIN V3StreamRows : RowRight(c, V3StreamRows[c])
<1>1. \A c \in DOMAIN V3StreamRows : RowShape(V3StreamRows[c])
  BY DEF V3StreamRows, Row, RowShape
<1>2. \A c \in DOMAIN V3StreamRows : Within(c, V3StreamRows[c])
  BY DEF V3StreamRows, Row, Within, FollowedBy, ToolNames
<1>3. \A c \in DOMAIN V3StreamRows : V3StreamRows[c].order = "little"
  BY DEF V3StreamRows, Row
<1> QED
  BY <1>1, <1>2, <1>3 DEF RowRight, Handled

LEMMA V3ModelRight == \A c \in DOMAIN V3ModelRows : RowRight(c, V3ModelRows[c])
<1>1. \A c \in DOMAIN V3ModelRows : RowShape(V3ModelRows[c])
  BY SMTT(20) DEF V3ModelRows, Row, RowShape
<1>2. \A c \in DOMAIN V3ModelRows : Within(c, V3ModelRows[c])
  BY DEF V3ModelRows, Row, Within, FollowedBy, ToolNames
<1>3. \A c \in DOMAIN V3ModelRows : V3ModelRows[c].order = "little"
  BY DEF V3ModelRows, Row
<1> QED
  BY <1>1, <1>2, <1>3 DEF RowRight, Handled

LEMMA ResourceRight == \A c \in DOMAIN ResourceRows : RowRight(c, ResourceRows[c])
<1>1. \A c \in DOMAIN ResourceRows : RowShape(ResourceRows[c])
  BY DEF ResourceRows, Row, RowShape
<1>2. \A c \in DOMAIN ResourceRows : Within(c, ResourceRows[c])
  BY DEF ResourceRows, Row, Within, FollowedBy, ToolNames
<1>3. \A c \in DOMAIN ResourceRows : ResourceRows[c].order = "little"
  BY DEF ResourceRows, Row
<1> QED
  BY <1>1, <1>2, <1>3 DEF RowRight, Handled

LEMMA HeadersAreRight == \A c \in DOMAIN HeaderRows :
    /\ RowRight(c, HeaderRows[c])
    /\ HeaderRows[c].pointers = HeaderPointers
    /\ HeaderRows[c].visits = <<>>
<1>1. \A c \in DOMAIN HeaderRows : RowShape(HeaderRows[c])
  BY DEF HeaderRows, Row, RowShape
<1>2. \A c \in DOMAIN HeaderRows : Within(c, HeaderRows[c])
  BY DEF HeaderRows, HeaderPointers, Row, Within, FollowedBy, ToolNames
<1>3. \A c \in DOMAIN HeaderRows :
        HeaderRows[c].pointers = HeaderPointers /\ HeaderRows[c].visits = <<>>
  BY DEF HeaderRows, Row
<1> QED
  BY <1>1, <1>2, <1>3 DEF RowRight

(* A class has the row of a table that has it.                             *)
LEMMA RowIsOfTable ==
  ASSUME NEW c \in DOMAIN Rows
  PROVE  \E t \in Tables : c \in DOMAIN t /\ Rows[c] = t[c]
<1> DEFINE u == CHOOSE t \in Tables : c \in DOMAIN t
<1>1. \E t \in Tables : c \in DOMAIN t
  BY DEF Rows
<1>2. u \in Tables /\ c \in DOMAIN u
  BY <1>1
<1>3. Rows[c] = u[c]
  BY DEF Rows
<1> QED
  BY <1>2, <1>3

LEMMA RowsAreRight ==
  ASSUME NEW c \in DOMAIN Rows
  PROVE  RowRight(c, Rows[c])
<1>1. PICK t \in Tables : c \in DOMAIN t /\ Rows[c] = t[c]
  BY RowIsOfTable
<1>2. RowRight(c, t[c])
  BY <1>1, PlainRight, V1ModelRight, V1StreamRight, TextureRight, ShaderRight, V3StreamRight,
     V3ModelRight, ResourceRight, HeadersAreRight DEF Tables
<1> QED
  BY <1>1, <1>2

(* The classes the loader itself asks for.                                 *)
LEMMA HeaderRowsOnly ==
  ASSUME NEW c \in DOMAIN HeaderRows
  PROVE  c \in DOMAIN Rows /\ Rows[c] = HeaderRows[c]
<1>1. c \in {"Header1", "Header2", "Header3"}
  BY DEF HeaderRows
<1>2. HeaderRows \in Tables
  BY DEF Tables
<1>3. ASSUME NEW t \in Tables, c \in DOMAIN t PROVE t = HeaderRows
  <2>1. c \notin DOMAIN PlainRows /\ c \notin DOMAIN TextureRows /\ c \notin DOMAIN ShaderRows
    BY <1>1 DEF PlainRows, TextureRows, ShaderRows
  <2>2. c \notin DOMAIN V1ModelRows /\ c \notin DOMAIN V1StreamRows /\ c \notin DOMAIN ResourceRows
    BY <1>1 DEF V1ModelRows, V1StreamRows, ResourceRows
  <2>3. c \notin DOMAIN V3ModelRows /\ c \notin DOMAIN V3StreamRows
    BY <1>1 DEF V3ModelRows, V3StreamRows
  <2> QED
    BY <1>3, <2>1, <2>2, <2>3 DEF Tables
<1>4. c \in DOMAIN Rows
  BY <1>2 DEF Rows
<1> QED
  BY <1>3, <1>4, RowIsOfTable

LEMMA HeaderOrder ==
  /\ Rows["Header1"].order = "big"
  /\ Rows["Header2"].order = "little"
  /\ Rows["Header3"].order = "little"
<1>1. /\ {"Header1", "Header2", "Header3"} \subseteq DOMAIN HeaderRows
      /\ HeaderRows["Header1"].order = "big"
      /\ HeaderRows["Header2"].order = "little"
      /\ HeaderRows["Header3"].order = "little"
  BY DEF HeaderRows, Row
<1> QED
  BY <1>1, HeaderRowsOnly

LEMMA StreamRow == "Stream3" \in DOMAIN Rows /\ "vertexBuffers" \in Rows["Stream3"].pointers
<1>1. /\ "Stream3" \in DOMAIN V3StreamRows
      /\ "vertexBuffers" \in V3StreamRows["Stream3"].pointers
  BY DEF V3StreamRows, Row
<1>2. V3StreamRows \in Tables
  BY DEF Tables
<1>3. ASSUME NEW t \in Tables, "Stream3" \in DOMAIN t PROVE t = V3StreamRows
  <2>1. /\ "Stream3" \notin DOMAIN PlainRows /\ "Stream3" \notin DOMAIN TextureRows
        /\ "Stream3" \notin DOMAIN ShaderRows /\ "Stream3" \notin DOMAIN HeaderRows
    BY DEF PlainRows, TextureRows, ShaderRows, HeaderRows
  <2>2. /\ "Stream3" \notin DOMAIN V1ModelRows /\ "Stream3" \notin DOMAIN V1StreamRows
        /\ "Stream3" \notin DOMAIN V3ModelRows /\ "Stream3" \notin DOMAIN ResourceRows
    BY DEF V1ModelRows, V1StreamRows, V3ModelRows, ResourceRows
  <2> QED
    BY <1>3, <2>1, <2>2 DEF Tables
<1>4. "Stream3" \in DOMAIN Rows
  BY <1>1, <1>2 DEF Rows
<1> QED
  BY <1>1, <1>3, <1>4, RowIsOfTable

-----------------------------------------------------------------------------
(* A list of lists, one after the other.                                   *)
LEMMA ConcatDistinct ==
  ASSUME NEW T, NEW a \in Seq(T), NEW b \in Seq(T)
  PROVE  /\ a \o b \in Seq(T)
         /\ \A e : e \in ToSet(a \o b) <=> e \in ToSet(a) \/ e \in ToSet(b)
         /\ Distinct(a) /\ Distinct(b) /\ ToSet(a) \cap ToSet(b) = {} => Distinct(a \o b)
<1> DEFINE c == a \o b
<1>1. /\ c \in Seq(T) /\ Len(c) = Len(a) + Len(b)
      /\ \A i \in 1 .. Len(c) : c[i] = IF i <= Len(a) THEN a[i] ELSE b[i - Len(a)]
  BY ConcatProperties
<1> HIDE DEF c
<1>2. /\ Len(a) \in Nat /\ Len(b) \in Nat /\ DOMAIN c = 1 .. Len(c)
      /\ DOMAIN a = 1 .. Len(a) /\ DOMAIN b = 1 .. Len(b)
  BY <1>1, LenProperties
<1>3. \A i \in 1 .. Len(a) : i \in 1 .. Len(c) /\ c[i] = a[i]
  BY <1>1, <1>2
<1>4. ASSUME NEW i \in 1 .. Len(b) PROVE \E k \in 1 .. Len(c) : c[k] = b[i]
  <2>1. PICK k : k = Len(a) + i
    OBVIOUS
  <2>2. k \in 1 .. Len(c) /\ ~(k <= Len(a)) /\ k - Len(a) = i
    BY <1>1, <1>2, <2>1
  <2>3. c[k] = b[k - Len(a)]
    BY <1>1, <2>2
  <2> QED
    BY <2>2, <2>3
<1>5. \A i \in 1 .. Len(c) :
        \/ i \in 1 .. Len(a) /\ c[i] = a[i]
        \/ i - Len(a) \in 1 .. Len(b) /\ c[i] = b[i - Len(a)]
  BY <1>1, <1>2
<1>6. \A e : e \in ToSet(c) <=> e \in ToSet(a) \/ e \in ToSet(b)
  <2>1. \A e : e \in ToSet(c) => e \in ToSet(a) \/ e \in ToSet(b)
    BY <1>2, <1>5 DEF ToSet
  <2>2. \A e \in ToSet(a) : e \in ToSet(c)
    BY <1>2, <1>3 DEF ToSet
  <2>3. \A e \in ToSet(b) : e \in ToSet(c)
    BY <1>2, <1>4 DEF ToSet
  <2> QED
    BY <2>1, <2>2, <2>3
<1>7. ASSUME Distinct(a), Distinct(b), ToSet(a) \cap ToSet(b) = {},
             NEW i \in 1 .. Len(c), NEW j \in 1 .. Len(c), c[i] = c[j]
      PROVE  i = j
  <2>1. \A k \in 1 .. Len(a), l \in 1 .. Len(b) : a[k] # b[l]
    BY <1>2, <1>7 DEF ToSet
  <2>2. \A k, l \in 1 .. Len(a) : a[k] = a[l] => k = l
    BY <1>2, <1>7 DEF Distinct
  <2>3. \A k, l \in 1 .. Len(b) : b[k] = b[l] => k = l
    BY <1>2, <1>7 DEF Distinct
  <2>4. i - Len(a) = j - Len(a) => i = j
    BY <1>2
  <2> QED
    BY <1>5, <1>7, <2>1, <2>2, <2>3, <2>4
<1>8. Distinct(a) /\ Distinct(b) /\ ToSet(a) \cap ToSet(b) = {} => Distinct(c)
  BY <1>2, <1>7 DEF Distinct
<1> QED
  BY <1>1, <1>6, <1>8 DEF c

(* Nothing is twice in a list of lists.                                    *)
NoTwoAlike(ss) ==
  \A k, l \in DOMAIN ss : \A i \in DOMAIN ss[k], j \in DOMAIN ss[l] :
    ss[k][i] = ss[l][j] => k = l /\ i = j

(* What FlattenSeq makes of the first lists.                               *)
IsFlat(ss, f, n) ==
  f = [i \in 1 .. n |-> IF i = 1 THEN ss[i] ELSE f[i - 1] \o ss[i]]

LEMMA FlatGoesOn ==
  ASSUME NEW ss, NEW n \in Nat, NEW f, IsFlat(ss, f, n)
  PROVE  \E g : IsFlat(ss, g, n + 1)
<1> DEFINE g == [i \in 1 .. n + 1 |-> IF i <= n THEN f[i]
                                      ELSE IF i = 1 THEN ss[i] ELSE f[i - 1] \o ss[i]]
<1>1. \A i \in 1 .. n : g[i] = f[i]
  OBVIOUS
<1>2. ASSUME NEW i \in 1 .. n + 1
      PROVE  g[i] = IF i = 1 THEN ss[i] ELSE g[i - 1] \o ss[i]
  <2>1. i # 1 => g[i - 1] = f[i - 1]
    <3>1. i # 1 => i - 1 \in 1 .. n
      OBVIOUS
    <3> QED
      BY <1>1, <3>1
  <2>2. CASE i \in 1 .. n
    <3>1. f[i] = IF i = 1 THEN ss[i] ELSE f[i - 1] \o ss[i]
      BY <2>2 DEF IsFlat
    <3> HIDE DEF g
    <3> QED
      BY <1>1, <2>1, <2>2, <3>1
  <2>3. CASE i \notin 1 .. n
    <3>1. ~(i <= n)
      BY <2>3
    <3>2. g[i] = IF i = 1 THEN ss[i] ELSE f[i - 1] \o ss[i]
      BY <3>1
    <3> HIDE DEF g
    <3> QED
      BY <2>1, <3>2
  <2> QED
    BY <2>2, <2>3
<1>3. g = [i \in 1 .. n + 1 |-> g[i]]
  OBVIOUS
<1>4. IsFlat(ss, g, n + 1)
  <2> HIDE DEF g
  <2> QED
    BY <1>2, <1>3 DEF IsFlat
<1> QED
  BY <1>4

LEMMA FlatExists ==
  ASSUME NEW ss, NEW n \in Nat
  PROVE  \E f : IsFlat(ss, f, n)
<1> DEFINE Lacks == {m \in Nat : ~ \E f : IsFlat(ss, f, m)}
<1>1. \E f : IsFlat(ss, f, 0)
  <2> DEFINE f == [i \in {} |-> i]
  <2>1. IsFlat(ss, f, 0)
    BY DEF IsFlat
  <2> QED
    BY <2>1
<1>2. Lacks = {}
  <2> SUFFICES ASSUME Lacks # {} PROVE FALSE
    OBVIOUS
  <2>1. Lacks \subseteq Nat
    OBVIOUS
  <2>2. PICK m \in Lacks : \A o \in Lacks : m <= o
    <3> HIDE DEF Lacks
    <3> QED
      BY <2>1, SmallestMember
  <2>3. m \in Nat /\ m # 0 /\ ~ \E f : IsFlat(ss, f, m)
    BY <1>1, <2>2
  <2>4. PICK k : k = m - 1
    OBVIOUS
  <2>5. k \in Nat /\ k + 1 = m /\ ~(m <= k)
    BY <2>3, <2>4
  <2>6. k \notin Lacks
    BY <2>2, <2>5
  <2>7. PICK f : IsFlat(ss, f, k)
    BY <2>5, <2>6
  <2>8. \E g : IsFlat(ss, g, k + 1)
    BY <2>5, <2>7, FlatGoesOn
  <2> QED
    BY <2>3, <2>5, <2>8
<1> QED
  BY <1>2

FlatRight(T, ss, n, s) ==
  /\ s \in Seq(T)
  /\ \A e : e \in ToSet(s) <=> \E k \in 1 .. n : e \in ToSet(ss[k])
  /\ NoTwoAlike(ss) => Distinct(s)

LEMMA FlatIsRight ==
  ASSUME NEW T, NEW ss \in Seq(Seq(T)), NEW f, IsFlat(ss, f, Len(ss)), NEW n \in 1 .. Len(ss)
  PROVE  FlatRight(T, ss, n, f[n])
<1> DEFINE Bad == {i \in 1 .. Len(ss) : ~FlatRight(T, ss, i, f[i])}
<1>1. \A i \in 1 .. Len(ss) : f[i] = IF i = 1 THEN ss[i] ELSE f[i - 1] \o ss[i]
  BY DEF IsFlat
<1>2. Bad = {}
  <2> SUFFICES ASSUME Bad # {} PROVE FALSE
    OBVIOUS
  <2>1. Bad \subseteq Nat
    OBVIOUS
  <2>2. PICK i \in Bad : \A o \in Bad : i <= o
    <3> HIDE DEF Bad
    <3> QED
      BY <2>1, SmallestMember
  <2>3. i \in 1 .. Len(ss) /\ ~FlatRight(T, ss, i, f[i])
    BY <2>2
  <2>4. ss[i] \in Seq(T) /\ DOMAIN ss = 1 .. Len(ss) /\ Len(ss) \in Nat
    BY <2>3
  <2>5. NoTwoAlike(ss) => Distinct(ss[i])
    BY <2>3, <2>4 DEF NoTwoAlike, Distinct
  <2>6. CASE i = 1
    <3>1. f[i] = ss[i]
      BY <1>1, <2>3, <2>6
    <3>2. \A e : e \in ToSet(ss[i]) <=> \E k \in 1 .. i : e \in ToSet(ss[k])
      BY <2>6
    <3> QED
      BY <2>3, <2>4, <2>5, <3>1, <3>2 DEF FlatRight
  <2>7. CASE i # 1
    <3>1. PICK k : k = i - 1
      OBVIOUS
    <3>2. k \in 1 .. Len(ss) /\ k + 1 = i /\ ~(i <= k)
      BY <2>3, <2>4, <2>7, <3>1
    <3>3. FlatRight(T, ss, k, f[k])
      BY <2>2, <3>2
    <3>4. f[i] = f[k] \o ss[i]
      BY <1>1, <2>3, <2>7, <3>1
    <3>5. /\ f[k] \o ss[i] \in Seq(T)
          /\ \A e : e \in ToSet(f[k] \o ss[i]) <=> e \in ToSet(f[k]) \/ e \in ToSet(ss[i])
          /\ Distinct(f[k]) /\ Distinct(ss[i]) /\ ToSet(f[k]) \cap ToSet(ss[i]) = {} =>
               Distinct(f[k] \o ss[i])
      BY <2>4, <3>3, ConcatDistinct DEF FlatRight
    <3>6. \A e : e \in ToSet(f[i]) <=> e \in ToSet(f[k]) \/ e \in ToSet(ss[i])
      BY <3>4, <3>5
    <3>7. \A m : m \in 1 .. i <=> m \in 1 .. k \/ m = i
      BY <2>3, <3>2
    <3>8. \A e : e \in ToSet(f[i]) <=> \E m \in 1 .. i : e \in ToSet(ss[m])
      BY <3>3, <3>6, <3>7 DEF FlatRight
    <3>9. ASSUME NoTwoAlike(ss) PROVE ToSet(f[k]) \cap ToSet(ss[i]) = {}
      <4> SUFFICES ASSUME NEW e, e \in ToSet(f[k]), e \in ToSet(ss[i]) PROVE FALSE
        OBVIOUS
      <4>1. PICK m \in 1 .. k : e \in ToSet(ss[m])
        BY <3>3 DEF FlatRight
      <4>2. PICK a \in DOMAIN ss[m] : ss[m][a] = e
        BY <4>1 DEF ToSet
      <4>3. PICK b \in DOMAIN ss[i] : ss[i][b] = e
        BY DEF ToSet
      <4>4. m \in DOMAIN ss /\ i \in DOMAIN ss /\ m # i
        BY <2>3, <2>4, <3>2
      <4> QED
        BY <3>9, <4>2, <4>3, <4>4 DEF NoTwoAlike
    <3>10. f[i] \in Seq(T)
      BY <3>4, <3>5
    <3>11. NoTwoAlike(ss) => Distinct(f[i])
      BY <2>5, <3>3, <3>4, <3>5, <3>9 DEF FlatRight
    <3> QED
      BY <2>3, <3>8, <3>10, <3>11 DEF FlatRight
  <2> QED
    BY <2>6, <2>7
<1> QED
  BY <1>2

LEMMA FlattenIsRight ==
  ASSUME NEW T, NEW ss \in Seq(Seq(T))
  PROVE  FlatRight(T, ss, Len(ss), FlattenSeq(ss))
<1>1. Len(ss) \in Nat /\ DOMAIN ss = 1 .. Len(ss)
  OBVIOUS
<1>2. CASE Len(ss) = 0
  <2>1. ss = <<>>
    BY <1>2
  <2>2. FlattenSeq(ss) = ss
    BY <1>2 DEF FlattenSeq
  <2>3. <<>> \in Seq(T) /\ DOMAIN <<>> = {}
    OBVIOUS
  <2>4. FlattenSeq(ss) = <<>>
    BY <2>1, <2>2, Zenon
  <2>5. ToSet(<<>>) = {} /\ Distinct(<<>>)
    BY <2>3 DEF ToSet, Distinct
  <2>6. 1 .. Len(ss) = {}
    BY <1>2
  <2> QED
    BY <2>3, <2>4, <2>5, <2>6 DEF FlatRight
<1>3. CASE Len(ss) # 0
  <2> DEFINE f == CHOOSE f : f = [i \in 1 .. Len(ss) |-> IF i = 1 THEN ss[i] ELSE f[i - 1] \o ss[i]]
  <2>1. FlattenSeq(ss) = f[Len(ss)]
    BY <1>3 DEF FlattenSeq
  <2>2. \E g : IsFlat(ss, g, Len(ss))
    BY <1>1, FlatExists
  <2>3. IsFlat(ss, f, Len(ss))
    BY <2>2, Zenon DEF IsFlat
  <2>4. Len(ss) \in 1 .. Len(ss)
    BY <1>1, <1>3
  <2> HIDE DEF f
  <2> QED
    BY <2>1, <2>3, <2>4, FlatIsRight
<1> QED
  BY <1>2, <1>3

-----------------------------------------------------------------------------
(* The graph of a file.                                                    *)
Nodes == DOMAIN mxmd.nodes

(* The loader may go on from node n to node e.                             *)
Child(n, e) ==
  \E p \in ProcessedBehind(mxmd, n) : (n = 1 => p # "version") /\ e \in ToSet(Behind(n, p))

LEMMA NodeFacts ==
  ASSUME IsModelGraph(mxmd)
  PROVE  /\ 1 \in Nodes /\ Nodes \subseteq Nat
         /\ \A n \in Nodes : node(n).class \in DOMAIN Rows /\ RowRight(node(n).class, RowOf(n))
         /\ \A n \in Nodes : \A p : Behind(n, p) \in Seq(Nodes)
         /\ Version \in Nodes
<1>1. /\ mxmd.nodes \in Seq(Range(mxmd.nodes)) /\ mxmd.nodes # <<>>
      /\ \A n \in Nodes : \A p \in DOMAIN node(n).kids : node(n).kids[p] \in Seq(Nodes)
  BY DEF IsModelGraph, IsGraph, IsList, Nodes, node
<1>2. 1 \in Nodes /\ Nodes \subseteq Nat
  BY <1>1 DEF Nodes
<1>3. \A n \in Nodes : node(n).class \in DOMAIN Rows
  BY DEF IsModelGraph, ClassesKnown, Nodes, node
<1>4. \A n \in Nodes : RowRight(node(n).class, RowOf(n))
  BY <1>3, RowsAreRight DEF RowOf
<1>5. ASSUME NEW n \in Nodes, NEW p PROVE Behind(n, p) \in Seq(Nodes)
  BY <1>1 DEF Behind, KidsOf, node
<1>6. Behind(1, "version") # <<>>
  BY DEF IsModelGraph, ClassesKnown, Behind
<1>7. Version \in Nodes
  BY <1>2, <1>5, <1>6 DEF Version
<1> QED
  BY <1>2, <1>3, <1>4, <1>5, <1>7

(* Two places of what is processed do not hold the same node.              *)
LEMMA PlacesDiffer ==
  ASSUME IsModelGraph(mxmd), NEW m \in Nodes, NEW n \in Nodes,
         NEW p \in ProcessedBehind(mxmd, m), NEW q \in ProcessedBehind(mxmd, n),
         NEW i \in DOMAIN Behind(m, p), NEW j \in DOMAIN Behind(n, q),
         Behind(m, p)[i] = Behind(n, q)[j]
  PROVE  m = n /\ p = q /\ i = j
BY DEF IsModelGraph, IsForest, Nodes, Behind

LEMMA ChildFacts ==
  ASSUME IsModelGraph(mxmd), NEW n \in Nodes, NEW e, Child(n, e)
  PROVE  /\ e \in Nodes /\ e # 1 /\ e \notin ToSet(mxmd.stream) /\ e # Version
         /\ \A m \in Nodes : Child(m, e) => m = n
<1>1. PICK p \in ProcessedBehind(mxmd, n) : (n = 1 => p # "version") /\ e \in ToSet(Behind(n, p))
  BY DEF Child
<1>2. Behind(n, p) \in Seq(Nodes)
  BY NodeFacts
<1>3. PICK i \in DOMAIN Behind(n, p) : Behind(n, p)[i] = e
  BY <1>1 DEF ToSet
<1>4. e \in Nodes
  BY <1>2, <1>3
<1>5. e # 1 /\ e \notin ToSet(mxmd.stream)
  BY <1>1 DEF IsModelGraph, HasRoots, Nodes, Behind
<1>6. e # Version
  <2> SUFFICES ASSUME e = Version PROVE FALSE
    OBVIOUS
  <2>1. 1 \in Nodes /\ "version" \in ProcessedBehind(mxmd, 1)
    BY NodeFacts DEF ProcessedBehind
  <2>2. Behind(1, "version") \in Seq(Nodes) /\ Behind(1, "version") # <<>>
    BY <2>1, NodeFacts DEF IsModelGraph, ClassesKnown, Behind
  <2>3. 1 \in DOMAIN Behind(1, "version") /\ Behind(1, "version")[1] = e
    BY <2>2 DEF Version
  <2> QED
    BY <1>1, <1>3, <2>1, <2>3, PlacesDiffer
<1>7. ASSUME NEW m \in Nodes, Child(m, e) PROVE m = n
  <2>1. PICK q \in ProcessedBehind(mxmd, m) : e \in ToSet(Behind(m, q))
    BY <1>7 DEF Child
  <2>2. PICK j \in DOMAIN Behind(m, q) : Behind(m, q)[j] = e
    BY <2>1 DEF ToSet
  <2> QED
    BY <1>3, <2>2, PlacesDiffer
<1> QED
  BY <1>4, <1>5, <1>6, <1>7

(* What a ProcessClass goes on to.                                         *)
LEMMA VisitedIsRight ==
  ASSUME IsModelGraph(mxmd), NEW n \in Nodes, n # 1
  PROVE  /\ Visited(n) \in Seq(Nodes) /\ Distinct(Visited(n))
         /\ \A e \in ToSet(Visited(n)) : Child(n, e)
         /\ \A p \in ToSet(RowOf(n).visits) : Visits(n, p) =>
              \A e \in ToSet(Behind(n, p)) : e \in ToSet(Visited(n))
<1>1. PICK vs : vs = RowOf(n).visits
  OBVIOUS
<1>2. /\ Len(vs) \in Nat /\ DOMAIN vs = 1 .. Len(vs)
      /\ \A i, j \in DOMAIN vs : vs[i] = vs[j] => i = j
  BY <1>1, NodeFacts DEF RowRight, RowShape
<1>3. ProcessedBehind(mxmd, n) = ToSet(vs)
  BY <1>1 DEF ProcessedBehind, RowOf, node
<1>4. PICK ss : ss = [k \in DOMAIN vs |-> IF Visits(n, vs[k]) THEN Behind(n, vs[k]) ELSE <<>>]
  OBVIOUS
<1>5. Visited(n) = FlattenSeq(ss)
  BY <1>1, <1>4 DEF Visited
<1>6. \A p : Behind(n, p) \in Seq(Nodes)
  BY NodeFacts
<1>7. \A k \in DOMAIN vs : ss[k] \in Seq(Nodes) /\ (ss[k] = <<>> \/ ss[k] = Behind(n, vs[k]))
  BY <1>4, <1>6
<1>8. ss \in Seq(Seq(Nodes)) /\ Len(ss) = Len(vs) /\ DOMAIN ss = DOMAIN vs
  <2>1. ss = [k \in 1 .. Len(vs) |-> ss[k]]
    BY <1>2, <1>4
  <2> QED
    BY <1>2, <1>7, <2>1
<1>9. NoTwoAlike(ss)
  <2> SUFFICES ASSUME NEW k \in DOMAIN ss, NEW l \in DOMAIN ss,
                      NEW i \in DOMAIN ss[k], NEW j \in DOMAIN ss[l], ss[k][i] = ss[l][j]
               PROVE  k = l /\ i = j
    BY DEF NoTwoAlike
  <2>1. DOMAIN <<>> = {}
    OBVIOUS
  <2>2. ss[k] = Behind(n, vs[k]) /\ ss[l] = Behind(n, vs[l])
    BY <1>7, <1>8, <2>1
  <2>3. vs[k] \in ProcessedBehind(mxmd, n) /\ vs[l] \in ProcessedBehind(mxmd, n)
    BY <1>3, <1>8 DEF ToSet
  <2>4. vs[k] = vs[l] /\ i = j
    BY <2>2, <2>3, PlacesDiffer
  <2> QED
    BY <1>2, <1>8, <2>4
<1>10. FlatRight(Nodes, ss, Len(ss), Visited(n))
  BY <1>5, <1>8, FlattenIsRight
<1>11. ASSUME NEW e \in ToSet(Visited(n)) PROVE Child(n, e)
  <2>1. PICK k \in 1 .. Len(ss) : e \in ToSet(ss[k])
    BY <1>10 DEF FlatRight
  <2>2. ToSet(<<>>) = {}
    BY DEF ToSet
  <2>3. k \in DOMAIN vs
    BY <1>2, <1>8, <2>1
  <2>4. ss[k] = Behind(n, vs[k])
    BY <1>7, <2>1, <2>2, <2>3
  <2>5. vs[k] \in ProcessedBehind(mxmd, n)
    BY <1>3, <2>3 DEF ToSet
  <2> QED
    BY <2>1, <2>4, <2>5 DEF Child
<1>12. ASSUME NEW p \in ToSet(vs), Visits(n, p), NEW e \in ToSet(Behind(n, p))
       PROVE  e \in ToSet(Visited(n))
  <2>1. PICK k \in DOMAIN vs : vs[k] = p
    BY DEF ToSet
  <2>2. ss[k] = Behind(n, p)
    BY <1>4, <1>12, <2>1
  <2> QED
    BY <1>2, <1>8, <1>10, <2>2 DEF FlatRight
<1> QED
  BY <1>1, <1>9, <1>10, <1>11, <1>12 DEF FlatRight

(* What the header goes on to.                                             *)
LEMMA FollowedParts ==
  /\ Len(Followed) \in Nat /\ DOMAIN Followed = 1 .. Len(Followed)
  /\ \A k, l \in DOMAIN Followed : Followed[k] = Followed[l] => k = l
  /\ \A k \in DOMAIN Followed :
       Followed[k] \in HeaderPointers /\ Followed[k] \notin {"streams", "version"}
<1>1. CASE mxmd.version = 1
  <2>1. Followed = <<"models", "shaders", "materials", "cachedTextures", "uncachedTextures">>
    BY <1>1 DEF Followed
  <2> QED
    BY <2>1 DEF HeaderPointers
<1>2. CASE mxmd.version = 2
  <2>1. Followed = <<"cachedTextures", "uncachedTextures">>
    BY <1>2 DEF Followed
  <2> QED
    BY <2>1 DEF HeaderPointers
<1>3. CASE mxmd.version \notin {1, 2}
  <2>1. Followed = <<"models", "materials", "uncachedTextures">>
    BY <1>3 DEF Followed
  <2> QED
    BY <2>1 DEF HeaderPointers
<1> QED
  BY <1>1, <1>2, <1>3

LEMMA RootsOfPart ==
  ASSUME IsModelGraph(mxmd), NEW part
  PROVE  /\ RootsBehind(part) \in Seq(Nodes)
         /\ \A i \in DOMAIN RootsBehind(part) :
              \/ i \in DOMAIN Behind(1, part) /\ RootsBehind(part)[i] = Behind(1, part)[i]
              \/ /\ part = "models" /\ i - Len(Behind(1, part)) \in DOMAIN Behind(1, "streams")
                 /\ RootsBehind(part)[i] = Behind(1, "streams")[i - Len(Behind(1, part))]
         /\ RootsBehind(part) # <<>> => Wanted(part)
         /\ Wanted(part) => \A e \in ToSet(Behind(1, part)) : e \in ToSet(RootsBehind(part))
         /\ Wanted(part) /\ part = "models" /\ mxmd.version = 1 =>
              \A e \in ToSet(Behind(1, "streams")) : e \in ToSet(RootsBehind(part))
<1>1. PICK a : a = Behind(1, part)
  OBVIOUS
<1>2. PICK b : b = Behind(1, "streams")
  OBVIOUS
<1>3. a \in Seq(Nodes) /\ b \in Seq(Nodes)
  BY <1>1, <1>2, NodeFacts
<1>4. PICK s : s = RootsBehind(part)
  OBVIOUS
<1>5. CASE ~Wanted(part)
  <2>1. s = <<>>
    BY <1>4, <1>5 DEF RootsBehind
  <2> QED
    BY <1>4, <1>5, <2>1
<1>6. CASE Wanted(part) /\ ~(part = "models" /\ mxmd.version = 1)
  <2>1. s = a
    BY <1>1, <1>4, <1>6 DEF RootsBehind
  <2> QED
    BY <1>1, <1>3, <1>4, <1>6, <2>1
<1>7. CASE Wanted(part) /\ part = "models" /\ mxmd.version = 1
  <2>1. s = a \o b
    BY <1>1, <1>2, <1>4, <1>7 DEF RootsBehind
  <2>2. /\ s \in Seq(Nodes) /\ Len(s) = Len(a) + Len(b)
        /\ \A i \in 1 .. Len(s) : s[i] = IF i <= Len(a) THEN a[i] ELSE b[i - Len(a)]
    BY <1>3, <2>1, ConcatProperties
  <2>3. \A e : e \in ToSet(s) <=> e \in ToSet(a) \/ e \in ToSet(b)
    BY <1>3, <2>1, ConcatDistinct
  <2>4. /\ Len(a) \in Nat /\ Len(b) \in Nat /\ DOMAIN s = 1 .. Len(s)
        /\ DOMAIN a = 1 .. Len(a) /\ DOMAIN b = 1 .. Len(b)
    BY <1>3, <2>2, LenProperties
  <2>5. \A i \in 1 .. Len(s) :
          \/ i \in 1 .. Len(a) /\ s[i] = a[i]
          \/ i - Len(a) \in 1 .. Len(b) /\ s[i] = b[i - Len(a)]
    BY <2>2, <2>4
  <2> QED
    BY <1>1, <1>2, <1>4, <1>7, <2>2, <2>3, <2>4, <2>5
<1> QED
  BY <1>5, <1>6, <1>7

LEMMA RootsAreRight ==
  ASSUME IsModelGraph(mxmd), NEW td,
         td = FlattenSeq([k \in DOMAIN Followed |-> RootsBehind(Followed[k])])
  PROVE  /\ td \in Seq(Nodes) /\ Distinct(td)
         /\ \A e \in ToSet(td) : \E p \in HeaderPointers : e \in ToSet(Behind(1, p)) /\ ~LeftOut(p)
         /\ \A k \in DOMAIN Followed : \A e \in ToSet(RootsBehind(Followed[k])) : e \in ToSet(td)
<1>1. PICK fs : fs = Followed
  OBVIOUS
<1>2. /\ Len(fs) \in Nat /\ DOMAIN fs = 1 .. Len(fs)
      /\ \A k, l \in DOMAIN fs : fs[k] = fs[l] => k = l
      /\ \A k \in DOMAIN fs : fs[k] \in HeaderPointers /\ fs[k] # "streams" /\ fs[k] # "version"
  BY <1>1, FollowedParts
<1>3. PICK ss : ss = [k \in DOMAIN fs |-> RootsBehind(fs[k])]
  OBVIOUS
<1>4. td = FlattenSeq(ss)
  BY <1>1, <1>3
<1>5. \A k \in DOMAIN fs : ss[k] = RootsBehind(fs[k]) /\ ss[k] \in Seq(Nodes)
  BY <1>3, RootsOfPart
<1>6. ss \in Seq(Seq(Nodes)) /\ Len(ss) = Len(fs) /\ DOMAIN ss = DOMAIN fs
  <2>1. ss = [k \in 1 .. Len(fs) |-> ss[k]]
    BY <1>2, <1>3
  <2> QED
    BY <1>2, <1>5, <2>1
<1>7. /\ \A p \in HeaderPointers : p \in ProcessedBehind(mxmd, 1)
      /\ "streams" \in HeaderPointers /\ "version" \notin HeaderPointers /\ 1 \in Nodes
  BY NodeFacts DEF ProcessedBehind, HeaderPointers
<1>8. ASSUME NEW k \in DOMAIN ss, NEW i \in DOMAIN ss[k]
      PROVE  \E p \in HeaderPointers : \E j \in DOMAIN Behind(1, p) :
               /\ ss[k][i] = Behind(1, p)[j]
               /\ \/ p = fs[k] /\ j = i
                  \/ p = "streams" /\ fs[k] = "models" /\ j = i - Len(Behind(1, "models"))
  <2>1. k \in DOMAIN fs /\ ss[k] = RootsBehind(fs[k])
    BY <1>5, <1>6
  <2>2. \/ i \in DOMAIN Behind(1, fs[k]) /\ ss[k][i] = Behind(1, fs[k])[i]
        \/ /\ fs[k] = "models" /\ i - Len(Behind(1, fs[k])) \in DOMAIN Behind(1, "streams")
           /\ ss[k][i] = Behind(1, "streams")[i - Len(Behind(1, fs[k]))]
    BY <2>1, RootsOfPart
  <2> QED
    BY <1>2, <1>7, <2>1, <2>2
<1>9. NoTwoAlike(ss)
  <2> SUFFICES ASSUME NEW k \in DOMAIN ss, NEW l \in DOMAIN ss,
                      NEW i \in DOMAIN ss[k], NEW j \in DOMAIN ss[l], ss[k][i] = ss[l][j]
               PROVE  k = l /\ i = j
    BY DEF NoTwoAlike
  <2>1. PICK p \in HeaderPointers : \E a \in DOMAIN Behind(1, p) :
               /\ ss[k][i] = Behind(1, p)[a]
               /\ \/ p = fs[k] /\ a = i
                  \/ p = "streams" /\ fs[k] = "models" /\ a = i - Len(Behind(1, "models"))
    BY <1>8
  <2>2. PICK a \in DOMAIN Behind(1, p) :
               /\ ss[k][i] = Behind(1, p)[a]
               /\ \/ p = fs[k] /\ a = i
                  \/ p = "streams" /\ fs[k] = "models" /\ a = i - Len(Behind(1, "models"))
    BY <2>1
  <2>3. PICK q \in HeaderPointers : \E b \in DOMAIN Behind(1, q) :
               /\ ss[l][j] = Behind(1, q)[b]
               /\ \/ q = fs[l] /\ b = j
                  \/ q = "streams" /\ fs[l] = "models" /\ b = j - Len(Behind(1, "models"))
    BY <1>8
  <2>4. PICK b \in DOMAIN Behind(1, q) :
               /\ ss[l][j] = Behind(1, q)[b]
               /\ \/ q = fs[l] /\ b = j
                  \/ q = "streams" /\ fs[l] = "models" /\ b = j - Len(Behind(1, "models"))
    BY <2>3
  <2>5. p = q /\ a = b
    <3>1. 1 \in Nodes /\ p \in ProcessedBehind(mxmd, 1) /\ q \in ProcessedBehind(mxmd, 1)
      BY <1>7
    <3>2. a \in DOMAIN Behind(1, p) /\ b \in DOMAIN Behind(1, q)
      OBVIOUS
    <3>3. Behind(1, p)[a] = Behind(1, q)[b]
      BY <2>2, <2>4
    <3> QED
      BY <3>1, <3>2, <3>3, PlacesDiffer
  <2>6. k \in DOMAIN fs /\ l \in DOMAIN fs
    BY <1>6
  <2>7. fs[k] = fs[l]
    BY <1>2, <2>2, <2>4, <2>5, <2>6
  <2>8. k = l
    BY <1>2, <2>6, <2>7
  <2>9. i \in Int /\ j \in Int
    BY <1>5, <2>6
  <2>10. Len(Behind(1, "models")) \in Int
    BY <1>7, NodeFacts
  <2>11. PICK c : c = Len(Behind(1, "models"))
    OBVIOUS
  <2>12. i - c = j - c => i = j
    BY <2>9, <2>10, <2>11
  <2>13. i = j
    BY <1>2, <2>2, <2>4, <2>5, <2>6, <2>11, <2>12
  <2> QED
    BY <2>8, <2>13
<1>10. FlatRight(Nodes, ss, Len(ss), td)
  BY <1>4, <1>6, FlattenIsRight
<1>11. ASSUME NEW e \in ToSet(td)
       PROVE  \E p \in HeaderPointers : e \in ToSet(Behind(1, p)) /\ ~LeftOut(p)
  <2>1. PICK k \in 1 .. Len(ss) : e \in ToSet(ss[k])
    BY <1>10 DEF FlatRight
  <2>2. PICK i \in DOMAIN ss[k] : ss[k][i] = e
    BY <2>1 DEF ToSet
  <2>3. k \in DOMAIN ss /\ k \in DOMAIN fs
    BY <1>2, <1>6
  <2>4. PICK p \in HeaderPointers :
          /\ \E j \in DOMAIN Behind(1, p) : ss[k][i] = Behind(1, p)[j]
          /\ p = fs[k] \/ (p = "streams" /\ fs[k] = "models")
    BY <1>8, <2>3
  <2>5. e \in ToSet(Behind(1, p))
    BY <2>2, <2>4 DEF ToSet
  <2>6. DOMAIN <<>> = {}
    OBVIOUS
  <2>7. RootsBehind(fs[k]) # <<>>
    BY <1>5, <2>3, <2>6
  <2>8. Wanted(fs[k])
    BY <2>7, RootsOfPart
  <2>9. ~LeftOut(p)
    BY <1>2, <2>3, <2>4, <2>8 DEF LeftOut
  <2> QED
    BY <2>5, <2>9
<1>12. ASSUME NEW k \in DOMAIN fs, NEW e \in ToSet(RootsBehind(fs[k])) PROVE e \in ToSet(td)
  <2>1. k \in 1 .. Len(ss) /\ e \in ToSet(ss[k])
    BY <1>2, <1>5, <1>6
  <2> QED
    BY <1>10, <2>1 DEF FlatRight
<1> QED
  BY <1>1, <1>9, <1>10, <1>11, <1>12 DEF FlatRight

-----------------------------------------------------------------------------
(* The header leaves out parts: what it leaves is a model file still.      *)
Trimmed(g, h) ==
  /\ IsList(h.nodes) /\ DOMAIN h.nodes = DOMAIN g.nodes
  /\ {"version", "nodes", "stream", "container"} \subseteq DOMAIN h
  /\ h.version = g.version /\ h.stream = g.stream /\ h.container = g.container
  /\ \A n \in DOMAIN g.nodes :
       /\ {"class", "kids"} \subseteq DOMAIN h.nodes[n]
       /\ h.nodes[n].class = g.nodes[n].class
       /\ DOMAIN h.nodes[n].kids = DOMAIN g.nodes[n].kids
       /\ \A p : KidsOf(h, n, p) = KidsOf(g, n, p) \/ (n = 1 /\ KidsOf(h, n, p) = <<>>)
  /\ KidsOf(h, 1, "version") = KidsOf(g, 1, "version")

LEMMA TrimmedIsGraph ==
  ASSUME NEW g, NEW h, IsModelGraph(g), Trimmed(g, h)
  PROVE  IsModelGraph(h)
<1> DEFINE N == DOMAIN g.nodes
<1>1. DOMAIN h.nodes = N /\ g.nodes \in Seq(Range(g.nodes)) /\ g.nodes # <<>> /\ 1 \in N
  BY DEF Trimmed, IsModelGraph, IsGraph, IsList
<1>2. \A n \in N : \A p : KidsOf(g, n, p) \in Seq(N)
  <2> SUFFICES ASSUME NEW n \in N, NEW p PROVE KidsOf(g, n, p) \in Seq(N)
    OBVIOUS
  <2>1. \A q \in DOMAIN g.nodes[n].kids : g.nodes[n].kids[q] \in Seq(N)
    BY DEF IsModelGraph, IsGraph
  <2>2. <<>> \in Seq(N)
    OBVIOUS
  <2> QED
    BY <2>1, <2>2 DEF KidsOf
<1>3. \A n \in N : h.nodes[n].class = g.nodes[n].class /\ DOMAIN h.nodes[n].kids = DOMAIN g.nodes[n].kids
  BY DEF Trimmed
<1>4. \A n \in N : \A p : KidsOf(h, n, p) = KidsOf(g, n, p) \/ (n = 1 /\ KidsOf(h, n, p) = <<>>)
  BY DEF Trimmed
<1>5. ASSUME NEW n \in N, NEW p, NEW i \in DOMAIN KidsOf(h, n, p)
      PROVE  i \in DOMAIN KidsOf(g, n, p) /\ KidsOf(h, n, p)[i] = KidsOf(g, n, p)[i]
  <2>1. DOMAIN <<>> = {}
    OBVIOUS
  <2>2. KidsOf(h, n, p) = KidsOf(g, n, p)
    BY <1>4, <2>1
  <2> QED
    BY <2>2
<1>6. ASSUME NEW n \in N, NEW p, NEW e \in ToSet(KidsOf(h, n, p))
       PROVE  e \in ToSet(KidsOf(g, n, p))
  <2>1. PICK i \in DOMAIN KidsOf(h, n, p) : KidsOf(h, n, p)[i] = e
    BY DEF ToSet
  <2>2. i \in DOMAIN KidsOf(g, n, p) /\ KidsOf(g, n, p)[i] = e
    BY <1>5, <2>1
  <2> QED
    BY <2>2 DEF ToSet
<1>7. \A n \in N : ProcessedBehind(h, n) = ProcessedBehind(g, n)
  BY <1>3 DEF ProcessedBehind
<1>8. IsGraph(h)
  <2>1. ASSUME NEW n \in N, NEW p \in DOMAIN h.nodes[n].kids PROVE h.nodes[n].kids[p] \in Seq(N)
    <3>1. h.nodes[n].kids[p] = KidsOf(h, n, p)
      BY DEF KidsOf
    <3>2. <<>> \in Seq(N)
      OBVIOUS
    <3>3. KidsOf(g, n, p) \in Seq(N)
      BY <1>2
    <3>4. KidsOf(h, n, p) = KidsOf(g, n, p) \/ KidsOf(h, n, p) = <<>>
      BY <1>4
    <3> QED
      BY <3>1, <3>2, <3>3, <3>4
  <2>2. \A n \in N : {"class", "kids"} \subseteq DOMAIN h.nodes[n]
    BY DEF Trimmed
  <2>3. h.nodes # <<>>
    BY <1>1
  <2>4. IsList(h.nodes) /\ {"version", "nodes"} \subseteq DOMAIN h
    BY DEF Trimmed
  <2> QED
    BY <1>1, <2>1, <2>2, <2>3, <2>4 DEF IsGraph
<1>9. ClassesKnown(h)
  <2>1. h.version = g.version /\ KidsOf(h, 1, "version") = KidsOf(g, 1, "version")
    BY DEF Trimmed
  <2> QED
    BY <1>1, <1>3, <2>1 DEF IsModelGraph, ClassesKnown
<1>10. IsForest(h)
  <2> SUFFICES ASSUME NEW m \in N, NEW n \in N,
                      NEW p \in ProcessedBehind(g, m), NEW q \in ProcessedBehind(g, n),
                      NEW i \in DOMAIN KidsOf(h, m, p), NEW j \in DOMAIN KidsOf(h, n, q),
                      KidsOf(h, m, p)[i] = KidsOf(h, n, q)[j]
               PROVE  m = n /\ p = q /\ i = j
    BY <1>1, <1>7 DEF IsForest
  <2>1. i \in DOMAIN KidsOf(g, m, p) /\ j \in DOMAIN KidsOf(g, n, q)
    BY <1>5
  <2>2. KidsOf(g, m, p)[i] = KidsOf(g, n, q)[j]
    BY <1>5
  <2> QED
    BY <2>1, <2>2 DEF IsModelGraph, IsForest
<1>11. HasRoots(h)
  <2>1. /\ "stream" \in DOMAIN h /\ h.stream = g.stream
        /\ "container" \in DOMAIN h /\ h.container = g.container
    BY DEF Trimmed
  <2>2. g.stream \in Seq(N) /\ Len(g.stream) <= 1
    BY DEF IsModelGraph, HasRoots
  <2>3. \A n \in ToSet(g.stream) :
          n # 1 /\ h.nodes[n].class = "Stream3" /\ "vertexBuffers" \in DOMAIN h.nodes[n].kids
    <3>1. \A n \in ToSet(g.stream) :
            n # 1 /\ g.nodes[n].class = "Stream3" /\ "vertexBuffers" \in DOMAIN g.nodes[n].kids
      BY DEF IsModelGraph, HasRoots
    <3>2. ToSet(g.stream) \subseteq N
      BY <2>2 DEF ToSet
    <3> QED
      BY <1>3, <3>1, <3>2
  <2>4. \A n \in N : \A p \in ProcessedBehind(g, n) :
          ToSet(KidsOf(g, n, p)) \cap ({1} \cup ToSet(g.stream)) = {}
    BY DEF IsModelGraph, HasRoots
  <2>5. \A n \in N : \A p \in ProcessedBehind(g, n) :
          ToSet(KidsOf(h, n, p)) \cap ({1} \cup ToSet(g.stream)) = {}
    BY <1>6, <2>4
  <2>6. /\ g.container \in {"whole", "indices", "hollow", "other", "missing"}
        /\ g.stream # <<>> <=> g.container \in {"whole", "indices"}
    BY DEF IsModelGraph, HasRoots
  <2> QED
    BY <1>1, <1>7, <2>1, <2>2, <2>3, <2>5, <2>6 DEF HasRoots
<1>12. HasLeaves(h)
  <2> SUFFICES ASSUME NEW n \in N, n # 1,
                      NEW p \in Rows[h.nodes[n].class].pointers \ ProcessedBehind(h, n),
                      NEW e \in ToSet(KidsOf(h, n, p))
               PROVE  h.nodes[e].class \in IF p \in {"name", "data"} THEN {"Bytes"} ELSE {"Bytes", "Words"}
    BY <1>1 DEF HasLeaves
  <2>1. p \in Rows[g.nodes[n].class].pointers \ ProcessedBehind(g, n)
    BY <1>3, <1>7
  <2>2. e \in ToSet(KidsOf(g, n, p))
    BY <1>6
  <2>3. g.nodes[e].class \in IF p \in {"name", "data"} THEN {"Bytes"} ELSE {"Bytes", "Words"}
    BY <2>1, <2>2 DEF IsModelGraph, HasLeaves
  <2>4. e \in N
    BY <1>2, <2>2 DEF ToSet
  <2> QED
    BY <1>3, <2>3, <2>4
<1> QED
  BY <1>8, <1>9, <1>10, <1>11, <1>12 DEF IsModelGraph

LEMMA HeaderTrims ==
  ASSUME IsModelGraph(mxmd), mxmd' = [mxmd EXCEPT !.nodes[1].kids = LeftPointers]
  PROVE  /\ Trimmed(mxmd, mxmd')
         /\ mxmd'.magic = mxmd.magic
         /\ \A p : LeftOut(p) => KidsOf(mxmd', 1, p) = <<>>
         /\ \A p : ~LeftOut(p) => KidsOf(mxmd', 1, p) = KidsOf(mxmd, 1, p)
<1>1. /\ mxmd.nodes \in Seq(Range(mxmd.nodes)) /\ 1 \in DOMAIN mxmd.nodes
      /\ {"version", "nodes", "stream", "container"} \subseteq DOMAIN mxmd
      /\ \A n \in DOMAIN mxmd.nodes : {"class", "kids"} \subseteq DOMAIN mxmd.nodes[n]
  BY NodeFacts DEF IsModelGraph, IsGraph, IsList, HasRoots, Nodes
<1>2. PICK x : x = LeftPointers
  OBVIOUS
<1>3. PICK y : y = [mxmd.nodes EXCEPT ![1].kids = x]
  OBVIOUS
<1>4. mxmd' = [mxmd EXCEPT !.nodes = y]
  BY <1>2, <1>3
<1>5. /\ DOMAIN mxmd' = DOMAIN mxmd /\ mxmd'.nodes = y
      /\ mxmd'.magic = mxmd.magic /\ mxmd'.version = mxmd.version /\ mxmd'.stream = mxmd.stream
      /\ mxmd'.container = mxmd.container
  BY <1>1, <1>4
<1>6. /\ DOMAIN y = DOMAIN mxmd.nodes
      /\ \A n \in DOMAIN mxmd.nodes : n # 1 => y[n] = mxmd.nodes[n]
      /\ y[1] = [mxmd.nodes[1] EXCEPT !.kids = x]
  BY <1>1, <1>3
<1>7. /\ DOMAIN y[1] = DOMAIN mxmd.nodes[1]
      /\ y[1].kids = x /\ y[1].class = mxmd.nodes[1].class
  BY <1>1, <1>6
<1>8. IsList(y)
  <2>1. \E n \in Nat : DOMAIN y = 1 .. n
    BY <1>1, <1>6
  <2>2. PICK n \in Nat : DOMAIN y = 1 .. n
    BY <2>1
  <2>3. \A i \in 1 .. n : y[i] \in Range(y)
    BY <2>2 DEF Range
  <2>4. y = [i \in 1 .. n |-> y[i]]
    BY <1>3, <2>2
  <2> QED
    BY <2>2, <2>3, <2>4 DEF IsList
<1>9. /\ DOMAIN x = DOMAIN mxmd.nodes[1].kids
      /\ \A p \in DOMAIN mxmd.nodes[1].kids : x[p] = IF LeftOut(p) THEN <<>> ELSE mxmd.nodes[1].kids[p]
  BY <1>2 DEF LeftPointers, node
<1>10. \A p : KidsOf(mxmd', 1, p) = IF LeftOut(p) THEN <<>> ELSE KidsOf(mxmd, 1, p)
  BY <1>5, <1>7, <1>9 DEF KidsOf
<1>11. ~LeftOut("version")
  BY DEF LeftOut, Reviewed, PartOf
<1>12. ASSUME NEW n \in DOMAIN mxmd.nodes
       PROVE  /\ {"class", "kids"} \subseteq DOMAIN mxmd'.nodes[n]
              /\ mxmd'.nodes[n].class = mxmd.nodes[n].class
              /\ DOMAIN mxmd'.nodes[n].kids = DOMAIN mxmd.nodes[n].kids
              /\ \A p : \/ KidsOf(mxmd', n, p) = KidsOf(mxmd, n, p)
                        \/ n = 1 /\ KidsOf(mxmd', n, p) = <<>>
  <2>1. CASE n = 1
    BY <1>1, <1>5, <1>7, <1>9, <1>10, <2>1
  <2>2. CASE n # 1
    BY <1>1, <1>5, <1>6, <2>2 DEF KidsOf
  <2> QED
    BY <2>1, <2>2
<1>13. Trimmed(mxmd, mxmd')
  <2>1. KidsOf(mxmd', 1, "version") = KidsOf(mxmd, 1, "version")
    BY <1>10, <1>11
  <2> QED
    BY <1>1, <1>5, <1>6, <1>8, <1>12, <2>1 DEF Trimmed
<1> QED
  BY <1>5, <1>10, <1>13

-----------------------------------------------------------------------------
(* A file that is being walked.  What was handled, P, and what is waiting  *)
(* is each in a place of its own.                                          *)
GraphRight ==
  /\ IsModelGraph(mxmd) /\ tool \in ToolNames
  /\ DOMAIN swaps = Nodes /\ DOMAIN fixed = Nodes
  /\ \A n \in Nodes : DOMAIN fixed[n] = DOMAIN node(n).kids

NothingFixed(ns) == \A n \in ns : \A p \in DOMAIN node(n).kids : fixed[n][p] = 0

BeforeHeader ==
  /\ todo = <<1>> /\ mxmd.version \in 1 .. 3
  /\ \A n \in Nodes \ {Version} : swaps[n] = 0
  /\ swaps[Version] = (IF Big THEN 1 ELSE 0) + (IF mxmd.version = 1 THEN 1 ELSE 0)
  /\ NothingFixed(Nodes)

Waiting(P) ==
  /\ 1 \in P /\ P \subseteq Nodes
  /\ todo \in Seq(Nodes) /\ Distinct(todo) /\ ToSet(todo) \cap P = {}
  /\ \A e \in P \cup ToSet(todo) :
       e = 1 \/ e \in ToSet(mxmd.stream) \/ \E m \in P : Child(m, e)

GoneOn(P) ==
  \A n \in P : \A p \in Follows(n) : p \in ProcessedBehind(mxmd, n) =>
    \A e \in ToSet(Behind(n, p)) : e \in P \/ e \in ToSet(todo)

Turned(P) ==
  /\ mxmd.version \in 1 .. 3
  /\ \A n \in P : ~Misordered(n)
  /\ \A n \in P : swaps[n] = IF Big THEN 1 ELSE 0
  /\ \A n \in Nodes \ P : ~Big \/ n # Version => swaps[n] = 0

MadeOnce(P) ==
  /\ \A n \in P : \A p \in RowOf(n).pointers : p \in DOMAIN node(n).kids => fixed[n][p] = 1
  /\ NothingFixed(Nodes \ P)

AfterHeader(P) == Waiting(P) /\ GoneOn(P) /\ Turned(P) /\ MadeOnce(P)

LoadInv ==
  /\ loading = "header" =>
       GraphRight /\ todo = <<>> /\ NothingFixed(Nodes) /\ \A n \in Nodes : swaps[n] = 0
  /\ loading = "walk" => GraphRight /\ (BeforeHeader \/ \E P : AfterHeader(P))
  /\ loading = "loaded" => GraphRight /\ todo = <<>> /\ ~StreamNext /\ \E P : AfterHeader(P)

(* A step that does not touch the file does not touch what is said of it.  *)
LEMMA SameGraph ==
  ASSUME mxmd' = mxmd, tool' = tool
  PROVE  /\ Nodes' = Nodes /\ (Big <=> Big') /\ Version' = Version
         /\ \A n : RowOf(n)' = RowOf(n) /\ node(n)' = node(n) /\ Follows(n)' = Follows(n)
         /\ \A n, p : Behind(n, p)' = Behind(n, p)
         /\ \A n, e : Child(n, e) <=> Child(n, e)'
         /\ \A n : Misordered(n) <=> Misordered(n)'
<1>1. \A n, p : Behind(n, p)' = Behind(n, p)
  BY DEF Behind
<1>2. \A n : node(n)' = node(n)
  BY DEF node
<1>3. \A n : RowOf(n)' = RowOf(n)
  BY DEF RowOf, node
<1>4. \A n : Follows(n)' = Follows(n)
  BY DEF Follows, Visits, Behind, node
<1>5. \A n, e : Child(n, e) <=> Child(n, e)'
  BY DEF Child, Behind
<1>6. (Big <=> Big')
  BY DEF Big
<1>7. \A n : Misordered(n) <=> Misordered(n)'
  BY <1>3, <1>6 DEF Misordered
<1>8. Nodes' = Nodes /\ Version' = Version
  BY DEF Nodes, Version, Behind
<1> QED
  BY <1>1, <1>2, <1>3, <1>4, <1>5, <1>6, <1>7, <1>8

LEMMA StepStart ==
  ASSUME NEW g, NEW by, IsModelGraph(g), by \in ToolNames, Start(g, by)
  PROVE  LoadInv'
<1>1. loading' = "header" /\ mxmd' = g /\ tool' = by /\ todo' = <<>>
  BY DEF Start
<1>2. swaps' = [n \in DOMAIN g.nodes |-> 0]
  BY DEF Start
<1>3. fixed' = [n \in DOMAIN g.nodes |-> [p \in DOMAIN g.nodes[n].kids |-> 0]]
  BY DEF Start
<1>4. Nodes' = DOMAIN g.nodes /\ \A n : node(n)' = g.nodes[n]
  BY <1>1 DEF Nodes, node
<1>5. GraphRight'
  BY <1>1, <1>2, <1>3, <1>4 DEF GraphRight
<1>6. NothingFixed(Nodes)'
  BY <1>3, <1>4 DEF NothingFixed
<1> QED
  BY <1>1, <1>2, <1>4, <1>5, <1>6 DEF LoadInv

LEMMA StepHeaderBase ==
  ASSUME LoadInv, HeaderBase
  PROVE  LoadInv'
<1>1. /\ loading = "header" /\ loading' = "walk" /\ todo' = <<1>> /\ mxmd.version \in 1 .. 3
      /\ UNCHANGED <<mxmd, tool, fixed>>
      /\ swaps' = [swaps EXCEPT ![Version] = (IF Big THEN 1 ELSE 0) + (IF mxmd.version = 1 THEN 1 ELSE 0)]
  BY DEF HeaderBase
<1>2. GraphRight /\ NothingFixed(Nodes) /\ \A n \in Nodes : swaps[n] = 0
  BY <1>1 DEF LoadInv
<1>3. Nodes' = Nodes /\ Version' = Version /\ (Big <=> Big') /\ \A n : node(n)' = node(n)
  BY <1>1, SameGraph
<1>4. IsModelGraph(mxmd) /\ Version \in Nodes /\ DOMAIN swaps = Nodes
  BY <1>2, NodeFacts DEF GraphRight
<1>5. GraphRight'
  BY <1>1, <1>2, <1>3, <1>4 DEF GraphRight
<1>6. NothingFixed(Nodes)'
  BY <1>1, <1>2, <1>3 DEF NothingFixed
<1>7. BeforeHeader'
  <2>1. PICK c : c = (IF Big THEN 1 ELSE 0) + (IF mxmd.version = 1 THEN 1 ELSE 0)
    OBVIOUS
  <2>2. swaps'[Version] = c /\ \A n \in Nodes \ {Version} : swaps'[n] = 0
    BY <1>1, <1>2, <1>4, <2>1
  <2>3. (c = (IF Big THEN 1 ELSE 0) + (IF mxmd.version = 1 THEN 1 ELSE 0))'
    BY <1>1, <1>3, <2>1
  <2> QED
    BY <1>1, <1>3, <1>6, <2>2, <2>3 DEF BeforeHeader
<1> QED
  BY <1>1, <1>5, <1>7 DEF LoadInv

LEMMA PointersCounted ==
  ASSUME DOMAIN fixed = Nodes, NEW n \in Nodes, NEW ps, fixed' = PointersMade(n, ps)
  PROVE  /\ DOMAIN fixed' = Nodes /\ \A m \in Nodes : m # n => fixed'[m] = fixed[m]
         /\ DOMAIN fixed'[n] = DOMAIN fixed[n]
         /\ \A p \in DOMAIN fixed[n] : fixed'[n][p] = IF p \in ps THEN fixed[n][p] + 1 ELSE fixed[n][p]
BY DEF PointersMade

(* What the tools follow of a header.                                      *)
LEMMA FollowedOfHeaders ==
  /\ \A by \in ToolNames : "Header1" \in DOMAIN FollowedBy[by] =>
       FollowedBy[by]["Header1"] \subseteq HeaderPointers
  /\ \A by \in ToolNames : "Header2" \in DOMAIN FollowedBy[by] =>
       FollowedBy[by]["Header2"] \subseteq {"cachedTextures", "uncachedTextures"}
  /\ \A by \in ToolNames : "Header3" \in DOMAIN FollowedBy[by] =>
       FollowedBy[by]["Header3"] \subseteq {"models", "uncachedTextures"}
BY DEF FollowedBy, ToolNames, HeaderPointers

LEMMA HeaderClass ==
  ASSUME IsModelGraph(mxmd), mxmd.version \in 1 .. 3
  PROVE  /\ mxmd.version = 1 => node(1).class = "Header1"
         /\ mxmd.version = 2 => node(1).class = "Header2"
         /\ mxmd.version = 3 => node(1).class = "Header3"
         /\ RowOf(1).pointers = HeaderPointers
         /\ ~Misordered(1) => (Big <=> mxmd.version = 1)
<1>1. node(1).class = <<"Header1", "Header2", "Header3">>[mxmd.version]
  BY DEF IsModelGraph, ClassesKnown, node
<1>2. /\ mxmd.version = 1 => node(1).class = "Header1"
      /\ mxmd.version = 2 => node(1).class = "Header2"
      /\ mxmd.version = 3 => node(1).class = "Header3"
  BY <1>1
<1>3. \A c \in {"Header1", "Header2", "Header3"} : c \in DOMAIN HeaderRows
  BY DEF HeaderRows
<1>4. node(1).class \in DOMAIN HeaderRows
  BY <1>2, <1>3
<1>5. RowOf(1).pointers = HeaderPointers
  BY <1>4, HeaderRowsOnly, HeadersAreRight DEF RowOf
<1>6. /\ mxmd.version = 1 => RowOf(1).order = "big"
      /\ mxmd.version # 1 => RowOf(1).order = "little"
  BY <1>2, HeaderOrder DEF RowOf
<1>7. ~Misordered(1) => (Big <=> mxmd.version = 1)
  BY <1>6 DEF Misordered
<1> QED
  BY <1>2, <1>5, <1>7

LEMMA HeaderGoesOn ==
  ASSUME IsModelGraph(mxmd), tool \in ToolNames, mxmd.version \in 1 .. 3, NEW p,
         node(1).class \in DOMAIN FollowedBy[tool], p \in FollowedBy[tool][node(1).class],
         Behind(1, p) # <<>>, ~LeftOut(p)
  PROVE  \E k \in DOMAIN Followed :
           \A e \in ToSet(Behind(1, p)) : e \in ToSet(RootsBehind(Followed[k]))
<1>1. CASE mxmd.version = 1
  <2>1. Followed = <<"models", "shaders", "materials", "cachedTextures", "uncachedTextures">>
    BY <1>1 DEF Followed
  <2>2. DOMAIN Followed = 1 .. 5
    BY <2>1
  <2>3. p \in HeaderPointers
    BY <1>1, HeaderClass, FollowedOfHeaders
  <2>4. CASE p = "streams"
    <3>1. Wanted("models")
      BY <1>1, <2>4 DEF LeftOut
    <3>2. 1 \in DOMAIN Followed /\ Followed[1] = "models"
      BY <2>1
    <3>3. \A e \in ToSet(Behind(1, p)) : e \in ToSet(RootsBehind("models"))
      BY <1>1, <2>4, <3>1, RootsOfPart
    <3> QED
      BY <3>2, <3>3
  <2>5. CASE p # "streams"
    <3>1. \E k \in DOMAIN Followed : Followed[k] = p
      <4>1. p \in {"models", "materials", "shaders", "cachedTextures", "uncachedTextures"}
        BY <2>3, <2>5 DEF HeaderPointers
      <4>2. /\ Followed[1] = "models" /\ Followed[2] = "shaders" /\ Followed[3] = "materials"
            /\ Followed[4] = "cachedTextures" /\ Followed[5] = "uncachedTextures"
        BY <2>1
      <4> QED
        BY <2>2, <4>1, <4>2
    <3>2. p \in DOMAIN PartOf
      BY <2>3, <2>5 DEF PartOf, HeaderPointers
    <3>3. Wanted(p)
      BY <1>1, <2>5, <3>2 DEF LeftOut, Reviewed
    <3> QED
      BY <3>1, <3>3, RootsOfPart
  <2> QED
    BY <2>4, <2>5
<1>2. CASE mxmd.version = 2
  <2>1. Followed = <<"cachedTextures", "uncachedTextures">>
    BY <1>2 DEF Followed
  <2>2. p \in {"cachedTextures", "uncachedTextures"}
    BY <1>2, HeaderClass, FollowedOfHeaders
  <2>3. \E k \in DOMAIN Followed : Followed[k] = p
    <3>1. DOMAIN Followed = 1 .. 2 /\ Followed[1] = "cachedTextures" /\ Followed[2] = "uncachedTextures"
      BY <2>1
    <3> QED
      BY <2>2, <3>1
  <2>4. Wanted(p)
    BY <1>2, <2>2 DEF LeftOut, Reviewed
  <2> QED
    BY <2>3, <2>4, RootsOfPart
<1>3. CASE mxmd.version = 3
  <2>1. Followed = <<"models", "materials", "uncachedTextures">>
    BY <1>3 DEF Followed
  <2>2. p \in {"models", "uncachedTextures"}
    BY <1>3, HeaderClass, FollowedOfHeaders
  <2>3. \E k \in DOMAIN Followed : Followed[k] = p
    <3>1. DOMAIN Followed = 1 .. 3 /\ Followed[1] = "models" /\ Followed[3] = "uncachedTextures"
      BY <2>1
    <3> QED
      BY <2>2, <3>1
  <2>4. Wanted(p)
    BY <1>3, <2>2 DEF LeftOut, Reviewed, PartOf
  <2> QED
    BY <2>3, <2>4, RootsOfPart
<1> QED
  BY <1>1, <1>2, <1>3

(* What is said of the header afterwards.                                  *)
LEMMA AfterTrim ==
  ASSUME IsModelGraph(mxmd), mxmd' = [mxmd EXCEPT !.nodes[1].kids = LeftPointers], tool' = tool
  PROVE  /\ IsModelGraph(mxmd') /\ Nodes' = Nodes /\ (Big <=> Big') /\ Version' = Version
         /\ \A n \in Nodes : /\ RowOf(n)' = RowOf(n) /\ DOMAIN node(n)'.kids = DOMAIN node(n).kids
                             /\ node(n)'.class = node(n).class
         /\ \A p : Behind(1, p)' = IF LeftOut(p) THEN <<>> ELSE Behind(1, p)
         /\ mxmd'.version = mxmd.version
<1>1. /\ Trimmed(mxmd, mxmd') /\ mxmd'.magic = mxmd.magic
      /\ \A p : LeftOut(p) => KidsOf(mxmd', 1, p) = <<>>
      /\ \A p : ~LeftOut(p) => KidsOf(mxmd', 1, p) = KidsOf(mxmd, 1, p)
  BY HeaderTrims
<1>2. IsModelGraph(mxmd')
  BY <1>1, TrimmedIsGraph
<1>3. Nodes' = Nodes
  BY <1>1 DEF Trimmed, Nodes
<1>4. \A n \in Nodes : node(n)'.class = node(n).class
  BY <1>1 DEF Trimmed, Nodes, node
<1>5. \A n \in Nodes : DOMAIN node(n)'.kids = DOMAIN node(n).kids
  BY <1>1 DEF Trimmed, Nodes, node
<1>6. \A n \in Nodes : RowOf(n)' = RowOf(n)
  BY <1>4 DEF RowOf
<1>7. Version' = Version
  BY <1>1 DEF Trimmed, Version, Behind
<1>8. (Big <=> Big')
  BY <1>1 DEF Big
<1>9. \A p : Behind(1, p)' = IF LeftOut(p) THEN <<>> ELSE Behind(1, p)
  BY <1>1 DEF Behind
<1>10. mxmd'.version = mxmd.version
  BY <1>1 DEF Trimmed
<1> QED
  BY <1>2, <1>3, <1>4, <1>5, <1>6, <1>7, <1>8, <1>9, <1>10

LEMMA StepProcessHeader ==
  ASSUME LoadInv, ProcessHeader
  PROVE  LoadInv'
<1> DEFINE td == FlattenSeq([k \in DOMAIN Followed |-> RootsBehind(Followed[k])])
<1>1. /\ loading = "walk" /\ loading' = "walk" /\ Head(todo) = 1 /\ todo # <<>> /\ ~Misordered(1)
      /\ fixed' = PointersMade(1, HeaderPointers) /\ todo' = td
      /\ mxmd' = [mxmd EXCEPT !.nodes[1].kids = LeftPointers] /\ tool' = tool
      /\ swaps' = IF mxmd.version = 1 THEN Swapped({1, Version}) ELSE swaps
  BY DEF ProcessHeader, AtHeader
<1>2. GraphRight /\ (BeforeHeader \/ \E P : AfterHeader(P))
  BY <1>1 DEF LoadInv
<1>3. BeforeHeader
  <2> SUFFICES ASSUME NEW P, AfterHeader(P) PROVE FALSE
    BY <1>2
  <2>1. 1 \in P /\ todo \in Seq(Nodes) /\ ToSet(todo) \cap P = {}
    BY DEF AfterHeader, Waiting
  <2>2. 1 \in ToSet(todo)
    BY <1>1, <2>1 DEF ToSet
  <2> QED
    BY <2>1, <2>2
<1>4. IsModelGraph(mxmd) /\ tool \in ToolNames /\ DOMAIN swaps = Nodes /\ DOMAIN fixed = Nodes
  BY <1>2 DEF GraphRight
<1>5. /\ mxmd.version \in 1 .. 3 /\ NothingFixed(Nodes)
      /\ \A n \in Nodes \ {Version} : swaps[n] = 0
      /\ swaps[Version] = (IF Big THEN 1 ELSE 0) + (IF mxmd.version = 1 THEN 1 ELSE 0)
  BY <1>3 DEF BeforeHeader
<1>6. /\ IsModelGraph(mxmd') /\ Nodes' = Nodes /\ (Big <=> Big') /\ Version' = Version
      /\ \A n \in Nodes : /\ RowOf(n)' = RowOf(n) /\ DOMAIN node(n)'.kids = DOMAIN node(n).kids
                          /\ node(n)'.class = node(n).class
      /\ \A p : Behind(1, p)' = IF LeftOut(p) THEN <<>> ELSE Behind(1, p)
      /\ mxmd'.version = mxmd.version
  BY <1>1, <1>4, AfterTrim
<1>7. 1 \in Nodes /\ Version \in Nodes /\ Version # 1
  <2>1. 1 \in Nodes /\ Version \in Nodes /\ Behind(1, "version") \in Seq(Nodes)
    BY <1>4, NodeFacts
  <2>2. Behind(1, "version") # <<>> /\ "version" \in ProcessedBehind(mxmd, 1)
    BY <1>4 DEF IsModelGraph, ClassesKnown, Behind, ProcessedBehind
  <2>3. Version \in ToSet(Behind(1, "version"))
    BY <2>1, <2>2 DEF Version, ToSet
  <2>4. ToSet(Behind(1, "version")) \cap ({1} \cup ToSet(mxmd.stream)) = {}
    BY <1>4, <2>1, <2>2 DEF IsModelGraph, HasRoots, Behind, Nodes
  <2> QED
    BY <2>1, <2>3, <2>4
<1>8. (Big <=> mxmd.version = 1) /\ RowOf(1).pointers = HeaderPointers
  BY <1>1, <1>4, <1>5, HeaderClass
<1>9. /\ td \in Seq(Nodes) /\ Distinct(td)
      /\ \A e \in ToSet(td) : \E p \in HeaderPointers : e \in ToSet(Behind(1, p)) /\ ~LeftOut(p)
      /\ \A k \in DOMAIN Followed : \A e \in ToSet(RootsBehind(Followed[k])) : e \in ToSet(td)
  BY <1>4, RootsAreRight
<1> HIDE DEF td
<1>10. /\ DOMAIN fixed' = Nodes /\ \A m \in Nodes : m # 1 => fixed'[m] = fixed[m]
       /\ DOMAIN fixed'[1] = DOMAIN fixed[1]
       /\ \A p \in DOMAIN fixed[1] :
            fixed'[1][p] = IF p \in HeaderPointers THEN fixed[1][p] + 1 ELSE fixed[1][p]
  BY <1>1, <1>4, <1>7, PointersCounted
<1>11. DOMAIN swaps' = Nodes
  BY <1>1, <1>4 DEF Swapped
<1>12. GraphRight'
  <2>1. \A n \in Nodes : DOMAIN fixed[n] = DOMAIN node(n).kids
    BY <1>2 DEF GraphRight
  <2>2. \A n \in Nodes : DOMAIN fixed'[n] = DOMAIN node(n)'.kids
    BY <1>6, <1>10, <2>1
  <2> QED
    BY <1>1, <1>4, <1>6, <1>10, <1>11, <2>2 DEF GraphRight
<1>13. ASSUME NEW e \in ToSet(td) PROVE Child(1, e)'
  <2>1. PICK p \in HeaderPointers : e \in ToSet(Behind(1, p)) /\ ~LeftOut(p)
    BY <1>9
  <2>2. p \in ProcessedBehind(mxmd, 1)' /\ p # "version"
    BY DEF ProcessedBehind, HeaderPointers
  <2>3. Behind(1, p)' = Behind(1, p)
    BY <1>6, <2>1
  <2>4. (e \in ToSet(Behind(1, p)))'
    BY <2>1, <2>3
  <2> QED
    BY <2>2, <2>4 DEF Child
<1>14. Waiting({1})'
  <2>1. 1 \notin ToSet(td)
    <3> SUFFICES ASSUME 1 \in ToSet(td) PROVE FALSE
      OBVIOUS
    <3>1. PICK p \in HeaderPointers : 1 \in ToSet(Behind(1, p))
      BY <1>9
    <3>2. p \in ProcessedBehind(mxmd, 1)
      BY DEF ProcessedBehind
    <3>3. ToSet(Behind(1, p)) \cap ({1} \cup ToSet(mxmd.stream)) = {}
      BY <1>4, <1>7, <3>2 DEF IsModelGraph, HasRoots, Behind, Nodes
    <3> QED
      BY <3>1, <3>3
  <2>2. \A e \in {1} \cup ToSet(td) : e = 1 \/ Child(1, e)'
    BY <1>13
  <2>3. todo' = td
    BY <1>1
  <2>4. \A e \in {1} \cup ToSet(todo') :
          (e = 1 \/ e \in ToSet(mxmd.stream) \/ \E m \in {1} : Child(m, e))'
    BY <2>2, <2>3
  <2>5. ToSet(todo') \cap {1} = {}
    BY <2>1, <2>3
  <2>6. todo' \in Seq(Nodes') /\ Distinct(todo') /\ {1} \subseteq Nodes'
    BY <1>6, <1>7, <1>9, <2>3
  <2> QED
    BY <2>4, <2>5, <2>6 DEF Waiting
<1>15. GoneOn({1})'
  <2> SUFFICES ASSUME NEW p, p \in Follows(1)', NEW e, e \in ToSet(Behind(1, p)')
               PROVE  e \in ToSet(todo')
    BY DEF GoneOn
  <2>1. /\ node(1)'.class \in DOMAIN FollowedBy[tool'] /\ p \in FollowedBy[tool'][node(1)'.class]
        /\ Behind(1, p)' # <<>>
    BY DEF Follows
  <2>2. node(1).class \in DOMAIN FollowedBy[tool] /\ p \in FollowedBy[tool][node(1).class]
    BY <1>1, <1>6, <1>7, <2>1
  <2>3. ~LeftOut(p) /\ Behind(1, p) # <<>> /\ e \in ToSet(Behind(1, p))
    BY <1>6, <2>1
  <2>4. PICK k \in DOMAIN Followed :
          \A x \in ToSet(Behind(1, p)) : x \in ToSet(RootsBehind(Followed[k]))
    BY <1>4, <1>5, <2>2, <2>3, HeaderGoesOn
  <2> QED
    BY <1>1, <1>9, <2>3, <2>4
<1>16. Turned({1})'
  <2>1. ~Misordered(1)'
    BY <1>1, <1>6, <1>7 DEF Misordered
  <2>2. /\ swaps'[1] = IF Big THEN 1 ELSE 0
        /\ \A n \in Nodes \ {1} : ~Big \/ n # Version => swaps'[n] = 0
    <3>1. CASE Big
      <4>1. swaps' = [n \in Nodes |-> IF n \in {1, Version} THEN swaps[n] + 1 ELSE swaps[n]]
        BY <1>1, <1>4, <1>8, <3>1 DEF Swapped
      <4> QED
        BY <1>5, <1>7, <3>1, <4>1
    <3>2. CASE ~Big
      <4>1. swaps' = swaps
        BY <1>1, <1>8, <3>2
      <4>2. swaps[Version] = 0
        BY <1>5, <1>8, <3>2
      <4> QED
        BY <1>5, <1>7, <3>2, <4>1, <4>2
    <3> QED
      BY <3>1, <3>2
  <2> QED
    BY <1>5, <1>6, <2>1, <2>2 DEF Turned
<1>17. MadeOnce({1})'
  <2>1. \A n \in Nodes : DOMAIN fixed[n] = DOMAIN node(n).kids
    BY <1>2 DEF GraphRight
  <2>2. \A n \in Nodes : \A p \in DOMAIN node(n).kids : fixed[n][p] = 0
    BY <1>5 DEF NothingFixed
  <2>3. \A p \in HeaderPointers : p \in DOMAIN node(1).kids => fixed'[1][p] = 1
    BY <1>7, <1>10, <2>1, <2>2
  <2>4. \A n \in Nodes \ {1} : \A p \in DOMAIN node(n).kids : fixed'[n][p] = 0
    BY <1>10, <2>2
  <2>5. NothingFixed(Nodes \ {1})'
    BY <1>6, <2>4 DEF NothingFixed
  <2> QED
    BY <1>6, <1>7, <1>8, <2>3, <2>5 DEF MadeOnce
<1>18. AfterHeader({1})'
  BY <1>14, <1>15, <1>16, <1>17 DEF AfterHeader
<1> QED
  BY <1>1, <1>12, <1>18 DEF LoadInv

(* A node comes to be handled.                                             *)
LEMMA HandledNode ==
  ASSUME GraphRight, NEW P, AfterHeader(P), NEW n, n \in Nodes \ P, n # 1, n # Version,
         n \in ToSet(mxmd.stream) \/ \E m \in P : Child(m, n)
  PROVE  /\ \A e : Child(n, e) => e \notin P /\ e # n
         /\ \A e : Child(n, e) => \A m \in P : ~Child(m, e)
<1>1. IsModelGraph(mxmd) /\ P \subseteq Nodes /\ n \in Nodes /\ n \notin P
  BY DEF GraphRight, AfterHeader, Waiting
<1>2. \A e \in P : e = 1 \/ e \in ToSet(mxmd.stream) \/ \E m \in P : Child(m, e)
  BY DEF AfterHeader, Waiting
<1>3. ASSUME NEW e, Child(n, e) PROVE \A m \in P : ~Child(m, e)
  BY <1>1, <1>3, ChildFacts
<1>4. ASSUME NEW e, Child(n, e) PROVE e \notin P /\ e # n
  <2>1. e # 1 /\ e \notin ToSet(mxmd.stream)
    BY <1>1, <1>4, ChildFacts
  <2> QED
    BY <1>2, <1>3, <1>4, <2>1
<1> QED
  BY <1>3, <1>4

LEMMA VersionApart ==
  ASSUME IsModelGraph(mxmd)
  PROVE  Version # 1 /\ Version \notin ToSet(mxmd.stream)
<1>1. 1 \in Nodes /\ Version \in Nodes /\ Behind(1, "version") \in Seq(Nodes)
  BY NodeFacts
<1>2. Behind(1, "version") # <<>> /\ "version" \in ProcessedBehind(mxmd, 1)
  BY DEF IsModelGraph, ClassesKnown, Behind, ProcessedBehind
<1>3. Version \in ToSet(Behind(1, "version"))
  BY <1>1, <1>2 DEF Version, ToSet
<1>4. ToSet(Behind(1, "version")) \cap ({1} \cup ToSet(mxmd.stream)) = {}
  BY <1>1, <1>2 DEF IsModelGraph, HasRoots, Behind, Nodes
<1> QED
  BY <1>3, <1>4

LEMMA StepProcessNode ==
  ASSUME LoadInv, ProcessNode
  PROVE  LoadInv'
<1>1. PICK n : n = Head(todo)
  OBVIOUS
<1>2. /\ loading = "walk" /\ loading' = "walk" /\ n # 1 /\ todo # <<>> /\ ~Misordered(n)
      /\ fixed' = PointersMade(n, RowOf(n).pointers) /\ todo' = Visited(n) \o Tail(todo)
      /\ mxmd' = mxmd /\ tool' = tool
      /\ swaps' = IF SwapsSelf(n) THEN Swapped({n}) ELSE swaps
  BY <1>1 DEF ProcessNode, AtNode, Refused
<1>3. GraphRight /\ (BeforeHeader \/ \E P : AfterHeader(P))
  BY <1>2 DEF LoadInv
<1>4. ~BeforeHeader
  BY <1>1, <1>2 DEF BeforeHeader
<1>5. PICK P : AfterHeader(P)
  BY <1>3, <1>4
<1>6. /\ IsModelGraph(mxmd) /\ tool \in ToolNames /\ DOMAIN swaps = Nodes /\ DOMAIN fixed = Nodes
      /\ \A m \in Nodes : DOMAIN fixed[m] = DOMAIN node(m).kids
  BY <1>3 DEF GraphRight
<1>7. /\ 1 \in P /\ P \subseteq Nodes
      /\ todo \in Seq(Nodes) /\ Distinct(todo) /\ ToSet(todo) \cap P = {}
      /\ \A e \in P \cup ToSet(todo) :
           e = 1 \/ e \in ToSet(mxmd.stream) \/ \E m \in P : Child(m, e)
  BY <1>5 DEF AfterHeader, Waiting
<1> DEFINE rest == Tail(todo)
<1>8. /\ n \in Nodes /\ rest \in Seq(Nodes) /\ Distinct(rest)
      /\ n \in ToSet(todo) /\ n \notin ToSet(rest)
      /\ \A e : e \in ToSet(todo) <=> e = n \/ e \in ToSet(rest)
  <2>1. /\ n = todo[1] /\ rest \in Seq(Nodes) /\ Len(todo) \in Nat \ {0}
        /\ Len(rest) = Len(todo) - 1 /\ \A i \in 1 .. Len(rest) : rest[i] = todo[i + 1]
    BY <1>1, <1>2, <1>7
  <2>2. DOMAIN todo = 1 .. Len(todo) /\ DOMAIN rest = 1 .. Len(rest)
    BY <1>7, <2>1
  <2> HIDE DEF rest
  <2>3. \A i, j \in 1 .. Len(todo) : todo[i] = todo[j] => i = j
    BY <1>7, <2>2 DEF Distinct
  <2>4. \A i \in 1 .. Len(rest) : i + 1 \in 1 .. Len(todo) /\ i + 1 # 1
    BY <2>1
  <2>5. Distinct(rest)
    <3> SUFFICES ASSUME NEW i \in 1 .. Len(rest), NEW j \in 1 .. Len(rest), rest[i] = rest[j]
                 PROVE  i = j
      BY <2>2 DEF Distinct
    <3>1. todo[i + 1] = todo[j + 1]
      BY <2>1
    <3>2. i + 1 = j + 1
      BY <2>3, <2>4, <3>1
    <3> QED
      BY <3>2
  <2>6. n \notin ToSet(rest)
    <3> SUFFICES ASSUME NEW i \in 1 .. Len(rest), rest[i] = n PROVE FALSE
      BY <2>2 DEF ToSet
    <3>1. todo[i + 1] = todo[1]
      BY <2>1
    <3>2. 1 \in 1 .. Len(todo)
      BY <2>1
    <3> QED
      BY <2>3, <2>4, <3>1, <3>2
  <2>7. 1 \in 1 .. Len(todo) /\ n \in ToSet(todo) /\ n \in Nodes
    BY <1>7, <2>1, <2>2 DEF ToSet
  <2>8. ASSUME NEW e \in ToSet(todo) PROVE e = n \/ e \in ToSet(rest)
    <3>1. PICK i \in 1 .. Len(todo) : todo[i] = e
      BY <2>2 DEF ToSet
    <3>2. CASE i = 1
      BY <2>1, <3>1, <3>2
    <3>3. CASE i # 1
      <4>1. PICK j \in 1 .. Len(rest) : j + 1 = i
        <5>1. i - 1 \in 1 .. Len(rest) /\ (i - 1) + 1 = i
          BY <2>1, <3>3
        <5> QED
          BY <5>1
      <4>2. rest[j] = e
        BY <2>1, <3>1, <4>1
      <4> QED
        BY <2>2, <4>2 DEF ToSet
    <3> QED
      BY <3>2, <3>3
  <2>9. ASSUME NEW e \in ToSet(rest) PROVE e \in ToSet(todo)
    <3>1. PICK i \in 1 .. Len(rest) : rest[i] = e
      BY <2>2 DEF ToSet
    <3>2. todo[i + 1] = e /\ i + 1 \in DOMAIN todo
      BY <2>1, <2>2, <2>4, <3>1
    <3> QED
      BY <3>2 DEF ToSet
  <2> QED
    BY <2>1, <2>5, <2>6, <2>7, <2>8, <2>9
<1> HIDE DEF rest
<1>9. n \notin P /\ n # Version
  <2>1. n \notin P
    BY <1>7, <1>8
  <2>2. n \in ToSet(mxmd.stream) \/ \E m \in P : Child(m, n)
    BY <1>2, <1>7, <1>8
  <2> QED
    BY <1>6, <1>7, <2>1, <2>2, ChildFacts, VersionApart
<1>10. /\ \A e : Child(n, e) => e \notin P /\ e # n
      /\ \A e : Child(n, e) => \A m \in P : ~Child(m, e)
  BY <1>2, <1>3, <1>5, <1>7, <1>8, <1>9, HandledNode
<1> DEFINE v == Visited(n)
<1>11. /\ v \in Seq(Nodes) /\ Distinct(v)
       /\ \A e \in ToSet(v) : Child(n, e)
       /\ \A p \in ToSet(RowOf(n).visits) : Visits(n, p) =>
            \A e \in ToSet(Behind(n, p)) : e \in ToSet(v)
  BY <1>2, <1>6, <1>8, VisitedIsRight
<1>12. todo' = v \o rest
  BY <1>2 DEF rest
<1> HIDE DEF v
<1>13. ToSet(v) \cap ToSet(rest) = {}
  <2> SUFFICES ASSUME NEW e, e \in ToSet(v), e \in ToSet(rest) PROVE FALSE
    OBVIOUS
  <2>1. Child(n, e)
    BY <1>11
  <2>2. e # 1 /\ e \notin ToSet(mxmd.stream)
    BY <1>6, <1>8, <2>1, ChildFacts
  <2>3. \E m \in P : Child(m, e)
    BY <1>7, <1>8, <2>2
  <2> QED
    BY <1>10, <2>1, <2>3
<1>14. /\ todo' \in Seq(Nodes) /\ Distinct(todo')
       /\ \A e : e \in ToSet(todo') <=> e \in ToSet(v) \/ e \in ToSet(rest)
  BY <1>8, <1>11, <1>12, <1>13, ConcatDistinct
<1>15. /\ Nodes' = Nodes /\ (Big <=> Big') /\ Version' = Version
       /\ \A m : RowOf(m)' = RowOf(m) /\ node(m)' = node(m) /\ Follows(m)' = Follows(m)
       /\ \A m, p : Behind(m, p)' = Behind(m, p)
       /\ \A m, e : Child(m, e) <=> Child(m, e)'
       /\ \A m : Misordered(m) <=> Misordered(m)'
  BY <1>2, SameGraph
<1>16. /\ DOMAIN fixed' = Nodes /\ \A m \in Nodes : m # n => fixed'[m] = fixed[m]
       /\ DOMAIN fixed'[n] = DOMAIN fixed[n]
       /\ \A p \in DOMAIN fixed[n] :
            fixed'[n][p] = IF p \in RowOf(n).pointers THEN fixed[n][p] + 1 ELSE fixed[n][p]
  BY <1>2, <1>6, <1>8, PointersCounted
<1>17. DOMAIN swaps' = Nodes
  BY <1>2, <1>6 DEF Swapped
<1>18. GraphRight'
  <2>1. \A m \in Nodes : DOMAIN fixed'[m] = DOMAIN fixed[m]
    BY <1>16
  <2>2. \A m \in Nodes : DOMAIN fixed'[m] = DOMAIN node(m)'.kids
    BY <1>6, <1>15, <2>1
  <2> QED
    BY <1>2, <1>6, <1>15, <1>16, <1>17, <2>2 DEF GraphRight
<1>19. PICK Q : Q = P \cup {n}
  OBVIOUS
<1>20. Waiting(Q)'
  <2>1. ToSet(todo') \cap Q = {}
    <3> SUFFICES ASSUME NEW e, e \in ToSet(todo'), e \in Q PROVE FALSE
      OBVIOUS
    <3>1. CASE e \in ToSet(v)
      BY <1>10, <1>11, <1>19, <3>1
    <3>2. CASE e \in ToSet(rest)
      BY <1>7, <1>8, <1>19, <3>2
    <3> QED
      BY <1>14, <3>1, <3>2
  <2>2. \A e \in Q \cup ToSet(todo') :
          e = 1 \/ e \in ToSet(mxmd.stream) \/ \E m \in Q : Child(m, e)
    <3> SUFFICES ASSUME NEW e \in Q \cup ToSet(todo'), e # 1, e \notin ToSet(mxmd.stream)
                 PROVE  \E m \in Q : Child(m, e)
      OBVIOUS
    <3>1. CASE e \in ToSet(v)
      BY <1>11, <1>19, <3>1
    <3>2. CASE e \notin ToSet(v)
      <4>1. e \in P \cup ToSet(todo)
        BY <1>8, <1>14, <1>19, <3>2
      <4> QED
        BY <1>7, <1>19, <4>1
    <3> QED
      BY <3>1, <3>2
  <2>3. \A e \in Q \cup ToSet(todo') :
          (e = 1 \/ e \in ToSet(mxmd.stream) \/ \E m \in Q : Child(m, e))'
    BY <1>2, <1>15, <2>2
  <2>4. 1 \in Q /\ Q \subseteq Nodes
    BY <1>7, <1>8, <1>19
  <2> QED
    BY <1>14, <1>15, <2>1, <2>3, <2>4 DEF Waiting
<1>21. GoneOn(Q)'
  <2> SUFFICES ASSUME NEW m \in Q, NEW p \in Follows(m)', (p \in ProcessedBehind(mxmd, m))',
                      NEW e \in ToSet(Behind(m, p)')
               PROVE  e \in Q \/ e \in ToSet(todo')
    BY DEF GoneOn
  <2>1. p \in Follows(m) /\ e \in ToSet(Behind(m, p)) /\ p \in ProcessedBehind(mxmd, m)
    BY <1>2, <1>15
  <2>2. CASE m \in P
    <3>1. e \in P \/ e \in ToSet(todo)
      BY <1>5, <2>1, <2>2 DEF AfterHeader, GoneOn
    <3> QED
      BY <1>8, <1>14, <1>19, <3>1
  <2>3. CASE m = n
    <3>1. p \in ToSet(RowOf(n).visits)
      BY <1>2, <2>1, <2>3 DEF ProcessedBehind, RowOf, node
    <3>2. Visits(n, p)
      BY <2>1, <2>3 DEF Follows
    <3>3. e \in ToSet(v)
      BY <1>11, <2>1, <2>3, <3>1, <3>2
    <3> QED
      BY <1>14, <3>3
  <2> QED
    BY <1>19, <2>2, <2>3
<1>22. Turned(Q)'
  <2>1. /\ mxmd.version \in 1 .. 3 /\ \A m \in P : ~Misordered(m)
        /\ \A m \in P : swaps[m] = IF Big THEN 1 ELSE 0
        /\ \A m \in Nodes \ P : ~Big \/ m # Version => swaps[m] = 0
    BY <1>5 DEF AfterHeader, Turned
  <2>2. \A m \in Q : ~Misordered(m)'
    BY <1>2, <1>15, <1>19, <2>1
  <2>3. swaps[n] = 0
    BY <1>8, <1>9, <2>1
  <2>4. RowOf(n).order \in {"any", "big", "little"}
    BY <1>6, <1>8, NodeFacts DEF RowRight, RowShape
  <2>5. SwapsSelf(n) <=> Big
    BY <1>2, <2>4 DEF SwapsSelf, Misordered
  <2>6. /\ \A m \in Q : swaps'[m] = IF Big THEN 1 ELSE 0
        /\ \A m \in Nodes \ Q : ~Big \/ m # Version => swaps'[m] = 0
    <3>1. CASE Big
      <4>1. swaps' = [m \in Nodes |-> IF m \in {n} THEN swaps[m] + 1 ELSE swaps[m]]
        BY <1>2, <1>6, <2>5, <3>1 DEF Swapped
      <4> QED
        BY <1>7, <1>8, <1>9, <1>19, <2>1, <2>3, <3>1, <4>1
    <3>2. CASE ~Big
      <4>1. swaps' = swaps
        BY <1>2, <2>5, <3>2
      <4> QED
        BY <1>19, <2>1, <2>3, <3>2, <4>1
    <3> QED
      BY <3>1, <3>2
  <2> QED
    BY <1>2, <1>15, <2>1, <2>2, <2>6 DEF Turned
<1>23. MadeOnce(Q)'
  <2>1. /\ \A m \in P : \A p \in RowOf(m).pointers : p \in DOMAIN node(m).kids => fixed[m][p] = 1
        /\ \A m \in Nodes \ P : \A p \in DOMAIN node(m).kids : fixed[m][p] = 0
    BY <1>5 DEF AfterHeader, MadeOnce, NothingFixed
  <2>2. \A p \in RowOf(n).pointers : p \in DOMAIN node(n).kids => fixed'[n][p] = 1
    BY <1>6, <1>8, <1>9, <1>16, <2>1
  <2>3. \A m \in P : \A p \in RowOf(m).pointers : p \in DOMAIN node(m).kids => fixed'[m][p] = 1
    BY <1>7, <1>9, <1>16, <2>1
  <2>4. \A m \in Nodes \ Q : \A p \in DOMAIN node(m).kids : fixed'[m][p] = 0
    BY <1>16, <1>19, <2>1
  <2>5. NothingFixed(Nodes \ Q)'
    BY <1>15, <2>4 DEF NothingFixed
  <2>6. \A m \in Q : \A p \in RowOf(m)'.pointers : p \in DOMAIN node(m)'.kids => fixed'[m][p] = 1
    BY <1>15, <1>19, <2>2, <2>3
  <2> QED
    BY <2>5, <2>6 DEF MadeOnce
<1>24. AfterHeader(Q)'
  BY <1>20, <1>21, <1>22, <1>23 DEF AfterHeader
<1> QED
  BY <1>2, <1>18, <1>24 DEF LoadInv

LEMMA OnlyOne ==
  ASSUME NEW S, NEW s \in Seq(S), s # <<>>, Len(s) <= 1
  PROVE  Len(s) = 1 /\ DOMAIN s = 1 .. 1
<1>1. Len(s) \in Nat /\ DOMAIN s = 1 .. Len(s)
  OBVIOUS
<1>2. Len(s) # 0
  OBVIOUS
<1>3. Len(s) = 1
  BY <1>1, <1>2
<1> QED
  BY <1>1, <1>3

LEMMA StepLoadStream ==
  ASSUME LoadInv, LoadStream
  PROVE  LoadInv'
<1>1. /\ loading = "walk" /\ loading' = "walk" /\ todo = <<>> /\ todo' = mxmd.stream
      /\ mxmd.stream # <<>> /\ fixed[mxmd.stream[1]].vertexBuffers = 0
      /\ UNCHANGED <<mxmd, tool, swaps, fixed>>
  BY DEF LoadStream, AtStream, StreamNext
<1>2. GraphRight /\ (BeforeHeader \/ \E P : AfterHeader(P))
  BY <1>1 DEF LoadInv
<1>3. ~BeforeHeader
  BY <1>1 DEF BeforeHeader
<1>4. PICK P : AfterHeader(P)
  BY <1>2, <1>3
<1>5. /\ IsModelGraph(mxmd) /\ tool \in ToolNames /\ DOMAIN swaps = Nodes /\ DOMAIN fixed = Nodes
      /\ \A m \in Nodes : DOMAIN fixed[m] = DOMAIN node(m).kids
  BY <1>2 DEF GraphRight
<1>6. /\ 1 \in P /\ P \subseteq Nodes
      /\ \A e \in P : e = 1 \/ e \in ToSet(mxmd.stream) \/ \E m \in P : Child(m, e)
  BY <1>4 DEF AfterHeader, Waiting
<1>7. PICK s : s = mxmd.stream
  OBVIOUS
<1>8. s \in Seq(Nodes) /\ Len(s) <= 1 /\ s # <<>>
  BY <1>1, <1>5, <1>7 DEF IsModelGraph, HasRoots, Nodes
<1>9. DOMAIN s = {1} /\ s[1] \in Nodes
  <2>1. Len(s) = 1 /\ DOMAIN s = 1 .. 1
    BY <1>8, OnlyOne
  <2> QED
    BY <1>8, <2>1
<1>10. Distinct(s) /\ ToSet(s) = {s[1]}
  BY <1>9 DEF Distinct, ToSet
<1>11. s[1] \notin P
  <2>1. node(s[1]).class = "Stream3" /\ "vertexBuffers" \in DOMAIN node(s[1]).kids
    BY <1>5, <1>7, <1>10 DEF IsModelGraph, HasRoots, node
  <2>2. "vertexBuffers" \in RowOf(s[1]).pointers
    BY <2>1, StreamRow DEF RowOf
  <2>3. s[1] \in P => fixed[s[1]]["vertexBuffers"] = 1
    BY <1>4, <2>1, <2>2 DEF AfterHeader, MadeOnce
  <2>4. fixed[s[1]]["vertexBuffers"] = 0
    BY <1>1, <1>7
  <2> QED
    BY <2>3, <2>4
<1>12. /\ Nodes' = Nodes /\ (Big <=> Big') /\ Version' = Version
       /\ \A m : RowOf(m)' = RowOf(m) /\ node(m)' = node(m) /\ Follows(m)' = Follows(m)
       /\ \A m, p : Behind(m, p)' = Behind(m, p)
       /\ \A m, e : Child(m, e) <=> Child(m, e)'
       /\ \A m : Misordered(m) <=> Misordered(m)'
  BY <1>1, SameGraph
<1>13. GraphRight'
  BY <1>1, <1>5, <1>12 DEF GraphRight
<1>14. Waiting(P)'
  <2>1. todo' = s /\ mxmd'.stream = s
    BY <1>1, <1>7
  <2>2. ToSet(s) \cap P = {}
    BY <1>10, <1>11
  <2>3. \A e \in P \cup ToSet(s) : e = 1 \/ e \in ToSet(s) \/ \E m \in P : Child(m, e)'
    BY <1>6, <1>7, <1>12
  <2> QED
    BY <1>6, <1>8, <1>10, <1>12, <2>1, <2>2, <2>3 DEF Waiting
<1>15. GoneOn(P)'
  <2> SUFFICES ASSUME NEW m \in P, NEW p \in Follows(m)', (p \in ProcessedBehind(mxmd, m))',
                      NEW e \in ToSet(Behind(m, p)')
               PROVE  e \in P
    BY DEF GoneOn
  <2>1. p \in Follows(m) /\ e \in ToSet(Behind(m, p)) /\ p \in ProcessedBehind(mxmd, m)
    BY <1>1, <1>12
  <2>2. ToSet(todo) = {}
    BY <1>1 DEF ToSet
  <2> QED
    BY <1>4, <2>1, <2>2 DEF AfterHeader, GoneOn
<1>16. Turned(P)'
  BY <1>1, <1>4, <1>12 DEF AfterHeader, Turned
<1>17. MadeOnce(P)'
  BY <1>1, <1>4, <1>12 DEF AfterHeader, MadeOnce, NothingFixed
<1> QED
  BY <1>1, <1>13, <1>14, <1>15, <1>16, <1>17 DEF LoadInv, AfterHeader

LEMMA LoadKept ==
  ASSUME LoadInv, UNCHANGED <<mxmd, tool, todo, swaps, fixed>>
  PROVE  /\ GraphRight => GraphRight'
         /\ NothingFixed(Nodes) => NothingFixed(Nodes)'
         /\ BeforeHeader => BeforeHeader'
         /\ \A P : AfterHeader(P) => AfterHeader(P)'
         /\ (StreamNext <=> StreamNext')
<1>1. /\ Nodes' = Nodes /\ (Big <=> Big') /\ Version' = Version
      /\ \A m : RowOf(m)' = RowOf(m) /\ node(m)' = node(m) /\ Follows(m)' = Follows(m)
      /\ \A m, p : Behind(m, p)' = Behind(m, p)
      /\ \A m, e : Child(m, e) <=> Child(m, e)'
      /\ \A m : Misordered(m) <=> Misordered(m)'
  BY SameGraph
<1>2. GraphRight => GraphRight'
  BY <1>1 DEF GraphRight
<1>3. NothingFixed(Nodes) => NothingFixed(Nodes)'
  BY <1>1 DEF NothingFixed
<1>4. BeforeHeader => BeforeHeader'
  BY <1>1, <1>3 DEF BeforeHeader
<1>5. ASSUME NEW P, AfterHeader(P) PROVE AfterHeader(P)'
  <2>1. Waiting(P)'
    BY <1>1, <1>5 DEF AfterHeader, Waiting
  <2>2. GoneOn(P)'
    BY <1>1, <1>5 DEF AfterHeader, GoneOn
  <2>3. Turned(P)'
    BY <1>1, <1>5 DEF AfterHeader, Turned
  <2>4. MadeOnce(P)'
    BY <1>1, <1>5 DEF AfterHeader, MadeOnce, NothingFixed
  <2> QED
    BY <2>1, <2>2, <2>3, <2>4 DEF AfterHeader
<1>6. (StreamNext <=> StreamNext')
  BY <1>1 DEF StreamNext, NeedsStream
<1> QED
  BY <1>2, <1>3, <1>4, <1>5, <1>6

LEMMA StepStop ==
  ASSUME LoadInv, UNCHANGED <<mxmd, tool, todo, swaps, fixed>>,
         \/ loading' \in {"refused", "aborted", "undefined"}
         \/ loading' = "loaded" /\ loading = "walk" /\ todo = <<>> /\ ~StreamNext
  PROVE  LoadInv'
<1>1. CASE loading' \in {"refused", "aborted", "undefined"}
  BY <1>1 DEF LoadInv
<1>2. CASE loading' = "loaded" /\ loading = "walk" /\ todo = <<>> /\ ~StreamNext
  <2>1. ~BeforeHeader
    BY <1>2 DEF BeforeHeader
  <2>2. GraphRight /\ \E P : AfterHeader(P)
    BY <1>2, <2>1 DEF LoadInv
  <2>3. PICK P : AfterHeader(P)
    BY <2>2
  <2>4. GraphRight' /\ AfterHeader(P)' /\ ~StreamNext'
    BY <1>2, <2>2, <2>3, LoadKept
  <2> QED
    BY <1>2, <2>4 DEF LoadInv
<1> QED
  BY <1>1, <1>2

LEMMA StepLoad ==
  ASSUME LoadInv, Load
  PROVE  LoadInv'
<1>1. ASSUME RefuseHeader \/ StopAtHeader \/ StopAtNode \/ StopAtStream PROVE LoadInv'
  <2>1. /\ loading' \in {"refused", "aborted", "undefined"}
        /\ UNCHANGED <<mxmd, tool, todo, swaps, fixed>>
    BY <1>1 DEF RefuseHeader, StopAtHeader, StopAtNode, StopAtStream, Stop
  <2> QED
    BY <2>1, StepStop
<1>2. ASSUME Loaded PROVE LoadInv'
  <2>1. /\ loading = "walk" /\ todo = <<>> /\ ~StreamNext
        /\ loading' \in {"loaded", "refused", "undefined"}
        /\ UNCHANGED <<mxmd, tool, todo, swaps, fixed>>
    BY <1>2 DEF Loaded, Stop
  <2> QED
    BY <2>1, StepStop
<1> QED
  BY <1>1, <1>2, StepHeaderBase, StepProcessHeader, StepProcessNode, StepLoadStream DEF Load

LEMMA LoadStays ==
  ASSUME LoadInv, UNCHANGED loadVars
  PROVE  LoadInv'
<1>1. UNCHANGED <<mxmd, tool, todo, swaps, fixed, loading>>
  BY DEF loadVars
<1>2. Nodes' = Nodes
  BY <1>1 DEF Nodes
<1> QED
  BY <1>1, <1>2, LoadKept DEF LoadInv

-----------------------------------------------------------------------------
(* What a tool comes to in a loaded file was handled, or is data that has  *)
(* the right order as it is.                                               *)
Fit(P, n) ==
  \/ n \in P
  \/ n \in Nodes /\ node(n).class \in {"Bytes", "Words"} /\ (Big => node(n).class = "Bytes")

LEMMA NothingBehindData ==
  ASSUME tool \in ToolNames, NEW n, node(n).class \in {"Bytes", "Words"}
  PROVE  Follows(n) = {}
<1>1. "Bytes" \in DOMAIN PlainRows /\ "Words" \in DOMAIN PlainRows
  BY DEF PlainRows
<1>2. node(n).class \notin DOMAIN FollowedBy[tool]
  BY <1>1, PlainRight
<1> QED
  BY <1>2 DEF Follows

LEMMA PointersFollowed ==
  ASSUME IsModelGraph(mxmd), tool \in ToolNames, NEW n \in Nodes, NEW p \in Follows(n)
  PROVE  /\ p \in RowOf(n).pointers /\ p \in DOMAIN node(n).kids
         /\ n # 1 => \/ RowOf(n).order = "little"
                     \/ p \in ProcessedBehind(mxmd, n) \/ p \in {"name", "data"}
<1>1. /\ node(n).class \in DOMAIN FollowedBy[tool] /\ p \in FollowedBy[tool][node(n).class]
      /\ Behind(n, p) # <<>>
  BY DEF Follows
<1>2. RowRight(node(n).class, RowOf(n))
  BY NodeFacts
<1>3. p \in RowOf(n).pointers
  BY <1>1, <1>2 DEF RowRight, Within
<1>4. p \in DOMAIN node(n).kids
  BY <1>1 DEF Behind, KidsOf, node
<1>5. ASSUME n # 1, RowOf(n).order # "little"
      PROVE  p \in ProcessedBehind(mxmd, n) \/ p \in {"name", "data"}
  <2>1. node(n).class \notin DOMAIN HeaderRows
    BY <1>5 DEF IsModelGraph, ClassesKnown, Nodes, node
  <2>2. Handled(node(n).class, RowOf(n))
    BY <1>2, <2>1 DEF RowRight
  <2>3. p \in ToSet(RowOf(n).visits) \/ p \in {"name", "data"}
    BY <1>1, <1>5, <2>2 DEF Handled
  <2> QED
    BY <1>5, <2>3 DEF ProcessedBehind, RowOf, node
<1> QED
  BY <1>3, <1>4, <1>5

LEMMA OnwardIsFit ==
  ASSUME GraphRight, todo = <<>>, NEW P, AfterHeader(P), NEW ns, \A n \in ns : Fit(P, n)
  PROVE  \A n \in Onward(ns) : Fit(P, n)
<1>1. IsModelGraph(mxmd) /\ tool \in ToolNames /\ P \subseteq Nodes
  BY DEF GraphRight, AfterHeader, Waiting
<1>2. SUFFICES ASSUME NEW n \in ns, NEW p \in Follows(n), NEW e \in ToSet(Behind(n, p))
               PROVE  Fit(P, e)
  BY DEF Onward
<1>3. n \in P
  BY <1>1, NothingBehindData DEF Fit
<1>4. CASE p \in ProcessedBehind(mxmd, n)
  <2>1. ToSet(todo) = {}
    BY DEF ToSet
  <2>2. e \in P
    BY <1>3, <1>4, <2>1 DEF AfterHeader, GoneOn
  <2> QED
    BY <2>2 DEF Fit
<1>5. CASE p \notin ProcessedBehind(mxmd, n)
  <2>1. n \in Nodes /\ p \in RowOf(n).pointers
    BY <1>1, <1>3, PointersFollowed
  <2>2. n # 1
    <3> SUFFICES ASSUME n = 1 PROVE FALSE
      OBVIOUS
    <3>1. p \in HeaderPointers
      BY <1>1, <2>1, HeaderClass DEF AfterHeader, Turned
    <3> QED
      BY <1>5, <3>1 DEF ProcessedBehind
  <2>3. node(e).class \in IF p \in {"name", "data"} THEN {"Bytes"} ELSE {"Bytes", "Words"}
    BY <1>1, <1>5, <2>1, <2>2 DEF IsModelGraph, HasLeaves, Behind, RowOf, node, Nodes
  <2>4. ~Misordered(n)
    BY <1>3 DEF AfterHeader, Turned
  <2>5. Big => p \in {"name", "data"}
    BY <1>1, <1>5, <2>1, <2>2, <2>4, PointersFollowed DEF Misordered
  <2>6. e \in Nodes
    <3>1. Behind(n, p) \in Seq(Nodes)
      BY <1>1, <2>1, NodeFacts
    <3> QED
      BY <3>1 DEF ToSet
  <2> QED
    BY <2>3, <2>5, <2>6 DEF Fit
<1> QED
  BY <1>4, <1>5

LEMMA RootsAreHandled ==
  ASSUME GraphRight, ~StreamNext, NEW P, AfterHeader(P), NeedsStream
  PROVE  \A n \in ToSet(mxmd.stream) : n \in P
<1>1. IsModelGraph(mxmd) /\ \A m \in Nodes \ P : \A p \in DOMAIN node(m).kids : fixed[m][p] = 0
  BY DEF GraphRight, AfterHeader, MadeOnce, NothingFixed
<1>2. PICK s : s = mxmd.stream
  OBVIOUS
<1>3. s \in Seq(Nodes) /\ Len(s) <= 1 /\ s # <<>>
  BY <1>1, <1>2 DEF IsModelGraph, HasRoots, Nodes, StreamNext
<1>4. DOMAIN s = {1} /\ s[1] \in Nodes
  <2>1. Len(s) = 1 /\ DOMAIN s = 1 .. 1
    BY <1>3, OnlyOne
  <2> QED
    BY <1>3, <2>1
<1>5. ToSet(s) = {s[1]}
  BY <1>4 DEF ToSet
<1>6. "vertexBuffers" \in DOMAIN node(s[1]).kids
  BY <1>1, <1>2, <1>5 DEF IsModelGraph, HasRoots, node
<1>7. fixed[s[1]]["vertexBuffers"] # 0
  BY <1>2 DEF StreamNext
<1> QED
  BY <1>1, <1>2, <1>4, <1>5, <1>6, <1>7

LEMMA LoadedReadsRight ==
  ASSUME LoadInv
  PROVE  ReadsRight
<1> SUFFICES ASSUME loading = "loaded", NEW n \in Reachable
             PROVE  InHostOrder(n) /\ \A p \in Follows(n) : fixed[n][p] = 1
  BY DEF ReadsRight
<1>1. GraphRight /\ todo = <<>> /\ ~StreamNext /\ \E P : AfterHeader(P)
  BY DEF LoadInv
<1>2. PICK P : AfterHeader(P)
  BY <1>1
<1>3. IsModelGraph(mxmd) /\ tool \in ToolNames /\ P \subseteq Nodes /\ 1 \in P
  BY <1>1, <1>2 DEF GraphRight, AfterHeader, Waiting
<1>4. PICK roots : roots = {1} \cup (IF tool = "mdo" /\ NeedsStream THEN ToSet(mxmd.stream) ELSE {})
  OBVIOUS
<1>5. \A e \in roots : Fit(P, e)
  BY <1>1, <1>2, <1>3, <1>4, RootsAreHandled DEF Fit
<1>6. \A ns : (\A e \in ns : Fit(P, e)) => \A e \in Onward(ns) : Fit(P, e)
  BY <1>1, <1>2, OnwardIsFit
<1>7. n \in Onward(Onward(Onward(Onward(Onward(Onward(roots))))))
  BY <1>4 DEF Reachable
<1>8. Fit(P, n)
  <2>1. \A e \in Onward(roots) : Fit(P, e)
    BY <1>5, <1>6
  <2>2. \A e \in Onward(Onward(roots)) : Fit(P, e)
    BY <1>6, <2>1
  <2>3. \A e \in Onward(Onward(Onward(roots))) : Fit(P, e)
    BY <1>6, <2>2
  <2>4. \A e \in Onward(Onward(Onward(Onward(roots)))) : Fit(P, e)
    BY <1>6, <2>3
  <2>5. \A e \in Onward(Onward(Onward(Onward(Onward(roots))))) : Fit(P, e)
    BY <1>6, <2>4
  <2> QED
    BY <1>6, <1>7, <2>5
<1>9. /\ \A m \in P : swaps[m] = IF Big THEN 1 ELSE 0
      /\ \A m \in Nodes \ P : ~Big \/ m # Version => swaps[m] = 0
  BY <1>2 DEF AfterHeader, Turned
<1>10. InHostOrder(n)
  <2>1. 1 % 2 = 1 /\ 0 % 2 = 0
    OBVIOUS
  <2>2. CASE n \in P
    <3>1. (swaps[n] % 2 = 1) <=> Big
      BY <1>9, <2>1, <2>2
    <3> QED
      BY <3>1 DEF InHostOrder, Big
  <2>3. CASE n \notin P
    <3>1. CASE Big
      BY <1>8, <2>3, <3>1 DEF Fit, InHostOrder
    <3>2. CASE ~Big
      <4>1. swaps[n] = 0
        BY <1>8, <1>9, <2>3, <3>2 DEF Fit
      <4>2. (swaps[n] % 2 = 1) <=> Big
        BY <2>1, <3>2, <4>1
      <4> QED
        BY <4>2 DEF InHostOrder, Big
    <3> QED
      BY <3>1, <3>2
  <2> QED
    BY <2>2, <2>3
<1>11. ASSUME NEW p \in Follows(n) PROVE fixed[n][p] = 1
  <2>1. n \in P
    BY <1>3, <1>8, NothingBehindData DEF Fit
  <2>2. p \in RowOf(n).pointers /\ p \in DOMAIN node(n).kids
    BY <1>3, <2>1, PointersFollowed
  <2> QED
    BY <1>2, <2>1, <2>2 DEF AfterHeader, MadeOnce
<1> QED
  BY <1>10, <1>11

-----------------------------------------------------------------------------
(* Whose file it is tells where the tool stands.                           *)
StreamFates == {"open", "model", "textures", "mdo", "simple"}

FileOfTool ==
  /\ fate \in StreamFates => file \in Files
  /\ fate \in {"shaders", "shaderModel"} => file \in ShaderFiles
  /\ fate = "shaderModel" => file.id \in {"MXMD", "DMXM"}
  /\ fate = "model file" => file \in ModelGraphs

OtherFates == {"shaders", "shaderModel", "model file"}

LEMMA FileStep ==
  ASSUME FileOfTool, ToolsNext \/ UNCHANGED toolVars
  PROVE  FileOfTool'
<1>1. CASE ExtractStep
  <2>1. file' = file
    BY <1>1 DEF ExtractStep, NotAContainer, RefuseVersion, Mount, ExtractModel, SkipExternal,
       MiddleTexture, HighTexture, LowTexture, EndTextures, NoModel, RefuseModel, LoadModel,
       RefuseGroup, GroupTexture, NextGroup, CachedTexture, EndSimple, Thrown, Processed
  <2>2. fate \in StreamFates
    BY <1>1 DEF ExtractStep, NotAContainer, RefuseVersion, Mount, ExtractModel, SkipExternal,
       MiddleTexture, HighTexture, LowTexture, EndTextures, NoModel, RefuseModel, LoadModel,
       RefuseGroup, GroupTexture, NextGroup, CachedTexture, EndSimple, MoreTextures, StreamFates
  <2>3. fate' \notin OtherFates
    BY <1>1 DEF ExtractStep, NotAContainer, RefuseVersion, Mount, ExtractModel, SkipExternal,
       MiddleTexture, HighTexture, LowTexture, EndTextures, NoModel, RefuseModel, LoadModel,
       RefuseGroup, GroupTexture, NextGroup, CachedTexture, EndSimple, Thrown, FallBack, Fail,
       Processed, MoreTextures, OtherFates
  <2> QED
    BY <2>1, <2>2, <2>3 DEF FileOfTool, OtherFates
<1>2. CASE ConvertTexture \/ ExtractFont
  <2>1. fate' \in {"done", "failed", "undefined", "high", "header", "chars"}
    BY <1>2 DEF ConvertTexture, ExtractFont, PassOver, RefuseData, CopyOut, Decompress, RequestHigh,
       Open, RefuseTexture, ConvertMTXT, ConvertLBIM, RefuseFont, FontTexture, FontChars, End, Step
  <2> QED
    BY <2>1 DEF FileOfTool, StreamFates
<1>3. CASE UNCHANGED <<file, fate>>
  BY <1>3 DEF FileOfTool
<1>4. CASE AllLoaded \/ RefuseModelFile
  <2>1. fate' \in Ended
    BY <1>4 DEF AllLoaded, RefuseModelFile, Ended
  <2> QED
    BY <2>1 DEF FileOfTool, StreamFates, Ended
<1>5. CASE ExtractShaders
  <2>1. CASE GetType
    <3>1. /\ fate = "shaders" /\ file' = file
          /\ \/ fate' \in {"shader", "failed"}
             \/ fate' = "shaderModel" /\ file.id \in {"MXMD", "DMXM"}
      BY <2>1 DEF GetType, GoOn
    <3> QED
      BY <3>1 DEF FileOfTool, StreamFates
  <2>2. CASE LoadShaders
    BY <1>3, <2>2 DEF LoadShaders, smtVars
  <2>3. CASE ~GetType /\ ~LoadShaders
    <3>1. fate' \in Ended \cup {"shader", "vertex", "fragment"}
      BY <1>5, <2>3 DEF ExtractShaders, ShadersLoaded, RefuseShader, ProcessShader, SkipVertex,
         ExtractVertex, SkipFragment, ExtractFragment, EndShaders, GoOn, Ended
    <3> QED
      BY <3>1 DEF FileOfTool, StreamFates, Ended
  <2> QED
    BY <2>1, <2>2, <2>3
<1> QED
  BY <1>1, <1>2, <1>3, <1>4, <1>5
  DEF ToolsNext, ProcessFile, ToolsDone, toolVars, vars, smtVars, AppProcessFile, OpenModel, LoadStep,
      LoadAll

LEMMA LoadNext ==
  ASSUME FileOfTool, LoadInv, ToolsNext \/ UNCHANGED toolVars
  PROVE  LoadInv'
<1>1. CASE UNCHANGED loadVars
  BY <1>1, LoadStays
<1>2. CASE Load
  BY <1>2, StepLoad
<1>3. CASE OpenModel
  <2>1. file \in Files /\ mdo # None /\ Start(mdo.graph, "smt")
    BY <1>3 DEF OpenModel, FileOfTool, StreamFates
  <2>2. IsModelGraph(mdo.graph)
    BY <2>1, SmtAssumption DEF IsModelFile, mdo
  <2> QED
    BY <2>1, <2>2, StepStart DEF ToolNames
<1>4. CASE LoadShaders
  <2>1. file \in ShaderFiles /\ file.id \in {"MXMD", "DMXM"}
    BY <1>4 DEF LoadShaders, FileOfTool
  <2>2. IsModelGraph(file.graph)
    BY <2>1, ShaderAssumption
  <2>3. CASE Start(file.graph, "shader")
    BY <2>2, <2>3, StepStart DEF ToolNames
  <2> QED
    BY <1>2, <1>4, <2>3 DEF LoadShaders
<1>5. CASE LoadAll
  <2>1. IsModelGraph(file.graph)
    BY <1>5, ToolsAssumption DEF LoadAll, FileOfTool
  <2>2. CASE Start(file.graph, "mdo")
    BY <2>1, <2>2, StepStart DEF ToolNames
  <2> QED
    BY <1>2, <1>5, <2>2 DEF LoadAll
<1>6. CASE ExtractShaders /\ ~LoadShaders
  <2>1. UNCHANGED loadVars
    BY <1>6 DEF ExtractShaders, GetType, ShadersLoaded, RefuseShader, ProcessShader, SkipVertex,
       ExtractVertex, SkipFragment, ExtractFragment, EndShaders
  <2> QED
    BY <1>1, <2>1
<1>7. CASE ToolsDone \/ UNCHANGED toolVars
  BY <1>1, <1>7 DEF ToolsDone, toolVars, vars
<1> QED
  BY <1>1, <1>2, <1>3, <1>4, <1>5, <1>6, <1>7 DEF ToolsNext, ProcessFile, AppProcessFile, LoadStep, AllLoaded,
      RefuseModelFile

(***************************************************************************)
(* Of every model file and every tool that loads one: whatever a tool      *)
(* comes to in a loaded file is in the byte order of the host, and every   *)
(* pointer it follows there was made one exactly once (mxmd.cpp:178-937).  *)
(***************************************************************************)
THEOREM ReadsAlwaysRight == ToolsSpec => []ReadsRight
<1>1. ToolsInit => FileOfTool /\ LoadInv
  <2> SUFFICES ASSUME ToolsInit PROVE FileOfTool /\ LoadInv
    OBVIOUS
  <2>1. /\ loading = "idle"
        /\ \/ fate = "shaders" /\ file \in ShaderFiles
           \/ fate = "open" /\ file \in Files
           \/ fate = "model file" /\ file \in ModelGraphs
           \/ fate \in {"texture", "font"}
    BY DEF ToolsInit, ShaderInit, Init, TextureInit, FontInit, ModelInit, Begin, ShaderIdle
  <2> QED
    BY <2>1 DEF FileOfTool, StreamFates, LoadInv
<1>2. FileOfTool /\ LoadInv /\ [ToolsNext]_toolVars => (FileOfTool /\ LoadInv)'
  BY FileStep, LoadNext
<1> QED
  BY <1>1, <1>2, LoadedReadsRight, PTL DEF ToolsSpec
-----------------------------------------------------------------------------
(***************************************************************************)
(* Where the texels of a surface lie.  The bits of a texel's place in its  *)
(* tile of 8 by 8, and what its sizes are made of.                         *)
(***************************************************************************)
LEMMA LowBits ==
  ASSUME NEW v \in Nat
  PROVE  /\ Bit0(v) \in 0 .. 1 /\ Bit1(v) \in 0 .. 1 /\ Bit2(v) \in 0 .. 1
         /\ v % 8 = (Bit0(v)) + 2 * Bit1(v) + 4 * Bit2(v)
         /\ v = 8 * (v \div 8) + (v % 8)
         /\ v \div 8 \in Nat /\ v % 8 \in 0 .. 7
BY DEF Bit0, Bit1, Bit2

LEMMA WordType ==
  ASSUME NEW f \in 0 .. 1, NEW e \in 0 .. 1, NEW d \in 0 .. 1,
         NEW c \in 0 .. 1, NEW b \in 0 .. 1, NEW a \in 0 .. 1
  PROVE  Word(f, e, d, c, b, a) \in 0 .. 63
BY DEF Word

LEMMA XorSame ==
  ASSUME NEW a \in Int, NEW b \in Int, NEW c \in Int, Xor(a, c) = Xor(b, c)
  PROVE  a % 2 = b % 2
BY DEF Xor

Sizes == {8, 32, 64, 128}

LEMMA IndexOfSize ==
  ASSUME NEW x, NEW y
  PROVE  /\ PixelIndex(x, y, 8) = Word(Bit2(y), Bit0(y), Bit1(y), Bit2(x), Bit1(x), Bit0(x))
         /\ PixelIndex(x, y, 32) = Word(Bit2(y), Bit1(y), Bit2(x), Bit0(y), Bit1(x), Bit0(x))
         /\ PixelIndex(x, y, 64) = Word(Bit2(y), Bit1(y), Bit2(x), Bit1(x), Bit0(y), Bit0(x))
         /\ PixelIndex(x, y, 128) = Word(Bit2(y), Bit1(y), Bit2(x), Bit1(x), Bit0(x), Bit0(y))
<1>1. PixelIndex(x, y, 8) = Word(Bit2(y), Bit0(y), Bit1(y), Bit2(x), Bit1(x), Bit0(x))
  BY DEF PixelIndex
<1>2. PixelIndex(x, y, 32) = Word(Bit2(y), Bit1(y), Bit2(x), Bit0(y), Bit1(x), Bit0(x))
  BY DEF PixelIndex
<1>3. PixelIndex(x, y, 64) = Word(Bit2(y), Bit1(y), Bit2(x), Bit1(x), Bit0(y), Bit0(x))
  BY DEF PixelIndex
<1>4. PixelIndex(x, y, 128) = Word(Bit2(y), Bit1(y), Bit2(x), Bit1(x), Bit0(x), Bit0(y))
  BY DEF PixelIndex
<1> QED
  BY <1>1, <1>2, <1>3, <1>4

LEMMA PixelIndexType ==
  ASSUME NEW x \in Nat, NEW y \in Nat, NEW bpp \in Sizes
  PROVE  PixelIndex(x, y, bpp) \in 0 .. 63
<1>1. /\ Bit0(x) \in 0 .. 1 /\ Bit1(x) \in 0 .. 1 /\ Bit2(x) \in 0 .. 1
      /\ Bit0(y) \in 0 .. 1 /\ Bit1(y) \in 0 .. 1 /\ Bit2(y) \in 0 .. 1
  BY LowBits
<1> QED
  BY <1>1, WordType, IndexOfSize DEF Sizes

(* No two places of a tile have the same index, whatever the size.         *)
LEMMA PixelsApart ==
  ASSUME NEW x \in Nat, NEW y \in Nat, NEW u \in Nat, NEW v \in Nat, NEW bpp \in Sizes,
         PixelIndex(x, y, bpp) = PixelIndex(u, v, bpp)
  PROVE  x % 8 = u % 8 /\ y % 8 = v % 8
<1>1. \A w \in {x, y, u, v} :
        /\ Bit0(w) \in 0 .. 1 /\ Bit1(w) \in 0 .. 1 /\ Bit2(w) \in 0 .. 1
        /\ w % 8 = (Bit0(w)) + 2 * Bit1(w) + 4 * Bit2(w)
  BY LowBits
<1>2. /\ Bit0(x) \in 0 .. 1 /\ Bit1(x) \in 0 .. 1 /\ Bit2(x) \in 0 .. 1
      /\ Bit0(y) \in 0 .. 1 /\ Bit1(y) \in 0 .. 1 /\ Bit2(y) \in 0 .. 1
      /\ Bit0(u) \in 0 .. 1 /\ Bit1(u) \in 0 .. 1 /\ Bit2(u) \in 0 .. 1
      /\ Bit0(v) \in 0 .. 1 /\ Bit1(v) \in 0 .. 1 /\ Bit2(v) \in 0 .. 1
  BY <1>1
<1>3. /\ Bit0(x) = Bit0(u) /\ Bit1(x) = Bit1(u) /\ Bit2(x) = Bit2(u)
      /\ Bit0(y) = Bit0(v) /\ Bit1(y) = Bit1(v) /\ Bit2(y) = Bit2(v)
  <2>1. CASE bpp = 8
    <3>1. Word(Bit2(y), Bit0(y), Bit1(y), Bit2(x), Bit1(x), Bit0(x)) = Word(Bit2(v), Bit0(v), Bit1(v), Bit2(u), Bit1(u), Bit0(u))
      BY <2>1, IndexOfSize
    <3> QED
      BY <1>2, <3>1 DEF Word
  <2>2. CASE bpp = 32
    <3>1. Word(Bit2(y), Bit1(y), Bit2(x), Bit0(y), Bit1(x), Bit0(x)) = Word(Bit2(v), Bit1(v), Bit2(u), Bit0(v), Bit1(u), Bit0(u))
      BY <2>2, IndexOfSize
    <3> QED
      BY <1>2, <3>1 DEF Word
  <2>3. CASE bpp = 64
    <3>1. Word(Bit2(y), Bit1(y), Bit2(x), Bit1(x), Bit0(y), Bit0(x)) = Word(Bit2(v), Bit1(v), Bit2(u), Bit1(u), Bit0(v), Bit0(u))
      BY <2>3, IndexOfSize
    <3> QED
      BY <1>2, <3>1 DEF Word
  <2>4. CASE bpp = 128
    <3>1. Word(Bit2(y), Bit1(y), Bit2(x), Bit1(x), Bit0(x), Bit0(y)) = Word(Bit2(v), Bit1(v), Bit2(u), Bit1(u), Bit0(u), Bit0(v))
      BY <2>4, IndexOfSize
    <3> QED
      BY <1>2, <3>1 DEF Word
  <2> QED
    BY <2>1, <2>2, <2>3, <2>4 DEF Sizes
<1> QED
  BY <1>1, <1>3

(* Two digits of a number.                                                 *)
LEMMA Digits ==
  ASSUME NEW n \in Nat, NEW e \in 0 .. n - 1, NEW f \in 0 .. n - 1, NEW i \in Nat, NEW j \in Nat,
         e + n * i = f + n * j
  PROVE  e = f /\ i = j
<1>1. \A k, l \in Nat : k < l => n * k + n <= n * l
  <2> SUFFICES ASSUME NEW k \in Nat, NEW l \in Nat, k < l PROVE n * k + n <= n * l
    OBVIOUS
  <2>1. PICK d \in Nat : l = k + 1 + d
    <3>1. l - k - 1 \in Nat /\ l = k + 1 + (l - k - 1)
      OBVIOUS
    <3> QED
      BY <3>1
  <2>2. n * l = n * k + n + n * d
    BY <2>1
  <2>3. n * d \in Nat /\ n * k \in Nat
    OBVIOUS
  <2> QED
    BY <2>2, <2>3
<1>2. n * i \in Nat /\ n * j \in Nat
  OBVIOUS
<1>3. ~(i < j)
  BY <1>1, <1>2
<1>4. ~(j < i)
  BY <1>1, <1>2
<1>5. i = j
  BY <1>3, <1>4
<1> QED
  BY <1>2, <1>5

(* A row of whole tiles.                                                   *)
LEMMA QuotientBelow ==
  ASSUME NEW m \in {8, 16, 32, 64}, NEW pitch \in Nat, pitch % m = 0, NEW x \in 0 .. pitch - 1
  PROVE  /\ x \div m \in 0 .. (pitch \div m) - 1
         /\ pitch \div m \in Nat
         /\ pitch = m * (pitch \div m)
<1>1. CASE m = 8
  BY <1>1
<1>2. CASE m = 16
  BY <1>2
<1>3. CASE m = 32
  BY <1>3
<1>4. CASE m = 64
  BY <1>4
<1> QED
  BY <1>1, <1>2, <1>3, <1>4

LEMMA ModeRule ==
  ASSUME NEW mode \in Micro \cup Macro
  PROVE  /\ Thickness(mode) \in {1, 4}
         /\ Aspect(mode) \in {1, 2, 4}
         /\ mode \in Thick2D => Aspect(mode) = 1
<1>1. Thickness(mode) \in {1, 4}
  BY DEF Thickness, Macro, Micro, Thick2D
<1>2. Aspect(mode) \in {1, 2, 4}
  BY DEF Aspect
<1>3. mode \in Thick2D => Aspect(mode) = 1
  BY DEF Aspect, Thick2D
<1> QED
  BY <1>1, <1>2, <1>3

(* The sizes of a tile and of a texel.                                     *)
LEMMA TileRule ==
  ASSUME NEW s, IsSurface(s), s.bpp \in Sizes
  PROVE  /\ TileBytes(s) = 64 * Thickness(s.mode) * (s.bpp \div 8)
         /\ TileBytes(s) \in Nat \ {0}
         /\ s.bpp \div 8 \in {1, 4, 8, 16}
         /\ s.bpp = 8 * (s.bpp \div 8)
         /\ TileBytes(s) >= 64 * (s.bpp \div 8)
<1>1. Thickness(s.mode) \in {1, 4}
  BY ModeRule DEF IsSurface
<1>2. CASE Thickness(s.mode) = 1
  BY <1>2 DEF TileBytes, TileBits, Sizes
<1>3. CASE Thickness(s.mode) = 4
  BY <1>3 DEF TileBytes, TileBits, Sizes
<1> QED
  BY <1>1, <1>2, <1>3

(* The columns the banks are swapped in have a width: the least divisor    *)
(* that suffices is twice one that does not.                               *)
LEMMA BankSwapWidthRule ==
  ASSUME NEW s, IsSurface(s), s.bpp \in Sizes, s.pitch > 0
  PROVE  BankSwapWidth(s) \in Nat \ {0}
<1> DEFINE samples == IF s.mode \in Thick2D THEN 4 ELSE 1
           most == 16384 \div (samples * Aspect(s.mode) * s.bpp * 2)
           least == 256 \div (samples * 8 * s.bpp)
           width == Least(most, Greatest(least, 32 * Greatest(1, 128 \div s.bpp)))
           enough == {d \in {1, 2, 4, 8, 16, 32, 64, 128, 256, 512, 1024} : width \div d < 2 * s.pitch}
           first == CHOOSE d \in enough : \A e \in enough : d <= e
<1>1. s.pitch \in Nat /\ s.mode \in Micro \cup Macro
  BY DEF IsSurface
<1>2. most \in 16 .. 1024
  <2>1. CASE s.mode \in Thick2D
    BY <2>1, <1>1, ModeRule DEF Sizes
  <2>2. CASE s.mode \notin Thick2D
    <3>1. Aspect(s.mode) \in {1, 2, 4}
      BY <1>1, ModeRule
    <3>2. CASE Aspect(s.mode) = 1
      BY <2>2, <3>2 DEF Sizes
    <3>3. CASE Aspect(s.mode) = 2
      BY <2>2, <3>3 DEF Sizes
    <3>4. CASE Aspect(s.mode) = 4
      BY <2>2, <3>4 DEF Sizes
    <3> HIDE DEF most
    <3> QED
      BY <3>1, <3>2, <3>3, <3>4
  <2> HIDE DEF most
  <2> QED
    BY <2>1, <2>2
<1>3. least \in 0 .. 4
  <2>1. samples \in {1, 4}
    OBVIOUS
  <2>2. CASE samples = 1
    BY <2>2 DEF Sizes
  <2>3. CASE samples = 4
    BY <2>3 DEF Sizes
  <2> QED
    BY <2>1, <2>2, <2>3
<1>4. 32 * Greatest(1, 128 \div s.bpp) \in 32 .. 512
  BY DEF Greatest, Sizes
<1>5. width \in 16 .. 512
  <2> HIDE DEF most, least
  <2> QED
    BY <1>2, <1>3, <1>4, SMTT(20) DEF Least, Greatest
<1>6. BankSwapWidth(s) = width \div first
  BY DEF BankSwapWidth
<1> HIDE DEF width
<1>7. 1024 \in enough
  BY <1>1, <1>5
<1>8. first \in enough /\ \A e \in enough : first <= e
  <2>1. \E d \in enough : \A e \in enough : d <= e
    <3>1. enough \subseteq Nat
      OBVIOUS
    <3> HIDE DEF enough
    <3> QED
      BY <1>7, <3>1, SmallestMember, ZenonT(40)
  <2> HIDE DEF enough
  <2> QED
    BY <2>1
<1> PICK d : d = first
  OBVIOUS
<1> HIDE DEF first
<1>9. d \in {1, 2, 4, 8, 16, 32, 64, 128, 256, 512, 1024}
  BY <1>8
<1>10. \A e \in {1, 2, 4, 8, 16, 32, 64, 128, 256, 512} : e < d => width \div e >= 2
  <2> SUFFICES ASSUME NEW e \in {1, 2, 4, 8, 16, 32, 64, 128, 256, 512}, e < d
               PROVE  width \div e >= 2
    OBVIOUS
  <2>1. ~(d <= e)
    BY <1>9
  <2>2. e \notin enough
    <3> HIDE DEF enough
    <3> QED
      BY <1>8, <2>1
  <2>3. ~(width \div e < 2 * s.pitch)
    BY <2>2
  <2>4. width \div e \in Int
    BY <1>5
  <2> QED
    BY <1>1, <2>3, <2>4
<1>11. width \div d \in Nat \ {0}
  <2> HIDE DEF enough
  <2>1. CASE d = 1
    BY <2>1, <1>5
  <2>2. CASE d = 2
    BY <2>2, <1>5
  <2>3. ASSUME NEW e \in {2, 4, 8, 16, 32, 64, 128, 256, 512}, d = 2 * e PROVE width \div d \in Nat \ {0}
    <3>1. width \div e >= 2
      BY <1>10, <2>3
    <3> QED
      BY <1>5, <2>3, <3>1
  <2> QED
    BY <1>9, <2>1, <2>2, <2>3
<1> QED
  BY <1>6, <1>11

LEMMA BankSwapType ==
  ASSUME NEW s, IsSurface(s), s.bpp \in Sizes, s.pitch > 0, NEW x \in Nat
  PROVE  BankSwap(s, x) \in 0 .. 3
<1>1. BankSwapWidth(s) \in Nat \ {0}
  BY BankSwapWidthRule
<1>2. MacroPitch(s) \in {8, 16, 32}
  BY ModeRule DEF MacroPitch, IsSurface
<1>3. MacroPitch(s) * MacroIndexX(s, x) \in Nat
  BY <1>2 DEF MacroIndexX
<1>4. \A n \in Nat, w \in Nat \ {0} : (n \div w) % 4 \in 0 .. 3
  OBVIOUS
<1>5. ((MacroPitch(s) * MacroIndexX(s, x)) \div BankSwapWidth(s)) % 4 \in 0 .. 3
  BY <1>1, <1>3, <1>4
<1>6. \A i \in 0 .. 3 : BankSwapOrder[1 + i] \in 0 .. 3
  BY DEF BankSwapOrder
<1> QED
  BY <1>5, <1>6 DEF BankSwap

(* A texel of row-by-row tiles.                                            *)
LEMMA MicroParts ==
  ASSUME NEW s, IsSurface(s), s.bpp \in Sizes, NEW x \in Nat, NEW y \in Nat
  PROVE  /\ (s.bpp * PixelIndex(x, y, s.bpp)) \div 8 = (s.bpp \div 8) * PixelIndex(x, y, s.bpp)
         /\ (s.bpp \div 8) * PixelIndex(x, y, s.bpp) \in 0 .. TileBytes(s) - (s.bpp \div 8)
<1>1. PICK i \in 0 .. 63 : i = PixelIndex(x, y, s.bpp)
  BY PixelIndexType
<1>2. (s.bpp * i) \div 8 = (s.bpp \div 8) * i
  BY DEF Sizes
<1>3. (s.bpp \div 8) * i \in 0 .. 64 * (s.bpp \div 8) - (s.bpp \div 8)
  BY DEF Sizes
<1>4. TileBytes(s) \in Nat /\ TileBytes(s) >= 64 * (s.bpp \div 8) /\ s.bpp \div 8 \in {1, 4, 8, 16}
  BY TileRule
<1> QED
  BY <1>1, <1>2, <1>3, <1>4

LEMMA SamePixel ==
  ASSUME NEW s, s.bpp \in Sizes, NEW x \in Nat, NEW y \in Nat, NEW u \in Nat, NEW v \in Nat,
         (s.bpp \div 8) * PixelIndex(x, y, s.bpp) = (s.bpp \div 8) * PixelIndex(u, v, s.bpp)
  PROVE  x % 8 = u % 8 /\ y % 8 = v % 8
<1>1. PICK i \in 0 .. 63 : i = PixelIndex(x, y, s.bpp)
  BY PixelIndexType
<1>2. PICK j \in 0 .. 63 : j = PixelIndex(u, v, s.bpp)
  BY PixelIndexType
<1>3. i = j
  BY <1>1, <1>2 DEF Sizes
<1>4. PICK b \in Sizes : b = s.bpp
  OBVIOUS
<1>5. PixelIndex(x, y, b) = PixelIndex(u, v, b)
  BY <1>1, <1>2, <1>3, <1>4
<1> QED
  BY <1>5, PixelsApart

LEMMA MicroApart ==
  ASSUME NEW s, IsSurface(s), s.bpp \in Sizes, s.mode \in Micro,
         NEW x \in 0 .. s.pitch - 1, NEW y \in Nat, NEW u \in 0 .. s.pitch - 1, NEW v \in Nat,
         MicroAddress(s, x, y) = MicroAddress(s, u, v)
  PROVE  x = u /\ y = v
<1> DEFINE e == (s.bpp \div 8) * PixelIndex(x, y, s.bpp)
           f == (s.bpp \div 8) * PixelIndex(u, v, s.bpp)
           w == s.pitch \div 8
           i == (x \div 8) + (y \div 8) * w
           j == (u \div 8) + (v \div 8) * w
<1>1. s.pitch \in Nat /\ s.pitch % 8 = 0
  BY DEF IsSurface
<1>2. w \in Nat /\ x \div 8 \in 0 .. w - 1 /\ u \div 8 \in 0 .. w - 1
  BY <1>1, QuotientBelow
<1>3. x \in Nat /\ u \in Nat
  BY <1>1
<1>4. PICK n \in Nat : n = TileBytes(s)
  BY TileRule
<1>5. s.bpp \div 8 \in {1, 4, 8, 16}
  BY TileRule
<1>6. e \in 0 .. n - 1 /\ f \in 0 .. n - 1
  <2>1. e \in 0 .. n - (s.bpp \div 8) /\ f \in 0 .. n - (s.bpp \div 8)
    BY <1>3, <1>4, MicroParts
  <2> HIDE DEF e, f
  <2> QED
    BY <1>5, <2>1
<1>7. e + n * i = f + n * j
  BY <1>3, <1>4, MicroParts DEF MicroAddress, TilesPerRow
<1>8. y \div 8 \in Nat /\ v \div 8 \in Nat
  OBVIOUS
<1>9. i \in Nat /\ j \in Nat
  <2> HIDE DEF w
  <2> QED
    BY <1>2, <1>8
<1>10. e = f /\ i = j
  <2> HIDE DEF e, f, i, j
  <2> QED
    BY <1>6, <1>7, <1>9, Digits
<1>11. x % 8 = u % 8 /\ y % 8 = v % 8
  BY <1>3, <1>10, SamePixel
<1>12. x \div 8 = u \div 8 /\ y \div 8 = v \div 8
  <2>1. \A p, q \in 0 .. w - 1 : \A k, l \in Nat : p + k * w = q + l * w => p = q /\ k = l
    <3> HIDE DEF w
    <3> SUFFICES ASSUME NEW p \in 0 .. w - 1, NEW q \in 0 .. w - 1, NEW k \in Nat, NEW l \in Nat,
                        p + k * w = q + l * w
                 PROVE  p = q /\ k = l
      OBVIOUS
    <3>1. p + w * k = q + w * l
      BY <1>2
    <3> QED
      BY <1>2, <3>1, Digits
  <2> HIDE DEF w
  <2> QED
    BY <1>2, <1>8, <1>10, <2>1
<1> QED
  BY <1>3, <1>11, <1>12, LowBits

LEMMA MicroInside ==
  ASSUME NEW s, IsSurface(s), s.bpp \in Sizes, s.mode \in Micro,
         NEW h \in Nat, NEW x \in 0 .. s.pitch - 1, NEW y \in 0 .. 8 * h - 1
  PROVE  /\ MicroAddress(s, x, y) \in Nat
         /\ MicroAddress(s, x, y) % (s.bpp \div 8) = 0
         /\ MicroAddress(s, x, y) + (s.bpp \div 8)
              <= s.pitch * (8 * h) * Thickness(s.mode) * (s.bpp \div 8)
<1> DEFINE e == (s.bpp \div 8) * PixelIndex(x, y, s.bpp)
           w == s.pitch \div 8
           i == (x \div 8) + (y \div 8) * w
<1>1. s.pitch \in Nat /\ s.pitch % 8 = 0
  BY DEF IsSurface
<1>2. w \in Nat /\ x \div 8 \in 0 .. w - 1 /\ s.pitch = 8 * w
  BY <1>1, QuotientBelow
<1>3. x \in Nat /\ y \in Nat
  BY <1>1
<1>4. PICK t \in {1, 4} : t = Thickness(s.mode)
  BY ModeRule DEF IsSurface
<1>5. PICK b \in {1, 4, 8, 16} : b = s.bpp \div 8
  BY TileRule
<1>6. TileBytes(s) = 64 * t * b
  BY <1>4, <1>5, TileRule
<1>7. PICK p \in 0 .. 63 : p = PixelIndex(x, y, s.bpp)
  BY <1>3, PixelIndexType
<1>8. MicroAddress(s, x, y) = b * p + 64 * t * b * i
  <2>1. MicroAddress(s, x, y) = e + TileBytes(s) * i
    BY <1>3, MicroParts DEF MicroAddress, TilesPerRow
  <2> HIDE DEF i
  <2> QED
    BY <1>5, <1>6, <1>7, <2>1
<1>9. y \div 8 \in 0 .. h - 1
  OBVIOUS
<1>10. i \in Nat /\ i + 1 <= w * h
  <2> PICK k \in 0 .. h - 1 : k = y \div 8
    BY <1>9
  <2> PICK l \in 0 .. w - 1 : l = x \div 8
    BY <1>2
  <2>1. i = l + k * w
    OBVIOUS
  <2> HIDE DEF w, i
  <2>2. k * w \in Nat /\ l + 1 <= w
    BY <1>2
  <2>3. PICK d \in Nat : h = k + 1 + d
    <3>1. h - k - 1 \in Nat /\ h = k + 1 + (h - k - 1)
      OBVIOUS
    <3> QED
      BY <3>1
  <2>4. w * h = k * w + w + w * d /\ w * d \in Nat
    BY <1>2, <2>3
  <2> QED
    BY <1>2, <2>1, <2>2, <2>4
<1>11. PICK m \in Nat : m = w * h
  BY <1>2
<1>12. s.pitch * (8 * h) * t * b = 64 * t * b * m
  <2>1. (8 * w) * (8 * h) = 64 * m
    BY <1>2, <1>11
  <2> QED
    BY <1>2, <2>1
<1>13. i \in Nat /\ i + 1 <= m
  BY <1>10, <1>11
<1> HIDE DEF i, e, w
<1>14. /\ b * p + 64 * t * b * i \in Nat
       /\ (b * p + 64 * t * b * i) % b = 0
       /\ b * p + 64 * t * b * i + b <= 64 * t * b * m
  <2>1. CASE t = 1
    BY <1>13, <2>1
  <2>2. CASE t = 4
    BY <1>13, <2>2
  <2> QED
    BY <2>1, <2>2
<1> QED
  BY <1>4, <1>5, <1>8, <1>12, <1>14

-----------------------------------------------------------------------------
(***************************************************************************)
(* Tiles of tiles.  An address is made of the bits of the bank and the     *)
(* pipe, the index of the macro tile and the place in a tile; a macro tile *)
(* has eight tiles, and those bits tell them apart.                        *)
(***************************************************************************)
Thin(s) == IsSurface(s) /\ s.bpp \in Sizes /\ s.mode \in Macro /\ TileBytes(s) <= 2048

MacroIndex(s, x, y) == MacroIndexX(s, x) + (s.pitch \div MacroPitch(s)) * (y \div MacroHeight(s))

LEMMA MacroRule ==
  ASSUME NEW s, Thin(s)
  PROVE  /\ \/ MacroPitch(s) = 32 /\ MacroHeight(s) = 16
            \/ MacroPitch(s) = 16 /\ MacroHeight(s) = 32
            \/ MacroPitch(s) = 8 /\ MacroHeight(s) = 64
         /\ s.pitch \in Nat /\ s.pitch % MacroPitch(s) = 0
         /\ MacroBytes(s) = 8 * TileBytes(s)
         /\ SliceBytes(s) \in Int
         /\ Samples(s) = 1
<1>1. s.mode \in Macro /\ s.pitch \in Nat /\ s.height \in Nat /\ s.mode \notin Micro
  BY DEF Thin, IsSurface, Macro, Micro, Thick2D
<1>2. \/ MacroPitch(s) = 32 /\ MacroHeight(s) = 16
      \/ MacroPitch(s) = 16 /\ MacroHeight(s) = 32
      \/ MacroPitch(s) = 8 /\ MacroHeight(s) = 64
  BY <1>1, ModeRule DEF MacroPitch, MacroHeight
<1>3. s.pitch % MacroPitch(s) = 0
  BY <1>1 DEF Thin, IsSurface
<1>4. Samples(s) = 1
  BY DEF Samples, Thin
<1>5. PICK t \in {1, 4} : t = Thickness(s.mode)
  BY <1>1, ModeRule
<1>6. PICK b \in {1, 4, 8, 16} : b = s.bpp \div 8 /\ s.bpp = 8 * b
  BY TileRule DEF Thin
<1>7. TileBytes(s) = 64 * t * b
  <2>1. TileBytes(s) = 64 * Thickness(s.mode) * (s.bpp \div 8)
    BY TileRule DEF Thin
  <2> QED
    BY <1>5, <1>6, <2>1
<1>8. MacroHeight(s) * MacroPitch(s) = 512 /\ MacroHeight(s) \in Nat /\ MacroPitch(s) \in Nat
  BY <1>2
<1>9. Samples(s) * Thickness(s.mode) * s.bpp * MacroHeight(s) * MacroPitch(s) = t * (8 * b) * 512
  BY <1>2, <1>4, <1>5, <1>6
<1>10. MacroBytes(s) = 8 * TileBytes(s)
  <2>1. (t * (8 * b) * 512 + 7) \div 8 = 8 * (64 * t * b)
    <3>1. CASE t = 1
      BY <3>1
    <3>2. CASE t = 4
      BY <3>2
    <3> QED
      BY <3>1, <3>2
  <2> QED
    BY <1>7, <1>9, <2>1 DEF MacroBytes
<1>11. s.height * s.pitch * Thickness(s.mode) * s.bpp * Samples(s) \in Int
  <2>1. s.height * s.pitch \in Int
    BY <1>1
  <2>2. s.height * s.pitch * Thickness(s.mode) \in Int
    BY <2>1, <1>5
  <2> QED
    BY <2>2, <1>4, <1>6
<1>12. SliceBytes(s) \in Int
  BY <1>11 DEF SliceBytes
<1> QED
  BY <1>1, <1>2, <1>3, <1>4, <1>10, <1>12

LEMMA IndexType ==
  ASSUME NEW s, Thin(s), NEW x \in Nat, NEW y \in Nat
  PROVE  MacroIndex(s, x, y) \in Nat
<1>1. MacroPitch(s) \in {8, 16, 32} /\ MacroHeight(s) \in {16, 32, 64} /\ s.pitch \in Nat
  BY MacroRule
<1>2. PICK p \in {8, 16, 32} : p = MacroPitch(s)
  BY <1>1
<1>3. PICK h \in {16, 32, 64} : h = MacroHeight(s)
  BY <1>1
<1>4. x \div p \in Nat /\ s.pitch \div p \in Nat /\ y \div h \in Nat
  BY <1>1
<1> QED
  BY <1>2, <1>3, <1>4 DEF MacroIndex, MacroIndexX

(* Without samples the total offset is a macro tile's and a pixel's place.  *)
LEMMA TotalRule ==
  ASSUME NEW s, Thin(s), NEW x \in Nat, NEW y \in Nat
  PROVE  /\ TotalOffset(s, x, y)
              = (s.bpp \div 8) * PixelIndex(x, y, s.bpp) + TileBytes(s) * MacroIndex(s, x, y)
         /\ SampleSlice(s, x, y) = 0
<1>1. IsSurface(s) /\ s.bpp \in Sizes /\ s.mode \in Micro \cup Macro
  BY DEF Thin
<1>2. SampleSlice(s, x, y) = 0 /\ ~(TileBytes(s) > 2048)
  <2>1. TileBytes(s) \in Nat /\ TileBytes(s) <= 2048
    BY <1>1, TileRule DEF Thin
  <2>2. ~(TileBytes(s) > 2048)
    BY <2>1
  <2> QED
    BY <2>2 DEF SampleSlice
<1>3. PICK p \in 0 .. 63 : p = PixelIndex(x, y, s.bpp)
  BY <1>1, PixelIndexType
<1>4. PICK b \in {1, 4, 8, 16} : b = s.bpp \div 8 /\ s.bpp = 8 * b
  BY <1>1, TileRule
<1>5. ElementOffset(s, x, y) = b * p
  <2>1. ElementBits(s, x, y) = 8 * b * p
    BY <1>3, <1>4 DEF ElementBits
  <2>2. (8 * b * p + 7) \div 8 = b * p
    OBVIOUS
  <2> QED
    BY <1>2, <2>1, <2>2 DEF ElementOffset
<1>6. PICK n \in Nat : n = TileBytes(s)
  BY <1>1, TileRule
<1>7. PICK i \in Nat : i = MacroIndex(s, x, y)
  BY IndexType
<1>8. MacroOffset(s, x, y) = 8 * (n * i)
  <2>1. MacroOffset(s, x, y) = (8 * n) * i
    BY <1>6, <1>7, MacroRule DEF MacroOffset, MacroIndex
  <2> QED
    BY <2>1
<1>9. SliceBytes(s) * (SampleSlice(s, x, y) \div Thickness(s.mode)) = 0
  <2>1. SliceBytes(s) \in Int
    BY MacroRule
  <2>2. Thickness(s.mode) \in {1, 4}
    BY <1>1, ModeRule
  <2>3. SampleSlice(s, x, y) \div Thickness(s.mode) = 0
    BY <1>2, <2>2
  <2> QED
    BY <2>1, <2>3
<1>10. (8 * (n * i) + 0) \div 8 = n * i
  <2>1. PICK m \in Nat : m = n * i
    OBVIOUS
  <2>2. (8 * m + 0) \div 8 = m
    OBVIOUS
  <2> QED
    BY <2>1, <2>2
<1>11. TotalOffset(s, x, y) = b * p + n * i
  BY <1>5, <1>8, <1>9, <1>10 DEF TotalOffset
<1>12. /\ b * p = (s.bpp \div 8) * PixelIndex(x, y, s.bpp)
       /\ n * i = TileBytes(s) * MacroIndex(s, x, y)
  BY <1>3, <1>4, <1>6, <1>7
<1> QED
  BY <1>2, <1>11, <1>12

(* The bits of a texel's bank and pipe.                                    *)
LEMMA BankType ==
  ASSUME NEW s, Thin(s), NEW x \in 0 .. s.pitch - 1, NEW y \in Nat
  PROVE  /\ Pipe(s, x, y) \in 0 .. 1 /\ LowBank(s, x, y) \in 0 .. 1 /\ HighBank(s, x, y) \in 0 .. 1
         /\ BankSwap(s, x) \in 0 .. 3
<1>1. IsSurface(s) /\ s.bpp \in Sizes /\ s.pitch \in Nat
  BY DEF Thin, IsSurface
<1>2. x \in Nat /\ s.pitch > 0
  BY <1>1
<1>3. BankSwap(s, x) \in 0 .. 3
  BY <1>1, <1>2, BankSwapType
<1>4. SampleSlice(s, x, y) = 0
  BY <1>2, TotalRule
<1>5. s.pipe \in Int /\ s.bank \in Int
  BY <1>1 DEF IsSurface
<1>6. \A a, b \in Int : Xor(a, b) \in 0 .. 1
  BY DEF Xor
<1>7. \A a \in Int : Bit0(a) \in 0 .. 1 /\ Bit1(a) \in 0 .. 1
  BY DEF Bit0, Bit1
<1>8. \A n \in Nat : Bit0(n \div 8) \in Int /\ Bit0(n \div 16) \in Int /\ Bit0(n \div 32) \in Int
  BY DEF Bit0
<1>9. \A a, b \in Int : Xor(a, b) \in Int
  BY <1>6
<1>10. Pipe(s, x, y) \in 0 .. 1
  BY <1>2, <1>5, <1>6, <1>8, <1>9 DEF Pipe
<1>11. LowBank(s, x, y) \in 0 .. 1
  <2>1. Bit0(s.bank) \in Int /\ Bit0(3 * SampleSlice(s, x, y)) \in Int /\ Bit0(BankSwap(s, x)) \in Int
    BY <1>3, <1>4, <1>5, <1>7
  <2> QED
    BY <1>2, <1>6, <1>8, <1>9, <2>1 DEF LowBank
<1>12. HighBank(s, x, y) \in 0 .. 1
  <2>1. Bit1(s.bank) \in Int /\ Bit1(3 * SampleSlice(s, x, y)) \in Int /\ Bit1(BankSwap(s, x)) \in Int
    BY <1>3, <1>4, <1>5, <1>7
  <2> QED
    BY <1>2, <1>6, <1>8, <1>9, <2>1 DEF HighBank
<1> QED
  BY <1>3, <1>10, <1>11, <1>12

(* Two texels of one macro tile with equal banks and pipes.                *)
LEMMA SameBits ==
  ASSUME NEW s, Thin(s), NEW x \in 0 .. s.pitch - 1, NEW y \in Nat,
         NEW u \in 0 .. s.pitch - 1, NEW v \in Nat,
         BankSwap(s, x) = BankSwap(s, u), Pipe(s, x, y) = Pipe(s, u, v),
         LowBank(s, x, y) = LowBank(s, u, v), HighBank(s, x, y) = HighBank(s, u, v)
  PROVE  /\ (Bit0(y \div 8) + Bit0(x \div 8)) % 2 = (Bit0(v \div 8) + Bit0(u \div 8)) % 2
         /\ (Bit0(y \div 32) + Bit0(x \div 8)) % 2 = (Bit0(v \div 32) + Bit0(u \div 8)) % 2
         /\ (Bit0(y \div 16) + Bit0(x \div 16)) % 2 = (Bit0(v \div 16) + Bit0(u \div 16)) % 2
<1>1. s.pitch \in Nat /\ s.pipe \in Int /\ s.bank \in Int
  BY DEF Thin, IsSurface
<1>2. x \in Nat /\ u \in Nat
  BY <1>1
<1>3. PICK k \in 0 .. 3 : k = BankSwap(s, x)
  BY BankType
<1>4. SampleSlice(s, x, y) = 0 /\ SampleSlice(s, u, v) = 0
  BY <1>2, TotalRule
<1>5. \A n \in Nat : Bit0(n \div 8) \in Int /\ Bit0(n \div 16) \in Int /\ Bit0(n \div 32) \in Int
  BY DEF Bit0
<1>6. \A a, b, c, d, e \in Int : Xor(Xor(a, b), e) = Xor(Xor(c, d), e) => (a + b) % 2 = (c + d) % 2
  BY DEF Xor
<1>7. \A a, b, c, d, e, f, g \in Int :
        Xor(Xor(Xor(a, b), Xor(e, f)), g) = Xor(Xor(Xor(c, d), Xor(e, f)), g) => (a + b) % 2 = (c + d) % 2
  BY DEF Xor
<1>8. (Bit0(y \div 8) + Bit0(x \div 8)) % 2 = (Bit0(v \div 8) + Bit0(u \div 8)) % 2
  BY <1>1, <1>2, <1>5, <1>6 DEF Pipe
<1>9. Bit0(s.bank) \in Int /\ Bit1(s.bank) \in Int /\ Bit0(k) \in Int /\ Bit1(k) \in Int
      /\ Bit0(3 * 0) \in Int /\ Bit1(3 * 0) \in Int
  BY <1>1 DEF Bit0, Bit1
<1>10. (Bit0(y \div 32) + Bit0(x \div 8)) % 2 = (Bit0(v \div 32) + Bit0(u \div 8)) % 2
  <2>1. Xor(Xor(Xor(Bit0(y \div 32), Bit0(x \div 8)), Xor(Bit0(s.bank), Bit0(3 * 0))), Bit0(k))
        = Xor(Xor(Xor(Bit0(v \div 32), Bit0(u \div 8)), Xor(Bit0(s.bank), Bit0(3 * 0))), Bit0(k))
    BY <1>3, <1>4 DEF LowBank
  <2>2. Bit0(y \div 32) \in Int /\ Bit0(x \div 8) \in Int /\ Bit0(v \div 32) \in Int /\ Bit0(u \div 8) \in Int
    BY <1>2, <1>5
  <2> QED
    BY <1>7, <1>9, <2>1, <2>2
<1>11. (Bit0(y \div 16) + Bit0(x \div 16)) % 2 = (Bit0(v \div 16) + Bit0(u \div 16)) % 2
  <2>1. Xor(Xor(Xor(Bit0(y \div 16), Bit0(x \div 16)), Xor(Bit1(s.bank), Bit1(3 * 0))), Bit1(k))
        = Xor(Xor(Xor(Bit0(v \div 16), Bit0(u \div 16)), Xor(Bit1(s.bank), Bit1(3 * 0))), Bit1(k))
    BY <1>3, <1>4 DEF HighBank
  <2>2. Bit0(y \div 16) \in Int /\ Bit0(x \div 16) \in Int /\ Bit0(v \div 16) \in Int /\ Bit0(u \div 16) \in Int
    BY <1>2, <1>5
  <2> QED
    BY <1>7, <1>9, <2>1, <2>2
<1> QED
  BY <1>8, <1>10, <1>11

(* What an address is made of.                                             *)
LEMMA AddressParts ==
  ASSUME NEW m \in Nat, NEW n \in Nat,
         NEW h \in 0 .. 1, NEW l \in 0 .. 1, NEW p \in 0 .. 1,
         NEW i \in 0 .. 1, NEW k \in 0 .. 1, NEW q \in 0 .. 1,
         1024 * h + 512 * l + 256 * p + (m % 256) + 8 * (m - (m % 256))
           = 1024 * i + 512 * k + 256 * q + (n % 256) + 8 * (n - (n % 256))
  PROVE  h = i /\ l = k /\ p = q /\ m = n
<1>1. PICK a \in Nat, b \in 0 .. 255 : m = 256 * a + b /\ m % 256 = b
  <2>1. m \div 256 \in Nat /\ m % 256 \in 0 .. 255 /\ m = 256 * (m \div 256) + (m % 256)
    OBVIOUS
  <2> QED
    BY <2>1
<1>2. PICK c \in Nat, d \in 0 .. 255 : n = 256 * c + d /\ n % 256 = d
  <2>1. n \div 256 \in Nat /\ n % 256 \in 0 .. 255 /\ n = 256 * (n \div 256) + (n % 256)
    OBVIOUS
  <2> QED
    BY <2>1
<1>3. 1024 * h + 512 * l + 256 * p + b + 2048 * a = 1024 * i + 512 * k + 256 * q + d + 2048 * c
  BY <1>1, <1>2
<1>4. a = c
  BY <1>3
<1>5. b = d /\ 4 * h + 2 * l + p = 4 * i + 2 * k + q
  BY <1>3, <1>4
<1>6. h = i /\ l = k /\ p = q
  BY <1>5
<1> QED
  BY <1>1, <1>2, <1>4, <1>5, <1>6

(* Two texels at places that no bit tells apart.                           *)
Alike(s, x, y, u, v) ==
  /\ x \div MacroPitch(s) = u \div MacroPitch(s) /\ y \div MacroHeight(s) = v \div MacroHeight(s)
  /\ x % 8 = u % 8 /\ y % 8 = v % 8
  /\ (Bit0(y \div 8) + Bit0(x \div 8)) % 2 = (Bit0(v \div 8) + Bit0(u \div 8)) % 2
  /\ (Bit0(y \div 32) + Bit0(x \div 8)) % 2 = (Bit0(v \div 32) + Bit0(u \div 8)) % 2
  /\ (Bit0(y \div 16) + Bit0(x \div 16)) % 2 = (Bit0(v \div 16) + Bit0(u \div 16)) % 2

LEMMA SamePlace ==
  ASSUME NEW s, Thin(s), NEW x \in Nat, NEW y \in Nat, NEW u \in Nat, NEW v \in Nat,
         Alike(s, x, y, u, v)
  PROVE  x = u /\ y = v
<1> USE DEF Alike
<1>0. PICK p \in {8, 16, 32}, h \in {16, 32, 64} :
        /\ p = MacroPitch(s) /\ h = MacroHeight(s)
        /\ (p = 32 /\ h = 16) \/ (p = 16 /\ h = 32) \/ (p = 8 /\ h = 64)
        /\ x \div p = u \div p /\ y \div h = v \div h
  BY MacroRule
<1>1. \A w \in Nat :
        /\ Bit0(w \div 8) \in 0 .. 1 /\ Bit0(w \div 16) \in 0 .. 1 /\ Bit0(w \div 32) \in 0 .. 1
        /\ w \div 16 = 2 * (w \div 32) + Bit0(w \div 16)
        /\ w \div 8 = 2 * (w \div 16) + Bit0(w \div 8)
        /\ w \div 32 = 2 * (w \div 64) + Bit0(w \div 32)
        /\ w = 8 * (w \div 8) + (w % 8)
        /\ w \div 8 \in Nat /\ w \div 16 \in Nat /\ w \div 32 \in Nat /\ w \div 64 \in Nat
  BY DEF Bit0
<1>2. \A a, b, c, d \in 0 .. 1 : (a + b) % 2 = (c + d) % 2 => (a = c <=> b = d)
  OBVIOUS
<1>3. /\ Bit0(y \div 8) = Bit0(v \div 8) <=> Bit0(x \div 8) = Bit0(u \div 8)
      /\ Bit0(y \div 32) = Bit0(v \div 32) <=> Bit0(x \div 8) = Bit0(u \div 8)
      /\ Bit0(y \div 16) = Bit0(v \div 16) <=> Bit0(x \div 16) = Bit0(u \div 16)
  BY <1>1, <1>2
<1>4. x \div 8 = u \div 8 /\ y \div 8 = v \div 8
  <2>1. CASE p = 32 /\ h = 16
    <3>1. Bit0(y \div 16) = Bit0(v \div 16) /\ y \div 32 = v \div 32
      BY <1>0, <1>1, <2>1
    <3>2. Bit0(y \div 32) = Bit0(v \div 32)
      BY <3>1
    <3>3. x \div 16 = u \div 16
      BY <1>0, <1>1, <1>3, <2>1, <3>1
    <3> QED
      BY <1>0, <1>1, <1>3, <2>1, <3>2, <3>3
  <2>2. CASE p = 16 /\ h = 32
    <3>1. Bit0(y \div 32) = Bit0(v \div 32) /\ Bit0(x \div 16) = Bit0(u \div 16)
      BY <1>0, <2>2
    <3>2. y \div 16 = v \div 16
      BY <1>0, <1>1, <1>3, <2>2, <3>1
    <3> QED
      BY <1>0, <1>1, <1>3, <2>2, <3>1, <3>2
  <2>3. CASE p = 8 /\ h = 64
    <3>1. Bit0(x \div 8) = Bit0(u \div 8) /\ x \div 16 = u \div 16
      BY <1>0, <1>1, <2>3
    <3>2. Bit0(x \div 16) = Bit0(u \div 16)
      BY <3>1
    <3>3. y \div 32 = v \div 32
      BY <1>0, <1>1, <1>3, <2>3, <3>1
    <3>4. y \div 16 = v \div 16
      BY <1>1, <1>3, <3>2, <3>3
    <3> QED
      BY <1>0, <1>1, <1>3, <2>3, <3>1, <3>4
  <2> QED
    BY <1>0, <2>1, <2>2, <2>3
<1> QED
  BY <1>1, <1>4

LEMMA MacroApart ==
  ASSUME NEW s, Thin(s), NEW x \in 0 .. s.pitch - 1, NEW y \in Nat,
         NEW u \in 0 .. s.pitch - 1, NEW v \in Nat, MacroAddress(s, x, y) = MacroAddress(s, u, v)
  PROVE  x = u /\ y = v
<1> DEFINE e == (s.bpp \div 8) * PixelIndex(x, y, s.bpp)
           f == (s.bpp \div 8) * PixelIndex(u, v, s.bpp)
<1>1. IsSurface(s) /\ s.bpp \in Sizes /\ s.pitch \in Nat
  BY DEF Thin, IsSurface
<1>2. x \in Nat /\ u \in Nat
  BY <1>1
<1>3. PICK n \in Nat : n = TileBytes(s)
  BY <1>1, TileRule
<1>4. e \in 0 .. n - 1 /\ f \in 0 .. n - 1
  <2>1. e \in 0 .. n - (s.bpp \div 8) /\ f \in 0 .. n - (s.bpp \div 8)
    BY <1>1, <1>2, <1>3, MicroParts
  <2>2. s.bpp \div 8 \in {1, 4, 8, 16}
    BY <1>1, TileRule
  <2> HIDE DEF e, f
  <2> QED
    BY <2>1, <2>2
<1>5. PICK i \in Nat : i = MacroIndex(s, x, y)
  BY <1>2, IndexType
<1>6. PICK j \in Nat : j = MacroIndex(s, u, v)
  BY <1>2, IndexType
<1>7. TotalOffset(s, x, y) = e + n * i /\ TotalOffset(s, u, v) = f + n * j
  BY <1>2, <1>3, <1>5, <1>6, TotalRule
<1> HIDE DEF e, f
<1>8. n * i \in Nat /\ n * j \in Nat
  OBVIOUS
<1>9. TotalOffset(s, x, y) \in Nat /\ TotalOffset(s, u, v) \in Nat
  BY <1>4, <1>7, <1>8
<1>10. /\ HighBank(s, x, y) = HighBank(s, u, v) /\ LowBank(s, x, y) = LowBank(s, u, v)
       /\ Pipe(s, x, y) = Pipe(s, u, v) /\ TotalOffset(s, x, y) = TotalOffset(s, u, v)
  BY <1>9, BankType, AddressParts DEF MacroAddress
<1>11. e = f /\ i = j
  BY <1>4, <1>7, <1>10, Digits
<1>12. x % 8 = u % 8 /\ y % 8 = v % 8
  BY <1>1, <1>2, <1>11, SamePixel DEF e, f
<1>13. PICK p \in {8, 16, 32}, h \in {16, 32, 64} :
         /\ p = MacroPitch(s) /\ h = MacroHeight(s)
         /\ (p = 32 /\ h = 16) \/ (p = 16 /\ h = 32) \/ (p = 8 /\ h = 64)
  BY MacroRule
<1>14. PICK w \in Nat : w = s.pitch \div p /\ x \div p \in 0 .. w - 1 /\ u \div p \in 0 .. w - 1
  <2>1. s.pitch % p = 0 /\ p \in {8, 16, 32, 64}
    BY <1>13, MacroRule
  <2>2. s.pitch \div p \in Nat /\ x \div p \in 0 .. (s.pitch \div p) - 1
    BY <1>1, <2>1, QuotientBelow
  <2>3. u \div p \in 0 .. (s.pitch \div p) - 1
    BY <1>1, <2>1, QuotientBelow
  <2> QED
    BY <2>2, <2>3
<1>15. y \div h \in Nat /\ v \div h \in Nat
  BY <1>13
<1>16. (x \div p) + w * (y \div h) = (u \div p) + w * (v \div h)
  BY <1>5, <1>6, <1>11, <1>13, <1>14 DEF MacroIndex, MacroIndexX
<1>17. x \div p = u \div p /\ y \div h = v \div h
  <2>1. \A a, b \in 0 .. w - 1 : \A k, l \in Nat : a + w * k = b + w * l => a = b /\ k = l
    BY Digits
  <2> QED
    BY <1>14, <1>15, <1>16, <2>1
<1>18. BankSwap(s, x) = BankSwap(s, u)
  BY <1>13, <1>17 DEF BankSwap, MacroIndexX
<1>19. /\ (Bit0(y \div 8) + Bit0(x \div 8)) % 2 = (Bit0(v \div 8) + Bit0(u \div 8)) % 2
       /\ (Bit0(y \div 32) + Bit0(x \div 8)) % 2 = (Bit0(v \div 32) + Bit0(u \div 8)) % 2
       /\ (Bit0(y \div 16) + Bit0(x \div 16)) % 2 = (Bit0(v \div 16) + Bit0(u \div 16)) % 2
  BY <1>10, <1>18, SameBits
<1>20. x \div MacroPitch(s) = u \div MacroPitch(s) /\ y \div MacroHeight(s) = v \div MacroHeight(s)
  BY <1>13, <1>17
<1>21. Alike(s, x, y, u, v)
  BY <1>12, <1>19, <1>20 DEF Alike
<1> QED
  BY <1>2, <1>21, SamePlace

(* The bytes of a texel end where its block of 2048 does.                  *)
LEMMA MacroInside ==
  ASSUME NEW s, Thin(s), NEW g \in Nat, NEW x \in 0 .. s.pitch - 1,
         NEW y \in 0 .. MacroHeight(s) * g - 1
  PROVE  LET bytes == s.pitch * (MacroHeight(s) * g) * Thickness(s.mode) * (s.bpp \div 8)
         IN  /\ MacroAddress(s, x, y) \in Nat
             /\ MacroAddress(s, x, y) % (s.bpp \div 8) = 0
             /\ MacroAddress(s, x, y) + (s.bpp \div 8) <= ((bytes + 2047) \div 2048) * 2048
<1>1. IsSurface(s) /\ s.bpp \in Sizes /\ s.pitch \in Nat /\ s.mode \in Micro \cup Macro
  BY DEF Thin, IsSurface
<1>2. PICK p \in {8, 16, 32}, h \in {16, 32, 64} :
        p = MacroPitch(s) /\ h = MacroHeight(s) /\ p * h = 512
  BY MacroRule
<1>3. x \in Nat /\ y \in Nat /\ h * g \in Nat
  BY <1>1, <1>2
<1>4. PICK w \in Nat : w = s.pitch \div p /\ x \div p \in 0 .. w - 1 /\ s.pitch = p * w
  <2>1. s.pitch % p = 0 /\ p \in {8, 16, 32, 64}
    BY <1>2, MacroRule
  <2>2. s.pitch \div p \in Nat /\ x \div p \in 0 .. (s.pitch \div p) - 1
    BY <1>1, <2>1, QuotientBelow
  <2>3. s.pitch = p * (s.pitch \div p)
    <3>1. CASE p = 8
      BY <1>1, <2>1, <3>1
    <3>2. CASE p = 16
      BY <1>1, <2>1, <3>2
    <3>3. CASE p = 32
      BY <1>1, <2>1, <3>3
    <3> QED
      BY <3>1, <3>2, <3>3
  <2> QED
    BY <2>2, <2>3
<1>5. y \div h \in 0 .. g - 1
  <2>1. CASE h = 16
    BY <1>2, <2>1
  <2>2. CASE h = 32
    BY <1>2, <2>2
  <2>3. CASE h = 64
    BY <1>2, <2>3
  <2> QED
    BY <2>1, <2>2, <2>3
<1>6. PICK t \in {1, 4} : t = Thickness(s.mode)
  BY <1>1, ModeRule
<1>7. PICK b \in {1, 4, 8, 16} : b = s.bpp \div 8
  BY <1>1, TileRule
<1>8. TileBytes(s) = 64 * t * b
  <2>1. TileBytes(s) = 64 * Thickness(s.mode) * (s.bpp \div 8)
    BY <1>1, TileRule
  <2> QED
    BY <1>6, <1>7, <2>1
<1>9. PICK o \in 0 .. 63 : o = PixelIndex(x, y, s.bpp)
  BY <1>1, <1>3, PixelIndexType
<1>10. PICK i \in Nat : i = MacroIndex(s, x, y)
  BY <1>3, IndexType
<1>11. PICK m \in Nat : m = w * g
  OBVIOUS
<1>12. i + 1 <= m
  <2>1. PICK l \in 0 .. w - 1, k \in 0 .. g - 1 : l = x \div p /\ k = y \div h
    BY <1>4, <1>5
  <2>2. i = l + w * k
    BY <1>2, <1>4, <1>10, <2>1 DEF MacroIndex, MacroIndexX
  <2>3. PICK d \in Nat : g = k + 1 + d
    <3>1. g - k - 1 \in Nat /\ g = k + 1 + (g - k - 1)
      OBVIOUS
    <3> QED
      BY <3>1
  <2>4. w * g = w * k + w + w * d /\ w * d \in Nat /\ w * k \in Nat
    BY <2>3
  <2> QED
    BY <1>11, <2>2, <2>4
<1>13. TotalOffset(s, x, y) = b * o + 64 * t * b * i
  <2>1. TotalOffset(s, x, y)
          = (s.bpp \div 8) * PixelIndex(x, y, s.bpp) + TileBytes(s) * MacroIndex(s, x, y)
    BY <1>3, TotalRule
  <2> QED
    BY <1>7, <1>8, <1>9, <1>10, <2>1
<1>14. s.pitch * (MacroHeight(s) * g) * Thickness(s.mode) * (s.bpp \div 8) = 512 * t * b * m
  <2>1. (p * w) * (h * g) = 512 * m
    <3>1. (p * w) * (h * g) = (p * h) * (w * g)
      OBVIOUS
    <3> QED
      BY <1>2, <1>11, <3>1
  <2> QED
    BY <1>2, <1>4, <1>6, <1>7, <2>1
<1>15. PICK q \in Nat : q = b * o + 64 * t * b * i /\ q % b = 0 /\ q + b <= 64 * t * b * m
  <2>1. /\ b * o + 64 * t * b * i \in Nat
        /\ (b * o + 64 * t * b * i) % b = 0
        /\ b * o + 64 * t * b * i + b <= 64 * t * b * m
    <3>1. CASE t = 1
      BY <1>12, <3>1
    <3>2. CASE t = 4
      BY <1>12, <3>2
    <3> QED
      BY <3>1, <3>2
  <2> QED
    BY <2>1
<1>16. PICK c \in Nat : c = 64 * t * b * m /\ 512 * t * b * m = 8 * c
  <2>1. 64 * t * b * m \in Nat /\ 512 * t * b * m = 8 * (64 * t * b * m)
    <3>1. CASE t = 1
      BY <3>1
    <3>2. CASE t = 4
      BY <3>2
    <3> QED
      BY <3>1, <3>2
  <2> QED
    BY <2>1
<1>17. PICK r \in {256 * k : k \in 0 .. 7} :
         r = 1024 * HighBank(s, x, y) + 512 * LowBank(s, x, y) + 256 * Pipe(s, x, y)
  <2>1. \A e, f, k \in 0 .. 1 : \E j \in 0 .. 7 : 256 * j = 1024 * e + 512 * f + 256 * k
    <3> SUFFICES ASSUME NEW e \in 0 .. 1, NEW f \in 0 .. 1, NEW k \in 0 .. 1
                 PROVE  \E j \in 0 .. 7 : 256 * j = 1024 * e + 512 * f + 256 * k
      OBVIOUS
    <3>1. 4 * e + 2 * f + k \in 0 .. 7 /\ 256 * (4 * e + 2 * f + k) = 1024 * e + 512 * f + 256 * k
      OBVIOUS
    <3> QED
      BY <3>1
  <2> QED
    BY <1>3, <2>1, BankType
<1>18. MacroAddress(s, x, y) = r + (q % 256) + 8 * (q - (q % 256))
  BY <1>13, <1>15, <1>17 DEF MacroAddress
<1>19. /\ r + (q % 256) + 8 * (q - (q % 256)) \in Nat
       /\ (r + (q % 256) + 8 * (q - (q % 256))) % b = 0
       /\ r + (q % 256) + 8 * (q - (q % 256)) + b <= ((8 * c + 2047) \div 2048) * 2048
  <2>1. PICK a \in Nat, z \in 0 .. 255 : q = 256 * a + z /\ q % 256 = z
    <3>1. q \div 256 \in Nat /\ q % 256 \in 0 .. 255 /\ q = 256 * (q \div 256) + (q % 256)
      OBVIOUS
    <3> QED
      BY <3>1
  <2>2. PICK k \in 0 .. 7 : r = 256 * k
    OBVIOUS
  <2>3. z % b = 0
    BY <1>15, <2>1
  <2>4. z + b <= 256
    BY <2>3
  <2>5. (256 * k + z + 2048 * a) % b = 0
    BY <2>3
  <2>6. 256 * k + z + 2048 * a + b <= 2048 * a + 2048
    BY <2>4
  <2>7. 256 * a + z + b <= c
    BY <1>15, <1>16, <2>1
  <2>8. (8 * c + 2047) \div 2048 >= a + 1
    BY <2>7
  <2>9. r + (q % 256) + 8 * (q - (q % 256)) = 256 * k + z + 2048 * a
    BY <2>1, <2>2
  <2>10. 256 * k + z + 2048 * a \in Nat
    OBVIOUS
  <2>11. 256 * k + z + 2048 * a + b <= ((8 * c + 2047) \div 2048) * 2048
    BY <2>6, <2>8
  <2> QED
    BY <2>5, <2>9, <2>10, <2>11
<1> QED
  BY <1>7, <1>14, <1>16, <1>18, <1>19

-----------------------------------------------------------------------------
(* The surface as a whole.                                                 *)
LEMMA PaddedRule ==
  ASSUME NEW n \in Nat, NEW tile \in {8, 16, 32, 64}
  PROVE  \E g \in Nat : Padded(n, tile) = tile * g
<1>1. PICK g : g = (n + tile - 1) \div tile
  OBVIOUS
<1>2. g \in Nat
  BY <1>1
<1>3. Padded(n, tile) = tile * g
  BY <1>1, <1>2 DEF Padded
<1> QED
  BY <1>2, <1>3

LEMMA HeightRule ==
  ASSUME NEW s, IsSurface(s)
  PROVE  /\ PaddedHeight(s) \in Nat
         /\ s.mode \in Micro => \E g \in Nat : PaddedHeight(s) = 8 * g
         /\ s.mode \notin Micro => \E g \in Nat : PaddedHeight(s) = MacroHeight(s) * g
<1>1. s.height \in Nat /\ s.mode \in Micro \cup Macro
  BY DEF IsSurface
<1>2. MacroHeight(s) \in {16, 32, 64}
  <2>1. Aspect(s.mode) \in {1, 2, 4}
    BY DEF Aspect
  <2>2. PICK a \in {1, 2, 4} : Aspect(s.mode) = a
    BY <2>1
  <2>3. 16 * a \in {16, 32, 64}
    BY <2>2
  <2> QED
    BY <2>2, <2>3 DEF MacroHeight
<1>3. CASE s.mode \in Micro
  <2>1. PICK g \in Nat : Padded(s.height, 8) = 8 * g
    BY <1>1, PaddedRule
  <2> QED
    BY <1>3, <2>1 DEF PaddedHeight
<1>4. CASE s.mode \notin Micro
  <2>1. PICK g \in Nat : Padded(s.height, MacroHeight(s)) = MacroHeight(s) * g
    <3>1. PICK h \in {16, 32, 64} : MacroHeight(s) = h
      BY <1>2
    <3>2. h \in {8, 16, 32, 64} /\ s.height \in Nat
      BY <1>1, <3>1
    <3>3. \E g \in Nat : Padded(s.height, h) = h * g
      BY <3>2, PaddedRule
    <3> QED
      BY <3>1, <3>3
  <2>2. MacroHeight(s) * g \in Nat
    <3>1. MacroHeight(s) \in Nat
      BY <1>2
    <3> QED
      BY <3>1
  <2> QED
    BY <1>4, <2>1, <2>2 DEF PaddedHeight
<1> QED
  BY <1>3, <1>4

LEMMA TexelsApart ==
  ASSUME NEW s, IsSurface(s), s.bpp \in Sizes, TileBytes(s) <= 2048,
         NEW p \in TexelsOf(s), NEW q \in TexelsOf(s), Address(s, p[1], p[2]) = Address(s, q[1], q[2])
  PROVE  p = q
<1>1. /\ p[1] \in 0 .. s.pitch - 1 /\ p[2] \in Nat /\ p = <<p[1], p[2]>>
      /\ q[1] \in 0 .. s.pitch - 1 /\ q[2] \in Nat /\ q = <<q[1], q[2]>>
  BY HeightRule DEF TexelsOf
<1>2. p[1] = q[1] /\ p[2] = q[2]
  <2>1. CASE s.mode \in Micro
    BY <1>1, <2>1, MicroApart DEF Address
  <2>2. CASE s.mode \notin Micro
    <3>1. Thin(s)
      BY <2>2 DEF Thin, IsSurface
    <3>2. MacroAddress(s, p[1], p[2]) = MacroAddress(s, q[1], q[2])
      BY <2>2 DEF Address
    <3> QED
      BY <1>1, <3>1, <3>2, MacroApart
  <2> QED
    BY <2>1, <2>2
<1> QED
  BY <1>1, <1>2

LEMMA TexelInside ==
  ASSUME NEW s, IsSurface(s), s.bpp \in Sizes, TileBytes(s) <= 2048, NEW p \in TexelsOf(s)
  PROVE  /\ Address(s, p[1], p[2]) % (s.bpp \div 8) = 0
         /\ Address(s, p[1], p[2]) + (s.bpp \div 8) <= SurfaceBytes(s)
<1>1. p[1] \in 0 .. s.pitch - 1 /\ p[2] \in 0 .. PaddedHeight(s) - 1
  BY DEF TexelsOf
<1>2. CASE s.mode \in Micro
  <2>1. PICK g \in Nat : PaddedHeight(s) = 8 * g
    BY <1>2, HeightRule
  <2>2. SurfaceBytes(s) = s.pitch * (8 * g) * Thickness(s.mode) * (s.bpp \div 8)
    BY <1>2, <2>1 DEF SurfaceBytes
  <2>3. Address(s, p[1], p[2]) = MicroAddress(s, p[1], p[2])
    BY <1>2 DEF Address
  <2> QED
    BY <1>1, <1>2, <2>1, <2>2, <2>3, MicroInside
<1>3. CASE s.mode \notin Micro
  <2>1. Thin(s)
    BY <1>3 DEF Thin, IsSurface
  <2>2. PICK g \in Nat : PaddedHeight(s) = MacroHeight(s) * g
    BY <1>3, HeightRule
  <2>3. PICK bytes : bytes = s.pitch * (MacroHeight(s) * g) * Thickness(s.mode) * (s.bpp \div 8)
    OBVIOUS
  <2>4. SurfaceBytes(s) = Padded(bytes, 2048)
    BY <1>3, <2>2, <2>3 DEF SurfaceBytes
  <2>5. bytes \in Int
    <3>1. s.pitch \in Int /\ MacroHeight(s) \in Int /\ Thickness(s.mode) \in Int /\ s.bpp \div 8 \in Int
      BY MacroRule, <2>1, ModeRule, TileRule DEF IsSurface
    <3>2. s.pitch * (MacroHeight(s) * g) \in Int
      BY <3>1
    <3>3. s.pitch * (MacroHeight(s) * g) * Thickness(s.mode) \in Int
      BY <3>1, <3>2
    <3> QED
      BY <2>3, <3>1, <3>3
  <2>6. SurfaceBytes(s) = ((bytes + 2047) \div 2048) * 2048
    <3>1. bytes + 2048 - 1 = bytes + 2047
      BY <2>5
    <3> QED
      BY <2>4, <3>1 DEF Padded
  <2>7. Address(s, p[1], p[2]) = MacroAddress(s, p[1], p[2])
    BY <1>3 DEF Address
  <2> QED
    BY <1>1, <2>1, <2>2, <2>3, <2>6, <2>7, MacroInside
<1> QED
  BY <1>2, <1>3

(* A set is as large as another one it is mapped to one by one.            *)
LEMMA ImageSize ==
  ASSUME NEW T, IsFiniteSet(T), NEW A, NEW f \in [T -> A],
         \A p, q \in T : f[p] = f[q] => p = q, \A a \in A : \E p \in T : f[p] = a
  PROVE  Cardinality(A) = Cardinality(T)
<1>1. f \in Injection(T, A)
  BY DEF Injection, IsInjective
<1>2. f \in Surjection(T, A)
  BY DEF Surjection
<1>3. ExistsBijection(T, A)
  BY <1>1, <1>2 DEF ExistsBijection, Bijection
<1> QED
  BY <1>3, FS_Bijection

LEMMA Below ==
  ASSUME NEW n \in Nat
  PROVE  IsFiniteSet(0 .. n - 1) /\ Cardinality(0 .. n - 1) = n
<1>1. 0 \in Int /\ n - 1 \in Int
  OBVIOUS
<1>2. /\ IsFiniteSet(0 .. n - 1)
      /\ Cardinality(0 .. n - 1) = IF 0 > n - 1 THEN 0 ELSE (n - 1) - 0 + 1
  BY <1>1, FS_Interval
<1> QED
  BY <1>2

LEMMA TexelsCount ==
  ASSUME NEW s, IsSurface(s)
  PROVE  IsFiniteSet(TexelsOf(s)) /\ Cardinality(TexelsOf(s)) = s.pitch * PaddedHeight(s)
<1>1. PICK w \in Nat, h \in Nat : s.pitch = w /\ PaddedHeight(s) = h
  BY HeightRule DEF IsSurface
<1>2. /\ IsFiniteSet(0 .. w - 1) /\ Cardinality(0 .. w - 1) = w
      /\ IsFiniteSet(0 .. h - 1) /\ Cardinality(0 .. h - 1) = h
  BY Below
<1>3. TexelsOf(s) = (0 .. w - 1) \X (0 .. h - 1)
  BY <1>1 DEF TexelsOf
<1>4. /\ IsFiniteSet((0 .. w - 1) \X (0 .. h - 1))
      /\ Cardinality((0 .. w - 1) \X (0 .. h - 1)) = Cardinality(0 .. w - 1) * Cardinality(0 .. h - 1)
  BY <1>2, FS_Product
<1> QED
  BY <1>1, <1>2, <1>3, <1>4

AddressesOf(s) == {Address(s, p[1], p[2]) : p \in TexelsOf(s)}

AddressOf(s) == [p \in TexelsOf(s) |-> Address(s, p[1], p[2])]

LEMMA SurfaceApart ==
  ASSUME NEW s, IsSurface(s), s.bpp \in Sizes, TileBytes(s) <= 2048
  PROVE  Apart(s)
<1>1. AddressesOf(s) = {Address(s, p[1], p[2]) : p \in TexelsOf(s)}
  BY DEF AddressesOf
<1>2. \A p \in TexelsOf(s) : AddressOf(s)[p] = Address(s, p[1], p[2])
  BY DEF AddressOf
<1>3. AddressOf(s) \in [TexelsOf(s) -> AddressesOf(s)]
  <2>1. \A p \in TexelsOf(s) : Address(s, p[1], p[2]) \in AddressesOf(s)
    BY <1>1
  <2> QED
    BY <2>1 DEF AddressOf
<1>4. \A p, q \in TexelsOf(s) : AddressOf(s)[p] = AddressOf(s)[q] => p = q
  <2> SUFFICES ASSUME NEW p \in TexelsOf(s), NEW q \in TexelsOf(s), AddressOf(s)[p] = AddressOf(s)[q]
               PROVE  p = q
    OBVIOUS
  <2>1. Address(s, p[1], p[2]) = Address(s, q[1], q[2])
    BY <1>2
  <2> QED
    BY <2>1, TexelsApart
<1>5. \A a \in AddressesOf(s) : \E p \in TexelsOf(s) : AddressOf(s)[p] = a
  <2>1. \A a \in AddressesOf(s) : \E p \in TexelsOf(s) : Address(s, p[1], p[2]) = a
    BY <1>1
  <2> QED
    BY <1>2, <2>1
<1>6. Cardinality(AddressesOf(s)) = s.pitch * PaddedHeight(s)
  BY <1>3, <1>4, <1>5, TexelsCount, ImageSize
<1>7. \A a \in AddressesOf(s) : a % (s.bpp \div 8) = 0 /\ a + (s.bpp \div 8) <= SurfaceBytes(s)
  <2> SUFFICES ASSUME NEW a \in AddressesOf(s)
               PROVE  a % (s.bpp \div 8) = 0 /\ a + (s.bpp \div 8) <= SurfaceBytes(s)
    OBVIOUS
  <2>1. PICK p \in TexelsOf(s) : Address(s, p[1], p[2]) = a
    BY <1>1
  <2> QED
    BY <2>1, TexelInside
<1> QED
  BY <1>1, <1>6, <1>7 DEF Apart

-----------------------------------------------------------------------------
(***************************************************************************)
(* The images that are written: the surface of each is one of a header,    *)
(* and a header without a surface has the texels the image is read from.   *)
(***************************************************************************)
FitsIn(i, f) ==
  IF i.surface # None THEN IsSurface(i.surface) /\ i.surface.bpp \in Sizes
  ELSE i.tile = "NX" =>
         i.width * i.height = f.texture.width * f.texture.height * (IF i.stream = "high" THEN 4 ELSE 1)

ImagesFit == \A k \in DOMAIN out : out[k].kind = "image" => FitsIn(out[k], file)

TextureFates == {"texture", "high", "header", "font"}

HeaderOfTool == fate \in TextureFates => IsTexture(file.texture)

ImageInv == OutIsSeq /\ ImagesFit /\ HeaderOfTool

LEMMA FitNone ==
  ASSUME OutIsSeq, ImagesFit, UNCHANGED <<file, out>>
  PROVE  OutIsSeq' /\ ImagesFit'
BY DEF OutIsSeq, ImagesFit

LEMMA FitMore ==
  ASSUME OutIsSeq, ImagesFit, UNCHANGED file, NEW x, x.kind = "image" => FitsIn(x, file),
         out' = Append(out, x)
  PROVE  OutIsSeq' /\ ImagesFit'
<1>1. /\ OutIsSeq' /\ out'[Len(out) + 1] = x
      /\ \A k : k \in DOMAIN out' <=> k \in DOMAIN out \/ k = Len(out) + 1
      /\ \A k \in DOMAIN out : out'[k] = out[k]
  BY OutGrows
<1>2. ASSUME NEW k \in DOMAIN out', out'[k].kind = "image" PROVE FitsIn(out'[k], file)
  <2>1. CASE k \in DOMAIN out
    <3>1. out'[k] = out[k]
      BY <1>1, <2>1
    <3> QED
      BY <1>2, <2>1, <3>1 DEF ImagesFit
  <2>2. CASE k = Len(out) + 1
    <3>1. out'[k] = x
      BY <1>1, <2>2
    <3> QED
      BY <1>2, <3>1
  <2> QED
    BY <1>1, <2>1, <2>2
<1> QED
  BY <1>1, <1>2 DEF ImagesFit

LEMMA FitOne ==
  ASSUME OutIsSeq, ImagesFit, UNCHANGED file, NEW x, x.kind = "image" => FitsIn(x, file),
         out' = out \o <<x>>
  PROVE  OutIsSeq' /\ ImagesFit'
<1>1. PICK S : out \in Seq(S)
  BY DEF OutIsSeq
<1>2. out' = Append(out, x)
  BY <1>1
<1> QED
  BY <1>2, FitMore

LEMMA FitTwo ==
  ASSUME OutIsSeq, ImagesFit, UNCHANGED file, NEW x, NEW y, x.kind # "image", y.kind # "image",
         out' = out \o <<x, y>>
  PROVE  OutIsSeq' /\ ImagesFit'
<1>1. PICK S : out \in Seq(S)
  BY DEF OutIsSeq
<1>2. /\ out' \in Seq(S \cup {x, y}) /\ Len(out') = Len(out) + 2
      /\ \A i \in 1 .. Len(out) : out'[i] = out[i]
      /\ out'[Len(out) + 1] = x /\ out'[Len(out) + 2] = y
  BY <1>1
<1>3. Len(out) \in Nat /\ DOMAIN out = 1 .. Len(out) /\ DOMAIN out' = 1 .. Len(out) + 2
  BY <1>1, <1>2
<1>4. ASSUME NEW k \in DOMAIN out', out'[k].kind = "image" PROVE FitsIn(out'[k], file)
  <2>1. k # Len(out) + 1 /\ k # Len(out) + 2
    BY <1>2, <1>4
  <2>2. k \in DOMAIN out /\ out'[k] = out[k]
    BY <1>2, <1>3, <2>1
  <2> QED
    BY <1>4, <2>2 DEF ImagesFit
<1> QED
  BY <1>2, <1>4 DEF OutIsSeq, ImagesFit

(* Both kinds of header make images that fit.                              *)
LEMMA MTXTFits ==
  ASSUME NEW t, IsTexture(t), t.kind = "MTXT", NEW st, NEW f
  PROVE  FitsIn(MTXTImage(t, st), f)
<1>1. PICK i : i = MTXTImage(t, st)
  OBVIOUS
<1>2. i.surface = (IF Tiled(t.mode) THEN Surface(t) ELSE None)
      /\ i.tile = (IF Tiled(t.mode) THEN "Custom" ELSE "Linear")
  BY <1>1 DEF MTXTImage
<1>3. CASE Tiled(t.mode)
  <2>1. IsSurface(t)
    BY <1>3 DEF IsTexture, Tiled
  <2>2. PICK s : s = Surface(t)
    OBVIOUS
  <2>3. /\ s.mode = t.mode /\ s.pitch = t.pitch /\ s.height = t.height
        /\ s.pipe = t.pipe /\ s.bank = t.bank
        /\ s.bpp = 8 * TexelBytes(MTXTFormat(t))
    BY <2>2 DEF Surface
  <2>4. IsSurface(s)
    BY <2>1, <2>3 DEF IsSurface, MacroPitch
  <2>5. TexelBytes(MTXTFormat(t)) \in {1, 4, 8, 16}
    BY DEF TexelBytes
  <2>6. s.bpp \in Sizes
    BY <2>3, <2>5 DEF Sizes
  <2> QED
    BY <1>1, <1>2, <1>3, <2>2, <2>4, <2>6 DEF FitsIn
<1>4. CASE ~Tiled(t.mode)
  BY <1>1, <1>2, <1>4 DEF FitsIn
<1> QED
  BY <1>3, <1>4

LEMMA LBIMFits ==
  ASSUME OutIsSeq, ImagesFit, UNCHANGED file, ConvertLBIM, IsTexture(file.texture)
  PROVE  OutIsSeq' /\ ImagesFit'
<1>1. PICK w \in Nat, h \in Nat : w = file.texture.width /\ h = file.texture.height
  BY DEF ConvertLBIM, IsTexture
<1>2. PICK scale \in {1, 2}, st \in {"high", "own"} :
        /\ scale = (IF HasHighData THEN 2 ELSE 1) /\ st = (IF HasHighData THEN "high" ELSE "own")
        /\ scale = (IF st = "high" THEN 2 ELSE 1)
  OBVIOUS
<1>3. PICK i : i = LBIMImage(file.texture, scale * w, scale * h, st)
  OBVIOUS
<1>4. out' = out \o <<i>>
  BY <1>1, <1>2, <1>3 DEF ConvertLBIM, End
<1>5. i.surface = None /\ i.width = scale * w /\ i.height = scale * h /\ i.stream = st
  BY <1>3 DEF LBIMImage
<1>6. (scale * w) * (scale * h) = w * h * (IF st = "high" THEN 4 ELSE 1)
  <2>1. CASE st = "high"
    BY <1>2, <2>1
  <2>2. CASE st # "high"
    BY <1>2, <2>2
  <2> QED
    BY <2>1, <2>2
<1>7. FitsIn(i, file)
  BY <1>1, <1>5, <1>6 DEF FitsIn
<1> QED
  BY <1>4, <1>7, FitOne

LEMMA FileKept ==
  ASSUME ToolsNext \/ UNCHANGED toolVars
  PROVE  file' = file
<1>1. CASE ExtractStep
  BY <1>1 DEF ExtractStep, NotAContainer, RefuseVersion, Mount, ExtractModel, SkipExternal,
     MiddleTexture, HighTexture, LowTexture, EndTextures, NoModel, RefuseModel, LoadModel,
     RefuseGroup, GroupTexture, NextGroup, CachedTexture, EndSimple, Thrown, Processed
<1>2. CASE ConvertTexture \/ ExtractFont
  BY <1>2 DEF ConvertTexture, ExtractFont, PassOver, RefuseData, CopyOut, Decompress, RequestHigh,
     Open, RefuseTexture, ConvertMTXT, ConvertLBIM, RefuseFont, FontTexture, FontChars, End, Step
<1>3. CASE ExtractShaders
  BY <1>3 DEF ExtractShaders, GetType, LoadShaders, ShadersLoaded, RefuseShader, ProcessShader,
     SkipVertex, ExtractVertex, SkipFragment, ExtractFragment, EndShaders, GoOn, smtVars
<1>4. CASE UNCHANGED smtVars
  BY <1>4 DEF smtVars
<1>5. CASE AllLoaded \/ RefuseModelFile
  BY <1>5 DEF AllLoaded, RefuseModelFile
<1> QED
  BY <1>1, <1>2, <1>3, <1>4, <1>5 DEF ToolsNext, ProcessFile, ToolsDone, toolVars, vars, AppProcessFile,
     OpenModel, LoadStep, LoadAll

LEMMA HeaderKept ==
  ASSUME HeaderOfTool, ToolsNext \/ UNCHANGED toolVars
  PROVE  HeaderOfTool'
<1>1. file' = file
  BY FileKept
<1>2. fate' \in TextureFates => fate \in TextureFates
  <2>1. CASE ExtractStep
    BY <2>1 DEF ExtractStep, NotAContainer, RefuseVersion, Mount, ExtractModel, SkipExternal,
       MiddleTexture, HighTexture, LowTexture, EndTextures, NoModel, RefuseModel, LoadModel,
       RefuseGroup, GroupTexture, NextGroup, CachedTexture, EndSimple, Thrown, FallBack, Fail,
       Processed, MoreTextures, TextureFates
  <2>2. CASE ConvertTexture \/ ExtractFont
    BY <2>2 DEF ConvertTexture, ExtractFont, PassOver, RefuseData, CopyOut, Compressed, Decompress,
       RequestHigh, Open, RefuseTexture, ConvertMTXT, ConvertLBIM, RefuseFont, FontTexture, FontChars,
       End, Step, TextureFates
  <2>3. CASE ExtractShaders
    BY <2>3 DEF ExtractShaders, GetType, LoadShaders, ShadersLoaded, RefuseShader, ProcessShader,
       SkipVertex, ExtractVertex, SkipFragment, ExtractFragment, EndShaders, GoOn, smtVars, TextureFates
  <2>4. CASE AllLoaded \/ RefuseModelFile
    BY <2>4 DEF AllLoaded, RefuseModelFile, TextureFates
  <2>5. CASE UNCHANGED smtVars
    BY <2>5 DEF smtVars
  <2> QED
    BY <2>1, <2>2, <2>3, <2>4, <2>5 DEF ToolsNext, ProcessFile, ToolsDone, toolVars, vars,
       AppProcessFile, OpenModel, LoadStep, LoadAll
<1> QED
  BY <1>1, <1>2 DEF HeaderOfTool

LEMMA ImagesKept ==
  ASSUME OutIsSeq, ImagesFit, HeaderOfTool, ToolsNext \/ UNCHANGED toolVars
  PROVE  OutIsSeq' /\ ImagesFit'
<1>1. file' = file
  BY FileKept
<1>2. CASE UNCHANGED out
  BY <1>1, <1>2, FitNone
<1>3. CASE ExtractStep
  <2>1. "image" \notin StreamKinds
    BY DEF StreamKinds
  <2>2. CASE \E x : x.kind \in StreamKinds /\ out' = Append(out, x)
    BY <1>1, <2>1, <2>2, FitMore
  <2>3. CASE \E x, y : x.kind \in StreamKinds /\ y.kind \in StreamKinds /\ out' = out \o <<x, y>>
    BY <1>1, <2>1, <2>3, FitTwo
  <2> QED
    BY <1>2, <1>3, <2>2, <2>3, StreamWrites
<1>4. CASE ConvertTexture \/ ExtractFont
  <2>1. CASE Nothing
    <3>1. PICK S : out \in Seq(S)
      BY DEF OutIsSeq
    <3>2. out' = out
      BY <2>1, <3>1 DEF Nothing
    <3> QED
      BY <1>2, <3>2
  <2>2. CASE NoImage
    <3>1. PICK x : x.kind \in {"copy", "font"} /\ out' = out \o <<x>>
      BY <2>2 DEF NoImage, Adds
    <3> QED
      BY <1>1, <3>1, FitOne
  <2>3. CASE OneImage
    <3>1. PICK st : out' = out \o <<MTXTImage(file.texture, st)>>
      BY <2>3 DEF OneImage
    <3>2. fate \in TextureFates /\ file.texture.kind = "MTXT"
      BY <2>3 DEF OneImage, TextureFates
    <3>3. FitsIn(MTXTImage(file.texture, st), file)
      BY <3>2, MTXTFits DEF HeaderOfTool
    <3> QED
      BY <1>1, <3>1, <3>3, FitOne
  <2>4. CASE ConvertLBIM
    <3>1. IsTexture(file.texture)
      BY <2>4 DEF ConvertLBIM, HeaderOfTool, TextureFates
    <3> QED
      BY <1>1, <2>4, <3>1, LBIMFits
  <2> QED
    BY <1>2, <1>4, <2>1, <2>2, <2>3, <2>4, TextureWrites
<1>5. CASE ExtractShaders
  <2>1. CASE UNCHANGED out
    BY <1>2, <2>1
  <2>2. CASE \E stage, content : WriteShader(stage, content)
    <3>1. PICK stage, content : WriteShader(stage, content)
      BY <2>2
    <3>2. PICK x : x = [name |-> stage, kind |-> "glsl", stream |-> 0, item |-> pos, text |-> content]
      OBVIOUS
    <3>3. x.kind # "image" /\ out' = Append(out, x)
      BY <3>1, <3>2 DEF WriteShader
    <3> QED
      BY <1>1, <3>3, FitMore
  <2>3. UNCHANGED out \/ \E stage, content : WriteShader(stage, content)
    BY <1>5 DEF ExtractShaders, GetType, LoadShaders, ShadersLoaded, RefuseShader, ProcessShader,
       SkipVertex, ExtractVertex, SkipFragment, ExtractFragment, EndShaders, GoOn, smtVars
  <2> QED
    BY <2>1, <2>2, <2>3
<1>6. CASE UNCHANGED smtVars
  BY <1>2, <1>6 DEF smtVars
<1>7. CASE AllLoaded \/ RefuseModelFile
  BY <1>2, <1>7 DEF AllLoaded, RefuseModelFile
<1> QED
  BY <1>3, <1>4, <1>5, <1>6, <1>7 DEF ToolsNext, ProcessFile, ToolsDone, toolVars, vars,
     AppProcessFile, OpenModel, LoadStep, LoadAll

(***************************************************************************)
(* Of every texture with whole tiles, in every tile mode, size of a texel  *)
(* and swizzle: no two texels of a surface are read from the same bytes,   *)
(* none from beyond the surface, and a texture with a higher one is read   *)
(* from that in full (mtxt.cpp, lbim.cpp, addrlib.inl, tex_to_dds.cpp).    *)
(***************************************************************************)
THEOREM TexelsAlwaysRead == ToolsSpec => []TexelsRead
<1>1. ToolsInit => ImageInv
  <2> SUFFICES ASSUME ToolsInit PROVE ImageInv
    OBVIOUS
  <2>1. /\ out = <<>>
        /\ \/ fate = "texture" /\ file \in Textures
           \/ fate = "font" /\ file \in Fonts
           \/ fate \in {"open", "shaders", "model file"}
    BY DEF ToolsInit, ShaderInit, Init, TextureInit, FontInit, ModelInit, Begin, ShaderIdle
  <2>2. OutIsSeq /\ ImagesFit
    <3>1. <<>> \in Seq({}) /\ DOMAIN <<>> = {}
      OBVIOUS
    <3> QED
      BY <2>1, <3>1 DEF OutIsSeq, ImagesFit
  <2>3. HeaderOfTool
    BY <2>1, TexturesAssumption DEF HeaderOfTool, TextureFates
  <2> QED
    BY <2>2, <2>3 DEF ImageInv
<1>2. ImageInv /\ [ToolsNext]_toolVars => ImageInv'
  BY HeaderKept, ImagesKept DEF ImageInv
<1>3. ImageInv => TexelsRead
  <2> SUFFICES ASSUME ImageInv, NEW i \in Images
               PROVE  IF i.surface # None THEN TileBytes(i.surface) > 2048 \/ Apart(i.surface)
                      ELSE i.tile = "NX" =>
                             i.width * i.height = file.texture.width * file.texture.height
                                                    * (IF i.stream = "high" THEN 4 ELSE 1)
    BY DEF TexelsRead
  <2>1. FitsIn(i, file)
    <3>1. PICK k \in Written({"image"}) : i = out[k]
      BY DEF Images
    <3> QED
      BY <3>1 DEF Written, ImageInv, ImagesFit
  <2>2. CASE i.surface # None
    <3>1. PICK s : s = i.surface
      OBVIOUS
    <3>2. IsSurface(s) /\ s.bpp \in Sizes
      BY <2>1, <2>2, <3>1 DEF FitsIn
    <3>3. TileBytes(s) > 2048 \/ TileBytes(s) <= 2048
      <4>1. TileBytes(s) \in Nat
        BY <3>2, TileRule
      <4> QED
        BY <4>1
    <3> QED
      BY <2>2, <3>1, <3>2, <3>3, SurfaceApart
  <2>3. CASE i.surface = None
    BY <2>1, <2>3 DEF FitsIn
  <2> QED
    BY <2>2, <2>3
<1> QED
  BY <1>1, <1>2, <1>3, PTL DEF ToolsSpec
=============================================================================
