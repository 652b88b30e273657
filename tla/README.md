# XenoLib in TLA+

TLA+ modules for the logic of XenoLib's library (`source/`, `include/xenolib/`)
and of its tools (`toolset/`), TLC configurations that check them on small
instances, and TLAPS proofs of the invariants that matter most. Line numbers
below are those of the repository's files; `PROJECT.json` maps every definition
to the lines it models.

## 1. The system

XenoLib reads the containers of a family of games and converts them to open
formats. Each tool is a plug-in of the Spike framework (which is not part of
the repository): Spike calls `AppProcessFile` for an input file, or, for a tool
that packs, `AppNewArchive`, then `SendFile` from several threads, then
`Finish`. The library mounts a file in place: `ProcessClass` swaps bytes and
turns offsets into pointers, and a set of views (`Impl`, `uni::List`) serves the
tools.

| Component | State it keeps | Operations | What must be right |
|---|---|---|---|
| SAR writer, `sar/make_sar.cpp` | entry list, the store file `<archive>.data`, a mutex, one `curFile` per thread | `AppNewArchive`, `SendFile` (concurrent), `Finish` | every entry selects the bytes of its own file, now and after relocation; nothing lost, nothing twice; ends |
| SAR reader, `sar/sar_extract.cpp`, `sar.cpp` | none | fix up, send every entry | reads what the writer wrote |
| Map extractor, `map/sm_extract.cpp`, `msmd.cpp` | the shared buffer, its header under construction, views, packed UVs kept aside | `ExtractV1`, `ExtractV2`, `MakeGLTFBufferV1` | header and buffer agree; one bad buffer costs nothing else |
| TFBH, `common/tfbh.hpp` | a growing string | `SetArray`, views | slots, strides, offsets |
| Map model loaders, `msim.cpp`, `mstm.cpp` | models, instances, levels | `LoadV1` | every instance and level at its model |
| Map converters, `map/im_to_gltf.cpp`, `map/tm_to_gltf.cpp` | the glTF document, which streams are opened | `ProcessBuffers`, `ProcessMeshes`, `AppProcessFile` | accessors read what their primitive means; the scene is a tree |
| BDAT, `bdat.cpp`, `dev/decrypt_bdat.cpp` | the file in memory, rewritten in place; keys of the header, running keys | `ProcessClass` of both versions, `DecryptSection`, `EncryptSection`, lookups | each byte, cell and pointer is converted exactly once, with the keys it was written with |
| BDAT converter, `bdat/bdat_to_json.cpp` | the document being written | `V1::Extract`, `V4::Extract`, values, arrays, flags | a cell reaches JSON as the file means it |
| ARH, `arh/extract_arh.cpp` | decrypted trie and tails, names found | decrypt, climb, send | every file under its own name |
| Streamed models, `smt/smt_extract.cpp`, `drsm.cpp`, `xbc1.cpp` | a two-slot stream cache, names seen | `ExtractDRSM`, `ExtractSimple`, fallback to the model file | cuts come from the right stream, the best texture wins |
| State machines, `asm/asm_to_json.cpp` | shared "conditions", references to them | `ParseChildren` | references keep meaning their own condition |
| Model converter, `mdo/mdo_to_gltf.cpp` | nodes, joints, vertex buffers, sparse stream, meshes | `LoadSkeleton`, `ProcessSkins`, `ProcessMeshes` | joints, primitives, morphs and weights are those of the model |
| Model library, `mxmd.cpp`, `internal/model.hpp` | a file in memory, objects already processed | `Wrap::Load`, `ProcessClass` of every class of three versions, `WeightSamplers::Get`, `Resample` | every object swapped and every pointer made once, in either byte order |
| Textures, `texture.hpp`, `addrlib.inl`, `tex/tex_to_dds.cpp` | the texture in memory, its header at the end | header, higher level of detail, tile addresses | every texel read from bytes of its own |
| Shaders, `shader/extract_shaders.cpp`, `mths.cpp` | the shader data in memory, one text stream | load, write a file per stage | each file has its own stage's declarations and nothing else |
| Fonts, `font/fnt_extract.cpp` | none | texture, rows of characters | as the file says, or refused |
| BC library (`bc.cpp`), core flags | next to none | pure functions | see section 8 |

How they interact. `sm_extract` writes the buffer and header that `im_to_gltf`
and `tm_to_gltf` open together with a model file: three programs that agree only
through a file, modelled together. `make_sar` and `sar_extract` agree through
the archive in the same way. `mdo_to_gltf` takes its skeleton from a BC archive
and its model from MXMD. `smt_extract` starts over on the model file when the
streams are not of its kind. `smt_extract`, `extract_shaders` and `mdo_to_gltf`
load model files with the same loader, each leaving out parts; all tools that
write textures read their headers and tiles with the same code.

What is hard here: the threads of `make_sar` and the death of that process;
offsets and counters kept by hand over many passes of a buffer (maps, morphs,
relocation); data that is read through a cache or an index another loop has
moved (stream cache, shared conditions, weights of shared vertices); files
rewritten in place, where an object that two others point to must be rewritten
once; running keys; exceptions in the middle of output. Nothing but `make_sar` is concurrent.
`PROJECT.json` lists each hazard at its line with the properties that would
catch it, or a note on why none does.

## 2. The modules

| Module | Of | Role |
|---|---|---|
| `SarFormat` | `sar.hpp`, `sar_extract.cpp` | operators: layout of an archive, what a reader takes from it |
| `SarPack` | what packing promises | abstract specification |
| `SarCreate` | `make_sar.cpp` | threads, mutex, store, `Finish`, crashes; refines `SarPack` |
| `SarCreateProofs` | | theorems |
| `MapStream` | `MakeGLTFBufferV1` | one shared buffer, pass by pass (no specification of its own) |
| `MapExtract`, `MapExtractProofs` | `ExtractV1`, `ExtractV2` | the whole extraction, with two `MapStream` buffers, and theorems |
| `MapModels` | `msim.cpp`, `mstm.cpp` | loading a model file (no specification of its own) |
| `MapScene`, `MapSceneProofs` | `im_to_gltf`, `tm_to_gltf` | composes `MapExtract`, `MapModels` and the conversion, and theorems |
| `BdatCipher` | `bdat.cpp` | encryption, decryption |
| `BdatTables` | `bdat.cpp`, `internal/bdat1.inl`, `internal/bdat4.inl` | loading tables of both versions in either byte order, over `BdatCipher` |
| `BdatJson`, `BdatCipherProofs` | `bdat_to_json.cpp`, `decrypt_bdat.cpp` | composes `BdatTables` and the conversion; theorems about the cipher alone and in the two tools |
| `ArhExtract`, `ArhExtractProofs` | `extract_arh.cpp` | decryption, names, sending, and theorems |
| `MxmdLoad` | `mxmd.cpp`, `internal/mxmd*.inl`, `mths.cpp`, `core.cpp` | `Wrap::Load`: byte order, version, pointers (no specification of its own) |
| `SmtExtract` | `smt_extract.cpp`, `drsm.cpp`, `xbc1.cpp` | containers, stream cache, groups, fallback over `MxmdLoad` |
| `TexTiles` | `addrlib.inl` | operators: the address of a texel for every tile mode |
| `TexTools` | `tex_to_dds.cpp`, `fnt_extract.cpp`, `texture.hpp` | the two tools, over `TexTiles` |
| `ShaderExtract` | `extract_shaders.cpp`, `mths.cpp` | shaders of a model file or alone, over `MxmdLoad` |
| `ExtractTools`, `SmtExtractProofs` | | puts the tools that take one file apart side by side; theorems about `SmtExtract` and about the shaders |
| `AsmConditions`, `AsmConditionsProofs` | `asm_to_json.cpp` | shared conditions, and theorems |
| `MdoNodes`, `MdoGltf`, `MdoGltfProofs` | `mdo_to_gltf.cpp`, `mxmd.cpp`, `model.hpp` | nodes and skins; then buffers, morphs, primitives, weights, meshes; and theorems about nodes, primitives and weights |
| `MC...` | | constants for TLC |

A definition marked `Mutation` is not part of a specification. It stands before
the definition it would replace and shows a plausible mistake in that code; the
property named in `PROJECT.json` under "mutants" then fails.

### How state and actions correspond to the code

**SAR writer.** `pc[t]`, `cur[t]` are a thread's place in `SendFile` and its
`curFile`; `mtx` is the mutex; `files` the vector of entries; `store` and
`storeOnDisk` the side file. `SendFile` is cut where another thread or a crash
can come between: the check of the path, the lock, adding the entry with the
store's position, writing bytes and padding, unlocking. `Finish` writes the
relocated table, copies the store in blocks of `BlockSize` and a rest, and
removes it. `Crash` leaves the disk as it is and starts the process again with
empty memory. Offsets wrap at `OffsetRange` (2^32 in the code).

**Map extractor.** `MapStream` has one action per element of a pass (index
buffers, positions, directions, UVs, colours); `bin` holds for each unit of two
bytes what it belongs to, so that "reads back" can be stated. UVs that fit 16
bits wait in `uv16`. `MapExtract` runs the parts of `ExtractV1` in their order
with one action per entry (textures, cached textures, plain entries, models
whose header is replaced) and, for each shared buffer, `OpenBin`, steps of
`MapStream`, `CloseBin`, the last with or without a header.

**Map converters.** `MapScene` lets an extraction end, loads a model file by the
steps of `MapModels` (`LoadObject` or `LoadTerrain` per mesh, then a step per
matrix and cluster), and builds the document: `OpenStream` is `ProcessBuffers`,
`DrawModel` is `ProcessMeshes`, `Save` the end of `AppProcessFile`.

**BDAT.** One action per byte. `curKey` are the running keys, `key` those of the
header; a history of the encrypted bytes lets the invariant say what the keys
are at each byte. `BdatTables` adds the file around the sections: a number has
the byte order it lies in and how often it was swapped, and a step of the load is
a header, a descriptor, a row, a column. The loops over a newer table count its
columns and rows in 16 bits (`bdat.cpp:402`, `406`, `bdat_to_json.cpp:244`, `249`),
though the table has 32 for their numbers: `Countable` says whether such a loop
gets to its end. From 65,536 on it starts over (`CircleRows`, `CircleColumns`,
`CircleTable`, `CircleMember`), `step` is "endless" for good, and what such a loop
does to memory in the end is not modelled. `BdatJson` reads that memory key by key:
`sent` holds the texts written, and a text that is not JSON is one that was never
closed.

**ARH.** One action per cell climbed; `index`, `parentId`, `curentXor` and
`curPath` are the tool's variables. Archives carry, as ghosts, the path and tail
of every leaf, so that the name found can be compared with the name stored.

**Streamed models.** `cache` is `LocalCache`; an entry of `out` records what was
cut, from which stream, under which name. `fate` is `open`, then either the
container's path (`model`, `textures`) or the model file's (`mdo`, `simple`).

**Loading model files.** A file is a graph of objects with a class each.
`todo` are the objects `ProcessClass` is still called with; `swaps` and `fixed`
count how often the words of an object changed their byte order and each of its
pointers was made one. A step processes one object by what the `ProcessClass` of
its class does, in the order of the code's calls, and goes on to those it points
to. What a tool excludes is not followed. The model of the third version is in
another file, of which `container` says what it is: whole, with other indices than
its assertions allow, without the entries or streams the code takes from it, of
another kind, or not there. `Dangling` are the pointers `V1Model` and `V3Model`
follow without a look at them (the materials, `mxmd.cpp:786`, and the names of
morphs the stream has, `852`): `loading` ends as "undefined", which is neither an
end nor a refusal. `mdo_to_gltf` looks at the header and asks for the stream file
before it loads anything (`RefuseModelFile` in `ExtractTools`).

**Textures, fonts, shaders.** One action per file read, refused or written.
`TexTiles` has no state: `Address` computes with sums and remainders what
`addrlib.inl` does with masks and shifts.

**Conditions.** `conds[name]` is the list of nodes under a name (one: a plain
object; more: an array), `refs` the references written to the states so far.
Every branch of `ParseChildren` is an action.

**Model converter.** `stage` and `done` are the loop being run and its counter.
`nodes`, `roots`, `skins` and `meshes` are the glTF document, with positions
counted from 1; `sparse` is the stream of morph data with its exact offsets;
`buffers[v].rows` are the weights of a vertex buffer, by the row of the weight
buffer they come from. `Loads` is what loading the model checks: the stream file,
the bones of procedural entries (`model.hpp:310`), the target buffers of morphs and
the weight buffer (`mxmd.cpp:838`, `875`), level and slot of every palette
(`model.hpp:474`). `Unweighable` is what stops a primitive: a level without samplers,
a weight buffer with a descriptor of something else (`model.hpp:453`), a vertex
without a number. How loading ends for other files is the matter of `MxmdLoad`.

## 3. The runs

| Run | Checks | Shows |
|---|---|---|
| `sar_create` | `EntriesReadBack`, `RoundTrip`, `IInv`, `StoreKept`, `PackSpec`, `EventuallyClosed` | three threads and a crash: entries lead to their files at every moment, the closed archive reads back, the store is removed only when copied, packing refines its abstract promise and ends |
| `sar_header` | `Recognised` (violated) | the magic of the header is never assigned |
| `map_scene` | `StreamsReadBack`, `ViewsTile`, `SceneTypeOK`, `AsListed`, `MeshesReadBack`, `InstancesReadBack`, `SceneIsTree`, `ViewsOfShared`, `Extracted`, `Converts` | extractor, loader and converter together: header and buffer agree for every order of descriptors, every entry of a map is extracted and a header exists exactly for a buffer that is complete; what a primitive or an instance reads is its own; converting ends in a document or for a reason |
| `map_packed` | `PackedReadBack` (violated) | the second packed UV set of a stream points at the first |
| `bdat_convert` | `InStep`, `LastReadsBack`, `SectionsPlain`, `RowsReadBack`, `Converts` | the section encrypted last is decrypted, byte by byte in step; tables of both versions and byte orders are loaded with every conversion made once, and cells, arrays and flags reach JSON as the file means them; a file is converted, refused for a reason, or, with more rows or columns than 16 bits count, gone through for ever |
| `bdat_object` | `FilesAreJson` (violated) | the object all tables of a file go to is never closed |
| `arh_extract` | `IInv`, `NamesRight`, `SentRight`, `Ends` | names, files sent, and the end of the tool, on broken archives too |
| `extract_tools` | `CutsRight`, `DrsmComplete`, `HighestGroupWins`, `NothingLost`, `MixedByLateHeader`, `TexelsRead`, `ReadsRight`, `ShadersRight`, `EveryFileEnds` | streamed models: cuts, completeness, precedence of groups, fallback; the loader of model files; tiles and texture headers; shaders and fonts; every run of these tools ends as its file requires |
| `smt_third_version` | `EveryVersionExtracts` (violated) | model files of the third version fail their own assertion |
| `asm_conditions` | `FirstsRight`, `MeaningKept` | what stays right although the index is off by one |
| `asm_graph` | `GraphConverted` (violated) | a third condition of a name leads to the second |
| `mdo_gltf` | `NodesRight`, `PrimitivesReadBack`, `WeightsRight`, `Converts` | joints, primitives, morph targets and weights of a saved document, and which models are refused, by every check of the loader and the converter that throws |

One run often carries the questions of several components: `map_scene` starts
either with the extraction alone or with an extraction and a conversion after
it, `bdat_convert` with a call sequence of the cipher or with a file,
`extract_tools` with a file of any of five tools.

### Bounds, and why they are enough

* `sar_create`: four files (longer than a block, empty, short, and one whose
  name is too long), three threads, `BlockSize` 4, `Align` 2, `HeaderSize` 5,
  `EntrySize` 2, `NameCap` 3, `OffsetRange` 64, `MaxCrashes` 1. A copy takes
  whole blocks and a rest; padding is needed and not needed; two threads wait
  while one writes; one crash may come at any step and leave any store behind,
  and a second would find no other kind of leftover. 13,190 states.
* `map_scene`, extraction: buffers that between them have every kind of
  descriptor in an order other than the passes', two buffers per stream, up to
  two streams, odd and even and no indices, two kinds of undecodable vertices;
  the two shared buffers of a map vary in turn. A slip in an offset shows at the
  second element, a slip between streams at the second stream. Conversion: maps
  with two streams, two or three models or clusters per file, four levels,
  `SignBit` 16 for the flag in an index; shared and unshared streams, instanced
  and single models. 136,346 states.
* `bdat_convert`: `ByteRange` 4, texts of up to three bytes, two calls: two
  running keys need a third byte to be used again. Files of both versions and
  byte orders, one, two and `ByteRange` tables (as many as a byte has values,
  the collection whose byte order is guessed wrong), keys of every type, arrays,
  flags over one byte and two, signs, a coded float, and a table that cannot be
  converted after one that can. A counter of two bytes has 16 values here: newer
  tables have 15 rows and 16, with and without strings, and 16 columns, alone and
  beside others, with columns of no type before and after. 105,817 states.
* `arh_extract`: words -16..15, `LetterRange` 8, three tries (branching, a
  chain, no names), four keys, four orders of entries, stored, compressed and
  broken data.
* `extract_tools`: containers of up to three textures with their middle and high
  mips in every order; good, foreign and corrupt streams; model files of up to
  two groups, and three, which the code refuses. The loader gets a full file of
  the first and of the third version, then each of them with one part left out,
  one assertion broken or one wrong identifier, and each kind of stream file. Tiles: every tile mode with
  texels of one to 16 bytes, all texels of a surface of 60 by 24 (in a pitch of
  64, from where banks are swapped) and, for one mode, several swizzles: the bits of a coordinate an
  address is made of are below that. Both kinds of builds: `Builds` is {FALSE, TRUE};
  `smt_third_version` looks at the build with assertions alone. 23,723 states.
* `asm_conditions`: two names, three nodes, up to four transitions in two states
  or three in one: the third node of one name is where the code's index goes
  wrong. 13,499 states.
* `mdo_gltf`: three bones in every order, shared with the archive or not; two
  vertex buffers, shapes of up to two vertices with none, some or all normals
  turned; three primitives over shared buffers and three palettes; `RowRange` 6;
  and a model for each check that throws, which alone it fails.
  72,699 states.

Every passing run fires every action of its next-state relation. The systems
stop by themselves, so each specification that ends has a `Done` step; deadlock
is checked in every run.

### Fairness

Weak fairness of the tool's one step (`AppProcessFile`, `Work`, `Step` and the
like) where a run checks liveness: the tools are sequential and nothing suspends them for
ever. In `SarCreate` weak fairness of `NewArchive`, of every thread's `SendFile`
and of `Finish`: the mutex is held for a bounded number of steps by a thread
that is scheduled, and weak fairness of every thread is enough because files run
out. `Crash` is never fair, and its number is bounded.

## 4. What disagrees with what is said of the code

* `make_sar.cpp:98`: `hdr` is neither initialised nor given its id, so
  `ProcessClass` recognises the archive only by luck of the stack (`sar_header`).
* `sm_extract.cpp:234`: the offset of a packed UV set is the size of a view that
  is not counted until all of them are flushed (`map_packed`).
* `bdat_to_json.cpp:224`: the object all tables of a file go to has no commas
  between them and is never closed (`bdat_object`).
* `mxmd.cpp:706` asserts what `smt_extract.cpp:294` cannot give it for the third
  version (`smt_third_version`).
* `asm_to_json.cpp:204`: the index of a condition in an array starts at -1 and
  counts the elements passed over, so a reference to a later one is one short
  (`asm_graph`).

## 5. What is proved

TLAPS checks these for every value of the constants that the named assumptions
allow. A leaf that one prover finds only after seconds, or cannot even translate
for, names the prover that proves it (`Zenon`, `ZenonT(40)`, `SMTT(20)`): what is
proved then does not depend on how busy the machine is.

| Theorem | Says |
|---|---|
| `SarCreateProofs!TypeCorrect`, `Invariance` | `Spec => []TypeOK`, `[]IInv` |
| `SarCreateProofs!EntriesAlwaysReadBack`, `ClosedArchiveReadsBack`, `StoreIsKept` | the properties `EntriesReadBack`, `RoundTrip`, `StoreKept` |
| `SarCreateProofs!PacksAsPromised` | `SarCreate` implements `SarPack` while offsets fit |
| `MapExtractProofs!ViewsAlwaysTile`, `StreamsAlwaysReadBack` | the properties `ViewsTile`, `StreamsReadBack`; any map |
| `MapSceneProofs!SharedBufferStaysRight` | `StreamsReadBack` to the end of a converter's run |
| `MapSceneProofs!SceneIsAlwaysTree`, `ModelsAlwaysAsListed`, `MeshesAlwaysReadBack`, `InstancesAlwaysReadBack`, `ViewsAlwaysOfShared`, `SceneTypesAlwaysOK` | the six properties of `map_scene` about a document; any map and any model file whose lists fit |
| `BdatCipherProofs!TypeCorrect`, `InStepCorrect`, `LastReadsBackCorrect` | any texts, any byte operation that undoes itself |
| `BdatCipherProofs!ToolsInStep`, `SectionsAlwaysPlain` | the same within the two tools, and the property `SectionsPlain`; any file |
| `BdatCipherProofs!RowsAlwaysReadBack` | the property `RowsReadBack`; any file whose cells lie apart, both versions and byte orders |
| `ArhExtractProofs!Invariance`, `NamesAreRight`, `SentIsRight` | any trie, any depth, any entries |
| `SmtExtractProofs!CutsAreRight`, `HighestGroupAlwaysWins`, `NothingIsLost`, `MixedOnlyByLateHeader`, `DrsmAlwaysComplete` | the properties `CutsRight`, `HighestGroupWins`, `NothingLost`, `MixedByLateHeader`, `DrsmComplete`; any container and model file |
| `SmtExtractProofs!ShadersAlwaysRight` | the property `ShadersRight` in a run of any of the five tools; any file |
| `SmtExtractProofs!ReadsAlwaysRight` | the property `ReadsRight`, for the three tools that load model files; any file of type `IsModelGraph` |
| `SmtExtractProofs!TexelsAlwaysRead` | the property `TexelsRead`; any texture whose rows are whole tiles |
| `AsmConditionsProofs!Invariance`, `FirstsRightCorrect`, `MeaningIsKept` | any state machines |
| `MdoGltfProofs!NodesAreRight`, `PrimitivesAlwaysReadBack`, `WeightsAlwaysRight` | the properties `NodesRight`, `PrimitivesReadBack`, `WeightsRight`; any model and skeleton |

*SAR.* `CreateAssumption` and `FormatAssumption` give the constants their types:
any number of threads, files, crashes, any block size. `EntriesReadBack` is not
inductive: it needs that the thread between lock and unlock is the holder of the
mutex (`MutexHeld`), that its `curFile` is the entry it added (`OwnEntry`), that
a file is in one place only (`EachFileOnce`), and, once copying, that the body is
a beginning of the store and relocated entries select their bytes
(`CopiedSoFar`). `RoundTrip` follows when all is copied. The properties are
stated under `Fits`: beyond it offsets wrap, as the code's do. The refinement
maps the members of the abstract archive to the entries whose bytes are complete,
each with what is read back through it: writing a file's bytes
is the abstract `Store`, copying and relocating stutter, removing
the store is `Close`, and a crash is `StartOver`. Its theorem
assumes `[]Fits`, because a store beyond the range of an offset keeps no promise.

*Maps.* The views of the stream being written are counted as those of one more
finished stream. The invariant `Inv` says that all of these tile what was
written so far (`Tiling`), that the view of the current pass ends where the
buffer does, so that it alone can grow, and that the views of later passes are
still empty, so that they can be moved there (`ViewsRight`). The packed UVs are
the difficulty: their view is begun and filled behind the back of the pass that
keeps them. `MapAssumption` says that the streams are lists
of index buffers and of vertex buffers with descriptors of known kinds.

`StreamsReadBack` is about records: an index buffer's offset, an attribute's.
A record that has been made leads to its values through the view of its slot, and
goes on doing so, because the file is only written on (`Grown`) and a view keeps
its place once anything is in it. Which records have been made is a matter of
the pass and of what is left of its list, which is in order (`Before`, `InOrder`).
The invariant `ReadRight` says so of the streams that are finished
(`HeadersRight`) and of the one being written (`IndicesRight`, `AttrsRight`,
`UvRight`); packed UVs lie in `uv16` until their pass is over, and their records
are about that list as long. `FilesMade` and `WorkRight` add what the rest of the
extraction makes of the two buffers, which the converters then open.

*Scenes.* `SceneAssumption` says what the code takes for granted of a model file:
the levels its clusters or its `meshIndices` give are slots of `lodNodes`
(`LevelsFit`; nothing checks it, and a level beyond them is an index out of
bounds), its lists lie within the file (`ListsFit`), and its meshes name streams
and index buffers of the map (`StreamsFit`). The invariant has four parts.
`SceneRight` keeps the tree: the loader gives each model a slot of `lodNodes`
(`LoaderRight`), a slot's entry is none or a root (`LevelNodesRight`), the nodes
with meshes number the drawn models (`Drawn`); a node is then added as a root
without children or behind all others below a root. `SharedRight` is the
extractor's `SessionRight`, which no step of a converter disturbs. `LoadedRight`
follows the two loops of the library: every matrix up to the current one is placed
as often as its cluster lists a model (`PlacedTo`), every cluster up to the
current one has levelled its models (`LevelledTo`). `DocumentRight` says of the document
that the streams opened have their views and accessors in the order of the header
(`OpenedRight`), and that primitives and instances use theirs. The number of a
view or an accessor is a rank, the count of those made before it; the lemmas
about ranks say that ranks increase and that the element of a filtered list
stands at its rank.

*BDAT.* `CipherAssumption` says only that `Xor` undoes itself. `InStep` relates
the running keys and the bytes done so far to the history of the encryption;
the last section reads back because its keys are still those of the header.
`JobsAssumption` says that the sections and keys of a file are bytes. The running
keys of a text are a recursive function, whose value at a place the proofs get by a
smallest counterexample (`IsRunning`). `SectionsPlain` holds of the tables that
are loaded (`TablesRight`); of the one being loaded, the section that is
deciphered is plain up to the byte reached and has the file's own bytes behind
it, with the running keys of that place (`Deciphering`).

`RowsReadBack` rests on assumptions about the files: the fields of a key have two
bytes, the cells of a row lie within it and share no byte, each holds a value of
its type, a V4 file is little-endian (`JobsAssumption`); the members of an object have
names of their own (`NamesAssumption`); a decoded float has four bytes
(`DecodeAssumption`). The arithmetic comes first: a number below `Place[w]` is read back
from its `w` bytes, and swapping twice is nothing. A row that the file's
program wrote, and the same row processed, are the same painting with other
colours, each byte painted by the one cell that covers it (`Paint`). The
property is not inductive, because what is written comes
from a loaded table; `RowsInv` adds what is at hand before: the keys
before `cursor` are ready and the others as in the file (`KeysRight`), likewise
the rows over keys that are all ready (`RowsRight`), in a V4 table the columns
(`ColumnsRight`), a loaded table is ready in all its parts (`LoadedRight`),
and what was sent says what the file says (`SentRight`).

*ARH.* `ArhAssumption` says the same of `Xor` on words and that every archive
satisfies `IsArchive`, the layout of `arh.hpp`. The invariant says that the
letters collected so far are the end of the path, reversed (`ClimbRight`). What
was sent is an increasing choice of the entries (`Sends`): the proof carries, for
each file sent, the entry it came from.

*Streamed models.* `SmtAssumption` says of a container what its `ProcessClass`
asserts or reads unchecked (`IsContainer`), and of a model file that its groups are
lists and its graph one that can be loaded (`IsModelGraph`, below). `CutsRight` needs to know which stream a slot of the cache can hold
(`CacheRight`): the low textures and the geometry share slot 0, and what
`ProcessClass` asserts makes both the first stream. `HighestGroupWins` and
`NothingLost` need that the names seen are exactly those written from groups, each
once (`SeenRight`), and which groups and textures are passed (`GroupPassed`). The
loader's steps only have to leave all this alone. `DrsmComplete` says at which
place of the output a texture is: at the rank it has among those that are kept,
which `CompleteInv` follows texture by texture.

*Shaders.* `ShaderAssumption` says that every shader of a file has its data, and
that a model file lists as many shaders as it has programs.
The specification is that of all five tools; a run of another tool has no shaders
(`NoShaders`), and in one of `extract_shaders` the loader changes the graph it
reads by no more than leaving out the parts that are not wanted (`GraphKept`).
`GlslRight` says what each text written is of, `TextRight` what of a shader's stage is
in the text that is being put together, `Progress` which stages have been written.

*Loading model files.* Nothing in the code marks an object as processed. One that two
pointers lead to would be swapped twice, and one of another class than its place is for
would be swapped wrongly; `SmtAssumption`, `ShaderAssumption` and `ToolsAssumption`
therefore say of every model file that it is a graph of known classes with the header of its
version (`IsModelGraph`), in which what is processed is behind one pointer at most
(`IsForest`), the header and the stream of another file behind none (`HasRoots`),
and what is behind the other pointers is data (`HasLeaves`). What the nodes are marked
with, which parts and lists are there, which byte order and version the
file has, whether they go together, is left open. The invariant `LoadInv` is about the
set P of the nodes that were handled, in a state after the header (`AfterHeader`): P and
what is waiting have nothing in common, and each of their nodes is a root or behind a
node of P (`Waiting`); what a tool would go on to from P is in P or waiting
(`GoneOn`); a node of P was swapped once if the file is in the other byte order
and never otherwise (`Turned`); its pointers were made once, all others not at all
(`MadeOnce`). That a node that is handled next was not handled before follows
from the forest; that the header leaves nothing out that a tool follows, and that no class
lists a pointer to follow that is neither processed nor bytes, from the table of the
classes, each of whose rows is looked at. The nodes a tool comes to are then in P, or
data that has the right order as it is (`Fit`), for each of the six steps from the header.

*Textures.* `TexturesAssumption` says of a tiled surface that its rows are whole
tiles, macro tiles in a mode that has them, and of its swizzle that it has a bit for
the pipe and two for the bank; the code takes the pitch from the file as it is. In
tiles row by row an address is two digits, the place in a tile and the number of
the tile, and the place has each bit of the two coordinates once
(`PixelsApart`). In tiles of tiles it is the bank, the pipe and an offset
(`AddressParts`), and the offset the number of the macro tile and the place in a
tile: the eight tiles of a macro tile have the same offsets. That bank and pipe
tell these apart is `SamePlace`, for each of the three shapes of a macro tile; the
bank swap does not disturb it, since it depends on the column of macro tiles alone.
The state only has to know that a written image has the surface of a header, or
the size of the one it is read with (`ImagesFit`, `HeaderOfTool`).

*Conditions.* The invariant says when an entry is an object and when an array
(`ObjectForAll`, `ArrayForSeveral`, `FirstIsParsed`); from it `FirstsRight`,
the part of correctness the code does achieve, and `MeaningKept`: moving an
entry into an array changes the meaning of no reference written before.

*Models.* Nodes are only added at the end, below at most one other, which makes
the document a forest; that a joint is the node of its bone needs that names
find the right node. `ModelAssumption` therefore says that joints are bones of
the model and that bones of one name have parents of one name: the code looks
nodes up by name alone, and of namesakes with different parents it would take
the first. Later steps leave the nodes alone but for the meshes' own.

`MeshAssumption` says what else the code reads without a check: primitives name
buffers of the model, a vertex has a number in the weight buffer if any vertex of
its buffer has one, the descriptors have no attribute of the weights' names, and every
level has a palette, if any has. `PrimitivesReadBack` rests on accessors and the sparse
stream growing only at the end (`Longer`, `AtKept`), and on a statement for each pass over the
model of what it has done: the buffers drawn are those of the primitives passed
(`AccessRight`), a target has the last morph passed that moves its buffer
(`MorphsRight`), each primitive passed is at the place of its mesh that its rank
among the primitives of one key gives it (`PlacedRight`), meshes are made in the order of
their keys (`MadeRight`). For `WeightsRight` the same statements say that the row of a
vertex is the one of the first primitive that covers it (`RowsRight`), so that two
primitives with different palettes over one vertex are the only way to a wrong
weight. `DrawInv` says which of them hold in which stage.

*Induction over data.* No induction theorem of the library can be applied here (they take
an operator), so where a recursive function or a fold has to be known for every
argument, the proof takes the smallest argument for which the claim fails (`Smallest`,
`SmallestMember`: the order of the naturals is well-founded) and refutes it: the running keys,
the turned normals, a flattened list of lists.

## 6. What is only model-checked

Liveness (`EventuallyClosed`, `Ends`, `EveryFileEnds`, `Extracted` and the two
`Converts`), which TLAPS does not reach: fairness and ENABLED are beyond it. Every
invariant and every action property of the passing runs is proved. What the runs
that expect a violation refute is a single behaviour each, shown by its trace.

## 7. Abstractions

Vertices, pixels, texts and compressed data are tags or short sequences: what a
property needs is where they come from and where they are read. In the modules
of maps, ARH and conditions files in memory are in native order: those models
start after byte swapping, which `MxmdLoad` and `BdatTables` are about for the
formats where it takes more than one loop. Inputs are well formed as the loaders
require wherever the code reads without a check (indices beyond an array,
circular parents in a trie): such a read is undefined and no property is about
it, but for the null pointers of `MxmdLoad`, where it is an outcome of its own.
Where code of the repository checks and throws, the model does so too, with these
exceptions, which are assumptions on the inputs. Positions of buffers, materials
and bones that lists of Spike are asked for (`uni::List::At`) are in them. No
primitive with weights has an empty index buffer, whose smallest vertex would be
above its largest, every level with samplers has a palette, and rows of the weight
buffer exist for the vertices that need them (`MeshAssumption`). A map mesh has a
primitive: without one `im_to_gltf.cpp:120-126` reads behind the end of its buffers.
The middle stream of a container that lists middle mips is stream 1 (`IsContainer`;
the assertions of `drsm.cpp:73-76` allow another one if the entries begin at 0). A whole reference of `AsmConditions` to an entry
that has become an array means its element 0. Release builds are
assumed, where `assert` is empty, but in `extract_tools` and `smt_third_version`,
which have both. Spike's operations (contexts, files, glTF lists) do what their
callers rely on.

Some properties leave out what the code does not achieve, and say so where they
are stated: `ReadsRight` the bones of a first-version model without bone names,
which stay unswapped (`mxmd.cpp:220`); `TexelsRead` thick tiles of 16 bytes a
texel, larger than a slice; `StreamsReadBack` packed UVs after the first.
The names of materials are offsets that no `ProcessClass` makes pointers; no
tool of the repository follows them, and `ReadsRight` is about those that are
followed.

## 8. Not modelled, and why

* `FindKey` (`bdat.cpp:88`) and `FindBlock_` (`bdat.cpp:111`) return the first of
  what they find, and nothing in the repository calls them on V1 tables.
* `AnimationTrack::Sample` (`bc.cpp:77`): no caller in the repository. The rest of
  the BC library mounts a file that `mdo_to_gltf` takes its bones from; those are
  the `links` of `MdoNodes`.
* The field by field conversion of state machines (`asm_to_json.cpp`, `asmb*.inl`)
  beside the conditions: it formats, without state.
* The relative pointers that TFBH's builder computes in its growing string, and
  the name hash of SAR.
* `sm_extract`: the replaced header of a skybox or landmark moves every pointer,
  an absent section's too (`sm_extract.cpp:394`, `462`); the models have all
  their sections. The folders made beforehand (577-580) lack "oj" and "terrain";
  whether that matters is Spike's.
* Byte swapping of SAR, ARH, MSIM, MSTM and MSMD files: one loop over fixed
  fields each. The record layouts in the headers.
* `core.cpp` beyond the refusal of a byte order: nobody writes files back.
* `obsolete/` (1,900 lines) is not built. `3rd_party/` (20,000 lines, a text
  formatter and a shader disassembler) is not the repository's own. Together they
  are two thirds of the lines under `src/`: what is left is covered but for the
  items above.

Hazards that no property covers have a note in `PROJECT.json`. Further ones that
were met and are out of the models' reach: archives beyond 4 GiB wrap their
offsets without a word (`make_sar.cpp:106`; the properties are stated under
`Fits`); `lodNodes` has four slots and the level comes from the file
(`im_to_gltf.cpp:70`); two textures that share bytes share a header that is
swapped in place (`texture.hpp:197`); `decrypt_bdat` writes decrypted tables with
their keys unchanged, so that loading its output decrypts them again
(`decrypt_bdat.cpp:84`).

## 9. Order of the work

A module that holds proofs uses no RECURSIVE operator, and its constants have
named assumptions. The work went from the writer with threads (`SarCreate`, its
refinement and proofs), over the programs that agree through files (maps) and the
running keys and indices (BDAT, ARH, conditions, streamed models, model
converter), to the loaders (`BdatTables`, `MxmdLoad`), the small tools, and then
the proofs of what the runs had shown. Next would be: TFBH's builder, so that
header and buffer are one file, and the records of state machines.
