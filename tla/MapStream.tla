------------------------------ MODULE MapStream ------------------------------
(***************************************************************************)
(* sm_extract turns the geometry streams of a map into one shared buffer   *)
(* file (.bin), which the converters of the map's models refer to, and a   *)
(* header (.binh) that says where in it everything lies: per stream a view *)
(* for each kind of element, and per vertex attribute an offset in a view. *)
(*                                                                         *)
(* One stream is written in passes over its vertex buffers: a view is      *)
(* contiguous because all its elements are written in one pass.  UVs that  *)
(* fit 16 bits are met during the pass of the wide ones and kept aside.    *)
(*                                                                         *)
(* Lengths are counted in units of two bytes.  A unit of the buffer is     *)
(* modelled by what it belongs to: <<stream, "vertex" or "index", buffer,  *)
(* descriptor>>.                                                           *)
(***************************************************************************)
EXTENDS Integers, Sequences, SequencesExt, FiniteSets

VARIABLES
  source,     (* The streams of the map.                                   *)
  at,         (* The stream being written.                                 *)
  pass,       (* The pass being made over it.                              *)
  queue,      (* What is left of the pass: <<buffer, descriptor>> pairs.   *)
  bin,        (* The .bin file.                                            *)
  total,      (* Header::bufferSize.                                       *)
  views,      (* The stream's views.                                       *)
  indices,    (* The stream's VtIndex records.                             *)
  attrs,      (* The VtAttr records of each of its vertex buffers.         *)
  uv16,       (* The packed UVs of the stream, not in the file yet.        *)
  header,     (* The finished streams.                                     *)
  status      (* "closed" before it, "open", "written" or "failed".        *)

streamVars == <<at, pass, queue, views, indices, attrs, uv16>>
fileVars == <<bin, total, header, status>>
mapVars == <<source, streamVars, fileVars>>

(***************************************************************************)
(* A vertex buffer has n vertices and descriptors.  A descriptor is its    *)
(* usage; for UVs, also how GetAABB of its values will turn out.  Some     *)
(* usages are written nowhere, a reflection vector has no FormatDescr, and *)
(* ProcessClass knows the size of no others.                               *)
(***************************************************************************)
Descriptors ==
  {"position", "normal", "tangent", "uvWide", "uvSigned", "uvUnsigned",
   "colour", "unused", "reflection", "unknown"}

Packed == {"uvSigned", "uvUnsigned"}

(* The passes, and which descriptors each is for.                          *)
Wanted ==
  [position  |-> {"position"},
   direction |-> {"normal", "tangent"},
   uv        |-> {"uvWide"} \cup Packed,
   colour    |-> {"colour"}]

(* The slot whose view a pass fills.                                       *)
PassSlot ==
  [index |-> "IndexShort", position |-> "Float3", direction |-> "Short4",
   uv |-> "Float2", colour |-> "Byte4"]

(* Units per element; an index buffer is padded to two.                    *)
Stride ==
  [Float3 |-> 6, Float2 |-> 4, Short2 |-> 2, Short4 |-> 4, Byte4 |-> 2,
   IndexShort |-> 1, IndexInt |-> 2]

Slots == DOMAIN Stride

NoViews == [slot \in Slots |-> [offset |-> 0, size |-> 0]]

Stream == source[at]

(* The <<buffer, descriptor>> pairs of stream s a pass is for.             *)
DescAt(s, i) == s.vertices[i[1]].descs[i[2]]

Positions(s) ==
  UNION {{v} \X (DOMAIN s.vertices[v].descs) : v \in DOMAIN s.vertices}

Items(s, p) == {i \in Positions(s) : DescAt(s, i) \in Wanted[p]}

(* The order of two loops, one inside the other.                           *)
Before(i, j) == i[1] < j[1] \/ (i[1] = j[1] /\ i[2] < j[2])

Rank(S, i) == Cardinality({j \in S : Before(j, i)}) + 1

Has(s, desc) ==
  \E i \in Positions(s) : DescAt(s, i) = desc

Units(n, tag) == [k \in 1 .. n |-> tag]

(* The counts of its index buffers, and its vertex buffers.                *)
IsStream(s) ==
  /\ s.indices \in Seq(Nat)
  /\ s.vertices \in Seq([n : Nat, descs : Seq(Descriptors)])

IsStreams(streams) ==
  streams \in Seq(Range(streams)) /\ \A s \in Range(streams) : IsStream(s)

-----------------------------------------------------------------------------
(* Nothing of a .bin file is written yet.                                  *)
Fresh ==
  /\ at = 1
  /\ pass = "none"
  /\ queue = {}
  /\ bin = <<>>
  /\ total = 0
  /\ views = NoViews
  /\ indices = <<>>
  /\ attrs = <<>>
  /\ uv16 = <<>>
  /\ header = <<>>

(* MakeGLTFBufferV1 will be called for each of the streams, with a builder *)
(* of their own for the header.                                            *)
Start(streams) ==
  /\ source' = streams
  /\ at' = 1
  /\ pass' = "none"
  /\ queue' = {}
  /\ bin' = <<>>
  /\ total' = 0
  /\ views' = NoViews
  /\ indices' = <<>>
  /\ attrs' = <<>>
  /\ uv16' = <<>>
  /\ header' = <<>>
  /\ status' = "open"

(* A .bin file and its header as a program finds them later that reads     *)
(* both; streams are what they were made from.                             *)
Reopen(streams, file, described) ==
  /\ source' = streams
  /\ at' = Len(streams) + 1
  /\ pass' = "none"
  /\ queue' = {}
  /\ bin' = file
  /\ total' = Len(file)
  /\ views' = NoViews
  /\ indices' = <<>>
  /\ attrs' = <<>>
  /\ uv16' = <<>>
  /\ header' = described
  /\ status' = "written"

(* A pass begins: its view starts where the file ends now.                 *)
Enter(p, items) ==
  /\ pass' = p
  /\ queue' = items
  /\ views' = [views EXCEPT ![PassSlot[p]].offset = total]

(* A buffer is written to the file, to the view of slot.                   *)
Send(slot, units) ==
  /\ bin' = bin \o units
  /\ total' = total + Len(units)
  /\ views' = [views EXCEPT ![slot].size = @ + Len(units)]

(* Where a descriptor nobody decodes is met.                               *)
Undecodable ==
  \/ pass = "none" /\ at <= Len(source) /\ Has(Stream, "unknown")
  \/ pass = "index" /\ queue = {} /\ Has(Stream, "reflection")

(* An exception: the file stays as it is and gets no header.               *)
Refuse ==
  /\ status = "open" /\ Undecodable
  /\ status' = "failed"
  /\ UNCHANGED <<source, streamVars, bin, total, header>>

(* MakeGLTFBufferV1 is called for the next stream.                         *)
BeginStream ==
  /\ status = "open" /\ pass = "none" /\ at <= Len(source)
  /\ ~Undecodable
  /\ Enter("index", (DOMAIN Stream.indices) \X {0})
  /\ UNCHANGED <<source, at, indices, attrs, uv16, fileVars>>

(* What the pass comes to next.                                            *)
Item == CHOOSE i \in queue : \A j \in queue \ {i} : Before(i, j)

(* The next index buffer: its record, its values and its padding.          *)
IndexCount == Stream.indices[Item[1]]

IndexUnits ==
  Units(IndexCount, <<at, "index", Item[1], 0>>)
    \o Units(IndexCount % 2, <<at, "pad", Item[1], 0>>)

DescribeIndices ==
  indices' = Append(indices, [offset |-> views.IndexShort.size,
                              count |-> IndexCount])

(* Mutation: the padding is not counted.                                   *)
WriteIndicesUncounted ==
  /\ status = "open" /\ pass = "index" /\ queue # {}
  /\ DescribeIndices
  /\ bin' = bin \o IndexUnits
  /\ total' = total + IndexCount
  /\ views' = [views EXCEPT !.IndexShort.size = @ + IndexCount]
  /\ queue' = queue \ {Item}
  /\ UNCHANGED <<source, at, pass, attrs, uv16, header, status>>

WriteIndices ==
  /\ status = "open" /\ pass = "index" /\ queue # {}
  /\ DescribeIndices
  /\ Send("IndexShort", IndexUnits)
  /\ queue' = queue \ {Item}
  /\ UNCHANGED <<source, at, pass, attrs, uv16, header, status>>

(* MDO::VertexBuffer is built for every vertex buffer of the stream.       *)
TakeVertices ==
  /\ status = "open" /\ pass = "index" /\ queue = {}
  /\ ~Undecodable
  /\ attrs' = [v \in 1 .. Len(Stream.vertices) |-> <<>>]
  /\ Enter("position", Items(Stream, "position"))
  /\ UNCHANGED <<source, at, indices, uv16, fileVars>>

(* The next descriptor of the pass, its record and its values.             *)
Desc == DescAt(Stream, Item)

ItemUnits(slot) ==
  Units(Stream.vertices[Item[1]].n * Stride[slot],
        <<at, "vertex", Item[1], Item[2]>>)

Describe(slot, offset) ==
  attrs' = [attrs EXCEPT ![Item[1]] =
              Append(@, [slot |-> slot, offset |-> offset, desc |-> Desc])]

(* Mutation: the offset is taken after the view has grown.                 *)
WriteAttributeLate ==
  /\ status = "open" /\ pass \in DOMAIN Wanted /\ queue # {}
  /\ Desc \notin Packed
  /\ Send(PassSlot[pass], ItemUnits(PassSlot[pass]))
  /\ Describe(PassSlot[pass], views'[PassSlot[pass]].size)
  /\ queue' = queue \ {Item}
  /\ UNCHANGED <<source, at, pass, indices, uv16, header, status>>

WriteAttribute ==
  /\ status = "open" /\ pass \in DOMAIN Wanted /\ queue # {}
  /\ Desc \notin Packed
  /\ Describe(PassSlot[pass], views[PassSlot[pass]].size)
  /\ Send(PassSlot[pass], ItemUnits(PassSlot[pass]))
  /\ queue' = queue \ {Item}
  /\ UNCHANGED <<source, at, pass, indices, uv16, header, status>>

(* A packed UV takes its offset from the view, and waits in uv16.          *)
KeepPackedUV ==
  /\ status = "open" /\ pass = "uv" /\ queue # {}
  /\ Desc \in Packed
  /\ Describe("Short2", views.Short2.size)
  /\ uv16' = uv16 \o ItemUnits("Short2")
  /\ queue' = queue \ {Item}
  /\ UNCHANGED <<source, at, pass, views, indices, fileVars>>

NextPass ==
  /\ status = "open" /\ pass \in {"position", "direction"} /\ queue = {}
  /\ LET p == IF pass = "position" THEN "direction" ELSE "uv"
     IN  Enter(p, Items(Stream, p))
  /\ UNCHANGED <<source, at, indices, attrs, uv16, fileVars>>

(* The packed UVs follow the wide ones, if there are any; then colours.    *)
FlushPackedUVs ==
  /\ status = "open" /\ pass = "uv" /\ queue = {}
  /\ LET end == total + Len(uv16)
     IN  /\ bin' = bin \o uv16
         /\ total' = end
         /\ views' = [views EXCEPT
              !.Short2 = IF uv16 = <<>> THEN @
                         ELSE [offset |-> total, size |-> Len(uv16)],
              !.Byte4.offset = end]
  /\ pass' = "colour"
  /\ queue' = Items(Stream, "colour")
  /\ UNCHANGED <<source, at, indices, attrs, uv16, header, status>>

(* Mutation: the next stream goes on with this one's views.                *)
EndStreamKeepViews ==
  /\ status = "open" /\ pass = "colour" /\ queue = {}
  /\ header' = Append(header, [indices |-> indices, vertices |-> attrs,
                               views |-> views])
  /\ at' = at + 1
  /\ pass' = "none"
  /\ indices' = <<>>
  /\ attrs' = <<>>
  /\ uv16' = <<>>
  /\ UNCHANGED <<source, queue, bin, total, views, status>>

EndStream ==
  /\ status = "open" /\ pass = "colour" /\ queue = {}
  /\ header' = Append(header, [indices |-> indices, vertices |-> attrs,
                               views |-> views])
  /\ at' = at + 1
  /\ pass' = "none"
  /\ views' = NoViews
  /\ indices' = <<>>
  /\ attrs' = <<>>
  /\ uv16' = <<>>
  /\ UNCHANGED <<source, queue, bin, total, status>>

WriteHeader ==
  /\ status = "open" /\ pass = "none" /\ at > Len(source)
  /\ status' = "written"
  /\ UNCHANGED <<source, streamVars, bin, total, header>>

Extract ==
  \/ Refuse
  \/ BeginStream
  \/ WriteIndices
  \/ TakeVertices
  \/ WriteAttribute
  \/ KeepPackedUV
  \/ NextPass
  \/ FlushPackedUVs
  \/ EndStream
  \/ WriteHeader

-----------------------------------------------------------------------------
View == [offset : Nat, size : Nat]
VtIndex == [offset : Nat, count : Nat]
VtAttr == [offset : Nat, slot : Slots, desc : Descriptors]

TypeOK ==
  /\ IsStreams(source)
  /\ at \in 1 .. Len(source) + 1
  /\ pass \in {"none"} \cup DOMAIN PassSlot
  /\ queue \subseteq Nat \X Nat
  /\ total = Len(bin)
  /\ views \in [Slots -> View]
  /\ indices \in Seq(VtIndex)
  /\ attrs \in Seq(Seq(VtAttr))
  /\ header \in Seq([indices : Seq(VtIndex), vertices : Seq(Seq(VtAttr)),
                      views : [Slots -> View]])
  /\ status \in {"closed", "open", "written", "failed"}

(* What the units of bin from begin on belong to, n of them.               *)
Belongs(begin, n, tag) ==
  /\ begin + n <= Len(bin)
  /\ \A u \in begin + 1 .. begin + n : bin[u] = tag

(* The descriptors of vertex buffer v that get a record, and the number of *)
(* it: records are made pass by pass.                                      *)
Recorded(s, v) ==
  {d \in DOMAIN s.vertices[v].descs :
     \E p \in DOMAIN Wanted : DescAt(s, <<v, d>>) \in Wanted[p]}

PassOrder == <<"position", "direction", "uv", "colour">>

Turn(desc) == CHOOSE n \in 1 .. 4 : desc \in Wanted[PassOrder[n]]

Due(s, i) == <<Turn(DescAt(s, i)), i[2]>>

RecordNumber(s, i) ==
  Rank({Due(s, <<i[1], d>>) : d \in Recorded(s, i[1])}, Due(s, i))

(* A packed UV that is not the first one of its stream.                    *)
LaterPacked(s, i) ==
  /\ DescAt(s, i) \in Packed
  /\ \E j \in Positions(s) : DescAt(s, j) \in Packed /\ Before(j, i)

IndicesReadBack(s) ==
  /\ Len(header[s].indices) = Len(source[s].indices)
  /\ \A i \in 1 .. Len(header[s].indices) :
       LET x == header[s].indices[i]
       IN  /\ x.count = source[s].indices[i]
           /\ Belongs(header[s].views.IndexShort.offset + x.offset, x.count,
                      <<s, "index", i, 0>>)

AttributeReadsBack(s, i, a) ==
  /\ a.desc = DescAt(source[s], i)
  /\ Belongs(header[s].views[a.slot].offset + a.offset,
             source[s].vertices[i[1]].n * Stride[a.slot],
             <<s, "vertex", i[1], i[2]>>)

RecordOf(s, i) == header[s].vertices[i[1]][RecordNumber(source[s], i)]

(***************************************************************************)
(* Following view and offset, as the converters of map models do, every    *)
(* index buffer and every attribute of a finished stream leads to its own  *)
(* values: no pass and no later stream comes between (sm_extract.cpp:      *)
(* 50-333 against im_to_gltf.cpp:271-317).  Packed UVs after the first of  *)
(* their stream are left out; PackedReadBack is about them.                *)
(***************************************************************************)
StreamsReadBack ==
  \A s \in 1 .. Len(header) :
    /\ IndicesReadBack(s)
    /\ Len(header[s].vertices) = Len(source[s].vertices)
    /\ \A v \in 1 .. Len(header[s].vertices) :
         /\ Len(header[s].vertices[v]) = Cardinality(Recorded(source[s], v))
         /\ \A d \in Recorded(source[s], v) :
              \/ LaterPacked(source[s], <<v, d>>)
              \/ AttributeReadsBack(s, <<v, d>>, RecordOf(s, <<v, d>>))

(***************************************************************************)
(* The views of all finished streams tile what was written for them: none  *)
(* overlaps another, and nothing lies outside them.                        *)
(***************************************************************************)
ViewUnits(s, slot) ==
  LET w == header[s].views[slot]
  IN  w.offset + 1 .. w.offset + w.size

ViewsTile ==
  /\ \A s, t \in 1 .. Len(header) : \A p, q \in Slots :
       <<s, p>> # <<t, q>> => ViewUnits(s, p) \cap ViewUnits(t, q) = {}
  /\ pass = "none" =>
       UNION {ViewUnits(s, p) : s \in 1 .. Len(header), p \in Slots}
         = 1 .. total

(* All vertex buffers of the stream can be decoded.                        *)
Decodable(s) == ~Has(s, "unknown") /\ ~Has(s, "reflection")

(***************************************************************************)
(* Every packed UV reads back, too.                                        *)
(***************************************************************************)
PackedReadBack ==
  \A s \in 1 .. Len(header) : \A v \in 1 .. Len(header[s].vertices) :
    \A d \in Recorded(source[s], v) :
      LaterPacked(source[s], <<v, d>>) =>
        AttributeReadsBack(s, <<v, d>>, RecordOf(s, <<v, d>>))
=============================================================================
