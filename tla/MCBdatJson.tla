----------------------------- MODULE MCBdatJson -----------------------------
(***************************************************************************)
(* Bytes of two bits.  Sections of up to three of them that EncryptSection *)
(* is called for; and files of one, two and, as many as a byte has values, *)
(* four tables, whose keys are of every kind, and some of none, in both    *)
(* byte orders, for both tools.  Four bits are for the counters here: V4   *)
(* tables also have 15 and 16 rows, and 16 columns.                        *)
(***************************************************************************)
EXTENDS BdatJson

MCXor(a, b) ==
  LET X(i) == (Bit(a, i) + Bit(b, i)) % 2
  IN  X(0) + 2 * X(1)

MCTexts == {<<>>, <<2>>, <<1, 3>>, <<0, 3, 1>>}

\* Any function that differs from the identity and from its own square.
MCDecode(bytes) == [bytes EXCEPT ![1] = (@ + 1) % 4, ![3] = (@ + 3) % 4]

Key(name, base, type, offset) ==
  [name |-> name, base |-> base, type |-> type, offset |-> offset,
   items |-> 0, value |-> 0, owner |-> 0]

Single(name, type, offset) == Key(name, "Default", type, offset)
Several(name, type, offset, items) ==
  [Key(name, "Array", type, offset) EXCEPT !.items = items]
FlagKey(name, value, owner) ==
  [Key(name, "Flag", "None", 0) EXCEPT !.value = value, !.owner = owner]

\* The names are <<1>> at 0, <<2>> at 2, <<1, 2>> at 4, <<3>> at 7,
\* <<3, 1>> at 9 and <<2, 2>> at 12; the strings <<1>>, <<3, 2>> and none.
TableOf(theKeys, stride, theRows) ==
  [stamped |-> TRUE, names |-> <<1, 0, 2, 0, 1, 2, 0, 3, 0, 3, 1, 0, 2, 2, 0>>,
   strings |-> <<1, 0, 3, 2, 0, 0>>, keys |-> theKeys, encKeys |-> <<1, 2>>,
   coded |-> FALSE, stride |-> stride, rows |-> theRows]

Mixture ==
  TableOf(<<Single(2, "u16", 0), Several(4, "i8", 2, 2), FlagKey(7, 8, 1),
            Single(9, "StringPtr", 4), FlagKey(12, 5, 1)>>, 8,
          <<<<9, <<-1, 1>>, 0, 2, 0>>, <<6, <<0, -2>>, 0, 0, 0>> >>)

Signs ==
  TableOf(<<Single(2, "i8", 1), FlagKey(4, 4, 1), FlagKey(7, 2, 3), Several(9, "i16", 2, 2),
            FlagKey(12, 1, 4), FlagKey(12, 2, 4)>>, 7,
          <<<<-1, 0, 0, <<-2, 5>>, 0, 0>>, <<1, 0, 0, <<2, -8>>, 0, 0>> >>)

Floats ==
  [TableOf(<<Several(2, "Float", 0, 2), Single(4, "u32", 8), Single(7, "i32", 12)>>, 16,
           <<<<<<27, 200>>, 100, -3>> >>)
     EXCEPT !.coded = TRUE, !.encKeys = <<3, 0>>]

Words ==
  TableOf(<<Single(2, "u8", 0), Several(4, "StringPtr", 1, 2), Single(7, "Float", 9)>>, 14,
          <<<<3, <<2, 5>>, 99>>, <<0, <<0, 2>>, 1>> >>)

Empty == [TableOf(<<Single(2, "u8", 0)>>, 1, <<>>) EXCEPT !.strings = <<>>]

Unstamped == [Empty EXCEPT !.stamped = FALSE]
NoBase == TableOf(<<Key(2, "None", "u8", 0)>>, 1, <<>>)
NoCell == TableOf(<<Single(2, "KeyHash", 0)>>, 1, <<<<0>> >>)
FlaggedText == TableOf(<<Single(2, "StringPtr", 0), FlagKey(4, 1, 1)>>, 4, <<<<0>> >>)

InPair(t) ==
  [t EXCEPT !.encKeys = [i \in 0 .. 1 |-> t.encKeys[i + 1]]]

MCLists ==
  {<<InPair(t)>> : t \in {Mixture, Signs, Floats, Words, Empty, Unstamped, FlaggedText}}
    \cup {<<InPair(t), InPair(u)>> : t \in {Mixture, Floats},
            u \in {Signs, Empty, Unstamped, NoBase, NoCell, FlaggedText}}
    \cup {[i \in 1 .. 4 |-> InPair(Empty)]}

MCColumns(types, theRows) ==
  [stamped |-> TRUE, strings |-> <<1, 0, 3, 2, 0, 0>>, types |-> types, rows |-> theRows]

MCNewLists ==
  LET Wide == MCColumns(<<"u8", "StringPtr", "KeyHash", "i16", "StringPtr", "Unk1", "Float">>,
                        <<<<3, 2, 77, -3, 0, 9, 130>>, <<0, 5, 1, 7, 2, 4, 3>> >>)
      Narrow == MCColumns(<<"i8", "Unk", "StringPtr">>, <<<<-2, 99, 2>> >>)
      NoType == MCColumns(<<"u8", "None">>, <<>>)
      Tall(types, n) == MCColumns(types, [r \in 1 .. n |-> [c \in DOMAIN types |-> 2 * c - 2]])
      Long(types) == Tall([c \in 1 .. 16 |-> types], 0)
  IN  {<<Wide>>, <<Narrow>>, <<Wide, Narrow>>, <<Narrow, NoType>>,
       <<Wide, [Narrow EXCEPT !.stamped = FALSE]>>,
       <<Narrow, Tall(<<"u8">>, 16)>>, <<Tall(<<"None", "StringPtr">>, 16)>>,
       <<Tall(<<"StringPtr", "None">>, 16)>>,
       <<Long("u8")>>, <<Long("None"), Narrow>>, <<Narrow, Long("StringPtr")>>}
        \cup UNION {{<<Tall(<<"u8", "i16">>, n)>>, <<Tall(<<"u8", "StringPtr">>, n), Narrow>>} :
                      n \in {15, 16}}

MCJob(tool, version, big, extract, tables) ==
  [tool |-> tool, version |-> version, big |-> big, extract |-> extract, tables |-> tables]

MCJobs ==
  {NoFile}
    \cup {MCJob("json", "V1", b, e, l) : b \in BOOLEAN, e \in BOOLEAN, l \in MCLists}
    \cup {MCJob("decrypt", "V1", b, FALSE, l) : b \in BOOLEAN, l \in MCLists}
    \cup {MCJob("json", v, FALSE, e, l) : v \in {"V4", "V4 data"}, e \in BOOLEAN, l \in MCNewLists}
    \cup {MCJob("decrypt", "V4", FALSE, FALSE, l) : l \in MCNewLists}
=============================================================================
