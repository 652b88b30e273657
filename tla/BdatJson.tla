------------------------------ MODULE BdatJson ------------------------------
(***************************************************************************)
(* What bdat_to_json and decrypt_bdat make of a file that BdatTables has   *)
(* loaded: a JSON document per table, or one for all of them.  A row       *)
(* becomes an object with a member per key, or in a V4 table an array.     *)
(* The bits that Flag keys name become an object of their own, in place of *)
(* the number they are bits of.                                            *)
(***************************************************************************)
EXTENDS BdatTables, FiniteSets

VARIABLE sent      (* The files written: [name, text].                     *)

allVars == <<vars, tableVars, sent>>

JsonInit == LoadInit /\ sent = <<>>

-----------------------------------------------------------------------------
(* Reading memory.                                                         *)
Bit(n, i) == (n \div 2 ^ i) % 2

(* Numbers with a bit in common: data & f.value, of which the second has   *)
(* 16 bits.                                                                *)
Meet(m, n) == \E i \in 0 .. 15 : Bit(m, i) = 1 /\ Bit(n, i) = 1

Signed(n, w) ==
  IF 2 * n >= Place[w] THEN n - Place[w] ELSE n

(* The text at an offset, which a zero ends.                               *)
TextAt(section, offset) ==
  LET rest == SubSeq(section, offset + 1, Len(section))
  IN  SubSeq(rest, 1, SelectInSeq(rest, LAMBDA c : c = 0) - 1)

(* A value as JSON has it; a pointer leads to its text.                    *)
Value(type, bytes, strings) ==
  LET n == Number(bytes)
  IN  CASE type \in {"i8", "i16", "i32"} -> [number |-> Signed(n, Width[type])]
        [] type = "StringPtr" -> [text |-> TextAt(strings, bytes[1] - ByteRange)]
        [] type = "Float" -> [float |-> bytes]
        [] type = "KeyHash" -> [hex |-> n]
        [] OTHER -> [number |-> n]

-----------------------------------------------------------------------------
(* ToJSON of a V1 table.                                                   *)
NameOf(t, k) == TextAt(t.names, Number(t.keys[k].name))

(* The Flag keys of key k.                                                 *)
FlagsOf(t, k) ==
  {f \in DOMAIN t.keys : t.keys[f].base = "Flag" /\ Number(t.keys[f].owner) = k}

(* Mutation: the bits of a negative number are taken as its width has them. *)
FlagValueUnsigned(t, f, type, bytes) ==
  Meet(Number(bytes), Number(t.keys[f].value))

(* data is as wide as an int, with the sign of the cell.                   *)
FlagValue(t, f, type, bytes) ==
  LET n == Number(bytes)
      wide == IF type \in {"i8", "i16", "i32"} THEN Signed(n, Width[type]) ELSE n
  IN  Meet(wide % 2 ^ 16, Number(t.keys[f].value))

FlagDict(t, k, bytes) ==
  LET flags == FlagsOf(t, k)
  IN  [name \in {NameOf(t, f) : f \in flags} |->
        LET f == CHOOSE f \in flags :
              NameOf(t, f) = name /\ \A g \in flags : NameOf(t, g) = name => f <= g
        IN  FlagValue(t, f, t.keys[k].type, bytes)]

SetValue(t, k, row, offset) ==
  LET bytes == Cell(row, offset, Width[t.keys[k].type])
  IN  IF FlagsOf(t, k) # {} THEN [flags |-> FlagDict(t, k, bytes)]
        ELSE Value(t.keys[k].type, bytes, t.strings)

Member(t, k, row) ==
  LET offset == Number(t.keys[k].offset)
  IN  IF t.keys[k].base = "Default" THEN SetValue(t, k, row, offset)
        ELSE [array |-> [a \in 1 .. Number(t.keys[k].items) |->
                          SetValue(t, k, row, offset + (a - 1) * Width[t.keys[k].type])]]

RowObject(t, row) ==
  LET shown == {k \in DOMAIN t.keys : t.keys[k].base # "Flag"}
  IN  [name \in {NameOf(t, k) : k \in shown} |->
        Member(t, CHOOSE k \in shown : NameOf(t, k) = name, row)]

(* SetFlags takes numbers only.                                            *)
FlagsFit(t) ==
  \A k \in DOMAIN t.keys :
    \/ FlagsOf(t, k) = {} \/ t.rows = <<>>
    \/ t.keys[k].type \notin {"StringPtr", "Float"}
    \/ t.keys[k].base = "Array" /\ Number(t.keys[k].items) = 0
    \/ t.keys[k].base = "Flag"

(* ToJSON of a V4 table.                                                   *)
RowArray(t, row) ==
  [c \in DOMAIN t.keys |->
    Value(t.keys[c], Cell(row, ColumnOffset(t.keys, c), Width[t.keys[c]]), t.strings)]

Convertible(t) == job.version = "V1" => FlagsFit(t)

(* The loops of ToJSON get to their ends.                                  *)
Ending(t) ==
  job.version = "V4" /\ t.rows # <<>> => Countable(Len(t.rows)) /\ Countable(Len(t.keys))

ToJSON(t) ==
  [r \in DOMAIN t.rows |->
    IF job.version = "V1" THEN RowObject(t, t.rows[r]) ELSE RowArray(t, t.rows[r])]

-----------------------------------------------------------------------------
(* Extract.                                                                *)
Extracting == job.extract /\ Len(job.tables) > 1

TableName(i) == IF job.version = "V1" THEN TextAt(loaded[i].names, 0) ELSE i

(* The next table has a file of its own, which is made before its text.    *)
AtTable ==
  /\ step = "loaded" /\ job.tool = "json"
  /\ Extracting /\ Len(sent) < Len(loaded)

SendTable ==
  LET i == Len(sent) + 1
  IN  /\ AtTable /\ Convertible(loaded[i]) /\ Ending(loaded[i])
      /\ sent' = Append(sent, [name |-> TableName(i), text |-> <<ToJSON(loaded[i])>>])
      /\ UNCHANGED <<vars, tableVars>>

RefuseFlags ==
  LET i == Len(sent) + 1
  IN  /\ AtTable /\ ~Convertible(loaded[i])
      /\ sent' = Append(sent, [name |-> TableName(i), text |-> <<>>])
      /\ step' = "failed"
      /\ UNCHANGED <<vars, job, keys, rows, cursor, loaded>>

CircleTable ==
  LET i == Len(sent) + 1
  IN  /\ AtTable /\ ~Ending(loaded[i]) /\ LoopForEver
      /\ sent' = Append(sent, [name |-> TableName(i), text |-> <<>>])

(* All tables go to one file, as the members of an object.                 *)
Together == step = "loaded" /\ job.tool = "json" /\ ~Extracting

OpenFile ==
  /\ Together /\ sent = <<>>
  /\ sent' = <<[name |-> "file", text |-> <<[token |-> "{"]>>]>>
  /\ UNCHANGED <<vars, tableVars>>

Written == Len(sent[1].text) - 1

(* The members of a V4 collection all have the file's name.                *)
MemberName(i) == IF job.version = "V1" THEN TableName(i) ELSE "file"

WriteTable ==
  LET i == Written + 1
  IN  /\ Together /\ sent # <<>> /\ Written < Len(loaded)
      /\ Convertible(loaded[i]) /\ Ending(loaded[i])
      /\ sent' = [sent EXCEPT ![1].text = Append(@,
           [token |-> "member", name |-> MemberName(i), text |-> ToJSON(loaded[i])])]
      /\ UNCHANGED <<vars, tableVars>>

RefuseMember ==
  LET i == Written + 1
  IN  /\ Together /\ sent # <<>> /\ Written < Len(loaded) /\ ~Convertible(loaded[i])
      /\ sent' = [sent EXCEPT ![1].text = Append(@, [token |-> "name", name |-> MemberName(i)])]
      /\ step' = "failed"
      /\ UNCHANGED <<vars, job, keys, rows, cursor, loaded>>

CircleMember ==
  LET i == Written + 1
  IN  /\ Together /\ sent # <<>> /\ Written < Len(loaded)
      /\ ~Ending(loaded[i]) /\ LoopForEver
      /\ sent' = [sent EXCEPT ![1].text = Append(@, [token |-> "name", name |-> MemberName(i)])]

(* The buffer as decrypt_bdat has left it.                                 *)
SaveBuffer ==
  /\ step = "loaded" /\ job.tool = "decrypt" /\ sent = <<>>
  /\ sent' = <<[name |-> "bdatdec", text |-> loaded]>>
  /\ UNCHANGED <<vars, tableVars>>

EndFile ==
  /\ step = "loaded" /\ sent # <<>>
  /\ job.tool = "json" =>
       IF Extracting THEN Len(sent) = Len(loaded) ELSE Written = Len(loaded)
  /\ step' = "done"
  /\ UNCHANGED <<vars, job, keys, rows, cursor, loaded, sent>>

AppProcessFile ==
  \/ ProcessClass /\ UNCHANGED sent
  \/ SendTable \/ RefuseFlags \/ CircleTable
  \/ OpenFile \/ WriteTable \/ RefuseMember \/ CircleMember
  \/ SaveBuffer
  \/ EndFile

AllDone == step \in {"failed", "done", "endless"} /\ UNCHANGED allVars

EncryptSections == CipherStep /\ UNCHANGED sent

JsonNext == EncryptSections \/ AppProcessFile \/ AllDone

(* One process, which nothing suspends for ever.                           *)
JsonSpec == JsonInit /\ [][JsonNext]_allVars /\ WF_allVars(AppProcessFile)

(* How many files AppExtractStat announces.                                *)
ExtractStat ==
  IF job.extract /\ job.version # "V4 data" THEN Len(job.tables) ELSE 1

-----------------------------------------------------------------------------
(* What a table says, by the descriptions in BdatTables alone.             *)
Says(type, value, strings, coded) ==
  CASE type = "StringPtr" -> [text |-> TextAt(strings, value)]
    [] type = "Float" ->
         [float |-> IF coded THEN Decode(Bytes(value, 4)) ELSE Bytes(value, 4)]
    [] type = "KeyHash" -> [hex |-> value]
    [] OTHER -> [number |-> value]

SaysName(t, k) == TextAt(t.names, t.keys[k].name)

(* The members of an object have names of their own; Flag keys need not.   *)
ASSUME NamesAssumption ==
  \A j \in Jobs \ {NoFile} : j.version = "V1" =>
    \A i \in DOMAIN j.tables :
      LET t == j.tables[i]
      IN  \A k, l \in {m \in DOMAIN t.keys : t.keys[m].base # "Flag"} :
            SaysName(t, k) = SaysName(t, l) => k = l

SaysFlags(t, k, value) ==
  LET flags == {f \in DOMAIN t.keys : t.keys[f].base = "Flag" /\ t.keys[f].owner = k}
  IN  [name \in {SaysName(t, f) : f \in flags} |->
        LET f == CHOOSE f \in flags :
              SaysName(t, f) = name /\ \A g \in flags : SaysName(t, g) = name => f <= g
        IN  \E i \in 0 .. 15 : Bit(t.keys[f].value, i) = 1 /\ Bit(value % 2 ^ 16, i) = 1]

SaysCell(t, k, value) ==
  IF \E f \in DOMAIN t.keys : t.keys[f].base = "Flag" /\ t.keys[f].owner = k
  THEN [flags |-> SaysFlags(t, k, value)]
  ELSE Says(t.keys[k].type, value, t.strings, t.coded)

SaysMember(t, k, value) ==
  IF t.keys[k].base = "Default" THEN SaysCell(t, k, value)
    ELSE [array |-> [a \in 1 .. t.keys[k].items |-> SaysCell(t, k, value[a])]]

SaysRow(t, row) ==
  IF job.version = "V1"
  THEN LET shown == {k \in DOMAIN t.keys : t.keys[k].base # "Flag"}
       IN  [name \in {SaysName(t, k) : k \in shown} |->
             LET k == CHOOSE k \in shown : SaysName(t, k) = name
             IN  SaysMember(t, k, row[k])]
  ELSE [c \in DOMAIN t.types |-> Says(t.types[c], row[c], t.strings, FALSE)]

SaysTable(t) == [r \in DOMAIN t.rows |-> SaysRow(t, t.rows[r])]

(***************************************************************************)
(* Every table that is written says what the table in the file says, in    *)
(* its own place: whatever the byte order, each cell, array item and flag  *)
(* has been swapped, decoded and fixed up exactly once, over descriptors   *)
(* that were themselves swapped before, and over strings that were         *)
(* decrypted in time (bdat.cpp:225-440 and bdat_to_json.cpp:49-332).       *)
(***************************************************************************)
RowsReadBack ==
  job # NoFile /\ job.tool = "json" /\ sent # <<>> =>
    IF Extracting
    THEN \A i \in DOMAIN sent :
           sent[i].text # <<>> => sent[i].text = <<SaysTable(job.tables[i])>>
    ELSE \A i \in 1 .. Written :
           sent[1].text[i + 1].token = "member" =>
             sent[1].text[i + 1].text = SaysTable(job.tables[i])

(***************************************************************************)
(* The sections of every loaded table are plain, for both tools, whatever  *)
(* the byte order (bdat.cpp:246-253, decrypt_bdat.cpp:83-97).              *)
(***************************************************************************)
SectionsPlain ==
  job # NoFile =>
    \A i \in DOMAIN loaded :
      /\ loaded[i].strings = job.tables[i].strings
      /\ job.version = "V1" => loaded[i].names = job.tables[i].names

(***************************************************************************)
(* A file is converted, all of it, or refused for a reason: a table that   *)
(* is not one, a key, a column or flags of no known kind, a V4 table       *)
(* outside of a collection; and a V1 file in big endian with exactly as    *)
(* many tables as a byte has values, whose number is read as one that      *)
(* could be little endian.  It is never finished, nor refused for that, if *)
(* a V4 table has more rows or columns than are counted in 16 bits         *)
(* (bdat.cpp:402-406, bdat_to_json.cpp:244-249).  Nothing is written of a  *)
(* file that cannot be loaded, and an extracted file has as many files as  *)
(* were announced.                                                         *)
(***************************************************************************)
WellFormed(t) ==
  /\ t.stamped
  /\ job.version = "V4" => Range(t.types) \subseteq DOMAIN Width
  /\ job.version = "V1" =>
       \A k \in DOMAIN t.keys :
         /\ t.keys[k].base \in {"Default", "Array", "Flag"}
         /\ (t.rows = <<>> \/ t.keys[k].base = "Flag" \/ t.keys[k].type \in CellTypes)

Loadable ==
  IF job.tool = "decrypt"
  THEN job.version = "V1" /\ job.tables[1].stamped
  ELSE job.version # "V4 data" /\ \A i \in DOMAIN job.tables : WellFormed(job.tables[i])

Misread == job.version = "V1" /\ job.big /\ Len(job.tables) = ByteRange

Uncountable(t) ==
  job.version = "V4" /\ ~(Countable(Len(t.rows)) /\ Countable(Len(t.types)))

Converted ==
  /\ ~Loadable \/ Misread => sent = <<>>
  /\ \/ /\ step = "endless" /\ \E i \in DOMAIN job.tables : Uncountable(job.tables[i])
     \/ /\ step = "failed"
        /\ \/ ~Loadable \/ Misread
           \/ job.tool = "json" /\ \E i \in DOMAIN loaded : ~Convertible(loaded[i])
     \/ /\ step = "done" /\ Loadable /\ ~Misread /\ Len(loaded) = Len(job.tables)
        /\ job.tool = "json" =>
             /\ \A i \in DOMAIN loaded : Convertible(loaded[i]) /\ ~Uncountable(job.tables[i])
             /\ Extracting => Len(sent) = ExtractStat

Converts == <>[] (job # NoFile => Converted)

(***************************************************************************)
(* A file that is finished is an object: it is opened, its members are     *)
(* separated, and it is closed.                                            *)
(***************************************************************************)
IsObject(text) ==
  /\ text[1].token = "{" /\ text[Len(text)].token = "}"
  /\ \A i \in 2 .. Len(text) - 1 : (text[i].token = "member") <=> i % 2 = 0

FilesAreJson ==
  step = "done" /\ job.tool = "json" /\ ~Extracting => IsObject(sent[1].text)
=============================================================================
