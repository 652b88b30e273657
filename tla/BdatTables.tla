----------------------------- MODULE BdatTables -----------------------------
(***************************************************************************)
(* How a BDAT file is loaded.  An older file (V1) is a collection of       *)
(* tables in either byte order; a table has encrypted names and strings    *)
(* (BdatCipher), keys, each with a type descriptor, and rows, in which a   *)
(* key has a cell at its offset.  Loading rewrites all of it in place:     *)
(* sections are decrypted, numbers brought into the byte order of the      *)
(* machine, coded floats decoded and offsets made pointers, each exactly   *)
(* once.  A newer file (V4) has little-endian tables without keys' names,  *)
(* whose cells follow each other in the order of the columns.  It may have *)
(* more of either than the 16 bits can hold that they are counted in.      *)
(*                                                                         *)
(* bdat_to_json loads all tables before it writes one; decrypt_bdat only   *)
(* decrypts their sections.                                                *)
(***************************************************************************)
EXTENDS BdatCipher, SequencesExt

CONSTANTS
  Jobs,        (* The files to load, and NoFile: see below.                *)
  Decode(_)    (* The float that a fixed-point number of four bytes means. *)

(***************************************************************************)
(* A job has the fields                                                    *)
(*   tool     "json" or "decrypt"                                          *)
(*   version  "V1", "V4" or "V4 data": a table outside of a collection     *)
(*   big      the byte order                                               *)
(*   extract  the setting of bdat_to_json                                  *)
(*   tables   what the tables say: whether they are stamped BDAT, their    *)
(*            names and strings, and their rows.  A V1 table also has its  *)
(*            keys: [name, base, type, offset, items, value, owner], the   *)
(*            encKeys, and whether its floats are coded; a V4 table has    *)
(*            the types of its columns                                     *)
(* The value of a string cell is an offset in the strings, of an array a   *)
(* sequence; a Flag key has none: it names bits, value, in the cell of its *)
(* owner, a key by number.                                                 *)
(***************************************************************************)
NoFile == [tool |-> "none", tables |-> <<>>]

VARIABLES
  job,        (* The file and what is done with it.                        *)
  step,       (* "cipher" if there is none, "check", "tables", "sections", *)
              (* "keys", "rows", "columns", "loaded", "failed", "done" or, *)
              (* in a loop that never gets to its end, "endless".          *)
  keys,       (* The key descriptors of the table, as they are in memory.  *)
  rows,       (* Its rows.                                                 *)
  cursor,     (* How many keys, rows or columns are processed.             *)
  loaded      (* The tables that are ready.                                *)

tableVars == <<job, step, keys, rows, cursor, loaded>>

Table == job.tables[Len(loaded) + 1]

-----------------------------------------------------------------------------
(* Numbers.                                                                *)
Width ==
  [u8 |-> 1, u16 |-> 2, u32 |-> 4, i8 |-> 1, i16 |-> 2, i32 |-> 4,
   StringPtr |-> 4, Float |-> 4, KeyHash |-> 4, Unk |-> 4, Unk1 |-> 2]

(* The types a V1 cell may have.                                           *)
CellTypes == {"u8", "u16", "u32", "i8", "i16", "i32", "StringPtr", "Float"}

(* How many values there are in i bytes.                                   *)
Place[i \in 0 .. 4] == IF i = 0 THEN 1 ELSE ByteRange * Place[i - 1]

(* A uint16 gets to n from 0.  V4 counts rows and columns so, whose number *)
(* has four bytes; the numbers of a V1 table have two themselves.          *)
Countable(n) == n < Place[2]

(* What bytes mean, taken from the last, the highest, on.                  *)
Number(bytes) ==
  LET highest[i \in 0 .. Len(bytes)] ==
        IF i = 0 THEN 0 ELSE bytes[Len(bytes) + 1 - i] + ByteRange * highest[i - 1]
  IN  highest[Len(bytes)]

(* n in w bytes, the lowest first.                                         *)
Bytes(n, w) ==
  LET rest[i \in 0 .. w] == IF i = 0 THEN n ELSE rest[i - 1] \div ByteRange
  IN  [i \in 1 .. w |-> rest[i - 1] % ByteRange]

(* FByteswapper, if the file needs it.                                     *)
Swapped(bytes) == IF job.big THEN Reverse(bytes) ELSE bytes

(* A pointer that has been fixed up, to offset n; no file has such bytes.  *)
PointerTo(n) == <<ByteRange + n, ByteRange, ByteRange, ByteRange>>

Cell(row, offset, w) == SubSeq(row, offset + 1, offset + w)

(* Cells do not overlap: <<offset, type, ...>> has these bytes of a row.     *)
Covers(c, i) == i - c[1] \in 1 .. Width[c[2]]

-----------------------------------------------------------------------------
(* The file, as the program that wrote it left it.                         *)

(* The running key that byte i, from 0, is encrypted with: the last but    *)
(* one, and what it was encrypted to.                                      *)
RunningKeys(text, start) ==
  LET key[i \in 0 .. Len(text)] ==
        IF i < 2 THEN StartKey(start)[i]
          ELSE (key[i - 2] + Xor(text[i - 1], key[i - 2])) % ByteRange
  IN  key

Enciphered(text, start) ==
  LET running == RunningKeys(text, start)
  IN  [i \in 1 .. Len(text) |-> Xor(text[i], running[i - 1])]

(* The two keys in the other order, if the file needs it.                  *)
SwappedKeys(pair) == IF job.big THEN [i \in 0 .. 1 |-> pair[1 - i]] ELSE pair

StoredEncKeys(t) == SwappedKeys(t.encKeys)

StoredKey(k) ==
  [base |-> k.base, type |-> k.type,
   name |-> Swapped(Bytes(k.name, 2)), offset |-> Swapped(Bytes(k.offset, 2)),
   items |-> Swapped(Bytes(k.items, 2)), value |-> Swapped(Bytes(k.value, 2)),
   owner |-> Swapped(Bytes(k.owner, 2))]

StoredCell(type, value) == Swapped(Bytes(value, Width[type]))

(* How many cells key k has in a row, where they are and what they say.    *)
CellCount(k) ==
  IF k.type \notin CellTypes THEN 0
    ELSE CASE k.base = "Default" -> 1
           [] k.base = "Array" -> k.items
           [] OTHER -> 0

CellOffset(k, a) == k.offset + (a - 1) * Width[k.type]

CellValue(k, value, a) == IF k.base = "Array" THEN value[a] ELSE value

(* The <<offset, type, value>> cells of a row.                             *)
CellsOfRow(t, row) ==
  UNION {{<<CellOffset(t.keys[k], a), t.keys[k].type, CellValue(t.keys[k], row[k], a)>> :
            a \in 1 .. CellCount(t.keys[k])} : k \in DOMAIN t.keys}

(* Where the columns of a V4 table are; one of no type takes no place.     *)
Offsets(types) ==
  LET end[c \in 0 .. Len(types)] ==
        IF c = 0 THEN 0
          ELSE end[c - 1] + IF types[c] \in DOMAIN Width THEN Width[types[c]] ELSE 0
  IN  end

(* curOffset at column c.                                                  *)
ColumnOffset(types, c) == Offsets(types)[c - 1]

CellsOfColumns(t, row) ==
  {<<ColumnOffset(t.types, c), t.types[c], row[c]>> :
     c \in {d \in DOMAIN t.types : t.types[d] \in DOMAIN Width}}

(* Cells in a row of n bytes.                                              *)
Laid(cells, n) ==
  [i \in 1 .. n |->
    IF \E c \in cells : Covers(c, i)
    THEN LET c == CHOOSE c \in cells : Covers(c, i)
         IN  StoredCell(c[2], c[3])[i - c[1]]
    ELSE 0]

StoredRow(t, row) == Laid(CellsOfRow(t, row), t.stride)

StoredColumns(t, row) == Laid(CellsOfColumns(t, row), ColumnOffset(t.types, Len(t.types) + 1))

-----------------------------------------------------------------------------
(* What the files are known to be.                                         *)
IsList(s) == Len(s) \in Nat /\ DOMAIN s = 1 .. Len(s)

(* A number that a cell of this type can hold.                             *)
InRange(type, n) ==
  /\ n \in Int
  /\ IF type \in {"i8", "i16", "i32"}
     THEN -Place[Width[type]] <= 2 * n /\ 2 * n < Place[Width[type]]
     ELSE 0 <= n /\ n < Place[Width[type]]

(* Sections are bytes, and so are the keys of the header; the fields of a  *)
(* key have two bytes.                                                     *)
PlainTable(t) ==
  /\ t.names \in Seq(Byte)
  /\ t.strings \in Seq(Byte)
  /\ t.encKeys \in [0 .. 1 -> Byte]
  /\ IsList(t.keys) /\ IsList(t.rows) /\ t.stride \in Nat
  /\ Countable(Len(t.keys)) /\ Countable(Len(t.rows))
  /\ \A k \in DOMAIN t.keys : \A f \in {"name", "offset", "items", "value", "owner"} :
       t.keys[k][f] \in 0 .. Place[2] - 1

(* No two cells of a row share a byte; all are in it, and hold their value. *)
CellsApart(t) ==
  \A k \in DOMAIN t.keys : \A a \in 1 .. CellCount(t.keys[k]) :
    LET end == CellOffset(t.keys[k], a) + Width[t.keys[k].type]
    IN  /\ end <= t.stride
        /\ \A r \in DOMAIN t.rows :
             InRange(t.keys[k].type, CellValue(t.keys[k], t.rows[r][k], a))
        /\ \A l \in DOMAIN t.keys : \A b \in 1 .. CellCount(t.keys[l]) :
             \/ k = l /\ a = b
             \/ end <= CellOffset(t.keys[l], b)
             \/ CellOffset(t.keys[l], b) + Width[t.keys[l].type] <= CellOffset(t.keys[k], a)

ColumnsHold(t) ==
  /\ IsList(t.types) /\ IsList(t.rows)
  /\ \A r \in DOMAIN t.rows : \A c \in DOMAIN t.types :
       t.types[c] \in DOMAIN Width => InRange(t.types[c], t.rows[r][c])

ASSUME JobsAssumption ==
  \A j \in Jobs \ {NoFile} :
    /\ IsList(j.tables)
    /\ \A i \in DOMAIN j.tables :
         IF j.version = "V1"
         THEN PlainTable(j.tables[i]) /\ CellsApart(j.tables[i])
         ELSE ~j.big /\ ColumnsHold(j.tables[i])

ASSUME DecodeAssumption ==
  \A bytes \in [1 .. 4 -> Byte] : Decode(bytes) \in [1 .. 4 -> Byte]

-----------------------------------------------------------------------------
LoadInit ==
  /\ job \in Jobs
  /\ step = IF job = NoFile THEN "cipher" ELSE "check"
  /\ keys = <<>>
  /\ rows = <<>>
  /\ cursor = 0
  /\ loaded = <<>>
  /\ IF job = NoFile THEN Init
       ELSE /\ data = [s \in Sections |-> <<>>]
            /\ encKeys = [i \in 0 .. 1 |-> 0] /\ curKey = StartKey(encKeys)
            /\ curIndex = 0 /\ at = "none" /\ stage = "loaded" /\ calls = 0
            /\ last = "none" /\ before = <<>> /\ keyLog = <<>>

(* The sections of one table, on their own.                                *)
CipherStep == step = "cipher" /\ Next /\ UNCHANGED tableVars

Fail ==
  /\ step' = "failed"
  /\ UNCHANGED <<vars, job, keys, rows, cursor, loaded>>

(* Mutation: one more table is needed to see the byte order.               *)
SeenBigLate ==
  Number(Swapped(Bytes(Len(job.tables), 4))) > Place[3]

(* The byte order is guessed from the number of tables.                    *)
SeenBig == Number(Swapped(Bytes(Len(job.tables), 4))) > Place[2]

(* What both tools ask of a file; a wrong guess finds no table.            *)
Acceptable ==
  IF job.version = "V1"
  THEN SeenBig = job.big /\ job.tables[1].stamped
  ELSE job.tool = "json" /\ job.version = "V4"

Check ==
  /\ step = "check" /\ Acceptable
  /\ step' = "tables"
  /\ UNCHANGED <<vars, job, keys, rows, cursor, loaded>>

RefuseFile == step = "check" /\ ~Acceptable /\ Fail

MoreTables == step = "tables" /\ Len(loaded) < Len(job.tables)

(* ProcessClass of a table; decrypt_bdat has checked the first one only.   *)
RefuseTable ==
  /\ MoreTables /\ job.tool = "json" /\ ~Table.stamped
  /\ Fail

Taken == MoreTables /\ (Table.stamped \/ job.tool = "decrypt")

(* Mutation: the encKeys are not swapped with the rest of the header.      *)
BeginTableUnswapped ==
  /\ Taken /\ job.version = "V1"
  /\ step' = "sections"
  /\ data' = [s \in Sections |-> Enciphered(Table[s], Table.encKeys)]
  /\ encKeys' = StoredEncKeys(Table)
  /\ stage' = "loading"
  /\ at' = "names" /\ curKey' = StartKey(encKeys') /\ curIndex' = 0
  /\ UNCHANGED <<calls, last, before, keyLog, job, keys, rows, cursor, loaded>>

(* The header is swapped, its encKeys with it, and the names come first.   *)
BeginTable ==
  /\ Taken /\ job.version = "V1"
  /\ step' = "sections"
  /\ data' = [s \in Sections |-> Enciphered(Table[s], Table.encKeys)]
  /\ encKeys' = SwappedKeys(StoredEncKeys(Table))
  /\ stage' = "loading"
  /\ at' = "names" /\ curKey' = StartKey(encKeys') /\ curIndex' = 0
  /\ UNCHANGED <<calls, last, before, keyLog, job, keys, rows, cursor, loaded>>

DecryptTable ==
  /\ step = "sections"
  /\ DecryptByte \/ DecryptStrings \/ EndLoad
  /\ UNCHANGED tableVars

(* decrypt_bdat leaves keys and rows alone.                                *)
KeepTable ==
  /\ step = "sections" /\ stage = "loaded" /\ job.tool = "decrypt"
  /\ step' = "tables"
  /\ loaded' = Append(loaded, [names |-> data["names"], strings |-> data["strings"]])
  /\ UNCHANGED <<vars, job, keys, rows, cursor>>

EnterKeys ==
  /\ step = "sections" /\ stage = "loaded" /\ job.tool = "json"
  /\ step' = "keys"
  /\ keys' = [k \in DOMAIN Table.keys |-> StoredKey(Table.keys[k])]
  /\ rows' = [r \in DOMAIN Table.rows |-> StoredRow(Table, Table.rows[r])]
  /\ cursor' = 0
  /\ UNCHANGED <<vars, job, loaded>>

-----------------------------------------------------------------------------
AtKey == step = "keys" /\ cursor < Len(keys)

(* Which fields of a descriptor a base type has.                           *)
Fields ==
  [Default |-> {"offset"}, Array |-> {"offset", "items"}, Flag |-> {"value", "owner"}]

ProcessKey ==
  /\ AtKey /\ keys[cursor + 1].base \in DOMAIN Fields
  /\ keys' = [keys EXCEPT ![cursor + 1] =
       [f \in DOMAIN @ |-> IF f \in {"name"} \cup Fields[@.base]
                           THEN Swapped(@[f]) ELSE @[f]]]
  /\ cursor' = cursor + 1
  /\ UNCHANGED <<vars, job, step, rows, loaded>>

RefuseKey == AtKey /\ keys[cursor + 1].base \notin DOMAIN Fields /\ Fail

EnterRows ==
  /\ step = "keys" /\ cursor = Len(keys)
  /\ step' = "rows"
  /\ cursor' = 0
  /\ UNCHANGED <<vars, job, keys, rows, loaded>>

(* The <<offset, type>> cells of a processed key.                          *)
CellsOf(k) ==
  LET offset == Number(k.offset)
  IN  CASE k.base = "Default" -> {<<offset, k.type>>}
        [] k.base = "Array" ->
             {<<offset + (a - 1) * Width[k.type], k.type>> : a \in 1 .. Number(k.items)}
        [] k.base = "Flag" -> {}

(* SwapValue.                                                              *)
Processed(type, bytes) ==
  CASE type = "StringPtr" -> PointerTo(Number(Swapped(bytes)))
    [] type = "Float" /\ Table.coded -> Decode(Swapped(bytes))
    [] OTHER -> Swapped(bytes)

ProcessedRow(row) ==
  LET cells == UNION {CellsOf(keys[k]) : k \in DOMAIN keys}
  IN  [i \in DOMAIN row |->
        IF \E c \in cells : Covers(c, i)
        THEN LET c == CHOOSE c \in cells : Covers(c, i)
             IN  Processed(c[2], Cell(row, c[1], Width[c[2]]))[i - c[1]]
        ELSE row[i]]

AtRow == step = "rows" /\ cursor < Len(rows)

AllTyped == \A k \in DOMAIN keys : keys[k].base = "Flag" \/ keys[k].type \in CellTypes

ProcessRow ==
  /\ AtRow /\ AllTyped
  /\ rows' = [rows EXCEPT ![cursor + 1] = ProcessedRow(@)]
  /\ cursor' = cursor + 1
  /\ UNCHANGED <<vars, job, step, keys, loaded>>

RefuseRow == AtRow /\ ~AllTyped /\ Fail

-----------------------------------------------------------------------------
(* A V4 table: only the pointers of its string columns are to be fixed.    *)
BeginColumns ==
  /\ Taken /\ job.version = "V4"
  /\ step' = "columns"
  /\ keys' = Table.types
  /\ rows' = [r \in DOMAIN Table.rows |-> StoredColumns(Table, Table.rows[r])]
  /\ cursor' = 0
  /\ UNCHANGED <<vars, job, loaded>>

AtColumn == step = "columns" /\ cursor < Len(keys) /\ Countable(cursor)

(* A string column is gone through row by row.                             *)
InRows == AtColumn /\ keys[cursor + 1] = "StringPtr"

FixColumn ==
  /\ AtColumn /\ keys[cursor + 1] \in DOMAIN Width
  /\ InRows => Countable(Len(rows))
  /\ rows' =
       IF keys[cursor + 1] # "StringPtr" THEN rows
       ELSE LET c == <<ColumnOffset(keys, cursor + 1), "StringPtr">>
            IN  [r \in DOMAIN rows |-> [i \in DOMAIN rows[r] |->
                  IF Covers(c, i) THEN PointerTo(Number(Cell(rows[r], c[1], 4)))[i - c[1]]
                  ELSE rows[r][i]]]
  /\ cursor' = cursor + 1
  /\ UNCHANGED <<vars, job, step, keys, loaded>>

RefuseColumn == AtColumn /\ keys[cursor + 1] \notin DOMAIN Width /\ Fail

(* The counter of a loop is back at zero, and less than the number for     *)
(* ever.  Pointers are fixed once more, and places lie further and further *)
(* behind; whether memory runs out at last or is left is not modelled.     *)
LoopForEver ==
  /\ step' = "endless"
  /\ UNCHANGED <<vars, job, keys, rows, cursor, loaded>>

CircleRows == InRows /\ ~Countable(Len(rows)) /\ LoopForEver

CircleColumns == step = "columns" /\ ~Countable(cursor) /\ LoopForEver

EndTable ==
  /\ \/ step = "rows" /\ cursor = Len(rows)
     \/ step = "columns" /\ cursor = Len(keys) /\ Countable(cursor)
  /\ step' = "tables"
  /\ loaded' = Append(loaded,
       [names |-> IF job.version = "V1" THEN data["names"] ELSE <<>>,
        strings |-> IF job.version = "V1" THEN data["strings"] ELSE Table.strings,
        keys |-> keys, rows |-> rows])
  /\ UNCHANGED <<vars, job, keys, rows, cursor>>

EndTables ==
  /\ step = "tables" /\ Len(loaded) = Len(job.tables)
  /\ step' = "loaded"
  /\ UNCHANGED <<vars, job, keys, rows, cursor, loaded>>

ProcessClass ==
  \/ Check \/ RefuseFile
  \/ RefuseTable \/ BeginTable \/ DecryptTable \/ KeepTable
  \/ EnterKeys \/ ProcessKey \/ RefuseKey
  \/ EnterRows \/ ProcessRow \/ RefuseRow
  \/ BeginColumns \/ FixColumn \/ RefuseColumn \/ CircleRows \/ CircleColumns
  \/ EndTable \/ EndTables
=============================================================================
