------------------------------ MODULE SarFormat ------------------------------
(***************************************************************************)
(* The SAR archive as bytes on disk, and what its reader makes of it.      *)
(*                                                                         *)
(* An archive is a header, a table of entries and a body.  The header and  *)
(* the table are kept as records (their sizes are constants), the body as  *)
(* the sequence of its bytes, so that an offset in an entry can be         *)
(* followed to the bytes it selects.                                       *)
(***************************************************************************)
EXTENDS Integers, Sequences

CONSTANTS
  Byte,         (* The bytes a file can hold.                              *)
  HeaderSize,   (* sizeof(SAR::Header), 160 in the code.                   *)
  EntrySize,    (* sizeof(SAR::FileEntry), 64 in the code.                 *)
  OffsetRange   (* Offsets are held modulo this; 2^32 in the code.         *)

ASSUME FormatAssumption ==
  /\ HeaderSize \in Nat \ {0}
  /\ EntrySize \in Nat \ {0}
  /\ OffsetRange \in Nat \ {0}

(***************************************************************************)
(* What the first word of a header can be, as the reader compares it: its  *)
(* two magic numbers, or anything else.                                    *)
(***************************************************************************)
MagicRead == {"ID", "ID_BIG", "other"}

(* A 32-bit offset field keeps the low bits of what is stored in it.       *)
Wrap(n) == n % OffsetRange

(* Where the body starts in an archive of n entries.                       *)
DataOffset(n) == HeaderSize + n * EntrySize

(* The content c lies in bytes, right after the first `at' of them.        *)
Holds(bytes, at, c) ==
  /\ at + Len(c) <= Len(bytes)
  /\ \A k \in 1 .. Len(c) : bytes[at + k] = c[k]

-----------------------------------------------------------------------------
(***************************************************************************)
(* The reader.  An image has the fields                                    *)
(*   id     the header's magic, as read (a member of MagicRead)            *)
(*   big    TRUE if the fields were written in big endian order            *)
(*   table  the entries, their offsets counted from the image's first byte *)
(*   body   the bytes after the table                                      *)
(***************************************************************************)

(* ProcessClass and AppProcessFile throw InvalidHeaderError otherwise.     *)
Accepts(image) == image.id \in {"ID", "ID_BIG"}

(* The magic alone decides whether the fields are swapped on load.         *)
Decodes(image) == Accepts(image) /\ (image.big <=> image.id = "ID_BIG")

(* The bytes an entry selects, counting from the start of the image.       *)
EntryAt(image, e) == e.data - DataOffset(Len(image.table))

(* Entry e of the image yields exactly the content c.                      *)
Yields(image, e, c) ==
  /\ e.dataSize = Len(c)
  /\ EntryAt(image, e) >= 0
  /\ Holds(image.body, EntryAt(image, e), c)
=============================================================================
