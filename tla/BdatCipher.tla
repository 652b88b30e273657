----------------------------- MODULE BdatCipher -----------------------------
(***************************************************************************)
(* The cipher of the older BDAT tables.  A table's header has two bytes    *)
(* encKeys; its names and its strings are each a section that is encrypted *)
(* in place.  The bytes of a section take turns with two running keys, and *)
(* each encrypted byte is added to the running key that it was made with.  *)
(*                                                                         *)
(* EncryptSection draws new encKeys on every call.  Loading a table        *)
(* decrypts its names and then its strings, both from the encKeys the      *)
(* header has at that time.                                                *)
(*                                                                         *)
(* XOR on bytes is a parameter, of which only CipherAssumption is used.    *)
(***************************************************************************)
EXTENDS Integers, Sequences

CONSTANTS
  ByteRange,    (* How many values a byte has, 256 in the code.            *)
  Xor(_, _),    (* ^ on bytes.                                             *)
  Texts,        (* What a section may say.                                 *)
  MaxCalls      (* How often EncryptSection may be called; a bound.        *)

Byte == 0 .. ByteRange - 1

ASSUME CipherAssumption ==
  /\ ByteRange \in Nat \ {0}
  /\ \A a, b \in Byte : Xor(a, b) \in Byte /\ Xor(Xor(a, b), b) = a
  /\ Texts \subseteq Seq(Byte)
  /\ MaxCalls \in Nat

VARIABLES
  data,       (* The sections as they are in the buffer.                   *)
  encKeys,    (* Header::encKeys.                                          *)
  curKey,     (* The running keys.                                         *)
  curIndex,   (* How many bytes of the section are done.                   *)
  at,         (* The section being worked on, or "none".                   *)
  stage,      (* "writing", "loading" or "loaded".                         *)
  calls,      (* How often EncryptSection has been called.                 *)
  last,       (* History: the section encrypted last,                      *)
  before,     (* what it said before that, and                             *)
  keyLog      (* the running keys before each of its bytes and at the end. *)

vars == <<data, encKeys, curKey, curIndex, at, stage, calls, last, before, keyLog>>

Sections == {"names", "strings"}

Not(b) == ByteRange - 1 - b

(* The running keys at the start of a section.                             *)
StartKey(keys) == [i \in 0 .. 1 |-> Not(keys[1 - i])]

(* Mutation: the running keys are wider than a byte.                       *)
NextKeyWide(key, index, c) ==
  [key EXCEPT ![index % 2] = @ + c]

(* The running keys after the byte at index, encrypted as c.               *)
NextKey(key, index, c) ==
  [key EXCEPT ![index % 2] = (@ + c) % ByteRange]

Init ==
  /\ data \in [Sections -> Texts]
  /\ encKeys \in [0 .. 1 -> {0}]
  /\ curKey = StartKey(encKeys)
  /\ curIndex = 0
  /\ at = "none"
  /\ stage = "writing"
  /\ calls = 0
  /\ last = "none"
  /\ before = <<>>
  /\ keyLog = <<>>

-----------------------------------------------------------------------------
(* EncryptSection is called for a section: new keys.                       *)
BeginEncrypt(s) ==
  /\ stage = "writing" /\ at = "none" /\ calls < MaxCalls
  /\ encKeys' \in [0 .. 1 -> Byte]
  /\ curKey' = StartKey(encKeys')
  /\ curIndex' = 0
  /\ at' = s
  /\ calls' = calls + 1
  /\ last' = s
  /\ before' = data[s]
  /\ keyLog' = <<curKey'>>
  /\ UNCHANGED <<data, stage>>

More == at # "none" /\ curIndex < Len(data[at])

Mixed == Xor(data[at][curIndex + 1], curKey[curIndex % 2])

(* Mutation: the running key takes the byte as it was before encryption.   *)
EncryptByteEarly ==
  /\ stage = "writing" /\ More
  /\ data' = [data EXCEPT ![at][curIndex + 1] = Mixed]
  /\ curKey' = NextKey(curKey, curIndex, data[at][curIndex + 1])
  /\ keyLog' = Append(keyLog, curKey')
  /\ curIndex' = curIndex + 1
  /\ UNCHANGED <<encKeys, at, stage, calls, last, before>>

EncryptByte ==
  /\ stage = "writing" /\ More
  /\ data' = [data EXCEPT ![at][curIndex + 1] = Mixed]
  /\ curKey' = NextKey(curKey, curIndex, Mixed)
  /\ keyLog' = Append(keyLog, curKey')
  /\ curIndex' = curIndex + 1
  /\ UNCHANGED <<encKeys, at, stage, calls, last, before>>

EndEncrypt ==
  /\ stage = "writing" /\ at # "none" /\ ~More
  /\ at' = "none"
  /\ UNCHANGED <<data, encKeys, curKey, curIndex, stage, calls, last, before, keyLog>>

-----------------------------------------------------------------------------
(* DecryptSection begins with section s.                                   *)
BeginDecrypt(s) ==
  /\ at' = s
  /\ curKey' = StartKey(encKeys)
  /\ curIndex' = 0

(* ProcessClass of the table's header.                                     *)
BeginLoad ==
  /\ stage = "writing" /\ at = "none"
  /\ stage' = "loading"
  /\ BeginDecrypt("names")
  /\ UNCHANGED <<data, encKeys, calls, last, before, keyLog>>

(* Mutation: the running key takes the byte as it is after decryption.     *)
DecryptByteLate ==
  /\ stage = "loading" /\ More
  /\ data' = [data EXCEPT ![at][curIndex + 1] = Mixed]
  /\ curKey' = NextKey(curKey, curIndex, Mixed)
  /\ curIndex' = curIndex + 1
  /\ UNCHANGED <<encKeys, at, stage, calls, last, before, keyLog>>

DecryptByte ==
  /\ stage = "loading" /\ More
  /\ data' = [data EXCEPT ![at][curIndex + 1] = Mixed]
  /\ curKey' = NextKey(curKey, curIndex, data[at][curIndex + 1])
  /\ curIndex' = curIndex + 1
  /\ UNCHANGED <<encKeys, at, stage, calls, last, before, keyLog>>

(* Mutation: the strings go on with the running keys of the names.         *)
DecryptStringsOn ==
  /\ stage = "loading" /\ at = "names" /\ ~More
  /\ data["strings"] # <<>>
  /\ at' = "strings"
  /\ curIndex' = 0
  /\ UNCHANGED <<data, encKeys, curKey, stage, calls, last, before, keyLog>>

(* After the names, the strings, unless stringsSize is 0.                  *)
DecryptStrings ==
  /\ stage = "loading" /\ at = "names" /\ ~More
  /\ data["strings"] # <<>>
  /\ BeginDecrypt("strings")
  /\ UNCHANGED <<data, encKeys, stage, calls, last, before, keyLog>>

EndLoad ==
  /\ stage = "loading" /\ ~More
  /\ at = "strings" \/ data["strings"] = <<>>
  /\ stage' = "loaded"
  /\ at' = "none"
  /\ UNCHANGED <<data, encKeys, curKey, curIndex, calls, last, before, keyLog>>

Done == stage = "loaded" /\ UNCHANGED vars

Next ==
  \/ \E s \in Sections : BeginEncrypt(s)
  \/ EncryptByte
  \/ EndEncrypt
  \/ BeginLoad
  \/ DecryptByte
  \/ DecryptStrings
  \/ EndLoad
  \/ Done

Spec == Init /\ [][Next]_vars

-----------------------------------------------------------------------------
TypeOK ==
  /\ data \in [Sections -> Seq(Byte)]
  /\ encKeys \in [0 .. 1 -> Byte]
  /\ curKey \in [0 .. 1 -> Byte]
  /\ curIndex \in Nat
  /\ at \in Sections \cup {"none"}
  /\ at # "none" => curIndex <= Len(data[at])
  /\ stage \in {"writing", "loading", "loaded"}
  /\ calls \in 0 .. MaxCalls
  /\ last \in Sections \cup {"none"}
  /\ before \in Seq(Byte)
  /\ keyLog \in Seq([0 .. 1 -> Byte])

(* Where the section encrypted last is.                                    *)
Encrypting == stage = "writing" /\ at = last
Decrypting == stage = "loading" /\ at = last
Decrypted ==
  \/ stage = "loaded"
  \/ stage = "loading" /\ at = "strings" /\ last = "names"

Cipher(j) == Xor(before[j], keyLog[j][(j - 1) % 2])

(* The log belongs to the keys the header has now.                         *)
LogFollowsKeys ==
  /\ Len(data[last]) = Len(before)
  /\ Len(keyLog) = 1 + IF Encrypting THEN curIndex ELSE Len(before)
  /\ keyLog[1] = StartKey(encKeys)
  /\ \A j \in 1 .. Len(keyLog) - 1 :
       keyLog[j + 1] = NextKey(keyLog[j], j - 1, Cipher(j))
  /\ Encrypting \/ Decrypting => curKey = keyLog[curIndex + 1]

(* Which of its bytes are encrypted.                                       *)
IsEncrypted(j) ==
  IF Encrypting THEN j <= curIndex
  ELSE IF Decrypting THEN j > curIndex
  ELSE ~Decrypted

BytesFollowLog ==
  \A j \in 1 .. Len(before) :
    data[last][j] = IF IsEncrypted(j) THEN Cipher(j) ELSE before[j]

(***************************************************************************)
(* Decryption runs in step with the encryption before it: at every byte of *)
(* the section encrypted last it has the running keys that byte was        *)
(* encrypted with, and the bytes on either side of it are plain and        *)
(* encrypted (bdat.cpp:56-82).                                             *)
(***************************************************************************)
InStep ==
  /\ stage = "writing" => at \in {"none", last}
  /\ stage = "loading" => at \in Sections
  /\ last # "none" => LogFollowsKeys /\ BytesFollowLog

(***************************************************************************)
(* A loaded table says in the section that was encrypted last what it said *)
(* before; the other one is lost if it was encrypted too, because the keys *)
(* it was encrypted with have been replaced.                               *)
(***************************************************************************)
LastReadsBack == stage = "loaded" /\ last # "none" => data[last] = before
=============================================================================
