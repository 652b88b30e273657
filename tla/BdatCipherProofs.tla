-------------------------- MODULE BdatCipherProofs --------------------------
(***************************************************************************)
(* The cipher of BDAT tables reads back for every byte width, every        *)
(* involutory mixing and every text; and so does every section of every    *)
(* file that the tools load, and every table of those that bdat_to_json    *)
(* writes.                                                                 *)
(***************************************************************************)
EXTENDS BdatJson, SequenceTheorems, WellFoundedInduction, TLAPS

Key == [0 .. 1 -> Byte]

(* A byte's complement is a byte.                                          *)
LEMMA NotByte == ASSUME NEW b \in Byte PROVE Not(b) \in Byte
  BY CipherAssumption DEF Byte, Not

(* DecryptSection and EncryptSection start with running keys.              *)
LEMMA StartKeyType == ASSUME NEW pair \in Key PROVE StartKey(pair) \in Key
  BY NotByte DEF Key, StartKey

(* A byte added to a running key gives a byte: it wraps.                   *)
LEMMA NextKeyType ==
  ASSUME NEW key \in Key, NEW i \in Nat, NEW c \in Byte
  PROVE  NextKey(key, i, c) \in Key
<1>1. i % 2 \in 0 .. 1
  OBVIOUS
<1>2. \A n \in Nat : n % ByteRange \in Byte
  BY CipherAssumption DEF Byte
<1>3. (key[i % 2] + c) \in Nat
  BY <1>1 DEF Key, Byte
<1>4. (key[i % 2] + c) % ByteRange \in Byte
  BY <1>2, <1>3
<1>. QED
  BY <1>1, <1>4 DEF Key, NextKey

(* What a byte mixed with a running key is.                                *)
LEMMA MixType ==
  ASSUME NEW b \in Byte, NEW key \in Key, NEW i \in Nat
  PROVE  /\ Xor(b, key[i % 2]) \in Byte
         /\ Xor(Xor(b, key[i % 2]), key[i % 2]) = b
<1>1. i % 2 \in 0 .. 1
  OBVIOUS
<1>2. key[i % 2] \in Byte
  BY <1>1 DEF Key
<1>. QED
  BY <1>2, CipherAssumption

-----------------------------------------------------------------------------
(* The byte that is turned to next, and what it is turned into.            *)
LEMMA MixedType ==
  ASSUME TypeOK, More
  PROVE  /\ at \in Sections
         /\ curIndex + 1 \in 1 .. Len(data[at])
         /\ data[at][curIndex + 1] \in Byte
         /\ Mixed \in Byte
<1>1. at \in Sections
  BY DEF TypeOK, More
<1>2. data[at] \in Seq(Byte)
  BY <1>1 DEF TypeOK
<1>3. Len(data[at]) \in Nat /\ curIndex \in Nat
  BY <1>2 DEF TypeOK
<1>4. curIndex + 1 \in 1 .. Len(data[at])
  BY <1>3 DEF More
<1>5. data[at][curIndex + 1] \in Byte
  BY <1>2, <1>4
<1>6. Mixed \in Byte
  BY <1>3, <1>5, MixType DEF Mixed, TypeOK, Key
<1>. QED
  BY <1>1, <1>4, <1>5, <1>6

(* Changing one byte of a section in place.                                *)
LEMMA ByteSet ==
  ASSUME TypeOK, More, NEW d, d = [data EXCEPT ![at][curIndex + 1] = Mixed]
  PROVE  /\ d \in [Sections -> Seq(Byte)]
         /\ \A s \in Sections : Len(d[s]) = Len(data[s])
         /\ \A s \in Sections : s # at => d[s] = data[s]
         /\ \A j \in 1 .. Len(data[at]) :
              d[at][j] = IF j = curIndex + 1 THEN Mixed ELSE data[at][j]
<1>1. at \in Sections /\ Mixed \in Byte /\ curIndex + 1 \in 1 .. Len(data[at])
  BY MixedType
<1>2. data \in [Sections -> Seq(Byte)]
  BY DEF TypeOK
<1>3. d[at] = [data[at] EXCEPT ![curIndex + 1] = Mixed]
  BY <1>1, <1>2
<1>4. data[at] \in Seq(Byte)
  BY <1>1, <1>2
<1>5. d[at] \in Seq(Byte) /\ Len(d[at]) = Len(data[at])
  BY <1>1, <1>3, <1>4
<1>6. \A s \in Sections : s # at => d[s] = data[s]
  BY <1>1, <1>2
<1>7. d \in [Sections -> Seq(Byte)]
  BY <1>1, <1>2, <1>5, <1>6
<1>8. \A j \in 1 .. Len(data[at]) :
        d[at][j] = IF j = curIndex + 1 THEN Mixed ELSE data[at][j]
  BY <1>1, <1>3, <1>4
<1>. QED
  BY <1>5, <1>6, <1>7, <1>8

-----------------------------------------------------------------------------
(***************************************************************************)
(* The type invariant: the running keys stay bytes and the position stays  *)
(* in its section (bdat.cpp:56-82).                                        *)
(***************************************************************************)
LEMMA TypeInit == Init => TypeOK
<1>. SUFFICES ASSUME Init PROVE TypeOK
  OBVIOUS
<1>1. encKeys \in Key
  BY CipherAssumption DEF Init, Key, Byte
<1>2. curKey \in Key
  BY <1>1, StartKeyType DEF Init
<1>3. data \in [Sections -> Seq(Byte)]
  BY CipherAssumption DEF Init
<1>. QED
  BY <1>1, <1>2, <1>3, CipherAssumption DEF Init, TypeOK, Key

(* Every step keeps the types: one step of the proof for each action.      *)
LEMMA TypeNext == TypeOK /\ [Next]_vars => TypeOK'
<1>. SUFFICES ASSUME TypeOK, [Next]_vars PROVE TypeOK'
  OBVIOUS
<1>1. ASSUME NEW s \in Sections, BeginEncrypt(s) PROVE TypeOK'
  <2>1. encKeys' \in Key
    BY <1>1 DEF BeginEncrypt, Key
  <2>2. curKey' \in Key
    BY <1>1, <2>1, StartKeyType DEF BeginEncrypt
  <2>3. keyLog' \in Seq(Key)
    BY <1>1, <2>2 DEF BeginEncrypt
  <2>4. data[s] \in Seq(Byte) /\ Len(data[s]) \in Nat
    BY DEF TypeOK
  <2>5. calls' \in 0 .. MaxCalls
    BY <1>1, CipherAssumption DEF BeginEncrypt, TypeOK
  <2>6. curIndex' \in Nat /\ (at' # "none" => curIndex' <= Len(data'[at']))
    BY <1>1, <2>4 DEF BeginEncrypt
  <2>. QED
    BY <1>1, <2>1, <2>2, <2>3, <2>4, <2>5, <2>6 DEF BeginEncrypt, TypeOK, Key
<1>2. CASE EncryptByte
  <2>0. More
    BY <1>2 DEF EncryptByte
  <2>1. /\ data' \in [Sections -> Seq(Byte)]
        /\ \A s \in Sections : Len(data'[s]) = Len(data[s])
    BY <1>2, <2>0, ByteSet DEF EncryptByte
  <2>2. curKey' \in Key
    BY <1>2, <2>0, MixedType, NextKeyType DEF EncryptByte, TypeOK, Key
  <2>3. keyLog' \in Seq(Key)
    BY <1>2, <2>2 DEF EncryptByte, TypeOK, Key
  <2>4. curIndex' \in Nat /\ curIndex' <= Len(data'[at])
    BY <1>2, <2>0, <2>1, MixedType DEF EncryptByte, TypeOK
  <2>. QED
    BY <1>2, <2>1, <2>2, <2>3, <2>4 DEF EncryptByte, TypeOK, Key
<1>3. CASE EndEncrypt
  BY <1>3 DEF EndEncrypt, TypeOK
<1>4. ASSUME NEW s \in Sections, BeginDecrypt(s), UNCHANGED <<data, encKeys>>
      PROVE  /\ curKey' \in Key
             /\ curIndex' \in Nat /\ curIndex' <= Len(data'[at'])
             /\ at' \in Sections
  <2>1. curKey' \in Key
    BY <1>4, StartKeyType DEF BeginDecrypt, TypeOK, Key
  <2>2. data[s] \in Seq(Byte)
    BY DEF TypeOK
  <2>3. Len(data[s]) \in Nat
    BY <2>2
  <2>. QED
    BY <1>4, <2>1, <2>3 DEF BeginDecrypt
<1>5. CASE BeginLoad
  BY <1>5, <1>4 DEF BeginLoad, TypeOK, Key, Sections
<1>6. CASE DecryptByte
  <2>0. More
    BY <1>6 DEF DecryptByte
  <2>1. /\ data' \in [Sections -> Seq(Byte)]
        /\ \A s \in Sections : Len(data'[s]) = Len(data[s])
    BY <1>6, <2>0, ByteSet DEF DecryptByte
  <2>2. curKey' \in Key
    BY <1>6, <2>0, MixedType, NextKeyType DEF DecryptByte, TypeOK, Key
  <2>4. curIndex' \in Nat /\ curIndex' <= Len(data'[at])
    BY <1>6, <2>0, <2>1, MixedType DEF DecryptByte, TypeOK
  <2>. QED
    BY <1>6, <2>1, <2>2, <2>4 DEF DecryptByte, TypeOK, Key
<1>7. CASE DecryptStrings
  BY <1>7, <1>4 DEF DecryptStrings, TypeOK, Key, Sections
<1>8. CASE EndLoad
  BY <1>8 DEF EndLoad, TypeOK
<1>9. CASE UNCHANGED vars
  BY <1>9 DEF vars, TypeOK
<1>. QED
  BY <1>1, <1>2, <1>3, <1>5, <1>6, <1>7, <1>8, <1>9 DEF Next, Done

THEOREM TypeCorrect == Spec => []TypeOK
<1>. QED
  BY TypeInit, TypeNext, PTL DEF Spec

-----------------------------------------------------------------------------
(* The shape of the history of the section encrypted last.                 *)
LEMMA HistoryType ==
  ASSUME TypeOK, LogFollowsKeys, last # "none"
  PROVE  /\ last \in Sections
         /\ data[last] \in Seq(Byte)
         /\ Len(data[last]) = Len(before)
         /\ Len(before) \in Nat
         /\ Len(keyLog) \in Nat
         /\ \A j \in 1 .. Len(keyLog) : keyLog[j] \in Key
         /\ \A j \in 1 .. Len(before) : before[j] \in Byte
<1>1. before \in Seq(Byte) /\ keyLog \in Seq(Key)
  BY DEF TypeOK, Key
<1>2. last \in Sections /\ data[last] \in Seq(Byte)
  BY DEF TypeOK
<1>3. Len(before) \in Nat /\ Len(keyLog) \in Nat
  BY <1>1
<1>4. \A j \in 1 .. Len(keyLog) : keyLog[j] \in Key
  BY <1>1
<1>5. \A j \in 1 .. Len(before) : before[j] \in Byte
  BY <1>1
<1>. QED
  BY <1>2, <1>3, <1>4, <1>5 DEF LogFollowsKeys

(* A step that leaves the history and the section alone.                   *)
LEMMA SameHistory ==
  ASSUME TypeOK, InStep, last # "none",
         UNCHANGED <<encKeys, last, before, keyLog>>,
         data'[last] = data[last],
         ~Encrypting, ~Encrypting',
         Decrypting' => curKey' = keyLog[curIndex' + 1],
         \A j \in 1 .. Len(before) : IsEncrypted(j)' = IsEncrypted(j)
  PROVE  LogFollowsKeys' /\ BytesFollowLog'
<1>1. LogFollowsKeys /\ BytesFollowLog
  BY DEF InStep
<1>2. \A j : Cipher(j)' = Cipher(j)
  BY DEF Cipher
<1>3. LogFollowsKeys'
  BY <1>1, <1>2 DEF LogFollowsKeys
<1>4. BytesFollowLog'
  BY <1>1, <1>2 DEF BytesFollowLog
<1>. QED
  BY <1>3, <1>4

(* A call of EncryptSection starts a new history.                          *)
LEMMA StepBeginEncrypt ==
  ASSUME TypeOK, InStep, NEW s \in Sections, BeginEncrypt(s)
  PROVE  InStep'
<1>1. /\ data[s] \in Seq(Byte) /\ Len(data[s]) \in Nat
      /\ s # "none"
  BY DEF TypeOK, Sections
<1>2. /\ stage' = "writing" /\ at' = s /\ last' = s /\ data' = data
      /\ before' = data[s] /\ curIndex' = 0
      /\ keyLog' = <<curKey'>> /\ curKey' = StartKey(encKeys')
  BY DEF BeginEncrypt
<1>3. Encrypting'
  BY <1>2 DEF Encrypting
<1>4. Len(keyLog') = 1 /\ keyLog'[1] = curKey'
  BY <1>2
<1>5. LogFollowsKeys'
  BY <1>2, <1>3, <1>4 DEF LogFollowsKeys
<1>6. \A j \in 1 .. Len(before') : ~IsEncrypted(j)'
  BY <1>1, <1>2, <1>3 DEF IsEncrypted
<1>7. BytesFollowLog'
  BY <1>2, <1>6 DEF BytesFollowLog
<1>. QED
  BY <1>2, <1>5, <1>7 DEF InStep

(* A byte is encrypted and its running keys go into the log.               *)
LEMMA StepEncryptByte ==
  ASSUME TypeOK, InStep, EncryptByte
  PROVE  InStep'
<1>1. /\ stage = "writing" /\ More /\ at # "none" /\ at = last
      /\ last # "none"
  BY DEF EncryptByte, More, InStep
<1>2. LogFollowsKeys /\ BytesFollowLog /\ Encrypting
  BY <1>1 DEF InStep, Encrypting
<1>3. /\ stage' = "writing" /\ at' = at /\ last' = last /\ before' = before
      /\ curIndex' = curIndex + 1 /\ encKeys' = encKeys
      /\ keyLog' = Append(keyLog, curKey')
  BY <1>1 DEF EncryptByte
<1>4. Encrypting'
  BY <1>1, <1>3 DEF Encrypting
<1>5. Len(keyLog) = curIndex + 1 /\ curKey = keyLog[curIndex + 1]
  <2>1. curIndex \in Nat
    BY DEF TypeOK
  <2>. QED
    BY <1>2, <2>1 DEF LogFollowsKeys
<1>6. /\ curIndex \in Nat /\ curIndex + 1 \in 1 .. Len(before)
      /\ Len(before) \in Nat
  BY <1>1, <1>2, MixedType, HistoryType DEF TypeOK
<1>7. data[last][curIndex + 1] = before[curIndex + 1]
  BY <1>2, <1>6 DEF BytesFollowLog, IsEncrypted
<1>8. Mixed = Cipher(curIndex + 1)
  BY <1>1, <1>5, <1>6, <1>7 DEF Mixed, Cipher
<1>9. keyLog \in Seq(Key) /\ keyLog' \in Seq(Key)
  BY TypeNext DEF TypeOK, Key, Next
<1>10. /\ Len(keyLog') = curIndex + 2
       /\ keyLog'[curIndex + 2] = curKey'
       /\ \A j \in 1 .. curIndex + 1 : keyLog'[j] = keyLog[j]
  BY <1>3, <1>5, <1>6, <1>9
<1>11. \A j \in 1 .. curIndex + 1 : Cipher(j)' = Cipher(j)
  BY <1>3, <1>10 DEF Cipher
<1>12. curKey' = NextKey(keyLog[curIndex + 1], curIndex, Cipher(curIndex + 1))
  BY <1>5, <1>8 DEF EncryptByte
<1>13. LogFollowsKeys'
  <2>1. Len(data'[last']) = Len(before')
    BY <1>1, <1>2, <1>3, ByteSet, HistoryType DEF EncryptByte
  <2>2. Len(keyLog') = 1 + curIndex'
    BY <1>3, <1>6, <1>10
  <2>3. keyLog'[1] = StartKey(encKeys')
    BY <1>2, <1>3, <1>6, <1>10 DEF LogFollowsKeys
  <2>4. ASSUME NEW j \in 1 .. Len(keyLog') - 1
        PROVE  keyLog'[j + 1] = NextKey(keyLog'[j], j - 1, Cipher(j)')
    <3>1. j \in 1 .. curIndex + 1
      BY <1>6, <1>10
    <3>2. CASE j = curIndex + 1
      <4>1. j + 1 = curIndex + 2 /\ j - 1 = curIndex
        BY <1>6, <3>2
      <4>. QED
        BY <1>10, <1>11, <1>12, <3>1, <3>2, <4>1
    <3>3. CASE j # curIndex + 1
      <4>1. j \in 1 .. Len(keyLog) - 1 /\ j + 1 \in 1 .. curIndex + 1
        BY <1>5, <1>6, <3>1, <3>3
      <4>2. keyLog[j + 1] = NextKey(keyLog[j], j - 1, Cipher(j))
        BY <1>2, <4>1 DEF LogFollowsKeys
      <4>. QED
        BY <1>10, <1>11, <3>1, <4>1, <4>2
    <3>. QED
      BY <3>2, <3>3
  <2>5. curKey' = keyLog'[curIndex' + 1]
    BY <1>3, <1>6, <1>10
  <2>. QED
    BY <1>4, <2>1, <2>2, <2>3, <2>4, <2>5 DEF LogFollowsKeys
<1>14. ASSUME NEW j \in 1 .. Len(before')
       PROVE  data'[last'][j] = IF IsEncrypted(j)' THEN Cipher(j)' ELSE before'[j]
  <2>1. j \in 1 .. Len(data[at])
    BY <1>1, <1>2, <1>3, HistoryType
  <2>2. data'[last][j] = IF j = curIndex + 1 THEN Mixed ELSE data[last][j]
    <3>1. data' = [data EXCEPT ![at][curIndex + 1] = Mixed]
      BY DEF EncryptByte
    <3>2. \A i \in 1 .. Len(data[at]) :
            data'[at][i] = IF i = curIndex + 1 THEN Mixed ELSE data[at][i]
      BY <1>1, <3>1, ByteSet
    <3>. QED
      BY <1>1, <2>1, <3>2
  <2>3. IsEncrypted(j)' <=> j <= curIndex + 1
    BY <1>3, <1>4 DEF IsEncrypted
  <2>4. IsEncrypted(j) <=> j <= curIndex
    BY <1>2 DEF IsEncrypted
  <2>5. data[last][j] = IF IsEncrypted(j) THEN Cipher(j) ELSE before[j]
    BY <1>2, <1>3 DEF BytesFollowLog
  <2>6. CASE j = curIndex + 1
    BY <1>3, <1>6, <1>8, <1>11, <2>2, <2>3, <2>6
  <2>7. CASE j <= curIndex
    <3>1. j \in 1 .. curIndex + 1 /\ j # curIndex + 1
      BY <1>6, <2>1, <2>7
    <3>. QED
      BY <1>3, <1>6, <1>11, <2>2, <2>3, <2>4, <2>5, <2>7, <3>1
  <2>8. CASE j > curIndex + 1
    <3>1. ~(j <= curIndex + 1) /\ ~(j <= curIndex) /\ j # curIndex + 1
      BY <1>6, <2>8
    <3>. QED
      BY <1>3, <2>2, <2>3, <2>4, <2>5, <3>1
  <2>. QED
    BY <1>6, <2>6, <2>7, <2>8
<1>15. BytesFollowLog'
  BY <1>14 DEF BytesFollowLog
<1>. QED
  BY <1>1, <1>3, <1>13, <1>15 DEF InStep

(* Where no section is worked on next, the history is as it was.           *)
LEMMA StepEndEncrypt ==
  ASSUME TypeOK, InStep, EndEncrypt
  PROVE  InStep'
<1>1. /\ stage = "writing" /\ stage' = stage /\ at' = "none" /\ last' = last
      /\ at # "none" /\ ~More /\ at = last
      /\ UNCHANGED <<data, encKeys, curKey, curIndex, before, keyLog>>
  BY DEF EndEncrypt, InStep
<1>2. LogFollowsKeys /\ BytesFollowLog /\ Encrypting
  BY <1>1 DEF InStep, Encrypting
<1>3. last \in Sections /\ Len(before) \in Nat /\ Len(data[last]) = Len(before)
  BY <1>1, <1>2, HistoryType
<1>4. curIndex = Len(before)
  BY <1>1, <1>3 DEF More, TypeOK
<1>5. ~Encrypting' /\ ~Decrypting' /\ ~Decrypted'
  BY <1>1 DEF Encrypting, Decrypting, Decrypted
<1>6. \A j : Cipher(j)' = Cipher(j)
  BY <1>1 DEF Cipher
<1>7. Len(keyLog) = 1 + Len(before)
  BY <1>2, <1>4 DEF LogFollowsKeys
<1>8. LogFollowsKeys'
  BY <1>1, <1>2, <1>5, <1>6, <1>7 DEF LogFollowsKeys
<1>9. ASSUME NEW j \in 1 .. Len(before')
      PROVE  data'[last'][j] = IF IsEncrypted(j)' THEN Cipher(j)' ELSE before'[j]
  <2>1. j \in 1 .. Len(before) /\ j <= curIndex
    BY <1>1, <1>3, <1>4
  <2>2. IsEncrypted(j) /\ IsEncrypted(j)'
    BY <1>2, <1>5, <2>1 DEF IsEncrypted
  <2>. QED
    BY <1>1, <1>2, <1>6, <2>1, <2>2 DEF BytesFollowLog
<1>10. BytesFollowLog'
  BY <1>9 DEF BytesFollowLog
<1>. QED
  BY <1>1, <1>8, <1>10 DEF InStep

(* A header that is loaded begins with its names, and with its own keys.   *)
LEMMA StepBeginLoad ==
  ASSUME TypeOK, InStep, BeginLoad
  PROVE  InStep'
<1>1. /\ stage = "writing" /\ at = "none" /\ stage' = "loading" /\ at' = "names"
      /\ curKey' = StartKey(encKeys) /\ curIndex' = 0
      /\ UNCHANGED <<data, encKeys, last, before, keyLog>>
  BY DEF BeginLoad, BeginDecrypt
<1>2. CASE last = "none"
  BY <1>1, <1>2 DEF InStep, Sections
<1>3. CASE last # "none"
  <2>1. LogFollowsKeys
    BY <1>3 DEF InStep
  <2>2. ~Encrypting /\ ~Decrypting /\ ~Decrypted /\ ~Encrypting' /\ ~Decrypted'
    BY <1>1, <1>3 DEF Encrypting, Decrypting, Decrypted
  <2>3. curKey' = keyLog[curIndex' + 1]
    BY <1>1, <2>1 DEF LogFollowsKeys
  <2>4. ASSUME NEW j \in 1 .. Len(before)
        PROVE  IsEncrypted(j)' = IsEncrypted(j)
    <3>1. j > curIndex'
      BY <1>1
    <3>. QED
      BY <2>2, <3>1 DEF IsEncrypted
  <2>5. LogFollowsKeys' /\ BytesFollowLog'
    BY <1>1, <1>3, <2>2, <2>3, <2>4, SameHistory
  <2>. QED
    BY <1>1, <2>5 DEF InStep, Sections
<1>. QED
  BY <1>2, <1>3

(* A byte is decrypted with the running keys that it was encrypted with.   *)
LEMMA StepDecryptByte ==
  ASSUME TypeOK, InStep, DecryptByte
  PROVE  InStep'
<1>1. /\ stage = "loading" /\ stage' = stage /\ More /\ at' = at
      /\ curIndex' = curIndex + 1 /\ curIndex \in Nat
      /\ data' = [data EXCEPT ![at][curIndex + 1] = Mixed]
      /\ curKey' = NextKey(curKey, curIndex, data[at][curIndex + 1])
      /\ UNCHANGED <<encKeys, last, before, keyLog>>
  BY DEF DecryptByte, TypeOK
<1>2. /\ at \in Sections /\ curIndex + 1 \in 1 .. Len(data[at])
      /\ data[at][curIndex + 1] \in Byte
  BY <1>1, MixedType
<1>3. CASE last = "none"
  BY <1>1, <1>2, <1>3 DEF InStep
<1>4. CASE last # "none" /\ at # last
  <2>1. ~Encrypting /\ ~Decrypting /\ ~Encrypting' /\ ~Decrypting'
    BY <1>1, <1>4 DEF Encrypting, Decrypting
  <2>2. \A j : IsEncrypted(j)' = IsEncrypted(j)
    BY <1>1, <2>1 DEF IsEncrypted, Decrypted
  <2>3. data'[last] = data[last]
    BY <1>1, <1>4, ByteSet DEF TypeOK
  <2>4. LogFollowsKeys' /\ BytesFollowLog'
    BY <1>1, <1>4, <2>1, <2>2, <2>3, SameHistory
  <2>. QED
    BY <1>1, <1>2, <2>4 DEF InStep
<1>5. CASE last # "none" /\ at = last
  <2>1. LogFollowsKeys /\ BytesFollowLog
    BY <1>5 DEF InStep
  <2>2. Decrypting /\ Decrypting' /\ ~Encrypting /\ ~Encrypting'
    BY <1>1, <1>5 DEF Encrypting, Decrypting
  <2>3. \A j : Cipher(j)' = Cipher(j)
    BY <1>1 DEF Cipher
  <2>4. /\ Len(before) \in Nat /\ Len(data[last]) = Len(before)
        /\ \A j \in 1 .. Len(keyLog) : keyLog[j] \in Key
        /\ \A j \in 1 .. Len(before) : before[j] \in Byte
    BY <1>5, <2>1, HistoryType
  <2>5. Len(keyLog) = 1 + Len(before)
    BY <2>1, <2>2 DEF LogFollowsKeys
  <2>6. curIndex + 1 \in 1 .. Len(before) /\ curIndex + 1 \in 1 .. Len(keyLog)
    BY <1>1, <1>2, <1>5, <2>4, <2>5
  <2>7. data[last][curIndex + 1] = Cipher(curIndex + 1)
    <3>1. IsEncrypted(curIndex + 1)
      BY <1>1, <2>2 DEF IsEncrypted
    <3>. QED
      BY <2>1, <2>6, <3>1 DEF BytesFollowLog
  <2>8. curKey = keyLog[curIndex + 1]
    BY <2>1, <2>2 DEF LogFollowsKeys
  <2>9. Cipher(curIndex + 1)
          = Xor(before[curIndex + 1], keyLog[curIndex + 1][curIndex % 2])
    BY <1>1 DEF Cipher
  <2>10. Mixed = before[curIndex + 1]
    BY <1>1, <1>5, <2>4, <2>6, <2>7, <2>8, <2>9, MixType DEF Mixed
  <2>11. curKey' = keyLog[curIndex' + 1]
    <3>1. curIndex + 1 \in 1 .. Len(keyLog) - 1
      BY <2>4, <2>5, <2>6
    <3>2. (curIndex + 1) - 1 = curIndex
      BY <1>1
    <3>3. keyLog[(curIndex + 1) + 1]
            = NextKey(keyLog[curIndex + 1], curIndex, Cipher(curIndex + 1))
      BY <2>1, <3>1, <3>2 DEF LogFollowsKeys
    <3>. QED
      BY <1>1, <1>5, <2>7, <2>8, <3>3
  <2>12. Len(data'[last]) = Len(before)
    BY <1>1, <1>2, <1>5, <2>4, ByteSet
  <2>13. LogFollowsKeys'
    BY <1>1, <2>1, <2>2, <2>3, <2>11, <2>12 DEF LogFollowsKeys
  <2>14. ASSUME NEW j \in 1 .. Len(before)
         PROVE  data'[last][j] = IF IsEncrypted(j)' THEN Cipher(j) ELSE before[j]
    <3>1. data'[last][j] = IF j = curIndex + 1 THEN Mixed ELSE data[last][j]
      <4>1. \A i \in 1 .. Len(data[at]) :
              data'[at][i] = IF i = curIndex + 1 THEN Mixed ELSE data[at][i]
        BY <1>1, ByteSet
      <4>. QED
        BY <1>5, <2>4, <4>1
    <3>2. data[last][j] = IF IsEncrypted(j) THEN Cipher(j) ELSE before[j]
      BY <2>1 DEF BytesFollowLog
    <3>3. IsEncrypted(j) <=> j > curIndex
      BY <2>2 DEF IsEncrypted
    <3>4. IsEncrypted(j)' <=> j > curIndex + 1
      BY <1>1, <2>2 DEF IsEncrypted
    <3>5. CASE j = curIndex + 1
      <4>1. ~(j > curIndex + 1)
        BY <1>1, <3>5
      <4>. QED
        BY <2>10, <3>1, <3>4, <3>5, <4>1
    <3>6. CASE j # curIndex + 1
      <4>1. j > curIndex <=> j > curIndex + 1
        BY <1>1, <3>6
      <4>. QED
        BY <3>1, <3>2, <3>3, <3>4, <3>6, <4>1
    <3>. QED
      BY <3>5, <3>6
  <2>15. BytesFollowLog'
    BY <1>1, <2>3, <2>14 DEF BytesFollowLog
  <2>. QED
    BY <1>1, <1>2, <2>13, <2>15 DEF InStep
<1>. QED
  BY <1>3, <1>4, <1>5

(* At the end of a section that was decrypted last, all of it is plain.    *)
LEMMA DecryptedToEnd ==
  ASSUME TypeOK, InStep, last # "none", Decrypting, ~More
  PROVE  \A j \in 1 .. Len(before) : ~IsEncrypted(j)
<1>1. LogFollowsKeys
  BY DEF InStep
<1>2. Len(before) \in Nat /\ Len(data[last]) = Len(before)
  BY <1>1, HistoryType
<1>3. at = last /\ at # "none" /\ curIndex \in Nat
  BY DEF Decrypting, TypeOK
<1>4. curIndex >= Len(before)
  BY <1>2, <1>3 DEF More
<1>5. \A j \in 1 .. Len(before) : ~(j > curIndex)
  BY <1>2, <1>3, <1>4
<1>6. ~Encrypting
  BY DEF Encrypting, Decrypting
<1>. QED
  BY <1>5, <1>6 DEF IsEncrypted

(* The strings start over with the keys of the header.                     *)
LEMMA StepDecryptStrings ==
  ASSUME TypeOK, InStep, DecryptStrings
  PROVE  InStep'
<1>1. /\ stage = "loading" /\ stage' = stage /\ at = "names" /\ ~More
      /\ at' = "strings" /\ curKey' = StartKey(encKeys) /\ curIndex' = 0
      /\ UNCHANGED <<data, encKeys, last, before, keyLog>>
  BY DEF DecryptStrings, BeginDecrypt
<1>2. CASE last = "none"
  BY <1>1, <1>2 DEF InStep, Sections
<1>3. CASE last # "none"
  <2>1. LogFollowsKeys
    BY <1>3 DEF InStep
  <2>2. ~Encrypting /\ ~Encrypting' /\ ~Decrypted
    BY <1>1 DEF Encrypting, Decrypted
  <2>3. curKey' = keyLog[curIndex' + 1]
    BY <1>1, <2>1 DEF LogFollowsKeys
  <2>4. last \in {"names", "strings"}
    BY <1>3 DEF TypeOK, Sections
  <2>5. ASSUME NEW j \in 1 .. Len(before)
        PROVE  IsEncrypted(j)' = IsEncrypted(j)
    <3>1. CASE last = "names"
      <4>1. Decrypting /\ ~Decrypting' /\ Decrypted'
        BY <1>1, <3>1 DEF Decrypting, Decrypted
      <4>2. ~IsEncrypted(j)
        BY <1>1, <1>3, <4>1, DecryptedToEnd
      <4>. QED
        BY <2>2, <4>1, <4>2 DEF IsEncrypted
    <3>2. CASE last = "strings"
      <4>1. ~Decrypting /\ Decrypting'
        BY <1>1, <3>2 DEF Decrypting
      <4>2. j > curIndex'
        BY <1>1
      <4>. QED
        BY <2>2, <4>1, <4>2 DEF IsEncrypted
    <3>. QED
      BY <2>4, <3>1, <3>2
  <2>6. LogFollowsKeys' /\ BytesFollowLog'
    BY <1>1, <1>3, <2>2, <2>3, <2>5, SameHistory
  <2>. QED
    BY <1>1, <2>6 DEF InStep, Sections
<1>. QED
  BY <1>2, <1>3

(* When the table is loaded nothing of it is encrypted.                    *)
LEMMA StepEndLoad ==
  ASSUME TypeOK, InStep, EndLoad
  PROVE  InStep'
<1>1. /\ stage = "loading" /\ stage' = "loaded" /\ ~More /\ at' = "none"
      /\ at = "strings" \/ data["strings"] = <<>>
      /\ UNCHANGED <<data, encKeys, curKey, curIndex, last, before, keyLog>>
  BY DEF EndLoad
<1>2. at \in {"names", "strings"}
  BY <1>1 DEF InStep, Sections
<1>3. CASE last = "none"
  BY <1>1, <1>3 DEF InStep
<1>4. CASE last # "none"
  <2>1. LogFollowsKeys
    BY <1>4 DEF InStep
  <2>2. last \in {"names", "strings"}
    BY <1>4 DEF TypeOK, Sections
  <2>3. ~Encrypting /\ ~Encrypting' /\ ~Decrypting' /\ Decrypted'
    BY <1>1, <1>4 DEF Encrypting, Decrypting, Decrypted
  <2>4. ASSUME NEW j \in 1 .. Len(before)
        PROVE  ~IsEncrypted(j)
    <3>1. CASE at = last
      BY <1>1, <1>4, <3>1, DecryptedToEnd DEF Decrypting
    <3>2. CASE at = "strings" /\ last = "names"
      <4>1. Decrypted /\ ~Decrypting
        BY <1>1, <3>2 DEF Decrypted, Decrypting
      <4>. QED
        BY <2>3, <4>1 DEF IsEncrypted
    <3>3. CASE at = "names" /\ last = "strings"
      <4>1. Len(before) = 0
        BY <1>1, <2>1, <3>3 DEF LogFollowsKeys
      <4>. QED
        BY <4>1
    <3>. QED
      BY <1>2, <2>2, <3>1, <3>2, <3>3
  <2>5. \A j \in 1 .. Len(before) : IsEncrypted(j)' = IsEncrypted(j)
    BY <2>3, <2>4 DEF IsEncrypted
  <2>6. LogFollowsKeys' /\ BytesFollowLog'
    BY <1>1, <1>4, <2>3, <2>5, SameHistory
  <2>. QED
    BY <1>1, <2>6 DEF InStep
<1>. QED
  BY <1>3, <1>4

-----------------------------------------------------------------------------
(* Every step keeps them in step: one step of the proof for each action.   *)
LEMMA InStepNext == TypeOK /\ InStep /\ [Next]_vars => InStep'
<1>. SUFFICES ASSUME TypeOK, InStep, [Next]_vars PROVE InStep'
  OBVIOUS
<1>1. ASSUME NEW s \in Sections, BeginEncrypt(s) PROVE InStep'
  BY <1>1, StepBeginEncrypt
<1>2. CASE EncryptByte
  BY <1>2, StepEncryptByte
<1>3. CASE EndEncrypt
  BY <1>3, StepEndEncrypt
<1>4. CASE BeginLoad
  BY <1>4, StepBeginLoad
<1>5. CASE DecryptByte
  BY <1>5, StepDecryptByte
<1>6. CASE DecryptStrings
  BY <1>6, StepDecryptStrings
<1>7. CASE EndLoad
  BY <1>7, StepEndLoad
<1>8. CASE UNCHANGED vars
  BY <1>8 DEF vars, InStep, LogFollowsKeys, BytesFollowLog, IsEncrypted,
              Cipher, Encrypting, Decrypting, Decrypted
<1>. QED
  BY <1>1, <1>2, <1>3, <1>4, <1>5, <1>6, <1>7, <1>8 DEF Next, Done

LEMMA InStepInit == Init => InStep
  BY DEF Init, InStep

(***************************************************************************)
(* Decryption has at every byte the running keys it was encrypted with,    *)
(* although they depend on all the bytes before it (bdat.cpp:56-82).       *)
(***************************************************************************)
THEOREM InStepCorrect == Spec => []InStep
  BY InStepInit, InStepNext, TypeCorrect, PTL DEF Spec

(* What is in step reads back.                                             *)
LEMMA InStepReads == TypeOK /\ InStep => LastReadsBack
<1>. SUFFICES ASSUME TypeOK, InStep, stage = "loaded", last # "none"
              PROVE  data[last] = before
  BY DEF LastReadsBack
<1>1. LogFollowsKeys /\ BytesFollowLog
  BY DEF InStep
<1>2. ~Encrypting /\ ~Decrypting /\ Decrypted
  BY DEF Encrypting, Decrypting, Decrypted
<1>3. \A j \in 1 .. Len(before) : data[last][j] = before[j]
  BY <1>1, <1>2 DEF BytesFollowLog, IsEncrypted
<1>4. data[last] \in Seq(Byte) /\ Len(data[last]) = Len(before)
  BY <1>1, HistoryType
<1>5. before \in Seq(Byte)
  BY DEF TypeOK
<1>. QED
  BY <1>3, <1>4, <1>5, SeqEqual

(***************************************************************************)
(* The section encrypted last is loaded as it was, byte for byte, for      *)
(* every text and every keys (bdat.cpp:56-82, 226-257).                    *)
(***************************************************************************)
THEOREM LastReadsBackCorrect == Spec => []LastReadsBack
  BY InStepReads, TypeCorrect, InStepCorrect, PTL

-----------------------------------------------------------------------------
(* Every set of numbers has a least member.                                *)
LEMMA SmallestMember ==
  ASSUME NEW T, T \subseteq Nat, T # {}
  PROVE  \E x \in T : \A y \in T : x <= y
<1>1. IsWellFoundedOn({ss \in Nat \X Nat : ss[1] < ss[2]}, Nat)
  BY NatLessThanWellFounded DEF OpToRel
<1>. DEFINE R == {ss \in Nat \X Nat : ss[1] < ss[2]}
<1>2. PICK x \in T : \A y \in T : ~ (<<y, x>> \in R)
  <2>. HIDE DEF R
  <2>. QED
    BY <1>1, WFMin DEF R
<1>3. \A y \in T : ~(y < x)
  BY <1>2
<1>. QED
  BY <1>3

(* Numbers wrap to bytes.                                                  *)
LEMMA RemainderByte == \A n \in Nat : n % ByteRange \in Byte
  BY CipherAssumption DEF Byte

(* What running key i is, given those before it.                           *)
KeyRule(text, start, K, i) ==
  IF i < 2 THEN StartKey(start)[i]
    ELSE (K[i - 2] + Xor(text[i - 1], K[i - 2])) % ByteRange

IsRunning(text, start, K, n) ==
  K = [i \in 0 .. n |-> KeyRule(text, start, K, i)]

(* A key that the rule gives is a byte if the one it is made from is one.  *)
LEMMA KeyRuleType ==
  ASSUME NEW text \in Seq(Byte), NEW start \in Key, NEW K, NEW i \in 0 .. Len(text),
         i >= 2 => K[i - 2] \in Byte
  PROVE  KeyRule(text, start, K, i) \in Byte
<1>1. CASE i < 2
  <2>1. i \in 0 .. 1
    BY <1>1
  <2>2. StartKey(start)[i] \in Byte
    BY <2>1, StartKeyType DEF Key
  <2>. QED
    BY <1>1, <2>2 DEF KeyRule
<1>2. CASE i >= 2
  <2>1. i - 1 \in 1 .. Len(text)
    BY <1>2
  <2>2. text[i - 1] \in Byte
    BY <2>1
  <2>3. Xor(text[i - 1], K[i - 2]) \in Byte
    BY <1>2, <2>2, CipherAssumption
  <2>4. \A n \in Nat : n % ByteRange \in Byte
    BY RemainderByte
  <2>5. K[i - 2] \in Nat /\ Xor(text[i - 1], K[i - 2]) \in Nat
    BY <1>2, <2>3 DEF Byte
  <2>6. (K[i - 2] + Xor(text[i - 1], K[i - 2])) % ByteRange \in Byte
    BY <2>4, <2>5
  <2>. QED
    BY <1>2, <2>6 DEF KeyRule
<1>. QED
  BY <1>1, <1>2

(* Running keys are bytes, to the last.                                    *)
LEMMA RunningType ==
  ASSUME NEW text \in Seq(Byte), NEW start \in Key, NEW n \in 0 .. Len(text),
         NEW K, IsRunning(text, start, K, n)
  PROVE  K \in [0 .. n -> Byte]
<1>. DEFINE Bad == {i \in 0 .. n : K[i] \notin Byte}
<1>1. K = [i \in 0 .. n |-> KeyRule(text, start, K, i)]
  BY DEF IsRunning
<1>2. Bad = {}
  <2>. SUFFICES ASSUME Bad # {} PROVE FALSE
    OBVIOUS
  <2>1. Bad \subseteq Nat
    OBVIOUS
  <2>2. PICK i \in Bad : \A j \in Bad : i <= j
    <3>. HIDE DEF Bad
    <3>. QED
      BY <2>1, SmallestMember
  <2>3. i \in 0 .. n /\ i \in 0 .. Len(text)
    OBVIOUS
  <2>4. i >= 2 => K[i - 2] \in Byte
    <3>. SUFFICES ASSUME i >= 2 PROVE K[i - 2] \in Byte
      OBVIOUS
    <3>1. i - 2 \in 0 .. n /\ ~(i <= i - 2)
      BY <2>3
    <3>2. i - 2 \notin Bad
      BY <2>2, <3>1
    <3>. QED
      BY <3>1, <3>2
  <2>5. KeyRule(text, start, K, i) \in Byte
    BY <2>3, <2>4, KeyRuleType
  <2>6. K[i] = KeyRule(text, start, K, i)
    BY <1>1, <2>3
  <2>. QED
    BY <2>5, <2>6
<1>3. \A i \in 0 .. n : K[i] \in Byte
  BY <1>2
<1>4. K = [i \in 0 .. n |-> K[i]]
  BY <1>1
<1>. QED
  BY <1>3, <1>4

(* Running keys up to one byte go on to the next.                          *)
LEMMA RunningGoesOn ==
  ASSUME NEW text \in Seq(Byte), NEW start \in Key,
         NEW n \in Nat, n < Len(text),
         NEW K, IsRunning(text, start, K, n)
  PROVE  \E L : IsRunning(text, start, L, n + 1)
<1>. DEFINE L == [i \in 0 .. n + 1 |-> IF i <= n THEN K[i] ELSE KeyRule(text, start, K, i)]
<1>1. K = [i \in 0 .. n |-> KeyRule(text, start, K, i)]
  BY DEF IsRunning
<1>2. \A i \in 0 .. n : L[i] = K[i]
  OBVIOUS
<1>3. ASSUME NEW i \in 0 .. n + 1
      PROVE  L[i] = KeyRule(text, start, L, i)
  <2>1. i >= 2 => L[i - 2] = K[i - 2]
    <3>. SUFFICES ASSUME i >= 2 PROVE L[i - 2] = K[i - 2]
      OBVIOUS
    <3>1. i - 2 \in 0 .. n
      BY <1>3
    <3>. HIDE DEF L
    <3>. QED
      BY <1>2, <3>1
  <2>2. KeyRule(text, start, L, i) = KeyRule(text, start, K, i)
    <3>. HIDE DEF L
    <3>1. CASE i < 2
      BY <3>1 DEF KeyRule
    <3>2. CASE i >= 2
      BY <2>1, <3>2 DEF KeyRule
    <3>. QED
      BY <3>1, <3>2
  <2>3. L[i] = KeyRule(text, start, K, i)
    <3>1. CASE i <= n
      <4>1. i \in 0 .. n
        BY <3>1
      <4>2. K[i] = KeyRule(text, start, K, i)
        BY <1>1, <4>1
      <4>3. L[i] = K[i]
        BY <1>2, <4>1
      <4>. QED
        BY <4>2, <4>3
    <3>2. CASE ~(i <= n)
      BY <3>2
    <3>. QED
      BY <3>1, <3>2
  <2>. QED
    BY <2>2, <2>3
<1>4. L = [i \in 0 .. n + 1 |-> L[i]]
  OBVIOUS
<1>5. IsRunning(text, start, L, n + 1)
  <2>. HIDE DEF L
  <2>. QED
    BY <1>3, <1>4 DEF IsRunning
<1>. QED
  BY <1>5

(* There are running keys for every section: their recursion is well-founded. *)
LEMMA RunningExists ==
  ASSUME NEW text \in Seq(Byte), NEW start \in Key
  PROVE  \E K : IsRunning(text, start, K, Len(text))
<1>. DEFINE Lacks == {n \in 0 .. Len(text) : ~ \E K : IsRunning(text, start, K, n)}
<1>0. Len(text) \in Nat
  OBVIOUS
<1>1. \E K : IsRunning(text, start, K, 0)
  <2>. DEFINE K == [i \in 0 .. 0 |-> StartKey(start)[i]]
  <2>1. K = [i \in 0 .. 0 |-> KeyRule(text, start, K, i)]
    BY DEF KeyRule
  <2>. QED
    BY <2>1 DEF IsRunning
<1>2. Lacks = {}
  <2>. SUFFICES ASSUME Lacks # {} PROVE FALSE
    OBVIOUS
  <2>1. Lacks \subseteq Nat
    OBVIOUS
  <2>2. PICK n \in Lacks : \A m \in Lacks : n <= m
    <3>. HIDE DEF Lacks
    <3>. QED
      BY <2>1, SmallestMember
  <2>3. n \in 0 .. Len(text) /\ ~ \E K : IsRunning(text, start, K, n)
    BY <2>2
  <2>4. n # 0
    BY <1>1, <2>3
  <2>5. PICK m : m = n - 1
    OBVIOUS
  <2>6. m \in Nat /\ m < Len(text) /\ m + 1 = n /\ m \in 0 .. Len(text) /\ ~(n <= m)
    BY <1>0, <2>3, <2>4, <2>5
  <2>7. m \notin Lacks
    BY <2>2, <2>6
  <2>8. PICK K : IsRunning(text, start, K, m)
    BY <2>6, <2>7
  <2>9. \E L : IsRunning(text, start, L, m + 1)
    BY <2>6, <2>8, RunningGoesOn
  <2>. QED
    BY <2>3, <2>6, <2>9
<1>3. Len(text) \in 0 .. Len(text)
  BY <1>0
<1>. QED
  BY <1>2, <1>3

(***************************************************************************)
(* The running keys of a section as the file was written: bytes, two from  *)
(* the header and each other one from the one before the last and what it  *)
(* encrypted.                                                              *)
(***************************************************************************)
LEMMA RunningKeysRule ==
  ASSUME NEW text \in Seq(Byte), NEW start \in Key
  PROVE  /\ RunningKeys(text, start) \in [0 .. Len(text) -> Byte]
         /\ \A i \in 0 .. Len(text) :
              RunningKeys(text, start)[i] = KeyRule(text, start, RunningKeys(text, start), i)
<1>. DEFINE K == RunningKeys(text, start)
<1>1. \E L : L = [i \in 0 .. Len(text) |-> KeyRule(text, start, L, i)]
  BY RunningExists DEF IsRunning
<1>2. K = CHOOSE L : L = [i \in 0 .. Len(text) |-> KeyRule(text, start, L, i)]
  BY DEF RunningKeys, KeyRule
<1>3. IsRunning(text, start, K, Len(text))
  <2>. HIDE DEF K
  <2>. QED
    BY <1>1, <1>2 DEF IsRunning
<1>4. Len(text) \in 0 .. Len(text)
  OBVIOUS
<1>5. K \in [0 .. Len(text) -> Byte]
  <2>. HIDE DEF K
  <2>. QED
    BY <1>3, <1>4, RunningType
<1>6. \A i \in 0 .. Len(text) : K[i] = KeyRule(text, start, K, i)
  <2>. HIDE DEF K
  <2>. QED
    BY <1>3 DEF IsRunning
<1>. QED
  BY <1>5, <1>6

(* A section of which d bytes are decrypted.                               *)
HalfPlain(text, start, d) ==
  [i \in 1 .. Len(text) |->
    IF i <= d THEN text[i] ELSE Xor(text[i], RunningKeys(text, start)[i - 1])]

LEMMA HalfPlainLen ==
  ASSUME NEW text \in Seq(Byte), NEW start \in Key, NEW d
  PROVE  Len(HalfPlain(text, start, d)) = Len(text)
<1>1. DOMAIN HalfPlain(text, start, d) = 1 .. Len(text)
  BY DEF HalfPlain
<1>2. HalfPlain(text, start, d) \in Seq({HalfPlain(text, start, d)[i] : i \in 1 .. Len(text)})
  <2>1. PICK n : n = Len(text)
    OBVIOUS
  <2>2. PICK h : h = HalfPlain(text, start, d)
    OBVIOUS
  <2>3. h = [i \in 1 .. n |-> h[i]] /\ n \in Nat
    BY <2>1, <2>2 DEF HalfPlain
  <2>4. h \in Seq({h[i] : i \in 1 .. n})
    BY <2>3
  <2>. QED
    BY <2>1, <2>2, <2>4
<1>. QED
  BY <1>1, <1>2, LenProperties

(* A section that the file has is one of which no byte is decrypted, ...   *)
LEMMA EncipheredHalf ==
  ASSUME NEW text \in Seq(Byte), NEW start \in Key
  PROVE  Enciphered(text, start) = HalfPlain(text, start, 0)
  BY DEF Enciphered, HalfPlain

(* ... and one that is all decrypted is plain.                             *)
LEMMA PlainHalf ==
  ASSUME NEW text \in Seq(Byte), NEW start \in Key, NEW d, d = Len(text) \/ Len(text) = 0
  PROVE  HalfPlain(text, start, d) = text
<1>1. Len(text) \in Nat
  OBVIOUS
<1>2. text = [i \in 1 .. Len(text) |-> text[i]]
  OBVIOUS
<1>3. \A i \in 1 .. Len(text) : i <= d
  BY <1>1
<1>. QED
  BY <1>2, <1>3 DEF HalfPlain

(* The next byte is decrypted with the key that it was encrypted with.     *)
LEMMA HalfStep ==
  ASSUME NEW text \in Seq(Byte), NEW start \in Key,
         NEW d \in Nat, d < Len(text),
         NEW half, half = HalfPlain(text, start, d),
         NEW b, b = Xor(half[d + 1], RunningKeys(text, start)[d])
  PROVE  /\ half[d + 1] \in Byte
         /\ half[d + 1] = Xor(text[d + 1], RunningKeys(text, start)[d])
         /\ b = text[d + 1]
         /\ [half EXCEPT ![d + 1] = b] = HalfPlain(text, start, d + 1)
<1>0. PICK K : K = RunningKeys(text, start)
  OBVIOUS
<1>1. d + 1 \in 1 .. Len(text) /\ d \in 0 .. Len(text)
  OBVIOUS
<1>2. text[d + 1] \in Byte /\ K[d] \in Byte
  BY <1>0, <1>1, RunningKeysRule
<1>3. half = [i \in 1 .. Len(text) |-> IF i <= d THEN text[i] ELSE Xor(text[i], K[i - 1])]
  BY <1>0 DEF HalfPlain
<1>4. d + 1 - 1 = d /\ ~(d + 1 <= d)
  OBVIOUS
<1>5. half[d + 1] = Xor(text[d + 1], K[d])
  BY <1>1, <1>3, <1>4
<1>6. b = text[d + 1]
  BY <1>0, <1>2, <1>5, CipherAssumption
<1>7. HalfPlain(text, start, d + 1) =
        [i \in 1 .. Len(text) |-> IF i <= d + 1 THEN text[i] ELSE Xor(text[i], K[i - 1])]
  BY <1>0 DEF HalfPlain
<1>8. ASSUME NEW i \in 1 .. Len(text)
      PROVE  [half EXCEPT ![d + 1] = b][i] =
               IF i <= d + 1 THEN text[i] ELSE Xor(text[i], K[i - 1])
  <2>1. CASE i = d + 1
    <3>1. i <= d + 1
      BY <2>1
    <3>. QED
      BY <1>3, <1>6, <2>1, <3>1
  <2>2. CASE i # d + 1
    <3>1. i <= d + 1 <=> i <= d
      BY <2>2
    <3>2. [half EXCEPT ![d + 1] = b][i] = half[i]
      BY <1>3, <2>2
    <3>. QED
      BY <1>3, <3>1, <3>2
  <2>. QED
    BY <2>1, <2>2
<1>9. [half EXCEPT ![d + 1] = b] = [i \in 1 .. Len(text) |-> [half EXCEPT ![d + 1] = b][i]]
  BY <1>3
<1>10. [half EXCEPT ![d + 1] = b] = HalfPlain(text, start, d + 1)
  BY <1>7, <1>8, <1>9
<1>. QED
  BY <1>0, <1>2, <1>5, <1>6, <1>10, CipherAssumption

(* Which running keys are those of bytes n and n + 1.                      *)
KeysAt(text, start, n, pair) ==
  \A i \in {n, n + 1} : i <= Len(text) => pair[i % 2] = RunningKeys(text, start)[i]

LEMMA KeysAtStart ==
  ASSUME NEW text \in Seq(Byte), NEW start \in Key
  PROVE  KeysAt(text, start, 0, StartKey(start))
<1>1. ASSUME NEW i \in {0, 0 + 1}, i <= Len(text)
      PROVE  StartKey(start)[i % 2] = RunningKeys(text, start)[i]
  <2>1. i \in 0 .. Len(text) /\ i < 2 /\ i % 2 = i
    BY <1>1
  <2>. QED
    BY <2>1, RunningKeysRule DEF KeyRule
<1>. QED
  BY <1>1 DEF KeysAt

LEMMA KeysAtNext ==
  ASSUME NEW text \in Seq(Byte), NEW start \in Key, NEW pair \in Key,
         NEW n \in Nat, n < Len(text), KeysAt(text, start, n, pair),
         NEW c, c = Xor(text[n + 1], RunningKeys(text, start)[n])
  PROVE  KeysAt(text, start, n + 1, NextKey(pair, n, c))
<1>0. PICK K : K = RunningKeys(text, start)
  OBVIOUS
<1>1. n % 2 \in 0 .. 1 /\ (n + 1) % 2 \in 0 .. 1 /\ (n + 1) % 2 # n % 2 /\ (n + 2) % 2 = n % 2
  OBVIOUS
<1>2. pair[n % 2] = K[n]
  <2>1. n <= Len(text)
    OBVIOUS
  <2>. QED
    BY <1>0, <2>1 DEF KeysAt
<1>3. n + 1 <= Len(text) => pair[(n + 1) % 2] = K[n + 1]
  BY <1>0 DEF KeysAt
<1>4. DOMAIN pair = 0 .. 1
  BY DEF Key
<1>5. NextKey(pair, n, c)[(n + 1) % 2] = pair[(n + 1) % 2]
  BY <1>1, <1>4 DEF NextKey
<1>6. NextKey(pair, n, c)[n % 2] = (pair[n % 2] + c) % ByteRange
  BY <1>1, <1>4 DEF NextKey
<1>7. ASSUME n + 2 <= Len(text) PROVE (K[n] + c) % ByteRange = K[n + 2]
  <2>1. n + 2 \in 0 .. Len(text) /\ ~(n + 2 < 2) /\ n + 2 - 2 = n /\ n + 2 - 1 = n + 1
    BY <1>7
  <2>2. K[n + 2] = KeyRule(text, start, K, n + 2)
    BY <1>0, <2>1, RunningKeysRule
  <2>3. KeyRule(text, start, K, n + 2) = (K[n] + Xor(text[n + 1], K[n])) % ByteRange
    BY <2>1 DEF KeyRule
  <2>. QED
    BY <1>0, <2>2, <2>3
<1>8. ASSUME NEW i \in {n + 1, n + 1 + 1}, i <= Len(text)
      PROVE  NextKey(pair, n, c)[i % 2] = K[i]
  <2>1. CASE i = n + 1
    BY <1>3, <1>5, <1>8, <2>1
  <2>2. CASE i = n + 1 + 1
    <3>1. i = n + 2
      BY <2>2
    <3>2. i % 2 = n % 2
      BY <1>1, <3>1
    <3>3. n + 2 <= Len(text)
      BY <1>8, <3>1
    <3>. QED
      BY <1>2, <1>6, <1>7, <3>1, <3>2, <3>3
  <2>. QED
    BY <1>8, <2>1, <2>2
<1>. QED
  BY <1>0, <1>8 DEF KeysAt

(***************************************************************************)
(* The two tools, over files.                                              *)
(***************************************************************************)

(* The sections of the table at hand, as they should be in the end.        *)
Plain == [s \in Sections |-> Table[s]]

(* How many bytes of a section are decrypted.                              *)
DoneOf(s) ==
  IF s = at THEN curIndex
  ELSE IF at = "strings" THEN Len(Table[s]) ELSE 0

Deciphering ==
  /\ at \in Sections
  /\ encKeys = Table.encKeys
  /\ curKey \in Key
  /\ curIndex \in 0 .. Len(Table[at])
  /\ KeysAt(Table[at], Table.encKeys, curIndex, curKey)
  /\ data = [s \in Sections |-> HalfPlain(Table[s], Table.encKeys, DoneOf(s))]

TablesRight ==
  /\ last = "none"
  /\ step # "cipher"
  /\ stage \in {"loading", "loaded"}
  /\ stage = "loading" => step = "sections" /\ Deciphering
  /\ step \in {"sections", "keys", "rows", "columns"} => Len(loaded) < Len(job.tables)
  /\ step \in {"sections", "keys", "rows"} =>
       /\ job.version = "V1"
       /\ stage = "loaded" => data = Plain
  /\ step = "columns" => job.version # "V1"
  /\ \E T : loaded \in Seq(T)
  /\ SectionsPlain

(***************************************************************************)
(* The inductive invariant: without a file the sections of one table are   *)
(* in step; with one, as many bytes of the table at hand are plain as are  *)
(* done, and the running keys are those that the next two bytes were       *)
(* encrypted with.                                                         *)
(***************************************************************************)
JsonInv ==
  /\ job \in Jobs
  /\ IF job = NoFile THEN step = "cipher" /\ TypeOK /\ InStep ELSE TablesRight

(* The table at hand is one of the file, whose sections are bytes.         *)
LEMMA TableType ==
  ASSUME job \in Jobs, job # NoFile, job.version = "V1",
         NEW T, loaded \in Seq(T), Len(loaded) < Len(job.tables)
  PROVE  /\ \A s \in Sections : Table[s] \in Seq(Byte)
         /\ Table.encKeys \in Key
<1>1. /\ Len(job.tables) \in Nat
      /\ DOMAIN job.tables = 1 .. Len(job.tables)
      /\ \A i \in DOMAIN job.tables :
           /\ job.tables[i].names \in Seq(Byte)
           /\ job.tables[i].strings \in Seq(Byte)
           /\ job.tables[i].encKeys \in [0 .. 1 -> Byte]
  BY JobsAssumption DEF IsList, PlainTable
<1>2. Len(loaded) + 1 \in DOMAIN job.tables
  BY <1>1
<1>. QED
  BY <1>1, <1>2 DEF Table, Sections, Key

LEMMA SwappedTwice ==
  ASSUME NEW pair \in Key PROVE SwappedKeys(SwappedKeys(pair)) = pair
<1>1. pair = [i \in 0 .. 1 |-> pair[i]]
  BY DEF Key
<1>2. \A i \in 0 .. 1 : 1 - i \in 0 .. 1 /\ 1 - (1 - i) = i
  OBVIOUS
<1>3. [i \in 0 .. 1 |-> [k \in 0 .. 1 |-> pair[1 - k]][1 - i]] = [i \in 0 .. 1 |-> pair[i]]
  BY <1>2
<1>. QED
  BY <1>1, <1>3 DEF SwappedKeys

LEMMA JsonInitRight == JsonInit => JsonInv
<1>. SUFFICES ASSUME LoadInit PROVE JsonInv
  BY DEF JsonInit
<1>1. CASE job = NoFile
  BY <1>1, TypeInit, InStepInit DEF LoadInit, JsonInv
<1>2. CASE job # NoFile
  <2>1. loaded \in Seq({})
    BY DEF LoadInit
  <2>2. SectionsPlain
    BY DEF LoadInit, SectionsPlain
  <2>3. step = "check" /\ stage = "loaded" /\ last = "none"
    BY <1>2 DEF LoadInit
  <2>. QED
    BY <1>2, <2>1, <2>2, <2>3 DEF LoadInit, JsonInv, TablesRight
<1>. QED
  BY <1>1, <1>2

(* A step that leaves sections and tables alone.                           *)
LEMMA StepKept ==
  ASSUME TablesRight, UNCHANGED <<vars, job, loaded>>,
         \/ step' = step
         \/ step # "sections" /\ step' \in {"tables", "loaded", "failed", "endless", "done"}
         \/ step = "sections" /\ stage = "loaded" /\ step' = "keys"
         \/ step = "keys" /\ step' = "rows"
         \/ /\ step = "tables" /\ step' = "columns"
            /\ job.version # "V1" /\ Len(loaded) < Len(job.tables)
  PROVE  TablesRight'
<1>1. /\ last' = "none" /\ stage' = stage /\ stage \in {"loading", "loaded"}
      /\ \E T : loaded' \in Seq(T)
  BY DEF TablesRight, vars
<1>2. SectionsPlain'
  BY DEF TablesRight, SectionsPlain
<1>3. Plain' = Plain /\ data' = data
  BY DEF Plain, Table, vars
<1>4. Deciphering => Deciphering'
  BY DEF Deciphering, Table, DoneOf, vars, KeysAt
<1>5. step' # "cipher"
  BY DEF TablesRight
<1>6. stage' = "loading" => step' = "sections" /\ Deciphering'
  BY <1>1, <1>4 DEF TablesRight
<1>7. step' \in {"sections", "keys", "rows", "columns"} => Len(loaded') < Len(job'.tables)
  BY DEF TablesRight
<1>8. step' \in {"sections", "keys", "rows"} =>
        /\ job'.version = "V1"
        /\ stage' = "loaded" => data' = Plain'
  BY <1>1, <1>3 DEF TablesRight
<1>9. step' = "columns" => job'.version # "V1"
  BY DEF TablesRight
<1>. QED
  BY <1>1, <1>2, <1>5, <1>6, <1>7, <1>8, <1>9 DEF TablesRight

LEMMA StepBeginTable ==
  ASSUME job \in Jobs, job # NoFile, TablesRight, BeginTable
  PROVE  TablesRight'
<1>1. PICK T : loaded \in Seq(T)
  BY DEF TablesRight
<1>2. step = "tables" /\ Len(loaded) < Len(job.tables) /\ job.version = "V1"
  BY DEF BeginTable, Taken, MoreTables
<1>3. (\A s \in Sections : Table[s] \in Seq(Byte)) /\ Table.encKeys \in Key
  BY <1>1, <1>2, TableType
<1>4. encKeys' = Table.encKeys
  BY <1>3, SwappedTwice DEF BeginTable, StoredEncKeys
<1>5. /\ at' = "names" /\ curIndex' = 0 /\ curKey' = StartKey(encKeys')
      /\ step' = "sections" /\ stage' = "loading"
      /\ UNCHANGED <<last, job, loaded>>
  BY DEF BeginTable
<1>6. Table' = Table
  BY <1>5 DEF Table
<1>7. "names" \in Sections
  BY DEF Sections
<1>8. \A s \in Sections : DoneOf(s)' = 0
  BY <1>5 DEF DoneOf
<1>9. data' = [s \in Sections |-> HalfPlain(Table'[s], Table'.encKeys, DoneOf(s)')]
  <2>1. \A s \in Sections : Enciphered(Table[s], Table.encKeys) =
                              HalfPlain(Table'[s], Table'.encKeys, DoneOf(s)')
    BY <1>3, <1>6, <1>8, EncipheredHalf
  <2>2. data' = [s \in Sections |-> Enciphered(Table[s], Table.encKeys)]
    BY DEF BeginTable
  <2>. QED
    BY <2>1, <2>2
<1>10. KeysAt(Table["names"], Table.encKeys, 0, StartKey(Table.encKeys))
  BY <1>3, <1>7, KeysAtStart
<1>11. curKey' \in Key
  BY <1>3, <1>4, <1>5, StartKeyType
<1>12. curIndex' \in 0 .. Len(Table'[at'])
  <2>1. Len(Table["names"]) \in Nat
    BY <1>3, <1>7
  <2>. QED
    BY <1>5, <1>6, <2>1
<1>13. KeysAt(Table[at], Table.encKeys, curIndex, curKey)'
  BY <1>4, <1>5, <1>6, <1>10 DEF KeysAt
<1>14. Deciphering'
  BY <1>4, <1>5, <1>6, <1>7, <1>9, <1>11, <1>12, <1>13 DEF Deciphering
<1>15. SectionsPlain'
  BY <1>5 DEF TablesRight, SectionsPlain
<1>. QED
  BY <1>1, <1>2, <1>5, <1>14, <1>15 DEF TablesRight

(* The bytes of a section that is being decrypted.                         *)
LEMMA DecipheringData ==
  ASSUME Deciphering, NEW s \in Sections,
         \A r \in Sections : Table[r] \in Seq(Byte), Table.encKeys \in Key
  PROVE  /\ data[s] = HalfPlain(Table[s], Table.encKeys, DoneOf(s))
         /\ Len(data[s]) = Len(Table[s])
<1>1. data[s] = HalfPlain(Table[s], Table.encKeys, DoneOf(s))
  BY DEF Deciphering
<1>. QED
  BY <1>1, HalfPlainLen

LEMMA StepTableByte ==
  ASSUME Deciphering, DecryptByte, UNCHANGED <<job, loaded>>,
         \A r \in Sections : Table[r] \in Seq(Byte), Table.encKeys \in Key
  PROVE  Deciphering'
<1>1. PICK text \in Seq(Byte) : text = Table[at]
  BY DEF Deciphering
<1>2. PICK start \in Key : start = Table.encKeys
  OBVIOUS
<1>3. PICK n : n = curIndex
  OBVIOUS
<1>4. at \in Sections /\ Len(data[at]) = Len(text) /\ data[at] = HalfPlain(text, start, n)
  <2>1. at \in Sections /\ DoneOf(at) = n
    BY <1>3 DEF Deciphering, DoneOf
  <2>. QED
    BY <1>1, <1>2, <2>1, DecipheringData
<1>5. n \in Nat /\ n < Len(text)
  BY <1>1, <1>3, <1>4 DEF Deciphering, DecryptByte, More
<1>6. KeysAt(text, start, n, curKey) /\ curKey \in Key
  BY <1>1, <1>2, <1>3 DEF Deciphering
<1>7. curKey[n % 2] = RunningKeys(text, start)[n]
  <2>1. n <= Len(text)
    BY <1>5
  <2>. QED
    BY <1>6, <2>1 DEF KeysAt
<1>8. Mixed = Xor(data[at][n + 1], RunningKeys(text, start)[n])
  BY <1>3, <1>7 DEF Mixed
<1>9. PICK half : half = data[at]
  OBVIOUS
<1>10. PICK b : b = Mixed
  OBVIOUS
<1>11. /\ half[n + 1] \in Byte
       /\ half[n + 1] = Xor(text[n + 1], RunningKeys(text, start)[n])
       /\ [half EXCEPT ![n + 1] = b] = HalfPlain(text, start, n + 1)
  <2>1. half = HalfPlain(text, start, n) /\ b = Xor(half[n + 1], RunningKeys(text, start)[n])
    BY <1>4, <1>8, <1>9, <1>10
  <2>. QED
    BY <1>5, <2>1, HalfStep
<1>12. /\ at' = at /\ curIndex' = n + 1
       /\ encKeys' = encKeys /\ Table' = Table
       /\ curKey' = NextKey(curKey, n, half[n + 1])
       /\ data' = [data EXCEPT ![at][n + 1] = b]
  BY <1>3, <1>9, <1>10 DEF DecryptByte, Table
<1>13. KeysAt(text, start, n + 1, NextKey(curKey, n, half[n + 1]))
  BY <1>5, <1>6, <1>11, KeysAtNext
<1>14. NextKey(curKey, n, half[n + 1]) \in Key
  BY <1>5, <1>6, <1>11, NextKeyType
<1>15. \A s \in Sections : s # at => DoneOf(s)' = DoneOf(s)
  BY <1>12 DEF DoneOf
<1>16. DoneOf(at)' = n + 1
  BY <1>12 DEF DoneOf
<1>17. data' = [s \in Sections |-> HalfPlain(Table'[s], Table'.encKeys, DoneOf(s)')]
  <2>1. data = [s \in Sections |-> HalfPlain(Table[s], Table.encKeys, DoneOf(s))]
    BY DEF Deciphering
  <2>2. data'[at] = [half EXCEPT ![n + 1] = b]
    BY <1>4, <1>9, <1>12, <2>1
  <2>3. \A s \in Sections : s # at => data'[s] = data[s]
    BY <1>12, <2>1
  <2>4. data' = [s \in Sections |-> data'[s]]
    BY <1>12, <2>1
  <2>5. data'[at] = HalfPlain(Table[at], Table.encKeys, n + 1)
    BY <1>1, <1>2, <1>11, <2>2
  <2>6. \A s \in Sections : s # at =>
          data'[s] = HalfPlain(Table[s], Table.encKeys, DoneOf(s)')
    BY <1>15, <2>1, <2>3
  <2>7. \A s \in Sections : data'[s] = HalfPlain(Table'[s], Table'.encKeys, DoneOf(s)')
    <3>1. ASSUME NEW s \in Sections
          PROVE  data'[s] = HalfPlain(Table'[s], Table'.encKeys, DoneOf(s)')
      <4>1. CASE s = at
        <5>1. DoneOf(s)' = n + 1
          BY <1>12, <4>1 DEF DoneOf
        <5>. QED
          BY <1>12, <2>5, <4>1, <5>1
      <4>2. CASE s # at
        BY <1>12, <2>6, <4>2
      <4>. QED
        BY <4>1, <4>2
    <3>. QED
      BY <3>1
  <2>. QED
    BY <2>4, <2>7
<1>18. curIndex' \in 0 .. Len(Table'[at'])
  BY <1>1, <1>5, <1>12
<1>19. KeysAt(Table[at], Table.encKeys, curIndex, curKey)'
  BY <1>1, <1>2, <1>12, <1>13 DEF KeysAt
<1>20. encKeys' = Table'.encKeys
  BY <1>12 DEF Deciphering
<1>. QED
  BY <1>4, <1>12, <1>14, <1>17, <1>18, <1>19, <1>20 DEF Deciphering

LEMMA StepTableStrings ==
  ASSUME Deciphering, DecryptStrings, UNCHANGED <<job, loaded>>,
         \A r \in Sections : Table[r] \in Seq(Byte), Table.encKeys \in Key
  PROVE  Deciphering'
<1>1. /\ at = "names" /\ at' = "strings" /\ curIndex' = 0
      /\ curKey' = StartKey(encKeys) /\ encKeys' = encKeys /\ data' = data /\ Table' = Table
  BY DEF DecryptStrings, BeginDecrypt, Table
<1>2. Sections = {"names", "strings"}
  BY DEF Sections
<1>3. curIndex = Len(Table["names"])
  <2>1. Len(data["names"]) = Len(Table["names"])
    BY <1>2, DecipheringData
  <2>2. ~(curIndex < Len(Table["names"]))
    BY <1>1, <2>1 DEF DecryptStrings, More
  <2>3. curIndex \in 0 .. Len(Table["names"]) /\ Len(Table["names"]) \in Nat
    BY <1>1, <1>2 DEF Deciphering
  <2>. QED
    BY <2>2, <2>3
<1>4. \A s \in Sections : DoneOf(s)' = DoneOf(s)
  BY <1>1, <1>2, <1>3 DEF DoneOf
<1>5. data' = [s \in Sections |-> HalfPlain(Table'[s], Table'.encKeys, DoneOf(s)')]
  BY <1>1, <1>4 DEF Deciphering
<1>6. encKeys = Table.encKeys
  BY DEF Deciphering
<1>7. KeysAt(Table["strings"], Table.encKeys, 0, StartKey(Table.encKeys))
  BY <1>2, KeysAtStart
<1>8. curKey' \in Key
  BY <1>1, <1>6, StartKeyType
<1>9. curIndex' \in 0 .. Len(Table'[at'])
  <2>1. Len(Table["strings"]) \in Nat
    BY <1>2
  <2>. QED
    BY <1>1, <2>1
<1>10. KeysAt(Table[at], Table.encKeys, curIndex, curKey)'
  BY <1>1, <1>6, <1>7 DEF KeysAt
<1>. QED
  BY <1>1, <1>2, <1>5, <1>6, <1>8, <1>9, <1>10 DEF Deciphering

LEMMA StepTableEnd ==
  ASSUME Deciphering, EndLoad, UNCHANGED <<job, loaded>>,
         \A r \in Sections : Table[r] \in Seq(Byte), Table.encKeys \in Key
  PROVE  data' = Plain'
<1>1. data' = data /\ Plain' = Plain
  BY DEF EndLoad, Plain, Table
<1>2. Sections = {"names", "strings"} /\ at \in Sections
  BY DEF Sections, Deciphering
<1>3. curIndex = Len(Table[at])
  <2>1. Len(data[at]) = Len(Table[at])
    BY <1>2, DecipheringData
  <2>2. ~(curIndex < Len(Table[at]))
    BY <1>2, <2>1 DEF EndLoad, More
  <2>3. curIndex \in 0 .. Len(Table[at]) /\ Len(Table[at]) \in Nat
    BY <1>2 DEF Deciphering
  <2>. QED
    BY <2>2, <2>3
<1>4. ASSUME NEW s \in Sections
      PROVE  DoneOf(s) = Len(Table[s]) \/ Len(Table[s]) = 0
  <2>1. CASE s = at
    BY <1>3, <2>1 DEF DoneOf
  <2>2. CASE at = "strings"
    BY <1>3, <2>2 DEF DoneOf
  <2>3. CASE at = "names" /\ s = "strings"
    <3>1. data["strings"] = <<>>
      BY <2>3 DEF EndLoad
    <3>2. Len(data["strings"]) = Len(Table["strings"])
      BY <1>2, DecipheringData
    <3>. QED
      BY <2>3, <3>1, <3>2
  <2>. QED
    BY <1>2, <2>1, <2>2, <2>3
<1>5. \A s \in Sections : data[s] = Table[s]
  BY <1>4, DecipheringData, PlainHalf
<1>6. data = [s \in Sections |-> data[s]]
  BY DEF Deciphering
<1>. QED
  BY <1>1, <1>5, <1>6 DEF Plain

LEMMA StepDecryptTable ==
  ASSUME job \in Jobs, job # NoFile, TablesRight, DecryptTable
  PROVE  TablesRight'
<1>1. PICK T : loaded \in Seq(T)
  BY DEF TablesRight
<1>2. /\ step = "sections" /\ step' = step
      /\ Len(loaded) < Len(job.tables) /\ job.version = "V1"
      /\ UNCHANGED <<job, loaded>>
  BY DEF DecryptTable, TablesRight, tableVars
<1>3. (\A s \in Sections : Table[s] \in Seq(Byte)) /\ Table.encKeys \in Key
  BY <1>1, <1>2, TableType
<1>4. stage = "loading" /\ Deciphering /\ last' = last
  BY DEF DecryptTable, DecryptByte, DecryptStrings, EndLoad, TablesRight
<1>5. SectionsPlain'
  BY <1>2 DEF TablesRight, SectionsPlain
<1>6. CASE DecryptByte
  <2>1. Deciphering' /\ stage' = "loading"
    BY <1>2, <1>3, <1>4, <1>6, StepTableByte DEF DecryptByte
  <2>. QED
    BY <1>1, <1>2, <1>4, <1>5, <2>1 DEF TablesRight
<1>7. CASE DecryptStrings
  <2>1. Deciphering' /\ stage' = "loading"
    BY <1>2, <1>3, <1>4, <1>7, StepTableStrings DEF DecryptStrings
  <2>. QED
    BY <1>1, <1>2, <1>4, <1>5, <2>1 DEF TablesRight
<1>8. CASE EndLoad
  <2>1. data' = Plain' /\ stage' = "loaded"
    BY <1>2, <1>3, <1>4, <1>8, StepTableEnd DEF EndLoad
  <2>. QED
    BY <1>1, <1>2, <1>4, <1>5, <2>1 DEF TablesRight
<1>. QED
  BY <1>6, <1>7, <1>8 DEF DecryptTable

(* A table is done: its sections go to those that are ready.               *)
LEMMA TableReady ==
  ASSUME job # NoFile, TablesRight, NEW t, loaded' = Append(loaded, t), job' = job,
         t.strings = Table.strings, job.version = "V1" => t.names = Table.names
  PROVE  SectionsPlain' /\ \E T : loaded' \in Seq(T)
<1>1. PICK T : loaded \in Seq(T)
  BY DEF TablesRight
<1>2. loaded \in Seq(T \cup {t})
  BY <1>1, SeqMonotonic
<1>3. /\ loaded' \in Seq(T \cup {t})
      /\ DOMAIN loaded' = 1 .. Len(loaded) + 1
      /\ loaded'[Len(loaded) + 1] = t
      /\ \A i \in 1 .. Len(loaded) : loaded'[i] = loaded[i]
  <2>1. t \in T \cup {t}
    OBVIOUS
  <2>. QED
    BY <1>2, <2>1
<1>4. Len(loaded) \in Nat /\ DOMAIN loaded = 1 .. Len(loaded)
  BY <1>1
<1>5. ASSUME NEW i \in DOMAIN loaded'
      PROVE  /\ loaded'[i].strings = job'.tables[i].strings
             /\ job'.version = "V1" => loaded'[i].names = job'.tables[i].names
  <2>1. CASE i = Len(loaded) + 1
    <3>1. loaded'[i] = t /\ Table = job'.tables[i]
      BY <1>3, <2>1 DEF Table
    <3>. QED
      BY <3>1
  <2>2. CASE i # Len(loaded) + 1
    <3>1. i \in DOMAIN loaded /\ loaded'[i] = loaded[i]
      BY <1>3, <1>4, <2>2
    <3>. QED
      BY <3>1 DEF TablesRight, SectionsPlain
  <2>. QED
    BY <2>1, <2>2
<1>. QED
  BY <1>3, <1>5 DEF SectionsPlain

LEMMA StepTableReady ==
  ASSUME job # NoFile, TablesRight, KeepTable \/ EndTable
  PROVE  TablesRight'
<1>1. UNCHANGED <<vars, job>> /\ step' = "tables"
  BY DEF KeepTable, EndTable
<1>2. stage = "loaded" /\ step \in {"sections", "rows", "columns"}
  BY DEF KeepTable, EndTable, TablesRight
<1>3. step \in {"sections", "rows"} =>
        data["names"] = Table.names /\ data["strings"] = Table.strings
  BY <1>2 DEF TablesRight, Plain, Sections
<1>4. \E t : /\ loaded' = Append(loaded, t) /\ t.strings = Table.strings
             /\ job.version = "V1" => t.names = Table.names
  <2>1. CASE KeepTable
    <3>1. step = "sections"
      BY <2>1 DEF KeepTable
    <3>. WITNESS [names |-> data["names"], strings |-> data["strings"]]
    <3>. QED
      BY <1>3, <2>1, <3>1 DEF KeepTable
  <2>2. CASE EndTable
    <3>. DEFINE t == [names |-> IF job.version = "V1" THEN data["names"] ELSE <<>>,
                      strings |-> IF job.version = "V1" THEN data["strings"] ELSE Table.strings,
                      keys |-> keys, rows |-> rows]
    <3>1. step \in {"rows", "columns"} /\ loaded' = Append(loaded, t)
      BY <2>2 DEF EndTable
    <3>2. job.version = "V1" => step = "rows"
      BY <3>1 DEF TablesRight
    <3>3. t.strings = Table.strings /\ (job.version = "V1" => t.names = Table.names)
      BY <1>3, <3>2
    <3>. QED
      BY <3>1, <3>3
  <2>. QED
    BY <2>1, <2>2
<1>5. SectionsPlain' /\ \E T : loaded' \in Seq(T)
  BY <1>1, <1>4, TableReady
<1>. QED
  BY <1>1, <1>2, <1>5 DEF TablesRight, vars

(* The other steps leave the sections and the tables alone.                *)
LEMMA StepProcess ==
  ASSUME job \in Jobs, job # NoFile, TablesRight, ProcessClass
  PROVE  TablesRight'
<1>1. CASE BeginTable
  BY <1>1, StepBeginTable
<1>2. CASE DecryptTable
  BY <1>2, StepDecryptTable
<1>3. CASE KeepTable \/ EndTable
  BY <1>3, StepTableReady
<1>4. CASE Check
  BY <1>4, StepKept DEF Check
<1>5. CASE RefuseFile
  BY <1>5, StepKept DEF RefuseFile, Fail
<1>6. CASE RefuseTable
  BY <1>6, StepKept DEF RefuseTable, MoreTables, Fail
<1>7. CASE EnterKeys
  BY <1>7, StepKept DEF EnterKeys
<1>8. CASE ProcessKey
  BY <1>8, StepKept DEF ProcessKey
<1>9. CASE RefuseKey
  BY <1>9, StepKept DEF RefuseKey, AtKey, Fail
<1>10. CASE EnterRows
  BY <1>10, StepKept DEF EnterRows
<1>11. CASE ProcessRow
  BY <1>11, StepKept DEF ProcessRow
<1>12. CASE RefuseRow
  BY <1>12, StepKept DEF RefuseRow, AtRow, Fail
<1>13. CASE BeginColumns
  BY <1>13, StepKept DEF BeginColumns, Taken, MoreTables
<1>14. CASE FixColumn
  BY <1>14, StepKept DEF FixColumn
<1>15. CASE RefuseColumn
  BY <1>15, StepKept DEF RefuseColumn, AtColumn, Fail
<1>16. CASE EndTables
  BY <1>16, StepKept DEF EndTables
<1>17. CASE CircleRows \/ CircleColumns
  BY <1>17, StepKept DEF CircleRows, CircleColumns, InRows, AtColumn, LoopForEver
<1>. QED
  BY <1>1, <1>2, <1>3, <1>4, <1>5, <1>6, <1>7, <1>8, <1>9, <1>10, <1>11, <1>12,
     <1>13, <1>14, <1>15, <1>16, <1>17 DEF ProcessClass

LEMMA StepSend ==
  ASSUME job \in Jobs, job # NoFile, TablesRight,
         SendTable \/ RefuseFlags \/ CircleTable \/ OpenFile \/ WriteTable \/ RefuseMember
           \/ CircleMember \/ SaveBuffer \/ EndFile \/ AllDone
  PROVE  TablesRight'
<1>1. CASE SendTable \/ OpenFile \/ WriteTable \/ SaveBuffer
  BY <1>1, StepKept DEF SendTable, OpenFile, WriteTable, SaveBuffer, tableVars
<1>2. CASE RefuseFlags
  BY <1>2, StepKept DEF RefuseFlags, AtTable
<1>3. CASE RefuseMember
  BY <1>3, StepKept DEF RefuseMember, Together
<1>4. CASE EndFile
  BY <1>4, StepKept DEF EndFile
<1>5. CASE AllDone
  BY <1>5, StepKept DEF AllDone, allVars, tableVars
<1>6. CASE CircleTable
  BY <1>6, StepKept DEF CircleTable, AtTable, LoopForEver
<1>7. CASE CircleMember
  BY <1>7, StepKept DEF CircleMember, Together, LoopForEver
<1>. QED
  BY <1>1, <1>2, <1>3, <1>4, <1>5, <1>6, <1>7

(* Without a file only EncryptSection and the loading of its sections run. *)
LEMMA StepNoFile ==
  ASSUME step = "cipher", AppProcessFile \/ AllDone
  PROVE  FALSE
<1>1. ~ProcessClass
  BY DEF ProcessClass, Check, RefuseFile, RefuseTable, BeginTable, Taken, MoreTables,
         DecryptTable, KeepTable, EnterKeys, ProcessKey, RefuseKey, AtKey, EnterRows,
         ProcessRow, RefuseRow, AtRow, BeginColumns, FixColumn, RefuseColumn, AtColumn,
         CircleRows, InRows, CircleColumns, EndTable, EndTables
<1>. QED
  BY <1>1 DEF AppProcessFile, SendTable, RefuseFlags, AtTable, OpenFile, WriteTable,
              RefuseMember, CircleTable, CircleMember, Together, SaveBuffer, EndFile, AllDone

LEMMA JsonJob == [JsonNext]_allVars /\ JsonInv => job' = job
<1>. SUFFICES ASSUME [JsonNext]_allVars PROVE job' = job
  OBVIOUS
<1>1. CASE EncryptSections
  BY <1>1 DEF EncryptSections, CipherStep, tableVars
<1>2. CASE ProcessClass
  BY <1>2
     DEF ProcessClass, Check, RefuseFile, RefuseTable, BeginTable, DecryptTable, KeepTable,
         EnterKeys, ProcessKey, RefuseKey, EnterRows, ProcessRow, RefuseRow, BeginColumns,
         FixColumn, RefuseColumn, CircleRows, CircleColumns, LoopForEver, EndTable, EndTables,
         Fail, tableVars
<1>3. CASE AppProcessFile /\ ~ProcessClass
  BY <1>3
     DEF AppProcessFile, SendTable, RefuseFlags, OpenFile, WriteTable, RefuseMember,
         CircleTable, CircleMember, LoopForEver, SaveBuffer, EndFile, tableVars
<1>4. CASE AllDone \/ UNCHANGED allVars
  BY <1>4 DEF AllDone, allVars, tableVars
<1>. QED
  BY <1>1, <1>2, <1>3, <1>4 DEF JsonNext

LEMMA JsonStep == JsonInv /\ [JsonNext]_allVars => JsonInv'
<1>. SUFFICES ASSUME JsonInv, [JsonNext]_allVars PROVE JsonInv'
  OBVIOUS
<1>1. job' = job /\ job \in Jobs
  BY JsonJob DEF JsonInv
<1>2. CASE job = NoFile
  <2>1. step = "cipher" /\ TypeOK /\ InStep
    BY <1>2 DEF JsonInv
  <2>2. CASE UNCHANGED allVars
    <3>1. UNCHANGED vars /\ step' = step
      BY <2>2 DEF allVars, tableVars
    <3>. QED
      BY <1>1, <1>2, <2>1, <3>1, TypeNext, InStepNext DEF JsonInv
  <2>3. CASE EncryptSections
    <3>1. Next /\ step' = step
      BY <2>3 DEF EncryptSections, CipherStep, tableVars
    <3>. QED
      BY <1>1, <1>2, <2>1, <3>1, TypeNext, InStepNext DEF JsonInv
  <2>. QED
    BY <2>1, <2>2, <2>3, StepNoFile DEF JsonNext
<1>3. CASE job # NoFile
  <2>1. TablesRight
    BY <1>3 DEF JsonInv
  <2>2. CASE UNCHANGED allVars
    <3>1. TablesRight'
      BY <2>1, <2>2, StepKept DEF allVars, tableVars
    <3>. QED
      BY <1>1, <1>3, <3>1 DEF JsonInv
  <2>3. CASE EncryptSections
    BY <2>1, <2>3 DEF EncryptSections, CipherStep, TablesRight
  <2>4. CASE ProcessClass
    BY <1>1, <1>3, <2>1, <2>4, StepProcess DEF JsonInv
  <2>5. CASE (AppProcessFile /\ ~ProcessClass) \/ AllDone
    BY <1>1, <1>3, <2>1, <2>5, StepSend DEF AppProcessFile, JsonInv
  <2>. QED
    BY <2>2, <2>3, <2>4, <2>5 DEF JsonNext
<1>. QED
  BY <1>2, <1>3

LEMMA JsonAlways == JsonSpec => []JsonInv
  BY JsonInitRight, JsonStep, PTL DEF JsonSpec

(***************************************************************************)
(* The sections of every table that bdat_to_json or decrypt_bdat has       *)
(* loaded are plain, in either byte order, whatever they say, also after   *)
(* any number of tables before them (bdat.cpp:246-253,                     *)
(* decrypt_bdat.cpp:83-97).                                                *)
(***************************************************************************)
THEOREM SectionsAlwaysPlain == JsonSpec => []SectionsPlain
<1>1. JsonInv => SectionsPlain
  BY DEF JsonInv, TablesRight, SectionsPlain
<1>. QED
  BY <1>1, JsonAlways, PTL

(***************************************************************************)
(* InStep and LastReadsBack hold of the tools too: no file of theirs is    *)
(* one that EncryptSection has been called for (bdat.cpp:56-82).           *)
(***************************************************************************)
THEOREM ToolsInStep == JsonSpec => [](InStep /\ LastReadsBack)
<1>1. JsonInv => InStep /\ LastReadsBack
  BY InStepReads DEF JsonInv, TablesRight, InStep, LastReadsBack, Deciphering
<1>. QED
  BY <1>1, JsonAlways, PTL

(***************************************************************************)
(* Numbers.                                                                *)
(***************************************************************************)
LEMMA ByteDivision ==
  ASSUME NEW n \in Int
  PROVE  /\ n % ByteRange \in Byte
         /\ n \div ByteRange \in Int
         /\ n = ByteRange * (n \div ByteRange) + (n % ByteRange)
<1>1. ByteRange \in Nat \ {0}
  BY CipherAssumption
<1>2. n % ByteRange \in 0 .. ByteRange - 1
  BY <1>1
<1>3. n \div ByteRange \in Int
  BY <1>1
<1>4. n = ByteRange * (n \div ByteRange) + (n % ByteRange)
  BY <1>1, SMTT(30)
<1>. QED
  BY <1>2, <1>3, <1>4 DEF Byte

(* A number of so many bytes has a quotient of one byte less.              *)
LEMMA QuotientBound ==
  ASSUME NEW n \in Int, NEW m \in Nat
  PROVE  /\ 0 <= n /\ n < ByteRange * m => 0 <= n \div ByteRange /\ n \div ByteRange < m
         /\ -(ByteRange * m) <= n /\ n < 0 =>
              -m <= n \div ByteRange /\ n \div ByteRange < 0
<1>1. PICK B \in Nat \ {0} : B = ByteRange
  BY CipherAssumption
<1>2. PICK q \in Int : q = n \div ByteRange
  BY ByteDivision
<1>3. PICK r \in 0 .. B - 1 : r = n % ByteRange
  BY <1>1, ByteDivision DEF Byte
<1>4. n = B * q + r
  BY <1>1, <1>2, <1>3, ByteDivision
<1>5. /\ 0 <= n /\ n < B * m => 0 <= q /\ q < m
      /\ -(B * m) <= n /\ n < 0 => -m <= q /\ q < 0
  BY <1>4
<1>. QED
  BY <1>1, <1>2, <1>5

LEMMA PlaceRule ==
  /\ Place[0] = 1
  /\ \A i \in 0 .. 3 : Place[i + 1] = ByteRange * Place[i]
  /\ \A i \in 0 .. 4 : Place[i] \in Nat \ {0}
<1>1. ByteRange \in Nat \ {0}
  BY CipherAssumption
<1>. DEFINE B == ByteRange
            F == [i \in 0 .. 4 |-> IF i = 0 THEN 1 ELSE IF i = 1 THEN B * 1
                    ELSE IF i = 2 THEN B * (B * 1)
                    ELSE IF i = 3 THEN B * (B * (B * 1)) ELSE B * (B * (B * (B * 1)))]
<1>2. \A i \in 0 .. 4 : F[i] = IF i = 0 THEN 1 ELSE B * F[i - 1]
  <2>1. F[0] = 1 /\ F[1] = B * 1 /\ F[2] = B * (B * 1) /\ F[3] = B * (B * (B * 1))
        /\ F[4] = B * (B * (B * (B * 1)))
    OBVIOUS
  <2>2. ASSUME NEW i \in 0 .. 4
        PROVE  F[i] = IF i = 0 THEN 1 ELSE B * F[i - 1]
    <3>1. i = 0 \/ i = 1 \/ i = 2 \/ i = 3 \/ i = 4
      OBVIOUS
    <3>. HIDE DEF F
    <3>. QED
      BY <2>1, <3>1
  <2>. QED
    BY <2>2
<1>3. F = [i \in 0 .. 4 |-> IF i = 0 THEN 1 ELSE ByteRange * F[i - 1]]
  <2>1. F = [i \in 0 .. 4 |-> F[i]]
    OBVIOUS
  <2>. HIDE DEF F
  <2>. QED
    BY <1>2, <2>1
<1>4. Place = [i \in 0 .. 4 |-> IF i = 0 THEN 1 ELSE ByteRange * Place[i - 1]]
  <2>. HIDE DEF F
  <2>. QED
    BY <1>3 DEF Place
<1>5. \A i \in 0 .. 4 : Place[i] = IF i = 0 THEN 1 ELSE ByteRange * Place[i - 1]
  BY <1>4
<1>6. Place[0] = 1 /\ Place[1] = ByteRange * Place[0] /\ Place[2] = ByteRange * Place[1]
      /\ Place[3] = ByteRange * Place[2] /\ Place[4] = ByteRange * Place[3]
  BY <1>5
<1>7. \A i \in 0 .. 3 : Place[i + 1] = ByteRange * Place[i]
  <2>. SUFFICES ASSUME NEW i \in 0 .. 3 PROVE Place[i + 1] = ByteRange * Place[i]
    OBVIOUS
  <2>1. i = 0 \/ i = 1 \/ i = 2 \/ i = 3
    OBVIOUS
  <2>. QED
    BY <1>6, <2>1
<1>8. \A b \in Nat \ {0}, x \in Nat \ {0} : b * x \in Nat \ {0}
  OBVIOUS
<1>9. Place[0] \in Nat \ {0} /\ Place[1] \in Nat \ {0} /\ Place[2] \in Nat \ {0}
      /\ Place[3] \in Nat \ {0} /\ Place[4] \in Nat \ {0}
  <2>1. Place[0] \in Nat \ {0}
    BY <1>6
  <2>2. Place[1] \in Nat \ {0}
    BY <1>1, <1>6, <1>8, <2>1
  <2>3. Place[2] \in Nat \ {0}
    BY <1>1, <1>6, <1>8, <2>2
  <2>4. Place[3] \in Nat \ {0}
    BY <1>1, <1>6, <1>8, <2>3
  <2>5. Place[4] \in Nat \ {0}
    BY <1>1, <1>6, <1>8, <2>4
  <2>. QED
    BY <2>1, <2>2, <2>3, <2>4, <2>5
<1>10. \A i \in 0 .. 4 : Place[i] \in Nat \ {0}
  <2>. SUFFICES ASSUME NEW i \in 0 .. 4 PROVE Place[i] \in Nat \ {0}
    OBVIOUS
  <2>1. i = 0 \/ i = 1 \/ i = 2 \/ i = 3 \/ i = 4
    OBVIOUS
  <2>. QED
    BY <1>9, <2>1
<1>. QED
  BY <1>6, <1>7, <1>10

(* A fact of 0 that goes on to every next number holds up to w <= 4.       *)
LEMMA UpToFour ==
  ASSUME NEW w \in 0 .. 4, NEW S, 0 \in S, \A i \in 0 .. w - 1 : i \in S => i + 1 \in S
  PROVE  \A i \in 0 .. w : i \in S
<1>1. 0 < w => 1 \in S
  <2>. SUFFICES ASSUME 0 < w PROVE 0 \in 0 .. w - 1 /\ 0 + 1 = 1
    OBVIOUS
  <2>. QED
    OBVIOUS
<1>2. 1 < w => 2 \in S
  <2>. SUFFICES ASSUME 1 < w PROVE 1 \in S /\ 1 \in 0 .. w - 1 /\ 1 + 1 = 2
    OBVIOUS
  <2>. QED
    BY <1>1
<1>3. 2 < w => 3 \in S
  <2>. SUFFICES ASSUME 2 < w PROVE 2 \in S /\ 2 \in 0 .. w - 1 /\ 2 + 1 = 3
    OBVIOUS
  <2>. QED
    BY <1>2
<1>4. 3 < w => 4 \in S
  <2>. SUFFICES ASSUME 3 < w PROVE 3 \in S /\ 3 \in 0 .. w - 1 /\ 3 + 1 = 4
    OBVIOUS
  <2>. QED
    BY <1>3
<1>. SUFFICES ASSUME NEW i \in 0 .. w PROVE i \in S
  OBVIOUS
<1>5. i = 0 \/ i = 1 \/ i = 2 \/ i = 3 \/ i = 4
  OBVIOUS
<1>. QED
  BY <1>1, <1>2, <1>3, <1>4, <1>5

(* The quotients that the bytes of a number are remainders of.             *)
IsRest(R, n, w) ==
  R = [i \in 0 .. w |-> IF i = 0 THEN n ELSE R[i - 1] \div ByteRange]

LEMMA BytesRule ==
  ASSUME NEW n \in Int, NEW w \in 0 .. 4
  PROVE  \E R \in [0 .. w -> Int] :
           /\ R[0] = n
           /\ \A i \in 0 .. w - 1 : R[i + 1] = R[i] \div ByteRange
           /\ Bytes(n, w) = [i \in 1 .. w |-> R[i - 1] % ByteRange]
<1>. DEFINE D(x) == x \div ByteRange
            F == [i \in 0 .. w |-> IF i = 0 THEN n ELSE IF i = 1 THEN D(n)
                    ELSE IF i = 2 THEN D(D(n)) ELSE IF i = 3 THEN D(D(D(n)))
                    ELSE D(D(D(D(n))))]
            R == CHOOSE f : IsRest(f, n, w)
<1>1. ASSUME NEW i \in 0 .. w
      PROVE  F[i] = IF i = 0 THEN n ELSE F[i - 1] \div ByteRange
  <2>1. /\ F[0] = n
        /\ 1 \in 0 .. w => F[1] = D(n)
        /\ 2 \in 0 .. w => F[2] = D(D(n))
        /\ 3 \in 0 .. w => F[3] = D(D(D(n)))
        /\ 4 \in 0 .. w => F[4] = D(D(D(D(n))))
    OBVIOUS
  <2>2. i = 0 \/ i = 1 \/ i = 2 \/ i = 3 \/ i = 4
    OBVIOUS
  <2>. HIDE DEF F
  <2>. QED
    BY <2>1, <2>2
<1>2. IsRest(F, n, w)
  <2>1. F = [i \in 0 .. w |-> F[i]]
    OBVIOUS
  <2>. HIDE DEF F
  <2>. QED
    BY <1>1, <2>1 DEF IsRest
<1>3. IsRest(R, n, w)
  <2>. HIDE DEF F
  <2>. QED
    BY <1>2
<1>4. Bytes(n, w) = [i \in 1 .. w |-> R[i - 1] % ByteRange]
  BY DEF Bytes, IsRest
<1>. HIDE DEF R, F
<1>5. \A i \in 0 .. w : R[i] = IF i = 0 THEN n ELSE R[i - 1] \div ByteRange
  BY <1>3 DEF IsRest
<1>6. R[0] = n
  BY <1>5
<1>7. ASSUME NEW i \in 0 .. w - 1 PROVE R[i + 1] = R[i] \div ByteRange
  <2>1. i + 1 \in 0 .. w /\ i + 1 # 0 /\ i + 1 - 1 = i
    OBVIOUS
  <2>. QED
    BY <1>5, <2>1
<1>8. \A i \in 0 .. w : R[i] \in Int
  <2>. DEFINE S == {j \in 0 .. w : R[j] \in Int}
  <2>1. 0 \in S
    BY <1>6
  <2>2. ASSUME NEW i \in 0 .. w - 1, i \in S PROVE i + 1 \in S
    BY <1>7, <2>2, ByteDivision
  <2>3. \A i \in 0 .. w : i \in S
    <3>. HIDE DEF S
    <3>. QED
      BY <2>1, <2>2, UpToFour
  <2>. QED
    BY <2>3
<1>9. R \in [0 .. w -> Int]
  <2>1. R = [i \in 0 .. w |-> R[i]]
    BY <1>3 DEF IsRest
  <2>. QED
    BY <1>8, <2>1
<1>. QED
  BY <1>4, <1>6, <1>7, <1>9

LEMMA BytesType ==
  ASSUME NEW n \in Int, NEW w \in 0 .. 4
  PROVE  Bytes(n, w) \in [1 .. w -> Byte]
<1>1. PICK R \in [0 .. w -> Int] : Bytes(n, w) = [i \in 1 .. w |-> R[i - 1] % ByteRange]
  BY BytesRule
<1>2. \A i \in 1 .. w : R[i - 1] % ByteRange \in Byte
  <2>. SUFFICES ASSUME NEW i \in 1 .. w PROVE R[i - 1] % ByteRange \in Byte
    OBVIOUS
  <2>1. R[i - 1] \in Int
    OBVIOUS
  <2>. QED
    BY <2>1, ByteDivision
<1>. QED
  BY <1>1, <1>2

(* What the highest so many bytes mean.                                    *)
IsHighest(K, bytes, w) ==
  K = [i \in 0 .. w |-> IF i = 0 THEN 0 ELSE bytes[w + 1 - i] + ByteRange * K[i - 1]]

LEMMA NumberRule ==
  ASSUME NEW w \in 0 .. 4, NEW bytes \in [1 .. w -> Int]
  PROVE  \E K : /\ K[0] = 0
                /\ \A i \in 0 .. w - 1 : K[i + 1] = bytes[w - i] + ByteRange * K[i]
                /\ Number(bytes) = K[w]
<1>0. Len(bytes) = w
  <2>1. bytes \in Seq(Int) /\ DOMAIN bytes = 1 .. w
    OBVIOUS
  <2>. QED
    BY <2>1, LenProperties
<1>. DEFINE b(i) == bytes[w + 1 - i]
            x1 == b(1) + ByteRange * 0
            x2 == b(2) + ByteRange * x1
            x3 == b(3) + ByteRange * x2
            x4 == b(4) + ByteRange * x3
            F == [i \in 0 .. w |-> IF i = 0 THEN 0 ELSE IF i = 1 THEN x1
                    ELSE IF i = 2 THEN x2 ELSE IF i = 3 THEN x3 ELSE x4]
            K == CHOOSE f : IsHighest(f, bytes, w)
<1>1. ASSUME NEW i \in 0 .. w
      PROVE  F[i] = IF i = 0 THEN 0 ELSE bytes[w + 1 - i] + ByteRange * F[i - 1]
  <2>. HIDE DEF x1, x2, x3, x4
  <2>1. /\ F[0] = 0
        /\ 1 \in 0 .. w => F[1] = x1
        /\ 2 \in 0 .. w => F[2] = x2
        /\ 3 \in 0 .. w => F[3] = x3
        /\ 4 \in 0 .. w => F[4] = x4
    OBVIOUS
  <2>. HIDE DEF F
  <2>2. CASE i = 0
    BY <2>1, <2>2
  <2>3. CASE i = 1
    BY <2>1, <2>3 DEF x1
  <2>4. CASE i = 2
    BY <2>1, <2>4 DEF x2
  <2>5. CASE i = 3
    BY <2>1, <2>5 DEF x3
  <2>6. CASE i = 4
    BY <2>1, <2>6 DEF x4
  <2>. QED
    BY <2>2, <2>3, <2>4, <2>5, <2>6
<1>2. IsHighest(F, bytes, w)
  <2>1. F = [i \in 0 .. w |-> F[i]]
    OBVIOUS
  <2>. HIDE DEF F
  <2>. QED
    BY <1>1, <2>1 DEF IsHighest
<1>3. IsHighest(K, bytes, w)
  <2>. HIDE DEF F
  <2>. QED
    BY <1>2
<1>4. Number(bytes) = K[w]
  BY <1>0 DEF Number, IsHighest
<1>. HIDE DEF K, F
<1>5. \A i \in 0 .. w : K[i] = IF i = 0 THEN 0 ELSE bytes[w + 1 - i] + ByteRange * K[i - 1]
  BY <1>3 DEF IsHighest
<1>6. ASSUME NEW i \in 0 .. w - 1 PROVE K[i + 1] = bytes[w - i] + ByteRange * K[i]
  <2>1. i + 1 \in 0 .. w /\ i + 1 # 0 /\ i + 1 - 1 = i /\ w + 1 - (i + 1) = w - i
    OBVIOUS
  <2>. QED
    BY <1>5, <2>1
<1>. QED
  BY <1>4, <1>5, <1>6

LEMMA Distributes ==
  ASSUME NEW b \in Int, NEW x \in Int, NEW p \in Int, NEW c \in Int, NEW y, NEW q,
         y = b * x + c, q = b * p
  PROVE  c + b * (x + p) = y + q
  OBVIOUS

LEMMA NumberOfBytes ==
  ASSUME NEW n \in Int, NEW w \in 0 .. 4
  PROVE  /\ 0 <= n /\ n < Place[w] => Number(Bytes(n, w)) = n
         /\ -Place[w] <= n /\ n < 0 => Number(Bytes(n, w)) = n + Place[w]
<1>1. PICK R \in [0 .. w -> Int] :
        /\ R[0] = n
        /\ \A i \in 0 .. w - 1 : R[i + 1] = R[i] \div ByteRange
        /\ Bytes(n, w) = [i \in 1 .. w |-> R[i - 1] % ByteRange]
  BY BytesRule
<1>2. PICK bytes \in [1 .. w -> Int] : bytes = Bytes(n, w)
  <2>1. Bytes(n, w) \in [1 .. w -> Byte]
    BY BytesType
  <2>2. ByteRange \in Nat
    BY CipherAssumption
  <2>3. \A b \in Byte : b \in Int
    BY <2>2 DEF Byte
  <2>4. Bytes(n, w) \in [1 .. w -> Int]
    BY <2>1, <2>3
  <2>. QED
    BY <2>4
<1>3. PICK K : /\ K[0] = 0
               /\ \A i \in 0 .. w - 1 : K[i + 1] = bytes[w - i] + ByteRange * K[i]
               /\ Number(bytes) = K[w]
  BY NumberRule
<1>4. ByteRange \in Nat \ {0}
  BY CipherAssumption
<1>5. ASSUME NEW i \in 0 .. w - 1
      PROVE  /\ w - i \in 1 .. 4 /\ w - i - 1 \in 0 .. 3 /\ i + 1 \in 0 .. w /\ i \in 0 .. w
             /\ Place[w - i] = ByteRange * Place[w - (i + 1)]
             /\ Place[w - (i + 1)] \in Nat \ {0}
  <2>1. w - i - 1 \in 0 .. 3 /\ w - i - 1 + 1 = w - i /\ w - (i + 1) = w - i - 1
    OBVIOUS
  <2>2. Place[w - i - 1 + 1] = ByteRange * Place[w - i - 1] /\ Place[w - i - 1] \in Nat \ {0}
    BY <2>1, PlaceRule, SMTT(20)
  <2>. QED
    BY <2>1, <2>2
(* How high byte i + 1 from the top stands over what is below it.          *)
<1>6. ASSUME NEW i \in 0 .. w - 1
      PROVE  /\ w - i \in 1 .. w /\ w - i - 1 \in 0 .. w - 1
             /\ bytes[w - i] = R[w - i - 1] % ByteRange
             /\ R[w - i - 1] = ByteRange * R[w - i] + bytes[w - i]
             /\ R[w - i] \in Int /\ R[w - i - 1] \in Int /\ bytes[w - i] \in Int
  <2>1. w - i \in 1 .. w /\ w - i - 1 \in 0 .. w - 1 /\ w - i - 1 + 1 = w - i
        /\ w - i - 1 \in 0 .. w /\ w - i \in 0 .. w
    OBVIOUS
  <2>2. bytes[w - i] = R[w - i - 1] % ByteRange
    BY <1>1, <1>2, <2>1
  <2>3. R[w - i] = R[w - i - 1] \div ByteRange
    BY <1>1, <2>1
  <2>4. R[w - i - 1] \in Int /\ R[w - i] \in Int
    BY <2>1
  <2>5. R[w - i - 1] = ByteRange * (R[w - i - 1] \div ByteRange) + (R[w - i - 1] % ByteRange)
    BY <2>4, ByteDivision
  <2>. QED
    BY <2>1, <2>2, <2>3, <2>4, <2>5
<1>7. ASSUME 0 <= n, n < Place[w] PROVE Number(bytes) = n
  <2>. DEFINE S == {i \in 0 .. w : 0 <= R[i] /\ R[i] < Place[w - i]}
  <2>1. 0 \in S
    <3>1. w - 0 = w
      OBVIOUS
    <3>. QED
      BY <1>1, <1>7, <3>1
  <2>2. ASSUME NEW i \in 0 .. w - 1, i \in S PROVE i + 1 \in S
    <3>1. R[i] \in Int /\ 0 <= R[i] /\ R[i] < ByteRange * Place[w - (i + 1)]
      BY <1>5, <2>2
    <3>2. 0 <= R[i] \div ByteRange /\ R[i] \div ByteRange < Place[w - (i + 1)]
      <4>1. Place[w - (i + 1)] \in Nat
        BY <1>5
      <4>. QED
        BY <3>1, <4>1, QuotientBound
    <3>. QED
      BY <1>1, <1>5, <3>2
  <2>3. \A i \in 0 .. w : i \in S
    <3>. HIDE DEF S
    <3>. QED
      BY <2>1, <2>2, UpToFour
  <2>4. R[w] = 0
    <3>1. w \in 0 .. w /\ w - w = 0
      OBVIOUS
    <3>2. 0 <= R[w] /\ R[w] < Place[w - w]
      BY <2>3, <3>1
    <3>. QED
      BY <3>1, <3>2, PlaceRule
  <2>. DEFINE T == {i \in 0 .. w : K[i] = R[w - i]}
  <2>5. 0 \in T
    <3>1. w - 0 = w
      OBVIOUS
    <3>. QED
      BY <1>3, <2>4, <3>1
  <2>6. ASSUME NEW i \in 0 .. w - 1, i \in T PROVE i + 1 \in T
    <3>1. K[i] = R[w - i]
      BY <2>6
    <3>2. K[i + 1] = bytes[w - i] + ByteRange * R[w - i]
      BY <1>3, <3>1
    <3>3. K[i + 1] = R[w - i - 1]
      BY <1>4, <1>6, <3>2
    <3>4. w - i - 1 = w - (i + 1) /\ i + 1 \in 0 .. w
      OBVIOUS
    <3>. QED
      BY <3>3, <3>4
  <2>7. \A i \in 0 .. w : i \in T
    <3>. HIDE DEF T
    <3>. QED
      BY <2>5, <2>6, UpToFour
  <2>8. w \in 0 .. w /\ w - w = 0
    OBVIOUS
  <2>9. K[w] = R[w - w]
    BY <2>7, <2>8
  <2>. QED
    BY <1>1, <1>3, <2>8, <2>9
<1>8. ASSUME -Place[w] <= n, n < 0 PROVE Number(bytes) = n + Place[w]
  <2>. DEFINE S == {i \in 0 .. w : -Place[w - i] <= R[i] /\ R[i] < 0}
  <2>1. 0 \in S
    <3>1. w - 0 = w
      OBVIOUS
    <3>. QED
      BY <1>1, <1>8, <3>1
  <2>2. ASSUME NEW i \in 0 .. w - 1, i \in S PROVE i + 1 \in S
    <3>1. R[i] \in Int /\ -(ByteRange * Place[w - (i + 1)]) <= R[i] /\ R[i] < 0
      BY <1>5, <2>2
    <3>2. -Place[w - (i + 1)] <= R[i] \div ByteRange /\ R[i] \div ByteRange < 0
      <4>1. Place[w - (i + 1)] \in Nat
        BY <1>5
      <4>. QED
        BY <3>1, <4>1, QuotientBound
    <3>. QED
      BY <1>1, <1>5, <3>2
  <2>3. \A i \in 0 .. w : i \in S
    <3>. HIDE DEF S
    <3>. QED
      BY <2>1, <2>2, UpToFour
  <2>4. R[w] = -1
    <3>1. w \in 0 .. w /\ w - w = 0
      OBVIOUS
    <3>2. -Place[w - w] <= R[w] /\ R[w] < 0 /\ R[w] \in Int
      BY <2>3, <3>1
    <3>. QED
      BY <3>1, <3>2, PlaceRule
  <2>. DEFINE T == {i \in 0 .. w : K[i] = R[w - i] + Place[i]}
  <2>5. 0 \in T
    <3>1. w - 0 = w
      OBVIOUS
    <3>. QED
      BY <1>3, <2>4, <3>1, PlaceRule
  <2>6. ASSUME NEW i \in 0 .. w - 1, i \in T PROVE i + 1 \in T
    <3>1. K[i] = R[w - i] + Place[i]
      BY <2>6
    <3>2. K[i + 1] = bytes[w - i] + ByteRange * (R[w - i] + Place[i])
      BY <1>3, <3>1
    <3>3. i \in 0 .. 3 /\ i \in 0 .. 4
      OBVIOUS
    <3>4. Place[i + 1] = ByteRange * Place[i] /\ Place[i] \in Nat
      BY <3>3, PlaceRule
    <3>5. ByteRange \in Int /\ Place[i] \in Int
      BY <1>4, <3>4
    <3>6. R[w - i] \in Int /\ bytes[w - i] \in Int
          /\ R[w - i - 1] = ByteRange * R[w - i] + bytes[w - i]
      BY <1>6
    <3>7. bytes[w - i] + ByteRange * (R[w - i] + Place[i]) = R[w - i - 1] + Place[i + 1]
      <4>1. PICK b \in Int : b = ByteRange
        BY <3>5
      <4>2. PICK p \in Int : p = Place[i]
        BY <3>5
      <4>3. PICK x \in Int : x = R[w - i]
        BY <3>6
      <4>4. PICK c \in Int : c = bytes[w - i]
        BY <3>6
      <4>5. R[w - i - 1] = b * x + c /\ Place[i + 1] = b * p
        BY <3>4, <3>6, <4>1, <4>2, <4>3, <4>4
      <4>6. c + b * (x + p) = R[w - i - 1] + Place[i + 1]
        BY <4>5, Distributes
      <4>. QED
        BY <4>1, <4>2, <4>3, <4>4, <4>6
    <3>8. K[i + 1] = R[w - i - 1] + Place[i + 1]
      BY <3>2, <3>7
    <3>9. w - i - 1 = w - (i + 1) /\ i + 1 \in 0 .. w
      OBVIOUS
    <3>. QED
      BY <3>8, <3>9
  <2>7. \A i \in 0 .. w : i \in T
    <3>. HIDE DEF T
    <3>. QED
      BY <2>5, <2>6, UpToFour
  <2>8. w \in 0 .. w /\ w - w = 0
    OBVIOUS
  <2>9. K[w] = R[w - w] + Place[w]
    BY <2>7, <2>8
  <2>. QED
    BY <1>1, <1>3, <2>8, <2>9
<1>. QED
  BY <1>2, <1>7, <1>8

LEMMA LenOf == ASSUME NEW w \in Nat, NEW S, NEW f \in [1 .. w -> S] PROVE Len(f) = w
<1>1. f \in Seq(S) /\ DOMAIN f = 1 .. w
  OBVIOUS
<1>. QED
  BY <1>1, LenProperties

LEMMA ReverseTwice ==
  ASSUME NEW w \in Nat, NEW bytes \in [1 .. w -> Int]
  PROVE  Reverse(bytes) \in [1 .. w -> Int] /\ Reverse(Reverse(bytes)) = bytes
<1>1. \A f \in [1 .. w -> Int] : Reverse(f) = [i \in 1 .. w |-> f[w - i + 1]]
  BY LenOf DEF Reverse
<1>2. \A i \in 1 .. w : w - i + 1 \in 1 .. w /\ w - (w - i + 1) + 1 = i
  OBVIOUS
<1>3. PICK back \in [1 .. w -> Int] : back = Reverse(bytes)
  BY <1>1, <1>2
<1>4. Reverse(back) = [i \in 1 .. w |-> back[w - i + 1]]
  BY <1>1
<1>5. ASSUME NEW i \in 1 .. w PROVE back[w - i + 1] = bytes[i]
  <2>1. back = [j \in 1 .. w |-> bytes[w - j + 1]]
    BY <1>1, <1>3
  <2>2. w - i + 1 \in 1 .. w /\ w - (w - i + 1) + 1 = i
    OBVIOUS
  <2>. QED
    BY <2>1, <2>2
<1>. QED
  BY <1>3, <1>4, <1>5

(* Swapping twice leaves bytes as they are.                                *)
LEMMA SwapTwice ==
  ASSUME NEW w \in Nat, NEW bytes \in [1 .. w -> Int]
  PROVE  Swapped(bytes) \in [1 .. w -> Int] /\ Swapped(Swapped(bytes)) = bytes
<1>1. CASE job.big
  BY <1>1, ReverseTwice DEF Swapped
<1>2. CASE ~job.big
  BY <1>2 DEF Swapped
<1>. QED
  BY <1>1, <1>2

LEMMA BytesAreInts ==
  ASSUME NEW n \in Int, NEW w \in 0 .. 4
  PROVE  Bytes(n, w) \in [1 .. w -> Int]
<1>1. Bytes(n, w) \in [1 .. w -> Byte]
  BY BytesType
<1>2. ByteRange \in Nat
  BY CipherAssumption
<1>3. \A b \in Byte : b \in Int
  BY <1>2 DEF Byte
<1>. QED
  BY <1>1, <1>3

Whole == {"i8", "i16", "i32"}

LEMMA WidthRule ==
  /\ CellTypes \subseteq DOMAIN Width
  /\ \A type \in DOMAIN Width : Width[type] \in 1 .. 4
  /\ Width["StringPtr"] = 4 /\ Width["Float"] = 4
<1>1. DOMAIN Width = {"u8", "u16", "u32", "i8", "i16", "i32", "StringPtr", "Float", "KeyHash",
                      "Unk", "Unk1"}
  BY DEF Width
<1>2. \A type \in DOMAIN Width : Width[type] \in 1 .. 4
  BY <1>1 DEF Width
<1>. QED
  BY <1>1, <1>2 DEF Width, CellTypes

(* What a cell is in memory when it is ready to be read.                   *)
Ready(type, value, coded) ==
  CASE type = "StringPtr" -> PointerTo(value)
    [] type = "Float" /\ coded -> Decode(Bytes(value, 4))
    [] OTHER -> Bytes(value, Width[type])

LEMMA ReadyType ==
  ASSUME NEW type \in DOMAIN Width, NEW value, InRange(type, value), NEW coded
  PROVE  Ready(type, value, coded) \in [1 .. Width[type] -> Int]
<1>0. value \in Int /\ Width[type] \in 0 .. 4
  BY WidthRule DEF InRange
<1>1. CASE type = "StringPtr"
  <2>1. ByteRange \in Int /\ ByteRange + value \in Int
    BY <1>0, CipherAssumption
  <2>2. PointerTo(value) \in [1 .. 4 -> Int]
    BY <2>1 DEF PointerTo
  <2>. QED
    BY <1>1, <2>2, WidthRule DEF Ready
<1>2. CASE type = "Float" /\ coded
  <2>1. Decode(Bytes(value, 4)) \in [1 .. 4 -> Byte]
    BY <1>0, BytesType, DecodeAssumption
  <2>2. ByteRange \in Nat
    BY CipherAssumption
  <2>3. \A b \in Byte : b \in Int
    BY <2>2 DEF Byte
  <2>4. Decode(Bytes(value, 4)) \in [1 .. 4 -> Int]
    BY <2>1, <2>3
  <2>. QED
    BY <1>2, <2>4, WidthRule DEF Ready
<1>3. CASE type # "StringPtr" /\ ~(type = "Float" /\ coded)
  <2>1. Ready(type, value, coded) = Bytes(value, Width[type])
    BY <1>3 DEF Ready
  <2>. QED
    BY <1>0, <2>1, BytesAreInts
<1>. QED
  BY <1>1, <1>2, <1>3

LEMMA StoredCellType ==
  ASSUME NEW type \in DOMAIN Width, NEW value, InRange(type, value)
  PROVE  /\ StoredCell(type, value) \in [1 .. Width[type] -> Int]
         /\ Swapped(StoredCell(type, value)) = Bytes(value, Width[type])
<1>1. value \in Int /\ Width[type] \in 0 .. 4
  BY WidthRule DEF InRange
<1>2. Bytes(value, Width[type]) \in [1 .. Width[type] -> Int]
  BY <1>1, BytesAreInts
<1>. QED
  BY <1>1, <1>2, SwapTwice DEF StoredCell

(* A number that is not negative is what its bytes mean.                   *)
LEMMA NumberInRange ==
  ASSUME NEW type \in DOMAIN Width, NEW value, InRange(type, value)
  PROVE  /\ type \notin Whole => Number(Bytes(value, Width[type])) = value
         /\ type \in Whole => Signed(Number(Bytes(value, Width[type])), Width[type]) = value
<1>1. PICK w \in 0 .. 4 : w = Width[type]
  BY WidthRule
<1>2. Place[w] \in Nat \ {0} /\ value \in Int
  BY PlaceRule DEF InRange
<1>3. CASE type \notin Whole
  BY <1>1, <1>2, <1>3, NumberOfBytes DEF InRange, Whole
<1>4. CASE type \in Whole
  <2>1. -Place[w] <= 2 * value /\ 2 * value < Place[w]
    BY <1>1, <1>4 DEF InRange, Whole
  <2>2. CASE value >= 0
    <3>1. Number(Bytes(value, w)) = value
      BY <1>2, <2>1, <2>2, NumberOfBytes
    <3>. QED
      BY <1>1, <1>2, <1>4, <2>1, <3>1 DEF Signed
  <2>3. CASE value < 0
    <3>1. Number(Bytes(value, w)) = value + Place[w]
      BY <1>2, <2>1, <2>3, NumberOfBytes
    <3>. QED
      BY <1>1, <1>2, <1>4, <2>1, <3>1 DEF Signed
  <2>. QED
    BY <1>2, <2>2, <2>3
<1>. QED
  BY <1>3, <1>4

(* SwapValue makes a cell of a file ready.                                 *)
LEMMA ProcessedReady ==
  ASSUME NEW type \in CellTypes, NEW value, InRange(type, value)
  PROVE  Processed(type, StoredCell(type, value)) = Ready(type, value, Table.coded)
<1>1. type \in DOMAIN Width /\ Width["StringPtr"] = 4 /\ Width["Float"] = 4
  BY WidthRule
<1>2. Swapped(StoredCell(type, value)) = Bytes(value, Width[type])
  BY <1>1, StoredCellType
<1>3. CASE type = "StringPtr"
  <2>1. Number(Bytes(value, Width[type])) = value
    BY <1>1, <1>3, NumberInRange DEF Whole
  <2>. QED
    BY <1>2, <1>3, <2>1 DEF Processed, Ready
<1>4. CASE type = "Float" /\ Table.coded
  BY <1>1, <1>2, <1>4 DEF Processed, Ready
<1>5. CASE type # "StringPtr" /\ ~(type = "Float" /\ Table.coded)
  BY <1>2, <1>5 DEF Processed, Ready
<1>. QED
  BY <1>3, <1>4, <1>5

(* A cell that is ready is read as what it says.                           *)
LEMMA ValueReady ==
  ASSUME NEW type \in DOMAIN Width, NEW value, InRange(type, value), NEW strings, NEW coded
  PROVE  Value(type, Ready(type, value, coded), strings) = Says(type, value, strings, coded)
<1>1. Width["StringPtr"] = 4 /\ Width["Float"] = 4
  BY WidthRule
<1>2. CASE type \in Whole
  <2>1. Ready(type, value, coded) = Bytes(value, Width[type])
    BY <1>2 DEF Ready, Whole
  <2>2. Signed(Number(Bytes(value, Width[type])), Width[type]) = value
    BY <1>2, NumberInRange
  <2>. QED
    BY <1>2, <2>1, <2>2 DEF Value, Says, Whole
<1>3. CASE type = "StringPtr"
  <2>1. Ready(type, value, coded)[1] = ByteRange + value
    BY <1>3 DEF Ready, PointerTo
  <2>2. Ready(type, value, coded)[1] - ByteRange = value
    BY <2>1, CipherAssumption DEF InRange
  <2>3. Value(type, Ready(type, value, coded), strings) =
          [text |-> TextAt(strings, Ready(type, value, coded)[1] - ByteRange)]
    BY <1>3 DEF Value
  <2>4. Says(type, value, strings, coded) = [text |-> TextAt(strings, value)]
    BY <1>3 DEF Says
  <2>. QED
    BY <2>2, <2>3, <2>4
<1>4. CASE type = "Float"
  <2>1. Ready(type, value, coded) = IF coded THEN Decode(Bytes(value, 4)) ELSE Bytes(value, 4)
    BY <1>1, <1>4 DEF Ready
  <2>. QED
    BY <1>4, <2>1 DEF Value, Says
<1>5. CASE type \notin Whole \cup {"StringPtr", "Float"}
  <2>1. Ready(type, value, coded) = Bytes(value, Width[type])
    BY <1>5 DEF Ready
  <2>2. Number(Bytes(value, Width[type])) = value
    BY <1>5, NumberInRange
  <2>. QED
    BY <1>5, <2>1, <2>2 DEF Value, Says, Whole
<1>. QED
  BY <1>2, <1>3, <1>4, <1>5 DEF Whole

(***************************************************************************)
(* Rows: cells that do not overlap.                                        *)
(***************************************************************************)

(* A cell is the bytes of its row from its offset on.                      *)
LEMMA CellBytes ==
  ASSUME NEW n \in Nat, NEW row \in [1 .. n -> Int], NEW off \in Nat, NEW w \in Nat,
         off + w <= n
  PROVE  Cell(row, off, w) = [j \in 1 .. w |-> row[off + j]]
<1>1. row \in Seq(Int) /\ Len(row) = n
  <2>1. row \in Seq(Int)
    OBVIOUS
  <2>. QED
    BY <2>1, LenOf
<1>2. off + 1 >= 1 /\ off + w - (off + 1) + 1 = w
  OBVIOUS
<1>3. SubSeq(row, off + 1, off + w) = [j \in 1 .. w |-> row[off + 1 + j - 1]]
  BY <1>1, <1>2
<1>4. \A j \in 1 .. w : row[off + 1 + j - 1] = row[off + j]
  <2>. SUFFICES ASSUME NEW j \in 1 .. w PROVE off + 1 + j - 1 = off + j
    OBVIOUS
  <2>. QED
    OBVIOUS
<1>. QED
  BY <1>3, <1>4 DEF Cell

(* Cells that are in a row of n bytes and share none.                      *)
Apart(S, n) ==
  /\ n \in Nat
  /\ \A c \in S : c[1] \in Nat /\ c[2] \in DOMAIN Width /\ c[1] + Width[c[2]] <= n
  /\ \A c, d \in S : \A i \in 1 .. n : Covers(c, i) /\ Covers(d, i) => c = d

(* What the cells have: a number for each of their bytes.                  *)
Filled(S, G) == \A c \in S : G[c] \in [1 .. Width[c[2]] -> Int]

Paint(S, n, G) ==
  [i \in 1 .. n |->
    IF \E c \in S : Covers(c, i)
    THEN LET c == CHOOSE c \in S : Covers(c, i)
         IN  G[c][i - c[1]]
    ELSE 0]

LEMMA PaintAt ==
  ASSUME NEW S, NEW n, NEW G, Apart(S, n), NEW c \in S, NEW i \in 1 .. n, Covers(c, i)
  PROVE  Paint(S, n, G)[i] = G[c][i - c[1]]
<1>1. PICK d : d = CHOOSE x \in S : Covers(x, i)
  OBVIOUS
<1>2. d \in S /\ Covers(d, i)
  BY <1>1
<1>3. d = c
  BY <1>2 DEF Apart
<1>4. Paint(S, n, G)[i] = G[d][i - d[1]]
  BY <1>1 DEF Paint
<1>. QED
  BY <1>3, <1>4

LEMMA PaintOutside ==
  ASSUME NEW S, NEW n, NEW G, NEW i \in 1 .. n, ~ \E c \in S : Covers(c, i)
  PROVE  Paint(S, n, G)[i] = 0
  BY DEF Paint

LEMMA PaintFunction ==
  ASSUME NEW S, NEW n, NEW G
  PROVE  Paint(S, n, G) = [i \in 1 .. n |-> Paint(S, n, G)[i]]
  BY DEF Paint

LEMMA PaintType ==
  ASSUME NEW S, NEW n, NEW G, Apart(S, n), Filled(S, G)
  PROVE  Paint(S, n, G) \in [1 .. n -> Int]
<1>1. ASSUME NEW i \in 1 .. n PROVE Paint(S, n, G)[i] \in Int
  <2>1. CASE \E c \in S : Covers(c, i)
    <3>1. PICK c \in S : Covers(c, i)
      BY <2>1
    <3>2. i - c[1] \in 1 .. Width[c[2]]
      BY <3>1 DEF Covers
    <3>3. G[c][i - c[1]] \in Int
      BY <3>2 DEF Filled
    <3>. QED
      BY <3>1, <3>3, PaintAt
  <2>2. CASE ~ \E c \in S : Covers(c, i)
    BY <2>2, PaintOutside
  <2>. QED
    BY <2>1, <2>2
<1>. QED
  BY <1>1, PaintFunction

(* A cell is read as what it was given.                                    *)
LEMMA PaintRead ==
  ASSUME NEW S, NEW n, NEW G, Apart(S, n), Filled(S, G), NEW c \in S
  PROVE  Cell(Paint(S, n, G), c[1], Width[c[2]]) = G[c]
<1>1. PICK off \in Nat : off = c[1]
  BY DEF Apart
<1>2. PICK w \in Nat : w = Width[c[2]]
  BY WidthRule DEF Apart
<1>3. off + w <= n /\ n \in Nat
  BY <1>1, <1>2 DEF Apart
<1>4. PICK row \in [1 .. n -> Int] : row = Paint(S, n, G)
  BY PaintType
<1>5. Cell(row, off, w) = [j \in 1 .. w |-> row[off + j]]
  BY <1>3, CellBytes
<1>6. ASSUME NEW j \in 1 .. w PROVE row[off + j] = G[c][j]
  <2>1. PICK i \in 1 .. n : i = off + j
    BY <1>3
  <2>2. i - off = j
    BY <2>1
  <2>3. Covers(c, i)
    BY <1>1, <1>2, <2>2 DEF Covers
  <2>4. Paint(S, n, G)[i] = G[c][i - c[1]]
    BY <2>3, PaintAt
  <2>. QED
    BY <1>1, <1>4, <2>1, <2>2, <2>4
<1>7. G[c] = [j \in 1 .. w |-> G[c][j]]
  BY <1>2 DEF Filled
<1>. QED
  BY <1>1, <1>2, <1>4, <1>5, <1>6, <1>7

StoredAs(S) == [c \in S |-> StoredCell(c[2], c[3])]

LEMMA LaidPaint ==
  ASSUME NEW S, NEW n
  PROVE  Laid(S, n) = Paint(S, n, StoredAs(S))
<1>1. ASSUME NEW i \in 1 .. n
      PROVE  Laid(S, n)[i] = Paint(S, n, StoredAs(S))[i]
  <2>1. CASE \E c \in S : Covers(c, i)
    <3>1. PICK d : d = CHOOSE x \in S : Covers(x, i)
      OBVIOUS
    <3>2. d \in S
      BY <2>1, <3>1
    <3>3. Laid(S, n)[i] = StoredCell(d[2], d[3])[i - d[1]]
      BY <2>1, <3>1 DEF Laid
    <3>4. Paint(S, n, StoredAs(S))[i] = StoredAs(S)[d][i - d[1]]
      BY <2>1, <3>1 DEF Paint
    <3>5. StoredAs(S)[d] = StoredCell(d[2], d[3])
      BY <3>2 DEF StoredAs
    <3>. QED
      BY <3>3, <3>4, <3>5
  <2>2. CASE ~ \E c \in S : Covers(c, i)
    BY <2>2 DEF Laid, Paint
  <2>. QED
    BY <2>1, <2>2
<1>2. Laid(S, n) = [i \in 1 .. n |-> Laid(S, n)[i]]
  BY DEF Laid
<1>. QED
  BY <1>1, <1>2, PaintFunction

(***************************************************************************)
(* Key descriptors.                                                        *)
(***************************************************************************)
FieldsHold(k) ==
  \A f \in {"name", "offset", "items", "value", "owner"} : k[f] \in 0 .. Place[2] - 1

(* A descriptor that has been processed.                                   *)
ReadyKey(k) ==
  [f \in DOMAIN StoredKey(k) |->
    IF f \in {"name"} \cup Fields[k.base] THEN Swapped(StoredKey(k)[f]) ELSE StoredKey(k)[f]]

(* A field of two bytes, swapped twice, is what it was.                    *)
LEMMA FieldTwice ==
  ASSUME NEW n \in 0 .. Place[2] - 1
  PROVE  Number(Swapped(Swapped(Bytes(n, 2)))) = n
<1>1. Place[2] \in Nat
  BY PlaceRule
<1>2. n \in Int /\ 0 <= n /\ n < Place[2]
  BY <1>1
<1>3. Bytes(n, 2) \in [1 .. 2 -> Int]
  BY <1>2, BytesAreInts
<1>4. Swapped(Swapped(Bytes(n, 2))) = Bytes(n, 2)
  BY <1>3, SwapTwice
<1>5. Number(Bytes(n, 2)) = n
  BY <1>2, NumberOfBytes
<1>. QED
  BY <1>4, <1>5

LEMMA FieldsRule ==
  /\ DOMAIN Fields = {"Default", "Array", "Flag"}
  /\ Fields["Default"] = {"offset"}
  /\ Fields["Array"] = {"offset", "items"}
  /\ Fields["Flag"] = {"value", "owner"}
  BY DEF Fields

LEMMA ReadyKeyRule ==
  ASSUME NEW k, FieldsHold(k), k.base \in DOMAIN Fields
  PROVE  /\ ReadyKey(k).base = k.base /\ ReadyKey(k).type = k.type
         /\ Number(ReadyKey(k).name) = k.name
         /\ k.base # "Flag" => Number(ReadyKey(k).offset) = k.offset
         /\ k.base = "Array" => Number(ReadyKey(k).items) = k.items
         /\ k.base = "Flag" => /\ Number(ReadyKey(k).value) = k.value
                               /\ Number(ReadyKey(k).owner) = k.owner
<1>1. /\ k.name \in 0 .. Place[2] - 1 /\ k.offset \in 0 .. Place[2] - 1
      /\ k.items \in 0 .. Place[2] - 1 /\ k.value \in 0 .. Place[2] - 1
      /\ k.owner \in 0 .. Place[2] - 1
  BY DEF FieldsHold
<1>2. DOMAIN StoredKey(k) = {"base", "type", "name", "offset", "items", "value", "owner"}
  BY DEF StoredKey
<1>3. /\ StoredKey(k)["base"] = k.base /\ StoredKey(k)["type"] = k.type
      /\ StoredKey(k)["name"] = Swapped(Bytes(k.name, 2))
      /\ StoredKey(k)["offset"] = Swapped(Bytes(k.offset, 2))
      /\ StoredKey(k)["items"] = Swapped(Bytes(k.items, 2))
      /\ StoredKey(k)["value"] = Swapped(Bytes(k.value, 2))
      /\ StoredKey(k)["owner"] = Swapped(Bytes(k.owner, 2))
  BY DEF StoredKey
<1>4. \A f \in DOMAIN StoredKey(k) :
        ReadyKey(k)[f] = IF f \in {"name"} \cup Fields[k.base] THEN Swapped(StoredKey(k)[f])
                           ELSE StoredKey(k)[f]
  BY DEF ReadyKey
<1>5. "base" \notin {"name"} \cup Fields[k.base] /\ "type" \notin {"name"} \cup Fields[k.base]
  BY FieldsRule
<1>6. ReadyKey(k)["base"] = k.base /\ ReadyKey(k)["type"] = k.type
  BY <1>2, <1>3, <1>4, <1>5
<1>7. Number(ReadyKey(k)["name"]) = k.name
  <2>1. ReadyKey(k)["name"] = Swapped(Swapped(Bytes(k.name, 2)))
    BY <1>2, <1>3, <1>4
  <2>. QED
    BY <1>1, <2>1, FieldTwice
<1>8. k.base # "Flag" => Number(ReadyKey(k)["offset"]) = k.offset
  <2>. SUFFICES ASSUME k.base # "Flag" PROVE Number(ReadyKey(k)["offset"]) = k.offset
    OBVIOUS
  <2>1. "offset" \in {"name"} \cup Fields[k.base]
    BY FieldsRule
  <2>2. ReadyKey(k)["offset"] = Swapped(Swapped(Bytes(k.offset, 2)))
    BY <1>2, <1>3, <1>4, <2>1
  <2>. QED
    BY <1>1, <2>2, FieldTwice
<1>9. k.base = "Array" => Number(ReadyKey(k)["items"]) = k.items
  <2>. SUFFICES ASSUME k.base = "Array" PROVE Number(ReadyKey(k)["items"]) = k.items
    OBVIOUS
  <2>1. "items" \in {"name"} \cup Fields[k.base]
    BY FieldsRule
  <2>2. ReadyKey(k)["items"] = Swapped(Swapped(Bytes(k.items, 2)))
    BY <1>2, <1>3, <1>4, <2>1
  <2>. QED
    BY <1>1, <2>2, FieldTwice
<1>10. k.base = "Flag" => Number(ReadyKey(k)["value"]) = k.value
  <2>. SUFFICES ASSUME k.base = "Flag" PROVE Number(ReadyKey(k)["value"]) = k.value
    OBVIOUS
  <2>1. "value" \in {"name"} \cup Fields[k.base]
    BY FieldsRule
  <2>2. ReadyKey(k)["value"] = Swapped(Swapped(Bytes(k.value, 2)))
    BY <1>2, <1>3, <1>4, <2>1
  <2>. QED
    BY <1>1, <2>2, FieldTwice
<1>11. k.base = "Flag" => Number(ReadyKey(k)["owner"]) = k.owner
  <2>. SUFFICES ASSUME k.base = "Flag" PROVE Number(ReadyKey(k)["owner"]) = k.owner
    OBVIOUS
  <2>1. "owner" \in {"name"} \cup Fields[k.base]
    BY FieldsRule
  <2>2. ReadyKey(k)["owner"] = Swapped(Swapped(Bytes(k.owner, 2)))
    BY <1>2, <1>3, <1>4, <2>1
  <2>. QED
    BY <1>1, <2>2, FieldTwice
<1>. QED
  BY <1>6, <1>7, <1>8, <1>9, <1>10, <1>11

(***************************************************************************)
(* The cells of a row of a V1 table.                                       *)
(***************************************************************************)
LEMMA CellRule ==
  ASSUME NEW t, NEW row, NEW c
  PROVE  c \in CellsOfRow(t, row) <=>
           \E k \in DOMAIN t.keys : \E a \in 1 .. CellCount(t.keys[k]) :
             c = <<CellOffset(t.keys[k], a), t.keys[k].type, CellValue(t.keys[k], row[k], a)>>
  BY DEF CellsOfRow

LEMMA CellTyped ==
  ASSUME NEW k, FieldsHold(k)
  PROVE  /\ CellCount(k) \in Nat
         /\ CellCount(k) # 0 =>
              /\ k.type \in CellTypes
              /\ k.base = "Default" \/ k.base = "Array"
              /\ CellCount(k) = IF k.base = "Default" THEN 1 ELSE k.items
<1>1. k.items \in Nat
  <2>1. k.items \in 0 .. Place[2] - 1 /\ Place[2] \in Nat
    BY PlaceRule DEF FieldsHold
  <2>. QED
    BY <2>1
<1>2. CASE k.type \notin CellTypes
  BY <1>2 DEF CellCount
<1>3. CASE k.type \in CellTypes /\ k.base = "Default"
  <2>1. CellCount(k) = 1
    BY <1>3 DEF CellCount
  <2>. QED
    BY <1>3, <2>1
<1>4. CASE k.type \in CellTypes /\ k.base = "Array"
  <2>1. CellCount(k) = k.items
    BY <1>4 DEF CellCount
  <2>. QED
    BY <1>1, <1>4, <2>1
<1>5. CASE k.type \in CellTypes /\ k.base \notin {"Default", "Array"}
  BY <1>5 DEF CellCount
<1>. QED
  BY <1>2, <1>3, <1>4, <1>5

LEMMA CellPlaced ==
  ASSUME NEW k, FieldsHold(k), NEW a \in 1 .. CellCount(k)
  PROVE  /\ k.type \in CellTypes /\ k.type \in DOMAIN Width
         /\ Width[k.type] \in 1 .. 4
         /\ CellOffset(k, a) \in Nat
<1>1. CellCount(k) \in Nat /\ CellCount(k) # 0
  BY CellTyped
<1>2. k.type \in CellTypes
  BY <1>1, CellTyped
<1>3. k.type \in DOMAIN Width /\ Width[k.type] \in 1 .. 4
  BY <1>2, WidthRule
<1>4. k.offset \in Nat
  <2>1. k.offset \in 0 .. Place[2] - 1 /\ Place[2] \in Nat
    BY PlaceRule DEF FieldsHold
  <2>. QED
    BY <2>1
<1>5. a - 1 \in Nat
  BY <1>1
<1>6. \A x \in Nat, y \in 1 .. 4 : x * y \in Nat
  OBVIOUS
<1>7. (a - 1) * Width[k.type] \in Nat
  BY <1>3, <1>5, <1>6
<1>. QED
  BY <1>2, <1>3, <1>4, <1>7 DEF CellOffset

LEMMA PlainFields ==
  ASSUME NEW t, PlainTable(t), NEW k \in DOMAIN t.keys
  PROVE  FieldsHold(t.keys[k])
  BY DEF PlainTable, FieldsHold

LEMMA RowCells ==
  ASSUME NEW t, PlainTable(t), CellsApart(t), NEW r \in DOMAIN t.rows
  PROVE  /\ Apart(CellsOfRow(t, t.rows[r]), t.stride)
         /\ \A c \in CellsOfRow(t, t.rows[r]) : c[2] \in CellTypes /\ InRange(c[2], c[3])
<1>. DEFINE S == CellsOfRow(t, t.rows[r])
            begin(k, a) == CellOffset(t.keys[k], a)
            w(k) == Width[t.keys[k].type]
<1>1. ASSUME NEW k \in DOMAIN t.keys, NEW a \in 1 .. CellCount(t.keys[k])
      PROVE  /\ t.keys[k].type \in CellTypes /\ t.keys[k].type \in DOMAIN Width
             /\ w(k) \in 1 .. 4 /\ begin(k, a) \in Nat
  BY PlainFields, CellPlaced
<1>2. ASSUME NEW k \in DOMAIN t.keys, NEW a \in 1 .. CellCount(t.keys[k])
      PROVE  /\ begin(k, a) + w(k) <= t.stride
             /\ InRange(t.keys[k].type, CellValue(t.keys[k], t.rows[r][k], a))
  BY DEF CellsApart
<1>3. ASSUME NEW k \in DOMAIN t.keys, NEW a \in 1 .. CellCount(t.keys[k]),
             NEW l \in DOMAIN t.keys, NEW b \in 1 .. CellCount(t.keys[l])
      PROVE  \/ k = l /\ a = b
             \/ begin(k, a) + w(k) <= begin(l, b)
             \/ begin(l, b) + w(l) <= begin(k, a)
  BY DEF CellsApart
<1>4. ASSUME NEW c \in S
      PROVE  /\ c[1] \in Nat /\ c[2] \in DOMAIN Width /\ c[1] + Width[c[2]] <= t.stride
             /\ c[2] \in CellTypes /\ InRange(c[2], c[3])
  <2>0. PICK k \in DOMAIN t.keys : \E a \in 1 .. CellCount(t.keys[k]) :
          c = <<begin(k, a), t.keys[k].type, CellValue(t.keys[k], t.rows[r][k], a)>>
    BY CellRule
  <2>1. PICK a \in 1 .. CellCount(t.keys[k]) :
          c = <<begin(k, a), t.keys[k].type, CellValue(t.keys[k], t.rows[r][k], a)>>
    BY <2>0
  <2>2. c[1] = begin(k, a) /\ c[2] = t.keys[k].type
        /\ c[3] = CellValue(t.keys[k], t.rows[r][k], a)
    BY <2>1
  <2>. HIDE DEF begin
  <2>. QED
    BY <1>1, <1>2, <2>2
<1>5. ASSUME NEW c \in S, NEW d \in S, NEW i \in 1 .. t.stride, Covers(c, i), Covers(d, i)
      PROVE  c = d
  <2>0. PICK k \in DOMAIN t.keys : \E a \in 1 .. CellCount(t.keys[k]) :
          c = <<begin(k, a), t.keys[k].type, CellValue(t.keys[k], t.rows[r][k], a)>>
    BY CellRule
  <2>1. PICK a \in 1 .. CellCount(t.keys[k]) :
          c = <<begin(k, a), t.keys[k].type, CellValue(t.keys[k], t.rows[r][k], a)>>
    BY <2>0
  <2>10. PICK l \in DOMAIN t.keys : \E b \in 1 .. CellCount(t.keys[l]) :
          d = <<begin(l, b), t.keys[l].type, CellValue(t.keys[l], t.rows[r][l], b)>>
    BY CellRule
  <2>2. PICK b \in 1 .. CellCount(t.keys[l]) :
          d = <<begin(l, b), t.keys[l].type, CellValue(t.keys[l], t.rows[r][l], b)>>
    BY <2>10
  <2>3. i - begin(k, a) \in 1 .. w(k) /\ i - begin(l, b) \in 1 .. w(l)
    BY <1>5, <2>1, <2>2 DEF Covers
  <2>4. begin(k, a) \in Nat /\ begin(l, b) \in Nat /\ w(k) \in 1 .. 4 /\ w(l) \in 1 .. 4
    BY <1>1
  <2>. HIDE DEF begin, w
  <2>5. ~(begin(k, a) + w(k) <= begin(l, b)) /\ ~(begin(l, b) + w(l) <= begin(k, a))
    BY <2>3, <2>4
  <2>6. k = l /\ a = b
    BY <1>3, <2>5
  <2>. QED
    BY <2>1, <2>2, <2>6
<1>6. t.stride \in Nat
  BY DEF PlainTable
<1>. HIDE DEF S
<1>7. Apart(S, t.stride)
  BY <1>4, <1>5, <1>6 DEF Apart
<1>. QED
  BY <1>4, <1>7 DEF S

(***************************************************************************)
(* A row in which every cell is ready.                                     *)
(***************************************************************************)
ReadyAs(S, coded) == [c \in S |-> Ready(c[2], c[3], coded)]

ReadyRow(t, row) ==
  Paint(CellsOfRow(t, row), t.stride, ReadyAs(CellsOfRow(t, row), t.coded))

LEMMA FilledReady ==
  ASSUME NEW S, \A c \in S : c[2] \in DOMAIN Width /\ InRange(c[2], c[3]), NEW coded
  PROVE  Filled(S, ReadyAs(S, coded)) /\ Filled(S, StoredAs(S))
<1>1. ASSUME NEW c \in S
      PROVE  /\ ReadyAs(S, coded)[c] \in [1 .. Width[c[2]] -> Int]
             /\ StoredAs(S)[c] \in [1 .. Width[c[2]] -> Int]
  <2>1. ReadyAs(S, coded)[c] = Ready(c[2], c[3], coded)
    BY DEF ReadyAs
  <2>2. StoredAs(S)[c] = StoredCell(c[2], c[3])
    BY DEF StoredAs
  <2>. QED
    BY <2>1, <2>2, ReadyType, StoredCellType
<1>. QED
  BY <1>1 DEF Filled

(* The keys of a table, all of them processed.                             *)
ReadyKeys(t) == [k \in DOMAIN t.keys |-> ReadyKey(t.keys[k])]
BasesKnown(t) == \A k \in DOMAIN t.keys : t.keys[k].base \in DOMAIN Fields
Typed(t) == \A k \in DOMAIN t.keys : t.keys[k].base = "Flag" \/ t.keys[k].type \in CellTypes

(* The cells that ProcessClass goes over are those of the key.             *)
LEMMA CellsOfReady ==
  ASSUME NEW k, FieldsHold(k), k.base \in DOMAIN Fields,
         k.base = "Flag" \/ k.type \in CellTypes, NEW d
  PROVE  d \in CellsOf(ReadyKey(k)) <=>
           \E a \in 1 .. CellCount(k) : d = <<CellOffset(k, a), k.type>>
<1>1. k.base = "Default" \/ k.base = "Array" \/ k.base = "Flag"
  BY FieldsRule
<1>2. CASE k.base = "Default"
  <2>1. CellsOf(ReadyKey(k)) = {<<k.offset, k.type>>}
    BY <1>2, ReadyKeyRule DEF CellsOf
  <2>2. CellCount(k) = 1
    BY <1>2 DEF CellCount
  <2>3. CellOffset(k, 1) = k.offset
    <3>1. k.offset \in 0 .. Place[2] - 1 /\ Place[2] \in Nat
      BY PlaceRule DEF FieldsHold
    <3>2. Width[k.type] \in 1 .. 4
      BY <1>2, WidthRule
    <3>3. (1 - 1) * Width[k.type] = 0
      BY <3>2
    <3>. QED
      BY <3>1, <3>3 DEF CellOffset
  <2>. QED
    BY <2>1, <2>2, <2>3
<1>3. CASE k.base = "Array"
  <2>1. CellsOf(ReadyKey(k)) = {<<CellOffset(k, a), k.type>> : a \in 1 .. k.items}
    BY <1>3, ReadyKeyRule DEF CellsOf, CellOffset
  <2>2. CellCount(k) = k.items
    BY <1>3 DEF CellCount
  <2>. QED
    BY <2>1, <2>2
<1>4. CASE k.base = "Flag"
  <2>1. CellsOf(ReadyKey(k)) = {}
    BY <1>4, ReadyKeyRule DEF CellsOf
  <2>2. CellCount(k) = 0
    BY <1>4 DEF CellCount
  <2>. QED
    BY <2>1, <2>2
<1>. QED
  BY <1>1, <1>2, <1>3, <1>4

PairsOf(t) == UNION {CellsOf(ReadyKeys(t)[k]) : k \in DOMAIN ReadyKeys(t)}

LEMMA PairsRule ==
  ASSUME NEW t, PlainTable(t), BasesKnown(t), Typed(t), NEW row
  PROVE  PairsOf(t) = {<<c[1], c[2]>> : c \in CellsOfRow(t, row)}
<1>1. ASSUME NEW k \in DOMAIN t.keys, NEW d
      PROVE  d \in CellsOf(ReadyKey(t.keys[k])) <=>
               \E a \in 1 .. CellCount(t.keys[k]) :
                 d = <<CellOffset(t.keys[k], a), t.keys[k].type>>
  <2>1. FieldsHold(t.keys[k])
    BY PlainFields
  <2>. QED
    BY <2>1, CellsOfReady DEF BasesKnown, Typed
<1>2. DOMAIN ReadyKeys(t) = DOMAIN t.keys
      /\ \A k \in DOMAIN t.keys : ReadyKeys(t)[k] = ReadyKey(t.keys[k])
  BY DEF ReadyKeys
<1>3. ASSUME NEW d
      PROVE  d \in PairsOf(t) <=>
               \E k \in DOMAIN t.keys : \E a \in 1 .. CellCount(t.keys[k]) :
                 d = <<CellOffset(t.keys[k], a), t.keys[k].type>>
  <2>1. d \in PairsOf(t) <=> \E k \in DOMAIN t.keys : d \in CellsOf(ReadyKey(t.keys[k]))
    BY <1>2 DEF PairsOf
  <2>. QED
    BY <1>1, <2>1
<1>4. ASSUME NEW d \in PairsOf(t)
      PROVE  \E c \in CellsOfRow(t, row) : d = <<c[1], c[2]>>
  <2>1. PICK k \in DOMAIN t.keys : \E a \in 1 .. CellCount(t.keys[k]) :
          d = <<CellOffset(t.keys[k], a), t.keys[k].type>>
    BY <1>3
  <2>2. PICK a \in 1 .. CellCount(t.keys[k]) : d = <<CellOffset(t.keys[k], a), t.keys[k].type>>
    BY <2>1
  <2>. DEFINE c == <<CellOffset(t.keys[k], a), t.keys[k].type, CellValue(t.keys[k], row[k], a)>>
  <2>3. c \in CellsOfRow(t, row)
    BY CellRule
  <2>4. d = <<c[1], c[2]>>
    BY <2>2
  <2>. QED
    BY <2>3, <2>4
<1>5. ASSUME NEW c \in CellsOfRow(t, row) PROVE <<c[1], c[2]>> \in PairsOf(t)
  <2>1. PICK k \in DOMAIN t.keys : \E a \in 1 .. CellCount(t.keys[k]) :
          c = <<CellOffset(t.keys[k], a), t.keys[k].type, CellValue(t.keys[k], row[k], a)>>
    BY CellRule
  <2>2. PICK a \in 1 .. CellCount(t.keys[k]) :
          c = <<CellOffset(t.keys[k], a), t.keys[k].type, CellValue(t.keys[k], row[k], a)>>
    BY <2>1
  <2>3. <<c[1], c[2]>> = <<CellOffset(t.keys[k], a), t.keys[k].type>>
    BY <2>2
  <2>. QED
    BY <1>3, <2>3
<1>. QED
  BY <1>4, <1>5

(***************************************************************************)
(* ProcessClass makes every cell of a stored row ready, and no other byte  *)
(* is touched.                                                             *)
(***************************************************************************)
LEMMA ProcessedRowReady ==
  ASSUME PlainTable(Table), CellsApart(Table), BasesKnown(Table), Typed(Table),
         keys = ReadyKeys(Table), NEW r \in DOMAIN Table.rows
  PROVE  ProcessedRow(StoredRow(Table, Table.rows[r])) = ReadyRow(Table, Table.rows[r])
<1>1. PICK S : S = CellsOfRow(Table, Table.rows[r])
  OBVIOUS
<1>2. PICK n : n = Table.stride
  OBVIOUS
<1>3. PICK D : D = UNION {CellsOf(keys[k]) : k \in DOMAIN keys}
  OBVIOUS
<1>4. D = {<<c[1], c[2]>> : c \in S}
  BY <1>1, <1>3, PairsRule DEF PairsOf
<1>5. Apart(S, n) /\ \A c \in S : c[2] \in CellTypes /\ InRange(c[2], c[3])
  BY <1>1, <1>2, RowCells
<1>6. Filled(S, StoredAs(S))
  <2>1. \A c \in S : c[2] \in DOMAIN Width /\ InRange(c[2], c[3])
    BY <1>5, WidthRule
  <2>. QED
    BY <2>1, FilledReady
<1>7. PICK row \in [1 .. n -> Int] : row = Paint(S, n, StoredAs(S))
  BY <1>5, <1>6, PaintType
<1>8. StoredRow(Table, Table.rows[r]) = row
  BY <1>1, <1>2, <1>7, LaidPaint DEF StoredRow
<1>9. PICK G : G = ReadyAs(S, Table.coded)
  OBVIOUS
<1>10. ASSUME NEW c \in S
       PROVE  Processed(c[2], Cell(row, c[1], Width[c[2]])) = G[c]
  <2>1. Cell(row, c[1], Width[c[2]]) = StoredAs(S)[c]
    BY <1>5, <1>6, <1>7, PaintRead
  <2>2. StoredAs(S)[c] = StoredCell(c[2], c[3])
    BY DEF StoredAs
  <2>3. G[c] = Ready(c[2], c[3], Table.coded)
    BY <1>9 DEF ReadyAs
  <2>. QED
    BY <1>5, <2>1, <2>2, <2>3, ProcessedReady
<1>11. PICK out : out = ProcessedRow(row)
  OBVIOUS
<1>12. out = [i \in 1 .. n |->
               IF \E d \in D : Covers(d, i)
               THEN LET d == CHOOSE d \in D : Covers(d, i)
                    IN  Processed(d[2], Cell(row, d[1], Width[d[2]]))[i - d[1]]
               ELSE row[i]]
  <2>1. DOMAIN row = 1 .. n
    OBVIOUS
  <2>. QED
    BY <1>3, <1>11, <2>1 DEF ProcessedRow
<1>13. ASSUME NEW i \in 1 .. n, NEW c \in S, Covers(c, i)
       PROVE  out[i] = G[c][i - c[1]]
  <2>1. <<c[1], c[2]>> \in D /\ Covers(<<c[1], c[2]>>, i)
    BY <1>4, <1>13 DEF Covers
  <2>2. PICK d : d = CHOOSE x \in D : Covers(x, i)
    OBVIOUS
  <2>3. d \in D /\ Covers(d, i)
    BY <2>1, <2>2
  <2>4. PICK e \in S : d = <<e[1], e[2]>>
    BY <1>4, <2>3
  <2>5. Covers(e, i)
    BY <2>3, <2>4 DEF Covers
  <2>6. e = c
    BY <1>5, <1>13, <2>5 DEF Apart
  <2>7. out[i] = Processed(d[2], Cell(row, d[1], Width[d[2]]))[i - d[1]]
    BY <1>12, <2>2, <2>3
  <2>8. d[1] = c[1] /\ d[2] = c[2]
    BY <2>4, <2>6
  <2>. QED
    BY <1>10, <2>7, <2>8
<1>14. ASSUME NEW i \in 1 .. n, ~ \E c \in S : Covers(c, i)
       PROVE  out[i] = 0
  <2>1. ~ \E d \in D : Covers(d, i)
    <3>. SUFFICES ASSUME NEW d \in D, Covers(d, i) PROVE FALSE
      OBVIOUS
    <3>1. PICK e \in S : d = <<e[1], e[2]>>
      BY <1>4
    <3>2. Covers(e, i)
      BY <3>1 DEF Covers
    <3>. QED
      BY <1>14, <3>2
  <2>2. out[i] = row[i]
    BY <1>12, <2>1
  <2>3. row[i] = 0
    BY <1>7, <1>14, PaintOutside
  <2>. QED
    BY <2>2, <2>3
<1>15. out = [i \in 1 .. n |-> out[i]]
  BY <1>12
<1>16. out = Paint(S, n, G)
  <2>1. ASSUME NEW i \in 1 .. n PROVE out[i] = Paint(S, n, G)[i]
    <3>1. CASE \E c \in S : Covers(c, i)
      <4>1. PICK c \in S : Covers(c, i)
        BY <3>1
      <4>. QED
        BY <1>5, <1>13, <4>1, PaintAt
    <3>2. CASE ~ \E c \in S : Covers(c, i)
      BY <1>14, <3>2, PaintOutside
    <3>. QED
      BY <3>1, <3>2
  <2>2. Paint(S, n, G) = [i \in 1 .. n |-> Paint(S, n, G)[i]]
    BY PaintFunction
  <2>. QED
    BY <1>15, <2>1, <2>2
<1>. QED
  BY <1>1, <1>2, <1>8, <1>9, <1>11, <1>16 DEF ReadyRow

(***************************************************************************)
(* The columns of a V4 table.                                              *)
(***************************************************************************)
Room(type) == IF type \in DOMAIN Width THEN Width[type] ELSE 0

LEMMA RoomRule ==
  ASSUME NEW type
  PROVE  /\ Room(type) \in Nat
         /\ type \in DOMAIN Width => Room(type) = Width[type] /\ Room(type) \in 1 .. 4
  BY WidthRule DEF Room

EndRule(types, E, c) == IF c = 0 THEN 0 ELSE E[c - 1] + Room(types[c])

IsEnd(types, E, n) == E = [c \in 0 .. n |-> EndRule(types, E, c)]

(* Where so many columns end, the next one does too.                       *)
LEMMA EndGoesOn ==
  ASSUME NEW types, NEW n \in Nat, NEW E, IsEnd(types, E, n)
  PROVE  \E F : IsEnd(types, F, n + 1)
<1>. DEFINE F == [c \in 0 .. n + 1 |-> IF c <= n THEN E[c] ELSE EndRule(types, E, c)]
<1>1. E = [c \in 0 .. n |-> EndRule(types, E, c)]
  BY DEF IsEnd
<1>2. \A c \in 0 .. n : F[c] = E[c]
  OBVIOUS
<1>3. ASSUME NEW c \in 0 .. n + 1 PROVE F[c] = EndRule(types, F, c)
  <2>1. c # 0 => F[c - 1] = E[c - 1]
    <3>. SUFFICES ASSUME c # 0 PROVE F[c - 1] = E[c - 1]
      OBVIOUS
    <3>1. c - 1 \in 0 .. n
      OBVIOUS
    <3>. HIDE DEF F
    <3>. QED
      BY <1>2, <3>1
  <2>2. EndRule(types, F, c) = EndRule(types, E, c)
    <3>. HIDE DEF F
    <3>. QED
      BY <2>1 DEF EndRule
  <2>3. F[c] = EndRule(types, E, c)
    <3>1. CASE c <= n
      <4>1. c \in 0 .. n
        BY <3>1
      <4>. HIDE DEF F
      <4>. QED
        BY <1>1, <1>2, <4>1
    <3>2. CASE ~(c <= n)
      BY <3>2
    <3>. QED
      BY <3>1, <3>2
  <2>. QED
    BY <2>2, <2>3
<1>4. F = [c \in 0 .. n + 1 |-> F[c]]
  OBVIOUS
<1>5. IsEnd(types, F, n + 1)
  <2>. HIDE DEF F
  <2>. QED
    BY <1>3, <1>4 DEF IsEnd
<1>. QED
  BY <1>5

LEMMA EndExists ==
  ASSUME NEW types, NEW len \in Nat
  PROVE  \E E : IsEnd(types, E, len)
<1>. DEFINE Lacks == {n \in 0 .. len : ~ \E E : IsEnd(types, E, n)}
<1>1. \E E : IsEnd(types, E, 0)
  <2>. DEFINE E == [c \in 0 .. 0 |-> 0]
  <2>1. E = [c \in 0 .. 0 |-> EndRule(types, E, c)]
    BY DEF EndRule
  <2>. QED
    BY <2>1 DEF IsEnd
<1>2. Lacks = {}
  <2>. SUFFICES ASSUME Lacks # {} PROVE FALSE
    OBVIOUS
  <2>1. Lacks \subseteq Nat
    OBVIOUS
  <2>2. PICK n \in Lacks : \A m \in Lacks : n <= m
    <3>. HIDE DEF Lacks
    <3>. QED
      BY <2>1, SmallestMember
  <2>3. n \in 0 .. len /\ ~ \E E : IsEnd(types, E, n)
    BY <2>2
  <2>4. n # 0
    BY <1>1, <2>3
  <2>5. PICK m : m = n - 1
    OBVIOUS
  <2>6. m \in Nat /\ m < len /\ m + 1 = n /\ m \in 0 .. len /\ ~(n <= m)
    BY <2>3, <2>4, <2>5
  <2>7. m \notin Lacks
    BY <2>2, <2>6
  <2>8. PICK E : IsEnd(types, E, m)
    BY <2>6, <2>7
  <2>9. \E F : IsEnd(types, F, m + 1)
    BY <2>6, <2>8, EndGoesOn
  <2>. QED
    BY <2>3, <2>6, <2>9
<1>3. len \in 0 .. len
  OBVIOUS
<1>. QED
  BY <1>2, <1>3

(* Every column begins where the one before it ends.                       *)
LEMMA OffsetsRule ==
  ASSUME NEW types, Len(types) \in Nat
  PROVE  /\ Offsets(types)[0] = 0
         /\ \A c \in 1 .. Len(types) :
              Offsets(types)[c] = Offsets(types)[c - 1] + Room(types[c])
         /\ \A c \in 0 .. Len(types) : Offsets(types)[c] \in Nat
<1>. DEFINE E == Offsets(types)
<1>0. PICK n \in Nat : n = Len(types)
  OBVIOUS
<1>1. \E F : F = [c \in 0 .. n |-> EndRule(types, F, c)]
  BY EndExists DEF IsEnd
<1>2. E = CHOOSE F : F = [c \in 0 .. n |-> EndRule(types, F, c)]
  BY <1>0 DEF Offsets, EndRule, Room
<1>3. E = [c \in 0 .. n |-> EndRule(types, E, c)]
  <2>. HIDE DEF E
  <2>. QED
    BY <1>1, <1>2
<1>. HIDE DEF E
<1>4. \A c \in 0 .. n : E[c] = EndRule(types, E, c)
  BY <1>3
<1>5. E[0] = 0
  BY <1>4 DEF EndRule
<1>6. ASSUME NEW c \in 1 .. n PROVE E[c] = E[c - 1] + Room(types[c])
  BY <1>4 DEF EndRule
<1>. DEFINE Bad == {c \in 0 .. n : E[c] \notin Nat}
<1>7. Bad = {}
  <2>. SUFFICES ASSUME Bad # {} PROVE FALSE
    OBVIOUS
  <2>1. Bad \subseteq Nat
    OBVIOUS
  <2>2. PICK c \in Bad : \A d \in Bad : c <= d
    <3>. HIDE DEF Bad
    <3>. QED
      BY <2>1, SmallestMember
  <2>3. c # 0
    BY <1>5, <2>2
  <2>4. PICK d : d = c - 1
    OBVIOUS
  <2>5. c \in 1 .. n /\ d \in 0 .. n /\ ~(c <= d)
    BY <2>2, <2>3, <2>4
  <2>6. d \notin Bad
    BY <2>2, <2>5
  <2>7. E[d] \in Nat
    BY <2>5, <2>6
  <2>8. E[c] = E[d] + Room(types[c])
    BY <1>6, <2>4, <2>5
  <2>9. Room(types[c]) \in Nat
    BY RoomRule
  <2>10. E[c] \in Nat
    BY <2>7, <2>8, <2>9
  <2>. QED
    BY <2>2, <2>10
<1>8. \A c \in 0 .. n : E[c] \in Nat
  BY <1>7
<1>. QED
  BY <1>0, <1>5, <1>6, <1>8 DEF E

(* A later column ends later.                                              *)
LEMMA OffsetsGrow ==
  ASSUME NEW types, Len(types) \in Nat,
         NEW c \in 0 .. Len(types), NEW d \in 0 .. Len(types), c <= d
  PROVE  Offsets(types)[c] <= Offsets(types)[d]
<1>. DEFINE E == Offsets(types)
            Bad == {e \in 0 .. Len(types) : c <= e /\ ~(E[c] <= E[e])}
<1>1. \A e \in 1 .. Len(types) : E[e] = E[e - 1] + Room(types[e])
  BY OffsetsRule
<1>2. \A e \in 0 .. Len(types) : E[e] \in Nat
  BY OffsetsRule
<1>. HIDE DEF E
<1>3. Bad = {}
  <2>. SUFFICES ASSUME Bad # {} PROVE FALSE
    OBVIOUS
  <2>1. Bad \subseteq Nat
    OBVIOUS
  <2>2. PICK e \in Bad : \A f \in Bad : e <= f
    <3>. HIDE DEF Bad
    <3>. QED
      BY <2>1, SmallestMember
  <2>3. e \in 0 .. Len(types) /\ c <= e /\ ~(E[c] <= E[e])
    BY <2>2
  <2>4. PICK x \in Nat : x = E[c]
    BY <1>2
  <2>5. PICK y \in Nat : y = E[e]
    BY <1>2, <2>3
  <2>6. e # c
    BY <2>3, <2>4, <2>5
  <2>7. PICK f : f = e - 1
    OBVIOUS
  <2>8. e \in 1 .. Len(types) /\ f \in 0 .. Len(types) /\ c <= f /\ ~(e <= f)
    BY <2>3, <2>6, <2>7
  <2>9. E[c] <= E[f]
    BY <2>2, <2>8
  <2>10. PICK z \in Nat : z = E[f]
    BY <1>2, <2>8
  <2>11. E[e] = E[f] + Room(types[e])
    BY <1>1, <2>7, <2>8
  <2>12. PICK w \in Nat : w = Room(types[e])
    BY RoomRule
  <2>13. x <= z /\ y = z + w /\ ~(x <= y)
    BY <2>3, <2>4, <2>5, <2>9, <2>10, <2>11, <2>12
  <2>. QED
    BY <2>13
<1>4. d \notin Bad
  BY <1>3
<1>. QED
  BY <1>4 DEF E

LEMMA ColumnRule ==
  ASSUME NEW t, NEW row, NEW c
  PROVE  c \in CellsOfColumns(t, row) <=>
           \E d \in DOMAIN t.types :
             /\ t.types[d] \in DOMAIN Width
             /\ c = <<Offsets(t.types)[d - 1], t.types[d], row[d]>>
  BY DEF CellsOfColumns, ColumnOffset

(* Where a column that has a type is.                                      *)
LEMMA ColumnPlaced ==
  ASSUME NEW types, IsList(types), NEW d \in DOMAIN types, types[d] \in DOMAIN Width
  PROVE  /\ d \in 1 .. Len(types) /\ d - 1 \in 0 .. Len(types)
         /\ Offsets(types)[d - 1] \in Nat /\ Offsets(types)[d] \in Nat
         /\ Width[types[d]] \in 1 .. 4
         /\ Offsets(types)[d] = Offsets(types)[d - 1] + Width[types[d]]
<1>1. d \in 1 .. Len(types) /\ Len(types) \in Nat
  BY DEF IsList
<1>2. d - 1 \in 0 .. Len(types) /\ d \in 0 .. Len(types)
  BY <1>1
<1>3. Offsets(types)[d] = Offsets(types)[d - 1] + Room(types[d])
  BY <1>1, OffsetsRule
<1>4. Room(types[d]) = Width[types[d]] /\ Width[types[d]] \in 1 .. 4
  BY RoomRule, WidthRule
<1>5. Offsets(types)[d - 1] \in Nat /\ Offsets(types)[d] \in Nat
  BY <1>1, <1>2, OffsetsRule
<1>. QED
  BY <1>1, <1>2, <1>3, <1>4, <1>5

(* A column that is before another one ends before it begins.              *)
LEMMA ColumnBefore ==
  ASSUME NEW types, IsList(types),
         NEW d \in DOMAIN types, types[d] \in DOMAIN Width,
         NEW e \in DOMAIN types, types[e] \in DOMAIN Width, d < e
  PROVE  Offsets(types)[d - 1] + Width[types[d]] <= Offsets(types)[e - 1]
<1>1. Len(types) \in Nat /\ d \in 1 .. Len(types) /\ e \in 1 .. Len(types)
  BY DEF IsList
<1>2. d \in 0 .. Len(types) /\ e - 1 \in 0 .. Len(types) /\ d <= e - 1
  BY <1>1
<1>3. Offsets(types)[d] <= Offsets(types)[e - 1]
  BY <1>1, <1>2, OffsetsGrow
<1>4. Offsets(types)[d] = Offsets(types)[d - 1] + Width[types[d]]
  BY ColumnPlaced
<1>. QED
  BY <1>3, <1>4

RowEnd(t) == ColumnOffset(t.types, Len(t.types) + 1)

LEMMA RowEndRule ==
  ASSUME NEW t, IsList(t.types)
  PROVE  RowEnd(t) = Offsets(t.types)[Len(t.types)] /\ RowEnd(t) \in Nat
<1>1. PICK n \in Nat : n = Len(t.types)
  BY DEF IsList
<1>2. (n + 1) - 1 = n /\ n \in 0 .. n
  BY <1>1
<1>3. RowEnd(t) = Offsets(t.types)[n]
  BY <1>1, <1>2 DEF RowEnd, ColumnOffset
<1>4. Offsets(t.types)[n] \in Nat
  BY <1>1, <1>2, OffsetsRule
<1>. QED
  BY <1>1, <1>3, <1>4

(* The columns of a row do not overlap.                                    *)
LEMMA ColumnCells ==
  ASSUME NEW t, ColumnsHold(t), NEW r \in DOMAIN t.rows
  PROVE  /\ Apart(CellsOfColumns(t, t.rows[r]), RowEnd(t))
         /\ \A c \in CellsOfColumns(t, t.rows[r]) :
              c[2] \in DOMAIN Width /\ InRange(c[2], c[3])
<1>0. IsList(t.types)
  BY DEF ColumnsHold
<1>. DEFINE S == CellsOfColumns(t, t.rows[r])
            begin(d) == Offsets(t.types)[d - 1]
            w(d) == Width[t.types[d]]
<1>1. ASSUME NEW c \in S
      PROVE  \E d \in DOMAIN t.types :
               /\ t.types[d] \in DOMAIN Width
               /\ c = <<begin(d), t.types[d], t.rows[r][d]>>
               /\ c[1] = begin(d) /\ c[2] = t.types[d] /\ c[3] = t.rows[r][d]
  <2>1. PICK d \in DOMAIN t.types :
          /\ t.types[d] \in DOMAIN Width
          /\ c = <<begin(d), t.types[d], t.rows[r][d]>>
    BY ColumnRule
  <2>. QED
    BY <2>1
<1>2. ASSUME NEW d \in DOMAIN t.types, t.types[d] \in DOMAIN Width
      PROVE  begin(d) \in Nat /\ w(d) \in 1 .. 4 /\ begin(d) + w(d) <= RowEnd(t)
  <2>1. PICK n \in Nat : n = Len(t.types)
    BY <1>0 DEF IsList
  <2>2. d \in 1 .. n
    BY <1>0, <2>1 DEF IsList
  <2>3. d \in 0 .. n /\ n \in 0 .. n /\ d <= n
    BY <2>2
  <2>4. Offsets(t.types)[d] <= Offsets(t.types)[n]
    BY <2>1, <2>3, OffsetsGrow
  <2>5. RowEnd(t) = Offsets(t.types)[n]
    BY <1>0, <2>1, RowEndRule
  <2>6. begin(d) \in Nat /\ w(d) \in 1 .. 4 /\ Offsets(t.types)[d] = begin(d) + w(d)
    BY <1>0, <1>2, ColumnPlaced
  <2>. QED
    BY <2>4, <2>5, <2>6
<1>3. ASSUME NEW d \in DOMAIN t.types, t.types[d] \in DOMAIN Width
      PROVE  InRange(t.types[d], t.rows[r][d])
  BY <1>3 DEF ColumnsHold
<1>4. ASSUME NEW c \in S
      PROVE  /\ c[1] \in Nat /\ c[2] \in DOMAIN Width /\ c[1] + Width[c[2]] <= RowEnd(t)
             /\ InRange(c[2], c[3])
  <2>. HIDE DEF S
  <2>1. PICK d \in DOMAIN t.types :
               /\ t.types[d] \in DOMAIN Width
               /\ c[1] = begin(d) /\ c[2] = t.types[d] /\ c[3] = t.rows[r][d]
    BY <1>1
  <2>. QED
    BY <1>2, <1>3, <2>1
<1>5. ASSUME NEW c \in S, NEW d \in S, NEW i \in 1 .. RowEnd(t), Covers(c, i), Covers(d, i)
      PROVE  c = d
  <2>. HIDE DEF S
  <2>0. i \in Int
    BY <1>0, RowEndRule
  <2>1. PICK k \in DOMAIN t.types :
               /\ t.types[k] \in DOMAIN Width
               /\ c = <<begin(k), t.types[k], t.rows[r][k]>>
               /\ c[1] = begin(k) /\ c[2] = t.types[k]
    BY <1>1
  <2>2. PICK l \in DOMAIN t.types :
               /\ t.types[l] \in DOMAIN Width
               /\ d = <<begin(l), t.types[l], t.rows[r][l]>>
               /\ d[1] = begin(l) /\ d[2] = t.types[l]
    BY <1>1
  <2>3. i - begin(k) \in 1 .. w(k) /\ i - begin(l) \in 1 .. w(l)
    BY <1>5, <2>1, <2>2 DEF Covers
  <2>4. begin(k) \in Nat /\ w(k) \in 1 .. 4 /\ begin(l) \in Nat /\ w(l) \in 1 .. 4
    BY <1>2, <2>1, <2>2
  <2>5. k < l => begin(k) + w(k) <= begin(l)
    BY <1>0, <2>1, <2>2, ColumnBefore
  <2>6. l < k => begin(l) + w(l) <= begin(k)
    BY <1>0, <2>1, <2>2, ColumnBefore
  <2>7. ~(k < l) /\ ~(l < k)
    <3>. HIDE DEF begin, w
    <3>. QED
      BY <2>0, <2>3, <2>4, <2>5, <2>6
  <2>8. k \in Int /\ l \in Int
    BY <1>0 DEF IsList
  <2>9. k = l
    BY <2>7, <2>8
  <2>. QED
    BY <2>1, <2>2, <2>9
<1>6. RowEnd(t) \in Nat
  BY <1>0, RowEndRule
<1>7. Apart(S, RowEnd(t))
  <2>. HIDE DEF S
  <2>. QED
    BY <1>4, <1>5, <1>6 DEF Apart
<1>. QED
  BY <1>4, <1>7 DEF S

(* A row whose first m columns are ready.                                  *)
ReadyTo(t, row, m) ==
  [c \in CellsOfColumns(t, row) |->
    IF c[1] < Offsets(t.types)[m] THEN Ready(c[2], c[3], FALSE) ELSE StoredCell(c[2], c[3])]

ReadyColumns(t, row, m) == Paint(CellsOfColumns(t, row), RowEnd(t), ReadyTo(t, row, m))

LEMMA FilledTo ==
  ASSUME NEW t, ColumnsHold(t), NEW r \in DOMAIN t.rows, NEW m
  PROVE  Filled(CellsOfColumns(t, t.rows[r]), ReadyTo(t, t.rows[r], m))
<1>. DEFINE S == CellsOfColumns(t, t.rows[r])
<1>1. ASSUME NEW c \in S PROVE ReadyTo(t, t.rows[r], m)[c] \in [1 .. Width[c[2]] -> Int]
  <2>1. c[2] \in DOMAIN Width /\ InRange(c[2], c[3])
    BY ColumnCells
  <2>2. /\ Ready(c[2], c[3], FALSE) \in [1 .. Width[c[2]] -> Int]
        /\ StoredCell(c[2], c[3]) \in [1 .. Width[c[2]] -> Int]
    BY <2>1, ReadyType, StoredCellType
  <2>3. \/ ReadyTo(t, t.rows[r], m)[c] = Ready(c[2], c[3], FALSE)
        \/ ReadyTo(t, t.rows[r], m)[c] = StoredCell(c[2], c[3])
    BY DEF ReadyTo
  <2>. QED
    BY <2>2, <2>3
<1>. QED
  BY <1>1 DEF Filled

(* A row as it is in the file has no column ready.                         *)
LEMMA ReadyNone ==
  ASSUME NEW t, ColumnsHold(t), NEW r \in DOMAIN t.rows
  PROVE  StoredColumns(t, t.rows[r]) = ReadyColumns(t, t.rows[r], 0)
<1>. DEFINE S == CellsOfColumns(t, t.rows[r])
<1>1. StoredColumns(t, t.rows[r]) = Paint(S, RowEnd(t), StoredAs(S))
  BY LaidPaint DEF StoredColumns, RowEnd
<1>2. Offsets(t.types)[0] = 0
  BY OffsetsRule DEF ColumnsHold, IsList
<1>3. ASSUME NEW c \in S PROVE StoredAs(S)[c] = ReadyTo(t, t.rows[r], 0)[c]
  <2>1. c[1] \in Nat
    BY ColumnCells DEF Apart
  <2>2. ~(c[1] < Offsets(t.types)[0])
    BY <1>2, <2>1
  <2>3. StoredAs(S)[c] = StoredCell(c[2], c[3])
    BY DEF StoredAs
  <2>4. ReadyTo(t, t.rows[r], 0)[c] = StoredCell(c[2], c[3])
    BY <2>2 DEF ReadyTo
  <2>. QED
    BY <2>3, <2>4
<1>4. StoredAs(S) = ReadyTo(t, t.rows[r], 0)
  <2>1. /\ StoredAs(S) = [c \in S |-> StoredAs(S)[c]]
        /\ ReadyTo(t, t.rows[r], 0) = [c \in S |-> ReadyTo(t, t.rows[r], 0)[c]]
    BY DEF StoredAs, ReadyTo
  <2>. QED
    BY <1>3, <2>1
<1>. QED
  BY <1>1, <1>4 DEF ReadyColumns

(* A row all of whose columns have been passed is ready.                   *)
LEMMA ReadyAll ==
  ASSUME NEW t, ColumnsHold(t), NEW r \in DOMAIN t.rows
  PROVE  ReadyColumns(t, t.rows[r], Len(t.types)) =
           Paint(CellsOfColumns(t, t.rows[r]), RowEnd(t),
                 ReadyAs(CellsOfColumns(t, t.rows[r]), FALSE))
<1>. DEFINE S == CellsOfColumns(t, t.rows[r])
            n == Len(t.types)
<1>1. RowEnd(t) = Offsets(t.types)[n] /\ RowEnd(t) \in Nat
  BY RowEndRule DEF ColumnsHold
<1>2. ASSUME NEW c \in S PROVE ReadyTo(t, t.rows[r], n)[c] = ReadyAs(S, FALSE)[c]
  <2>1. c[1] \in Nat /\ c[2] \in DOMAIN Width /\ c[1] + Width[c[2]] <= RowEnd(t)
    BY ColumnCells DEF Apart
  <2>2. Width[c[2]] \in 1 .. 4
    BY <2>1, WidthRule
  <2>3. c[1] < Offsets(t.types)[n]
    BY <1>1, <2>1, <2>2
  <2>. QED
    BY <2>3 DEF ReadyAs, ReadyTo
<1>3. ReadyAs(S, FALSE) = ReadyTo(t, t.rows[r], n)
  <2>1. /\ ReadyAs(S, FALSE) = [c \in S |-> ReadyAs(S, FALSE)[c]]
        /\ ReadyTo(t, t.rows[r], n) = [c \in S |-> ReadyTo(t, t.rows[r], n)[c]]
    BY DEF ReadyAs, ReadyTo
  <2>. QED
    BY <1>2, <2>1
<1>. QED
  BY <1>3 DEF ReadyColumns

(* In a little-endian file only the pointers are not ready.                *)
LEMMA StoredPlain ==
  ASSUME ~job.big, NEW type, NEW value
  PROVE  /\ StoredCell(type, value) = Bytes(value, Width[type])
         /\ type # "StringPtr" => StoredCell(type, value) = Ready(type, value, FALSE)
<1>1. StoredCell(type, value) = Bytes(value, Width[type])
  BY DEF StoredCell, Swapped
<1>2. type # "StringPtr" => Ready(type, value, FALSE) = Bytes(value, Width[type])
  BY DEF Ready
<1>. QED
  BY <1>1, <1>2

(* The cell of the next column is the only one to become ready.            *)
LEMMA NextColumn ==
  ASSUME NEW t, ColumnsHold(t), NEW row, NEW m \in 0 .. Len(t.types) - 1,
         m + 1 \in DOMAIN t.types, t.types[m + 1] \in DOMAIN Width,
         NEW e \in CellsOfColumns(t, row)
  PROVE  \/ /\ e = <<Offsets(t.types)[m], t.types[m + 1], row[m + 1]>>
            /\ ~(e[1] < Offsets(t.types)[m]) /\ e[1] < Offsets(t.types)[m + 1]
         \/ e[1] < Offsets(t.types)[m] /\ e[1] < Offsets(t.types)[m + 1]
         \/ ~(e[1] < Offsets(t.types)[m]) /\ ~(e[1] < Offsets(t.types)[m + 1])
<1>0. IsList(t.types)
  BY DEF ColumnsHold
<1>1. Len(t.types) \in Nat /\ m \in Nat /\ (m + 1) - 1 = m
  BY <1>0 DEF IsList
<1>2. PICK d \in DOMAIN t.types :
        /\ t.types[d] \in DOMAIN Width
        /\ e = <<Offsets(t.types)[d - 1], t.types[d], row[d]>>
  BY ColumnRule
<1>3. e[1] = Offsets(t.types)[d - 1]
  BY <1>2
<1>4. PICK x \in Nat : x = Offsets(t.types)[m]
  <2>1. m \in 0 .. Len(t.types)
    BY <1>1
  <2>. QED
    BY <1>1, <2>1, OffsetsRule
<1>5. PICK w \in 1 .. 4 : w = Width[t.types[m + 1]]
  BY WidthRule
<1>6. Offsets(t.types)[m + 1] = x + w
  <2>1. PICK k : k = m + 1
    OBVIOUS
  <2>2. Offsets(t.types)[k] = Offsets(t.types)[k - 1] + Width[t.types[k]]
    BY <1>0, <2>1, ColumnPlaced
  <2>. QED
    BY <1>1, <1>4, <1>5, <2>1, <2>2
<1>7. PICK y \in Nat : y = Offsets(t.types)[d - 1]
  BY <1>0, <1>2, ColumnPlaced
<1>8. PICK v \in 1 .. 4 : v = Width[t.types[d]]
  BY <1>2, WidthRule
<1>9. d \in Nat
  BY <1>0 DEF IsList
<1>10. CASE d = m + 1
  <2>1. y = x
    BY <1>1, <1>4, <1>7, <1>10
  <2>2. e = <<Offsets(t.types)[m], t.types[m + 1], row[m + 1]>>
    BY <1>1, <1>2, <1>10
  <2>. QED
    BY <1>3, <1>4, <1>5, <1>6, <1>7, <2>1, <2>2
<1>11. CASE d < m + 1
  <2>1. PICK k : k = m + 1
    OBVIOUS
  <2>2. Offsets(t.types)[d - 1] + Width[t.types[d]] <= Offsets(t.types)[k - 1]
    BY <1>0, <1>2, <1>11, <2>1, ColumnBefore
  <2>3. y + v <= x
    BY <1>1, <1>4, <1>7, <1>8, <2>1, <2>2
  <2>4. y < x /\ y < x + w
    BY <2>3
  <2>5. e[1] < Offsets(t.types)[m] /\ e[1] < Offsets(t.types)[m + 1]
    BY <1>3, <1>4, <1>6, <1>7, <2>4
  <2>. QED
    BY <2>5
<1>12. CASE m + 1 < d
  <2>1. PICK k : k = m + 1
    OBVIOUS
  <2>2. Offsets(t.types)[k - 1] + Width[t.types[k]] <= Offsets(t.types)[d - 1]
    BY <1>0, <1>2, <1>12, <2>1, ColumnBefore
  <2>3. x + w <= y
    BY <1>1, <1>4, <1>5, <1>7, <2>1, <2>2
  <2>. QED
    BY <1>3, <1>4, <1>5, <1>6, <1>7, <2>3, SMTT(20)
<1>. QED
  BY <1>1, <1>9, <1>10, <1>11, <1>12

(* A column of numbers is ready as it is.                                  *)
LEMMA NumbersFixed ==
  ASSUME NEW t, ColumnsHold(t), ~job.big, NEW r \in DOMAIN t.rows,
         NEW m \in 0 .. Len(t.types) - 1,
         m + 1 \in DOMAIN t.types, t.types[m + 1] \in DOMAIN Width,
         t.types[m + 1] # "StringPtr"
  PROVE  ReadyColumns(t, t.rows[r], m) = ReadyColumns(t, t.rows[r], m + 1)
<1>. DEFINE S == CellsOfColumns(t, t.rows[r])
<1>1. ASSUME NEW c \in S
      PROVE  ReadyTo(t, t.rows[r], m)[c] = ReadyTo(t, t.rows[r], m + 1)[c]
  <2>1. CASE c[1] < Offsets(t.types)[m] /\ c[1] < Offsets(t.types)[m + 1]
    BY <2>1 DEF ReadyTo
  <2>2. CASE ~(c[1] < Offsets(t.types)[m]) /\ ~(c[1] < Offsets(t.types)[m + 1])
    BY <2>2 DEF ReadyTo
  <2>3. CASE /\ c = <<Offsets(t.types)[m], t.types[m + 1], t.rows[r][m + 1]>>
             /\ ~(c[1] < Offsets(t.types)[m]) /\ c[1] < Offsets(t.types)[m + 1]
    <3>1. c[2] # "StringPtr"
      BY <2>3
    <3>2. StoredCell(c[2], c[3]) = Ready(c[2], c[3], FALSE)
      BY <3>1, StoredPlain
    <3>3. ReadyTo(t, t.rows[r], m)[c] = StoredCell(c[2], c[3])
      BY <2>3 DEF ReadyTo
    <3>4. ReadyTo(t, t.rows[r], m + 1)[c] = Ready(c[2], c[3], FALSE)
      BY <2>3 DEF ReadyTo
    <3>. QED
      BY <3>2, <3>3, <3>4
  <2>. QED
    BY <2>1, <2>2, <2>3, NextColumn
<1>2. /\ ReadyTo(t, t.rows[r], m) = [c \in S |-> ReadyTo(t, t.rows[r], m)[c]]
      /\ ReadyTo(t, t.rows[r], m + 1) = [c \in S |-> ReadyTo(t, t.rows[r], m + 1)[c]]
  BY DEF ReadyTo
<1>3. ReadyTo(t, t.rows[r], m) = ReadyTo(t, t.rows[r], m + 1)
  BY <1>1, <1>2
<1>. QED
  BY <1>3 DEF ReadyColumns

(* A column of strings is, when its pointers have been fixed up.           *)
LEMMA StringsFixed ==
  ASSUME NEW t, ColumnsHold(t), ~job.big, NEW r \in DOMAIN t.rows,
         NEW m \in 0 .. Len(t.types) - 1,
         m + 1 \in DOMAIN t.types, t.types[m + 1] = "StringPtr",
         NEW R, R = ReadyColumns(t, t.rows[r], m),
         NEW c, c = <<ColumnOffset(t.types, m + 1), "StringPtr">>
  PROVE  [i \in DOMAIN R |->
           IF Covers(c, i) THEN PointerTo(Number(Cell(R, c[1], 4)))[i - c[1]] ELSE R[i]]
           = ReadyColumns(t, t.rows[r], m + 1)
<1>1. PICK S : S = CellsOfColumns(t, t.rows[r])
  OBVIOUS
<1>2. PICK n : n = RowEnd(t)
  OBVIOUS
<1>3. PICK F : F = ReadyTo(t, t.rows[r], m)
  OBVIOUS
<1>4. PICK G : G = ReadyTo(t, t.rows[r], m + 1)
  OBVIOUS
<1>5. Apart(S, n) /\ (\A d \in S : d[2] \in DOMAIN Width /\ InRange(d[2], d[3]))
  BY <1>1, <1>2, ColumnCells, WidthRule
<1>6. Filled(S, F)
  BY <1>1, <1>3, FilledTo
<1>7. R = Paint(S, n, F) /\ R \in [1 .. n -> Int]
  BY <1>1, <1>2, <1>3, <1>5, <1>6, PaintType DEF ReadyColumns
<1>8. PICK e : e = <<Offsets(t.types)[m], "StringPtr", t.rows[r][m + 1]>>
  OBVIOUS
<1>9. "StringPtr" \in DOMAIN Width /\ Width["StringPtr"] = 4
  BY WidthRule DEF CellTypes
<1>10. m \in Nat /\ (m + 1) - 1 = m
  BY DEF ColumnsHold, IsList
<1>11. e \in S
  <2>1. PICK k : k = m + 1
    OBVIOUS
  <2>2. e = <<Offsets(t.types)[k - 1], t.types[k], t.rows[r][k]>>
    BY <1>8, <1>10, <2>1
  <2>. QED
    BY <1>1, <1>9, <2>1, <2>2, ColumnRule
<1>12. e[1] = c[1] /\ e[2] = "StringPtr" /\ c[2] = "StringPtr"
  BY <1>8, <1>10 DEF ColumnOffset
<1>13. PICK o \in Nat : o = Offsets(t.types)[m]
  <2>1. m \in 0 .. Len(t.types) /\ Len(t.types) \in Nat
    BY DEF ColumnsHold, IsList
  <2>. QED
    BY <2>1, OffsetsRule
<1>14. ~(e[1] < Offsets(t.types)[m]) /\ e[1] < Offsets(t.types)[m + 1]
  <2>1. PICK k : k = m + 1
    OBVIOUS
  <2>2. Offsets(t.types)[k] = Offsets(t.types)[k - 1] + Width[t.types[k]]
    BY <1>9, <2>1, ColumnPlaced DEF ColumnsHold
  <2>3. Offsets(t.types)[k] = o + 4
    BY <1>9, <1>10, <1>13, <2>1, <2>2
  <2>4. e[1] = o
    BY <1>8, <1>13
  <2>. QED
    BY <1>13, <2>1, <2>3, <2>4
<1>15. G[e] = PointerTo(e[3])
  <2>1. G[e] = Ready(e[2], e[3], FALSE)
    BY <1>1, <1>4, <1>11, <1>14 DEF ReadyTo
  <2>. QED
    BY <1>12, <2>1 DEF Ready
<1>16. Number(Cell(R, c[1], 4)) = e[3]
  <2>1. Cell(R, e[1], Width[e[2]]) = F[e]
    BY <1>5, <1>6, <1>7, <1>11, PaintRead
  <2>2. F[e] = StoredCell(e[2], e[3])
    BY <1>1, <1>3, <1>11, <1>14 DEF ReadyTo
  <2>3. StoredCell(e[2], e[3]) = Bytes(e[3], Width[e[2]])
    BY StoredPlain
  <2>4. InRange(e[2], e[3])
    BY <1>5, <1>11
  <2>5. Number(Bytes(e[3], Width[e[2]])) = e[3]
    BY <1>9, <1>12, <2>4, NumberInRange DEF Whole
  <2>. QED
    BY <1>9, <1>12, <2>1, <2>2, <2>3, <2>5
<1>17. ASSUME NEW d \in S, d # e PROVE G[d] = F[d]
  <2>1. \/ d[1] < Offsets(t.types)[m] /\ d[1] < Offsets(t.types)[m + 1]
        \/ ~(d[1] < Offsets(t.types)[m]) /\ ~(d[1] < Offsets(t.types)[m + 1])
    BY <1>1, <1>8, <1>9, <1>17, NextColumn
  <2>. QED
    BY <1>1, <1>3, <1>4, <2>1 DEF ReadyTo
<1>18. PICK out : out = [i \in DOMAIN R |->
         IF Covers(c, i) THEN PointerTo(Number(Cell(R, c[1], 4)))[i - c[1]] ELSE R[i]]
  OBVIOUS
<1>19. \A i \in 1 .. n : Covers(c, i) <=> Covers(e, i)
  BY <1>12 DEF Covers
<1>20. DOMAIN R = 1 .. n
  BY <1>7
<1>21. ASSUME NEW i \in 1 .. n PROVE out[i] = Paint(S, n, G)[i]
  <2>1. CASE Covers(e, i)
    <3>1. out[i] = PointerTo(e[3])[i - e[1]]
      BY <1>12, <1>16, <1>18, <1>19, <1>20, <2>1
    <3>2. Paint(S, n, G)[i] = G[e][i - e[1]]
      BY <1>5, <1>11, <2>1, PaintAt
    <3>. QED
      BY <1>15, <3>1, <3>2
  <2>2. CASE ~Covers(e, i)
    <3>0. out[i] = R[i]
      BY <1>18, <1>19, <1>20, <2>2
    <3>1. CASE \E d \in S : Covers(d, i)
      <4>1. PICK d \in S : Covers(d, i)
        BY <3>1
      <4>2. d # e
        BY <2>2, <4>1
      <4>3. Apart(S, n)
        BY <1>5
      <4>4. Paint(S, n, F)[i] = F[d][i - d[1]]
        BY <4>1, <4>3, PaintAt
      <4>5. Paint(S, n, G)[i] = G[d][i - d[1]]
        BY <4>1, <4>3, PaintAt
      <4>. QED
        BY <1>7, <1>17, <3>0, <4>2, <4>4, <4>5
    <3>2. CASE ~ \E d \in S : Covers(d, i)
      BY <1>7, <3>0, <3>2, PaintOutside
    <3>. QED
      BY <3>1, <3>2
  <2>. QED
    BY <2>1, <2>2
<1>22. out = [i \in 1 .. n |-> out[i]]
  BY <1>18, <1>20
<1>23. Paint(S, n, G) = [i \in 1 .. n |-> Paint(S, n, G)[i]]
  BY PaintFunction
<1>24. out = Paint(S, n, G)
  BY <1>21, <1>22, <1>23
<1>. QED
  BY <1>1, <1>2, <1>4, <1>18, <1>24 DEF ReadyColumns

(***************************************************************************)
(* What is read of a table that is ready.                                  *)
(***************************************************************************)
ColumnsTo(t, m) == [r \in DOMAIN t.rows |-> ReadyColumns(t, t.rows[r], m)]

Loaded4(l, t) ==
  /\ l.strings = t.strings
  /\ l.keys = t.types
  /\ l.rows = ColumnsTo(t, Len(t.types))
  /\ \A c \in DOMAIN t.types : t.types[c] \in DOMAIN Width

(* A row of a V4 table is read as what it says.                            *)
ArraySays(t, row) == [c \in DOMAIN t.types |-> Says(t.types[c], row[c], t.strings, FALSE)]

LEMMA ArrayReads ==
  ASSUME NEW l, NEW t, Loaded4(l, t), ColumnsHold(t), NEW r \in DOMAIN t.rows
  PROVE  RowArray(l, l.rows[r]) = ArraySays(t, t.rows[r])
<1>1. PICK S : S = CellsOfColumns(t, t.rows[r])
  OBVIOUS
<1>2. PICK n : n = RowEnd(t)
  OBVIOUS
<1>3. PICK G : G = ReadyAs(S, FALSE)
  OBVIOUS
<1>4. PICK R : R = l.rows[r]
  OBVIOUS
<1>5. R = Paint(S, n, G)
  <2>1. R = ReadyColumns(t, t.rows[r], Len(t.types))
    BY <1>4 DEF Loaded4, ColumnsTo
  <2>. QED
    BY <1>1, <1>2, <1>3, <2>1, ReadyAll
<1>6. Apart(S, n) /\ (\A d \in S : d[2] \in DOMAIN Width /\ InRange(d[2], d[3]))
  BY <1>1, <1>2, ColumnCells
<1>7. Filled(S, G)
  BY <1>3, <1>6, FilledReady
<1>8. l.keys = t.types /\ l.strings = t.strings
      /\ \A c \in DOMAIN t.types : t.types[c] \in DOMAIN Width
  BY DEF Loaded4
<1>9. ASSUME NEW c \in DOMAIN t.types
      PROVE  Value(t.types[c], Cell(R, ColumnOffset(t.types, c), Width[t.types[c]]), t.strings)
               = Says(t.types[c], t.rows[r][c], t.strings, FALSE)
  <2>1. PICK d : d = <<Offsets(t.types)[c - 1], t.types[c], t.rows[r][c]>>
    OBVIOUS
  <2>2. d \in S
    BY <1>1, <1>8, <2>1, ColumnRule
  <2>3. d[1] = ColumnOffset(t.types, c) /\ d[2] = t.types[c] /\ d[3] = t.rows[r][c]
    BY <2>1 DEF ColumnOffset
  <2>4. Cell(R, d[1], Width[d[2]]) = G[d]
    BY <1>5, <1>6, <1>7, <2>2, PaintRead
  <2>5. G[d] = Ready(d[2], d[3], FALSE)
    BY <1>3, <2>2 DEF ReadyAs
  <2>6. Value(d[2], Ready(d[2], d[3], FALSE), t.strings) = Says(d[2], d[3], t.strings, FALSE)
    BY <1>6, <2>2, ValueReady
  <2>. QED
    BY <2>3, <2>4, <2>5, <2>6
<1>10. RowArray(l, R) =
         [c \in DOMAIN t.types |->
           Value(t.types[c], Cell(R, ColumnOffset(t.types, c), Width[t.types[c]]), t.strings)]
  BY <1>8 DEF RowArray
<1>. QED
  BY <1>4, <1>9, <1>10 DEF ArraySays

Loaded1(l, t) ==
  /\ l.names = t.names
  /\ l.strings = t.strings
  /\ l.keys = ReadyKeys(t)
  /\ l.rows = [r \in DOMAIN t.rows |-> ReadyRow(t, t.rows[r])]
  /\ BasesKnown(t)
  /\ DOMAIN t.rows # {} => Typed(t)

(* The Flag keys of key k, by the description.                             *)
SaysFlagsOf(t, k) == {f \in DOMAIN t.keys : t.keys[f].base = "Flag" /\ t.keys[f].owner = k}

(* Descriptors that are ready are read as they are described.              *)
LEMMA KeysRead ==
  ASSUME NEW l, NEW t, Loaded1(l, t), PlainTable(t)
  PROVE  /\ DOMAIN l.keys = DOMAIN t.keys
         /\ \A k \in DOMAIN t.keys :
              /\ l.keys[k].base = t.keys[k].base /\ l.keys[k].type = t.keys[k].type
              /\ NameOf(l, k) = SaysName(t, k)
              /\ t.keys[k].base # "Flag" => Number(l.keys[k].offset) = t.keys[k].offset
              /\ t.keys[k].base = "Array" => Number(l.keys[k].items) = t.keys[k].items
              /\ t.keys[k].base = "Flag" => Number(l.keys[k].value) = t.keys[k].value
         /\ \A k : FlagsOf(l, k) = SaysFlagsOf(t, k)
<1>1. DOMAIN l.keys = DOMAIN t.keys /\ \A k \in DOMAIN t.keys : l.keys[k] = ReadyKey(t.keys[k])
  BY DEF Loaded1, ReadyKeys
<1>2. ASSUME NEW k \in DOMAIN t.keys
      PROVE  /\ l.keys[k].base = t.keys[k].base /\ l.keys[k].type = t.keys[k].type
             /\ Number(l.keys[k].name) = t.keys[k].name
             /\ t.keys[k].base # "Flag" => Number(l.keys[k].offset) = t.keys[k].offset
             /\ t.keys[k].base = "Array" => Number(l.keys[k].items) = t.keys[k].items
             /\ t.keys[k].base = "Flag" => /\ Number(l.keys[k].value) = t.keys[k].value
                                           /\ Number(l.keys[k].owner) = t.keys[k].owner
  <2>1. PICK d : d = t.keys[k]
    OBVIOUS
  <2>2. FieldsHold(d) /\ d.base \in DOMAIN Fields
    BY <2>1, PlainFields DEF Loaded1, BasesKnown
  <2>3. l.keys[k] = ReadyKey(d)
    BY <1>1, <2>1
  <2>. QED
    BY <2>1, <2>2, <2>3, ReadyKeyRule
<1>3. ASSUME NEW k \in DOMAIN t.keys PROVE NameOf(l, k) = SaysName(t, k)
  <2>1. l.names = t.names
    BY DEF Loaded1
  <2>. QED
    BY <1>2, <2>1 DEF NameOf, SaysName
<1>4. ASSUME NEW k PROVE FlagsOf(l, k) = SaysFlagsOf(t, k)
  <2>1. \A f \in DOMAIN t.keys :
          l.keys[f].base = "Flag" /\ Number(l.keys[f].owner) = k
            <=> t.keys[f].base = "Flag" /\ t.keys[f].owner = k
    BY <1>2
  <2>. QED
    BY <1>1, <2>1 DEF FlagsOf, SaysFlagsOf
<1>. QED
  BY <1>1, <1>2, <1>3, <1>4

(* The bits that a flag names are those of the number in its cell.         *)
LEMMA FlagReads ==
  ASSUME NEW l, NEW t, Loaded1(l, t), PlainTable(t),
         NEW f \in DOMAIN t.keys, t.keys[f].base = "Flag",
         NEW type \in DOMAIN Width, type # "StringPtr", type # "Float",
         NEW value, InRange(type, value)
  PROVE  FlagValue(l, f, type, Bytes(value, Width[type])) =
           \E i \in 0 .. 15 : Bit(t.keys[f].value, i) = 1 /\ Bit(value % 2 ^ 16, i) = 1
<1>. DEFINE n == Number(Bytes(value, Width[type]))
            wide == IF type \in {"i8", "i16", "i32"} THEN Signed(n, Width[type]) ELSE n
<1>1. wide = value
  BY NumberInRange DEF Whole
<1>2. Number(l.keys[f].value) = t.keys[f].value
  BY KeysRead
<1>3. FlagValue(l, f, type, Bytes(value, Width[type])) = Meet(wide % 2 ^ 16, Number(l.keys[f].value))
  BY DEF FlagValue
<1>4. FlagValue(l, f, type, Bytes(value, Width[type])) = Meet(value % 2 ^ 16, t.keys[f].value)
  <2>. HIDE DEF wide
  <2>. QED
    BY <1>1, <1>2, <1>3
<1>5. ASSUME NEW a, NEW b
      PROVE  Meet(a, b) = \E i \in 0 .. 15 : Bit(b, i) = 1 /\ Bit(a, i) = 1
  BY DEF Meet
<1>. QED
  BY <1>4, <1>5

(* All flags of a cell are read as the table names them.                   *)
LEMMA FlagsRead ==
  ASSUME NEW l, NEW t, Loaded1(l, t), PlainTable(t), NEW k \in DOMAIN t.keys,
         t.keys[k].type \in DOMAIN Width,
         t.keys[k].type # "StringPtr", t.keys[k].type # "Float",
         NEW value, InRange(t.keys[k].type, value)
  PROVE  FlagDict(l, k, Bytes(value, Width[t.keys[k].type])) = SaysFlags(t, k, value)
<1>1. PICK F : F = SaysFlagsOf(t, k)
  OBVIOUS
<1>2. PICK bytes : bytes = Bytes(value, Width[t.keys[k].type])
  OBVIOUS
<1>3. FlagsOf(l, k) = F
  BY <1>1, KeysRead
<1>4. \A f \in F : f \in DOMAIN t.keys /\ t.keys[f].base = "Flag" /\ f \in Nat
  BY <1>1 DEF SaysFlagsOf, PlainTable, IsList
<1>5. \A f \in F : NameOf(l, f) = SaysName(t, f)
  BY <1>4, KeysRead
<1>6. l.keys[k].type = t.keys[k].type
  BY KeysRead
<1>. DEFINE Read(name) == CHOOSE f \in F :
              NameOf(l, f) = name /\ \A g \in F : NameOf(l, g) = name => f <= g
            Said(name) == CHOOSE f \in F :
              SaysName(t, f) = name /\ \A g \in F : SaysName(t, g) = name => f <= g
            Bits(f) == \E i \in 0 .. 15 : Bit(t.keys[f].value, i) = 1 /\ Bit(value % 2 ^ 16, i) = 1
            Names == {SaysName(t, f) : f \in F}
<1>7. ASSUME NEW name \in Names
      PROVE  Read(name) = Said(name) /\ Said(name) \in F
  <2>. DEFINE Own == {f \in F : SaysName(t, f) = name}
  <2>1. Own # {} /\ Own \subseteq Nat
    BY <1>4
  <2>2. PICK f \in Own : \A g \in Own : f <= g
    <3>. HIDE DEF Own
    <3>. QED
      BY <2>1, SmallestMember
  <2>3. f \in F /\ SaysName(t, f) = name /\ (\A g \in F : SaysName(t, g) = name => f <= g)
    BY <2>2
  <2>4. NameOf(l, f) = name /\ (\A g \in F : NameOf(l, g) = name => f <= g)
    BY <1>5, <2>3
  <2>5. PICK a : a = Read(name)
    OBVIOUS
  <2>6. PICK b : b = Said(name)
    OBVIOUS
  <2>7. a \in F /\ NameOf(l, a) = name /\ (\A g \in F : NameOf(l, g) = name => a <= g)
    BY <2>3, <2>4, <2>5
  <2>8. b \in F /\ SaysName(t, b) = name /\ (\A g \in F : SaysName(t, g) = name => b <= g)
    BY <2>3, <2>6
  <2>9. a <= f /\ f <= a /\ b <= f /\ f <= b
    BY <2>3, <2>4, <2>7, <2>8
  <2>10. a \in Nat /\ b \in Nat /\ f \in Nat
    BY <1>4, <2>3, <2>7, <2>8
  <2>11. a = b
    BY <2>9, <2>10
  <2>. QED
    BY <2>5, <2>6, <2>8, <2>11
<1>8. {NameOf(l, f) : f \in F} = Names
  BY <1>5
<1>9. ASSUME NEW f \in F PROVE FlagValue(l, f, t.keys[k].type, bytes) = Bits(f)
  BY <1>2, <1>4, FlagReads
<1>10. FlagDict(l, k, bytes) =
         [name \in Names |-> FlagValue(l, Read(name), t.keys[k].type, bytes)]
  <2>1. FlagDict(l, k, bytes) =
          [name \in {NameOf(l, f) : f \in F} |-> FlagValue(l, Read(name), l.keys[k].type, bytes)]
    BY <1>3 DEF FlagDict
  <2>. HIDE DEF Read, Names
  <2>. QED
    BY <1>6, <1>8, <2>1
<1>11. SaysFlags(t, k, value) = [name \in Names |-> Bits(Said(name))]
  BY <1>1 DEF SaysFlags, SaysFlagsOf
<1>12. \A name \in Names : FlagValue(l, Read(name), t.keys[k].type, bytes) = Bits(Said(name))
  <2>. HIDE DEF Read, Said, Names, Bits
  <2>. QED
    BY <1>7, <1>9
<1>. HIDE DEF Read, Said, Names, Bits
<1>. QED
  BY <1>2, <1>10, <1>11, <1>12

(* A cell is read as what it says.                                         *)
LEMMA CellReads ==
  ASSUME NEW l, NEW t, Loaded1(l, t), PlainTable(t), CellsApart(t),
         NEW r \in DOMAIN t.rows, NEW k \in DOMAIN t.keys,
         NEW a \in 1 .. CellCount(t.keys[k]),
         FlagsOf(l, k) = {} \/ l.keys[k].type \notin {"StringPtr", "Float"}
  PROVE  SetValue(l, k, l.rows[r], CellOffset(t.keys[k], a)) =
           SaysCell(t, k, CellValue(t.keys[k], t.rows[r][k], a))
<1>1. PICK S : S = CellsOfRow(t, t.rows[r])
  OBVIOUS
<1>2. PICK G : G = ReadyAs(S, t.coded)
  OBVIOUS
<1>3. PICK type : type = t.keys[k].type
  OBVIOUS
<1>4. PICK value : value = CellValue(t.keys[k], t.rows[r][k], a)
  OBVIOUS
<1>5. PICK off : off = CellOffset(t.keys[k], a)
  OBVIOUS
<1>6. PICK c : c = <<off, type, value>>
  OBVIOUS
<1>7. c \in S
  BY <1>1, <1>3, <1>4, <1>5, <1>6, CellRule
<1>8. c[1] = off /\ c[2] = type /\ c[3] = value
  BY <1>6
<1>9. Apart(S, t.stride) /\ (\A d \in S : d[2] \in CellTypes /\ InRange(d[2], d[3]))
  BY <1>1, RowCells
<1>10. \A d \in S : d[2] \in DOMAIN Width /\ InRange(d[2], d[3])
  BY <1>9, WidthRule
<1>11. Filled(S, G)
  BY <1>2, <1>10, FilledReady
<1>12. l.rows[r] = Paint(S, t.stride, G)
  <2>1. l.rows[r] = ReadyRow(t, t.rows[r])
    BY DEF Loaded1
  <2>. QED
    BY <1>1, <1>2, <2>1 DEF ReadyRow
<1>13. type \in DOMAIN Width /\ InRange(type, value)
  BY <1>7, <1>8, <1>10
<1>14. Cell(l.rows[r], off, Width[type]) = Ready(type, value, t.coded)
  <2>1. Cell(Paint(S, t.stride, G), c[1], Width[c[2]]) = G[c]
    BY <1>7, <1>9, <1>11, PaintRead
  <2>2. G[c] = Ready(c[2], c[3], t.coded)
    BY <1>2, <1>7 DEF ReadyAs
  <2>. QED
    BY <1>8, <1>12, <2>1, <2>2
<1>15. l.keys[k].type = type /\ FlagsOf(l, k) = SaysFlagsOf(t, k) /\ l.strings = t.strings
  <2>1. l.keys[k].type = t.keys[k].type
    BY KeysRead
  <2>2. FlagsOf(l, k) = SaysFlagsOf(t, k)
    BY KeysRead
  <2>3. l.strings = t.strings
    BY DEF Loaded1
  <2>. QED
    BY <1>3, <2>1, <2>2, <2>3
<1>16. PICK bytes : bytes = Ready(type, value, t.coded)
  OBVIOUS
<1>17. SetValue(l, k, l.rows[r], off) =
         IF FlagsOf(l, k) # {} THEN [flags |-> FlagDict(l, k, bytes)]
           ELSE Value(type, bytes, t.strings)
  BY <1>14, <1>15, <1>16 DEF SetValue
<1>18. SaysCell(t, k, value) =
         IF SaysFlagsOf(t, k) # {} THEN [flags |-> SaysFlags(t, k, value)]
           ELSE Says(type, value, t.strings, t.coded)
  <2>1. (\E f \in DOMAIN t.keys : t.keys[f].base = "Flag" /\ t.keys[f].owner = k)
          <=> SaysFlagsOf(t, k) # {}
    BY DEF SaysFlagsOf
  <2>. QED
    BY <1>3, <2>1 DEF SaysCell
<1>19. CASE SaysFlagsOf(t, k) = {}
  <2>1. Value(type, bytes, t.strings) = Says(type, value, t.strings, t.coded)
    BY <1>13, <1>16, ValueReady
  <2>. QED
    BY <1>4, <1>5, <1>15, <1>17, <1>18, <1>19, <2>1
<1>20. CASE SaysFlagsOf(t, k) # {}
  <2>1. type # "StringPtr" /\ type # "Float"
    BY <1>15, <1>20
  <2>2. bytes = Bytes(value, Width[type])
    BY <1>16, <2>1 DEF Ready
  <2>3. FlagDict(l, k, bytes) = SaysFlags(t, k, value)
    BY <1>3, <1>13, <2>1, <2>2, FlagsRead
  <2>. QED
    BY <1>4, <1>5, <1>15, <1>17, <1>18, <1>20, <2>3
<1>. QED
  BY <1>19, <1>20

(* A key's cells are read, one or an array, as they are described.         *)
LEMMA MemberReads ==
  ASSUME NEW l, NEW t, Loaded1(l, t), PlainTable(t), CellsApart(t), FlagsFit(l),
         NEW r \in DOMAIN t.rows, NEW k \in DOMAIN t.keys, t.keys[k].base # "Flag"
  PROVE  Member(l, k, l.rows[r]) = SaysMember(t, k, t.rows[r][k])
<1>1. PICK d : d = t.keys[k]
  OBVIOUS
<1>2. d.type \in CellTypes /\ Width[d.type] \in 1 .. 4
  <2>1. Typed(t)
    BY DEF Loaded1
  <2>. QED
    BY <1>1, <2>1, WidthRule DEF Typed
<1>3. d.base = "Default" \/ d.base = "Array"
  BY <1>1, FieldsRule DEF Loaded1, BasesKnown
<1>4. /\ l.keys[k].base = d.base /\ l.keys[k].type = d.type
      /\ Number(l.keys[k].offset) = d.offset
      /\ d.base = "Array" => Number(l.keys[k].items) = d.items
  BY <1>1, KeysRead
<1>5. l.rows # <<>>
  <2>1. r \in DOMAIN l.rows
    BY DEF Loaded1
  <2>. QED
    BY <2>1
<1>6. ASSUME NEW a \in 1 .. CellCount(d)
      PROVE  SetValue(l, k, l.rows[r], CellOffset(d, a)) =
               SaysCell(t, k, CellValue(d, t.rows[r][k], a))
  <2>1. k \in DOMAIN l.keys
    BY KeysRead
  <2>2. ~(l.keys[k].base = "Array" /\ Number(l.keys[k].items) = 0)
    <3>. SUFFICES ASSUME l.keys[k].base = "Array", Number(l.keys[k].items) = 0 PROVE FALSE
      OBVIOUS
    <3>1. d.base = "Array" /\ d.items = 0
      BY <1>4
    <3>2. CellCount(d) = 0
      BY <1>2, <3>1 DEF CellCount
    <3>. QED
      BY <3>2
  <2>3. l.keys[k].base # "Flag"
    BY <1>3, <1>4
  <2>4. FlagsOf(l, k) = {} \/ l.keys[k].type \notin {"StringPtr", "Float"}
    BY <1>5, <2>1, <2>2, <2>3 DEF FlagsFit
  <2>. QED
    BY <1>1, <2>4, CellReads
<1>7. CASE d.base = "Default"
  <2>1. CellCount(d) = 1
    BY <1>2, <1>7 DEF CellCount
  <2>2. CellOffset(d, 1) = d.offset
    <3>1. d.offset \in 0 .. Place[2] - 1 /\ Place[2] \in Nat
      BY <1>1, PlainFields, PlaceRule DEF FieldsHold
    <3>2. (1 - 1) * Width[d.type] = 0
      BY <1>2
    <3>. QED
      BY <3>1, <3>2 DEF CellOffset
  <2>3. CellValue(d, t.rows[r][k], 1) = t.rows[r][k]
    BY <1>7 DEF CellValue
  <2>4. SetValue(l, k, l.rows[r], d.offset) = SaysCell(t, k, t.rows[r][k])
    <3>1. 1 \in 1 .. CellCount(d)
      BY <2>1
    <3>. QED
      BY <1>6, <2>2, <2>3, <3>1
  <2>5. Member(l, k, l.rows[r]) = SetValue(l, k, l.rows[r], d.offset)
    BY <1>4, <1>7 DEF Member
  <2>6. SaysMember(t, k, t.rows[r][k]) = SaysCell(t, k, t.rows[r][k])
    BY <1>1, <1>7 DEF SaysMember
  <2>. QED
    BY <2>4, <2>5, <2>6
<1>8. CASE d.base = "Array"
  <2>1. CellCount(d) = d.items
    BY <1>2, <1>8 DEF CellCount
  <2>2. Member(l, k, l.rows[r]) =
          [array |-> [a \in 1 .. d.items |-> SetValue(l, k, l.rows[r], CellOffset(d, a))]]
    BY <1>4, <1>8 DEF Member, CellOffset
  <2>3. SaysMember(t, k, t.rows[r][k]) =
          [array |-> [a \in 1 .. d.items |-> SaysCell(t, k, t.rows[r][k][a])]]
    BY <1>1, <1>8 DEF SaysMember
  <2>4. ASSUME NEW a \in 1 .. d.items
        PROVE  SetValue(l, k, l.rows[r], CellOffset(d, a)) = SaysCell(t, k, t.rows[r][k][a])
    <3>1. CellValue(d, t.rows[r][k], a) = t.rows[r][k][a]
      BY <1>8 DEF CellValue
    <3>2. SetValue(l, k, l.rows[r], CellOffset(d, a)) =
            SaysCell(t, k, CellValue(d, t.rows[r][k], a))
      BY <1>6, <2>1
    <3>. QED
      BY <3>1, <3>2
  <2>. QED
    BY <2>2, <2>3, <2>4
<1>. QED
  BY <1>3, <1>7, <1>8

(* The members of a row have names of their own.                           *)
OwnNames(t) ==
  \A k, l \in {m \in DOMAIN t.keys : t.keys[m].base # "Flag"} :
    SaysName(t, k) = SaysName(t, l) => k = l

LEMMA ObjectReads ==
  ASSUME NEW l, NEW t, Loaded1(l, t), PlainTable(t), CellsApart(t), FlagsFit(l), OwnNames(t),
         NEW r \in DOMAIN t.rows, job.version = "V1"
  PROVE  RowObject(l, l.rows[r]) = SaysRow(t, t.rows[r])
<1>1. PICK K : K = {k \in DOMAIN t.keys : t.keys[k].base # "Flag"}
  OBVIOUS
<1>2. K = {k \in DOMAIN l.keys : l.keys[k].base # "Flag"}
  BY <1>1, KeysRead
<1>3. \A k \in K : NameOf(l, k) = SaysName(t, k)
  BY <1>1, KeysRead
<1>. DEFINE Read(name) == CHOOSE k \in K : NameOf(l, k) = name
            Said(name) == CHOOSE k \in K : SaysName(t, k) = name
            Names == {SaysName(t, k) : k \in K}
<1>4. ASSUME NEW name \in Names PROVE Read(name) = Said(name) /\ Said(name) \in K
  <2>1. PICK k \in K : SaysName(t, k) = name
    OBVIOUS
  <2>2. NameOf(l, k) = name
    BY <1>3, <2>1
  <2>3. PICK a : a = Read(name)
    OBVIOUS
  <2>4. PICK b : b = Said(name)
    OBVIOUS
  <2>5. a \in K /\ NameOf(l, a) = name
    BY <2>2, <2>3
  <2>6. b \in K /\ SaysName(t, b) = name
    BY <2>1, <2>4
  <2>7. a = b
    BY <1>1, <1>3, <2>5, <2>6 DEF OwnNames
  <2>. QED
    BY <2>3, <2>4, <2>6, <2>7
<1>5. {NameOf(l, k) : k \in K} = Names
  BY <1>3
<1>6. RowObject(l, l.rows[r]) = [name \in Names |-> Member(l, Read(name), l.rows[r])]
  <2>1. RowObject(l, l.rows[r]) =
          [name \in {NameOf(l, k) : k \in K} |-> Member(l, Read(name), l.rows[r])]
    BY <1>2 DEF RowObject
  <2>. HIDE DEF Read, Names
  <2>. QED
    BY <1>5, <2>1
<1>7. SaysRow(t, t.rows[r]) =
        [name \in Names |-> SaysMember(t, Said(name), t.rows[r][Said(name)])]
  BY <1>1 DEF SaysRow
<1>8. \A k \in K : Member(l, k, l.rows[r]) = SaysMember(t, k, t.rows[r][k])
  BY <1>1, MemberReads
<1>. HIDE DEF Read, Said, Names
<1>9. \A name \in Names :
        Member(l, Read(name), l.rows[r]) = SaysMember(t, Said(name), t.rows[r][Said(name)])
  BY <1>4, <1>8
<1>. QED
  BY <1>6, <1>7, <1>9

(* Whether a table is ready: loaded as the file has it.                    *)
IsLoaded(l, t) ==
  IF job.version = "V1"
  THEN Loaded1(l, t) /\ PlainTable(t) /\ CellsApart(t) /\ OwnNames(t)
  ELSE Loaded4(l, t) /\ ColumnsHold(t)

LEMMA TableReads ==
  ASSUME NEW l, NEW t, IsLoaded(l, t), Convertible(l)
  PROVE  ToJSON(l) = SaysTable(t)
<1>1. DOMAIN l.rows = DOMAIN t.rows
  BY DEF IsLoaded, Loaded1, Loaded4, ColumnsTo
<1>2. ASSUME NEW r \in DOMAIN t.rows
      PROVE  (IF job.version = "V1" THEN RowObject(l, l.rows[r]) ELSE RowArray(l, l.rows[r]))
               = SaysRow(t, t.rows[r])
  <2>1. CASE job.version = "V1"
    <3>1. /\ Loaded1(l, t) /\ PlainTable(t) /\ CellsApart(t) /\ OwnNames(t)
          /\ FlagsFit(l)
      BY <2>1 DEF IsLoaded, Convertible
    <3>2. RowObject(l, l.rows[r]) = SaysRow(t, t.rows[r])
      BY <2>1, <3>1, ObjectReads
    <3>. QED
      BY <2>1, <3>2
  <2>2. CASE job.version # "V1"
    <3>0. Loaded4(l, t) /\ ColumnsHold(t)
      BY <2>2 DEF IsLoaded
    <3>1. RowArray(l, l.rows[r]) = ArraySays(t, t.rows[r])
      BY <3>0, ArrayReads
    <3>2. SaysRow(t, t.rows[r]) = ArraySays(t, t.rows[r])
      BY <2>2 DEF SaysRow, ArraySays
    <3>. QED
      BY <2>2, <3>1, <3>2
  <2>. QED
    BY <2>1, <2>2
<1>3. SaysTable(t) = [r \in DOMAIN t.rows |-> SaysRow(t, t.rows[r])]
  BY DEF SaysTable
<1>4. ToJSON(l) = [r \in DOMAIN t.rows |->
        IF job.version = "V1" THEN RowObject(l, l.rows[r]) ELSE RowArray(l, l.rows[r])]
  BY <1>1 DEF ToJSON
<1>. QED
  BY <1>2, <1>3, <1>4

(***************************************************************************)
(* The tables that bdat_to_json makes ready, and what it writes of them.   *)
(***************************************************************************)
KeysTo(t, n) ==
  [k \in DOMAIN t.keys |-> IF k <= n THEN ReadyKey(t.keys[k]) ELSE StoredKey(t.keys[k])]

RowsTo(t, n) ==
  [r \in DOMAIN t.rows |->
    IF r <= n THEN ReadyRow(t, t.rows[r]) ELSE StoredRow(t, t.rows[r])]

(* The keys, the rows and the columns up to the cursor are ready, the      *)
(* others as they are in the file.                                         *)
KeysRight ==
  /\ cursor \in Nat
  /\ keys = KeysTo(Table, cursor)
  /\ \A k \in DOMAIN Table.keys : k <= cursor => Table.keys[k].base \in DOMAIN Fields
  /\ rows = RowsTo(Table, 0)

RowsRight ==
  /\ cursor \in Nat
  /\ keys = ReadyKeys(Table)
  /\ BasesKnown(Table)
  /\ rows = RowsTo(Table, cursor)
  /\ cursor # 0 => Typed(Table)

ColumnsRight ==
  /\ cursor \in Nat
  /\ keys = Table.types
  /\ \A c \in DOMAIN Table.types : c <= cursor => Table.types[c] \in DOMAIN Width
  /\ rows = ColumnsTo(Table, cursor)

LoadedRight == \A i \in DOMAIN loaded : IsLoaded(loaded[i], job.tables[i])

(* What has been written is what the tables say.                           *)
IsMember(token, t) == token.token = "member" => token.text = SaysTable(t)

SentApart ==
  /\ \E T : sent \in Seq(T)
  /\ \A i \in DOMAIN sent :
       sent[i].text # <<>> => sent[i].text = <<SaysTable(job.tables[i])>>

SentTogether ==
  \/ sent = <<>>
  \/ \E file :
       /\ sent = <<file>>
       /\ file = [name |-> file.name, text |-> file.text]
       /\ \E T : file.text \in Seq(T)
       /\ Len(file.text) >= 1
       /\ \A i \in 1 .. Len(file.text) - 1 : IsMember(file.text[i + 1], job.tables[i])

SentRight ==
  /\ step \notin {"loaded", "failed", "endless", "done"} => sent = <<>>
  /\ IF Extracting THEN SentApart ELSE SentTogether

JsonRight ==
  /\ step = "keys" => KeysRight
  /\ step = "rows" => RowsRight
  /\ step = "columns" => ColumnsRight
  /\ LoadedRight
  /\ SentRight

(***************************************************************************)
(* The inductive invariant: of the table at hand, what the cursor has      *)
(* passed is ready and the rest is as the file has it.                     *)
(***************************************************************************)
RowsInv == JsonInv /\ (job # NoFile /\ job.tool = "json" => JsonRight)

(* As long as the file is the same its tables are described the same.      *)
LEMMA SameKeys ==
  ASSUME job' = job
  PROVE  /\ \A t : ReadyKeys(t)' = ReadyKeys(t)
         /\ \A t, n : KeysTo(t, n)' = KeysTo(t, n)
  BY DEF ReadyKeys, KeysTo, ReadyKey, StoredKey, Swapped

LEMMA SameRows ==
  ASSUME job' = job
  PROVE  \A t, n : RowsTo(t, n)' = RowsTo(t, n)
<1>1. \A t, row : StoredRow(t, row)' = StoredRow(t, row)
  BY DEF StoredRow, Laid, StoredCell, Swapped
<1>. QED
  BY <1>1 DEF RowsTo

LEMMA SameColumns ==
  ASSUME job' = job
  PROVE  \A t, m : ColumnsTo(t, m)' = ColumnsTo(t, m)
<1>1. \A type, value : StoredCell(type, value)' = StoredCell(type, value)
  BY DEF StoredCell, Swapped
<1>2. \A t, row, m : ReadyTo(t, row, m)' = ReadyTo(t, row, m)
  BY <1>1 DEF ReadyTo
<1>3. \A t, row, m : ReadyColumns(t, row, m)' = ReadyColumns(t, row, m)
  BY <1>2 DEF ReadyColumns
<1>. QED
  BY <1>3 DEF ColumnsTo

LEMMA SameLoaded ==
  ASSUME job' = job
  PROVE  \A l, t : IsLoaded(l, t)' <=> IsLoaded(l, t)
<1>1. \A t, m : ColumnsTo(t, m)' = ColumnsTo(t, m)
  BY SameColumns
<1>2. \A l, t : Loaded4(l, t)' <=> Loaded4(l, t)
  BY <1>1 DEF Loaded4
<1>3. \A l, t : Loaded1(l, t)' <=> Loaded1(l, t)
  BY SameKeys DEF Loaded1
<1>. QED
  BY <1>2, <1>3 DEF IsLoaded

LEMMA SameSays ==
  ASSUME job' = job
  PROVE  \A t : SaysTable(t)' = SaysTable(t)
<1>1. \A t, row : SaysRow(t, row)' = SaysRow(t, row)
  BY DEF SaysRow
<1>. QED
  BY <1>1 DEF SaysTable

(* The table at hand is one of the file, and as its files are known to be. *)
LEMMA TableKnown ==
  ASSUME job \in Jobs, job # NoFile, NEW T, loaded \in Seq(T), Len(loaded) < Len(job.tables)
  PROVE  /\ job.version = "V1" =>
              PlainTable(Table) /\ CellsApart(Table) /\ OwnNames(Table)
         /\ job.version # "V1" => ~job.big /\ ColumnsHold(Table)
<1>1. IsList(job.tables) /\ Len(loaded) \in Nat
  BY JobsAssumption
<1>2. PICK i : i = Len(loaded) + 1
  OBVIOUS
<1>3. i \in DOMAIN job.tables /\ Table = job.tables[i]
  BY <1>1, <1>2 DEF IsList, Table
<1>4. job.version = "V1" => OwnNames(Table)
  BY <1>3, NamesAssumption DEF OwnNames
<1>. QED
  BY <1>3, <1>4, JobsAssumption

LEMMA ListLen ==
  ASSUME NEW n \in Nat, NEW f, DOMAIN f = 1 .. n, f = [i \in 1 .. n |-> f[i]]
  PROVE  Len(f) = n
<1>1. f \in [1 .. n -> {f[i] : i \in 1 .. n}]
  OBVIOUS
<1>. QED
  BY <1>1, LenOf

LEMMA StepEnterKeys ==
  ASSUME PlainTable(Table), EnterKeys
  PROVE  KeysRight'
<1>1. PICK t : t = Table
  OBVIOUS
<1>2. UNCHANGED <<job, loaded>> /\ cursor' = 0
      /\ keys' = [k \in DOMAIN t.keys |-> StoredKey(t.keys[k])]
      /\ rows' = [r \in DOMAIN t.rows |-> StoredRow(t, t.rows[r])]
  BY <1>1 DEF EnterKeys
<1>3. /\ \A k \in DOMAIN t.keys : ~(k <= 0)
      /\ \A r \in DOMAIN t.rows : ~(r <= 0)
  BY <1>1 DEF PlainTable, IsList
<1>4. keys' = KeysTo(t, 0)
  BY <1>2, <1>3 DEF KeysTo
<1>5. rows' = RowsTo(t, 0)
  BY <1>2, <1>3 DEF RowsTo
<1>6. Table' = t
  BY <1>1, <1>2 DEF Table
<1>7. keys' = KeysTo(Table, cursor)' /\ rows' = RowsTo(Table, 0)'
  BY <1>2, <1>4, <1>5, <1>6, SameKeys, SameRows
<1>8. \A k \in DOMAIN Table'.keys : k <= cursor' => Table'.keys[k].base \in DOMAIN Fields
  BY <1>2, <1>3, <1>6
<1>. QED
  BY <1>2, <1>7, <1>8 DEF KeysRight

LEMMA StepProcessKey ==
  ASSUME PlainTable(Table), KeysRight, ProcessKey
  PROVE  KeysRight'
<1>1. PICK t : t = Table
  OBVIOUS
<1>2. PICK n \in Nat : n = cursor
  BY DEF KeysRight
<1>3. PICK m \in Nat : m = Len(t.keys) /\ DOMAIN t.keys = 1 .. m
  BY <1>1 DEF PlainTable, IsList
<1>4. keys = [k \in 1 .. m |-> IF k <= n THEN ReadyKey(t.keys[k]) ELSE StoredKey(t.keys[k])]
  BY <1>1, <1>2, <1>3 DEF KeysRight, KeysTo
<1>5. Len(keys) = m
  <2>1. DOMAIN keys = 1 .. m /\ keys = [k \in 1 .. m |-> keys[k]]
    BY <1>4
  <2>. QED
    BY <2>1, ListLen
<1>6. PICK next : next = n + 1
  OBVIOUS
<1>7. next \in 1 .. m /\ ~(next <= n)
  BY <1>2, <1>5, <1>6 DEF ProcessKey, AtKey
<1>8. PICK d : d = t.keys[next]
  OBVIOUS
<1>9. keys[next] = StoredKey(d)
  BY <1>4, <1>7, <1>8
<1>10. StoredKey(d).base = d.base
  BY DEF StoredKey
<1>11. d.base \in DOMAIN Fields
  BY <1>2, <1>6, <1>9, <1>10 DEF ProcessKey
<1>12. keys' = [keys EXCEPT ![next] = ReadyKey(d)]
  <2>1. keys' = [keys EXCEPT ![next] =
          [f \in DOMAIN keys[next] |-> IF f \in {"name"} \cup Fields[keys[next].base]
                                      THEN Swapped(keys[next][f]) ELSE keys[next][f]]]
    BY <1>2, <1>6 DEF ProcessKey
  <2>2. ReadyKey(d) =
          [f \in DOMAIN keys[next] |-> IF f \in {"name"} \cup Fields[keys[next].base]
                                      THEN Swapped(keys[next][f]) ELSE keys[next][f]]
    BY <1>9, <1>10 DEF ReadyKey
  <2>. QED
    BY <2>1, <2>2
<1>13. UNCHANGED <<job, loaded, rows>> /\ cursor' = next
  BY <1>2, <1>6 DEF ProcessKey
<1>14. ASSUME NEW k \in 1 .. m
       PROVE  keys'[k] = IF k <= next THEN ReadyKey(t.keys[k]) ELSE StoredKey(t.keys[k])
  <2>1. CASE k = next
    <3>1. keys'[k] = ReadyKey(d)
      BY <1>4, <1>12, <2>1
    <3>2. k <= next
      BY <1>7, <2>1
    <3>. QED
      BY <1>8, <2>1, <3>1, <3>2
  <2>2. CASE k # next
    <3>1. keys'[k] = keys[k]
      BY <1>12, <1>4, <2>2
    <3>2. (k <= n) <=> (k <= next)
      BY <1>6, <2>2
    <3>. QED
      BY <1>4, <3>1, <3>2
  <2>. QED
    BY <2>1, <2>2
<1>15. keys' = [k \in 1 .. m |-> keys'[k]]
  BY <1>4, <1>12
<1>16. keys' = KeysTo(t, next)
  BY <1>3, <1>14, <1>15 DEF KeysTo
<1>17. Table' = t
  BY <1>1, <1>13 DEF Table
<1>18. keys' = KeysTo(Table, cursor)' /\ rows' = RowsTo(Table, 0)'
  <2>1. rows = RowsTo(t, 0)
    BY <1>1 DEF KeysRight
  <2>. QED
    BY <1>13, <1>16, <1>17, <2>1, SameKeys, SameRows
<1>19. ASSUME NEW k \in DOMAIN t.keys, k <= next PROVE t.keys[k].base \in DOMAIN Fields
  <2>1. CASE k = next
    BY <1>8, <1>11, <2>1
  <2>2. CASE k # next
    <3>1. k <= n
      BY <1>3, <1>6, <1>19, <2>2
    <3>. QED
      BY <1>1, <1>2, <3>1 DEF KeysRight
  <2>. QED
    BY <2>1, <2>2
<1>20. next \in Nat
  BY <1>7
<1>. QED
  BY <1>13, <1>17, <1>18, <1>19, <1>20 DEF KeysRight

LEMMA StepEnterRows ==
  ASSUME PlainTable(Table), KeysRight, EnterRows
  PROVE  RowsRight'
<1>1. PICK t : t = Table
  OBVIOUS
<1>2. PICK m \in Nat : m = Len(t.keys) /\ DOMAIN t.keys = 1 .. m
  BY <1>1 DEF PlainTable, IsList
<1>3. keys = KeysTo(t, cursor)
  BY <1>1 DEF KeysRight
<1>4. Len(keys) = m
  <2>1. DOMAIN keys = 1 .. m /\ keys = [k \in 1 .. m |-> keys[k]]
    BY <1>2, <1>3 DEF KeysTo
  <2>. QED
    BY <2>1, ListLen
<1>5. cursor = m /\ UNCHANGED <<job, loaded, keys, rows>> /\ cursor' = 0
  BY <1>4 DEF EnterRows
<1>6. KeysTo(t, m) = ReadyKeys(t)
  BY <1>2 DEF KeysTo, ReadyKeys
<1>7. BasesKnown(t)
  BY <1>1, <1>2, <1>5 DEF KeysRight, BasesKnown
<1>8. Table' = t
  BY <1>1, <1>5 DEF Table
<1>9. rows = RowsTo(t, 0)
  BY <1>1 DEF KeysRight
<1>10. keys' = ReadyKeys(Table)' /\ rows' = RowsTo(Table, cursor)'
  BY <1>3, <1>5, <1>6, <1>8, <1>9, SameKeys, SameRows
<1>11. BasesKnown(Table)'
  BY <1>7, <1>8 DEF BasesKnown
<1>. QED
  BY <1>5, <1>10, <1>11 DEF RowsRight

LEMMA StepProcessRow ==
  ASSUME PlainTable(Table), CellsApart(Table), RowsRight, ProcessRow
  PROVE  RowsRight'
<1>1. PICK t : t = Table
  OBVIOUS
<1>2. PICK n \in Nat : n = cursor
  BY DEF RowsRight
<1>3. PICK m \in Nat : m = Len(t.rows) /\ DOMAIN t.rows = 1 .. m
  BY <1>1 DEF PlainTable, IsList
<1>4. rows = [r \in 1 .. m |->
               IF r <= n THEN ReadyRow(t, t.rows[r]) ELSE StoredRow(t, t.rows[r])]
  BY <1>1, <1>2, <1>3 DEF RowsRight, RowsTo
<1>5. Len(rows) = m
  <2>1. DOMAIN rows = 1 .. m /\ rows = [r \in 1 .. m |-> rows[r]]
    BY <1>4
  <2>. QED
    BY <2>1, ListLen
<1>6. PICK next : next = n + 1
  OBVIOUS
<1>7. next \in 1 .. m /\ ~(next <= n)
  BY <1>2, <1>5, <1>6 DEF ProcessRow, AtRow
<1>8. keys = ReadyKeys(t) /\ BasesKnown(t)
  BY <1>1 DEF RowsRight
<1>9. Typed(t)
  <2>1. ASSUME NEW k \in DOMAIN t.keys
        PROVE  t.keys[k].base = "Flag" \/ t.keys[k].type \in CellTypes
    <3>1. PICK d : d = t.keys[k]
      OBVIOUS
    <3>2. FieldsHold(d) /\ d.base \in DOMAIN Fields
      BY <1>1, <1>8, <3>1, PlainFields DEF BasesKnown
    <3>3. k \in DOMAIN keys /\ keys[k] = ReadyKey(d)
      BY <1>8, <3>1 DEF ReadyKeys
    <3>4. keys[k].base = d.base /\ keys[k].type = d.type
      BY <3>2, <3>3, ReadyKeyRule
    <3>. QED
      BY <3>1, <3>3, <3>4 DEF ProcessRow, AllTyped
  <2>. QED
    BY <2>1 DEF Typed
<1>10. rows[next] = StoredRow(t, t.rows[next])
  BY <1>4, <1>7
<1>11. ProcessedRow(StoredRow(t, t.rows[next])) = ReadyRow(t, t.rows[next])
  BY <1>1, <1>3, <1>7, <1>8, <1>9, ProcessedRowReady
<1>12. rows' = [rows EXCEPT ![next] = ReadyRow(t, t.rows[next])]
  <2>1. rows' = [rows EXCEPT ![next] = ProcessedRow(rows[next])]
    BY <1>2, <1>6 DEF ProcessRow
  <2>. QED
    BY <1>10, <1>11, <2>1
<1>13. UNCHANGED <<job, loaded, keys>> /\ cursor' = next
  BY <1>2, <1>6 DEF ProcessRow
<1>14. ASSUME NEW r \in 1 .. m
       PROVE  rows'[r] = IF r <= next THEN ReadyRow(t, t.rows[r]) ELSE StoredRow(t, t.rows[r])
  <2>1. CASE r = next
    <3>1. rows'[r] = ReadyRow(t, t.rows[next])
      BY <1>4, <1>12, <2>1
    <3>2. r <= next
      BY <1>7, <2>1
    <3>. QED
      BY <2>1, <3>1, <3>2
  <2>2. CASE r # next
    <3>1. rows'[r] = rows[r]
      BY <1>4, <1>12, <2>2
    <3>2. (r <= n) <=> (r <= next)
      BY <1>6, <2>2
    <3>. QED
      BY <1>4, <3>1, <3>2
  <2>. QED
    BY <2>1, <2>2
<1>15. rows' = [r \in 1 .. m |-> rows'[r]]
  BY <1>4, <1>12
<1>16. rows' = RowsTo(t, next)
  BY <1>3, <1>14, <1>15 DEF RowsTo
<1>17. Table' = t
  BY <1>1, <1>13 DEF Table
<1>18. keys' = ReadyKeys(Table)' /\ rows' = RowsTo(Table, cursor)'
  BY <1>8, <1>13, <1>16, <1>17, SameKeys, SameRows
<1>19. BasesKnown(Table)' /\ Typed(Table)'
  BY <1>8, <1>9, <1>17 DEF BasesKnown, Typed
<1>20. next \in Nat
  BY <1>7
<1>. QED
  BY <1>13, <1>18, <1>19, <1>20 DEF RowsRight

LEMMA StepBeginColumns ==
  ASSUME ColumnsHold(Table), BeginColumns
  PROVE  ColumnsRight'
<1>1. PICK t : t = Table
  OBVIOUS
<1>2. UNCHANGED <<job, loaded>> /\ cursor' = 0 /\ keys' = t.types
      /\ rows' = [r \in DOMAIN t.rows |-> StoredColumns(t, t.rows[r])]
  BY <1>1 DEF BeginColumns
<1>3. \A r \in DOMAIN t.rows : StoredColumns(t, t.rows[r]) = ReadyColumns(t, t.rows[r], 0)
  BY <1>1, ReadyNone
<1>4. rows' = ColumnsTo(t, 0)
  BY <1>2, <1>3 DEF ColumnsTo
<1>5. Table' = t
  BY <1>1, <1>2 DEF Table
<1>6. rows' = ColumnsTo(Table, cursor)'
  BY <1>2, <1>4, <1>5, SameColumns
<1>7. \A c \in DOMAIN t.types : ~(c <= 0)
  BY <1>1 DEF ColumnsHold, IsList
<1>8. \A c \in DOMAIN Table'.types : c <= cursor' => Table'.types[c] \in DOMAIN Width
  BY <1>2, <1>5, <1>7
<1>. QED
  BY <1>2, <1>5, <1>6, <1>8 DEF ColumnsRight

LEMMA StepFixColumn ==
  ASSUME ColumnsHold(Table), ~job.big, ColumnsRight, FixColumn
  PROVE  ColumnsRight'
<1>1. PICK t : t = Table
  OBVIOUS
<1>2. PICK n \in Nat : n = cursor
  BY DEF ColumnsRight
<1>3. keys = t.types /\ rows = ColumnsTo(t, n)
  BY <1>1, <1>2 DEF ColumnsRight
<1>4. PICK m \in Nat : m = Len(t.types) /\ DOMAIN t.types = 1 .. m
  BY <1>1 DEF ColumnsHold, IsList
<1>5. n < m /\ t.types[n + 1] \in DOMAIN Width
  BY <1>2, <1>3, <1>4 DEF FixColumn, AtColumn
<1>6. n \in 0 .. Len(t.types) - 1 /\ n + 1 \in DOMAIN t.types
  BY <1>4, <1>5
<1>7. UNCHANGED <<job, loaded, keys>> /\ cursor' = n + 1
  BY <1>2 DEF FixColumn
<1>8. rows' = ColumnsTo(t, n + 1)
  <2>1. CASE t.types[n + 1] # "StringPtr"
    <3>1. rows' = rows
      BY <1>2, <1>3, <2>1 DEF FixColumn
    <3>2. \A r \in DOMAIN t.rows :
            ReadyColumns(t, t.rows[r], n) = ReadyColumns(t, t.rows[r], n + 1)
      BY <1>1, <1>5, <1>6, <2>1, NumbersFixed
    <3>3. ColumnsTo(t, n) = ColumnsTo(t, n + 1)
      BY <3>2 DEF ColumnsTo
    <3>. QED
      BY <1>3, <3>1, <3>3
  <2>2. CASE t.types[n + 1] = "StringPtr"
    <3>1. PICK c : c = <<ColumnOffset(t.types, n + 1), "StringPtr">>
      OBVIOUS
    <3>. DEFINE Fixed(R) ==
           [i \in DOMAIN R |->
             IF Covers(c, i) THEN PointerTo(Number(Cell(R, c[1], 4)))[i - c[1]] ELSE R[i]]
    <3>2. rows' = [r \in DOMAIN rows |-> Fixed(rows[r])]
      BY <1>2, <1>3, <2>2, <3>1 DEF FixColumn
    <3>3. DOMAIN rows = DOMAIN t.rows
          /\ \A r \in DOMAIN t.rows : rows[r] = ReadyColumns(t, t.rows[r], n)
      BY <1>3 DEF ColumnsTo
    <3>4. ASSUME NEW r \in DOMAIN t.rows
          PROVE  Fixed(rows[r]) = ReadyColumns(t, t.rows[r], n + 1)
      <4>1. PICK R : R = ReadyColumns(t, t.rows[r], n)
        OBVIOUS
      <4>2. Fixed(R) = ReadyColumns(t, t.rows[r], n + 1)
        BY <1>1, <1>6, <2>2, <3>1, <4>1, StringsFixed
      <4>. QED
        BY <3>3, <4>1, <4>2
    <3>. HIDE DEF Fixed
    <3>5. rows' = [r \in DOMAIN t.rows |-> ReadyColumns(t, t.rows[r], n + 1)]
      BY <3>2, <3>3, <3>4
    <3>. QED
      BY <3>5 DEF ColumnsTo
  <2>. QED
    BY <2>1, <2>2
<1>9. Table' = t
  BY <1>1, <1>7 DEF Table
<1>10. rows' = ColumnsTo(Table, cursor)'
  BY <1>7, <1>8, <1>9, SameColumns
<1>11. ASSUME NEW c \in DOMAIN t.types, c <= n + 1 PROVE t.types[c] \in DOMAIN Width
  <2>1. CASE c = n + 1
    BY <1>5, <2>1
  <2>2. CASE c # n + 1
    <3>1. c <= n
      BY <1>4, <1>11, <2>2
    <3>. QED
      BY <1>1, <1>2, <3>1 DEF ColumnsRight
  <2>. QED
    BY <2>1, <2>2
<1>12. n + 1 \in Nat
  OBVIOUS
<1>. QED
  BY <1>3, <1>7, <1>9, <1>10, <1>11, <1>12 DEF ColumnsRight

(* A table that is done is loaded as the file has it.                      *)
LEMMA EndTableReady ==
  ASSUME job \in Jobs, job # NoFile, TablesRight,
         step = "rows" => RowsRight, step = "columns" => ColumnsRight, EndTable
  PROVE  \E l : loaded' = Append(loaded, l) /\ IsLoaded(l, Table)
<1>1. PICK t : t = Table
  OBVIOUS
<1>2. PICK l : l = [names |-> IF job.version = "V1" THEN data["names"] ELSE <<>>,
                    strings |-> IF job.version = "V1" THEN data["strings"] ELSE Table.strings,
                    keys |-> keys, rows |-> rows]
  OBVIOUS
<1>3. loaded' = Append(loaded, l)
  BY <1>2 DEF EndTable
<1>4. PICK T : loaded \in Seq(T)
  BY DEF TablesRight
<1>5. CASE step = "rows"
  <2>1. job.version = "V1" /\ stage = "loaded" /\ Len(loaded) < Len(job.tables)
    BY <1>5 DEF TablesRight
  <2>2. data["names"] = t.names /\ data["strings"] = t.strings
    BY <1>1, <1>5, <2>1 DEF TablesRight, Plain, Sections
  <2>3. PlainTable(t) /\ CellsApart(t) /\ OwnNames(t)
    BY <1>1, <1>4, <2>1, TableKnown
  <2>4. PICK m \in Nat : m = Len(t.rows) /\ DOMAIN t.rows = 1 .. m
    BY <2>3 DEF PlainTable, IsList
  <2>5. rows = RowsTo(t, cursor) /\ keys = ReadyKeys(t) /\ BasesKnown(t)
        /\ (cursor # 0 => Typed(t))
    BY <1>1, <1>5 DEF RowsRight
  <2>6. Len(rows) = m
    <3>1. DOMAIN rows = 1 .. m /\ rows = [r \in 1 .. m |-> rows[r]]
      BY <2>4, <2>5 DEF RowsTo
    <3>. QED
      BY <3>1, ListLen
  <2>7. cursor = m
    BY <1>5, <2>6 DEF EndTable
  <2>8. rows = [r \in DOMAIN t.rows |-> ReadyRow(t, t.rows[r])]
    BY <2>4, <2>5, <2>7 DEF RowsTo
  <2>9. DOMAIN t.rows # {} => Typed(t)
    BY <2>4, <2>5, <2>7
  <2>10. l.names = t.names /\ l.strings = t.strings /\ l.keys = keys /\ l.rows = rows
    BY <1>2, <2>1, <2>2
  <2>11. Loaded1(l, t)
    BY <2>5, <2>8, <2>9, <2>10 DEF Loaded1
  <2>. QED
    BY <1>1, <1>3, <2>1, <2>3, <2>11 DEF IsLoaded
<1>6. CASE step = "columns"
  <2>1. job.version # "V1" /\ Len(loaded) < Len(job.tables)
    BY <1>6 DEF TablesRight
  <2>2. ColumnsHold(t)
    BY <1>1, <1>4, <2>1, TableKnown
  <2>3. PICK m \in Nat : m = Len(t.types) /\ DOMAIN t.types = 1 .. m
    BY <2>2 DEF ColumnsHold, IsList
  <2>4. keys = t.types /\ rows = ColumnsTo(t, cursor)
        /\ \A c \in DOMAIN t.types : c <= cursor => t.types[c] \in DOMAIN Width
    BY <1>1, <1>6 DEF ColumnsRight
  <2>5. cursor = m
    BY <1>6, <2>3, <2>4 DEF EndTable
  <2>6. \A c \in DOMAIN t.types : t.types[c] \in DOMAIN Width
    BY <2>3, <2>4, <2>5
  <2>7. l.strings = t.strings /\ l.keys = keys /\ l.rows = rows
    BY <1>1, <1>2, <2>1
  <2>8. Loaded4(l, t)
    BY <2>3, <2>4, <2>5, <2>6, <2>7 DEF Loaded4
  <2>. QED
    BY <1>1, <1>3, <2>1, <2>2, <2>8 DEF IsLoaded
<1>. QED
  BY <1>5, <1>6 DEF EndTable

LEMMA StepEndTable ==
  ASSUME job \in Jobs, job # NoFile, TablesRight, LoadedRight,
         step = "rows" => RowsRight, step = "columns" => ColumnsRight, EndTable
  PROVE  LoadedRight'
<1>1. PICK l : loaded' = Append(loaded, l) /\ IsLoaded(l, Table)
  BY EndTableReady
<1>2. PICK T : loaded \in Seq(T)
  BY DEF TablesRight
<1>3. /\ DOMAIN loaded' = 1 .. Len(loaded) + 1
      /\ loaded'[Len(loaded) + 1] = l
      /\ \A i \in 1 .. Len(loaded) : loaded'[i] = loaded[i]
      /\ Len(loaded) \in Nat /\ DOMAIN loaded = 1 .. Len(loaded)
  <2>1. loaded \in Seq(T \cup {l}) /\ l \in T \cup {l}
    BY <1>2, SeqMonotonic
  <2>. QED
    BY <1>1, <2>1
<1>4. job' = job
  BY DEF EndTable
<1>5. ASSUME NEW i \in DOMAIN loaded' PROVE IsLoaded(loaded'[i], job.tables[i])
  <2>1. CASE i = Len(loaded) + 1
    <3>1. Table = job.tables[i]
      BY <2>1 DEF Table
    <3>. QED
      BY <1>1, <1>3, <2>1, <3>1
  <2>2. CASE i # Len(loaded) + 1
    <3>1. i \in DOMAIN loaded /\ loaded'[i] = loaded[i]
      BY <1>3, <2>2
    <3>. QED
      BY <3>1 DEF LoadedRight
  <2>. QED
    BY <2>1, <2>2
<1>6. ASSUME NEW i \in DOMAIN loaded' PROVE IsLoaded(loaded[i], job.tables[i])'
  <2>1. PICK x : x = loaded'[i]
    OBVIOUS
  <2>2. PICK t : t = job.tables[i]
    OBVIOUS
  <2>3. IsLoaded(x, t)
    BY <1>5, <2>1, <2>2
  <2>4. IsLoaded(x, t)'
    BY <1>4, <2>3, SameLoaded
  <2>5. job'.tables[i] = t
    BY <1>4, <2>2
  <2>. QED
    BY <2>1, <2>4, <2>5
<1>. QED
  BY <1>6 DEF LoadedRight

(***************************************************************************)
(* What is written.                                                        *)
(***************************************************************************)
LEMMA SentKept ==
  ASSUME UNCHANGED <<job, sent>>, SentRight,
         \/ step \notin {"loaded", "failed", "endless", "done"}
         \/ step' \in {"loaded", "failed", "endless", "done"}
  PROVE  SentRight'
<1>1. \A t : SaysTable(t)' = SaysTable(t)
  BY SameSays
<1>2. Extracting' <=> Extracting
  BY DEF Extracting
<1>3. SentApart => SentApart'
  <2>. SUFFICES ASSUME SentApart PROVE SentApart'
    OBVIOUS
  <2>1. ASSUME NEW i \in DOMAIN sent, sent[i].text # <<>>
        PROVE  sent[i].text = <<SaysTable(job.tables[i])'>>
    <3>1. PICK t : t = job.tables[i]
      OBVIOUS
    <3>2. sent[i].text = <<SaysTable(t)>>
      BY <2>1, <3>1 DEF SentApart
    <3>3. SaysTable(t)' = SaysTable(t) /\ t = job'.tables[i]
      BY <1>1, <3>1
    <3>. QED
      BY <3>2, <3>3
  <2>. QED
    BY <2>1 DEF SentApart
<1>4. ASSUME NEW token, NEW i
      PROVE  IsMember(token, job.tables[i]) => IsMember(token, job.tables[i])'
  <2>1. PICK t : t = job.tables[i]
    OBVIOUS
  <2>2. SaysTable(t)' = SaysTable(t) /\ t = job'.tables[i]
    BY <1>1, <2>1
  <2>. QED
    BY <2>1, <2>2 DEF IsMember
<1>5. SentTogether => SentTogether'
  <2>. SUFFICES ASSUME SentTogether PROVE SentTogether'
    OBVIOUS
  <2>1. CASE sent = <<>>
    BY <2>1 DEF SentTogether
  <2>2. CASE sent # <<>>
    <3>1. PICK file :
            /\ sent = <<file>>
            /\ file = [name |-> file.name, text |-> file.text]
            /\ \E T : file.text \in Seq(T)
            /\ Len(file.text) >= 1
            /\ \A i \in 1 .. Len(file.text) - 1 : IsMember(file.text[i + 1], job.tables[i])
      BY <2>2 DEF SentTogether
    <3>2. \A i \in 1 .. Len(file.text) - 1 : IsMember(file.text[i + 1], job.tables[i])'
      BY <1>4, <3>1
    <3>3. sent' = <<file>>
      BY <3>1
    <3>. QED
      BY <3>1, <3>2, <3>3 DEF SentTogether
  <2>. QED
    BY <2>1, <2>2
<1>. QED
  BY <1>2, <1>3, <1>5 DEF SentRight

(* A table that is written says what the table of the file says.           *)
LEMMA SaysLoaded ==
  ASSUME job \in Jobs, job # NoFile, TablesRight, LoadedRight,
         NEW i \in Nat \ {0}, i <= Len(loaded), Convertible(loaded[i])
  PROVE  ToJSON(loaded[i]) = SaysTable(job.tables[i])
<1>1. PICK T : loaded \in Seq(T)
  BY DEF TablesRight
<1>2. i \in DOMAIN loaded
  BY <1>1
<1>. QED
  BY <1>2, TableReads DEF LoadedRight

LEMMA SentLonger ==
  ASSUME job' = job, SentApart, NEW file, sent' = Append(sent, file),
         file.text # <<>> => file.text = <<SaysTable(job.tables[Len(sent) + 1])>>
  PROVE  SentApart'
<1>1. PICK T : sent \in Seq(T)
  BY DEF SentApart
<1>2. /\ sent' \in Seq(T \cup {file})
      /\ DOMAIN sent' = 1 .. Len(sent) + 1
      /\ sent'[Len(sent) + 1] = file
      /\ \A i \in 1 .. Len(sent) : sent'[i] = sent[i]
      /\ Len(sent) \in Nat /\ DOMAIN sent = 1 .. Len(sent)
  <2>1. sent \in Seq(T \cup {file}) /\ file \in T \cup {file}
    BY <1>1, SeqMonotonic
  <2>. QED
    BY <2>1
<1>3. ASSUME NEW i \in DOMAIN sent', sent'[i].text # <<>>
      PROVE  sent'[i].text = <<SaysTable(job.tables[i])'>>
  <2>1. PICK t : t = job.tables[i]
    OBVIOUS
  <2>2. sent'[i].text = <<SaysTable(t)>>
    <3>1. CASE i = Len(sent) + 1
      BY <1>2, <1>3, <2>1, <3>1
    <3>2. CASE i # Len(sent) + 1
      <4>1. i \in DOMAIN sent /\ sent'[i] = sent[i]
        BY <1>2, <3>2
      <4>. QED
        BY <1>3, <2>1, <4>1 DEF SentApart
    <3>. QED
      BY <3>1, <3>2
  <2>3. SaysTable(t)' = SaysTable(t) /\ t = job'.tables[i]
    BY <2>1, SameSays
  <2>. QED
    BY <2>2, <2>3
<1>. QED
  BY <1>2, <1>3 DEF SentApart

LEMMA FileLonger ==
  ASSUME job' = job, SentTogether, sent # <<>>, NEW token,
         sent' = [sent EXCEPT ![1].text = Append(@, token)],
         IsMember(token, job.tables[Len(sent[1].text)])
  PROVE  SentTogether'
<1>1. PICK file :
        /\ sent = <<file>>
        /\ file = [name |-> file.name, text |-> file.text]
        /\ \E T : file.text \in Seq(T)
        /\ Len(file.text) >= 1
        /\ \A i \in 1 .. Len(file.text) - 1 : IsMember(file.text[i + 1], job.tables[i])
  BY DEF SentTogether
<1>2. PICK T : file.text \in Seq(T)
  BY <1>1
<1>3. PICK old : old = file.text
  OBVIOUS
<1>4. PICK new : new = Append(old, token)
  OBVIOUS
<1>5. /\ new \in Seq(T \cup {token})
      /\ Len(new) = Len(old) + 1 /\ Len(old) \in Nat
      /\ new[Len(old) + 1] = token
      /\ \A i \in 1 .. Len(old) : new[i] = old[i]
  <2>1. old \in Seq(T \cup {token}) /\ token \in T \cup {token}
    BY <1>2, <1>3, SeqMonotonic
  <2>. QED
    BY <1>4, <2>1
<1>6. PICK longer : longer = [name |-> file.name, text |-> new]
  OBVIOUS
<1>7. sent' = <<longer>>
  <2>1. sent[1] = file /\ sent[1].text = old
    BY <1>1, <1>3
  <2>2. sent' = [sent EXCEPT ![1] = [sent[1] EXCEPT !.text = Append(sent[1].text, token)]]
    OBVIOUS
  <2>3. [file EXCEPT !.text = new] = longer
    <3>1. PICK n : n = file.name
      OBVIOUS
    <3>2. file = [name |-> n, text |-> old]
      BY <1>1, <1>3, <3>1
    <3>3. [[name |-> n, text |-> old] EXCEPT !.text = new] = [name |-> n, text |-> new]
      OBVIOUS
    <3>. QED
      BY <1>6, <3>1, <3>2, <3>3
  <2>4. sent' = [sent EXCEPT ![1] = longer]
    BY <1>4, <2>1, <2>2, <2>3
  <2>5. sent = <<file>>
    BY <1>1
  <2>. QED
    BY <2>4, <2>5, SMTT(20)
<1>8. longer.text = new /\ longer = [name |-> longer.name, text |-> longer.text]
  BY <1>6
<1>9. ASSUME NEW i \in 1 .. Len(new) - 1 PROVE IsMember(new[i + 1], job.tables[i])'
  <2>1. PICK t : t = job.tables[i]
    OBVIOUS
  <2>2. PICK x : x = new[i + 1]
    OBVIOUS
  <2>3. IsMember(x, t)
    <3>1. CASE i = Len(old)
      <4>1. x = token /\ t = job.tables[Len(sent[1].text)]
        BY <1>1, <1>3, <1>5, <2>1, <2>2, <3>1
      <4>. QED
        BY <4>1
    <3>2. CASE i # Len(old)
      <4>1. i \in 1 .. Len(old) - 1 /\ i + 1 \in 1 .. Len(old)
        BY <1>5, <3>2
      <4>2. x = old[i + 1]
        BY <1>5, <2>2, <4>1
      <4>. QED
        BY <1>1, <1>3, <2>1, <4>1, <4>2
    <3>. QED
      BY <3>1, <3>2
  <2>4. SaysTable(t)' = SaysTable(t) /\ t = job'.tables[i]
    BY <2>1, SameSays
  <2>5. IsMember(x, t)'
    BY <2>3, <2>4 DEF IsMember
  <2>. QED
    BY <2>2, <2>4, <2>5
<1>10. Len(new) >= 1
  BY <1>5
<1>. QED
  BY <1>5, <1>7, <1>8, <1>9, <1>10 DEF SentTogether

LEMMA LoadedKept ==
  ASSUME UNCHANGED <<job, loaded>>, LoadedRight
  PROVE  LoadedRight'
<1>1. ASSUME NEW i \in DOMAIN loaded PROVE IsLoaded(loaded[i], job.tables[i])'
  <2>1. PICK l : l = loaded[i]
    OBVIOUS
  <2>2. PICK t : t = job.tables[i]
    OBVIOUS
  <2>3. IsLoaded(l, t)
    BY <2>1, <2>2 DEF LoadedRight
  <2>4. IsLoaded(l, t)'
    BY <2>3, SameLoaded
  <2>5. loaded'[i] = l /\ job'.tables[i] = t
    BY <2>1, <2>2
  <2>. QED
    BY <2>4, <2>5
<1>. QED
  BY <1>1 DEF LoadedRight

LEMMA AtHandKept ==
  ASSUME UNCHANGED <<job, loaded, keys, rows, cursor>>
  PROVE  /\ KeysRight => KeysRight'
         /\ RowsRight => RowsRight'
         /\ ColumnsRight => ColumnsRight'
<1>1. PICK t : t = Table
  OBVIOUS
<1>2. t = Table'
  BY <1>1 DEF Table
<1>3. PICK n : n = cursor /\ n = cursor'
  OBVIOUS
<1>4. /\ KeysTo(Table, cursor)' = KeysTo(Table, cursor)
      /\ RowsTo(Table, cursor)' = RowsTo(Table, cursor)
      /\ RowsTo(Table, 0)' = RowsTo(Table, 0)
      /\ ColumnsTo(Table, cursor)' = ColumnsTo(Table, cursor)
      /\ ReadyKeys(Table)' = ReadyKeys(Table)
  BY <1>1, <1>2, <1>3, SameKeys, SameRows, SameColumns
<1>5. KeysRight => KeysRight'
  BY <1>1, <1>2, <1>4 DEF KeysRight
<1>6. RowsRight => RowsRight'
  BY <1>1, <1>2, <1>4 DEF RowsRight, BasesKnown, Typed
<1>7. ColumnsRight => ColumnsRight'
  BY <1>1, <1>2, <1>4 DEF ColumnsRight
<1>. QED
  BY <1>5, <1>6, <1>7

LEMMA StepWrites ==
  ASSUME job \in Jobs, job # NoFile, job.tool = "json", TablesRight, JsonRight,
         SendTable \/ RefuseFlags \/ CircleTable \/ OpenFile \/ WriteTable \/ RefuseMember
           \/ CircleMember \/ SaveBuffer \/ EndFile \/ AllDone
  PROVE  JsonRight'
<1>1. UNCHANGED <<job, loaded>> /\ step' \in {"loaded", "failed", "endless", "done"}
  BY DEF SendTable, RefuseFlags, AtTable, OpenFile, WriteTable, RefuseMember, Together,
         CircleTable, CircleMember, LoopForEver, SaveBuffer, EndFile, AllDone, allVars, tableVars
<1>2. LoadedRight'
  BY <1>1, LoadedKept DEF JsonRight
<1>3. Extracting' <=> Extracting
  BY <1>1 DEF Extracting
<1>4. SentRight /\ LoadedRight
  BY DEF JsonRight
<1>5. PICK T : loaded \in Seq(T)
  BY DEF TablesRight
<1>6. CASE SendTable
  <2>1. Extracting
    BY <1>6 DEF SendTable, AtTable
  <2>2. SentApart
    BY <1>4, <2>1 DEF SentRight
  <2>3. PICK i : i = Len(sent) + 1
    OBVIOUS
  <2>4. i \in Nat \ {0} /\ i <= Len(loaded) /\ Convertible(loaded[i])
    <3>1. Len(sent) \in Nat /\ Len(loaded) \in Nat
      BY <1>5, <2>2 DEF SentApart
    <3>. QED
      BY <1>6, <2>3, <3>1 DEF SendTable, AtTable
  <2>5. ToJSON(loaded[i]) = SaysTable(job.tables[i])
    BY <1>4, <2>4, SaysLoaded
  <2>6. PICK file : file = [name |-> TableName(i), text |-> <<ToJSON(loaded[i])>>]
    OBVIOUS
  <2>7. sent' = Append(sent, file)
    BY <1>6, <2>3, <2>6 DEF SendTable
  <2>8. file.text = <<SaysTable(job.tables[Len(sent) + 1])>>
    BY <2>3, <2>5, <2>6
  <2>9. SentApart'
    BY <1>1, <2>2, <2>7, <2>8, SentLonger
  <2>. QED
    BY <1>1, <1>2, <1>3, <2>1, <2>9 DEF JsonRight, SentRight
<1>7. CASE RefuseFlags \/ CircleTable
  <2>1. Extracting
    BY <1>7 DEF RefuseFlags, CircleTable, AtTable
  <2>2. SentApart
    BY <1>4, <2>1 DEF SentRight
  <2>3. PICK file : file = [name |-> TableName(Len(sent) + 1), text |-> <<>>]
    OBVIOUS
  <2>4. sent' = Append(sent, file) /\ file.text = <<>>
    BY <1>7, <2>3 DEF RefuseFlags, CircleTable
  <2>5. SentApart'
    BY <1>1, <2>2, <2>4, SentLonger
  <2>. QED
    BY <1>1, <1>2, <1>3, <2>1, <2>5 DEF JsonRight, SentRight
<1>8. CASE OpenFile
  <2>1. ~Extracting
    BY <1>8 DEF OpenFile, Together
  <2>2. PICK file : file = [name |-> "file", text |-> <<[token |-> "{"]>>]
    OBVIOUS
  <2>3. sent' = <<file>> /\ file.text = <<[token |-> "{"]>>
        /\ file = [name |-> file.name, text |-> file.text]
    BY <1>8, <2>2 DEF OpenFile
  <2>4. PICK x : x = [token |-> "{"]
    OBVIOUS
  <2>5. <<x>> \in Seq({x}) /\ Len(<<x>>) = 1
    OBVIOUS
  <2>6. file.text = <<x>>
    BY <2>3, <2>4
  <2>7. (\E S : file.text \in Seq(S)) /\ Len(file.text) >= 1
        /\ \A i \in 1 .. Len(file.text) - 1 : IsMember(file.text[i + 1], job.tables[i])'
    <3>1. 1 .. Len(file.text) - 1 = {}
      BY <2>5, <2>6
    <3>2. \E S : file.text \in Seq(S)
      BY <2>5, <2>6
    <3>3. Len(file.text) >= 1
      BY <2>5, <2>6
    <3>. QED
      BY <3>1, <3>2, <3>3
  <2>8. SentTogether'
    <3>1. sent' = <<file>> /\ file = [name |-> file.name, text |-> file.text]
      BY <2>3
    <3>. QED
      BY <2>7, <3>1 DEF SentTogether
  <2>. QED
    BY <1>1, <1>2, <1>3, <2>1, <2>8 DEF JsonRight, SentRight
<1>9. CASE WriteTable
  <2>1. ~Extracting /\ sent # <<>>
    BY <1>9 DEF WriteTable, Together
  <2>2. SentTogether
    BY <1>4, <2>1 DEF SentRight
  <2>3. PICK i : i = Written + 1
    OBVIOUS
  <2>4. i = Len(sent[1].text) /\ i \in Nat \ {0}
    BY <2>1, <2>2, <2>3 DEF SentTogether, Written
  <2>5. i <= Len(loaded) /\ Convertible(loaded[i])
    <3>1. Len(loaded) \in Nat
      BY <1>5
    <3>. QED
      BY <1>9, <2>3, <2>4, <3>1 DEF WriteTable, Written
  <2>6. ToJSON(loaded[i]) = SaysTable(job.tables[i])
    BY <1>4, <2>4, <2>5, SaysLoaded
  <2>7. PICK token : token = [token |-> "member", name |-> MemberName(i), text |-> ToJSON(loaded[i])]
    OBVIOUS
  <2>8. sent' = [sent EXCEPT ![1].text = Append(@, token)]
    BY <1>9, <2>3, <2>7 DEF WriteTable
  <2>9. IsMember(token, job.tables[Len(sent[1].text)])
    BY <2>4, <2>6, <2>7 DEF IsMember
  <2>10. SentTogether'
    BY <1>1, <2>1, <2>2, <2>8, <2>9, FileLonger
  <2>. QED
    BY <1>1, <1>2, <1>3, <2>1, <2>10 DEF JsonRight, SentRight
<1>10. CASE RefuseMember \/ CircleMember
  <2>1. ~Extracting /\ sent # <<>>
    BY <1>10 DEF RefuseMember, CircleMember, Together
  <2>2. SentTogether
    BY <1>4, <2>1 DEF SentRight
  <2>3. PICK token : token = [token |-> "name", name |-> MemberName(Written + 1)]
    OBVIOUS
  <2>4. sent' = [sent EXCEPT ![1].text = Append(@, token)]
    BY <1>10, <2>3 DEF RefuseMember, CircleMember
  <2>5. IsMember(token, job.tables[Len(sent[1].text)])
    BY <2>3 DEF IsMember
  <2>6. SentTogether'
    BY <1>1, <2>1, <2>2, <2>4, <2>5, FileLonger
  <2>. QED
    BY <1>1, <1>2, <1>3, <2>1, <2>6 DEF JsonRight, SentRight
<1>11. CASE SaveBuffer
  BY <1>11 DEF SaveBuffer
<1>12. CASE EndFile \/ AllDone
  <2>1. UNCHANGED <<job, sent>>
    BY <1>12 DEF EndFile, AllDone, allVars, tableVars
  <2>2. SentRight'
    BY <1>1, <1>4, <2>1, SentKept
  <2>. QED
    BY <1>1, <1>2, <2>2 DEF JsonRight
<1>. QED
  BY <1>6, <1>7, <1>8, <1>9, <1>10, <1>11, <1>12

LEMMA StepMakesReady ==
  ASSUME job \in Jobs, job # NoFile, job.tool = "json", TablesRight, JsonRight,
         ProcessClass, sent' = sent
  PROVE  JsonRight'
<1>1. job' = job
  BY DEF ProcessClass, Check, RefuseFile, RefuseTable, BeginTable, DecryptTable, KeepTable,
         EnterKeys, ProcessKey, RefuseKey, EnterRows, ProcessRow, RefuseRow, BeginColumns,
         FixColumn, RefuseColumn, CircleRows, CircleColumns, LoopForEver, EndTable, EndTables,
         Fail, tableVars
<1>2. step \notin {"loaded", "failed", "endless", "done"}
  BY DEF ProcessClass, Check, RefuseFile, RefuseTable, BeginTable, Taken, MoreTables,
         DecryptTable, KeepTable, EnterKeys, ProcessKey, RefuseKey, AtKey, EnterRows,
         ProcessRow, RefuseRow, AtRow, BeginColumns, FixColumn, RefuseColumn, AtColumn,
         CircleRows, InRows, CircleColumns, EndTable, EndTables
<1>3. SentRight'
  BY <1>1, <1>2, SentKept DEF JsonRight
<1>4. PICK T : loaded \in Seq(T)
  BY DEF TablesRight
<1>5. step \in {"sections", "keys", "rows"} => PlainTable(Table) /\ CellsApart(Table)
  BY <1>4, TableKnown DEF TablesRight
<1>6. /\ step = "keys" => KeysRight
      /\ step = "rows" => RowsRight
      /\ step = "columns" => ColumnsRight
      /\ LoadedRight
  BY DEF JsonRight
<1>7. CASE EndTable
  <2>1. LoadedRight'
    BY <1>6, <1>7, StepEndTable
  <2>2. step' = "tables"
    BY <1>7 DEF EndTable
  <2>. QED
    BY <1>3, <2>1, <2>2 DEF JsonRight
<1>8. CASE ~EndTable
  <2>0. ~KeepTable
    BY DEF KeepTable
  <2>1. loaded' = loaded
    BY <1>8, <2>0
       DEF ProcessClass, Check, RefuseFile, RefuseTable, BeginTable, DecryptTable,
           EnterKeys, ProcessKey, RefuseKey, EnterRows, ProcessRow, RefuseRow, BeginColumns,
           FixColumn, RefuseColumn, CircleRows, CircleColumns, LoopForEver, EndTables, Fail,
           tableVars
  <2>2. LoadedRight'
    BY <1>1, <1>6, <2>1, LoadedKept
  <2>3. CASE EnterKeys
    <3>1. step = "sections" /\ step' = "keys"
      BY <2>3 DEF EnterKeys
    <3>2. KeysRight'
      BY <1>5, <2>3, <3>1, StepEnterKeys
    <3>. QED
      BY <1>3, <2>2, <3>1, <3>2 DEF JsonRight
  <2>4. CASE ProcessKey
    <3>1. step = "keys" /\ step' = "keys"
      BY <2>4 DEF ProcessKey, AtKey
    <3>2. KeysRight'
      BY <1>5, <1>6, <2>4, <3>1, StepProcessKey
    <3>. QED
      BY <1>3, <2>2, <3>1, <3>2 DEF JsonRight
  <2>5. CASE EnterRows
    <3>1. step = "keys" /\ step' = "rows"
      BY <2>5 DEF EnterRows
    <3>2. RowsRight'
      BY <1>5, <1>6, <2>5, <3>1, StepEnterRows
    <3>. QED
      BY <1>3, <2>2, <3>1, <3>2 DEF JsonRight
  <2>6. CASE ProcessRow
    <3>1. step = "rows" /\ step' = "rows"
      BY <2>6 DEF ProcessRow, AtRow
    <3>2. RowsRight'
      BY <1>5, <1>6, <2>6, <3>1, StepProcessRow
    <3>. QED
      BY <1>3, <2>2, <3>1, <3>2 DEF JsonRight
  <2>7. CASE BeginColumns
    <3>1. step' = "columns" /\ Len(loaded) < Len(job.tables) /\ job.version = "V4"
      BY <2>7 DEF BeginColumns, Taken, MoreTables
    <3>2. ColumnsHold(Table)
      BY <1>4, <3>1, TableKnown
    <3>3. ColumnsRight'
      BY <2>7, <3>2, StepBeginColumns
    <3>. QED
      BY <1>3, <2>2, <3>1, <3>3 DEF JsonRight
  <2>8. CASE FixColumn
    <3>1. step = "columns" /\ step' = "columns"
      BY <2>8 DEF FixColumn, AtColumn
    <3>2. ColumnsHold(Table) /\ ~job.big
      BY <1>4, <3>1, TableKnown DEF TablesRight
    <3>3. ColumnsRight'
      BY <1>6, <2>8, <3>1, <3>2, StepFixColumn
    <3>. QED
      BY <1>3, <2>2, <3>1, <3>3 DEF JsonRight
  <2>9. CASE Check \/ RefuseFile \/ RefuseTable \/ BeginTable \/ DecryptTable \/ RefuseKey
             \/ RefuseRow \/ RefuseColumn \/ CircleRows \/ CircleColumns \/ EndTables
    <3>1. step' \notin {"keys", "rows", "columns"}
      BY <2>9 DEF Check, RefuseFile, RefuseTable, BeginTable, DecryptTable, RefuseKey,
                  RefuseRow, RefuseColumn, CircleRows, CircleColumns, LoopForEver, EndTables,
                  Fail, tableVars
    <3>. QED
      BY <1>3, <2>2, <3>1 DEF JsonRight
  <2>. QED
    BY <1>8, <2>0, <2>3, <2>4, <2>5, <2>6, <2>7, <2>8, <2>9 DEF ProcessClass
<1>. QED
  BY <1>7, <1>8

LEMMA RowsInvInit == JsonInit => RowsInv
<1>. SUFFICES ASSUME JsonInit, job # NoFile, job.tool = "json" PROVE JsonRight
  BY JsonInitRight DEF RowsInv
<1>1. step = "check" /\ loaded = <<>> /\ sent = <<>>
  BY DEF JsonInit, LoadInit
<1>2. LoadedRight
  BY <1>1 DEF LoadedRight
<1>3. SentApart /\ SentTogether
  <2>1. sent \in Seq({})
    BY <1>1
  <2>. QED
    BY <1>1, <2>1 DEF SentApart, SentTogether
<1>. QED
  BY <1>1, <1>2, <1>3 DEF JsonRight, SentRight

LEMMA RowsInvStep == RowsInv /\ [JsonNext]_allVars => RowsInv'
<1>. SUFFICES ASSUME RowsInv, [JsonNext]_allVars PROVE RowsInv'
  OBVIOUS
<1>1. job' = job /\ job \in Jobs /\ JsonInv /\ JsonInv'
  BY JsonJob, JsonStep DEF RowsInv, JsonInv
<1>. SUFFICES ASSUME job # NoFile, job.tool = "json" PROVE JsonRight'
  BY <1>1 DEF RowsInv
<1>2. TablesRight /\ JsonRight
  BY DEF RowsInv, JsonInv
<1>3. CASE UNCHANGED allVars
  <2>1. UNCHANGED <<job, step, keys, rows, cursor, loaded, sent>>
    BY <1>3 DEF allVars, tableVars
  <2>2. LoadedRight'
    BY <1>2, <2>1, LoadedKept DEF JsonRight
  <2>3. SentRight'
    BY <1>2, <2>1, SentKept DEF JsonRight
  <2>. QED
    BY <1>2, <2>1, <2>2, <2>3, AtHandKept DEF JsonRight
<1>4. CASE EncryptSections
  BY <1>2, <1>4 DEF EncryptSections, CipherStep, TablesRight
<1>5. CASE ProcessClass /\ UNCHANGED sent
  BY <1>1, <1>2, <1>5, StepMakesReady
<1>6. CASE SendTable \/ RefuseFlags \/ CircleTable \/ OpenFile \/ WriteTable \/ RefuseMember
             \/ CircleMember \/ SaveBuffer \/ EndFile \/ AllDone
  BY <1>1, <1>2, <1>6, StepWrites
<1>. QED
  BY <1>3, <1>4, <1>5, <1>6 DEF JsonNext, AppProcessFile

(* What the invariant says of the files that are written.                  *)
LEMMA RowsRead == RowsInv => RowsReadBack
<1>. SUFFICES ASSUME RowsInv, job # NoFile, job.tool = "json", sent # <<>>
              PROVE  IF Extracting
                     THEN \A i \in DOMAIN sent :
                            sent[i].text # <<>> => sent[i].text = <<SaysTable(job.tables[i])>>
                     ELSE \A i \in 1 .. Written :
                            sent[1].text[i + 1].token = "member" =>
                              sent[1].text[i + 1].text = SaysTable(job.tables[i])
  BY DEF RowsReadBack
<1>1. SentRight
  BY DEF RowsInv, JsonRight
<1>2. CASE Extracting
  BY <1>1, <1>2 DEF SentRight, SentApart
<1>3. CASE ~Extracting
  <2>1. PICK file :
          /\ sent = <<file>>
          /\ \A i \in 1 .. Len(file.text) - 1 : IsMember(file.text[i + 1], job.tables[i])
    BY <1>1, <1>3 DEF SentRight, SentTogether
  <2>2. sent[1] = file
    BY <2>1
  <2>3. Written = Len(file.text) - 1
    BY <2>2 DEF Written
  <2>4. ASSUME NEW i \in 1 .. Written, sent[1].text[i + 1].token = "member"
        PROVE  sent[1].text[i + 1].text = SaysTable(job.tables[i])
    BY <2>1, <2>2, <2>3, <2>4 DEF IsMember
  <2>. QED
    BY <1>3, <2>4
<1>. QED
  BY <1>2, <1>3

(***************************************************************************)
(* Every table that bdat_to_json writes says what the table of the file    *)
(* says, of any size: whatever the byte order, each cell, array item and   *)
(* flag has been swapped, decoded and fixed up exactly once, also after    *)
(* any number of tables before it (bdat.cpp:225-440,                       *)
(* bdat_to_json.cpp:49-332).                                               *)
(***************************************************************************)
THEOREM RowsAlwaysReadBack == JsonSpec => []RowsReadBack
<1>1. JsonSpec => []RowsInv
  BY RowsInvInit, RowsInvStep, PTL DEF JsonSpec
<1>. QED
  BY <1>1, RowsRead, PTL

=============================================================================
