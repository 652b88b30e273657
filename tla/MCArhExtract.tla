---------------------------- MODULE MCArhExtract ----------------------------
(***************************************************************************)
(* Instances of ArhExtract: five-bit words, three-bit letters, two tries   *)
(* and none, each with several keys and with its file entries in every     *)
(* order, stored, compressed or broken.                                    *)
(***************************************************************************)
EXTENDS ArhExtract

MCWord == -16 .. 15
Bit(x, i) == (x \div 2 ^ i) % 2
MCXor(x, y) ==
  LET X(i) == (Bit(x, i) + Bit(y, i)) % 2
  IN  X(0) + 2 * X(1) + 4 * X(2) + 8 * X(3) - 16 * X(4)

C(a, b) == [a |-> a, b |-> b]

(* Three leaves below one topmost cell, two of them a level deeper; two    *)
(* free cells; one tail is empty.                                          *)
Branching == [
  trie  |-> <<C(1, 0), C(6, 0), C(-5, 5), C(-1, -1), C(-1, 1), C(3, 1),
              C(-7, 5), C(0, 0)>>,
  tails |-> <<1, 2, 0, 1, 0, 0, 3, 0, 2>>,
  path  |-> (4 :> <<2>>) @@ (5 :> <<3>>) @@ (2 :> <<3, 1>>) @@ (6 :> <<3, 5>>)
            @@ [n \in 0 .. 7 |-> <<>>],
  tail  |-> (4 :> <<1, 2>>) @@ (2 :> <<>>) @@ (6 :> <<3>>),
  file  |-> (4 :> 1) @@ (2 :> 0) @@ (6 :> 2)]

(* One leaf four levels deep; cell 5 is like a leaf but has no parent, and *)
(* two files have no leaf.                                                 *)
Chain == [
  trie  |-> <<C(2, 0), C(-4, -2), C(1, 0), C(5, 2), C(-2, 6), C(-2, 0), C(2, 3)>>,
  tails |-> <<7, 1, 4, 0, 2>>,
  path  |-> (3 :> <<2>>) @@ (6 :> <<2, 3>>) @@ (4 :> <<2, 3, 6>>)
            @@ [n \in 0 .. 6 |-> <<>>],
  tail  |-> (4 :> <<1, 4>>),
  file  |-> (4 :> 2)]

NoNames == [trie |-> <<C(0, 0)>>, tails |-> <<>>, path |-> (0 :> <<>>),
            tail |-> <<>>, file |-> <<>>]

FileEntry(i, kind) ==
  [index |-> i, compressed |-> kind # "stored",
   stored |-> [xbc1 |-> kind = "compressed", content |-> [of |-> i]]]

Orders == {<<0, 1, 2>>, <<2, 1, 0>>, <<1, 2, 0>>, <<0, 3, 2>>}
Entries ==
  {[i \in 1 .. 3 |-> FileEntry(order[i], kinds[i])] :
     order \in Orders, kinds \in [1 .. 3 -> {"stored", "compressed", "broken"}]}

Put(t, entries, k, seed, valid) ==
  [trie |-> t.trie, tails |-> t.tails, path |-> t.path, tail |-> t.tail,
   file |-> t.file, entries |-> entries, key |-> k, keySeed |-> seed,
   valid |-> valid]

MCArchives ==
  {Put(t, e, k, seed, TRUE) :
     t \in {Branching, Chain}, e \in Entries, k \in {5, -7}, seed \in {0, -3}}
  \cup {Put(NoNames, <<>>, 5, -3, v) : v \in BOOLEAN}
=============================================================================
