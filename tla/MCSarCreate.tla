----------------------------- MODULE MCSarCreate -----------------------------
(***************************************************************************)
(* make_sar on a small folder.  The header and the entries keep their      *)
(* proportions, not their sizes; no two files share a byte, so an entry    *)
(* that selects a wrong byte is seen.                                      *)
(***************************************************************************)
EXTENDS SarCreate, TLC

CONSTANTS f1, f2, f3, f4, t1, t2, t3

MCFiles == {f1, f2, f3, f4}

\* Longer than one block, empty, shorter than a block, never stored.
MCContent == f1 :> <<1, 2, 3>> @@ f2 :> <<>> @@ f3 :> <<4>> @@ f4 :> <<5>>

\* With NameCap = 3: roomy, room for the terminator only, roomy, too long.
MCNameLen == f1 :> 1 @@ f2 :> 2 @@ f3 :> 1 @@ f4 :> 3

MCByte == 0 .. 5

MCThreads == {t1, t2, t3}
=============================================================================
