------------------------------- MODULE SarPack -------------------------------
(***************************************************************************)
(* What packing a folder promises, whatever the threads do: every file is  *)
(* decided once, a file whose path fits is stored with its own content, a  *)
(* file whose path does not fit is left out, and the archive is closed     *)
(* only when every file has been decided.  A crash before that starts over *)
(* from nothing.                                                           *)
(***************************************************************************)
CONSTANTS
  Files,        (* The files of the folder.                                *)
  Content,      (* Their contents.                                         *)
  Fitting       (* The files whose paths fit an entry.                     *)

VARIABLES
  members,      (* The <<file, content>> pairs the archive holds.          *)
  skipped,      (* The files left out, with a warning.                     *)
  closed        (* The archive is complete.                                *)

packVars == <<members, skipped, closed>>

Stored == {m[1] : m \in members}
Undecided == Files \ (Stored \cup skipped)

Init ==
  /\ members = {}
  /\ skipped = {}
  /\ closed = FALSE

Store(f) ==
  /\ ~closed
  /\ f \in Undecided
  /\ f \in Fitting
  /\ members' = members \cup {<<f, Content[f]>>}
  /\ UNCHANGED <<skipped, closed>>

Skip(f) ==
  /\ ~closed
  /\ f \in Undecided
  /\ f \notin Fitting
  /\ skipped' = skipped \cup {f}
  /\ UNCHANGED <<members, closed>>

Close ==
  /\ ~closed
  /\ Undecided = {}
  /\ closed' = TRUE
  /\ UNCHANGED <<members, skipped>>

StartOver ==
  /\ ~closed
  /\ members' = {}
  /\ skipped' = {}
  /\ UNCHANGED closed

Next ==
  \/ \E f \in Files : Store(f) \/ Skip(f)
  \/ Close
  \/ StartOver

Spec == Init /\ [][Next]_packVars
=============================================================================
