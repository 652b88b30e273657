-------------------------- MODULE MCAsmConditions ---------------------------
(***************************************************************************)
(* Every division of up to four transitions of two names and three nodes   *)
(* among two states: no transition, a shared one, and entries that become  *)
(* arrays within a state and between states.                               *)
(***************************************************************************)
EXTENDS AsmConditions

UpTo(n) == UNION {[1 .. k -> Transition] : k \in 0 .. n}

MCGraphs == {<<a, b>> : a \in UpTo(2), b \in UpTo(2)} \cup {<<a>> : a \in UpTo(3)}
=============================================================================
