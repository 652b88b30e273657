--------------------------- MODULE AsmConditions ----------------------------
(***************************************************************************)
(* asm_to_json: how the transitions of an animation state machine become   *)
(* named conditions.  Every state keeps references to its transitions; the *)
(* transitions themselves go to "conditions", one list shared by all the   *)
(* states of the document, under their names.  Transitions of one name     *)
(* that are converted to the same node share it; the first that differs    *)
(* makes an array of the entry, and a reference then says which element it *)
(* means (ParseChildren).                                                  *)
(*                                                                         *)
(* A transition is its name and its node, the JSON it is converted to.  An *)
(* entry is the sequence of its nodes: none yet, one (a plain object) or   *)
(* more (an array).  Elements count from 0 in references, as in the file.  *)
(***************************************************************************)
EXTENDS Integers, Sequences

CONSTANTS
  Names,     (* The names of transitions.                                  *)
  Nodes,     (* What a transition may be converted to.                     *)
  Graphs,    (* The state machines: sequences of states, each the sequence *)
             (* of its transitions.                                        *)
  Whole      (* The reference that names an entry without an element.      *)

Transition == [name : Names, node : Nodes]

ASSUME GraphsAssumption == Graphs \subseteq Seq(Seq(Transition))
ASSUME WholeAssumption == Whole \notin Int

VARIABLES
  graph,   (* The state machine being converted.                           *)
  conds,   (* "conditions": the nodes under each name.                     *)
  refs     (* "children" of the states begun so far.                       *)

vars == <<graph, conds, refs>>

Init ==
  /\ graph \in Graphs
  /\ conds = [n \in Names |-> <<>>]
  /\ refs = <<>>

\* The state whose children are converted, and how many of them are.
state == Len(refs)

Parsed(s) == Len(refs[s])

BeginState ==
  /\ state < Len(graph)
  /\ state > 0 => Parsed(state) = Len(graph[state])
  /\ refs' = Append(refs, <<>>)
  /\ UNCHANGED <<graph, conds>>

HasChild == state > 0 /\ Parsed(state) < Len(graph[state])

child == graph[state][Parsed(state) + 1]

entry == conds[child.name]

Refer(element) ==
  refs' = [refs EXCEPT ![state] = Append(@, [name |-> child.name, element |-> element])]

(* The name is new: its entry is the node.                                 *)
NewCondition ==
  /\ HasChild /\ entry = <<>>
  /\ conds' = [conds EXCEPT ![child.name] = <<child.node>>]
  /\ Refer(Whole)
  /\ UNCHANGED graph

(* Mutation: a name that is known is not looked into.                      *)
SameName ==
  /\ HasChild /\ Len(entry) = 1
  /\ Refer(Whole)
  /\ UNCHANGED <<graph, conds>>

(* The node is known already.                                              *)
SameCondition ==
  /\ HasChild /\ Len(entry) = 1 /\ entry[1] = child.node
  /\ Refer(Whole)
  /\ UNCHANGED <<graph, conds>>

(* Mutation: elements are counted from one.                                *)
SecondConditionFromOne ==
  /\ HasChild /\ Len(entry) = 1 /\ entry[1] # child.node
  /\ conds' = [conds EXCEPT ![child.name] = <<entry[1], child.node>>]
  /\ Refer(2)
  /\ UNCHANGED graph

(* Mutation: the new node becomes the first element.                       *)
SecondConditionInFront ==
  /\ HasChild /\ Len(entry) = 1 /\ entry[1] # child.node
  /\ conds' = [conds EXCEPT ![child.name] = <<child.node, entry[1]>>]
  /\ Refer(0)
  /\ UNCHANGED graph

(* The entry was an object and becomes an array of two.                    *)
SecondCondition ==
  /\ HasChild /\ Len(entry) = 1 /\ entry[1] # child.node
  /\ conds' = [conds EXCEPT ![child.name] = <<entry[1], child.node>>]
  /\ Refer(1)
  /\ UNCHANGED graph

(***************************************************************************)
(* The loop over an array passes over n elements before it comes to the    *)
(* node, or over all of them.  foundIndex, which starts at -1 and counts   *)
(* them, is then n - 1: less than 0, which stands for "not found", when    *)
(* the node is the first, otherwise the element before it or the last.     *)
(***************************************************************************)
PassesOver(n) ==
  /\ HasChild /\ Len(entry) > 1
  /\ n \in 0 .. Len(entry)
  /\ \A p \in 1 .. n : entry[p] # child.node
  /\ n < Len(entry) => entry[n + 1] = child.node

AppendToArray ==
  /\ PassesOver(0)
  /\ conds' = [conds EXCEPT ![child.name] = Append(@, child.node)]
  /\ Refer(Len(entry))
  /\ UNCHANGED graph

FindInArray ==
  /\ HasChild
  /\ \E n \in 1 .. Len(entry) : PassesOver(n) /\ Refer(n - 1)
  /\ UNCHANGED <<graph, conds>>

Finished ==
  /\ state = Len(graph)
  /\ state > 0 => Parsed(state) = Len(graph[state])

Done == Finished /\ UNCHANGED vars

Next ==
  \/ BeginState
  \/ NewCondition \/ SameCondition \/ SecondCondition \/ AppendToArray \/ FindInArray
  \/ Done

Spec == Init /\ [][Next]_vars
-----------------------------------------------------------------------------
Reference == [name : Names, element : Nat \cup {Whole}]

\* The types of the state.
TypeOK ==
  /\ graph \in Seq(Seq(Transition))
  /\ conds \in [Names -> Seq(Nodes)]
  /\ refs \in Seq(Seq(Reference))

\* The place of the node a reference means: a whole entry that became an
\* array is its first element.
Place(r) == IF r.element = Whole THEN 1 ELSE r.element + 1

Meant(r) == conds[r.name][Place(r)]

\* Every reference is of the transition in its place and means a node.
RefsResolve ==
  \A s \in DOMAIN refs : \A k \in DOMAIN refs[s] :
    /\ refs[s][k].name = graph[s][k].name
    /\ Place(refs[s][k]) \in DOMAIN conds[graph[s][k].name]

\* Whether transition k of state s comes before transition j of state t.
Before(s, k, t, j) == s < t \/ (s = t /\ k < j)

\* The transitions of this name before transition j of state t are all one.
AtMostSecond(t, j) ==
  \E x \in Nodes : \A s \in DOMAIN refs : \A k \in DOMAIN refs[s] :
    Before(s, k, t, j) /\ graph[s][k].name = graph[t][j].name => graph[s][k].node = x

(* As long as the transitions of a name that came before are all alike, a  *)
(* reference means its own transition, and goes on to do so when the entry *)
(* becomes an array.                                                       *)
FirstsRight ==
  \A t \in DOMAIN refs : \A j \in DOMAIN refs[t] :
    AtMostSecond(t, j) => Meant(refs[t][j]) = graph[t][j].node

(***************************************************************************)
(* The invariant that carries these: the states are parsed in order; an    *)
(* entry has the nodes of transitions that were parsed, only one as long   *)
(* as these are all alike, and more only when they are not.                *)
(***************************************************************************)
InOrder ==
  /\ state <= Len(graph)
  /\ \A s \in DOMAIN refs : Parsed(s) <= Len(graph[s])

FirstIsParsed ==
  \A n \in Names : conds[n] # <<>> =>
    \E s \in DOMAIN refs : \E k \in DOMAIN refs[s] :
      graph[s][k] = [name |-> n, node |-> conds[n][1]]

ObjectForAll ==
  \A n \in Names : Len(conds[n]) = 1 =>
    \A s \in DOMAIN refs : \A k \in DOMAIN refs[s] :
      graph[s][k].name = n => graph[s][k].node = conds[n][1]

ArrayForSeveral ==
  \A n \in Names : Len(conds[n]) > 1 =>
    \A x \in Nodes : \E s \in DOMAIN refs : \E k \in DOMAIN refs[s] :
      graph[s][k].name = n /\ graph[s][k].node # x

IInv ==
  /\ TypeOK
  /\ InOrder
  /\ RefsResolve
  /\ FirstIsParsed
  /\ ObjectForAll
  /\ ArrayForSeveral
  /\ FirstsRight

(* What a reference means never changes, although entries are moved into   *)
(* arrays after references to them were handed out.                        *)
MeaningKept ==
  [][\A s \in DOMAIN refs : \A k \in DOMAIN refs[s] :
       Meant(refs[s][k])' = Meant(refs[s][k])]_vars

(* Every reference means its own transition, without which the document is *)
(* not the graph.                                                          *)
GraphConverted ==
  \A s \in DOMAIN refs : \A k \in DOMAIN refs[s] :
    Meant(refs[s][k]) = graph[s][k].node
=============================================================================
