------------------------ MODULE AsmConditionsProofs -------------------------
(***************************************************************************)
(* For every state machine, every name and every node: the inductive       *)
(* invariant of AsmConditions and what follows from it.                    *)
(***************************************************************************)
EXTENDS AsmConditions, SequenceTheorems, TLAPS

(***************************************************************************)
(* What the step for one transition does to the references: the state      *)
(* being parsed has one more, r, and everything else is as it was.         *)
(***************************************************************************)
Adds(r) ==
  /\ HasChild
  /\ r \in Reference
  /\ r.name = child.name
  /\ refs' = [refs EXCEPT ![state] = Append(@, r)]
  /\ graph' = graph

LEMMA OnlyOne ==
  ASSUME NEW m \in Nat, m # 0, ~(m > 1)
  PROVE  m = 1
  OBVIOUS

LEMMA ChildType ==
  ASSUME TypeOK, InOrder, HasChild
  PROVE  /\ state \in DOMAIN refs
         /\ state \in Nat
         /\ refs[state] \in Seq(Reference)
         /\ Parsed(state) \in Nat
         /\ Parsed(state) + 1 \in DOMAIN graph[state]
         /\ child \in Transition
         /\ child = graph[state][Parsed(state) + 1]
<1>1. refs \in Seq(Seq(Reference)) /\ graph \in Seq(Seq(Transition))
  BY DEF TypeOK
<1>2. state \in Nat /\ state > 0
  BY <1>1 DEF HasChild, state
<1>3. state \in DOMAIN refs
  BY <1>1, <1>2 DEF state
<1>4. refs[state] \in Seq(Reference)
  BY <1>1, <1>3
<1>5. Parsed(state) \in Nat
  BY <1>4 DEF Parsed
<1>6. state \in DOMAIN graph
  BY <1>1, <1>2 DEF InOrder
<1>7. graph[state] \in Seq(Transition)
  BY <1>1, <1>6
<1>8. Parsed(state) + 1 \in DOMAIN graph[state]
  BY <1>5, <1>7 DEF HasChild
<1>9. child \in Transition
  BY <1>7, <1>8 DEF child
<1> QED
  BY <1>2, <1>3, <1>4, <1>5, <1>8, <1>9 DEF child

LEMMA AddsShape ==
  ASSUME TypeOK, InOrder, NEW r, Adds(r)
  PROVE  /\ refs' \in Seq(Seq(Reference))
         /\ DOMAIN refs' = DOMAIN refs
         /\ Len(refs') = Len(refs)
         /\ refs'[state] = Append(refs[state], r)
         /\ \A s \in DOMAIN refs : s # state => refs'[s] = refs[s]
<1>1. refs \in Seq(Seq(Reference))
  BY DEF TypeOK
<1>2. HasChild /\ r \in Reference /\ refs' = [refs EXCEPT ![state] = Append(@, r)]
  BY DEF Adds
<1>3. state \in DOMAIN refs /\ refs[state] \in Seq(Reference)
  BY <1>2, ChildType
<1>4. Append(refs[state], r) \in Seq(Reference)
  BY <1>2, <1>3
<1>5. refs' = [refs EXCEPT ![state] = Append(refs[state], r)]
  BY <1>2, <1>3
<1>6. refs' \in Seq(Seq(Reference)) /\ Len(refs') = Len(refs)
  BY <1>1, <1>3, <1>4, <1>5, ExceptSeq
<1>7. DOMAIN refs' = DOMAIN refs
  BY <1>5
<1>8. refs'[state] = Append(refs[state], r)
  BY <1>3, <1>5
<1>9. \A s \in DOMAIN refs : s # state => refs'[s] = refs[s]
  BY <1>5
<1> QED
  BY <1>6, <1>7, <1>8, <1>9

(***************************************************************************)
(* The references after such a step: the old ones, and the new one in the  *)
(* place of the transition.                                                *)
(***************************************************************************)
LEMMA AddsPlaces ==
  ASSUME TypeOK, InOrder, NEW r, Adds(r)
  PROVE  /\ \A s \in DOMAIN refs : \A k \in DOMAIN refs[s] :
              k \in DOMAIN refs'[s] /\ refs'[s][k] = refs[s][k]
         /\ Parsed(state) + 1 \in DOMAIN refs'[state]
         /\ refs'[state][Parsed(state) + 1] = r
         /\ \A s \in DOMAIN refs' : \A k \in DOMAIN refs'[s] :
              \/ s \in DOMAIN refs /\ k \in DOMAIN refs[s] /\ refs'[s][k] = refs[s][k]
              \/ s = state /\ k = Parsed(state) + 1 /\ refs'[s][k] = r
<1>1. HasChild /\ r \in Reference
  BY DEF Adds
<1>2. refs[state] \in Seq(Reference) /\ state \in DOMAIN refs
  BY <1>1, ChildType
<1>3. /\ DOMAIN refs' = DOMAIN refs
      /\ refs'[state] = Append(refs[state], r)
      /\ \A s \in DOMAIN refs : s # state => refs'[s] = refs[s]
  BY AddsShape
<1>4. /\ Append(refs[state], r) \in Seq(Reference)
      /\ Len(Append(refs[state], r)) = Len(refs[state]) + 1
      /\ \A k \in 1 .. Len(refs[state]) : Append(refs[state], r)[k] = refs[state][k]
      /\ Append(refs[state], r)[Len(refs[state]) + 1] = r
  BY <1>1, <1>2, AppendProperties
<1>5. DOMAIN refs[state] = 1 .. Len(refs[state]) /\ Len(refs[state]) \in Nat
  BY <1>2
<1>6. DOMAIN refs'[state] = 1 .. Len(refs[state]) + 1
  BY <1>3, <1>4
<1>7. \A k \in DOMAIN refs[state] :
        k \in DOMAIN refs'[state] /\ refs'[state][k] = refs[state][k]
  BY <1>3, <1>4, <1>5, <1>6
<1>8. ASSUME NEW s \in DOMAIN refs, NEW k \in DOMAIN refs[s]
      PROVE  k \in DOMAIN refs'[s] /\ refs'[s][k] = refs[s][k]
  <2>1. CASE s = state
    BY <2>1, <1>7
  <2>2. CASE s # state
    BY <2>2, <1>3
  <2> QED
    BY <2>1, <2>2
<1>9. Parsed(state) + 1 \in DOMAIN refs'[state] /\ refs'[state][Parsed(state) + 1] = r
  BY <1>3, <1>4, <1>5, <1>6 DEF Parsed
<1>10. ASSUME NEW s \in DOMAIN refs', NEW k \in DOMAIN refs'[s]
       PROVE  \/ s \in DOMAIN refs /\ k \in DOMAIN refs[s] /\ refs'[s][k] = refs[s][k]
              \/ s = state /\ k = Parsed(state) + 1 /\ refs'[s][k] = r
  <2>1. CASE s # state
    BY <2>1, <1>3
  <2>2. CASE s = state /\ k \in 1 .. Len(refs[state])
    BY <2>2, <1>2, <1>5, <1>7
  <2>3. CASE s = state /\ k = Len(refs[state]) + 1
    BY <2>3, <1>9 DEF Parsed
  <2> QED
    BY <2>1, <2>2, <2>3, <1>5, <1>6
<1> QED
  BY <1>8, <1>9, <1>10

(***************************************************************************)
(* What every step for one transition has in common: the reference r is    *)
(* added, no entry loses or moves a node, r means a node, and this is the  *)
(* transition's own unless the entry was an array before.                  *)
(***************************************************************************)
Effect(r) ==
  /\ Adds(r)
  /\ conds' \in [Names -> Seq(Nodes)]
  /\ \A n \in Names : n # child.name => conds'[n] = conds[n]
  /\ \A p \in DOMAIN entry :
       p \in DOMAIN conds'[child.name] /\ conds'[child.name][p] = entry[p]
  /\ Place(r) \in DOMAIN conds'[child.name]
  /\ Len(entry) <= 1 =>
       /\ conds'[child.name][Place(r)] = child.node
       /\ Len(conds'[child.name]) = 1 => conds'[child.name][1] = child.node
       /\ Len(conds'[child.name]) > 1 => Len(entry) = 1 /\ entry[1] # child.node

ChildStep ==
  NewCondition \/ SameCondition \/ SecondCondition \/ AppendToArray \/ FindInArray

LEMMA EntryType ==
  ASSUME TypeOK, InOrder, HasChild
  PROVE  /\ child.name \in Names /\ child.node \in Nodes
         /\ entry \in Seq(Nodes)
         /\ Len(entry) \in Nat
         /\ DOMAIN entry = 1 .. Len(entry)
         /\ \A p \in DOMAIN entry : entry[p] \in Nodes
<1>1. child \in Transition
  BY ChildType
<1>2. child.name \in Names /\ child.node \in Nodes
  BY <1>1 DEF Transition
<1>3. entry \in Seq(Nodes)
  BY <1>2 DEF entry, TypeOK
<1> QED
  BY <1>2, <1>3

LEMMA EffectOfStep ==
  ASSUME TypeOK, InOrder, ChildStep
  PROVE  \E r : Effect(r)
<1>1. HasChild /\ graph' = graph
  BY DEF ChildStep, NewCondition, SameCondition, SecondCondition, AppendToArray, FindInArray,
         PassesOver
<1>2. /\ child.name \in Names /\ child.node \in Nodes
      /\ entry \in Seq(Nodes)
      /\ Len(entry) \in Nat
      /\ DOMAIN entry = 1 .. Len(entry)
      /\ \A p \in DOMAIN entry : entry[p] \in Nodes
  BY <1>1, EntryType
<1>3. conds \in [Names -> Seq(Nodes)] /\ entry = conds[child.name]
  BY DEF TypeOK, entry
<1>4. Whole \notin Nat
  BY WholeAssumption
<1> DEFINE ref(e) == [name |-> child.name, element |-> e]
<1>5. ASSUME NEW e \in Nat \cup {Whole}, Refer(e)
      PROVE  Adds(ref(e)) /\ Place(ref(e)) = IF e = Whole THEN 1 ELSE e + 1
  BY <1>1, <1>2, <1>5 DEF Refer, Adds, Reference, Place
<1>6. CASE NewCondition
  <2>1. entry = <<>> /\ conds' = [conds EXCEPT ![child.name] = <<child.node>>] /\ Refer(Whole)
    BY <1>6 DEF NewCondition
  <2>2. conds'[child.name] = <<child.node>> /\ conds' \in [Names -> Seq(Nodes)]
    BY <2>1, <1>2, <1>3
  <2>3. \A n \in Names : n # child.name => conds'[n] = conds[n]
    BY <2>1, <1>3
  <2>4. Adds(ref(Whole)) /\ Place(ref(Whole)) = 1
    BY <2>1, <1>5
  <2> QED
    BY <2>1, <2>2, <2>3, <2>4 DEF Effect
<1>7. CASE SameCondition
  <2>1. Len(entry) = 1 /\ entry[1] = child.node /\ conds' = conds /\ Refer(Whole)
    BY <1>7 DEF SameCondition
  <2>2. Adds(ref(Whole)) /\ Place(ref(Whole)) = 1
    BY <2>1, <1>5
  <2>3. conds'[child.name] = entry /\ 1 \in DOMAIN entry
    BY <2>1, <1>2, <1>3
  <2>4. Len(conds'[child.name]) = 1
    BY <2>1, <2>3
  <2>5. conds' \in [Names -> Seq(Nodes)] /\ \A n \in Names : conds'[n] = conds[n]
    BY <2>1, <1>3
  <2>6. 1 \in DOMAIN conds'[child.name] /\ conds'[child.name][1] = child.node
    BY <2>1, <2>3
  <2> HIDE DEF ref
  <2>7. Effect(ref(Whole))
    BY <2>2, <2>3, <2>4, <2>5, <2>6 DEF Effect
  <2> QED
    BY <2>7
<1>8. CASE SecondCondition
  <2>1. /\ Len(entry) = 1 /\ entry[1] # child.node /\ Refer(1)
        /\ conds' = [conds EXCEPT ![child.name] = <<entry[1], child.node>>]
    BY <1>8 DEF SecondCondition
  <2>2. entry[1] \in Nodes
    BY <2>1, <1>2
  <2>3. conds'[child.name] = <<entry[1], child.node>> /\ conds' \in [Names -> Seq(Nodes)]
    BY <2>1, <2>2, <1>2, <1>3
  <2>4. \A n \in Names : n # child.name => conds'[n] = conds[n]
    BY <2>1, <1>3
  <2>5. Adds(ref(1)) /\ Place(ref(1)) = 2
    BY <2>1, <1>4, <1>5
  <2> QED
    BY <2>1, <2>3, <2>4, <2>5, <1>2 DEF Effect
<1>9. CASE AppendToArray
  <2>1. /\ Len(entry) > 1 /\ Refer(Len(entry))
        /\ conds' = [conds EXCEPT ![child.name] = Append(@, child.node)]
    BY <1>9 DEF AppendToArray, PassesOver
  <2>2. /\ Append(entry, child.node) \in Seq(Nodes)
        /\ Len(Append(entry, child.node)) = Len(entry) + 1
        /\ \A p \in 1 .. Len(entry) : Append(entry, child.node)[p] = entry[p]
    BY <1>2, AppendProperties
  <2>3. conds'[child.name] = Append(entry, child.node) /\ conds' \in [Names -> Seq(Nodes)]
    BY <2>1, <2>2, <1>2, <1>3
  <2>4. \A n \in Names : n # child.name => conds'[n] = conds[n]
    BY <2>1, <1>3
  <2>5. Adds(ref(Len(entry))) /\ Place(ref(Len(entry))) = Len(entry) + 1
    BY <2>1, <1>2, <1>4, <1>5
  <2>6. DOMAIN conds'[child.name] = 1 .. Len(entry) + 1
    BY <2>2, <2>3
  <2> QED
    BY <2>1, <2>2, <2>3, <2>4, <2>5, <2>6, <1>2 DEF Effect
<1>10. CASE FindInArray
  <2>1. PICK n \in 1 .. Len(entry) : PassesOver(n) /\ Refer(n - 1) /\ conds' = conds
    BY <1>10 DEF FindInArray
  <2>2. Len(entry) > 1 /\ n \in Nat /\ n - 1 \in Nat
    BY <2>1, <1>2 DEF PassesOver
  <2>3. Adds(ref(n - 1)) /\ Place(ref(n - 1)) = n
    BY <2>1, <2>2, <1>4, <1>5
  <2> QED
    BY <2>1, <2>2, <2>3, <1>2, <1>3 DEF Effect
<1> QED
  BY <1>6, <1>7, <1>8, <1>9, <1>10 DEF ChildStep

(***************************************************************************)
(* An old reference means after such a step what it meant before.          *)
(***************************************************************************)
LEMMA ParsedType ==
  ASSUME TypeOK, InOrder,
         NEW s \in DOMAIN refs, NEW k \in DOMAIN refs[s]
  PROVE  /\ graph[s][k] \in Transition
         /\ graph[s][k].name \in Names
         /\ graph[s][k].node \in Nodes
<1>1. refs \in Seq(Seq(Reference)) /\ graph \in Seq(Seq(Transition))
  BY DEF TypeOK
<1>2. s \in 1 .. Len(refs) /\ Len(refs) \in Nat /\ Len(graph) \in Nat
  BY <1>1
<1>3. s \in DOMAIN graph
  BY <1>1, <1>2 DEF InOrder, state
<1>4. refs[s] \in Seq(Reference) /\ graph[s] \in Seq(Transition)
  BY <1>1, <1>3
<1>5. Len(refs[s]) <= Len(graph[s])
  BY DEF InOrder, Parsed
<1>6. k \in DOMAIN graph[s]
  BY <1>4, <1>5
<1>7. graph[s][k] \in Transition
  BY <1>4, <1>6
<1> QED
  BY <1>7 DEF Transition

LEMMA EffectGrows ==
  ASSUME TypeOK, InOrder, NEW r, Effect(r), NEW n \in Names
  PROVE  /\ \A p \in DOMAIN conds[n] : p \in DOMAIN conds'[n] /\ conds'[n][p] = conds[n][p]
         /\ conds[n] \in Seq(Nodes) /\ conds'[n] \in Seq(Nodes)
         /\ Len(conds[n]) \in Nat /\ Len(conds'[n]) \in Nat
         /\ Len(conds[n]) <= Len(conds'[n])
<1>1. HasChild
  BY DEF Effect, Adds
<1>2. \A p \in DOMAIN conds[n] : p \in DOMAIN conds'[n] /\ conds'[n][p] = conds[n][p]
  <2>1. CASE n = child.name
    BY <2>1 DEF Effect, entry
  <2>2. CASE n # child.name
    BY <2>2 DEF Effect
  <2> QED
    BY <2>1, <2>2
<1>3. conds[n] \in Seq(Nodes) /\ conds'[n] \in Seq(Nodes)
  BY DEF Effect, TypeOK
<1>4. Len(conds[n]) \in Nat /\ Len(conds'[n]) \in Nat
  BY <1>3
<1>5. DOMAIN conds[n] = 1 .. Len(conds[n]) /\ DOMAIN conds'[n] = 1 .. Len(conds'[n])
  BY <1>3
<1>6. Len(conds[n]) <= Len(conds'[n])
  <2>1. CASE Len(conds[n]) = 0
    BY <2>1, <1>4
  <2>2. CASE Len(conds[n]) > 0
    <3>1. Len(conds[n]) \in DOMAIN conds[n]
      BY <2>2, <1>4, <1>5
    <3> QED
      BY <3>1, <1>2, <1>4, <1>5
  <2> QED
    BY <2>1, <2>2, <1>4
<1> QED
  BY <1>2, <1>3, <1>4, <1>6

LEMMA EffectKeepsMeaning ==
  ASSUME TypeOK, InOrder, RefsResolve, NEW r, Effect(r),
         NEW s \in DOMAIN refs, NEW k \in DOMAIN refs[s]
  PROVE  /\ Meant(refs[s][k])' = Meant(refs[s][k])
         /\ s \in DOMAIN refs' /\ k \in DOMAIN refs'[s] /\ refs'[s][k] = refs[s][k]
<1>1. Adds(r)
  BY DEF Effect
<1>2. s \in DOMAIN refs' /\ k \in DOMAIN refs'[s] /\ refs'[s][k] = refs[s][k]
  BY <1>1, AddsPlaces, AddsShape
<1>3. /\ refs[s][k].name = graph[s][k].name
      /\ Place(refs[s][k]) \in DOMAIN conds[graph[s][k].name]
  BY DEF RefsResolve
<1>4. graph[s][k].name \in Names
  BY ParsedType
<1>5. Place(refs'[s][k]) = Place(refs[s][k]) /\ refs'[s][k].name = refs[s][k].name
  BY <1>2
<1>6. conds'[refs[s][k].name][Place(refs[s][k])] = conds[refs[s][k].name][Place(refs[s][k])]
  BY <1>3, <1>4, EffectGrows
<1>7. Meant(refs[s][k])' = conds'[refs'[s][k].name][Place(refs'[s][k])]
  BY DEF Meant, Place
<1>8. Meant(refs[s][k]) = conds[refs[s][k].name][Place(refs[s][k])]
  BY DEF Meant
<1> QED
  BY <1>2, <1>5, <1>6, <1>7, <1>8

(***************************************************************************)
(* A step for one transition keeps the invariant, part by part.            *)
(***************************************************************************)
LEMMA EffectKeepsTypes ==
  ASSUME TypeOK, InOrder, NEW r, Effect(r)
  PROVE  TypeOK' /\ InOrder'
<1>1. Adds(r) /\ HasChild
  BY DEF Effect, Adds
<1>2. /\ refs' \in Seq(Seq(Reference)) /\ DOMAIN refs' = DOMAIN refs
      /\ Len(refs') = Len(refs)
      /\ refs'[state] = Append(refs[state], r)
      /\ \A s \in DOMAIN refs : s # state => refs'[s] = refs[s]
  BY <1>1, AddsShape
<1>3. graph' = graph
  BY <1>1 DEF Adds
<1>4. TypeOK'
  BY <1>2, <1>3 DEF TypeOK, Effect
<1>5. /\ refs[state] \in Seq(Reference) /\ Parsed(state) \in Nat
      /\ Parsed(state) + 1 \in DOMAIN graph[state] /\ state \in DOMAIN refs
  BY <1>1, ChildType
<1>6. Len(refs'[state]) = Parsed(state) + 1
  BY <1>1, <1>2, <1>5, AppendProperties DEF Adds, Parsed
<1>7. graph \in Seq(Seq(Transition)) /\ state <= Len(graph)
  BY DEF TypeOK, InOrder
<1>8. state \in DOMAIN graph
  <2>1. state \in Nat /\ state > 0
    BY <1>1, ChildType DEF HasChild
  <2> QED
    BY <2>1, <1>7
<1>9. graph[state] \in Seq(Transition)
  BY <1>7, <1>8
<1>10. Len(refs'[state]) <= Len(graph[state])
  BY <1>5, <1>6, <1>9
<1>11. ASSUME NEW s \in DOMAIN refs
       PROVE  Len(refs'[s]) <= Len(graph[s])
  <2>1. CASE s = state
    BY <2>1, <1>10
  <2>2. CASE s # state
    BY <2>2, <1>2 DEF InOrder, Parsed
  <2> QED
    BY <2>1, <2>2
<1>12. InOrder'
  BY <1>2, <1>3, <1>7, <1>11 DEF InOrder, Parsed, state
<1> QED
  BY <1>4, <1>12

(* The transitions parsed after the step: the old ones and the child.      *)
LEMMA EffectParses ==
  ASSUME TypeOK, InOrder, NEW r, Effect(r)
  PROVE  /\ graph' = graph
         /\ child.name \in Names /\ child.node \in Nodes
         /\ state \in DOMAIN refs'
         /\ Parsed(state) + 1 \in DOMAIN refs'[state]
         /\ refs'[state][Parsed(state) + 1] = r
         /\ r.name = child.name
         /\ graph[state][Parsed(state) + 1] = child
         /\ child = [name |-> child.name, node |-> child.node]
         /\ \A s \in DOMAIN refs : \A k \in DOMAIN refs[s] :
              s \in DOMAIN refs' /\ k \in DOMAIN refs'[s]
         /\ \A s \in DOMAIN refs' : \A k \in DOMAIN refs'[s] :
              \/ s \in DOMAIN refs /\ k \in DOMAIN refs[s] /\ refs'[s][k] = refs[s][k]
              \/ s = state /\ k = Parsed(state) + 1
<1>1. Adds(r) /\ HasChild /\ graph' = graph /\ r.name = child.name
  BY DEF Effect, Adds
<1>2. child.name \in Names /\ child.node \in Nodes
  BY <1>1, EntryType
<1>3. /\ state \in DOMAIN refs /\ child \in Transition
      /\ graph[state][Parsed(state) + 1] = child
  BY <1>1, ChildType
<1>4. DOMAIN refs' = DOMAIN refs
  BY <1>1, AddsShape
<1>5. child = [name |-> child.name, node |-> child.node]
  BY <1>3 DEF Transition
<1>6. /\ \A s \in DOMAIN refs : \A k \in DOMAIN refs[s] :
           k \in DOMAIN refs'[s] /\ refs'[s][k] = refs[s][k]
      /\ Parsed(state) + 1 \in DOMAIN refs'[state]
      /\ refs'[state][Parsed(state) + 1] = r
      /\ \A s \in DOMAIN refs' : \A k \in DOMAIN refs'[s] :
           \/ s \in DOMAIN refs /\ k \in DOMAIN refs[s] /\ refs'[s][k] = refs[s][k]
           \/ s = state /\ k = Parsed(state) + 1 /\ refs'[s][k] = r
  BY <1>1, AddsPlaces
<1> QED
  BY <1>1, <1>2, <1>3, <1>4, <1>5, <1>6

LEMMA EffectKeepsResolve ==
  ASSUME TypeOK, InOrder, RefsResolve, NEW r, Effect(r)
  PROVE  RefsResolve'
<1>1. SUFFICES ASSUME NEW s \in DOMAIN refs', NEW k \in DOMAIN refs'[s]
               PROVE  /\ refs'[s][k].name = graph'[s][k].name
                      /\ Place(refs'[s][k]) \in DOMAIN conds'[graph'[s][k].name]
  BY DEF RefsResolve, Place
<1>2. graph' = graph
  BY EffectParses
<1>3. CASE s \in DOMAIN refs /\ k \in DOMAIN refs[s] /\ refs'[s][k] = refs[s][k]
  <2>1. /\ refs[s][k].name = graph[s][k].name
        /\ Place(refs[s][k]) \in DOMAIN conds[graph[s][k].name]
    BY <1>3 DEF RefsResolve
  <2>2. graph[s][k].name \in Names
    BY <1>3, ParsedType
  <2>3. Place(refs[s][k]) \in DOMAIN conds'[graph[s][k].name]
    BY <2>1, <2>2, EffectGrows
  <2> QED
    BY <2>1, <2>3, <1>2, <1>3
<1>4. CASE s = state /\ k = Parsed(state) + 1
  <2>1. refs'[s][k] = r /\ graph[s][k] = child /\ r.name = child.name
    BY <1>4, EffectParses
  <2>2. Place(r) \in DOMAIN conds'[child.name]
    BY DEF Effect
  <2> QED
    BY <2>1, <2>2, <1>2
<1> QED
  BY <1>3, <1>4, EffectParses

LEMMA EffectKeepsFirst ==
  ASSUME TypeOK, InOrder, FirstIsParsed, NEW r, Effect(r)
  PROVE  FirstIsParsed'
<1>1. SUFFICES ASSUME NEW n \in Names, conds'[n] # <<>>
               PROVE  \E s \in DOMAIN refs' : \E k \in DOMAIN refs'[s] :
                        graph'[s][k] = [name |-> n, node |-> conds'[n][1]]
  BY DEF FirstIsParsed
<1>2. graph' = graph
  BY EffectParses
<1>3. /\ conds[n] \in Seq(Nodes) /\ conds'[n] \in Seq(Nodes)
      /\ \A p \in DOMAIN conds[n] : conds'[n][p] = conds[n][p]
  BY EffectGrows
<1>4. CASE conds[n] # <<>>
  <2>1. PICK s \in DOMAIN refs : \E k \in DOMAIN refs[s] :
               graph[s][k] = [name |-> n, node |-> conds[n][1]]
    BY <1>4 DEF FirstIsParsed
  <2>2. PICK k \in DOMAIN refs[s] : graph[s][k] = [name |-> n, node |-> conds[n][1]]
    BY <2>1
  <2>3. conds'[n][1] = conds[n][1]
    BY <1>3, <1>4
  <2>4. s \in DOMAIN refs' /\ k \in DOMAIN refs'[s]
    BY EffectParses
  <2> QED
    BY <2>2, <2>3, <2>4, <1>2
<1>5. CASE conds[n] = <<>>
  <2>1. n = child.name /\ entry = <<>>
    BY <1>1, <1>5 DEF Effect, entry
  <2>2. Len(entry) = 0
    BY <2>1
  <2>3. Len(conds'[n]) \in Nat /\ Len(conds'[n]) # 0
    BY <1>1, <1>3
  <2>5. ~(Len(conds'[n]) > 1)
    BY <2>1, <2>2 DEF Effect
  <2>6. Len(conds'[n]) = 1
    BY <2>3, <2>5, OnlyOne
  <2>4. conds'[n][1] = child.node
    BY <2>1, <2>2, <2>6 DEF Effect
  <2> QED
    BY <2>1, <2>4, <1>2, EffectParses
<1> QED
  BY <1>4, <1>5

LEMMA EffectKeepsObject ==
  ASSUME TypeOK, InOrder, RefsResolve, ObjectForAll, NEW r, Effect(r)
  PROVE  ObjectForAll'
<1>1. SUFFICES ASSUME NEW n \in Names, Len(conds'[n]) = 1,
                      NEW s \in DOMAIN refs', NEW k \in DOMAIN refs'[s],
                      graph'[s][k].name = n
               PROVE  graph'[s][k].node = conds'[n][1]
  BY DEF ObjectForAll
<1>2. graph' = graph
  BY EffectParses
<1>3. /\ Len(conds[n]) \in Nat /\ Len(conds[n]) <= Len(conds'[n])
      /\ conds[n] \in Seq(Nodes)
      /\ \A p \in DOMAIN conds[n] : conds'[n][p] = conds[n][p]
  BY EffectGrows
<1>4. CASE s \in DOMAIN refs /\ k \in DOMAIN refs[s]
  <2>1. Place(refs[s][k]) \in DOMAIN conds[n]
    BY <1>1, <1>2, <1>4 DEF RefsResolve
  <2>5. DOMAIN conds[n] = 1 .. Len(conds[n])
    BY <1>3
  <2>6. Len(conds[n]) # 0
    BY <2>1, <2>5
  <2>7. ~(Len(conds[n]) > 1)
    BY <1>1, <1>3
  <2>2. Len(conds[n]) = 1
    BY <2>6, <2>7, <1>3, OnlyOne
  <2>3. graph[s][k].node = conds[n][1]
    BY <2>2, <1>1, <1>2, <1>4 DEF ObjectForAll
  <2>4. conds'[n][1] = conds[n][1]
    BY <2>2, <1>3
  <2> QED
    BY <2>3, <2>4, <1>2
<1>5. CASE s = state /\ k = Parsed(state) + 1
  <2>1. n = child.name /\ graph'[s][k].node = child.node
    BY <1>1, <1>2, <1>5, EffectParses
  <2>2. Len(entry) <= 1
    BY <2>1, <1>1, <1>3 DEF entry
  <2>3. conds'[n][1] = child.node
    BY <2>1, <2>2, <1>1 DEF Effect
  <2> QED
    BY <2>1, <2>3
<1> QED
  BY <1>4, <1>5, EffectParses

LEMMA EffectKeepsArray ==
  ASSUME TypeOK, InOrder, FirstIsParsed, ArrayForSeveral, NEW r, Effect(r)
  PROVE  ArrayForSeveral'
<1>1. SUFFICES ASSUME NEW n \in Names, Len(conds'[n]) > 1, NEW x \in Nodes
               PROVE  \E s \in DOMAIN refs' : \E k \in DOMAIN refs'[s] :
                        graph'[s][k].name = n /\ graph'[s][k].node # x
  BY DEF ArrayForSeveral
<1>2. graph' = graph
  BY EffectParses
<1>3. Len(conds[n]) \in Nat
  BY EffectGrows
<1>4. CASE Len(conds[n]) > 1
  <2>1. PICK s \in DOMAIN refs : \E k \in DOMAIN refs[s] :
               graph[s][k].name = n /\ graph[s][k].node # x
    BY <1>4 DEF ArrayForSeveral
  <2>2. PICK k \in DOMAIN refs[s] : graph[s][k].name = n /\ graph[s][k].node # x
    BY <2>1
  <2>3. s \in DOMAIN refs' /\ k \in DOMAIN refs'[s]
    BY EffectParses
  <2> QED
    BY <2>2, <2>3, <1>2
<1>5. CASE ~(Len(conds[n]) > 1)
  <2>1. n = child.name
    BY <1>1, <1>5 DEF Effect
  <2>2. Len(entry) <= 1
    BY <2>1, <1>3, <1>5 DEF entry
  <2>3. Len(entry) = 1 /\ entry[1] # child.node
    BY <2>1, <2>2, <1>1 DEF Effect
  <2>4. CASE x # child.node
    <3>1. /\ state \in DOMAIN refs' /\ Parsed(state) + 1 \in DOMAIN refs'[state]
          /\ graph[state][Parsed(state) + 1] = child
      BY EffectParses
    <3> QED
      BY <3>1, <2>1, <2>4, <1>2
  <2>5. CASE x = child.node
    <3>1. conds[n] # <<>>
      BY <2>1, <2>3 DEF entry
    <3>2. PICK s \in DOMAIN refs : \E k \in DOMAIN refs[s] :
                 graph[s][k] = [name |-> n, node |-> conds[n][1]]
      BY <3>1 DEF FirstIsParsed
    <3>3. PICK k \in DOMAIN refs[s] : graph[s][k] = [name |-> n, node |-> conds[n][1]]
      BY <3>2
    <3>4. graph[s][k].name = n /\ graph[s][k].node # x
      BY <3>3, <2>1, <2>3, <2>5 DEF entry
    <3>5. s \in DOMAIN refs' /\ k \in DOMAIN refs'[s]
      BY EffectParses
    <3> QED
      BY <3>4, <3>5, <1>2
  <2> QED
    BY <2>4, <2>5
<1> QED
  BY <1>4, <1>5

LEMMA EffectKeepsFirstsRight ==
  ASSUME TypeOK, InOrder, RefsResolve, ArrayForSeveral, FirstsRight, NEW r, Effect(r)
  PROVE  FirstsRight'
<1>1. SUFFICES ASSUME NEW t \in DOMAIN refs', NEW j \in DOMAIN refs'[t],
                      NEW x \in Nodes,
                      \A s \in DOMAIN refs' : \A k \in DOMAIN refs'[s] :
                        Before(s, k, t, j) /\ graph'[s][k].name = graph'[t][j].name
                          => graph'[s][k].node = x
               PROVE  conds'[refs'[t][j].name][Place(refs'[t][j])] = graph'[t][j].node
  BY DEF FirstsRight, AtMostSecond, Meant, Place
<1>2. graph' = graph
  BY EffectParses
<1>3. ASSUME NEW s \in DOMAIN refs, NEW k \in DOMAIN refs[s], Before(s, k, t, j),
             graph[s][k].name = graph[t][j].name
      PROVE  graph[s][k].node = x
  BY <1>1, <1>2, <1>3, EffectParses
<1>4. CASE t \in DOMAIN refs /\ j \in DOMAIN refs[t] /\ refs'[t][j] = refs[t][j]
  <2>1. AtMostSecond(t, j)
    BY <1>3 DEF AtMostSecond
  <2>2. Meant(refs[t][j]) = graph[t][j].node
    BY <2>1, <1>4 DEF FirstsRight
  <2>3. Meant(refs[t][j])' = Meant(refs[t][j])
    BY <1>4, EffectKeepsMeaning
  <2>4. Meant(refs[t][j])' = conds'[refs'[t][j].name][Place(refs'[t][j])]
    BY DEF Meant, Place
  <2> QED
    BY <2>2, <2>3, <2>4, <1>2
<1>5. CASE t = state /\ j = Parsed(state) + 1
  <2>1. refs'[t][j] = r /\ r.name = child.name /\ graph[t][j] = child
    BY <1>5, EffectParses
  <2>2. CASE Len(entry) <= 1
    <3>1. conds'[child.name][Place(r)] = child.node
      BY <2>2 DEF Effect
    <3> QED
      BY <3>1, <2>1, <1>2
  <2>3. CASE Len(entry) > 1
    <3>1. child.name \in Names
      BY EffectParses
    <3>2. PICK s \in DOMAIN refs : \E k \in DOMAIN refs[s] :
                 graph[s][k].name = child.name /\ graph[s][k].node # x
      BY <2>3, <3>1 DEF ArrayForSeveral, entry
    <3>3. PICK k \in DOMAIN refs[s] :
                 graph[s][k].name = child.name /\ graph[s][k].node # x
      BY <3>2
    <3>4. refs \in Seq(Seq(Reference)) /\ refs[s] \in Seq(Reference)
      BY DEF TypeOK
    <3>5. s \in 1 .. state /\ state \in Nat
      BY <3>4 DEF state
    <3>6. k \in 1 .. Parsed(s) /\ Parsed(s) \in Nat
      BY <3>4 DEF Parsed
    <3>7. Before(s, k, t, j)
      <4>1. CASE s = state
        BY <4>1, <3>6, <1>5 DEF Before
      <4>2. CASE s # state
        BY <4>2, <3>5, <1>5 DEF Before
      <4> QED
        BY <4>1, <4>2
    <3> QED
      BY <3>3, <3>7, <2>1, <1>3
  <2>4. Len(entry) \in Nat
    BY EntryType DEF Effect, Adds
  <2> QED
    BY <2>2, <2>3, <2>4
<1> QED
  BY <1>4, <1>5, EffectParses

LEMMA EffectKeepsInvariant ==
  ASSUME IInv, NEW r, Effect(r)
  PROVE  IInv'
<1>1. TypeOK' /\ InOrder'
  BY EffectKeepsTypes DEF IInv
<1>2. RefsResolve' /\ FirstIsParsed' /\ ObjectForAll' /\ ArrayForSeveral' /\ FirstsRight'
  BY EffectKeepsResolve, EffectKeepsFirst, EffectKeepsObject, EffectKeepsArray,
     EffectKeepsFirstsRight DEF IInv
<1> QED
  BY <1>1, <1>2 DEF IInv

(***************************************************************************)
(* A new state has no references yet, so that nothing changes for those    *)
(* that there are.                                                         *)
(***************************************************************************)
LEMMA BeginKeeps ==
  ASSUME IInv, BeginState
  PROVE  /\ IInv'
         /\ \A s \in DOMAIN refs : \A k \in DOMAIN refs[s] :
              Meant(refs[s][k])' = Meant(refs[s][k])
<1>1. /\ state < Len(graph) /\ (state > 0 => Parsed(state) = Len(graph[state]))
      /\ refs' = Append(refs, <<>>) /\ graph' = graph /\ conds' = conds
  BY DEF BeginState
<1>2. refs \in Seq(Seq(Reference)) /\ graph \in Seq(Seq(Transition)) /\ TypeOK
  BY DEF IInv, TypeOK
<1>3. /\ refs' \in Seq(Seq(Reference)) /\ Len(refs') = Len(refs) + 1
      /\ \A s \in 1 .. Len(refs) : refs'[s] = refs[s]
      /\ refs'[Len(refs) + 1] = <<>>
  BY <1>1, <1>2, AppendProperties
<1>4. /\ DOMAIN refs = 1 .. Len(refs) /\ Len(refs) \in Nat
      /\ DOMAIN refs' = 1 .. Len(refs) + 1
  BY <1>2, <1>3
<1>5. \A s \in DOMAIN refs' : s \in DOMAIN refs \/ s = Len(refs) + 1
  BY <1>4
<1>6. ASSUME NEW s \in DOMAIN refs', NEW k \in DOMAIN refs'[s]
      PROVE  s \in DOMAIN refs /\ k \in DOMAIN refs[s] /\ refs'[s][k] = refs[s][k]
  <2>1. CASE s \in DOMAIN refs
    BY <2>1, <1>3, <1>4
  <2>2. CASE s = Len(refs) + 1
    BY <2>2, <1>3, <1>6
  <2> QED
    BY <2>1, <2>2, <1>5
<1>7. ASSUME NEW s \in DOMAIN refs, NEW k \in DOMAIN refs[s]
      PROVE  s \in DOMAIN refs' /\ k \in DOMAIN refs'[s] /\ refs'[s][k] = refs[s][k]
  BY <1>3, <1>4
<1>8. TypeOK'
  BY <1>1, <1>2, <1>3 DEF TypeOK
<1>9. InOrder'
  <2>1. state' <= Len(graph')
    <3>1. Len(graph) \in Nat
      BY <1>2
    <3> QED
      BY <3>1, <1>1, <1>3, <1>4 DEF state
  <2>2. ASSUME NEW s \in DOMAIN refs'
        PROVE  Len(refs'[s]) <= Len(graph'[s])
    <3>1. CASE s \in DOMAIN refs
      BY <3>1, <1>1, <1>3, <1>4 DEF IInv, InOrder, Parsed
    <3>2. CASE s = Len(refs) + 1
      <4>1. s \in DOMAIN graph
        BY <3>2, <1>1, <1>2, <1>4 DEF state
      <4>2. Len(graph[s]) \in Nat
        BY <4>1, <1>2
      <4> QED
        BY <4>2, <3>2, <1>1, <1>3
    <3> QED
      BY <3>1, <3>2, <1>5
  <2> QED
    BY <2>1, <2>2 DEF InOrder, Parsed
<1>10. RefsResolve'
  BY <1>1, <1>6 DEF IInv, RefsResolve, Place
<1>11. FirstIsParsed'
  BY <1>1, <1>7 DEF IInv, FirstIsParsed
<1>12. ObjectForAll'
  BY <1>1, <1>6 DEF IInv, ObjectForAll
<1>13. ArrayForSeveral'
  BY <1>1, <1>7 DEF IInv, ArrayForSeveral
<1>14. FirstsRight'
  <2>1. SUFFICES ASSUME NEW t \in DOMAIN refs', NEW j \in DOMAIN refs'[t],
                        AtMostSecond(t, j)'
                 PROVE  conds'[refs'[t][j].name][Place(refs'[t][j])] = graph'[t][j].node
    BY DEF FirstsRight, Meant, Place
  <2>2. AtMostSecond(t, j)
    BY <2>1, <1>1, <1>7 DEF AtMostSecond
  <2>3. t \in DOMAIN refs /\ j \in DOMAIN refs[t] /\ refs'[t][j] = refs[t][j]
    BY <1>6
  <2>4. Meant(refs[t][j]) = graph[t][j].node
    BY <2>2, <2>3 DEF IInv, FirstsRight
  <2> QED
    BY <2>3, <2>4, <1>1 DEF Meant
<1>15. ASSUME NEW s \in DOMAIN refs, NEW k \in DOMAIN refs[s]
       PROVE  Meant(refs[s][k])' = Meant(refs[s][k])
  BY <1>1, <1>7 DEF Meant, Place
<1> QED
  BY <1>8, <1>9, <1>10, <1>11, <1>12, <1>13, <1>14, <1>15 DEF IInv

LEMMA Unchanged ==
  ASSUME IInv, UNCHANGED vars
  PROVE  IInv'
<1>1. graph' = graph /\ conds' = conds /\ refs' = refs
  BY DEF vars
<1>2. TypeOK' /\ InOrder'
  BY <1>1 DEF IInv, TypeOK, InOrder, Parsed, state
<1>3. RefsResolve' /\ FirstIsParsed' /\ ObjectForAll' /\ ArrayForSeveral'
  BY <1>1 DEF IInv, RefsResolve, FirstIsParsed, ObjectForAll, ArrayForSeveral, Place
<1>4. FirstsRight'
  BY <1>1 DEF IInv, FirstsRight, AtMostSecond, Meant, Place
<1> QED
  BY <1>2, <1>3, <1>4 DEF IInv

LEMMA InitIsInvariant ==
  ASSUME Init
  PROVE  IInv
<1>1. graph \in Seq(Seq(Transition)) /\ conds = [n \in Names |-> <<>>] /\ refs = <<>>
  BY GraphsAssumption DEF Init
<1>2. Len(graph) \in Nat
  BY <1>1
<1>3. Len(refs) = 0 /\ DOMAIN refs = {}
  BY <1>1
<1>4. TypeOK /\ InOrder
  BY <1>1, <1>2, <1>3 DEF TypeOK, InOrder, state
<1>5. RefsResolve /\ FirstsRight
  BY <1>3 DEF RefsResolve, FirstsRight
<1>6. \A n \in Names : conds[n] = <<>> /\ Len(conds[n]) = 0
  BY <1>1
<1>7. FirstIsParsed /\ ObjectForAll /\ ArrayForSeveral
  BY <1>6 DEF FirstIsParsed, ObjectForAll, ArrayForSeveral
<1> QED
  BY <1>4, <1>5, <1>7 DEF IInv

LEMMA Inductive ==
  ASSUME IInv, [Next]_vars
  PROVE  IInv'
<1>1. CASE BeginState
  BY <1>1, BeginKeeps
<1>2. CASE ChildStep
  <2>1. PICK r : Effect(r)
    BY <1>2, EffectOfStep DEF IInv
  <2> QED
    BY <2>1, EffectKeepsInvariant
<1>3. CASE UNCHANGED vars
  BY <1>3, Unchanged
<1> QED
  BY <1>1, <1>2, <1>3 DEF Next, ChildStep, Done

(***************************************************************************)
(* In every reachable state of every state machine the invariant holds:    *)
(* the states are parsed in order, every reference resolves, and an entry  *)
(* has one node exactly as long as its transitions are alike.              *)
(***************************************************************************)
THEOREM Invariance == Spec => []IInv
<1>1. Init => IInv
  BY InitIsInvariant
<1>2. IInv /\ [Next]_vars => IInv'
  BY Inductive
<1> QED
  BY <1>1, <1>2, PTL DEF Spec

(***************************************************************************)
(* A reference whose name had only one node before it means the node of    *)
(* its own transition, now and after all later steps.                      *)
(***************************************************************************)
THEOREM FirstsRightCorrect == Spec => []FirstsRight
<1>1. IInv => FirstsRight
  BY DEF IInv
<1> QED
  BY <1>1, Invariance, PTL

(***************************************************************************)
(* No step of ParseChildren changes what a reference handed out before     *)
(* means, although it may turn the entry from an object into an array.     *)
(***************************************************************************)
THEOREM MeaningIsKept == Spec => MeaningKept
<1>1. IInv /\ [Next]_vars =>
        [\A s \in DOMAIN refs : \A k \in DOMAIN refs[s] :
           Meant(refs[s][k])' = Meant(refs[s][k])]_vars
  <2>1. SUFFICES ASSUME IInv, [Next]_vars, ~ UNCHANGED vars,
                        NEW s \in DOMAIN refs, NEW k \in DOMAIN refs[s]
                 PROVE  Meant(refs[s][k])' = Meant(refs[s][k])
    OBVIOUS
  <2>2. CASE BeginState
    BY <2>1, <2>2, BeginKeeps
  <2>3. CASE ChildStep
    <3>1. PICK r : Effect(r)
      BY <2>1, <2>3, EffectOfStep DEF IInv
    <3> QED
      BY <2>1, <3>1, EffectKeepsMeaning DEF IInv
  <2> QED
    BY <2>1, <2>2, <2>3 DEF Next, ChildStep, Done
<1> QED
  BY <1>1, Invariance, PTL DEF Spec, MeaningKept
=============================================================================
