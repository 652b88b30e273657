----------------------------- MODULE MCMdoGltf ------------------------------
(***************************************************************************)
(* Models in three families: skeletons of every order over three bones     *)
(* that the model's own bones share or not; morph targets of every shape   *)
(* over two vertex buffers of which one is drawn by two primitives; and    *)
(* weights through palettes that primitives of one buffer share or not.    *)
(* Beside them one model for each of the references the loader checks.     *)
(***************************************************************************)
EXTENDS MdoGltf

Archive(kind) == [kind |-> kind, links |-> <<>>]

Skeleton(a, b, c) ==
  [kind |-> "skeleton",
   links |-> <<[name |-> "a", parent |-> a], [name |-> "b", parent |-> b],
               [name |-> "c", parent |-> c]>>]

Plain ==
  [version |-> 1, own |-> Archive("none"), fallback |-> Archive("none"), bones |-> <<>>,
   skins |-> <<>>, streamed |-> TRUE, procedural |-> <<>>, lods |-> 0, palettes |-> <<>>,
   weights |-> 0, prims |-> <<>>, indices |-> <<>>,
   vertices |-> <<>>, morphs |-> <<>>, names |-> 0]

Prim(v, i, l, f) == [vertex |-> v, index |-> i, lod |-> l, flags |-> f]

Buffer(keys, ids) == [count |-> 3, keys |-> keys, ids |-> ids, weighs |-> FALSE]

WeightBuffer == [count |-> 9, keys |-> <<>>, ids |-> <<>>, weighs |-> TRUE]

Archives ==
  {Archive(k) : k \in {"none", "foreign", "bare"}}
    \cup {Skeleton(s[1], s[2], s[3]) : s \in {0} \X {0, 1, 3} \X {0, 1, 2}}

Skeletons ==
  {[Plain EXCEPT !.own = o, !.fallback = f, !.version = v,
                 !.bones = <<[name |-> "b", parent |-> p], [name |-> "d", parent |-> q],
                             [name |-> "e", parent |-> r]>>,
                 !.skins = s] :
     o \in Archives, f \in {Archive("none"), Archive("foreign"), Skeleton(0, 1, 1)},
     v \in {1, 2}, p \in {0, 2}, q \in {0, 1, 3}, r \in {0, 2},
     s \in {<<<<1, 2, 3>>>>, <<<<3, 2>>, <<2, 1>>>>}}

Shapes == {[at |-> a, turned |-> t] : a \in {<<>>, <<2>>, <<2, 0>>}, t \in {{}, {0}, {0, 2}}}

Morphed ==
  {[Plain EXCEPT !.version = 3, !.names = 2,
                 !.prims = <<Prim(1, 1, 1, {}), Prim(v, 2, l, {}), Prim(1, 1, 2, {})>>,
                 !.indices = <<<<0, 1, 2>>, <<1, 1>>>>,
                 !.vertices = <<Buffer(<<"NORMAL">>, <<>>), Buffer(<<"POSITION">>, <<>>)>>,
                 !.morphs = <<[target |-> 1, ids |-> <<i, 2>>, shapes |-> <<x, y>>],
                              [target |-> t, ids |-> <<1>>, shapes |-> <<y>>]>>] :
     v \in {1, 2}, l \in {1, 2}, i \in {1, 2, 3}, t \in {1, 2}, x \in Shapes, y \in Shapes}

Palette(l, s, o) == [lod |-> l, slot |-> s, offset |-> o]

Weighted ==
  {[Plain EXCEPT !.version = 3, !.lods = n,
                 !.bones = <<[name |-> "a", parent |-> 0]>>, !.skins = <<<<1>>>>,
                 !.prims = <<Prim(1, 1, 0, f), Prim(v, 2, l, g), Prim(1, 3, 1, f)>>,
                 !.indices = <<<<0, 2>>, j, <<2, m>>>>,
                 !.vertices = <<Buffer(<<"POSITION">>, ids), Buffer(<<"POSITION">>, <<5, 0, 1>>),
                                WeightBuffer>>,
                 !.weights = 3,
                 !.palettes = <<Palette(0, 1, 0), Palette(k, 2, o), Palette(1, 3, 4)>>] :
     n \in {1, 2}, f \in {{}, {1}}, g \in {{1, 2}, {2}, {3}}, v \in {1, 2}, l \in {1, 2, 3},
     j \in {<<1>>, <<1, 0>>}, m \in {1, 3}, ids \in {<<0, 1, 2>>, <<>>}, k \in {0, 1}, o \in {0, 3, 5}}

Drawn ==
  [Plain EXCEPT !.version = 3, !.lods = 1, !.names = 1,
                !.bones = <<[name |-> "a", parent |-> 0], [name |-> "b", parent |-> 1]>>,
                !.procedural = <<[bone |-> 2, parent |-> 1]>>, !.skins = <<<<1, 2>>>>,
                !.prims = <<Prim(1, 1, 0, {})>>, !.indices = <<<<0, 2>>>>,
                !.vertices = <<Buffer(<<"POSITION">>, <<0, 1, 2>>), WeightBuffer>>, !.weights = 2,
                !.palettes = <<Palette(0, 0, 0)>>,
                !.morphs = <<[target |-> 1, ids |-> <<>>, shapes |-> <<>>]>>]

Referring ==
  {Drawn, [Drawn EXCEPT !.streamed = FALSE]}
    \cup {[Drawn EXCEPT !.procedural = Append(@, [bone |-> b[1], parent |-> b[2]])] :
            b \in {<<3, 1>>, <<2, 3>>}}
    \cup {[Drawn EXCEPT !.morphs[1].target = t] : t \in {2, 3}}
    \cup {[Drawn EXCEPT !.weights = v] : v \in {1, 3}}
    \cup {[Drawn EXCEPT !.palettes = Append(@, Palette(p[1], p[2], 0))] :
            p \in {<<0, 15>>, <<0, 16>>, <<1, 0>>}}

MCModels == Skeletons \cup Morphed \cup Weighted \cup Referring
=============================================================================
