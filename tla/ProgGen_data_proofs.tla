------------------------ MODULE ProgGen_data_proofs --------------------------
(***************************************************************************)
(* Lemmas about the data of ProgGen, which its operators build with folds: *)
(* what the definition of an interface is read as, what a type may be      *)
(* constructed as, the last entry of each node in the shared file, and     *)
(* what is read from the answer of a node.                                 *)
(***************************************************************************)
EXTENDS ProgGen, FoldLemmas, SequenceTheorems

-----------------------------------------------------------------------------
(* Types.                                                                   *)

\* The texts: of the strings that the modules spell out, the provers do not
\* know that they are in STRING.
Text == STRING \cup Types \cup Signs \cup ToSet(Sections) \cup {"0", "0.5", "\\0"}

\* The nodes of trees.
ItfNode == [op : {"itf"}, name : Text, type : Text, array : BOOLEAN, below : Nat]
Simple == [op : {"int"}, pad : Range(Pad), int : Nat] \cup {BoolType}
  \cup [op : {"double"}, double : Text] \cup [op : {"char"}, char : Text]
  \cup [op : {"string"}, len : Nat, string : Seq(Text)]
Leaf == Simple \cup [op : {"array"}, inner : MetaTypes, len : Nat, elems : Seq(Simple)]

\* A leaf that is right below its interface, of the type of this.
Unsigned(pad) == IF pad < 0 THEN -pad ELSE pad
Suits(h, leaf) ==
  /\ leaf.op = "int" => h.type \in DOMAIN Pad /\ leaf.pad = Pad[h.type]
  /\ leaf.op = "array" => leaf.inner = h.type
  /\ leaf.op = "array" /\ leaf.inner \in DOMAIN Pad =>
       \A k \in DOMAIN leaf.elems : leaf.elems[k].op = "int" /\ leaf.elems[k].pad = Unsigned(Pad[leaf.inner])
Hangs(tree) == \A i \in DOMAIN tree : tree[i] \in Leaf => i - 1 \in DOMAIN tree /\ tree[i - 1] \in ItfNode
Typed(tree) == \A i \in DOMAIN tree : tree[i] \in Leaf => Suits(tree[i - 1], tree[i])

Tree == {tree \in Seq(ItfNode \cup Leaf) : Hangs(tree)}

\* Nothing was drawn for it yet.
Empty(leaf) ==
  (leaf.op = "string" => leaf.string = << >>) /\ (leaf.op = "array" => leaf.elems = << >> /\ leaf.len > 0)
Fresh(tree) == \A i \in DOMAIN tree : tree[i] \in Leaf => Empty(tree[i])

ParamTree == {tree \in Tree : Fresh(tree)}
FreshTree == {tree \in ParamTree : Typed(tree)}

\* The entry of a node: what the node answered, if it did, when it was asked.
Offered(app) == UNION {{<<s, o[1], o[2]>> : o \in ToSet(app.offers[s])} : s \in DOMAIN app.offers}
Offers(app) == {o \in Offered(app) : o[2] \notin ParameterWords}
Settable(app) == {p \in app.params : ~p.qos}
Names(params) == {p.name : p \in params}
Answers(e) ==
  LET app == Apps[e.version][e.name] IN
  /\ {<<d[1], d[2], e.itfs[d][1].type>> : d \in DOMAIN e.itfs} = Offers(app)
  /\ DOMAIN e.params = Names(Settable(app))
ItfMap == UNION {[D -> FreshTree] : D \in SUBSET (Text \X Text)}
ParamMap == UNION {[D -> ParamTree] : D \in SUBSET Text}
Entry ==
  {e \in [op : {"node"}, name : Nodes \ Skipped, itfs : ItfMap, params : ParamMap,
          version : DOMAIN Apps, silent : BOOLEAN] : ~e.silent => Answers(e)}

\* What the json files hold.
Param ==
  {a \in [type : Types, name : Text, array : BOOLEAN, size : Nat, const : BOOLEAN] : a.array => a.size > 0}
Json(j) ==
  /\ DOMAIN j.infos = ToSet(Interfaces)
  /\ \A itf \in ToSet(Interfaces) : j.infos[itf] \in Seq(Param)
  /\ \A t \in DOMAIN j.maps : t \in Text /\ j.maps[t] \in ToSet(Interfaces)

-----------------------------------------------------------------------------
(* Trees.                                                                   *)

\* A node is one or the other.
LEMMA NodeKinds ==
  /\ \A x \in ItfNode : x.op = "itf"
  /\ \A x \in Leaf : x.op # "itf"
  /\ ItfNode \cap Leaf = {}
<1>1. \A x \in ItfNode : x.op = "itf"
  BY DEF ItfNode
<1>2. \A x \in Leaf : x.op # "itf"
  BY DEF Leaf, Simple, BoolType
<1> QED BY <1>1, <1>2

\* A sequence with one more in front, and a sequence after another.
LEMMA ConsFacts ==
  ASSUME NEW S, NEW x \in S, NEW s \in Seq(S)
  PROVE  /\ <<x>> \o s \in Seq(S) /\ DOMAIN s = 1 .. Len(s) /\ Len(s) \in Nat
         /\ DOMAIN (<<x>> \o s) = 1 .. Len(s) + 1 /\ Len(<<x>> \o s) = Len(s) + 1
         /\ (<<x>> \o s)[1] = x /\ \A i \in 1 .. Len(s) : (<<x>> \o s)[i + 1] = s[i]
<1>1. <<x>> \in Seq(S) /\ Len(<<x>>) = 1 /\ Len(s) \in Nat /\ <<x>>[1] = x
  OBVIOUS
<1>2. <<x>> \o s \in Seq(S) /\ Len(<<x>> \o s) = Len(s) + 1
  BY <1>1
<1>3. (<<x>> \o s)[1] = x
  BY <1>1
<1>4. ASSUME NEW i \in 1 .. Len(s) PROVE (<<x>> \o s)[i + 1] = s[i]
  BY <1>1
<1>5. DOMAIN s = 1 .. Len(s) /\ DOMAIN (<<x>> \o s) = 1 .. Len(s) + 1
  BY <1>1, <1>2
<1> QED BY <1>1, <1>2, <1>3, <1>4, <1>5

\* What is below an interface hangs below it.
LEMMA InterfaceValTree ==
  ASSUME NEW name \in Text, NEW type \in Text, NEW array \in BOOLEAN, NEW val \in FreshTree
  PROVE  InterfaceVal(name, type, array, val) \in FreshTree
<1> DEFINE x == Itf(name, type, array, Len(val))
           tree == <<x>> \o val
<1>1. val \in Seq(ItfNode \cup Leaf) /\ Hangs(val) /\ Fresh(val) /\ Typed(val)
  BY DEF FreshTree, ParamTree, Tree
<1>2. x \in ItfNode
  BY <1>1 DEF Itf, ItfNode
<1>3. /\ tree \in Seq(ItfNode \cup Leaf)
      /\ DOMAIN val = 1 .. Len(val) /\ DOMAIN tree = 1 .. Len(val) + 1 /\ Len(val) \in Nat
      /\ tree[1] = x /\ \A i \in 1 .. Len(val) : tree[i + 1] = val[i]
  <2>1. x \in ItfNode \cup Leaf
    BY <1>2
  <2> HIDE DEF x
  <2> QED BY <1>1, <2>1, ConsFacts
<1>4. DOMAIN val = 1 .. Len(val) /\ DOMAIN tree = 1 .. Len(val) + 1 /\ Len(val) \in Nat
  BY <1>3
<1>5. tree[1] = x /\ \A i \in 1 .. Len(val) : tree[i + 1] = val[i]
  BY <1>3
<1> HIDE DEF x
<1>6. tree[1] \notin Leaf
  BY <1>2, <1>5, NodeKinds
<1>7. ASSUME NEW i \in DOMAIN tree, tree[i] \in Leaf
      PROVE  /\ i - 1 \in DOMAIN val /\ i - 2 \in DOMAIN val
             /\ tree[i] = val[i - 1] /\ tree[i - 1] = val[i - 2] /\ i - 1 \in DOMAIN tree
             /\ val[i - 2] \in ItfNode
  <2>1. i # 1 /\ i \in 2 .. Len(val) + 1
    <3>1. i # 1
      BY <1>6, <1>7
    <3> HIDE DEF tree
    <3> QED BY <1>4, <1>7, <3>1
  <2>2. i - 1 \in DOMAIN val /\ tree[i] = val[i - 1]
    <3>1. i - 1 \in 1 .. Len(val) /\ (i - 1) + 1 = i
      BY <1>4, <2>1
    <3> HIDE DEF tree
    <3> QED BY <1>4, <1>5, <3>1
  <2>3. i - 2 \in DOMAIN val /\ val[i - 2] \in ItfNode
    <3>1. (i - 1) - 1 = i - 2
      BY <1>4, <2>1
    <3> QED BY <1>1, <1>7, <2>2, <3>1 DEF Hangs
  <2>4. tree[i - 1] = val[i - 2]
    <3>1. i - 2 \in 1 .. Len(val) /\ (i - 2) + 1 = i - 1
      BY <1>4, <2>3, <2>1
    <3> HIDE DEF tree
    <3> QED BY <1>4, <1>5, <3>1
  <2> QED BY <1>4, <2>1, <2>2, <2>3, <2>4
<1>8. Hangs(tree) /\ Fresh(tree) /\ Typed(tree)
  <2>1. ASSUME NEW i \in DOMAIN tree, tree[i] \in Leaf
        PROVE  i - 1 \in DOMAIN tree /\ tree[i - 1] \in ItfNode /\ Empty(tree[i]) /\ Suits(tree[i - 1], tree[i])
    <3>1. /\ i - 1 \in DOMAIN val /\ i - 2 \in DOMAIN val
          /\ tree[i] = val[i - 1] /\ tree[i - 1] = val[i - 2] /\ i - 1 \in DOMAIN tree
          /\ val[i - 2] \in ItfNode
      BY <1>7, <2>1
    <3>2. (i - 1) - 1 = i - 2
      BY <1>4
    <3> HIDE DEF tree
    <3> QED BY <1>1, <2>1, <3>1, <3>2 DEF Fresh, Typed
  <2> HIDE DEF tree
  <2> QED BY <2>1 DEF Hangs, Fresh, Typed
<1> HIDE DEF tree
<1>9. tree \in FreshTree
  BY <1>3, <1>8 DEF FreshTree, ParamTree, Tree
<1> QED BY <1>9 DEF tree, x, InterfaceVal

\* So does a leaf below its interface.
LEMMA LeafTree ==
  ASSUME NEW name \in Text, NEW type \in Text, NEW array \in BOOLEAN,
         NEW leaf \in Leaf, Empty(leaf)
  PROVE  /\ InterfaceVal(name, type, array, <<leaf>>) \in ParamTree
         /\ Suits(Itf(name, type, array, 1), leaf) =>
              InterfaceVal(name, type, array, <<leaf>>) \in FreshTree
<1> DEFINE x == Itf(name, type, array, 1)
           tree == InterfaceVal(name, type, array, <<leaf>>)
<1>1. tree = <<x>> \o <<leaf>>
  <2>1. Len(<<leaf>>) = 1
    OBVIOUS
  <2> QED BY <2>1 DEF InterfaceVal
<1>2. x \in ItfNode
  BY DEF Itf, ItfNode
<1> HIDE DEF x
<1>3. tree \in Seq(ItfNode \cup Leaf) /\ DOMAIN tree = 1 .. 2 /\ tree[1] = x /\ tree[2] = leaf
  <2>1. <<leaf>> \in Seq(ItfNode \cup Leaf) /\ Len(<<leaf>>) = 1 /\ <<leaf>>[1] = leaf
    OBVIOUS
  <2>2. x \in ItfNode \cup Leaf
    BY <1>2
  <2>3. /\ tree \in Seq(ItfNode \cup Leaf) /\ DOMAIN tree = 1 .. 1 + 1
        /\ tree[1] = x /\ \A i \in 1 .. 1 : tree[i + 1] = <<leaf>>[i]
    <3> HIDE DEF tree
    <3> QED BY <1>1, <2>1, <2>2, ConsFacts
  <2> HIDE DEF tree
  <2>4. 1 \in 1 .. 1 /\ 1 + 1 = 2
    OBVIOUS
  <2> QED BY <2>1, <2>3, <2>4
<1>4. tree[1] \notin Leaf
  BY <1>2, <1>3, NodeKinds
<1> HIDE DEF tree
<1>5. \A i \in DOMAIN tree : tree[i] \in Leaf => i = 2
  BY <1>3, <1>4
<1>6. 2 - 1 \in DOMAIN tree /\ tree[2 - 1] = x
  BY <1>3
<1>7. Hangs(tree) /\ Fresh(tree) /\ (Suits(x, leaf) => Typed(tree))
  BY <1>2, <1>3, <1>5, <1>6 DEF Hangs, Fresh, Typed
<1>8. tree \in ParamTree /\ (Suits(x, leaf) => tree \in FreshTree)
  BY <1>3, <1>7 DEF FreshTree, ParamTree, Tree
<1> QED BY <1>8 DEF tree, x

\* Trees one after the other.
LEMMA TreesJoined ==
  ASSUME NEW s \in FreshTree, NEW t \in FreshTree
  PROVE  s \o t \in FreshTree
<1> DEFINE tree == s \o t
<1>1. /\ s \in Seq(ItfNode \cup Leaf) /\ Hangs(s) /\ Fresh(s) /\ Typed(s)
      /\ t \in Seq(ItfNode \cup Leaf) /\ Hangs(t) /\ Fresh(t) /\ Typed(t)
  BY DEF FreshTree, ParamTree, Tree
<1>2. tree \in Seq(ItfNode \cup Leaf)
  BY <1>1
<1>3. /\ Len(s) \in Nat /\ Len(t) \in Nat /\ DOMAIN s = 1 .. Len(s) /\ DOMAIN t = 1 .. Len(t)
      /\ DOMAIN tree = 1 .. Len(s) + Len(t)
  BY <1>1
<1>4. (\A i \in 1 .. Len(s) : tree[i] = s[i]) /\ \A i \in 1 .. Len(t) : tree[Len(s) + i] = t[i]
  BY <1>1, <1>3
<1> HIDE DEF tree
<1>5. ASSUME NEW i \in DOMAIN tree, tree[i] \in Leaf
      PROVE  i - 1 \in DOMAIN tree /\ tree[i - 1] \in ItfNode /\ Empty(tree[i]) /\ Suits(tree[i - 1], tree[i])
  <2>1. CASE i <= Len(s)
    <3>1. i \in DOMAIN s /\ tree[i] = s[i]
      BY <1>3, <1>4, <1>5, <2>1
    <3>2. i - 1 \in DOMAIN s /\ s[i - 1] \in ItfNode /\ Empty(s[i]) /\ Suits(s[i - 1], s[i])
      BY <1>1, <1>5, <3>1 DEF Hangs, Fresh, Typed
    <3>3. tree[i - 1] = s[i - 1] /\ i - 1 \in DOMAIN tree
      BY <1>3, <1>4, <3>2
    <3> QED BY <3>1, <3>2, <3>3
  <2>2. CASE i > Len(s)
    <3> DEFINE k == i - Len(s)
    <3>1. k \in DOMAIN t /\ i = Len(s) + k
      BY <1>3, <1>5, <2>2
    <3> HIDE DEF k
    <3>2. tree[i] = t[k]
      BY <1>3, <1>4, <3>1
    <3>3. k - 1 \in DOMAIN t /\ t[k - 1] \in ItfNode /\ Empty(t[k]) /\ Suits(t[k - 1], t[k])
      BY <1>1, <1>5, <3>1, <3>2 DEF Hangs, Fresh, Typed
    <3>4. i - 1 = Len(s) + (k - 1) /\ i - 1 \in DOMAIN tree
      BY <1>3, <3>1, <3>3
    <3>5. tree[i - 1] = t[k - 1]
      BY <1>3, <1>4, <3>3, <3>4
    <3> QED BY <3>2, <3>3, <3>4, <3>5
  <2> QED BY <1>3, <2>1, <2>2
<1>6. Hangs(tree) /\ Fresh(tree) /\ Typed(tree)
  BY <1>5 DEF Hangs, Fresh, Typed
<1>7. tree \in FreshTree
  BY <1>2, <1>6 DEF FreshTree, ParamTree, Tree
<1> QED BY <1>7 DEF tree

\* No nodes at all are a tree.
LEMMA NoTree == << >> \in FreshTree
<1>1. << >> \in Seq(ItfNode \cup Leaf) /\ DOMAIN << >> = {}
  OBVIOUS
<1> QED BY <1>1 DEF FreshTree, ParamTree, Tree, Hangs, Fresh, Typed

-----------------------------------------------------------------------------
(* Flattened sequences                                                      *)

\* FlattenSeq is a loop over the sequences.
FlattenLoop(f, seqs) ==
  /\ f[0] = << >>
  /\ \A n \in 0 .. Len(seqs) - 1 : f[n + 1] = f[n] \o seqs[n + 1]

\* It is, when every sequence is of the same kind of elements.
LEMMA FlattenLoops ==
  ASSUME NEW S, NEW seqs \in Seq(Seq(S))
  PROVE  \E f \in [0 .. Len(seqs) -> Seq(S)] : FlattenLoop(f, seqs) /\ FlattenSeq(seqs) = f[Len(seqs)]
<1> DEFINE L == Len(seqs)
           rel == [p \in Seq(S) \X (1 .. L) |-> p[1] \o seqs[p[2]]]
           Rec(h) == h = [i \in 1 .. L |-> IF i = 1 THEN seqs[i] ELSE h[i - 1] \o seqs[i]]
<1>1. L \in Nat /\ DOMAIN seqs = 1 .. L /\ << >> \in Seq(S) /\ \A i \in 1 .. L : seqs[i] \in Seq(S)
  OBVIOUS
<1>2. rel \in [Seq(S) \X (1 .. L) -> Seq(S)]
  BY <1>1
<1>3. PICK g \in [SUBSET (1 .. L) -> Seq(S)] : Iterates(g, << >>, L, rel)
  <2> HIDE DEF rel, L
  <2> QED BY <1>1, <1>2, IteratesExists
<1> DEFINE f == [n \in 0 .. L |-> g[1 .. n]]
<1>4. f \in [0 .. L -> Seq(S)] /\ f[0] = << >>
  <2>1. 1 .. 0 = {} /\ {} \in SUBSET (1 .. L) /\ 0 \in 0 .. L
    BY <1>1
  <2>2. g[{}] = << >>
    BY <1>3, <2>1 DEF Iterates
  <2>3. \A n \in 0 .. L : 1 .. n \in SUBSET (1 .. L)
    BY <1>1
  <2> HIDE DEF L
  <2> QED BY <2>1, <2>2, <2>3
<1>5. ASSUME NEW n \in 0 .. L - 1 PROVE f[n + 1] = f[n] \o seqs[n + 1]
  <2>1. /\ 1 .. n + 1 \in SUBSET (1 .. L) /\ 1 .. n + 1 # {} /\ n + 1 \in 1 .. L
        /\ Max(1 .. n + 1) = n + 1 /\ (1 .. n + 1) \ {n + 1} = 1 .. n
    BY <1>1, UpTo
  <2>2. g[1 .. n] \in Seq(S)
    <3>1. 1 .. n \in SUBSET (1 .. L)
      BY <2>1
    <3> QED BY <3>1
  <2>3. g[1 .. n + 1] = rel[<<g[1 .. n], n + 1>>]
    <3> HIDE DEF rel, L
    <3> QED BY <1>3, <2>1 DEF Iterates
  <2>4. n \in 0 .. L /\ n + 1 \in 0 .. L
    BY <1>1
  <2> QED BY <2>1, <2>2, <2>3, <2>4
<1> HIDE DEF f
<1>6. CASE L = 0
  <2>1. FlattenSeq(seqs) = << >>
    <3>1. seqs = << >>
      BY <1>6
    <3> QED BY <1>6, <3>1 DEF FlattenSeq
  <2>2. FlattenLoop(f, seqs)
    BY <1>4, <1>5 DEF FlattenLoop
  <2> QED BY <1>4, <1>6, <2>1, <2>2
<1>7. CASE L # 0
  <2>1. 0 \in 0 .. L - 1 /\ 1 \in 1 .. L /\ L \in 1 .. L
    BY <1>1, <1>7
  <2>2. f[1] = seqs[1]
    <3>1. f[0 + 1] = << >> \o seqs[0 + 1]
      BY <1>4, <1>5, <2>1
    <3> QED BY <1>1, <2>1, <3>1
  <2>3. \E h : Rec(h)
    <3> DEFINE h == [i \in 1 .. L |-> f[i]]
    <3>1. ASSUME NEW i \in 1 .. L PROVE h[i] = IF i = 1 THEN seqs[i] ELSE h[i - 1] \o seqs[i]
      <4>1. CASE i = 1
        BY <2>2, <4>1
      <4>2. CASE i # 1
        <5>1. i - 1 \in 0 .. L - 1 /\ i - 1 \in 1 .. L /\ (i - 1) + 1 = i
          BY <1>1, <4>2
        <5>2. f[i] = f[i - 1] \o seqs[i]
          BY <1>5, <5>1
        <5> QED BY <4>2, <5>1, <5>2
      <4> QED BY <4>1, <4>2
    <3> HIDE DEF L
    <3>2. Rec(h)
      BY <3>1
    <3> HIDE DEF Rec
    <3> QED BY <3>2
  <2>4. \E h : Rec(h) /\ FlattenSeq(seqs) = h[L]
    BY <1>7, <2>3 DEF FlattenSeq
  <2>5. PICK h : Rec(h) /\ FlattenSeq(seqs) = h[L]
    BY <2>4
  <2> DEFINE Same == {n \in 0 .. L : n = 0 \/ h[n] = f[n]}
  <2>6. 0 \in Same
    BY <1>1
  <2>7. ASSUME NEW n \in 0 .. L - 1, n \in Same PROVE n + 1 \in Same
    <3>1. n + 1 \in 1 .. L /\ n + 1 \in 0 .. L /\ (n + 1) - 1 = n
      BY <1>1
    <3>2. h[n + 1] = IF n + 1 = 1 THEN seqs[n + 1] ELSE h[n] \o seqs[n + 1]
      BY <2>5, <3>1
    <3>3. f[n + 1] = f[n] \o seqs[n + 1]
      BY <1>5
    <3>4. h[n + 1] = f[n + 1]
      <4>1. CASE n = 0
        BY <2>2, <3>2, <4>1
      <4>2. CASE n # 0
        <5>1. n + 1 # 1 /\ h[n] = f[n]
          BY <1>1, <2>7, <4>2
        <5> QED BY <3>2, <3>3, <5>1
      <4> QED BY <4>1, <4>2
    <3> QED BY <3>1, <3>4
  <2>8. L \in Same
    <3>1. 0 .. L \subseteq Same
      <4> HIDE DEF Same, L
      <4> QED BY <1>1, <2>6, <2>7, BoundedInduction
    <3>2. L \in 0 .. L
      BY <1>1
    <3> HIDE DEF Same
    <3> QED BY <3>1, <3>2
  <2>9. FlattenSeq(seqs) = f[L]
    BY <1>7, <2>5, <2>8
  <2> QED BY <1>4, <1>5, <2>9 DEF FlattenLoop
<1> QED BY <1>6, <1>7

-----------------------------------------------------------------------------
(* What a type may be constructed as.                                       *)

\* Fresh trees, flattened, are one.
LEMMA TreesFlat ==
  ASSUME NEW n \in Nat, NEW elems \in [1 .. n -> FreshTree]
  PROVE  FlattenSeq(elems) \in FreshTree
<1>1. elems \in Seq(FreshTree) /\ Len(elems) = n /\ FreshTree \subseteq Seq(ItfNode \cup Leaf)
  <2>1. FreshTree \subseteq Seq(ItfNode \cup Leaf)
    BY DEF FreshTree, ParamTree, Tree
  <2> QED BY <2>1
<1>2. elems \in Seq(Seq(ItfNode \cup Leaf))
  <2>1. \A i \in 1 .. n : elems[i] \in Seq(ItfNode \cup Leaf)
    BY <1>1
  <2> QED BY <2>1
<1>3. PICK f \in [0 .. n -> Seq(ItfNode \cup Leaf)] : FlattenLoop(f, elems) /\ FlattenSeq(elems) = f[n]
  BY <1>1, <1>2, FlattenLoops
<1> DEFINE Good == {k \in 0 .. n : f[k] \in FreshTree}
<1>4. 0 \in Good
  BY <1>3, NoTree DEF FlattenLoop
<1>5. ASSUME NEW k \in 0 .. n - 1, k \in Good PROVE k + 1 \in Good
  <2>1. k + 1 \in 1 .. n /\ k + 1 \in 0 .. n
    OBVIOUS
  <2>2. f[k + 1] = f[k] \o elems[k + 1]
    BY <1>1, <1>3 DEF FlattenLoop
  <2>3. f[k] \in FreshTree /\ elems[k + 1] \in FreshTree
    BY <1>5, <2>1
  <2>4. f[k + 1] \in FreshTree
    BY <2>2, <2>3, TreesJoined
  <2> QED BY <2>1, <2>4
<1>6. 0 .. n \subseteq Good
  <2> HIDE DEF Good
  <2> QED BY <1>4, <1>5, BoundedInduction
<1>7. n \in 0 .. n
  OBVIOUS
<1> QED BY <1>3, <1>6, <1>7

\* The leaf of a field of a plain type is empty, and suits the field.
LEMMA MetaLeafFresh ==
  ASSUME NEW a \in Param, a.type \in MetaTypes, NEW leaf \in MetaLeaf(a)
  PROVE  leaf \in Leaf /\ Empty(leaf) /\ Suits(Itf(a.name, a.type, a.array, 1), leaf)
<1>1. /\ a.array \in BOOLEAN /\ a.name \in Text /\ a.size \in Nat /\ (a.array => a.size > 0)
      /\ a.type \in MetaTypes
  BY DEF Param
<1>2. << >> \in Seq(Simple) /\ << >> \in Seq(Text) /\ DOMAIN << >> = {}
  OBVIOUS
<1>3. CASE a.array
  <2>1. leaf = ArrayType(a.type, a.size, << >>)
    BY <1>3 DEF MetaLeaf
  <2> DEFINE t == a.type
             n == a.size
             none == << >>
  <2>2. t \in MetaTypes /\ n \in Nat /\ n > 0 /\ none \in Seq(Simple) /\ DOMAIN none = {} /\ none = << >>
    BY <1>1, <1>2, <1>3
  <2> HIDE DEF t, n, none
  <2>3. LET l == ArrayType(t, n, none)
        IN l \in Leaf /\ l.op = "array" /\ l.inner = t /\ l.len = n /\ l.elems = none
    BY <2>2 DEF ArrayType, Leaf
  <2>4. leaf \in Leaf /\ leaf.op = "array" /\ leaf.inner = t /\ leaf.len = n /\ leaf.elems = none
    BY <2>1, <2>3 DEF t, n, none
  <2>5. Itf(a.name, a.type, a.array, 1).type = t
    BY DEF Itf, t
  <2> HIDE DEF MetaLeaf
  <2> QED BY <2>2, <2>4, <2>5 DEF Empty, Suits
<1>4. CASE ~a.array
  <2>0. /\ "string" \notin Floats \cup Chars \cup DOMAIN Pad \cup {"bool"}
        /\ "bool" \notin Floats \cup Chars \cup DOMAIN Pad
        /\ Floats \cap Chars = {} /\ Floats \cap DOMAIN Pad = {} /\ Chars \cap DOMAIN Pad = {}
    BY DEF Floats, Chars, Pad
  <2>1. CASE a.type = "string"
    <3>1. PICK len \in Nat : leaf = StringType(len, << >>)
      <4>1. Lengths \subseteq Nat
        BY ValueAssumption
      <4>2. MetaLeaf(a) = {StringType(len, << >>) : len \in IF a.name = "node" THEN {0} ELSE Lengths}
        BY <1>4, <2>0, <2>1 DEF MetaLeaf
      <4> QED BY <4>1, <4>2
    <3> DEFINE none == << >>
    <3>2. none \in Seq(Text) /\ none = << >>
      BY <1>2
    <3> HIDE DEF none
    <3>3. StringType(len, none) \in Leaf /\ StringType(len, none).op = "string"
          /\ StringType(len, none).string = none
      BY <3>2 DEF StringType, Leaf, Simple
    <3> QED BY <3>1, <3>2, <3>3 DEF Empty, Suits
  <2>2. CASE a.type \in Floats
    <3>1. leaf = DoubleType("0")
      <4>1. a.type \notin Chars \cup DOMAIN Pad \cup {"bool", "string"}
        BY <2>0, <2>2
      <4>2. MetaLeaf(a) = {DoubleType("0")}
        BY <1>4, <2>2, <4>1 DEF MetaLeaf
      <4> QED BY <4>2
    <3>2. leaf \in Leaf /\ leaf.op = "double"
      BY <3>1 DEF DoubleType, Leaf, Simple, Text
    <3> QED BY <3>2 DEF Empty, Suits
  <2>3. CASE a.type \in Chars
    <3>1. leaf = CharType("\\0")
      <4>1. a.type \notin Floats \cup DOMAIN Pad \cup {"bool", "string"}
        BY <2>0, <2>3
      <4>2. MetaLeaf(a) = {CharType("\\0")}
        BY <1>4, <2>3, <4>1 DEF MetaLeaf
      <4> QED BY <4>2
    <3>2. leaf \in Leaf /\ leaf.op = "char"
      BY <3>1 DEF CharType, Leaf, Simple, Text
    <3> QED BY <3>2 DEF Empty, Suits
  <2>4. CASE a.type = "bool"
    <3>1. leaf = BoolType
      BY <1>4, <2>4 DEF MetaLeaf, Floats, Chars, Pad
    <3>2. leaf \in Leaf /\ leaf.op = "bool"
      BY <3>1 DEF BoolType, Leaf, Simple
    <3> QED BY <3>2 DEF Empty, Suits
  <2>5. CASE a.type \in DOMAIN Pad
    <3>1. leaf = IntType(Pad[a.type], 0)
      <4>1. a.type \notin Floats \cup Chars \cup {"bool", "string"}
        BY <2>0, <2>5
      <4>2. MetaLeaf(a) = {IntType(Pad[a.type], 0)}
        BY <1>4, <2>5, <4>1 DEF MetaLeaf
      <4> QED BY <4>2
    <3> DEFINE pad == Pad[a.type]
    <3>2. pad \in Range(Pad)
      BY <2>5 DEF Range
    <3> HIDE DEF pad
    <3>3. IntType(pad, 0) \in Leaf /\ IntType(pad, 0).op = "int" /\ IntType(pad, 0).pad = pad
      BY <3>2 DEF IntType, Leaf, Simple
    <3>4. Itf(a.name, a.type, a.array, 1).type = a.type
      BY DEF Itf
    <3> QED BY <2>5, <3>1, <3>3, <3>4 DEF Empty, Suits, pad
  <2> QED BY <1>1, <2>1, <2>2, <2>3, <2>4, <2>5 DEF MetaTypes
<1> QED BY <1>1, <1>3, <1>4

\* The layers below this one.
Below(done) == \A t \in DOMAIN done : done[t] \subseteq FreshTree

\* What a field may be constructed as is a fresh tree, if the layers below are.
LEMMA FieldFresh ==
  ASSUME NEW a \in Param, NEW done, Below(done), a.type \in MetaTypes \cup DOMAIN done
  PROVE  FieldTrees(a, done) \subseteq FreshTree
<1>1. a.array \in BOOLEAN /\ a.name \in Text /\ a.type \in Text /\ a.size \in Nat
  BY DEF Param, Text
<1>2. CASE a.type \in MetaTypes
  <2>1. ASSUME NEW leaf \in MetaLeaf(a) PROVE InterfaceVal(a.name, a.type, a.array, <<leaf>>) \in FreshTree
    <3>1. leaf \in Leaf /\ Empty(leaf) /\ Suits(Itf(a.name, a.type, a.array, 1), leaf)
      BY <1>2, MetaLeafFresh
    <3> QED BY <1>1, <3>1, LeafTree
  <2> QED BY <1>2, <2>1 DEF FieldTrees
<1>3. CASE a.type \notin MetaTypes
  <2> DEFINE layer == {InterfaceVal(a.name, a.type, a.array, val) : val \in done[a.type]}
  <2>1. layer \subseteq FreshTree
    <3>1. ASSUME NEW val \in done[a.type] PROVE InterfaceVal(a.name, a.type, a.array, val) \in FreshTree
      <4>1. val \in FreshTree
        BY <1>3 DEF Below
      <4> QED BY <1>1, <4>1, InterfaceValTree
    <3> QED BY <3>1
  <2>2. FieldTrees(a, done) =
          IF a.array THEN {FlattenSeq(elems) : elems \in UNION {[1 .. n -> layer] : n \in 0 .. a.size - 1}}
          ELSE layer
    BY <1>3 DEF FieldTrees
  <2> HIDE DEF layer
  <2>3. ASSUME NEW n \in 0 .. a.size - 1, NEW elems \in [1 .. n -> layer] PROVE FlattenSeq(elems) \in FreshTree
    <3>1. n \in Nat /\ elems \in [1 .. n -> FreshTree]
      BY <1>1, <2>1
    <3> QED BY <3>1, TreesFlat
  <2> QED BY <2>1, <2>2, <2>3
<1> QED BY <1>2, <1>3

\* What the fields of an interface may be constructed as, one after the other.
Joins(vals, a, done) == UNION {{val \o tree : tree \in FieldTrees(a, done)} : val \in vals}

\* The fields of an interface, likewise.
LEMMA TreesOfFresh ==
  ASSUME NEW args \in Seq(Param), NEW done, Below(done),
         \A i \in DOMAIN args : args[i].type \in MetaTypes \cup DOMAIN done
  PROVE  TreesOf(args, done) \subseteq FreshTree
<1> DEFINE L == Len(args)
           S == SUBSET FreshTree
           rel == [p \in S \X (1 .. L) |-> Joins(p[1], args[p[2]], done)]
           Iter(g) == g = [s \in SUBSET (1 .. L) |->
             IF s = {} THEN {<< >>}
             ELSE LET x == Max(s)
                  IN  UNION {{val \o tree : tree \in FieldTrees(args[x], done)} : val \in g[s \ {x}]}]
<1>1. L \in Nat /\ DOMAIN args = 1 .. L /\ {<< >>} \in S
  BY NoTree
<1>2. ASSUME NEW vals \in S, NEW i \in 1 .. L PROVE Joins(vals, args[i], done) \in S
  <2>1. FieldTrees(args[i], done) \subseteq FreshTree
    <3>1. args[i] \in Param /\ args[i].type \in MetaTypes \cup DOMAIN done
      BY <1>1
    <3> QED BY <3>1, FieldFresh
  <2>2. \A val \in vals : \A tree \in FieldTrees(args[i], done) : val \o tree \in FreshTree
    BY <2>1, TreesJoined
  <2> SUFFICES ASSUME NEW x \in Joins(vals, args[i], done) PROVE x \in FreshTree
    OBVIOUS
  <2>3. PICK val \in vals : \E tree \in FieldTrees(args[i], done) : x = val \o tree
    BY DEF Joins
  <2> QED BY <2>2, <2>3
<1>3. rel \in [S \X (1 .. L) -> S]
  <2> HIDE DEF S, L
  <2> QED BY <1>2
<1>4. PICK g \in [SUBSET (1 .. L) -> S] : Iterates(g, {<< >>}, L, rel)
  <2> HIDE DEF rel, L, S
  <2> QED BY <1>1, <1>3, IteratesExists
<1>5. Iter(g)
  <2>1. ASSUME NEW s \in SUBSET (1 .. L), s # {}
        PROVE  rel[<<g[s \ {Max(s)}], Max(s)>>] = Joins(g[s \ {Max(s)}], args[Max(s)], done)
    <3>1. Max(s) \in 1 .. L
      BY <1>1, <2>1, MaxIn
    <3>2. g[s \ {Max(s)}] \in S
      OBVIOUS
    <3> HIDE DEF S, L
    <3> QED BY <3>1, <3>2
  <2> HIDE DEF rel, L, S
  <2> QED BY <1>4, <2>1 DEF Iterates, Joins
<1>6. \E h : Iter(h) /\ TreesOf(args, done) = h[1 .. L]
  <2>1. \E h : Iter(h)
    BY <1>5
  <2> HIDE DEF S, rel
  <2> QED BY <1>1, <2>1 DEF TreesOf, FoldLeft, MapThenFoldSet
<1>7. PICK h : Iter(h) /\ TreesOf(args, done) = h[1 .. L]
  BY <1>6
<1>8. h[{}] \in S
  <2>1. h[{}] = {<< >>}
    BY <1>7
  <2> QED BY <1>1, <2>1
<1>9. ASSUME NEW s \in SUBSET (1 .. L), s # {}, h[s \ {Max(s)}] \in S PROVE h[s] \in S
  <2>1. Max(s) \in 1 .. L
    BY <1>1, <1>9, MaxIn
  <2>2. h[s] = Joins(h[s \ {Max(s)}], args[Max(s)], done)
    BY <1>7, <1>9 DEF Joins
  <2> HIDE DEF S, L
  <2> QED BY <1>2, <1>9, <2>1, <2>2
<1>10. h[1 .. L] \in S
  <2> HIDE DEF S, L
  <2> QED BY <1>1, <1>8, <1>9, StaysIn
<1> QED BY <1>7, <1>10

\* One more layer, likewise.
LEMMA LayerFresh ==
  ASSUME NEW j, Json(j), NEW done, Below(done)
  PROVE  DOMAIN Layer(j, done) \subseteq DOMAIN j.maps /\ Below(Layer(j, done))
<1>1. DOMAIN Layer(j, done) \subseteq DOMAIN j.maps
  BY DEF Layer
<1>2. ASSUME NEW t \in DOMAIN Layer(j, done) PROVE Layer(j, done)[t] \subseteq FreshTree
  <2>1. t \in DOMAIN j.maps /\ \A a \in ToSet(Args(j, t)) : a.type \in MetaTypes \cup DOMAIN done
    BY DEF Layer
  <2>2. Args(j, t) \in Seq(Param)
    BY <2>1 DEF Json, Args
  <2>3. \A i \in DOMAIN Args(j, t) : Args(j, t)[i].type \in MetaTypes \cup DOMAIN done
    BY <2>1 DEF ToSet
  <2>4. TreesOf(Args(j, t), done) \subseteq FreshTree
    BY <2>2, <2>3, TreesOfFresh
  <2> QED BY <2>1, <2>4 DEF Layer
<1> QED BY <1>1, <1>2 DEF Below

\* What a type may be constructed as is a fresh tree.
LEMMA LayersFresh ==
  ASSUME NEW j, Json(j), NEW t \in DOMAIN Layers(j)
  PROVE  ConstructItfLayers(j, t) \subseteq FreshTree
<1> DEFINE L == Len(Interfaces)
           S == UNION {[D -> SUBSET FreshTree] : D \in SUBSET DOMAIN j.maps}
           rel == [p \in S \X (1 .. L) |-> Layer(j, p[1])]
           Iter(g) == g = [s \in SUBSET (1 .. L) |->
             IF s = {} THEN << >> ELSE LET x == Max(s) IN Layer(j, g[s \ {x}])]
<1>1. L \in Nat /\ DOMAIN Interfaces = 1 .. L /\ << >> \in S
  <2>1. Interfaces \in Seq(STRING)
    BY ParserAssumption
  <2>2. << >> \in [{} -> SUBSET FreshTree] /\ {} \in SUBSET DOMAIN j.maps
    OBVIOUS
  <2>3. << >> \in S
    BY <2>2
  <2> HIDE DEF S
  <2> QED BY <2>1, <2>3
<1>2. ASSUME NEW done \in S PROVE Layer(j, done) \in S
  <2>1. Below(done)
    BY DEF Below
  <2>2. DOMAIN Layer(j, done) \subseteq DOMAIN j.maps /\ Below(Layer(j, done))
    BY <2>1, LayerFresh
  <2>3. Layer(j, done) \in [DOMAIN Layer(j, done) -> SUBSET FreshTree]
    BY <2>2 DEF Layer, Below
  <2> HIDE DEF Layer
  <2> QED BY <2>2, <2>3
<1>3. rel \in [S \X (1 .. L) -> S]
  <2> HIDE DEF S, L
  <2> QED BY <1>2
<1>4. PICK g \in [SUBSET (1 .. L) -> S] : Iterates(g, << >>, L, rel)
  <2> HIDE DEF rel, L, S
  <2> QED BY <1>1, <1>3, IteratesExists
<1>5. Iter(g)
  <2>1. ASSUME NEW s \in SUBSET (1 .. L), s # {}
        PROVE  rel[<<g[s \ {Max(s)}], Max(s)>>] = Layer(j, g[s \ {Max(s)}])
    <3>1. Max(s) \in 1 .. L
      BY <1>1, <2>1, MaxIn
    <3>2. g[s \ {Max(s)}] \in S
      OBVIOUS
    <3> HIDE DEF S, L
    <3> QED BY <3>1, <3>2
  <2> HIDE DEF rel, L, S
  <2> QED BY <1>4, <2>1 DEF Iterates
<1>6. \E h : Iter(h) /\ Layers(j) = h[1 .. L]
  <2>1. \E h : Iter(h)
    BY <1>5
  <2> HIDE DEF S, rel
  <2> QED BY <1>1, <2>1 DEF Layers, FoldLeft, MapThenFoldSet
<1>7. PICK h : Iter(h) /\ Layers(j) = h[1 .. L]
  BY <1>6
<1>8. h[{}] \in S
  <2>1. h[{}] = << >>
    BY <1>7
  <2> QED BY <1>1, <2>1
<1>9. ASSUME NEW s \in SUBSET (1 .. L), s # {}, h[s \ {Max(s)}] \in S PROVE h[s] \in S
  <2>1. h[s] = Layer(j, h[s \ {Max(s)}])
    BY <1>7, <1>9
  <2> HIDE DEF S, L
  <2> QED BY <1>2, <1>9, <2>1
<1>10. h[1 .. L] \in S
  <2> HIDE DEF S, L
  <2> QED BY <1>1, <1>8, <1>9, StaysIn
<1>11. Layers(j) \in S
  BY <1>7, <1>10
<1>12. Layers(j)[t] \subseteq FreshTree
  <2> HIDE DEF Iter
  <2> QED BY <1>11
<1> QED BY <1>12 DEF ConstructItfLayers

-----------------------------------------------------------------------------
(* Reading the definitions of interfaces                                    *)

\* The words of an output.
ShownWord == [text : Text, size : Nat \cup {-1}, tab : BOOLEAN, alpha : BOOLEAN]
Kept == [comment : BOOLEAN, kept : Seq(ShownWord)]

StripLoop(f, shown) ==
  /\ f[0] = [comment |-> FALSE, kept |-> << >>]
  /\ \A n \in 0 .. Len(shown) - 1 : f[n + 1] = Strips(f[n], shown[n + 1])

\* What is kept of an output has its type.
LEMMA StripsKept ==
  ASSUME NEW a \in Kept, NEW w \in ShownWord
  PROVE  Strips(a, w) \in Kept
<1>1. a.comment \in BOOLEAN /\ a.kept \in Seq(ShownWord) /\ Append(a.kept, w) \in Seq(ShownWord)
  BY DEF Kept
<1> DEFINE c == w = Hash \/ (a.comment /\ w # NewLine)
           k == IF c \/ w = NewLine THEN a.kept ELSE Append(a.kept, w)
<1>2. c \in BOOLEAN /\ k \in Seq(ShownWord)
  BY <1>1
<1> HIDE DEF k
<1>3. Strips(a, w) = [comment |-> c, kept |-> k]
  BY DEF Strips, k
<1> HIDE DEF c
<1> QED BY <1>2, <1>3 DEF Kept

\* ParamList is a loop over the words of an output.
LEMMA StripLoops ==
  ASSUME NEW shown \in Seq(ShownWord)
  PROVE  \E f \in [0 .. Len(shown) -> Kept] : StripLoop(f, shown) /\ FoldLeft(Strips, [comment |-> FALSE, kept |-> << >>], shown) = f[Len(shown)]
<1> DEFINE L == Len(shown)
           S == Kept
           rel == [p \in S \X (1 .. L) |-> Strips(p[1], shown[p[2]])]
           Iter(g) == g = [s \in SUBSET (1 .. L) |->
             IF s = {} THEN [comment |-> FALSE, kept |-> << >>]
             ELSE LET x == Max(s) IN Strips(g[s \ {x}], shown[x])]
<1>1. L \in Nat /\ DOMAIN shown = 1 .. L /\ [comment |-> FALSE, kept |-> << >>] \in S
  <2>1. << >> \in Seq(ShownWord)
    OBVIOUS
  <2> QED BY <2>1 DEF Kept
<1>2. ASSUME NEW acc \in S, NEW i \in 1 .. L PROVE Strips(acc, shown[i]) \in S
  BY StripsKept
<1>3. rel \in [S \X (1 .. L) -> S]
  <2> HIDE DEF S, L
  <2> QED BY <1>2
<1>4. PICK g \in [SUBSET (1 .. L) -> S] : Iterates(g, [comment |-> FALSE, kept |-> << >>], L, rel)
  <2> HIDE DEF rel, L, S
  <2> QED BY <1>1, <1>3, IteratesExists
<1>5. Iter(g)
  <2>1. ASSUME NEW s \in SUBSET (1 .. L), s # {}
        PROVE  rel[<<g[s \ {Max(s)}], Max(s)>>] = Strips(g[s \ {Max(s)}], shown[Max(s)])
    <3>1. Max(s) \in 1 .. L
      BY <1>1, <2>1, MaxIn
    <3>2. g[s \ {Max(s)}] \in S
      OBVIOUS
    <3> HIDE DEF S, L
    <3> QED BY <3>1, <3>2
  <2> HIDE DEF rel, L, S
  <2> QED BY <1>4, <2>1  DEF Iterates
<1>6. \E h : Iter(h) /\ FoldLeft(Strips, [comment |-> FALSE, kept |-> << >>], shown) = h[1 .. L]
  <2>1. \E h : Iter(h)
    BY <1>5
  <2> HIDE DEF S, rel
  <2> QED BY <1>1, <2>1 DEF ParamList, FoldLeft, MapThenFoldSet
<1>7. PICK h : Iter(h) /\ FoldLeft(Strips, [comment |-> FALSE, kept |-> << >>], shown) = h[1 .. L]
  BY <1>6
<1> DEFINE f == [n \in 0 .. L |-> h[1 .. n]]
<1>8. f[0] = [comment |-> FALSE, kept |-> << >>]
  <2>1. 1 .. 0 = {} /\ {} \in SUBSET (1 .. L) /\ 0 \in 0 .. L
    BY <1>1
  <2> HIDE DEF S, rel
  <2> QED BY <1>7, <2>1
<1>9. ASSUME NEW n \in 0 .. L - 1 PROVE f[n + 1] = Strips(f[n], shown[n + 1])
  <2>1. /\ 1 .. n + 1 \in SUBSET (1 .. L) /\ 1 .. n + 1 # {}
        /\ Max(1 .. n + 1) = n + 1 /\ (1 .. n + 1) \ {n + 1} = 1 .. n
    BY <1>1, UpTo
  <2>2. h[1 .. n + 1] = Strips(h[1 .. n], shown[n + 1])
    <3>1. 1 .. n + 1 \in SUBSET (1 .. L)
      BY <2>1
    <3> HIDE DEF S, L, rel
    <3>2. h[1 .. n + 1] = Strips(h[1 .. n], shown[n + 1])
      BY <1>7, <2>1, <3>1
    <3> QED BY <3>2
  <2>3. n \in 0 .. L /\ n + 1 \in 0 .. L
    BY <1>1
  <2> HIDE DEF S, L, rel, Iter
  <2> QED BY <2>2, <2>3
<1>10. FoldLeft(Strips, [comment |-> FALSE, kept |-> << >>], shown) = f[L]
  <2>1. L \in 0 .. L
    BY <1>1
  <2> HIDE DEF L, S, rel, Iter
  <2> QED BY <1>7, <2>1
<1>11. f \in [0 .. L -> S]
  <2>1. ASSUME NEW n \in 0 .. L - 1, f[n] \in S PROVE f[n + 1] \in S
    <3>1. n + 1 \in 1 .. L
      BY <1>1
    <3> HIDE DEF f, S, L
    <3> QED BY <1>2, <1>9, <2>1, <3>1
  <2> HIDE DEF f, S, L
  <2>2. 0 .. L \subseteq {n \in 0 .. L : f[n] \in S}
    <3> DEFINE T == {n \in 0 .. L : f[n] \in S}
    <3>1. 0 \in T
      <4>1. f[0] \in S
        BY <1>1, <1>8
      <4>2. 0 \in 0 .. L
        BY <1>1
      <4> QED BY <4>1, <4>2
    <3>2. ASSUME NEW n \in 0 .. L - 1, n \in T PROVE n + 1 \in T
      <4>1. n + 1 \in 0 .. L
        BY <1>1
      <4> QED BY <2>1, <3>2, <4>1
    <3> HIDE DEF T
    <3>3. 0 .. L \subseteq T
      BY <1>1, <3>1, <3>2, BoundedInduction
    <3> QED BY <3>3 DEF T
  <2> QED BY <2>2 DEF f
<1> HIDE DEF f, S, rel, Iter
<1> QED BY <1>8, <1>9, <1>10, <1>11 DEF S, StripLoop

ParamStep(list, d, params, i) == IF i \in Fields(list) THEN Append(params, ParamAt(list, d, i)) ELSE params
ParamLoop(f, list, d) ==
  /\ f[0] = << >>
  /\ \A n \in 0 .. Len(list) - 1 : f[n + 1] = ParamStep(list, d, f[n], Places(list)[n + 1])

\* What may be drawn for the unbounded arrays.
Sizes(list) == [{i \in Fields(list) : list[i].size = 0} -> Unsized]

\* What is read at a place where a field begins is a field.
LEMMA ParamIs ==
  ASSUME NEW list \in Seq(ShownWord), NEW d \in Sizes(list), NEW i \in Fields(list)
  PROVE  ParamAt(list, d, i) \in Param
<1>1. i \in DOMAIN list /\ i + 1 \in DOMAIN list /\ list[i].text \in Types /\ ~list[i].tab /\ ValidName(list[i + 1])
  BY DEF Fields
<1>2. list[i] \in ShownWord /\ list[i + 1] \in ShownWord
  BY <1>1
<1>3. list[i].size \in Nat \cup {-1} /\ list[i + 1].text \in Text
  BY <1>2 DEF ShownWord
<1> DEFINE t == list[i].text
           x == list[i + 1].text
           c == i + 3 <= Len(list) /\ IsConst(list[i + 2])
           n == GetArraySize(list[i], d[i])
<1>4. t \in Types /\ x \in Text /\ c \in BOOLEAN
  BY <1>1, <1>3
<1>5. CASE IsArray(list[i])
  <2>1. n \in Nat /\ n > 0
    <3>1. CASE list[i].size = 0
      <4>1. d[i] \in 1 .. 7
        BY <3>1, ParserAssumption DEF Sizes
      <4> QED BY <3>1, <4>1 DEF GetArraySize
    <3>2. CASE list[i].size # 0
      BY <1>3, <1>5, <3>2 DEF GetArraySize, IsArray
    <3> QED BY <3>1, <3>2
  <2>2. ParamAt(list, d, i) = InterfaceParam(t, x, TRUE, n, FALSE)
    BY <1>5 DEF ParamAt
  <2> HIDE DEF t, x, n
  <2> QED BY <1>4, <2>1, <2>2 DEF InterfaceParam, Param
<1>6. CASE ~IsArray(list[i])
  <2>1. ParamAt(list, d, i) = InterfaceParam(t, x, FALSE, 0, c)
    BY <1>6 DEF ParamAt
  <2> HIDE DEF t, x, c
  <2> QED BY <1>4, <2>1 DEF InterfaceParam, Param
<1> QED BY <1>5, <1>6

\* GenParamIft is a loop over the places of the list.
LEMMA ParamLoops ==
  ASSUME NEW list \in Seq(ShownWord), NEW d \in Sizes(list)
  PROVE  \E f \in [0 .. Len(list) -> Seq(Param)] : ParamLoop(f, list, d) /\ GenParamIft(list, d) = f[Len(list)]
<1> DEFINE L == Len(list)
           S == Seq(Param)
           rel == [p \in S \X (1 .. L) |-> ParamStep(list, d, p[1], Places(list)[p[2]])]
           Iter(g) == g = [s \in SUBSET (DOMAIN Places(list)) |->
             IF s = {} THEN << >>
             ELSE LET x == Max(s) IN (IF Places(list)[x] \in Fields(list) THEN Append(g[s \ {x}], ParamAt(list, d, Places(list)[x])) ELSE g[s \ {x}])]
<1>20. DOMAIN Places(list) = 1 .. L /\ \A i \in 1 .. L : Places(list)[i] = i
  BY DEF Places
<1>1. L \in Nat /\ DOMAIN list = 1 .. L /\ << >> \in S
  OBVIOUS
<1>2. ASSUME NEW acc \in S, NEW i \in 1 .. L PROVE ParamStep(list, d, acc, Places(list)[i]) \in S
  <2>1. CASE Places(list)[i] \in Fields(list)
    BY <2>1, ParamIs DEF ParamStep
  <2>2. CASE Places(list)[i] \notin Fields(list)
    BY <2>2 DEF ParamStep
  <2> QED BY <2>1, <2>2
<1>3. rel \in [S \X (1 .. L) -> S]
  <2> HIDE DEF S, L
  <2> QED BY <1>2
<1>4. PICK g \in [SUBSET (1 .. L) -> S] : Iterates(g, << >>, L, rel)
  <2> HIDE DEF rel, L, S
  <2> QED BY <1>1, <1>3, IteratesExists
<1>5. Iter(g)
  <2>1. ASSUME NEW s \in SUBSET (1 .. L), s # {}
        PROVE  rel[<<g[s \ {Max(s)}], Max(s)>>] = ParamStep(list, d, g[s \ {Max(s)}], Places(list)[Max(s)])
    <3>1. Max(s) \in 1 .. L
      BY <1>1, <2>1, MaxIn
    <3>2. g[s \ {Max(s)}] \in S
      OBVIOUS
    <3> HIDE DEF S, L
    <3> QED BY <3>1, <3>2
  <2> HIDE DEF rel, L, S
  <2> QED BY <1>4, <2>1 , <1>20 DEF Iterates, ParamStep
<1>6. \E h : Iter(h) /\ GenParamIft(list, d) = h[1 .. L]
  <2>1. \E h : Iter(h)
    BY <1>5
  <2> HIDE DEF S, rel
  <2> QED BY <1>1, <2>1, <1>20 DEF GenParamIft, FoldLeft, MapThenFoldSet
<1>7. PICK h : Iter(h) /\ GenParamIft(list, d) = h[1 .. L]
  BY <1>6
<1> DEFINE f == [n \in 0 .. L |-> h[1 .. n]]
<1>8. f[0] = << >>
  <2>1. 1 .. 0 = {} /\ {} \in SUBSET (1 .. L) /\ 0 \in 0 .. L
    BY <1>1
  <2> HIDE DEF S, rel
  <2> QED BY <1>7, <2>1, <1>20
<1>9. ASSUME NEW n \in 0 .. L - 1 PROVE f[n + 1] = ParamStep(list, d, f[n], Places(list)[n + 1])
  <2>1. /\ 1 .. n + 1 \in SUBSET (1 .. L) /\ 1 .. n + 1 # {}
        /\ Max(1 .. n + 1) = n + 1 /\ (1 .. n + 1) \ {n + 1} = 1 .. n
    BY <1>1, UpTo
  <2>2. h[1 .. n + 1] = ParamStep(list, d, h[1 .. n], Places(list)[n + 1])
    <3>1. 1 .. n + 1 \in SUBSET (DOMAIN Places(list))
      BY <2>1, <1>20
    <3> HIDE DEF S, L, rel
    <3>2. ASSUME NEW s \in SUBSET (DOMAIN Places(list)), s # {}, NEW x, x = Max(s)
          PROVE  h[s] = ParamStep(list, d, h[s \ {x}], Places(list)[x])
      BY <1>7, <3>2 DEF ParamStep
    <3> HIDE DEF Iter, f
    <3> QED BY <2>1, <3>1, <3>2
  <2>3. n \in 0 .. L /\ n + 1 \in 0 .. L
    BY <1>1
  <2> HIDE DEF S, L, rel, Iter
  <2> QED BY <2>2, <2>3
<1>10. GenParamIft(list, d) = f[L]
  <2>1. L \in 0 .. L
    BY <1>1
  <2> HIDE DEF L, S, rel, Iter
  <2> QED BY <1>7, <2>1
<1>11. f \in [0 .. L -> S]
  <2>1. ASSUME NEW n \in 0 .. L - 1, f[n] \in S PROVE f[n + 1] \in S
    <3>1. n + 1 \in 1 .. L
      BY <1>1
    <3> HIDE DEF f, S, L
    <3> QED BY <1>2, <1>9, <2>1, <3>1
  <2> HIDE DEF f, S, L
  <2>2. 0 .. L \subseteq {n \in 0 .. L : f[n] \in S}
    <3> DEFINE T == {n \in 0 .. L : f[n] \in S}
    <3>1. 0 \in T
      <4>1. f[0] \in S
        BY <1>1, <1>8
      <4>2. 0 \in 0 .. L
        BY <1>1
      <4> QED BY <4>1, <4>2
    <3>2. ASSUME NEW n \in 0 .. L - 1, n \in T PROVE n + 1 \in T
      <4>1. n + 1 \in 0 .. L
        BY <1>1
      <4> QED BY <2>1, <3>2, <4>1
    <3> HIDE DEF T
    <3>3. 0 .. L \subseteq T
      BY <1>1, <3>1, <3>2, BoundedInduction
    <3> QED BY <3>3 DEF T
  <2> QED BY <2>2 DEF f
<1> HIDE DEF f, S, rel, Iter
<1> QED BY <1>8, <1>9, <1>10, <1>11 DEF S, ParamLoop

MapsLoop(f) ==
  /\ f[0] = << >>
  /\ \A n \in 0 .. Len(Interfaces) - 1 : f[n + 1] = Insert(f[n], Short[Interfaces[n + 1]], Interfaces[n + 1])

\* A map with one more key.
LEMMA InsertOne ==
  ASSUME NEW T, NEW D, NEW m \in [D -> T], NEW k, NEW v \in T
  PROVE  /\ Insert(m, k, v) \in [D \cup {k} -> T]
         /\ Insert(m, k, v)[k] = v /\ \A x \in D \ {k} : Insert(m, k, v)[x] = m[x]
BY DEF Insert

\* Maps is a loop over the interfaces.
LEMMA MapsLoops ==
  \E f \in [0 .. Len(Interfaces) -> UNION {[D -> ToSet(Interfaces)] : D \in SUBSET Range(Short)}] :
           MapsLoop(f) /\ Maps = f[Len(Interfaces)]
<1> DEFINE L == Len(Interfaces)
           S == UNION {[D -> ToSet(Interfaces)] : D \in SUBSET Range(Short)}
           rel == [p \in S \X (1 .. L) |-> Insert(p[1], Short[Interfaces[p[2]]], Interfaces[p[2]])]
           Iter(g) == g = [s \in SUBSET (1 .. L) |->
             IF s = {} THEN << >>
             ELSE LET x == Max(s) IN Insert(g[s \ {x}], Short[Interfaces[x]], Interfaces[x])]
<1>1. L \in Nat /\ DOMAIN Interfaces = 1 .. L /\ << >> \in S
  <2>1. Interfaces \in Seq(STRING)
    BY ParserAssumption
  <2>2. << >> \in [{} -> ToSet(Interfaces)] /\ {} \in SUBSET Range(Short)
    OBVIOUS
  <2>3. << >> \in S
    BY <2>2
  <2> HIDE DEF S
  <2> QED BY <2>1, <2>3
<1>2. ASSUME NEW acc \in S, NEW i \in 1 .. L PROVE Insert(acc, Short[Interfaces[i]], Interfaces[i]) \in S
  <2>1. PICK D \in SUBSET Range(Short) : acc \in [D -> ToSet(Interfaces)]
    OBVIOUS
  <2>2. Interfaces[i] \in ToSet(Interfaces)
    BY <1>1 DEF ToSet
  <2>3. Short[Interfaces[i]] \in Range(Short)
    BY <2>2, ParserAssumption DEF Range
  <2> DEFINE k == Short[Interfaces[i]]
             v == Interfaces[i]
  <2>4. k \in Range(Short) /\ v \in ToSet(Interfaces)
    BY <2>2, <2>3
  <2> HIDE DEF k, v, S, L
  <2>5. Insert(acc, k, v) \in [D \cup {k} -> ToSet(Interfaces)]
    BY <2>1, <2>4, InsertOne
  <2>6. D \cup {k} \in SUBSET Range(Short)
    BY <2>1, <2>4
  <2>7. Insert(acc, k, v) \in S
    BY <2>5, <2>6 DEF S
  <2> QED BY <2>7 DEF k, v
<1>3. rel \in [S \X (1 .. L) -> S]
  <2> HIDE DEF S, L
  <2> QED BY <1>2
<1>4. PICK g \in [SUBSET (1 .. L) -> S] : Iterates(g, << >>, L, rel)
  <2> HIDE DEF rel, L, S
  <2> QED BY <1>1, <1>3, IteratesExists
<1>5. Iter(g)
  <2>1. ASSUME NEW s \in SUBSET (1 .. L), s # {}
        PROVE  rel[<<g[s \ {Max(s)}], Max(s)>>] = Insert(g[s \ {Max(s)}], Short[Interfaces[Max(s)]], Interfaces[Max(s)])
    <3>1. Max(s) \in 1 .. L
      BY <1>1, <2>1, MaxIn
    <3>2. g[s \ {Max(s)}] \in S
      OBVIOUS
    <3> HIDE DEF S, L
    <3> QED BY <3>1, <3>2
  <2> HIDE DEF rel, L, S
  <2> QED BY <1>4, <2>1  DEF Iterates
<1>6. \E h : Iter(h) /\ Maps = h[1 .. L]
  <2>1. \E h : Iter(h)
    BY <1>5
  <2> HIDE DEF S, rel
  <2> QED BY <1>1, <2>1 DEF Maps, FoldLeft, MapThenFoldSet
<1>7. PICK h : Iter(h) /\ Maps = h[1 .. L]
  BY <1>6
<1> DEFINE f == [n \in 0 .. L |-> h[1 .. n]]
<1>8. f[0] = << >>
  <2>1. 1 .. 0 = {} /\ {} \in SUBSET (1 .. L) /\ 0 \in 0 .. L
    BY <1>1
  <2> HIDE DEF S, rel
  <2> QED BY <1>7, <2>1
<1>9. ASSUME NEW n \in 0 .. L - 1 PROVE f[n + 1] = Insert(f[n], Short[Interfaces[n + 1]], Interfaces[n + 1])
  <2>1. /\ 1 .. n + 1 \in SUBSET (1 .. L) /\ 1 .. n + 1 # {}
        /\ Max(1 .. n + 1) = n + 1 /\ (1 .. n + 1) \ {n + 1} = 1 .. n
    BY <1>1, UpTo
  <2>2. h[1 .. n + 1] = Insert(h[1 .. n], Short[Interfaces[n + 1]], Interfaces[n + 1])
    <3>1. 1 .. n + 1 \in SUBSET (1 .. L)
      BY <2>1
    <3> HIDE DEF S, L, rel
    <3>2. h[1 .. n + 1] = Insert(h[1 .. n], Short[Interfaces[n + 1]], Interfaces[n + 1])
      BY <1>7, <2>1, <3>1
    <3> QED BY <3>2
  <2>3. n \in 0 .. L /\ n + 1 \in 0 .. L
    BY <1>1
  <2> HIDE DEF S, L, rel, Iter
  <2> QED BY <2>2, <2>3
<1>10. Maps = f[L]
  <2>1. L \in 0 .. L
    BY <1>1
  <2> HIDE DEF L, S, rel, Iter
  <2> QED BY <1>7, <2>1
<1>11. f \in [0 .. L -> S]
  <2>1. ASSUME NEW n \in 0 .. L - 1, f[n] \in S PROVE f[n + 1] \in S
    <3>1. n + 1 \in 1 .. L
      BY <1>1
    <3> HIDE DEF f, S, L
    <3> QED BY <1>2, <1>9, <2>1, <3>1
  <2> HIDE DEF f, S, L
  <2>2. 0 .. L \subseteq {n \in 0 .. L : f[n] \in S}
    <3> DEFINE T == {n \in 0 .. L : f[n] \in S}
    <3>1. 0 \in T
      <4>1. f[0] \in S
        BY <1>1, <1>8
      <4>2. 0 \in 0 .. L
        BY <1>1
      <4> QED BY <4>1, <4>2
    <3>2. ASSUME NEW n \in 0 .. L - 1, n \in T PROVE n + 1 \in T
      <4>1. n + 1 \in 0 .. L
        BY <1>1
      <4> QED BY <2>1, <3>2, <4>1
    <3> HIDE DEF T
    <3>3. 0 .. L \subseteq T
      BY <1>1, <3>1, <3>2, BoundedInduction
    <3> QED BY <3>3 DEF T
  <2> QED BY <2>2 DEF f
<1> HIDE DEF f, S, rel, Iter
<1> QED BY <1>8, <1>9, <1>10, <1>11 DEF S, MapsLoop

\* The words that lines are made of.
LEMMA WordTyped ==
  /\ \A text \in Text : \A size \in Nat \cup {-1} : \A tab, alpha \in BOOLEAN : Word(text, size, tab, alpha) \in ShownWord
  /\ Hash \in ShownWord /\ NewLine \in ShownWord
  /\ \A text \in Signs : Plain(text) \in ShownWord /\ Digit(text) \in ShownWord
<1>1. \A text \in Text : \A size \in Nat \cup {-1} : \A tab, alpha \in BOOLEAN : Word(text, size, tab, alpha) \in ShownWord
  BY DEF Word, ShownWord
<1>2. Signs \subseteq Text /\ "#" \in Signs /\ "\n" \in Signs /\ -1 \in Nat \cup {-1} /\ TRUE \in BOOLEAN /\ FALSE \in BOOLEAN
  BY DEF Text, Signs
<1> QED BY <1>1, <1>2 DEF Hash, NewLine, Plain, Digit

\* A line is printed as words.
LEMMA LineTyped ==
  ASSUME NEW l \in InterfaceLine
  PROVE  LineWords(l) \o <<NewLine>> \in Seq(ShownWord)
<1> DEFINE a == Word(l.type, l.size, FALSE, TRUE)
           b == Word(l.name, -1, FALSE, l.alpha)
           c == Word(l.type, l.size, TRUE, TRUE)
           five == Digit("5")
           is == Plain("=")
           one == Digit("1")
           tight == Digit("A=1")
           dash == Digit("---")
<1>1. /\ l.kind \in {"field", "default", "noted", "spaced", "tight", "comment", "dashes", "nested"}
      /\ l.type \in Text /\ l.name \in Text /\ l.size \in Nat \cup {-1} /\ l.alpha \in BOOLEAN
  BY DEF InterfaceLine, Text
<1>2. a \in ShownWord /\ b \in ShownWord /\ c \in ShownWord
  <2>1. -1 \in Nat \cup {-1} /\ TRUE \in BOOLEAN /\ FALSE \in BOOLEAN
    OBVIOUS
  <2> QED BY <1>1, <2>1, WordTyped
<1>3. five \in ShownWord /\ is \in ShownWord /\ one \in ShownWord /\ tight \in ShownWord /\ dash \in ShownWord
  BY WordTyped DEF Signs
<1>4. Hash \in ShownWord /\ NewLine \in ShownWord
  BY WordTyped
<1>5. LineWords(l) =
        CASE l.kind = "field" -> <<a, b>>
          [] l.kind = "default" -> <<a, b>> \o <<five>>
          [] l.kind = "noted" -> <<a, b>> \o <<Hash>> \o <<a, b>>
          [] l.kind = "spaced" -> <<a, b>> \o <<is, one>>
          [] l.kind = "tight" -> <<(<<a, b>>)[1], tight>>
          [] l.kind = "comment" -> <<Hash>> \o <<a, b>>
          [] l.kind = "dashes" -> <<dash>>
          [] l.kind = "nested" -> <<c, (<<a, b>>)[2]>>
  BY DEF LineWords
<1> HIDE DEF a, b, c, five, is, one, tight, dash
<1>6. (<<a, b>>)[1] = a /\ (<<a, b>>)[2] = b /\ <<a, b>> \in Seq(ShownWord)
  BY <1>2
<1>7. LineWords(l) \in Seq(ShownWord)
  <2>1. CASE l.kind = "field"
    BY <1>5, <1>6, <2>1
  <2>2. CASE l.kind = "default"
    BY <1>3, <1>5, <1>6, <2>2
  <2>3. CASE l.kind = "noted"
    BY <1>4, <1>5, <1>6, <2>3
  <2>4. CASE l.kind = "spaced"
    BY <1>3, <1>5, <1>6, <2>4
  <2>5. CASE l.kind = "tight"
    BY <1>2, <1>3, <1>5, <1>6, <2>5
  <2>6. CASE l.kind = "comment"
    BY <1>4, <1>5, <1>6, <2>6
  <2>7. CASE l.kind = "dashes"
    BY <1>3, <1>5, <2>7
  <2>8. CASE l.kind = "nested"
    BY <1>2, <1>5, <1>6, <2>8
  <2> QED BY <1>1, <2>1, <2>2, <2>3, <2>4, <2>5, <2>6, <2>7, <2>8
<1> HIDE DEF LineWords
<1> QED BY <1>4, <1>7

LinesOf(lines) == [i \in DOMAIN lines |-> LineWords(lines[i]) \o <<NewLine>>]

\* So are all lines.
LEMMA LinesTyped ==
  ASSUME NEW lines \in Seq(InterfaceLine)
  PROVE  LinesOf(lines) \in Seq(Seq(ShownWord)) /\ Len(LinesOf(lines)) = Len(lines)
<1>1. \A i \in 1 .. Len(lines) : LineWords(lines[i]) \o <<NewLine>> \in Seq(ShownWord)
  BY LineTyped
<1>2. DOMAIN lines = 1 .. Len(lines) /\ Len(lines) \in Nat
  OBVIOUS
<1> QED BY <1>1, <1>2 DEF LinesOf

\* What is read of the words of an output are fields.
LEMMA ShownTyped ==
  ASSUME NEW lines \in Seq(InterfaceLine)
  PROVE  /\ ShownWords(lines) \in Seq(ShownWord) /\ ParamList(ShownWords(lines)) \in Seq(ShownWord)
         /\ Infos(lines) \subseteq Seq(Param)
<1>1. ShownWords(lines) = FlattenSeq(LinesOf(lines))
  BY DEF ShownWords, LinesOf
<1>2. ShownWords(lines) \in Seq(ShownWord)
  <2>1. LinesOf(lines) \in Seq(Seq(ShownWord))
    BY LinesTyped
  <2>2. PICK f \in [0 .. Len(LinesOf(lines)) -> Seq(ShownWord)] :
          FlattenLoop(f, LinesOf(lines)) /\ FlattenSeq(LinesOf(lines)) = f[Len(LinesOf(lines))]
    BY <2>1, FlattenLoops
  <2>3. Len(LinesOf(lines)) \in 0 .. Len(LinesOf(lines))
    BY <2>1
  <2> QED BY <1>1, <2>2, <2>3
<1> DEFINE shown == ShownWords(lines)
           list == ParamList(shown)
<1>3. list \in Seq(ShownWord)
  <2> HIDE DEF shown
  <2>1. PICK f \in [0 .. Len(shown) -> Kept] :
          StripLoop(f, shown) /\ FoldLeft(Strips, [comment |-> FALSE, kept |-> << >>], shown) = f[Len(shown)]
    BY <1>2, StripLoops DEF shown
  <2>2. Len(shown) \in 0 .. Len(shown)
    BY <1>2 DEF shown
  <2>3. list = f[Len(shown)].kept
    BY <2>1 DEF ParamList
  <2> QED BY <2>1, <2>2, <2>3 DEF Kept
<1>4. ASSUME NEW d \in Sizes(list) PROVE GenParamIft(list, d) \in Seq(Param)
  <2> HIDE DEF list
  <2>1. PICK f \in [0 .. Len(list) -> Seq(Param)] : ParamLoop(f, list, d) /\ GenParamIft(list, d) = f[Len(list)]
    BY <1>3, ParamLoops DEF list
  <2>2. Len(list) \in 0 .. Len(list)
    BY <1>3 DEF list
  <2> QED BY <2>1, <2>2
<1>5. Infos(lines) = {GenParamIft(list, d) : d \in Sizes(list)}
  BY DEF Infos, Sizes
<1> HIDE DEF list, shown
<1>6. Infos(lines) \subseteq Seq(Param)
  BY <1>4, <1>5
<1> QED BY <1>2, <1>3, <1>6 DEF shown, list

ChooseLoop(f, lines) ==
  /\ f[0] = {<< >>}
  /\ \A n \in 0 .. Len(Interfaces) - 1 : f[n + 1] = Extended(f[n], Interfaces[n + 1], Infos(lines[Interfaces[n + 1]]))
ChosenInfos(lines) ==
  FoldLeft(LAMBDA all, itf : Extended(all, itf, Infos(lines[itf])), {<< >>}, Interfaces)

\* The choice of the infos is a loop over the interfaces.
LEMMA ChooseLoops ==
  ASSUME NEW lines \in [ToSet(Interfaces) -> Seq(InterfaceLine)]
  PROVE  \E f \in [0 .. Len(Interfaces) -> SUBSET UNION {[D -> Seq(Param)] : D \in SUBSET ToSet(Interfaces)}] :
           ChooseLoop(f, lines) /\ ChosenInfos(lines) = f[Len(Interfaces)]
<1> DEFINE L == Len(Interfaces)
           S == SUBSET UNION {[D -> Seq(Param)] : D \in SUBSET ToSet(Interfaces)}
           rel == [p \in S \X (1 .. L) |-> Extended(p[1], Interfaces[p[2]], Infos(lines[Interfaces[p[2]]]))]
           Iter(g) == g = [s \in SUBSET (1 .. L) |->
             IF s = {} THEN {<< >>}
             ELSE LET x == Max(s) IN Extended(g[s \ {x}], Interfaces[x], Infos(lines[Interfaces[x]]))]
<1>1. L \in Nat /\ DOMAIN Interfaces = 1 .. L /\ {<< >>} \in S
  <2>1. Interfaces \in Seq(STRING)
    BY ParserAssumption
  <2>2. << >> \in [{} -> Seq(Param)] /\ {} \in SUBSET ToSet(Interfaces)
    OBVIOUS
  <2>3. {<< >>} \in S
    BY <2>2
  <2> HIDE DEF S
  <2> QED BY <2>1, <2>3
<1>2. ASSUME NEW acc \in S, NEW i \in 1 .. L PROVE Extended(acc, Interfaces[i], Infos(lines[Interfaces[i]])) \in S
  <2> DEFINE itf == Interfaces[i]
  <2>1. itf \in ToSet(Interfaces)
    BY <1>1 DEF ToSet
  <2> HIDE DEF itf
  <2>2. Infos(lines[itf]) \subseteq Seq(Param)
    <3>1. lines[itf] \in Seq(InterfaceLine)
      BY <2>1
    <3> QED BY <3>1, ShownTyped
  <2>3. ASSUME NEW infos \in acc, NEW info \in Infos(lines[itf])
        PROVE  \E D \in SUBSET ToSet(Interfaces) : Insert(infos, itf, info) \in [D -> Seq(Param)]
    <3>1. PICK D \in SUBSET ToSet(Interfaces) : infos \in [D -> Seq(Param)]
      OBVIOUS
    <3>2. Insert(infos, itf, info) \in [D \cup {itf} -> Seq(Param)]
      BY <2>2, <3>1, InsertOne
    <3> QED BY <2>1, <3>1, <3>2
  <2> SUFFICES ASSUME NEW x \in Extended(acc, itf, Infos(lines[itf]))
               PROVE  \E D \in SUBSET ToSet(Interfaces) : x \in [D -> Seq(Param)]
    BY DEF itf
  <2>4. PICK infos \in acc : \E info \in Infos(lines[itf]) : x = Insert(infos, itf, info)
    BY DEF Extended
  <2> QED BY <2>3, <2>4
<1>3. rel \in [S \X (1 .. L) -> S]
  <2> HIDE DEF S, L
  <2> QED BY <1>2
<1>4. PICK g \in [SUBSET (1 .. L) -> S] : Iterates(g, {<< >>}, L, rel)
  <2> HIDE DEF rel, L, S
  <2> QED BY <1>1, <1>3, IteratesExists
<1>5. Iter(g)
  <2>1. ASSUME NEW s \in SUBSET (1 .. L), s # {}
        PROVE  rel[<<g[s \ {Max(s)}], Max(s)>>] = Extended(g[s \ {Max(s)}], Interfaces[Max(s)], Infos(lines[Interfaces[Max(s)]]))
    <3>1. Max(s) \in 1 .. L
      BY <1>1, <2>1, MaxIn
    <3>2. g[s \ {Max(s)}] \in S
      OBVIOUS
    <3> HIDE DEF S, L
    <3> QED BY <3>1, <3>2
  <2> HIDE DEF rel, L, S
  <2> QED BY <1>4, <2>1  DEF Iterates
<1>6. \E h : Iter(h) /\ ChosenInfos(lines) = h[1 .. L]
  <2>1. \E h : Iter(h)
    BY <1>5
  <2> HIDE DEF S, rel
  <2> QED BY <1>1, <2>1 DEF ChosenInfos, FoldLeft, MapThenFoldSet
<1>7. PICK h : Iter(h) /\ ChosenInfos(lines) = h[1 .. L]
  BY <1>6
<1> DEFINE f == [n \in 0 .. L |-> h[1 .. n]]
<1>8. f[0] = {<< >>}
  <2>1. 1 .. 0 = {} /\ {} \in SUBSET (1 .. L) /\ 0 \in 0 .. L
    BY <1>1
  <2> HIDE DEF S, rel
  <2> QED BY <1>7, <2>1
<1>9. ASSUME NEW n \in 0 .. L - 1 PROVE f[n + 1] = Extended(f[n], Interfaces[n + 1], Infos(lines[Interfaces[n + 1]]))
  <2>1. /\ 1 .. n + 1 \in SUBSET (1 .. L) /\ 1 .. n + 1 # {}
        /\ Max(1 .. n + 1) = n + 1 /\ (1 .. n + 1) \ {n + 1} = 1 .. n
    BY <1>1, UpTo
  <2>2. h[1 .. n + 1] = Extended(h[1 .. n], Interfaces[n + 1], Infos(lines[Interfaces[n + 1]]))
    <3>1. 1 .. n + 1 \in SUBSET (1 .. L)
      BY <2>1
    <3> HIDE DEF S, L, rel
    <3>2. h[1 .. n + 1] = Extended(h[1 .. n], Interfaces[n + 1], Infos(lines[Interfaces[n + 1]]))
      BY <1>7, <2>1, <3>1
    <3> QED BY <3>2
  <2>3. n \in 0 .. L /\ n + 1 \in 0 .. L
    BY <1>1
  <2> HIDE DEF S, L, rel, Iter
  <2> QED BY <2>2, <2>3
<1>10. ChosenInfos(lines) = f[L]
  <2>1. L \in 0 .. L
    BY <1>1
  <2> HIDE DEF L, S, rel, Iter
  <2> QED BY <1>7, <2>1
<1>11. f \in [0 .. L -> S]
  <2>1. ASSUME NEW n \in 0 .. L - 1, f[n] \in S PROVE f[n + 1] \in S
    <3>1. n + 1 \in 1 .. L
      BY <1>1
    <3> HIDE DEF f, S, L
    <3> QED BY <1>2, <1>9, <2>1, <3>1
  <2> HIDE DEF f, S, L
  <2>2. 0 .. L \subseteq {n \in 0 .. L : f[n] \in S}
    <3> DEFINE T == {n \in 0 .. L : f[n] \in S}
    <3>1. 0 \in T
      <4>1. f[0] \in S
        BY <1>1, <1>8
      <4>2. 0 \in 0 .. L
        BY <1>1
      <4> QED BY <4>1, <4>2
    <3>2. ASSUME NEW n \in 0 .. L - 1, n \in T PROVE n + 1 \in T
      <4>1. n + 1 \in 0 .. L
        BY <1>1
      <4> QED BY <2>1, <3>2, <4>1
    <3> HIDE DEF T
    <3>3. 0 .. L \subseteq T
      BY <1>1, <3>1, <3>2, BoundedInduction
    <3> QED BY <3>3 DEF T
  <2> QED BY <2>2 DEF f
<1> HIDE DEF f, S, rel, Iter
<1> QED BY <1>8, <1>9, <1>10, <1>11 DEF S, ChooseLoop

\* What is chosen for each interface is one of what its lines may be read as.
LEMMA ChosenOnes ==
  ASSUME NEW lines \in [ToSet(Interfaces) -> Seq(InterfaceLine)], NEW infos \in ChosenInfos(lines)
  PROVE  DOMAIN infos = ToSet(Interfaces) /\ \A itf \in ToSet(Interfaces) : infos[itf] \in Infos(lines[itf])
<1> DEFINE L == Len(Interfaces)
           First(n) == {Interfaces[i] : i \in 1 .. n}
           Right(x, n) == DOMAIN x = First(n) /\ \A itf \in First(n) : x[itf] \in Infos(lines[itf])
<1>1. L \in Nat /\ DOMAIN Interfaces = 1 .. L
  BY ParserAssumption
<1>2. PICK f : ChooseLoop(f, lines) /\ ChosenInfos(lines) = f[L]
  BY ChooseLoops
<1> DEFINE Good == {n \in 0 .. L : \A x \in f[n] : Right(x, n)}
<1>3. 0 \in Good
  <2>1. f[0] = {<< >>}
    BY <1>2 DEF ChooseLoop
  <2>2. First(0) = {} /\ 0 \in 0 .. L /\ DOMAIN << >> = {}
    BY <1>1
  <2> QED BY <2>1, <2>2
<1>4. ASSUME NEW n \in 0 .. L - 1, n \in Good PROVE n + 1 \in Good
  <2> DEFINE itf == Interfaces[n + 1]
  <2>1. n + 1 \in 0 .. L /\ 1 .. n + 1 = (1 .. n) \cup {n + 1}
    BY <1>1
  <2>2. First(n + 1) = First(n) \cup {itf}
    BY <2>1
  <2>3. f[n + 1] = Extended(f[n], itf, Infos(lines[itf]))
    BY <1>2 DEF ChooseLoop
  <2> HIDE DEF itf, First
  <2> SUFFICES ASSUME NEW x \in f[n + 1] PROVE Right(x, n + 1)
    BY <2>1
  <2>4. PICK infos0 \in f[n] : \E info \in Infos(lines[itf]) : x = Insert(infos0, itf, info)
    BY <2>3 DEF Extended
  <2>5. PICK info \in Infos(lines[itf]) : x = Insert(infos0, itf, info)
    BY <2>4
  <2>6. Right(infos0, n)
    BY <1>4
  <2> QED BY <2>2, <2>5, <2>6 DEF Insert
<1>5. 0 .. L \subseteq Good
  <2> HIDE DEF Good, L
  <2> QED BY <1>1, <1>3, <1>4, BoundedInduction
<1>6. L \in Good
  <2>1. L \in 0 .. L
    BY <1>1
  <2> HIDE DEF Good, L
  <2> QED BY <1>5, <2>1
<1>7. First(L) = ToSet(Interfaces)
  BY <1>1 DEF ToSet
<1> HIDE DEF First
<1> QED BY <1>2, <1>6, <1>7

\* A name stands for its interface unless a later one has the same last part.
LEMMA MapsLast ==
  /\ \A t \in DOMAIN Maps : t \in Range(Short) /\ Maps[t] \in ToSet(Interfaces)
  /\ \A k \in DOMAIN Interfaces :
       (\A j \in k + 1 .. Len(Interfaces) : Short[Interfaces[j]] # Short[Interfaces[k]]) =>
         Maps[Short[Interfaces[k]]] = Interfaces[k]
<1> DEFINE L == Len(Interfaces)
           S == UNION {[D -> ToSet(Interfaces)] : D \in SUBSET Range(Short)}
<1>1. L \in Nat /\ DOMAIN Interfaces = 1 .. L /\ L \in 0 .. L
  BY ParserAssumption
<1>2. PICK f \in [0 .. L -> S] : MapsLoop(f) /\ Maps = f[L]
  BY MapsLoops
<1>3. \A t \in DOMAIN Maps : t \in Range(Short) /\ Maps[t] \in ToSet(Interfaces)
  <2>1. Maps \in S
    BY <1>1, <1>2
  <2> QED BY <2>1
<1>4. ASSUME NEW k \in DOMAIN Interfaces,
             \A j \in k + 1 .. Len(Interfaces) : Short[Interfaces[j]] # Short[Interfaces[k]]
      PROVE  Maps[Short[Interfaces[k]]] = Interfaces[k]
  <2> DEFINE t == Short[Interfaces[k]]
             v == Interfaces[k]
             Good == {n \in 0 .. L : n >= k => f[n][t] = v}
  <2>1. k \in 1 .. L
    BY <1>1
  <2>2. 0 \in Good
    BY <1>1, <2>1
  <2>3. ASSUME NEW n \in 0 .. L - 1, n \in Good PROVE n + 1 \in Good
    <3>1. n + 1 \in 0 .. L
      BY <1>1
    <3>2. f[n + 1] = Insert(f[n], Short[Interfaces[n + 1]], Interfaces[n + 1])
      BY <1>2 DEF MapsLoop
    <3>3. PICK D : f[n] \in [D -> ToSet(Interfaces)]
      <4>1. n \in 0 .. L
        BY <1>1
      <4>2. f[n] \in S
        BY <1>2, <4>1
      <4> HIDE DEF Good, L
      <4> QED BY <4>2
    <3>4. Interfaces[n + 1] \in ToSet(Interfaces)
      BY <1>1 DEF ToSet
    <3>5. CASE n + 1 = k
      <4>1. f[n + 1][t] = v
        <5>1. v \in ToSet(Interfaces)
          BY <3>4, <3>5
        <5>2. Insert(f[n], t, v)[t] = v
          BY <3>3, <5>1, InsertOne
        <5> QED BY <3>2, <3>5, <5>2
      <4> QED BY <3>1, <4>1
    <3>6. CASE n + 1 > k
      <4>1. n + 1 \in k + 1 .. L /\ n >= k
        BY <1>1, <2>1, <3>6
      <4>2. Short[Interfaces[n + 1]] # t
        BY <1>4, <4>1
      <4>3. f[n][t] = v
        BY <2>3, <4>1
      <4>4. t \in D
        <5>1. DOMAIN f[n] = D
          BY <3>3
        <5> QED BY <4>3, <3>3
      <4>5. f[n + 1][t] = v
        BY <3>2, <3>3, <3>4, <4>2, <4>3, <4>4, InsertOne
      <4> QED BY <3>1, <4>5
    <3>7. CASE n + 1 < k
      BY <3>1, <3>7
    <3> QED BY <1>1, <2>1, <3>5, <3>6, <3>7
  <2>4. 0 .. L \subseteq Good
    <3> HIDE DEF Good, L
    <3> QED BY <1>1, <2>2, <2>3, BoundedInduction
  <2>5. L \in Good
    <3> HIDE DEF Good, L
    <3> QED BY <1>1, <2>4
  <2> QED BY <1>2, <2>1, <2>5
<1> QED BY <1>3, <1>4

\* The json files hold fields for each interface, and an interface for each last
\* part.
LEMMA ParsedJson ==
  ASSUME NEW lines \in [ToSet(Interfaces) -> Seq(InterfaceLine)], NEW j \in ParseInterface(lines)
  PROVE  Json(j)
<1>1. PICK infos \in ChosenInfos(lines) : j = [maps |-> Maps, infos |-> infos]
  BY DEF ParseInterface, ChosenInfos
<1>2. j.maps = Maps /\ j.infos = infos
  BY <1>1
<1>3. DOMAIN infos = ToSet(Interfaces) /\ \A itf \in ToSet(Interfaces) : infos[itf] \in Infos(lines[itf])
  BY ChosenOnes
<1>4. ASSUME NEW itf \in ToSet(Interfaces) PROVE infos[itf] \in Seq(Param)
  <2>1. lines[itf] \in Seq(InterfaceLine)
    OBVIOUS
  <2> QED BY <1>3, <2>1, ShownTyped
<1>5. Range(Short) \subseteq Text
  BY DEF Text, Types
<1> QED BY <1>2, <1>3, <1>4, <1>5, MapsLast DEF Json

-----------------------------------------------------------------------------
(* The file that campaigns share                                            *)

\* The last entry of each node.
EntryNames(file) == {file[i].name : i \in {k \in DOMAIN file : file[k] # LineEnd}}

\* NodeMap is a loop over the lines of the cache.
Mapped(m, e) == IF e = LineEnd THEN m ELSE Insert(m, e.name, e)
MapLoop(f, file) ==
  /\ f[0] = << >>
  /\ \A n \in 0 .. Len(file) - 1 : f[n + 1] = Mapped(f[n], file[n + 1])

\* NodeMap is a loop over the lines of the cache.
LEMMA NodeMapLoops ==
  ASSUME NEW file \in Seq(Entry \cup {LineEnd})
  PROVE  \E f : MapLoop(f, file) /\ NodeMap(file) = f[Len(file)]
<1> DEFINE L == Len(file)
           S == UNION {[D -> Entry] : D \in SUBSET Nodes}
           rel == [p \in S \X (1 .. L) |-> Mapped(p[1], file[p[2]])]
           Iter(g) == g = [s \in SUBSET (1 .. L) |->
             IF s = {} THEN << >>
             ELSE LET x == Max(s)
                  IN  (IF file[x] = LineEnd THEN g[s \ {x}] ELSE Insert(g[s \ {x}], file[x].name, file[x]))]
<1>1. L \in Nat /\ DOMAIN file = 1 .. L /\ << >> \in S
  <2>1. << >> \in [{} -> Entry]
    OBVIOUS
  <2> QED BY <2>1
<1>2. rel \in [S \X (1 .. L) -> S]
  <2>1. ASSUME NEW m \in S, NEW i \in 1 .. L PROVE Mapped(m, file[i]) \in S
    <3>1. CASE file[i] = LineEnd
      BY <3>1 DEF Mapped
    <3>2. CASE file[i] # LineEnd
      <4>1. PICK D \in SUBSET Nodes : m \in [D -> Entry]
        OBVIOUS
      <4>2. file[i] \in Entry
        BY <1>1, <3>2
      <4>3. file[i].name \in Nodes
        BY <4>2 DEF Entry
      <4>4. Insert(m, file[i].name, file[i]) \in [D \cup {file[i].name} -> Entry]
        <5> DEFINE k == file[i].name
                   v == file[i]
        <5>1. v \in Entry /\ DOMAIN m = D
          BY <4>1, <4>2
        <5> HIDE DEF k, v
        <5>2. Insert(m, k, v) \in [D \cup {k} -> Entry]
          BY <4>1, <5>1 DEF Insert
        <5> QED BY <5>2 DEF k, v
      <4>5. D \cup {file[i].name} \in SUBSET Nodes
        BY <4>3
      <4> QED BY <3>2, <4>4, <4>5 DEF Mapped
    <3> QED BY <3>1, <3>2
  <2> HIDE DEF S, L
  <2> QED BY <2>1
<1>3. PICK g \in [SUBSET (1 .. L) -> S] : Iterates(g, << >>, L, rel)
  <2> HIDE DEF rel, L, S
  <2> QED BY <1>1, <1>2, IteratesExists
<1>4. Iter(g)
  <2>1. ASSUME NEW s \in SUBSET (1 .. L), s # {}
        PROVE  rel[<<g[s \ {Max(s)}], Max(s)>>] = Mapped(g[s \ {Max(s)}], file[Max(s)])
    <3>1. Max(s) \in 1 .. L
      BY <1>1, <2>1, MaxIn
    <3>2. g[s \ {Max(s)}] \in S
      OBVIOUS
    <3> HIDE DEF S, L
    <3> QED BY <3>1, <3>2
  <2> HIDE DEF rel, L, S
  <2> QED BY <1>3, <2>1 DEF Iterates, Mapped
<1>5. \E h : Iter(h) /\ NodeMap(file) = h[1 .. L]
  <2>1. \E h : Iter(h)
    BY <1>4
  <2> HIDE DEF S, rel
  <2> QED BY <1>1, <2>1 DEF NodeMap, FoldLeft, MapThenFoldSet
<1>6. PICK h : Iter(h) /\ NodeMap(file) = h[1 .. L]
  BY <1>5
<1> DEFINE f == [n \in 0 .. L |-> h[1 .. n]]
<1>7. f[0] = << >>
  <2>1. 1 .. 0 = {} /\ {} \in SUBSET (1 .. L) /\ 0 \in 0 .. L
    BY <1>1
  <2> QED BY <1>6, <2>1
<1>8. ASSUME NEW n \in 0 .. L - 1 PROVE f[n + 1] = Mapped(f[n], file[n + 1])
  <2>1. /\ 1 .. n + 1 \in SUBSET (1 .. L) /\ 1 .. n + 1 # {}
        /\ Max(1 .. n + 1) = n + 1 /\ (1 .. n + 1) \ {n + 1} = 1 .. n
    BY <1>1, UpTo
  <2>2. h[1 .. n + 1] = Mapped(h[1 .. n], file[n + 1])
    BY <1>6, <2>1 DEF Mapped
  <2>3. n \in 0 .. L /\ n + 1 \in 0 .. L
    BY <1>1
  <2> QED BY <2>2, <2>3
<1>9. NodeMap(file) = f[L]
  BY <1>1, <1>6
<1> HIDE DEF f
<1> QED BY <1>7, <1>8, <1>9 DEF MapLoop

\* What is read from the cache is one entry for each node that has one, of this
\* node.
LEMMA NodeMapIs ==
  ASSUME NEW file \in Seq(Entry \cup {LineEnd})
  PROVE  NodeMap(file) \in [EntryNames(file) -> Entry] /\ \A n \in EntryNames(file) : NodeMap(file)[n].name = n
<1> DEFINE L == Len(file)
           Before(n) == {file[i].name : i \in {k \in 1 .. n : file[k] # LineEnd}}
           Good(m, n) == m \in [Before(n) -> Entry] /\ \A x \in Before(n) : m[x].name = x
<1>1. L \in Nat /\ DOMAIN file = 1 .. L
  OBVIOUS
<1>2. PICK f : MapLoop(f, file) /\ NodeMap(file) = f[L]
  BY NodeMapLoops
<1> DEFINE Steps == {n \in 0 .. L : Good(f[n], n)}
<1>3. 0 \in Steps
  <2>1. Before(0) = {} /\ 0 \in 0 .. L
    BY <1>1
  <2>2. << >> \in [{} -> Entry]
    OBVIOUS
  <2>3. f[0] = << >>
    BY <1>2 DEF MapLoop
  <2> QED BY <2>1, <2>2, <2>3
<1>4. ASSUME NEW n \in 0 .. L - 1, n \in Steps PROVE n + 1 \in Steps
  <2>1. n + 1 \in 1 .. L /\ n + 1 \in 0 .. L /\ n \in Nat /\ 1 .. n + 1 = (1 .. n) \cup {n + 1}
    BY <1>1
  <2>2. f[n + 1] = Mapped(f[n], file[n + 1])
    BY <1>2 DEF MapLoop
  <2>3. Good(f[n], n)
    BY <1>4
  <2> DEFINE m == f[n]
             e == file[n + 1]
  <2>4. CASE e = LineEnd
    <3>1. Before(n + 1) = Before(n)
      BY <2>1, <2>4
    <3>2. f[n + 1] = m
      BY <2>2, <2>4 DEF Mapped
    <3> HIDE DEF Before
    <3> QED BY <2>1, <2>3, <3>1, <3>2
  <2>5. CASE e # LineEnd
    <3>1. e \in Entry
      BY <1>1, <2>1, <2>5
    <3>2. Before(n + 1) = Before(n) \cup {e.name}
      <4> SUFFICES ASSUME NEW x PROVE x \in Before(n + 1) <=> x \in Before(n) \/ x = e.name
        OBVIOUS
      <4>1. x \in Before(n + 1) <=> \E k \in 1 .. n + 1 : file[k] # LineEnd /\ x = file[k].name
        OBVIOUS
      <4>2. x \in Before(n) <=> \E k \in 1 .. n : file[k] # LineEnd /\ x = file[k].name
        OBVIOUS
      <4> QED BY <2>1, <2>5, <4>1, <4>2
    <3>3. f[n + 1] = Insert(m, e.name, e)
      BY <2>2, <2>5 DEF Mapped
    <3>4. Good(m, n)
      BY <2>3
    <3> HIDE DEF Before, m, e
    <3>5. Good(Insert(m, e.name, e), n + 1)
      BY <3>1, <3>2, <3>4 DEF Insert
    <3> QED BY <2>1, <3>3, <3>5
  <2> QED BY <2>4, <2>5
<1>5. L \in Steps
  <2>1. 0 .. L \subseteq Steps
    <3> HIDE DEF Steps, L
    <3> QED BY <1>1, <1>3, <1>4, BoundedInduction
  <2>2. L \in 0 .. L
    BY <1>1
  <2> HIDE DEF Steps
  <2> QED BY <2>1, <2>2
<1>6. Before(L) = EntryNames(file)
  BY <1>1 DEF EntryNames
<1> HIDE DEF Before
<1> QED BY <1>2, <1>5, <1>6

-----------------------------------------------------------------------------
(* Parts of a sequence                                                      *)

\* One sequence begins another.
BeginsWith(t, s) == Len(s) <= Len(t) /\ \A i \in 1 .. Len(s) : t[i] = s[i]

\* Joining keeps what is there, and puts the other behind it.
LEMMA JoinFacts ==
  ASSUME NEW S, NEW s \in Seq(S), NEW t \in Seq(S)
  PROVE  /\ s \o t \in Seq(S) /\ Len(s \o t) = Len(s) + Len(t) /\ BeginsWith(s \o t, s)
         /\ Len(s) \in Nat /\ Len(t) \in Nat /\ DOMAIN s = 1 .. Len(s) /\ DOMAIN t = 1 .. Len(t)
         /\ \A i \in 1 .. Len(t) : (s \o t)[Len(s) + i] = t[i]
<1>1. s \o t \in Seq(S) /\ Len(s \o t) = Len(s) + Len(t) /\ Len(s) \in Nat /\ Len(t) \in Nat
  OBVIOUS
<1>2. \A i \in 1 .. Len(s) : (s \o t)[i] = s[i]
  BY <1>1
<1>3. \A i \in 1 .. Len(t) : (s \o t)[Len(s) + i] = t[i]
  BY <1>1
<1> QED BY <1>1, <1>2, <1>3 DEF BeginsWith

\* Where the parts are in a flattened sequence: f has what is flat after each.
FlatParts(f, S, seqs) ==
  /\ f \in [0 .. Len(seqs) -> Seq(S)] /\ f[0] = << >>
  /\ FlattenSeq(seqs) \in Seq(S) /\ FlattenSeq(seqs) = f[Len(seqs)]
  /\ \A n \in 1 .. Len(seqs) :
       /\ f[n] = f[n - 1] \o seqs[n]
       /\ Len(f[n]) = Len(f[n - 1]) + Len(seqs[n]) /\ Len(f[n]) <= Len(FlattenSeq(seqs))
       /\ \A i \in 1 .. Len(seqs[n]) : FlattenSeq(seqs)[Len(f[n - 1]) + i] = seqs[n][i]

\* Each part is behind those ahead of it.
LEMMA FlattenPlaces ==
  ASSUME NEW S, NEW seqs \in Seq(Seq(S))
  PROVE  \E f : FlatParts(f, S, seqs)
<1> DEFINE L == Len(seqs)
           flat == FlattenSeq(seqs)
<1>1. L \in Nat /\ L \in 0 .. L /\ \A n \in 1 .. L : seqs[n] \in Seq(S)
  OBVIOUS
<1>2. PICK f \in [0 .. L -> Seq(S)] : FlattenLoop(f, seqs) /\ flat = f[L]
  BY FlattenLoops
<1> HIDE DEF flat
<1>3. ASSUME NEW n \in 1 .. L
      PROVE  /\ n - 1 \in 0 .. L /\ n \in 0 .. L /\ f[n] = f[n - 1] \o seqs[n]
             /\ f[n - 1] \in Seq(S) /\ f[n] \in Seq(S) /\ seqs[n] \in Seq(S)
  <2>1. n - 1 \in 0 .. L - 1 /\ (n - 1) + 1 = n /\ n - 1 \in 0 .. L /\ n \in 0 .. L
    BY <1>1
  <2>2. f[n] = f[n - 1] \o seqs[n]
    <3>1. f[(n - 1) + 1] = f[n - 1] \o seqs[(n - 1) + 1]
      BY <1>2, <2>1 DEF FlattenLoop
    <3> QED BY <2>1, <3>1
  <2> QED BY <1>1, <1>2, <2>1, <2>2
<1> HIDE DEF L
<1> DEFINE Good == {m \in 0 .. L : \A n \in 0 .. m : BeginsWith(f[m], f[n])}
<1>4. 0 \in Good
  <2>1. 0 \in 0 .. L /\ f[0] \in Seq(S)
    BY <1>1, <1>2
  <2>2. BeginsWith(f[0], f[0])
    BY <2>1 DEF BeginsWith
  <2>3. \A n \in 0 .. 0 : n = 0
    OBVIOUS
  <2> QED BY <2>1, <2>2, <2>3
<1>5. ASSUME NEW m \in 0 .. L - 1, m \in Good PROVE m + 1 \in Good
  <2>1. m + 1 \in 1 .. L /\ (m + 1) - 1 = m /\ m + 1 \in 0 .. L /\ m \in 0 .. L
    BY <1>1
  <2>2. f[m + 1] = f[m] \o seqs[m + 1] /\ f[m] \in Seq(S) /\ f[m + 1] \in Seq(S) /\ seqs[m + 1] \in Seq(S)
    BY <1>3, <2>1
  <2>3. BeginsWith(f[m + 1], f[m]) /\ Len(f[m]) \in Nat /\ Len(f[m + 1]) \in Nat
    <3>1. LET s == f[m] t == seqs[m + 1] IN
            BeginsWith(s \o t, s) /\ Len(s) \in Nat /\ Len(t) \in Nat /\ Len(s \o t) = Len(s) + Len(t)
      BY <2>2, JoinFacts
    <3>2. Len(f[m + 1]) \in Nat
      <4>1. f[m + 1] \in Seq(S)
        BY <2>2
      <4> QED BY <4>1
    <3> QED BY <2>2, <3>1, <3>2
  <2>4. ASSUME NEW n \in 0 .. m PROVE BeginsWith(f[m + 1], f[n])
    <3>1. BeginsWith(f[m], f[n])
      BY <1>5
    <3>2. n \in 0 .. L
      BY <1>1
    <3>3. f[n] \in Seq(S)
      BY <1>2, <3>2
    <3>4. Len(f[n]) \in Nat
      BY <3>3
    <3> QED BY <2>3, <3>1, <3>4 DEF BeginsWith
  <2>5. BeginsWith(f[m + 1], f[m + 1])
    BY <2>3 DEF BeginsWith
  <2>6. \A n \in 0 .. m + 1 : n \in 0 .. m \/ n = m + 1
    BY <1>1
  <2> QED BY <2>1, <2>4, <2>5, <2>6
<1>6. \A n \in 0 .. L : BeginsWith(flat, f[n])
  <2>1. 0 .. L \subseteq Good
    <3> HIDE DEF Good
    <3> QED BY <1>1, <1>4, <1>5, BoundedInduction
  <2>2. L \in Good
    <3> HIDE DEF Good
    <3> QED BY <1>1, <2>1
  <2> QED BY <1>2, <2>2
<1>7. ASSUME NEW n \in 1 .. L
      PROVE  /\ Len(f[n]) = Len(f[n - 1]) + Len(seqs[n]) /\ Len(f[n]) <= Len(flat)
             /\ \A i \in 1 .. Len(seqs[n]) : flat[Len(f[n - 1]) + i] = seqs[n][i]
  <2>1. /\ n - 1 \in 0 .. L /\ n \in 0 .. L /\ f[n] = f[n - 1] \o seqs[n]
        /\ f[n - 1] \in Seq(S) /\ f[n] \in Seq(S) /\ seqs[n] \in Seq(S)
    BY <1>3
  <2>2. /\ Len(f[n]) = Len(f[n - 1]) + Len(seqs[n])
        /\ \A i \in 1 .. Len(seqs[n]) : f[n][Len(f[n - 1]) + i] = seqs[n][i]
        /\ Len(f[n - 1]) \in Nat /\ Len(seqs[n]) \in Nat
    BY <2>1, JoinFacts
  <2>3. BeginsWith(flat, f[n])
    BY <1>6, <2>1
  <2>4. ASSUME NEW i \in 1 .. Len(seqs[n]) PROVE flat[Len(f[n - 1]) + i] = seqs[n][i]
    <3>1. Len(f[n - 1]) + i \in 1 .. Len(f[n])
      <4> DEFINE a == Len(f[n - 1])
                 b == Len(seqs[n])
      <4>1. a \in Nat /\ b \in Nat /\ Len(f[n]) = a + b /\ i \in 1 .. b
        BY <2>2
      <4> HIDE DEF a, b
      <4>2. a + i \in 1 .. a + b
        BY <4>1
      <4> QED BY <4>1, <4>2 DEF a
    <3> QED BY <2>2, <2>3, <3>1 DEF BeginsWith
  <2> QED BY <2>2, <2>3, <2>4 DEF BeginsWith
<1>8. f[0] = << >> /\ flat \in Seq(S)
  BY <1>1, <1>2 DEF FlattenLoop
<1>9. \A n \in 1 .. L : f[n] = f[n - 1] \o seqs[n]
  BY <1>3
<1>10. FlatParts(f, S, seqs)
  BY <1>2, <1>7, <1>8, <1>9 DEF flat, L, FlatParts
<1> QED BY <1>10

\* Pairs, one after the other.
LEMMA PairsFlat ==
  ASSUME NEW A, NEW o \in Seq(A \X A)
  PROVE  /\ FlattenSeq(o) \in Seq(A) /\ Len(FlattenSeq(o)) = 2 * Len(o) /\ Len(o) \in Nat
         /\ \A j \in 1 .. Len(o) : FlattenSeq(o)[2 * j - 1] = o[j][1] /\ FlattenSeq(o)[2 * j] = o[j][2]
<1> DEFINE L == Len(o)
<1>1. L \in Nat /\ \A j \in 1 .. L : o[j] \in A \X A
  OBVIOUS
<1>2. ASSUME NEW j \in 1 .. L PROVE o[j] \in Seq(A) /\ Len(o[j]) = 2
  <2>1. PICK a \in A, b \in A : o[j] = <<a, b>>
    BY <1>1
  <2>2. <<a, b>> \in Seq(A) /\ Len(<<a, b>>) = 2
    OBVIOUS
  <2> QED BY <2>1, <2>2
<1>3. o \in Seq(Seq(A))
  <2>1. \A j \in 1 .. L : o[j] \in Seq(A)
    BY <1>2
  <2> QED BY <2>1
<1>4. PICK f : FlatParts(f, A, o)
  BY <1>3, FlattenPlaces
<1> DEFINE Good == {n \in 0 .. L : Len(f[n]) = 2 * n}
<1>5. 0 \in Good
  <2>1. f[0] = << >> /\ 0 \in 0 .. L
    BY <1>1, <1>4 DEF FlatParts
  <2> QED BY <2>1
<1>6. ASSUME NEW n \in 0 .. L - 1, n \in Good PROVE n + 1 \in Good
  <2>1. n + 1 \in 1 .. L /\ (n + 1) - 1 = n /\ n + 1 \in 0 .. L
    BY <1>1
  <2>2. Len(f[n + 1]) = Len(f[n]) + Len(o[n + 1])
    BY <1>4, <2>1 DEF FlatParts
  <2>3. Len(o[n + 1]) = 2 /\ Len(f[n]) = 2 * n
    BY <1>2, <1>6, <2>1
  <2>4. Len(f[n + 1]) = 2 * (n + 1)
    BY <1>1, <2>2, <2>3
  <2> QED BY <2>1, <2>4
<1>7. \A n \in 0 .. L : Len(f[n]) = 2 * n
  <2>1. 0 .. L \subseteq Good
    <3> HIDE DEF Good, L
    <3> QED BY <1>1, <1>5, <1>6, BoundedInduction
  <2> QED BY <2>1
<1>8. FlattenSeq(o) \in Seq(A) /\ Len(FlattenSeq(o)) = 2 * L
  <2>1. L \in 0 .. L
    BY <1>1
  <2> QED BY <1>4, <1>7, <2>1 DEF FlatParts
<1>9. ASSUME NEW j \in 1 .. L PROVE FlattenSeq(o)[2 * j - 1] = o[j][1] /\ FlattenSeq(o)[2 * j] = o[j][2]
  <2>1. j - 1 \in 0 .. L
    BY <1>1
  <2>2. Len(f[j - 1]) = 2 * (j - 1)
    BY <1>7, <2>1
  <2>3. 1 \in 1 .. Len(o[j]) /\ 2 \in 1 .. Len(o[j])
    <3>1. Len(o[j]) = 2
      BY <1>2
    <3> QED BY <3>1
  <2>4. FlattenSeq(o)[Len(f[j - 1]) + 1] = o[j][1] /\ FlattenSeq(o)[Len(f[j - 1]) + 2] = o[j][2]
    BY <1>4, <2>3 DEF FlatParts
  <2>5. 2 * (j - 1) + 1 = 2 * j - 1 /\ 2 * (j - 1) + 2 = 2 * j
    BY <1>1
  <2> QED BY <2>2, <2>4, <2>5
<1> QED BY <1>1, <1>8, <1>9

\* The same words at a place.
LEMMA SameAt ==
  ASSUME NEW S, NEW words \in Seq(S), NEW T, NEW h \in Seq(T), Len(h) > 0, NEW i \in Nat \ {0}, i + Len(h) - 1 <= Len(words)
  PROVE  SubSeq(words, i, i + Len(h) - 1) = h <=> \A x \in 1 .. Len(h) : words[i + x - 1] = h[x]
<1> DEFINE n == Len(h)
           s == SubSeq(words, i, i + n - 1)
<1>1. n \in Nat /\ h = [x \in 1 .. n |-> h[x]] /\ DOMAIN h = 1 .. n
  OBVIOUS
<1>2. s \in Seq(S) /\ Len(s) = n /\ \A x \in 1 .. n : s[x] = words[i + x - 1]
  OBVIOUS
<1>3. s = [x \in 1 .. n |-> s[x]] /\ DOMAIN s = 1 .. n
  BY <1>2
<1> HIDE DEF n, s
<1>4. s = h <=> \A x \in 1 .. n : s[x] = h[x]
  BY <1>1, <1>3
<1>5. s = h <=> \A x \in 1 .. n : words[i + x - 1] = h[x]
  BY <1>2, <1>4
<1> QED BY <1>5 DEF n, s

-----------------------------------------------------------------------------
(* Reading what a node answers                                              *)

Kinds == 1 .. 6
Alphabet == STRING \cup Words
OfferOf(app, k) == app.offers[Sections[k]]

\* Where the sections of what a node answers begin.
Layout(words, app, p) ==
  /\ words \in Seq(Alphabet) /\ p \in [1 .. 7 -> Nat \ {0}] /\ p[1] = 2 /\ p[7] = Len(words) + 1
  /\ \A k \in Kinds :
       /\ p[k + 1] = p[k] + Len(Headings[k]) + 2 * Len(OfferOf(app, k))
       /\ \A i \in 1 .. Len(Headings[k]) : words[p[k] + i - 1] = Headings[k][i]
       /\ \A j \in 1 .. Len(OfferOf(app, k)) :
            /\ words[p[k] + Len(Headings[k]) + 2 * j - 2] = OfferOf(app, k)[j][1]
            /\ words[p[k] + Len(Headings[k]) + 2 * j - 1] = OfferOf(app, k)[j][2]

\* A heading has one or two words, and each section its own name.
LEMMA HeadingFacts ==
  /\ DOMAIN Headings = Kinds /\ DOMAIN Sections = Kinds
  /\ \A k \in Kinds : Headings[k] \in Seq(Words) /\ Len(Headings[k]) \in {1, 2} /\ Sections[k] \in ToSet(Sections)
  /\ \A k, l \in Kinds : k # l => Sections[k] # Sections[l]
<1>1. DOMAIN Headings = Kinds /\ DOMAIN Sections = Kinds
  BY DEF Headings, Sections, Kinds
<1>2. ASSUME NEW k \in Kinds
      PROVE  Len(Headings[k]) \in {1, 2} /\ Headings[k] \in Seq(STRING \cup Range(Headings[k]))
  <2>1. k = 1 \/ k = 2 \/ k = 3 \/ k = 4 \/ k = 5 \/ k = 6
    BY DEF Kinds
  <2>2. ASSUME NEW a PROVE <<a>> \in Seq(STRING \cup Range(<<a>>)) /\ Len(<<a>>) = 1
    <3>1. a \in Range(<<a>>)
      <4>1. 1 \in DOMAIN <<a>> /\ <<a>>[1] = a
        OBVIOUS
      <4> QED BY <4>1 DEF Range
    <3> QED BY <3>1
  <2>3. ASSUME NEW a, NEW b PROVE <<a, b>> \in Seq(STRING \cup Range(<<a, b>>)) /\ Len(<<a, b>>) = 2
    <3>1. a \in Range(<<a, b>>) /\ b \in Range(<<a, b>>)
      <4>1. 1 \in DOMAIN <<a, b>> /\ <<a, b>>[1] = a /\ 2 \in DOMAIN <<a, b>> /\ <<a, b>>[2] = b
        OBVIOUS
      <4> QED BY <4>1 DEF Range
    <3> QED BY <3>1
  <2>4. /\ Headings[1] = <<"Subscribers:">> /\ Headings[2] = <<"Publishers:">>
        /\ Headings[3] = <<"Service", "Servers:">> /\ Headings[4] = <<"Service", "Clients:">>
        /\ Headings[5] = <<"Action", "Servers:">> /\ Headings[6] = <<"Action", "Clients:">>
    BY DEF Headings
  <2> QED BY <2>1, <2>2, <2>3, <2>4
<1>3. ASSUME NEW k \in Kinds PROVE Headings[k] \in Seq(Words)
  <2>1. Range(Headings[k]) \subseteq Words
    BY <1>1 DEF Words
  <2>2. \A i \in DOMAIN Headings[k] : Headings[k][i] \in Words
    BY <2>1 DEF Range
  <2>3. ASSUME NEW S, NEW T, NEW h \in Seq(S), \A i \in DOMAIN h : h[i] \in T PROVE h \in Seq(T)
    <3>1. DOMAIN h = 1 .. Len(h) /\ Len(h) \in Nat /\ h = [i \in 1 .. Len(h) |-> h[i]]
      OBVIOUS
    <3>2. h \in [1 .. Len(h) -> T]
      BY <2>3, <3>1
    <3> QED BY <3>1, <3>2
  <2> HIDE DEF Headings, Words
  <2> QED BY <1>2, <2>2, <2>3
<1>4. \A k \in Kinds : Sections[k] \in ToSet(Sections)
  BY <1>1 DEF ToSet
<1>5. \A k, l \in Kinds : k # l => Sections[k] # Sections[l]
  BY DEF Kinds, Sections
<1> QED BY <1>1, <1>2, <1>3, <1>4, <1>5

\* What a node offers in one section are pairs of words that are no headings.
LEMMA OfferIs ==
  ASSUME version \in DOMAIN Apps, NEW n \in Nodes, NEW k \in Kinds
  PROVE  OfferOf(Apps[version][n], k) \in Seq((STRING \ Words) \X (STRING \ Words))
<1>1. Apps[version] \in App
  BY DiscoveryAssumption
<1>2. Sections[k] \in ToSet(Sections)
  BY HeadingFacts
<1> QED BY <1>1, <1>2 DEF App, OfferOf

\* In what a node answers, each section is its heading and its pairs.
LEMMA InfoLayout ==
  ASSUME version \in DOMAIN Apps, NEW n \in Nodes
  PROVE  \E p : Layout(InfoWords(n), Apps[version][n], p)
<1> DEFINE app == Apps[version][n]
           O(k) == OfferOf(app, k)
           A == Alphabet
           parts == [k \in DOMAIN Sections |-> Headings[k] \o FlattenSeq(app.offers[Sections[k]])]
           flat == FlattenSeq(parts)
           words == InfoWords(n)
<1>1. ASSUME NEW k \in Kinds
      PROVE  /\ Headings[k] \in Seq(A) /\ O(k) \in Seq(A \X A) /\ FlattenSeq(O(k)) \in Seq(A)
             /\ parts[k] = Headings[k] \o FlattenSeq(O(k))
  <2>1. Headings[k] \in Seq(Words) /\ k \in DOMAIN Sections
    BY HeadingFacts
  <2>2. O(k) \in Seq((STRING \ Words) \X (STRING \ Words))
    BY OfferIs
  <2>3. O(k) \in Seq(A \X A)
    <3>1. \A x \in (STRING \ Words) \X (STRING \ Words) : x \in A \X A
      BY DEF Alphabet
    <3> HIDE DEF O, A
    <3> QED BY <2>2, <3>1
  <2>4. FlattenSeq(O(k)) \in Seq(A)
    <3> HIDE DEF O, A
    <3> QED BY <2>3, PairsFlat
  <2>5. Headings[k] \in Seq(A)
    <3>1. \A x \in Words : x \in A
      BY DEF Alphabet
    <3> HIDE DEF A
    <3> QED BY <2>1, <3>1
  <2>6. parts[k] = Headings[k] \o FlattenSeq(O(k))
    BY <2>1 DEF OfferOf
  <2> QED BY <2>3, <2>4, <2>5, <2>6
<1> HIDE DEF O, A
<1>2. ASSUME NEW k \in Kinds
      PROVE  LET h == Headings[k] IN
             /\ parts[k] \in Seq(A) /\ Len(parts[k]) = Len(h) + 2 * Len(O(k))
             /\ Len(h) \in Nat /\ Len(O(k)) \in Nat
             /\ \A i \in 1 .. Len(h) : parts[k][i] = h[i]
             /\ \A j \in 1 .. Len(O(k)) :
                  parts[k][Len(h) + (2 * j - 1)] = O(k)[j][1] /\ parts[k][Len(h) + 2 * j] = O(k)[j][2]
  <2> DEFINE h == Headings[k]
             s == FlattenSeq(O(k))
             m == Len(O(k))
  <2>1. h \in Seq(A) /\ s \in Seq(A) /\ parts[k] = h \o s
    BY <1>1
  <2>2. /\ Len(s) = 2 * m /\ m \in Nat
        /\ \A j \in 1 .. m : s[2 * j - 1] = O(k)[j][1] /\ s[2 * j] = O(k)[j][2]
    BY <1>1, PairsFlat
  <2> HIDE DEF parts, h, s
  <2>3. /\ h \o s \in Seq(A) /\ Len(h \o s) = Len(h) + Len(s) /\ BeginsWith(h \o s, h)
        /\ Len(h) \in Nat /\ \A i \in 1 .. Len(s) : (h \o s)[Len(h) + i] = s[i]
    BY <2>1, JoinFacts
  <2>4. ASSUME NEW j \in 1 .. m
        PROVE  parts[k][Len(h) + (2 * j - 1)] = O(k)[j][1] /\ parts[k][Len(h) + 2 * j] = O(k)[j][2]
    <3> HIDE DEF m
    <3>1. 2 * j - 1 \in 1 .. Len(s) /\ 2 * j \in 1 .. Len(s)
      BY <2>2
    <3> QED BY <2>1, <2>2, <2>3, <3>1
  <2>5. \A i \in 1 .. Len(h) : parts[k][i] = h[i]
    BY <2>1, <2>3 DEF BeginsWith
  <2> QED BY <2>1, <2>2, <2>3, <2>4, <2>5 DEF h
<1>3. parts \in Seq(Seq(A)) /\ Len(parts) = 6
  <2>1. DOMAIN parts = 1 .. 6
    BY HeadingFacts DEF Kinds
  <2>2. \A k \in 1 .. 6 : parts[k] \in Seq(A)
    BY <1>2 DEF Kinds
  <2>3. parts = [k \in 1 .. 6 |-> parts[k]]
    BY <2>1
  <2> HIDE DEF parts
  <2> QED BY <2>2, <2>3
<1> HIDE DEF parts
<1>4. PICK f : FlatParts(f, A, parts)
  BY <1>3, FlattenPlaces
<1>5. words = <<n>> \o flat /\ flat \in Seq(A) /\ n \in A
  BY <1>4, DiscoveryAssumption DEF InfoWords, parts, FlatParts, A, Alphabet
<1>6. /\ words \in Seq(A) /\ Len(words) = Len(flat) + 1 /\ Len(flat) \in Nat
      /\ \A i \in 1 .. Len(flat) : words[i + 1] = flat[i]
  <2> HIDE DEF flat, words
  <2> QED BY <1>5, ConsFacts
<1> HIDE DEF flat, words
<1>7. /\ \A k \in 0 .. 6 : Len(f[k]) \in Nat
      /\ f[0] = << >> /\ Len(flat) = Len(f[6])
  <2>1. f \in [0 .. 6 -> Seq(A)] /\ f[0] = << >> /\ Len(flat) = Len(f[6])
    BY <1>3, <1>4 DEF FlatParts, flat
  <2>2. \A k \in 0 .. 6 : f[k] \in Seq(A)
    BY <2>1
  <2> QED BY <2>1, <2>2
<1>8. ASSUME NEW k \in Kinds
      PROVE  /\ Len(f[k]) = Len(f[k - 1]) + Len(parts[k]) /\ Len(f[k]) <= Len(flat)
             /\ \A i \in 1 .. Len(parts[k]) : flat[Len(f[k - 1]) + i] = parts[k][i]
  BY <1>3, <1>4 DEF FlatParts, flat, Kinds
<1> DEFINE p == [k \in 1 .. 7 |-> 2 + Len(f[k - 1])]
<1>9. \A k \in 1 .. 7 : p[k] = 2 + Len(f[k - 1]) /\ Len(f[k - 1]) \in Nat
  <2>1. \A k \in 1 .. 7 : k - 1 \in 0 .. 6
    OBVIOUS
  <2> QED BY <1>7, <2>1
<1>10. p \in [1 .. 7 -> Nat \ {0}] /\ p[1] = 2 /\ p[7] = Len(words) + 1
  <2>1. p \in [1 .. 7 -> Nat \ {0}]
    <3>1. \A k \in 1 .. 7 : 2 + Len(f[k - 1]) \in Nat \ {0}
      BY <1>9
    <3> QED BY <3>1
  <2>2. p[1] = 2 + Len(f[0]) /\ p[7] = 2 + Len(f[6])
    BY <1>9
  <2>3. Len(f[0]) = 0
    BY <1>7
  <2> HIDE DEF p
  <2> QED BY <1>6, <1>7, <2>1, <2>2, <2>3
<1>11. ASSUME NEW k \in Kinds
       PROVE  LET h == Headings[k] IN
              /\ p[k + 1] = p[k] + Len(h) + 2 * Len(O(k))
              /\ \A i \in 1 .. Len(h) : words[p[k] + i - 1] = h[i]
              /\ \A j \in 1 .. Len(O(k)) :
                   /\ words[p[k] + Len(h) + 2 * j - 2] = O(k)[j][1]
                   /\ words[p[k] + Len(h) + 2 * j - 1] = O(k)[j][2]
  <2> DEFINE h == Headings[k]
             a == Len(f[k - 1])
             b == Len(h)
             m == Len(O(k))
  <2>1. k \in 1 .. 7 /\ k + 1 \in 1 .. 7 /\ (k + 1) - 1 = k
    BY DEF Kinds
  <2>2. p[k] = 2 + a /\ p[k + 1] = 2 + Len(f[k]) /\ a \in Nat
    BY <1>9, <2>1
  <2>3. b \in Nat /\ m \in Nat /\ Len(parts[k]) = b + 2 * m
    BY <1>2
  <2>4. Len(f[k]) = a + (b + 2 * m) /\ Len(f[k]) <= Len(flat)
    BY <1>8, <2>3
  <2>5. \A i \in 1 .. b : parts[k][i] = h[i]
    BY <1>2
  <2>6. \A j \in 1 .. m : parts[k][b + (2 * j - 1)] = O(k)[j][1] /\ parts[k][b + 2 * j] = O(k)[j][2]
    BY <1>2
  <2>7. \A i \in 1 .. b + 2 * m : flat[a + i] = parts[k][i]
    BY <1>8, <2>3
  <2> HIDE DEF p, h, a, b, m
  <2>8. \A i \in 1 .. b + 2 * m : words[(a + i) + 1] = parts[k][i]
    <3> SUFFICES ASSUME NEW i \in 1 .. b + 2 * m PROVE words[(a + i) + 1] = parts[k][i]
      OBVIOUS
    <3>1. a + i \in 1 .. Len(flat)
      BY <1>6, <2>2, <2>3, <2>4
    <3> QED BY <1>6, <2>7, <3>1
  <2>9. p[k + 1] = p[k] + b + 2 * m
    BY <2>2, <2>3, <2>4
  <2>10. ASSUME NEW i \in 1 .. b PROVE words[p[k] + i - 1] = h[i]
    <3>1. i \in 1 .. b + 2 * m /\ p[k] + i - 1 = (a + i) + 1
      BY <2>2, <2>3
    <3> QED BY <2>5, <2>8, <3>1
  <2>11. ASSUME NEW j \in 1 .. m
         PROVE  words[p[k] + b + 2 * j - 2] = O(k)[j][1] /\ words[p[k] + b + 2 * j - 1] = O(k)[j][2]
    <3>1. /\ b + (2 * j - 1) \in 1 .. b + 2 * m /\ p[k] + b + 2 * j - 2 = (a + (b + (2 * j - 1))) + 1
          /\ b + 2 * j \in 1 .. b + 2 * m /\ p[k] + b + 2 * j - 1 = (a + (b + 2 * j)) + 1
      BY <2>2, <2>3
    <3> QED BY <2>6, <2>8, <3>1
  <2> QED BY <2>9, <2>10, <2>11 DEF h, b, m
<1> HIDE DEF p
<1>12. Layout(words, app, p)
  BY <1>6, <1>10, <1>11 DEF Layout, O, A
<1> QED BY <1>12 DEF words

\* Where the reading stands.
Triples(words) == {<<q[1], words[q[2]], words[q[2] + 1]>> : q \in ToSet(Sections) \X Nat}
Ats(words) == [i : Nat, section : ToSet(Sections), found : SUBSET Triples(words)]

HeadLoop(f, words, a) ==
  /\ f[0] = a
  /\ \A n \in 0 .. Len(Headings) - 1 : f[n + 1] = AtHeading(words, f[n], Places(Headings)[n + 1])
ReadLoop(f, words) ==
  /\ f[0] = [i |-> 2, section |-> Sections[1], found |-> {}]
  /\ \A n \in 0 .. Len(words) - 1 : f[n + 1] = ReadEntry(words, f[n])
ReadAll(words) ==
  FoldLeft(LAMBDA a, w : ReadEntry(words, a), [i |-> 2, section |-> Sections[1], found |-> {}], words)

\* The reading stays one.
LEMMA AtHeadingTyped ==
  ASSUME NEW words, NEW at \in Ats(words), NEW k \in Kinds
  PROVE  AtHeading(words, at, k) \in Ats(words)
<1>1. Len(Headings[k]) \in Nat /\ Sections[k] \in ToSet(Sections)
  BY HeadingFacts
<1> DEFINE T == Triples(words)
           s == Sections[k]
           SS == ToSet(Sections)
           n == Len(Headings[k])
<1>2. n \in Nat /\ s \in SS
  BY <1>1
<1>3. CASE HeadingAt(words, at.i, k)
  <2>1. AtHeading(words, at, k) = [at EXCEPT !.i = @ + n, !.section = s]
    BY <1>3 DEF AtHeading
  <2>2. at \in [i : Nat, section : SS, found : SUBSET T]
    BY DEF Ats
  <2> HIDE DEF T, s, SS, n
  <2>3. [at EXCEPT !.i = @ + n, !.section = s] \in [i : Nat, section : SS, found : SUBSET T]
    <3> DEFINE u == at.i + n
    <3>1. [at EXCEPT !.i = @ + n, !.section = s] = [at EXCEPT !.i = u, !.section = s]
      BY <2>2
    <3>2. u \in Nat
      BY <1>2, <2>2
    <3> HIDE DEF u
    <3> QED BY <1>2, <2>2, <3>1, <3>2
  <2> QED BY <2>1, <2>3 DEF Ats, SS, T
<1>4. CASE ~HeadingAt(words, at.i, k)
  BY <1>4 DEF AtHeading
<1> QED BY <1>3, <1>4

\* PastHeadings is a loop over the headings.
LEMMA HeadLoops ==
  ASSUME NEW words, NEW a \in Ats(words)
  PROVE  \E f \in [0 .. Len(Headings) -> Ats(words)] : HeadLoop(f, words, a) /\ PastHeadings(words, a) = f[Len(Headings)]
<1> DEFINE L == Len(Headings)
           S == Ats(words)
           rel == [p \in S \X (1 .. L) |-> AtHeading(words, p[1], Places(Headings)[p[2]])]
           Iter(g) == g = [s \in SUBSET (DOMAIN Places(Headings)) |->
             IF s = {} THEN a
             ELSE LET x == Max(s) IN AtHeading(words, g[s \ {x}], Places(Headings)[x])]
<1>20. DOMAIN Places(Headings) = 1 .. L /\ \A i \in 1 .. L : Places(Headings)[i] = i
  <2>1. DOMAIN Headings = 1 .. L
    BY DEF Headings
  <2> QED BY <2>1 DEF Places
<1>1. L \in Nat /\ DOMAIN Headings = 1 .. L /\ a \in S
  BY DEF Headings
<1>2. ASSUME NEW acc \in S, NEW i \in 1 .. L PROVE AtHeading(words, acc, Places(Headings)[i]) \in S
  <2>1. Places(Headings)[i] \in Kinds
    BY <1>1, <1>20, HeadingFacts
  <2> QED BY <2>1, AtHeadingTyped
<1>3. rel \in [S \X (1 .. L) -> S]
  <2> HIDE DEF S, L
  <2> QED BY <1>2
<1>4. PICK g \in [SUBSET (1 .. L) -> S] : Iterates(g, a, L, rel)
  <2> HIDE DEF rel, L, S
  <2> QED BY <1>1, <1>3, IteratesExists
<1>5. Iter(g)
  <2>1. ASSUME NEW s \in SUBSET (1 .. L), s # {}
        PROVE  rel[<<g[s \ {Max(s)}], Max(s)>>] = AtHeading(words, g[s \ {Max(s)}], Places(Headings)[Max(s)])
    <3>1. Max(s) \in 1 .. L
      BY <1>1, <2>1, MaxIn
    <3>2. g[s \ {Max(s)}] \in S
      OBVIOUS
    <3> HIDE DEF S, L
    <3> QED BY <3>1, <3>2
  <2> HIDE DEF rel, L, S
  <2> QED BY <1>4, <2>1 , <1>20 DEF Iterates
<1>6. \E h : Iter(h) /\ PastHeadings(words, a) = h[1 .. L]
  <2>1. \E h : Iter(h)
    BY <1>5
  <2> HIDE DEF S, rel
  <2> QED BY <1>1, <2>1, <1>20 DEF PastHeadings, FoldLeft, MapThenFoldSet
<1>7. PICK h : Iter(h) /\ PastHeadings(words, a) = h[1 .. L]
  BY <1>6
<1> DEFINE f == [n \in 0 .. L |-> h[1 .. n]]
<1>8. f[0] = a
  <2>1. 1 .. 0 = {} /\ {} \in SUBSET (1 .. L) /\ 0 \in 0 .. L
    BY <1>1
  <2> HIDE DEF S, rel
  <2> QED BY <1>7, <2>1, <1>20
<1>9. ASSUME NEW n \in 0 .. L - 1 PROVE f[n + 1] = AtHeading(words, f[n], Places(Headings)[n + 1])
  <2>1. /\ 1 .. n + 1 \in SUBSET (1 .. L) /\ 1 .. n + 1 # {}
        /\ Max(1 .. n + 1) = n + 1 /\ (1 .. n + 1) \ {n + 1} = 1 .. n
    BY <1>1, UpTo
  <2>2. h[1 .. n + 1] = AtHeading(words, h[1 .. n], Places(Headings)[n + 1])
    <3>1. 1 .. n + 1 \in SUBSET (DOMAIN Places(Headings))
      BY <2>1, <1>20
    <3> HIDE DEF S, L, rel
    <3>2. h[1 .. n + 1] = AtHeading(words, h[1 .. n], Places(Headings)[n + 1])
      BY <1>7, <2>1, <3>1
    <3> QED BY <3>2
  <2>3. n \in 0 .. L /\ n + 1 \in 0 .. L
    BY <1>1
  <2> HIDE DEF S, L, rel, Iter
  <2> QED BY <2>2, <2>3
<1>10. PastHeadings(words, a) = f[L]
  <2>1. L \in 0 .. L
    BY <1>1
  <2> HIDE DEF L, S, rel, Iter
  <2> QED BY <1>7, <2>1
<1>11. f \in [0 .. L -> S]
  <2>1. ASSUME NEW n \in 0 .. L - 1, f[n] \in S PROVE f[n + 1] \in S
    <3>1. n + 1 \in 1 .. L
      BY <1>1
    <3> HIDE DEF f, S, L
    <3> QED BY <1>2, <1>9, <2>1, <3>1
  <2> HIDE DEF f, S, L
  <2>2. 0 .. L \subseteq {n \in 0 .. L : f[n] \in S}
    <3> DEFINE T == {n \in 0 .. L : f[n] \in S}
    <3>1. 0 \in T
      <4>1. f[0] \in S
        BY <1>1, <1>8
      <4>2. 0 \in 0 .. L
        BY <1>1
      <4> QED BY <4>1, <4>2
    <3>2. ASSUME NEW n \in 0 .. L - 1, n \in T PROVE n + 1 \in T
      <4>1. n + 1 \in 0 .. L
        BY <1>1
      <4> QED BY <2>1, <3>2, <4>1
    <3> HIDE DEF T
    <3>3. 0 .. L \subseteq T
      BY <1>1, <3>1, <3>2, BoundedInduction
    <3> QED BY <3>3 DEF T
  <2> QED BY <2>2 DEF f
<1> HIDE DEF f, S, rel, Iter
<1> QED BY <1>8, <1>9, <1>10, <1>11 DEF S, HeadLoop

\* So it does past the headings, and with a pair.
LEMMA ReadTyped ==
  ASSUME NEW words, NEW a \in Ats(words)
  PROVE  PastHeadings(words, a) \in Ats(words) /\ ReadEntry(words, a) \in Ats(words)
<1> DEFINE at == PastHeadings(words, a)
           T == Triples(words)
           SS == ToSet(Sections)
<1>1. at \in Ats(words)
  <2>1. PICK f \in [0 .. Len(Headings) -> Ats(words)] : HeadLoop(f, words, a) /\ at = f[Len(Headings)]
    BY HeadLoops
  <2>2. Len(Headings) \in 0 .. Len(Headings)
    BY DEF Headings
  <2> QED BY <2>1, <2>2
<1> HIDE DEF at
<1>2. at.i \in Nat /\ at.section \in SS /\ at.found \in SUBSET T /\ at \in [i : Nat, section : SS, found : SUBSET T]
  BY <1>1 DEF Ats
<1>3. <<at.section, words[at.i], words[at.i + 1]>> \in T
  <2>1. <<at.section, at.i>> \in SS \X Nat
    BY <1>2
  <2> QED BY <2>1 DEF Triples
<1> DEFINE t == <<at.section, words[at.i], words[at.i + 1]>>
           x == IF IsParameter(words[at.i]) THEN at.found ELSE at.found \cup {t}
<1>4. x \in SUBSET T
  <2>1. t \in T
    BY <1>3
  <2> HIDE DEF t, T
  <2> QED BY <1>2, <2>1
<1>5. ReadEntry(words, a) = IF a.i > Len(words) THEN a ELSE IF at.i > Len(words) THEN at ELSE [at EXCEPT !.i = @ + 2, !.found = x]
  BY <1>2 DEF ReadEntry, at
<1> HIDE DEF x, T, SS
<1>6. [at EXCEPT !.i = @ + 2, !.found = x] \in [i : Nat, section : SS, found : SUBSET T]
  <2> DEFINE u == at.i + 2
  <2>1. [at EXCEPT !.i = @ + 2, !.found = x] = [at EXCEPT !.i = u, !.found = x]
    BY <1>2
  <2>2. u \in Nat
    BY <1>2
  <2> HIDE DEF u
  <2> QED BY <1>2, <1>4, <2>1, <2>2
<1>7. Ats(words) = [i : Nat, section : SS, found : SUBSET T]
  BY DEF Ats, SS, T
<1>8. ReadEntry(words, a) \in Ats(words)
  BY <1>1, <1>5, <1>6, <1>7
<1> QED BY <1>1, <1>8 DEF at

\* It begins behind the first word.
LEMMA StartTyped ==
  ASSUME NEW words
  PROVE  [i |-> 2, section |-> Sections[1], found |-> {}] \in Ats(words)
<1>1. Sections[1] \in ToSet(Sections)
  BY HeadingFacts DEF Kinds
<1> DEFINE T == Triples(words)
           s == Sections[1]
           SS == ToSet(Sections)
<1>2. s \in SS
  BY <1>1
<1> HIDE DEF T, s, SS
<1>3. [i |-> 2, section |-> s, found |-> {}] \in [i : Nat, section : SS, found : SUBSET T]
  BY <1>2
<1> QED BY <1>3 DEF Ats, T, s, SS

\* Entries is a loop with as many turns as there are words.
LEMMA ReadLoops ==
  ASSUME NEW A, NEW words \in Seq(A)
  PROVE  \E f \in [0 .. Len(words) -> Ats(words)] : ReadLoop(f, words) /\ ReadAll(words) = f[Len(words)]
<1> DEFINE L == Len(words)
           S == Ats(words)
           rel == [p \in S \X (1 .. L) |-> ReadEntry(words, p[1])]
           Iter(g) == g = [s \in SUBSET (1 .. L) |->
             IF s = {} THEN [i |-> 2, section |-> Sections[1], found |-> {}]
             ELSE LET x == Max(s) IN ReadEntry(words, g[s \ {x}])]
<1>1. L \in Nat /\ DOMAIN words = 1 .. L /\ [i |-> 2, section |-> Sections[1], found |-> {}] \in S
  <2>1. L \in Nat /\ DOMAIN words = 1 .. L
    OBVIOUS
  <2>2. [i |-> 2, section |-> Sections[1], found |-> {}] \in S
    BY StartTyped
  <2> QED BY <2>1, <2>2
<1>2. ASSUME NEW acc \in S, NEW i \in 1 .. L PROVE ReadEntry(words, acc) \in S
  BY ReadTyped
<1>3. rel \in [S \X (1 .. L) -> S]
  <2> HIDE DEF S, L
  <2> QED BY <1>2
<1>4. PICK g \in [SUBSET (1 .. L) -> S] : Iterates(g, [i |-> 2, section |-> Sections[1], found |-> {}], L, rel)
  <2> HIDE DEF rel, L, S
  <2> QED BY <1>1, <1>3, IteratesExists
<1>5. Iter(g)
  <2>1. ASSUME NEW s \in SUBSET (1 .. L), s # {}
        PROVE  rel[<<g[s \ {Max(s)}], Max(s)>>] = ReadEntry(words, g[s \ {Max(s)}])
    <3>1. Max(s) \in 1 .. L
      BY <1>1, <2>1, MaxIn
    <3>2. g[s \ {Max(s)}] \in S
      OBVIOUS
    <3> HIDE DEF S, L
    <3> QED BY <3>1, <3>2
  <2> HIDE DEF rel, L, S
  <2> QED BY <1>4, <2>1  DEF Iterates
<1>6. \E h : Iter(h) /\ ReadAll(words) = h[1 .. L]
  <2>1. \E h : Iter(h)
    BY <1>5
  <2> HIDE DEF S, rel
  <2> QED BY <1>1, <2>1 DEF ReadAll, FoldLeft, MapThenFoldSet
<1>7. PICK h : Iter(h) /\ ReadAll(words) = h[1 .. L]
  BY <1>6
<1> DEFINE f == [n \in 0 .. L |-> h[1 .. n]]
<1>8. f[0] = [i |-> 2, section |-> Sections[1], found |-> {}]
  <2>1. 1 .. 0 = {} /\ {} \in SUBSET (1 .. L) /\ 0 \in 0 .. L
    BY <1>1
  <2> HIDE DEF S, rel
  <2> QED BY <1>7, <2>1
<1>9. ASSUME NEW n \in 0 .. L - 1 PROVE f[n + 1] = ReadEntry(words, f[n])
  <2>1. /\ 1 .. n + 1 \in SUBSET (1 .. L) /\ 1 .. n + 1 # {}
        /\ Max(1 .. n + 1) = n + 1 /\ (1 .. n + 1) \ {n + 1} = 1 .. n
    BY <1>1, UpTo
  <2>2. h[1 .. n + 1] = ReadEntry(words, h[1 .. n])
    <3>1. 1 .. n + 1 \in SUBSET (1 .. L)
      BY <2>1
    <3> HIDE DEF S, L, rel
    <3>2. h[1 .. n + 1] = ReadEntry(words, h[1 .. n])
      BY <1>7, <2>1, <3>1
    <3> QED BY <3>2
  <2>3. n \in 0 .. L /\ n + 1 \in 0 .. L
    BY <1>1
  <2> HIDE DEF S, L, rel, Iter
  <2> QED BY <2>2, <2>3
<1>10. ReadAll(words) = f[L]
  <2>1. L \in 0 .. L
    BY <1>1
  <2> HIDE DEF L, S, rel, Iter
  <2> QED BY <1>7, <2>1
<1>11. f \in [0 .. L -> S]
  <2>1. ASSUME NEW n \in 0 .. L - 1, f[n] \in S PROVE f[n + 1] \in S
    <3>1. n + 1 \in 1 .. L
      BY <1>1
    <3> HIDE DEF f, S, L
    <3> QED BY <1>2, <1>9, <2>1, <3>1
  <2> HIDE DEF f, S, L
  <2>2. 0 .. L \subseteq {n \in 0 .. L : f[n] \in S}
    <3> DEFINE T == {n \in 0 .. L : f[n] \in S}
    <3>1. 0 \in T
      <4>1. f[0] \in S
        BY <1>1, <1>8
      <4>2. 0 \in 0 .. L
        BY <1>1
      <4> QED BY <4>1, <4>2
    <3>2. ASSUME NEW n \in 0 .. L - 1, n \in T PROVE n + 1 \in T
      <4>1. n + 1 \in 0 .. L
        BY <1>1
      <4> QED BY <2>1, <3>2, <4>1
    <3> HIDE DEF T
    <3>3. 0 .. L \subseteq T
      BY <1>1, <3>1, <3>2, BoundedInduction
    <3> QED BY <3>3 DEF T
  <2> QED BY <2>2 DEF f
<1> HIDE DEF f, S, rel, Iter
<1> QED BY <1>8, <1>9, <1>10, <1>11 DEF S, ReadLoop

\* How far the reading is: behind the first j pairs of the section k; before
\* the first heading k is 0.
Size(app, k) == IF k = 0 THEN 0 ELSE Len(OfferOf(app, k))
Place(app, p, k, j) == IF k = 0 THEN 2 ELSE p[k] + Len(Headings[k]) + 2 * j
Pair(app, q) == <<Sections[q[1]], OfferOf(app, q[1])[q[2]][1], OfferOf(app, q[1])[q[2]][2]>>
Pairs(app) == {q \in Kinds \X Nat : q[2] \in 1 .. Len(OfferOf(app, q[1]))}
Before(q, k, j) == q[1] < k \/ (q[1] = k /\ q[2] <= j)
FoundBy(app, k, j) ==
  {Pair(app, q) : q \in {x \in Pairs(app) : Before(x, k, j) /\ OfferOf(app, x[1])[x[2]][1] \notin ParameterWords}}
Stands(a, app, p, k, j) ==
  /\ k \in 0 .. 6 /\ j \in 0 .. Size(app, k)
  /\ a.i = Place(app, p, k, j)
  /\ a.section = Sections[IF k = 0 THEN 1 ELSE k]
  /\ a.found = FoundBy(app, k, j)
Offering(app) == \A k \in Kinds : OfferOf(app, k) \in Seq((STRING \ Words) \X (STRING \ Words))

\* The numbers in a layout.
LEMMA SizeFacts ==
  ASSUME NEW app, Offering(app), NEW words, NEW p, Layout(words, app, p)
  PROVE  /\ \A k \in 0 .. 6 : Size(app, k) \in Nat /\ Place(app, p, k, Size(app, k)) = p[k + 1]
         /\ \A k \in Kinds : p[k] \in Nat \ {0} /\ p[k + 1] \in Nat \ {0} /\ p[k] < p[k + 1]
                             /\ Len(Headings[k]) \in {1, 2} /\ Size(app, k) = Len(OfferOf(app, k))
         /\ Len(words) \in Nat
<1>1. p \in [1 .. 7 -> Nat \ {0}] /\ p[1] = 2 /\ words \in Seq(Alphabet)
  BY DEF Layout
<1>2. ASSUME NEW k \in Kinds
      PROVE  /\ Size(app, k) = Len(OfferOf(app, k)) /\ Size(app, k) \in Nat
             /\ Place(app, p, k, Size(app, k)) = p[k + 1]
             /\ p[k] \in Nat \ {0} /\ p[k + 1] \in Nat \ {0} /\ p[k] < p[k + 1]
             /\ Len(Headings[k]) \in {1, 2}
  <2>1. k # 0 /\ k \in 1 .. 7 /\ k + 1 \in 1 .. 7
    BY DEF Kinds
  <2>2. Len(OfferOf(app, k)) \in Nat
    <3>1. OfferOf(app, k) \in Seq((STRING \ Words) \X (STRING \ Words))
      BY DEF Offering
    <3> QED BY <3>1
  <2>3. Len(Headings[k]) \in {1, 2}
    BY HeadingFacts
  <2>4. p[k + 1] = p[k] + Len(Headings[k]) + 2 * Len(OfferOf(app, k))
    BY DEF Layout
  <2>5. p[k] \in Nat \ {0} /\ p[k + 1] \in Nat \ {0}
    BY <1>1, <2>1
  <2>6. Size(app, k) = Len(OfferOf(app, k))
    BY <2>1 DEF Size
  <2>7. Place(app, p, k, Size(app, k)) = p[k] + Len(Headings[k]) + 2 * Len(OfferOf(app, k))
    BY <2>1, <2>6 DEF Place
  <2>8. p[k] < p[k + 1]
    <3> DEFINE a == p[k]
               b == Len(Headings[k])
               c == Len(OfferOf(app, k))
    <3>1. a \in Nat /\ (b = 1 \/ b = 2) /\ c \in Nat
      BY <2>2, <2>3, <2>5
    <3> HIDE DEF a, b, c
    <3>2. a < a + b + 2 * c
      BY <3>1
    <3> QED BY <2>4, <3>2 DEF a, b, c
  <2> QED BY <2>2, <2>3, <2>4, <2>5, <2>6, <2>7, <2>8
<1>3. Size(app, 0) = 0 /\ Place(app, p, 0, 0) = p[0 + 1]
  BY <1>1 DEF Size, Place
<1>4. \A k \in 0 .. 6 : k = 0 \/ k \in Kinds
  BY DEF Kinds
<1>5. Len(words) \in Nat
  BY <1>1
<1>6. \A k \in 0 .. 6 : Size(app, k) \in Nat /\ Place(app, p, k, Size(app, k)) = p[k + 1]
  <2> SUFFICES ASSUME NEW k \in 0 .. 6 PROVE Size(app, k) \in Nat /\ Place(app, p, k, Size(app, k)) = p[k + 1]
    OBVIOUS
  <2>1. CASE k = 0
    BY <1>3, <2>1
  <2>2. CASE k \in Kinds
    BY <1>2, <2>2
  <2> QED BY <1>4, <2>1, <2>2
<1> QED BY <1>2, <1>5, <1>6

\* No heading begins like another.
LEMMA HeadingsApart ==
  \A k, l \in Kinds : k # l =>
    \/ Headings[k][1] # Headings[l][1]
    \/ Len(Headings[k]) = 2 /\ Len(Headings[l]) = 2 /\ Headings[k][2] # Headings[l][2]
<1>1. /\ Headings[1] = <<"Subscribers:">> /\ Headings[2] = <<"Publishers:">>
      /\ Headings[3] = <<"Service", "Servers:">> /\ Headings[4] = <<"Service", "Clients:">>
      /\ Headings[5] = <<"Action", "Servers:">> /\ Headings[6] = <<"Action", "Clients:">>
  BY DEF Headings
<1>2. /\ Headings[1][1] = "Subscribers:" /\ Headings[2][1] = "Publishers:"
      /\ Headings[3][1] = "Service" /\ Headings[4][1] = "Service"
      /\ Headings[5][1] = "Action" /\ Headings[6][1] = "Action"
  BY <1>1
<1>3. /\ Headings[3][2] = "Servers:" /\ Headings[4][2] = "Clients:"
      /\ Headings[5][2] = "Servers:" /\ Headings[6][2] = "Clients:"
      /\ \A k \in {3, 4, 5, 6} : Len(Headings[k]) = 2
  BY <1>1
<1> HIDE DEF Headings
<1>4. \A k \in Kinds : k = 1 \/ k = 2 \/ k = 3 \/ k = 4 \/ k = 5 \/ k = 6
  BY DEF Kinds
<1> QED BY <1>2, <1>3, <1>4

\* A heading is found where it is, and only there.
LEMMA HeadingFound ==
  ASSUME NEW app, Offering(app), NEW words, NEW p, Layout(words, app, p), NEW l \in Kinds
  PROVE  /\ \A k \in Kinds : HeadingAt(words, p[k], l) <=> k = l
         /\ ~HeadingAt(words, Len(words) + 1, l)
         /\ \A k \in Kinds : \A j \in 0 .. Size(app, k) - 1 : ~HeadingAt(words, Place(app, p, k, j), l)
<1> DEFINE h == Headings[l]
           T == Words
<1>1. h \in Seq(T) /\ Len(h) \in {1, 2} /\ words \in Seq(Alphabet)
  BY HeadingFacts DEF Layout
<1>0. Len(h) = 1 \/ Len(h) = 2
  <2> HIDE DEF h, T
  <2> QED BY <1>1
<1>2. ASSUME NEW i \in Nat \ {0}
      PROVE  HeadingAt(words, i, l) <=>
               i + Len(h) - 1 <= Len(words) /\ \A x \in 1 .. Len(h) : words[i + x - 1] = h[x]
  <2>1. HeadingAt(words, i, l) <=> i + Len(h) - 1 <= Len(words) /\ SubSeq(words, i, i + Len(h) - 1) = h
    BY DEF HeadingAt
  <2> HIDE DEF h, T
  <2>2. CASE i + Len(h) - 1 <= Len(words)
    <3>1. Len(h) > 0
      BY <1>0
    <3>2. SubSeq(words, i, i + Len(h) - 1) = h <=> \A x \in 1 .. Len(h) : words[i + x - 1] = h[x]
      BY <1>1, <2>2, <3>1, SameAt
    <3> QED BY <2>1, <2>2, <3>2
  <2>3. CASE ~(i + Len(h) - 1 <= Len(words))
    BY <2>1, <2>3
  <2> QED BY <2>2, <2>3
<1>3. ASSUME NEW k \in Kinds PROVE HeadingAt(words, p[k], l) <=> k = l
  <2>1. p[k] \in Nat \ {0} /\ p[k + 1] \in Nat \ {0} /\ Len(Headings[k]) \in {1, 2}
    BY SizeFacts
  <2>2. \A i \in 1 .. Len(Headings[k]) : words[p[k] + i - 1] = Headings[k][i]
    BY DEF Layout
  <2>3. CASE k = l
    <3>1. p[k + 1] = p[k] + Len(h) + 2 * Size(app, k) /\ Size(app, k) \in Nat
      <4>1. Size(app, k) = Len(OfferOf(app, k))
        BY SizeFacts
      <4>2. \A x \in 0 .. 6 : Size(app, x) \in Nat
        BY SizeFacts
      <4>3. Size(app, k) \in Nat
        BY <4>2 DEF Kinds
      <4>4. p[k + 1] = p[k] + Len(Headings[k]) + 2 * Len(OfferOf(app, k))
        BY DEF Layout
      <4> QED BY <2>3, <4>1, <4>3, <4>4
    <3>2. p[k + 1] <= Len(words) + 1
      <4>1. p[7] = Len(words) + 1 /\ p[2] < p[3] /\ p[3] < p[4] /\ p[4] < p[5] /\ p[5] < p[6] /\ p[6] < p[7]
        <5>1. \A x \in Kinds : p[x] < p[x + 1]
          BY SizeFacts
        <5>2. p[7] = Len(words) + 1
          BY DEF Layout
        <5> QED BY <5>1, <5>2 DEF Kinds
      <4>2. \A x \in Kinds : p[x] \in Nat /\ p[x + 1] \in Nat
        BY SizeFacts
      <4>3. p[2] \in Nat /\ p[3] \in Nat /\ p[4] \in Nat /\ p[5] \in Nat /\ p[6] \in Nat /\ p[7] \in Nat
        BY <4>2 DEF Kinds
      <4>4. k = 1 \/ k = 2 \/ k = 3 \/ k = 4 \/ k = 5 \/ k = 6
        BY DEF Kinds
      <4> QED BY <4>1, <4>3, <4>4
    <3>3. Len(words) \in Nat
      BY SizeFacts
    <3>4. p[k] + Len(h) - 1 <= Len(words)
      BY <1>1, <2>1, <3>1, <3>2, <3>3
    <3> QED BY <1>2, <2>1, <2>2, <2>3, <3>4
  <2>4. CASE k # l
    <3> SUFFICES ASSUME HeadingAt(words, p[k], l) PROVE FALSE
      BY <2>4
    <3>1. \A x \in 1 .. Len(h) : words[p[k] + x - 1] = h[x]
      BY <1>2, <2>1
    <3>2. Headings[k][1] = h[1]
      <4>1. 1 \in 1 .. Len(h)
        BY <1>0
      <4>2. 1 \in 1 .. Len(Headings[k])
        <5>1. Len(Headings[k]) = 1 \/ Len(Headings[k]) = 2
          BY <2>1
        <5> QED BY <5>1
      <4>3. words[p[k] + 1 - 1] = h[1] /\ words[p[k] + 1 - 1] = Headings[k][1]
        BY <2>2, <3>1, <4>1, <4>2
      <4> QED BY <4>3
    <3>3. Len(h) = 2 /\ Len(Headings[k]) = 2 => Headings[k][2] = h[2]
      <4> SUFFICES ASSUME Len(h) = 2, Len(Headings[k]) = 2 PROVE Headings[k][2] = h[2]
        OBVIOUS
      <4>1. 2 \in 1 .. Len(h) /\ 2 \in 1 .. Len(Headings[k])
        OBVIOUS
      <4> QED BY <2>2, <3>1, <4>1
    <3> QED BY <2>4, <3>2, <3>3, HeadingsApart
  <2> QED BY <2>3, <2>4
<1>4. ~HeadingAt(words, Len(words) + 1, l)
  <2>1. Len(words) \in Nat
    BY SizeFacts
  <2>2. Len(words) + 1 \in Nat \ {0} /\ ~(Len(words) + 1 + Len(h) - 1 <= Len(words))
    <3> DEFINE a == Len(words)
               b == Len(h)
    <3>1. a \in Nat /\ (b = 1 \/ b = 2)
      BY <1>0, <2>1
    <3> HIDE DEF a, b
    <3>2. a + 1 \in Nat \ {0} /\ ~(a + 1 + b - 1 <= a)
      BY <3>1
    <3> QED BY <3>2 DEF a, b
  <2> QED BY <1>2, <2>2
<1>5. ASSUME NEW k \in Kinds, NEW j \in 0 .. Size(app, k) - 1
      PROVE  ~HeadingAt(words, Place(app, p, k, j), l)
  <2> DEFINE i == Place(app, p, k, j)
  <2>1. /\ Size(app, k) \in Nat /\ Size(app, k) = Len(OfferOf(app, k))
        /\ p[k] \in Nat \ {0} /\ Len(Headings[k]) \in {1, 2}
    <3>1. \A x \in 0 .. 6 : Size(app, x) \in Nat
      BY SizeFacts
    <3>2. Size(app, k) \in Nat
      BY <3>1 DEF Kinds
    <3> QED BY <3>2, SizeFacts
  <2>2. j + 1 \in 1 .. Len(OfferOf(app, k)) /\ j \in Nat
    BY <2>1
  <2>3. words[p[k] + Len(Headings[k]) + 2 * (j + 1) - 2] = OfferOf(app, k)[j + 1][1]
    BY <2>2 DEF Layout
  <2>4. i = p[k] + Len(Headings[k]) + 2 * (j + 1) - 2 /\ i \in Nat \ {0}
    <3>1. k # 0
      BY DEF Kinds
    <3> QED BY <2>1, <2>2, <3>1 DEF Place
  <2>5. OfferOf(app, k)[j + 1][1] \notin Words
    <3>1. OfferOf(app, k) \in Seq((STRING \ Words) \X (STRING \ Words))
      BY DEF Offering
    <3>2. OfferOf(app, k)[j + 1] \in (STRING \ Words) \X (STRING \ Words)
      BY <2>2, <3>1
    <3> QED BY <3>2
  <2>6. 1 \in 1 .. Len(h) /\ h[1] \in Words
    <3> HIDE DEF h
    <3>1. 1 \in 1 .. Len(h)
      BY <1>0
    <3> QED BY <1>1, <3>1
  <2> HIDE DEF h, i
  <2> SUFFICES ASSUME HeadingAt(words, i, l) PROVE FALSE
    BY DEF i
  <2>7. words[i + 1 - 1] = h[1] /\ i + 1 - 1 = i
    BY <1>2, <2>4, <2>6
  <2> QED BY <2>3, <2>4, <2>5, <2>6, <2>7
<1> QED BY <1>3, <1>4, <1>5

\* What is found grows with each pair.
LEMMA FoundSteps ==
  ASSUME NEW app, Offering(app)
  PROVE  /\ FoundBy(app, 0, 0) = {}
         /\ \A k \in 0 .. 5 : FoundBy(app, k, Size(app, k)) = FoundBy(app, k + 1, 0)
         /\ \A k \in Kinds : \A j \in 0 .. Size(app, k) - 1 :
              FoundBy(app, k, j + 1) =
                IF OfferOf(app, k)[j + 1][1] \in ParameterWords THEN FoundBy(app, k, j)
                ELSE FoundBy(app, k, j) \cup {Pair(app, <<k, j + 1>>)}
<1> DEFINE Good(x) == OfferOf(app, x[1])[x[2]][1] \notin ParameterWords
           Q(k, j) == {x \in Pairs(app) : Before(x, k, j) /\ Good(x)}
           F(x) == Pair(app, x)
<1>1. \A k, j : FoundBy(app, k, j) = {F(q) : q \in Q(k, j)}
  BY DEF FoundBy
<1>2. \A x \in Pairs(app) : x[1] \in Kinds /\ x[2] \in 1 .. Len(OfferOf(app, x[1])) /\ x[2] \in Nat \ {0} /\ x = <<x[1], x[2]>>
  <2> SUFFICES ASSUME NEW x \in Pairs(app)
               PROVE  x[1] \in Kinds /\ x[2] \in 1 .. Len(OfferOf(app, x[1])) /\ x[2] \in Nat \ {0} /\ x = <<x[1], x[2]>>
    OBVIOUS
  <2>1. x \in Kinds \X Nat /\ x[2] \in 1 .. Len(OfferOf(app, x[1]))
    BY DEF Pairs
  <2> QED BY <2>1
<1>3. \A k \in Kinds : Size(app, k) = Len(OfferOf(app, k)) /\ Size(app, k) \in Nat
  <2> SUFFICES ASSUME NEW k \in Kinds PROVE Size(app, k) = Len(OfferOf(app, k)) /\ Size(app, k) \in Nat
    OBVIOUS
  <2>1. OfferOf(app, k) \in Seq((STRING \ Words) \X (STRING \ Words)) /\ k # 0
    BY DEF Offering, Kinds
  <2> QED BY <2>1 DEF Size
<1> HIDE DEF Good, F
<1>4. FoundBy(app, 0, 0) = {}
  <2>1. \A x \in Pairs(app) : ~Before(x, 0, 0)
    BY <1>2 DEF Before, Kinds
  <2> QED BY <1>1, <2>1
<1>5. ASSUME NEW k \in 0 .. 5 PROVE FoundBy(app, k, Size(app, k)) = FoundBy(app, k + 1, 0)
  <2>1. ASSUME NEW x \in Pairs(app) PROVE Before(x, k, Size(app, k)) <=> Before(x, k + 1, 0)
    <3>1. x[1] \in 1 .. 6 /\ x[2] \in Nat \ {0}
      BY <1>2 DEF Kinds
    <3>2. x[1] = k => x[2] <= Size(app, k)
      <4> SUFFICES ASSUME x[1] = k PROVE x[2] <= Size(app, k)
        OBVIOUS
      <4>1. k \in Kinds
        BY <1>2
      <4> QED BY <1>2, <1>3, <4>1
    <3> QED BY <3>1, <3>2 DEF Before
  <2>2. Q(k, Size(app, k)) = Q(k + 1, 0)
    BY <2>1
  <2> QED BY <1>1, <2>2
<1>6. ASSUME NEW k \in Kinds, NEW j \in 0 .. Size(app, k) - 1
      PROVE  FoundBy(app, k, j + 1) =
                IF OfferOf(app, k)[j + 1][1] \in ParameterWords THEN FoundBy(app, k, j)
                ELSE FoundBy(app, k, j) \cup {Pair(app, <<k, j + 1>>)}
  <2> DEFINE n == <<k, j + 1>>
  <2>1. n \in Pairs(app) /\ n[1] = k /\ n[2] = j + 1
    <3>1. j + 1 \in 1 .. Len(OfferOf(app, k)) /\ j + 1 \in Nat
      BY <1>3
    <3> QED BY <3>1 DEF Pairs
  <2>2. ASSUME NEW x \in Pairs(app) PROVE Before(x, k, j + 1) <=> Before(x, k, j) \/ x = n
    <3>1. x[1] \in 1 .. 6 /\ x[2] \in Nat \ {0} /\ x = <<x[1], x[2]>>
      BY <1>2 DEF Kinds
    <3>2. j \in Nat /\ k \in 1 .. 6
      BY <1>3 DEF Kinds
    <3> QED BY <3>1, <3>2, <2>1 DEF Before
  <2>3. Good(n) <=> OfferOf(app, k)[j + 1][1] \notin ParameterWords
    BY <2>1 DEF Good
  <2> HIDE DEF n
  <2>4. CASE Good(n)
    <3>1. Q(k, j + 1) = Q(k, j) \cup {n}
      BY <2>1, <2>2, <2>4
    <3>2. FoundBy(app, k, j + 1) = FoundBy(app, k, j) \cup {F(n)}
      BY <1>1, <3>1
    <3> QED BY <2>3, <2>4, <3>2 DEF F, n
  <2>5. CASE ~Good(n)
    <3>1. Q(k, j + 1) = Q(k, j)
      BY <2>1, <2>2, <2>5
    <3> QED BY <1>1, <2>3, <2>5, <3>1
  <2> QED BY <2>4, <2>5
<1> QED BY <1>4, <1>5, <1>6

\* Behind the last pair everything is found.
LEMMA FoundAll ==
  ASSUME NEW app, Offering(app), DOMAIN app.offers = ToSet(Sections)
  PROVE  FoundBy(app, 6, Size(app, 6)) = Offers(app)
<1> DEFINE Good(x) == OfferOf(app, x[1])[x[2]][1] \notin ParameterWords
           found == FoundBy(app, 6, Size(app, 6))
<1>1. ASSUME NEW x \in Pairs(app)
      PROVE  /\ x[1] \in Kinds /\ x[2] \in 1 .. Len(OfferOf(app, x[1])) /\ Before(x, 6, Size(app, 6))
             /\ OfferOf(app, x[1]) \in Seq((STRING \ Words) \X (STRING \ Words))
  <2>1. x \in Kinds \X Nat /\ x[2] \in 1 .. Len(OfferOf(app, x[1]))
    BY DEF Pairs
  <2>2. x[1] \in Kinds
    BY <2>1
  <2>3. x[1] = 6 => x[2] <= Size(app, 6)
    <3>1. Size(app, 6) = Len(OfferOf(app, 6))
      BY DEF Size
    <3>2. OfferOf(app, 6) \in Seq((STRING \ Words) \X (STRING \ Words))
      BY DEF Offering, Kinds
    <3>3. Len(OfferOf(app, 6)) \in Nat
      BY <3>2
    <3> QED BY <2>1, <3>1, <3>3
  <2>4. Before(x, 6, Size(app, 6))
    BY <2>2, <2>3 DEF Before, Kinds
  <2> QED BY <2>1, <2>2, <2>4 DEF Offering
<1>2. found \subseteq Offers(app)
  <2> SUFFICES ASSUME NEW x \in Pairs(app), Good(x) PROVE Pair(app, x) \in Offers(app)
    BY DEF FoundBy
  <2> DEFINE s == Sections[x[1]]
             o == OfferOf(app, x[1])[x[2]]
  <2>1. s \in ToSet(Sections) /\ o \in ToSet(app.offers[s])
    <3>1. Sections[x[1]] \in ToSet(Sections)
      BY <1>1, HeadingFacts
    <3>2. OfferOf(app, x[1])[x[2]] \in ToSet(OfferOf(app, x[1]))
      <4>1. DOMAIN OfferOf(app, x[1]) = 1 .. Len(OfferOf(app, x[1]))
        BY <1>1
      <4> QED BY <1>1, <4>1 DEF ToSet
    <3> QED BY <3>1, <3>2 DEF OfferOf
  <2>2. Pair(app, x) = <<s, o[1], o[2]>>
    BY DEF Pair
  <2>3. o[1] \notin ParameterWords
    OBVIOUS
  <2> HIDE DEF s, o
  <2>4. <<s, o[1], o[2]>> \in Offered(app)
    BY <2>1 DEF Offered
  <2> QED BY <2>2, <2>3, <2>4 DEF Offers
<1>3. Offers(app) \subseteq found
  <2> SUFFICES ASSUME NEW t \in Offers(app) PROVE t \in found
    OBVIOUS
  <2>1. PICK s \in ToSet(Sections) : \E o \in ToSet(app.offers[s]) : t = <<s, o[1], o[2]>>
    BY DEF Offers, Offered
  <2>2. PICK o \in ToSet(app.offers[s]) : t = <<s, o[1], o[2]>>
    BY <2>1
  <2>3. o[1] \notin ParameterWords
    BY <2>2 DEF Offers
  <2>4. PICK k \in Kinds : s = Sections[k]
    <3>1. \E k \in DOMAIN Sections : s = Sections[k]
      BY <2>1 DEF ToSet
    <3> QED BY <3>1, HeadingFacts
  <2>5. PICK j \in 1 .. Len(OfferOf(app, k)) : o = OfferOf(app, k)[j]
    <3>1. OfferOf(app, k) = app.offers[s]
      BY <2>4 DEF OfferOf
    <3>2. \E j \in DOMAIN OfferOf(app, k) : o = OfferOf(app, k)[j]
      BY <2>2, <3>1 DEF ToSet
    <3>3. DOMAIN OfferOf(app, k) = 1 .. Len(OfferOf(app, k))
      <4>1. OfferOf(app, k) \in Seq((STRING \ Words) \X (STRING \ Words))
        BY DEF Offering
      <4> QED BY <4>1
    <3> QED BY <3>2, <3>3
  <2> DEFINE x == <<k, j>>
  <2>6. x \in Pairs(app) /\ x[1] = k /\ x[2] = j
    BY <2>5 DEF Pairs
  <2>7. Pair(app, x) = t /\ Good(x)
    BY <2>2, <2>3, <2>4, <2>5, <2>6 DEF Pair
  <2> HIDE DEF x
  <2> QED BY <1>1, <2>6, <2>7 DEF FoundBy
<1> QED BY <1>2, <1>3

\* A heading moves the reading only if it is the next one and right there.
LEMMA HeadStep ==
  ASSUME NEW app, Offering(app), NEW words, NEW p, Layout(words, app, p), NEW l \in Kinds,
         NEW at \in Ats(words), NEW k \in 0 .. 6, NEW j \in Nat, Stands(at, app, p, k, j)
  PROVE  IF j = Size(app, k) /\ l = k + 1
         THEN Stands(AtHeading(words, at, l), app, p, l, 0) /\ AtHeading(words, at, l).i >= at.i
         ELSE AtHeading(words, at, l) = at
<1>1. /\ Size(app, k) \in Nat /\ Place(app, p, k, Size(app, k)) = p[k + 1] /\ j \in 0 .. Size(app, k)
      /\ at.i = Place(app, p, k, j)
  BY SizeFacts DEF Stands
<1>2. CASE j # Size(app, k)
  <2>1. k \in Kinds /\ j \in 0 .. Size(app, k) - 1
    <3>1. k = 0 => Size(app, k) = 0
      BY DEF Size
    <3> QED BY <1>1, <1>2, <3>1 DEF Kinds
  <2>2. ~HeadingAt(words, at.i, l)
    BY <1>1, <2>1, HeadingFound
  <2> QED BY <1>2, <2>2 DEF AtHeading
<1>3. CASE j = Size(app, k) /\ k = 6
  <2>1. at.i = Len(words) + 1
    BY <1>1, <1>3 DEF Layout
  <2>2. ~HeadingAt(words, at.i, l)
    BY <2>1, HeadingFound
  <2>3. l # k + 1
    BY <1>3 DEF Kinds
  <2> QED BY <2>2, <2>3 DEF AtHeading
<1>4. CASE j = Size(app, k) /\ k # 6
  <2>1. k + 1 \in Kinds /\ at.i = p[k + 1]
    BY <1>1, <1>4 DEF Kinds
  <2>2. HeadingAt(words, at.i, l) <=> k + 1 = l
    BY <2>1, HeadingFound
  <2>3. CASE l # k + 1
    BY <2>2, <2>3 DEF AtHeading
  <2>4. CASE l = k + 1
    <3> DEFINE n == Len(Headings[l])
               s == Sections[l]
               next == AtHeading(words, at, l)
               u == at.i + n
    <3>1. next = [at EXCEPT !.i = @ + n, !.section = s]
      BY <2>2, <2>4 DEF AtHeading
    <3>2. at \in [i : Nat, section : ToSet(Sections), found : SUBSET Triples(words)]
      BY DEF Ats
    <3>3. n \in {1, 2} /\ at.i \in Nat
      BY <3>2, HeadingFacts
    <3> HIDE DEF n, s, next
    <3>4. next = [at EXCEPT !.i = u, !.section = s]
      BY <3>1, <3>2
    <3>5. u \in Nat /\ u >= at.i
      BY <3>3
    <3> HIDE DEF u
    <3>6. next.i = u /\ next.section = s /\ next.found = at.found
      BY <3>2, <3>4
    <3>7. u = Place(app, p, l, 0)
      <4>1. l # 0
        BY DEF Kinds
      <4>2. p[l] = at.i
        BY <2>1, <2>4
      <4>3. Place(app, p, l, 0) = at.i + n + 2 * 0
        BY <4>1, <4>2 DEF Place, n
      <4> QED BY <3>3, <4>3 DEF u
    <3>8. next.found = FoundBy(app, l, 0)
      <4>1. at.found = FoundBy(app, k, Size(app, k))
        BY <1>4 DEF Stands
      <4>2. k \in 0 .. 5
        BY <1>4
      <4> QED BY <2>4, <3>6, <4>1, <4>2, FoundSteps
    <3>9. l \in 0 .. 6 /\ 0 \in 0 .. Size(app, l) /\ l # 0
      <4>1. l \in 0 .. 6 /\ l # 0
        BY DEF Kinds
      <4>2. Size(app, l) \in Nat
        BY <4>1, SizeFacts
      <4> QED BY <4>1, <4>2
    <3>10. Stands(next, app, p, l, 0)
      BY <3>6, <3>7, <3>8, <3>9 DEF Stands, s
    <3> QED BY <1>4, <2>4, <3>5, <3>6, <3>10 DEF next
  <2> QED BY <2>3, <2>4
<1> QED BY <1>2, <1>3, <1>4

\* Past the headings the reading is at a pair, or at the end.
LEMMA PastStands ==
  ASSUME NEW app, Offering(app), NEW words, NEW p, Layout(words, app, p),
         NEW a \in Ats(words), NEW k \in 0 .. 6, NEW j \in Nat, Stands(a, app, p, k, j)
  PROVE  \E k2 \in 0 .. 6, j2 \in Nat :
           /\ Stands(PastHeadings(words, a), app, p, k2, j2)
           /\ j2 < Size(app, k2) \/ k2 = 6
           /\ PastHeadings(words, a).i >= a.i
<1>1. PICK g \in [0 .. Len(Headings) -> Ats(words)] :
        HeadLoop(g, words, a) /\ PastHeadings(words, a) = g[Len(Headings)]
  BY HeadLoops
<1>2. Len(Headings) = 6 /\ \A l \in 1 .. 6 : Places(Headings)[l] = l
  <2>1. DOMAIN Headings = 1 .. 6
    BY HeadingFacts DEF Kinds
  <2>2. Len(Headings) = 6
    BY DEF Headings
  <2> QED BY <2>1, <2>2 DEF Places
<1> DEFINE G == {l \in 0 .. 6 : \E k2 \in 0 .. 6, j2 \in Nat :
                  Stands(g[l], app, p, k2, j2) /\ (j2 < Size(app, k2) \/ k2 >= l) /\ g[l].i >= a.i}
<1>3. \A l \in 0 .. 6 : g[l] \in Ats(words) /\ g[l].i \in Nat
  <2>1. \A l \in 0 .. 6 : g[l] \in Ats(words)
    BY <1>1, <1>2
  <2> QED BY <2>1 DEF Ats
<1>4. 0 \in G
  <2>1. g[0] = a /\ a.i \in Nat
    BY <1>1, <1>3 DEF HeadLoop
  <2>2. k >= 0 /\ a.i >= a.i
    BY <2>1
  <2> QED BY <2>1, <2>2
<1>5. ASSUME NEW l \in 0 .. 6 - 1, l \in G PROVE l + 1 \in G
  <2>1. PICK k2 \in 0 .. 6, j2 \in Nat :
          Stands(g[l], app, p, k2, j2) /\ (j2 < Size(app, k2) \/ k2 >= l) /\ g[l].i >= a.i
    BY <1>5
  <2>2. g[l + 1] = AtHeading(words, g[l], l + 1)
    <3>1. l \in 0 .. Len(Headings) - 1 /\ l + 1 \in 1 .. 6
      BY <1>2
    <3>2. g[l + 1] = AtHeading(words, g[l], Places(Headings)[l + 1])
      BY <1>1, <3>1 DEF HeadLoop
    <3> QED BY <1>2, <3>1, <3>2
  <2>3. l + 1 \in Kinds /\ l \in 0 .. 6 /\ l + 1 \in 0 .. 6
    BY DEF Kinds
  <2>4. IF j2 = Size(app, k2) /\ l + 1 = k2 + 1
        THEN Stands(g[l + 1], app, p, l + 1, 0) /\ g[l + 1].i >= g[l].i
        ELSE g[l + 1] = g[l]
    <3> DEFINE at == g[l]
    <3>1. at \in Ats(words) /\ Stands(at, app, p, k2, j2)
      BY <1>3, <2>1, <2>3
    <3>2. at = g[l]
      OBVIOUS
    <3> HIDE DEF at
    <3>3. IF j2 = Size(app, k2) /\ l + 1 = k2 + 1
          THEN Stands(AtHeading(words, at, l + 1), app, p, l + 1, 0) /\ AtHeading(words, at, l + 1).i >= at.i
          ELSE AtHeading(words, at, l + 1) = at
      BY <2>3, <3>1, HeadStep
    <3> QED BY <2>2, <3>2, <3>3
  <2>5. Size(app, k2) \in Nat /\ j2 \in 0 .. Size(app, k2)
    BY <2>1, SizeFacts DEF Stands
  <2>6. g[l].i \in Nat /\ g[l + 1].i \in Nat /\ a.i \in Nat
    BY <1>3, <2>3 DEF Ats
  <2>7. CASE j2 = Size(app, k2) /\ l + 1 = k2 + 1
    <3>1. Stands(g[l + 1], app, p, l + 1, 0) /\ g[l + 1].i >= a.i
      BY <2>1, <2>4, <2>6, <2>7
    <3>2. l + 1 >= l + 1 /\ 0 \in Nat
      OBVIOUS
    <3> QED BY <2>3, <3>1, <3>2
  <2>8. CASE ~(j2 = Size(app, k2) /\ l + 1 = k2 + 1)
    <3>1. g[l + 1] = g[l]
      BY <2>4, <2>8
    <3>2. j2 < Size(app, k2) \/ k2 >= l + 1
      BY <2>1, <2>5, <2>8
    <3> QED BY <2>1, <2>3, <3>1, <3>2
  <2> QED BY <2>7, <2>8
<1>6. 6 \in G
  <2> HIDE DEF G
  <2>1. 0 .. 6 \subseteq G
    BY <1>4, <1>5, BoundedInduction
  <2> QED BY <2>1
<1>7. PICK k2 \in 0 .. 6, j2 \in Nat :
        Stands(g[6], app, p, k2, j2) /\ (j2 < Size(app, k2) \/ k2 >= 6) /\ g[6].i >= a.i
  BY <1>6
<1>8. k2 >= 6 => k2 = 6
  OBVIOUS
<1> QED BY <1>1, <1>2, <1>7, <1>8

\* Each reading takes a pair, or is at the end.
LEMMA ReadStands ==
  ASSUME NEW app, Offering(app), NEW words, NEW p, Layout(words, app, p),
         NEW a \in Ats(words), NEW k \in 0 .. 6, NEW j \in Nat, Stands(a, app, p, k, j)
  PROVE  \E k2 \in 0 .. 6, j2 \in Nat :
           /\ Stands(ReadEntry(words, a), app, p, k2, j2)
           /\ ReadEntry(words, a).i >= a.i + 2 \/ ReadEntry(words, a).i > Len(words)
<1> DEFINE at == PastHeadings(words, a)
           next == ReadEntry(words, a)
<1>1. PICK k2 \in 0 .. 6, j2 \in Nat :
        Stands(at, app, p, k2, j2) /\ (j2 < Size(app, k2) \/ k2 = 6) /\ at.i >= a.i
  BY PastStands
<1>2. at \in Ats(words) /\ at.i \in Nat /\ a.i \in Nat /\ Len(words) \in Nat
  <2>1. at \in Ats(words)
    BY ReadTyped
  <2> HIDE DEF at
  <2> QED BY <2>1, SizeFacts DEF Ats
<1>3. CASE a.i > Len(words)
  BY <1>3 DEF ReadEntry
<1>4. CASE ~(a.i > Len(words)) /\ at.i > Len(words)
  <2>1. next = at
    BY <1>4 DEF ReadEntry
  <2> QED BY <1>1, <1>4, <2>1
<1>5. CASE ~(a.i > Len(words)) /\ ~(at.i > Len(words))
  <2> DEFINE x == IF IsParameter(words[at.i]) THEN at.found
                  ELSE at.found \cup {<<at.section, words[at.i], words[at.i + 1]>>}
             u == at.i + 2
  <2>1. next = [at EXCEPT !.i = @ + 2, !.found = x]
    <3>1. at = PastHeadings(words, a)
      OBVIOUS
    <3> HIDE DEF at
    <3> QED BY <1>5, <3>1 DEF ReadEntry
  <2>2. /\ Size(app, k2) \in Nat /\ Place(app, p, k2, Size(app, k2)) = p[k2 + 1]
        /\ j2 \in 0 .. Size(app, k2) /\ at.i = Place(app, p, k2, j2)
        /\ at.section = Sections[IF k2 = 0 THEN 1 ELSE k2] /\ at.found = FoundBy(app, k2, j2)
    <3> HIDE DEF at
    <3>1. Size(app, k2) \in Nat /\ Place(app, p, k2, Size(app, k2)) = p[k2 + 1]
      BY SizeFacts
    <3>2. Stands(at, app, p, k2, j2)
      BY <1>1
    <3> QED BY <3>1, <3>2 DEF Stands
  <2> HIDE DEF at
  <2>3. j2 \in 0 .. Size(app, k2) - 1
    <3>1. CASE k2 = 6 /\ j2 = Size(app, k2)
      <4>1. at.i = Len(words) + 1
        BY <2>2, <3>1 DEF Layout
      <4> QED BY <1>2, <1>5, <4>1
    <3> QED BY <1>1, <2>2, <3>1
  <2>4. k2 \in Kinds /\ k2 # 0
    <3>1. k2 # 0
      BY <2>3 DEF Size
    <3> QED BY <3>1 DEF Kinds
  <2>5. at \in [i : Nat, section : ToSet(Sections), found : SUBSET Triples(words)]
    BY <1>2 DEF Ats
  <2> DEFINE o == OfferOf(app, k2)[j2 + 1]
  <2>6. words[at.i] = o[1] /\ words[at.i + 1] = o[2] /\ u = Place(app, p, k2, j2 + 1)
    <3> DEFINE q == p[k2]
               b == Len(Headings[k2])
    <3>1. q \in Nat /\ b \in {1, 2} /\ Size(app, k2) = Len(OfferOf(app, k2))
      BY <2>4, SizeFacts
    <3>2. at.i = q + b + 2 * j2 /\ Place(app, p, k2, j2 + 1) = q + b + 2 * (j2 + 1)
      BY <2>2, <2>4 DEF Place
    <3>3. j2 + 1 \in 1 .. Len(OfferOf(app, k2))
      BY <2>2, <2>3, <3>1
    <3>4. words[q + b + 2 * (j2 + 1) - 2] = o[1] /\ words[q + b + 2 * (j2 + 1) - 1] = o[2]
      BY <2>4, <3>3 DEF Layout
    <3> HIDE DEF q, b, o
    <3>5. /\ q + b + 2 * (j2 + 1) - 2 = at.i /\ q + b + 2 * (j2 + 1) - 1 = at.i + 1
          /\ u = q + b + 2 * (j2 + 1)
      BY <3>1, <3>2
    <3> QED BY <3>2, <3>4, <3>5
  <2>7. x = FoundBy(app, k2, j2 + 1)
    <3>1. FoundBy(app, k2, j2 + 1) =
            IF o[1] \in ParameterWords THEN FoundBy(app, k2, j2)
            ELSE FoundBy(app, k2, j2) \cup {Pair(app, <<k2, j2 + 1>>)}
      <4>1. \A y \in Kinds : \A z \in 0 .. Size(app, y) - 1 :
              FoundBy(app, y, z + 1) =
                IF OfferOf(app, y)[z + 1][1] \in ParameterWords THEN FoundBy(app, y, z)
                ELSE FoundBy(app, y, z) \cup {Pair(app, <<y, z + 1>>)}
        BY FoundSteps
      <4> QED BY <2>3, <2>4, <4>1
    <3>2. Pair(app, <<k2, j2 + 1>>) = <<Sections[k2], o[1], o[2]>>
      BY DEF Pair
    <3>3. <<at.section, words[at.i], words[at.i + 1]>> = <<Sections[k2], o[1], o[2]>>
      BY <2>2, <2>4, <2>6
    <3>4. IsParameter(words[at.i]) <=> o[1] \in ParameterWords
      BY <2>6 DEF IsParameter
    <3> HIDE DEF o
    <3> QED BY <2>2, <3>1, <3>2, <3>3, <3>4
  <2> HIDE DEF next, x, o
  <2>8. next = [at EXCEPT !.i = u, !.found = x]
    BY <2>1, <2>5
  <2>9. u \in Nat /\ u >= a.i + 2
    BY <1>1, <1>2 DEF at
  <2> HIDE DEF u
  <2>10. next.i = u /\ next.section = at.section /\ next.found = x
    BY <2>5, <2>8
  <2>11. j2 + 1 \in 0 .. Size(app, k2) /\ j2 + 1 \in Nat
    BY <2>2, <2>3
  <2>12. Stands(next, app, p, k2, j2 + 1)
    BY <2>2, <2>6, <2>7, <2>10, <2>11 DEF Stands
  <2> QED BY <2>9, <2>10, <2>11, <2>12 DEF next
<1> QED BY <1>3, <1>4, <1>5

\* What is read from the answer of a node is what the node offers.
LEMMA EntriesExact ==
  ASSUME version \in DOMAIN Apps, NEW n \in Nodes
  PROVE  Entries(InfoWords(n)) = Offers(Apps[version][n])
<1> DEFINE app == Apps[version][n]
           words == InfoWords(n)
<1>1. PICK p : Layout(words, app, p)
  BY InfoLayout
<1>2. Offering(app) /\ DOMAIN app.offers = ToSet(Sections)
  <2>1. Apps[version] \in App
    BY DiscoveryAssumption
  <2> QED BY <2>1, OfferIs DEF App, Offering
<1> HIDE DEF app, words
<1>3. words \in Seq(Alphabet) /\ Len(words) \in Nat
  BY <1>1 DEF Layout
<1> DEFINE L == Len(words)
<1>4. PICK f \in [0 .. L -> Ats(words)] : ReadLoop(f, words) /\ ReadAll(words) = f[L]
  BY <1>3, ReadLoops
<1> DEFINE G == {t \in 0 .. L : (\E k \in 0 .. 6, j \in Nat : Stands(f[t], app, p, k, j))
                                 /\ (f[t].i >= 2 + t \/ f[t].i > L)}
<1>5. \A t \in 0 .. L : f[t] \in Ats(words) /\ f[t].i \in Nat
  <2>1. \A t \in 0 .. L : f[t] \in Ats(words)
    BY <1>4
  <2> QED BY <2>1 DEF Ats
<1>6. 0 \in G
  <2>1. f[0] = [i |-> 2, section |-> Sections[1], found |-> {}]
    BY <1>4 DEF ReadLoop
  <2>2. f[0].i = 2 /\ f[0].section = Sections[1] /\ f[0].found = {}
    BY <2>1
  <2>3. Stands(f[0], app, p, 0, 0)
    BY <1>2, <2>2, FoundSteps DEF Stands, Size, Place
  <2>4. 0 \in 0 .. L /\ 0 \in 0 .. 6 /\ 0 \in Nat
    BY <1>3
  <2> QED BY <2>2, <2>3, <2>4
<1>7. ASSUME NEW t \in 0 .. L - 1, t \in G PROVE t + 1 \in G
  <2>1. PICK k \in 0 .. 6, j \in Nat : Stands(f[t], app, p, k, j)
    BY <1>7
  <2>2. t \in 0 .. L /\ t + 1 \in 0 .. L /\ f[t + 1] = ReadEntry(words, f[t])
    BY <1>3, <1>4 DEF ReadLoop
  <2> DEFINE a == f[t]
             b == f[t + 1]
  <2>3. a \in Ats(words) /\ Stands(a, app, p, k, j) /\ b = ReadEntry(words, a)
    BY <1>5, <2>1, <2>2
  <2>4. a.i \in Nat /\ b.i \in Nat
    BY <1>5, <2>2
  <2>5. a.i >= 2 + t \/ a.i > L
    BY <1>7
  <2> HIDE DEF a, b
  <2>6. \E k2 \in 0 .. 6, j2 \in Nat :
           Stands(b, app, p, k2, j2) /\ (b.i >= a.i + 2 \/ b.i > L)
    BY <1>1, <1>2, <2>3, ReadStands
  <2>7. b.i >= 2 + (t + 1) \/ b.i > L
    BY <1>3, <2>4, <2>5, <2>6
  <2>8. \E k2 \in 0 .. 6, j2 \in Nat : Stands(b, app, p, k2, j2)
    BY <2>6
  <2> QED BY <2>2, <2>7, <2>8 DEF b
<1>8. PICK k \in 0 .. 6, j \in Nat : Stands(f[L], app, p, k, j) /\ f[L].i > L
  <2>1. 0 .. L \subseteq G
    <3> HIDE DEF G
    <3> QED BY <1>3, <1>6, <1>7, BoundedInduction
  <2>2. L \in G /\ L \in 0 .. L
    <3> HIDE DEF G
    <3> QED BY <1>3, <2>1
  <2>3. f[L].i > L
    <3>1. f[L].i >= 2 + L \/ f[L].i > L
      BY <2>2
    <3>2. f[L].i \in Nat
      BY <1>5, <2>2
    <3> QED BY <1>3, <3>1, <3>2
  <2> QED BY <2>2, <2>3
<1>9. k = 6 /\ j = Size(app, 6)
  <2>1. /\ Size(app, k) \in Nat /\ Place(app, p, k, Size(app, k)) = p[k + 1]
        /\ j \in 0 .. Size(app, k) /\ f[L].i = Place(app, p, k, j)
    BY <1>1, <1>2, <1>8, SizeFacts DEF Stands
  <2>2. /\ p[2] < p[3] /\ p[3] < p[4] /\ p[4] < p[5] /\ p[5] < p[6] /\ p[6] < p[7] /\ p[1] < p[2]
        /\ p[1] \in Nat /\ p[2] \in Nat /\ p[3] \in Nat /\ p[4] \in Nat /\ p[5] \in Nat /\ p[6] \in Nat
        /\ p[7] = L + 1
    <3>1. \A x \in Kinds : p[x] < p[x + 1] /\ p[x] \in Nat
      BY <1>1, <1>2, SizeFacts
    <3>2. p[7] = L + 1
      BY <1>1 DEF Layout
    <3> QED BY <3>1, <3>2 DEF Kinds
  <2>3. CASE k = 0
    <3>1. p[k + 1] <= L
      BY <1>3, <2>2, <2>3
    <3>2. j = Size(app, k)
      BY <2>1, <2>3 DEF Size
    <3> QED BY <1>3, <1>8, <2>1, <2>2, <2>3, <3>1, <3>2
  <2>4. CASE k # 0
    <3> DEFINE q == p[k]
               b == Len(Headings[k])
               m == Size(app, k)
    <3>1. q \in Nat /\ b \in {1, 2} /\ m \in Nat
      <4>1. k \in Kinds
        BY <2>4 DEF Kinds
      <4> QED BY <1>1, <1>2, <2>1, <4>1, SizeFacts
    <3>2. f[L].i = q + b + 2 * j /\ p[k + 1] = q + b + 2 * m /\ j \in 0 .. m
      BY <2>1, <2>4 DEF Place
    <3>3. k # 6 => p[k + 1] <= L
      <4>1. k = 1 \/ k = 2 \/ k = 3 \/ k = 4 \/ k = 5 \/ k = 6
        BY <2>4
      <4>2. \A x \in {2, 3, 4, 5, 6} : p[x] <= L
        <5> DEFINE p2 == p[2] p3 == p[3] p4 == p[4] p5 == p[5] p6 == p[6]
        <5>1. /\ p2 \in Nat /\ p3 \in Nat /\ p4 \in Nat /\ p5 \in Nat /\ p6 \in Nat
              /\ p2 < p3 /\ p3 < p4 /\ p4 < p5 /\ p5 < p6 /\ p6 < L + 1
          BY <2>2
        <5> HIDE DEF p2, p3, p4, p5, p6
        <5>2. p2 <= L /\ p3 <= L /\ p4 <= L /\ p5 <= L /\ p6 <= L
          BY <1>3, <5>1
        <5> QED BY <5>2 DEF p2, p3, p4, p5, p6
      <4>3. k # 6 => k + 1 \in {2, 3, 4, 5, 6}
        BY <4>1
      <4> QED BY <4>2, <4>3
    <3> HIDE DEF q, b, m
    <3>4. k = 6
      BY <1>3, <1>8, <3>1, <3>2, <3>3
    <3>5. p[k + 1] = L + 1
      BY <2>2, <3>4
    <3>6. j = m
      BY <1>3, <1>8, <3>1, <3>2, <3>5
    <3> QED BY <3>4, <3>6 DEF m
  <2> QED BY <2>3, <2>4
<1>10. f[L].found = Offers(app)
  <2>1. f[L].found = FoundBy(app, 6, Size(app, 6))
    BY <1>8, <1>9 DEF Stands
  <2> QED BY <1>2, <2>1, FoundAll
<1>11. Entries(words) = f[L].found
  BY <1>4 DEF Entries, ReadAll
<1> QED BY <1>10, <1>11 DEF app, words

-----------------------------------------------------------------------------
(* What is read is what is declared                                         *)

\* What is kept of a line.
KeptOf(l) ==
  LET a == Word(l.type, l.size, FALSE, TRUE)
      b == Word(l.name, -1, FALSE, l.alpha) IN
  CASE l.kind \in {"field", "noted"} -> <<a, b>>
    [] l.kind = "default" -> <<a, b, Digit("5")>>
    [] l.kind = "spaced" -> <<a, b, Plain("="), Digit("1")>>
    [] l.kind = "tight" -> <<a, Digit("A=1")>>
    [] l.kind = "comment" -> << >>
    [] l.kind = "dashes" -> <<Digit("---")>>
    [] l.kind = "nested" -> <<Word(l.type, l.size, TRUE, TRUE), b>>

\* The kinds of lines.
LEMMA KindsOfLine ==
  ASSUME NEW l \in InterfaceLine
  PROVE  /\ \/ l.kind = "field" \/ l.kind = "noted" \/ l.kind = "default" \/ l.kind = "spaced"
            \/ l.kind = "tight" \/ l.kind = "comment" \/ l.kind = "dashes" \/ l.kind = "nested"
         /\ l.type \in STRING \ Signs /\ l.name \in STRING \ Signs
         /\ l.size \in Nat \cup {-1} /\ l.alpha \in BOOLEAN
BY DEF InterfaceLine

\* Short sequences, word by word.
LEMMA FewWords ==
  ASSUME NEW S, NEW a \in S, NEW b \in S, NEW c \in S, NEW d \in S
  PROVE  /\ <<a>> \in Seq(S) /\ Len(<<a>>) = 1 /\ <<a>>[1] = a
         /\ <<a, b>> \in Seq(S) /\ Len(<<a, b>>) = 2 /\ <<a, b>>[1] = a /\ <<a, b>>[2] = b
         /\ <<a, b, c>> \in Seq(S) /\ Len(<<a, b, c>>) = 3
         /\ <<a, b, c>>[1] = a /\ <<a, b, c>>[2] = b /\ <<a, b, c>>[3] = c
         /\ <<a, b, c, d>> \in Seq(S) /\ Len(<<a, b, c, d>>) = 4
         /\ <<a, b, c, d>>[1] = a /\ <<a, b, c, d>>[2] = b /\ <<a, b, c, d>>[3] = c /\ <<a, b, c, d>>[4] = d
         /\ << >> \in Seq(S) /\ Len(<< >>) = 0
OBVIOUS

\* A word behind the first one of a line is no type, if names are none; where a
\* line declares a field, the field is the two first words.
LEMMA KeptFacts ==
  ASSUME NEW l \in InterfaceLine, l.name \notin Types
  PROVE  LET k == KeptOf(l) IN
         /\ k \in Seq(ShownWord) /\ Len(k) \in 0 .. 4
         /\ \A x \in 1 .. Len(k) : k[x].text \in Types => x = 1
         /\ Len(k) > 0 => k[1].text # "="
         /\ Declared(l) =>
              /\ Len(k) >= 2 /\ ~k[1].tab /\ k[1].text = l.type /\ k[1].size = l.size
              /\ k[2].text = l.name /\ k[2].alpha
              /\ l.kind = "spaced" => Len(k) = 4 /\ k[3].text = "="
              /\ l.kind = "default" => Len(k) = 3 /\ k[3].text # "="
              /\ l.kind \notin {"spaced", "default"} => Len(k) = 2
         /\ ~Declared(l) /\ Len(k) > 0 /\ k[1].text \in Types /\ ~k[1].tab => Len(k) >= 2 /\ ~k[2].alpha
<1> DEFINE a == Word(l.type, l.size, FALSE, TRUE)
           b == Word(l.name, -1, FALSE, l.alpha)
           c == Word(l.type, l.size, TRUE, TRUE)
           five == Digit("5")
           is == Plain("=")
           one == Digit("1")
           tight == Digit("A=1")
           dash == Digit("---")
           k == KeptOf(l)
<1>1. /\ a \in ShownWord /\ b \in ShownWord /\ c \in ShownWord /\ five \in ShownWord /\ is \in ShownWord /\ one \in ShownWord
      /\ tight \in ShownWord /\ dash \in ShownWord
  <2>1. /\ l.type \in Text /\ l.name \in Text /\ l.size \in Nat \cup {-1} /\ l.alpha \in BOOLEAN
        /\ -1 \in Nat \cup {-1} /\ TRUE \in BOOLEAN /\ FALSE \in BOOLEAN
    BY KindsOfLine DEF Text
  <2>2. a \in ShownWord /\ b \in ShownWord /\ c \in ShownWord
    BY <2>1, WordTyped
  <2>3. {"5", "=", "1", "A=1", "---"} \subseteq Signs
    BY DEF Signs
  <2> QED BY <2>2, <2>3, WordTyped
<1>2. /\ a.text = l.type /\ a.size = l.size /\ a.tab = FALSE /\ a.alpha = TRUE
      /\ b.text = l.name /\ b.alpha = l.alpha
      /\ c.text = l.type /\ c.tab = TRUE
      /\ five.text = "5" /\ is.text = "=" /\ one.text = "1"
      /\ tight.text = "A=1" /\ tight.alpha = FALSE /\ dash.text = "---"
  BY DEF Word, Digit, Plain
<1>3. /\ "5" \notin Types /\ "=" \notin Types /\ "1" \notin Types /\ "A=1" \notin Types /\ "---" \notin Types
      /\ l.type # "="
  <2>1. \A s \in Range(Short) : s \notin Signs
    BY ParserAssumption DEF Range
  <2>2. {"5", "=", "1", "A=1", "---"} \subseteq Signs
    BY DEF Signs
  <2>3. \A s \in {"5", "=", "1", "A=1", "---"} : s \notin MetaTypes /\ s # "wstring"
    BY DEF MetaTypes, Pad, Floats, Chars
  <2>4. l.type \notin Signs
    BY KindsOfLine
  <2> QED BY <2>1, <2>2, <2>3, <2>4 DEF Types
<1>4. Declared(l) <=> l.kind \in {"field", "spaced", "default", "noted"} /\ l.alpha /\ l.type \in Types
  BY DEF Declared
<1>5. k = CASE l.kind \in {"field", "noted"} -> <<a, b>>
            [] l.kind = "default" -> <<a, b, five>>
            [] l.kind = "spaced" -> <<a, b, is, one>>
            [] l.kind = "tight" -> <<a, tight>>
            [] l.kind = "comment" -> << >>
            [] l.kind = "dashes" -> <<dash>>
            [] l.kind = "nested" -> <<c, b>>
  BY DEF KeptOf
<1> DEFINE Right(w) ==
             /\ w \in Seq(ShownWord) /\ Len(w) \in 0 .. 4
             /\ \A x \in 1 .. Len(w) : w[x].text \in Types => x = 1
             /\ Len(w) > 0 => w[1].text # "="
             /\ Declared(l) =>
                  /\ Len(w) >= 2 /\ ~w[1].tab /\ w[1].text = l.type /\ w[1].size = l.size
                  /\ w[2].text = l.name /\ w[2].alpha
                  /\ l.kind = "spaced" => Len(w) = 4 /\ w[3].text = "="
                  /\ l.kind = "default" => Len(w) = 3 /\ w[3].text # "="
                  /\ l.kind \notin {"spaced", "default"} => Len(w) = 2
             /\ ~Declared(l) /\ Len(w) > 0 /\ w[1].text \in Types /\ ~w[1].tab => Len(w) >= 2 /\ ~w[2].alpha
<1>6. l.alpha \in BOOLEAN
  BY KindsOfLine
<1> HIDE DEF a, b, c, five, is, one, tight, dash, k
<1>7. CASE l.kind \in {"field", "noted"}
  <2> DEFINE w == <<a, b>>
  <2>1. k = w
    BY <1>5, <1>7
  <2>2. w \in Seq(ShownWord) /\ Len(w) = 2 /\ w[1] = a /\ w[2] = b
    BY <1>1, FewWords
  <2> HIDE DEF w
  <2>3. Right(w)
    BY <1>2, <1>3, <1>4, <1>6, <1>7, <2>2
  <2> QED BY <2>1, <2>3 DEF k
<1>8. CASE l.kind = "default"
  <2> DEFINE w == <<a, b, five>>
  <2>1. k = w
    BY <1>5, <1>8
  <2>2. w \in Seq(ShownWord) /\ Len(w) = 3 /\ w[1] = a /\ w[2] = b /\ w[3] = five
    BY <1>1, FewWords
  <2> HIDE DEF w
  <2>3. Right(w)
    BY <1>2, <1>3, <1>4, <1>6, <1>8, <2>2
  <2> QED BY <2>1, <2>3 DEF k
<1>9. CASE l.kind = "spaced"
  <2> DEFINE w == <<a, b, is, one>>
  <2>1. k = w
    BY <1>5, <1>9
  <2>2. w \in Seq(ShownWord) /\ Len(w) = 4 /\ w[1] = a /\ w[2] = b /\ w[3] = is /\ w[4] = one
    BY <1>1, FewWords
  <2> HIDE DEF w
  <2>3. Right(w)
    BY <1>2, <1>3, <1>4, <1>6, <1>9, <2>2
  <2> QED BY <2>1, <2>3 DEF k
<1>10. CASE l.kind = "tight"
  <2> DEFINE w == <<a, tight>>
  <2>1. k = w
    BY <1>5, <1>10
  <2>2. w \in Seq(ShownWord) /\ Len(w) = 2 /\ w[1] = a /\ w[2] = tight
    BY <1>1, FewWords
  <2> HIDE DEF w
  <2>3. Right(w)
    BY <1>2, <1>3, <1>4, <1>6, <1>10, <2>2
  <2> QED BY <2>1, <2>3 DEF k
<1>11. CASE l.kind = "comment"
  <2>1. k = << >>
    BY <1>5, <1>11
  <2>2. k \in Seq(ShownWord) /\ Len(k) = 0
    BY <2>1
  <2>3. Right(k)
    BY <1>4, <1>11, <2>2
  <2> QED BY <2>3 DEF k
<1>12. CASE l.kind = "dashes"
  <2> DEFINE w == <<dash>>
  <2>1. k = w
    BY <1>5, <1>12
  <2>2. w \in Seq(ShownWord) /\ Len(w) = 1 /\ w[1] = dash
    BY <1>1, FewWords
  <2> HIDE DEF w
  <2>3. Right(w)
    BY <1>2, <1>3, <1>4, <1>12, <2>2
  <2> QED BY <2>1, <2>3 DEF k
<1>13. CASE l.kind = "nested"
  <2> DEFINE w == <<c, b>>
  <2>1. k = w
    BY <1>5, <1>13
  <2>2. w \in Seq(ShownWord) /\ Len(w) = 2 /\ w[1] = c /\ w[2] = b
    BY <1>1, FewWords
  <2> HIDE DEF w
  <2>3. Right(w)
    BY <1>2, <1>3, <1>4, <1>6, <1>13, <2>2
  <2> QED BY <2>1, <2>3 DEF k
<1> QED BY <1>7, <1>8, <1>9, <1>10, <1>11, <1>12, <1>13, KindsOfLine

\* What Strips does with each word.
LEMMA StripWord ==
  ASSUME NEW k \in Seq(ShownWord), NEW w \in ShownWord
  PROVE  /\ Strips([comment |-> FALSE, kept |-> k], Hash) = [comment |-> TRUE, kept |-> k]
         /\ \A c \in BOOLEAN : Strips([comment |-> c, kept |-> k], NewLine) = [comment |-> FALSE, kept |-> k]
         /\ w.text \notin {"#", "\n"} =>
              /\ Strips([comment |-> FALSE, kept |-> k], w) = [comment |-> FALSE, kept |-> Append(k, w)]
              /\ Strips([comment |-> TRUE, kept |-> k], w) = [comment |-> TRUE, kept |-> k]
<1>1. Hash.text = "#" /\ NewLine.text = "\n"
  BY DEF Hash, NewLine, Word
<1>2. Hash # NewLine
  BY <1>1
<1>3. w.text \notin {"#", "\n"} => w # Hash /\ w # NewLine
  BY <1>1
<1>4. \A c \in BOOLEAN : [comment |-> c, kept |-> k].comment = c /\ [comment |-> c, kept |-> k].kept = k
  OBVIOUS
<1> QED BY <1>2, <1>3, <1>4 DEF Strips

\* One word: a sequence and one more word.
LEMMA Pushed1 ==
  ASSUME NEW S, NEW a \in S
  PROVE  <<a>> = Append(<< >>, a) /\ <<a>> \in Seq(S)
OBVIOUS

\* Two words: a sequence and one more word.
LEMMA Pushed2 ==
  ASSUME NEW S, NEW a \in S, NEW b \in S
  PROVE  <<a, b>> = Append(<<a>>, b) /\ <<a, b>> \in Seq(S)
OBVIOUS

\* Three words: a sequence and one more word.
LEMMA Pushed3 ==
  ASSUME NEW S, NEW a \in S, NEW b \in S, NEW c \in S
  PROVE  <<a, b, c>> = Append(<<a, b>>, c) /\ <<a, b, c>> \in Seq(S)
OBVIOUS

\* Four words: a sequence and one more word.
LEMMA Pushed4 ==
  ASSUME NEW S, NEW a \in S, NEW b \in S, NEW c \in S, NEW d \in S
  PROVE  <<a, b, c, d>> = Append(<<a, b, c>>, d) /\ <<a, b, c, d>> \in Seq(S)
OBVIOUS

\* Five words: a sequence and one more word.
LEMMA Pushed5 ==
  ASSUME NEW S, NEW a \in S, NEW b \in S, NEW c \in S, NEW d \in S, NEW e \in S
  PROVE  <<a, b, c, d, e>> = Append(<<a, b, c, d>>, e) /\ <<a, b, c, d, e>> \in Seq(S)
OBVIOUS

\* Six words: a sequence and one more word.
LEMMA Pushed6 ==
  ASSUME NEW S, NEW a \in S, NEW b \in S, NEW c \in S, NEW d \in S, NEW e \in S, NEW f \in S
  PROVE  <<a, b, c, d, e, f>> = Append(<<a, b, c, d, e>>, f) /\ <<a, b, c, d, e, f>> \in Seq(S)
OBVIOUS

\* A word behind two sequences.
LEMMA JoinPushed ==
  ASSUME NEW S, NEW s \in Seq(S), NEW t \in Seq(S), NEW x \in S
  PROVE  s \o Append(t, x) = Append(s \o t, x) /\ s \o << >> = s /\ s \o t \in Seq(S)
OBVIOUS

\* One word behind a sequence.
LEMMA Then1 ==
  ASSUME NEW S, NEW k \in Seq(S), NEW a \in S
  PROVE  k \o <<a>> = Append(k, a) /\ Append(k, a) \in Seq(S)
OBVIOUS

\* Two words behind a sequence.
LEMMA Then2 ==
  ASSUME NEW S, NEW k \in Seq(S), NEW a \in S, NEW b \in S
  PROVE  k \o <<a, b>> = Append(Append(k, a), b)
<1>1. <<a, b>> = Append(<<a>>, b)
  BY Pushed2
<1>2. <<a>> \in Seq(S)
  BY Pushed1
<1>3. k \o Append(<<a>>, b) = Append(k \o <<a>>, b)
  BY <1>2, JoinPushed
<1> QED BY <1>1, <1>3, Then1

\* Three words behind a sequence.
LEMMA Then3 ==
  ASSUME NEW S, NEW k \in Seq(S), NEW a \in S, NEW b \in S, NEW c \in S
  PROVE  k \o <<a, b, c>> = Append(Append(Append(k, a), b), c)
<1>1. <<a, b, c>> = Append(<<a, b>>, c)
  BY Pushed3
<1>2. <<a, b>> \in Seq(S)
  BY Pushed2
<1>3. k \o Append(<<a, b>>, c) = Append(k \o <<a, b>>, c)
  BY <1>2, JoinPushed
<1> QED BY <1>1, <1>3, Then2

\* Four words behind a sequence.
LEMMA Then4 ==
  ASSUME NEW S, NEW k \in Seq(S), NEW a \in S, NEW b \in S, NEW c \in S, NEW d \in S
  PROVE  k \o <<a, b, c, d>> = Append(Append(Append(Append(k, a), b), c), d)
<1>1. <<a, b, c, d>> = Append(<<a, b, c>>, d)
  BY Pushed4
<1>2. <<a, b, c>> \in Seq(S)
  BY Pushed3
<1>3. k \o Append(<<a, b, c>>, d) = Append(k \o <<a, b, c>>, d)
  BY <1>2, JoinPushed
<1> QED BY <1>1, <1>3, Then3

\* One and one words.
LEMMA Join11 ==
  ASSUME NEW S, NEW a \in S, NEW b \in S
  PROVE  <<a>> \o <<b>> = <<a, b>>
<1>1. <<a>> \in Seq(S)
  BY Pushed1
<1>2. <<a>> \o <<b>> = Append(<<a>>, b)
  BY <1>1, Then1
<1>3. <<a, b>> = Append(<<a>>, b)
  BY Pushed2
<1> QED BY <1>2, <1>3

\* One and two words.
LEMMA Join12 ==
  ASSUME NEW S, NEW a \in S, NEW b \in S, NEW c \in S
  PROVE  <<a>> \o <<b, c>> = <<a, b, c>>
<1>1. <<a>> \in Seq(S)
  BY Pushed1
<1>2. <<a>> \o <<b, c>> = Append(Append(<<a>>, b), c)
  BY <1>1, Then2
<1>3. <<a, b>> = Append(<<a>>, b)
  BY Pushed2
<1>4. <<a, b, c>> = Append(<<a, b>>, c)
  BY Pushed3
<1> QED BY <1>2, <1>3, <1>4

\* Two and one words.
LEMMA Join21 ==
  ASSUME NEW S, NEW a \in S, NEW b \in S, NEW c \in S
  PROVE  <<a, b>> \o <<c>> = <<a, b, c>>
<1>1. <<a, b>> \in Seq(S)
  BY Pushed2
<1>2. <<a, b>> \o <<c>> = Append(<<a, b>>, c)
  BY <1>1, Then1
<1>3. <<a, b, c>> = Append(<<a, b>>, c)
  BY Pushed3
<1> QED BY <1>2, <1>3

\* Two and two words.
LEMMA Join22 ==
  ASSUME NEW S, NEW a \in S, NEW b \in S, NEW c \in S, NEW d \in S
  PROVE  <<a, b>> \o <<c, d>> = <<a, b, c, d>>
<1>1. <<a, b>> \in Seq(S)
  BY Pushed2
<1>2. <<a, b>> \o <<c, d>> = Append(Append(<<a, b>>, c), d)
  BY <1>1, Then2
<1>3. <<a, b, c>> = Append(<<a, b>>, c)
  BY Pushed3
<1>4. <<a, b, c, d>> = Append(<<a, b, c>>, d)
  BY Pushed4
<1> QED BY <1>2, <1>3, <1>4

\* Three and one words.
LEMMA Join31 ==
  ASSUME NEW S, NEW a \in S, NEW b \in S, NEW c \in S, NEW d \in S
  PROVE  <<a, b, c>> \o <<d>> = <<a, b, c, d>>
<1>1. <<a, b, c>> \in Seq(S)
  BY Pushed3
<1>2. <<a, b, c>> \o <<d>> = Append(<<a, b, c>>, d)
  BY <1>1, Then1
<1>3. <<a, b, c, d>> = Append(<<a, b, c>>, d)
  BY Pushed4
<1> QED BY <1>2, <1>3

\* Three and two words.
LEMMA Join32 ==
  ASSUME NEW S, NEW a \in S, NEW b \in S, NEW c \in S, NEW d \in S, NEW e \in S
  PROVE  <<a, b, c>> \o <<d, e>> = <<a, b, c, d, e>>
<1>1. <<a, b, c>> \in Seq(S)
  BY Pushed3
<1>2. <<a, b, c>> \o <<d, e>> = Append(Append(<<a, b, c>>, d), e)
  BY <1>1, Then2
<1>3. <<a, b, c, d>> = Append(<<a, b, c>>, d)
  BY Pushed4
<1>4. <<a, b, c, d, e>> = Append(<<a, b, c, d>>, e)
  BY Pushed5
<1> QED BY <1>2, <1>3, <1>4

\* Four and one words.
LEMMA Join41 ==
  ASSUME NEW S, NEW a \in S, NEW b \in S, NEW c \in S, NEW d \in S, NEW e \in S
  PROVE  <<a, b, c, d>> \o <<e>> = <<a, b, c, d, e>>
<1>1. <<a, b, c, d>> \in Seq(S)
  BY Pushed4
<1>2. <<a, b, c, d>> \o <<e>> = Append(<<a, b, c, d>>, e)
  BY <1>1, Then1
<1>3. <<a, b, c, d, e>> = Append(<<a, b, c, d>>, e)
  BY Pushed5
<1> QED BY <1>2, <1>3

\* Five and one words.
LEMMA Join51 ==
  ASSUME NEW S, NEW a \in S, NEW b \in S, NEW c \in S, NEW d \in S, NEW e \in S, NEW f \in S
  PROVE  <<a, b, c, d, e>> \o <<f>> = <<a, b, c, d, e, f>>
<1>1. <<a, b, c, d, e>> \in Seq(S)
  BY Pushed5
<1>2. <<a, b, c, d, e>> \o <<f>> = Append(<<a, b, c, d, e>>, f)
  BY <1>1, Then1
<1>3. <<a, b, c, d, e, f>> = Append(<<a, b, c, d, e>>, f)
  BY Pushed6
<1> QED BY <1>2, <1>3

\* A line is stripped to what is kept of it.
LEMMA StripLine ==
  ASSUME NEW l \in InterfaceLine, NEW k \in Seq(ShownWord), NEW h,
         h[0] = [comment |-> FALSE, kept |-> k],
         \A i \in 0 .. Len(LineWords(l) \o <<NewLine>>) - 1 :
           h[i + 1] = Strips(h[i], (LineWords(l) \o <<NewLine>>)[i + 1])
  PROVE  h[Len(LineWords(l) \o <<NewLine>>)] = [comment |-> FALSE, kept |-> k \o KeptOf(l)]
<1> DEFINE a == Word(l.type, l.size, FALSE, TRUE)
           b == Word(l.name, -1, FALSE, l.alpha)
           c == Word(l.type, l.size, TRUE, TRUE)
           five == Digit("5")
           is == Plain("=")
           one == Digit("1")
           tight == Digit("A=1")
           dash == Digit("---")
           e == NewLine
           goes(y) == [comment |-> FALSE, kept |-> y]
           notes(y) == [comment |-> TRUE, kept |-> y]
           ws == LineWords(l) \o <<e>>
<1>1. /\ a \in ShownWord /\ b \in ShownWord /\ c \in ShownWord /\ five \in ShownWord /\ is \in ShownWord /\ one \in ShownWord
      /\ tight \in ShownWord /\ dash \in ShownWord /\ e \in ShownWord /\ Hash \in ShownWord
  <2>1. /\ l.type \in Text /\ l.name \in Text /\ l.size \in Nat \cup {-1} /\ l.alpha \in BOOLEAN
        /\ -1 \in Nat \cup {-1} /\ TRUE \in BOOLEAN /\ FALSE \in BOOLEAN
    BY KindsOfLine DEF Text
  <2>2. a \in ShownWord /\ b \in ShownWord /\ c \in ShownWord
    BY <2>1, WordTyped
  <2>3. {"5", "=", "1", "A=1", "---"} \subseteq Signs
    BY DEF Signs
  <2> QED BY <2>2, <2>3, WordTyped
<1>2. /\ a.text \notin {"#", "\n"} /\ b.text \notin {"#", "\n"} /\ c.text \notin {"#", "\n"}
      /\ five.text \notin {"#", "\n"} /\ is.text \notin {"#", "\n"} /\ one.text \notin {"#", "\n"}
      /\ tight.text \notin {"#", "\n"} /\ dash.text \notin {"#", "\n"}
  <2>1. l.type \notin {"#", "\n"} /\ l.name \notin {"#", "\n"}
    BY KindsOfLine DEF Signs
  <2> QED BY <2>1 DEF Word, Digit, Plain
<1>3. /\ \A y \in Seq(ShownWord) : Strips(goes(y), Hash) = notes(y)
      /\ \A y \in Seq(ShownWord) : Strips(goes(y), e) = goes(y) /\ Strips(notes(y), e) = goes(y)
      /\ \A w \in ShownWord : w.text \notin {"#", "\n"} =>
           \A y \in Seq(ShownWord) : Strips(goes(y), w) = goes(Append(y, w)) /\ Strips(notes(y), w) = notes(y)
  <2>1. FALSE \in BOOLEAN /\ TRUE \in BOOLEAN
    OBVIOUS
  <2> QED BY <1>1, <2>1, StripWord
<1>4. LineWords(l) =
        CASE l.kind = "field" -> <<a, b>>
          [] l.kind = "default" -> <<a, b>> \o <<five>>
          [] l.kind = "noted" -> <<a, b>> \o <<Hash>> \o <<a, b>>
          [] l.kind = "spaced" -> <<a, b>> \o <<is, one>>
          [] l.kind = "tight" -> <<(<<a, b>>)[1], tight>>
          [] l.kind = "comment" -> <<Hash>> \o <<a, b>>
          [] l.kind = "dashes" -> <<dash>>
          [] l.kind = "nested" -> <<c, (<<a, b>>)[2]>>
  BY DEF LineWords
<1>5. KeptOf(l) =
        CASE l.kind \in {"field", "noted"} -> <<a, b>>
          [] l.kind = "default" -> <<a, b, five>>
          [] l.kind = "spaced" -> <<a, b, is, one>>
          [] l.kind = "tight" -> <<a, tight>>
          [] l.kind = "comment" -> << >>
          [] l.kind = "dashes" -> <<dash>>
          [] l.kind = "nested" -> <<c, b>>
  BY DEF KeptOf
<1>6. h[0] = goes(k) /\ \A i \in 0 .. Len(ws) - 1 : h[i + 1] = Strips(h[i], ws[i + 1])
  OBVIOUS
<1>7. (<<a, b>>)[1] = a /\ (<<a, b>>)[2] = b
  OBVIOUS
<1>8. \A y \in Seq(ShownWord), w \in ShownWord : Append(y, w) \in Seq(ShownWord)
  OBVIOUS
<1>9. h[Len(ws)] = goes(k \o KeptOf(l)) => h[Len(ws)] = [comment |-> FALSE, kept |-> k \o KeptOf(l)]
  OBVIOUS
<1> HIDE DEF a, b, c, five, is, one, tight, dash, e, goes, notes, ws
<1>10. CASE l.kind = "field"
  <2> DEFINE s == <<a, b, e>>
  <2>1. ws = s
    <3>1. LineWords(l) = <<a, b>>
      BY <1>4, <1>7, <1>10
    <3>2. ws = <<a, b>> \o <<e>>
      BY <3>1 DEF ws
    <3>3. <<a, b>> \o <<e>> = <<a, b, e>>
      BY <1>1, Join21
    <3> QED BY <3>2, <3>3
  <2>2. Len(s) = 3 /\ s[1] = a /\ s[2] = b /\ s[3] = e
    OBVIOUS
  <2> HIDE DEF s
  <2> DEFINE k1 == Append(k, a)
  <2>3. k1 \in Seq(ShownWord)
    BY <1>1, <1>8
  <2> HIDE DEF k1
  <2>4. h[0 + 1] = goes(k1)
    BY <1>1, <1>2, <1>3, <1>6, <2>1, <2>2, <2>3 DEF k1
  <2> DEFINE k2 == Append(k1, b)
  <2>5. k2 \in Seq(ShownWord)
    BY <1>1, <1>8, <2>3
  <2> HIDE DEF k2
  <2>6. h[1 + 1] = goes(k2)
    BY <1>1, <1>2, <1>3, <1>6, <2>1, <2>2, <2>3, <2>5, <2>4 DEF k2
  <2>7. h[2 + 1] = goes(k2)
    BY <1>1, <1>2, <1>3, <1>6, <2>1, <2>2, <2>3, <2>5, <2>6
  <2>8. KeptOf(l) = <<a, b>>
    BY <1>5, <1>10
  <2>9. k \o KeptOf(l) = k2
    BY <1>1, <2>8, Then2 DEF k1, k2
  <2>10. h[Len(ws)] = goes(k \o KeptOf(l))
    BY <2>1, <2>2, <2>7, <2>9
  <2> QED BY <1>9, <2>10 DEF ws, e
<1>11. CASE l.kind = "noted"
  <2> DEFINE s == <<a, b, Hash, a, b, e>>
  <2>1. ws = s
    <3>1. LineWords(l) = (<<a, b>> \o <<Hash>>) \o <<a, b>>
      BY <1>4, <1>7, <1>11
    <3>2. ws = (<<a, b>> \o <<Hash>>) \o <<a, b>> \o <<e>>
      BY <3>1 DEF ws
    <3>3. <<a, b>> \o <<Hash>> = <<a, b, Hash>>
      BY <1>1, Join21
    <3>4. <<a, b, Hash>> \o <<a, b>> = <<a, b, Hash, a, b>>
      BY <1>1, Join32
    <3>5. <<a, b, Hash, a, b>> \o <<e>> = <<a, b, Hash, a, b, e>>
      BY <1>1, Join51
    <3> QED BY <3>2, <3>3, <3>4, <3>5
  <2>2. Len(s) = 6 /\ s[1] = a /\ s[2] = b /\ s[3] = Hash /\ s[4] = a /\ s[5] = b /\ s[6] = e
    OBVIOUS
  <2> HIDE DEF s
  <2> DEFINE k1 == Append(k, a)
  <2>3. k1 \in Seq(ShownWord)
    BY <1>1, <1>8
  <2> HIDE DEF k1
  <2>4. h[0 + 1] = goes(k1)
    BY <1>1, <1>2, <1>3, <1>6, <2>1, <2>2, <2>3 DEF k1
  <2> DEFINE k2 == Append(k1, b)
  <2>5. k2 \in Seq(ShownWord)
    BY <1>1, <1>8, <2>3
  <2> HIDE DEF k2
  <2>6. h[1 + 1] = goes(k2)
    BY <1>1, <1>2, <1>3, <1>6, <2>1, <2>2, <2>3, <2>5, <2>4 DEF k2
  <2>7. h[2 + 1] = notes(k2)
    BY <1>1, <1>2, <1>3, <1>6, <2>1, <2>2, <2>3, <2>5, <2>6
  <2>8. h[3 + 1] = notes(k2)
    BY <1>1, <1>2, <1>3, <1>6, <2>1, <2>2, <2>3, <2>5, <2>7
  <2>9. h[4 + 1] = notes(k2)
    BY <1>1, <1>2, <1>3, <1>6, <2>1, <2>2, <2>3, <2>5, <2>8
  <2>10. h[5 + 1] = goes(k2)
    BY <1>1, <1>2, <1>3, <1>6, <2>1, <2>2, <2>3, <2>5, <2>9
  <2>11. KeptOf(l) = <<a, b>>
    BY <1>5, <1>11
  <2>12. k \o KeptOf(l) = k2
    BY <1>1, <2>11, Then2 DEF k1, k2
  <2>13. h[Len(ws)] = goes(k \o KeptOf(l))
    BY <2>1, <2>2, <2>10, <2>12
  <2> QED BY <1>9, <2>13 DEF ws, e
<1>12. CASE l.kind = "default"
  <2> DEFINE s == <<a, b, five, e>>
  <2>1. ws = s
    <3>1. LineWords(l) = <<a, b>> \o <<five>>
      BY <1>4, <1>7, <1>12
    <3>2. ws = <<a, b>> \o <<five>> \o <<e>>
      BY <3>1 DEF ws
    <3>3. <<a, b>> \o <<five>> = <<a, b, five>>
      BY <1>1, Join21
    <3>4. <<a, b, five>> \o <<e>> = <<a, b, five, e>>
      BY <1>1, Join31
    <3> QED BY <3>2, <3>3, <3>4
  <2>2. Len(s) = 4 /\ s[1] = a /\ s[2] = b /\ s[3] = five /\ s[4] = e
    OBVIOUS
  <2> HIDE DEF s
  <2> DEFINE k1 == Append(k, a)
  <2>3. k1 \in Seq(ShownWord)
    BY <1>1, <1>8
  <2> HIDE DEF k1
  <2>4. h[0 + 1] = goes(k1)
    BY <1>1, <1>2, <1>3, <1>6, <2>1, <2>2, <2>3 DEF k1
  <2> DEFINE k2 == Append(k1, b)
  <2>5. k2 \in Seq(ShownWord)
    BY <1>1, <1>8, <2>3
  <2> HIDE DEF k2
  <2>6. h[1 + 1] = goes(k2)
    BY <1>1, <1>2, <1>3, <1>6, <2>1, <2>2, <2>3, <2>5, <2>4 DEF k2
  <2> DEFINE k3 == Append(k2, five)
  <2>7. k3 \in Seq(ShownWord)
    BY <1>1, <1>8, <2>5
  <2> HIDE DEF k3
  <2>8. h[2 + 1] = goes(k3)
    BY <1>1, <1>2, <1>3, <1>6, <2>1, <2>2, <2>3, <2>5, <2>7, <2>6 DEF k3
  <2>9. h[3 + 1] = goes(k3)
    BY <1>1, <1>2, <1>3, <1>6, <2>1, <2>2, <2>3, <2>5, <2>7, <2>8
  <2>10. KeptOf(l) = <<a, b, five>>
    BY <1>5, <1>12
  <2>11. k \o KeptOf(l) = k3
    BY <1>1, <2>10, Then3 DEF k1, k2, k3
  <2>12. h[Len(ws)] = goes(k \o KeptOf(l))
    BY <2>1, <2>2, <2>9, <2>11
  <2> QED BY <1>9, <2>12 DEF ws, e
<1>13. CASE l.kind = "spaced"
  <2> DEFINE s == <<a, b, is, one, e>>
  <2>1. ws = s
    <3>1. LineWords(l) = <<a, b>> \o <<is, one>>
      BY <1>4, <1>7, <1>13
    <3>2. ws = <<a, b>> \o <<is, one>> \o <<e>>
      BY <3>1 DEF ws
    <3>3. <<a, b>> \o <<is, one>> = <<a, b, is, one>>
      BY <1>1, Join22
    <3>4. <<a, b, is, one>> \o <<e>> = <<a, b, is, one, e>>
      BY <1>1, Join41
    <3> QED BY <3>2, <3>3, <3>4
  <2>2. Len(s) = 5 /\ s[1] = a /\ s[2] = b /\ s[3] = is /\ s[4] = one /\ s[5] = e
    OBVIOUS
  <2> HIDE DEF s
  <2> DEFINE k1 == Append(k, a)
  <2>3. k1 \in Seq(ShownWord)
    BY <1>1, <1>8
  <2> HIDE DEF k1
  <2>4. h[0 + 1] = goes(k1)
    BY <1>1, <1>2, <1>3, <1>6, <2>1, <2>2, <2>3 DEF k1
  <2> DEFINE k2 == Append(k1, b)
  <2>5. k2 \in Seq(ShownWord)
    BY <1>1, <1>8, <2>3
  <2> HIDE DEF k2
  <2>6. h[1 + 1] = goes(k2)
    BY <1>1, <1>2, <1>3, <1>6, <2>1, <2>2, <2>3, <2>5, <2>4 DEF k2
  <2> DEFINE k3 == Append(k2, is)
  <2>7. k3 \in Seq(ShownWord)
    BY <1>1, <1>8, <2>5
  <2> HIDE DEF k3
  <2>8. h[2 + 1] = goes(k3)
    BY <1>1, <1>2, <1>3, <1>6, <2>1, <2>2, <2>3, <2>5, <2>7, <2>6 DEF k3
  <2> DEFINE k4 == Append(k3, one)
  <2>9. k4 \in Seq(ShownWord)
    BY <1>1, <1>8, <2>7
  <2> HIDE DEF k4
  <2>10. h[3 + 1] = goes(k4)
    BY <1>1, <1>2, <1>3, <1>6, <2>1, <2>2, <2>3, <2>5, <2>7, <2>9, <2>8 DEF k4
  <2>11. h[4 + 1] = goes(k4)
    BY <1>1, <1>2, <1>3, <1>6, <2>1, <2>2, <2>3, <2>5, <2>7, <2>9, <2>10
  <2>12. KeptOf(l) = <<a, b, is, one>>
    BY <1>5, <1>13
  <2>13. k \o KeptOf(l) = k4
    BY <1>1, <2>12, Then4 DEF k1, k2, k3, k4
  <2>14. h[Len(ws)] = goes(k \o KeptOf(l))
    BY <2>1, <2>2, <2>11, <2>13
  <2> QED BY <1>9, <2>14 DEF ws, e
<1>14. CASE l.kind = "tight"
  <2> DEFINE s == <<a, tight, e>>
  <2>1. ws = s
    <3>1. LineWords(l) = <<a, tight>>
      BY <1>4, <1>7, <1>14
    <3>2. ws = <<a, tight>> \o <<e>>
      BY <3>1 DEF ws
    <3>3. <<a, tight>> \o <<e>> = <<a, tight, e>>
      BY <1>1, Join21
    <3> QED BY <3>2, <3>3
  <2>2. Len(s) = 3 /\ s[1] = a /\ s[2] = tight /\ s[3] = e
    OBVIOUS
  <2> HIDE DEF s
  <2> DEFINE k1 == Append(k, a)
  <2>3. k1 \in Seq(ShownWord)
    BY <1>1, <1>8
  <2> HIDE DEF k1
  <2>4. h[0 + 1] = goes(k1)
    BY <1>1, <1>2, <1>3, <1>6, <2>1, <2>2, <2>3 DEF k1
  <2> DEFINE k2 == Append(k1, tight)
  <2>5. k2 \in Seq(ShownWord)
    BY <1>1, <1>8, <2>3
  <2> HIDE DEF k2
  <2>6. h[1 + 1] = goes(k2)
    BY <1>1, <1>2, <1>3, <1>6, <2>1, <2>2, <2>3, <2>5, <2>4 DEF k2
  <2>7. h[2 + 1] = goes(k2)
    BY <1>1, <1>2, <1>3, <1>6, <2>1, <2>2, <2>3, <2>5, <2>6
  <2>8. KeptOf(l) = <<a, tight>>
    BY <1>5, <1>14
  <2>9. k \o KeptOf(l) = k2
    BY <1>1, <2>8, Then2 DEF k1, k2
  <2>10. h[Len(ws)] = goes(k \o KeptOf(l))
    BY <2>1, <2>2, <2>7, <2>9
  <2> QED BY <1>9, <2>10 DEF ws, e
<1>15. CASE l.kind = "comment"
  <2> DEFINE s == <<Hash, a, b, e>>
  <2>1. ws = s
    <3>1. LineWords(l) = <<Hash>> \o <<a, b>>
      BY <1>4, <1>7, <1>15
    <3>2. ws = <<Hash>> \o <<a, b>> \o <<e>>
      BY <3>1 DEF ws
    <3>3. <<Hash>> \o <<a, b>> = <<Hash, a, b>>
      <4>1. \A x, y, z \in ShownWord : <<x>> \o <<y, z>> = <<x, y, z>>
        BY Join12
      <4> QED BY <1>1, <4>1
    <3>4. <<Hash, a, b>> \o <<e>> = <<Hash, a, b, e>>
      BY <1>1, Join31
    <3> QED BY <3>2, <3>3, <3>4
  <2>2. Len(s) = 4 /\ s[1] = Hash /\ s[2] = a /\ s[3] = b /\ s[4] = e
    OBVIOUS
  <2> HIDE DEF s
  <2>3. h[0 + 1] = notes(k)
    BY <1>1, <1>2, <1>3, <1>6, <2>1, <2>2
  <2>4. h[1 + 1] = notes(k)
    BY <1>1, <1>2, <1>3, <1>6, <2>1, <2>2, <2>3
  <2>5. h[2 + 1] = notes(k)
    BY <1>1, <1>2, <1>3, <1>6, <2>1, <2>2, <2>4
  <2>6. h[3 + 1] = goes(k)
    BY <1>1, <1>2, <1>3, <1>6, <2>1, <2>2, <2>5
  <2>7. KeptOf(l) = << >>
    BY <1>5, <1>15
  <2>8. k \o KeptOf(l) = k
    BY <1>1, <2>7, JoinPushed
  <2>9. h[Len(ws)] = goes(k \o KeptOf(l))
    BY <2>1, <2>2, <2>6, <2>8
  <2> QED BY <1>9, <2>9 DEF ws, e
<1>16. CASE l.kind = "dashes"
  <2> DEFINE s == <<dash, e>>
  <2>1. ws = s
    <3>1. LineWords(l) = <<dash>>
      BY <1>4, <1>7, <1>16
    <3>2. ws = <<dash>> \o <<e>>
      BY <3>1 DEF ws
    <3>3. <<dash>> \o <<e>> = <<dash, e>>
      BY <1>1, Join11
    <3> QED BY <3>2, <3>3
  <2>2. Len(s) = 2 /\ s[1] = dash /\ s[2] = e
    OBVIOUS
  <2> HIDE DEF s
  <2> DEFINE k1 == Append(k, dash)
  <2>3. k1 \in Seq(ShownWord)
    BY <1>1, <1>8
  <2> HIDE DEF k1
  <2>4. h[0 + 1] = goes(k1)
    BY <1>1, <1>2, <1>3, <1>6, <2>1, <2>2, <2>3 DEF k1
  <2>5. h[1 + 1] = goes(k1)
    BY <1>1, <1>2, <1>3, <1>6, <2>1, <2>2, <2>3, <2>4
  <2>6. KeptOf(l) = <<dash>>
    BY <1>5, <1>16
  <2>7. k \o KeptOf(l) = k1
    BY <1>1, <2>6, Then1 DEF k1
  <2>8. h[Len(ws)] = goes(k \o KeptOf(l))
    BY <2>1, <2>2, <2>5, <2>7
  <2> QED BY <1>9, <2>8 DEF ws, e
<1>17. CASE l.kind = "nested"
  <2> DEFINE s == <<c, b, e>>
  <2>1. ws = s
    <3>1. LineWords(l) = <<c, b>>
      BY <1>4, <1>7, <1>17
    <3>2. ws = <<c, b>> \o <<e>>
      BY <3>1 DEF ws
    <3>3. <<c, b>> \o <<e>> = <<c, b, e>>
      BY <1>1, Join21
    <3> QED BY <3>2, <3>3
  <2>2. Len(s) = 3 /\ s[1] = c /\ s[2] = b /\ s[3] = e
    OBVIOUS
  <2> HIDE DEF s
  <2> DEFINE k1 == Append(k, c)
  <2>3. k1 \in Seq(ShownWord)
    BY <1>1, <1>8
  <2> HIDE DEF k1
  <2>4. h[0 + 1] = goes(k1)
    BY <1>1, <1>2, <1>3, <1>6, <2>1, <2>2, <2>3 DEF k1
  <2> DEFINE k2 == Append(k1, b)
  <2>5. k2 \in Seq(ShownWord)
    BY <1>1, <1>8, <2>3
  <2> HIDE DEF k2
  <2>6. h[1 + 1] = goes(k2)
    BY <1>1, <1>2, <1>3, <1>6, <2>1, <2>2, <2>3, <2>5, <2>4 DEF k2
  <2>7. h[2 + 1] = goes(k2)
    BY <1>1, <1>2, <1>3, <1>6, <2>1, <2>2, <2>3, <2>5, <2>6
  <2>8. KeptOf(l) = <<c, b>>
    BY <1>5, <1>17
  <2>9. k \o KeptOf(l) = k2
    BY <1>1, <2>8, Then2 DEF k1, k2
  <2>10. h[Len(ws)] = goes(k \o KeptOf(l))
    BY <2>1, <2>2, <2>7, <2>9
  <2> QED BY <1>9, <2>10 DEF ws, e
<1> QED BY <1>10, <1>11, <1>12, <1>13, <1>14, <1>15, <1>16, <1>17, KindsOfLine

\* The declared fields are a loop over the lines.
DeclaredStep(ds, l) == IF Declared(l) THEN Append(ds, l) ELSE ds
DeclaredLoop(f, lines) ==
  /\ f[0] = << >>
  /\ \A n \in 0 .. Len(lines) - 1 :
       f[n + 1] = DeclaredStep(f[n], lines[n + 1])

\* DeclaredOf is a loop over the lines.
LEMMA DeclaredLoops ==
  ASSUME NEW lines \in Seq(InterfaceLine)
  PROVE  \E f \in [0 .. Len(lines) -> Seq(InterfaceLine)] : DeclaredLoop(f, lines) /\ DeclaredOf(lines) = f[Len(lines)]
<1> DEFINE L == Len(lines)
           S == Seq(InterfaceLine)
           rel == [p \in S \X (1 .. L) |-> DeclaredStep(p[1], lines[p[2]])]
           Iter(g) == g = [s \in SUBSET (1 .. L) |->
             IF s = {} THEN << >>
             ELSE LET x == Max(s) IN (IF Declared(lines[x]) THEN Append(g[s \ {x}], lines[x]) ELSE g[s \ {x}])]
<1>1. L \in Nat /\ DOMAIN lines = 1 .. L /\ << >> \in S
  OBVIOUS
<1>2. ASSUME NEW acc \in S, NEW i \in 1 .. L PROVE DeclaredStep(acc, lines[i]) \in S
  <2>1. lines[i] \in InterfaceLine
    OBVIOUS
  <2> QED BY <2>1 DEF DeclaredStep
<1>3. rel \in [S \X (1 .. L) -> S]
  <2> HIDE DEF S, L
  <2> QED BY <1>2
<1>4. PICK g \in [SUBSET (1 .. L) -> S] : Iterates(g, << >>, L, rel)
  <2> HIDE DEF rel, L, S
  <2> QED BY <1>1, <1>3, IteratesExists
<1>5. Iter(g)
  <2>1. ASSUME NEW s \in SUBSET (1 .. L), s # {}
        PROVE  rel[<<g[s \ {Max(s)}], Max(s)>>] = DeclaredStep(g[s \ {Max(s)}], lines[Max(s)])
    <3>1. Max(s) \in 1 .. L
      BY <1>1, <2>1, MaxIn
    <3>2. g[s \ {Max(s)}] \in S
      OBVIOUS
    <3> HIDE DEF S, L
    <3> QED BY <3>1, <3>2
  <2> HIDE DEF rel, L, S
  <2> QED BY <1>4, <2>1 DEF Iterates, DeclaredStep
<1>6. \E h : Iter(h) /\ DeclaredOf(lines) = h[1 .. L]
  <2>1. \E h : Iter(h)
    BY <1>5
  <2> HIDE DEF S, rel
  <2> QED BY <1>1, <2>1 DEF DeclaredOf, FoldLeft, MapThenFoldSet
<1>7. PICK h : Iter(h) /\ DeclaredOf(lines) = h[1 .. L]
  BY <1>6
<1> DEFINE f == [n \in 0 .. L |-> h[1 .. n]]
<1>8. f[0] = << >>
  <2>1. 1 .. 0 = {} /\ {} \in SUBSET (1 .. L) /\ 0 \in 0 .. L
    BY <1>1
  <2> HIDE DEF S, rel
  <2> QED BY <1>7, <2>1
<1>9. ASSUME NEW n \in 0 .. L - 1 PROVE f[n + 1] = DeclaredStep(f[n], lines[n + 1])
  <2>1. /\ 1 .. n + 1 \in SUBSET (1 .. L) /\ 1 .. n + 1 # {}
        /\ Max(1 .. n + 1) = n + 1 /\ (1 .. n + 1) \ {n + 1} = 1 .. n
    BY <1>1, UpTo
  <2>2. h[1 .. n + 1] = DeclaredStep(h[1 .. n], lines[n + 1])
    <3>1. 1 .. n + 1 \in SUBSET (1 .. L)
      BY <2>1
    <3> DEFINE s == 1 .. n + 1
    <3> HIDE DEF S, L, rel, s
    <3>2. h[s] = (IF Declared(lines[Max(s)]) THEN Append(h[s \ {Max(s)}], lines[Max(s)]) ELSE h[s \ {Max(s)}])
      <4>1. s \in SUBSET (1 .. L) /\ s # {}
        BY <2>1, <3>1 DEF s
      <4> QED BY <1>7, <4>1
    <3>3. h[s] = DeclaredStep(h[s \ {Max(s)}], lines[Max(s)])
      BY <3>2 DEF DeclaredStep
    <3> QED BY <2>1, <3>3 DEF s
  <2>3. n \in 0 .. L /\ n + 1 \in 0 .. L
    BY <1>1
  <2> HIDE DEF S, L, rel, Iter
  <2> QED BY <2>2, <2>3
<1>10. DeclaredOf(lines) = f[L]
  <2>1. L \in 0 .. L
    BY <1>1
  <2> HIDE DEF L, S, rel, Iter
  <2> QED BY <1>7, <2>1
<1>11. f \in [0 .. L -> S]
  <2>1. ASSUME NEW n \in 0 .. L - 1, f[n] \in S PROVE f[n + 1] \in S
    <3>1. n + 1 \in 1 .. L
      BY <1>1
    <3> HIDE DEF f, S, L
    <3> QED BY <1>2, <1>9, <2>1, <3>1
  <2> HIDE DEF f, S, L
  <2>2. 0 .. L \subseteq {n \in 0 .. L : f[n] \in S}
    <3> DEFINE T == {n \in 0 .. L : f[n] \in S}
    <3>1. 0 \in T
      <4>1. f[0] \in S
        BY <1>1, <1>8
      <4>2. 0 \in 0 .. L
        BY <1>1
      <4> QED BY <4>1, <4>2
    <3>2. ASSUME NEW n \in 0 .. L - 1, n \in T PROVE n + 1 \in T
      <4>1. n + 1 \in 0 .. L
        BY <1>1
      <4> QED BY <2>1, <3>2, <4>1
    <3> HIDE DEF T
    <3>3. 0 .. L \subseteq T
      BY <1>1, <3>1, <3>2, BoundedInduction
    <3> QED BY <3>3 DEF T
  <2> QED BY <2>2 DEF f
<1> HIDE DEF f, S, rel, Iter
<1> QED BY <1>8, <1>9, <1>10, <1>11 DEF S, DeclaredLoop

\* What is kept of all lines.
KeptLines(lines) == [i \in DOMAIN lines |-> KeptOf(lines[i])]
Apart(lines) == \A i \in DOMAIN lines : lines[i].name \notin Types

\* What is kept of each line are words.
LEMMA KeptTyped ==
  ASSUME NEW lines \in Seq(InterfaceLine), Apart(lines)
  PROVE  /\ KeptLines(lines) \in Seq(Seq(ShownWord)) /\ Len(KeptLines(lines)) = Len(lines) /\ Len(lines) \in Nat
         /\ \A n \in 1 .. Len(lines) : KeptLines(lines)[n] = KeptOf(lines[n]) /\ lines[n] \in InterfaceLine
                                       /\ lines[n].name \notin Types
<1>1. DOMAIN lines = 1 .. Len(lines) /\ Len(lines) \in Nat /\ \A i \in 1 .. Len(lines) : lines[i] \in InterfaceLine
  OBVIOUS
<1>2. \A n \in 1 .. Len(lines) : lines[n].name \notin Types
  BY <1>1 DEF Apart
<1>3. \A n \in 1 .. Len(lines) : KeptOf(lines[n]) \in Seq(ShownWord)
  BY <1>1, <1>2, KeptFacts
<1> DEFINE k == KeptLines(lines)
<1>4. DOMAIN k = 1 .. Len(lines) /\ \A n \in 1 .. Len(lines) : k[n] = KeptOf(lines[n])
  BY <1>1 DEF KeptLines
<1>5. k = [n \in 1 .. Len(lines) |-> k[n]]
  BY <1>1 DEF KeptLines
<1> HIDE DEF k
<1>6. k \in Seq(Seq(ShownWord)) /\ Len(k) = Len(lines)
  BY <1>1, <1>3, <1>4, <1>5
<1> QED BY <1>1, <1>2, <1>4, <1>6 DEF k

\* The list of words is what is kept of each line, one after the other.
LEMMA ListIs ==
  ASSUME NEW lines \in Seq(InterfaceLine), Apart(lines)
  PROVE  ParamList(ShownWords(lines)) = FlattenSeq(KeptLines(lines))
<1> DEFINE L == Len(lines)
           all == LinesOf(lines)
           shown == ShownWords(lines)
           kept == KeptLines(lines)
<1>1. /\ all \in Seq(Seq(ShownWord)) /\ Len(all) = L /\ kept \in Seq(Seq(ShownWord)) /\ Len(kept) = L /\ L \in Nat
      /\ \A n \in 1 .. L : /\ kept[n] = KeptOf(lines[n]) /\ lines[n] \in InterfaceLine
                           /\ all[n] = LineWords(lines[n]) \o <<NewLine>> /\ all[n] \in Seq(ShownWord)
  <2>1. /\ all \in Seq(Seq(ShownWord)) /\ Len(all) = L
    BY LinesTyped
  <2>2. /\ kept \in Seq(Seq(ShownWord)) /\ Len(kept) = L /\ L \in Nat
        /\ \A n \in 1 .. L : kept[n] = KeptOf(lines[n]) /\ lines[n] \in InterfaceLine
    BY KeptTyped
  <2>3. \A n \in 1 .. L : all[n] = LineWords(lines[n]) \o <<NewLine>>
    <3>1. DOMAIN lines = 1 .. L
      OBVIOUS
    <3> QED BY <3>1 DEF LinesOf
  <2>4. \A n \in 1 .. L : all[n] \in Seq(ShownWord)
    <3> HIDE DEF all
    <3> QED BY <2>1
  <2> QED BY <2>1, <2>2, <2>3, <2>4
<1>2. shown = FlattenSeq(all) /\ shown \in Seq(ShownWord)
  BY ShownTyped DEF ShownWords, LinesOf
<1> HIDE DEF all, shown, kept, L
<1>3. PICK q : FlatParts(q, ShownWord, all)
  BY <1>1, FlattenPlaces
<1>4. PICK g : FlatParts(g, ShownWord, kept)
  BY <1>1, FlattenPlaces
<1>5. PICK s \in [0 .. Len(shown) -> Kept] :
        StripLoop(s, shown) /\ FoldLeft(Strips, [comment |-> FALSE, kept |-> << >>], shown) = s[Len(shown)]
  BY <1>2, StripLoops
<1> DEFINE G == {n \in 0 .. L : s[Len(q[n])] = [comment |-> FALSE, kept |-> g[n]]}
<1>6. 0 \in G
  <2>1. q[0] = << >> /\ g[0] = << >> /\ Len(<< >>) = 0
    BY <1>3, <1>4 DEF FlatParts
  <2>2. s[0] = [comment |-> FALSE, kept |-> << >>]
    BY <1>5 DEF StripLoop
  <2>3. Len(q[0]) = 0
    BY <2>1
  <2>4. s[Len(q[0])] = [comment |-> FALSE, kept |-> g[0]]
    BY <2>1, <2>2, <2>3
  <2>5. 0 \in 0 .. L
    BY <1>1
  <2> QED BY <2>4, <2>5
<1>7. ASSUME NEW n \in 0 .. L - 1, n \in G PROVE n + 1 \in G
  <2> DEFINE c == Len(q[n])
             ws == all[n + 1]
             l == lines[n + 1]
             k == g[n]
             h == [i \in 0 .. Len(ws) |-> s[c + i]]
  <2>1. n + 1 \in 1 .. L /\ n \in 0 .. L /\ (n + 1) - 1 = n /\ n + 1 \in 0 .. L
    BY <1>1
  <2>2. /\ Len(q[n + 1]) = c + Len(ws) /\ Len(q[n + 1]) <= Len(shown)
        /\ \A i \in 1 .. Len(ws) : shown[c + i] = ws[i]
        /\ c \in Nat /\ Len(shown) \in Nat
    <3>1. /\ Len(q[n + 1]) = c + Len(ws) /\ Len(q[n + 1]) <= Len(FlattenSeq(all))
          /\ \A i \in 1 .. Len(ws) : FlattenSeq(all)[c + i] = ws[i]
      BY <1>1, <1>3, <2>1 DEF FlatParts
    <3>2. q[n] \in Seq(ShownWord)
      BY <1>1, <1>3, <2>1 DEF FlatParts
    <3>3. c \in Nat
      BY <3>2
    <3>4. Len(shown) \in Nat
      BY <1>2
    <3> QED BY <1>2, <3>1, <3>3, <3>4
  <2>3. /\ ws = LineWords(l) \o <<NewLine>> /\ l \in InterfaceLine /\ ws \in Seq(ShownWord)
        /\ k \in Seq(ShownWord) /\ g[n + 1] = k \o KeptOf(l)
    <3>1. g[n + 1] = g[n] \o kept[n + 1] /\ g[n] \in Seq(ShownWord)
      BY <1>1, <1>4, <2>1 DEF FlatParts
    <3> QED BY <1>1, <2>1, <3>1
  <2>4. Len(ws) \in Nat
    BY <2>3
  <2> HIDE DEF c, ws, l, k
  <2>5. h[0] = [comment |-> FALSE, kept |-> k]
    <3>1. s[c] = [comment |-> FALSE, kept |-> k]
      BY <1>7 DEF c, k
    <3>2. 0 \in 0 .. Len(ws) /\ c + 0 = c
      BY <2>2, <2>4
    <3> QED BY <3>1, <3>2
  <2>6. ASSUME NEW i \in 0 .. Len(ws) - 1 PROVE h[i + 1] = Strips(h[i], ws[i + 1])
    <3>1. i \in 0 .. Len(ws) /\ i + 1 \in 0 .. Len(ws) /\ i + 1 \in 1 .. Len(ws)
      BY <2>4
    <3>2. c + i \in 0 .. Len(shown) - 1 /\ c + (i + 1) = (c + i) + 1
      BY <2>2, <2>4
    <3>3. s[(c + i) + 1] = Strips(s[c + i], shown[(c + i) + 1])
      BY <1>5, <3>2 DEF StripLoop
    <3>4. shown[c + (i + 1)] = ws[i + 1]
      BY <2>2, <3>1
    <3> QED BY <3>1, <3>2, <3>3, <3>4
  <2> HIDE DEF h
  <2>7. h[Len(ws)] = [comment |-> FALSE, kept |-> k \o KeptOf(l)]
    BY <2>3, <2>5, <2>6, StripLine
  <2>8. h[Len(ws)] = s[Len(q[n + 1])]
    <3>1. Len(ws) \in 0 .. Len(ws)
      BY <2>4
    <3> QED BY <2>2, <3>1 DEF h
  <2> QED BY <2>1, <2>3, <2>7, <2>8
<1>8. L \in G
  <2>1. L \in 0 .. L
    BY <1>1
  <2> HIDE DEF G
  <2> QED BY <1>1, <1>6, <1>7, <2>1, BoundedInduction
<1>9. shown = q[L] /\ FlattenSeq(kept) = g[L]
  BY <1>1, <1>2, <1>3, <1>4 DEF FlatParts
<1>10. ParamList(shown) = s[Len(shown)].kept
  BY <1>5 DEF ParamList
<1>11. s[Len(shown)] = [comment |-> FALSE, kept |-> g[L]]
  BY <1>8, <1>9
<1>12. ParamList(shown) = FlattenSeq(kept)
  BY <1>9, <1>10, <1>11
<1> QED BY <1>12 DEF shown, kept

\* A field that was read is the one a line declares.
Matches(a, l) ==
  /\ a.name = l.name /\ a.type = l.type /\ a.array = (l.size >= 0)
  /\ a.const = (l.kind = "spaced" /\ l.size = -1)
  /\ l.size > 0 => a.size = l.size
Agree(ps, ls) == Len(ps) = Len(ls) /\ \A i \in DOMAIN ps : Matches(ps[i], ls[i])

\* One more field and one more line.
LEMMA AgreeMore ==
  ASSUME NEW ps \in Seq(Param), NEW ls \in Seq(InterfaceLine), NEW a \in Param, NEW l \in InterfaceLine,
         Agree(ps, ls), Matches(a, l)
  PROVE  Agree(Append(ps, a), Append(ls, l))
<1> DEFINE qs == Append(ps, a)
           ms == Append(ls, l)
<1>1. /\ Len(ps) \in Nat /\ Len(qs) = Len(ps) + 1 /\ DOMAIN qs = 1 .. Len(ps) + 1 /\ DOMAIN ps = 1 .. Len(ps)
      /\ \A i \in 1 .. Len(ps) : qs[i] = ps[i]
      /\ qs[Len(ps) + 1] = a
  BY AppendFacts
<1>2. /\ Len(ls) \in Nat /\ Len(ms) = Len(ls) + 1
      /\ \A i \in 1 .. Len(ls) : ms[i] = ls[i]
      /\ ms[Len(ls) + 1] = l
  BY AppendFacts
<1> HIDE DEF qs, ms
<1>3. Len(ps) = Len(ls) /\ \A i \in 1 .. Len(ps) : Matches(ps[i], ls[i])
  BY <1>1 DEF Agree
<1>4. ASSUME NEW i \in 1 .. Len(ps) + 1 PROVE Matches(qs[i], ms[i])
  <2>1. CASE i \in 1 .. Len(ps)
    BY <1>1, <1>2, <1>3, <2>1
  <2>2. CASE i = Len(ps) + 1
    BY <1>1, <1>2, <1>3, <2>2
  <2> QED BY <1>1, <2>1, <2>2
<1>5. Agree(qs, ms)
  BY <1>1, <1>2, <1>3, <1>4 DEF Agree
<1> QED BY <1>5 DEF qs, ms

\* Where the words of a line are in the list.
Located(lines, g, n, k, list) ==
  /\ Len(g[n - 1]) \in Nat /\ Len(g[n]) = Len(g[n - 1]) + Len(k) /\ Len(k) \in Nat /\ Len(g[n]) \in Nat
  /\ Len(list) \in Nat /\ Len(g[n]) <= Len(list)
  /\ \A x \in 1 .. Len(k) : list[Len(g[n - 1]) + x] = k[x]
  /\ lines[n] \in InterfaceLine /\ lines[n].name \notin Types

\* A line is behind those ahead of it.
LEMMA LinePlaces ==
  ASSUME NEW lines \in Seq(InterfaceLine), Apart(lines), NEW g, FlatParts(g, ShownWord, KeptLines(lines)),
         NEW n \in 1 .. Len(lines)
  PROVE  Located(lines, g, n, KeptOf(lines[n]), FlattenSeq(KeptLines(lines)))
<1> DEFINE kept == KeptLines(lines)
           L == Len(lines)
<1>1. /\ kept \in Seq(Seq(ShownWord)) /\ Len(kept) = L /\ L \in Nat
      /\ kept[n] = KeptOf(lines[n]) /\ lines[n] \in InterfaceLine /\ lines[n].name \notin Types
  BY KeptTyped
<1>2. n - 1 \in 0 .. L /\ n \in 0 .. L /\ n \in 1 .. L
  BY <1>1
<1> HIDE DEF kept, L
<1>3. g[n - 1] \in Seq(ShownWord) /\ g[n] \in Seq(ShownWord) /\ FlattenSeq(kept) \in Seq(ShownWord)
  BY <1>1, <1>2 DEF FlatParts, kept
<1>4. Len(g[n - 1]) \in Nat /\ Len(g[n]) \in Nat /\ Len(FlattenSeq(kept)) \in Nat
  BY <1>3
<1>5. kept[n] \in Seq(ShownWord)
  BY <1>1, <1>2
<1>6. Len(kept[n]) \in Nat
  BY <1>5
<1>7. /\ Len(g[n]) = Len(g[n - 1]) + Len(kept[n]) /\ Len(g[n]) <= Len(FlattenSeq(kept))
      /\ \A x \in 1 .. Len(kept[n]) : FlattenSeq(kept)[Len(g[n - 1]) + x] = kept[n][x]
  BY <1>1, <1>2 DEF FlatParts, kept
<1> QED BY <1>1, <1>4, <1>6, <1>7 DEF kept, Located

\* A word behind a line begins another one, and is no equals sign.
LEMMA FirstNext ==
  ASSUME NEW lines \in Seq(InterfaceLine), Apart(lines), NEW g, FlatParts(g, ShownWord, KeptLines(lines)),
         NEW n \in 0 .. Len(lines), Len(g[n]) < Len(FlattenSeq(KeptLines(lines)))
  PROVE  FlattenSeq(KeptLines(lines))[Len(g[n]) + 1].text # "="
<1> DEFINE L == Len(lines)
           list == FlattenSeq(KeptLines(lines))
           D == {m \in 0 .. L : m < n \/ Len(g[m]) = Len(g[n]) \/ list[Len(g[n]) + 1].text # "="}
<1>1. L \in Nat /\ Len(KeptLines(lines)) = L
  BY KeptTyped
<1>2. 0 \in D
  <2>1. 0 \in 0 .. L
    BY <1>1
  <2>2. 0 < n \/ 0 = n
    BY <1>1
  <2> QED BY <2>1, <2>2
<1>3. ASSUME NEW m \in 0 .. L - 1, m \in D PROVE m + 1 \in D
  <2> DEFINE k == KeptOf(lines[m + 1])
  <2>1. m + 1 \in 1 .. L /\ m + 1 \in 0 .. L /\ (m + 1) - 1 = m
    BY <1>1
  <2>2. /\ Len(g[m]) \in Nat /\ Len(g[m + 1]) = Len(g[m]) + Len(k) /\ Len(k) \in Nat
        /\ \A x \in 1 .. Len(k) : list[Len(g[m]) + x] = k[x]
        /\ lines[m + 1] \in InterfaceLine /\ lines[m + 1].name \notin Types
    <3>1. /\ Len(g[(m + 1) - 1]) \in Nat /\ Len(g[m + 1]) = Len(g[(m + 1) - 1]) + Len(k) /\ Len(k) \in Nat
          /\ \A x \in 1 .. Len(k) : list[Len(g[(m + 1) - 1]) + x] = k[x]
          /\ lines[m + 1] \in InterfaceLine /\ lines[m + 1].name \notin Types
      <4>1. Located(lines, g, m + 1, k, list)
        BY <2>1, LinePlaces
      <4> QED BY <4>1 DEF Located
    <3> QED BY <2>1, <3>1
  <2>3. Len(k) > 0 => k[1].text # "="
    BY <2>2, KeptFacts
  <2> HIDE DEF k, list
  <2>4. CASE m < n
    <3>1. m + 1 < n \/ m + 1 = n
      BY <1>1, <2>4
    <3> QED BY <2>1, <3>1
  <2>5. CASE m >= n
    <3>1. CASE list[Len(g[n]) + 1].text # "="
      BY <2>1, <3>1
    <3>2. CASE Len(g[m]) = Len(g[n])
      <4>1. CASE Len(k) = 0
        BY <2>1, <2>2, <3>2, <4>1
      <4>2. CASE Len(k) > 0
        <5>1. 1 \in 1 .. Len(k)
          BY <2>2, <4>2
        <5>2. list[Len(g[n]) + 1] = k[1]
          BY <2>2, <3>2, <5>1
        <5> QED BY <2>1, <2>3, <4>2, <5>2
      <4> QED BY <2>2, <4>1, <4>2
    <3>3. m < n \/ Len(g[m]) = Len(g[n]) \/ list[Len(g[n]) + 1].text # "="
      BY <1>3
    <3>4. ~(m < n)
      BY <1>1, <2>5
    <3> QED BY <3>1, <3>2, <3>3, <3>4
  <2> QED BY <1>1, <2>4, <2>5
<1>4. L \in D
  <2>1. L \in 0 .. L
    BY <1>1
  <2> HIDE DEF D, L
  <2> QED BY <1>1, <1>2, <1>3, <2>1, BoundedInduction
<1>5. list = g[L]
  BY <1>1 DEF FlatParts
<1>6. ~(L < n)
  BY <1>1
<1>7. Len(g[L]) # Len(g[n])
  <2>1. Len(g[n]) \in Nat /\ Len(list) \in Nat
    <3>1. g[n] \in Seq(ShownWord) /\ list \in Seq(ShownWord)
      BY <1>1 DEF FlatParts
    <3> HIDE DEF list
    <3> QED BY <3>1
  <2> HIDE DEF list
  <2>2. Len(g[n]) < Len(list)
    BY DEF list
  <2> QED BY <1>5, <2>1, <2>2
<1> HIDE DEF list
<1>8. list[Len(g[n]) + 1].text # "="
  BY <1>4, <1>6, <1>7
<1> QED BY <1>8 DEF list

\* The places where a field begins are those of the declared lines.
LEMMA FieldsOf ==
  ASSUME NEW lines \in Seq(InterfaceLine), Apart(lines), NEW g, FlatParts(g, ShownWord, KeptLines(lines)),
         NEW n \in 1 .. Len(lines), NEW x \in 1 .. Len(KeptOf(lines[n]))
  PROVE  Len(g[n - 1]) + x \in Fields(FlattenSeq(KeptLines(lines))) <=> x = 1 /\ Declared(lines[n])
<1> DEFINE list == FlattenSeq(KeptLines(lines))
           l == lines[n]
           k == KeptOf(l)
           c == Len(g[n - 1])
<1>1. /\ c \in Nat /\ c + Len(k) <= Len(list) /\ Len(list) \in Nat /\ Len(k) \in Nat
      /\ \A y \in 1 .. Len(k) : list[c + y] = k[y]
      /\ l \in InterfaceLine /\ l.name \notin Types
  <2>1. Located(lines, g, n, k, list)
    BY LinePlaces
  <2> QED BY <2>1 DEF Located
<1>2. /\ \A y \in 1 .. Len(k) : k[y].text \in Types => y = 1
      /\ Declared(l) => Len(k) >= 2 /\ ~k[1].tab /\ k[1].text = l.type /\ k[2].alpha
      /\ ~Declared(l) /\ Len(k) > 0 /\ k[1].text \in Types /\ ~k[1].tab => Len(k) >= 2 /\ ~k[2].alpha
  BY <1>1, KeptFacts
<1>3. Declared(l) => l.type \in Types
  BY DEF Declared
<1>4. x \in 1 .. Len(k)
  OBVIOUS
<1> HIDE DEF list, l, k, c
<1>5. list[c + x] = k[x]
  BY <1>1, <1>4
<1>6. ASSUME c + x \in Fields(list) PROVE x = 1 /\ Declared(l)
  <2>1. ~list[c + x].tab /\ list[c + x].text \in Types /\ list[(c + x) + 1].alpha
    BY <1>6 DEF Fields, ValidName
  <2>2. x = 1
    BY <1>2, <1>4, <1>5, <2>1
  <2>3. Declared(l)
    <3> SUFFICES ASSUME ~Declared(l) PROVE FALSE
      OBVIOUS
    <3>1. Len(k) >= 2 /\ ~k[2].alpha
      BY <1>1, <1>2, <1>4, <1>5, <2>1, <2>2
    <3>2. 2 \in 1 .. Len(k) /\ (c + x) + 1 = c + 2
      BY <1>1, <2>2, <3>1
    <3>3. list[c + 2] = k[2]
      BY <1>1, <3>2
    <3> QED BY <2>1, <3>1, <3>2, <3>3
  <2> QED BY <2>2, <2>3
<1>7. ASSUME x = 1, Declared(l) PROVE c + x \in Fields(list)
  <2>1. Len(k) >= 2 /\ ~k[1].tab /\ k[1].text \in Types /\ k[2].alpha
    BY <1>2, <1>3, <1>7
  <2>2. 2 \in 1 .. Len(k) /\ (c + x) + 1 = c + 2 /\ c + x \in 1 .. Len(list) - 1
    BY <1>1, <1>7, <2>1
  <2>3. list[c + 2] = k[2]
    BY <1>1, <2>2
  <2> QED BY <1>5, <1>7, <2>1, <2>2, <2>3 DEF Fields, ValidName
<1> QED BY <1>6, <1>7 DEF list, l, k, c

\* What is read where a declared line is.
LEMMA ReadAsDeclared ==
  ASSUME NEW lines \in Seq(InterfaceLine), Apart(lines), NEW g, FlatParts(g, ShownWord, KeptLines(lines)),
         NEW n \in 1 .. Len(lines), Declared(lines[n]), NEW d
  PROVE  Matches(ParamAt(FlattenSeq(KeptLines(lines)), d, Len(g[n - 1]) + 1), lines[n])
<1> DEFINE list == FlattenSeq(KeptLines(lines))
           l == lines[n]
           k == KeptOf(l)
           c == Len(g[n - 1])
           i == c + 1
           p == ParamAt(list, d, i)
<1>1. /\ c \in Nat /\ Len(g[n]) = c + Len(k) /\ c + Len(k) <= Len(list) /\ Len(list) \in Nat /\ Len(k) \in Nat
      /\ \A y \in 1 .. Len(k) : list[c + y] = k[y]
      /\ l \in InterfaceLine /\ l.name \notin Types
  <2>1. Located(lines, g, n, k, list)
    BY LinePlaces
  <2> QED BY <2>1 DEF Located
<1>2. /\ Len(k) >= 2 /\ k[1].text = l.type /\ k[1].size = l.size /\ k[2].text = l.name
      /\ l.kind = "spaced" => Len(k) = 4 /\ k[3].text = "="
      /\ l.kind = "default" => Len(k) = 3 /\ k[3].text # "="
      /\ l.kind \notin {"spaced", "default"} => Len(k) = 2
  BY <1>1, KeptFacts
<1>3. Len(g[n]) < Len(list) => list[Len(g[n]) + 1].text # "="
  <2>1. n \in 0 .. Len(lines)
    OBVIOUS
  <2> QED BY <2>1, FirstNext
<1>4. l.size \in Nat \cup {-1}
  BY <1>1, KindsOfLine
<1> HIDE DEF list, l, k, c
<1>5. list[i] = k[1] /\ list[i + 1] = k[2]
  <2>1. 1 \in 1 .. Len(k) /\ 2 \in 1 .. Len(k) /\ i + 1 = c + 2
    BY <1>1, <1>2
  <2> QED BY <1>1, <2>1
<1>6. CASE l.size # -1
  <2>1. p = InterfaceParam(l.type, l.name, TRUE, GetArraySize(k[1], d[i]), FALSE)
    BY <1>2, <1>5, <1>6 DEF ParamAt, IsArray
  <2>2. l.size > 0 => GetArraySize(k[1], d[i]) = l.size
    BY <1>2, <1>4 DEF GetArraySize
  <2>3. (l.size >= 0) = TRUE /\ (l.kind = "spaced" /\ l.size = -1) = FALSE
    BY <1>4, <1>6
  <2> HIDE DEF p
  <2>4. p.type = l.type /\ p.name = l.name /\ p.array = TRUE /\ p.size = GetArraySize(k[1], d[i]) /\ p.const = FALSE
    BY <2>1 DEF InterfaceParam
  <2>5. Matches(p, l)
    BY <2>2, <2>3, <2>4 DEF Matches
  <2> QED BY <2>5 DEF p, list, l, k, c
<1>7. CASE l.size = -1
  <2> DEFINE q == i + 3 <= Len(list) /\ IsConst(list[i + 2])
  <2>1. p = InterfaceParam(l.type, l.name, FALSE, 0, q)
    BY <1>2, <1>5, <1>7 DEF ParamAt, IsArray
  <2>2. q = (l.kind = "spaced")
    <3>1. CASE l.kind = "spaced"
      <4>1. 3 \in 1 .. Len(k) /\ i + 2 = c + 3 /\ i + 3 <= Len(list)
        <5>1. Len(k) = 4
          BY <1>2, <3>1
        <5> QED BY <1>1, <5>1
      <4>2. list[i + 2] = k[3]
        <5>1. list[c + 3] = k[3]
          BY <1>1, <4>1
        <5> QED BY <4>1, <5>1
      <4> QED BY <1>2, <3>1, <4>1, <4>2 DEF IsConst
    <3>2. CASE l.kind = "default"
      <4>1. 3 \in 1 .. Len(k) /\ i + 2 = c + 3
        <5>1. Len(k) = 3
          BY <1>2, <3>2
        <5> QED BY <1>1, <5>1
      <4>2. list[i + 2] = k[3]
        <5>1. list[c + 3] = k[3]
          BY <1>1, <4>1
        <5> QED BY <4>1, <5>1
      <4> QED BY <1>2, <3>2, <4>2 DEF IsConst
    <3>3. CASE l.kind \notin {"spaced", "default"}
      <4>1. ASSUME i + 3 <= Len(list) PROVE ~IsConst(list[i + 2])
        <5>1. Len(g[n]) < Len(list) /\ Len(g[n]) + 1 = i + 2
          BY <1>1, <1>2, <3>3, <4>1
        <5>2. list[Len(g[n]) + 1].text # "="
          BY <1>3, <5>1
        <5> QED BY <5>1, <5>2 DEF IsConst
      <4> QED BY <3>3, <4>1
    <3> QED BY <3>1, <3>2, <3>3
  <2> HIDE DEF p, q
  <2>3. p.type = l.type /\ p.name = l.name /\ p.array = FALSE /\ p.const = q
    BY <2>1 DEF InterfaceParam
  <2>4. (l.size >= 0) = FALSE /\ ~(l.size > 0) /\ (l.kind = "spaced" /\ l.size = -1) = (l.kind = "spaced")
    BY <1>7
  <2>5. Matches(p, l)
    BY <2>2, <2>3, <2>4 DEF Matches
  <2> QED BY <2>5 DEF p, list, l, k, c
<1> QED BY <1>4, <1>6, <1>7

\* The fields that are read are the declared ones, in their order.
LEMMA InfoFaithful ==
  ASSUME NEW lines \in Seq(InterfaceLine), Apart(lines), NEW info \in Infos(lines)
  PROVE  Agree(info, DeclaredOf(lines))
<1> DEFINE L == Len(lines)
           kept == KeptLines(lines)
           list == FlattenSeq(KeptLines(lines))
<1>1. /\ L \in Nat /\ L \in 0 .. L /\ kept \in Seq(Seq(ShownWord)) /\ Len(kept) = L
  BY KeptTyped
<1>2. PICK g : FlatParts(g, ShownWord, kept)
  BY <1>1, FlattenPlaces
<1>3. list \in Seq(ShownWord) /\ list = g[L]
  BY <1>1, <1>2 DEF FlatParts
<1>4. PICK d \in Sizes(list) : info = GenParamIft(list, d)
  BY ListIs DEF Infos, Sizes
<1>5. PICK P \in [0 .. Len(list) -> Seq(Param)] : ParamLoop(P, list, d) /\ GenParamIft(list, d) = P[Len(list)]
  BY <1>3, ParamLoops
<1>6. PICK D \in [0 .. L -> Seq(InterfaceLine)] : DeclaredLoop(D, lines) /\ DeclaredOf(lines) = D[L]
  BY DeclaredLoops
<1>7. Len(list) \in Nat /\ DOMAIN list = 1 .. Len(list)
  BY <1>3
<1>8. ASSUME NEW i \in 0 .. Len(list) - 1 PROVE P[i + 1] = ParamStep(list, d, P[i], i + 1)
  <2>1. i + 1 \in DOMAIN list
    BY <1>7
  <2>2. Places(list)[i + 1] = i + 1
    BY <2>1 DEF Places
  <2> HIDE DEF list
  <2> QED BY <2>2, <1>5 DEF ParamLoop
<1> DEFINE G == {n \in 0 .. L : Agree(P[Len(g[n])], D[n])}
<1>9. 0 \in G
  <2>1. g[0] = << >> /\ P[0] = << >> /\ D[0] = << >>
    BY <1>2, <1>5, <1>6 DEF FlatParts, ParamLoop, DeclaredLoop
  <2>2. Len(g[0]) = 0
    BY <2>1
  <2>3. Agree(<< >>, << >>)
    BY DEF Agree
  <2>4. 0 \in 0 .. L
    BY <1>1
  <2> HIDE DEF list, L
  <2> QED BY <2>1, <2>2, <2>3, <2>4
<1>10. ASSUME NEW n \in 0 .. L - 1, n \in G PROVE n + 1 \in G
  <2> DEFINE c == Len(g[n])
             l == lines[n + 1]
             k == KeptOf(lines[n + 1])
             H == {x \in 0 .. Len(k) : Agree(P[c + x], IF x = 0 THEN D[n] ELSE D[n + 1])}
  <2>1. n + 1 \in 1 .. L /\ n + 1 \in 0 .. L /\ (n + 1) - 1 = n /\ n \in 0 .. L
    BY <1>1
  <2>2. /\ c \in Nat /\ Len(g[n + 1]) = c + Len(k) /\ Len(k) \in Nat /\ c + Len(k) <= Len(list)
        /\ l \in InterfaceLine /\ l.name \notin Types
    <3>1. Located(lines, g, n + 1, k, list)
      BY <1>2, <2>1, LinePlaces
    <3> HIDE DEF k, list
    <3> QED BY <2>1, <3>1 DEF Located
  <2>3. ASSUME NEW x \in 1 .. Len(k) PROVE c + x \in Fields(list) <=> x = 1 /\ Declared(l)
    <3>1. Len(g[(n + 1) - 1]) + x \in Fields(list) <=> x = 1 /\ Declared(l)
      BY <1>2, <2>1, FieldsOf
    <3> QED BY <2>1, <3>1
  <2>4. Declared(l) => Matches(ParamAt(list, d, c + 1), l) /\ Len(k) >= 2
    <3>1. Declared(l) => Matches(ParamAt(list, d, Len(g[(n + 1) - 1]) + 1), l)
      BY <1>2, <2>1, ReadAsDeclared
    <3>2. Declared(l) => Len(k) >= 2
      BY <2>2, KeptFacts
    <3> QED BY <2>1, <3>1, <3>2
  <2>5. D[n + 1] = DeclaredStep(D[n], l) /\ D[n] \in Seq(InterfaceLine)
    BY <1>6, <2>1 DEF DeclaredLoop
  <2>6. Agree(P[c], D[n])
    BY <1>10
  <2>7. \A i \in Fields(list) : ParamAt(list, d, i) \in Param
    BY <1>3, <1>4, ParamIs
  <2> HIDE DEF c, l, k, list, L
  <2>8. 0 \in H
    <3>1. c + 0 = c /\ 0 \in 0 .. Len(k)
      BY <2>2
    <3> QED BY <2>6, <3>1
  <2>9. ASSUME NEW x \in 0 .. Len(k) - 1, x \in H PROVE x + 1 \in H
    <3>1. /\ x + 1 \in 1 .. Len(k) /\ x + 1 \in 0 .. Len(k) /\ x + 1 # 0 /\ c + x \in 0 .. Len(list) - 1
          /\ c + x \in 0 .. Len(list) /\ (c + x) + 1 = c + (x + 1)
      BY <1>7, <2>2
    <3>2. P[c + (x + 1)] = ParamStep(list, d, P[c + x], c + (x + 1))
      BY <1>8, <3>1
    <3>3. P[c + x] \in Seq(Param)
      BY <1>5, <3>1
    <3>4. CASE x = 0 /\ Declared(l)
      <4>1. c + (x + 1) = c + 1 /\ c + 1 \in Fields(list) /\ P[c + x] = P[c]
        BY <2>2, <2>3, <3>1, <3>4
      <4>2. P[c + (x + 1)] = Append(P[c], ParamAt(list, d, c + 1)) /\ P[c] \in Seq(Param)
        BY <3>2, <3>3, <4>1 DEF ParamStep
      <4>3. D[n + 1] = Append(D[n], l)
        BY <2>5, <3>4 DEF DeclaredStep
      <4>4. ParamAt(list, d, c + 1) \in Param
        BY <2>7, <4>1
      <4>5. Agree(P[c + (x + 1)], D[n + 1])
        BY <2>2, <2>4, <2>5, <2>6, <3>4, <4>2, <4>3, <4>4, AgreeMore
      <4> QED BY <3>1, <4>5
    <3>5. CASE x = 0 /\ ~Declared(l)
      <4>1. c + (x + 1) \notin Fields(list) /\ P[c + x] = P[c]
        BY <2>2, <2>3, <3>1, <3>5
      <4>2. P[c + (x + 1)] = P[c]
        BY <3>2, <4>1 DEF ParamStep
      <4>3. D[n + 1] = D[n]
        BY <2>5, <3>5 DEF DeclaredStep
      <4> QED BY <2>6, <3>1, <4>2, <4>3
    <3>6. CASE x # 0
      <4>1. x + 1 # 1
        BY <3>6
      <4>2. c + (x + 1) \notin Fields(list)
        BY <2>3, <3>1, <4>1
      <4>3. P[c + (x + 1)] = P[c + x]
        BY <3>2, <4>2 DEF ParamStep
      <4>4. Agree(P[c + x], D[n + 1])
        BY <2>9, <3>6
      <4> QED BY <3>1, <4>3, <4>4
    <3> QED BY <3>4, <3>5, <3>6
  <2>10. Len(k) \in H
    <3>1. Len(k) \in 0 .. Len(k)
      BY <2>2
    <3> HIDE DEF H
    <3> QED BY <2>2, <2>8, <2>9, <3>1, BoundedInduction
  <2>11. Agree(P[c + Len(k)], D[n + 1])
    <3>1. CASE Len(k) = 0
      <4>1. ~Declared(l)
        BY <2>4, <3>1
      <4>2. D[n + 1] = D[n] /\ c + Len(k) = c
        BY <2>2, <2>5, <3>1, <4>1 DEF DeclaredStep
      <4> QED BY <2>6, <4>2
    <3>2. CASE Len(k) # 0
      BY <2>10, <3>2
    <3> QED BY <3>1, <3>2
  <2> QED BY <2>1, <2>2, <2>11
<1>11. L \in G
  <2> HIDE DEF G, L
  <2> QED BY <1>1, <1>9, <1>10, BoundedInduction
<1>12. Agree(P[Len(g[L])], D[L])
  BY <1>11
<1> HIDE DEF list, L
<1>13. Agree(P[Len(list)], D[L])
  BY <1>3, <1>12
<1> QED BY <1>4, <1>5, <1>6, <1>13
\* The json files hold for each interface what its definition may be read as.
LEMMA ParsedInfos ==
  ASSUME NEW lines \in [ToSet(Interfaces) -> Seq(InterfaceLine)], NEW j \in ParseInterface(lines),
         NEW itf \in ToSet(Interfaces)
  PROVE  j.maps = Maps /\ j.infos[itf] \in Infos(lines[itf])
<1>1. PICK infos \in ChosenInfos(lines) : j = [maps |-> Maps, infos |-> infos]
  BY DEF ParseInterface, ChosenInfos
<1>2. j.maps = Maps /\ j.infos = infos
  BY <1>1
<1> QED BY <1>2, ChosenOnes
=============================================================================
