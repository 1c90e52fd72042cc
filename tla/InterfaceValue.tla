--------------------------- MODULE InterfaceValue ---------------------------
(***************************************************************************)
(* The values of an interface (InterfaceVal of corpus_handle/interface.rs  *)
(* and the types of corpus_handle/ty): a tree built from the fields of the *)
(* interface, the random values put at its leaves, one after the other,    *)
(* and the text it is printed as.                                          *)
(*                                                                         *)
(* A tree is the sequence of its nodes in the order in which they are      *)
(* reached: an interface, then all that is below it.                       *)
(*                                                                         *)
(* A text is a sequence of characters, except that a name or a number is   *)
(* one element of it: no step takes a part of those.                       *)
(***************************************************************************)
EXTENDS InterfaceParser

CONSTANTS
  Modulus,    \* how many integers there are of each of the four widths: 2^8
              \* to 2^64 in the code, fewer do as well
  Lengths,    \* bound: the lengths in bytes given to a string, among 1..31
  RandomChars \* bound: the characters drawn

ASSUME ValueAssumption ==
  /\ DOMAIN Modulus = {8, 16, 32, 64}
  /\ \A w \in DOMAIN Modulus : Modulus[w] \in Nat \ {0} /\ Modulus[w] % 2 = 0
  /\ \A w, v \in DOMAIN Modulus : w < v => Modulus[v] % Modulus[w] = 0
  /\ Lengths \subseteq 1 .. 31 /\ Lengths # {}
  /\ RandomChars \subseteq STRING

-----------------------------------------------------------------------------
(* Integers: a value is drawn with its width, kept in 64 bits, and read     *)
(* with its width                                                           *)

Count(pad) == Modulus[IF pad < 0 THEN -pad ELSE pad]

Lowest(pad) == IF pad < 0 THEN -(Count(pad) \div 2) ELSE 0
Highest(pad) == (IF pad < 0 THEN Count(pad) \div 2 ELSE Count(pad)) - 1

\* gen_integer draws uniformly; bound: the model draws the ends of the range.
GenInteger(pad) == {n % Modulus[64] : n \in {Lowest(pad), Highest(pad)}}

IntValue(n, pad) ==
  LET low == n % Count(pad) IN
  IF low > Highest(pad) THEN low - Count(pad) ELSE low

-----------------------------------------------------------------------------
(* The leaves                                                               *)

IntType(pad, n) == [op |-> "int", pad |-> pad, int |-> n]
BoolType == [op |-> "bool", bool |-> FALSE]
DoubleType(d) == [op |-> "double", double |-> d]
CharType(c) == [op |-> "char", char |-> c]
StringType(len, s) == [op |-> "string", len |-> len, string |-> s]
ArrayType(inner, len, elems) == [op |-> "array", inner |-> inner, len |-> len, elems |-> elems]

\* An interface: how many nodes are below it, and the tree of it and of its val.
Itf(name, type, array, below) ==
  [op |-> "itf", name |-> name, type |-> type, array |-> array, below |-> below]
InterfaceVal(name, type, array, val) == <<Itf(name, type, array, Len(val))>> \o val

\* The leaves a field of a type of its own may start as.  A string with the
\* name "node" has no length: it will be the name of a node.
MetaLeaf(arg) ==
  IF arg.array THEN {ArrayType(arg.type, arg.size, << >>)} ELSE
  CASE arg.type = "string" ->
         {StringType(len, << >>) : len \in IF arg.name = "node" THEN {0} ELSE Lengths}
    [] arg.type \in Floats -> {DoubleType("0")}
    [] arg.type \in Chars -> {CharType("\\0")}
    [] arg.type \in DOMAIN Pad -> {IntType(Pad[arg.type], 0)}
    [] arg.type = "bool" -> {BoolType}

\* The fields of the interface of a type; there is none for "wstring".
Args(itfs, type) == itfs.infos[itfs.maps[type]]

\* What a field may be constructed as, given what each type below it may be.
\* A field which is a constant is a field like the others; an array of
\* interfaces gets a random number of elements, fewer than its size.
FieldTrees(a, done) ==
  IF a.type \in MetaTypes
  THEN {InterfaceVal(a.name, a.type, a.array, <<leaf>>) : leaf \in MetaLeaf(a)}
  ELSE LET layer == {InterfaceVal(a.name, a.type, a.array, val) : val \in done[a.type]} IN
       IF a.array THEN {FlattenSeq(elems) : elems \in UNION {[1 .. n -> layer] : n \in 0 .. a.size - 1}}
       ELSE layer

\* What the fields of an interface may be constructed as, one after the other.
TreesOf(args, done) ==
  FoldLeft(LAMBDA vals, a : UNION {{val \o tree : tree \in FieldTrees(a, done)} : val \in vals},
           {<< >>}, args)

\* What each type may be constructed as, from the innermost ones outwards: in
\* no more layers than there are interfaces, as none contains itself.
Layer(itfs, done) ==
  [type \in {t \in DOMAIN itfs.maps :
              \A a \in ToSet(Args(itfs, t)) : a.type \in MetaTypes \cup DOMAIN done} |->
     TreesOf(Args(itfs, type), done)]
Layers(itfs) == FoldLeft(LAMBDA done, itf : Layer(itfs, done), << >>, Interfaces)

\* Whether the layers of a type can be constructed, and what the parts of an
\* interface of this type may be.
Constructible(itfs, type) == type \in DOMAIN Layers(itfs)
ConstructItfLayers(itfs, type) == Layers(itfs)[type]

-----------------------------------------------------------------------------
(* Generation: one leaf, or one element of an array, at a time              *)

Leaves(tree) == {i \in DOMAIN tree : tree[i].op # "itf"}

\* A string without length is one of the nodes listed when it is drawn.
NeedsNode(leaf) ==
  (leaf.op = "string" /\ leaf.len = 0) \/ (leaf.op = "array" /\ leaf.inner = "string")

\* Characters, of one to four bytes each, are drawn until the bytes are enough.
GenString(len, nodes) ==
  IF len = 0 THEN {<<n>> : n \in nodes}
  ELSE UNION {[1 .. n -> RandomChars] : n \in (len + 3) \div 4 .. len}

\* What an element of an array may be: of an integer, what the unsigned
\* integer of its width may be.
GenElement(inner, nodes) ==
  CASE inner = "string" -> {StringType(0, s) : s \in GenString(0, nodes)}
    [] inner \in Chars -> {CharType(c) : c \in RandomChars}
    [] inner \in Floats -> {DoubleType("0.5")}
    [] inner = "bool" -> {BoolType}
    [] inner \in DOMAIN Pad ->
         LET pad == IF Pad[inner] < 0 THEN -Pad[inner] ELSE Pad[inner] IN
         {IntType(pad, n) : n \in GenInteger(pad)}

\* What a leaf may be after a step: the value drawn for a Boolean is not kept.
GenLeaf(leaf, nodes) ==
  CASE leaf.op = "int" -> {IntType(leaf.pad, n) : n \in GenInteger(leaf.pad)}
    [] leaf.op = "bool" -> {leaf}
    [] leaf.op = "double" -> {DoubleType("0.5")}
    [] leaf.op = "char" -> {CharType(c) : c \in RandomChars}
    [] leaf.op = "string" -> {StringType(leaf.len, s) : s \in GenString(leaf.len, nodes)}
    [] leaf.op = "array" ->
         {[leaf EXCEPT !.elems = Append(@, e)] : e \in GenElement(leaf.inner, nodes)}

\* Mutant: the last element is not drawn.
LeafDoneShort(leaf) == leaf.op = "array" => Len(leaf.elems) >= leaf.len - 1

\* An array takes as many steps as it is long.
LeafDone(leaf) == leaf.op = "array" => Len(leaf.elems) = leaf.len

-----------------------------------------------------------------------------
(* Text                                                                     *)

Comma == <<",", " ">>
Colon == <<":", " ">>

Pop2(text) == SubSeq(text, 1, Len(text) - 2)

\* Mutant: find in place of rfind.
StripFirst(text) == SubSeq(text, 1, SelectInSeq(text, LAMBDA c : c = ",") - 1)

\* Everything from the last comma on goes; everything, when there is none.
Strip(text) == SubSeq(text, 1, SelectLastInSeq(text, LAMBDA c : c = ",") - 1)

\* Elements end with two characters, of which both go at the end; the element
\* of an array of characters ends with one.
ArrayText(array) ==
  LET Element(e) ==
        CASE e.op = "int" -> <<ToString(IntValue(e.int, e.pad))>> \o Comma
          [] e.op = "bool" -> <<ToString(e.bool)>> \o Comma
          [] e.op = "double" -> <<e.double>> \o Comma
          [] e.op = "string" -> e.string \o Comma
          [] e.op = "char" -> <<e.char, " ">>
  IN  Pop2(FlattenSeq([i \in DOMAIN array.elems |-> Element(array.elems[i])]))

\* The leaves called "sec" are drawn again when they are printed, each for
\* itself, as an integer of 16 bits with a sign, whatever their type.
SecLeaves(tree) == {i \in Leaves(tree) : tree[i].op = "int" /\ tree[i - 1].name = "sec"}

LeafText(name, leaf, sec) ==
  CASE leaf.op = "int" ->
         <<name>> \o Colon \o <<ToString(IF name = "sec" THEN sec ELSE IntValue(leaf.int, leaf.pad))>>
    [] leaf.op = "bool" -> <<name>> \o Colon \o <<ToString(leaf.bool)>>
    [] leaf.op = "double" -> <<name>> \o Colon \o <<leaf.double>>
    [] leaf.op = "char" -> <<name>> \o Colon \o <<leaf.char>>
    [] leaf.op = "string" -> <<name>> \o Colon \o <<"{", "'">> \o leaf.string \o <<"'", "}">>
    [] leaf.op = "array" -> ArrayText(leaf)

\* Only the name of a type without brackets is the name of a type of its own.
Braced(v) == v.type \notin MetaTypes \/ v.array

\* The parts of the interface at i, in their order: what is below it, and not
\* below one of those before.
Parts(tree, i) ==
  SelectSeq([j \in DOMAIN tree |-> j], LAMBDA j :
    /\ j > i /\ j <= i + tree[i].below
    /\ \A k \in i + 1 .. j - 1 : tree[k].op = "itf" => k + tree[k].below < j)

GetValue(tree, sec) ==
  LET value[i \in DOMAIN tree] ==
        LET Part(text, j) ==
              CASE tree[j].op # "itf" -> text \o LeafText(tree[i].name, tree[j], sec[j]) \o Comma
                [] tree[j].op = "itf" /\ ~Braced(tree[j]) -> text \o value[j]
                [] tree[j].op = "itf" /\ Braced(tree[j]) ->
                     Strip(text \o <<tree[j].name>> \o Colon \o <<"{", " ">> \o value[j])
                       \o <<"}">> \o Comma
        IN  FoldLeft(Part, << >>, Parts(tree, i))
  IN  value[1]
=============================================================================
