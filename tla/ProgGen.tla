------------------------------- MODULE ProgGen -------------------------------
(***************************************************************************)
(* The programs a fuzzer generates for the nodes it has found (Prog of     *)
(* corpus_handle/prog.rs): a node is drawn until one has an interface, one *)
(* of its interfaces is filled with random values, leaf by leaf, while     *)
(* nodes come and go, and printed as a command.                            *)
(***************************************************************************)
EXTENDS Discovery

VARIABLES
  drawn,  \* the node that was drawn last
  prog    \* the program, with its leaves that are left to generate; history:
          \* the nodes heard of meanwhile, and whether once there was none

genVars == <<discoveryVars, drawn, prog>>

NoProg == [itf |-> "", node |-> "", tree |-> << >>, left |-> {},
           sec |-> << >>, stream |-> << >>, heard |-> {}, mute |-> FALSE]

Init ==
  /\ DiscoveryInit
  /\ drawn = [f \in Fuzzers |-> 0]
  /\ prog = [f \in Fuzzers |-> NoProg]

-----------------------------------------------------------------------------
(* Choice                                                                   *)

Commands == [service_server |-> "ros2 service call ", node_subscribers |-> "ros2 topic pub --once ",
             action_server |-> "ros2 action send_goal ", param |-> "ros2 param set "]

\* The interfaces of one kind, by their names.
OfKind(node, itf) ==
  IF itf = "param" THEN node.params
  ELSE [k \in {key[2] : key \in {d \in DOMAIN node.itfs : d[1] = itf}} |-> node.itfs[<<itf, k>>]]

GetAvailableInterface(node) == {itf \in DOMAIN Commands : OfKind(node, itf) # << >>}

\* Mutant: a node with parameters only is taken for one without interfaces.
BareNoParam(node) ==
  \A itf \in {"node_subscribers", "service_server", "action_server"} : OfKind(node, itf) = << >>

\* What the loop of choice_node goes on for.
Bare(node) ==
  /\ OfKind(node, "node_subscribers") = << >>
  /\ OfKind(node, "service_server") = << >>
  /\ OfKind(node, "action_server") = << >>
  /\ OfKind(node, "param") = << >>

\* The first draw fails without a node.
BeginChoice(f) ==
  /\ TargetsDone(f) /\ scenario.generates
  /\ IF nodes[f] = << >>
     THEN Panic(f, "nodes") /\ UNCHANGED drawn
     ELSE /\ \E i \in DOMAIN nodes[f] : drawn' = [drawn EXCEPT ![f] = i]
          /\ phase' = [phase EXCEPT ![f] = "choosing"]
          /\ UNCHANGED panicked
  /\ UNCHANGED <<worldVars, cache, listed, known, todo, work, nodes, prog>>

Redraw(f, i) ==
  /\ phase[f] = "choosing" /\ Bare(nodes[f][drawn[f]])
  /\ i \in DOMAIN nodes[f]
  /\ drawn' = [drawn EXCEPT ![f] = i]
  /\ UNCHANGED <<discoveryVars, prog>>

\* gen_topic, gen_service, gen_action or gen_param, up to the values.
ChooseInterface(f) ==
  /\ phase[f] = "choosing" /\ ~Bare(nodes[f][drawn[f]])
  /\ LET node == nodes[f][drawn[f]] IN
     \E itf \in GetAvailableInterface(node) : \E name \in DOMAIN OfKind(node, itf) :
       LET tree == OfKind(node, itf)[name] IN
       prog' = [prog EXCEPT ![f] =
         [NoProg EXCEPT !.itf = itf, !.node = node.name, !.tree = tree, !.left = Leaves(tree)]]
  /\ phase' = [phase EXCEPT ![f] = "generating"]
  /\ UNCHANGED <<worldVars, cache, listed, known, todo, work, nodes, panicked, drawn>>

-----------------------------------------------------------------------------
(* Values                                                                   *)

\* The generation of a value ends at its first error; the program is sent all
\* the same.
GenValue(f) ==
  /\ phase[f] = "generating"
  /\ IF prog[f].left = {}
     THEN phase' = [phase EXCEPT ![f] = "generated"] /\ UNCHANGED prog
     ELSE LET i == Min(prog[f].left)
              leaf == prog[f].tree[i]
          IN  IF NeedsNode(leaf) /\ alive = {}
              THEN /\ phase' = [phase EXCEPT ![f] = "generated"]
                   /\ prog' = [prog EXCEPT ![f].mute = TRUE]
              ELSE /\ \E l \in GenLeaf(leaf, alive) :
                        prog' = [prog EXCEPT
                          ![f].tree = [@ EXCEPT ![i] = l],
                          ![f].heard = IF NeedsNode(leaf) THEN @ \cup alive ELSE @,
                          ![f].left = IF LeafDone(l) THEN @ \ {i} ELSE @]
                   /\ UNCHANGED phase
  /\ UNCHANGED <<worldVars, cache, listed, known, todo, work, nodes, panicked, drawn>>

\* The last two characters are those of a comma, unless there are no fields.
\* A parameter loses its colons, all of them.
CallStream(p, sec) ==
  LET value == GetValue(p.tree, sec) IN
  IF p.itf # "param"
  THEN Pop2(<<Commands[p.itf], p.tree[1].name, " ", p.tree[1].type, " ", "\"", "{">> \o value) \o <<"}", "\"">>
  ELSE Pop2(SelectSeq(<<Commands[p.itf], p.node, " ">> \o value, LAMBDA c : c # ":"))

\* bound: of the seconds drawn, only those at the ends of the range.
Serialization(f) ==
  /\ phase[f] = "generated"
  /\ \E sec \in [SecLeaves(prog[f].tree) -> {Lowest(-16), Highest(-16)}] :
       prog' = [prog EXCEPT ![f] = [@ EXCEPT !.sec = sec, !.stream = CallStream(prog[f], sec)]]
  /\ phase' = [phase EXCEPT ![f] = "sent"]
  /\ UNCHANGED <<worldVars, cache, listed, known, todo, work, nodes, panicked, drawn>>

GenerateCall(f) ==
  \/ BeginChoice(f) \/ (\E i \in DOMAIN nodes[f] : Redraw(f, i))
  \/ ChooseInterface(f) \/ GenValue(f) \/ Serialization(f)

Next ==
  \/ (Upgrade \/ Prepare \/ \E n \in Nodes : NodeChanges(n)) /\ UNCHANGED <<drawn, prog>>
  \/ \E f \in scenario.fuzzers :
       \/ (GenTargets(f) \/ Kill(f)) /\ UNCHANGED <<drawn, prog>>
       \/ GenerateCall(f)

\* Each draw is uniform and independent of the others: a fuzzer that goes on
\* drawing draws, at some time, a node with an interface.
Draw(f) == \E i \in DOMAIN nodes[f] : ~Bare(nodes[f][i]) /\ Redraw(f, i)
Fairness == \A f \in Fuzzers : WF_genVars(Draw(f)) /\ WF_genVars(ChooseInterface(f))

Spec == Init /\ [][Next]_genVars /\ Fairness

-----------------------------------------------------------------------------
(* Properties                                                               *)

\* Every variable has its type.
TypeOK ==
  /\ itfs = NoItfs \/ DOMAIN itfs.infos = ToSet(Interfaces)
  /\ version \in DOMAIN Apps
  /\ alive \subseteq Nodes
  /\ \A i \in DOMAIN cache : cache[i] = LineEnd \/ cache[i].name \in Nodes \ Skipped
  /\ \A f \in Fuzzers :
       /\ phase[f] \in Asking \cup {"off", "choosing", "generating", "generated", "sent"}
       /\ listed[f] \subseteq Nodes
       /\ todo[f] \subseteq listed[f] \ Skipped
       /\ DOMAIN known[f] \subseteq Nodes
       /\ \A i \in DOMAIN nodes[f] : nodes[f][i].name \in listed[f] \ Skipped
       /\ phase[f] = "choosing" => drawn[f] \in DOMAIN nodes[f]
  /\ {together, cut} \subseteq BOOLEAN

\* The fields of an interface are those its definition declares with a name
\* that ends with a letter and no value right after it, response and constants
\* with a spaced value included, in their order and with their sizes, if no
\* field is called like a type (gen_param_ift looks at two words at a time).  A
\* name stands for its interface unless a later one has the same last part.
Declared(line) ==
  line.kind \in {"field", "spaced", "default", "noted"} /\ line.alpha /\ line.type \in Types
DeclaredOf(lines) == FoldLeft(LAMBDA ds, l : IF Declared(l) THEN Append(ds, l) ELSE ds, << >>, lines)
ParseFaithful ==
  itfs # NoItfs => \A k \in DOMAIN Interfaces :
    LET itf == Interfaces[k]
        lines == scenario.lines[itf]
        declared == DeclaredOf(lines)
        info == itfs.infos[itf]
    IN  /\ (\A i \in DOMAIN lines : lines[i].name \notin Types) =>
             /\ Len(info) = Len(declared)
             /\ \A i \in DOMAIN info :
                  /\ info[i].name = declared[i].name /\ info[i].type = declared[i].type
                  /\ info[i].array = (declared[i].size >= 0)
                  /\ info[i].const = (declared[i].kind = "spaced" /\ declared[i].size = -1)
                  /\ declared[i].size > 0 => info[i].size = declared[i].size
        /\ (\A j \in k + 1 .. Len(Interfaces) : Short[Interfaces[j]] # Short[itf]) =>
             itfs.maps[Short[itf]] = itf

\* sys/node.json holds every node once and can be read, as long as no two
\* campaigns asked nodes at the same time and none was killed in a line.
CacheWhole ==
  ~together =>
    /\ \A i, j \in DOMAIN cache :
         (i # j /\ LineEnd \notin {cache[i], cache[j]}) => cache[i].name # cache[j].name
    /\ ~cut => Readable(cache)

\* What a fuzzer has of a node is what the node offers, the parameter services
\* left out, unless the node left a question without an answer when it was
\* asked first, in whatever campaign that was, or the application has changed
\* since: then the fuzzer goes on with part of it or with what it was.
EntryFaithful ==
  \A f \in Fuzzers : \A i \in DOMAIN nodes[f] :
    LET node == nodes[f][i]
        app == Apps[version][node.name]
        offered == UNION {{<<s, o[1], o[2]>> : o \in ToSet(app.offers[s])} : s \in DOMAIN app.offers}
    IN  (phase[f] # "off" /\ node.version = version /\ ~node.silent) =>
          /\ {<<d[1], d[2], node.itfs[d][1].type>> : d \in DOMAIN node.itfs}
               = {o \in offered : o[2] \notin ParameterWords}
          /\ DOMAIN node.params = {p.name : p \in {q \in app.params : ~q.qos}}

\* A fuzzer panics only when no node was listed that it may ask, when a node
\* has an interface or a parameter of a type it does not know, or with bounds,
\* or when the cache cannot be read because of two campaigns or a kill. (It
\* also ends before it has listed a node, for a missing file or a failed boot:
\* Launch of Discovery leaves that out.)
PanicOnlyFor ==
  \A f \in Fuzzers :
    CASE panicked[f] = "nodes" -> listed[f] \subseteq Skipped
      [] panicked[f] = "cache" -> together \/ cut
      [] panicked[f] = "param" ->
           \E a \in {Apps[v][work[f].name] : v \in scenario.versions} : \E p \in a.params :
             ~p.qos /\ (p.type[1] \notin DOMAIN ParamType \/ p.bounded)
      [] panicked[f] = "type" ->
           \E a \in {Apps[v][work[f].name] : v \in scenario.versions} :
             \E s \in DOMAIN a.offers : \E o \in ToSet(a.offers[s]) :
               ~Constructible(itfs, LastPart(o[2])) /\ o[1] \notin ParameterWords
      [] OTHER -> panicked[f] = ""

-----------------------------------------------------------------------------
(* What is sent                                                             *)

\* The fields of a value, as the command line tools read them: a name, a colon
\* and the value, in braces when it has parts, with commas between.
Joined(texts) ==
  FoldLeft(LAMBDA text, t : IF text = << >> THEN t ELSE text \o Comma \o t, << >>, texts)

FieldText(tree, sec) ==
  LET field[i \in DOMAIN tree] ==
        LET itf == tree[i]
            parts == Parts(tree, i)
            leaf == tree[i + 1]
            Element(e) == IF e.op = "string" THEN e.string ELSE <<LeafText("", e, 0)[4]>>
        IN  IF ~Braced(itf) THEN LeafText(itf.name, leaf, sec[i + 1])
            ELSE <<itf.name>> \o Colon \o <<"{", " ">> \o
                 Joined(IF itf.type \in MetaTypes THEN [k \in DOMAIN leaf.elems |-> Element(leaf.elems[k])]
                        ELSE [k \in DOMAIN parts |-> field[parts[k]]]) \o <<"}">>
  IN  Joined([k \in DOMAIN Parts(tree, 1) |-> field[Parts(tree, 1)[k]]])

\* A part without fields, or an array of characters.
Odd(tree) ==
  \E i \in DOMAIN tree : tree[i].op = "itf" /\ (tree[i].below = 0 \/ (tree[i].type \in Chars /\ tree[i].array))

\* The characters drawn for the values, without the names of nodes.
DrawnChars(tree) ==
  UNION {CASE tree[i].op = "char" -> {tree[i].char}
           [] tree[i].op = "string" /\ tree[i].len # 0 -> ToSet(tree[i].string)
           [] OTHER -> {} : i \in Leaves(tree)}

\* Every bracket that opens is closed, and none before it opens.
Bracketed(text) ==
  LET Depth(k) == Cardinality({i \in 1 .. k : text[i] = "{"}) - Cardinality({i \in 1 .. k : text[i] = "}"})
  IN  Depth(Len(text)) = 0 /\ \A k \in DOMAIN text : Depth(k) >= 0

\* A command names every field it was generated for, once and in its place,
\* and the stripping of commas takes nothing of a value, whatever characters
\* the values hold, unless an interface in it has no fields (then the text
\* loses its end) or it holds an array of characters; a parameter's names it
\* and gives its value, without the colons.  Characters are printed as they
\* are, so that the text can be read back only if none of them means something:
\* then it is well bracketed.
StreamFaithful ==
  \A f \in Fuzzers :
    LET p == prog[f] IN
    (phase[f] = "sent" /\ ~Odd(p.tree)) =>
      LET value == LeafText("", p.tree[2], 0) IN
      /\ IF p.itf = "param"
         THEN p.stream = <<Commands[p.itf], p.node, " ", p.tree[1].name, " ">>
                \o SelectSeq(SubSeq(value, 4, Len(value)), LAMBDA c : c # ":")
         ELSE p.stream = <<Commands[p.itf], p.tree[1].name, " ", p.tree[1].type, " ", "\"", "{">>
                \o FieldText(p.tree, p.sec) \o <<"}", "\"">>
      /\ DrawnChars(p.tree) \cap {"{", "}"} = {} => Bracketed(p.stream)

\* Every string and every array of a program that is sent is complete, and the
\* nodes it names ran while it was generated, unless at one of its strings no
\* node was listed: then, and only then, the rest of it was never drawn.
LeafWhole(leaf, heard) ==
  CASE leaf.op = "string" ->
         leaf.string # << >> /\ (leaf.len = 0 => leaf.string[1] \in heard)
    [] leaf.op = "array" ->
         /\ Len(leaf.elems) = leaf.len
         /\ leaf.inner = "string" => \A k \in DOMAIN leaf.elems : leaf.elems[k].string[1] \in heard
    [] OTHER -> TRUE
ProgramWhole ==
  \A f \in Fuzzers :
    LET p == prog[f] IN
    phase[f] = "sent" =>
      (~p.mute <=> \A i \in Leaves(p.tree) : LeafWhole(p.tree[i], p.heard))

\* The choice of a node ends if one of the nodes has an interface; choice_node
\* goes on for ever, with the manager locked, when none has.
ChoiceEnds ==
  \A f \in Fuzzers :
    (phase[f] = "choosing" /\ \E i \in DOMAIN nodes[f] : GetAvailableInterface(nodes[f][i]) # {})
      ~> phase[f] # "choosing"
=============================================================================
