--------------------------- MODULE ProgGen_proofs ----------------------------
(***************************************************************************)
(* Theorems about ProgGen: what the campaigns know of the nodes and what   *)
(* they keep of them in a file they share, what a fuzzer panics for, and   *)
(* the programs it generates.                                              *)
(***************************************************************************)
EXTENDS ProgGen_data_proofs

-----------------------------------------------------------------------------
(* The discovery.                                                           *)

Phases == Asking \cup {"off", "choosing", "generating", "generated", "sent"}

WorldInv ==
  /\ scenario \in Scenarios /\ version \in scenario.versions /\ alive \subseteq Nodes
  /\ itfs = NoItfs \/ itfs \in ParseInterface(scenario.lines)
  /\ together \in BOOLEAN /\ cut \in BOOLEAN
  /\ cache \in Seq(Entry \cup {LineEnd})

\* What the questions have brought about the node that is asked.
Answering(w) ==
  /\ w = [name |-> w.name, left |-> w.left, params |-> w.params, silent |-> w.silent]
  /\ w.name \in Nodes \ Skipped
  /\ w.left \subseteq Settable(Apps[version][w.name])
  /\ w.params \in ParamMap
  /\ w.silent \in BOOLEAN
  /\ ~w.silent => DOMAIN w.params \cup Names(w.left) = Names(Settable(Apps[version][w.name]))

\* What a fuzzer knows: the nodes that it has are among those that it listed,
\* and while it has none, all are left.
Known(f) ==
  /\ phase[f] # "off" \/ panicked[f] # "" => itfs # NoItfs
  /\ phase[f] # "off" => panicked[f] = ""
  /\ todo[f] \subseteq listed[f] \ Skipped
  /\ \A n \in DOMAIN known[f] : known[f][n].name = n
  /\ \A i \in DOMAIN nodes[f] : nodes[f][i].name \in listed[f]
  /\ phase[f] = "params" => Answering(work[f]) /\ work[f].name \in listed[f]
  /\ phase[f] \in {"listing", "reading"} => nodes[f] = << >> /\ todo[f] = {}
  /\ phase[f] = "line" => nodes[f] # << >>
  /\ phase[f] = "nodes" /\ nodes[f] = << >> => todo[f] = listed[f] \ Skipped
  /\ phase[f] = "choosing" => drawn[f] \in DOMAIN nodes[f]

FuzzerInv ==
  /\ phase \in [Fuzzers -> Phases]
  /\ listed \in [Fuzzers -> SUBSET Nodes]
  /\ known \in [Fuzzers -> UNION {[D -> Entry] : D \in SUBSET Nodes}]
  /\ todo \in [Fuzzers -> SUBSET Nodes]
  /\ nodes \in [Fuzzers -> Seq(Entry)]
  /\ DOMAIN work = Fuzzers /\ DOMAIN panicked = Fuzzers /\ DOMAIN drawn = Fuzzers
  /\ \A f \in Fuzzers : Known(f)

\* One campaign at a time asks; none that asks has a node ahead of which the
\* file has an entry, unless it has read it.
Alone(ph) == \A f, g \in Fuzzers : f # g /\ ph[f] \in Asking => ph[g] \notin Asking
Ahead(f) ==
  /\ phase[f] \in {"nodes", "params", "line"} =>
       EntryNames(cache) \cap todo[f] \subseteq DOMAIN known[f]
  /\ phase[f] = "params" => work[f].name \notin EntryNames(cache) \cup todo[f]

\* The file has each node once, and ends in a line while one is written.
Once(file) ==
  \A i, j \in DOMAIN file : (i # j /\ file[i] # LineEnd /\ file[j] # LineEnd) => file[i].name # file[j].name
Writing(ph) == \E f \in Fuzzers : ph[f] = "line"
CacheInv ==
  ~together =>
    /\ Alone(phase)
    /\ \A f \in Fuzzers : Ahead(f)
    /\ Once(cache)
    /\ ~cut => Readable(cache) /\ (Len(cache) % 2 = 1 <=> Writing(phase))

-----------------------------------------------------------------------------
(* What the application answers.                                            *)

\* The texts that the modules spell out.
LEMMA TextFacts ==
  /\ STRING \subseteq Text /\ Types \subseteq Text /\ Signs \subseteq Text
  /\ ToSet(Sections) \subseteq Text
  /\ "0" \in Text /\ "0.5" \in Text /\ "\\0" \in Text
BY DEF Text

\* What an application has for a node.
LEMMA AppFacts ==
  ASSUME NEW v \in DOMAIN Apps, NEW n \in Nodes
  PROVE  /\ DOMAIN Apps[v][n].offers = ToSet(Sections)
         /\ \A s \in ToSet(Sections) :
              /\ Apps[v][n].offers[s] \in Seq((STRING \ Words) \X (STRING \ Words))
              /\ \A o, p \in ToSet(Apps[v][n].offers[s]) : o[1] = p[1] => o = p
         /\ \A p \in Apps[v][n].params : p.name \in STRING /\ p.type \in Seq(STRING) /\ p.type # << >>
<1>1. Apps[v] \in App
  BY DiscoveryAssumption
<1>2. Apps[v][n] \in [offers : [ToSet(Sections) -> Seq((STRING \ Words) \X (STRING \ Words))],
             params : SUBSET [name : STRING, type : Seq(STRING) \ {<< >>}, bounded : BOOLEAN, qos : BOOLEAN]]
  BY <1>1 DEF App
<1>3. \A s \in ToSet(Sections) : \A o, p \in ToSet(Apps[v][n].offers[s]) : o[1] = p[1] => o = p
  BY DiscoveryAssumption
<1> QED BY <1>2, <1>3

\* A node offers a name once in a section, and nothing of the parameter services.
LEMMA OffersFacts ==
  ASSUME NEW v \in DOMAIN Apps, NEW n \in Nodes
  PROVE  /\ Offers(Apps[v][n]) \subseteq Text \X Text \X Text
         /\ \A d, e \in Offers(Apps[v][n]) : d[1] = e[1] /\ d[2] = e[2] => d = e
         /\ \A e \in Offers(Apps[v][n]) : e[2] \notin ParameterWords /\
              \E s \in DOMAIN Apps[v][n].offers : \E o \in ToSet(Apps[v][n].offers[s]) : e = <<s, o[1], o[2]>>
<1> DEFINE app == Apps[v][n]
<1>1. ASSUME NEW e \in Offers(app)
      PROVE  /\ e[2] \notin ParameterWords
             /\ \E s \in DOMAIN app.offers : \E o \in ToSet(app.offers[s]) : e = <<s, o[1], o[2]>>
  BY DEF Offers, Offered
<1>2. ASSUME NEW s \in DOMAIN app.offers, NEW o \in ToSet(app.offers[s])
      PROVE  s \in Text /\ o \in Text \X Text
  <2>1. s \in ToSet(Sections) /\ app.offers[s] \in Seq((STRING \ Words) \X (STRING \ Words))
    BY AppFacts
  <2>2. o \in (STRING \ Words) \X (STRING \ Words)
    <3>1. PICK i \in DOMAIN app.offers[s] : o = app.offers[s][i]
      BY DEF ToSet
    <3> HIDE DEF app
    <3> QED BY <2>1, <3>1
  <2>3. o \in Text \X Text
    BY <2>2, TextFacts
  <2> QED BY <2>1, <2>3, TextFacts
<1>3. ASSUME NEW e \in Offers(app) PROVE e \in Text \X Text \X Text
  <2>1. PICK s \in DOMAIN app.offers : \E o \in ToSet(app.offers[s]) : e = <<s, o[1], o[2]>>
    BY <1>1
  <2>2. PICK o \in ToSet(app.offers[s]) : e = <<s, o[1], o[2]>>
    BY <2>1
  <2> QED BY <1>2, <2>2
<1>4. ASSUME NEW d \in Offers(app), NEW e \in Offers(app), d[1] = e[1], d[2] = e[2] PROVE d = e
  <2>1. PICK s \in DOMAIN app.offers : \E o \in ToSet(app.offers[s]) : d = <<s, o[1], o[2]>>
    BY <1>1
  <2>2. PICK o \in ToSet(app.offers[s]) : d = <<s, o[1], o[2]>>
    BY <2>1
  <2>3. PICK t \in DOMAIN app.offers : \E p \in ToSet(app.offers[t]) : e = <<t, p[1], p[2]>>
    BY <1>1
  <2>4. PICK p \in ToSet(app.offers[t]) : e = <<t, p[1], p[2]>>
    BY <2>3
  <2>5. s = t /\ o[1] = p[1]
    BY <1>4, <2>2, <2>4
  <2>6. o = p
    BY <2>1, <2>2, <2>4, <2>5, AppFacts
  <2> QED BY <2>2, <2>4, <2>5, <2>6
<1> QED BY <1>1, <1>3, <1>4

\* A parameter that is described becomes a tree with an empty leaf.
LEMMA DescribedParam ==
  ASSUME NEW p, p.name \in STRING, p.type \in Seq(STRING), p.type # << >>, NEW leaf \in ParamLeaf(p)
  PROVE  InterfaceVal(p.name, ParamType[Head(p.type)], FALSE, <<leaf>>) \in ParamTree
<1> DEFINE h == Head(p.type)
<1>2. /\ h \in {"boolean", "integer", "double", "string"}
      /\ \/ leaf = BoolType \/ leaf = IntType(64, 0) \/ leaf = DoubleType("0")
         \/ \E len \in Lengths : leaf = StringType(len, << >>)
  <2>1. CASE h = "boolean"
    BY <2>1 DEF ParamLeaf
  <2>2. CASE h = "integer"
    BY <2>2 DEF ParamLeaf
  <2>3. CASE h = "double"
    BY <2>3 DEF ParamLeaf
  <2>4. CASE h = "string"
    BY <2>4 DEF ParamLeaf
  <2>5. CASE h \notin {"boolean", "integer", "double", "string"}
    BY <2>5 DEF ParamLeaf
  <2> QED BY <2>1, <2>2, <2>3, <2>4, <2>5
<1>3. ParamType[h] \in Text
  <2>1. /\ ParamType["boolean"] = "bool" /\ ParamType["integer"] = "int64"
        /\ ParamType["double"] = "float64" /\ ParamType["string"] = "string"
    BY DEF ParamType
  <2>2. {"bool", "int64", "float64", "string"} \subseteq Types
    BY DEF Types, MetaTypes, Floats, Pad
  <2> QED BY <1>2, <2>1, <2>2, TextFacts
<1>4. 64 \in Range(Pad)
  BY DEF Range, Pad
<1>5. leaf \in Leaf /\ Empty(leaf)
  <2>1. CASE leaf = BoolType
    BY <2>1 DEF Leaf, Simple, Empty, BoolType
  <2>2. CASE leaf = IntType(64, 0)
    BY <1>4, <2>2 DEF Leaf, Simple, Empty, IntType
  <2>3. CASE leaf = DoubleType("0")
    BY <2>3, TextFacts DEF Leaf, Simple, Empty, DoubleType
  <2>4. ASSUME NEW len \in Lengths, leaf = StringType(len, << >>) PROVE leaf \in Leaf /\ Empty(leaf)
    <3>1. len \in Nat /\ << >> \in Seq(Text)
      BY ValueAssumption
    <3> QED BY <2>4, <3>1 DEF Leaf, Simple, Empty, StringType
  <2> QED BY <1>2, <2>1, <2>2, <2>3, <2>4
<1> HIDE DEF h
<1>6. InterfaceVal(p.name, ParamType[h], FALSE, <<leaf>>) \in ParamTree
  <2>1. p.name \in Text
    BY TextFacts
  <2> QED BY <2>1, <1>3, <1>5, LeafTree
<1> QED BY <1>6 DEF h

\* The values drawn for entries are trees of their types.
LEMMA ValuesFresh ==
  ASSUME Json(itfs), NEW entries \in SUBSET (Text \X Text \X Text),
         \A e \in entries : Constructible(itfs, LastPart(e[3])), NEW vals \in Values(entries)
  PROVE  /\ vals \in ItfMap
         /\ DOMAIN vals = {<<e[1], e[2]>> : e \in entries}
         /\ \A d \in DOMAIN vals : \E e \in entries : <<e[1], e[2]>> = d /\ vals[d][1].type = e[3]
<1> DEFINE Trees(e) == {InterfaceVal(e[2], e[3], FALSE, val) : val \in ConstructItfLayers(itfs, LastPart(e[3]))}
           keys == {<<e[1], e[2]>> : e \in entries}
<1>1. /\ vals \in [keys -> UNION {Trees(e) : e \in entries}]
      /\ \A d \in keys : \E e \in entries : <<e[1], e[2]>> = d /\ vals[d] \in Trees(e)
  BY DEF Values
<1>2. ASSUME NEW e \in entries, NEW tree \in Trees(e) PROVE tree \in FreshTree /\ tree[1].type = e[3]
  <2>1. PICK val \in ConstructItfLayers(itfs, LastPart(e[3])) : tree = InterfaceVal(e[2], e[3], FALSE, val)
    OBVIOUS
  <2>2. val \in FreshTree
    BY LayersFresh DEF Constructible
  <2>3. e[2] \in Text /\ e[3] \in Text
    OBVIOUS
  <2>4. tree \in FreshTree
    BY <2>1, <2>2, <2>3, InterfaceValTree
  <2>5. tree[1] = Itf(e[2], e[3], FALSE, Len(val))
    <3>1. val \in Seq(ItfNode \cup Leaf)
      BY <2>2 DEF FreshTree, ParamTree, Tree
    <3>2. Itf(e[2], e[3], FALSE, Len(val)) \in ItfNode \cup Leaf
      BY <2>3, <3>1 DEF Itf, ItfNode
    <3> QED BY <2>1, <3>1, <3>2, ConsFacts DEF InterfaceVal
  <2> QED BY <2>4, <2>5 DEF Itf
<1> HIDE DEF Trees
<1>3. DOMAIN vals = keys
  BY <1>1
<1>4. keys \in SUBSET (Text \X Text)
  OBVIOUS
<1>5. \A d \in keys : vals[d] \in FreshTree
  BY <1>1, <1>2
<1>6. vals \in [keys -> FreshTree]
  BY <1>1, <1>5
<1>7. vals \in ItfMap
  BY <1>4, <1>6 DEF ItfMap
<1>8. \A d \in keys : \E e \in entries : <<e[1], e[2]>> = d /\ vals[d][1].type = e[3]
  BY <1>1, <1>2
<1> QED BY <1>3, <1>7, <1>8

\* The entry that is written for a node holds what the node answered.
LEMMA NodeEntry ==
  ASSUME Json(itfs), version \in DOMAIN Apps, NEW w, Answering(w), w.left = {},
         NEW entries, entries = IF w.name \in alive THEN Entries(InfoWords(w.name)) ELSE {},
         \A e \in entries : Constructible(itfs, LastPart(e[3])), NEW vals \in Values(entries)
  PROVE  Node(w.name, vals, w.params, version, w.silent \/ w.name \notin alive) \in Entry
<1> DEFINE app == Apps[version][w.name]
           node == Node(w.name, vals, w.params, version, w.silent \/ w.name \notin alive)
<1>1. w.name \in Nodes \ Skipped /\ w.params \in ParamMap /\ w.silent \in BOOLEAN
  BY DEF Answering
<1>2. entries = IF w.name \in alive THEN Offers(app) ELSE {}
  BY <1>1, EntriesExact
<1>3. /\ Offers(app) \subseteq Text \X Text \X Text
      /\ \A d, b \in Offers(app) : d[1] = b[1] /\ d[2] = b[2] => d = b
  BY <1>1, OffersFacts
<1> HIDE DEF app
<1>4. entries \in SUBSET (Text \X Text \X Text)
  BY <1>2, <1>3
<1>5. /\ vals \in ItfMap
      /\ DOMAIN vals = {<<b[1], b[2]>> : b \in entries}
      /\ \A d \in DOMAIN vals : \E b \in entries : <<b[1], b[2]>> = d /\ vals[d][1].type = b[3]
  <2>1. \A b \in entries : Constructible(itfs, LastPart(b[3]))
    OBVIOUS
  <2>2. vals \in Values(entries)
    OBVIOUS
  <2> HIDE DEF node
  <2> QED BY <1>4, <2>1, <2>2, ValuesFresh
<1>6. ASSUME ~(w.silent \/ w.name \notin alive)
      PROVE  {<<d[1], d[2], vals[d][1].type>> : d \in DOMAIN vals} = Offers(app)
  <2>1. entries = Offers(app)
    BY <1>2, <1>6
  <2>2. ASSUME NEW d \in DOMAIN vals PROVE <<d[1], d[2], vals[d][1].type>> \in Offers(app)
    <3>1. PICK b \in entries : <<b[1], b[2]>> = d /\ vals[d][1].type = b[3]
      BY <1>5
    <3>2. b \in Text \X Text \X Text
      BY <1>3, <2>1, <3>1
    <3>3. b = <<d[1], d[2], vals[d][1].type>>
      BY <3>1, <3>2
    <3> QED BY <2>1, <3>1, <3>3
  <2>3. ASSUME NEW b \in Offers(app) PROVE \E d \in DOMAIN vals : b = <<d[1], d[2], vals[d][1].type>>
    <3> DEFINE d == <<b[1], b[2]>>
    <3>1. d \in DOMAIN vals
      BY <1>5, <2>1
    <3>2. <<d[1], d[2], vals[d][1].type>> \in Offers(app)
      BY <2>2, <3>1
    <3>3. b = <<d[1], d[2], vals[d][1].type>>
      BY <1>3, <3>2
    <3> QED BY <3>1, <3>3
  <2> QED BY <2>2, <2>3
<1>7. ASSUME ~(w.silent \/ w.name \notin alive) PROVE DOMAIN w.params = Names(Settable(app))
  <2>1. Names(w.left) = {}
    BY DEF Names
  <2> QED BY <1>7, <2>1 DEF Answering, app
<1>8. /\ node = [op |-> "node", name |-> w.name, itfs |-> vals, params |-> w.params,
                 version |-> version, silent |-> w.silent \/ w.name \notin alive]
      /\ (w.silent \/ w.name \notin alive) \in BOOLEAN
  BY DEF Node
<1> HIDE DEF node
<1>9. /\ node.name = w.name /\ node.itfs = vals /\ node.params = w.params /\ node.version = version
      /\ node.silent = (w.silent \/ w.name \notin alive)
  BY <1>8
<1>10. ~node.silent => Answers(node)
  <2> SUFFICES ASSUME ~node.silent PROVE Answers(node)
    OBVIOUS
  <2>1. /\ {<<d[1], d[2], vals[d][1].type>> : d \in DOMAIN vals} = Offers(app)
        /\ DOMAIN w.params = Names(Settable(app))
    BY <1>6, <1>7, <1>9
  <2>2. Apps[node.version][node.name] = app
    BY <1>9 DEF app
  <2> QED BY <1>9, <2>1, <2>2 DEF Answers
<1>11. node \in [op : {"node"}, name : Nodes \ Skipped, itfs : ItfMap, params : ParamMap,
                 version : DOMAIN Apps, silent : BOOLEAN]
  BY <1>1, <1>5, <1>8
<1>12. node \in Entry
  BY <1>10, <1>11 DEF Entry
<1> QED BY <1>12 DEF node

-----------------------------------------------------------------------------
(* The steps of the discovery.                                              *)

\* What holds of the scenario, and of the json files once they are written.
LEMMA ScenarioFacts ==
  ASSUME WorldInv
  PROVE  /\ scenario.fuzzers \subseteq Fuzzers /\ scenario.versions \subseteq DOMAIN Apps
         /\ version \in DOMAIN Apps
         /\ itfs # NoItfs => itfs \in ParseInterface(scenario.lines) /\ Json(itfs)
<1>1. /\ scenario.fuzzers \subseteq Fuzzers /\ scenario.versions \subseteq DOMAIN Apps
      /\ scenario.lines \in [ToSet(Interfaces) -> Seq(InterfaceLine)]
  BY DiscoveryAssumption DEF WorldInv
<1>2. itfs # NoItfs => itfs \in ParseInterface(scenario.lines)
  BY DEF WorldInv
<1>3. itfs \in ParseInterface(scenario.lines) => Json(itfs)
  BY <1>1, ParsedJson
<1> QED BY <1>1, <1>2, <1>3 DEF WorldInv

\* The entry of a node is not the end of a line.
LEMMA EntryIsNode == \A e \in Entry : e # LineEnd /\ e.op = "node" /\ e.name \in Nodes \ Skipped
BY DEF Entry, LineEnd

\* At first nothing is known.
LEMMA InitKnown ==
  ASSUME Init
  PROVE  WorldInv /\ FuzzerInv
<1>1. WorldInv
  <2>1. scenario \in Scenarios /\ alive \subseteq Nodes
    BY DiscoveryAssumption DEF Init, DiscoveryInit
  <2>2. cache \in Seq(Entry \cup {LineEnd})
    <3>1. cache = << >>
      BY DEF Init, DiscoveryInit
    <3> QED BY <3>1
  <2>3. version \in scenario.versions /\ itfs = NoItfs /\ together \in BOOLEAN /\ cut \in BOOLEAN
    BY DEF Init, DiscoveryInit
  <2> QED BY <2>1, <2>2, <2>3 DEF WorldInv
<1>2. FuzzerInv
  <2>1. << >> \in Seq(Entry) /\ DOMAIN << >> = {} /\ << >> \in [{} -> Entry]
    OBVIOUS
  <2>2. << >> \in UNION {[D -> Entry] : D \in SUBSET Nodes}
    BY <2>1
  <2>3. \A f \in Fuzzers : Known(f)
    BY <2>1 DEF Init, DiscoveryInit, Known
  <2>4. phase \in [Fuzzers -> Phases] /\ listed \in [Fuzzers -> SUBSET Nodes] /\ todo \in [Fuzzers -> SUBSET Nodes]
    BY DEF Init, DiscoveryInit, Phases
  <2>5. known \in [Fuzzers -> UNION {[D -> Entry] : D \in SUBSET Nodes}] /\ nodes \in [Fuzzers -> Seq(Entry)]
    BY <2>1, <2>2 DEF Init, DiscoveryInit
  <2>6. DOMAIN work = Fuzzers /\ DOMAIN panicked = Fuzzers /\ DOMAIN drawn = Fuzzers
    BY DEF Init, DiscoveryInit
  <2> QED BY <2>3, <2>4, <2>5, <2>6 DEF FuzzerInv
<1> QED BY <1>1, <1>2

\* The steps that no fuzzer takes.
LEMMA WorldKnown ==
  ASSUME WorldInv, FuzzerInv, Upgrade \/ Prepare \/ \E n \in Nodes : NodeChanges(n), UNCHANGED <<drawn, prog>>
  PROVE  WorldInv' /\ FuzzerInv'
<1>1. CASE Upgrade
  <2>1. WorldInv'
    BY <1>1 DEF Upgrade, WorldInv, targetVars
  <2>2. \A f \in Fuzzers : Known(f)'
    BY <1>1 DEF Upgrade, targetVars, FuzzerInv, Known
  <2> QED BY <1>1, <2>1, <2>2 DEF Upgrade, targetVars, FuzzerInv
<1>2. CASE Prepare
  <2>1. WorldInv'
    BY <1>2 DEF Prepare, WorldInv, targetVars
  <2>2. \A f \in Fuzzers : Known(f)'
    BY <1>2 DEF Prepare, targetVars, FuzzerInv, Known, Answering
  <2> QED BY <1>2, <2>1, <2>2 DEF Prepare, targetVars, FuzzerInv
<1>3. CASE \E n \in Nodes : NodeChanges(n)
  <2>1. WorldInv'
    BY <1>3 DEF NodeChanges, WorldInv, targetVars
  <2>2. \A f \in Fuzzers : Known(f)'
    BY <1>3 DEF NodeChanges, targetVars, FuzzerInv, Known, Answering
  <2> QED BY <1>3, <2>1, <2>2 DEF NodeChanges, targetVars, FuzzerInv
<1> QED BY <1>1, <1>2, <1>3

\* What a step of one fuzzer leaves of the others.
Others(f) ==
  /\ \A g \in Fuzzers \ {f} :
       /\ phase'[g] = phase[g] /\ listed'[g] = listed[g] /\ known'[g] = known[g] /\ todo'[g] = todo[g]
       /\ work'[g] = work[g] /\ nodes'[g] = nodes[g] /\ panicked'[g] = panicked[g] /\ drawn'[g] = drawn[g]
  /\ UNCHANGED <<scenario, itfs, version, alive>>

\* A step of one fuzzer changes nothing that the others know.
LEMMA OthersKnown ==
  ASSUME FuzzerInv, NEW f \in Fuzzers, Others(f), Known(f)'
  PROVE  \A g \in Fuzzers : Known(g)'
<1>1. ASSUME NEW g \in Fuzzers \ {f} PROVE Known(g)'
  <2>1. Known(g)
    BY DEF FuzzerInv
  <2>2. Answering(work[g])' <=> Answering(work[g])
    BY DEF Others, Answering
  <2> QED BY <2>1, <2>2 DEF Known, Others
<1> QED BY <1>1

\* The types of what the fuzzers have.
FuzzerTypes ==
  /\ phase \in [Fuzzers -> Phases]
  /\ listed \in [Fuzzers -> SUBSET Nodes]
  /\ known \in [Fuzzers -> UNION {[D -> Entry] : D \in SUBSET Nodes}]
  /\ todo \in [Fuzzers -> SUBSET Nodes]
  /\ nodes \in [Fuzzers -> Seq(Entry)]
  /\ DOMAIN work = Fuzzers /\ DOMAIN panicked = Fuzzers /\ DOMAIN drawn = Fuzzers

\* The steps of a fuzzer, with what they leave alone.
FuzzerStep(f) == ((GenTargets(f) \/ Kill(f)) /\ UNCHANGED <<drawn, prog>>) \/ GenerateCall(f)

\* The steps of a fuzzer, one by one.
LEMMA StepsApart ==
  ASSUME NEW f, FuzzerStep(f)
  PROVE  \/ /\ UNCHANGED <<drawn, prog>>
            /\ \/ Kill(f) \/ Launch(f) \/ ListNodes(f) \/ ReadCache(f) \/ NodeSerialize(f) \/ EndLine(f)
               \/ \E n \in todo[f] : PushCached(f, n) \/ ListParams(f, n)
               \/ \E p \in work[f].left : DescribeParam(f, p)
         \/ BeginChoice(f) \/ (\E i \in DOMAIN nodes[f] : Redraw(f, i))
         \/ ChooseInterface(f) \/ GenValue(f) \/ Serialization(f)
BY DEF FuzzerStep, GenTargets, GenerateCall

\* To know nothing has its types.
LEMMA NoneYet ==
  /\ << >> \in Seq(Entry) /\ DOMAIN << >> = {}
  /\ << >> \in UNION {[D -> Entry] : D \in SUBSET Nodes} /\ << >> \in ParamMap
<1>1. << >> \in Seq(Entry) /\ DOMAIN << >> = {} /\ << >> \in [{} -> Entry] /\ << >> \in [{} -> ParamTree]
  OBVIOUS
<1>2. << >> \in UNION {[D -> Entry] : D \in SUBSET Nodes}
  BY <1>1
<1>3. << >> \in ParamMap
  BY <1>1 DEF ParamMap
<1> QED BY <1>1, <1>2, <1>3

\* A fuzzer that is killed knows nothing more that matters.
LEMMA KillKnown ==
  ASSUME WorldInv, FuzzerInv, NEW f \in Fuzzers, Kill(f), UNCHANGED <<drawn, prog>>
  PROVE  WorldInv' /\ FuzzerInv'
<1> USE DEF Kill, worldVars, targetVars, discoveryVars, Panic
<1>0. FuzzerTypes /\ Known(f)
  BY DEF FuzzerInv, FuzzerTypes
<1>1. WorldInv'
  BY DEF WorldInv
<1>2. FuzzerTypes'
  BY <1>0 DEF FuzzerTypes, Phases, Asking
<1>3. Others(f)
  BY <1>0 DEF FuzzerTypes, Others
<1>4. Known(f)'
  BY <1>0 DEF FuzzerTypes, Known, Answering, Phases, Asking
<1> QED BY <1>1, <1>2, <1>3, <1>4, OthersKnown DEF FuzzerInv, FuzzerTypes

\* A fuzzer begins with nothing.
LEMMA LaunchKnown ==
  ASSUME WorldInv, FuzzerInv, NEW f \in Fuzzers, Launch(f), UNCHANGED <<drawn, prog>>
  PROVE  WorldInv' /\ FuzzerInv'
<1> USE DEF Launch, worldVars, targetVars, discoveryVars, Panic
<1>0. FuzzerTypes /\ Known(f)
  BY DEF FuzzerInv, FuzzerTypes
<1>a. << >> \in Seq(Entry) /\ DOMAIN << >> = {} /\ << >> \in UNION {[D -> Entry] : D \in SUBSET Nodes}
  BY NoneYet
<1>1. WorldInv'
  BY DEF WorldInv
<1>2. FuzzerTypes'
  BY <1>0, <1>a DEF FuzzerTypes, Phases, Asking
<1>3. Others(f)
  BY <1>0 DEF FuzzerTypes, Others
<1>4. Known(f)'
  BY <1>0, <1>a DEF FuzzerTypes, Known, Answering, Phases, Asking
<1> QED BY <1>1, <1>2, <1>3, <1>4, OthersKnown DEF FuzzerInv, FuzzerTypes

\* The nodes are listed, or the fuzzer panics.
LEMMA ListNodesKnown ==
  ASSUME WorldInv, FuzzerInv, NEW f \in Fuzzers, ListNodes(f), UNCHANGED <<drawn, prog>>
  PROVE  WorldInv' /\ FuzzerInv'
<1> USE DEF ListNodes, worldVars, targetVars, discoveryVars, Panic
<1>0. FuzzerTypes /\ Known(f)
  BY DEF FuzzerInv, FuzzerTypes
<1>1. WorldInv'
  BY DEF WorldInv
<1>2. FuzzerTypes'
  BY <1>0 DEF FuzzerTypes, Phases, Asking, WorldInv
<1>3. Others(f)
  BY <1>0 DEF FuzzerTypes, Others
<1>4. Known(f)'
  <2>1. nodes[f] = << >> /\ todo[f] = {} /\ DOMAIN << >> = {}
    BY <1>0, NoneYet DEF Known
  <2>2. phase'[f] = "reading" /\ phase[f] = "listing"
    BY <1>0 DEF FuzzerTypes
  <2> QED BY <1>0, <2>1, <2>2 DEF Known
<1> QED BY <1>1, <1>2, <1>3, <1>4, OthersKnown DEF FuzzerInv, FuzzerTypes

\* The entries of the file are read.
LEMMA ReadCacheKnown ==
  ASSUME WorldInv, FuzzerInv, NEW f \in Fuzzers, ReadCache(f), UNCHANGED <<drawn, prog>>
  PROVE  WorldInv' /\ FuzzerInv'
<1> USE DEF ReadCache, worldVars, targetVars, discoveryVars, Panic
<1>0. FuzzerTypes /\ Known(f)
  BY DEF FuzzerInv, FuzzerTypes
<1>a. NodeMap(cache) \in [EntryNames(cache) -> Entry] /\ \A n \in EntryNames(cache) : NodeMap(cache)[n].name = n
  BY NodeMapIs DEF WorldInv
<1>b. NodeMap(cache) \in UNION {[D -> Entry] : D \in SUBSET Nodes} /\ DOMAIN NodeMap(cache) = EntryNames(cache)
  <2>1. EntryNames(cache) \subseteq Nodes
    <3>1. ASSUME NEW n \in EntryNames(cache) PROVE n \in Nodes
      <4>1. NodeMap(cache)[n] \in Entry /\ NodeMap(cache)[n].name = n
        BY <1>a
      <4> QED BY <4>1, EntryIsNode
    <3> QED BY <3>1
  <2> QED BY <1>a, <2>1
<1>1. WorldInv'
  BY DEF WorldInv
<1>2. FuzzerTypes'
  <2>1. CASE Readable(cache)
    <3>1. known' = [known EXCEPT ![f] = NodeMap(cache)] /\ todo' = [todo EXCEPT ![f] = listed[f] \ Skipped]
      BY <2>1 DEF Asked
    <3>2. known' \in [Fuzzers -> UNION {[D -> Entry] : D \in SUBSET Nodes}]
      BY <1>0, <1>b, <3>1 DEF FuzzerTypes
    <3>3. todo' \in [Fuzzers -> SUBSET Nodes]
      BY <1>0, <3>1 DEF FuzzerTypes
    <3>4. phase' \in [Fuzzers -> Phases] /\ UNCHANGED <<listed, work, nodes, drawn, panicked>>
      BY <1>0, <2>1 DEF FuzzerTypes, Phases, Asking
    <3> HIDE DEF ReadCache
    <3> QED BY <1>0, <3>2, <3>3, <3>4 DEF FuzzerTypes
  <2>2. CASE ~Readable(cache)
    BY <1>0, <2>2 DEF FuzzerTypes, Phases, Asking
  <2> QED BY <2>1, <2>2
<1>3. Others(f)
  BY <1>0 DEF FuzzerTypes, Others
<1>4. Known(f)'
  <2> HIDE DEF ReadCache
  <2>0. phase[f] = "reading" /\ UNCHANGED <<version, itfs, listed, work, nodes, drawn>>
    BY DEF ReadCache
  <2>1. CASE Readable(cache)
    <3>1. /\ known'[f] = NodeMap(cache) /\ todo'[f] = listed[f] \ Skipped
          /\ phase'[f] = "nodes" /\ UNCHANGED panicked
      BY <1>0, <2>1 DEF ReadCache, FuzzerTypes, Asked
    <3> QED BY <1>0, <1>a, <1>b, <2>0, <3>1 DEF Known
  <2>2. CASE ~Readable(cache)
    <3>1. phase'[f] = "off" /\ UNCHANGED <<known, todo>>
      BY <1>0, <2>2 DEF ReadCache, FuzzerTypes
    <3> QED BY <1>0, <2>0, <3>1 DEF Known
  <2> QED BY <2>1, <2>2
<1> QED BY <1>1, <1>2, <1>3, <1>4, OthersKnown DEF FuzzerInv, FuzzerTypes

\* A node that is known is taken over, if it is of this version and whole.
LEMMA PushCachedKnown ==
  ASSUME WorldInv, FuzzerInv, NEW f \in Fuzzers, NEW n \in todo[f], PushCached(f, n), UNCHANGED <<drawn, prog>>
  PROVE  WorldInv' /\ FuzzerInv'
<1> USE DEF PushCached, worldVars, targetVars, discoveryVars, Panic
<1>0. FuzzerTypes /\ Known(f)
  BY DEF FuzzerInv, FuzzerTypes
<1>a. /\ known[f][n] \in Entry /\ known[f][n].name = n /\ n \in listed[f]
      /\ nodes[f] \in Seq(Entry)
  <2>1. n \in DOMAIN known[f] /\ n \in listed[f]
    BY <1>0 DEF Cached, Known
  <2>2. PICK D \in SUBSET Nodes : known[f] \in [D -> Entry]
    BY <1>0 DEF FuzzerTypes
  <2> QED BY <1>0, <2>1, <2>2 DEF Known, FuzzerTypes
<1>b. Append(nodes[f], known[f][n]) \in Seq(Entry) /\ Append(nodes[f], known[f][n]) # << >>
  BY <1>a, AppendProperties
<1>c. \A i \in DOMAIN Append(nodes[f], known[f][n]) : Append(nodes[f], known[f][n])[i].name \in listed[f]
  <2>1. \A i \in DOMAIN nodes[f] : nodes[f][i].name \in listed[f]
    BY <1>0 DEF Known
  <2> HIDE DEF PushCached
  <2> QED BY <1>a, <2>1, AppendFacts
<1>1. WorldInv'
  BY DEF WorldInv
<1>2. FuzzerTypes'
  BY <1>0, <1>b DEF FuzzerTypes, Phases, Asking
<1>3. Others(f)
  BY <1>0 DEF FuzzerTypes, Others
<1>4. Known(f)'
  BY <1>0, <1>b, <1>c DEF FuzzerTypes, Known, Phases, Asking
<1> QED BY <1>1, <1>2, <1>3, <1>4, OthersKnown DEF FuzzerInv, FuzzerTypes

\* A node is asked for its parameters.
LEMMA ListParamsKnown ==
  ASSUME WorldInv, FuzzerInv, NEW f \in Fuzzers, NEW n \in todo[f], ListParams(f, n), UNCHANGED <<drawn, prog>>
  PROVE  WorldInv' /\ FuzzerInv'
<1> USE DEF ListParams, worldVars, targetVars, discoveryVars, Panic
<1>0. FuzzerTypes /\ Known(f)
  BY DEF FuzzerInv, FuzzerTypes
<1>a. << >> \in ParamMap /\ DOMAIN << >> = {}
  BY NoneYet
<1>b. n \in listed[f] /\ n \in Nodes \ Skipped
  BY <1>0 DEF Known, FuzzerTypes
<1>c. /\ work'[f] = [name |-> n, left |-> IF n \in alive THEN Settable(Apps[version][n]) ELSE {},
                     params |-> << >>, silent |-> n \notin alive]
      /\ UNCHANGED version
  BY <1>0 DEF FuzzerTypes, Settable
<1>d. Answering(work[f])'
  <2>1. work'[f].name = n /\ work'[f].params = << >> /\ work'[f].silent = (n \notin alive)
        /\ work'[f].left = IF n \in alive THEN Settable(Apps[version][n]) ELSE {}
    <3> HIDE DEF ListParams
    <3> QED BY <1>c
  <2> HIDE DEF ListParams
  <2> QED BY <1>a, <1>b, <1>c, <2>1 DEF Answering, Names
<1>1. WorldInv'
  BY DEF WorldInv
<1>2. FuzzerTypes'
  BY <1>0 DEF FuzzerTypes, Phases, Asking
<1>3. Others(f)
  BY <1>0 DEF FuzzerTypes, Others
<1>4. Known(f)'
  BY <1>0, <1>b, <1>d, <1>c DEF FuzzerTypes, Known, Phases, Asking
<1> QED BY <1>1, <1>2, <1>3, <1>4, OthersKnown DEF FuzzerInv, FuzzerTypes

\* A parameter is described, or the fuzzer panics.
LEMMA DescribeParamKnown ==
  ASSUME WorldInv, FuzzerInv, NEW f \in Fuzzers, NEW p \in work[f].left, DescribeParam(f, p), UNCHANGED <<drawn, prog>>
  PROVE  WorldInv' /\ FuzzerInv'
<1> USE DEF DescribeParam, worldVars, targetVars, discoveryVars, Panic
<1>0. FuzzerTypes /\ Known(f)
  BY DEF FuzzerInv, FuzzerTypes
<1>a. /\ Answering(work[f]) /\ work[f].name \in listed[f] /\ version \in DOMAIN Apps
      /\ work[f] = [name |-> work[f].name, left |-> work[f].left, params |-> work[f].params, silent |-> work[f].silent]
  BY <1>0, ScenarioFacts DEF Known, Answering
<1>b. /\ phase'[f] = "params" =>
           \/ work'[f] = [name |-> work[f].name, left |-> work[f].left \ {p}, params |-> work[f].params, silent |-> TRUE]
           \/ \E leaf \in ParamLeaf(p) : work'[f] =
                [name |-> work[f].name, left |-> work[f].left \ {p},
                 params |-> Insert(work[f].params, p.name, InterfaceVal(p.name, ParamType[Head(p.type)], FALSE, <<leaf>>)),
                 silent |-> work[f].silent]
      /\ phase'[f] = "params" => work'[f].name = work[f].name
      /\ UNCHANGED version
  <2>1. CASE work[f].name \notin alive
    BY <1>0, <1>a, <2>1 DEF FuzzerTypes
  <2>2. CASE work[f].name \in alive /\ (ParamLeaf(p) = {} \/ Bounds(p))
    BY <1>0, <2>2 DEF FuzzerTypes
  <2>3. CASE work[f].name \in alive /\ ~(ParamLeaf(p) = {} \/ Bounds(p))
    BY <1>0, <1>a, <2>3 DEF FuzzerTypes
  <2> QED BY <2>1, <2>2, <2>3
<1>c. phase'[f] = "params" => Answering(work[f])'
  <2>1. ASSUME work'[f] = [name |-> work[f].name, left |-> work[f].left \ {p}, params |-> work[f].params, silent |-> TRUE]
        PROVE  Answering(work[f])'
    <3>1. work'[f].name = work[f].name /\ work'[f].left = work[f].left \ {p} /\ work'[f].params = work[f].params
          /\ work'[f].silent
      BY <2>1
    <3> HIDE DEF DescribeParam
    <3> QED BY <1>a, <1>b, <2>1, <3>1 DEF Answering
  <2>2. ASSUME NEW leaf \in ParamLeaf(p), work'[f] =
                [name |-> work[f].name, left |-> work[f].left \ {p},
                 params |-> Insert(work[f].params, p.name, InterfaceVal(p.name, ParamType[Head(p.type)], FALSE, <<leaf>>)),
                 silent |-> work[f].silent]
        PROVE  Answering(work[f])'
    <3> DEFINE tree == InterfaceVal(p.name, ParamType[Head(p.type)], FALSE, <<leaf>>)
               params == Insert(work[f].params, p.name, tree)
    <3> HIDE DEF DescribeParam
    <3>1. p \in Apps[version][work[f].name].params /\ work[f].name \in Nodes
      BY <1>a DEF Answering, Settable
    <3>2. p.name \in STRING /\ p.type \in Seq(STRING) /\ p.type # << >>
      BY <1>a, <3>1, AppFacts
    <3>3. tree \in ParamTree
      BY <3>2, DescribedParam
    <3>4. p.name \in Text
      BY <3>2, TextFacts
    <3>5. PICK D \in SUBSET Text : work[f].params \in [D -> ParamTree]
      BY <1>a DEF Answering, ParamMap
    <3> HIDE DEF tree
    <3>6. params \in [D \cup {p.name} -> ParamTree] /\ DOMAIN params = D \cup {p.name}
      BY <3>3, <3>5 DEF Insert
    <3> HIDE DEF params
    <3>7. params \in ParamMap
      BY <3>4, <3>5, <3>6 DEF ParamMap
    <3>8. work'[f] = [name |-> work[f].name, left |-> work[f].left \ {p}, params |-> params, silent |-> work[f].silent]
      BY <2>2 DEF params, tree
    <3>9. work'[f].name = work[f].name /\ work'[f].left = work[f].left \ {p} /\ work'[f].params = params
          /\ work'[f].silent = work[f].silent
      BY <3>8
    <3>10. DOMAIN params \cup Names(work[f].left \ {p}) = DOMAIN work[f].params \cup Names(work[f].left)
      <4>1. Names(work[f].left) = Names(work[f].left \ {p}) \cup {p.name}
        BY DEF Names
      <4>2. DOMAIN work[f].params = D
        BY <3>5
      <4> QED BY <3>6, <4>1, <4>2
    <3> QED BY <1>a, <1>b, <3>7, <3>8, <3>9, <3>10 DEF Answering
  <2> QED BY <1>b, <2>1, <2>2
<1>1. WorldInv'
  BY DEF WorldInv
<1>2. FuzzerTypes'
  <2>1. phase' \in [Fuzzers -> Phases]
    BY <1>0 DEF FuzzerTypes, Phases, Asking
  <2>2. DOMAIN work' = Fuzzers /\ DOMAIN panicked' = Fuzzers
    BY <1>0 DEF FuzzerTypes
  <2> QED BY <1>0, <2>1, <2>2 DEF FuzzerTypes
<1>3. Others(f)
  BY <1>0 DEF FuzzerTypes, Others
<1>4. Known(f)'
  <2>1. phase'[f] = "params" \/ (phase'[f] = "off" /\ itfs' # NoItfs)
    BY <1>0 DEF FuzzerTypes, Known
  <2>2. phase'[f] # "off" => panicked'[f] = ""
    BY <1>0 DEF FuzzerTypes, Known
  <2>3. UNCHANGED <<todo, listed, known, nodes, drawn, itfs>> /\ phase[f] = "params"
    OBVIOUS
  <2>4. phase'[f] = "params" => work'[f].name \in listed[f]
    <3> HIDE DEF DescribeParam
    <3> QED BY <1>a, <1>b
  <2> HIDE DEF DescribeParam, Panic
  <2> QED BY <1>0, <1>c, <2>1, <2>2, <2>3, <2>4 DEF Known
<1> QED BY <1>1, <1>2, <1>3, <1>4, OthersKnown DEF FuzzerInv, FuzzerTypes

\* The line of an entry ends.
LEMMA EndLineKnown ==
  ASSUME WorldInv, FuzzerInv, NEW f \in Fuzzers, EndLine(f), UNCHANGED <<drawn, prog>>
  PROVE  WorldInv' /\ FuzzerInv'
<1> USE DEF EndLine, worldVars, targetVars, discoveryVars, Panic
<1>0. FuzzerTypes /\ Known(f)
  BY DEF FuzzerInv, FuzzerTypes
<1>a. cache' \in Seq(Entry \cup {LineEnd})
  <2>1. cache \in Seq(Entry \cup {LineEnd}) /\ LineEnd \in Entry \cup {LineEnd}
    BY DEF WorldInv
  <2> HIDE DEF EndLine
  <2>2. Append(cache, LineEnd) \in Seq(Entry \cup {LineEnd})
    BY <2>1, AppendProperties
  <2> QED BY <2>2 DEF EndLine
<1>1. WorldInv'
  BY <1>a DEF WorldInv
<1>2. FuzzerTypes'
  BY <1>0 DEF FuzzerTypes, Phases, Asking
<1>3. Others(f)
  BY <1>0 DEF FuzzerTypes, Others
<1>4. Known(f)'
  BY <1>0 DEF FuzzerTypes, Known, Answering, Phases, Asking
<1> QED BY <1>1, <1>2, <1>3, <1>4, OthersKnown DEF FuzzerInv, FuzzerTypes

\* The entry of the node that was asked is written, or the fuzzer panics.
LEMMA NodeSerializeKnown ==
  ASSUME WorldInv, FuzzerInv, NEW f \in Fuzzers, NodeSerialize(f), UNCHANGED <<drawn, prog>>
  PROVE  WorldInv' /\ FuzzerInv'
<1> USE DEF NodeSerialize, worldVars, targetVars, discoveryVars, Panic
<1>0. FuzzerTypes /\ Known(f)
  BY DEF FuzzerInv, FuzzerTypes
<1>a. Answering(work[f]) /\ work[f].left = {} /\ work[f].name \in listed[f] /\ Json(itfs) /\ version \in DOMAIN Apps
  BY <1>0, ScenarioFacts DEF Known
<1> DEFINE entries == IF work[f].name \in alive THEN Entries(InfoWords(work[f].name)) ELSE {}
           node(val) == Node(work[f].name, val, work[f].params, version, work[f].silent \/ work[f].name \notin alive)
<1>b. \/ \E val \in Values(entries) :
             /\ \A e \in entries : Constructible(itfs, LastPart(e[3]))
             /\ cache' = Append(cache, node(val)) /\ nodes' = [nodes EXCEPT ![f] = Append(@, node(val))]
             /\ phase' = [phase EXCEPT ![f] = "line"] /\ UNCHANGED panicked
      \/ UNCHANGED <<cache, nodes>> /\ phase' = [phase EXCEPT ![f] = "off"]
           /\ panicked' = [panicked EXCEPT ![f] = "type"]
  OBVIOUS
<1>c. UNCHANGED <<worldVars, listed, known, todo, work, drawn, prog>> /\ phase[f] = "params"
  OBVIOUS
<1> HIDE DEF NodeSerialize, entries, node
<1>d. ASSUME NEW val \in Values(entries), \A e \in entries : Constructible(itfs, LastPart(e[3]))
      PROVE  node(val) \in Entry /\ node(val).name = work[f].name
  <2>1. node(val) \in Entry
    BY <1>a, <1>d, NodeEntry DEF entries, node
  <2> QED BY <2>1 DEF node, Node
<1>e. \/ \E e \in Entry :
             /\ e.name = work[f].name
             /\ cache' = Append(cache, e) /\ nodes' = [nodes EXCEPT ![f] = Append(@, e)]
             /\ phase' = [phase EXCEPT ![f] = "line"] /\ UNCHANGED panicked
      \/ UNCHANGED <<cache, nodes>> /\ phase' = [phase EXCEPT ![f] = "off"]
           /\ panicked' = [panicked EXCEPT ![f] = "type"]
  BY <1>b, <1>d
<1>f. ASSUME NEW e \in Entry, cache' = Append(cache, e), nodes' = [nodes EXCEPT ![f] = Append(@, e)]
      PROVE  cache' \in Seq(Entry \cup {LineEnd}) /\ nodes' \in [Fuzzers -> Seq(Entry)]
  <2>1. cache \in Seq(Entry \cup {LineEnd}) /\ nodes \in [Fuzzers -> Seq(Entry)]
    BY <1>0 DEF WorldInv, FuzzerTypes
  <2>2. Append(cache, e) \in Seq(Entry \cup {LineEnd}) /\ Append(nodes[f], e) \in Seq(Entry)
    BY <2>1, AppendProperties
  <2> QED BY <1>f, <2>1, <2>2
<1>1. WorldInv'
  BY <1>c, <1>e, <1>f DEF WorldInv
<1>2. FuzzerTypes'
  <2>1. nodes' \in [Fuzzers -> Seq(Entry)]
    BY <1>0, <1>e, <1>f DEF FuzzerTypes
  <2>2. phase' \in [Fuzzers -> Phases] /\ DOMAIN panicked' = Fuzzers
    BY <1>0, <1>e DEF FuzzerTypes, Phases, Asking
  <2> QED BY <1>0, <1>c, <2>1, <2>2 DEF FuzzerTypes
<1>3. Others(f)
  BY <1>0, <1>c, <1>e DEF FuzzerTypes, Others
<1>4. Known(f)'
  <2>1. CASE UNCHANGED <<cache, nodes>> /\ phase' = [phase EXCEPT ![f] = "off"]
           /\ panicked' = [panicked EXCEPT ![f] = "type"]
    BY <1>0, <1>c, <2>1 DEF FuzzerTypes, Known
  <2>2. ASSUME NEW e \in Entry, e.name = work[f].name,
               nodes' = [nodes EXCEPT ![f] = Append(@, e)],
               phase' = [phase EXCEPT ![f] = "line"], UNCHANGED panicked
        PROVE  Known(f)'
    <3>1. nodes[f] \in Seq(Entry) /\ nodes'[f] = Append(nodes[f], e) /\ phase'[f] = "line"
      BY <1>0, <2>2 DEF FuzzerTypes
    <3>2. \A i \in DOMAIN nodes[f] : nodes[f][i].name \in listed[f]
      BY <1>0 DEF Known
    <3>3. Append(nodes[f], e) # << >>
      BY <3>1, AppendProperties
    <3>4. \A i \in DOMAIN Append(nodes[f], e) : Append(nodes[f], e)[i].name \in listed[f]
      <4> HIDE DEF worldVars
      <4> QED BY <1>a, <2>2, <3>1, <3>2, AppendFacts
    <3> QED BY <1>0, <1>c, <2>2, <3>1, <3>3, <3>4 DEF Known
  <2> QED BY <1>e, <2>1, <2>2
<1> QED BY <1>1, <1>2, <1>3, <1>4, OthersKnown DEF FuzzerInv, FuzzerTypes

\* A node is drawn, or the fuzzer panics.
LEMMA BeginChoiceKnown ==
  ASSUME WorldInv, FuzzerInv, NEW f \in Fuzzers, BeginChoice(f)
  PROVE  WorldInv' /\ FuzzerInv'
<1> USE DEF BeginChoice, worldVars, targetVars, discoveryVars, Panic
<1>0. FuzzerTypes /\ Known(f)
  BY DEF FuzzerInv, FuzzerTypes
<1>1. WorldInv'
  BY DEF WorldInv
<1>2. FuzzerTypes'
  BY <1>0 DEF FuzzerTypes, Phases, Asking
<1>3. Others(f)
  BY <1>0 DEF FuzzerTypes, Others
<1>4. Known(f)'
  <2>1. phase[f] = "nodes" /\ todo[f] = {}
    BY DEF TargetsDone
  <2>2. CASE nodes[f] = << >>
    BY <1>0, <2>1, <2>2 DEF FuzzerTypes, Known
  <2>3. CASE nodes[f] # << >>
    BY <1>0, <2>1, <2>3 DEF FuzzerTypes, Known
  <2> QED BY <2>2, <2>3
<1> QED BY <1>1, <1>2, <1>3, <1>4, OthersKnown DEF FuzzerInv, FuzzerTypes

\* Another node is drawn.
LEMMA RedrawKnown ==
  ASSUME WorldInv, FuzzerInv, NEW f \in Fuzzers, NEW i \in DOMAIN nodes[f], Redraw(f, i)
  PROVE  WorldInv' /\ FuzzerInv'
<1> USE DEF Redraw, worldVars, targetVars, discoveryVars, Panic
<1>0. FuzzerTypes /\ Known(f)
  BY DEF FuzzerInv, FuzzerTypes
<1>1. WorldInv'
  BY DEF WorldInv
<1>2. FuzzerTypes'
  BY <1>0 DEF FuzzerTypes, Phases, Asking
<1>3. Others(f)
  BY <1>0 DEF FuzzerTypes, Others
<1>4. Known(f)'
  BY <1>0 DEF FuzzerTypes, Known, Answering, Phases, Asking
<1> QED BY <1>1, <1>2, <1>3, <1>4, OthersKnown DEF FuzzerInv, FuzzerTypes

\* An interface is chosen.
LEMMA ChooseInterfaceKnown ==
  ASSUME WorldInv, FuzzerInv, NEW f \in Fuzzers, ChooseInterface(f)
  PROVE  WorldInv' /\ FuzzerInv'
<1> USE DEF ChooseInterface, worldVars, targetVars, discoveryVars, Panic
<1>0. FuzzerTypes /\ Known(f)
  BY DEF FuzzerInv, FuzzerTypes
<1>1. WorldInv'
  BY DEF WorldInv
<1>2. FuzzerTypes'
  BY <1>0 DEF FuzzerTypes, Phases, Asking
<1>3. Others(f)
  BY <1>0 DEF FuzzerTypes, Others
<1>4. Known(f)'
  BY <1>0 DEF FuzzerTypes, Known
<1> QED BY <1>1, <1>2, <1>3, <1>4, OthersKnown DEF FuzzerInv, FuzzerTypes

\* A value is drawn.
LEMMA GenValueKnown ==
  ASSUME WorldInv, FuzzerInv, NEW f \in Fuzzers, GenValue(f)
  PROVE  WorldInv' /\ FuzzerInv'
<1> USE DEF GenValue, worldVars, targetVars, discoveryVars, Panic
<1>0. FuzzerTypes /\ Known(f)
  BY DEF FuzzerInv, FuzzerTypes
<1>1. WorldInv'
  BY DEF WorldInv
<1>2. FuzzerTypes'
  <2>1. phase' = phase \/ phase' = [phase EXCEPT ![f] = "generated"]
    OBVIOUS
  <2>2. UNCHANGED <<listed, known, todo, work, nodes, panicked, drawn>>
    OBVIOUS
  <2> HIDE DEF GenValue
  <2> QED BY <1>0, <2>1, <2>2 DEF FuzzerTypes, Phases
<1>3. Others(f)
  <2>1. phase' = phase \/ phase' = [phase EXCEPT ![f] = "generated"]
    OBVIOUS
  <2>2. UNCHANGED <<scenario, itfs, version, alive, listed, known, todo, work, nodes, panicked, drawn>>
    OBVIOUS
  <2> HIDE DEF GenValue
  <2> QED BY <1>0, <2>1, <2>2 DEF FuzzerTypes, Others
<1>4. Known(f)'
  BY <1>0 DEF FuzzerTypes, Known
<1> QED BY <1>1, <1>2, <1>3, <1>4, OthersKnown DEF FuzzerInv, FuzzerTypes

\* The command is sent.
LEMMA SerializationKnown ==
  ASSUME WorldInv, FuzzerInv, NEW f \in Fuzzers, Serialization(f)
  PROVE  WorldInv' /\ FuzzerInv'
<1> USE DEF Serialization, worldVars, targetVars, discoveryVars, Panic
<1>0. FuzzerTypes /\ Known(f)
  BY DEF FuzzerInv, FuzzerTypes
<1>1. WorldInv'
  BY DEF WorldInv
<1>2. FuzzerTypes'
  BY <1>0 DEF FuzzerTypes, Phases, Asking
<1>3. Others(f)
  BY <1>0 DEF FuzzerTypes, Others
<1>4. Known(f)'
  BY <1>0 DEF FuzzerTypes, Known
<1> QED BY <1>1, <1>2, <1>3, <1>4, OthersKnown DEF FuzzerInv, FuzzerTypes

\* What holds of the discovery goes on.
LEMMA NextKnown ==
  ASSUME WorldInv, FuzzerInv, [Next]_genVars
  PROVE  WorldInv' /\ FuzzerInv'
<1>1. CASE (Upgrade \/ Prepare \/ \E n \in Nodes : NodeChanges(n)) /\ UNCHANGED <<drawn, prog>>
  BY <1>1, WorldKnown
<1>2. ASSUME NEW f \in Fuzzers, FuzzerStep(f) PROVE WorldInv' /\ FuzzerInv'
  BY <1>2, StepsApart, KillKnown, LaunchKnown, ListNodesKnown, ReadCacheKnown, PushCachedKnown, ListParamsKnown,
     DescribeParamKnown, NodeSerializeKnown, EndLineKnown, BeginChoiceKnown, RedrawKnown, ChooseInterfaceKnown,
     GenValueKnown, SerializationKnown
<1>3. CASE UNCHANGED genVars
  <2>1. WorldInv'
    BY <1>3 DEF genVars, discoveryVars, worldVars, targetVars, WorldInv
  <2>2. \A f \in Fuzzers : Known(f)'
    BY <1>3 DEF genVars, discoveryVars, worldVars, targetVars, FuzzerInv, Known, Answering
  <2> QED BY <1>3, <2>1, <2>2 DEF genVars, discoveryVars, worldVars, targetVars, FuzzerInv
<1>4. scenario.fuzzers \subseteq Fuzzers
  BY ScenarioFacts
<1> QED BY <1>1, <1>2, <1>3, <1>4 DEF Next, FuzzerStep

-----------------------------------------------------------------------------
(* The file that campaigns share.                                           *)

\* An element of a sequence.
LEMMA InSeq ==
  ASSUME NEW S, NEW s \in Seq(S), NEW i \in DOMAIN s
  PROVE  s[i] \in S
OBVIOUS

\* What one more entry, and the end of its line, make of the file.
LEMMA EntryWritten ==
  ASSUME NEW file \in Seq(Entry \cup {LineEnd}), NEW e \in Entry
  PROVE  /\ EntryNames(Append(file, e)) = EntryNames(file) \cup {e.name}
         /\ Once(file) /\ e.name \notin EntryNames(file) => Once(Append(file, e))
         /\ Readable(file) /\ Len(file) % 2 # 1 =>
              Readable(Append(file, e)) /\ Len(Append(file, e)) % 2 = 1
<1> DEFINE next == Append(file, e)
<1>1. /\ Len(next) = Len(file) + 1 /\ Len(file) \in Nat
      /\ DOMAIN file = 1 .. Len(file) /\ DOMAIN next = 1 .. Len(file) + 1
      /\ next[Len(file) + 1] = e /\ \A i \in 1 .. Len(file) : next[i] = file[i]
  <2>1. e \in Entry \cup {LineEnd}
    OBVIOUS
  <2> QED BY <2>1, AppendFacts
<1>2. e # LineEnd
  BY EntryIsNode
<1> HIDE DEF next
<1>3. DOMAIN next = DOMAIN file \cup {Len(file) + 1} /\ Len(file) + 1 \notin DOMAIN file
  BY <1>1
<1>4. \A i \in DOMAIN file : next[i] = file[i]
  BY <1>1
<1>5. EntryNames(next) = EntryNames(file) \cup {e.name}
  BY <1>1, <1>2, <1>3, <1>4 DEF EntryNames
<1>6. Once(file) /\ e.name \notin EntryNames(file) => Once(next)
  <2> SUFFICES ASSUME Once(file), e.name \notin EntryNames(file),
                      NEW i \in DOMAIN next, NEW j \in DOMAIN next, i # j, next[i] # LineEnd, next[j] # LineEnd
               PROVE  next[i].name # next[j].name
    BY DEF Once
  <2>1. \A k \in DOMAIN file : file[k] # LineEnd => file[k].name # e.name
    BY DEF EntryNames
  <2> QED BY <1>1, <1>3, <1>4, <2>1 DEF Once
<1>7. Readable(file) /\ Len(file) % 2 # 1 => Readable(next) /\ Len(next) % 2 = 1
  <2> SUFFICES ASSUME Readable(file), Len(file) % 2 # 1 PROVE Readable(next) /\ Len(next) % 2 = 1
    OBVIOUS
  <2>1. (Len(file) + 1) % 2 = 1
    BY <1>1
  <2> QED BY <1>1, <1>2, <1>3, <1>4, <2>1 DEF Readable
<1> QED BY <1>5, <1>6, <1>7 DEF next

\* The end of a line adds no entry, and makes a file with an open line readable.
LEMMA LineEnded ==
  ASSUME NEW file \in Seq(Entry \cup {LineEnd})
  PROVE  /\ EntryNames(Append(file, LineEnd)) = EntryNames(file)
         /\ Once(file) => Once(Append(file, LineEnd))
         /\ Readable(file) /\ Len(file) % 2 = 1 =>
              Readable(Append(file, LineEnd)) /\ Len(Append(file, LineEnd)) % 2 # 1
<1> DEFINE next == Append(file, LineEnd)
<1>1. /\ Len(next) = Len(file) + 1 /\ Len(file) \in Nat
      /\ DOMAIN file = 1 .. Len(file) /\ DOMAIN next = 1 .. Len(file) + 1
      /\ next[Len(file) + 1] = LineEnd /\ \A i \in 1 .. Len(file) : next[i] = file[i]
  <2>1. LineEnd \in Entry \cup {LineEnd}
    OBVIOUS
  <2> QED BY <2>1, AppendFacts
<1> HIDE DEF next
<1>3. DOMAIN next = DOMAIN file \cup {Len(file) + 1} /\ Len(file) + 1 \notin DOMAIN file
  BY <1>1
<1>4. \A i \in DOMAIN file : next[i] = file[i]
  BY <1>1
<1>5. EntryNames(next) = EntryNames(file)
  BY <1>1, <1>3, <1>4 DEF EntryNames
<1>6. Once(file) => Once(next)
  BY <1>1, <1>3, <1>4 DEF Once
<1>7. Readable(file) /\ Len(file) % 2 = 1 => Readable(next) /\ Len(next) % 2 # 1
  <2> SUFFICES ASSUME Readable(file), Len(file) % 2 = 1 PROVE Readable(next) /\ Len(next) % 2 # 1
    OBVIOUS
  <2>1. (Len(file) + 1) % 2 = 0
    BY <1>1
  <2> QED BY <1>1, <1>3, <1>4, <2>1 DEF Readable
<1> QED BY <1>5, <1>6, <1>7 DEF next

\* Steps that write nothing and neither begin nor end a line.
LEMMA QuietCache ==
  ASSUME FuzzerInv, CacheInv, NEW f \in Fuzzers, Others(f), UNCHANGED cache,
         together' = together, cut' = cut, phase'[f] \in Asking => phase[f] \in Asking,
         phase'[f] = "line" <=> phase[f] = "line", ~together => Ahead(f)'
  PROVE  CacheInv'
<1> SUFFICES ASSUME ~together PROVE CacheInv'
  BY DEF CacheInv
<1>1. Alone(phase) /\ (\A g \in Fuzzers : Ahead(g)) /\ Once(cache)
      /\ (~cut => Readable(cache) /\ (Len(cache) % 2 = 1 <=> Writing(phase)))
  BY DEF CacheInv
<1>2. Alone(phase')
  BY <1>1 DEF Alone, Others
<1>3. \A g \in Fuzzers : Ahead(g)'
  BY <1>1 DEF Ahead, Others
<1>4. Writing(phase') <=> Writing(phase)
  BY DEF Writing, Others
<1> QED BY <1>1, <1>2, <1>3, <1>4 DEF CacheInv, Alone, Writing, Once, Readable

\* What each step of a fuzzer does to the file.
LEMMA ListNodesCache ==
  ASSUME WorldInv, FuzzerInv, CacheInv, NEW f \in Fuzzers, ListNodes(f), UNCHANGED <<drawn, prog>>
  PROVE  CacheInv'
<1> USE DEF ListNodes, worldVars, targetVars, discoveryVars, Panic
<1>0. FuzzerTypes /\ Known(f)
  BY DEF FuzzerInv, FuzzerTypes
<1>1. Others(f)
  BY <1>0 DEF FuzzerTypes, Others
<1>2. ~together => Ahead(f)'
  BY <1>0 DEF FuzzerTypes, Ahead, CacheInv
<1>3. /\ UNCHANGED cache /\ together' = together /\ cut' = cut
      /\ phase'[f] \in Asking => phase[f] \in Asking
      /\ phase'[f] = "line" <=> phase[f] = "line"
  BY <1>0 DEF FuzzerTypes, Asking
<1> HIDE DEF ListNodes
<1> QED BY <1>1, <1>2, <1>3, QuietCache

\* All nodes that the file has entries of are known from now on.
LEMMA ReadCacheCache ==
  ASSUME WorldInv, FuzzerInv, CacheInv, NEW f \in Fuzzers, ReadCache(f), UNCHANGED <<drawn, prog>>
  PROVE  CacheInv'
<1> USE DEF ReadCache, worldVars, targetVars, discoveryVars, Panic
<1>0. FuzzerTypes /\ Known(f)
  BY DEF FuzzerInv, FuzzerTypes
<1>1. Others(f)
  <2>1. CASE Readable(cache)
    BY <1>0, <2>1 DEF FuzzerTypes, Others
  <2>2. CASE ~Readable(cache)
    BY <1>0, <2>2 DEF FuzzerTypes, Others
  <2> QED BY <2>1, <2>2
<1>2. ~together => Ahead(f)'
  <2>1. DOMAIN NodeMap(cache) = EntryNames(cache)
    BY NodeMapIs DEF WorldInv
  <2> QED BY <1>0, <2>1 DEF FuzzerTypes, Ahead, CacheInv
<1>3. /\ UNCHANGED cache /\ together' = together /\ cut' = cut
      /\ phase'[f] \in Asking => phase[f] \in Asking
      /\ phase'[f] = "line" <=> phase[f] = "line"
  BY <1>0 DEF FuzzerTypes, Asking
<1> HIDE DEF ReadCache
<1> QED BY <1>1, <1>2, <1>3, QuietCache

\* The node is not to be asked any more.
LEMMA PushCachedCache ==
  ASSUME WorldInv, FuzzerInv, CacheInv, NEW f \in Fuzzers, NEW n \in todo[f], PushCached(f, n), UNCHANGED <<drawn, prog>>
  PROVE  CacheInv'
<1> USE DEF PushCached, worldVars, targetVars, discoveryVars, Panic
<1>0. FuzzerTypes /\ Known(f)
  BY DEF FuzzerInv, FuzzerTypes
<1>1. Others(f)
  BY <1>0 DEF FuzzerTypes, Others
<1>2. ~together => Ahead(f)'
  BY <1>0 DEF FuzzerTypes, Ahead, CacheInv
<1>3. /\ UNCHANGED cache /\ together' = together /\ cut' = cut
      /\ phase'[f] \in Asking => phase[f] \in Asking
      /\ phase'[f] = "line" <=> phase[f] = "line"
  BY <1>0 DEF FuzzerTypes, Asking
<1> HIDE DEF PushCached
<1> QED BY <1>1, <1>2, <1>3, QuietCache

\* The file has no entry of the node that is asked.
LEMMA ListParamsCache ==
  ASSUME WorldInv, FuzzerInv, CacheInv, NEW f \in Fuzzers, NEW n \in todo[f], ListParams(f, n), UNCHANGED <<drawn, prog>>
  PROVE  CacheInv'
<1> USE DEF ListParams, worldVars, targetVars, discoveryVars, Panic
<1>0. FuzzerTypes /\ Known(f)
  BY DEF FuzzerInv, FuzzerTypes
<1>1. Others(f)
  BY <1>0 DEF FuzzerTypes, Others
<1>2. ~together => Ahead(f)'
  <2>1. work'[f].name = n /\ todo'[f] = todo[f] \ {n} /\ phase'[f] = "params" /\ UNCHANGED cache
    BY <1>0 DEF FuzzerTypes
  <2>2. n \notin DOMAIN known[f] /\ phase[f] = "nodes"
    BY DEF Cached
  <2>3. UNCHANGED known
    OBVIOUS
  <2> HIDE DEF ListParams
  <2> SUFFICES ASSUME ~together PROVE Ahead(f)'
    OBVIOUS
  <2>4. EntryNames(cache) \cap todo[f] \subseteq DOMAIN known[f]
    BY <2>2 DEF Ahead, CacheInv
  <2>5. n \notin EntryNames(cache)
    BY <2>2, <2>4
  <2> QED BY <2>1, <2>3, <2>4, <2>5 DEF Ahead
<1>3. /\ UNCHANGED cache /\ together' = together /\ cut' = cut
      /\ phase'[f] \in Asking => phase[f] \in Asking
      /\ phase'[f] = "line" <=> phase[f] = "line"
  BY <1>0 DEF FuzzerTypes, Asking
<1> HIDE DEF ListParams
<1> QED BY <1>1, <1>2, <1>3, QuietCache

\* Nothing is written.
LEMMA DescribeParamCache ==
  ASSUME WorldInv, FuzzerInv, CacheInv, NEW f \in Fuzzers, NEW p \in work[f].left, DescribeParam(f, p), UNCHANGED <<drawn, prog>>
  PROVE  CacheInv'
<1> USE DEF DescribeParam, worldVars, targetVars, discoveryVars, Panic
<1>0. FuzzerTypes /\ Known(f)
  BY DEF FuzzerInv, FuzzerTypes
<1>1. Others(f)
  BY <1>0 DEF FuzzerTypes, Others
<1>2. ~together => Ahead(f)'
  <2>1. Answering(work[f])
    BY <1>0 DEF Known
  <2>2. phase'[f] = "params" => work'[f].name = work[f].name
    <3>1. CASE work[f].name \notin alive
      BY <1>0, <2>1, <3>1 DEF FuzzerTypes, Answering
    <3>2. CASE work[f].name \in alive /\ (ParamLeaf(p) = {} \/ Bounds(p))
      BY <1>0, <3>2 DEF FuzzerTypes
    <3>3. CASE work[f].name \in alive /\ ~(ParamLeaf(p) = {} \/ Bounds(p))
      BY <1>0, <2>1, <3>3 DEF FuzzerTypes, Answering
    <3> QED BY <3>1, <3>2, <3>3
  <2>3. UNCHANGED <<todo, cache, known>> /\ phase[f] = "params" /\ phase'[f] \in {"params", "off"}
    BY <1>0 DEF FuzzerTypes
  <2> HIDE DEF DescribeParam
  <2> QED BY <2>2, <2>3 DEF Ahead, CacheInv
<1>3. /\ UNCHANGED cache /\ together' = together /\ cut' = cut
      /\ phase'[f] \in Asking => phase[f] \in Asking
      /\ phase'[f] = "line" <=> phase[f] = "line"
  BY <1>0 DEF FuzzerTypes, Asking
<1> HIDE DEF DescribeParam
<1> QED BY <1>1, <1>2, <1>3, QuietCache

\* Nothing is written.
LEMMA BeginChoiceCache ==
  ASSUME WorldInv, FuzzerInv, CacheInv, NEW f \in Fuzzers, BeginChoice(f)
  PROVE  CacheInv'
<1> USE DEF BeginChoice, worldVars, targetVars, discoveryVars, Panic
<1>0. FuzzerTypes /\ Known(f)
  BY DEF FuzzerInv, FuzzerTypes
<1>1. Others(f)
  BY <1>0 DEF FuzzerTypes, Others
<1>2. ~together => Ahead(f)'
  BY <1>0 DEF FuzzerTypes, Ahead, CacheInv, TargetsDone
<1>3. /\ UNCHANGED cache /\ together' = together /\ cut' = cut
      /\ phase'[f] \in Asking => phase[f] \in Asking
      /\ phase'[f] = "line" <=> phase[f] = "line"
  BY <1>0 DEF FuzzerTypes, Asking, TargetsDone
<1> HIDE DEF BeginChoice
<1> QED BY <1>1, <1>2, <1>3, QuietCache

\* Nothing is written.
LEMMA RedrawCache ==
  ASSUME WorldInv, FuzzerInv, CacheInv, NEW f \in Fuzzers, NEW i \in DOMAIN nodes[f], Redraw(f, i)
  PROVE  CacheInv'
<1> USE DEF Redraw, worldVars, targetVars, discoveryVars, Panic
<1>0. FuzzerTypes /\ Known(f)
  BY DEF FuzzerInv, FuzzerTypes
<1>1. Others(f)
  BY <1>0 DEF FuzzerTypes, Others
<1>2. ~together => Ahead(f)'
  BY <1>0 DEF FuzzerTypes, Ahead, CacheInv
<1>3. /\ UNCHANGED cache /\ together' = together /\ cut' = cut
      /\ phase'[f] \in Asking => phase[f] \in Asking
      /\ phase'[f] = "line" <=> phase[f] = "line"
  BY <1>0 DEF FuzzerTypes, Asking
<1> HIDE DEF Redraw
<1> QED BY <1>1, <1>2, <1>3, QuietCache

\* Nothing is written.
LEMMA ChooseInterfaceCache ==
  ASSUME WorldInv, FuzzerInv, CacheInv, NEW f \in Fuzzers, ChooseInterface(f)
  PROVE  CacheInv'
<1> USE DEF ChooseInterface, worldVars, targetVars, discoveryVars, Panic
<1>0. FuzzerTypes /\ Known(f)
  BY DEF FuzzerInv, FuzzerTypes
<1>1. Others(f)
  BY <1>0 DEF FuzzerTypes, Others
<1>2. ~together => Ahead(f)'
  BY <1>0 DEF FuzzerTypes, Ahead, CacheInv
<1>3. /\ UNCHANGED cache /\ together' = together /\ cut' = cut
      /\ phase'[f] \in Asking => phase[f] \in Asking
      /\ phase'[f] = "line" <=> phase[f] = "line"
  BY <1>0 DEF FuzzerTypes, Asking
<1> HIDE DEF ChooseInterface
<1> QED BY <1>1, <1>2, <1>3, QuietCache

\* Nothing is written.
LEMMA GenValueCache ==
  ASSUME WorldInv, FuzzerInv, CacheInv, NEW f \in Fuzzers, GenValue(f)
  PROVE  CacheInv'
<1> USE DEF GenValue, worldVars, targetVars, discoveryVars, Panic
<1>0. FuzzerTypes /\ Known(f)
  BY DEF FuzzerInv, FuzzerTypes
<1>a. UNCHANGED <<scenario, itfs, version, alive, listed, known, todo, work, nodes, panicked, drawn, cache, together, cut>>
  OBVIOUS
<1>b. phase[f] = "generating" /\ (phase' = phase \/ phase' = [phase EXCEPT ![f] = "generated"])
  OBVIOUS
<1>c. phase'[f] \notin Asking /\ (phase'[f] = "line" <=> phase[f] = "line") /\ phase'[f] \in {"generating", "generated"}
  BY <1>0, <1>b DEF FuzzerTypes, Asking
<1> HIDE DEF GenValue
<1>1. Others(f)
  BY <1>0, <1>a, <1>b DEF FuzzerTypes, Others
<1>2. ~together => Ahead(f)'
  BY <1>c DEF Ahead
<1>3. /\ UNCHANGED cache /\ together' = together /\ cut' = cut
      /\ phase'[f] \in Asking => phase[f] \in Asking
      /\ phase'[f] = "line" <=> phase[f] = "line"
  BY <1>a, <1>c
<1> HIDE DEF GenValue
<1> QED BY <1>1, <1>2, <1>3, QuietCache

\* Nothing is written.
LEMMA SerializationCache ==
  ASSUME WorldInv, FuzzerInv, CacheInv, NEW f \in Fuzzers, Serialization(f)
  PROVE  CacheInv'
<1> USE DEF Serialization, worldVars, targetVars, discoveryVars, Panic
<1>0. FuzzerTypes /\ Known(f)
  BY DEF FuzzerInv, FuzzerTypes
<1>1. Others(f)
  BY <1>0 DEF FuzzerTypes, Others
<1>2. ~together => Ahead(f)'
  BY <1>0 DEF FuzzerTypes, Ahead, CacheInv
<1>3. /\ UNCHANGED cache /\ together' = together /\ cut' = cut
      /\ phase'[f] \in Asking => phase[f] \in Asking
      /\ phase'[f] = "line" <=> phase[f] = "line"
  BY <1>0 DEF FuzzerTypes, Asking
<1> HIDE DEF Serialization
<1> QED BY <1>1, <1>2, <1>3, QuietCache

\* A kill in a line leaves it without its end.
LEMMA KillCache ==
  ASSUME WorldInv, FuzzerInv, CacheInv, NEW f \in Fuzzers, Kill(f), UNCHANGED <<drawn, prog>>
  PROVE  CacheInv'
<1> USE DEF Kill, worldVars, targetVars, discoveryVars, Panic
<1>0. FuzzerTypes /\ Known(f)
  BY DEF FuzzerInv, FuzzerTypes
<1> SUFFICES ASSUME ~together' PROVE CacheInv'
  BY DEF CacheInv
<1>1. Others(f)
  BY <1>0 DEF FuzzerTypes, Others
<1>2. ~together /\ Alone(phase) /\ (\A g \in Fuzzers : Ahead(g)) /\ Once(cache)
      /\ (~cut => Readable(cache) /\ (Len(cache) % 2 = 1 <=> Writing(phase)))
  BY DEF CacheInv
<1>3. Alone(phase')
  BY <1>0, <1>2 DEF Alone, FuzzerTypes, Asking
<1>4. \A g \in Fuzzers : Ahead(g)'
  BY <1>0, <1>1, <1>2 DEF Ahead, Others, FuzzerTypes
<1>5. Once(cache')
  BY <1>2
<1>6. ~cut' => Readable(cache') /\ (Len(cache') % 2 = 1 <=> Writing(phase'))
  <2> SUFFICES ASSUME ~cut' PROVE Writing(phase') <=> Writing(phase)
    BY <1>2
  <2> QED BY <1>0, <1>1 DEF Writing, Others, FuzzerTypes
<1> QED BY <1>3, <1>4, <1>5, <1>6 DEF CacheInv, Alone, Writing, Once, Readable

\* A second campaign may ask at the same time.
LEMMA LaunchCache ==
  ASSUME WorldInv, FuzzerInv, CacheInv, NEW f \in Fuzzers, Launch(f), UNCHANGED <<drawn, prog>>
  PROVE  CacheInv'
<1> USE DEF Launch, worldVars, targetVars, discoveryVars, Panic
<1>0. FuzzerTypes /\ Known(f)
  BY DEF FuzzerInv, FuzzerTypes
<1> SUFFICES ASSUME ~together' PROVE CacheInv'
  BY DEF CacheInv
<1>1. Others(f)
  BY <1>0 DEF FuzzerTypes, Others
<1>2. ~together /\ Alone(phase) /\ (\A g \in Fuzzers : Ahead(g)) /\ Once(cache)
      /\ (~cut => Readable(cache) /\ (Len(cache) % 2 = 1 <=> Writing(phase)))
  BY DEF CacheInv
<1>3. Alone(phase')
  <2>1. \A g \in Fuzzers \ {f} : phase'[g] \notin Asking
    BY <1>1 DEF Others
  <2> QED BY <2>1 DEF Alone
<1>4. \A g \in Fuzzers : Ahead(g)'
  BY <1>0, <1>1, <1>2 DEF Ahead, Others, FuzzerTypes
<1>5. Once(cache')
  BY <1>2
<1>6. ~cut' => Readable(cache') /\ (Len(cache') % 2 = 1 <=> Writing(phase'))
  <2>1. Writing(phase') <=> Writing(phase)
    BY <1>0, <1>1 DEF Writing, Others, FuzzerTypes
  <2> QED BY <1>2, <2>1
<1> QED BY <1>3, <1>4, <1>5, <1>6 DEF CacheInv, Alone, Writing, Once, Readable

\* The line of the entry ends.
LEMMA EndLineCache ==
  ASSUME WorldInv, FuzzerInv, CacheInv, NEW f \in Fuzzers, EndLine(f), UNCHANGED <<drawn, prog>>
  PROVE  CacheInv'
<1> USE DEF EndLine, worldVars, targetVars, discoveryVars, Panic
<1>0. FuzzerTypes /\ Known(f)
  BY DEF FuzzerInv, FuzzerTypes
<1> SUFFICES ASSUME ~together' PROVE CacheInv'
  BY DEF CacheInv
<1>1. Others(f)
  BY <1>0 DEF FuzzerTypes, Others
<1>2. ~together /\ Alone(phase) /\ (\A g \in Fuzzers : Ahead(g)) /\ Once(cache)
      /\ (~cut => Readable(cache) /\ (Len(cache) % 2 = 1 <=> Writing(phase)))
  BY DEF CacheInv
<1>9. phase[f] = "line" /\ phase[f] \in Asking /\ phase'[f] = "nodes"
      /\ UNCHANGED <<cut, todo, known>> /\ cache' = Append(cache, LineEnd)
  BY <1>0 DEF FuzzerTypes, Asking
<1> HIDE DEF EndLine
<1>a. cache \in Seq(Entry \cup {LineEnd})
  BY DEF WorldInv
<1>b. \A g \in Fuzzers \ {f} : phase'[g] \notin Asking
  BY <1>1, <1>2, <1>9 DEF Alone, Others
<1>3. Alone(phase')
  BY <1>b DEF Alone
<1>4. \A g \in Fuzzers : Ahead(g)'
  <2>1. \A g \in Fuzzers \ {f} : Ahead(g)'
    BY <1>b DEF Ahead, Asking
  <2>2. Ahead(f)'
    <3>1. EntryNames(cache') = EntryNames(cache)
      BY <1>9, <1>a, LineEnded
    <3>2. EntryNames(cache) \cap todo[f] \subseteq DOMAIN known[f]
      BY <1>2, <1>9 DEF Ahead
    <3> QED BY <1>9, <3>1, <3>2 DEF Ahead
  <2> QED BY <2>1, <2>2
<1>5. Once(cache')
  BY <1>2, <1>9, <1>a, LineEnded
<1>6. ~cut' => Readable(cache') /\ (Len(cache') % 2 = 1 <=> Writing(phase'))
  <2> SUFFICES ASSUME ~cut PROVE Readable(cache') /\ (Len(cache') % 2 = 1 <=> Writing(phase'))
    BY <1>9
  <2>1. Readable(cache) /\ Len(cache) % 2 = 1
    BY <1>2, <1>9 DEF Writing
  <2>2. Readable(cache') /\ Len(cache') % 2 # 1
    BY <1>9, <1>a, <2>1, LineEnded
  <2>3. ~Writing(phase')
    BY <1>9, <1>b DEF Writing, Asking
  <2> QED BY <2>2, <2>3
<1> QED BY <1>3, <1>4, <1>5, <1>6 DEF CacheInv, Alone, Writing, Once, Readable

\* The entry is the first one of its node.
LEMMA NodeSerializeCache ==
  ASSUME WorldInv, FuzzerInv, CacheInv, NEW f \in Fuzzers, WorldInv', NodeSerialize(f), UNCHANGED <<drawn, prog>>
  PROVE  CacheInv'
<1> USE DEF NodeSerialize, worldVars, targetVars, discoveryVars, Panic
<1>0. FuzzerTypes /\ Known(f)
  BY DEF FuzzerInv, FuzzerTypes
<1>a. cache \in Seq(Entry \cup {LineEnd}) /\ Answering(work[f]) /\ cache' \in Seq(Entry \cup {LineEnd})
  BY <1>0 DEF WorldInv, Known
<1>c. \/ \E e : /\ e.name = work[f].name /\ e # LineEnd
                 /\ cache' = Append(cache, e) /\ phase' = [phase EXCEPT ![f] = "line"]
      \/ UNCHANGED cache /\ phase' = [phase EXCEPT ![f] = "off"]
  <2>1. \A val, v, s : Node(work[f].name, val, work[f].params, v, s).name = work[f].name
                       /\ Node(work[f].name, val, work[f].params, v, s) # LineEnd
    BY DEF Node, LineEnd
  <2> QED BY <2>1
<1>d. phase[f] = "params" /\ phase[f] \in Asking
      /\ UNCHANGED <<together, cut, todo, known, work, listed, scenario, itfs, version, alive, drawn>>
  BY DEF Asking
<1>e. \A g \in Fuzzers \ {f} : phase'[g] = phase[g]
  BY <1>0, <1>c DEF FuzzerTypes
<1> HIDE DEF NodeSerialize
<1> SUFFICES ASSUME ~together PROVE CacheInv'
  BY <1>d DEF CacheInv
<1>2. Alone(phase) /\ (\A g \in Fuzzers : Ahead(g)) /\ Once(cache)
      /\ (~cut => Readable(cache) /\ (Len(cache) % 2 = 1 <=> Writing(phase)))
  BY DEF CacheInv
<1>b. \A g \in Fuzzers \ {f} : phase'[g] \notin Asking
  BY <1>2, <1>d, <1>e DEF Alone
<1>3. Alone(phase')
  BY <1>b DEF Alone
<1>g. \A g \in Fuzzers \ {f} : Ahead(g)'
  BY <1>b DEF Ahead, Asking
<1>h. ~Writing(phase)
  BY <1>b, <1>d, <1>e DEF Writing, Asking
<1>4. CASE UNCHANGED cache /\ phase' = [phase EXCEPT ![f] = "off"]
  <2>1. phase'[f] = "off"
    BY <1>0, <1>4 DEF FuzzerTypes
  <2>2. Ahead(f)'
    BY <2>1 DEF Ahead
  <2>3. ~Writing(phase')
    BY <1>b, <2>1 DEF Writing, Asking
  <2> QED BY <1>2, <1>3, <1>4, <1>d, <1>g, <1>h, <2>2, <2>3 DEF CacheInv, Alone, Writing, Once, Readable
<1>5. ASSUME NEW e, e.name = work[f].name, e # LineEnd, cache' = Append(cache, e), phase' = [phase EXCEPT ![f] = "line"]
      PROVE  CacheInv'
  <2>1. e \in Entry
    <3>1. e \in Entry \cup {LineEnd}
      <4>1. Len(cache) + 1 \in DOMAIN cache' /\ cache'[Len(cache) + 1] = e
        <5>1. cache \in Seq(Entry \cup {LineEnd, e}) /\ e \in Entry \cup {LineEnd, e}
          <6>1. Entry \cup {LineEnd} \subseteq Entry \cup {LineEnd, e}
            OBVIOUS
          <6> QED BY <1>a, <6>1, SeqMonotonic
        <5>2. DOMAIN cache' = 1 .. Len(cache) + 1 /\ Len(cache) \in Nat /\ cache'[Len(cache) + 1] = e
          BY <1>5, <5>1, AppendFacts
        <5> QED BY <5>2
      <4> QED BY <1>a, <4>1, InSeq
    <3> QED BY <1>5, <3>1
  <2>2. phase'[f] = "line"
    BY <1>0, <1>5 DEF FuzzerTypes
  <2>3. EntryNames(cache') = EntryNames(cache) \cup {work[f].name}
    BY <1>5, <1>a, <2>1, EntryWritten
  <2>4. work[f].name \notin EntryNames(cache) \cup todo[f]
    BY <1>2, <1>d DEF Ahead
  <2>5. Ahead(f)'
    <3>1. EntryNames(cache) \cap todo[f] \subseteq DOMAIN known[f]
      BY <1>2, <1>d DEF Ahead
    <3> QED BY <1>d, <2>2, <2>3, <2>4, <3>1 DEF Ahead
  <2>6. Once(cache')
    BY <1>2, <1>5, <1>a, <2>1, <2>4, EntryWritten
  <2>7. ~cut' => Readable(cache') /\ Len(cache') % 2 = 1
    BY <1>2, <1>5, <1>a, <1>d, <1>h, <2>1, EntryWritten
  <2>8. Writing(phase')
    BY <2>2 DEF Writing
  <2> QED BY <1>3, <1>g, <2>5, <2>6, <2>7, <2>8 DEF CacheInv, Alone, Writing, Once, Readable
<1> QED BY <1>4, <1>5, <1>c

\* The file is empty at first.
LEMMA InitCache ==
  ASSUME Init
  PROVE  CacheInv
<1>1. cache = << >> /\ \A f \in Fuzzers : phase[f] = "off"
  BY DEF Init, DiscoveryInit
<1>2. DOMAIN cache = {} /\ Len(cache) = 0
  BY <1>1
<1>3. Alone(phase) /\ ~Writing(phase) /\ \A f \in Fuzzers : Ahead(f)
  BY <1>1 DEF Alone, Writing, Ahead, Asking
<1>4. Once(cache) /\ Readable(cache) /\ Len(cache) % 2 # 1
  BY <1>2 DEF Once, Readable
<1> QED BY <1>3, <1>4 DEF CacheInv

\* Every step keeps the file whole.
LEMMA NextCache ==
  ASSUME WorldInv, FuzzerInv, CacheInv, [Next]_genVars
  PROVE  CacheInv'
<1>1. CASE (Upgrade \/ Prepare \/ \E n \in Nodes : NodeChanges(n)) /\ UNCHANGED <<drawn, prog>>
  <2>1. UNCHANGED <<cache, phase, todo, known, work, together, cut>>
    BY <1>1 DEF Upgrade, Prepare, NodeChanges, targetVars
  <2> QED BY <2>1 DEF CacheInv, Alone, Ahead, Once, Writing, Readable
<1>2. ASSUME NEW f \in Fuzzers, FuzzerStep(f) PROVE CacheInv'
  <2>1. WorldInv'
    BY NextKnown
  <2> QED
    BY <1>2, <2>1, StepsApart, KillCache, LaunchCache, ListNodesCache, ReadCacheCache, PushCachedCache,
       ListParamsCache, DescribeParamCache, NodeSerializeCache, EndLineCache, BeginChoiceCache, RedrawCache,
       ChooseInterfaceCache, GenValueCache, SerializationCache
<1>3. CASE UNCHANGED genVars
  <2>1. UNCHANGED <<cache, phase, todo, known, work, together, cut>>
    BY <1>3 DEF genVars, discoveryVars, worldVars, targetVars
  <2> QED BY <2>1 DEF CacheInv, Alone, Ahead, Once, Writing, Readable
<1>4. scenario.fuzzers \subseteq Fuzzers
  BY ScenarioFacts
<1> QED BY <1>1, <1>2, <1>3, <1>4 DEF Next, FuzzerStep

-----------------------------------------------------------------------------
(* The reasons for a panic.                                                 *)

\* Why one fuzzer panicked: the reason, what it listed, the node it asked, the
\* json files, the versions, and whether there were two campaigns or a kill.
Reason(why, list, name, j, versions, torn) ==
  /\ why \in {"", "nodes", "cache", "param", "type"}
  /\ why = "nodes" => list \subseteq Skipped
  /\ why = "cache" => torn
  /\ why = "param" =>
       \E a \in {Apps[v][name] : v \in versions} : \E p \in a.params :
         ~p.qos /\ (p.type[1] \notin DOMAIN ParamType \/ p.bounded)
  /\ why = "type" =>
       \E a \in {Apps[v][name] : v \in versions} :
         \E s \in DOMAIN a.offers : \E o \in ToSet(a.offers[s]) :
           ~Constructible(j, LastPart(o[2])) /\ o[1] \notin ParameterWords
Why(f) == Reason(panicked[f], listed[f], work[f].name, itfs, scenario.versions, together \/ cut)

\* A reason stays one after a second campaign or a kill.
LEMMA ReasonStays ==
  ASSUME NEW why, NEW list, NEW name, NEW j, NEW versions, NEW torn \in BOOLEAN, NEW more \in BOOLEAN,
         torn => more, Reason(why, list, name, j, versions, torn)
  PROVE  Reason(why, list, name, j, versions, more)
<1>1. torn = more \/ (~torn /\ more)
  OBVIOUS
<1>2. CASE ~torn /\ more
  BY <1>2 DEF Reason
<1> QED BY <1>1, <1>2

\* The reasons are those of PanicOnlyFor.
LEMMA WhyEach ==
  ASSUME \A f \in Fuzzers : Why(f)
  PROVE  PanicOnlyFor
<1>1. ASSUME NEW f \in Fuzzers
      PROVE  CASE panicked[f] = "nodes" -> listed[f] \subseteq Skipped
      [] panicked[f] = "cache" -> together \/ cut
      [] panicked[f] = "param" ->
           \E a \in {Apps[v][work[f].name] : v \in scenario.versions} : \E p \in a.params :
             ~p.qos /\ (p.type[1] \notin DOMAIN ParamType \/ p.bounded)
      [] panicked[f] = "type" ->
           \E a \in {Apps[v][work[f].name] : v \in scenario.versions} :
             \E s \in DOMAIN a.offers : \E o \in ToSet(a.offers[s]) :
               ~Constructible(itfs, LastPart(o[2])) /\ o[1] \notin ParameterWords
      [] OTHER -> panicked[f] = ""
  <2>0. Why(f)
    OBVIOUS
  <2>1. CASE panicked[f] = "nodes"
    BY <2>0, <2>1 DEF Why, Reason
  <2>2. CASE panicked[f] = "cache"
    BY <2>0, <2>2 DEF Why, Reason
  <2>3. CASE panicked[f] = "param"
    BY <2>0, <2>3 DEF Why, Reason
  <2>4. CASE panicked[f] = "type"
    BY <2>0, <2>4 DEF Why, Reason
  <2>5. CASE panicked[f] \notin {"nodes", "cache", "param", "type"}
    BY <2>0, <2>5 DEF Why, Reason
  <2> QED BY <2>1, <2>2, <2>3, <2>4, <2>5
<1> QED BY <1>1 DEF PanicOnlyFor

\* The others keep theirs.
LEMMA OthersWhy ==
  ASSUME NEW f \in Fuzzers, Others(f), \A g \in Fuzzers : Why(g), together => together', cut => cut', Why(f)'
  PROVE  \A g \in Fuzzers : Why(g)'
<1>1. ASSUME NEW g \in Fuzzers \ {f} PROVE Why(g)'
  <2>1. Why(g)
    OBVIOUS
  <2>2. panicked'[g] = panicked[g] /\ listed'[g] = listed[g] /\ work'[g] = work[g] /\ UNCHANGED <<itfs, scenario>>
    BY DEF Others
  <2> QED BY <2>1, <2>2, ReasonStays DEF Why
<1> QED BY <1>1

\* Most steps end with no panic.
LEMMA QuietWhy ==
  ASSUME NEW f \in Fuzzers, Others(f), \A g \in Fuzzers : Why(g), together => together', cut => cut',
         panicked'[f] = ""
  PROVE  \A g \in Fuzzers : Why(g)'
<1>1. Why(f)'
  BY DEF Why, Reason
<1> QED BY <1>1, OthersWhy

\* A parameter that is not described is bounded, or its type has no value.
LEMMA ParamPanics ==
  ASSUME NEW p, p.type \in Seq(STRING), p.type # << >>, ParamLeaf(p) = {} \/ Bounds(p)
  PROVE  p.type[1] \notin DOMAIN ParamType \/ p.bounded
<1>1. Head(p.type) = p.type[1]
  OBVIOUS
<1>2. DOMAIN ParamType = {"boolean", "integer", "double", "string"}
  BY DEF ParamType
<1> SUFFICES ASSUME p.type[1] \in DOMAIN ParamType, ParamLeaf(p) = {} PROVE FALSE
  BY DEF Bounds
<1>3. CASE p.type[1] = "boolean"
  BY <1>1, <1>3 DEF ParamLeaf
<1>4. CASE p.type[1] = "integer"
  BY <1>1, <1>4 DEF ParamLeaf
<1>5. CASE p.type[1] = "double"
  BY <1>1, <1>5 DEF ParamLeaf
<1>6. CASE p.type[1] = "string"
  <2>1. PICK len : len \in Lengths
    BY ValueAssumption
  <2>2. StringType(len, << >>) \in ParamLeaf(p)
    BY <1>1, <1>6, <2>1 DEF ParamLeaf
  <2> QED BY <2>2
<1> QED BY <1>2, <1>3, <1>4, <1>5, <1>6

\* A panic has its reason, and keeps it.
LEMMA NextWhy ==
  ASSUME WorldInv, FuzzerInv, CacheInv, \A f \in Fuzzers : Why(f), [Next]_genVars
  PROVE  \A f \in Fuzzers : Why(f)'
<1>0. FuzzerTypes /\ \A f \in Fuzzers : Known(f)
  BY DEF FuzzerInv, FuzzerTypes
<1>1. CASE Upgrade /\ UNCHANGED <<drawn, prog>>
  <2>1. UNCHANGED <<panicked, listed, work, itfs, scenario, together, cut>>
    BY <1>1 DEF Upgrade, targetVars
  <2> QED BY <2>1 DEF Why
<1>2. CASE (\E n \in Nodes : NodeChanges(n)) /\ UNCHANGED <<drawn, prog>>
  <2>1. UNCHANGED <<panicked, listed, work, itfs, scenario, together, cut>>
    BY <1>2 DEF NodeChanges, targetVars
  <2> QED BY <2>1 DEF Why
<1>3. CASE Prepare /\ UNCHANGED <<drawn, prog>>
  <2>1. \A f \in Fuzzers : panicked[f] = ""
    BY <1>0, <1>3 DEF Prepare, Known
  <2>2. UNCHANGED panicked
    BY <1>3 DEF Prepare, targetVars
  <2> QED BY <2>1, <2>2 DEF Why, Reason
<1>4. CASE UNCHANGED genVars
  <2>1. UNCHANGED <<panicked, listed, work, itfs, scenario, together, cut>>
    BY <1>4 DEF genVars, discoveryVars, worldVars, targetVars
  <2> QED BY <2>1 DEF Why
<1>5. ASSUME NEW f \in Fuzzers, FuzzerStep(f) PROVE \A g \in Fuzzers : Why(g)'
  <2> USE DEF worldVars, targetVars, discoveryVars, Panic
  <2>1. Known(f)
    BY <1>0
  <2>2. CASE Launch(f) /\ UNCHANGED <<drawn, prog>>
    <3>1. Others(f) /\ panicked'[f] = "" /\ (together => together') /\ (cut => cut')
      BY <1>0, <2>2 DEF Launch, FuzzerTypes, Others
    <3> QED BY <3>1, QuietWhy
  <2>3. CASE Kill(f) /\ UNCHANGED <<drawn, prog>>
    <3>1. Others(f) /\ panicked'[f] = "" /\ (together => together') /\ (cut => cut')
      BY <1>0, <2>1, <2>3 DEF Kill, FuzzerTypes, Others, Known
    <3> QED BY <3>1, QuietWhy
  <2>4. CASE (ListNodes(f) \/ EndLine(f)) /\ UNCHANGED <<drawn, prog>>
    <3>1. Others(f) /\ panicked'[f] = "" /\ (together => together') /\ (cut => cut')
      <4>1. CASE ListNodes(f)
        BY <1>0, <2>1, <2>4, <4>1 DEF ListNodes, FuzzerTypes, Others, Known
      <4>2. CASE EndLine(f)
        BY <1>0, <2>1, <2>4, <4>2 DEF EndLine, FuzzerTypes, Others, Known
      <4> QED BY <2>4, <4>1, <4>2
    <3> QED BY <3>1, QuietWhy
  <2>5. ASSUME NEW n \in todo[f], PushCached(f, n) \/ ListParams(f, n), UNCHANGED <<drawn, prog>>
        PROVE  \A g \in Fuzzers : Why(g)'
    <3>1. Others(f) /\ panicked'[f] = "" /\ (together => together') /\ (cut => cut')
      <4>1. CASE PushCached(f, n)
        BY <1>0, <2>1, <2>5, <4>1 DEF PushCached, FuzzerTypes, Others, Known
      <4>2. CASE ListParams(f, n)
        BY <1>0, <2>1, <2>5, <4>2 DEF ListParams, FuzzerTypes, Others, Known
      <4> QED BY <2>5, <4>1, <4>2
    <3> QED BY <3>1, QuietWhy
  <2>6. CASE (\E i \in DOMAIN nodes[f] : Redraw(f, i)) \/ ChooseInterface(f) \/ Serialization(f)
    <3>1. Others(f) /\ panicked'[f] = "" /\ (together => together') /\ (cut => cut')
      <4>1. ASSUME NEW i \in DOMAIN nodes[f], Redraw(f, i)
            PROVE  Others(f) /\ panicked'[f] = "" /\ (together => together') /\ (cut => cut')
        BY <1>0, <2>1, <4>1 DEF Redraw, FuzzerTypes, Others, Known
      <4>2. CASE ChooseInterface(f)
        BY <1>0, <2>1, <4>2 DEF ChooseInterface, FuzzerTypes, Others, Known
      <4>3. CASE Serialization(f)
        BY <1>0, <2>1, <4>3 DEF Serialization, FuzzerTypes, Others, Known
      <4> QED BY <2>6, <4>1, <4>2, <4>3
    <3> QED BY <3>1, QuietWhy
  <2>7. CASE GenValue(f)
    <3>1. UNCHANGED <<scenario, itfs, version, alive, listed, known, todo, work, nodes, panicked, drawn, together, cut>>
      BY <2>7 DEF GenValue
    <3>2. phase[f] = "generating" /\ (phase' = phase \/ phase' = [phase EXCEPT ![f] = "generated"])
      BY <2>7 DEF GenValue
    <3>3. Others(f) /\ panicked'[f] = "" /\ (together => together') /\ (cut => cut')
      BY <1>0, <2>1, <3>1, <3>2 DEF FuzzerTypes, Others, Known
    <3> QED BY <3>3, QuietWhy
  <2>8. CASE BeginChoice(f)
    <3>1. Others(f) /\ UNCHANGED <<together, cut, listed, work, scenario, itfs>>
      BY <1>0, <2>8 DEF BeginChoice, FuzzerTypes, Others
    <3>2. Why(f)'
      <4>1. phase[f] = "nodes" /\ todo[f] = {}
        BY <2>8 DEF BeginChoice, TargetsDone
      <4>2. CASE nodes[f] = << >>
        <5>1. panicked'[f] = "nodes"
          BY <1>0, <2>8, <4>2 DEF BeginChoice, FuzzerTypes
        <5>2. listed[f] \ Skipped = {}
          BY <2>1, <4>1, <4>2 DEF Known
        <5> QED BY <3>1, <5>1, <5>2 DEF Why, Reason
      <4>3. CASE nodes[f] # << >>
        <5>1. panicked'[f] = ""
          BY <1>0, <2>1, <2>8, <4>1, <4>3 DEF BeginChoice, FuzzerTypes, Known
        <5> QED BY <5>1 DEF Why, Reason
      <4> QED BY <4>2, <4>3
    <3> QED BY <3>1, <3>2, OthersWhy
  <2>9. CASE ReadCache(f) /\ UNCHANGED <<drawn, prog>>
    <3>1. CASE Readable(cache)
      <4>1. Others(f) /\ panicked'[f] = "" /\ (together => together') /\ (cut => cut')
        BY <1>0, <2>1, <2>9, <3>1 DEF ReadCache, FuzzerTypes, Others, Known
      <4> QED BY <4>1, QuietWhy
    <3>2. CASE ~Readable(cache)
      <4>1. Others(f) /\ panicked'[f] = "cache" /\ UNCHANGED <<together, cut>>
        BY <1>0, <2>9, <3>2 DEF ReadCache, FuzzerTypes, Others
      <4>2. Why(f)'
        BY <3>2, <4>1 DEF Why, Reason, CacheInv
      <4> QED BY <4>1, <4>2, OthersWhy
    <3> QED BY <3>1, <3>2
  <2>10. ASSUME NEW p \in work[f].left, DescribeParam(f, p), UNCHANGED <<drawn, prog>>
         PROVE  \A g \in Fuzzers : Why(g)'
    <3>1. phase[f] = "params" /\ Answering(work[f])
      BY <2>1, <2>10 DEF DescribeParam, Known
    <3>2. Others(f) /\ UNCHANGED <<together, cut, listed, scenario, itfs>>
      BY <1>0, <2>10 DEF DescribeParam, FuzzerTypes, Others
    <3>3. CASE work[f].name \in alive /\ (ParamLeaf(p) = {} \/ Bounds(p))
      <4>1. panicked'[f] = "param" /\ UNCHANGED work
        BY <1>0, <2>10, <3>3 DEF DescribeParam, FuzzerTypes
      <4>2. p \in Apps[version][work[f].name].params /\ ~p.qos /\ work[f].name \in Nodes
        BY <3>1 DEF Answering, Settable
      <4>3. p.type \in Seq(STRING) /\ p.type # << >>
        BY <4>2, AppFacts, ScenarioFacts
      <4>4. p.type[1] \notin DOMAIN ParamType \/ p.bounded
        BY <3>3, <4>3, ParamPanics
      <4>5. version \in scenario.versions
        BY DEF WorldInv
      <4>6. \E a \in {Apps[v][work[f].name] : v \in scenario.versions} : \E q \in a.params :
              ~q.qos /\ (q.type[1] \notin DOMAIN ParamType \/ q.bounded)
        BY <4>2, <4>4, <4>5
      <4>7. Why(f)'
        BY <3>2, <4>1, <4>6 DEF Why, Reason
      <4> QED BY <3>2, <4>7, OthersWhy
    <3>4. CASE ~(work[f].name \in alive /\ (ParamLeaf(p) = {} \/ Bounds(p)))
      <4>1. panicked'[f] = ""
        BY <2>1, <2>10, <3>1, <3>4 DEF DescribeParam, Known
      <4> QED BY <3>2, <4>1, QuietWhy
    <3> QED BY <3>3, <3>4
  <2>11. CASE NodeSerialize(f) /\ UNCHANGED <<drawn, prog>>
    <3> DEFINE entries == IF work[f].name \in alive THEN Entries(InfoWords(work[f].name)) ELSE {}
    <3>1. phase[f] = "params" /\ Answering(work[f])
      BY <2>1, <2>11 DEF NodeSerialize, Known
    <3>2. /\ UNCHANGED <<together, cut, listed, known, todo, scenario, itfs, version, alive, work, drawn>>
          /\ IF \A e \in entries : Constructible(itfs, LastPart(e[3]))
             THEN /\ UNCHANGED panicked /\ phase' = [phase EXCEPT ![f] = "line"]
                  /\ \E e : nodes' = [nodes EXCEPT ![f] = e]
             ELSE phase' = [phase EXCEPT ![f] = "off"] /\ panicked' = [panicked EXCEPT ![f] = "type"] /\ UNCHANGED nodes
      BY <2>11 DEF NodeSerialize
    <3> HIDE DEF entries
    <3>3. Others(f)
      BY <1>0, <3>2 DEF FuzzerTypes, Others
    <3>4. CASE \A e \in entries : Constructible(itfs, LastPart(e[3]))
      <4>1. panicked'[f] = ""
        BY <2>1, <3>1, <3>2, <3>4 DEF Known
      <4> QED BY <3>2, <3>3, <4>1, QuietWhy
    <3>5. CASE ~\A e \in entries : Constructible(itfs, LastPart(e[3]))
      <4>1. panicked'[f] = "type"
        BY <1>0, <3>2, <3>5 DEF FuzzerTypes
      <4>2. PICK e \in entries : ~Constructible(itfs, LastPart(e[3]))
        BY <3>5
      <4>3. work[f].name \in Nodes /\ version \in DOMAIN Apps /\ version \in scenario.versions
        BY <3>1, ScenarioFacts DEF Answering, WorldInv
      <4> DEFINE a == Apps[version][work[f].name]
      <4>4. e \in Offers(a)
        BY <4>3, EntriesExact DEF entries
      <4>5. PICK s \in DOMAIN a.offers : \E o \in ToSet(a.offers[s]) : e = <<s, o[1], o[2]>>
        BY <4>3, <4>4, OffersFacts
      <4>6. PICK o \in ToSet(a.offers[s]) : e = <<s, o[1], o[2]>>
        BY <4>5
      <4>7. o[1] \notin ParameterWords /\ ~Constructible(itfs, LastPart(o[2]))
        <5>1. e[2] \notin ParameterWords
          BY <4>3, <4>4, OffersFacts
        <5>2. e[2] = o[1] /\ e[3] = o[2]
          BY <4>6
        <5> HIDE DEF a
        <5> QED BY <4>2, <5>1, <5>2
      <4>8. \E b \in {Apps[v][work[f].name] : v \in scenario.versions} :
              \E t \in DOMAIN b.offers : \E q \in ToSet(b.offers[t]) :
                ~Constructible(itfs, LastPart(q[2])) /\ q[1] \notin ParameterWords
        BY <4>3, <4>7
      <4>9. Why(f)'
        <5>1. UNCHANGED <<itfs, scenario, work, listed, together, cut>>
          BY <3>2
        <5> HIDE DEF a
        <5>2. Reason("type", listed[f], work[f].name, itfs, scenario.versions, together \/ cut)
          BY <4>8 DEF Reason
        <5> QED BY <4>1, <5>1, <5>2 DEF Why
      <4> QED BY <3>2, <3>3, <4>9, OthersWhy
    <3> QED BY <3>4, <3>5
  <2> HIDE DEF worldVars, targetVars, discoveryVars, Panic
  <2> QED BY <1>5, <2>2, <2>3, <2>4, <2>5, <2>6, <2>7, <2>8, <2>9, <2>10, <2>11, StepsApart
<1>6. scenario.fuzzers \subseteq Fuzzers
  BY ScenarioFacts
<1> QED BY <1>1, <1>2, <1>3, <1>4, <1>5, <1>6 DEF Next, FuzzerStep

DiscoverySafe == WorldInv /\ FuzzerInv /\ CacheInv /\ \A f \in Fuzzers : Why(f)

\* The inductive invariant of the discovery.
THEOREM DiscoveryInductive == Spec => []DiscoverySafe
<1>1. Init => DiscoverySafe
  <2> SUFFICES ASSUME Init PROVE DiscoverySafe
    OBVIOUS
  <2>1. \A f \in Fuzzers : Why(f)
    BY DEF Init, DiscoveryInit, Why, Reason
  <2> QED BY <2>1, InitKnown, InitCache DEF DiscoverySafe
<1>2. DiscoverySafe /\ [Next]_genVars => DiscoverySafe'
  BY NextKnown, NextCache, NextWhy DEF DiscoverySafe
<1> QED BY <1>1, <1>2, PTL DEF Spec

\* Every variable has its type.
THEOREM GenTypeCorrect == Spec => []TypeOK
<1>1. DiscoverySafe => TypeOK
  <2> SUFFICES ASSUME DiscoverySafe PROVE TypeOK
    OBVIOUS
  <2>1. itfs = NoItfs \/ DOMAIN itfs.infos = ToSet(Interfaces)
    BY ScenarioFacts DEF DiscoverySafe, Json
  <2>2. version \in DOMAIN Apps /\ alive \subseteq Nodes /\ {together, cut} \subseteq BOOLEAN
    BY ScenarioFacts DEF DiscoverySafe, WorldInv
  <2>3. \A i \in DOMAIN cache : cache[i] = LineEnd \/ cache[i].name \in Nodes \ Skipped
    <3>1. \A i \in DOMAIN cache : cache[i] \in Entry \cup {LineEnd}
      BY InSeq DEF DiscoverySafe, WorldInv
    <3> QED BY <3>1, EntryIsNode
  <2>4. ASSUME NEW f \in Fuzzers
        PROVE /\ phase[f] \in Asking \cup {"off", "choosing", "generating", "generated", "sent"}
              /\ listed[f] \subseteq Nodes
              /\ todo[f] \subseteq listed[f] \ Skipped
              /\ DOMAIN known[f] \subseteq Nodes
              /\ \A i \in DOMAIN nodes[f] : nodes[f][i].name \in listed[f] \ Skipped
              /\ phase[f] = "choosing" => drawn[f] \in DOMAIN nodes[f]
    <3>1. FuzzerTypes /\ Known(f)
      BY DEF DiscoverySafe, FuzzerInv, FuzzerTypes
    <3>2. \A i \in DOMAIN nodes[f] : nodes[f][i] \in Entry
      BY <3>1, InSeq DEF FuzzerTypes
    <3>3. DOMAIN known[f] \subseteq Nodes
      BY <3>1 DEF FuzzerTypes
    <3> QED BY <3>1, <3>2, <3>3, EntryIsNode DEF FuzzerTypes, Known, Phases
  <2> QED BY <2>1, <2>2, <2>3, <2>4 DEF TypeOK
<1> QED BY <1>1, DiscoveryInductive, PTL

\* The shared file is whole unless two campaigns asked at a time or one was killed in a line.
THEOREM CacheStaysWhole == Spec => []CacheWhole
<1>1. DiscoverySafe => CacheWhole
  <2> SUFFICES ASSUME DiscoverySafe, ~together PROVE CacheWhole
    BY DEF CacheWhole
  <2> QED BY DEF DiscoverySafe, CacheInv, Once, CacheWhole
<1> QED BY <1>1, DiscoveryInductive, PTL

\* The reasons for a panic.
THEOREM PanicsOnlyFor == Spec => []PanicOnlyFor
<1>1. DiscoverySafe => PanicOnlyFor
  BY WhyEach DEF DiscoverySafe
<1> QED BY <1>1, DiscoveryInductive, PTL

\* What a fuzzer has of a node is what the node offered.
THEOREM EntriesFaithful == Spec => []EntryFaithful
<1>1. DiscoverySafe => EntryFaithful
  <2> SUFFICES ASSUME DiscoverySafe, NEW f \in Fuzzers, NEW i \in DOMAIN nodes[f],
                      nodes[f][i].version = version, ~nodes[f][i].silent
               PROVE  LET node == nodes[f][i]
                          app == Apps[version][node.name]
                          offered == UNION {{<<s, o[1], o[2]>> : o \in ToSet(app.offers[s])} : s \in DOMAIN app.offers}
                      IN  /\ {<<d[1], d[2], node.itfs[d][1].type>> : d \in DOMAIN node.itfs}
                               = {o \in offered : o[2] \notin ParameterWords}
                          /\ DOMAIN node.params = {p.name : p \in {q \in app.params : ~q.qos}}
    BY DEF EntryFaithful
  <2>1. nodes[f][i] \in Entry
    BY InSeq DEF DiscoverySafe, FuzzerInv
  <2>2. Answers(nodes[f][i])
    BY <2>1 DEF Entry
  <2> QED BY <2>2 DEF Answers, Offers, Offered, Settable, Names
<1> QED BY <1>1, DiscoveryInductive, PTL

-----------------------------------------------------------------------------
(* The program that is generated.                                           *)

\* A leaf that is left was not drawn, or its elements not all.
Partial(leaf, heard) ==
  /\ leaf.op = "string" => leaf.string = << >>
  /\ leaf.op = "array" =>
       /\ Len(leaf.elems) < leaf.len
       /\ leaf.inner = "string" => \A k \in DOMAIN leaf.elems : leaf.elems[k].string[1] \in heard

\* The fields of a program.
Program == {"itf", "node", "tree", "left", "sec", "stream", "heard", "mute"}

\* What a fuzzer has of its program, and how far it is with it.
Drawn(p, ph) ==
  /\ DOMAIN p = Program
  /\ p.tree \in Tree /\ (p.itf # "param" => Typed(p.tree))
  /\ p.left \subseteq Leaves(p.tree) /\ p.mute \in BOOLEAN
  /\ \A i \in Leaves(p.tree) \ p.left : LeafWhole(p.tree[i], p.heard)
  /\ \A i \in p.left : Partial(p.tree[i], p.heard)
  /\ p.mute => \E i \in p.left : NeedsNode(p.tree[i])
  /\ ph = "generating" => ~p.mute
  /\ ph \in {"generated", "sent"} => p.left = {} \/ p.mute

GenInv == DOMAIN prog = Fuzzers /\ \A f \in Fuzzers : Drawn(prog[f], phase[f])

\* The nodes of a tree that are leaves.
LEMMA LeavesOf ==
  ASSUME NEW tree \in Tree
  PROVE  /\ DOMAIN tree = 1 .. Len(tree) /\ Len(tree) \in Nat /\ Leaves(tree) \subseteq 1 .. Len(tree)
         /\ \A i \in DOMAIN tree : tree[i] \in ItfNode \cup Leaf /\ (i \in Leaves(tree) <=> tree[i] \in Leaf)
         /\ \A i \in Leaves(tree) : tree[i] \in Leaf /\ i - 1 \in DOMAIN tree /\ tree[i - 1] \in ItfNode
<1>1. tree \in Seq(ItfNode \cup Leaf) /\ Hangs(tree)
  BY DEF Tree
<1>2. DOMAIN tree = 1 .. Len(tree) /\ Len(tree) \in Nat /\ \A i \in DOMAIN tree : tree[i] \in ItfNode \cup Leaf
  BY <1>1
<1>3. \A i \in DOMAIN tree : i \in Leaves(tree) <=> tree[i] \in Leaf
  BY <1>2, NodeKinds DEF Leaves
<1>4. Leaves(tree) \subseteq DOMAIN tree
  BY DEF Leaves
<1> QED BY <1>1, <1>2, <1>3, <1>4 DEF Hangs

\* Another leaf in the place of one.
LEMMA LeafReplaced ==
  ASSUME NEW tree \in Tree, NEW i \in Leaves(tree), NEW leaf \in Leaf
  PROVE  /\ [tree EXCEPT ![i] = leaf] \in Tree
         /\ Leaves([tree EXCEPT ![i] = leaf]) = Leaves(tree)
         /\ Typed(tree) /\ Suits(tree[i - 1], leaf) => Typed([tree EXCEPT ![i] = leaf])
<1> DEFINE next == [tree EXCEPT ![i] = leaf]
<1>1. /\ DOMAIN tree = 1 .. Len(tree) /\ Len(tree) \in Nat /\ Leaves(tree) \subseteq 1 .. Len(tree)
      /\ \A k \in DOMAIN tree : tree[k] \in ItfNode \cup Leaf /\ (k \in Leaves(tree) <=> tree[k] \in Leaf)
      /\ tree[i] \in Leaf /\ i - 1 \in DOMAIN tree /\ tree[i - 1] \in ItfNode
  BY LeavesOf
<1>2. /\ DOMAIN next = DOMAIN tree /\ next[i] = leaf
      /\ \A k \in DOMAIN tree \ {i} : next[k] = tree[k]
  BY <1>1
<1>3. next \in Seq(ItfNode \cup Leaf)
  <2>1. tree \in Seq(ItfNode \cup Leaf)
    BY DEF Tree
  <2>2. \A k \in 1 .. Len(tree) : next[k] \in ItfNode \cup Leaf
    BY <1>1, <1>2
  <2>3. next = [k \in 1 .. Len(tree) |-> next[k]]
    BY <1>1
  <2> HIDE DEF next
  <2> QED BY <1>1, <2>2, <2>3, SeqDef
<1> HIDE DEF next
<1>4. \A k \in DOMAIN tree : next[k] \in Leaf <=> tree[k] \in Leaf
  BY <1>1, <1>2
<1>5. \A k \in DOMAIN tree : tree[k] \in ItfNode => next[k] = tree[k]
  BY <1>1, <1>2, NodeKinds
<1>6. Hangs(next)
  BY <1>2, <1>4, <1>5, LeavesOf DEF Hangs, Tree
<1>7. next \in Tree
  BY <1>3, <1>6 DEF Tree
<1>8. Leaves(next) = Leaves(tree)
  <2>1. \A k \in DOMAIN tree : k \in Leaves(next) <=> k \in Leaves(tree)
    BY <1>1, <1>2, <1>4, <1>7, LeavesOf
  <2>2. Leaves(next) \subseteq DOMAIN tree /\ Leaves(tree) \subseteq DOMAIN tree
    BY <1>2 DEF Leaves
  <2> QED BY <2>1, <2>2
<1>9. Typed(tree) /\ Suits(tree[i - 1], leaf) => Typed(next)
  <2> SUFFICES ASSUME Typed(tree), Suits(tree[i - 1], leaf), NEW k \in DOMAIN next, next[k] \in Leaf
               PROVE  Suits(next[k - 1], next[k])
    BY DEF Typed
  <2>1. tree[k] \in Leaf /\ k \in DOMAIN tree
    BY <1>2, <1>4
  <2>2. k - 1 \in DOMAIN tree /\ tree[k - 1] \in ItfNode
    BY <2>1 DEF Tree, Hangs
  <2>3. next[k - 1] = tree[k - 1]
    BY <1>5, <2>2
  <2> QED BY <1>2, <2>1, <2>3 DEF Typed
<1> QED BY <1>7, <1>8, <1>9 DEF next

\* The smallest leaf that is left is one.
LEMMA SmallestLeft ==
  ASSUME NEW S, S \subseteq Nat, S # {}
  PROVE  Min(S) \in S
<1>1. \E n \in S : \A m \in S : n <= m
  BY SmallestOf
<1> QED BY <1>1 DEF Min

\* More nodes were heard of.
LEMMA HeardMore ==
  ASSUME NEW leaf, NEW heard, NEW more, heard \subseteq more
  PROVE  /\ LeafWhole(leaf, heard) => LeafWhole(leaf, more)
         /\ Partial(leaf, heard) => Partial(leaf, more)
<1>1. CASE leaf.op = "string"
  BY <1>1 DEF LeafWhole, Partial
<1>2. CASE leaf.op = "array"
  BY <1>2 DEF LeafWhole, Partial
<1>3. CASE leaf.op \notin {"string", "array"}
  BY <1>3 DEF LeafWhole, Partial
<1> QED BY <1>1, <1>2, <1>3

\* The kinds of leaves.
LEMMA LeafKinds ==
  ASSUME NEW leaf \in Leaf
  PROVE  \/ leaf.op = "int" /\ leaf.pad \in Range(Pad) /\ leaf.int \in Nat /\ leaf = [op |-> "int", pad |-> leaf.pad, int |-> leaf.int]
         \/ leaf = BoolType /\ leaf.op = "bool"
         \/ leaf.op = "double" \/ leaf.op = "char"
         \/ /\ leaf.op = "string" /\ leaf.len \in Nat /\ leaf.string \in Seq(Text)
            /\ leaf = [op |-> "string", len |-> leaf.len, string |-> leaf.string]
         \/ /\ leaf.op = "array" /\ leaf.inner \in MetaTypes /\ leaf.len \in Nat /\ leaf.elems \in Seq(Simple)
            /\ leaf = [op |-> "array", inner |-> leaf.inner, len |-> leaf.len, elems |-> leaf.elems]
<1>1. CASE leaf \in [op : {"int"}, pad : Range(Pad), int : Nat]
  BY <1>1
<1>2. CASE leaf = BoolType
  BY <1>2 DEF BoolType
<1>3. CASE leaf \in [op : {"double"}, double : Text]
  BY <1>3
<1>4. CASE leaf \in [op : {"char"}, char : Text]
  BY <1>4
<1>5. CASE leaf \in [op : {"string"}, len : Nat, string : Seq(Text)]
  BY <1>5
<1>6. CASE leaf \in [op : {"array"}, inner : MetaTypes, len : Nat, elems : Seq(Simple)]
  BY <1>6
<1> QED BY <1>1, <1>2, <1>3, <1>4, <1>5, <1>6 DEF Leaf, Simple

\* What is drawn for an integer is a number.
LEMMA DrawnInteger ==
  ASSUME NEW pad \in Range(Pad), NEW n \in GenInteger(pad)
  PROVE  n \in Nat
<1>1. Modulus[64] \in Nat \ {0}
  BY ValueAssumption
<1>2. pad \in Int /\ (IF pad < 0 THEN -pad ELSE pad) \in {8, 16, 32, 64}
  BY DEF Range, Pad
<1>3. Count(pad) \in Nat \ {0}
  BY <1>2, ValueAssumption DEF Count
<1>4. Lowest(pad) \in Int /\ Highest(pad) \in Int
  BY <1>2, <1>3 DEF Lowest, Highest
<1> QED BY <1>1, <1>4 DEF GenInteger

\* The widths.
LEMMA PadWidths ==
  /\ \A t \in DOMAIN Pad : Pad[t] \in Range(Pad) /\ Pad[t] \in Int /\ Unsigned(Pad[t]) \in Range(Pad)
  /\ \A pad \in Range(Pad) : pad \in Int /\ Unsigned(pad) \in {8, 16, 32, 64} /\ pad # 0
<1>1. DOMAIN Pad = {"int8", "uint8", "int16", "uint16", "int32", "uint32", "int64", "uint64"}
  BY DEF Pad
<1>2. /\ Pad["int8"] = -8 /\ Pad["uint8"] = 8 /\ Pad["int16"] = -16 /\ Pad["uint16"] = 16
      /\ Pad["int32"] = -32 /\ Pad["uint32"] = 32 /\ Pad["int64"] = -64 /\ Pad["uint64"] = 64
  BY DEF Pad
<1> HIDE DEF Pad
<1>3. Range(Pad) = {-8, 8, -16, 16, -32, 32, -64, 64}
  BY <1>1, <1>2 DEF Range
<1>4. \A pad \in Range(Pad) : pad \in Int /\ Unsigned(pad) \in {8, 16, 32, 64} /\ pad # 0
  BY <1>3 DEF Unsigned
<1>5. \A t \in DOMAIN Pad : Pad[t] \in Range(Pad)
  BY DEF Range
<1> QED BY <1>3, <1>4, <1>5

\* The characters and the nodes are texts.
LEMMA DrawnString ==
  ASSUME NEW len \in Nat, NEW heard, heard \subseteq Nodes, NEW s \in GenString(len, heard)
  PROVE  s \in Seq(Text) /\ s # << >> /\ (len = 0 => s[1] \in heard)
<1>1. CASE len = 0
  <2>1. PICK n \in heard : s = <<n>>
    BY <1>1 DEF GenString
  <2>2. n \in Text
    BY DiscoveryAssumption, TextFacts
  <2> QED BY <2>1, <2>2
<1>2. CASE len # 0
  <2>1. PICK n \in (len + 3) \div 4 .. len : s \in [1 .. n -> RandomChars]
    BY <1>2 DEF GenString
  <2>0. n \in Nat \ {0}
    <3>1. len \in Nat \ {0} /\ (len + 3) \div 4 \in Nat \ {0}
      BY <1>2
    <3> QED BY <3>1
  <2>2. RandomChars \subseteq Text
    BY ValueAssumption, TextFacts
  <2>3. s \in [1 .. n -> Text]
    BY <2>1, <2>2
  <2>4. s \in Seq(Text) /\ Len(s) = n
    BY <2>0, <2>3, SeqDef
  <2> QED BY <1>2, <2>0, <2>4
<1> QED BY <1>1, <1>2

\* An element of an array.
LEMMA DrawnElement ==
  ASSUME NEW inner \in MetaTypes, NEW heard, heard \subseteq Nodes, NEW e \in GenElement(inner, heard)
  PROVE  /\ e \in Simple
         /\ inner = "string" => e.string[1] \in heard
         /\ inner \in DOMAIN Pad => e.op = "int" /\ e.pad = Unsigned(Pad[inner])
<1>0. MetaTypes = DOMAIN Pad \cup {"float32", "float64", "char", "byte", "bool", "string"}
      /\ DOMAIN Pad \cap {"float32", "float64", "char", "byte", "bool", "string"} = {}
  BY DEF MetaTypes, Floats, Chars, Pad
<1>1. CASE inner = "string"
  <2>1. PICK s \in GenString(0, heard) : e = StringType(0, s)
    BY <1>0, <1>1 DEF GenElement, Chars, Floats
  <2>2. s \in Seq(Text) /\ s[1] \in heard
    BY DrawnString
  <2> QED BY <1>0, <1>1, <2>1, <2>2 DEF StringType, Simple
<1>2. CASE inner \in {"char", "byte"}
  <2>1. PICK c \in RandomChars : e = CharType(c)
    BY <1>0, <1>2 DEF GenElement, Chars, Floats
  <2>2. c \in Text
    BY ValueAssumption, TextFacts
  <2> QED BY <1>0, <1>2, <2>1, <2>2 DEF CharType, Simple
<1>3. CASE inner \in {"float32", "float64"}
  <2>1. e = DoubleType("0.5")
    BY <1>0, <1>3 DEF GenElement, Chars, Floats
  <2> QED BY <1>0, <1>3, <2>1, TextFacts DEF DoubleType, Simple
<1>4. CASE inner = "bool"
  <2>1. e = BoolType
    BY <1>0, <1>4 DEF GenElement, Chars, Floats
  <2> QED BY <1>0, <1>4, <2>1 DEF Simple
<1>5. CASE inner \in DOMAIN Pad
  <2> DEFINE pad == Unsigned(Pad[inner])
  <2>0. inner \notin {"float32", "float64", "char", "byte", "bool", "string"}
    BY <1>0, <1>5
  <2>1. PICK n \in GenInteger(pad) : e = IntType(pad, n)
    BY <1>5, <2>0 DEF GenElement, Chars, Floats, Unsigned
  <2>2. pad \in Range(Pad) /\ n \in Nat
    BY <1>5, PadWidths, DrawnInteger
  <2>3. e.op = "int" /\ e.pad = pad /\ e \in Simple
    <3> HIDE DEF pad
    <3> QED BY <2>1, <2>2 DEF IntType, Simple
  <2> QED BY <1>5, <2>0, <2>3
<1> QED BY <1>0, <1>1, <1>2, <1>3, <1>4, <1>5

\* A leaf after a step of its generation.
LEMMA DrawnLeaf ==
  ASSUME NEW leaf \in Leaf, NEW heard, Partial(leaf, heard), NEW now, now \subseteq Nodes,
         NEW l \in GenLeaf(leaf, now), NEW more, more = IF NeedsNode(leaf) THEN heard \cup now ELSE heard
  PROVE  /\ l \in Leaf
         /\ LeafDone(l) => LeafWhole(l, more)
         /\ ~LeafDone(l) => Partial(l, more)
         /\ \A h : Suits(h, leaf) => Suits(h, l)
<1>1. CASE leaf.op = "int"
  <2>1. leaf.pad \in Range(Pad)
    BY <1>1, LeafKinds
  <2>2. PICK n \in GenInteger(leaf.pad) : l = IntType(leaf.pad, n)
    BY <1>1 DEF GenLeaf
  <2>3. n \in Nat
    BY <2>1, DrawnInteger
  <2>4. l = [op |-> "int", pad |-> leaf.pad, int |-> n]
    BY <2>2 DEF IntType
  <2>5. l.op = "int" /\ l.pad = leaf.pad /\ l \in Leaf
    BY <2>1, <2>3, <2>4 DEF Leaf, Simple
  <2> QED BY <1>1, <2>5 DEF LeafDone, LeafWhole, Suits
<1>2. CASE leaf.op = "bool"
  <2>1. l = leaf
    BY <1>2 DEF GenLeaf
  <2> QED BY <1>2, <2>1 DEF LeafDone, LeafWhole
<1>3. CASE leaf.op = "double"
  <2>1. l = [op |-> "double", double |-> "0.5"]
    BY <1>3 DEF GenLeaf, DoubleType
  <2>2. l.op = "double" /\ l \in Leaf
    BY <2>1, TextFacts DEF Leaf, Simple
  <2> QED BY <2>2 DEF LeafDone, LeafWhole, Suits
<1>4. CASE leaf.op = "char"
  <2>1. PICK c \in RandomChars : l = [op |-> "char", char |-> c]
    BY <1>4 DEF GenLeaf, CharType
  <2>2. c \in Text
    BY ValueAssumption, TextFacts
  <2>3. l.op = "char" /\ l \in Leaf
    BY <2>1, <2>2 DEF Leaf, Simple
  <2> QED BY <2>3 DEF LeafDone, LeafWhole, Suits
<1>5. CASE leaf.op = "string"
  <2>1. leaf.len \in Nat
    BY <1>5, LeafKinds
  <2>2. PICK s \in GenString(leaf.len, now) : l = [op |-> "string", len |-> leaf.len, string |-> s]
    BY <1>5 DEF GenLeaf, StringType
  <2>3. s \in Seq(Text) /\ s # << >> /\ (leaf.len = 0 => s[1] \in now)
    BY <2>1, DrawnString
  <2>4. l.op = "string" /\ l.len = leaf.len /\ l.string = s /\ l \in Leaf
    BY <2>1, <2>2, <2>3 DEF Leaf, Simple
  <2>5. leaf.len = 0 => s[1] \in more
    BY <1>5, <2>3 DEF NeedsNode
  <2> QED BY <2>3, <2>4, <2>5 DEF LeafDone, LeafWhole, Suits
<1>6. CASE leaf.op = "array"
  <2>1. /\ leaf.inner \in MetaTypes /\ leaf.len \in Nat /\ leaf.elems \in Seq(Simple)
        /\ leaf = [op |-> "array", inner |-> leaf.inner, len |-> leaf.len, elems |-> leaf.elems]
    BY <1>6, LeafKinds
  <2>2. PICK e \in GenElement(leaf.inner, now) : l = [leaf EXCEPT !.elems = Append(@, e)]
    BY <1>6 DEF GenLeaf
  <2>3. /\ e \in Simple
        /\ leaf.inner = "string" => e.string[1] \in now
        /\ leaf.inner \in DOMAIN Pad => e.op = "int" /\ e.pad = Unsigned(Pad[leaf.inner])
    BY <2>1, DrawnElement
  <2> DEFINE elems == Append(leaf.elems, e)
  <2>4. /\ elems \in Seq(Simple) /\ Len(elems) = Len(leaf.elems) + 1 /\ Len(leaf.elems) \in Nat
        /\ DOMAIN leaf.elems = 1 .. Len(leaf.elems) /\ DOMAIN elems = 1 .. Len(leaf.elems) + 1
        /\ elems[Len(leaf.elems) + 1] = e /\ \A k \in 1 .. Len(leaf.elems) : elems[k] = leaf.elems[k]
    BY <2>1, <2>3, AppendFacts
  <2>5. l = [op |-> "array", inner |-> leaf.inner, len |-> leaf.len, elems |-> elems]
    <3>1. l = [leaf EXCEPT !.elems = elems]
      BY <2>2
    <3> HIDE DEF elems
    <3> QED BY <2>1, <3>1
  <2> HIDE DEF elems
  <2>6. l.op = "array" /\ l.inner = leaf.inner /\ l.len = leaf.len /\ l.elems = elems /\ l \in Leaf
    BY <2>1, <2>4, <2>5 DEF Leaf
  <2>7. \A k \in DOMAIN elems : (k \in DOMAIN leaf.elems /\ elems[k] = leaf.elems[k]) \/ elems[k] = e
    BY <2>4
  <2>8. leaf.inner = "string" => \A k \in DOMAIN elems : elems[k].string[1] \in more
    <3> SUFFICES ASSUME leaf.inner = "string", NEW k \in DOMAIN elems PROVE elems[k].string[1] \in more
      OBVIOUS
    <3>1. more = heard \cup now
      BY <1>6 DEF NeedsNode
    <3>2. \A m \in DOMAIN leaf.elems : leaf.elems[m].string[1] \in heard
      BY <1>6 DEF Partial
    <3>3. CASE k \in DOMAIN leaf.elems /\ elems[k] = leaf.elems[k]
      BY <3>1, <3>2, <3>3
    <3>4. CASE elems[k] = e
      BY <2>3, <3>1, <3>4
    <3> QED BY <2>7, <3>3, <3>4
  <2>9. Len(leaf.elems) < leaf.len
    BY <1>6 DEF Partial
  <2>10. LeafDone(l) <=> Len(elems) = leaf.len
    BY <2>6 DEF LeafDone
  <2>11. LeafDone(l) => LeafWhole(l, more)
    BY <2>6, <2>8, <2>10 DEF LeafWhole
  <2>12. ~LeafDone(l) => Partial(l, more)
    <3>1. ~LeafDone(l) => Len(elems) < leaf.len
      BY <2>1, <2>4, <2>9, <2>10
    <3> QED BY <2>6, <2>8, <3>1 DEF Partial
  <2>13. ASSUME NEW h, Suits(h, leaf) PROVE Suits(h, l)
    <3>1. leaf.inner = h.type
      BY <1>6, <2>13 DEF Suits
    <3>2. ASSUME leaf.inner \in DOMAIN Pad, NEW k \in DOMAIN elems
          PROVE  elems[k].op = "int" /\ elems[k].pad = Unsigned(Pad[leaf.inner])
      <4>1. \A m \in DOMAIN leaf.elems : leaf.elems[m].op = "int" /\ leaf.elems[m].pad = Unsigned(Pad[leaf.inner])
        BY <1>6, <2>13, <3>2 DEF Suits
      <4>2. CASE k \in DOMAIN leaf.elems /\ elems[k] = leaf.elems[k]
        BY <4>1, <4>2
      <4>3. CASE elems[k] = e
        BY <2>3, <3>2, <4>3
      <4> QED BY <2>7, <4>2, <4>3
    <3> QED BY <2>6, <3>1, <3>2 DEF Suits
  <2> QED BY <2>6, <2>11, <2>12, <2>13
<1> QED BY <1>1, <1>2, <1>3, <1>4, <1>5, <1>6, LeafKinds

\* The program that begins.
LEMMA ProgramBegins ==
  ASSUME NEW node \in Entry, NEW itf \in GetAvailableInterface(node), NEW name \in DOMAIN OfKind(node, itf)
  PROVE  OfKind(node, itf)[name] \in ParamTree /\ (itf # "param" => OfKind(node, itf)[name] \in FreshTree)
<1>1. node.itfs \in ItfMap /\ node.params \in ParamMap
  BY DEF Entry
<1>2. CASE itf = "param"
  <2>1. OfKind(node, itf) = node.params
    BY <1>2 DEF OfKind
  <2>2. PICK D \in SUBSET Text : node.params \in [D -> ParamTree]
    BY <1>1 DEF ParamMap
  <2> QED BY <1>2, <2>1, <2>2
<1>3. CASE itf # "param"
  <2> DEFINE keys == {key[2] : key \in {d \in DOMAIN node.itfs : d[1] = itf}}
  <2>1. OfKind(node, itf) = [k \in keys |-> node.itfs[<<itf, k>>]]
    BY <1>3 DEF OfKind
  <2>2. PICK D \in SUBSET (Text \X Text) : node.itfs \in [D -> FreshTree]
    BY <1>1 DEF ItfMap
  <2>3. name \in keys
    BY <2>1
  <2>4. PICK key \in DOMAIN node.itfs : key[1] = itf /\ name = key[2]
    BY <2>3
  <2>5. key \in D /\ key \in Text \X Text
    BY <2>2, <2>4
  <2>6. key = <<itf, name>>
    BY <2>4, <2>5
  <2>7. OfKind(node, itf)[name] = node.itfs[key]
    BY <2>1, <2>3, <2>6
  <2>8. node.itfs[key] \in FreshTree
    BY <2>2, <2>5
  <2> QED BY <1>3, <2>7, <2>8 DEF FreshTree
<1> QED BY <1>2, <1>3

\* Nothing of an empty leaf was drawn.
LEMMA EmptyPartial ==
  ASSUME NEW tree \in ParamTree, NEW i \in Leaves(tree), NEW heard
  PROVE  Partial(tree[i], heard)
<1>1. tree \in Tree /\ Fresh(tree)
  BY DEF ParamTree
<1>2. i \in DOMAIN tree /\ tree[i] \in Leaf
  BY <1>1, LeavesOf DEF Leaves
<1>3. Empty(tree[i])
  BY <1>1, <1>2 DEF Fresh
<1>4. DOMAIN << >> = {} /\ Len(<< >>) = 0
  OBVIOUS
<1>5. tree[i].op = "array" => tree[i].len \in Nat
  BY <1>2, LeafKinds
<1> QED BY <1>3, <1>4, <1>5 DEF Empty, Partial

\* A fuzzer without a program has drawn nothing.
LEMMA DrawnNothing ==
  ASSUME NEW ph, ph # "generated", ph # "sent"
  PROVE  Drawn(NoProg, ph)
<1>1. NoProg.tree = << >> /\ NoProg.left = {} /\ NoProg.mute = FALSE /\ NoProg.heard = {} /\ NoProg.itf = ""
  BY DEF NoProg
<1>2. << >> \in Tree /\ Typed(<< >>)
  BY NoTree DEF FreshTree, ParamTree
<1>3. Leaves(<< >>) = {}
  BY DEF Leaves
<1>4. DOMAIN NoProg = Program
  BY DEF NoProg, Program
<1> HIDE DEF NoProg
<1> QED BY <1>1, <1>2, <1>3, <1>4 DEF Drawn

\* At first there is no program.
LEMMA InitGen ==
  ASSUME Init
  PROVE  GenInv
<1>1. prog = [f \in Fuzzers |-> NoProg] /\ phase = [f \in Fuzzers |-> "off"]
  BY DEF Init, DiscoveryInit
<1>2. Drawn(NoProg, "off")
  BY DrawnNothing
<1> QED BY <1>1, <1>2 DEF GenInv

\* The program of a fuzzer that takes another step is as it was.
LEMMA DrawnStays ==
  ASSUME NEW p, NEW ph, NEW next, Drawn(p, ph), next \notin {"generating", "generated", "sent"}
  PROVE  Drawn(p, next)
BY DEF Drawn

\* The interface is chosen, with all its leaves left.
LEMMA ChooseGen ==
  ASSUME WorldInv, FuzzerInv, GenInv, NEW f \in Fuzzers, ChooseInterface(f)
  PROVE  GenInv'
<1>0. FuzzerTypes /\ Known(f) /\ phase[f] = "choosing"
  BY DEF FuzzerInv, FuzzerTypes, ChooseInterface
<1> DEFINE node == nodes[f][drawn[f]]
<1>1. node \in Entry
  <2>1. drawn[f] \in DOMAIN nodes[f] /\ nodes[f] \in Seq(Entry)
    BY <1>0 DEF FuzzerTypes, Known
  <2> QED BY <2>1, InSeq
<1>2. PICK itf \in GetAvailableInterface(node) : \E name \in DOMAIN OfKind(node, itf) :
        prog' = [prog EXCEPT ![f] =
         [NoProg EXCEPT !.itf = itf, !.node = node.name, !.tree = OfKind(node, itf)[name], !.left = Leaves(OfKind(node, itf)[name])]]
  BY DEF ChooseInterface
<1>3. PICK name \in DOMAIN OfKind(node, itf) :
        prog' = [prog EXCEPT ![f] =
         [NoProg EXCEPT !.itf = itf, !.node = node.name, !.tree = OfKind(node, itf)[name], !.left = Leaves(OfKind(node, itf)[name])]]
  BY <1>2
<1>a. phase' = [phase EXCEPT ![f] = "generating"]
  BY DEF ChooseInterface
<1> HIDE DEF node
<1> DEFINE tree == OfKind(node, itf)[name]
<1>4. tree \in ParamTree /\ (itf # "param" => tree \in FreshTree)
  BY <1>1, ProgramBegins
<1> HIDE DEF tree
<1> DEFINE p == [NoProg EXCEPT !.itf = itf, !.node = node.name, !.tree = tree, !.left = Leaves(tree)]
<1>5. prog' = [prog EXCEPT ![f] = p]
  BY <1>3 DEF tree
<1>6. Drawn(p, "generating")
  <2>1. \A i \in Leaves(tree) : Partial(tree[i], {})
    BY <1>4, EmptyPartial
  <2>2. DOMAIN p = Program /\ p.mute = FALSE /\ p.itf = itf /\ p.tree = tree /\ p.left = Leaves(tree) /\ p.heard = {}
    <3>1. p = [NoProg EXCEPT !.itf = itf, !.node = node.name, !.tree = tree, !.left = Leaves(tree)]
      OBVIOUS
    <3>2. NoProg.mute = FALSE /\ NoProg.heard = {} /\ DOMAIN NoProg = Program
      BY DEF NoProg, Program
    <3> HIDE DEF p
    <3> QED BY <3>1, <3>2 DEF Program
  <2> HIDE DEF p
  <2> QED BY <1>4, <2>1, <2>2 DEF Drawn, ParamTree, FreshTree
<1> HIDE DEF p
<1>7. DOMAIN prog = Fuzzers /\ \A g \in Fuzzers : Drawn(prog[g], phase[g])
  BY DEF GenInv
<1>8. prog'[f] = p /\ phase'[f] = "generating" /\ \A g \in Fuzzers \ {f} : prog'[g] = prog[g] /\ phase'[g] = phase[g]
  BY <1>0, <1>5, <1>7, <1>a DEF FuzzerTypes
<1> QED BY <1>5, <1>6, <1>7, <1>8 DEF GenInv

\* One leaf, or one element, is drawn.
LEMMA GenValueGen ==
  ASSUME WorldInv, FuzzerInv, GenInv, NEW f \in Fuzzers, GenValue(f)
  PROVE  GenInv'
<1>0. FuzzerTypes /\ phase[f] = "generating" /\ DOMAIN prog = Fuzzers /\ Drawn(prog[f], phase[f])
  BY DEF FuzzerInv, FuzzerTypes, GenValue, GenInv
<1> DEFINE p == prog[f]
           i == Min(p.left)
           leaf == p.tree[i]
<1>1. /\ DOMAIN p = Program
      /\ p.tree \in Tree /\ (p.itf # "param" => Typed(p.tree))
      /\ p.left \subseteq Leaves(p.tree) /\ p.mute = FALSE
      /\ \A j \in Leaves(p.tree) \ p.left : LeafWhole(p.tree[j], p.heard)
      /\ \A j \in p.left : Partial(p.tree[j], p.heard)
  BY <1>0 DEF Drawn
<1>2. ASSUME NEW q, NEW ph, Drawn(q, ph), prog' = [prog EXCEPT ![f] = q], phase' = [phase EXCEPT ![f] = ph]
      PROVE  GenInv'
  <2>1. \A g \in Fuzzers : Drawn(prog[g], phase[g])
    BY DEF GenInv
  <2>2. prog'[f] = q /\ phase'[f] = ph /\ \A g \in Fuzzers \ {f} : prog'[g] = prog[g] /\ phase'[g] = phase[g]
    BY <1>0, <1>2 DEF FuzzerTypes
  <2>3. DOMAIN prog' = Fuzzers
    BY <1>0, <1>2
  <2> QED BY <1>2, <2>1, <2>2, <2>3 DEF GenInv
<1>3. CASE p.left = {}
  <2>1. prog' = prog /\ phase' = [phase EXCEPT ![f] = "generated"]
    BY <1>3 DEF GenValue
  <2>2. Drawn(p, "generated")
    BY <1>1, <1>3 DEF Drawn
  <2>3. phase'[f] = "generated" /\ \A g \in Fuzzers \ {f} : phase'[g] = phase[g]
    BY <1>0, <2>1 DEF FuzzerTypes
  <2> QED BY <2>1, <2>2, <2>3 DEF GenInv
<1>4. CASE p.left # {}
  <2>1. i \in p.left /\ i \in Leaves(p.tree)
    <3>1. p.left \subseteq Nat
      BY <1>1, LeavesOf
    <3> QED BY <1>1, <1>4, <3>1, SmallestLeft
  <2>2. leaf \in Leaf /\ Partial(leaf, p.heard)
    BY <1>1, <2>1, LeavesOf
  <2>3. CASE NeedsNode(leaf) /\ alive = {}
    <3> DEFINE q == [p EXCEPT !.mute = TRUE]
    <3>1. prog' = [prog EXCEPT ![f] = q] /\ phase' = [phase EXCEPT ![f] = "generated"]
      BY <1>4, <2>3 DEF GenValue
    <3>3. DOMAIN q = Program /\ q.itf = p.itf /\ q.tree = p.tree /\ q.left = p.left /\ q.heard = p.heard /\ q.mute = TRUE
      <4> HIDE DEF p
      <4> QED BY <1>1 DEF Program
    <3> HIDE DEF q
    <3>4. \E j \in q.left : NeedsNode(q.tree[j])
      BY <2>1, <2>3, <3>3
    <3>5. Drawn(q, "generated")
      <4> HIDE DEF p
      <4> QED BY <1>1, <3>3, <3>4 DEF Drawn
    <3> QED BY <1>2, <3>1, <3>5
  <2>4. CASE ~(NeedsNode(leaf) /\ alive = {})
    <3>0. phase' = phase
      BY <1>4, <2>4 DEF GenValue
    <3>1. PICK l \in GenLeaf(leaf, alive) :
            prog' = [prog EXCEPT
              ![f].tree = [@ EXCEPT ![i] = l],
              ![f].heard = IF NeedsNode(leaf) THEN @ \cup alive ELSE @,
              ![f].left = IF LeafDone(l) THEN @ \ {i} ELSE @]
      BY <1>4, <2>4 DEF GenValue
    <3> DEFINE tree == [p.tree EXCEPT ![i] = l]
               heard == IF NeedsNode(leaf) THEN p.heard \cup alive ELSE p.heard
               left == IF LeafDone(l) THEN p.left \ {i} ELSE p.left
               q == [p EXCEPT !.tree = tree, !.heard = heard, !.left = left]
    <3>2. prog' = [prog EXCEPT ![f] = q]
      BY <1>0, <3>1
    <3>3. /\ l \in Leaf /\ (LeafDone(l) => LeafWhole(l, heard)) /\ (~LeafDone(l) => Partial(l, heard))
          /\ \A h : Suits(h, leaf) => Suits(h, l)
      <4>1. alive \subseteq Nodes
        BY DEF WorldInv
      <4>2. leaf \in Leaf /\ Partial(leaf, p.heard) /\ l \in GenLeaf(leaf, alive)
        BY <2>2
      <4>3. heard = IF NeedsNode(leaf) THEN p.heard \cup alive ELSE p.heard
        OBVIOUS
      <4> HIDE DEF p, leaf, heard
      <4> QED BY <4>1, <4>2, <4>3, DrawnLeaf
    <3>4. tree \in Tree /\ Leaves(tree) = Leaves(p.tree) /\ (p.itf # "param" => Typed(tree))
      <4>1. Typed(p.tree) => Suits(p.tree[i - 1], leaf)
        BY <1>1, <2>1, <2>2 DEF Typed, Leaves
      <4>2. Typed(p.tree) => Suits(p.tree[i - 1], l)
        BY <3>3, <4>1
      <4> HIDE DEF p, i, leaf
      <4> QED BY <1>1, <2>1, <3>3, <4>2, LeafReplaced
    <3>5. p.heard \subseteq heard
      OBVIOUS
    <3>6. i \in DOMAIN p.tree /\ tree[i] = l /\ \A j \in DOMAIN p.tree \ {i} : tree[j] = p.tree[j]
      <4>1. i \in DOMAIN p.tree
        BY <2>1 DEF Leaves
      <4> HIDE DEF p, i, leaf
      <4> QED BY <4>1
    <3> HIDE DEF p, i, leaf, tree, heard
    <3>7. \A j \in Leaves(tree) \ left : LeafWhole(tree[j], heard)
      <4> SUFFICES ASSUME NEW j \in Leaves(tree) \ left PROVE LeafWhole(tree[j], heard)
        OBVIOUS
      <4>1. CASE j = i
        BY <2>1, <3>3, <3>6, <4>1
      <4>2. CASE j # i
        <5>1. j \in Leaves(p.tree) \ p.left /\ j \in DOMAIN p.tree
          BY <3>4, <4>2 DEF Leaves
        <5> QED BY <1>1, <3>5, <3>6, <4>2, <5>1, HeardMore
      <4> QED BY <4>1, <4>2
    <3>8. \A j \in left : Partial(tree[j], heard)
      <4> SUFFICES ASSUME NEW j \in left PROVE Partial(tree[j], heard)
        OBVIOUS
      <4>1. CASE j = i
        BY <3>3, <3>6, <4>1
      <4>2. CASE j # i
        <5>1. j \in p.left /\ j \in DOMAIN p.tree
          BY <1>1, <4>2 DEF Leaves
        <5> QED BY <1>1, <3>5, <3>6, <4>2, <5>1, HeardMore
      <4> QED BY <4>1, <4>2
    <3>9. left \subseteq Leaves(tree)
      BY <1>1, <3>4
    <3> HIDE DEF left
    <3>10. Drawn(q, "generating")
      <4>1. DOMAIN q = Program /\ q.mute = p.mute /\ q.itf = p.itf /\ q.tree = tree /\ q.left = left /\ q.heard = heard
        <5>1. q = [p EXCEPT !.tree = tree, !.heard = heard, !.left = left]
          OBVIOUS
        <5> HIDE DEF q, p
        <5> QED BY <1>1, <5>1 DEF Program
      <4> HIDE DEF q
      <4> QED BY <1>1, <3>4, <3>7, <3>8, <3>9, <4>1 DEF Drawn
    <3>11. phase' = [phase EXCEPT ![f] = "generating"]
      BY <1>0, <3>0 DEF FuzzerTypes
    <3> HIDE DEF q
    <3> QED BY <1>2, <3>2, <3>10, <3>11
  <2> QED BY <2>3, <2>4
<1> QED BY <1>3, <1>4

\* Nothing is drawn any more.
LEMMA SerializationGen ==
  ASSUME WorldInv, FuzzerInv, GenInv, NEW f \in Fuzzers, Serialization(f)
  PROVE  GenInv'
<1>0. FuzzerTypes /\ phase[f] = "generated" /\ DOMAIN prog = Fuzzers /\ Drawn(prog[f], phase[f])
  BY DEF FuzzerInv, FuzzerTypes, Serialization, GenInv
<1> DEFINE p == prog[f]
<1>1. PICK sec \in [SecLeaves(prog[f].tree) -> {Lowest(-16), Highest(-16)}] :
        prog' = [prog EXCEPT ![f] = [@ EXCEPT !.sec = sec, !.stream = CallStream(prog[f], sec)]]
  BY DEF Serialization
<1> DEFINE q == [p EXCEPT !.sec = sec, !.stream = CallStream(p, sec)]
<1>2. DOMAIN p = Program
  BY <1>0 DEF Drawn
<1>3. DOMAIN q = Program /\ q.mute = p.mute /\ q.itf = p.itf /\ q.tree = p.tree /\ q.left = p.left /\ q.heard = p.heard
  <2> DEFINE stream == CallStream(p, sec)
  <2>1. q = [p EXCEPT !.sec = sec, !.stream = stream]
    OBVIOUS
  <2> HIDE DEF p, q, stream
  <2> QED BY <1>2, <2>1 DEF Program
<1>4. prog'[f] = q /\ phase'[f] = "sent" /\ DOMAIN prog' = Fuzzers
      /\ \A g \in Fuzzers \ {f} : prog'[g] = prog[g] /\ phase'[g] = phase[g]
  <2>1. prog'[f] = q
    BY <1>0, <1>1
  <2>2. phase'[f] = "sent" /\ \A g \in Fuzzers \ {f} : phase'[g] = phase[g]
    BY <1>0 DEF Serialization, FuzzerTypes
  <2> HIDE DEF q
  <2> QED BY <1>0, <1>1, <2>1, <2>2
<1>5. Drawn(q, "sent")
  <2>1. Drawn(p, "generated")
    BY <1>0
  <2> HIDE DEF p, q
  <2> QED BY <1>3, <2>1 DEF Drawn
<1>6. \A g \in Fuzzers : Drawn(prog[g], phase[g])
  BY DEF GenInv
<1> HIDE DEF q
<1> QED BY <1>4, <1>5, <1>6 DEF GenInv

\* Every step keeps what holds of the programs.
LEMMA NextGen ==
  ASSUME WorldInv, FuzzerInv, GenInv, [Next]_genVars
  PROVE  GenInv'
<1>0. FuzzerTypes
  BY DEF FuzzerInv, FuzzerTypes
<1>1. CASE (Upgrade \/ Prepare \/ \E n \in Nodes : NodeChanges(n)) /\ UNCHANGED <<drawn, prog>>
  <2>1. UNCHANGED <<phase, prog>>
    BY <1>1 DEF Upgrade, Prepare, NodeChanges, targetVars
  <2> QED BY <2>1 DEF GenInv
<1>2. CASE UNCHANGED genVars
  BY <1>2 DEF genVars, discoveryVars, targetVars, GenInv
<1>3. ASSUME NEW f \in Fuzzers, FuzzerStep(f) PROVE GenInv'
  <2> DEFINE Ends == {"off", "listing", "reading", "nodes", "params", "line", "choosing"}
  <2>1. ASSUME UNCHANGED prog, \/ UNCHANGED phase
                               \/ \E ph \in Ends : phase' = [phase EXCEPT ![f] = ph]
        PROVE  GenInv'
    <3>1. \A g \in Fuzzers : phase'[g] = phase[g] \/ phase'[g] \in Ends
      BY <1>0, <2>1 DEF FuzzerTypes
    <3>2. ASSUME NEW g \in Fuzzers PROVE Drawn(prog[g], phase'[g])
      <4>1. Drawn(prog[g], phase[g])
        BY DEF GenInv
      <4> QED BY <3>1, <4>1, DrawnStays
    <3> QED BY <2>1, <3>2 DEF GenInv
  <2> USE DEF worldVars, targetVars, discoveryVars, Panic
  <2>2. CASE Kill(f) /\ UNCHANGED <<drawn, prog>>
    BY <2>1, <2>2 DEF Kill
  <2>3. CASE Launch(f) /\ UNCHANGED <<drawn, prog>>
    BY <2>1, <2>3 DEF Launch
  <2>4. CASE ListNodes(f) /\ UNCHANGED <<drawn, prog>>
    BY <2>1, <2>4 DEF ListNodes
  <2>5. CASE ReadCache(f) /\ UNCHANGED <<drawn, prog>>
    BY <2>1, <2>5 DEF ReadCache
  <2>6. CASE NodeSerialize(f) /\ UNCHANGED <<drawn, prog>>
    <3>1. phase' = [phase EXCEPT ![f] = "line"] \/ phase' = [phase EXCEPT ![f] = "off"]
      BY <2>6 DEF NodeSerialize
    <3> QED BY <2>1, <2>6, <3>1
  <2>7. CASE EndLine(f) /\ UNCHANGED <<drawn, prog>>
    BY <2>1, <2>7 DEF EndLine
  <2>8. ASSUME NEW n \in todo[f], PushCached(f, n), UNCHANGED <<drawn, prog>> PROVE GenInv'
    BY <2>1, <2>8 DEF PushCached
  <2>9. ASSUME NEW n \in todo[f], ListParams(f, n), UNCHANGED <<drawn, prog>> PROVE GenInv'
    BY <2>1, <2>9 DEF ListParams
  <2>10. ASSUME NEW p \in work[f].left, DescribeParam(f, p), UNCHANGED <<drawn, prog>> PROVE GenInv'
    <3>1. UNCHANGED phase \/ phase' = [phase EXCEPT ![f] = "off"]
      BY <2>10 DEF DescribeParam
    <3> QED BY <2>1, <2>10, <3>1
  <2>11. CASE BeginChoice(f)
    <3>1. phase' = [phase EXCEPT ![f] = "choosing"] \/ phase' = [phase EXCEPT ![f] = "off"]
      BY <2>11 DEF BeginChoice
    <3> QED BY <2>1, <2>11, <3>1 DEF BeginChoice
  <2>12. ASSUME NEW i \in DOMAIN nodes[f], Redraw(f, i) PROVE GenInv'
    BY <2>1, <2>12 DEF Redraw
  <2> HIDE DEF worldVars, targetVars, discoveryVars, Panic
  <2> QED
    BY <1>3, <2>2, <2>3, <2>4, <2>5, <2>6, <2>7, <2>8, <2>9, <2>10, <2>11, <2>12, StepsApart,
       ChooseGen, GenValueGen, SerializationGen
<1>4. scenario.fuzzers \subseteq Fuzzers
  BY ScenarioFacts
<1> QED BY <1>1, <1>2, <1>3, <1>4 DEF Next, FuzzerStep

\* What holds of the programs that are generated: the inductive invariant behind
\* ProgramsWhole.
THEOREM GenInductive == Spec => []GenInv
<1>1. Init => GenInv
  BY InitGen
<1>2. DiscoverySafe /\ GenInv /\ [Next]_genVars => GenInv'
  BY NextGen DEF DiscoverySafe
<1> QED BY <1>1, <1>2, DiscoveryInductive, PTL DEF Spec

\* A program that is sent is whole, unless some string of it had no node.
THEOREM ProgramsWhole == Spec => []ProgramWhole
<1>1. GenInv => ProgramWhole
  <2> SUFFICES ASSUME GenInv, NEW f \in Fuzzers, phase[f] = "sent"
               PROVE  ~prog[f].mute <=> \A i \in Leaves(prog[f].tree) : LeafWhole(prog[f].tree[i], prog[f].heard)
    BY DEF ProgramWhole
  <2> DEFINE p == prog[f]
  <2>1. Drawn(p, "sent")
    BY DEF GenInv
  <2> HIDE DEF p
  <2>2. ~p.mute => \A i \in Leaves(p.tree) : LeafWhole(p.tree[i], p.heard)
    BY <2>1 DEF Drawn
  <2>3. ASSUME p.mute PROVE \E i \in Leaves(p.tree) : ~LeafWhole(p.tree[i], p.heard)
    <3>1. PICK i \in p.left : NeedsNode(p.tree[i])
      BY <2>1, <2>3 DEF Drawn
    <3>2. i \in Leaves(p.tree) /\ Partial(p.tree[i], p.heard) /\ p.tree \in Tree
      BY <2>1, <3>1 DEF Drawn
    <3> DEFINE leaf == p.tree[i]
    <3>3. leaf \in Leaf
      BY <3>2, LeavesOf
    <3> HIDE DEF leaf
    <3>4. CASE leaf.op = "string"
      BY <3>2, <3>4 DEF Partial, LeafWhole, leaf
    <3>5. CASE leaf.op = "array"
      <4>1. leaf.len \in Nat /\ leaf.elems \in Seq(Simple) /\ Len(leaf.elems) < leaf.len
        BY <3>2, <3>3, <3>5, LeafKinds DEF Partial, leaf
      <4>2. Len(leaf.elems) # leaf.len
        BY <4>1
      <4>3. ~LeafWhole(leaf, p.heard)
        BY <3>5, <4>2 DEF LeafWhole
      <4> QED BY <3>2, <4>3 DEF leaf
    <3> QED BY <3>1, <3>4, <3>5 DEF NeedsNode, leaf
  <2>4. p.mute \in BOOLEAN
    BY <2>1 DEF Drawn
  <2> QED BY <2>2, <2>3, <2>4 DEF p
<1> QED BY <1>1, GenInductive, PTL

-----------------------------------------------------------------------------
(* The definitions of interfaces                                            *)

\* What parse_interface writes to the json files is what the definitions declare,
\* and stays it: the fields of an interface, as long as none is called like a
\* type, in their order and with their sizes, and for each last part the last
\* interface with it.
THEOREM ParsesFaithful == Spec => []ParseFaithful
<1>1. DiscoverySafe => ParseFaithful
  <2> SUFFICES ASSUME DiscoverySafe, itfs # NoItfs, NEW k \in DOMAIN Interfaces
               PROVE  LET itf == Interfaces[k]
                          lines == scenario.lines[itf]
                          declared == DeclaredOf(lines)
                          info == itfs.infos[itf]
                      IN  /\ Apart(lines) =>
                               /\ Len(info) = Len(declared)
                               /\ \A i \in DOMAIN info : Matches(info[i], declared[i])
                          /\ (\A j \in k + 1 .. Len(Interfaces) : Short[Interfaces[j]] # Short[itf]) =>
                               itfs.maps[Short[itf]] = itf
    BY DEF ParseFaithful, Apart, Matches
  <2> DEFINE itf == Interfaces[k]
             lines == scenario.lines[itf]
             info == itfs.infos[itf]
  <2>1. scenario.lines \in [ToSet(Interfaces) -> Seq(InterfaceLine)]
    BY DiscoveryAssumption DEF DiscoverySafe, WorldInv
  <2>2. itfs \in ParseInterface(scenario.lines)
    BY ScenarioFacts DEF DiscoverySafe
  <2>3. itf \in ToSet(Interfaces)
    BY ParserAssumption DEF ToSet
  <2>4. itfs.maps = Maps /\ info \in Infos(lines)
    BY <2>1, <2>2, <2>3, ParsedInfos
  <2>5. lines \in Seq(InterfaceLine)
    BY <2>1, <2>3
  <2>6. Apart(lines) => Agree(info, DeclaredOf(lines))
    BY <2>4, <2>5, InfoFaithful
  <2>7. (\A j \in k + 1 .. Len(Interfaces) : Short[Interfaces[j]] # Short[itf]) => itfs.maps[Short[itf]] = itf
    BY <2>4, MapsLast
  <2> QED BY <2>6, <2>7 DEF Agree
<1> QED BY <1>1, DiscoveryInductive, PTL
=============================================================================
