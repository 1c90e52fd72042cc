------------------------------ MODULE Discovery ------------------------------
(***************************************************************************)
(* Which nodes of the application a fuzzer sends programs to, and with     *)
(* which interfaces (FuzzManager::gen_targets of feryr_fuzzer/src/lib.rs,  *)
(* Target::get_parameter_info and node_serialize of                        *)
(* corpus_handle/target.rs).  A node is asked for its parameters and its   *)
(* interfaces once: what it answers is appended to sys/node.json, which    *)
(* every later campaign reads instead, and which campaigns that run at the *)
(* same time share.  Nodes come and go meanwhile.                          *)
(***************************************************************************)
EXTENDS InterfaceValue

CONSTANTS
  Fuzzers,
  Nodes,          \* the names of the nodes of the application
  Skipped,        \* the nodes which are not asked (spawn_entity)
  Apps,           \* for each version of the application, what each node offers:
                  \* its parameters and, for each section, keys with their types
  ParameterWords, \* the keys that contain "parameter"
  Scenarios       \* bounds: see the variable, and ProgGen

Sections == <<"node_subscribers", "node_publisher", "service_server", "service_client",
              "action_server", "action_client">>
Headings == << <<"Subscribers:">>, <<"Publishers:">>, <<"Service", "Servers:">>,
               <<"Service", "Clients:">>, <<"Action", "Servers:">>, <<"Action", "Clients:">> >>
Words == UNION {Range(Headings[k]) : k \in DOMAIN Headings}

\* A version of the application: a key with its type is no heading, and a key
\* has one type below a heading.
App ==
  [Nodes -> [offers : [ToSet(Sections) -> Seq((STRING \ Words) \X (STRING \ Words))],
             params : SUBSET [name : STRING, type : Seq(STRING) \ {<< >>}, bounded : BOOLEAN, qos : BOOLEAN]]]

ASSUME DiscoveryAssumption ==
  /\ Nodes \subseteq STRING
  /\ \A v \in DOMAIN Apps :
       /\ Apps[v] \in App
       /\ \A n \in Nodes, s \in ToSet(Sections) : \A o, p \in ToSet(Apps[v][n].offers[s]) :
            o[1] = p[1] => o = p
  /\ \A s \in Scenarios :
       /\ s.fuzzers \subseteq Fuzzers /\ s.versions \subseteq DOMAIN Apps /\ s.alive \subseteq SUBSET Nodes
       /\ s.lines \in [ToSet(Interfaces) -> Seq(InterfaceLine)]

VARIABLES
  scenario,  \* one of Scenarios
  itfs,      \* the json files of parse_interface; NoItfs before they are written
  version,   \* the version of the application
  alive,     \* the nodes which run
  cache,     \* sys/node.json: entries and line ends, in the order of the writes
  phase,     \* where a fuzzer is; "off" when it does not run
  listed,    \* Target.node_name
  known,     \* the entry of each node of the cache, as it was read
  todo,      \* the nodes of the list that are left
  work,      \* the node that is being asked
  nodes,     \* Target.nodes
  panicked,  \* why the fuzzer ended, if it panicked
  launches, changes, kills,  \* bounds: what is left of each
  together,  \* history: two fuzzers have asked nodes at the same time
  cut        \* history: a fuzzer was killed before the end of a line

worldVars == <<scenario, itfs, version, alive, launches, changes, kills, together, cut>>
targetVars == <<phase, listed, known, todo, work, nodes, panicked>>
discoveryVars == <<worldVars, cache, targetVars>>

NoItfs == [maps |-> << >>, infos |-> << >>]
LineEnd == [op |-> "end"]

\* A node, as the fuzzer has it.  History: the version of the application, and
\* whether some question was not answered.
Node(name, its, params, v, silent) ==
  [op |-> "node", name |-> name, itfs |-> its, params |-> params, version |-> v, silent |-> silent]
NoWork == [name |-> "", left |-> {}, params |-> << >>, silent |-> FALSE]

Asking == {"listing", "reading", "nodes", "params", "line"}

DiscoveryInit ==
  /\ scenario \in Scenarios
  /\ itfs = NoItfs
  /\ version \in scenario.versions
  /\ alive \in scenario.alive
  /\ cache = << >>
  /\ phase = [f \in Fuzzers |-> "off"]
  /\ listed = [f \in Fuzzers |-> {}]
  /\ known = [f \in Fuzzers |-> << >>]
  /\ todo = [f \in Fuzzers |-> {}]
  /\ work = [f \in Fuzzers |-> NoWork]
  /\ nodes = [f \in Fuzzers |-> << >>]
  /\ panicked = [f \in Fuzzers |-> ""]
  /\ launches = scenario.launches
  /\ changes = scenario.changes
  /\ kills = scenario.kills
  /\ together = FALSE
  /\ cut = FALSE

-----------------------------------------------------------------------------
(* The application and the user                                             *)

\* A node starts or ends.
NodeChanges(n) ==
  /\ changes > 0
  /\ changes' = changes - 1
  /\ alive' = IF n \in alive THEN alive \ {n} ELSE alive \cup {n}
  /\ UNCHANGED <<scenario, itfs, version, launches, kills, together, cut, cache, targetVars>>

\* Another version of the application takes the place of this one.
Upgrade ==
  /\ \A f \in Fuzzers : phase[f] = "off"
  /\ changes > 0
  /\ changes' = changes - 1
  /\ version' \in scenario.versions \ {version}
  /\ UNCHANGED <<scenario, itfs, alive, launches, kills, together, cut, cache, targetVars>>

Kill(f) ==
  /\ phase[f] # "off"
  /\ kills > 0
  /\ kills' = kills - 1
  /\ phase' = [phase EXCEPT ![f] = "off"]
  /\ cut' = (cut \/ phase[f] = "line")
  /\ UNCHANGED <<scenario, itfs, version, alive, launches, changes, together, cache,
                 listed, known, todo, work, nodes, panicked>>

\* The json files are there before the first campaign: nothing of a campaign
\* writes them (parse_interface has no live caller; it writes *-autowarre.json
\* and ends in a panic, and its results were put into the sys/ of the
\* repository by hand).
Prepare ==
  /\ itfs = NoItfs
  /\ itfs' \in ParseInterface(scenario.lines)
  /\ UNCHANGED <<scenario, version, alive, launches, changes, kills, together, cut, cache, targetVars>>

-----------------------------------------------------------------------------
(* gen_targets                                                              *)

\* A fuzzer reads the json files and boots the application. Left out: its end
\* when a json file or sys/node.json is missing, or when the boot fails
\* (boot().unwrap()); it has touched nothing that is shared by then.
Launch(f) ==
  /\ itfs # NoItfs
  /\ phase[f] = "off"
  /\ launches > 0
  /\ launches' = launches - 1
  /\ phase' = [phase EXCEPT ![f] = "listing"]
  /\ listed' = [listed EXCEPT ![f] = {}]
  /\ known' = [known EXCEPT ![f] = << >>]
  /\ todo' = [todo EXCEPT ![f] = {}]
  /\ work' = [work EXCEPT ![f] = NoWork]
  /\ nodes' = [nodes EXCEPT ![f] = << >>]
  /\ panicked' = [panicked EXCEPT ![f] = ""]
  /\ together' = (together \/ \E g \in Fuzzers \ {f} : phase[g] \in Asking)
  /\ UNCHANGED <<scenario, itfs, version, alive, changes, kills, cut, cache>>

\* `ros2 node list', two seconds later.
ListNodes(f) ==
  /\ phase[f] = "listing"
  /\ phase' = [phase EXCEPT ![f] = "reading"]
  /\ listed' = [listed EXCEPT ![f] = alive]
  /\ UNCHANGED <<worldVars, cache, known, todo, work, nodes, panicked>>

Panic(f, why) ==
  /\ phase' = [phase EXCEPT ![f] = "off"]
  /\ panicked' = [panicked EXCEPT ![f] = why]

\* Each line is one entry; the last one need not have ended.
Readable(file) == \A i \in DOMAIN file : (file[i] = LineEnd) = (i % 2 = 0)

\* Of the entries of a node, the last one.
NodeMap(file) ==
  FoldLeft(LAMBDA m, e : IF e = LineEnd THEN m ELSE Insert(m, e.name, e), << >>, file)

\* Mutant: spawn_entity is asked as well.
AskedAll(f) == listed[f]

Asked(f) == listed[f] \ Skipped

ReadCache(f) ==
  /\ phase[f] = "reading"
  /\ IF Readable(cache)
     THEN /\ known' = [known EXCEPT ![f] = NodeMap(cache)]
          /\ todo' = [todo EXCEPT ![f] = Asked(f)]
          /\ phase' = [phase EXCEPT ![f] = "nodes"]
          /\ UNCHANGED panicked
     ELSE Panic(f, "cache") /\ UNCHANGED <<known, todo>>
  /\ UNCHANGED <<worldVars, cache, listed, work, nodes>>

\* Mutant: the cache is never used.
CachedNever(f, n) == FALSE

Cached(f, n) == n \in DOMAIN known[f]

PushCached(f, n) ==
  /\ phase[f] = "nodes"
  /\ n \in todo[f] /\ Cached(f, n)
  /\ todo' = [todo EXCEPT ![f] = @ \ {n}]
  /\ nodes' = [nodes EXCEPT ![f] = Append(@, known[f][n])]
  /\ UNCHANGED <<worldVars, cache, phase, listed, known, work, panicked>>

\* `ros2 param list': a node that does not run has no parameters.
ListParams(f, n) ==
  /\ phase[f] = "nodes"
  /\ n \in todo[f] /\ ~Cached(f, n)
  /\ todo' = [todo EXCEPT ![f] = @ \ {n}]
  /\ work' = [work EXCEPT ![f] =
       [name |-> n, left |-> IF n \in alive THEN {p \in Apps[version][n].params : ~p.qos} ELSE {},
        params |-> << >>, silent |-> n \notin alive]]
  /\ phase' = [phase EXCEPT ![f] = "params"]
  /\ UNCHANGED <<worldVars, cache, listed, known, nodes, panicked>>

\* The leaves a parameter may start as, by the first word of its type: the one
\* of an array is that of its elements, and no word is "integer array".
ParamLeaf(p) ==
  CASE Head(p.type) = "boolean" -> {BoolType}
    [] Head(p.type) = "integer" -> {IntType(64, 0)}
    [] Head(p.type) = "double" -> {DoubleType("0")}
    [] Head(p.type) = "string" -> {StringType(len, << >>) : len \in Lengths}
    [] OTHER -> {}

ParamType == [boolean |-> "bool", integer |-> "int64", double |-> "float64", string |-> "string"]

\* "value:" is parsed as the number that follows it.
Bounds(p) == Head(p.type) \in {"integer", "double"} /\ p.bounded

\* `ros2 param describe': without an answer the next parameter is taken.
DescribeParam(f, p) ==
  /\ phase[f] = "params"
  /\ p \in work[f].left
  /\ IF work[f].name \notin alive
     THEN /\ work' = [work EXCEPT ![f].left = @ \ {p}, ![f].silent = TRUE]
          /\ UNCHANGED <<phase, panicked>>
     ELSE IF ParamLeaf(p) = {} \/ Bounds(p)
     THEN Panic(f, "param") /\ UNCHANGED work
     ELSE /\ \E leaf \in ParamLeaf(p) :
               work' = [work EXCEPT ![f].left = @ \ {p}, ![f].params =
                 Insert(@, p.name, InterfaceVal(p.name, ParamType[Head(p.type)], FALSE, <<leaf>>))]
          /\ UNCHANGED <<phase, panicked>>
  /\ UNCHANGED <<worldVars, cache, listed, known, todo, nodes>>

\* `ros2 node info': every heading, the keys with their types below it.
InfoWords(n) ==
  <<n>> \o FlattenSeq([k \in DOMAIN Sections |->
             Headings[k] \o FlattenSeq(Apps[version][n].offers[Sections[k]])])

\* Mutant: the second word of a heading is not looked at.
HeadingAtFirst(words, i, k) == i <= Len(words) /\ words[i] = Headings[k][1]

HeadingAt(words, i, k) ==
  LET h == Headings[k] IN
  i + Len(h) - 1 <= Len(words) /\ SubSeq(words, i, i + Len(h) - 1) = h

\* Mutant: parameters are interfaces like others.
IsParameterNever(word) == FALSE

IsParameter(word) == word \in ParameterWords

\* Before each key the headings are looked for in their order, each right
\* after the one before.
AtHeading(words, at, k) ==
  IF HeadingAt(words, at.i, k)
  THEN [at EXCEPT !.i = @ + Len(Headings[k]), !.section = Sections[k]] ELSE at
PastHeadings(words, a) == FoldLeft(LAMBDA at, k : AtHeading(words, at, k), a, Places(Headings))

ReadEntry(words, a) ==
  LET at == PastHeadings(words, a) IN
  IF a.i > Len(words) THEN a ELSE
  IF at.i > Len(words) THEN at ELSE
  [at EXCEPT !.i = @ + 2,
             !.found = IF IsParameter(words[at.i]) THEN @
                       ELSE @ \cup {<<at.section, words[at.i], words[at.i + 1]>>}]

\* The interfaces read from the words, in no more steps than there are words.
Entries(words) ==
  FoldLeft(LAMBDA a, w : ReadEntry(words, a),
           [i |-> 2, section |-> Sections[1], found |-> {}], words).found

\* An interface has its name and, as far as its fields go, the last part of its type.
LastPart(type) == IF type \in DOMAIN Short THEN Short[type] ELSE type

\* The values the interfaces of a node may be constructed as, by their sections
\* and keys.
Values(entries) ==
  LET Trees(e) == {InterfaceVal(e[2], e[3], FALSE, val) : val \in ConstructItfLayers(itfs, LastPart(e[3]))}
      keys == {<<e[1], e[2]>> : e \in entries}
  IN  {vals \in [keys -> UNION {Trees(e) : e \in entries}] :
         \A d \in keys : \E e \in entries : <<e[1], e[2]>> = d /\ vals[d] \in Trees(e)}

\* The entry is written, then the end of its line.
NodeSerialize(f) ==
  /\ phase[f] = "params" /\ work[f].left = {}
  /\ LET n == work[f].name
         entries == IF n \in alive THEN Entries(InfoWords(n)) ELSE {}
     IN  IF \A e \in entries : Constructible(itfs, LastPart(e[3]))
         THEN \E val \in Values(entries) :
                LET node == Node(n, val, work[f].params, version, work[f].silent \/ n \notin alive)
                IN  /\ cache' = Append(cache, node)
                    /\ nodes' = [nodes EXCEPT ![f] = Append(@, node)]
                    /\ phase' = [phase EXCEPT ![f] = "line"]
                    /\ UNCHANGED panicked
         ELSE Panic(f, "type") /\ UNCHANGED <<cache, nodes>>
  /\ UNCHANGED <<worldVars, listed, known, todo, work>>

EndLine(f) ==
  /\ phase[f] = "line"
  /\ cache' = Append(cache, LineEnd)
  /\ phase' = [phase EXCEPT ![f] = "nodes"]
  /\ work' = [work EXCEPT ![f] = NoWork]
  /\ UNCHANGED <<worldVars, listed, known, todo, nodes, panicked>>

TargetsDone(f) == phase[f] = "nodes" /\ todo[f] = {}

GenTargets(f) ==
  \/ Launch(f) \/ ListNodes(f) \/ ReadCache(f) \/ NodeSerialize(f) \/ EndLine(f)
  \/ \E n \in todo[f] : PushCached(f, n) \/ ListParams(f, n)
  \/ \E p \in work[f].left : DescribeParam(f, p)
=============================================================================
