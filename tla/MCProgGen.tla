------------------------------ MODULE MCProgGen ------------------------------
(***************************************************************************)
(* Small instance of ProgGen, in three scenarios: an interface of any      *)
(* three lines is parsed; two campaigns, of three in all, share            *)
(* sys/node.json while the application changes; one campaign generates a   *)
(* program while nodes come and go.                                        *)
(***************************************************************************)
EXTENDS ProgGen

Line(kind, type, size, name, alpha) ==
  [kind |-> kind, type |-> type, size |-> size, name |-> name, alpha |-> alpha]
Field(type, name) == Line("field", type, -1, name, TRUE)
Array(type, size, name) == Line("field", type, size, name, TRUE)
Dashes == Line("dashes", "", -1, "", FALSE)

\* "Pose" stands for two interfaces; "Text" has a field of an unknown type.
MCInterfaces == <<"geo/Point", "geo/Pose", "turtle/Pose", "my/Scan", "my/Spawn", "my/Empty", "my/Text">>
MCShort == [i \in ToSet(MCInterfaces) |->
  CASE i = "geo/Point" -> "Point" [] i \in {"geo/Pose", "turtle/Pose"} -> "Pose"
    [] i = "my/Scan" -> "Scan" [] i = "my/Spawn" -> "Spawn" [] i = "my/Empty" -> "Empty"
    [] i = "my/Text" -> "Text"]

MCLines == [i \in ToSet(MCInterfaces) |->
  CASE i = "geo/Point" -> <<Field("int8", "x"), Line("tight", "uint8", -1, "", FALSE), Field("float32", "y")>>
    [] i = "geo/Pose" -> <<Field("Point", "position")>>
    [] i = "turtle/Pose" -> <<Field("bool", "pen"), Field("Empty", "none")>>
    [] i = "my/Scan" -> <<Line("comment", "int8", -1, "c", TRUE), Line("noted", "int32", -1, "sec", TRUE),
                          Array("int16", 2, "ranges"), Array("Point", 2, "points"), Field("string", "label")>>
    [] i = "my/Spawn" -> <<Field("string", "node"), Line("spaced", "uint8", -1, "MODE", TRUE), Dashes,
                           Array("string", 2, "peers"), Field("char", "c")>>
    [] i = "my/Empty" -> << >>
    [] i = "my/Text" -> <<Field("wstring", "text")>>]

\* Any three lines for geo/Point, which a name can be taken for.
MCAnyLine == {
  Field("int8", "x"), Field("float64", "bool"), Line("field", "uint16", -1, "q1", FALSE),
  Array("Scan", 0, "scans"), Array("byte", 3, "bytes"), Line("default", "string", -1, "s", TRUE),
  Line("noted", "int64", 0, "n", TRUE), Line("spaced", "int8", -1, "C", TRUE),
  Line("tight", "int8", -1, "", FALSE), Line("comment", "bool", -1, "c", TRUE), Dashes,
  Line("nested", "char", -1, "sub", TRUE)}

MCParses == {[MCLines EXCEPT !["geo/Point"] = l] : l \in SeqOf(MCAnyLine, 3)}

MCNodes == {"/a", "/b", "/c", "/spawn_entity"}
Offer(its) ==
  [s \in ToSet(Sections) |-> IF s = "node_publisher"
     THEN <<<<"/parameter_events", "rcl/ParameterEvent">>>>
     ELSE IF s \in DOMAIN its THEN its[s] ELSE << >>]
Parameter(name, type, bounded, qos) == [name |-> name, type |-> type, bounded |-> bounded, qos |-> qos]
NodeOf(its, params) == [offers |-> Offer(its), params |-> params]

Silent == NodeOf(<< >>, {})
MCApps == <<
  [n \in MCNodes |->
    CASE n = "/a" -> NodeOf([node_subscribers |-> <<<<"/scan", "my/Scan">>>>], {})
      [] n = "/b" -> NodeOf([service_server |-> <<<<"/get_parameters", "rcl/GetParameters">>, <<"/spawn", "my/Spawn">>>>],
                            {Parameter("p", <<"string", "array">>, FALSE, FALSE),
                             Parameter("q", <<"integer">>, TRUE, TRUE)})
      [] OTHER -> Silent],
  [n \in MCNodes |->
    CASE n = "/a" -> NodeOf([node_subscribers |-> <<<<"/pose", "geo/Pose">>>>,
                             action_server |-> <<<<"/reset", "my/Empty">>>>,
                             action_client |-> <<<<"/clear", "my/Empty">>>>], {})
      [] n = "/b" -> NodeOf(<< >>, {Parameter("i", <<"integer">>, FALSE, FALSE),
                                    Parameter("d", <<"double">>, FALSE, FALSE)})
      [] OTHER -> Silent],
  [n \in MCNodes |->
    CASE n = "/a" -> NodeOf([action_client |-> <<<<"/say", "my/Text">>>>], {})
      [] n = "/b" -> NodeOf(<< >>, {Parameter("i", <<"integer">>, TRUE, FALSE),
                                    Parameter("bytes", <<"byte", "array">>, FALSE, FALSE)})
      [] OTHER -> Silent] >>

MCParameterWords == {"/parameter_events", "/get_parameters"}
MCSkipped == {"/spawn_entity"}
MCFuzzers == {"f1", "f2"}
MCModulus == (8 :> 4) @@ (16 :> 8) @@ (32 :> 16) @@ (64 :> 32)

MCScenario(fuzzers, versions, starts, budget, generates) ==
  [fuzzers |-> fuzzers, lines |-> MCLines, versions |-> versions, alive |-> starts,
   launches |-> budget[1], changes |-> budget[2], kills |-> budget[3], generates |-> generates]

MCScenarios ==
  {[MCScenario({}, {1}, {{}}, <<0, 0, 0>>, FALSE) EXCEPT !.lines = lines] : lines \in MCParses}
  \cup
  {MCScenario(MCFuzzers, {2}, {{"/a", "/b"}}, <<3, 0, 1>>, FALSE),
   MCScenario({"f1"}, {2, 3}, {{"/a", "/b"}}, <<3, 2, 1>>, FALSE),
   MCScenario({"f1"}, {1}, {{"/b"}}, <<1, 2, 0>>, TRUE),
   MCScenario({"f1"}, {1, 2}, {{"/a", "/c"}, {"/b", "/c"}, MCSkipped}, <<1, 1, 0>>, TRUE)}
=============================================================================
