-------------------------- MODULE InterfaceParser ---------------------------
(***************************************************************************)
(* From what `ros2 interface show' prints to the fields the fuzzer knows   *)
(* (Target::parse_interface, get_param_list, gen_param_ift of              *)
(* corpus_handle/target.rs).  The outcome is kept in the json files of     *)
(* sys/, which every campaign reads.                                       *)
(*                                                                         *)
(* A word of the output is a record: its text up to a bracket, the number  *)
(* in the brackets (-1 without brackets, 0 for an unbounded array),        *)
(* whether it holds a tab (a field of an expanded type) and whether its    *)
(* last character is a letter.                                             *)
(***************************************************************************)
EXTENDS Integers, FiniteSets, SequencesExt

CONSTANTS
  Interfaces, \* the names of the interfaces, in the order `ros2 interface list' gives
  Short,      \* the last part of each name, the only one a field refers to
  Unsized     \* bound: the sizes given to an array without one, among 1..7

\* The words of the output that are neither types nor names.
Signs == {"#", "\n", "=", "---", "1", "5", "A=1"}

ASSUME ParserAssumption ==
  /\ Interfaces \in Seq(STRING)
  /\ Short \in [ToSet(Interfaces) -> STRING \ Signs]
  /\ Unsized \subseteq 1 .. 7

Word(text, size, tab, alpha) == [text |-> text, size |-> size, tab |-> tab, alpha |-> alpha]
Plain(text) == Word(text, -1, FALSE, TRUE)
Hash == Word("#", -1, FALSE, FALSE)
NewLine == Word("\n", -1, FALSE, FALSE)

\* A map with v under the key k.
Insert(map, k, v) == [x \in DOMAIN map \cup {k} |-> IF x = k THEN v ELSE map[x]]

-----------------------------------------------------------------------------
(* The types                                                                *)

\* The integers: the width the value is kept in, negative when it is signed.
Pad == [int8 |-> -8, uint8 |-> 8, int16 |-> -16, uint16 |-> 16,
        int32 |-> -32, uint32 |-> 32, int64 |-> -64, uint64 |-> 64]
Floats == {"float32", "float64"}
Chars == {"char", "byte"}

MetaTypes == DOMAIN Pad \cup Floats \cup Chars \cup {"bool", "string"}

\* "wstring" is among the words that begin a field, and is no type.
Types == MetaTypes \cup {"wstring"} \cup Range(Short)

-----------------------------------------------------------------------------
(* The fields                                                               *)

\* Comments go, up to the end of their line; then the line ends.
Strips(a, w) ==
  LET comment == w = Hash \/ (a.comment /\ w # NewLine) IN
  [comment |-> comment,
   kept |-> IF comment \/ w = NewLine THEN a.kept ELSE Append(a.kept, w)]
ParamList(shown) == FoldLeft(Strips, [comment |-> FALSE, kept |-> << >>], shown).kept

IsArray(w) == w.size # -1
IsConst(w) == w.text = "="
ValidName(w) == w.alpha

\* Mutant: the fields of an expanded type are fields of this one.
FieldsExpanded(list) ==
  {i \in 1 .. Len(list) - 1 : list[i].text \in Types /\ ValidName(list[i + 1])}

\* The places where a field begins.
Fields(list) ==
  {i \in 1 .. Len(list) - 1 :
    ~list[i].tab /\ list[i].text \in Types /\ ValidName(list[i + 1])}

GetArraySize(w, drawn) == IF w.size = 0 THEN drawn ELSE w.size

InterfaceParam(type, name, array, size, const) ==
  [type |-> type, name |-> name, array |-> array, size |-> size, const |-> const]

\* The field that begins at i; drawn: what is drawn for each unbounded array.
ParamAt(list, drawn, i) ==
  IF IsArray(list[i])
  THEN InterfaceParam(list[i].text, list[i + 1].text, TRUE, GetArraySize(list[i], drawn[i]), FALSE)
  ELSE InterfaceParam(list[i].text, list[i + 1].text, FALSE, 0,
                      i + 3 <= Len(list) /\ IsConst(list[i + 2]))

Places(list) == [i \in DOMAIN list |-> i]
GenParamIft(list, drawn) ==
  FoldLeft(LAMBDA params, i : IF i \in Fields(list) THEN Append(params, ParamAt(list, drawn, i)) ELSE params,
           << >>, Places(list))

\* The interface each last part stands for: of several, the last one listed.
Maps == FoldLeft(LAMBDA m, itf : Insert(m, Short[itf], itf), << >>, Interfaces)

\* What `ros2 interface show' prints of lines: fields, some with a default value
\* or a comment, constants with and without spaces, comments, the line between
\* request and response, and fields of the type above.
InterfaceLine ==
  [kind : {"field", "default", "noted", "spaced", "tight", "comment", "dashes", "nested"},
   type : STRING \ Signs, size : Nat \cup {-1}, name : STRING \ Signs, alpha : BOOLEAN]
Digit(text) == Word(text, -1, FALSE, FALSE)
LineWords(l) ==
  LET field == <<Word(l.type, l.size, FALSE, TRUE), Word(l.name, -1, FALSE, l.alpha)>> IN
  CASE l.kind = "field" -> field
    [] l.kind = "default" -> field \o <<Digit("5")>>
    [] l.kind = "noted" -> field \o <<Hash>> \o field
    [] l.kind = "spaced" -> field \o <<Plain("="), Digit("1")>>
    [] l.kind = "tight" -> <<field[1], Digit("A=1")>>
    [] l.kind = "comment" -> <<Hash>> \o field
    [] l.kind = "dashes" -> <<Digit("---")>>
    [] l.kind = "nested" -> <<Word(l.type, l.size, TRUE, TRUE), field[2]>>
ShownWords(lines) == FlattenSeq([i \in DOMAIN lines |-> LineWords(lines[i]) \o <<NewLine>>])

\* What the fields of an interface with these lines may be.
Infos(lines) ==
  LET list == ParamList(ShownWords(lines)) IN
  {GenParamIft(list, d) : d \in [{i \in Fields(list) : list[i].size = 0} -> Unsized]}

\* Each of the maps of all with one of the values under the key k.
Extended(all, k, vals) == UNION {{Insert(map, k, v) : v \in vals} : map \in all}

\* What parse_interface may write to the json files, given the lines of each
\* interface.
ParseInterface(lines) ==
  {[maps |-> Maps, infos |-> infos] : infos \in
     FoldLeft(LAMBDA all, itf : Extended(all, itf, Infos(lines[itf])), {<< >>}, Interfaces)}
=============================================================================
