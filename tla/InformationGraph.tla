-------------------------- MODULE InformationGraph --------------------------
(***************************************************************************)
(* build_information_graph of coeus_parse: nodes for everything the dex    *)
(* files of an app name, edges for the inheritance of its classes, then    *)
(* what the static flow and the dynamic discovery of every method found,   *)
(* collected first and added afterwards, change set by change set.         *)
(*                                                                         *)
(* A node's weight is its kind and what it is named by; the keys of        *)
(* all_mappings, strings made of the same, are weights here.  Parallel     *)
(* edges are one.  What a method's flow and discovery find is given with   *)
(* the app (StaticFlow and Discovery say how it is found): each finding    *)
(* becomes the change sets that the code makes of it.                      *)
(***************************************************************************)
EXTENDS DexFiles

CONSTANTS
  Excluded,      \* names of classes to leave out
  MayCancel,     \* whether the caller may ask to cancel
  Endings        \* pairs of a text, a signature or a string with an arrow, and one it ends with

VARIABLES
  phase, at,     \* how far building is, and the next item of that phase
  nodes, edges,  \* g: weights by index; pairs of indices
  mappings,      \* all_mappings: key -> index
  interfaces,    \* interfaces: index of a type -> the methods of interfaces by that index
  cancelled,
  changes        \* nodes_to_add

graphVars == <<phase, at, nodes, edges, mappings, interfaces, cancelled, changes>>
vars == <<loadVars, graphVars>>

(***************************************************************************)
(* The files of the app                                                    *)
(***************************************************************************)
Object == "Object"
\* An access is to a field of the file, which its instruction has the index of; no app brings
\* java.lang.Object with it.
FindKinds == {"call", "string", "get", "put", "array", "returned", "passed", "array_passed", "field_set"}
ASSUME FindsAssumption ==
  \A a \in Archives : \A f \in Range(a.files) : \A c \in Range(f.classes) :
    /\ c.name # Object
    /\ \A code \in Range(c.codes) : \A x \in Range(code.finds) :
         x.kind \in FindKinds /\ (x.kind \in {"get", "put", "field_set"} => x.name \in Range(f.fields))

\* Everything of one sort in all files, with its file, in the order of the files.
All(sort) == FlattenSeq([k \in DOMAIN app |-> [i \in DOMAIN app[k][sort] |-> <<app[k], app[k][sort][i]>>]])
Types   == All("types")
Fields  == All("fields")
Methods == All("methods")
Strings == All("strings")
Classes == All("classes")

TypeIndex(f, name) == CHOOSE i \in DOMAIN f.types : f.types[i] = name

(***************************************************************************)
(* Nodes, keys and edges                                                   *)
(***************************************************************************)
Weight(kind, name) == [kind |-> kind, name |-> name]
TypeOf(name)    == Weight("type", <<name>>)
ClassOf(name)   == Weight("class", <<name>>)
FieldOf(f, p)   == Weight("field", <<f.id>> \o p)
MethodOf(p)     == Weight("method", p)
StringOf(s)     == Weight("string", <<s>>)

Mapped(key)   == key \in DOMAIN mappings
Keyed(key, n) == [k \in DOMAIN mappings \cup {key} |-> IF k = key THEN n ELSE mappings[k]]
NewNode       == Len(nodes) + 1
Links(from, to) == IF Mapped(from) /\ Mapped(to) THEN {<<mappings[from], mappings[to]>>} ELSE {}

Init ==
  /\ LoadInit
  /\ phase = "types" /\ at = 1
  /\ nodes = <<>> /\ edges = {} /\ mappings = [k \in {} |-> 0]
  /\ interfaces = [i \in {} |-> {}] /\ cancelled = FALSE /\ changes = <<>>

\* The next item of a phase, and the next phase when there is none.
Has(name, items) == phase = name /\ at <= Len(items)
Item(items)  == items[at][2]
File(items)  == items[at][1]
Onward       == at' = at + 1 /\ UNCHANGED phase
After(name, items, next) ==
  /\ phase = name /\ at > Len(items)
  /\ phase' = next /\ at' = 1
  /\ UNCHANGED <<nodes, edges, mappings, interfaces, cancelled, changes>>

(***************************************************************************)
(* prepare_mappings                                                        *)
(***************************************************************************)
\* A node of its own even if there is one of this name: the key is that of the last.
NewMapped(key) ==
  /\ nodes' = Append(nodes, key) /\ mappings' = Keyed(key, NewNode)
  /\ UNCHANGED <<edges, interfaces, cancelled, changes>>
Unchanged == UNCHANGED <<nodes, edges, mappings, interfaces, cancelled, changes>>

AddType ==
  /\ Has("types", Types) /\ Onward
  /\ IF Item(Types) = Object THEN Unchanged ELSE NewMapped(TypeOf(Item(Types)))
AddField == Has("fields", Fields) /\ Onward /\ NewMapped(FieldOf(File(Fields), Item(Fields)))
AddMethod ==
  /\ Has("methods", Methods) /\ Onward
  /\ IF Item(Methods)[1] \in Excluded THEN Unchanged ELSE NewMapped(MethodOf(Item(Methods)))
AddString ==
  /\ Has("strings", Strings) /\ Onward
  /\ IF Mapped(StringOf(Item(Strings))) THEN Unchanged ELSE NewMapped(StringOf(Item(Strings)))

(***************************************************************************)
(* build_inheritance                                                       *)
(***************************************************************************)
class == Item(Classes)
file  == File(Classes)
CodeMethods == {MethodOf(<<class.name, class.codes[k].sig>>) : k \in DOMAIN class.codes}

\* The methods of the interfaces that have been met under the indices which the interfaces of
\* this class have in its own file.
InterfaceMethods ==
  UNION {LET i == TypeIndex(file, class.interfaces[k])
         IN IF i \in DOMAIN interfaces THEN interfaces[i] ELSE {} : k \in DOMAIN class.interfaces}
SameName(n, m) == nodes[n].name[2] = nodes[m].name[2]

\* Faulty variant: every method of the interface points to every method of the class.
Unmatched(here) == InterfaceMethods \X here
Overridden(here) == {e \in InterfaceMethods \X here : SameName(e[1], e[2])}

ClassEdges(n) ==
  {<<n, mappings[TypeOf(class.name)]>>}
  \cup Links(TypeOf(class.name), TypeOf(class.super))
  \cup (UNION {Links(TypeOf(class.interfaces[k]), TypeOf(class.name)) : k \in DOMAIN class.interfaces})
  \cup (UNION {LET p == class.defaults[k]
               IN Links(StringOf(p[2]), FieldOf(file, p[1])) \cup Links(FieldOf(file, p[1]), StringOf(p[2]))
                 : k \in DOMAIN class.defaults})
  \cup {<<n, mappings[m]>> : m \in CodeMethods}

\* A class goes by what it is called, its types and methods by their names.
called == Called(file, class.name)
\* Faulty variant: a class gets a node for every file that defines it.
NotLeftOut == called \notin Excluded
IsNew == called \notin Excluded /\ ~Mapped(ClassOf(called))

AddClass ==
  /\ Has("inheritance", Classes) /\ Onward
  /\ IsNew /\ \A m \in CodeMethods : Mapped(m)
  /\ nodes' = Append(nodes, ClassOf(called))
  /\ mappings' = Keyed(ClassOf(called), NewNode)
  /\ IF ~Mapped(TypeOf(class.name)) THEN UNCHANGED <<edges, interfaces>>
     ELSE LET i == TypeIndex(file, class.name)
              here == {mappings[m] : m \in CodeMethods}
              known == IF i \in DOMAIN interfaces THEN interfaces[i] ELSE {}
          IN /\ edges' = edges \cup ClassEdges(NewNode) \cup (IF class.interface THEN {} ELSE Overridden(here))
             /\ interfaces' = IF ~class.interface THEN interfaces
                              ELSE [j \in DOMAIN interfaces \cup {i} |->
                                      IF j = i THEN known \cup here
                                      ELSE interfaces[j]]
  /\ UNCHANGED <<cancelled, changes>>

\* A class that is called that has a node already, from another file as a rule.
SkipClass ==
  /\ Has("inheritance", Classes) /\ Onward
  /\ ~IsNew
  /\ Unchanged

\* A class that is not called what is to be left out, while its methods are left out by its
\* name: the look-up of a method panics, and there is no graph.
Panic ==
  /\ Has("inheritance", Classes)
  /\ IsNew /\ ~\A m \in CodeMethods : Mapped(m)
  /\ phase' = "failed" /\ UNCHANGED at
  /\ Unchanged

\* A cancel signal ends this phase, and nothing else.
Cancel ==
  /\ MayCancel /\ Has("inheritance", Classes) /\ called \notin Excluded
  /\ cancelled' = TRUE /\ phase' = "collect" /\ at' = 1
  /\ UNCHANGED <<nodes, edges, mappings, interfaces, changes>>

(***************************************************************************)
(* What was found in the methods, as change sets                           *)
(***************************************************************************)
Nowhere == 0
Edge(from, to)             == [kind |-> "edge", origin |-> from, destination |-> to, node |-> TypeOf(Object), keyed |-> FALSE]
NodeTo(n, w, keyed)        == [kind |-> "to", origin |-> n, destination |-> Nowhere, node |-> w, keyed |-> keyed]
NodeFrom(n, w, keyed)      == [kind |-> "from", origin |-> Nowhere, destination |-> n, node |-> w, keyed |-> keyed]
NodeFromTo(a, b, w, keyed) == [kind |-> "from_to", origin |-> a, destination |-> b, node |-> w, keyed |-> keyed]
EdgeBetween(a, b) == IF Mapped(a) /\ Mapped(b) THEN <<Edge(mappings[a], mappings[b])>> ELSE <<>>

\* The methods of all classes with their findings: <<file, class name, signature, finding>>.
Findings ==
  FlattenSeq([k \in DOMAIN Classes |->
    LET c == Classes[k][2]
    IN FlattenSeq([j \in DOMAIN c.codes |->
         [i \in DOMAIN c.codes[j].finds |->
           <<Classes[k][1], [method |-> MethodOf(<<c.name, c.codes[j].sig>>), find |-> c.codes[j].finds[i]]>>]])])
find   == Item(Findings).find
finder == mappings[Item(Findings).method]
Static == Weight("static", Item(Findings).method.name \o <<find.says>>)

\* The change sets made of a finding.  find.name: the method called, the field accessed, the
\* string or the array; find.says: what is passed, put or returned, if anything.
\* The key of a method or of a string, which a class may be called by, ends with a signature.
EndsWith(w, sig) ==
  \/ w.kind = "method" /\ (w.name[2] = sig \/ <<w.name[2], sig>> \in Endings)
  \/ w.kind \in {"string", "class"} /\ <<w.name[1], sig>> \in Endings
Middle == {n \in Range(mappings) : EndsWith(nodes[n], find.name[2])}
FieldNode == mappings[FieldOf(File(Findings), find.name)]
CallChanges ==
  LET callee == MethodOf(find.name)
  IN IF Mapped(callee)
     THEN EdgeBetween(Item(Findings).method, callee) \o EdgeBetween(callee, TypeOf(find.name[1]))
          \o (IF find.says = "" THEN <<>> ELSE <<NodeFromTo(finder, mappings[callee], Static, FALSE)>>)
     ELSE IF find.says = "" THEN <<>> ELSE <<NodeTo(finder, Static, FALSE)>>
\* A string returned is linked to something whose key has an arrow and ends with the method's
\* signature.  For what is passed this is looked for, too, but by a number that no key ends with.
ReturnChanges ==
  LET w == Weight("dynamic_return", <<find.says>>)
  IN IF Middle = {} THEN {<<NodeTo(finder, w, TRUE)>>}
     ELSE {<<NodeFromTo(finder, n, w, TRUE)>> : n \in Middle}
Said == Weight("dynamic_argument", <<find.says>>)
ChangesOf ==
  CASE find.kind = "call"         -> {CallChanges}
    [] find.kind = "returned"     -> ReturnChanges
    [] find.kind = "string"       -> {EdgeBetween(Item(Findings).method, StringOf(find.name[1]))}
    [] find.kind = "get"          -> {<<Edge(FieldNode, finder)>>}
    [] find.kind = "put"          -> {<<Edge(finder, FieldNode), NodeFrom(FieldNode, Static, FALSE)>>}
    [] find.kind = "array"        -> {<<NodeTo(finder, Weight("array", find.name), FALSE)>>}
    [] find.kind = "passed"       -> {<<NodeFrom(finder, Said, TRUE)>>}
    [] find.kind = "array_passed" -> {<<NodeFrom(finder, Weight("array", find.name), FALSE)>>}
    [] find.kind = "field_set"    -> {<<NodeFrom(FieldNode, Said, TRUE)>>}

\* The methods are looked at in parallel, and their change sets put in the order of the classes.
Collect ==
  /\ Has("collect", Findings) /\ Onward
  /\ IF ~Mapped(Item(Findings).method) THEN UNCHANGED changes
     ELSE \E made \in ChangesOf : changes' = changes \o made
  /\ UNCHANGED <<nodes, edges, mappings, interfaces, cancelled>>

(***************************************************************************)
(* add_to_graph                                                            *)
(***************************************************************************)
change == changes[at]
Successors(n) == {m \in DOMAIN nodes : <<n, m>> \in edges}

\* Faulty variant: always a new node.
PlacedAnew(where, w) == {NewNode}
\* An equal node among the successors of where, or a new one.
Placed(where, w) ==
  LET equal == {m \in Successors(where) : nodes[m] = w}
  IN IF equal = {} THEN {NewNode} ELSE equal

\* A key stays with the node it was first given.
Keep(n) == IF change.keyed /\ ~Mapped(change.node) THEN Keyed(change.node, n) ELSE mappings

Added(where, n, new) ==
  /\ nodes' = IF n = NewNode THEN Append(nodes, change.node) ELSE nodes
  /\ mappings' = Keep(n)
  /\ edges' = edges \cup new
  /\ UNCHANGED <<interfaces, cancelled, changes>>

AddEdge ==
  /\ Has("add", changes) /\ change.kind = "edge" /\ Onward
  /\ edges' = edges \cup {<<change.origin, change.destination>>}
  /\ UNCHANGED <<nodes, mappings, interfaces, cancelled, changes>>
AddNodeTo ==
  /\ Has("add", changes) /\ change.kind = "to" /\ Onward
  /\ \E n \in Placed(change.origin, change.node) : Added(change.origin, n, {<<n, change.origin>>})
AddNodeFrom ==
  /\ Has("add", changes) /\ change.kind = "from" /\ Onward
  /\ \E n \in Placed(change.destination, change.node) :
       Added(change.destination, n, {<<change.destination, n>>})
\* Faulty variant: the edges go from the destination to the origin.
Reversed(n) == {<<change.destination, n>>, <<n, change.origin>>}
Through(n) == {<<change.origin, n>>, <<n, change.destination>>}

AddNodeFromTo ==
  /\ Has("add", changes) /\ change.kind = "from_to" /\ Onward
  /\ \E n \in Placed(change.destination, change.node) :
       Added(change.destination, n, Through(n))

NextPhase ==
  \/ After("types", Types, "fields")
  \/ After("fields", Fields, "methods")
  \/ After("methods", Methods, "strings")
  \/ After("strings", Strings, "inheritance")
  \/ After("inheritance", Classes, "collect")
  \/ After("collect", Findings, "add")
  \/ After("add", changes, "done")

\* The graph is built of the files that were loaded.
Build ==
  \/ AddType \/ AddField \/ AddMethod \/ AddString
  \/ AddClass \/ SkipClass \/ Panic \/ Cancel
  \/ Collect
  \/ AddEdge \/ AddNodeTo \/ AddNodeFrom \/ AddNodeFromTo
  \/ NextPhase

Next ==
  \/ LoadNext /\ UNCHANGED graphVars
  \/ app # <<>> /\ Build /\ UNCHANGED loadVars

Spec == Init /\ [][Next]_vars
=============================================================================
