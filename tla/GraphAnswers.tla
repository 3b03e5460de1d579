---------------------------- MODULE GraphAnswers ----------------------------
(***************************************************************************)
(* What the information graph is asked: callgraph_for_method and callgraph *)
(* (callgraph.rs), the arguments of a call (graph/mod.rs); and what the    *)
(* graph promises.                                                         *)
(***************************************************************************)
EXTENDS InformationGraph

Done    == phase = "done"
Kind(n) == nodes[n].kind
UpEdges == {<<e[2], e[1]>> : e \in edges}

(***************************************************************************)
(* Subgraphs                                                               *)
(***************************************************************************)
\* A filtered graph: a node that is not kept has no neighbours, but a walk may begin at it.
Beyond(n, keep, links) == {m \in keep : n \in keep /\ <<n, m>> \in links}
Walk(start, keep, links) ==
  LET within[k \in Nat] ==
        IF k = 0 THEN {start}
        ELSE LET w == within[k - 1] IN w \cup UNION {Beyond(n, keep, links) : n \in w}
  IN within[Len(nodes)]

\* The nodes of these kinds; no method at all if the list of methods to ignore is empty.
Kept(kinds, ignore) ==
  {n \in DOMAIN nodes : /\ Kind(n) \in kinds
                        /\ Kind(n) = "method" => ignore # {} /\ nodes[n].name[2] \notin ignore}

DownKinds   == {"method", "array", "dynamic_argument", "static"}
ReturnKinds == {"method", "dynamic_return", "string"}
UpKinds     == DownKinds \cup {"dynamic_return"}

\* Faulty variant: upwards, the walk is over the graph as it is.
UpAsDown(start, keep) == Walk(start, keep, edges)
UpFrom(start, keep) == Walk(start, keep, UpEdges)

\* Down from a method, what is returned to any of these, and up.  A node that is met both ways,
\* which is one that calls itself through start, is in the subgraph twice, and what is found
\* upwards is linked to the second one.
CallgraphForMethod(start, ignore) ==
  LET keepDown == Kept(DownKinds, ignore)
      keepBack == Kept(ReturnKinds, ignore)
      keepUp   == Kept(UpKinds, ignore)
      down     == Walk(start, keepDown, edges)
      returned == {n \in UNION {Beyond(d, keepBack, UpEdges) : d \in down} : Kind(n) = "dynamic_return"}
      up       == UpFrom(start, keepUp)
      FirstCopy(n) == IF n \in down THEN <<n, "down">> ELSE <<n, "return">>
      LastCopy(n)  == IF n \in up \ {start} THEN <<n, "up">> ELSE FirstCopy(n)
  IN [nodes |-> {FirstCopy(n) : n \in down \cup returned} \cup {LastCopy(n) : n \in up},
      edges |-> {<<FirstCopy(e[1]), FirstCopy(e[2])>> : e \in
                    {x \in down \X down : x[2] \in Beyond(x[1], keepDown, edges)}}
                \cup {<<FirstCopy(e[1]), FirstCopy(e[2])>> : e \in
                    {x \in (down \cup returned) \X down : x[1] \in Beyond(x[2], keepBack, UpEdges)}}
                \cup {<<LastCopy(e[1]), LastCopy(e[2])>> : e \in
                    {x \in up \X up : x[1] \in Beyond(x[2], keepUp, UpEdges)}}]

\* callgraph: the same walks over methods and one class, without what is returned.
CallgraphOf(classNode, start) ==
  LET keep == {n \in DOMAIN nodes : Kind(n) = "method" \/ n = classNode}
      down == Walk(start, keep, edges)
      up   == UpFrom(start, keep)
  IN (down \X {"down"}) \cup ((up \ {start}) \X {"up"})

\* get_method_arguments: the static arguments between two methods.
MethodArguments(caller, callee) ==
  {nodes[n] : n \in {x \in Successors(caller) : <<x, callee>> \in edges /\ Kind(x) = "static"}}

(***************************************************************************)
(* The app, without the graph                                              *)
(***************************************************************************)
\* Findings of a kind, with the method they are made in.
Found(k) == {<<x.method.name, x.find>> : x \in {Findings[i][2] : i \in {j \in DOMAIN Findings :
                Findings[j][2].find.kind = k /\ Mapped(Findings[j][2].method)}}}

\* Calls of a method in the graph, and what is passed.
Calls == {<<c[1], c[2].name, c[2].says>> : c \in {x \in Found("call") : Mapped(MethodOf(x[2].name))}}
CallPairs == {<<c[1], c[2]>> : c \in Calls}
\* What a method passes to methods that are not in the graph.
PassedOutside(caller) ==
  {x[2].says : x \in {y \in Found("call") : y[1] = caller /\ ~Mapped(MethodOf(y[2].name))}}

\* Methods of interfaces, and those of the same name in classes of the same file further on.
Sigs(c) == {c.codes[j].sig : j \in DOMAIN c.codes}
Implementations ==
  {<<<<t[1].name, t[3]>>, <<t[2].name, t[3]>>>> : t \in
     UNION {UNION {LET i == Classes[k]
                       c == Classes[n]
                   IN IF i[2].interface /\ ~c[2].interface /\ i[1] = c[1] /\ i[2].name \in Range(c[2].interfaces)
                         /\ {i[2].name, c[2].name} \cap Excluded = {}
                      THEN {<<i[2], c[2], s>> : s \in Sigs(i[2]) \cap Sigs(c[2])}
                      ELSE {} : k \in 1 .. n - 1} : n \in DOMAIN Classes}}

Transitively(start, pairs) ==
  LET within[k \in Nat] ==
        IF k = 0 THEN {start}
        ELSE LET w == within[k - 1] IN w \cup {p[2] : p \in {q \in pairs : q[1] \in w}}
  IN within[Len(nodes)]

(***************************************************************************)
(* Properties                                                              *)
(***************************************************************************)
\* However many dex files define or name a type, class, method or string, only the node that
\* its key leads to has edges, and that node is what the key says: what is found from the key
\* is all there is.
OnlyMappedAreLinked ==
  /\ \A k \in DOMAIN mappings : nodes[mappings[k]] = k
  /\ \A e \in edges : \A n \in {e[1], e[2]} :
    Kind(n) \in {"type", "class", "field", "method", "string"} => mappings[nodes[n]] = n

\* What several methods write to a field, or one method passes several times, is one node.
WrittenOnce ==
  \A n, m \in DOMAIN nodes :
    n # m /\ nodes[n] = nodes[m] /\ Kind(n) \in {"static", "array", "dynamic_argument"} =>
      ~\E f \in DOMAIN nodes : /\ {<<f, n>>, <<f, m>>} \subseteq edges
                               /\ Kind(n) = "static" => Kind(f) = "field"

\* The static arguments between two methods are those that the first passes in its calls of the
\* second.  Between a method that calls itself and itself there may also be some that it passes
\* to methods outside of the graph.
NodeOf(name) == mappings[MethodOf(name)]
ArgumentsAreTheCalls ==
  Done => \A c \in CallPairs :
    LET between == {w.name[3] : w \in MethodArguments(NodeOf(c[1]), NodeOf(c[2]))}
        passed  == {t[3] : t \in {u \in Calls : <<u[1], u[2]>> = c}} \ {""}
    IN /\ passed \subseteq between
       /\ between \subseteq passed \cup (IF c[1] = c[2] THEN PassedOutside(c[1]) ELSE {})

\* In an app of one dex file an interface's method points to those that implement it, if the
\* classes come behind the interface, names are in reach and nothing was cancelled, and no method
\* to one that neither implements it nor is called by it.
MethodPairs == {<<nodes[e[1]].name, nodes[e[2]].name>> : e \in
                  {x \in edges : Kind(x[1]) = "method" /\ Kind(x[2]) = "method"}}
ImplementationsAreLinked ==
  Done /\ Len(app) = 1 =>
    /\ ~cancelled /\ InReach(app[1]) => Implementations \subseteq MethodPairs
    /\ MethodPairs \subseteq Implementations \cup CallPairs

\* A method's call graph, with something to ignore, has all methods that it calls and that call
\* it, directly or through others that are not ignored, and beyond them only what implements
\* or is implemented by these, or what a value that was seen as a result leads to: methods that
\* hand it on share its node, which may so stand between any that it was seen in and any whose
\* signature ends with one it came from.
Backwards(pairs) == {<<p[2], p[1]>> : p \in pairs}
Ending(sig) == {nodes[n].name : n \in {x \in DOMAIN nodes : Kind(x) = "method" /\ EndsWith(nodes[x], sig)}}
ReturnPairs ==
  UNION {{<<r[1][1], name>> : name \in {r[2][1]} \cup Ending(r[2][2].name[2])} :
            r \in {q \in Found("returned") \X Found("returned") : q[1][2].says = q[2][2].says}}
CallgraphIsSound ==
  Done => LET links == MethodPairs \cup ReturnPairs IN \A ignored \in {"run", "nothing"} :
    LET calls == {p \in CallPairs : ignored \notin {p[1][2], p[2][2]}}
    IN \A m \in {k \in DOMAIN mappings : k.kind = "method"} :
         LET found == {nodes[n[1]].name : n \in {x \in CallgraphForMethod(mappings[m], {ignored}).nodes :
                                                   Kind(x[1]) = "method"}}
         IN /\ Transitively(m.name, calls) \cup Transitively(m.name, Backwards(calls)) \subseteq found
            /\ found \subseteq Transitively(m.name, links) \cup Transitively(m.name, Backwards(links))
=============================================================================
