------------------------- MODULE MCInformationGraph -------------------------
(***************************************************************************)
(* Small apps for model-checking GraphAnswers: a class A whose method run  *)
(* finds up to two things, a class B whose method go finds one, and an     *)
(* interface I with a method run, in one dex file or two; some that two    *)
(* workers load, with an interface M that has no members; and some with    *)
(* names out of reach.                                                     *)
(***************************************************************************)
EXTENDS GraphAnswers

Find(kind, name, says) == [kind |-> kind, name |-> name, says |-> says]
F == <<"A", "f">>
CallFinds == {
  Find("call", <<"B", "go">>, ""), Find("call", <<"B", "go">>, "x"), Find("call", <<"B", "go">>, "y"),
  Find("call", <<"A", "run">>, "x"), Find("call", <<"I", "run">>, "x"), Find("call", <<"X", "go">>, "x")}
MergedFinds == CallFinds \cup {
  Find("put", F, "x"), Find("array", <<"a">>, ""), Find("array_passed", <<"a">>, ""),
  Find("passed", F, "p"), Find("field_set", F, "p"),
  Find("returned", <<"B", "go">>, "p"), Find("returned", <<"X", "none">>, "p")}
RunFinds == MergedFinds \cup {Find("string", <<"s">>, ""), Find("get", F, "")}
GoFinds  == {Find("call", <<"A", "run">>, "x"), Find("call", <<"B", "go">>, "x"), Find("put", F, "x"),
             Find("field_set", F, "p"), Find("returned", <<"I", "run">>, "p")}

Code(sig, finds) == [sig |-> sig, finds |-> finds]
Defines(name, super, is, faces, defaults, codes) ==
  [name |-> name, super |-> super, interface |-> is, interfaces |-> faces,
   members |-> codes # <<>>, defaults |-> defaults, codes |-> codes]
A(faces, finds) == Defines("A", "B", FALSE, faces, <<<<F, "s">>>>, <<Code("run", finds)>>)
B(faces, finds) == Defines("B", Object, FALSE, faces, <<>>, <<Code("go", finds), Code("run", <<>>)>>)
TheI            == Defines("I", Object, TRUE, <<>>, <<>>, <<Code("run", <<>>), Code("go", <<>>)>>)
X(finds)        == Defines("X", Object, FALSE, <<>>, <<>>, <<Code("go", finds)>>)
M(faces)        == Defines("M", Object, TRUE, faces, <<>>, <<>>)

MethodsOf(types) == FlattenSeq([k \in DOMAIN types |->
  IF types[k] = Object THEN <<>> ELSE <<<<types[k], "run">>, <<types[k], "go">>>>])
DexFile(id, types, defs) ==
  [id |-> id, readable |-> TRUE, types |-> types, fields |-> IF "A" \in Range(types) THEN <<F>> ELSE <<>>,
   methods |-> MethodsOf(types), strings |-> types \o <<"s">>, classes |-> defs]

AllTypes == <<"A", "B", "I", Object, "X">>
\* One file, with the interface first or last; A and B in a file each that both name the other;
\* A defined in both; an interface under the index that another has in the other file.
Shapes(run, go) ==
  {<<DexFile("c1", AllTypes, <<TheI, A(<<"I">>, run), B(<<>>, go)>>)>>,
   <<DexFile("c1", AllTypes, <<A(<<"I">>, run), X(go), TheI, B(<<"I">>, go)>>)>>,
   <<DexFile("c1", AllTypes, <<A(<<>>, run)>>), DexFile("c2", AllTypes, <<B(<<>>, go), A(<<>>, go)>>)>>,
   <<DexFile("c1", <<"I", Object, "X">>, <<TheI>>), DexFile("c2", AllTypes, <<B(<<"A">>, go), A(<<"I">>, run)>>)>>}

\* A value that B.go has from I.mid, and A.run from B.go and from itself, before it calls I.end.
ChainedReturns ==
  LET b == Defines("B", Object, FALSE, <<>>, <<>>, <<Code("go", <<Find("returned", <<"I", "mid">>, "p")>>)>>)
      a == Defines("A", Object, FALSE, <<>>, <<>>,
             <<Code("run", <<Find("returned", <<"B", "go">>, "p"), Find("returned", <<"A", "run">>, "p"),
                             Find("call", <<"I", "end">>, "")>>)>>)
  IN <<[DexFile("c1", AllTypes, <<b, a>>) EXCEPT
          !.methods = <<<<"A", "run">>, <<"B", "go">>, <<"I", "mid">>, <<"I", "end">>>>]>>

\* The key of every method run ends as that of a method n, and that of an I.amid as I.mid's; so
\* does that of the string s.
SomeEndings == {<<"run", "n">>, <<"amid", "mid">>, <<"s", "mid">>}
ReturnsOfOthers ==
  LET b == Defines("B", Object, FALSE, <<>>, <<>>, <<Code("go", <<Find("returned", <<"I", "mid">>, "p")>>)>>)
      a == Defines("A", Object, FALSE, <<>>, <<>>, <<Code("run", <<Find("returned", <<"X", "n">>, "p")>>)>>)
  IN <<[DexFile("c1", AllTypes, <<b, a>>) EXCEPT
          !.methods = <<<<"A", "run">>, <<"B", "go">>, <<"I", "mid">>, <<"I", "amid">>>>]>>

One(set) == {<<x>> : x \in set}
Two(set) == {<<x, y>> : x, y \in set}
LoadedBy(n, apps) == {[workers |-> n, files |-> a] : a \in apps}
SmallApps ==
  UNION {Shapes(run, go) : run \in {<<>>} \cup One(RunFinds), go \in {<<>>} \cup One(GoFinds)}
  \cup UNION {Shapes(run, <<>>) : run \in Two(MergedFinds)}
  \cup UNION {Shapes(run, <<Find("call", <<"A", "run">>, "x")>>) : run \in Two(CallFinds)}
  \cup {ChainedReturns, ReturnsOfOthers}
  \cup Shapes(<<Find("call", <<"A", "run">>, ""), Find("call", <<"B", "go">>, "x"),
                Find("call", <<"X", "go">>, "x")>>, <<>>)

\* One file whose classes may come in any order, or two and one that cannot be read; A and B
\* implement the marker and call each other.
MarkerTypes == <<"A", "B", "I", "M", Object>>
Unreadable == [DexFile("c0", MarkerTypes, <<>>) EXCEPT !.readable = FALSE]
MarkedApps ==
  LET a == A(<<"I", "M">>, <<Find("call", <<"B", "go">>, "x"), Find("passed", F, "p")>>)
      b == B(<<"I", "M">>, <<Find("call", <<"A", "run">>, "x")>>)
  IN {<<DexFile("c1", MarkerTypes, <<a, b, TheI, M(<<>>)>>)>>,
      <<Unreadable, DexFile("c1", MarkerTypes, <<M(<<>>), a>>), DexFile("c2", MarkerTypes, <<b>>)>>}
MarkerExtendsI == <<DexFile("c1", MarkerTypes, <<M(<<"I">>), TheI, B(<<"M">>, <<>>)>>)>>

\* Files whose last types are out of reach: X is called A, and Y is called X.
LateFile(defs) == [DexFile("c1", AllTypes, defs) EXCEPT !.strings = <<"A", "B", "I", "M", Object, "W", "X", "s">>]
LateTypes == <<"Object", "X", "Xa", "Xb", "Xc", "Xd", "Xe", "Y">>
LateApps ==
  LET a == A(<<>>, <<Find("call", <<"B", "go">>, "x")>>)
      x == X(<<Find("call", <<"A", "run">>, "x")>>)
      b == [B(<<"I">>, <<>>) EXCEPT !.super = "X"]
      y == Defines("Y", Object, FALSE, <<>>, <<>>, <<Code("go", <<>>)>>)
  IN {<<LateFile(<<a, x, b>>)>>, <<LateFile(<<x, a>>)>>, <<LateFile(<<x>>), DexFile("c2", AllTypes, <<b, a>>)>>,
      <<DexFile("c3", LateTypes, <<y>>), DexFile("c2", AllTypes, <<b>>)>>}
LateArchives == LoadedBy(2, LateApps)

LoadedApps == LoadedBy(1, SmallApps) \cup LoadedBy(2, MarkedApps \cup {MarkerExtendsI}) \cup LateArchives
MarkedArchives == LoadedBy(2, MarkedApps)
=============================================================================
