------------------------ MODULE GraphAnswers_proofs ------------------------
(***************************************************************************)
(* Proofs about DexFiles, InformationGraph and GraphAnswers, for every     *)
(* archive and every number of workers: what the tables of an app hold     *)
(* once it is loaded, and what the graph says of its methods.              *)
(***************************************************************************)
EXTENDS GraphAnswers, Lists_proofs

-----------------------------------------------------------------------------
(* The tables of relatives.  RelativesAreAll speaks of the end of the work *)
(* only.  TablesInv says what the tables hold on the way: the names of     *)
(* exactly those classes that have come past the change which adds them,   *)
(* and building the graph leaves them so.                                  *)

(***************************************************************************)
(* The inductive invariant                                                 *)
(***************************************************************************)
Stages == {"waiting", "listed", "subclass", "implementation", "done"}
TablesType ==
  /\ archive \in Archives
  /\ DOMAIN stage = Files /\ DOMAIN subclasses = Files /\ DOMAIN implementers = Files
  /\ \A f \in Files : stage[f] \in [Table(f) -> Stages]

\* A class without members takes the shorter way, and an interface among them one step more.
OnTheirWay ==
  \A f \in Files : \A c \in Table(f) :
    /\ Definition(f, c).members => stage[f][c] # "listed"
    /\ ~Definition(f, c).members => stage[f][c] \in {"waiting", "listed", "done"}
    /\ stage[f][c] = "listed" => Definition(f, c).interface

\* Classes of f that extend or implement what is called n, and are past the change of the table.
Extending(f, n) ==
  {c \in Table(f) : /\ Definition(f, c).members /\ ClassName(f, Definition(f, c).super) = n
                    /\ stage[f][c] \in {"subclass", "implementation", "done"}}
Implementing(f, n) ==
  {c \in Table(f) : /\ Definition(f, c).members
                    /\ n \in {ClassName(f, i) : i \in Range(Definition(f, c).interfaces)}
                    /\ stage[f][c] \in {"implementation", "done"}}
NamesOf(f, some) == {Definition(f, c).name : c \in some}
IsMarker(f, n) ==
  \E c \in Table(f) : LET d == Definition(f, c) IN d.interface /\ ~d.members /\ ClassName(f, d.name) = n

\* All that anything may be called.
Texts == UNION {Range(archive.files[f].strings) : f \in Files}
SubclassesKept == \A f \in Files : \A n \in Texts : Entry(subclasses[f], n) = NamesOf(f, Extending(f, n))
ImplementersKept ==
  \A f \in Files : \A n \in Texts :
    /\ Entry(implementers[f], n) \subseteq NamesOf(f, Implementing(f, n))
    /\ ~IsMarker(f, n) => NamesOf(f, Implementing(f, n)) \subseteq Entry(implementers[f], n)

LoadedWhenDone == app # <<>> => \A f \in Files : \A c \in Table(f) : stage[f][c] = "done"

TablesInv == TablesType /\ OnTheirWay /\ SubclassesKept /\ ImplementersKept /\ LoadedWhenDone

(***************************************************************************)
(* Tables                                                                  *)
(***************************************************************************)
\* What a table holds for a name after others were added: entry().or_default().push().
LEMMA EntryOfListed ==
  ASSUME NEW table, NEW names, NEW some, NEW n
  PROVE  Entry(Listed(table, names, some), n) = Entry(table, n) \cup IF n \in names THEN some ELSE {}
BY DEF Entry, Listed

\* A class's own list of subclasses begins empty and changes nothing that is found.
LEMMA EntryOfExtended ==
  ASSUME NEW table, NEW own, NEW super, NEW member, NEW n
  PROVE  Entry(Extended(table, own, super, member), n) = Entry(table, n) \cup IF n = super THEN {member} ELSE {}
<1>1. Entry(Listed(table, {own}, {}), n) = Entry(table, n)
  BY DEF Entry, Listed
<1>2. Entry(Listed(Listed(table, {own}, {}), {super}, {member}), n)
        = Entry(Listed(table, {own}, {}), n) \cup IF n \in {super} THEN {member} ELSE {}
  BY EntryOfListed
<1>. QED  BY <1>1, <1>2 DEF Extended

\* What a file says stays as it is.
LEMMA FilesStay ==
  ASSUME UNCHANGED archive
  PROVE  /\ Files' = Files /\ Texts' = Texts
         /\ \A f : Table(f)' = Table(f)
         /\ \A f, c : Definition(f, c)' = Definition(f, c)
         /\ \A f, n : ClassName(f, n)' = ClassName(f, n)
         /\ \A f, n : IsMarker(f, n)' = IsMarker(f, n)
BY DEF Files, Table, Definition, ClassName, Texts, IsMarker

\* A step of a worker changes the stage of its class alone.
LEMMA StageStep ==
  ASSUME TablesType, UNCHANGED archive, NEW f \in Files, NEW c \in Table(f), NEW s \in Stages, Becomes(f, c, s)
  PROVE  /\ DOMAIN stage' = Files
         /\ \A g \in Files : stage'[g] \in [Table(g) -> Stages]
         /\ stage'[f][c] = s
         /\ \A g \in Files : \A d \in Table(g) : <<g, d>> # <<f, c>> => stage'[g][d] = stage[g][d]
BY DEF TablesType, Becomes

\* Where no class passes the change of a table, and the table stays, it holds what it should.
LEMMA SubclassesStay ==
  ASSUME SubclassesKept, UNCHANGED <<archive, subclasses>>,
         \A f \in Files : \A n : Extending(f, n)' = Extending(f, n)
  PROVE  SubclassesKept'
<1>. SUFFICES ASSUME NEW f \in Files, NEW n \in Texts
              PROVE  Entry(subclasses[f], n)' = NamesOf(f, Extending(f, n))'
  BY FilesStay DEF SubclassesKept
<1>1. NamesOf(f, Extending(f, n))' = NamesOf(f, Extending(f, n))
  BY FilesStay DEF NamesOf
<1>2. Entry(subclasses[f], n)' = Entry(subclasses[f], n)
  BY DEF Entry
<1>. QED  BY <1>1, <1>2 DEF SubclassesKept

\* The same of the table of implementations.
LEMMA ImplementersStay ==
  ASSUME ImplementersKept, UNCHANGED <<archive, implementers>>,
         \A f \in Files : \A n : Implementing(f, n)' = Implementing(f, n)
  PROVE  ImplementersKept'
<1>. SUFFICES ASSUME NEW f \in Files, NEW n \in Texts
              PROVE  /\ Entry(implementers[f], n)' \subseteq NamesOf(f, Implementing(f, n))'
                     /\ ~IsMarker(f, n) => NamesOf(f, Implementing(f, n))' \subseteq Entry(implementers[f], n)'
  BY FilesStay DEF ImplementersKept
<1>1. NamesOf(f, Implementing(f, n))' = NamesOf(f, Implementing(f, n))
  BY FilesStay DEF NamesOf
<1>2. Entry(implementers[f], n)' = Entry(implementers[f], n)
  BY DEF Entry
<1>. QED  BY <1>1, <1>2 DEF ImplementersKept

\* Nothing is to be done once the app is there.
LEMMA WorkBeforeLoad ==
  ASSUME TablesInv, UNCHANGED <<archive, app>>, NEW f \in Files, NEW c \in Table(f), stage[f][c] # "done"
  PROVE  LoadedWhenDone'
BY DEF TablesInv, LoadedWhenDone

(***************************************************************************)
(* The steps of a worker                                                   *)
(***************************************************************************)
\* A class with neither superclass nor interfaces to list changes no table.
LEMMA ListBareKeeps ==
  ASSUME TablesInv, NEW f \in Files, NEW c \in Table(f), ListBare(f, c)
  PROVE  TablesInv'
<1>. DEFINE s == IF Definition(f, c).interface THEN "listed" ELSE "done"
<1>1. /\ TablesType /\ Becomes(f, c, s) /\ s \in Stages /\ s \in {"listed", "done"}
      /\ stage[f][c] = "waiting" /\ ~Definition(f, c).members /\ (s = "listed" => Definition(f, c).interface)
      /\ UNCHANGED <<archive, subclasses, implementers, app>>
  BY DEF TablesInv, ListBare, MayTake, At, Stages
<1>. HIDE DEF s
<1>2. /\ DOMAIN stage' = Files /\ \A g \in Files : stage'[g] \in [Table(g) -> Stages]
      /\ stage'[f][c] = s
      /\ \A g \in Files : \A d \in Table(g) : <<g, d>> # <<f, c>> => stage'[g][d] = stage[g][d]
  BY <1>1, StageStep
<1>3. TablesType'
  BY <1>1, <1>2, FilesStay DEF TablesType
<1>4. OnTheirWay'
  BY <1>1, <1>2, FilesStay DEF TablesInv, OnTheirWay
<1>5. SubclassesKept'
  <2>1. \A g \in Files : \A n : Extending(g, n)' = Extending(g, n)
    BY <1>1, <1>2, FilesStay DEF Extending
  <2>. QED  BY <1>1, <2>1, SubclassesStay DEF TablesInv
<1>6. ImplementersKept'
  <2>1. \A g \in Files : \A n : Implementing(g, n)' = Implementing(g, n)
    BY <1>1, <1>2, FilesStay DEF Implementing
  <2>. QED  BY <1>1, <2>1, ImplementersStay DEF TablesInv
<1>7. LoadedWhenDone'
  BY <1>1, WorkBeforeLoad
<1>. QED  BY <1>3, <1>4, <1>5, <1>6, <1>7 DEF TablesInv

\* The list that is begun anew is that of a marker, which may lose what it held.
LEMMA BeginImplementationsKeeps ==
  ASSUME TablesInv, NEW f \in Files, NEW c \in Table(f), BeginImplementations(f, c)
  PROVE  TablesInv'
<1>. DEFINE own == ClassName(f, Definition(f, c).name)
<1>1. /\ TablesType /\ Becomes(f, c, "done") /\ "done" \in Stages
      /\ stage[f][c] = "listed" /\ ~Definition(f, c).members /\ Definition(f, c).interface
      /\ UNCHANGED <<archive, subclasses, app>>
  BY DEF TablesInv, BeginImplementations, At, Stages, OnTheirWay
<1>2. /\ DOMAIN stage' = Files /\ \A g \in Files : stage'[g] \in [Table(g) -> Stages]
      /\ stage'[f][c] = "done"
      /\ \A g \in Files : \A d \in Table(g) : <<g, d>> # <<f, c>> => stage'[g][d] = stage[g][d]
  BY <1>1, StageStep
<1>3. TablesType'
  BY <1>1, <1>2, FilesStay DEF TablesType, BeginImplementations
<1>4. OnTheirWay'
  BY <1>1, <1>2, FilesStay DEF TablesInv, OnTheirWay
<1>5. SubclassesKept'
  <2>1. \A g \in Files : \A n : Extending(g, n)' = Extending(g, n)
    BY <1>1, <1>2, FilesStay DEF Extending
  <2>. QED  BY <1>1, <2>1, SubclassesStay DEF TablesInv
<1>6. ImplementersKept'
  <2>. SUFFICES ASSUME NEW g \in Files, NEW n \in Texts
                PROVE  /\ Entry(implementers'[g], n) \subseteq NamesOf(g, Implementing(g, n))
                       /\ ~IsMarker(g, n) => NamesOf(g, Implementing(g, n)) \subseteq Entry(implementers'[g], n)
    <3>1. \A g \in Files : \A n : NamesOf(g, Implementing(g, n))' = NamesOf(g, Implementing(g, n))
      BY <1>1, <1>2, FilesStay DEF Implementing, NamesOf
    <3>. QED  BY <1>1, <3>1, FilesStay DEF ImplementersKept, Entry
  <2>1. CASE g = f /\ n = own
    <3>1. Entry(implementers'[f], own) = {}
      BY <1>1 DEF BeginImplementations, TablesType, Entry
    <3>2. IsMarker(f, own)
      BY <1>1 DEF IsMarker
    <3>. QED  BY <2>1, <3>1, <3>2
  <2>2. CASE ~(g = f /\ n = own)
    <3>1. Entry(implementers'[g], n) = Entry(implementers[g], n)
      BY <1>1, <2>2 DEF BeginImplementations, TablesType, Entry
    <3>. QED  BY <3>1 DEF TablesInv, ImplementersKept
  <2>. QED  BY <2>1, <2>2
<1>7. LoadedWhenDone'
  BY <1>1, WorkBeforeLoad
<1>. QED  BY <1>3, <1>4, <1>5, <1>6, <1>7 DEF TablesInv

\* A class is added to the subclasses of its superclass; no other entry loses one.
LEMMA ListSubclassKeeps ==
  ASSUME TablesInv, NEW f \in Files, NEW c \in Table(f), ListSubclass(f, c)
  PROVE  TablesInv'
<1>. DEFINE d == Definition(f, c)
            super == ClassName(f, d.super)
<1>1. /\ TablesType /\ Becomes(f, c, "subclass") /\ "subclass" \in Stages
      /\ stage[f][c] = "waiting" /\ d.members
      /\ UNCHANGED <<archive, classes, implementers, app>>
      /\ subclasses' = [subclasses EXCEPT ![f] = Extended(@, ClassName(f, d.name), super, d.name)]
  BY DEF TablesInv, ListSubclass, MayTake, At, Stages
<1>2. /\ DOMAIN stage' = Files /\ \A g \in Files : stage'[g] \in [Table(g) -> Stages]
      /\ stage'[f][c] = "subclass"
      /\ \A g \in Files : \A b \in Table(g) : <<g, b>> # <<f, c>> => stage'[g][b] = stage[g][b]
  BY <1>1, StageStep
<1>3. TablesType'
  BY <1>1, <1>2, FilesStay DEF TablesType
<1>4. OnTheirWay'
  BY <1>1, <1>2, FilesStay DEF TablesInv, OnTheirWay
<1>5. SubclassesKept'
  <2>. SUFFICES ASSUME NEW g \in Files, NEW n \in Texts
                PROVE  Entry(subclasses'[g], n) = NamesOf(g, Extending(g, n)')
    BY <1>1, FilesStay DEF SubclassesKept, NamesOf, Entry
  <2>1. CASE g # f
    <3>1. Extending(g, n)' = Extending(g, n)
      BY <1>1, <1>2, <2>1, FilesStay DEF Extending
    <3>2. subclasses'[g] = subclasses[g]
      BY <1>1, <2>1 DEF TablesType
    <3>. QED  BY <3>1, <3>2 DEF TablesInv, SubclassesKept
  <2>2. CASE g = f
    <3>1. subclasses'[f] = Extended(subclasses[f], ClassName(f, d.name), super, d.name)
      BY <1>1 DEF TablesType
    <3>2. Entry(subclasses'[f], n) = Entry(subclasses[f], n) \cup IF n = super THEN {d.name} ELSE {}
      BY <3>1, EntryOfExtended
    <3>3. Extending(f, n)' = Extending(f, n) \cup IF n = super THEN {c} ELSE {}
      BY <1>1, <1>2, FilesStay DEF Extending
    <3>4. NamesOf(f, Extending(f, n)') = NamesOf(f, Extending(f, n)) \cup IF n = super THEN {d.name} ELSE {}
      BY <3>3 DEF NamesOf
    <3>. QED  BY <2>2, <3>2, <3>4 DEF TablesInv, SubclassesKept
  <2>. QED  BY <2>1, <2>2
<1>6. ImplementersKept'
  <2>1. \A g \in Files : \A n : Implementing(g, n)' = Implementing(g, n)
    BY <1>1, <1>2, FilesStay DEF Implementing
  <2>. QED  BY <1>1, <2>1, ImplementersStay DEF TablesInv
<1>7. LoadedWhenDone'
  BY <1>1, WorkBeforeLoad
<1>. QED  BY <1>3, <1>4, <1>5, <1>6, <1>7 DEF TablesInv

\* A class is added to the implementations of one of its interfaces.
LEMMA ListImplementationKeeps ==
  ASSUME TablesInv, NEW f \in Files, NEW c \in Table(f), ListImplementation(f, c)
  PROVE  TablesInv'
<1>. DEFINE d == Definition(f, c)
            faces == {ClassName(f, i) : i \in Range(d.interfaces)}
<1>1. /\ TablesType /\ Becomes(f, c, "implementation") /\ "implementation" \in Stages
      /\ stage[f][c] = "subclass" /\ d.members
      /\ UNCHANGED <<archive, classes, subclasses, app>>
      /\ implementers' = [implementers EXCEPT ![f] = Listed(@, faces, {d.name})]
  BY DEF TablesInv, ListImplementation, At, Stages, OnTheirWay
<1>2. /\ DOMAIN stage' = Files /\ \A g \in Files : stage'[g] \in [Table(g) -> Stages]
      /\ stage'[f][c] = "implementation"
      /\ \A g \in Files : \A b \in Table(g) : <<g, b>> # <<f, c>> => stage'[g][b] = stage[g][b]
  BY <1>1, StageStep
<1>3. TablesType'
  BY <1>1, <1>2, FilesStay DEF TablesType
<1>4. OnTheirWay'
  BY <1>1, <1>2, FilesStay DEF TablesInv, OnTheirWay
<1>5. SubclassesKept'
  <2>1. \A g \in Files : \A n : Extending(g, n)' = Extending(g, n)
    BY <1>1, <1>2, FilesStay DEF Extending
  <2>. QED  BY <1>1, <2>1, SubclassesStay DEF TablesInv
<1>6. ImplementersKept'
  <2>. SUFFICES ASSUME NEW g \in Files, NEW n \in Texts
                PROVE  /\ Entry(implementers[g], n)' \subseteq NamesOf(g, Implementing(g, n))'
                       /\ ~IsMarker(g, n) => NamesOf(g, Implementing(g, n))' \subseteq Entry(implementers[g], n)'
    BY <1>1, FilesStay DEF ImplementersKept
  <2>. /\ NamesOf(g, Implementing(g, n))' = NamesOf(g, Implementing(g, n)')
       /\ Entry(implementers[g], n)' = Entry(implementers'[g], n)
    BY <1>1, FilesStay DEF NamesOf, Entry
  <2>1. CASE g # f
    <3>1. Implementing(g, n)' = Implementing(g, n)
      BY <1>1, <1>2, <2>1, FilesStay DEF Implementing
    <3>2. implementers'[g] = implementers[g]
      BY <1>1, <2>1 DEF TablesType
    <3>. QED  BY <3>1, <3>2 DEF TablesInv, ImplementersKept
  <2>2. CASE g = f
    <3>1. implementers'[f] = Listed(implementers[f], faces, {d.name})
      BY <1>1 DEF TablesType
    <3>2. Entry(implementers'[f], n) = Entry(implementers[f], n) \cup IF n \in faces THEN {d.name} ELSE {}
      BY <3>1, EntryOfListed
    <3>3. Implementing(f, n)' = Implementing(f, n) \cup IF n \in faces THEN {c} ELSE {}
      BY <1>1, <1>2, FilesStay DEF Implementing
    <3>4. NamesOf(f, Implementing(f, n)')
            = NamesOf(f, Implementing(f, n)) \cup IF n \in faces THEN {d.name} ELSE {}
      BY <3>3 DEF NamesOf
    <3>. QED  BY <2>2, <3>2, <3>4 DEF TablesInv, ImplementersKept
  <2>. QED  BY <2>1, <2>2
<1>7. LoadedWhenDone'
  BY <1>1, WorkBeforeLoad
<1>. QED  BY <1>3, <1>4, <1>5, <1>6, <1>7 DEF TablesInv

\* The class itself is listed last, when its relatives are in the tables.
LEMMA ListClassKeeps ==
  ASSUME TablesInv, NEW f \in Files, NEW c \in Table(f), ListClass(f, c)
  PROVE  TablesInv'
<1>1. /\ TablesType /\ Becomes(f, c, "done") /\ "done" \in Stages
      /\ stage[f][c] = "implementation" /\ Definition(f, c).members
      /\ UNCHANGED <<archive, subclasses, implementers, app>>
  BY DEF TablesInv, ListClass, At, Stages, OnTheirWay
<1>2. /\ DOMAIN stage' = Files /\ \A g \in Files : stage'[g] \in [Table(g) -> Stages]
      /\ stage'[f][c] = "done"
      /\ \A g \in Files : \A b \in Table(g) : <<g, b>> # <<f, c>> => stage'[g][b] = stage[g][b]
  BY <1>1, StageStep
<1>3. TablesType'
  BY <1>1, <1>2, FilesStay DEF TablesType
<1>4. OnTheirWay'
  BY <1>1, <1>2, FilesStay DEF TablesInv, OnTheirWay
<1>5. SubclassesKept'
  <2>1. \A g \in Files : \A n : Extending(g, n)' = Extending(g, n)
    BY <1>1, <1>2, FilesStay DEF Extending
  <2>. QED  BY <1>1, <2>1, SubclassesStay DEF TablesInv
<1>6. ImplementersKept'
  <2>1. \A g \in Files : \A n : Implementing(g, n)' = Implementing(g, n)
    BY <1>1, <1>2, FilesStay DEF Implementing
  <2>. QED  BY <1>1, <2>1, ImplementersStay DEF TablesInv
<1>7. LoadedWhenDone'
  BY <1>1, WorkBeforeLoad
<1>. QED  BY <1>3, <1>4, <1>5, <1>6, <1>7 DEF TablesInv

(***************************************************************************)
(* All steps                                                               *)
(***************************************************************************)
\* The steps that touch no table.
LEMMA TablesRemain ==
  ASSUME TablesInv, UNCHANGED <<archive, stage, subclasses, implementers>>,
         app' = app \/ (\A f \in Files : \A c \in Table(f) : At(f, c, "done"))
  PROVE  TablesInv'
<1>1. TablesType' /\ OnTheirWay' /\ LoadedWhenDone'
  BY FilesStay DEF TablesInv, TablesType, OnTheirWay, LoadedWhenDone, At
<1>2. SubclassesKept'
  <2>1. \A f \in Files : \A n : Extending(f, n)' = Extending(f, n)
    BY FilesStay DEF Extending
  <2>. QED  BY <2>1, SubclassesStay DEF TablesInv
<1>3. ImplementersKept'
  <2>1. \A f \in Files : \A n : Implementing(f, n)' = Implementing(f, n)
    BY FilesStay DEF Implementing
  <2>. QED  BY <2>1, ImplementersStay DEF TablesInv
<1>. QED  BY <1>1, <1>2, <1>3 DEF TablesInv

\* The tables are empty when no class has been read.
LEMMA TablesBegin == Init => TablesInv
<1>. SUFFICES ASSUME LoadInit PROVE TablesInv
  BY DEF Init
<1>1. TablesType /\ OnTheirWay /\ LoadedWhenDone
  BY DEF LoadInit, TablesType, OnTheirWay, LoadedWhenDone, Stages
<1>2. \A f \in Files : \A n : Entry(subclasses[f], n) = {} /\ Entry(implementers[f], n) = {}
  BY DEF LoadInit, Entry
<1>3. \A f \in Files : \A n : Extending(f, n) = {} /\ Implementing(f, n) = {}
  BY DEF LoadInit, Extending, Implementing
<1>. QED  BY <1>1, <1>2, <1>3 DEF TablesInv, SubclassesKept, ImplementersKept, NamesOf

\* Every step keeps the invariant, by the worker's step it is.
LEMMA TablesStep == TablesInv /\ [Next]_vars => TablesInv'
<1>. SUFFICES ASSUME TablesInv, [Next]_vars PROVE TablesInv'
  OBVIOUS
<1>1. CASE LoadNext
  <2>1. CASE Load
    BY <2>1, TablesRemain DEF Load
  <2>2. ASSUME NEW f \in Files, NEW c \in Table(f), Work(f, c)
        PROVE  TablesInv'
    BY <2>2, ListBareKeeps, BeginImplementationsKeeps, ListSubclassKeeps, ListImplementationKeeps,
       ListClassKeeps DEF Work
  <2>. QED  BY <1>1, <2>1, <2>2 DEF LoadNext
<1>2. CASE UNCHANGED loadVars
  BY <1>2, TablesRemain DEF loadVars
<1>. QED  BY <1>1, <1>2 DEF Next, vars

(***************************************************************************)
(* The theorem                                                             *)
(***************************************************************************)
\* An index that is cut is one of the same file, and the same if it is in reach.
LEMMA CutIndex ==
  ASSUME NEW i \in Nat \ {0}
  PROVE  /\ ((i - 1) % NameLimit) + 1 \in 1 .. i
         /\ i <= NameLimit => ((i - 1) % NameLimit) + 1 = i
<1>. DEFINE a == i - 1
<1>1. a \in Nat /\ NameLimit \in Nat \ {0}
  BY NameLimitAssumption
<1>2. \A x \in Nat, y \in Nat \ {0} : x % y \in Nat /\ x % y < y
  OBVIOUS
<1>3. \A x \in Nat, y \in Nat \ {0} : x < y => x % y = x
  OBVIOUS
<1>4. a % NameLimit \in Nat /\ a % NameLimit <= a /\ (a < NameLimit => a % NameLimit = a)
  <2>. HIDE DEF a
  <2>. QED  BY <1>1, <1>2, <1>3
<1>. QED  BY <1>1, <1>4

\* A type is called by a string of its file, and by its own name if that is in reach.
LEMMA CalledIs ==
  ASSUME NEW g, IsList(g.strings), NEW t \in Range(g.types), t \in Range(g.strings)
  PROVE  /\ Called(g, t) \in Range(g.strings)
         /\ InReach(g) => Called(g, t) = t
<1>1. DOMAIN g.strings = 1 .. Len(g.strings) /\ Len(g.strings) \in Nat
  BY DEF IsList
<1>2. PICK i \in DOMAIN g.strings : i = StringIndex(g, t) /\ g.strings[i] = t
  BY DEF StringIndex, Range
<1>3. i \in Nat \ {0} /\ i <= Len(g.strings)
  BY <1>1, <1>2
<1>4. PICK j : /\ j = ((i - 1) % NameLimit) + 1 /\ j \in 1 .. i
               /\ i <= NameLimit => j = i
  BY <1>3, CutIndex
<1>5. Called(g, t) = g.strings[j] /\ j \in DOMAIN g.strings
  <2>1. Called(g, t) = g.strings[((i - 1) % NameLimit) + 1]
    BY <1>2 DEF Called
  <2>. QED  BY <2>1, <1>1, <1>3, <1>4
<1>6. InReach(g) => i <= NameLimit
  BY <1>2 DEF InReach
<1>. QED  BY <1>2, <1>4, <1>5, <1>6 DEF Range

LEMMA ClassNameIs ==
  ASSUME archive \in Archives, NEW f \in Files, NEW t \in Range(archive.files[f].types)
  PROVE  /\ ClassName(f, t) \in Texts
         /\ t \in Texts
         /\ InReach(archive.files[f]) => ClassName(f, t) = t
<1>. DEFINE g == archive.files[f]
<1>1. g \in Range(archive.files)
  BY DEF Files, Range
<1>2. FileNamesItsOwn(g) /\ ListsAreLists(g)
  BY <1>1, ArchivesAssumption
<1>3. t \in Range(g.strings) /\ IsList(g.strings)
  BY <1>2 DEF FileNamesItsOwn, ListsAreLists, FileLists
<1>4. Called(g, t) \in Range(g.strings) /\ (InReach(g) => Called(g, t) = t)
  BY <1>3, CalledIs
<1>. QED  BY <1>3, <1>4 DEF Texts, ClassName

\* What a class of a file names are types of the file.
LEMMA ClassTypes ==
  ASSUME archive \in Archives, NEW f \in Files, NEW c \in Table(f)
  PROVE  LET d == Definition(f, c)
         IN {d.name, d.super} \cup Range(d.interfaces) \subseteq Range(archive.files[f].types)
<1>1. archive.files[f] \in Range(archive.files) /\ Definition(f, c) \in Range(archive.files[f].classes)
  BY DEF Files, Table, Definition, Range
<1>2. FileNamesItsOwn(archive.files[f])
  BY <1>1, ArchivesAssumption
<1>. QED  BY <1>1, <1>2 DEF FileNamesItsOwn

\* What is asked of the file a class is in.
LEMMA OwnSubclasses ==
  ASSUME TablesInv, app # <<>>, NEW d \in Defined, NEW s \in SubclassesOf(d[2].name), s[1] = d[1]
  PROVE  s \in GetSubclasses(ClassName(d[1], d[2].name))
<1>1. PICK f \in Files : \E b \in Table(f) : d = <<f, Definition(f, b)>>
  BY DEF Defined
<1>2. PICK e \in Defined : e[2].members /\ e[2].super = d[2].name /\ s = <<e[1], e[2].name>>
  BY DEF SubclassesOf
<1>3. PICK g \in Files : \E b \in Table(g) : e = <<g, Definition(g, b)>>
  BY DEF Defined
<1>4. PICK c \in Table(f) :
        /\ Definition(f, c).members /\ Definition(f, c).super = d[2].name
        /\ s = <<f, Definition(f, c).name>>
  BY <1>1, <1>2, <1>3
<1>5. PICK n : n = ClassName(f, d[2].name)
  OBVIOUS
<1>6. n \in Texts
  BY <1>1, <1>5, ClassTypes, ClassNameIs DEF TablesInv, TablesType
<1>7. c \in Extending(f, n)
  BY <1>3, <1>4, <1>5 DEF TablesInv, LoadedWhenDone, Extending
<1>8. Definition(f, c).name \in Entry(subclasses[f], n)
  BY <1>6, <1>7 DEF TablesInv, SubclassesKept, NamesOf
<1>9. s \in GetSubclasses(n)
  BY <1>4, <1>8 DEF GetSubclasses
<1>. QED  BY <1>1, <1>5, <1>9

\* At the end every class is past the changes of its tables: what they hold is all there is, and
\* names in reach are what classes are called.
LEMMA TablesAreAll == TablesInv => RelativesAreAll
<1>. SUFFICES ASSUME TablesInv, app # <<>>, \A f \in Files : InReach(archive.files[f]), NEW name \in Names
              PROVE  /\ GetSubclasses(name) = SubclassesOf(name)
                     /\ GetImplementations(name) \subseteq ImplementationsOf(name)
                     /\ \A i \in ImplementationsOf(name) : i[1] \notin Markers(name) => i \in GetImplementations(name)
  BY OwnSubclasses DEF RelativesAreAll
<1>0. archive \in Archives
  BY DEF TablesInv, TablesType
<1>a. \A f \in Files : \A t \in Range(archive.files[f].types) : ClassName(f, t) = t /\ t \in Texts
  BY <1>0, ClassNameIs
<1>b. \A f \in Files : \A c \in Table(f) :
        /\ ClassName(f, Definition(f, c).name) = Definition(f, c).name
        /\ ClassName(f, Definition(f, c).super) = Definition(f, c).super
        /\ \A i \in Range(Definition(f, c).interfaces) : ClassName(f, i) = i
        /\ {Definition(f, c).name, Definition(f, c).super} \cup Range(Definition(f, c).interfaces) \subseteq Texts
  <2>. SUFFICES ASSUME NEW f \in Files, NEW c \in Table(f), NEW t,
                       t \in {Definition(f, c).name, Definition(f, c).super} \cup Range(Definition(f, c).interfaces)
                PROVE  ClassName(f, t) = t /\ t \in Texts
    OBVIOUS
  <2>. QED  BY <1>0, <1>a, ClassTypes
<1>c. name \in Texts
  <2>1. PICK d \in Defined : name \in {d[2].name, d[2].super} \cup Range(d[2].interfaces)
    BY DEF Names
  <2>2. PICK f \in Files : \E c \in Table(f) : d = <<f, Definition(f, c)>>
    BY DEF Defined
  <2>. QED  BY <1>b, <2>1, <2>2
<1>1. \A f \in Files :
        /\ Extending(f, name) = {c \in Table(f) : Definition(f, c).members /\ Definition(f, c).super = name}
        /\ Implementing(f, name) = {c \in Table(f) : Definition(f, c).members /\ name \in Range(Definition(f, c).interfaces)}
  <2>. SUFFICES ASSUME NEW f \in Files, NEW c \in Table(f)
                PROVE  /\ ClassName(f, Definition(f, c).super) = name <=> Definition(f, c).super = name
                       /\ name \in {ClassName(f, i) : i \in Range(Definition(f, c).interfaces)}
                            <=> name \in Range(Definition(f, c).interfaces)
                       /\ stage[f][c] = "done"
    BY DEF Extending, Implementing
  <2>. QED  BY <1>b DEF TablesInv, LoadedWhenDone
<1>d. \A f \in Files : IsMarker(f, name) => f \in Markers(name)
  <2>. SUFFICES ASSUME NEW f \in Files, NEW c \in Table(f), Definition(f, c).interface, ~Definition(f, c).members,
                       ClassName(f, Definition(f, c).name) = name
                PROVE  f \in Markers(name)
    BY DEF IsMarker
  <2>1. <<f, Definition(f, c)>> \in Defined
    BY DEF Defined
  <2>. QED  BY <1>b, <2>1 DEF Markers
<1>2. SubclassesOf(name) = UNION {{f} \X NamesOf(f, Extending(f, name)) : f \in Files}
  <2>1. ASSUME NEW f \in Files, NEW c \in Table(f), Definition(f, c).members, Definition(f, c).super = name
        PROVE  <<f, Definition(f, c).name>> \in SubclassesOf(name)
    <3>1. <<f, Definition(f, c)>> \in Defined
      BY DEF Defined
    <3>. QED  BY <2>1, <3>1 DEF SubclassesOf
  <2>2. ASSUME NEW p \in SubclassesOf(name)
        PROVE  \E f \in Files : \E c \in Extending(f, name) : p = <<f, Definition(f, c).name>>
    <3>1. PICK d \in Defined : d[2].members /\ d[2].super = name /\ p = <<d[1], d[2].name>>
      BY <2>2 DEF SubclassesOf
    <3>2. PICK f \in Files : \E c \in Table(f) : d = <<f, Definition(f, c)>>
      BY DEF Defined
    <3>. QED  BY <1>1, <3>1, <3>2
  <2>. QED  BY <1>1, <2>1, <2>2 DEF NamesOf
<1>3. ImplementationsOf(name) = UNION {{f} \X NamesOf(f, Implementing(f, name)) : f \in Files}
  <2>1. ASSUME NEW f \in Files, NEW c \in Table(f), Definition(f, c).members,
               name \in Range(Definition(f, c).interfaces)
        PROVE  <<f, Definition(f, c).name>> \in ImplementationsOf(name)
    <3>1. <<f, Definition(f, c)>> \in Defined
      BY DEF Defined
    <3>. QED  BY <2>1, <3>1 DEF ImplementationsOf
  <2>2. ASSUME NEW p \in ImplementationsOf(name)
        PROVE  \E f \in Files : \E c \in Implementing(f, name) : p = <<f, Definition(f, c).name>>
    <3>1. PICK d \in Defined : d[2].members /\ name \in Range(d[2].interfaces) /\ p = <<d[1], d[2].name>>
      BY <2>2 DEF ImplementationsOf
    <3>2. PICK f \in Files : \E c \in Table(f) : d = <<f, Definition(f, c)>>
      BY DEF Defined
    <3>. QED  BY <1>1, <3>1, <3>2
  <2>. QED  BY <1>1, <2>1, <2>2 DEF NamesOf
<1>4. GetSubclasses(name) = SubclassesOf(name)
  BY <1>2, <1>c DEF GetSubclasses, TablesInv, SubclassesKept
<1>5. GetImplementations(name) \subseteq ImplementationsOf(name)
  BY <1>3, <1>c DEF GetImplementations, TablesInv, ImplementersKept
<1>6. ASSUME NEW i \in ImplementationsOf(name), i[1] \notin Markers(name)
      PROVE  i \in GetImplementations(name)
  BY <1>3, <1>6, <1>c, <1>d DEF GetImplementations, TablesInv, ImplementersKept
<1>. QED  BY <1>4, <1>5, <1>6

\* In whatever order the workers come to the classes, and whatever the graph builder does then,
\* the tables of a loaded app know the subclasses of a class, and where no name is beyond the
\* cut index, all relatives in all files but the implementations of a marker.
THEOREM RelativesAreAllAlways == Spec => []RelativesAreAll
<1>1. Spec => []TablesInv
  BY TablesBegin, TablesStep, PTL DEF Spec
<1>. QED  BY <1>1, TablesAreAll, PTL

-----------------------------------------------------------------------------
(* The files of a loaded app: as the archive has them, but that a class    *)
(* without members has lost its interfaces, and in some other order.       *)

ListedAs(d, e) == d = e \/ d = [e EXCEPT !.interfaces = <<>>]

WholeCode(code, name, g) ==
  /\ <<name, code.sig>> \in Range(g.methods) /\ IsList(code.finds)
  /\ \A i \in DOMAIN code.finds :
       /\ code.finds[i].kind \in FindKinds
       /\ code.finds[i].kind \in {"get", "put", "field_set"} => code.finds[i].name \in Range(g.fields)
WholeClass(c, g) ==
  /\ c.name # Object /\ {c.name} \cup Range(c.interfaces) \subseteq Range(g.types)
  /\ IsList(c.interfaces) /\ IsList(c.codes)
  /\ \A k \in DOMAIN c.codes : WholeCode(c.codes[k], c.name, g)
WholeFile(g) ==
  /\ \A sort \in FileLists : IsList(g[sort])
  /\ Range(g.types) \subseteq Range(g.strings)
  /\ \A k \in DOMAIN g.classes : WholeClass(g.classes[k], g)
  /\ \A j, k \in DOMAIN g.classes : g.classes[j].name = g.classes[k].name => j = k

ListedStages == {"listed", "done"}
ClassList(f) ==
  /\ IsList(classes[f])
  /\ \A k \in DOMAIN classes[f] : \E c \in Table(f) :
       ListedAs(classes[f][k], Definition(f, c)) /\ stage[f][c] \in ListedStages
  /\ \A j, k \in DOMAIN classes[f] : classes[f][j].name = classes[f][k].name => j = k
ClassesInv == archive \in Archives /\ DOMAIN classes = Files /\ \A f \in Files : ClassList(f)
AppInv == IsList(app) /\ \A k \in DOMAIN app : WholeFile(app[k])
LoadInv == TablesInv /\ ClassesInv /\ AppInv

LEMMA ArchiveFile ==
  ASSUME archive \in Archives, NEW f \in Files
  PROVE  LET g == archive.files[f]
         IN /\ g \in Range(archive.files) /\ ListsAreLists(g) /\ FileNamesItsOwn(g) /\ ClassesAreDefinedOnce(g)
            /\ f \in DOMAIN archive.files
<1>1. f \in DOMAIN archive.files
  BY DEF Files
<1>2. archive.files[f] \in Range(archive.files)
  BY <1>1 DEF Range
<1>. QED  BY <1>1, <1>2, ArchivesAssumption

LEMMA ListedName ==
  ASSUME archive \in Archives, NEW f \in Files, NEW c \in Table(f), NEW d, ListedAs(d, Definition(f, c))
  PROVE  d.name = Definition(f, c).name /\ d.codes = Definition(f, c).codes
         /\ d.interfaces \in {<<>>, Definition(f, c).interfaces}
<1>1. PICK e : e = Definition(f, c)
  OBVIOUS
<1>2. DOMAIN e = {"name", "super", "interface", "interfaces", "members", "defaults", "codes"}
  <2>1. e \in Range(archive.files[f].classes)
    BY <1>1 DEF Range, Table, Definition
  <2>. QED  BY <2>1, ArchiveFile DEF ListsAreLists
<1>3. CASE d = [e EXCEPT !.interfaces = <<>>]
  BY <1>1, <1>2, <1>3
<1>. QED  BY <1>1, <1>3 DEF ListedAs

LEMMA ListedWhole ==
  ASSUME archive \in Archives, NEW f \in Files, NEW c \in Table(f), NEW d, ListedAs(d, Definition(f, c))
  PROVE  WholeClass(d, archive.files[f])
<1>1. PICK e : e = Definition(f, c)
  OBVIOUS
<1>2. PICK g : g = archive.files[f]
  OBVIOUS
<1>3. e \in Range(g.classes) /\ g \in Range(archive.files)
      /\ ListsAreLists(g) /\ FileNamesItsOwn(g)
  BY <1>1, <1>2, ArchiveFile DEF Range, Table, Definition
<1>4. IsList(e.interfaces) /\ IsList(e.codes) /\ \A code \in Range(e.codes) : IsList(code.finds)
  BY <1>3 DEF ListsAreLists
<1>5. /\ {e.name} \cup Range(e.interfaces) \subseteq Range(g.types)
      /\ \A k \in DOMAIN e.codes : <<e.name, e.codes[k].sig>> \in Range(g.methods)
  BY <1>3 DEF FileNamesItsOwn
<1>6. /\ e.name # Object
      /\ \A code \in Range(e.codes) : \A x \in Range(code.finds) :
           x.kind \in FindKinds /\ (x.kind \in {"get", "put", "field_set"} => x.name \in Range(g.fields))
  BY <1>3, FindsAssumption
<1>7. ASSUME NEW k \in DOMAIN e.codes PROVE WholeCode(e.codes[k], e.name, g)
  <2>1. e.codes[k] \in Range(e.codes)
    BY DEF Range
  <2>2. \A i \in DOMAIN e.codes[k].finds : e.codes[k].finds[i] \in Range(e.codes[k].finds)
    BY DEF Range
  <2>. QED  BY <1>4, <1>5, <1>6, <2>1, <2>2 DEF WholeCode
<1>8. d.name = e.name /\ d.codes = e.codes /\ d.interfaces \in {<<>>, e.interfaces}
  BY <1>1, ListedName
<1>9. IsList(<<>>) /\ Range(<<>>) = {}
  BY DEF IsList, Range
<1>10. IsList(d.interfaces) /\ Range(d.interfaces) \subseteq Range(g.types)
  BY <1>4, <1>5, <1>8, <1>9
<1>. QED  BY <1>2, <1>4, <1>5, <1>6, <1>7, <1>8, <1>10 DEF WholeClass

LEMMA IsListOf ==
  ASSUME NEW s
  PROVE  IsList(s) <=> IsSequence(s)
BY DEF IsList, IsSequence, Range

LEMMA ListFacts ==
  ASSUME NEW s, IsList(s)
  PROVE  Len(s) \in Nat /\ DOMAIN s = 1 .. Len(s) /\ \A k \in DOMAIN s : s[k] \in Range(s)
<1>1. s \in Seq(Range(s))
  BY DEF IsList
<1>. QED  BY <1>1 DEF Range

LEMMA ListAppend ==
  ASSUME NEW s, IsList(s), NEW x
  PROVE  /\ IsList(Append(s, x)) /\ DOMAIN Append(s, x) = DOMAIN s \cup {Len(s) + 1}
         /\ \A k \in DOMAIN s : Append(s, x)[k] = s[k]
         /\ Append(s, x)[Len(s) + 1] = x /\ Len(s) + 1 \notin DOMAIN s
<1>1. PICK S : S = Range(s) \cup {x}
  OBVIOUS
<1>2. s \in Seq(Range(s)) /\ Range(s) \subseteq S
  BY <1>1 DEF IsList
<1>3. s \in Seq(S) /\ x \in S
  BY <1>1, <1>2, SeqMonotone
<1>4. Append(s, x) \in Seq(S)
  BY <1>3
<1>5. IsList(Append(s, x))
  BY <1>4, OfItsOwn, IsListOf
<1>. QED  BY <1>3, <1>5

LEMMA ClassesStay ==
  ASSUME TablesType, ClassesInv, UNCHANGED <<archive, classes>>, NEW f \in Files, NEW c \in Table(f), NEW s \in Stages,
         Becomes(f, c, s), stage[f][c] \in ListedStages => s \in ListedStages
  PROVE  ClassesInv'
<1>1. /\ \A g \in Files : \A d \in Table(g) :
           stage'[g][d] = IF g = f /\ d = c THEN s ELSE stage[g][d]
  BY StageStep
<1>2. Files' = Files /\ (\A g : Table(g)' = Table(g)) /\ \A g, d : Definition(g, d)' = Definition(g, d)
  BY FilesStay
<1>3. ASSUME NEW g \in Files PROVE ClassList(g)'
  <2>1. ClassList(g)
    BY DEF ClassesInv
  <2>2. ASSUME NEW k \in DOMAIN classes[g]
        PROVE  \E d \in Table(g) : ListedAs(classes[g][k], Definition(g, d)) /\ stage'[g][d] \in ListedStages
    BY <1>1, <2>1 DEF ClassList
  <2>. QED  BY <1>2, <2>1, <2>2 DEF ClassList
<1>. QED  BY <1>2, <1>3 DEF ClassesInv

LEMMA ClassesGrow ==
  ASSUME TablesType, ClassesInv, UNCHANGED archive, NEW f \in Files, NEW c \in Table(f), NEW s \in ListedStages,
         Becomes(f, c, s), stage[f][c] \notin ListedStages,
         NEW d, ListedAs(d, Definition(f, c)), classes' = [classes EXCEPT ![f] = Append(@, d)]
  PROVE  ClassesInv'
<1>1. /\ \A g \in Files : \A e \in Table(g) :
           stage'[g][e] = IF g = f /\ e = c THEN s ELSE stage[g][e]
  BY StageStep DEF ListedStages, Stages
<1>2. Files' = Files /\ (\A g : Table(g)' = Table(g)) /\ \A g, e : Definition(g, e)' = Definition(g, e)
  BY FilesStay
<1>3. ClassList(f)
  BY DEF ClassesInv
<1>4. ClassList(f)'
  <2>1. PICK r : r = classes[f]
    OBVIOUS
  <2>2. PICK t : t = Append(r, d)
    OBVIOUS
  <2>3. classes'[f] = t
    BY <2>1, <2>2 DEF ClassesInv
  <2>4. IsList(r)
    BY <1>3, <2>1 DEF ClassList
  <2>5. /\ IsList(t) /\ DOMAIN t = DOMAIN r \cup {Len(r) + 1} /\ \A k \in DOMAIN r : t[k] = r[k]
        /\ t[Len(r) + 1] = d /\ Len(r) + 1 \notin DOMAIN r
    BY <2>2, <2>4, ListAppend
  <2>6. ASSUME NEW k \in DOMAIN r
        PROVE  \E e \in Table(f) : ListedAs(r[k], Definition(f, e)) /\ stage'[f][e] \in ListedStages
                                   /\ r[k].name # d.name
    <3>1. PICK e \in Table(f) : ListedAs(r[k], Definition(f, e)) /\ stage[f][e] \in ListedStages
      BY <1>3, <2>1 DEF ClassList
    <3>2. e # c /\ stage'[f][e] \in ListedStages
      BY <1>1, <3>1
    <3>3. r[k].name = Definition(f, e).name /\ d.name = Definition(f, c).name
      BY <3>1, ListedName DEF ClassesInv
    <3>4. ClassesAreDefinedOnce(archive.files[f])
      BY ArchiveFile DEF ClassesInv
    <3>5. Definition(f, e).name # Definition(f, c).name
      BY <3>2, <3>4 DEF ClassesAreDefinedOnce, Definition, Table
    <3>. QED  BY <3>1, <3>2, <3>3, <3>5
  <2>7. \A k \in DOMAIN t : \E e \in Table(f) : ListedAs(t[k], Definition(f, e)) /\ stage'[f][e] \in ListedStages
    BY <1>1, <2>5, <2>6
  <2>8. \A j, k \in DOMAIN r : r[j].name = r[k].name => j = k
    BY <1>3, <2>1 DEF ClassList
  <2>9. \A j, k \in DOMAIN t : t[j].name = t[k].name => j = k
    BY <2>5, <2>6, <2>8
  <2>10. \A k \in DOMAIN classes'[f] : \E e \in Table(f)' :
           ListedAs(classes'[f][k], Definition(f, e)') /\ stage'[f][e] \in ListedStages
    <3>1. ASSUME NEW k \in DOMAIN classes'[f]
          PROVE  \E e \in Table(f)' : ListedAs(classes'[f][k], Definition(f, e)') /\ stage'[f][e] \in ListedStages
      <4>1. PICK e \in Table(f) : ListedAs(t[k], Definition(f, e)) /\ stage'[f][e] \in ListedStages
        BY <2>3, <2>7, <3>1
      <4>. QED  BY <1>2, <2>3, <4>1
    <3>. QED  BY <3>1
  <2>11. \A j, k \in DOMAIN classes'[f] : classes'[f][j].name = classes'[f][k].name => j = k
    BY <2>3, <2>9
  <2>. QED  BY <2>3, <2>5, <2>10, <2>11 DEF ClassList
<1>5. ASSUME NEW g \in Files PROVE ClassList(g)'
  <2>1. ClassList(g)
    BY DEF ClassesInv
  <2>2. CASE g # f
    <3>1. classes'[g] = classes[g]
      BY <2>2 DEF ClassesInv
    <3>2. ASSUME NEW k \in DOMAIN classes[g]
          PROVE  \E e \in Table(g) : ListedAs(classes[g][k], Definition(g, e)) /\ stage'[g][e] \in ListedStages
      <4>1. PICK e \in Table(g) : ListedAs(classes[g][k], Definition(g, e)) /\ stage[g][e] \in ListedStages
        BY <2>1, <3>2 DEF ClassList
      <4>. QED  BY <1>1, <2>2, <4>1
    <3>. QED  BY <1>2, <2>1, <3>1, <3>2 DEF ClassList
  <2>. QED  BY <1>4, <2>2
<1>6. DOMAIN classes' = Files
  BY DEF ClassesInv
<1>. QED  BY <1>2, <1>5, <1>6 DEF ClassesInv

LEMMA ParsedWhole ==
  ASSUME ClassesInv, NEW f \in Files
  PROVE  WholeFile(Parsed(f))
<1>1. PICK g : g = archive.files[f]
  OBVIOUS
<1>2. PICK h : h = [g EXCEPT !.classes = classes[f]]
  OBVIOUS
<1>3. Parsed(f) = h
  BY <1>1, <1>2 DEF Parsed
<1>4. archive \in Archives /\ ClassList(f) /\ ListsAreLists(g)
  BY <1>1, ArchiveFile DEF ClassesInv
<1>5. DOMAIN g = {"id", "readable", "types", "fields", "methods", "strings", "classes"}
  BY <1>4 DEF ListsAreLists, FileLists
<1>6. /\ h.types = g.types /\ h.fields = g.fields /\ h.methods = g.methods /\ h.strings = g.strings
      /\ h.classes = classes[f]
  BY <1>2, <1>5
<1>7. \A sort \in FileLists : IsList(h[sort])
  <2>1. IsList(classes[f]) /\ \A sort \in FileLists : IsList(g[sort])
    BY <1>4 DEF ClassList, ListsAreLists
  <2>2. ASSUME NEW sort \in FileLists PROVE h[sort] = IF sort = "classes" THEN classes[f] ELSE g[sort]
    BY <1>2, <1>5, <2>2 DEF FileLists
  <2>. QED  BY <2>1, <2>2
<1>8. ASSUME NEW k \in DOMAIN h.classes PROVE WholeClass(h.classes[k], h)
  <2>1. PICK c \in Table(f) : ListedAs(classes[f][k], Definition(f, c))
    BY <1>4, <1>6, <1>8 DEF ClassList
  <2>2. WholeClass(classes[f][k], g)
    BY <1>1, <1>4, <2>1, ListedWhole
  <2>. QED  BY <1>6, <2>2 DEF WholeClass, WholeCode
<1>9. \A j, k \in DOMAIN h.classes : h.classes[j].name = h.classes[k].name => j = k
  BY <1>4, <1>6 DEF ClassList
<1>10. Range(h.types) \subseteq Range(h.strings)
  <2>1. FileNamesItsOwn(g)
    BY <1>1, <1>4, ArchiveFile
  <2>. QED  BY <1>6, <2>1 DEF FileNamesItsOwn
<1>. QED  BY <1>3, <1>7, <1>8, <1>9, <1>10 DEF WholeFile

LEMMA AppLoads ==
  ASSUME ClassesInv, Load
  PROVE  AppInv'
<1>. DEFINE all  == [k \in DOMAIN archive.files |-> k]
<1>1. archive \in Archives /\ archive.files \in Seq(Range(archive.files))
  BY ArchivesAssumption DEF ClassesInv
<1>2. PICK n \in Nat : DOMAIN archive.files = 1 .. n
  BY <1>1
<1>3. all \in Seq(Nat) /\ DOMAIN all = 1 .. n
  BY <1>2
<1>4. PICK a \in Seq(Nat) : a = all
  BY <1>3
<1>5. PICK u \in Seq(Nat) : u = Sublist(a, Files) /\ \E pos : Picks(u, a, Files, Len(a), pos)
  BY SublistPicks
<1>6. \A k \in DOMAIN u : u[k] \in Files
  <2>1. PICK pos : Picks(u, a, Files, Len(a), pos)
    BY <1>5
  <2>2. DOMAIN a = 1 .. n /\ \A k \in 1 .. n : a[k] = k
    BY <1>2, <1>4
  <2>3. \A k \in DOMAIN u : pos[k] \in Files /\ u[k] = a[pos[k]]
    BY <2>1 DEF Picks
  <2>4. Files \subseteq 1 .. n
    BY <1>2 DEF Files
  <2>. QED  BY <2>2, <2>3, <2>4
<1>7. app' = [k \in DOMAIN u |-> Parsed(u[k])]
  BY <1>4, <1>5 DEF Load
<1>8. PICK m \in Nat : DOMAIN u = 1 .. m
  BY <1>4
<1>9. IsList(app')
  <2>. DEFINE l == [k \in 1 .. m |-> Parsed(u[k])]
              S == {Parsed(u[k]) : k \in 1 .. m}
  <2>1. l \in [1 .. m -> S]
    OBVIOUS
  <2>2. l \in Seq(S)
    BY <2>1, SeqIntro
  <2>3. app' = l
    BY <1>7, <1>8
  <2>. HIDE DEF l, S
  <2>4. IsSequence(l)
    BY <2>2, OfItsOwn
  <2>. QED  BY <2>3, <2>4, IsListOf
<1>10. \A k \in DOMAIN app' : WholeFile(app'[k])
  BY <1>6, <1>7, ParsedWhole
<1>. QED  BY <1>9, <1>10 DEF AppInv

LEMMA LoadBegins == Init => LoadInv
<1>. SUFFICES ASSUME Init PROVE LoadInv
  OBVIOUS
<1>1. IsList(<<>>) /\ DOMAIN <<>> = {}
  BY DEF IsList, Range
<1>2. AppInv
  BY <1>1 DEF Init, LoadInit, AppInv
<1>3. ClassesInv
  BY <1>1 DEF Init, LoadInit, ClassesInv, ClassList
<1>. QED  BY <1>2, <1>3, TablesBegin DEF LoadInv

LEMMA LoadSteps == LoadInv /\ [Next]_vars => LoadInv'
<1>. SUFFICES ASSUME LoadInv, [Next]_vars PROVE LoadInv'
  OBVIOUS
<1>1. TablesInv /\ ClassesInv /\ AppInv /\ TablesType /\ TablesInv'
  BY TablesStep DEF LoadInv, TablesInv
<1>2. ASSUME UNCHANGED <<archive, stage, classes>> PROVE ClassesInv'
  BY <1>1, <1>2 DEF ClassesInv, ClassList, Files, Table, Definition
<1>3. ASSUME UNCHANGED app PROVE AppInv'
  BY <1>1, <1>3 DEF AppInv
<1>4. CASE UNCHANGED loadVars
  BY <1>1, <1>2, <1>3, <1>4 DEF loadVars, LoadInv
<1>5. CASE Load
  BY <1>1, <1>2, <1>5, AppLoads DEF Load, LoadInv
<1>6. ASSUME NEW f \in Files, NEW c \in Table(f), Work(f, c) PROVE LoadInv'
  <2>1. UNCHANGED <<archive, app>>
    BY <1>6 DEF Work, ListBare, BeginImplementations, ListSubclass, ListImplementation, ListClass
  <2>2. ClassesInv'
    <3>1. CASE ListBare(f, c)
      <4>1. PICK s \in ListedStages : s = IF Definition(f, c).interface THEN "listed" ELSE "done"
        BY DEF ListedStages
      <4>2. PICK d : d = [Definition(f, c) EXCEPT !.interfaces = <<>>]
        OBVIOUS
      <4>3. stage[f][c] = "waiting" /\ Becomes(f, c, s) /\ classes' = [classes EXCEPT ![f] = Append(@, d)]
            /\ ListedAs(d, Definition(f, c))
        BY <3>1, <4>1, <4>2 DEF ListBare, MayTake, At, ListedAs
      <4>. QED  BY <1>1, <2>1, <4>3, ClassesGrow DEF ListedStages
    <3>2. CASE BeginImplementations(f, c)
      BY <1>1, <2>1, <3>2, ClassesStay DEF BeginImplementations, ListedStages, Stages, At
    <3>3. CASE ListSubclass(f, c)
      BY <1>1, <2>1, <3>3, ClassesStay DEF ListSubclass, MayTake, At, ListedStages, Stages
    <3>4. CASE ListImplementation(f, c)
      BY <1>1, <2>1, <3>4, ClassesStay DEF ListImplementation, At, ListedStages, Stages
    <3>5. CASE ListClass(f, c)
      <4>1. PICK d : d = Definition(f, c)
        OBVIOUS
      <4>2. stage[f][c] = "implementation" /\ Becomes(f, c, "done") /\ classes' = [classes EXCEPT ![f] = Append(@, d)]
            /\ ListedAs(d, Definition(f, c))
        BY <3>5, <4>1 DEF ListClass, At, ListedAs
      <4>. QED  BY <1>1, <2>1, <4>2, ClassesGrow DEF ListedStages
    <3>. QED  BY <1>6, <3>1, <3>2, <3>3, <3>4, <3>5 DEF Work
  <2>. QED  BY <1>1, <1>3, <2>1, <2>2 DEF LoadInv
<1>. QED  BY <1>4, <1>5, <1>6 DEF Next, vars, LoadNext

-----------------------------------------------------------------------------
(* The lists that building goes through                                    *)

\* s holds x(k, i) for all i of all k, and nothing else: here, what is of one sort in the files.
LEMMA AllIs ==
  ASSUME AppInv, NEW sort \in FileLists
  PROVE  /\ IsList(All(sort))
         /\ \A k \in DOMAIN app : \A i \in DOMAIN app[k][sort] :
              \E p \in DOMAIN All(sort) : All(sort)[p] = <<app[k], app[k][sort][i]>>
         /\ \A p \in DOMAIN All(sort) : \E k \in DOMAIN app : \E i \in DOMAIN app[k][sort] :
              All(sort)[p] = <<app[k], app[k][sort][i]>>
<1>. DEFINE of(k) == [i \in DOMAIN app[k][sort] |-> <<app[k], app[k][sort][i]>>]
            lists == [k \in DOMAIN app |-> of(k)]
<1>1. IsSequence(app) /\ DOMAIN app = 1 .. Len(app) /\ Len(app) \in Nat
  BY IsListOf, ListFacts DEF AppInv
<1>2. ASSUME NEW k \in DOMAIN app PROVE IsSequence(of(k)) /\ DOMAIN of(k) = DOMAIN app[k][sort]
  <2>1. IsList(app[k][sort])
    BY DEF AppInv, WholeFile
  <2>2. PICK n \in Nat : DOMAIN app[k][sort] = 1 .. n
    BY <2>1, ListFacts
  <2>3. PICK f : f = [i \in 1 .. n |-> <<app[k], app[k][sort][i]>>]
    OBVIOUS
  <2>4. f = [i \in 1 .. n |-> f[i]]
    BY <2>3
  <2>5. of(k) = f
    BY <2>2, <2>3
  <2>. HIDE DEF of
  <2>. QED  BY <2>2, <2>4, <2>5, ListOf
<1>3. PICK s : s = lists
  OBVIOUS
<1>4. DOMAIN s = DOMAIN app /\ \A k \in DOMAIN app : s[k] = of(k)
  BY <1>3
<1>5. IsSequence(s) /\ Len(s) = Len(app)
  <2>1. s = [k \in 1 .. Len(app) |-> s[k]]
    <3>. HIDE DEF of
    <3>. QED  BY <1>1, <1>3
  <2>. QED  BY <1>1, <2>1, ListOf
<1>6. IsSequence(FlattenSeq(s)) /\ Holds(FlattenSeq(s), s, Len(s))
  BY <1>2, <1>4, <1>5, FlattenLists
<1>7. All(sort) = FlattenSeq(s)
  BY <1>3 DEF All
<1>. HIDE DEF of, lists
<1>8. ASSUME NEW k \in DOMAIN app, NEW i \in DOMAIN app[k][sort]
      PROVE  \E p \in DOMAIN All(sort) : All(sort)[p] = <<app[k], app[k][sort][i]>>
  <2>1. k \in 1 .. Len(s) /\ i \in DOMAIN s[k] /\ s[k][i] = <<app[k], app[k][sort][i]>>
    BY <1>1, <1>2, <1>4, <1>5 DEF of
  <2>2. \E p \in DOMAIN FlattenSeq(s) : FlattenSeq(s)[p] = s[k][i]
    BY <1>6, <2>1 DEF Holds
  <2>. QED  BY <1>7, <2>1, <2>2
<1>9. ASSUME NEW p \in DOMAIN All(sort)
      PROVE  \E k \in DOMAIN app : \E i \in DOMAIN app[k][sort] : All(sort)[p] = <<app[k], app[k][sort][i]>>
  <2>1. PICK k \in 1 .. Len(s) : \E i \in DOMAIN s[k] : All(sort)[p] = s[k][i]
    BY <1>6, <1>7, <1>9 DEF Holds
  <2>2. PICK i \in DOMAIN s[k] : All(sort)[p] = s[k][i]
    BY <2>1
  <2>3. k \in DOMAIN app /\ i \in DOMAIN app[k][sort] /\ s[k][i] = <<app[k], app[k][sort][i]>>
    BY <1>1, <1>2, <1>4, <1>5, <2>2 DEF of
  <2>. QED  BY <2>2, <2>3
<1>. QED  BY <1>6, <1>7, <1>8, <1>9, IsListOf

LEMMA ClassIs ==
  ASSUME AppInv, NEW k \in DOMAIN Classes
  PROVE  \E n \in DOMAIN app : \E i \in DOMAIN app[n].classes :
           /\ Classes[k] = <<app[n], app[n].classes[i]>>
           /\ WholeFile(app[n]) /\ WholeClass(app[n].classes[i], app[n])
<1>1. "classes" \in FileLists
  BY DEF FileLists
<1>2. PICK n \in DOMAIN app : \E i \in DOMAIN app[n].classes : Classes[k] = <<app[n], app[n].classes[i]>>
  BY <1>1, AllIs DEF Classes
<1>3. WholeFile(app[n])
  BY DEF AppInv
<1>. QED  BY <1>2, <1>3 DEF WholeFile

LEMMA ClassIsWhole ==
  ASSUME AppInv, NEW k \in DOMAIN Classes
  PROVE  /\ WholeFile(Classes[k][1]) /\ WholeClass(Classes[k][2], Classes[k][1])
         /\ \A j \in DOMAIN Classes[k][2].codes : WholeCode(Classes[k][2].codes[j], Classes[k][2].name, Classes[k][1])
<1>1. PICK g, c : Classes[k] = <<g, c>> /\ WholeClass(c, g) /\ WholeFile(g)
  BY ClassIs
<1>2. \A j \in DOMAIN c.codes : WholeCode(c.codes[j], c.name, g)
  BY <1>1 DEF WholeClass
<1>3. Classes[k][1] = g /\ Classes[k][2] = c
  BY <1>1
<1>. QED  BY <1>1, <1>2, <1>3

\* The finding of a class's method, with the file.
FoundIn(k, j, i) ==
  LET c == Classes[k][2]
  IN <<Classes[k][1], [method |-> MethodOf(<<c.name, c.codes[j].sig>>), find |-> c.codes[j].finds[i]]>>

LEMMA FindingsAre ==
  ASSUME AppInv
  PROVE  /\ IsList(Findings)
         /\ \A k \in DOMAIN Classes : \A j \in DOMAIN Classes[k][2].codes :
              \A i \in DOMAIN Classes[k][2].codes[j].finds : \E p \in DOMAIN Findings : Findings[p] = FoundIn(k, j, i)
         /\ \A p \in DOMAIN Findings : \E k \in DOMAIN Classes : \E j \in DOMAIN Classes[k][2].codes :
              \E i \in DOMAIN Classes[k][2].codes[j].finds : Findings[p] = FoundIn(k, j, i)
<1>. DEFINE finds(k, j) == [i \in DOMAIN Classes[k][2].codes[j].finds |-> FoundIn(k, j, i)]
            ofClass(k)  == [j \in DOMAIN Classes[k][2].codes |-> finds(k, j)]
            flat(k)     == FlattenSeq(ofClass(k))
            all         == [k \in DOMAIN Classes |-> flat(k)]
<1>1. Findings = FlattenSeq(all)
  BY DEF Findings, FoundIn
<1>2. IsSequence(Classes) /\ DOMAIN Classes = 1 .. Len(Classes) /\ Len(Classes) \in Nat
  BY AllIs, IsListOf, ListFacts DEF FileLists, Classes
<1>3. ASSUME NEW k \in DOMAIN Classes, NEW j \in DOMAIN Classes[k][2].codes
      PROVE  IsSequence(finds(k, j)) /\ DOMAIN finds(k, j) = DOMAIN Classes[k][2].codes[j].finds
  <2>1. IsList(Classes[k][2].codes[j].finds)
    BY ClassIsWhole DEF WholeCode
  <2>2. PICK n \in Nat : DOMAIN Classes[k][2].codes[j].finds = 1 .. n
    BY <2>1, ListFacts
  <2>3. PICK f : f = [i \in 1 .. n |-> FoundIn(k, j, i)]
    OBVIOUS
  <2>4. f = [i \in 1 .. n |-> f[i]]
    BY <2>3
  <2>5. finds(k, j) = f
    BY <2>2, <2>3
  <2>. HIDE DEF finds
  <2>. QED  BY <2>2, <2>4, <2>5, ListOf
<1>4. ASSUME NEW k \in DOMAIN Classes
      PROVE  /\ IsSequence(flat(k))
             /\ \A j \in DOMAIN Classes[k][2].codes : \A i \in DOMAIN Classes[k][2].codes[j].finds :
                  \E p \in DOMAIN flat(k) : flat(k)[p] = FoundIn(k, j, i)
             /\ \A p \in DOMAIN flat(k) : \E j \in DOMAIN Classes[k][2].codes :
                  \E i \in DOMAIN Classes[k][2].codes[j].finds : flat(k)[p] = FoundIn(k, j, i)
  <2>1. IsList(Classes[k][2].codes)
    BY ClassIsWhole DEF WholeClass
  <2>2. PICK n \in Nat : DOMAIN Classes[k][2].codes = 1 .. n
    BY <2>1, ListFacts
  <2>3. PICK f : f = [j \in 1 .. n |-> finds(k, j)]
    OBVIOUS
  <2>4. f = [j \in 1 .. n |-> f[j]]
    <3>. HIDE DEF finds
    <3>. QED  BY <2>3
  <2>5. ofClass(k) = f
    <3>. HIDE DEF finds
    <3>. QED  BY <2>2, <2>3
  <2>6. IsSequence(f) /\ Len(f) = n /\ DOMAIN f = 1 .. n
    BY <2>4, ListOf
  <2>7. \A j \in DOMAIN f : f[j] = finds(k, j) /\ IsSequence(f[j])
    <3>1. \A j \in DOMAIN f : f[j] = finds(k, j)
      <4>. HIDE DEF finds
      <4>. QED  BY <2>3
    <3>. HIDE DEF finds
    <3>. QED  BY <1>3, <2>2, <2>6, <3>1
  <2>8. IsSequence(FlattenSeq(f)) /\ Holds(FlattenSeq(f), f, n)
    BY <2>6, <2>7, FlattenLists
  <2>9. PICK u : u = FlattenSeq(f)
    OBVIOUS
  <2>10. flat(k) = u
    <3>. HIDE DEF finds, ofClass
    <3>. QED  BY <2>5, <2>9
  <2>11. ASSUME NEW j \in DOMAIN Classes[k][2].codes, NEW i \in DOMAIN Classes[k][2].codes[j].finds
         PROVE  \E p \in DOMAIN u : u[p] = FoundIn(k, j, i)
    <3>1. j \in 1 .. n /\ i \in DOMAIN f[j] /\ f[j][i] = FoundIn(k, j, i)
      BY <2>2, <2>6, <2>7
    <3>. QED  BY <2>8, <2>9, <3>1 DEF Holds
  <2>12. ASSUME NEW p \in DOMAIN u
         PROVE  \E j \in DOMAIN Classes[k][2].codes :
                  \E i \in DOMAIN Classes[k][2].codes[j].finds : u[p] = FoundIn(k, j, i)
    <3>1. PICK j \in 1 .. n : \E i \in DOMAIN f[j] : u[p] = f[j][i]
      BY <2>8, <2>9, <2>12 DEF Holds
    <3>2. PICK i \in DOMAIN f[j] : u[p] = f[j][i]
      BY <3>1
    <3>3. j \in DOMAIN Classes[k][2].codes /\ i \in DOMAIN Classes[k][2].codes[j].finds /\ f[j][i] = FoundIn(k, j, i)
      BY <2>2, <2>6, <2>7, <3>2
    <3>. QED  BY <3>2, <3>3
  <2>. HIDE DEF flat
  <2>. QED  BY <2>8, <2>9, <2>10, <2>11, <2>12
<1>. HIDE DEF finds, ofClass, flat
<1>5. PICK s : s = all
  OBVIOUS
<1>6. DOMAIN s = DOMAIN Classes /\ \A k \in DOMAIN Classes : s[k] = flat(k)
  BY <1>5
<1>7. IsSequence(s) /\ Len(s) = Len(Classes)
  <2>1. s = [k \in 1 .. Len(Classes) |-> s[k]]
    BY <1>2, <1>5
  <2>. QED  BY <1>2, <2>1, ListOf
<1>8. IsSequence(Findings) /\ Holds(Findings, s, Len(s))
  BY <1>1, <1>4, <1>5, <1>6, <1>7, FlattenLists
<1>9. ASSUME NEW k \in DOMAIN Classes, NEW j \in DOMAIN Classes[k][2].codes,
             NEW i \in DOMAIN Classes[k][2].codes[j].finds
      PROVE  \E p \in DOMAIN Findings : Findings[p] = FoundIn(k, j, i)
  <2>1. PICK q \in DOMAIN flat(k) : flat(k)[q] = FoundIn(k, j, i)
    BY <1>4
  <2>. QED  BY <1>2, <1>6, <1>7, <1>8, <2>1 DEF Holds
<1>10. ASSUME NEW p \in DOMAIN Findings
       PROVE  \E k \in DOMAIN Classes : \E j \in DOMAIN Classes[k][2].codes :
                \E i \in DOMAIN Classes[k][2].codes[j].finds : Findings[p] = FoundIn(k, j, i)
  <2>1. PICK k \in 1 .. Len(s) : \E q \in DOMAIN s[k] : Findings[p] = s[k][q]
    BY <1>8, <1>10 DEF Holds
  <2>2. PICK q \in DOMAIN s[k] : Findings[p] = s[k][q]
    BY <2>1
  <2>3. k \in DOMAIN Classes /\ s[k] = flat(k)
    BY <1>2, <1>6, <1>7
  <2>. QED  BY <1>4, <2>2, <2>3
<1>. QED  BY <1>8, <1>9, <1>10, IsListOf

-----------------------------------------------------------------------------
(* The graph.  Mappings of what the files name never change once the files *)
(* have been gone through, and no edge is there before; from then on every *)
(* change is made of nodes that mappings lead to.                          *)

Phases    == {"types", "fields", "methods", "strings", "inheritance", "failed", "collect", "add", "done"}
Preparing == {"types", "fields", "methods", "strings"}
Bases     == {"type", "class", "field", "method", "string"}

\* Edges of this node are found from its key, if it is of a kind that has one.
Linked(n)      == n \in DOMAIN nodes /\ (nodes[n].kind \in Bases => Mapped(nodes[n]) /\ mappings[nodes[n]] = n)
IsOf(n, kinds) == Linked(n) /\ nodes[n].kind \in kinds

ChangeFits(c) ==
  \/ c.kind = "edge" /\ IsOf(c.origin, Bases) /\ IsOf(c.destination, Bases)
  \/ c.kind = "to" /\ IsOf(c.origin, {"method"}) /\ c.node.kind \in {"static", "array", "dynamic_return"}
  \/ /\ c.kind = "from" /\ IsOf(c.destination, {"method", "field"})
     /\ c.node.kind \in {"static", "array", "dynamic_argument"}
     /\ c.node.kind = "static" => nodes[c.destination].kind = "field"
  \/ /\ c.kind = "from_to" /\ IsOf(c.origin, {"method"}) /\ IsOf(c.destination, Bases)
     /\ c.node.kind \in {"static", "dynamic_return"}
     /\ c.node.kind = "static" => nodes[c.destination].kind = "method"

\* The i-th of the items that a phase goes through is done with.
Passed(name, earlier, i) == phase \notin earlier /\ (phase = name => i < at)

GraphType ==
  /\ phase \in Phases /\ at \in Nat \ {0}
  /\ IsList(nodes) /\ IsList(changes)
  /\ app = <<>> => phase = "types" /\ at = 1
KeysInv  == \A k \in DOMAIN mappings : mappings[k] \in DOMAIN nodes /\ nodes[mappings[k]] = k
QuietInv ==
  /\ phase \in Preparing => edges = {} /\ DOMAIN interfaces = {}
  /\ phase \in Preparing \cup {"inheritance", "failed"} => changes = <<>>
PreparedInv ==
  /\ \A i \in DOMAIN Types : Passed("types", {}, i) /\ Types[i][2] # Object => Mapped(TypeOf(Types[i][2]))
  /\ \A i \in DOMAIN Fields : Passed("fields", {"types"}, i) => Mapped(FieldOf(Fields[i][1], Fields[i][2]))
  /\ \A i \in DOMAIN Methods :
       Passed("methods", {"types", "fields"}, i) /\ Methods[i][2][1] \notin Excluded => Mapped(MethodOf(Methods[i][2]))
EdgesInv      == \A e \in edges : e = <<e[1], e[2]>> /\ Linked(e[1]) /\ Linked(e[2])
BasesInv      ==
  phase \notin {"add", "done"} => \A e \in edges : nodes[e[1]].kind \in Bases /\ nodes[e[2]].kind \in Bases
InterfacesInv == \A i \in DOMAIN interfaces : \A n \in interfaces[i] : IsOf(n, {"method"})
ChangesInv    == \A i \in DOMAIN changes : ChangeFits(changes[i])

\* From a node there is one edge to nodes of a weight that is written or passed.
Merges(from, to) ==
  /\ nodes[to].kind \in {"static", "array", "dynamic_argument"}
  /\ nodes[to].kind = "static" => nodes[from].kind = "field"
MergedInv ==
  \A d, e \in edges : d[1] = e[1] /\ nodes[d[2]] = nodes[e[2]] /\ Merges(d[1], d[2]) => d[2] = e[2]

GraphInv ==
  /\ LoadInv /\ GraphType /\ KeysInv /\ QuietInv /\ PreparedInv
  /\ EdgesInv /\ BasesInv /\ InterfacesInv /\ ChangesInv /\ MergedInv

(***************************************************************************)
(* Nodes and keys are only added                                           *)
(***************************************************************************)
Grown ==
  /\ \A n \in DOMAIN nodes : n \in DOMAIN nodes' /\ nodes'[n] = nodes[n]
  /\ \A k \in DOMAIN mappings : k \in DOMAIN mappings' /\ mappings'[k] = mappings[k]

LEMMA LinkedStays ==
  ASSUME Grown, NEW n, Linked(n)
  PROVE  Linked(n)' /\ nodes'[n] = nodes[n] /\ n \in DOMAIN nodes /\ n \in DOMAIN nodes'
BY DEF Grown, Linked, Mapped

LEMMA ChangeStays ==
  ASSUME Grown, NEW c, ChangeFits(c)
  PROVE  ChangeFits(c)'
<1>1. ASSUME NEW n, NEW kinds, IsOf(n, kinds) PROVE IsOf(n, kinds)' /\ nodes'[n] = nodes[n]
  BY <1>1, LinkedStays DEF IsOf
<1>2. /\ IsOf(c.origin, Bases) => IsOf(c.origin, Bases)'
      /\ IsOf(c.origin, {"method"}) => IsOf(c.origin, {"method"})'
      /\ IsOf(c.destination, Bases) => IsOf(c.destination, Bases)' /\ nodes'[c.destination] = nodes[c.destination]
      /\ IsOf(c.destination, {"method", "field"}) =>
           IsOf(c.destination, {"method", "field"})' /\ nodes'[c.destination] = nodes[c.destination]
  BY <1>1
<1>. QED  BY <1>2 DEF ChangeFits

LEMMA OthersStay ==
  ASSUME Grown
  PROVE  /\ InterfacesInv /\ UNCHANGED interfaces => InterfacesInv'
         /\ ChangesInv /\ UNCHANGED changes => ChangesInv'
<1>1. ASSUME InterfacesInv, UNCHANGED interfaces PROVE InterfacesInv'
  <2>1. ASSUME NEW i \in DOMAIN interfaces, NEW n \in interfaces[i] PROVE IsOf(n, {"method"})'
    BY <1>1, LinkedStays DEF InterfacesInv, IsOf
  <2>. QED  BY <1>1, <2>1 DEF InterfacesInv
<1>2. ASSUME ChangesInv, UNCHANGED changes PROVE ChangesInv'
  <2>1. ASSUME NEW i \in DOMAIN changes PROVE ChangeFits(changes[i])'
    <3>1. PICK c : c = changes[i]
      OBVIOUS
    <3>2. ChangeFits(c)'
      BY <1>2, <3>1, ChangeStays DEF ChangesInv
    <3>. QED  BY <1>2, <3>1, <3>2 DEF ChangeFits, IsOf, Linked
  <2>. QED  BY <1>2, <2>1 DEF ChangesInv
<1>. QED  BY <1>1, <1>2

LEMMA ItemsStay ==
  ASSUME UNCHANGED app
  PROVE  Types' = Types /\ Fields' = Fields /\ Methods' = Methods /\ Strings' = Strings
         /\ Classes' = Classes /\ Findings' = Findings
<1>1. Types' = Types /\ Fields' = Fields /\ Methods' = Methods /\ Strings' = Strings /\ Classes' = Classes
  BY DEF Types, Fields, Methods, Strings, Classes, All
<1>. QED  BY <1>1 DEF Findings

LEMMA PreparedStays ==
  ASSUME Grown, UNCHANGED app, PreparedInv, phase \in Phases, phase \notin Preparing
  PROVE  PreparedInv'
<1>1. ASSUME NEW k, Mapped(k) PROVE Mapped(k)'
  BY <1>1 DEF Grown, Mapped
<1>. QED  BY <1>1, ItemsStay DEF PreparedInv, Passed, Phases, Preparing

LEMMA EdgesGrow ==
  ASSUME Grown, EdgesInv, NEW new, edges' = edges \cup new,
         \A e \in new : e = <<e[1], e[2]>> /\ Linked(e[1])' /\ Linked(e[2])'
  PROVE  EdgesInv'
<1>1. ASSUME NEW e \in edges PROVE e = <<e[1], e[2]>> /\ Linked(e[1])' /\ Linked(e[2])'
  BY LinkedStays DEF EdgesInv
<1>. QED  BY <1>1 DEF EdgesInv

LEMMA MergesStay ==
  ASSUME Grown, EdgesInv, NEW e \in edges
  PROVE  /\ nodes'[e[1]] = nodes[e[1]] /\ nodes'[e[2]] = nodes[e[2]]
         /\ Merges(e[1], e[2])' <=> Merges(e[1], e[2])
<1>1. nodes'[e[1]] = nodes[e[1]] /\ nodes'[e[2]] = nodes[e[2]]
  BY LinkedStays DEF EdgesInv
<1>. QED  BY <1>1 DEF Merges

LEMMA MergedGrow ==
  ASSUME Grown, EdgesInv, MergedInv, NEW new, edges' = edges \cup new,
         \A d \in new : Merges(d[1], d[2])' =>
           \A e \in edges' : d[1] = e[1] /\ nodes'[d[2]] = nodes'[e[2]] => d[2] = e[2]
  PROVE  MergedInv'
<1>. SUFFICES ASSUME NEW d \in edges', NEW e \in edges', d[1] = e[1], nodes'[d[2]] = nodes'[e[2]],
                     Merges(d[1], d[2])'
              PROVE  d[2] = e[2]
  BY DEF MergedInv
<1>1. Merges(e[1], e[2])'
  BY DEF Merges
<1>2. CASE d \in new
  BY <1>2
<1>3. CASE e \in new
  BY <1>1, <1>3
<1>4. CASE d \in edges /\ e \in edges
  BY <1>4, MergesStay DEF MergedInv
<1>. QED  BY <1>2, <1>3, <1>4

\* Edges between nodes that have keys merge nothing.
LEMMA BaseEdgesMergeNothing ==
  ASSUME Grown, EdgesInv, MergedInv, NEW new, edges' = edges \cup new,
         \A e \in new : nodes'[e[2]].kind \in Bases
  PROVE  MergedInv'
<1>1. \A d \in new : ~Merges(d[1], d[2])'
  BY DEF Merges, Bases
<1>. QED  BY <1>1, MergedGrow

(***************************************************************************)
(* prepare_mappings                                                        *)
(***************************************************************************)
LEMMA NewNodeIs ==
  ASSUME IsList(nodes), NEW w, nodes' = Append(nodes, w)
  PROVE  /\ IsList(nodes') /\ NewNode \notin DOMAIN nodes /\ DOMAIN nodes' = DOMAIN nodes \cup {NewNode}
         /\ nodes'[NewNode] = w /\ \A n \in DOMAIN nodes : nodes'[n] = nodes[n]
BY ListAppend DEF NewNode

LEMMA MappedAnew ==
  ASSUME GraphInv, NEW key, NewMapped(key)
  PROVE  /\ IsList(nodes') /\ KeysInv' /\ Mapped(key)'
         /\ \A k : Mapped(k) => Mapped(k)'
<1>1. /\ IsList(nodes') /\ NewNode \notin DOMAIN nodes /\ DOMAIN nodes' = DOMAIN nodes \cup {NewNode}
      /\ nodes'[NewNode] = key /\ \A n \in DOMAIN nodes : nodes'[n] = nodes[n]
  BY NewNodeIs DEF GraphInv, GraphType, NewMapped
<1>2. /\ DOMAIN mappings' = DOMAIN mappings \cup {key}
      /\ \A k \in DOMAIN mappings' : mappings'[k] = IF k = key THEN NewNode ELSE mappings[k]
  BY DEF NewMapped, Keyed
<1>3. KeysInv'
  BY <1>1, <1>2 DEF KeysInv, GraphInv
<1>. QED  BY <1>1, <1>2, <1>3 DEF Mapped

\* A step of this phase: nothing but the next item's key is new.
LEMMA PrepareStep ==
  ASSUME GraphInv, LoadInv', UNCHANGED app, app # <<>>, phase \in Preparing, Onward, NEW key,
         Unchanged \/ NewMapped(key), PreparedInv'
  PROVE  GraphInv'
<1>1. IsList(nodes') /\ KeysInv'
  BY MappedAnew DEF GraphInv, GraphType, KeysInv, Unchanged
<1>2. /\ UNCHANGED <<phase, edges, interfaces, changes>>
      /\ at' = at + 1
  BY DEF Onward, Unchanged, NewMapped
<1>3. GraphType'
  BY <1>1, <1>2 DEF GraphInv, GraphType
<1>4. edges = {} /\ DOMAIN interfaces = {} /\ changes = <<>>
  BY DEF GraphInv, QuietInv
<1>5. QuietInv'
  BY <1>2 DEF GraphInv, QuietInv
<1>6. EdgesInv' /\ BasesInv' /\ InterfacesInv' /\ ChangesInv' /\ MergedInv'
  BY <1>2, <1>4 DEF EdgesInv, BasesInv, InterfacesInv, ChangesInv, MergedInv
<1>. QED  BY <1>1, <1>3, <1>5, <1>6 DEF GraphInv

LEMMA ItemFacts ==
  ASSUME AppInv
  PROVE  /\ \A i \in DOMAIN Types : i \in Nat \ {0} /\ i <= Len(Types)
         /\ \A i \in DOMAIN Fields : i \in Nat \ {0} /\ i <= Len(Fields)
         /\ \A i \in DOMAIN Methods : i \in Nat \ {0} /\ i <= Len(Methods)
         /\ \A i \in DOMAIN Classes : i \in Nat \ {0} /\ i <= Len(Classes)
         /\ \A i \in DOMAIN Findings : i \in Nat \ {0} /\ i <= Len(Findings)
         /\ DOMAIN Classes = 1 .. Len(Classes) /\ DOMAIN Findings = 1 .. Len(Findings)
         /\ {Len(Types), Len(Fields), Len(Methods), Len(Classes), Len(Findings)} \subseteq Nat
<1>1. IsList(Types) /\ IsList(Fields) /\ IsList(Methods) /\ IsList(Classes) /\ IsList(Findings)
  BY AllIs, FindingsAre DEF Types, Fields, Methods, Classes, FileLists
<1>2. ASSUME NEW s, IsList(s) PROVE DOMAIN s = 1 .. Len(s) /\ Len(s) \in Nat
  BY <1>2, ListFacts
<1>3. /\ DOMAIN Types = 1 .. Len(Types) /\ Len(Types) \in Nat
      /\ DOMAIN Fields = 1 .. Len(Fields) /\ Len(Fields) \in Nat
      /\ DOMAIN Methods = 1 .. Len(Methods) /\ Len(Methods) \in Nat
      /\ DOMAIN Classes = 1 .. Len(Classes) /\ Len(Classes) \in Nat
      /\ DOMAIN Findings = 1 .. Len(Findings) /\ Len(Findings) \in Nat
  BY <1>1, <1>2
<1>. QED  BY <1>3

LEMMA Prepares ==
  ASSUME GraphInv, LoadInv', UNCHANGED app, app # <<>>, AddType \/ AddField \/ AddMethod \/ AddString
  PROVE  GraphInv'
<1>0. AppInv /\ PreparedInv /\ at \in Nat \ {0}
  BY DEF GraphInv, LoadInv, GraphType
<1>1. Types' = Types /\ Fields' = Fields /\ Methods' = Methods
  BY ItemsStay
<1>2. /\ \A i \in DOMAIN Types : i \in Nat /\ i <= Len(Types)
      /\ \A i \in DOMAIN Fields : i \in Nat /\ i <= Len(Fields)
      /\ \A i \in DOMAIN Methods : i \in Nat /\ i <= Len(Methods)
  BY <1>0, ItemFacts
<1>3. ASSUME NEW key, NewMapped(key) PROVE Mapped(key)' /\ \A k : Mapped(k) => Mapped(k)'
  BY <1>3, MappedAnew
<1>4. ASSUME Unchanged PROVE \A k : Mapped(k) => Mapped(k)'
  BY <1>4 DEF Unchanged, Mapped
<1>5. CASE AddType
  <2>1. phase = "types" /\ phase' = "types" /\ at' = at + 1
    BY <1>5 DEF AddType, Has, Onward
  <2>2. PICK key : key = TypeOf(Types[at][2])
    OBVIOUS
  <2>3. IF Types[at][2] = Object THEN Unchanged ELSE NewMapped(key)
    BY <1>5, <2>2 DEF AddType, Item
  <2>4. (Types[at][2] # Object => Mapped(key)') /\ \A k : Mapped(k) => Mapped(k)'
    BY <1>3, <1>4, <2>3
  <2>5. ASSUME NEW i \in DOMAIN Types, i < at + 1, Types[i][2] # Object PROVE Mapped(TypeOf(Types[i][2]))'
    <3>1. CASE i = at
      <4>1. key = TypeOf(Types[i][2])
        BY <2>2, <3>1
      <4>2. Mapped(key)'
        BY <2>4, <2>5, <3>1
      <4>. QED  BY <1>1, <4>1, <4>2 DEF Mapped
    <3>2. CASE i < at
      <4>1. Mapped(TypeOf(Types[i][2]))
        BY <1>0, <2>1, <2>5, <3>2 DEF PreparedInv, Passed
      <4>. QED  BY <1>1, <2>4, <4>1 DEF Mapped
    <3>. QED  BY <1>0, <1>2, <2>5, <3>1, <3>2
  <2>6. PreparedInv'
    BY <1>1, <2>1, <2>5 DEF PreparedInv, Passed, Mapped
  <2>7. phase \in Preparing /\ Onward
    BY <1>5, <2>1 DEF AddType, Preparing
  <2>. QED  BY <2>3, <2>6, <2>7, PrepareStep
<1>6. CASE AddField
  <2>1. phase = "fields" /\ phase' = "fields" /\ at' = at + 1
    BY <1>6 DEF AddField, Has, Onward
  <2>2. PICK key : key = FieldOf(Fields[at][1], Fields[at][2])
    OBVIOUS
  <2>3. NewMapped(key)
    BY <1>6, <2>2 DEF AddField, Item, File
  <2>4. Mapped(key)' /\ \A k : Mapped(k) => Mapped(k)'
    BY <1>3, <2>3
  <2>5. ASSUME NEW i \in DOMAIN Fields, i < at + 1 PROVE Mapped(FieldOf(Fields[i][1], Fields[i][2]))'
    <3>1. CASE i = at
      <4>1. key = FieldOf(Fields[i][1], Fields[i][2])
        BY <2>2, <3>1
      <4>. QED  BY <1>1, <2>4, <4>1 DEF Mapped
    <3>2. CASE i < at
      <4>1. Mapped(FieldOf(Fields[i][1], Fields[i][2]))
        BY <1>0, <2>1, <2>5, <3>2 DEF PreparedInv, Passed
      <4>. QED  BY <1>1, <2>4, <4>1 DEF Mapped
    <3>. QED  BY <1>0, <1>2, <2>5, <3>1, <3>2
  <2>6. \A i \in DOMAIN Types : Types[i][2] # Object => Mapped(TypeOf(Types[i][2]))'
    <3>1. \A i \in DOMAIN Types : Types[i][2] # Object => Mapped(TypeOf(Types[i][2]))
      BY <1>0, <2>1 DEF PreparedInv, Passed
    <3>. QED  BY <1>1, <2>4, <3>1 DEF Mapped
  <2>7. PreparedInv'
    BY <1>1, <2>1, <2>5, <2>6 DEF PreparedInv, Passed, Mapped
  <2>8. phase \in Preparing /\ Onward
    BY <1>6, <2>1 DEF AddField, Preparing
  <2>. QED  BY <2>3, <2>7, <2>8, PrepareStep
<1>7. CASE AddMethod
  <2>1. phase = "methods" /\ phase' = "methods" /\ at' = at + 1
    BY <1>7 DEF AddMethod, Has, Onward
  <2>2. PICK key : key = MethodOf(Methods[at][2])
    OBVIOUS
  <2>3. IF Methods[at][2][1] \in Excluded THEN Unchanged ELSE NewMapped(key)
    BY <1>7, <2>2 DEF AddMethod, Item
  <2>4. (Methods[at][2][1] \notin Excluded => Mapped(key)') /\ \A k : Mapped(k) => Mapped(k)'
    BY <1>3, <1>4, <2>3
  <2>5. ASSUME NEW i \in DOMAIN Methods, i < at + 1, Methods[i][2][1] \notin Excluded
        PROVE  Mapped(MethodOf(Methods[i][2]))'
    <3>1. CASE i = at
      <4>1. key = MethodOf(Methods[i][2])
        BY <2>2, <3>1
      <4>2. Mapped(key)'
        BY <2>4, <2>5, <3>1
      <4>. QED  BY <1>1, <4>1, <4>2 DEF Mapped
    <3>2. CASE i < at
      <4>1. Mapped(MethodOf(Methods[i][2]))
        BY <1>0, <2>1, <2>5, <3>2 DEF PreparedInv, Passed
      <4>. QED  BY <1>1, <2>4, <4>1 DEF Mapped
    <3>. QED  BY <1>0, <1>2, <2>5, <3>1, <3>2
  <2>6. /\ \A i \in DOMAIN Types : Types[i][2] # Object => Mapped(TypeOf(Types[i][2]))'
        /\ \A i \in DOMAIN Fields : Mapped(FieldOf(Fields[i][1], Fields[i][2]))'
    <3>1. /\ \A i \in DOMAIN Types : Types[i][2] # Object => Mapped(TypeOf(Types[i][2]))
          /\ \A i \in DOMAIN Fields : Mapped(FieldOf(Fields[i][1], Fields[i][2]))
      BY <1>0, <2>1 DEF PreparedInv, Passed
    <3>. QED  BY <1>1, <2>4, <3>1 DEF Mapped
  <2>7. PreparedInv'
    BY <1>1, <2>1, <2>5, <2>6 DEF PreparedInv, Passed, Mapped
  <2>8. phase \in Preparing /\ Onward
    BY <1>7, <2>1 DEF AddMethod, Preparing
  <2>. QED  BY <2>3, <2>7, <2>8, PrepareStep
<1>8. CASE AddString
  <2>1. phase = "strings" /\ phase' = "strings" /\ Onward
    BY <1>8 DEF AddString, Has, Onward
  <2>2. PICK key : key = StringOf(Strings[at][2])
    OBVIOUS
  <2>3. Unchanged \/ NewMapped(key)
    BY <1>8, <2>2 DEF AddString, Item
  <2>4. \A k : Mapped(k) => Mapped(k)'
    BY <1>3, <1>4, <2>3
  <2>5. /\ \A i \in DOMAIN Types : Types[i][2] # Object => Mapped(TypeOf(Types[i][2]))
        /\ \A i \in DOMAIN Fields : Mapped(FieldOf(Fields[i][1], Fields[i][2]))
        /\ \A i \in DOMAIN Methods : Methods[i][2][1] \notin Excluded => Mapped(MethodOf(Methods[i][2]))
    BY <1>0, <2>1 DEF PreparedInv, Passed
  <2>6. PreparedInv'
    BY <1>1, <2>4, <2>5 DEF PreparedInv, Mapped
  <2>. QED  BY <2>1, <2>3, <2>6, PrepareStep DEF Preparing
<1>. QED  BY <1>5, <1>6, <1>7, <1>8

(***************************************************************************)
(* The end of a phase, and loading                                         *)
(***************************************************************************)
LEMMA UnchangedKeeps ==
  ASSUME GraphInv, LoadInv', UNCHANGED app, app # <<>>, Unchanged, phase' \in Phases, at' \in Nat \ {0},
         phase' \in Preparing => phase \in Preparing,
         phase' \in Preparing \cup {"inheritance", "failed"} => phase \in Preparing \cup {"inheritance", "failed"},
         phase' \notin {"add", "done"} => phase \notin {"add", "done"},
         PreparedInv'
  PROVE  GraphInv'
<1>1. UNCHANGED <<nodes, edges, mappings, interfaces, changes>>
  BY DEF Unchanged
<1>2. GraphType' /\ KeysInv' /\ QuietInv'
  BY <1>1 DEF GraphInv, GraphType, KeysInv, QuietInv
<1>3. Grown
  BY <1>1 DEF Grown
<1>4. EdgesInv' /\ InterfacesInv' /\ ChangesInv' /\ MergedInv'
  BY <1>1, <1>3, OthersStay DEF GraphInv, EdgesInv, MergedInv, Merges, Linked, Mapped
<1>5. BasesInv'
  BY <1>1 DEF GraphInv, BasesInv
<1>. QED  BY <1>2, <1>4, <1>5 DEF GraphInv

LEMMA PhaseEnds ==
  ASSUME GraphInv, LoadInv', UNCHANGED app, app # <<>>, NextPhase
  PROVE  GraphInv'
<1>0. AppInv /\ PreparedInv /\ at \in Nat \ {0} /\ phase \in Phases
  BY DEF GraphInv, LoadInv, GraphType
<1>1. Types' = Types /\ Fields' = Fields /\ Methods' = Methods
  BY ItemsStay
<1>2. /\ \A i \in DOMAIN Types : i \in Nat /\ i <= Len(Types)
      /\ \A i \in DOMAIN Fields : i \in Nat /\ i <= Len(Fields)
      /\ \A i \in DOMAIN Methods : i \in Nat /\ i <= Len(Methods)
      /\ {Len(Types), Len(Fields), Len(Methods)} \subseteq Nat
  BY <1>0, ItemFacts
<1>3. ASSUME NEW name, NEW items, NEW next, After(name, items, next)
      PROVE  /\ phase = name /\ phase' = next /\ at' = 1 /\ at > Len(items) /\ Unchanged
             /\ \A k : Mapped(k)' <=> Mapped(k)
  BY <1>3 DEF After, Unchanged, Mapped
<1>4. CASE After("types", Types, "fields")
  <2>1. phase = "types" /\ phase' = "fields" /\ at' = 1 /\ at > Len(Types) /\ Unchanged
        /\ \A k : Mapped(k)' <=> Mapped(k)
    BY <1>3, <1>4
  <2>2. \A i \in DOMAIN Types : i < at
    BY <1>0, <1>2, <2>1
  <2>3. PreparedInv'
    BY <1>0, <1>1, <1>2, <2>1, <2>2 DEF PreparedInv, Passed
  <2>. QED  BY <2>1, <2>3, UnchangedKeeps DEF Phases, Preparing
<1>5. CASE After("fields", Fields, "methods")
  <2>1. phase = "fields" /\ phase' = "methods" /\ at' = 1 /\ at > Len(Fields) /\ Unchanged
        /\ \A k : Mapped(k)' <=> Mapped(k)
    BY <1>3, <1>5
  <2>2. \A i \in DOMAIN Fields : i < at
    BY <1>0, <1>2, <2>1
  <2>3. PreparedInv'
    BY <1>0, <1>1, <1>2, <2>1, <2>2 DEF PreparedInv, Passed
  <2>. QED  BY <2>1, <2>3, UnchangedKeeps DEF Phases, Preparing
<1>6. CASE After("methods", Methods, "strings")
  <2>1. phase = "methods" /\ phase' = "strings" /\ at' = 1 /\ at > Len(Methods) /\ Unchanged
        /\ \A k : Mapped(k)' <=> Mapped(k)
    BY <1>3, <1>6
  <2>2. \A i \in DOMAIN Methods : i < at
    BY <1>0, <1>2, <2>1
  <2>3. PreparedInv'
    BY <1>0, <1>1, <1>2, <2>1, <2>2 DEF PreparedInv, Passed
  <2>. QED  BY <2>1, <2>3, UnchangedKeeps DEF Phases, Preparing
<1>7. ASSUME NEW name \in {"strings", "inheritance", "collect", "add"}, NEW items,
             NEW next \in {"inheritance", "collect", "add", "done"}, After(name, items, next),
             next = "inheritance" => name = "strings", next \notin {"add", "done"} => name \notin {"add", "done"}
      PROVE  GraphInv'
  <2>1. phase = name /\ phase' = next /\ at' = 1 /\ Unchanged /\ \A k : Mapped(k)' <=> Mapped(k)
    BY <1>3, <1>7
  <2>2. PreparedInv'
    BY <1>0, <1>1, <2>1 DEF PreparedInv, Passed
  <2>. QED  BY <1>7, <2>1, <2>2, UnchangedKeeps DEF Phases, Preparing
<1>. QED  BY <1>4, <1>5, <1>6, <1>7 DEF NextPhase

FromOne == \A i \in DOMAIN Types : i \in Nat \ {0}
LEMMA TypesFromOne == AppInv => FromOne
BY ItemFacts DEF FromOne

LEMMA LoadKeepsGraph ==
  ASSUME GraphInv, LoadInv', LoadNext, UNCHANGED graphVars
  PROVE  GraphInv'
<1>1. UNCHANGED <<phase, at, nodes, edges, mappings, interfaces, changes>>
  BY DEF graphVars
<1>2. UNCHANGED app \/ app = <<>>
  BY DEF LoadNext, Work, Load, ListBare, BeginImplementations, ListSubclass, ListImplementation, ListClass
<1>3. GraphType' /\ KeysInv' /\ QuietInv'
  BY <1>1, <1>2 DEF GraphInv, GraphType, KeysInv, QuietInv
<1>4. Grown
  BY <1>1 DEF Grown
<1>5. EdgesInv' /\ InterfacesInv' /\ ChangesInv' /\ MergedInv' /\ BasesInv'
  BY <1>1, <1>4, OthersStay DEF GraphInv, EdgesInv, BasesInv, MergedInv, Merges, Linked, Mapped
<1>6. PreparedInv'
  <2>1. CASE UNCHANGED app
    BY <1>1, <2>1, ItemsStay DEF GraphInv, PreparedInv, Passed, Mapped
  <2>2. CASE app = <<>>
    <3>1. phase' = "types" /\ at' = 1
      BY <1>1, <2>2 DEF GraphInv, GraphType
    <3>2. \A i \in DOMAIN Types' : ~(i < 1)
      <4>1. AppInv'
        BY DEF LoadInv
      <4>2. FromOne'
        BY <4>1, TypesFromOne, PTL
      <4>. QED  BY <4>2 DEF FromOne
    <3>. QED  BY <3>1, <3>2 DEF PreparedInv, Passed
  <2>. QED  BY <1>2, <2>1, <2>2
<1>. QED  BY <1>3, <1>5, <1>6 DEF GraphInv

LEMMA GraphBegins == Init => GraphInv
<1>. SUFFICES ASSUME Init PROVE GraphInv
  OBVIOUS
<1>1. /\ app = <<>> /\ phase = "types" /\ at = 1 /\ nodes = <<>> /\ edges = {} /\ DOMAIN mappings = {}
      /\ DOMAIN interfaces = {} /\ changes = <<>>
  BY DEF Init, LoadInit
<1>2. IsList(<<>>)
  BY DEF IsList, Range
<1>3. LoadInv
  BY LoadBegins
<1>4. \A i \in DOMAIN Types : ~(i < 1)
  <2>1. AppInv
    BY <1>3 DEF LoadInv
  <2>2. IsList(Types)
    BY <2>1, AllIs DEF FileLists, Types
  <2>. QED  BY <2>2, ListFacts
<1>5. PreparedInv
  BY <1>1, <1>4 DEF PreparedInv, Passed
<1>6. GraphType /\ KeysInv /\ QuietInv
  BY <1>1, <1>2 DEF GraphType, KeysInv, QuietInv, Phases
<1>7. EdgesInv /\ BasesInv /\ InterfacesInv /\ ChangesInv /\ MergedInv
  BY <1>1 DEF EdgesInv, BasesInv, InterfacesInv, ChangesInv, MergedInv
<1>. QED  BY <1>3, <1>5, <1>6, <1>7 DEF GraphInv

(***************************************************************************)
(* build_inheritance                                                       *)
(***************************************************************************)
LEMMA KeyIsLinked ==
  ASSUME KeysInv, NEW k, Mapped(k)
  PROVE  Linked(mappings[k]) /\ nodes[mappings[k]] = k /\ mappings[k] \in DOMAIN nodes
BY DEF KeysInv, Linked, Mapped

LEMMA PreparedKeys ==
  ASSUME GraphInv, phase \notin Preparing
  PROVE  /\ \A i \in DOMAIN Types : Types[i][2] # Object => Mapped(TypeOf(Types[i][2]))
         /\ \A i \in DOMAIN Fields : Mapped(FieldOf(Fields[i][1], Fields[i][2]))
         /\ \A i \in DOMAIN Methods : Methods[i][2][1] \notin Excluded => Mapped(MethodOf(Methods[i][2]))
BY DEF GraphInv, PreparedInv, Passed, Preparing

\* What a file says of its fields and methods has a key.
LEMMA FileKeys ==
  ASSUME GraphInv, phase \notin Preparing, NEW n \in DOMAIN app
  PROVE  /\ \A x \in Range(app[n].types) : x # Object => Mapped(TypeOf(x))
         /\ \A p \in Range(app[n].fields) : Mapped(FieldOf(app[n], p))
         /\ \A p \in Range(app[n].methods) : p[1] \notin Excluded => Mapped(MethodOf(p))
<1>0. AppInv
  BY DEF GraphInv, LoadInv
<1>1. /\ \A i \in DOMAIN app[n].types : \E p \in DOMAIN Types : Types[p] = <<app[n], app[n].types[i]>>
      /\ \A i \in DOMAIN app[n].fields : \E p \in DOMAIN Fields : Fields[p] = <<app[n], app[n].fields[i]>>
      /\ \A i \in DOMAIN app[n].methods : \E p \in DOMAIN Methods : Methods[p] = <<app[n], app[n].methods[i]>>
  <2>1. \A i \in DOMAIN app[n].types : \E p \in DOMAIN Types : Types[p] = <<app[n], app[n].types[i]>>
    BY <1>0, AllIs DEF FileLists, Types
  <2>2. \A i \in DOMAIN app[n].fields : \E p \in DOMAIN Fields : Fields[p] = <<app[n], app[n].fields[i]>>
    BY <1>0, AllIs DEF FileLists, Fields
  <2>3. \A i \in DOMAIN app[n].methods : \E p \in DOMAIN Methods : Methods[p] = <<app[n], app[n].methods[i]>>
    BY <1>0, AllIs DEF FileLists, Methods
  <2>. QED  BY <2>1, <2>2, <2>3
<1>2. ASSUME NEW x \in Range(app[n].types), x # Object PROVE Mapped(TypeOf(x))
  <2>1. PICK i \in DOMAIN app[n].types : x = app[n].types[i]
    BY DEF Range
  <2>2. PICK p \in DOMAIN Types : Types[p] = <<app[n], x>>
    BY <1>1, <2>1
  <2>. QED  BY <1>2, <2>2, PreparedKeys
<1>3. ASSUME NEW x \in Range(app[n].fields) PROVE Mapped(FieldOf(app[n], x))
  <2>1. PICK i \in DOMAIN app[n].fields : x = app[n].fields[i]
    BY DEF Range
  <2>2. PICK p \in DOMAIN Fields : Fields[p] = <<app[n], x>>
    BY <1>1, <2>1
  <2>. QED  BY <2>2, PreparedKeys
<1>4. ASSUME NEW x \in Range(app[n].methods), x[1] \notin Excluded PROVE Mapped(MethodOf(x))
  <2>1. PICK i \in DOMAIN app[n].methods : x = app[n].methods[i]
    BY DEF Range
  <2>2. PICK p \in DOMAIN Methods : Methods[p] = <<app[n], x>>
    BY <1>1, <2>1
  <2>. QED  BY <1>4, <2>2, PreparedKeys
<1>. QED  BY <1>2, <1>3, <1>4

LEMMA CodeIsMapped ==
  ASSUME GraphInv, phase \notin Preparing, NEW k \in DOMAIN Classes, Classes[k][2].name \notin Excluded
  PROVE  \A j \in DOMAIN Classes[k][2].codes : Mapped(MethodOf(<<Classes[k][2].name, Classes[k][2].codes[j].sig>>))
<1>0. AppInv
  BY DEF GraphInv, LoadInv
<1>1. PICK n \in DOMAIN app : \E i \in DOMAIN app[n].classes : Classes[k] = <<app[n], app[n].classes[i]>>
  BY <1>0, ClassIs
<1>2. Classes[k][1] = app[n]
  BY <1>1
<1>3. ASSUME NEW j \in DOMAIN Classes[k][2].codes
      PROVE  <<Classes[k][2].name, Classes[k][2].codes[j].sig>> \in Range(app[n].methods)
  BY <1>0, <1>2, ClassIsWhole DEF WholeCode
<1>. QED  BY <1>3, FileKeys

LEMMA ClassAdds ==
  ASSUME GraphInv, LoadInv', UNCHANGED app, app # <<>>, AddClass
  PROVE  GraphInv'
<1>0. AppInv /\ KeysInv /\ at \in Nat \ {0} /\ phase = "inheritance" /\ at <= Len(Classes) /\ phase \in Phases
  BY DEF GraphInv, LoadInv, GraphType, AddClass, Has, Phases
<1>1. at \in DOMAIN Classes
  BY <1>0, ItemFacts
<1>2. ~Mapped(ClassOf(called))
  BY DEF AddClass, IsNew
<1>3. class = Classes[at][2] /\ file = Classes[at][1]
  BY DEF class, file, Item, File
<1>4. PICK key : key = ClassOf(called)
  OBVIOUS
<1>5. nodes' = Append(nodes, key) /\ mappings' = Keyed(key, NewNode) /\ UNCHANGED <<phase, changes>> /\ at' = at + 1
  BY <1>4 DEF AddClass, Onward
<1>6. /\ IsList(nodes') /\ NewNode \notin DOMAIN nodes /\ DOMAIN nodes' = DOMAIN nodes \cup {NewNode}
      /\ nodes'[NewNode] = key /\ \A n \in DOMAIN nodes : nodes'[n] = nodes[n]
  BY <1>5, NewNodeIs DEF GraphInv, GraphType
<1>7. /\ DOMAIN mappings' = DOMAIN mappings \cup {key} /\ ~Mapped(key)
      /\ \A k \in DOMAIN mappings' : mappings'[k] = IF k = key THEN NewNode ELSE mappings[k]
  BY <1>2, <1>4, <1>5 DEF Keyed
<1>8. Grown
  BY <1>6, <1>7 DEF Grown, Mapped
<1>9. KeysInv'
  BY <1>0, <1>6, <1>7 DEF KeysInv
<1>10. GraphType' /\ QuietInv'
  BY <1>0, <1>5, <1>6 DEF GraphInv, GraphType, QuietInv, Preparing
<1>11. PreparedInv'
  BY <1>0, <1>8, PreparedStays DEF GraphInv, Preparing
<1>12. ChangesInv'
  BY <1>5, <1>8, OthersStay DEF GraphInv
<1>13. \A m \in CodeMethods : Mapped(m) /\ m.kind = "method"
  BY DEF AddClass, CodeMethods, MethodOf, Weight
<1>14. PICK here : here = {mappings[m] : m \in CodeMethods}
  OBVIOUS
<1>15. \A n \in here : IsOf(n, {"method"})
  <2>1. ASSUME NEW m \in CodeMethods PROVE IsOf(mappings[m], {"method"})
    BY <1>0, <1>13, KeyIsLinked DEF IsOf
  <2>. QED  BY <1>14, <2>1
<1>16. ASSUME NEW k, Mapped(k), k.kind \in Bases, NEW n, n = mappings[k]
       PROVE  Linked(n)' /\ nodes'[n].kind \in Bases
  <2>1. Linked(n) /\ nodes[n] = k
    BY <1>0, <1>16, KeyIsLinked
  <2>. QED  BY <1>8, <1>16, <2>1, LinkedStays
<1>17. ASSUME NEW n, IsOf(n, {"method"})
       PROVE  Linked(n)' /\ nodes'[n].kind \in Bases /\ IsOf(n, {"method"})'
  BY <1>8, <1>17, LinkedStays DEF IsOf, Bases
<1>18. PICK fresh : fresh = NewNode
  OBVIOUS
<1>180. Linked(fresh)' /\ nodes'[fresh].kind \in Bases
  <2>1. key.kind \in Bases
    BY <1>4 DEF ClassOf, Weight, Bases
  <2>. QED  BY <1>6, <1>7, <1>18, <2>1 DEF Linked, Mapped
<1>19. CASE ~Mapped(TypeOf(class.name))
  <2>1. UNCHANGED <<edges, interfaces>>
    BY <1>19 DEF AddClass
  <2>2. EdgesInv' /\ MergedInv'
    <3>1. PICK none : none = {} /\ edges' = edges \cup none
      BY <2>1
    <3>2. EdgesInv /\ MergedInv
      BY DEF GraphInv
    <3>3. /\ \A e \in none : e = <<e[1], e[2]>> /\ Linked(e[1])' /\ Linked(e[2])'
          /\ \A e \in none : nodes'[e[2]].kind \in Bases
      BY <3>1
    <3>4. EdgesInv'
      BY <1>8, <3>1, <3>2, <3>3, EdgesGrow
    <3>5. MergedInv'
      BY <1>8, <3>1, <3>2, <3>3, BaseEdgesMergeNothing
    <3>. QED  BY <3>4, <3>5
  <2>20. BasesInv'
    <3>1. ASSUME NEW e \in edges PROVE nodes'[e[1]].kind \in Bases /\ nodes'[e[2]].kind \in Bases
      BY <1>0, <1>8, MergesStay DEF GraphInv, BasesInv
    <3>. QED  BY <2>1, <3>1 DEF BasesInv
  <2>3. InterfacesInv'
    BY <1>8, <2>1, OthersStay DEF GraphInv
  <2>. QED  BY <1>9, <1>10, <1>11, <1>12, <2>2, <2>20, <2>3 DEF GraphInv
<1>20. CASE Mapped(TypeOf(class.name))
  <2>1. PICK i : i = TypeIndex(file, class.name)
    OBVIOUS
  <2>2. PICK known : known = IF i \in DOMAIN interfaces THEN interfaces[i] ELSE {}
    OBVIOUS
  <2>3. PICK over : over = IF class.interface THEN {} ELSE Overridden(here)
    OBVIOUS
  <2>4. PICK new : new = ClassEdges(fresh) \cup over
    OBVIOUS
  <2>5. edges' = edges \cup new
        /\ interfaces' = IF ~class.interface THEN interfaces
                         ELSE [j \in DOMAIN interfaces \cup {i} |-> IF j = i THEN known \cup here ELSE interfaces[j]]
    <3>1. /\ edges' = edges \cup ClassEdges(fresh) \cup over
          /\ interfaces' = IF ~class.interface THEN interfaces
                           ELSE [j \in DOMAIN interfaces \cup {i} |-> IF j = i THEN known \cup here ELSE interfaces[j]]
      BY <1>14, <1>18, <1>20, <2>1, <2>2, <2>3 DEF AddClass
    <3>. QED  BY <2>4, <3>1
  <2>6. \A n \in InterfaceMethods : IsOf(n, {"method"})
    BY DEF InterfaceMethods, GraphInv, InterfacesInv
  <2>7. ASSUME NEW e \in over
        PROVE  e = <<e[1], e[2]>> /\ Linked(e[1])' /\ Linked(e[2])' /\ nodes'[e[1]].kind \in Bases /\ nodes'[e[2]].kind \in Bases
    <3>1. e \in InterfaceMethods \X here
      BY <2>3, <2>7 DEF Overridden
    <3>. QED  BY <1>15, <1>17, <2>6, <3>1
  <2>8. ASSUME NEW from, NEW to, from.kind \in Bases, to.kind \in Bases, NEW e \in Links(from, to)
        PROVE  e = <<e[1], e[2]>> /\ Linked(e[1])' /\ Linked(e[2])' /\ nodes'[e[1]].kind \in Bases /\ nodes'[e[2]].kind \in Bases
    <3>1. PICK a, b : a = mappings[from] /\ b = mappings[to]
      OBVIOUS
    <3>2. Mapped(from) /\ Mapped(to) /\ e = <<a, b>>
      BY <2>8, <3>1 DEF Links
    <3>3. Linked(a)' /\ Linked(b)' /\ nodes'[a].kind \in Bases /\ nodes'[b].kind \in Bases
      BY <1>16, <2>8, <3>1, <3>2
    <3>. QED  BY <3>2, <3>3
  <2>9. ASSUME NEW e \in ClassEdges(fresh)
        PROVE  e = <<e[1], e[2]>> /\ Linked(e[1])' /\ Linked(e[2])' /\ nodes'[e[1]].kind \in Bases /\ nodes'[e[2]].kind \in Bases
    <3>0. \A x, y, f : {TypeOf(x).kind, StringOf(y).kind, FieldOf(f, x).kind} \subseteq Bases
      BY DEF TypeOf, StringOf, FieldOf, Weight, Bases
    <3>1. CASE e = <<fresh, mappings[TypeOf(class.name)]>>
      <4>1. PICK k : k = TypeOf(class.name)
        OBVIOUS
      <4>2. PICK a : a = mappings[k]
        OBVIOUS
      <4>3. Linked(a)' /\ nodes'[a].kind \in Bases
        BY <1>16, <1>20, <3>0, <4>1, <4>2
      <4>. QED  BY <1>180, <3>1, <4>1, <4>2, <4>3
    <3>2. CASE e \in Links(TypeOf(class.name), TypeOf(class.super))
      BY <2>8, <3>0, <3>2
    <3>3. ASSUME NEW k \in DOMAIN class.interfaces, e \in Links(TypeOf(class.interfaces[k]), TypeOf(class.name))
          PROVE  e = <<e[1], e[2]>> /\ Linked(e[1])' /\ Linked(e[2])' /\ nodes'[e[1]].kind \in Bases /\ nodes'[e[2]].kind \in Bases
      BY <2>8, <3>0, <3>3
    <3>4. ASSUME NEW k \in DOMAIN class.defaults, NEW p,
                 e \in Links(StringOf(p[2]), FieldOf(file, p[1])) \cup Links(FieldOf(file, p[1]), StringOf(p[2]))
          PROVE  e = <<e[1], e[2]>> /\ Linked(e[1])' /\ Linked(e[2])' /\ nodes'[e[1]].kind \in Bases /\ nodes'[e[2]].kind \in Bases
      <4>1. PICK a, b : a = StringOf(p[2]) /\ b = FieldOf(file, p[1])
        OBVIOUS
      <4>2. a.kind \in Bases /\ b.kind \in Bases
        BY <3>0, <4>1
      <4>3. e \in Links(a, b) \/ e \in Links(b, a)
        BY <3>4, <4>1
      <4>. QED  BY <2>8, <4>2, <4>3
    <3>5. ASSUME NEW m \in CodeMethods, e = <<fresh, mappings[m]>>
          PROVE  e = <<e[1], e[2]>> /\ Linked(e[1])' /\ Linked(e[2])' /\ nodes'[e[1]].kind \in Bases /\ nodes'[e[2]].kind \in Bases
      <4>1. PICK a : a = mappings[m]
        OBVIOUS
      <4>2. Linked(a)' /\ nodes'[a].kind \in Bases
        BY <1>13, <1>16, <4>1 DEF Bases
      <4>. QED  BY <1>180, <3>5, <4>1, <4>2
    <3>6. \/ e = <<fresh, mappings[TypeOf(class.name)]>>
          \/ e \in Links(TypeOf(class.name), TypeOf(class.super))
          \/ \E k \in DOMAIN class.interfaces : e \in Links(TypeOf(class.interfaces[k]), TypeOf(class.name))
          \/ \E k \in DOMAIN class.defaults : \E p : p = class.defaults[k] /\
                e \in Links(StringOf(p[2]), FieldOf(file, p[1])) \cup Links(FieldOf(file, p[1]), StringOf(p[2]))
          \/ \E m \in CodeMethods : e = <<fresh, mappings[m]>>
      BY <2>9 DEF ClassEdges
    <3>. QED  BY <3>1, <3>2, <3>3, <3>4, <3>5, <3>6
  <2>10. \A e \in new : e = <<e[1], e[2]>> /\ Linked(e[1])' /\ Linked(e[2])' /\ nodes'[e[1]].kind \in Bases /\ nodes'[e[2]].kind \in Bases
    BY <2>4, <2>7, <2>9
  <2>11. EdgesInv' /\ MergedInv'
    BY <1>8, <2>5, <2>10, EdgesGrow, BaseEdgesMergeNothing DEF GraphInv
  <2>110. BasesInv'
    <3>1. ASSUME NEW e \in edges PROVE nodes'[e[1]].kind \in Bases /\ nodes'[e[2]].kind \in Bases
      BY <1>0, <1>8, MergesStay DEF GraphInv, BasesInv
    <3>. QED  BY <2>5, <2>10, <3>1 DEF BasesInv
  <2>12. InterfacesInv'
    <3>1. ASSUME NEW j \in DOMAIN interfaces, NEW n \in interfaces[j] PROVE IsOf(n, {"method"})'
      BY <1>17 DEF GraphInv, InterfacesInv
    <3>2. ASSUME NEW j \in DOMAIN interfaces', NEW n \in interfaces'[j] PROVE IsOf(n, {"method"})'
      <4>1. CASE ~class.interface
        BY <2>5, <3>1, <3>2, <4>1
      <4>2. CASE class.interface
        <5>1. j \in DOMAIN interfaces \cup {i} /\ interfaces'[j] = IF j = i THEN known \cup here ELSE interfaces[j]
          BY <2>5, <3>2, <4>2
        <5>2. CASE j # i
          BY <3>1, <3>2, <5>1, <5>2
        <5>3. CASE n \in known /\ j = i
          <6>1. i \in DOMAIN interfaces /\ n \in interfaces[i]
            BY <2>2, <5>3
          <6>. QED  BY <3>1, <6>1
        <5>4. CASE n \in here
          BY <1>15, <1>17, <5>4
        <5>. QED  BY <3>2, <5>1, <5>2, <5>3, <5>4
      <4>. QED  BY <4>1, <4>2
    <3>. QED  BY <3>2 DEF InterfacesInv
  <2>. QED  BY <1>9, <1>10, <1>11, <1>12, <2>11, <2>110, <2>12 DEF GraphInv
<1>. QED  BY <1>19, <1>20

LEMMA ClassIsSkipped ==
  ASSUME GraphInv, LoadInv', UNCHANGED app, app # <<>>, SkipClass \/ Panic \/ Cancel
  PROVE  GraphInv'
<1>1. at \in Nat \ {0} /\ phase = "inheritance" /\ phase \in Phases
  BY DEF GraphInv, GraphType, SkipClass, Panic, Cancel, Has, Phases
<1>2. UNCHANGED <<nodes, edges, mappings, interfaces, changes>>
      /\ at' \in Nat \ {0} /\ phase' \in {"inheritance", "collect", "failed"}
  BY <1>1 DEF SkipClass, Panic, Cancel, Onward, Unchanged
<1>3. Grown
  BY <1>2 DEF Grown
<1>4. PreparedInv'
  BY <1>1, <1>3, PreparedStays DEF GraphInv, Preparing
<1>5. GraphType' /\ KeysInv' /\ QuietInv'
  BY <1>1, <1>2 DEF GraphInv, GraphType, KeysInv, QuietInv, Phases, Preparing
<1>6. EdgesInv' /\ BasesInv' /\ InterfacesInv' /\ ChangesInv' /\ MergedInv'
  BY <1>1, <1>2, <1>3, OthersStay DEF GraphInv, EdgesInv, BasesInv, MergedInv, Merges, Linked, Mapped
<1>. QED  BY <1>4, <1>5, <1>6 DEF GraphInv

(***************************************************************************)
(* Collecting the change sets                                              *)
(***************************************************************************)
\* What is found is of a known kind, in code that the files have.
LEMMA FindIs ==
  ASSUME GraphInv, phase = "collect", at <= Len(Findings)
  PROVE  /\ at \in DOMAIN Findings /\ find.kind \in FindKinds
         /\ find.kind \in {"get", "put", "field_set"} => Mapped(FieldOf(File(Findings), find.name))
         /\ Item(Findings).method.kind = "method"
<1>0. AppInv /\ at \in Nat \ {0}
  BY DEF GraphInv, GraphType, LoadInv
<1>1. at \in DOMAIN Findings
  BY <1>0, ItemFacts
<1>2. PICK k \in DOMAIN Classes : \E j \in DOMAIN Classes[k][2].codes :
         \E i \in DOMAIN Classes[k][2].codes[j].finds : Findings[at] = FoundIn(k, j, i)
  BY <1>0, <1>1, FindingsAre
<1>3. PICK j \in DOMAIN Classes[k][2].codes :
         \E i \in DOMAIN Classes[k][2].codes[j].finds : Findings[at] = FoundIn(k, j, i)
  BY <1>2
<1>4. PICK i \in DOMAIN Classes[k][2].codes[j].finds : Findings[at] = FoundIn(k, j, i)
  BY <1>3
<1>5. PICK x : x = Classes[k][2].codes[j].finds[i]
  OBVIOUS
<1>6. WholeCode(Classes[k][2].codes[j], Classes[k][2].name, Classes[k][1])
  BY <1>0, ClassIsWhole
<1>7. x.kind \in FindKinds /\ (x.kind \in {"get", "put", "field_set"} => x.name \in Range(Classes[k][1].fields))
  BY <1>5, <1>6 DEF WholeCode
<1>8. PICK n \in DOMAIN app : \E m \in DOMAIN app[n].classes : Classes[k] = <<app[n], app[n].classes[m]>>
  BY <1>0, ClassIs
<1>9. Classes[k][1] = app[n]
  BY <1>8
<1>10. \A p \in Range(app[n].fields) : Mapped(FieldOf(app[n], p))
  BY FileKeys DEF Preparing
<1>11. find = x /\ File(Findings) = app[n] /\ Item(Findings).method.kind = "method"
  BY <1>4, <1>5, <1>9 DEF FoundIn, find, Item, File, MethodOf, Weight
<1>. QED  BY <1>1, <1>7, <1>9, <1>10, <1>11

LEMMA ConcatFits ==
  ASSUME NEW s, NEW t, IsList(s), IsList(t), \A i \in DOMAIN s : ChangeFits(s[i]), \A i \in DOMAIN t : ChangeFits(t[i])
  PROVE  IsList(s \o t) /\ \A i \in DOMAIN (s \o t) : ChangeFits((s \o t)[i])
<1>1. PICK u : u = s \o t
  OBVIOUS
<1>2. IsList(u) /\ Joined(u, s, t)
  BY <1>1, OwnConcat, IsListOf
<1>3. ASSUME NEW i \in DOMAIN u PROVE ChangeFits(u[i])
  <2>1. CASE i \in 1 .. Len(s)
    BY <1>2, <2>1 DEF Joined
  <2>2. ASSUME NEW j \in 1 .. Len(t), i = Len(s) + j PROVE ChangeFits(u[i])
    BY <1>2, <2>2 DEF Joined
  <2>. QED  BY <1>2, <2>1, <2>2 DEF Joined
<1>. QED  BY <1>1, <1>2, <1>3

Fit(s) == IsList(s) /\ \A i \in DOMAIN s : ChangeFits(s[i])

LEMMA FitsEmpty == Fit(<<>>)
BY DEF Fit, IsList, Range

LEMMA FitsOne ==
  ASSUME NEW c, ChangeFits(c)
  PROVE  Fit(<<c>>)
<1>1. <<c>> \in Seq({c}) /\ Range(<<c>>) = {c} /\ DOMAIN <<c>> = {1} /\ <<c>>[1] = c
  BY DEF Range
<1>. QED  BY <1>1 DEF Fit, IsList

LEMMA FitsTwo ==
  ASSUME NEW s, NEW t, Fit(s), Fit(t)
  PROVE  Fit(s \o t)
BY ConcatFits DEF Fit

LEMMA EdgeFits ==
  ASSUME KeysInv, NEW a, NEW b, a.kind \in Bases, b.kind \in Bases
  PROVE  Fit(EdgeBetween(a, b))
<1>1. CASE Mapped(a) /\ Mapped(b)
  <2>1. PICK m, n : m = mappings[a] /\ n = mappings[b]
    OBVIOUS
  <2>2. IsOf(m, Bases) /\ IsOf(n, Bases)
    BY <1>1, <2>1, KeyIsLinked DEF IsOf
  <2>3. PICK c : c = Edge(m, n)
    OBVIOUS
  <2>4. c.kind = "edge" /\ c.origin = m /\ c.destination = n
    BY <2>3 DEF Edge
  <2>5. ChangeFits(c)
    BY <2>2, <2>4 DEF ChangeFits
  <2>6. EdgeBetween(a, b) = <<c>>
    BY <1>1, <2>1, <2>3 DEF EdgeBetween
  <2>. QED  BY <2>5, <2>6, FitsOne
<1>2. CASE ~(Mapped(a) /\ Mapped(b))
  BY <1>2, FitsEmpty DEF EdgeBetween
<1>. QED  BY <1>1, <1>2

LEMMA FitsPair ==
  ASSUME NEW c, NEW d, ChangeFits(c), ChangeFits(d)
  PROVE  Fit(<<c, d>>)
<1>1. <<c, d>> \in Seq({c, d}) /\ DOMAIN <<c, d>> = {1, 2} /\ <<c, d>>[1] = c /\ <<c, d>>[2] = d
  OBVIOUS
<1>2. Range(<<c, d>>) = {c, d}
  BY <1>1 DEF Range
<1>. QED  BY <1>1, <1>2 DEF Fit, IsList

LEMMA ToFits ==
  ASSUME NEW c, c.kind = "to", IsOf(c.origin, {"method"}), c.node.kind \in {"static", "array", "dynamic_return"}
  PROVE  Fit(<<c>>)
BY FitsOne DEF ChangeFits

LEMMA FromFits ==
  ASSUME NEW c, c.kind = "from", IsOf(c.destination, {"method", "field"}),
         c.node.kind \in {"static", "array", "dynamic_argument"},
         c.node.kind = "static" => nodes[c.destination].kind = "field"
  PROVE  Fit(<<c>>) /\ ChangeFits(c)
BY FitsOne DEF ChangeFits

LEMMA FromToFits ==
  ASSUME NEW c, c.kind = "from_to", IsOf(c.origin, {"method"}), IsOf(c.destination, Bases),
         c.node.kind \in {"static", "dynamic_return"},
         c.node.kind = "static" => nodes[c.destination].kind = "method"
  PROVE  Fit(<<c>>)
BY FitsOne DEF ChangeFits

\* Whatever was found, its change sets fit the graph.
LEMMA FindingsFit ==
  ASSUME GraphInv, phase = "collect", at <= Len(Findings), Mapped(Item(Findings).method), NEW made \in ChangesOf
  PROVE  Fit(made)
<1>0. KeysInv
  BY DEF GraphInv
<1>1. /\ find.kind \in FindKinds /\ Item(Findings).method.kind = "method"
      /\ find.kind \in {"get", "put", "field_set"} => Mapped(FieldOf(File(Findings), find.name))
  BY FindIs
<1>2. PICK caller : caller = finder
  OBVIOUS
<1>3. IsOf(caller, {"method"}) /\ IsOf(caller, {"method", "field"}) /\ IsOf(caller, Bases)
  BY <1>0, <1>1, <1>2, KeyIsLinked DEF finder, IsOf, Bases
<1>4. PICK static : static = Static
  OBVIOUS
<1>5. static.kind = "static"
  BY <1>4 DEF Static, Weight
<1>6. PICK said : said = Said
  OBVIOUS
<1>7. said.kind = "dynamic_argument"
  BY <1>6 DEF Said, Weight
<1>8. PICK array : array = Weight("array", find.name)
  OBVIOUS
<1>9. array.kind = "array"
  BY <1>8 DEF Weight
<1>10. PICK field : field = FieldNode
  OBVIOUS
<1>11. ASSUME find.kind \in {"get", "put", "field_set"}
       PROVE  IsOf(field, {"method", "field"}) /\ IsOf(field, Bases) /\ nodes[field].kind = "field"
  <2>1. PICK k : k = FieldOf(File(Findings), find.name)
    OBVIOUS
  <2>2. k.kind = "field"
    BY <2>1 DEF FieldOf, Weight
  <2>3. Mapped(k)
    BY <1>1, <1>11, <2>1
  <2>4. field = mappings[k]
    BY <1>10, <2>1 DEF FieldNode
  <2>. QED  BY <1>0, <2>2, <2>3, <2>4, KeyIsLinked DEF IsOf, Bases
<1>12. ASSUME NEW a, NEW b, IsOf(a, Bases), IsOf(b, Bases) PROVE Fit(<<Edge(a, b)>>) /\ ChangeFits(Edge(a, b))
  <2>1. PICK c : c = Edge(a, b)
    OBVIOUS
  <2>2. c.kind = "edge" /\ c.origin = a /\ c.destination = b
    BY <2>1 DEF Edge
  <2>3. ChangeFits(c)
    BY <1>12, <2>2 DEF ChangeFits
  <2>. QED  BY <2>1, <2>3, FitsOne
<1>13. CASE find.kind = "call"
  <2>1. PICK callee : callee = MethodOf(find.name)
    OBVIOUS
  <2>2. callee.kind = "method"
    BY <2>1 DEF MethodOf, Weight
  <2>3. made = CallChanges
    BY <1>13 DEF ChangesOf
  <2>4. CASE Mapped(callee)
    <3>1. PICK n : n = mappings[callee]
      OBVIOUS
    <3>2. IsOf(n, Bases) /\ nodes[n].kind = "method"
      BY <1>0, <2>2, <2>4, <3>1, KeyIsLinked DEF IsOf, Bases
    <3>3. PICK e, f, g : /\ e = EdgeBetween(Item(Findings).method, callee)
                         /\ f = EdgeBetween(callee, TypeOf(find.name[1]))
                         /\ g = IF find.says = "" THEN <<>> ELSE <<NodeFromTo(caller, n, static, FALSE)>>
      OBVIOUS
    <3>4. made = e \o f \o g
      BY <1>2, <1>4, <2>1, <2>3, <2>4, <3>1, <3>3 DEF CallChanges
    <3>5. Fit(e) /\ Fit(f)
      <4>1. TypeOf(find.name[1]).kind \in Bases /\ Item(Findings).method.kind \in Bases /\ callee.kind \in Bases
        BY <1>1, <2>2 DEF TypeOf, Weight, Bases
      <4>. QED  BY <1>0, <3>3, <4>1, EdgeFits
    <3>6. Fit(g)
      <4>1. PICK c : c = NodeFromTo(caller, n, static, FALSE)
        OBVIOUS
      <4>2. c.kind = "from_to" /\ c.origin = caller /\ c.destination = n /\ c.node = static
        BY <4>1 DEF NodeFromTo
      <4>3. Fit(<<c>>)
        BY <1>3, <1>5, <3>2, <4>2, FromToFits
      <4>. QED  BY <3>3, <4>1, <4>3, FitsEmpty
    <3>. QED  BY <3>4, <3>5, <3>6, FitsTwo
  <2>5. CASE ~Mapped(callee)
    <3>1. made = IF find.says = "" THEN <<>> ELSE <<NodeTo(caller, static, FALSE)>>
      BY <1>2, <1>4, <2>1, <2>3, <2>5 DEF CallChanges
    <3>2. PICK c : c = NodeTo(caller, static, FALSE)
      OBVIOUS
    <3>3. c.kind = "to" /\ c.origin = caller /\ c.node = static
      BY <3>2 DEF NodeTo
    <3>4. Fit(<<c>>)
      BY <1>3, <1>5, <3>3, ToFits
    <3>. QED  BY <3>1, <3>2, <3>4, FitsEmpty
  <2>. QED  BY <2>4, <2>5
<1>14. CASE find.kind = "returned"
  <2>1. PICK w : w = Weight("dynamic_return", <<find.says>>)
    OBVIOUS
  <2>2. w.kind = "dynamic_return"
    BY <2>1 DEF Weight
  <2>3. made = <<NodeTo(caller, w, TRUE)>> \/ \E n \in Middle : made = <<NodeFromTo(caller, n, w, TRUE)>>
    BY <1>2, <1>14, <2>1 DEF ChangesOf, ReturnChanges
  <2>4. ASSUME NEW n \in Middle PROVE IsOf(n, Bases)
    <3>1. PICK k \in DOMAIN mappings : n = mappings[k]
      BY DEF Middle, Range
    <3>2. nodes[n].kind \in Bases
      BY DEF Middle, EndsWith, Bases
    <3>. QED  BY <1>0, <3>1, <3>2, KeyIsLinked DEF IsOf, Mapped
  <2>5. CASE made = <<NodeTo(caller, w, TRUE)>>
    <3>1. PICK c : c = NodeTo(caller, w, TRUE)
      OBVIOUS
    <3>2. c.kind = "to" /\ c.origin = caller /\ c.node = w
      BY <3>1 DEF NodeTo
    <3>3. Fit(<<c>>)
      BY <1>3, <2>2, <3>2, ToFits
    <3>. QED  BY <2>5, <3>1, <3>3
  <2>6. ASSUME NEW n \in Middle, made = <<NodeFromTo(caller, n, w, TRUE)>> PROVE Fit(made)
    <3>1. PICK c : c = NodeFromTo(caller, n, w, TRUE)
      OBVIOUS
    <3>2. c.kind = "from_to" /\ c.origin = caller /\ c.destination = n /\ c.node = w
      BY <3>1 DEF NodeFromTo
    <3>3. Fit(<<c>>)
      BY <1>3, <2>2, <2>4, <3>2, FromToFits
    <3>. QED  BY <2>6, <3>1, <3>3
  <2>. QED  BY <2>3, <2>5, <2>6
<1>15. CASE find.kind = "string"
  <2>1. made = EdgeBetween(Item(Findings).method, StringOf(find.name[1]))
    BY <1>15 DEF ChangesOf
  <2>2. Item(Findings).method.kind \in Bases /\ StringOf(find.name[1]).kind \in Bases
    BY <1>1 DEF StringOf, Weight, Bases
  <2>. QED  BY <1>0, <2>1, <2>2, EdgeFits
<1>16. CASE find.kind = "get"
  <2>1. made = <<Edge(field, caller)>>
    BY <1>2, <1>10, <1>16 DEF ChangesOf
  <2>. QED  BY <1>3, <1>11, <1>12, <1>16, <2>1
<1>17. CASE find.kind = "put"
  <2>1. PICK e, n : e = Edge(caller, field) /\ n = NodeFrom(field, static, FALSE)
    OBVIOUS
  <2>2. made = <<e, n>>
    BY <1>2, <1>4, <1>10, <1>17, <2>1 DEF ChangesOf
  <2>3. n.kind = "from" /\ n.destination = field /\ n.node = static
    BY <2>1 DEF NodeFrom
  <2>4. ChangeFits(n)
    BY <1>5, <1>11, <1>17, <2>3, FromFits
  <2>5. ChangeFits(e)
    BY <1>3, <1>11, <1>12, <1>17, <2>1
  <2>. QED  BY <2>2, <2>4, <2>5, FitsPair
<1>18. CASE find.kind = "array"
  <2>1. made = <<NodeTo(caller, array, FALSE)>>
    BY <1>2, <1>8, <1>18 DEF ChangesOf
  <2>2. PICK c : c = NodeTo(caller, array, FALSE)
    OBVIOUS
  <2>3. c.kind = "to" /\ c.origin = caller /\ c.node = array
    BY <2>2 DEF NodeTo
  <2>4. Fit(<<c>>)
    BY <1>3, <1>9, <2>3, ToFits
  <2>. QED  BY <2>1, <2>2, <2>4
<1>19. CASE find.kind = "passed"
  <2>1. made = <<NodeFrom(caller, said, TRUE)>>
    BY <1>2, <1>6, <1>19 DEF ChangesOf
  <2>2. PICK c : c = NodeFrom(caller, said, TRUE)
    OBVIOUS
  <2>3. c.kind = "from" /\ c.destination = caller /\ c.node = said
    BY <2>2 DEF NodeFrom
  <2>4. Fit(<<c>>)
    BY <1>3, <1>7, <2>3, FromFits
  <2>. QED  BY <2>1, <2>2, <2>4
<1>20. CASE find.kind = "array_passed"
  <2>1. made = <<NodeFrom(caller, array, FALSE)>>
    BY <1>2, <1>8, <1>20 DEF ChangesOf
  <2>2. PICK c : c = NodeFrom(caller, array, FALSE)
    OBVIOUS
  <2>3. c.kind = "from" /\ c.destination = caller /\ c.node = array
    BY <2>2 DEF NodeFrom
  <2>4. Fit(<<c>>)
    BY <1>3, <1>9, <2>3, FromFits
  <2>. QED  BY <2>1, <2>2, <2>4
<1>21. CASE find.kind = "field_set"
  <2>1. made = <<NodeFrom(field, said, TRUE)>>
    BY <1>6, <1>10, <1>21 DEF ChangesOf
  <2>2. PICK c : c = NodeFrom(field, said, TRUE)
    OBVIOUS
  <2>3. c.kind = "from" /\ c.destination = field /\ c.node = said
    BY <2>2 DEF NodeFrom
  <2>4. Fit(<<c>>)
    BY <1>7, <1>11, <1>21, <2>3, FromFits
  <2>. QED  BY <2>1, <2>2, <2>4
<1>. QED  BY <1>1, <1>13, <1>14, <1>15, <1>16, <1>17, <1>18, <1>19, <1>20, <1>21 DEF FindKinds

LEMMA Collects ==
  ASSUME GraphInv, LoadInv', UNCHANGED app, app # <<>>, Collect
  PROVE  GraphInv'
<1>1. phase = "collect" /\ at <= Len(Findings) /\ at \in Nat \ {0} /\ phase' = phase /\ at' = at + 1
  BY DEF GraphInv, GraphType, Collect, Has, Onward
<1>2. UNCHANGED <<nodes, edges, mappings, interfaces>>
  BY DEF Collect
<1>3. Grown
  BY <1>2 DEF Grown
<1>4. PreparedInv'
  BY <1>1, <1>3, PreparedStays DEF GraphInv, GraphType, Preparing
<1>5. Fit(changes)
  BY DEF GraphInv, GraphType, ChangesInv, Fit
<1>6. Fit(changes')
  <2>1. CASE UNCHANGED changes
    BY <1>5, <2>1
  <2>2. CASE ~UNCHANGED changes
    <3>1. PICK made \in ChangesOf : Mapped(Item(Findings).method) /\ changes' = changes \o made
      BY <2>2 DEF Collect
    <3>. QED  BY <1>1, <1>5, <3>1, FindingsFit, FitsTwo
  <2>. QED  BY <2>1, <2>2
<1>7. ChangesInv' /\ IsList(changes')
  <2>1. ASSUME NEW c, ChangeFits(c) PROVE ChangeFits(c)'
    BY <1>3, <2>1, ChangeStays
  <2>2. ASSUME NEW i \in DOMAIN changes' PROVE ChangeFits(changes[i])'
    <3>1. PICK c : c = changes'[i]
      OBVIOUS
    <3>2. ChangeFits(c)'
      BY <1>6, <2>1, <3>1 DEF Fit
    <3>. QED  BY <3>1, <3>2 DEF ChangeFits, IsOf, Linked
  <2>. QED  BY <1>6, <2>2 DEF ChangesInv, Fit
<1>8. GraphType' /\ KeysInv' /\ QuietInv'
  BY <1>1, <1>2, <1>7 DEF GraphInv, GraphType, KeysInv, QuietInv, Phases, Preparing
<1>9. EdgesInv' /\ BasesInv' /\ InterfacesInv' /\ MergedInv'
  BY <1>1, <1>2, <1>3, OthersStay DEF GraphInv, EdgesInv, BasesInv, MergedInv, Merges, Linked, Mapped
<1>. QED  BY <1>4, <1>7, <1>8, <1>9 DEF GraphInv

(***************************************************************************)
(* add_to_graph                                                            *)
(***************************************************************************)
\* The node of a change set is new, or one that follows where already.
LEMMA PlacedIs ==
  ASSUME IsList(nodes), NEW where, NEW w, NEW n \in Placed(where, w)
  PROVE  \/ n \in DOMAIN nodes /\ nodes[n] = w /\ <<where, n>> \in edges
         \/ n = NewNode /\ \A m \in DOMAIN nodes : <<where, m>> \in edges => nodes[m] # w
BY DEF Placed, Successors

LEMMA KeepIs ==
  ASSUME NEW n
  PROVE  Keep(n) = mappings \/ (~Mapped(change.node) /\ Keep(n) = Keyed(change.node, n))
BY DEF Keep

LEMMA AddedGrows ==
  ASSUME GraphInv, NEW where, NEW w, w = change.node, w.kind \notin Bases, NEW n \in Placed(where, w), NEW new,
         Added(where, n, new)
  PROVE  /\ Grown /\ KeysInv' /\ IsList(nodes') /\ Linked(n)' /\ nodes'[n] = w
         /\ edges' = edges \cup new
<1>0. IsList(nodes) /\ KeysInv
  BY DEF GraphInv, GraphType
<1>1. nodes' = (IF n = NewNode THEN Append(nodes, w) ELSE nodes) /\ mappings' = Keep(n) /\ edges' = edges \cup new
  BY DEF Added
<1>2. NewNode \notin DOMAIN nodes
  BY <1>0, ListAppend DEF NewNode
<1>3. n \in DOMAIN nodes' /\ nodes'[n] = w /\ IsList(nodes')
      /\ \A m \in DOMAIN nodes : m \in DOMAIN nodes' /\ nodes'[m] = nodes[m]
  <2>1. CASE n = NewNode
    <3>1. nodes' = Append(nodes, w)
      BY <1>1, <2>1
    <3>. QED  BY <1>0, <2>1, <3>1, NewNodeIs
  <2>2. CASE n # NewNode
    <3>1. n \in DOMAIN nodes /\ nodes[n] = w
      BY <2>2 DEF Placed, Successors
    <3>2. nodes' = nodes
      BY <1>1, <2>2
    <3>. QED  BY <1>0, <3>1, <3>2
  <2>. QED  BY <2>1, <2>2
<1>4. mappings' = mappings \/ (~Mapped(w) /\ mappings' = Keyed(w, n))
  BY <1>1, KeepIs
<1>5. Grown
  BY <1>3, <1>4 DEF Grown, Keyed, Mapped
<1>6. KeysInv'
  BY <1>0, <1>3, <1>4 DEF KeysInv, Keyed
<1>7. Linked(n)'
  BY <1>3 DEF Linked
<1>. QED  BY <1>1, <1>3, <1>5, <1>6, <1>7

\* The rest of the invariant, once edges are known to be right.
LEMMA AddStep ==
  ASSUME GraphInv, LoadInv', UNCHANGED app, app # <<>>, phase = "add", Onward, UNCHANGED <<interfaces, changes>>,
         Grown, KeysInv', IsList(nodes'), EdgesInv', MergedInv'
  PROVE  GraphInv'
<1>1. phase' = phase /\ at' = at + 1 /\ at \in Nat \ {0}
  BY DEF Onward, GraphInv, GraphType
<1>2. PreparedInv'
  BY PreparedStays DEF GraphInv, GraphType, Preparing
<1>3. InterfacesInv' /\ ChangesInv'
  BY OthersStay DEF GraphInv
<1>4. GraphType' /\ QuietInv' /\ BasesInv'
  BY <1>1 DEF GraphInv, GraphType, QuietInv, BasesInv, Phases, Preparing
<1>. QED  BY <1>2, <1>3, <1>4 DEF GraphInv

LEMMA ChangeIs ==
  ASSUME GraphInv, Has("add", changes)
  PROVE  at \in DOMAIN changes /\ ChangeFits(change)
<1>1. IsList(changes) /\ at \in Nat \ {0} /\ at <= Len(changes)
  BY DEF GraphInv, GraphType, Has
<1>2. at \in DOMAIN changes
  BY <1>1, ListFacts
<1>. QED  BY <1>2 DEF GraphInv, ChangesInv, change

LEMMA Adds ==
  ASSUME GraphInv, LoadInv', UNCHANGED app, app # <<>>, AddEdge \/ AddNodeTo \/ AddNodeFrom \/ AddNodeFromTo
  PROVE  GraphInv'
<1>0. /\ Has("add", changes) /\ Onward /\ UNCHANGED <<interfaces, changes>> /\ phase = "add"
      /\ EdgesInv /\ MergedInv /\ KeysInv /\ IsList(nodes)
  BY DEF AddEdge, AddNodeTo, AddNodeFrom, AddNodeFromTo, Has, Added, GraphInv, GraphType
<1>1. PICK c : c = change
  OBVIOUS
<1>2. ChangeFits(c)
  BY <1>0, <1>1, ChangeIs
<1>3. PICK w : w = c.node
  OBVIOUS
<1>4. CASE AddEdge
  <2>1. c.kind = "edge" /\ UNCHANGED <<nodes, mappings>>
    BY <1>1, <1>4 DEF AddEdge
  <2>2. PICK new : new = {<<c.origin, c.destination>>}
    OBVIOUS
  <2>3. edges' = edges \cup new
    BY <1>1, <1>4, <2>2 DEF AddEdge
  <2>4. Grown /\ KeysInv' /\ IsList(nodes')
    BY <1>0, <2>1 DEF Grown, KeysInv
  <2>5. IsOf(c.origin, Bases) /\ IsOf(c.destination, Bases)
    BY <1>2, <2>1 DEF ChangeFits
  <2>6. Linked(c.origin)' /\ Linked(c.destination)' /\ nodes'[c.destination].kind \in Bases
    BY <2>4, <2>5, LinkedStays DEF IsOf
  <2>7. \A e \in new : e = <<e[1], e[2]>> /\ Linked(e[1])' /\ Linked(e[2])' /\ nodes'[e[2]].kind \in Bases
    BY <2>2, <2>6
  <2>8. EdgesInv' /\ MergedInv'
    BY <1>0, <2>3, <2>4, <2>7, EdgesGrow, BaseEdgesMergeNothing
  <2>. QED  BY <1>0, <2>4, <2>8, AddStep
<1>5. CASE AddNodeTo
  <2>1. c.kind = "to"
    BY <1>1, <1>5 DEF AddNodeTo
  <2>2. IsOf(c.origin, {"method"}) /\ w.kind \in {"static", "array", "dynamic_return"}
    BY <1>2, <1>3, <2>1 DEF ChangeFits
  <2>3. PICK n \in Placed(c.origin, w) : Added(c.origin, n, {<<n, c.origin>>})
    BY <1>1, <1>3, <1>5 DEF AddNodeTo
  <2>4. PICK new : new = {<<n, c.origin>>}
    OBVIOUS
  <2>5. Grown /\ KeysInv' /\ IsList(nodes') /\ Linked(n)' /\ nodes'[n] = w /\ edges' = edges \cup new
    BY <1>1, <1>3, <2>2, <2>3, <2>4, AddedGrows DEF Bases
  <2>6. Linked(c.origin)' /\ nodes'[c.origin].kind \in Bases
    BY <2>2, <2>5, LinkedStays DEF IsOf, Bases
  <2>7. \A e \in new : e = <<e[1], e[2]>> /\ Linked(e[1])' /\ Linked(e[2])' /\ nodes'[e[2]].kind \in Bases
    BY <2>4, <2>5, <2>6
  <2>8. EdgesInv' /\ MergedInv'
    BY <1>0, <2>5, <2>7, EdgesGrow, BaseEdgesMergeNothing
  <2>. QED  BY <1>0, <2>5, <2>8, AddStep
<1>6. CASE AddNodeFrom
  <2>1. c.kind = "from"
    BY <1>1, <1>6 DEF AddNodeFrom
  <2>2. IsOf(c.destination, {"method", "field"}) /\ w.kind \in {"static", "array", "dynamic_argument"}
    BY <1>2, <1>3, <2>1 DEF ChangeFits
  <2>3. PICK d : d = c.destination
    OBVIOUS
  <2>4. PICK n \in Placed(d, w) : Added(d, n, {<<d, n>>})
    BY <1>1, <1>3, <1>6, <2>3 DEF AddNodeFrom
  <2>5. PICK new : new = {<<d, n>>}
    OBVIOUS
  <2>6. Grown /\ KeysInv' /\ IsList(nodes') /\ Linked(n)' /\ nodes'[n] = w /\ edges' = edges \cup new
    BY <1>1, <1>3, <2>2, <2>4, <2>5, AddedGrows DEF Bases
  <2>7. Linked(d)'
    BY <2>2, <2>3, <2>6, LinkedStays DEF IsOf
  <2>8. EdgesInv'
    BY <1>0, <2>5, <2>6, <2>7, EdgesGrow
  <2>9. MergedInv'
    <3>1. ASSUME Merges(d, n)', NEW e \in edges, e[1] = d, nodes'[e[2]] = w PROVE e[2] = n
      <4>1. e = <<e[1], e[2]>> /\ e[2] \in DOMAIN nodes /\ nodes[e[2]] = w
        BY <1>0, <2>6, <3>1, LinkedStays DEF EdgesInv
      <4>2. <<d, e[2]>> \in edges
        BY <3>1, <4>1
      <4>3. n \in DOMAIN nodes /\ nodes[n] = w /\ <<d, n>> \in edges
        BY <1>0, <4>1, <4>2, PlacedIs
      <4>4. PICK g \in edges : g = <<d, n>>
        BY <4>3
      <4>5. Merges(g[1], g[2])
        <5>1. Merges(g[1], g[2])'
          BY <3>1, <4>4
        <5>. QED  BY <1>0, <2>6, <5>1, MergesStay
      <4>6. g[1] = e[1] /\ nodes[g[2]] = nodes[e[2]]
        BY <3>1, <4>1, <4>3, <4>4
      <4>. QED  BY <1>0, <4>4, <4>5, <4>6 DEF MergedInv
    <3>2. \A x \in new : x[1] = d /\ x[2] = n
      BY <2>5
    <3>3. \A x \in new : Merges(x[1], x[2])' =>
             \A e \in edges' : x[1] = e[1] /\ nodes'[x[2]] = nodes'[e[2]] => x[2] = e[2]
      <4>1. SUFFICES ASSUME Merges(d, n)', NEW e \in edges', d = e[1], nodes'[n] = nodes'[e[2]] PROVE n = e[2]
        BY <3>2
      <4>2. CASE e \in edges
        BY <2>6, <3>1, <4>1, <4>2
      <4>3. CASE e \in new
        BY <3>2, <4>3
      <4>. QED  BY <2>6, <4>2, <4>3
    <3>. QED  BY <1>0, <2>6, <3>3, MergedGrow
  <2>. QED  BY <1>0, <2>6, <2>8, <2>9, AddStep
<1>7. CASE AddNodeFromTo
  <2>1. c.kind = "from_to"
    BY <1>1, <1>7 DEF AddNodeFromTo
  <2>2. IsOf(c.origin, {"method"}) /\ IsOf(c.destination, Bases) /\ w.kind \in {"static", "dynamic_return"}
    BY <1>2, <1>3, <2>1 DEF ChangeFits
  <2>3. PICK a, d : a = c.origin /\ d = c.destination
    OBVIOUS
  <2>4. PICK n \in Placed(d, w) : Added(d, n, {<<a, n>>, <<n, d>>})
    BY <1>1, <1>3, <1>7, <2>3 DEF AddNodeFromTo, Through
  <2>5. PICK new : new = {<<a, n>>, <<n, d>>}
    OBVIOUS
  <2>6. Grown /\ KeysInv' /\ IsList(nodes') /\ Linked(n)' /\ nodes'[n] = w /\ edges' = edges \cup new
    BY <1>1, <1>3, <2>2, <2>4, <2>5, AddedGrows DEF Bases
  <2>7. Linked(a)' /\ Linked(d)' /\ nodes'[a].kind = "method" /\ nodes'[d].kind \in Bases
    BY <2>2, <2>3, <2>6, LinkedStays DEF IsOf
  <2>8. EdgesInv'
    <3>1. \A e \in new : e = <<e[1], e[2]>> /\ Linked(e[1])' /\ Linked(e[2])'
      BY <2>5, <2>6, <2>7
    <3>. QED  BY <1>0, <2>6, <3>1, EdgesGrow
  <2>9. ASSUME NEW e \in new PROVE ~Merges(e[1], e[2])'
    <3>1. CASE e = <<a, n>>
      BY <2>2, <2>6, <2>7, <3>1 DEF Merges
    <3>2. CASE e = <<n, d>>
      BY <2>7, <3>2 DEF Merges, Bases
    <3>. QED  BY <2>5, <3>1, <3>2
  <2>10. MergedInv'
    BY <1>0, <2>6, <2>9, MergedGrow
  <2>. QED  BY <1>0, <2>6, <2>8, <2>10, AddStep
<1>. QED  BY <1>4, <1>5, <1>6, <1>7

LEMMA GraphSteps == GraphInv /\ [Next]_vars => GraphInv'
<1>. SUFFICES ASSUME GraphInv, [Next]_vars PROVE GraphInv'
  OBVIOUS
<1>1. LoadInv'
  BY LoadSteps DEF GraphInv
<1>2. CASE UNCHANGED vars
  <2>1. UNCHANGED <<app, phase, at, nodes, edges, mappings, interfaces, changes>>
    BY <1>2 DEF vars, loadVars, graphVars
  <2>2. Grown
    BY <2>1 DEF Grown
  <2>3. GraphType' /\ KeysInv' /\ QuietInv' /\ PreparedInv'
    BY <2>1, ItemsStay DEF GraphInv, GraphType, KeysInv, QuietInv, PreparedInv, Passed, Mapped
  <2>4. EdgesInv' /\ BasesInv' /\ InterfacesInv' /\ ChangesInv' /\ MergedInv'
    BY <2>1, <2>2, OthersStay DEF GraphInv, EdgesInv, BasesInv, MergedInv, Merges, Linked, Mapped
  <2>. QED  BY <1>1, <2>3, <2>4 DEF GraphInv
<1>3. CASE LoadNext /\ UNCHANGED graphVars
  BY <1>1, <1>3, LoadKeepsGraph
<1>4. CASE app # <<>> /\ Build /\ UNCHANGED loadVars
  <2>1. UNCHANGED app
    BY <1>4 DEF loadVars
  <2>2. CASE AddType \/ AddField \/ AddMethod \/ AddString
    BY <1>1, <1>4, <2>1, <2>2, Prepares
  <2>3. CASE AddClass
    BY <1>1, <1>4, <2>1, <2>3, ClassAdds
  <2>4. CASE SkipClass \/ Panic \/ Cancel
    BY <1>1, <1>4, <2>1, <2>4, ClassIsSkipped
  <2>5. CASE Collect
    BY <1>1, <1>4, <2>1, <2>5, Collects
  <2>6. CASE AddEdge \/ AddNodeTo \/ AddNodeFrom \/ AddNodeFromTo
    BY <1>1, <1>4, <2>1, <2>6, Adds
  <2>7. CASE NextPhase
    BY <1>1, <1>4, <2>1, <2>7, PhaseEnds
  <2>. QED  BY <1>4, <2>2, <2>3, <2>4, <2>5, <2>6, <2>7 DEF Build
<1>. QED  BY <1>2, <1>3, <1>4 DEF Next

LEMMA GraphAlways == Spec => []GraphInv
BY GraphBegins, GraphSteps, PTL DEF Spec

\* However many files name a type, class, field, method or string, its edges are at the node that
\* its key leads to, which has its weight.
THEOREM OnlyMappedAreLinkedAlways == Spec => []OnlyMappedAreLinked
<1>1. GraphInv => OnlyMappedAreLinked
  <2>. SUFFICES ASSUME GraphInv PROVE OnlyMappedAreLinked
    OBVIOUS
  <2>1. \A k \in DOMAIN mappings : nodes[mappings[k]] = k
    BY DEF GraphInv, KeysInv
  <2>2. ASSUME NEW e \in edges, NEW n \in {e[1], e[2]}, Kind(n) \in Bases PROVE mappings[nodes[n]] = n
    BY <2>2 DEF GraphInv, EdgesInv, Linked, Kind
  <2>. QED  BY <2>1, <2>2 DEF OnlyMappedAreLinked, Bases
<1>. QED  BY <1>1, GraphAlways, PTL

\* What several methods write to a field, or one method passes several times, is one node.
THEOREM WrittenOnceAlways == Spec => []WrittenOnce
<1>1. GraphInv => WrittenOnce
  <2>. SUFFICES ASSUME GraphInv,
                       NEW n \in DOMAIN nodes, NEW m \in DOMAIN nodes, n # m, nodes[n] = nodes[m],
                       Kind(n) \in {"static", "array", "dynamic_argument"},
                       NEW f \in DOMAIN nodes, {<<f, n>>, <<f, m>>} \subseteq edges, Kind(n) = "static" => Kind(f) = "field"
                PROVE  FALSE
    BY DEF WrittenOnce
  <2>1. PICK d \in edges, e \in edges : d = <<f, n>> /\ e = <<f, m>>
    OBVIOUS
  <2>2. d[1] = e[1] /\ nodes[d[2]] = nodes[e[2]] /\ Merges(d[1], d[2])
    BY <2>1 DEF Merges, Kind
  <2>3. d[2] = e[2]
    BY <2>2 DEF GraphInv, MergedInv
  <2>. QED  BY <2>1, <2>3
<1>. QED  BY <1>1, GraphAlways, PTL

-----------------------------------------------------------------------------
(* Arguments.  A static argument stands between two methods because of a   *)
(* call that passed it; GivenInv follows it from the finding to the change *)
(* set and to the two edges, the other parts follow it back.               *)

StaticOf(x) == Weight("static", x.method.name \o <<x.find.says>>)
Passes(x)   == x.find.kind = "call" /\ Mapped(x.method) /\ x.find.says # ""
Inside(x)   == Mapped(MethodOf(x.find.name))
\* What is passed to a method that is not in the graph is said to be passed to the caller.
Target(x)   == IF Inside(x) THEN mappings[MethodOf(x.find.name)] ELSE mappings[x.method]

GivenBy(from, w) ==
  \E i \in DOMAIN Findings : LET x == Findings[i][2] IN Passes(x) /\ w = StaticOf(x) /\ from = mappings[x.method]
GivenTo(w, to) ==
  \E i \in DOMAIN Findings : LET x == Findings[i][2] IN Passes(x) /\ w = StaticOf(x) /\ to = Target(x)
ChangeGiven(c) ==
  /\ c.kind = "to" /\ c.node.kind = "static" => GivenTo(c.node, c.origin)
  /\ c.kind = "from_to" /\ c.node.kind = "static" => GivenBy(c.origin, c.node) /\ GivenTo(c.node, c.destination)
GivenInv ==
  /\ \A i \in DOMAIN changes : ChangeGiven(changes[i])
  /\ \A e \in edges : nodes[e[1]].kind = "method" /\ nodes[e[2]].kind = "static" => GivenBy(e[1], nodes[e[2]])
  /\ \A e \in edges : nodes[e[1]].kind = "static" /\ nodes[e[2]].kind = "method" => GivenTo(nodes[e[1]], e[2])

\* A call's arguments are asked for, and what was asked for is there.
BeforeCollect == Preparing \cup {"inheritance", "failed"}
AsksFor(c, x) ==
  /\ c.kind = "from_to" /\ c.node = StaticOf(x)
  /\ c.origin = mappings[x.method] /\ c.destination = mappings[MethodOf(x.find.name)]
CollectedInv ==
  \A i \in DOMAIN Findings :
    LET x == Findings[i][2]
    IN Passed("collect", BeforeCollect, i) /\ Passes(x) /\ Inside(x) => \E j \in DOMAIN changes : AsksFor(changes[j], x)
Realised(c) == \E n \in DOMAIN nodes : nodes[n] = c.node /\ <<c.origin, n>> \in edges /\ <<n, c.destination>> \in edges
RealisedInv ==
  \A j \in DOMAIN changes :
    Passed("add", BeforeCollect \cup {"collect"}, j) /\ changes[j].kind = "from_to" => Realised(changes[j])

ArgInv == GivenInv /\ CollectedInv /\ RealisedInv

(***************************************************************************)
(* What stays given                                                        *)
(***************************************************************************)
LEMMA FoundMethod ==
  ASSUME GraphInv, NEW i \in DOMAIN Findings
  PROVE  \E a, b : Findings[i][2].method = MethodOf(<<a, b>>) /\ Findings[i][2].method.kind = "method"
<1>0. AppInv
  BY DEF GraphInv, LoadInv
<1>1. PICK k \in DOMAIN Classes : \E j \in DOMAIN Classes[k][2].codes :
         \E n \in DOMAIN Classes[k][2].codes[j].finds : Findings[i] = FoundIn(k, j, n)
  BY <1>0, FindingsAre
<1>2. PICK j \in DOMAIN Classes[k][2].codes :
         \E n \in DOMAIN Classes[k][2].codes[j].finds : Findings[i] = FoundIn(k, j, n)
  BY <1>1
<1>3. PICK n \in DOMAIN Classes[k][2].codes[j].finds : Findings[i] = FoundIn(k, j, n)
  BY <1>2
<1>4. PICK a, b : a = Classes[k][2].name /\ b = Classes[k][2].codes[j].sig
  OBVIOUS
<1>5. Findings[i][2].method = MethodOf(<<a, b>>)
  BY <1>3, <1>4 DEF FoundIn
<1>6. Findings[i][2].method.kind = "method"
  BY <1>5 DEF MethodOf, Weight
<1>. QED  BY <1>5, <1>6

LEMMA AddedKeeps ==
  ASSUME NEW where, NEW n, NEW new, change.node.kind \notin Bases, Added(where, n, new)
  PROVE  \A k : k.kind = "method" /\ Mapped(k)' => Mapped(k)
<1>1. mappings' = mappings \/ mappings' = Keyed(change.node, n)
  BY KeepIs DEF Added
<1>. QED  BY <1>1 DEF Keyed, Mapped, Bases

\* Once the files have been gone through, no method gets or loses its node.
LEMMA StepGrows ==
  ASSUME GraphInv, [Next]_vars, phase \notin Preparing
  PROVE  Grown /\ UNCHANGED app /\ app # <<>> /\ \A k : k.kind = "method" /\ Mapped(k)' => Mapped(k)
<1>0. app # <<>> /\ IsList(nodes)
  BY DEF GraphInv, GraphType, Preparing
<1>1. ASSUME UNCHANGED <<nodes, mappings>> PROVE Grown /\ \A k : Mapped(k)' => Mapped(k)
  BY <1>1 DEF Grown, Mapped
<1>2. CASE UNCHANGED vars
  BY <1>0, <1>1, <1>2 DEF vars, loadVars, graphVars
<1>3. CASE LoadNext /\ UNCHANGED graphVars
  <2>1. UNCHANGED <<nodes, mappings, app>>
    BY <1>0, <1>3 DEF graphVars, LoadNext, Work, Load, ListBare, BeginImplementations, ListSubclass, ListImplementation, ListClass
  <2>. QED  BY <1>0, <1>1, <2>1
<1>4. CASE Build /\ UNCHANGED loadVars
  <2>0. UNCHANGED app
    BY <1>4 DEF loadVars
  <2>1. CASE AddType \/ AddField \/ AddMethod \/ AddString
    BY <2>1 DEF AddType, AddField, AddMethod, AddString, Has, Preparing
  <2>2. CASE AddClass
    <3>1. PICK key : key = ClassOf(called)
      OBVIOUS
    <3>2. nodes' = Append(nodes, key) /\ mappings' = Keyed(key, NewNode) /\ ~Mapped(key) /\ key.kind = "class"
      BY <2>2, <3>1 DEF AddClass, IsNew, ClassOf, Weight
    <3>3. Grown
      BY <1>0, <3>2, NewNodeIs DEF Grown, Keyed, Mapped
    <3>4. \A k : k.kind = "method" /\ Mapped(k)' => Mapped(k)
      BY <3>2 DEF Keyed, Mapped
    <3>. QED  BY <1>0, <2>0, <3>3, <3>4
  <2>3. CASE SkipClass \/ Panic \/ Cancel \/ Collect \/ AddEdge \/ NextPhase
    <3>1. UNCHANGED <<nodes, mappings>>
      BY <2>3 DEF SkipClass, Panic, Unchanged, Cancel, Collect, AddEdge, NextPhase, After
    <3>. QED  BY <1>0, <1>1, <2>0, <3>1
  <2>4. CASE AddNodeTo \/ AddNodeFrom \/ AddNodeFromTo
    <3>1. PICK where, new : \E n \in Placed(where, change.node) : Added(where, n, new)
      BY <2>4 DEF AddNodeTo, AddNodeFrom, AddNodeFromTo
    <3>2. PICK n \in Placed(where, change.node) : Added(where, n, new)
      BY <3>1
    <3>3. Has("add", changes)
      BY <2>4 DEF AddNodeTo, AddNodeFrom, AddNodeFromTo
    <3>4. change.node.kind \notin Bases
      <4>1. ChangeFits(change) /\ change.kind \in {"to", "from", "from_to"}
        BY <2>4, <3>3, ChangeIs DEF AddNodeTo, AddNodeFrom, AddNodeFromTo
      <4>. QED  BY <4>1 DEF ChangeFits, Bases
    <3>5. PICK w : w = change.node
      OBVIOUS
    <3>6. Grown
      BY <3>2, <3>4, <3>5, AddedGrows
    <3>7. \A k : k.kind = "method" /\ Mapped(k)' => Mapped(k)
      BY <3>2, <3>4, AddedKeeps
    <3>. QED  BY <1>0, <2>0, <3>6, <3>7
  <2>. QED  BY <1>4, <2>1, <2>2, <2>3, <2>4 DEF Build
<1>. QED  BY <1>2, <1>3, <1>4 DEF Next

LEMMA FindStays ==
  ASSUME GraphInv, [Next]_vars, phase \notin Preparing, NEW x, x.method.kind = "method"
  PROVE  /\ Passes(x)' <=> Passes(x)
         /\ Inside(x)' <=> Inside(x)
         /\ Passes(x) => mappings'[x.method] = mappings[x.method] /\ (Target(x))' = Target(x)
<1>1. Grown /\ \A k : k.kind = "method" /\ Mapped(k)' => Mapped(k)
  BY StepGrows
<1>2. PICK m, c : m = x.method /\ c = MethodOf(x.find.name)
  OBVIOUS
<1>3. m.kind = "method" /\ c.kind = "method"
  BY <1>2 DEF MethodOf, Weight
<1>4. (Mapped(m)' <=> Mapped(m)) /\ (Mapped(c)' <=> Mapped(c))
  BY <1>1, <1>3 DEF Grown, Mapped
<1>5. (Mapped(m) => mappings'[m] = mappings[m]) /\ (Mapped(c) => mappings'[c] = mappings[c])
  BY <1>1 DEF Grown, Mapped
<1>6. (Passes(x)' <=> Passes(x)) /\ (Inside(x)' <=> Inside(x))
  BY <1>2, <1>4 DEF Passes, Inside
<1>7. Passes(x) => mappings'[m] = mappings[m] /\ (Target(x))' = Target(x)
  BY <1>2, <1>4, <1>5 DEF Passes, Inside, Target
<1>. QED  BY <1>2, <1>6, <1>7

LEMMA GivenStays ==
  ASSUME GraphInv, [Next]_vars, phase \notin Preparing
  PROVE  /\ \A from, w : GivenBy(from, w) => GivenBy(from, w)'
         /\ \A w, to : GivenTo(w, to) => GivenTo(w, to)'
<1>1. Findings' = Findings
  BY StepGrows, ItemsStay
<1>2. ASSUME NEW from, NEW w, GivenBy(from, w) PROVE GivenBy(from, w)'
  <2>1. PICK i \in DOMAIN Findings : LET x == Findings[i][2] IN Passes(x) /\ w = StaticOf(x) /\ from = mappings[x.method]
    BY <1>2 DEF GivenBy
  <2>2. PICK x : x = Findings[i][2]
    OBVIOUS
  <2>3. x.method.kind = "method" /\ Passes(x) /\ w = StaticOf(x) /\ from = mappings[x.method]
    BY <2>1, <2>2, FoundMethod
  <2>4. Passes(x)' /\ from = mappings'[x.method]
    BY <2>3, FindStays
  <2>5. x = Findings'[i][2] /\ i \in DOMAIN Findings'
    BY <1>1, <2>2
  <2>. QED  BY <2>3, <2>4, <2>5 DEF GivenBy, Passes
<1>3. ASSUME NEW w, NEW to, GivenTo(w, to) PROVE GivenTo(w, to)'
  <2>1. PICK i \in DOMAIN Findings : LET x == Findings[i][2] IN Passes(x) /\ w = StaticOf(x) /\ to = Target(x)
    BY <1>3 DEF GivenTo
  <2>2. PICK x : x = Findings[i][2]
    OBVIOUS
  <2>3. x.method.kind = "method" /\ Passes(x) /\ w = StaticOf(x) /\ to = Target(x)
    BY <2>1, <2>2, FoundMethod
  <2>4. Passes(x)' /\ to = Target(x)'
    BY <2>3, FindStays
  <2>5. x = Findings'[i][2] /\ i \in DOMAIN Findings'
    BY <1>1, <2>2
  <2>. QED  BY <2>3, <2>4, <2>5 DEF GivenTo, Passes, Target, Inside
<1>. QED  BY <1>2, <1>3

LEMMA GivenKeeps ==
  ASSUME GraphInv, GraphInv', [Next]_vars, phase \notin Preparing, GivenInv, NEW new, edges' = edges \cup new,
         \A i \in DOMAIN changes' : ChangeGiven(changes'[i]),
         \A e \in new : /\ nodes'[e[1]].kind = "method" /\ nodes'[e[2]].kind = "static" => GivenBy(e[1], nodes'[e[2]])
                        /\ nodes'[e[1]].kind = "static" /\ nodes'[e[2]].kind = "method" => GivenTo(nodes'[e[1]], e[2])
  PROVE  GivenInv'
<1>1. /\ \A from, w : GivenBy(from, w) => GivenBy(from, w)'
      /\ \A w, to : GivenTo(w, to) => GivenTo(w, to)'
  BY GivenStays
<1>2. ASSUME NEW c, ChangeGiven(c) PROVE ChangeGiven(c)'
  BY <1>1, <1>2 DEF ChangeGiven
<1>3. ASSUME NEW i \in DOMAIN changes' PROVE ChangeGiven(changes[i])'
  <2>1. PICK c : c = changes'[i]
    OBVIOUS
  <2>2. ChangeGiven(c)'
    BY <1>2, <2>1
  <2>. QED  BY <2>1, <2>2 DEF ChangeGiven, GivenBy, GivenTo
<1>4. \A e \in edges : nodes'[e[1]] = nodes[e[1]] /\ nodes'[e[2]] = nodes[e[2]]
  BY StepGrows, LinkedStays DEF GraphInv, EdgesInv
<1>5. ASSUME NEW e \in edges'
      PROVE  /\ nodes'[e[1]].kind = "method" /\ nodes'[e[2]].kind = "static" => GivenBy(e[1], nodes'[e[2]])
             /\ nodes'[e[1]].kind = "static" /\ nodes'[e[2]].kind = "method" => GivenTo(nodes'[e[1]], e[2])
  <2>1. CASE e \in edges
    BY <1>4, <2>1 DEF GivenInv
  <2>2. CASE e \in new
    BY <2>2
  <2>. QED  BY <2>1, <2>2
<1>6. ASSUME NEW e \in edges', nodes'[e[1]].kind = "method", nodes'[e[2]].kind = "static" PROVE GivenBy(e[1], nodes[e[2]])'
  <2>1. PICK from, w : from = e[1] /\ w = nodes'[e[2]]
    OBVIOUS
  <2>2. GivenBy(from, w)'
    BY <1>1, <1>5, <1>6, <2>1
  <2>. QED  BY <2>1, <2>2 DEF GivenBy
<1>7. ASSUME NEW e \in edges', nodes'[e[1]].kind = "static", nodes'[e[2]].kind = "method" PROVE GivenTo(nodes[e[1]], e[2])'
  <2>1. PICK w, to : to = e[2] /\ w = nodes'[e[1]]
    OBVIOUS
  <2>2. GivenTo(w, to)'
    BY <1>1, <1>5, <1>7, <2>1
  <2>. QED  BY <2>1, <2>2 DEF GivenTo
<1>. QED  BY <1>3, <1>6, <1>7 DEF GivenInv

LEMMA AskedStays ==
  ASSUME GraphInv, [Next]_vars, phase \notin Preparing, NEW x, x.method.kind = "method", Passes(x), Inside(x),
         NEW c, AsksFor(c, x)
  PROVE  AsksFor(c, x)'
<1>1. mappings'[x.method] = mappings[x.method] /\ Target(x)' = Target(x) /\ (Inside(x)' <=> Inside(x))
  BY FindStays
<1>2. mappings'[MethodOf(x.find.name)] = mappings[MethodOf(x.find.name)]
  BY <1>1 DEF Target, Inside
<1>. QED  BY <1>1, <1>2 DEF AsksFor

LEMMA CollectedKeeps ==
  ASSUME GraphInv, [Next]_vars, phase \notin Preparing, CollectedInv,
         \A j \in DOMAIN changes : j \in DOMAIN changes' /\ changes'[j] = changes[j],
         NEW last,
         \A i \in DOMAIN Findings : Passed("collect", BeforeCollect, i)' => Passed("collect", BeforeCollect, i) \/ i = last,
         last \in DOMAIN Findings =>
           LET x == Findings[last][2] IN Passes(x) /\ Inside(x) => \E j \in DOMAIN changes' : AsksFor(changes'[j], x)
  PROVE  CollectedInv'
<1>1. Findings' = Findings
  BY StepGrows, ItemsStay
<1>2. SUFFICES ASSUME NEW i \in DOMAIN Findings, NEW x, x = Findings[i][2],
                      Passed("collect", BeforeCollect, i)', Passes(x)', Inside(x)'
               PROVE  \E j \in DOMAIN changes' : AsksFor(changes[j], x)'
  BY <1>1 DEF CollectedInv, Passes, Inside, AsksFor
<1>3. x.method.kind = "method"
  BY <1>2, FoundMethod
<1>4. Passes(x) /\ Inside(x)
  BY <1>2, <1>3, FindStays
<1>5. \E j \in DOMAIN changes' : AsksFor(changes'[j], x)
  <2>1. CASE i = last
    BY <1>2, <1>4, <2>1
  <2>2. CASE i # last
    <3>1. PICK j \in DOMAIN changes : AsksFor(changes[j], x)
      BY <1>2, <1>4, <2>2 DEF CollectedInv
    <3>. QED  BY <3>1
  <2>. QED  BY <2>1, <2>2
<1>6. PICK j \in DOMAIN changes' : AsksFor(changes'[j], x)
  BY <1>5
<1>7. PICK c : c = changes'[j]
  OBVIOUS
<1>8. AsksFor(c, x)'
  BY <1>3, <1>4, <1>6, <1>7, AskedStays
<1>. QED  BY <1>7, <1>8 DEF AsksFor

LEMMA RealisedKeeps ==
  ASSUME GraphInv, [Next]_vars, phase \notin Preparing, RealisedInv, UNCHANGED changes, edges \subseteq edges',
         NEW last,
         \A j \in DOMAIN changes : Passed("add", BeforeCollect \cup {"collect"}, j)'
                                     => Passed("add", BeforeCollect \cup {"collect"}, j) \/ j = last,
         last \in DOMAIN changes /\ changes[last].kind = "from_to" => Realised(changes[last])'
  PROVE  RealisedInv'
<1>1. Grown
  BY StepGrows
<1>2. ASSUME NEW c, Realised(c) PROVE Realised(c)'
  BY <1>1, <1>2 DEF Realised, Grown
<1>3. ASSUME NEW j \in DOMAIN changes, Passed("add", BeforeCollect \cup {"collect"}, j)', changes[j].kind = "from_to"
      PROVE  Realised(changes[j])'
  <2>1. CASE j = last
    BY <1>3, <2>1
  <2>2. CASE j # last
    <3>1. PICK c : c = changes[j]
      OBVIOUS
    <3>2. Realised(c)'
      BY <1>2, <1>3, <2>2, <3>1 DEF RealisedInv
    <3>. QED  BY <3>1, <3>2 DEF Realised
  <2>. QED  BY <2>1, <2>2
<1>. QED  BY <1>3 DEF RealisedInv

\* As long as nothing is collected there is nothing to follow.
Uncollected == phase \in BeforeCollect \/ (phase = "collect" /\ at = 1 /\ changes = <<>>)
LEMMA NothingGiven == GraphInv /\ Uncollected => ArgInv
<1>. SUFFICES ASSUME GraphInv, Uncollected PROVE ArgInv
  OBVIOUS
<1>1. changes = <<>> /\ phase \notin {"add", "done"} /\ phase # "done" /\ phase # "add"
  BY DEF GraphInv, QuietInv, Uncollected, BeforeCollect, Preparing
<1>2. DOMAIN changes = {}
  BY <1>1
<1>3. \A e \in edges : nodes[e[1]].kind \in Bases /\ nodes[e[2]].kind \in Bases
  BY <1>1 DEF GraphInv, BasesInv
<1>4. GivenInv
  BY <1>2, <1>3 DEF GivenInv, Bases
<1>5. RealisedInv
  BY <1>2 DEF RealisedInv
<1>6. AppInv
  BY DEF GraphInv, LoadInv
<1>7. \A i \in DOMAIN Findings : i \in Nat \ {0}
  BY <1>6, ItemFacts
<1>8. CollectedInv
  BY <1>7 DEF CollectedInv, Passed, Uncollected
<1>. QED  BY <1>4, <1>5, <1>8 DEF ArgInv

(***************************************************************************)
(* What is asked for                                                       *)
(***************************************************************************)
Sound(s) == IsList(s) /\ \A i \in DOMAIN s : ChangeGiven(s[i])

LEMMA SoundEmpty == Sound(<<>>)
BY DEF Sound, IsList, Range

LEMMA SoundOne ==
  ASSUME NEW c, ChangeGiven(c)
  PROVE  Sound(<<c>>)
<1>1. <<c>> \in Seq({c}) /\ Range(<<c>>) = {c} /\ DOMAIN <<c>> = {1} /\ <<c>>[1] = c
  BY DEF Range
<1>. QED  BY <1>1 DEF Sound, IsList

LEMMA SoundTwo ==
  ASSUME NEW s, NEW t, Sound(s), Sound(t)
  PROVE  Sound(s \o t)
<1>1. PICK u : u = s \o t
  OBVIOUS
<1>2. IsList(u) /\ Joined(u, s, t)
  BY <1>1, OwnConcat, IsListOf DEF Sound
<1>3. ASSUME NEW i \in DOMAIN u PROVE ChangeGiven(u[i])
  <2>1. CASE i \in 1 .. Len(s)
    BY <1>2, <2>1 DEF Joined, Sound
  <2>2. ASSUME NEW j \in 1 .. Len(t), i = Len(s) + j PROVE ChangeGiven(u[i])
    BY <1>2, <2>2 DEF Joined, Sound
  <2>. QED  BY <1>2, <2>1, <2>2 DEF Joined
<1>. QED  BY <1>1, <1>2, <1>3 DEF Sound

\* No change set but those of calls is of a static argument between methods.
Harmless(c) == c.node.kind # "static" \/ c.kind \notin {"to", "from_to"}
LEMMA SoundHarmless ==
  ASSUME NEW c, Harmless(c)
  PROVE  Sound(<<c>>)
<1>1. ChangeGiven(c)
  BY DEF Harmless, ChangeGiven
<1>. QED  BY <1>1, SoundOne

LEMMA SoundPair ==
  ASSUME NEW c, NEW d, Harmless(c), Harmless(d)
  PROVE  Sound(<<c, d>>)
<1>1. <<c, d>> \in Seq({c, d}) /\ DOMAIN <<c, d>> = {1, 2} /\ <<c, d>>[1] = c /\ <<c, d>>[2] = d
  OBVIOUS
<1>2. Range(<<c, d>>) = {c, d}
  BY <1>1 DEF Range
<1>3. ChangeGiven(c) /\ ChangeGiven(d)
  BY DEF Harmless, ChangeGiven
<1>. QED  BY <1>1, <1>2, <1>3 DEF Sound, IsList

LEMMA SoundEdge ==
  ASSUME NEW a, NEW b
  PROVE  Harmless(Edge(a, b)) /\ Sound(EdgeBetween(a, b))
<1>1. ASSUME NEW m, NEW n PROVE Harmless(Edge(m, n))
  BY DEF Harmless, Edge
<1>2. PICK m, n : m = mappings[a] /\ n = mappings[b]
  OBVIOUS
<1>3. EdgeBetween(a, b) = <<>> \/ EdgeBetween(a, b) = <<Edge(m, n)>>
  BY <1>2 DEF EdgeBetween
<1>4. Sound(<<Edge(m, n)>>)
  <2>1. PICK c : c = Edge(m, n)
    OBVIOUS
  <2>2. Harmless(c)
    BY <1>1, <2>1
  <2>. QED  BY <2>1, <2>2, SoundHarmless
<1>. QED  BY <1>1, <1>3, <1>4, SoundEmpty

LEMMA FindingsSound ==
  ASSUME GraphInv, phase = "collect", at <= Len(Findings), Mapped(Item(Findings).method), NEW made \in ChangesOf,
         NEW x, x = Item(Findings)
  PROVE  Sound(made) /\ (Passes(x) /\ Inside(x) => \E j \in DOMAIN made : AsksFor(made[j], x))
<1>1. find.kind \in FindKinds /\ find = x.find /\ at \in DOMAIN Findings /\ x = Findings[at][2] /\ Mapped(x.method)
  BY FindIs DEF find, Item
<1>2. PICK caller : caller = finder
  OBVIOUS
<1>3. PICK static : static = Static
  OBVIOUS
<1>4. caller = mappings[x.method] /\ static = StaticOf(x)
  BY <1>1, <1>2, <1>3 DEF finder, Static, StaticOf
<1>5. PICK field : field = FieldNode
  OBVIOUS
<1>6. CASE find.kind = "call"
  <2>1. PICK callee : callee = MethodOf(find.name)
    OBVIOUS
  <2>2. made = CallChanges
    BY <1>6 DEF ChangesOf
  <2>3. Inside(x) <=> Mapped(callee)
    BY <1>1, <2>1 DEF Inside
  <2>4. find.says # "" => Passes(x)
    BY <1>1, <1>6 DEF Passes
  <2>5. ASSUME find.says # "" PROVE GivenBy(caller, static) /\ GivenTo(static, Target(x))
    BY <1>1, <1>4, <2>4, <2>5 DEF GivenBy, GivenTo
  <2>6. CASE Mapped(callee)
    <3>1. PICK n : n = mappings[callee]
      OBVIOUS
    <3>2. Target(x) = n
      BY <1>1, <2>1, <2>3, <2>6, <3>1 DEF Target
    <3>3. PICK e, f, g : /\ e = EdgeBetween(Item(Findings).method, callee)
                         /\ f = EdgeBetween(callee, TypeOf(find.name[1]))
                         /\ g = IF find.says = "" THEN <<>> ELSE <<NodeFromTo(caller, n, static, FALSE)>>
      OBVIOUS
    <3>4. made = e \o f \o g
      BY <1>2, <1>3, <2>1, <2>2, <2>6, <3>1, <3>3 DEF CallChanges
    <3>5. PICK d : d = e \o f
      OBVIOUS
    <3>6. Sound(d)
      BY <3>3, <3>5, SoundEdge, SoundTwo
    <3>7. PICK c : c = NodeFromTo(caller, n, static, FALSE)
      OBVIOUS
    <3>8. c.kind = "from_to" /\ c.origin = caller /\ c.destination = n /\ c.node = static
      BY <3>7 DEF NodeFromTo
    <3>9. CASE find.says = ""
      <4>1. Sound(g)
        BY <3>3, <3>9, SoundEmpty
      <4>2. ~Passes(x)
        BY <1>1, <3>9 DEF Passes
      <4>. QED  BY <3>4, <3>5, <3>6, <4>1, <4>2, SoundTwo
    <3>10. CASE find.says # ""
      <4>1. g = <<c>>
        BY <3>3, <3>7, <3>10
      <4>2. ChangeGiven(c)
        BY <2>5, <3>2, <3>8, <3>10 DEF ChangeGiven
      <4>3. Sound(g)
        BY <4>1, <4>2, SoundOne
      <4>4. Sound(made)
        BY <3>4, <3>5, <3>6, <4>3, SoundTwo
      <4>5. Joined(made, d, g)
        BY <3>4, <3>5, <3>6, <4>3, OwnConcat, IsListOf DEF Sound
      <4>6. Len(g) = 1 /\ g[1] = c
        BY <4>1
      <4>7. Len(d) + 1 \in DOMAIN made /\ made[Len(d) + 1] = c
        <5>1. Len(d) \in Nat
          BY <3>6, ListFacts DEF Sound
        <5>. QED  BY <4>5, <4>6, <5>1 DEF Joined
      <4>8. AsksFor(c, x)
        <5>1. n = mappings[MethodOf(x.find.name)]
          BY <1>1, <2>1, <3>1
        <5>. QED  BY <1>4, <3>8, <5>1 DEF AsksFor
      <4>. QED  BY <4>4, <4>7, <4>8
    <3>. QED  BY <3>9, <3>10
  <2>7. CASE ~Mapped(callee)
    <3>1. made = IF find.says = "" THEN <<>> ELSE <<NodeTo(caller, static, FALSE)>>
      BY <1>2, <1>3, <2>1, <2>2, <2>7 DEF CallChanges
    <3>2. PICK c : c = NodeTo(caller, static, FALSE)
      OBVIOUS
    <3>3. c.kind = "to" /\ c.origin = caller /\ c.node = static
      BY <3>2 DEF NodeTo
    <3>4. Target(x) = caller
      BY <1>4, <2>3, <2>7 DEF Target
    <3>5. find.says # "" => ChangeGiven(c)
      BY <2>5, <3>3, <3>4 DEF ChangeGiven
    <3>6. Sound(made)
      BY <3>1, <3>2, <3>5, SoundEmpty, SoundOne
    <3>. QED  BY <2>3, <2>7, <3>6
  <2>. QED  BY <2>6, <2>7
<1>7. CASE find.kind # "call"
  <2>0. ~Passes(x)
    BY <1>1, <1>7 DEF Passes
  <2>1. CASE find.kind = "returned"
    <3>1. PICK w : w = Weight("dynamic_return", <<find.says>>)
      OBVIOUS
    <3>2. w.kind = "dynamic_return"
      BY <3>1 DEF Weight
    <3>3. made = <<NodeTo(caller, w, TRUE)>> \/ \E n \in Middle : made = <<NodeFromTo(caller, n, w, TRUE)>>
      BY <1>2, <2>1, <3>1 DEF ChangesOf, ReturnChanges
    <3>4. PICK c : made = <<c>> /\ c.node = w
      BY <3>3 DEF NodeTo, NodeFromTo
    <3>5. Harmless(c)
      BY <3>2, <3>4 DEF Harmless
    <3>. QED  BY <2>0, <3>4, <3>5, SoundHarmless
  <2>2. CASE find.kind = "string"
    <3>1. made = EdgeBetween(Item(Findings).method, StringOf(find.name[1]))
      BY <2>2 DEF ChangesOf
    <3>. QED  BY <2>0, <3>1, SoundEdge
  <2>3. CASE find.kind = "get"
    <3>1. PICK c : c = Edge(field, caller)
      OBVIOUS
    <3>2. made = <<c>>
      BY <1>2, <1>5, <2>3, <3>1 DEF ChangesOf
    <3>3. Harmless(c)
      BY <3>1 DEF Harmless, Edge
    <3>. QED  BY <2>0, <3>2, <3>3, SoundHarmless
  <2>4. CASE find.kind = "put"
    <3>1. PICK c, d : c = Edge(caller, field) /\ d = NodeFrom(field, static, FALSE)
      OBVIOUS
    <3>2. made = <<c, d>>
      BY <1>2, <1>3, <1>5, <2>4, <3>1 DEF ChangesOf
    <3>3. Harmless(c) /\ Harmless(d)
      BY <3>1 DEF Harmless, Edge, NodeFrom
    <3>. QED  BY <2>0, <3>2, <3>3, SoundPair
  <2>5. CASE find.kind = "array"
    <3>1. PICK c : c = NodeTo(caller, Weight("array", find.name), FALSE)
      OBVIOUS
    <3>2. made = <<c>>
      BY <1>2, <2>5, <3>1 DEF ChangesOf
    <3>3. Harmless(c)
      BY <3>1 DEF Harmless, NodeTo, Weight
    <3>. QED  BY <2>0, <3>2, <3>3, SoundHarmless
  <2>6. CASE find.kind \in {"passed", "array_passed", "field_set"}
    <3>1. PICK node, w, keyed : made = <<NodeFrom(node, w, keyed)>>
      <4>1. made \in {<<NodeFrom(finder, Said, TRUE)>>, <<NodeFrom(finder, Weight("array", find.name), FALSE)>>,
                      <<NodeFrom(FieldNode, Said, TRUE)>>}
        BY <2>6 DEF ChangesOf
      <4>. QED  BY <4>1
    <3>2. PICK c : c = NodeFrom(node, w, keyed)
      OBVIOUS
    <3>3. Harmless(c)
      BY <3>2 DEF Harmless, NodeFrom
    <3>. QED  BY <2>0, <3>1, <3>2, <3>3, SoundHarmless
  <2>. QED  BY <1>1, <1>7, <2>1, <2>2, <2>3, <2>4, <2>5, <2>6 DEF FindKinds
<1>. QED  BY <1>6, <1>7

(***************************************************************************)
(* The steps                                                               *)
(***************************************************************************)
LEMMA ArgKeeps ==
  ASSUME GraphInv, GraphInv', [Next]_vars, phase \notin Preparing, ArgInv, UNCHANGED <<edges, changes>>,
         \A i \in DOMAIN Findings : Passed("collect", BeforeCollect, i)' => Passed("collect", BeforeCollect, i),
         \A j \in DOMAIN changes : Passed("add", BeforeCollect \cup {"collect"}, j)'
                                     => Passed("add", BeforeCollect \cup {"collect"}, j)
  PROVE  ArgInv'
<1>0. GivenInv /\ CollectedInv /\ RealisedInv /\ AppInv /\ IsList(changes)
  BY DEF ArgInv, GraphInv, LoadInv, GraphType
<1>1. 0 \notin DOMAIN Findings /\ 0 \notin DOMAIN changes
  BY <1>0, ItemFacts, ListFacts
<1>2. \A i \in DOMAIN changes' : ChangeGiven(changes'[i])
  BY <1>0 DEF GivenInv
<1>3. PICK none : none = {}
  OBVIOUS
<1>4. edges' = edges \cup none /\ \A e \in none : FALSE
  BY <1>3
<1>5. GivenInv'
  BY <1>0, <1>2, <1>4, GivenKeeps
<1>6. PICK last : last = 0
  OBVIOUS
<1>7. CollectedInv'
  BY <1>0, <1>1, <1>6, CollectedKeeps
<1>8. RealisedInv'
  BY <1>0, <1>1, <1>6, RealisedKeeps
<1>. QED  BY <1>5, <1>7, <1>8 DEF ArgInv

LEMMA CollectGives ==
  ASSUME GraphInv, GraphInv', [Next]_vars, ArgInv, Collect
  PROVE  ArgInv'
<1>0. /\ GivenInv /\ CollectedInv /\ IsList(changes) /\ AppInv
      /\ phase = "collect" /\ at <= Len(Findings) /\ at \in Nat \ {0} /\ phase' = phase /\ at' = at + 1
      /\ UNCHANGED <<nodes, edges, mappings>> /\ phase \notin Preparing
  BY DEF ArgInv, GraphInv, LoadInv, GraphType, Collect, Has, Onward, Preparing
<1>1. PICK x : x = Item(Findings)
  OBVIOUS
<1>2. x = Findings[at][2]
  BY <1>1 DEF Item
<1>3. Sound(changes)
  BY <1>0 DEF GivenInv, Sound
<1>4. /\ \A i \in DOMAIN changes' : ChangeGiven(changes'[i])
      /\ \A j \in DOMAIN changes : j \in DOMAIN changes' /\ changes'[j] = changes[j]
      /\ Passes(x) /\ Inside(x) => \E j \in DOMAIN changes' : AsksFor(changes'[j], x)
  <2>1. CASE ~Mapped(x.method)
    <3>1. changes' = changes
      BY <1>1, <2>1 DEF Collect
    <3>2. ~Passes(x)
      BY <2>1 DEF Passes
    <3>. QED  BY <1>3, <3>1, <3>2 DEF Sound
  <2>2. CASE Mapped(x.method)
    <3>1. PICK made \in ChangesOf : changes' = changes \o made
      BY <1>1, <2>2 DEF Collect
    <3>2. Sound(made) /\ (Passes(x) /\ Inside(x) => \E j \in DOMAIN made : AsksFor(made[j], x))
      BY <1>0, <1>1, <2>2, FindingsSound
    <3>3. Sound(changes')
      BY <1>3, <3>1, <3>2, SoundTwo
    <3>4. PICK u : u = changes'
      OBVIOUS
    <3>5. Joined(u, changes, made) /\ Len(changes) \in Nat /\ DOMAIN changes = 1 .. Len(changes) /\ DOMAIN made = 1 .. Len(made)
      BY <1>3, <3>1, <3>2, <3>4, OwnConcat, IsListOf, ListFacts DEF Sound
    <3>6. \A j \in DOMAIN changes : j \in DOMAIN u /\ u[j] = changes[j]
      BY <3>5 DEF Joined
    <3>7. ASSUME NEW j \in DOMAIN made PROVE Len(changes) + j \in DOMAIN u /\ u[Len(changes) + j] = made[j]
      BY <3>5 DEF Joined
    <3>8. Passes(x) /\ Inside(x) => \E j \in DOMAIN u : AsksFor(u[j], x)
      <4>1. ASSUME NEW j \in DOMAIN made, AsksFor(made[j], x) PROVE \E k \in DOMAIN u : AsksFor(u[k], x)
        <5>1. PICK k \in DOMAIN u : u[k] = made[j]
          BY <3>7
        <5>. QED  BY <4>1, <5>1
      <4>. QED  BY <3>2, <4>1
    <3>. QED  BY <3>3, <3>4, <3>6, <3>8 DEF Sound
  <2>. QED  BY <2>1, <2>2
<1>5. PICK none : none = {}
  OBVIOUS
<1>6. edges' = edges \cup none /\ \A e \in none : FALSE
  BY <1>0, <1>5
<1>7. GivenInv'
  BY <1>0, <1>4, <1>6, GivenKeeps
<1>8. ASSUME NEW i \in DOMAIN Findings, Passed("collect", BeforeCollect, i)'
      PROVE  Passed("collect", BeforeCollect, i) \/ i = at
  <2>1. i \in Nat
    BY <1>0, ItemFacts
  <2>. QED  BY <1>0, <1>8, <2>1 DEF Passed
<1>9. PICK last : last = at
  OBVIOUS
<1>10. CollectedInv'
  BY <1>0, <1>2, <1>4, <1>8, <1>9, CollectedKeeps
<1>11. RealisedInv'
  BY <1>0 DEF RealisedInv, Passed
<1>. QED  BY <1>7, <1>10, <1>11 DEF ArgInv

LEMMA AddGives ==
  ASSUME GraphInv, GraphInv', [Next]_vars, ArgInv, Has("add", changes), Onward, UNCHANGED changes,
         NEW new, edges' = edges \cup new,
         \A e \in new : /\ nodes'[e[1]].kind = "method" /\ nodes'[e[2]].kind = "static" => GivenBy(e[1], nodes'[e[2]])
                        /\ nodes'[e[1]].kind = "static" /\ nodes'[e[2]].kind = "method" => GivenTo(nodes'[e[1]], e[2]),
         NEW c, c = change, c.kind = "from_to" => Realised(c)'
  PROVE  ArgInv'
<1>0. /\ GivenInv /\ CollectedInv /\ RealisedInv /\ IsList(changes) /\ AppInv
      /\ phase = "add" /\ at \in Nat \ {0} /\ phase' = phase /\ at' = at + 1 /\ phase \notin Preparing
  BY DEF ArgInv, GraphInv, LoadInv, GraphType, Has, Onward, Preparing
<1>1. GivenInv'
  <2>1. \A i \in DOMAIN changes' : ChangeGiven(changes'[i])
    BY <1>0 DEF GivenInv
  <2>. QED  BY <1>0, <2>1, GivenKeeps
<1>2. CollectedInv'
  <2>1. PICK last : last = 0
    OBVIOUS
  <2>2. last \notin DOMAIN Findings
    BY <1>0, <2>1, ItemFacts
  <2>3. \A i \in DOMAIN Findings : Passed("collect", BeforeCollect, i)' => Passed("collect", BeforeCollect, i)
    BY <1>0 DEF Passed
  <2>. QED  BY <1>0, <2>2, <2>3, CollectedKeeps
<1>3. RealisedInv'
  <2>1. PICK last : last = at
    OBVIOUS
  <2>2. ASSUME NEW j \in DOMAIN changes, Passed("add", BeforeCollect \cup {"collect"}, j)'
        PROVE  Passed("add", BeforeCollect \cup {"collect"}, j) \/ j = last
    <3>1. j \in Nat
      BY <1>0, ListFacts
    <3>. QED  BY <1>0, <2>1, <2>2, <3>1 DEF Passed
  <2>3. last \in DOMAIN changes /\ changes[last].kind = "from_to" => Realised(changes[last])'
    <3>1. changes[last] = change
      BY <2>1 DEF change
    <3>2. changes'[last] = c
      BY <1>0, <3>1
    <3>. QED  BY <3>1, <3>2 DEF Realised
  <2>. QED  BY <1>0, <2>2, <2>3, RealisedKeeps
<1>. QED  BY <1>1, <1>2, <1>3 DEF ArgInv

LEMMA AddsGive ==
  ASSUME GraphInv, GraphInv', [Next]_vars, ArgInv, AddEdge \/ AddNodeTo \/ AddNodeFrom \/ AddNodeFromTo
  PROVE  ArgInv'
<1>0. /\ Has("add", changes) /\ Onward /\ UNCHANGED changes /\ phase \notin Preparing
      /\ EdgesInv /\ KeysInv /\ IsList(nodes) /\ GivenInv
  BY DEF AddEdge, AddNodeTo, AddNodeFrom, AddNodeFromTo, Has, Added, GraphInv, GraphType, ArgInv, Preparing
<1>1. PICK c : c = change
  OBVIOUS
<1>2. ChangeFits(c) /\ ChangeGiven(c)
  BY <1>0, <1>1, ChangeIs DEF GivenInv, change
<1>3. PICK w : w = c.node
  OBVIOUS
<1>4. CASE AddEdge
  <2>1. c.kind = "edge" /\ UNCHANGED nodes
    BY <1>1, <1>4 DEF AddEdge
  <2>2. PICK new : new = {<<c.origin, c.destination>>}
    OBVIOUS
  <2>3. edges' = edges \cup new
    BY <1>1, <1>4, <2>2 DEF AddEdge
  <2>4. IsOf(c.origin, Bases) /\ IsOf(c.destination, Bases)
    BY <1>2, <2>1 DEF ChangeFits
  <2>5. nodes'[c.origin].kind \in Bases /\ nodes'[c.destination].kind \in Bases
    BY <2>1, <2>4 DEF IsOf
  <2>6. \A e \in new : nodes'[e[1]].kind # "static" /\ nodes'[e[2]].kind # "static"
    BY <2>2, <2>5 DEF Bases
  <2>. QED  BY <1>0, <1>1, <2>1, <2>3, <2>6, AddGives
<1>5. CASE AddNodeTo
  <2>1. c.kind = "to"
    BY <1>1, <1>5 DEF AddNodeTo
  <2>2. IsOf(c.origin, {"method"}) /\ w.kind \in {"static", "array", "dynamic_return"}
    BY <1>2, <1>3, <2>1 DEF ChangeFits
  <2>3. PICK d : d = c.origin
    OBVIOUS
  <2>4. PICK n \in Placed(d, w) : Added(d, n, {<<n, d>>})
    BY <1>1, <1>3, <1>5, <2>3 DEF AddNodeTo
  <2>5. PICK new : new = {<<n, d>>}
    OBVIOUS
  <2>6. Grown /\ nodes'[n] = w /\ edges' = edges \cup new
    BY <1>1, <1>3, <2>2, <2>4, <2>5, AddedGrows DEF Bases
  <2>7. nodes'[d].kind = "method"
    BY <2>2, <2>3, <2>6, LinkedStays DEF IsOf
  <2>8. w.kind = "static" => GivenTo(w, d)
    BY <1>2, <1>3, <2>1, <2>3 DEF ChangeGiven
  <2>9. \A e \in new : /\ nodes'[e[1]].kind = "method" /\ nodes'[e[2]].kind = "static" => GivenBy(e[1], nodes'[e[2]])
                       /\ nodes'[e[1]].kind = "static" /\ nodes'[e[2]].kind = "method" => GivenTo(nodes'[e[1]], e[2])
    BY <2>5, <2>6, <2>7, <2>8
  <2>. QED  BY <1>0, <1>1, <2>1, <2>6, <2>9, AddGives
<1>6. CASE AddNodeFrom
  <2>1. c.kind = "from"
    BY <1>1, <1>6 DEF AddNodeFrom
  <2>2. /\ IsOf(c.destination, {"method", "field"}) /\ w.kind \in {"static", "array", "dynamic_argument"}
        /\ w.kind = "static" => nodes[c.destination].kind = "field"
    BY <1>2, <1>3, <2>1 DEF ChangeFits
  <2>3. PICK d : d = c.destination
    OBVIOUS
  <2>4. PICK n \in Placed(d, w) : Added(d, n, {<<d, n>>})
    BY <1>1, <1>3, <1>6, <2>3 DEF AddNodeFrom
  <2>5. PICK new : new = {<<d, n>>}
    OBVIOUS
  <2>6. Grown /\ nodes'[n] = w /\ edges' = edges \cup new
    BY <1>1, <1>3, <2>2, <2>4, <2>5, AddedGrows DEF Bases
  <2>7. nodes'[d] = nodes[d] /\ nodes[d].kind \in {"method", "field"}
    BY <2>2, <2>3, <2>6, LinkedStays DEF IsOf
  <2>8. \A e \in new : /\ ~(nodes'[e[1]].kind = "method" /\ nodes'[e[2]].kind = "static")
                       /\ nodes'[e[1]].kind # "static"
    BY <2>2, <2>3, <2>5, <2>6, <2>7
  <2>. QED  BY <1>0, <1>1, <2>1, <2>6, <2>8, AddGives
<1>7. CASE AddNodeFromTo
  <2>1. c.kind = "from_to"
    BY <1>1, <1>7 DEF AddNodeFromTo
  <2>2. IsOf(c.origin, {"method"}) /\ w.kind \in {"static", "dynamic_return"}
    BY <1>2, <1>3, <2>1 DEF ChangeFits
  <2>3. PICK a, d : a = c.origin /\ d = c.destination
    OBVIOUS
  <2>4. PICK n \in Placed(d, w) : Added(d, n, {<<a, n>>, <<n, d>>})
    BY <1>1, <1>3, <1>7, <2>3 DEF AddNodeFromTo, Through
  <2>5. PICK new : new = {<<a, n>>, <<n, d>>}
    OBVIOUS
  <2>6. Grown /\ Linked(n)' /\ nodes'[n] = w /\ edges' = edges \cup new
    BY <1>1, <1>3, <2>2, <2>4, <2>5, AddedGrows DEF Bases
  <2>7. nodes'[a].kind = "method"
    BY <2>2, <2>3, <2>6, LinkedStays DEF IsOf
  <2>8. w.kind = "static" => GivenBy(a, w) /\ GivenTo(w, d)
    BY <1>2, <1>3, <2>1, <2>3 DEF ChangeGiven
  <2>9. ASSUME NEW e \in new
        PROVE  /\ nodes'[e[1]].kind = "method" /\ nodes'[e[2]].kind = "static" => GivenBy(e[1], nodes'[e[2]])
               /\ nodes'[e[1]].kind = "static" /\ nodes'[e[2]].kind = "method" => GivenTo(nodes'[e[1]], e[2])
    <3>1. CASE e = <<a, n>>
      BY <2>6, <2>7, <2>8, <3>1
    <3>2. CASE e = <<n, d>>
      BY <2>2, <2>6, <2>8, <3>2
    <3>. QED  BY <2>5, <3>1, <3>2
  <2>10. Realised(c)'
    BY <1>3, <2>3, <2>5, <2>6 DEF Realised, Linked
  <2>. QED  BY <1>0, <1>1, <2>6, <2>9, <2>10, AddGives
<1>. QED  BY <1>4, <1>5, <1>6, <1>7

LEMMA ArgBegins == Init => ArgInv
<1>1. Init => Uncollected
  BY DEF Init, Uncollected, BeforeCollect, Preparing
<1>. QED  BY <1>1, GraphBegins, NothingGiven

LEMMA NothingGivenNext == GraphInv' /\ Uncollected' => ArgInv'
BY NothingGiven, PTL

LEMMA ArgSteps == GraphInv /\ ArgInv /\ [Next]_vars => ArgInv'
<1>. SUFFICES ASSUME GraphInv, ArgInv, [Next]_vars PROVE ArgInv'
  OBVIOUS
<1>0. GraphInv'
  BY GraphSteps
<1>1. AppInv /\ IsList(changes) /\ at \in Nat \ {0} /\ phase \in Phases
  BY DEF GraphInv, LoadInv, GraphType
<1>2. \A i \in DOMAIN Findings : i \in Nat \ {0} /\ i <= Len(Findings) /\ Len(Findings) \in Nat
  BY <1>1, ItemFacts
<1>3. \A j \in DOMAIN changes : j \in Nat \ {0} /\ j <= Len(changes) /\ Len(changes) \in Nat
  BY <1>1, ListFacts
<1>4. ASSUME UNCHANGED <<phase, at, edges, changes>> PROVE ArgInv'
  <2>1. CASE phase \in Preparing
    BY <1>0, <1>4, <2>1, NothingGivenNext DEF Uncollected, BeforeCollect
  <2>2. CASE phase \notin Preparing
    BY <1>0, <1>4, <2>2, ArgKeeps DEF Passed
  <2>. QED  BY <2>1, <2>2
<1>5. CASE UNCHANGED vars \/ (LoadNext /\ UNCHANGED graphVars)
  BY <1>4, <1>5 DEF vars, graphVars
<1>6. CASE Build /\ UNCHANGED loadVars
  <2>1. CASE AddType \/ AddField \/ AddMethod \/ AddString
    <3>1. phase' \in Preparing
      BY <2>1 DEF AddType, AddField, AddMethod, AddString, Has, Onward, Preparing
    <3>. QED  BY <1>0, <3>1, NothingGivenNext DEF Uncollected, BeforeCollect
  <2>2. CASE AddClass \/ SkipClass \/ Panic
    <3>1. phase' \in {"inheritance", "failed"}
      BY <2>2 DEF AddClass, SkipClass, Panic, Has, Onward
    <3>. QED  BY <1>0, <3>1, NothingGivenNext DEF Uncollected, BeforeCollect
  <2>3. CASE Cancel
    <3>1. phase = "inheritance" /\ phase' = "collect" /\ at' = 1 /\ changes' = changes
      BY <2>3 DEF Cancel, Has
    <3>2. changes' = <<>>
      BY <3>1 DEF GraphInv, QuietInv
    <3>. QED  BY <1>0, <3>1, <3>2, NothingGivenNext DEF Uncollected
  <2>4. CASE Collect
    BY <1>0, <2>4, CollectGives
  <2>5. CASE AddEdge \/ AddNodeTo \/ AddNodeFrom \/ AddNodeFromTo
    BY <1>0, <2>5, AddsGive
  <2>6. CASE After("types", Types, "fields") \/ After("fields", Fields, "methods") \/ After("methods", Methods, "strings")
             \/ After("strings", Strings, "inheritance")
    <3>1. phase' \in Preparing \cup {"inheritance"}
      BY <2>6 DEF After, Preparing
    <3>. QED  BY <1>0, <3>1, NothingGivenNext DEF Uncollected, BeforeCollect
  <2>7. CASE After("inheritance", Classes, "collect")
    <3>1. phase = "inheritance" /\ phase' = "collect" /\ at' = 1 /\ changes' = changes
      BY <2>7 DEF After
    <3>2. changes' = <<>>
      BY <3>1 DEF GraphInv, QuietInv
    <3>. QED  BY <1>0, <3>1, <3>2, NothingGivenNext DEF Uncollected
  <2>8. CASE After("collect", Findings, "add")
    <3>1. phase = "collect" /\ phase' = "add" /\ at > Len(Findings) /\ at' = 1 /\ UNCHANGED <<edges, changes>>
      BY <2>8 DEF After
    <3>2. \A i \in DOMAIN Findings : Passed("collect", BeforeCollect, i)
      BY <1>1, <1>2, <3>1 DEF Passed, BeforeCollect, Preparing
    <3>3. \A j \in DOMAIN changes : ~Passed("add", BeforeCollect \cup {"collect"}, j)'
      BY <1>3, <3>1 DEF Passed
    <3>. QED  BY <1>0, <3>1, <3>2, <3>3, ArgKeeps DEF Preparing
  <2>9. CASE After("add", changes, "done")
    <3>1. phase = "add" /\ phase' = "done" /\ at > Len(changes) /\ UNCHANGED <<edges, changes>>
      BY <2>9 DEF After
    <3>2. \A i \in DOMAIN Findings : Passed("collect", BeforeCollect, i)
      BY <1>1, <3>1 DEF Passed, BeforeCollect, Preparing
    <3>3. \A j \in DOMAIN changes : Passed("add", BeforeCollect \cup {"collect"}, j)
      BY <1>1, <1>3, <3>1 DEF Passed, BeforeCollect, Preparing
    <3>. QED  BY <1>0, <3>1, <3>2, <3>3, ArgKeeps DEF Preparing
  <2>. QED  BY <1>6, <2>1, <2>2, <2>3, <2>4, <2>5, <2>6, <2>7, <2>8, <2>9 DEF Build, NextPhase
<1>. QED  BY <1>5, <1>6 DEF Next

LEMMA ArgAlways == Spec => [](GraphInv /\ ArgInv)
BY GraphBegins, GraphSteps, ArgBegins, ArgSteps, PTL DEF Spec

(***************************************************************************)
(* What the graph answers                                                  *)
(***************************************************************************)
LEMMA StaticName ==
  ASSUME NEW a, NEW b, NEW s, NEW p, p = <<a, b>> \o <<s>>
  PROVE  p[1] = a /\ p[2] = b /\ p[3] = s
<1>1. PICK u, v : u = <<a, b>> /\ v = <<s>>
  OBVIOUS
<1>2. u \in Seq({a, b}) /\ u[1] = a /\ u[2] = b /\ Len(u) = 2 /\ v \in Seq({s}) /\ v[1] = s /\ Len(v) = 1
  BY <1>1
<1>3. IsSequence(u) /\ IsSequence(v)
  BY <1>2, OfItsOwn
<1>4. Joined(p, u, v)
  BY <1>1, <1>3, OwnConcat
<1>5. p[1] = u[1] /\ p[2] = u[2] /\ p[2 + 1] = v[1]
  BY <1>2, <1>4 DEF Joined
<1>. QED  BY <1>2, <1>5

LEMMA StaticIs ==
  ASSUME GraphInv, NEW i \in DOMAIN Findings, NEW x, x = Findings[i][2]
  PROVE  /\ x.method = MethodOf(x.method.name)
         /\ x.method.name = <<x.method.name[1], x.method.name[2]>>
         /\ StaticOf(x).kind = "static"
         /\ StaticOf(x).name[1] = x.method.name[1] /\ StaticOf(x).name[2] = x.method.name[2]
         /\ StaticOf(x).name[3] = x.find.says
<1>1. PICK a, b : x.method = MethodOf(<<a, b>>)
  BY FoundMethod
<1>2. x.method.name = <<a, b>> /\ x.method = MethodOf(x.method.name)
  BY <1>1 DEF MethodOf, Weight
<1>3. PICK p : p = <<a, b>> \o <<x.find.says>>
  OBVIOUS
<1>4. StaticOf(x).kind = "static" /\ StaticOf(x).name = p
  BY <1>2, <1>3 DEF StaticOf, Weight
<1>5. p[1] = a /\ p[2] = b /\ p[3] = x.find.says
  BY <1>3, StaticName
<1>. QED  BY <1>2, <1>4, <1>5

LEMMA MethodOfIs ==
  ASSUME NEW p, NEW q
  PROVE  MethodOf(p).kind = "method" /\ MethodOf(p).name = p /\ (MethodOf(p) = MethodOf(q) => p = q)
<1>1. \A r : MethodOf(r).kind = "method" /\ MethodOf(r).name = r
  BY DEF MethodOf, Weight
<1>. QED  BY <1>1

IsCall(x) == x.find.kind = "call" /\ Mapped(x.method)
LEMMA FoundIs ==
  /\ \A x \in Found("call") : \E i \in DOMAIN Findings :
       IsCall(Findings[i][2]) /\ x = <<Findings[i][2].method.name, Findings[i][2].find>>
  /\ \A i \in DOMAIN Findings : IsCall(Findings[i][2]) =>
       <<Findings[i][2].method.name, Findings[i][2].find>> \in Found("call")
<1>1. ASSUME NEW x \in Found("call")
      PROVE  \E i \in DOMAIN Findings : IsCall(Findings[i][2]) /\ x = <<Findings[i][2].method.name, Findings[i][2].find>>
  BY DEF Found, IsCall
<1>2. ASSUME NEW i \in DOMAIN Findings, IsCall(Findings[i][2])
      PROVE  <<Findings[i][2].method.name, Findings[i][2].find>> \in Found("call")
  BY <1>2 DEF Found, IsCall
<1>. QED  BY <1>1, <1>2

LEMMA CallsAre ==
  /\ \A t \in Calls : \E i \in DOMAIN Findings : LET x == Findings[i][2]
       IN IsCall(x) /\ Inside(x) /\ t = <<x.method.name, x.find.name, x.find.says>>
  /\ \A i \in DOMAIN Findings : LET x == Findings[i][2]
       IN IsCall(x) /\ Inside(x) => <<x.method.name, x.find.name, x.find.says>> \in Calls
  /\ \A i \in DOMAIN Findings : LET x == Findings[i][2]
       IN IsCall(x) /\ ~Inside(x) => x.find.says \in PassedOutside(x.method.name)
<1>1. ASSUME NEW t \in Calls
      PROVE  \E i \in DOMAIN Findings : LET x == Findings[i][2]
               IN IsCall(x) /\ Inside(x) /\ t = <<x.method.name, x.find.name, x.find.says>>
  <2>1. PICK c \in Found("call") : Mapped(MethodOf(c[2].name)) /\ t = <<c[1], c[2].name, c[2].says>>
    BY DEF Calls
  <2>2. PICK i \in DOMAIN Findings : IsCall(Findings[i][2]) /\ c = <<Findings[i][2].method.name, Findings[i][2].find>>
    BY FoundIs
  <2>3. c[1] = Findings[i][2].method.name /\ c[2] = Findings[i][2].find
    BY <2>2
  <2>. QED  BY <2>1, <2>2, <2>3 DEF Inside
<1>2. ASSUME NEW i \in DOMAIN Findings, NEW x, x = Findings[i][2], IsCall(x)
      PROVE  /\ Inside(x) => <<x.method.name, x.find.name, x.find.says>> \in Calls
             /\ ~Inside(x) => x.find.says \in PassedOutside(x.method.name)
  <2>1. PICK c : c = <<x.method.name, x.find>>
    OBVIOUS
  <2>2. c \in Found("call")
    BY <1>2, <2>1, FoundIs
  <2>3. c[1] = x.method.name /\ c[2] = x.find
    BY <2>1
  <2>4. Inside(x) => <<c[1], c[2].name, c[2].says>> \in Calls
    BY <2>2, <2>3 DEF Calls, Inside
  <2>5. ~Inside(x) => c[2].says \in PassedOutside(c[1])
    BY <2>2, <2>3 DEF PassedOutside, Inside
  <2>. QED  BY <2>3, <2>4, <2>5
<1>3. \A i \in DOMAIN Findings : LET x == Findings[i][2]
        IN /\ IsCall(x) /\ Inside(x) => <<x.method.name, x.find.name, x.find.says>> \in Calls
           /\ IsCall(x) /\ ~Inside(x) => x.find.says \in PassedOutside(x.method.name)
  BY <1>2
<1>. QED  BY <1>1, <1>3

\* What is passed in a call stands between the two methods.
LEMMA PassedIsBetween ==
  ASSUME GraphInv, ArgInv, Done, NEW i \in DOMAIN Findings, NEW x, x = Findings[i][2], Passes(x), Inside(x)
  PROVE  \E w \in MethodArguments(NodeOf(x.method.name), NodeOf(x.find.name)) : w.name[3] = x.find.says
<1>1. Passed("collect", BeforeCollect, i)
  BY DEF Passed, Done, BeforeCollect, Preparing
<1>2. PICK j \in DOMAIN changes : AsksFor(changes[j], x)
  BY <1>1 DEF ArgInv, CollectedInv
<1>3. Passed("add", BeforeCollect \cup {"collect"}, j)
  BY DEF Passed, Done, BeforeCollect, Preparing
<1>4. Realised(changes[j])
  BY <1>2, <1>3 DEF ArgInv, RealisedInv, AsksFor
<1>5. PICK from, to, w : from = mappings[x.method] /\ to = mappings[MethodOf(x.find.name)] /\ w = StaticOf(x)
  OBVIOUS
<1>6. PICK n \in DOMAIN nodes : nodes[n] = w /\ <<from, n>> \in edges /\ <<n, to>> \in edges
  BY <1>2, <1>4, <1>5 DEF Realised, AsksFor
<1>7. x.method = MethodOf(x.method.name) /\ w.kind = "static" /\ w.name[3] = x.find.says
  BY <1>5, StaticIs
<1>8. from = NodeOf(x.method.name) /\ to = NodeOf(x.find.name)
  BY <1>5, <1>7 DEF NodeOf
<1>9. w \in MethodArguments(from, to)
  BY <1>6, <1>7 DEF MethodArguments, Successors, Kind
<1>. QED  BY <1>7, <1>8, <1>9

\* What stands between two methods was passed in a call by the first, of the second, or of
\* one that is not in the graph if they are the same.
LEMMA BetweenIsPassed ==
  ASSUME GraphInv, ArgInv, NEW p, NEW q, Mapped(MethodOf(p)), Mapped(MethodOf(q)),
         NEW w \in MethodArguments(NodeOf(p), NodeOf(q))
  PROVE  \E i \in DOMAIN Findings : LET y == Findings[i][2]
           IN /\ Passes(y) /\ y.method.name = p /\ w.name[3] = y.find.says
              /\ Inside(y) => y.find.name = q
              /\ ~Inside(y) => p = q
<1>1. PICK from, to : from = NodeOf(p) /\ to = NodeOf(q)
  OBVIOUS
<1>2. nodes[from] = MethodOf(p) /\ nodes[to] = MethodOf(q)
  BY <1>1 DEF NodeOf, GraphInv, KeysInv, Mapped
<1>3. PICK n \in DOMAIN nodes : nodes[n] = w /\ <<from, n>> \in edges /\ <<n, to>> \in edges /\ w.kind = "static"
  BY <1>1 DEF MethodArguments, Successors, Kind
<1>4. PICK d \in edges, e \in edges : d = <<from, n>> /\ e = <<n, to>>
  BY <1>3
<1>5. nodes[from].kind = "method" /\ nodes[to].kind = "method"
  BY <1>2, MethodOfIs
<1>6. GivenBy(from, w)
  <2>1. nodes[d[1]].kind = "method" /\ nodes[d[2]].kind = "static" /\ d[1] = from /\ nodes[d[2]] = w
    BY <1>3, <1>4, <1>5
  <2>. QED  BY <1>4, <2>1 DEF ArgInv, GivenInv
<1>7. GivenTo(w, to)
  <2>1. nodes[e[1]].kind = "static" /\ nodes[e[2]].kind = "method" /\ e[2] = to /\ nodes[e[1]] = w
    BY <1>3, <1>4, <1>5
  <2>. QED  BY <1>4, <2>1 DEF ArgInv, GivenInv
<1>8. PICK i \in DOMAIN Findings : Passes(Findings[i][2]) /\ w = StaticOf(Findings[i][2]) /\ from = mappings[Findings[i][2].method]
  BY <1>6 DEF GivenBy
<1>9. PICK j \in DOMAIN Findings : Passes(Findings[j][2]) /\ w = StaticOf(Findings[j][2]) /\ to = Target(Findings[j][2])
  BY <1>7 DEF GivenTo
<1>10. PICK x, y : x = Findings[i][2] /\ y = Findings[j][2]
  OBVIOUS
<1>11. x.method = MethodOf(p)
  BY <1>2, <1>8, <1>10 DEF GraphInv, KeysInv, Passes, Mapped
<1>12. /\ x.method = MethodOf(x.method.name) /\ x.method.name = <<x.method.name[1], x.method.name[2]>>
       /\ w.name[1] = x.method.name[1] /\ w.name[2] = x.method.name[2]
  BY <1>8, <1>10, StaticIs
<1>13. /\ y.method = MethodOf(y.method.name) /\ y.method.name = <<y.method.name[1], y.method.name[2]>>
       /\ w.name[1] = y.method.name[1] /\ w.name[2] = y.method.name[2] /\ w.name[3] = y.find.says
  BY <1>9, <1>10, StaticIs
<1>14. y.method.name = p /\ y.method = MethodOf(p)
  BY <1>11, <1>12, <1>13, MethodOfIs
<1>15. ASSUME Inside(y) PROVE y.find.name = q
  <2>1. to = mappings[MethodOf(y.find.name)]
    BY <1>9, <1>10, <1>15 DEF Target
  <2>2. nodes[to] = MethodOf(y.find.name)
    BY <1>15, <2>1 DEF Inside, GraphInv, KeysInv, Mapped
  <2>. QED  BY <1>2, <2>2, MethodOfIs
<1>16. ASSUME ~Inside(y) PROVE p = q
  <2>1. to = mappings[y.method]
    BY <1>9, <1>10, <1>16 DEF Target
  <2>2. nodes[to] = MethodOf(p)
    BY <1>9, <1>10, <1>14, <2>1 DEF Passes, GraphInv, KeysInv, Mapped
  <2>. QED  BY <1>2, <2>2, MethodOfIs
<1>. QED  BY <1>9, <1>10, <1>13, <1>14, <1>15, <1>16

LEMMA ArgumentsFollow == GraphInv /\ ArgInv => ArgumentsAreTheCalls
<1>. SUFFICES ASSUME GraphInv, ArgInv, Done, NEW c \in CallPairs
              PROVE  LET between == {w.name[3] : w \in MethodArguments(NodeOf(c[1]), NodeOf(c[2]))}
                         passed  == {t[3] : t \in {u \in Calls : <<u[1], u[2]>> = c}} \ {""}
                     IN /\ passed \subseteq between
                        /\ between \subseteq passed \cup (IF c[1] = c[2] THEN PassedOutside(c[1]) ELSE {})
  BY DEF ArgumentsAreTheCalls
<1>. DEFINE between == {w.name[3] : w \in MethodArguments(NodeOf(c[1]), NodeOf(c[2]))}
            passed  == {t[3] : t \in {u \in Calls : <<u[1], u[2]>> = c}} \ {""}
<1>1. PICK p, q : p = c[1] /\ q = c[2]
  OBVIOUS
<1>2. c = <<p, q>> /\ Mapped(MethodOf(p)) /\ Mapped(MethodOf(q))
  <2>1. PICK t \in Calls : c = <<t[1], t[2]>>
    BY DEF CallPairs
  <2>2. PICK i \in DOMAIN Findings : IsCall(Findings[i][2]) /\ Inside(Findings[i][2])
          /\ t = <<Findings[i][2].method.name, Findings[i][2].find.name, Findings[i][2].find.says>>
    BY CallsAre
  <2>3. PICK x : x = Findings[i][2]
    OBVIOUS
  <2>4. p = x.method.name /\ q = x.find.name /\ c = <<p, q>>
    BY <1>1, <2>1, <2>2, <2>3
  <2>5. x.method = MethodOf(p)
    BY <2>3, <2>4, StaticIs
  <2>. QED  BY <2>2, <2>3, <2>4, <2>5 DEF IsCall, Inside
<1>3. ASSUME NEW s \in passed PROVE s \in between
  <2>1. PICK t \in Calls : <<t[1], t[2]>> = c /\ s = t[3] /\ s # ""
    BY <1>3
  <2>2. PICK i \in DOMAIN Findings : IsCall(Findings[i][2]) /\ Inside(Findings[i][2])
          /\ t = <<Findings[i][2].method.name, Findings[i][2].find.name, Findings[i][2].find.says>>
    BY CallsAre
  <2>3. PICK x : x = Findings[i][2]
    OBVIOUS
  <2>4. p = x.method.name /\ q = x.find.name /\ s = x.find.says
    BY <1>1, <2>1, <2>2, <2>3
  <2>5. Passes(x) /\ Inside(x)
    BY <2>1, <2>2, <2>3, <2>4 DEF Passes, IsCall
  <2>6. \E w \in MethodArguments(NodeOf(p), NodeOf(q)) : w.name[3] = s
    BY <2>3, <2>4, <2>5, PassedIsBetween
  <2>. QED  BY <1>1, <2>6
<1>4. ASSUME NEW w \in MethodArguments(NodeOf(p), NodeOf(q))
      PROVE  w.name[3] \in passed \/ (p = q /\ w.name[3] \in PassedOutside(p))
  <2>1. PICK i \in DOMAIN Findings : LET y == Findings[i][2]
           IN /\ Passes(y) /\ y.method.name = p /\ w.name[3] = y.find.says
              /\ Inside(y) => y.find.name = q
              /\ ~Inside(y) => p = q
    BY <1>2, BetweenIsPassed
  <2>2. PICK y : y = Findings[i][2]
    OBVIOUS
  <2>3. IsCall(y) /\ y.method.name = p /\ w.name[3] = y.find.says /\ y.find.says # ""
    BY <2>1, <2>2 DEF Passes, IsCall
  <2>4. CASE Inside(y)
    <3>1. PICK t : t = <<p, q, w.name[3]>>
      OBVIOUS
    <3>2. t \in Calls
      BY <2>1, <2>2, <2>3, <2>4, <3>1, CallsAre
    <3>3. <<t[1], t[2]>> = c /\ t[3] = w.name[3]
      BY <1>2, <3>1
    <3>. QED  BY <2>3, <3>2, <3>3
  <2>5. CASE ~Inside(y)
    BY <2>1, <2>2, <2>3, <2>5, CallsAre
  <2>. QED  BY <2>4, <2>5
<1>5. ASSUME NEW s \in between PROVE s \in passed \cup (IF c[1] = c[2] THEN PassedOutside(c[1]) ELSE {})
  <2>1. PICK w \in MethodArguments(NodeOf(p), NodeOf(q)) : s = w.name[3]
    BY <1>1, <1>5
  <2>2. s \in passed \/ (p = q /\ s \in PassedOutside(p))
    BY <1>4, <2>1
  <2>. HIDE DEF passed
  <2>. QED  BY <1>1, <2>2
<1>. HIDE DEF between, passed
<1>6. passed \subseteq between /\ between \subseteq passed \cup (IF c[1] = c[2] THEN PassedOutside(c[1]) ELSE {})
  BY <1>3, <1>5
<1>. QED  BY <1>6 DEF between, passed

\* What get_method_arguments answers of two methods, once the graph is built, is what the first
\* passes in its calls of the second, whatever else is merged into the nodes around them; only
\* between a method and itself it may be more.
THEOREM ArgumentsAreTheCallsAlways == Spec => []ArgumentsAreTheCalls
BY ArgAlways, ArgumentsFollow, PTL

-----------------------------------------------------------------------------
(* The keys of methods say their class, which is not left out, and their    *)
(* signature and no more.                                                   *)

IsKey(k)      == k = MethodOf(k.name) /\ k.name[1] \notin Excluded
MethodKeysInv == \A k \in DOMAIN mappings : k.kind = "method" => IsKey(k)

LEMMA MethodKeysGrow ==
  ASSUME MethodKeysInv, NEW key, NEW n, key.kind = "method" => IsKey(key),
         mappings' = Keyed(key, n)
  PROVE  MethodKeysInv'
<1>1. DOMAIN mappings' = DOMAIN mappings \cup {key}
  BY DEF Keyed
<1>2. \A k \in DOMAIN mappings' : k.kind = "method" => IsKey(k)
  BY <1>1 DEF MethodKeysInv
<1>. QED  BY <1>2 DEF MethodKeysInv, IsKey

LEMMA MethodKeysSteps == GraphInv /\ MethodKeysInv /\ [Next]_vars => MethodKeysInv'
<1>. SUFFICES ASSUME GraphInv, MethodKeysInv, [Next]_vars PROVE MethodKeysInv'
  OBVIOUS
<1>0. ASSUME UNCHANGED mappings PROVE MethodKeysInv'
  BY <1>0 DEF MethodKeysInv, IsKey
<1>1. ASSUME NEW key, NewMapped(key), key.kind # "method" \/ \E p : key = MethodOf(p) /\ p[1] \notin Excluded
      PROVE  MethodKeysInv'
  <2>1. key.kind = "method" => IsKey(key)
    BY <1>1, MethodOfIs DEF IsKey
  <2>. QED  BY <1>1, <2>1, MethodKeysGrow DEF NewMapped
<1>2. \A a, p : /\ TypeOf(a).kind # "method" /\ StringOf(a).kind # "method" /\ ClassOf(a).kind # "method"
                /\ FieldOf(a, p).kind # "method"
  BY DEF TypeOf, StringOf, ClassOf, FieldOf, Weight
<1>3. CASE AddType
  BY <1>0, <1>1, <1>2, <1>3 DEF AddType, Unchanged
<1>4. CASE AddField
  BY <1>1, <1>2, <1>4 DEF AddField
<1>5. CASE AddMethod
  BY <1>0, <1>1, <1>5 DEF AddMethod, Unchanged
<1>6. CASE AddString
  BY <1>0, <1>1, <1>2, <1>6 DEF AddString, Unchanged
<1>7. CASE AddClass
  BY <1>2, <1>7, MethodKeysGrow DEF AddClass
<1>8. ASSUME Has("add", changes), NEW where, NEW n, NEW new, Added(where, n, new), change.kind # "edge"
      PROVE  MethodKeysInv'
  <2>1. at \in DOMAIN changes
    BY <1>8, ListFacts DEF Has, GraphInv, GraphType
  <2>2. change.node.kind # "method"
    BY <1>8, <2>1 DEF change, GraphInv, ChangesInv, ChangeFits
  <2>. QED  BY <1>0, <1>8, <2>2, MethodKeysGrow DEF Added, Keep
<1>9. CASE AddNodeTo
  BY <1>8, <1>9 DEF AddNodeTo
<1>10. CASE AddNodeFrom
  BY <1>8, <1>10 DEF AddNodeFrom
<1>11. CASE AddNodeFromTo
  BY <1>8, <1>11 DEF AddNodeFromTo
<1>12. CASE SkipClass \/ Panic \/ Cancel \/ Collect \/ AddEdge \/ NextPhase \/ UNCHANGED vars \/ UNCHANGED graphVars
  BY <1>0, <1>12 DEF SkipClass, Panic, Cancel, Collect, AddEdge, NextPhase, After, vars, graphVars, Unchanged
<1>. QED  BY <1>3, <1>4, <1>5, <1>6, <1>7, <1>9, <1>10, <1>11, <1>12 DEF Next, Build

LEMMA MethodKeysAlways == Spec => [](GraphInv /\ MethodKeysInv)
<1>1. Init => MethodKeysInv
  BY DEF Init, MethodKeysInv
<1>. QED  BY <1>1, GraphBegins, GraphSteps, MethodKeysSteps, PTL DEF Spec

-----------------------------------------------------------------------------
(* Interfaces.  In an app of one file, what is known of an interface by its *)
(* index there is what the interfaces met so far define, and an edge from a *)
(* method to a method is there for an implementation or a call.             *)

ClassNo(k)   == Classes[k][2]
IndexOf(k)   == TypeIndex(app[1], ClassNo(k).name)
CodeOf(k, s) == mappings[MethodOf(<<ClassNo(k).name, s>>)]
IsInterface(k) == ClassNo(k).interface /\ ClassNo(k).name \notin Excluded
Implements(n, k, s) ==
  /\ k < n /\ IsInterface(k) /\ ~ClassNo(n).interface /\ ClassNo(n).name \notin Excluded
  /\ ClassNo(k).name \in Range(ClassNo(n).interfaces) /\ s \in Sigs(ClassNo(k)) \cap Sigs(ClassNo(n))

\* The names of the file's types are all found as they are.
Reach == InReach(app[1])

NoClassInv == phase \in Preparing => \A k \in DOMAIN mappings : k.kind # "class"
FreshInv   ==
  Reach /\ phase = "inheritance" => \A k \in DOMAIN Classes : Mapped(ClassOf(ClassNo(k).name)) => k < at
KnownInv   ==
  phase = "inheritance" => \A i \in DOMAIN interfaces : \A m \in interfaces[i] :
    \E k \in DOMAIN Classes : k < at /\ IsInterface(k) /\ i = IndexOf(k) /\ \E s \in Sigs(ClassNo(k)) : m = CodeOf(k, s)
MetInv     ==
  Reach /\ phase = "inheritance" => \A k \in DOMAIN Classes : \A s \in Sigs(ClassNo(k)) :
    k < at /\ IsInterface(k) => IndexOf(k) \in DOMAIN interfaces /\ CodeOf(k, s) \in interfaces[IndexOf(k)]
LinkedInv  ==
  Reach /\ (phase = "inheritance" \/ ~cancelled) =>
    \A n, k \in DOMAIN Classes : \A s \in Sigs(ClassNo(k)) :
      (phase = "inheritance" => n < at) /\ Implements(n, k, s) => <<CodeOf(k, s), CodeOf(n, s)>> \in edges
BothMethods(from, to) == nodes[from].kind = "method" /\ nodes[to].kind = "method"
NamesOfPair(from, to) == <<nodes[from].name, nodes[to].name>>
ChangeCalls(c) == c.kind = "edge" /\ BothMethods(c.origin, c.destination) => NamesOfPair(c.origin, c.destination) \in CallPairs
PairsInv   ==
  /\ \A e \in edges : BothMethods(e[1], e[2]) => NamesOfPair(e[1], e[2]) \in Implementations \cup CallPairs
  /\ \A i \in DOMAIN changes : ChangeCalls(changes[i])
OneFileInv == FreshInv /\ KnownInv /\ MetInv /\ LinkedInv /\ PairsInv
ImplInv    == NoClassInv /\ MethodKeysInv /\ (phase \notin Preparing /\ Len(app) = 1 => OneFileInv)

LEMMA OneFile ==
  ASSUME AppInv, Len(app) = 1
  PROVE  /\ DOMAIN app = {1} /\ DOMAIN Classes = DOMAIN app[1].classes
         /\ \A k \in DOMAIN Classes : Classes[k] = <<app[1], app[1].classes[k]>>
<1>. DEFINE of(k) == [i \in DOMAIN app[k]["classes"] |-> <<app[k], app[k]["classes"][i]>>]
            lists == [k \in DOMAIN app |-> of(k)]
<1>1. DOMAIN app = 1 .. 1
  BY ListFacts DEF AppInv
<1>2. PICK s : s = lists
  OBVIOUS
<1>3. s = [k \in 1 .. 1 |-> s[k]] /\ s[1] = of(1)
  <2>. HIDE DEF of
  <2>. QED  BY <1>1, <1>2
<1>4. Len(s) = 1 /\ DOMAIN s = {1}
  BY <1>3, ListOf
<1>5. FlattenSeq(s) = s[1]
  BY <1>4, FlattenOne
<1>6. Classes = FlattenSeq(s)
  BY <1>2 DEF Classes, All
<1>. QED  BY <1>1, <1>3, <1>5, <1>6

LEMMA OneFileClasses ==
  ASSUME AppInv, Len(app) = 1
  PROVE  /\ \A k \in DOMAIN Classes : /\ Classes[k][1] = app[1] /\ ClassNo(k).name # Object
                                      /\ {ClassNo(k).name} \cup Range(ClassNo(k).interfaces) \subseteq Range(app[1].types)
         /\ \A j, k \in DOMAIN Classes : ClassNo(j).name = ClassNo(k).name => j = k
         /\ \A a, b \in Range(app[1].types) : TypeIndex(app[1], a) = TypeIndex(app[1], b) => a = b
         /\ Reach => \A k \in DOMAIN Classes : Called(app[1], ClassNo(k).name) = ClassNo(k).name
<1>1. WholeFile(app[1]) /\ DOMAIN Classes = DOMAIN app[1].classes
      /\ \A k \in DOMAIN Classes : Classes[k] = <<app[1], app[1].classes[k]>>
  BY OneFile DEF AppInv
<1>2. \A k \in DOMAIN Classes : Classes[k][1] = app[1] /\ ClassNo(k) = app[1].classes[k]
  BY <1>1 DEF ClassNo
<1>3. \A k \in DOMAIN Classes : WholeClass(ClassNo(k), app[1])
  BY <1>1, <1>2 DEF WholeFile
<1>4. \A j, k \in DOMAIN Classes : ClassNo(j).name = ClassNo(k).name => j = k
  BY <1>1, <1>2 DEF WholeFile
<1>5. ASSUME NEW a \in Range(app[1].types) PROVE app[1].types[TypeIndex(app[1], a)] = a
  <2>1. \E i \in DOMAIN app[1].types : app[1].types[i] = a
    BY DEF Range
  <2>. QED  BY <2>1 DEF TypeIndex
<1>6. ASSUME Reach, NEW k \in DOMAIN Classes PROVE Called(app[1], ClassNo(k).name) = ClassNo(k).name
  <2>1. ClassNo(k).name \in Range(app[1].types)
    BY <1>3 DEF WholeClass
  <2>2. ClassNo(k).name \in Range(app[1].strings) /\ IsList(app[1].strings)
    BY <1>1, <2>1 DEF WholeFile, FileLists
  <2>3. PICK g, t : g = app[1] /\ t = ClassNo(k).name
    OBVIOUS
  <2>. QED  BY <1>6, <2>1, <2>2, <2>3, CalledIs DEF Reach
<1>. QED  BY <1>2, <1>3, <1>4, <1>5, <1>6 DEF WholeClass

LEMMA ImplementationsAre ==
  ASSUME AppInv, Len(app) = 1
  PROVE  /\ \A p \in Implementations : \E n, k \in DOMAIN Classes : \E s :
              Implements(n, k, s) /\ p = <<<<ClassNo(k).name, s>>, <<ClassNo(n).name, s>>>>
         /\ \A n, k \in DOMAIN Classes : \A s : Implements(n, k, s) =>
              <<<<ClassNo(k).name, s>>, <<ClassNo(n).name, s>>>> \in Implementations
<1>. DEFINE Cond(k, n) == LET i == Classes[k]
                              c == Classes[n]
                          IN i[2].interface /\ ~c[2].interface /\ i[1] = c[1] /\ i[2].name \in Range(c[2].interfaces)
                             /\ {i[2].name, c[2].name} \cap Excluded = {}
            Of(k, n) == LET i == Classes[k]
                            c == Classes[n]
                        IN IF Cond(k, n) THEN {<<i[2], c[2], s>> : s \in Sigs(i[2]) \cap Sigs(c[2])} ELSE {}
            All3 == UNION {UNION {Of(k, n) : k \in 1 .. n - 1} : n \in DOMAIN Classes}
<1>1. Implementations = {<<<<t[1].name, t[3]>>, <<t[2].name, t[3]>>>> : t \in All3}
  BY DEF Implementations
<1>2. DOMAIN Classes = 1 .. Len(Classes) /\ Len(Classes) \in Nat
  BY ItemFacts
<1>3. ASSUME NEW n \in DOMAIN Classes, NEW k \in DOMAIN Classes
      PROVE  /\ k < n /\ Cond(k, n) => \A s \in Sigs(ClassNo(k)) \cap Sigs(ClassNo(n)) : Implements(n, k, s)
             /\ \A s : Implements(n, k, s) => Cond(k, n) /\ k < n /\ s \in Sigs(ClassNo(k)) \cap Sigs(ClassNo(n))
  <2>1. Classes[k][1] = Classes[n][1]
    BY OneFileClasses
  <2>. QED  BY <2>1 DEF Implements, IsInterface, ClassNo
<1>. HIDE DEF Cond
<1>4. ASSUME NEW p \in Implementations
      PROVE  \E n, k \in DOMAIN Classes : \E s :
               Implements(n, k, s) /\ p = <<<<ClassNo(k).name, s>>, <<ClassNo(n).name, s>>>>
  <2>1. PICK t \in All3 : p = <<<<t[1].name, t[3]>>, <<t[2].name, t[3]>>>>
    BY <1>1
  <2>2. PICK n \in DOMAIN Classes : \E k \in 1 .. n - 1 : t \in Of(k, n)
    OBVIOUS
  <2>3. PICK k \in 1 .. n - 1 : t \in Of(k, n)
    BY <2>2
  <2>4. k \in DOMAIN Classes /\ k < n
    BY <1>2
  <2>5. Cond(k, n) /\ \E s \in Sigs(ClassNo(k)) \cap Sigs(ClassNo(n)) : t = <<ClassNo(k), ClassNo(n), s>>
    BY <2>3 DEF ClassNo
  <2>6. PICK s \in Sigs(ClassNo(k)) \cap Sigs(ClassNo(n)) : t = <<ClassNo(k), ClassNo(n), s>>
    BY <2>5
  <2>7. Implements(n, k, s)
    BY <1>3, <2>4, <2>5
  <2>8. p = <<<<ClassNo(k).name, s>>, <<ClassNo(n).name, s>>>>
    <3>1. t[1] = ClassNo(k) /\ t[2] = ClassNo(n) /\ t[3] = s
      BY <2>6
    <3>. QED  BY <2>1, <3>1
  <2>. QED  BY <2>4, <2>7, <2>8
<1>5. ASSUME NEW n \in DOMAIN Classes, NEW k \in DOMAIN Classes, NEW s, Implements(n, k, s)
      PROVE  <<<<ClassNo(k).name, s>>, <<ClassNo(n).name, s>>>> \in Implementations
  <2>1. Cond(k, n) /\ k < n /\ s \in Sigs(ClassNo(k)) \cap Sigs(ClassNo(n))
    BY <1>3, <1>5
  <2>2. k \in 1 .. n - 1
    BY <1>2, <2>1
  <2>3. PICK t : t = <<ClassNo(k), ClassNo(n), s>>
    OBVIOUS
  <2>4. t \in Of(k, n)
    BY <2>1, <2>3 DEF ClassNo
  <2>5. t \in All3
    <3>. HIDE DEF Of
    <3>. QED  BY <2>2, <2>4
  <2>6. t[1] = ClassNo(k) /\ t[2] = ClassNo(n) /\ t[3] = s
    BY <2>3
  <2>. HIDE DEF All3
  <2>7. <<<<t[1].name, t[3]>>, <<t[2].name, t[3]>>>> \in Implementations
    BY <1>1, <2>5
  <2>. QED  BY <2>6, <2>7
<1>. QED  BY <1>4, <1>5

LEMMA CallPairsStay ==
  ASSUME GraphInv, [Next]_vars, phase \notin Preparing
  PROVE  CallPairs' = CallPairs
<1>1. Findings' = Findings
  BY StepGrows, ItemsStay
<1>2. ASSUME NEW k, k.kind = "method" PROVE Mapped(k)' <=> Mapped(k)
  BY <1>2, StepGrows DEF Grown, Mapped
<1>3. {j \in DOMAIN Findings : Findings[j][2].find.kind = "call" /\ Mapped(Findings[j][2].method)'}
        = {j \in DOMAIN Findings : Findings[j][2].find.kind = "call" /\ Mapped(Findings[j][2].method)}
  <2>1. ASSUME NEW j \in DOMAIN Findings
        PROVE  (Findings'[j][2].method \in DOMAIN mappings') <=> (Findings[j][2].method \in DOMAIN mappings)
    <3>1. PICK m : m = Findings[j][2].method
      OBVIOUS
    <3>2. m.kind = "method"
      BY <3>1, FoundMethod
    <3>. QED  BY <1>1, <1>2, <3>1, <3>2 DEF Mapped
  <2>. QED  BY <1>1, <2>1 DEF Mapped
<1>4. Found("call")' = Found("call")
  BY <1>1, <1>3 DEF Found
<1>5. {x \in Found("call") : Mapped(MethodOf(x[2].name))'} = {x \in Found("call") : Mapped(MethodOf(x[2].name))}
  <2>1. ASSUME NEW x PROVE Mapped(MethodOf(x[2].name))' <=> Mapped(MethodOf(x[2].name))
    <3>1. PICK k : k = MethodOf(x[2].name)
      OBVIOUS
    <3>2. Mapped(k)' <=> Mapped(k)
      BY <1>2, <3>1, MethodOfIs
    <3>. QED  BY <3>1, <3>2 DEF Mapped
  <2>. QED  BY <2>1
<1>6. Calls' = Calls
  BY <1>4, <1>5 DEF Calls, Mapped
<1>. QED  BY <1>6 DEF CallPairs

LEMMA ImplementationsStay ==
  ASSUME UNCHANGED app
  PROVE  Implementations' = Implementations
BY ItemsStay DEF Implementations

(***************************************************************************)
(* What an edge between methods is                                         *)
(***************************************************************************)
Calling(s) == IsList(s) /\ \A i \in DOMAIN s : ChangeCalls(s[i])

LEMMA CallingEmpty == Calling(<<>>)
BY DEF Calling, IsList, Range

LEMMA CallingOne ==
  ASSUME NEW c, ChangeCalls(c)
  PROVE  Calling(<<c>>)
<1>1. <<c>> \in Seq({c}) /\ Range(<<c>>) = {c} /\ DOMAIN <<c>> = {1} /\ <<c>>[1] = c
  BY DEF Range
<1>. QED  BY <1>1 DEF Calling, IsList

LEMMA CallingPair ==
  ASSUME NEW c, NEW d, ChangeCalls(c), ChangeCalls(d)
  PROVE  Calling(<<c, d>>)
<1>1. <<c, d>> \in Seq({c, d}) /\ DOMAIN <<c, d>> = {1, 2} /\ <<c, d>>[1] = c /\ <<c, d>>[2] = d
  OBVIOUS
<1>2. Range(<<c, d>>) = {c, d}
  BY <1>1 DEF Range
<1>. QED  BY <1>1, <1>2 DEF Calling, IsList

LEMMA CallingTwo ==
  ASSUME NEW s, NEW t, Calling(s), Calling(t)
  PROVE  Calling(s \o t)
<1>1. PICK u : u = s \o t
  OBVIOUS
<1>2. IsList(u) /\ Joined(u, s, t)
  BY <1>1, OwnConcat, IsListOf DEF Calling
<1>3. ASSUME NEW i \in DOMAIN u PROVE ChangeCalls(u[i])
  <2>1. CASE i \in 1 .. Len(s)
    BY <1>2, <2>1 DEF Joined, Calling
  <2>2. ASSUME NEW j \in 1 .. Len(t), i = Len(s) + j PROVE ChangeCalls(u[i])
    BY <1>2, <2>2 DEF Joined, Calling
  <2>. QED  BY <1>2, <2>1, <2>2 DEF Joined
<1>. QED  BY <1>1, <1>2, <1>3 DEF Calling

LEMMA CallingEdge ==
  ASSUME KeysInv, NEW a, NEW b, a.kind = "method" /\ b.kind = "method" => <<a.name, b.name>> \in CallPairs
  PROVE  Calling(EdgeBetween(a, b))
<1>1. CASE ~(Mapped(a) /\ Mapped(b))
  <2>1. EdgeBetween(a, b) = <<>>
    BY <1>1 DEF EdgeBetween
  <2>. QED  BY <2>1, CallingEmpty
<1>2. CASE Mapped(a) /\ Mapped(b)
  <2>1. PICK m, n : m = mappings[a] /\ n = mappings[b]
    OBVIOUS
  <2>2. nodes[m] = a /\ nodes[n] = b
    BY <1>2, <2>1, KeyIsLinked
  <2>3. PICK c : c = Edge(m, n)
    OBVIOUS
  <2>4. c.origin = m /\ c.destination = n
    BY <2>3 DEF Edge
  <2>5. ChangeCalls(c)
    BY <2>2, <2>4 DEF ChangeCalls, BothMethods, NamesOfPair
  <2>6. EdgeBetween(a, b) = <<c>>
    BY <1>2, <2>1, <2>3 DEF EdgeBetween
  <2>. QED  BY <2>5, <2>6, CallingOne
<1>. QED  BY <1>1, <1>2

\* Only a call makes an edge from a method to a method.
LEMMA FindingsCall ==
  ASSUME GraphInv, phase = "collect", at <= Len(Findings), Mapped(Item(Findings).method), NEW made \in ChangesOf
  PROVE  Calling(made)
<1>0. KeysInv
  BY DEF GraphInv
<1>1. PICK x : x = Item(Findings)
  OBVIOUS
<1>2. /\ find.kind \in FindKinds /\ find = x.find /\ at \in DOMAIN Findings /\ x = Findings[at][2] /\ Mapped(x.method)
      /\ find.kind \in {"get", "put", "field_set"} => Mapped(FieldOf(File(Findings), find.name))
  BY <1>1, FindIs DEF find, Item
<1>3. PICK field : field = FieldNode
  OBVIOUS
<1>4. find.kind \in {"get", "put", "field_set"} => nodes[field].kind = "field"
  <2>1. PICK k : k = FieldOf(File(Findings), find.name)
    OBVIOUS
  <2>2. k.kind = "field" /\ field = mappings[k]
    BY <1>3, <2>1 DEF FieldOf, Weight, FieldNode
  <2>. QED  BY <1>0, <1>2, <2>1, <2>2, KeyIsLinked
<1>5. ASSUME NEW c, c.kind # "edge" PROVE ChangeCalls(c) /\ Calling(<<c>>)
  <2>1. ChangeCalls(c)
    BY <1>5 DEF ChangeCalls
  <2>. QED  BY <2>1, CallingOne
<1>6. ASSUME NEW m, NEW n, nodes[m].kind = "field" \/ nodes[n].kind = "field"
      PROVE  ChangeCalls(Edge(m, n)) /\ Calling(<<Edge(m, n)>>)
  <2>1. PICK c : c = Edge(m, n)
    OBVIOUS
  <2>2. c.origin = m /\ c.destination = n
    BY <2>1 DEF Edge
  <2>3. ChangeCalls(c)
    BY <1>6, <2>2 DEF ChangeCalls, BothMethods
  <2>. QED  BY <2>1, <2>3, CallingOne
<1>7. CASE find.kind = "call"
  <2>1. PICK callee : callee = MethodOf(find.name)
    OBVIOUS
  <2>2. made = CallChanges
    BY <1>7 DEF ChangesOf
  <2>3. CASE Mapped(callee)
    <3>1. PICK static, n : static = Static /\ n = mappings[callee]
      OBVIOUS
    <3>2. PICK caller : caller = finder
      OBVIOUS
    <3>3. PICK e, f, g : /\ e = EdgeBetween(x.method, callee)
                         /\ f = EdgeBetween(callee, TypeOf(find.name[1]))
                         /\ g = IF find.says = "" THEN <<>> ELSE <<NodeFromTo(caller, n, static, FALSE)>>
      OBVIOUS
    <3>4. made = e \o f \o g
      BY <1>1, <2>1, <2>2, <2>3, <3>1, <3>2, <3>3 DEF CallChanges
    <3>5. <<x.method.name, callee.name>> \in CallPairs
      <4>1. PICK t : t = <<x.method.name, x.find.name, x.find.says>>
        OBVIOUS
      <4>2. t \in Calls
        BY <1>2, <1>7, <2>1, <2>3, <4>1, CallsAre DEF IsCall, Inside
      <4>3. t[1] = x.method.name /\ t[2] = callee.name
        BY <1>2, <2>1, <4>1, MethodOfIs
      <4>. QED  BY <4>2, <4>3 DEF CallPairs
    <3>6. Calling(e)
      BY <1>0, <3>3, <3>5, CallingEdge
    <3>7. Calling(f)
      <4>1. PICK b : b = TypeOf(find.name[1])
        OBVIOUS
      <4>2. b.kind = "type"
        BY <4>1 DEF TypeOf, Weight
      <4>. QED  BY <1>0, <3>3, <4>1, <4>2, CallingEdge
    <3>8. Calling(g)
      <4>1. PICK c : c = NodeFromTo(caller, n, static, FALSE)
        OBVIOUS
      <4>2. c.kind # "edge"
        BY <4>1 DEF NodeFromTo
      <4>. QED  BY <1>5, <3>3, <4>1, <4>2, CallingEmpty
    <3>. QED  BY <3>4, <3>6, <3>7, <3>8, CallingTwo
  <2>4. CASE ~Mapped(callee)
    <3>1. PICK c : c = NodeTo(finder, Static, FALSE)
      OBVIOUS
    <3>2. made = <<>> \/ made = <<c>>
      BY <2>1, <2>2, <2>4, <3>1 DEF CallChanges
    <3>3. c.kind # "edge"
      BY <3>1 DEF NodeTo
    <3>. QED  BY <1>5, <3>2, <3>3, CallingEmpty
  <2>. QED  BY <2>3, <2>4
<1>8. CASE find.kind = "returned"
  <2>1. PICK c : made = <<c>> /\ c.kind # "edge"
    <3>1. PICK w, caller : w = Weight("dynamic_return", <<find.says>>) /\ caller = finder
      OBVIOUS
    <3>2. made = <<NodeTo(caller, w, TRUE)>> \/ \E n \in Middle : made = <<NodeFromTo(caller, n, w, TRUE)>>
      BY <1>8, <3>1 DEF ChangesOf, ReturnChanges
    <3>. QED  BY <3>2 DEF NodeTo, NodeFromTo
  <2>. QED  BY <1>5, <2>1
<1>9. CASE find.kind = "string"
  <2>1. made = EdgeBetween(x.method, StringOf(find.name[1]))
    BY <1>1, <1>9 DEF ChangesOf
  <2>2. PICK b : b = StringOf(find.name[1])
    OBVIOUS
  <2>3. b.kind = "string"
    BY <2>2 DEF StringOf, Weight
  <2>. QED  BY <1>0, <2>1, <2>2, <2>3, CallingEdge
<1>10. CASE find.kind = "get"
  <2>1. PICK caller : caller = finder
    OBVIOUS
  <2>2. made = <<Edge(field, caller)>>
    BY <1>3, <1>10, <2>1 DEF ChangesOf
  <2>. QED  BY <1>4, <1>6, <1>10, <2>2
<1>11. CASE find.kind = "put"
  <2>1. PICK caller, static : caller = finder /\ static = Static
    OBVIOUS
  <2>2. PICK c, d : c = Edge(caller, field) /\ d = NodeFrom(field, static, FALSE)
    OBVIOUS
  <2>3. made = <<c, d>>
    BY <1>3, <1>11, <2>1, <2>2 DEF ChangesOf
  <2>4. ChangeCalls(c)
    BY <1>4, <1>6, <1>11, <2>2
  <2>5. d.kind # "edge"
    BY <2>2 DEF NodeFrom
  <2>. QED  BY <1>5, <2>3, <2>4, <2>5, CallingPair
<1>12. CASE find.kind = "array"
  <2>1. PICK c : c = NodeTo(finder, Weight("array", find.name), FALSE)
    OBVIOUS
  <2>2. made = <<c>> /\ c.kind # "edge"
    BY <1>12, <2>1 DEF ChangesOf, NodeTo
  <2>. QED  BY <1>5, <2>2
<1>13. CASE find.kind \in {"passed", "array_passed", "field_set"}
  <2>1. PICK node, w, keyed : made = <<NodeFrom(node, w, keyed)>>
    <3>1. made \in {<<NodeFrom(finder, Said, TRUE)>>, <<NodeFrom(finder, Weight("array", find.name), FALSE)>>,
                    <<NodeFrom(FieldNode, Said, TRUE)>>}
      BY <1>13 DEF ChangesOf
    <3>. QED  BY <3>1
  <2>2. PICK c : c = NodeFrom(node, w, keyed)
    OBVIOUS
  <2>3. c.kind # "edge"
    BY <2>2 DEF NodeFrom
  <2>. QED  BY <1>5, <2>1, <2>2, <2>3
<1>. QED  BY <1>2, <1>7, <1>8, <1>9, <1>10, <1>11, <1>12, <1>13 DEF FindKinds

(***************************************************************************)
(* What stays                                                              *)
(***************************************************************************)
LEMMA CodeStays ==
  ASSUME GraphInv, [Next]_vars, phase \notin Preparing, NEW k \in DOMAIN Classes, ClassNo(k).name \notin Excluded,
         NEW s \in Sigs(ClassNo(k))
  PROVE  /\ CodeOf(k, s)' = CodeOf(k, s) /\ Linked(CodeOf(k, s))
         /\ nodes[CodeOf(k, s)] = MethodOf(<<ClassNo(k).name, s>>)
<1>1. PICK m : m = MethodOf(<<ClassNo(k).name, s>>)
  OBVIOUS
<1>2. Mapped(m)
  <2>1. PICK j \in DOMAIN ClassNo(k).codes : s = ClassNo(k).codes[j].sig
    BY DEF Sigs
  <2>2. Mapped(MethodOf(<<Classes[k][2].name, Classes[k][2].codes[j].sig>>))
    BY <2>1, CodeIsMapped DEF ClassNo
  <2>. QED  BY <1>1, <2>1, <2>2 DEF ClassNo
<1>3. CodeOf(k, s) = mappings[m] /\ CodeOf(k, s)' = mappings'[m]
  <2>1. Classes' = Classes
    BY StepGrows, ItemsStay
  <2>. QED  BY <1>1, <2>1 DEF CodeOf, ClassNo
<1>4. mappings'[m] = mappings[m]
  BY <1>2, StepGrows DEF Grown, Mapped
<1>5. KeysInv
  BY DEF GraphInv
<1>. QED  BY <1>1, <1>2, <1>3, <1>4, <1>5, KeyIsLinked

LEMMA ClassesAre ==
  ASSUME GraphInv, [Next]_vars, phase \notin Preparing
  PROVE  /\ Classes' = Classes /\ \A k : ClassNo(k)' = ClassNo(k) /\ IndexOf(k)' = IndexOf(k)
         /\ \A n, k, s : Implements(n, k, s)' <=> Implements(n, k, s)
         /\ Reach' <=> Reach
         /\ \A k : (IsInterface(k)' <=> IsInterface(k)) /\ Sigs(ClassNo(k))' = Sigs(ClassNo(k))
<1>1. Classes' = Classes /\ app' = app
  BY StepGrows, ItemsStay
<1>2. \A k : ClassNo(k)' = ClassNo(k)
  BY <1>1 DEF ClassNo
<1>3. \A k : IndexOf(k)' = IndexOf(k)
  BY <1>1, <1>2 DEF IndexOf
<1>4. \A n, k, s : Implements(n, k, s)' <=> Implements(n, k, s)
  BY <1>1 DEF Implements, IsInterface, ClassNo
<1>5. \A k : (IsInterface(k)' <=> IsInterface(k)) /\ Sigs(ClassNo(k))' = Sigs(ClassNo(k))
  BY <1>1 DEF IsInterface, ClassNo, Sigs
<1>6. Reach' <=> Reach
  BY <1>1 DEF Reach, InReach
<1>. QED  BY <1>1, <1>2, <1>3, <1>4, <1>5, <1>6

LEMMA PairsKeep ==
  ASSUME GraphInv, [Next]_vars, phase \notin Preparing, PairsInv, NEW new, edges' = edges \cup new,
         \A e \in new : BothMethods(e[1], e[2])' => NamesOfPair(e[1], e[2])' \in Implementations \cup CallPairs,
         \A i \in DOMAIN changes' : ChangeFits(changes'[i]) /\ ChangeCalls(changes'[i])
  PROVE  PairsInv'
<1>1. Grown /\ CallPairs' = CallPairs /\ Implementations' = Implementations
  BY StepGrows, CallPairsStay, ImplementationsStay
<1>2. ASSUME NEW e \in edges', BothMethods(e[1], e[2])'
      PROVE  NamesOfPair(e[1], e[2])' \in Implementations \cup CallPairs
  <2>1. CASE e \in new
    BY <1>2, <2>1
  <2>2. CASE e \in edges
    <3>1. nodes'[e[1]] = nodes[e[1]] /\ nodes'[e[2]] = nodes[e[2]]
      BY <1>1, <2>2, MergesStay DEF GraphInv
    <3>2. BothMethods(e[1], e[2]) /\ NamesOfPair(e[1], e[2])' = NamesOfPair(e[1], e[2])
      BY <1>2, <3>1 DEF BothMethods, NamesOfPair
    <3>. QED  BY <2>2, <3>2 DEF PairsInv
  <2>. QED  BY <2>1, <2>2
<1>3. ASSUME NEW i \in DOMAIN changes' PROVE ChangeCalls(changes[i])'
  <2>1. PICK c : c = changes'[i]
    OBVIOUS
  <2>2. ChangeFits(c) /\ ChangeCalls(c)
    BY <2>1
  <2>3. ASSUME c.kind = "edge"
        PROVE  nodes'[c.origin] = nodes[c.origin] /\ nodes'[c.destination] = nodes[c.destination]
    BY <1>1, <2>2, <2>3, LinkedStays DEF ChangeFits, IsOf
  <2>4. c.kind = "edge" /\ nodes'[c.origin].kind = "method" /\ nodes'[c.destination].kind = "method"
          => <<nodes'[c.origin].name, nodes'[c.destination].name>> \in CallPairs'
    BY <1>1, <2>2, <2>3 DEF ChangeCalls, BothMethods, NamesOfPair
  <2>. QED  BY <2>1, <2>4 DEF ChangeCalls, BothMethods, NamesOfPair
<1>. QED  BY <1>1, <1>2, <1>3 DEF PairsInv

LEMMA LinkedKeeps ==
  ASSUME GraphInv, [Next]_vars, phase \notin Preparing, LinkedInv, edges \subseteq edges',
         phase' = "inheritance" \/ ~cancelled' => phase = "inheritance" \/ ~cancelled,
         Reach => \A n, k \in DOMAIN Classes : \A s \in Sigs(ClassNo(k)) :
           (phase' = "inheritance" => n < at') /\ Implements(n, k, s) =>
             (phase = "inheritance" => n < at) \/ <<CodeOf(k, s), CodeOf(n, s)>> \in edges'
  PROVE  LinkedInv'
<1>1. SUFFICES ASSUME Reach, phase' = "inheritance" \/ ~cancelled', NEW n \in DOMAIN Classes, NEW k \in DOMAIN Classes,
                      NEW s \in Sigs(ClassNo(k)), phase' = "inheritance" => n < at', Implements(n, k, s)
               PROVE  <<CodeOf(k, s)', CodeOf(n, s)'>> \in edges'
  BY ClassesAre DEF LinkedInv
<1>2. <<CodeOf(k, s), CodeOf(n, s)>> \in edges'
  BY <1>1 DEF LinkedInv
<1>3. CodeOf(k, s)' = CodeOf(k, s) /\ CodeOf(n, s)' = CodeOf(n, s)
  BY <1>1, CodeStays DEF Implements, IsInterface
<1>. QED  BY <1>2, <1>3

(***************************************************************************)
(* A class of the file                                                     *)
(***************************************************************************)
LEMMA ClassEdgesBegin ==
  ASSUME GraphInv, [Next]_vars, AddClass, NEW e \in ClassEdges(NewNode)
  PROVE  nodes'[e[1]].kind # "method"
<1>1. KeysInv /\ IsList(nodes) /\ phase \notin Preparing
  BY DEF GraphInv, GraphType, AddClass, Has, Preparing
<1>2. PICK fresh : fresh = NewNode
  OBVIOUS
<1>3. PICK key : key = ClassOf(called)
  OBVIOUS
<1>4. nodes' = Append(nodes, key) /\ key.kind = "class"
  BY <1>3 DEF AddClass, ClassOf, Weight
<1>5. nodes'[fresh] = key
  BY <1>1, <1>2, <1>4, NewNodeIs
<1>6. ASSUME NEW from, NEW to, from.kind # "method", e \in Links(from, to) PROVE nodes'[e[1]].kind # "method"
  <2>1. PICK a, b : a = mappings[from] /\ b = mappings[to]
    OBVIOUS
  <2>2. Mapped(from) /\ e = <<a, b>>
    BY <1>6, <2>1 DEF Links
  <2>3. Linked(a) /\ nodes[a] = from
    BY <1>1, <2>1, <2>2, KeyIsLinked
  <2>4. nodes'[a] = from
    BY <1>1, <2>3, StepGrows, LinkedStays
  <2>. QED  BY <1>6, <2>2, <2>4
<1>7. \A x, y, f : TypeOf(x).kind # "method" /\ StringOf(y).kind # "method" /\ FieldOf(f, x).kind # "method"
  BY DEF TypeOf, StringOf, FieldOf, Weight
<1>8. \/ e[1] = fresh
      \/ \E x, y : e \in Links(TypeOf(x), TypeOf(y))
      \/ \E x, y, f : e \in Links(StringOf(x), FieldOf(f, y)) \cup Links(FieldOf(f, y), StringOf(x))
  BY <1>2 DEF ClassEdges
<1>9. ASSUME NEW x, NEW y, e \in Links(TypeOf(x), TypeOf(y)) PROVE nodes'[e[1]].kind # "method"
  BY <1>6, <1>7, <1>9
<1>10. ASSUME NEW x, NEW y, NEW f, e \in Links(StringOf(x), FieldOf(f, y)) \cup Links(FieldOf(f, y), StringOf(x))
       PROVE  nodes'[e[1]].kind # "method"
  <2>1. PICK a, b : a = StringOf(x) /\ b = FieldOf(f, y)
    OBVIOUS
  <2>2. a.kind # "method" /\ b.kind # "method"
    BY <1>7, <2>1
  <2>3. e \in Links(a, b) \/ e \in Links(b, a)
    BY <1>10, <2>1
  <2>. QED  BY <1>6, <2>2, <2>3
<1>. QED  BY <1>4, <1>5, <1>8, <1>9, <1>10

\* Where the class is, and what adding it changes.
LEMMA ClassStep ==
  ASSUME GraphInv, MethodKeysInv, [Next]_vars, app # <<>>, Len(app) = 1, AddClass
  PROVE  /\ phase = "inheritance" /\ phase' = "inheritance" /\ at' = at + 1 /\ at \in Nat /\ UNCHANGED <<cancelled, changes>>
         /\ at \in DOMAIN Classes /\ class = ClassNo(at) /\ file = app[1]
         /\ (Sigs(class) # {} => class.name \notin Excluded) /\ (Reach => called = class.name)
         /\ mappings' = Keyed(ClassOf(called), NewNode)
         /\ \E here : /\ here = {CodeOf(at, s) : s \in Sigs(class)}
                      /\ edges' = edges \cup (ClassEdges(NewNode) \cup (IF class.interface THEN {} ELSE Overridden(here)))
                      /\ interfaces' = IF ~class.interface THEN interfaces
                              ELSE [j \in DOMAIN interfaces \cup {IndexOf(at)} |->
                                      IF j = IndexOf(at)
                                      THEN (IF IndexOf(at) \in DOMAIN interfaces THEN interfaces[IndexOf(at)] ELSE {}) \cup here
                                      ELSE interfaces[j]]
<1>0. AppInv /\ at \in Nat \ {0}
  BY DEF GraphInv, GraphType, LoadInv
<1>1. /\ phase = "inheritance" /\ phase' = "inheritance" /\ at' = at + 1 /\ UNCHANGED <<cancelled, changes>>
      /\ mappings' = Keyed(ClassOf(called), NewNode) /\ at <= Len(Classes)
  BY DEF AddClass, Has, Onward
<1>2. at \in DOMAIN Classes
  BY <1>0, <1>1, ItemFacts
<1>3. class = ClassNo(at) /\ file = app[1]
  BY <1>0, <1>2, OneFileClasses DEF class, file, Item, File, ClassNo
<1>4. Mapped(TypeOf(class.name))
  <2>1. class.name \in Range(app[1].types) /\ class.name # Object
    BY <1>0, <1>2, <1>3, OneFileClasses
  <2>2. 1 \in DOMAIN app
    BY <1>0, OneFile
  <2>. QED  BY <1>1, <2>1, <2>2, FileKeys DEF Preparing
<1>5. PICK here : here = {mappings[m] : m \in CodeMethods}
  OBVIOUS
<1>6. here = {CodeOf(at, s) : s \in Sigs(class)}
  BY <1>3, <1>5 DEF CodeMethods, CodeOf, Sigs
<1>7. TypeIndex(file, class.name) = IndexOf(at)
  BY <1>3 DEF IndexOf
<1>8. /\ edges' = edges \cup ClassEdges(NewNode) \cup (IF class.interface THEN {} ELSE Overridden(here))
      /\ interfaces' = IF ~class.interface THEN interfaces
                              ELSE [j \in DOMAIN interfaces \cup {IndexOf(at)} |->
                                      IF j = IndexOf(at)
                                      THEN (IF IndexOf(at) \in DOMAIN interfaces THEN interfaces[IndexOf(at)] ELSE {}) \cup here
                                      ELSE interfaces[j]]
  BY <1>4, <1>5, <1>7 DEF AddClass
<1>9. edges' = edges \cup (ClassEdges(NewNode) \cup (IF class.interface THEN {} ELSE Overridden(here)))
  BY <1>8
<1>10. ASSUME NEW s \in Sigs(class) PROVE class.name \notin Excluded
  <2>1. PICK m \in CodeMethods : m = MethodOf(<<class.name, s>>)
    BY DEF Sigs, CodeMethods
  <2>2. Mapped(m)
    BY DEF AddClass
  <2>3. m.kind = "method" /\ m.name = <<class.name, s>>
    BY <2>1, MethodOfIs
  <2>. QED  BY <2>2, <2>3 DEF MethodKeysInv, IsKey, Mapped
<1>11. Reach => called = class.name
  BY <1>0, <1>2, <1>3, OneFileClasses DEF called
<1>. QED  BY <1>0, <1>1, <1>2, <1>3, <1>6, <1>8, <1>9, <1>10, <1>11

LEMMA ClassImplements ==
  ASSUME GraphInv, GraphInv', MethodKeysInv, [Next]_vars, app # <<>>, Len(app) = 1, OneFileInv, AddClass
  PROVE  OneFileInv'
<1>0. /\ AppInv /\ KeysInv /\ FreshInv /\ KnownInv /\ MetInv /\ LinkedInv /\ PairsInv /\ phase \notin Preparing
      /\ changes = <<>>
  BY ClassStep DEF GraphInv, LoadInv, OneFileInv, QuietInv, Preparing
<1>1. /\ phase = "inheritance" /\ phase' = "inheritance" /\ at' = at + 1 /\ at \in Nat /\ UNCHANGED <<cancelled, changes>>
      /\ at \in DOMAIN Classes /\ class = ClassNo(at) /\ file = app[1]
      /\ (Sigs(class) # {} => class.name \notin Excluded) /\ (Reach => called = class.name)
      /\ mappings' = Keyed(ClassOf(called), NewNode)
  BY ClassStep
<1>2. PICK here : /\ here = {CodeOf(at, s) : s \in Sigs(class)}
                  /\ edges' = edges \cup (ClassEdges(NewNode) \cup (IF class.interface THEN {} ELSE Overridden(here)))
                  /\ interfaces' = IF ~class.interface THEN interfaces
                              ELSE [j \in DOMAIN interfaces \cup {IndexOf(at)} |->
                                      IF j = IndexOf(at)
                                      THEN (IF IndexOf(at) \in DOMAIN interfaces THEN interfaces[IndexOf(at)] ELSE {}) \cup here
                                      ELSE interfaces[j]]
  BY ClassStep
<1>3. /\ Classes' = Classes /\ \A k : ClassNo(k)' = ClassNo(k) /\ IndexOf(k)' = IndexOf(k)
      /\ \A k : (IsInterface(k)' <=> IsInterface(k)) /\ Sigs(ClassNo(k))' = Sigs(ClassNo(k))
      /\ Reach' <=> Reach
  BY <1>0, ClassesAre
<1>4. DOMAIN Classes \subseteq Nat
  BY <1>0, ItemFacts
<1>5. FreshInv'
  <2>1. ASSUME Reach, NEW k \in DOMAIN Classes, NEW key, key = ClassOf(ClassNo(k).name), Mapped(key)' PROVE k < at'
    <3>1. CASE Mapped(key)
      BY <1>0, <1>1, <1>4, <2>1, <3>1 DEF FreshInv
    <3>2. CASE ~Mapped(key)
      <4>1. key = ClassOf(class.name)
        BY <1>1, <2>1, <3>2 DEF Keyed, Mapped
      <4>2. key.name = <<ClassNo(k).name>> /\ key.name = <<class.name>>
        BY <2>1, <4>1 DEF ClassOf, Weight
      <4>3. ClassNo(k).name = ClassNo(at).name
        <5>1. \A a, b : <<a>> = <<b>> => a = b
          OBVIOUS
        <5>. QED  BY <1>1, <4>2, <5>1
      <4>4. k = at
        BY <1>0, <1>1, <4>3, OneFileClasses
      <4>. QED  BY <1>1, <4>4
    <3>. QED  BY <3>1, <3>2
  <2>2. ASSUME Reach, NEW k \in DOMAIN Classes', Mapped(ClassOf(ClassNo(k).name))' PROVE k < at'
    <3>1. PICK key : key = ClassOf(ClassNo(k).name)
      OBVIOUS
    <3>2. Mapped(key)'
      BY <1>3, <2>2, <3>1 DEF Mapped, ClassOf, Weight
    <3>. QED  BY <1>3, <2>1, <2>2, <3>1, <3>2
  <2>. QED  BY <1>3, <2>2 DEF FreshInv
<1>6. ASSUME NEW k \in DOMAIN Classes, IsInterface(k), NEW s \in Sigs(ClassNo(k)) PROVE CodeOf(k, s)' = CodeOf(k, s)
  BY <1>0, <1>6, CodeStays DEF IsInterface
<1>7. KnownInv'
  <2>1. ASSUME NEW j \in DOMAIN interfaces', NEW m \in interfaces'[j]
        PROVE  \E k \in DOMAIN Classes : k < at' /\ IsInterface(k) /\ j = IndexOf(k) /\ \E s \in Sigs(ClassNo(k)) : m = CodeOf(k, s)
    <3>1. CASE j \in DOMAIN interfaces /\ m \in interfaces[j]
      <4>1. PICK k \in DOMAIN Classes : k < at /\ IsInterface(k) /\ j = IndexOf(k) /\ \E s \in Sigs(ClassNo(k)) : m = CodeOf(k, s)
        BY <1>0, <1>1, <3>1 DEF KnownInv
      <4>2. k < at'
        BY <1>1, <1>4, <4>1
      <4>. QED  BY <4>1, <4>2
    <3>2. CASE ~(j \in DOMAIN interfaces /\ m \in interfaces[j])
      <4>1. class.interface /\ j = IndexOf(at) /\ m \in here
        BY <1>2, <2>1, <3>2
      <4>2. IsInterface(at)
        BY <1>1, <1>2, <4>1 DEF IsInterface
      <4>3. \E s \in Sigs(ClassNo(at)) : m = CodeOf(at, s)
        BY <1>1, <1>2, <4>1
      <4>. QED  BY <1>1, <4>1, <4>2, <4>3
    <3>. QED  BY <3>1, <3>2
  <2>2. ASSUME NEW j \in DOMAIN interfaces', NEW m \in interfaces'[j]
        PROVE  \E k \in DOMAIN Classes' : k < at' /\ IsInterface(k)' /\ j = IndexOf(k)' /\ \E s \in Sigs(ClassNo(k))' : m = CodeOf(k, s)'
    <3>1. PICK k \in DOMAIN Classes : k < at' /\ IsInterface(k) /\ j = IndexOf(k) /\ \E s \in Sigs(ClassNo(k)) : m = CodeOf(k, s)
      BY <2>1
    <3>2. PICK s \in Sigs(ClassNo(k)) : m = CodeOf(k, s)
      BY <3>1
    <3>3. m = CodeOf(k, s)'
      BY <1>6, <3>1, <3>2
    <3>. QED  BY <1>3, <3>1, <3>3
  <2>. QED  BY <2>2 DEF KnownInv
<1>8. MetInv'
  <2>1. ASSUME Reach, NEW k \in DOMAIN Classes, NEW s \in Sigs(ClassNo(k)), k < at', IsInterface(k)
        PROVE  IndexOf(k) \in DOMAIN interfaces' /\ CodeOf(k, s) \in interfaces'[IndexOf(k)]
    <3>1. CASE k < at
      <4>1. IndexOf(k) \in DOMAIN interfaces /\ CodeOf(k, s) \in interfaces[IndexOf(k)]
        BY <1>0, <1>1, <2>1, <3>1 DEF MetInv
      <4>. QED  BY <1>2, <4>1
    <3>2. CASE k = at
      <4>1. class.interface /\ CodeOf(at, s) \in here
        BY <1>1, <1>2, <2>1, <3>2 DEF IsInterface
      <4>. QED  BY <1>2, <3>2, <4>1
    <3>. QED  BY <1>1, <1>4, <2>1, <3>1, <3>2
  <2>2. ASSUME Reach, NEW k \in DOMAIN Classes', NEW s \in Sigs(ClassNo(k))', k < at', IsInterface(k)'
        PROVE  IndexOf(k)' \in DOMAIN interfaces' /\ CodeOf(k, s)' \in interfaces'[IndexOf(k)']
    <3>1. k \in DOMAIN Classes /\ s \in Sigs(ClassNo(k)) /\ IsInterface(k) /\ IndexOf(k)' = IndexOf(k)
      BY <1>3, <2>2
    <3>2. CodeOf(k, s)' = CodeOf(k, s)
      BY <1>6, <3>1
    <3>. QED  BY <2>1, <2>2, <3>1, <3>2
  <2>. QED  BY <1>3, <2>2 DEF MetInv
<1>9. \A a \in Range(app[1].types) : \A k \in DOMAIN Classes : TypeIndex(app[1], a) = IndexOf(k) => a = ClassNo(k).name
  BY <1>0, OneFileClasses DEF IndexOf
<1>10. LinkedInv'
  <2>1. ASSUME Reach, NEW n \in DOMAIN Classes, NEW k \in DOMAIN Classes, NEW s \in Sigs(ClassNo(k)), n < at',
               Implements(n, k, s), ~(n < at)
        PROVE  <<CodeOf(k, s), CodeOf(n, s)>> \in edges'
    <3>1. n = at
      BY <1>1, <1>4, <2>1
    <3>2. /\ k < at /\ IsInterface(k) /\ ~class.interface /\ ClassNo(k).name \in Range(class.interfaces)
          /\ s \in Sigs(ClassNo(k)) /\ s \in Sigs(class)
      BY <1>1, <2>1, <3>1 DEF Implements
    <3>3. CodeOf(k, s) \in InterfaceMethods
      <4>1. IndexOf(k) \in DOMAIN interfaces /\ CodeOf(k, s) \in interfaces[IndexOf(k)]
        BY <1>0, <1>1, <2>1, <3>2 DEF MetInv
      <4>2. PICK x \in DOMAIN class.interfaces : class.interfaces[x] = ClassNo(k).name
        BY <3>2 DEF Range
      <4>3. TypeIndex(file, class.interfaces[x]) = IndexOf(k)
        BY <1>1, <4>2 DEF IndexOf
      <4>. QED  BY <4>1, <4>3 DEF InterfaceMethods
    <3>4. CodeOf(at, s) \in here
      BY <1>2, <3>2
    <3>5. SameName(CodeOf(k, s), CodeOf(at, s))
      <4>1. nodes[CodeOf(k, s)] = MethodOf(<<ClassNo(k).name, s>>) /\ nodes[CodeOf(at, s)] = MethodOf(<<ClassNo(at).name, s>>)
        BY <1>0, <1>1, <3>2, CodeStays DEF IsInterface
      <4>2. nodes[CodeOf(k, s)].name = <<ClassNo(k).name, s>> /\ nodes[CodeOf(at, s)].name = <<ClassNo(at).name, s>>
        BY <4>1, MethodOfIs
      <4>. QED  BY <4>2 DEF SameName
    <3>6. PICK e : e = <<CodeOf(k, s), CodeOf(at, s)>>
      OBVIOUS
    <3>7. e \in InterfaceMethods \X here /\ e[1] = CodeOf(k, s) /\ e[2] = CodeOf(at, s)
      BY <3>3, <3>4, <3>6
    <3>8. e \in Overridden(here)
      BY <3>5, <3>7 DEF Overridden
    <3>. QED  BY <1>2, <3>1, <3>2, <3>6, <3>8
  <2>2. edges \subseteq edges'
    BY <1>2
  <2>. QED  BY <1>0, <1>1, <2>1, <2>2, LinkedKeeps
<1>11. PairsInv'
  <2>1. PICK over : over = IF class.interface THEN {} ELSE Overridden(here)
    OBVIOUS
  <2>2. PICK new : new = ClassEdges(NewNode) \cup over
    OBVIOUS
  <2>3. edges' = edges \cup new
    BY <1>2, <2>1, <2>2
  <2>4. ASSUME NEW e \in over PROVE NamesOfPair(e[1], e[2])' \in Implementations
    <3>1. ~class.interface /\ e \in InterfaceMethods \X here /\ SameName(e[1], e[2])
      BY <2>1, <2>4 DEF Overridden
    <3>2. e[1] \in InterfaceMethods /\ e[2] \in here
      BY <3>1
    <3>3. PICK x \in DOMAIN class.interfaces :
            TypeIndex(file, class.interfaces[x]) \in DOMAIN interfaces /\ e[1] \in interfaces[TypeIndex(file, class.interfaces[x])]
      BY <3>2 DEF InterfaceMethods
    <3>4. PICK k \in DOMAIN Classes : k < at /\ IsInterface(k) /\ TypeIndex(file, class.interfaces[x]) = IndexOf(k)
                                      /\ \E s \in Sigs(ClassNo(k)) : e[1] = CodeOf(k, s)
      BY <1>0, <1>1, <3>3 DEF KnownInv
    <3>5. PICK s \in Sigs(ClassNo(k)) : e[1] = CodeOf(k, s)
      BY <3>4
    <3>6. PICK r \in Sigs(class) : e[2] = CodeOf(at, r)
      BY <1>2, <3>2
    <3>7. class.interfaces[x] \in Range(class.interfaces) /\ class.interfaces[x] = ClassNo(k).name
      <4>1. class.interfaces[x] \in Range(class.interfaces)
        BY DEF Range
      <4>2. class.interfaces[x] \in Range(app[1].types)
        BY <1>0, <1>1, <4>1, OneFileClasses
      <4>. QED  BY <1>1, <1>9, <3>4, <4>1, <4>2
    <3>8. /\ Linked(e[1]) /\ nodes[e[1]] = MethodOf(<<ClassNo(k).name, s>>)
          /\ Linked(e[2]) /\ nodes[e[2]] = MethodOf(<<ClassNo(at).name, r>>)
      BY <1>0, <1>1, <3>4, <3>5, <3>6, CodeStays DEF IsInterface
    <3>9. nodes[e[1]].name = <<ClassNo(k).name, s>> /\ nodes[e[2]].name = <<ClassNo(at).name, r>>
      BY <3>8, MethodOfIs
    <3>10. s = r
      BY <3>1, <3>9 DEF SameName
    <3>11. Implements(at, k, s)
      BY <1>1, <3>1, <3>4, <3>5, <3>6, <3>7, <3>10 DEF Implements
    <3>12. <<<<ClassNo(k).name, s>>, <<ClassNo(at).name, s>>>> \in Implementations
      BY <1>0, <1>1, <3>11, ImplementationsAre
    <3>13. nodes'[e[1]] = nodes[e[1]] /\ nodes'[e[2]] = nodes[e[2]]
      BY <1>0, <3>8, StepGrows, LinkedStays
    <3>. QED  BY <3>9, <3>10, <3>12, <3>13 DEF NamesOfPair
  <2>5. ASSUME NEW e \in new, BothMethods(e[1], e[2])' PROVE NamesOfPair(e[1], e[2])' \in Implementations \cup CallPairs
    <3>1. e \notin ClassEdges(NewNode)
      BY <2>5, ClassEdgesBegin DEF BothMethods
    <3>. QED  BY <2>2, <2>4, <3>1
  <2>6. \A i \in DOMAIN changes' : FALSE
    BY <1>0, <1>1
  <2>. QED  BY <1>0, <2>3, <2>5, <2>6, PairsKeep
<1>. QED  BY <1>5, <1>7, <1>8, <1>10, <1>11 DEF OneFileInv

(***************************************************************************)
(* The other steps                                                         *)
(***************************************************************************)
LEMMA ChangesCall ==
  ASSUME ChangesInv, PairsInv
  PROVE  \A i \in DOMAIN changes : ChangeFits(changes[i]) /\ ChangeCalls(changes[i])
BY DEF ChangesInv, PairsInv

LEMMA PastClasses ==
  ASSUME phase' # "inheritance", LinkedInv', PairsInv'
  PROVE  OneFileInv'
BY DEF OneFileInv, FreshInv, KnownInv, MetInv

\* A step that goes on without a class that is not left out.
GoesOn ==
  /\ phase' = "inheritance" => phase = "inheritance"
  /\ \A n \in DOMAIN Classes : phase' = "inheritance" /\ n < at => n < at'
  /\ Reach => \A n \in DOMAIN Classes :
         phase = "inheritance" /\ (phase' = "inheritance" => n < at') /\ ClassNo(n).name \notin Excluded => n < at

LEMMA OneFileKeeps ==
  ASSUME GraphInv, [Next]_vars, phase \notin Preparing, OneFileInv,
         UNCHANGED <<edges, mappings, interfaces, cancelled, changes>>, GoesOn
  PROVE  OneFileInv'
<1>0. /\ phase' = "inheritance" => phase = "inheritance"
      /\ \A n \in DOMAIN Classes : phase' = "inheritance" /\ n < at => n < at'
      /\ Reach => \A n \in DOMAIN Classes :
         phase = "inheritance" /\ (phase' = "inheritance" => n < at') /\ ClassNo(n).name \notin Excluded => n < at
  BY DEF GoesOn
<1>1. FreshInv /\ KnownInv /\ MetInv /\ LinkedInv /\ PairsInv /\ ChangesInv
  BY DEF OneFileInv, GraphInv
<1>2. /\ Classes' = Classes /\ \A k : ClassNo(k)' = ClassNo(k) /\ IndexOf(k)' = IndexOf(k)
      /\ \A k : (IsInterface(k)' <=> IsInterface(k)) /\ Sigs(ClassNo(k))' = Sigs(ClassNo(k))
      /\ Reach' <=> Reach
  BY ClassesAre
<1>3. \A k, s : CodeOf(k, s)' = CodeOf(k, s)
  BY <1>2 DEF CodeOf, ClassNo
<1>4. PICK none : none = {}
  OBVIOUS
<1>5. PairsInv'
  <2>1. edges' = edges \cup none /\ \A e \in none : FALSE
    BY <1>4
  <2>2. \A i \in DOMAIN changes' : ChangeFits(changes'[i]) /\ ChangeCalls(changes'[i])
    BY <1>1, ChangesCall
  <2>. QED  BY <1>1, <2>1, <2>2, PairsKeep
<1>6. LinkedInv'
  <2>1. Reach => \A n, k \in DOMAIN Classes : \A s \in Sigs(ClassNo(k)) :
          (phase' = "inheritance" => n < at') /\ Implements(n, k, s) => (phase = "inheritance" => n < at)
    BY <1>0 DEF Implements, IsInterface
  <2>. QED  BY <1>0, <1>1, <2>1, LinkedKeeps
<1>7. ASSUME phase' = "inheritance" PROVE FreshInv' /\ KnownInv' /\ MetInv'
  <2>1. FreshInv'
    <3>1. Reach => \A k \in DOMAIN Classes : Mapped(ClassOf(ClassNo(k).name))' => k < at
      BY <1>0, <1>1, <1>2, <1>7 DEF FreshInv, Mapped
    <3>. QED  BY <1>0, <1>2, <1>7, <3>1 DEF FreshInv
  <2>2. KnownInv'
    <3>1. ASSUME NEW i \in DOMAIN interfaces, NEW m \in interfaces[i]
          PROVE  \E k \in DOMAIN Classes' : k < at' /\ IsInterface(k)' /\ i = IndexOf(k)' /\ \E s \in Sigs(ClassNo(k))' : m = CodeOf(k, s)'
      <4>1. PICK k \in DOMAIN Classes : k < at /\ IsInterface(k) /\ i = IndexOf(k) /\ \E s \in Sigs(ClassNo(k)) : m = CodeOf(k, s)
        BY <1>0, <1>1, <1>7, <3>1 DEF KnownInv
      <4>. QED  BY <1>0, <1>2, <1>3, <1>7, <4>1
    <3>. QED  BY <3>1 DEF KnownInv
  <2>3. MetInv'
    <3>1. ASSUME Reach, NEW k \in DOMAIN Classes', NEW s \in Sigs(ClassNo(k))', k < at', IsInterface(k)'
          PROVE  IndexOf(k)' \in DOMAIN interfaces /\ CodeOf(k, s)' \in interfaces[IndexOf(k)']
      <4>1. k \in DOMAIN Classes /\ s \in Sigs(ClassNo(k)) /\ IsInterface(k)
        BY <1>2, <3>1
      <4>2. k < at
        BY <1>0, <1>7, <3>1, <4>1 DEF IsInterface
      <4>3. IndexOf(k) \in DOMAIN interfaces /\ CodeOf(k, s) \in interfaces[IndexOf(k)]
        BY <1>0, <1>1, <1>7, <3>1, <4>1, <4>2 DEF MetInv
      <4>. QED  BY <1>2, <1>3, <4>3
    <3>. QED  BY <1>2, <3>1 DEF MetInv
  <2>. QED  BY <2>1, <2>2, <2>3
<1>. QED  BY <1>5, <1>6, <1>7, PastClasses DEF OneFileInv

\* Once classes are done with, an edge that is new is of a call.
LEMMA LaterKeeps ==
  ASSUME GraphInv, [Next]_vars, phase \notin BeforeCollect, phase' \notin BeforeCollect, OneFileInv, UNCHANGED cancelled,
         NEW new, edges' = edges \cup new,
         \A e \in new : BothMethods(e[1], e[2])' => NamesOfPair(e[1], e[2])' \in CallPairs,
         \A i \in DOMAIN changes' : ChangeFits(changes'[i]) /\ ChangeCalls(changes'[i])
  PROVE  OneFileInv'
<1>1. phase \notin Preparing /\ phase # "inheritance" /\ phase' # "inheritance" /\ LinkedInv /\ PairsInv
  BY DEF BeforeCollect, OneFileInv
<1>2. PairsInv'
  BY <1>1, PairsKeep
<1>3. LinkedInv'
  <2>1. edges \subseteq edges'
    OBVIOUS
  <2>. QED  BY <1>1, <2>1, LinkedKeeps
<1>. QED  BY <1>1, <1>2, <1>3, PastClasses

LEMMA CollectImplements ==
  ASSUME GraphInv, [Next]_vars, OneFileInv, Collect
  PROVE  OneFileInv'
<1>1. /\ phase = "collect" /\ at <= Len(Findings) /\ phase' = "collect" /\ UNCHANGED <<edges, cancelled>>
      /\ phase \notin BeforeCollect /\ phase' \notin BeforeCollect /\ IsList(changes) /\ PairsInv /\ ChangesInv
  BY DEF Collect, Has, Onward, BeforeCollect, Preparing, GraphInv, GraphType, OneFileInv
<1>2. Calling(changes) /\ Fit(changes)
  BY <1>1, ChangesCall DEF Calling, Fit
<1>3. Calling(changes') /\ Fit(changes')
  <2>1. CASE ~Mapped(Item(Findings).method)
    <3>1. changes' = changes
      BY <2>1 DEF Collect
    <3>. QED  BY <1>2, <3>1
  <2>2. CASE Mapped(Item(Findings).method)
    <3>1. PICK made \in ChangesOf : changes' = changes \o made
      BY <2>2 DEF Collect
    <3>2. Calling(made) /\ Fit(made)
      BY <1>1, <2>2, FindingsCall, FindingsFit
    <3>. QED  BY <1>2, <3>1, <3>2, CallingTwo, FitsTwo
  <2>. QED  BY <2>1, <2>2
<1>4. \A i \in DOMAIN changes' : ChangeFits(changes'[i]) /\ ChangeCalls(changes'[i])
  BY <1>3 DEF Calling, Fit
<1>5. PICK none : none = {}
  OBVIOUS
<1>6. edges' = edges \cup none /\ \A e \in none : FALSE
  BY <1>1, <1>5
<1>. QED  BY <1>1, <1>4, <1>6, LaterKeeps

LEMMA AddsImplement ==
  ASSUME GraphInv, [Next]_vars, OneFileInv, AddEdge \/ AddNodeTo \/ AddNodeFrom \/ AddNodeFromTo
  PROVE  OneFileInv'
<1>0. /\ phase \notin BeforeCollect /\ phase' \notin BeforeCollect /\ UNCHANGED <<changes, cancelled>>
      /\ Has("add", changes) /\ phase \notin Preparing
  BY DEF AddEdge, AddNodeTo, AddNodeFrom, AddNodeFromTo, Added, Has, Onward, BeforeCollect, Preparing
<1>1. ChangesInv /\ PairsInv /\ at \in DOMAIN changes /\ ChangeFits(change)
  BY <1>0, ChangeIs DEF GraphInv, OneFileInv
<1>2. \A i \in DOMAIN changes' : ChangeFits(changes'[i]) /\ ChangeCalls(changes'[i])
  BY <1>0, <1>1, ChangesCall
<1>3. PICK c : c = change
  OBVIOUS
<1>4. ChangeFits(c) /\ ChangeCalls(c)
  BY <1>1, <1>3 DEF PairsInv, change
<1>5. PICK w : w = c.node
  OBVIOUS
<1>6. ASSUME NEW where, w.kind \notin Bases, NEW n \in Placed(where, w), NEW new, Added(where, n, new),
             \A e \in new : e[1] = n \/ e[2] = n
      PROVE  OneFileInv'
  <2>1. nodes'[n] = w /\ edges' = edges \cup new
    BY <1>3, <1>5, <1>6, AddedGrows
  <2>2. \A e \in new : ~BothMethods(e[1], e[2])'
    BY <1>6, <2>1 DEF BothMethods, Bases
  <2>. QED  BY <1>0, <1>2, <2>1, <2>2, LaterKeeps
<1>7. CASE AddEdge
  <2>1. c.kind = "edge"
    BY <1>3, <1>7 DEF AddEdge
  <2>2. PICK a, b : a = c.origin /\ b = c.destination
    OBVIOUS
  <2>3. PICK new : new = {<<a, b>>}
    OBVIOUS
  <2>4. edges' = edges \cup new
    BY <1>3, <1>7, <2>2, <2>3 DEF AddEdge
  <2>5. UNCHANGED nodes
    BY <1>7 DEF AddEdge
  <2>6. BothMethods(a, b) => NamesOfPair(a, b) \in CallPairs
    BY <1>4, <2>1, <2>2 DEF ChangeCalls
  <2>7. \A e \in new : BothMethods(e[1], e[2])' => NamesOfPair(e[1], e[2])' \in CallPairs
    BY <2>3, <2>5, <2>6 DEF BothMethods, NamesOfPair
  <2>. QED  BY <1>0, <1>2, <2>4, <2>7, LaterKeeps
<1>8. CASE AddNodeTo
  <2>1. c.kind = "to"
    BY <1>3, <1>8 DEF AddNodeTo
  <2>2. w.kind \notin Bases
    BY <1>4, <1>5, <2>1 DEF ChangeFits, Bases
  <2>3. PICK n \in Placed(c.origin, w) : Added(c.origin, n, {<<n, c.origin>>})
    BY <1>3, <1>5, <1>8 DEF AddNodeTo
  <2>4. PICK new : new = {<<n, c.origin>>}
    OBVIOUS
  <2>5. \A e \in new : e[1] = n
    BY <2>4
  <2>. QED  BY <1>6, <2>2, <2>3, <2>4, <2>5
<1>9. CASE AddNodeFrom
  <2>1. c.kind = "from"
    BY <1>3, <1>9 DEF AddNodeFrom
  <2>2. w.kind \notin Bases
    BY <1>4, <1>5, <2>1 DEF ChangeFits, Bases
  <2>3. PICK n \in Placed(c.destination, w) : Added(c.destination, n, {<<c.destination, n>>})
    BY <1>3, <1>5, <1>9 DEF AddNodeFrom
  <2>4. PICK new : new = {<<c.destination, n>>}
    OBVIOUS
  <2>5. \A e \in new : e[2] = n
    BY <2>4
  <2>. QED  BY <1>6, <2>2, <2>3, <2>4, <2>5
<1>10. CASE AddNodeFromTo
  <2>1. c.kind = "from_to"
    BY <1>3, <1>10 DEF AddNodeFromTo
  <2>2. w.kind \notin Bases
    BY <1>4, <1>5, <2>1 DEF ChangeFits, Bases
  <2>3. PICK n \in Placed(c.destination, w) : Added(c.destination, n, {<<c.origin, n>>, <<n, c.destination>>})
    BY <1>3, <1>5, <1>10 DEF AddNodeFromTo, Through
  <2>4. PICK new : new = {<<c.origin, n>>, <<n, c.destination>>}
    OBVIOUS
  <2>5. \A e \in new : e[1] = n \/ e[2] = n
    BY <2>4
  <2>. QED  BY <1>6, <2>2, <2>3, <2>4, <2>5
<1>. QED  BY <1>7, <1>8, <1>9, <1>10

LEMMA SkipImplements ==
  ASSUME GraphInv, [Next]_vars, Len(app) = 1, OneFileInv, SkipClass
  PROVE  OneFileInv'
<1>1. /\ phase = "inheritance" /\ phase' = "inheritance" /\ at' = at + 1 /\ at <= Len(Classes) /\ ~IsNew
      /\ UNCHANGED <<edges, mappings, interfaces, cancelled, changes>> /\ phase \notin Preparing
      /\ at \in Nat \ {0} /\ AppInv /\ FreshInv
  BY DEF SkipClass, Has, Onward, Unchanged, Preparing, GraphInv, GraphType, LoadInv, OneFileInv
<1>2. at \in DOMAIN Classes /\ DOMAIN Classes \subseteq Nat
  BY <1>1, ItemFacts
<1>3. Reach => ClassNo(at).name \in Excluded
  <2>1. class = ClassNo(at) /\ file = Classes[at][1]
    BY DEF class, file, Item, File, ClassNo
  <2>2. Reach => called = ClassNo(at).name
    BY <1>1, <1>2, <2>1, OneFileClasses DEF called
  <2>3. Reach => ~Mapped(ClassOf(ClassNo(at).name))
    BY <1>1, <1>2 DEF FreshInv
  <2>. QED  BY <1>1, <2>2, <2>3 DEF IsNew
<1>4. Reach => \A n \in DOMAIN Classes : n < at' /\ ClassNo(n).name \notin Excluded => n < at
  BY <1>1, <1>2, <1>3
<1>5. \A n \in DOMAIN Classes : n < at => n < at'
  BY <1>1, <1>2
<1>6. GoesOn
  BY <1>1, <1>4, <1>5 DEF GoesOn
<1>. QED  BY <1>1, <1>6, OneFileKeeps

\* A class that is called what it is named has all its methods.
LEMMA PanicImplements ==
  ASSUME GraphInv, [Next]_vars, Len(app) = 1, OneFileInv, Panic
  PROVE  OneFileInv'
<1>1. /\ phase = "inheritance" /\ phase' = "failed" /\ at <= Len(Classes) /\ UNCHANGED <<edges, cancelled, changes>>
      /\ phase \notin Preparing /\ at \in Nat \ {0} /\ AppInv /\ PairsInv /\ ChangesInv
  BY DEF Panic, Has, Unchanged, Preparing, GraphInv, GraphType, LoadInv, OneFileInv
<1>2. at \in DOMAIN Classes
  BY <1>1, ItemFacts
<1>3. class = ClassNo(at) /\ file = Classes[at][1]
  BY DEF class, file, Item, File, ClassNo
<1>4. ~Reach
  <2>1. SUFFICES ASSUME Reach PROVE FALSE
    OBVIOUS
  <2>2. called = ClassNo(at).name
    BY <1>1, <1>2, <1>3, <2>1, OneFileClasses DEF called
  <2>3. Classes[at][2].name \notin Excluded
    BY <2>2 DEF Panic, IsNew, ClassNo
  <2>4. \A m \in CodeMethods : Mapped(m)
    BY <1>1, <1>2, <1>3, <2>3, CodeIsMapped DEF CodeMethods, ClassNo
  <2>. QED  BY <2>4 DEF Panic
<1>5. LinkedInv'
  BY <1>1, <1>4, ClassesAre DEF LinkedInv
<1>6. PairsInv'
  <2>1. PICK none : none = {}
    OBVIOUS
  <2>2. edges' = edges \cup none /\ \A e \in none : FALSE
    BY <1>1, <2>1
  <2>3. \A i \in DOMAIN changes' : ChangeFits(changes'[i]) /\ ChangeCalls(changes'[i])
    BY <1>1, ChangesCall
  <2>. QED  BY <1>1, <2>2, <2>3, PairsKeep
<1>. QED  BY <1>1, <1>5, <1>6, PastClasses

LEMMA CancelImplements ==
  ASSUME GraphInv, [Next]_vars, OneFileInv, Cancel
  PROVE  OneFileInv'
<1>1. /\ phase \notin Preparing /\ phase' = "collect" /\ cancelled' /\ UNCHANGED <<edges, changes>>
      /\ PairsInv /\ ChangesInv
  BY DEF Cancel, Has, Preparing, GraphInv, OneFileInv
<1>2. PICK none : none = {}
  OBVIOUS
<1>3. edges' = edges \cup none /\ \A e \in none : FALSE
  BY <1>1, <1>2
<1>4. \A i \in DOMAIN changes' : ChangeFits(changes'[i]) /\ ChangeCalls(changes'[i])
  BY <1>1, ChangesCall
<1>5. PairsInv'
  BY <1>1, <1>3, <1>4, PairsKeep
<1>6. LinkedInv'
  BY <1>1 DEF LinkedInv
<1>. QED  BY <1>1, <1>5, <1>6, PastClasses

LEMMA ClassesBegin ==
  ASSUME GraphInv, GraphInv', NoClassInv, UNCHANGED app, After("strings", Strings, "inheritance")
  PROVE  OneFileInv'
<1>1. /\ phase = "strings" /\ phase' = "inheritance" /\ at' = 1 /\ UNCHANGED <<edges, mappings, interfaces, changes>>
      /\ phase \in Preparing /\ AppInv'
  BY DEF After, Preparing, GraphInv, LoadInv
<1>2. edges' = {} /\ DOMAIN interfaces' = {} /\ changes' = <<>>
  BY <1>1 DEF GraphInv, QuietInv
<1>3. \A k \in DOMAIN Classes' : k \in Nat \ {0}
  <2>1. AppInv => \A k \in DOMAIN Classes : k \in Nat \ {0}
    BY ItemFacts
  <2>2. AppInv /\ Classes' = Classes
    BY ItemsStay DEF GraphInv, LoadInv
  <2>. QED  BY <2>1, <2>2
<1>4. \A x : ~Mapped(ClassOf(x))'
  BY <1>1 DEF NoClassInv, Mapped, ClassOf, Weight
<1>5. FreshInv'
  <2>1. \A k \in DOMAIN Classes' : ~Mapped(ClassOf(ClassNo(k).name))'
    BY <1>4 DEF Mapped, ClassOf, Weight
  <2>. QED  BY <2>1 DEF FreshInv
<1>6. KnownInv'
  BY <1>2 DEF KnownInv
<1>7. \A k \in DOMAIN Classes' : ~(k < at')
  BY <1>1, <1>3
<1>8. MetInv' /\ LinkedInv'
  BY <1>1, <1>7 DEF MetInv, LinkedInv
<1>9. PairsInv'
  BY <1>2 DEF PairsInv
<1>. QED  BY <1>5, <1>6, <1>8, <1>9 DEF OneFileInv

\* Before the classes no key is that of one.
LEMMA NoClassKeeps ==
  ASSUME GraphInv, NoClassInv, [Next]_vars, phase' \in Preparing
  PROVE  phase \in Preparing /\ NoClassInv'
<1>1. ASSUME NEW key, key.kind # "class", phase \in Preparing, mappings' = Keyed(key, NewNode)
      PROVE  NoClassInv'
  BY <1>1 DEF NoClassInv, Keyed
<1>2. ASSUME phase \in Preparing, UNCHANGED mappings PROVE NoClassInv'
  BY <1>2 DEF NoClassInv
<1>3. ASSUME NEW key, key.kind # "class", phase \in Preparing, Unchanged \/ NewMapped(key) PROVE NoClassInv'
  BY <1>1, <1>2, <1>3 DEF Unchanged, NewMapped
<1>4. CASE UNCHANGED graphVars
  BY <1>2, <1>4 DEF graphVars
<1>5. CASE AddType
  <2>1. PICK key : key = TypeOf(Item(Types))
    OBVIOUS
  <2>2. phase \in Preparing /\ (Unchanged \/ NewMapped(key)) /\ key.kind # "class"
    BY <1>5, <2>1 DEF AddType, Has, Preparing, TypeOf, Weight
  <2>. QED  BY <1>3, <2>2
<1>6. CASE AddField
  <2>1. PICK key : key = FieldOf(File(Fields), Item(Fields))
    OBVIOUS
  <2>2. phase \in Preparing /\ (Unchanged \/ NewMapped(key)) /\ key.kind # "class"
    BY <1>6, <2>1 DEF AddField, Has, Preparing, FieldOf, Weight
  <2>. QED  BY <1>3, <2>2
<1>7. CASE AddMethod
  <2>1. PICK key : key = MethodOf(Item(Methods))
    OBVIOUS
  <2>2. phase \in Preparing /\ (Unchanged \/ NewMapped(key)) /\ key.kind # "class"
    BY <1>7, <2>1 DEF AddMethod, Has, Preparing, MethodOf, Weight
  <2>. QED  BY <1>3, <2>2
<1>8. CASE AddString
  <2>1. PICK key : key = StringOf(Item(Strings))
    OBVIOUS
  <2>2. phase \in Preparing /\ (Unchanged \/ NewMapped(key)) /\ key.kind # "class"
    BY <1>8, <2>1 DEF AddString, Has, Preparing, StringOf, Weight
  <2>. QED  BY <1>3, <2>2
<1>9. CASE AddClass \/ SkipClass \/ Panic \/ Cancel \/ Collect \/ AddEdge \/ AddNodeTo \/ AddNodeFrom \/ AddNodeFromTo
  BY <1>9 DEF AddClass, SkipClass, Panic, Cancel, Collect, AddEdge, AddNodeTo, AddNodeFrom, AddNodeFromTo, Has, Onward, Preparing
<1>10. CASE NextPhase
  <2>1. UNCHANGED mappings /\ phase \in Preparing
    BY <1>10 DEF NextPhase, After, Preparing
  <2>. QED  BY <1>2, <2>1
<1>. QED  BY <1>4, <1>5, <1>6, <1>7, <1>8, <1>9, <1>10 DEF Next, Build, vars

LEMMA ImplBegins == Init => ImplInv
BY DEF Init, ImplInv, NoClassInv, MethodKeysInv, Preparing

LEMMA ImplSteps == GraphInv /\ ImplInv /\ [Next]_vars => ImplInv'
<1>. SUFFICES ASSUME GraphInv, ImplInv, [Next]_vars PROVE ImplInv'
  OBVIOUS
<1>0. GraphInv' /\ NoClassInv /\ MethodKeysInv /\ MethodKeysInv'
  BY GraphSteps, MethodKeysSteps DEF ImplInv
<1>1. NoClassInv'
  <2>1. CASE phase' \in Preparing
    BY <1>0, <2>1, NoClassKeeps
  <2>2. CASE phase' \notin Preparing
    BY <2>2 DEF NoClassInv
  <2>. QED  BY <2>1, <2>2
<1>2. ASSUME phase' \notin Preparing, Len(app') = 1 PROVE OneFileInv'
  <2>1. CASE phase \in Preparing
    <3>1. After("strings", Strings, "inheritance") /\ UNCHANGED app
      <4>1. phase' # phase
        BY <1>2, <2>1
      <4>2. Build /\ UNCHANGED loadVars
        BY <4>1 DEF Next, vars, graphVars
      <4>3. NextPhase
        BY <1>2, <2>1, <4>1, <4>2 DEF Build, AddType, AddField, AddMethod, AddString, AddClass, SkipClass, Panic, Cancel, Collect,
             AddEdge, AddNodeTo, AddNodeFrom, AddNodeFromTo, Has, Onward, Preparing
      <4>4. After("strings", Strings, "inheritance")
        BY <1>2, <2>1, <4>3 DEF NextPhase, After, Preparing
      <4>. QED  BY <4>2, <4>4 DEF loadVars
    <3>. QED  BY <1>0, <3>1, ClassesBegin
  <2>2. CASE phase \notin Preparing
    <3>0. UNCHANGED app /\ app # <<>>
      BY <2>2, StepGrows
    <3>1. OneFileInv
      BY <1>2, <2>2, <3>0 DEF ImplInv
    <3>2. AppInv /\ at \in Nat \ {0}
      BY DEF GraphInv, LoadInv, GraphType
    <3>3. \A n \in DOMAIN Classes : n \in Nat /\ n <= Len(Classes) /\ Len(Classes) \in Nat
      BY <3>2, ItemFacts
    <3>4. CASE UNCHANGED graphVars
      <4>1. UNCHANGED <<phase, at, edges, mappings, interfaces, cancelled, changes>>
        BY <3>4 DEF graphVars
      <4>2. GoesOn
        BY <4>1 DEF GoesOn
      <4>. QED  BY <2>2, <3>1, <4>1, <4>2, OneFileKeeps
    <3>5. CASE AddType \/ AddField \/ AddMethod \/ AddString
      BY <2>2, <3>5 DEF AddType, AddField, AddMethod, AddString, Has, Preparing
    <3>6. CASE AddClass
      BY <1>0, <1>2, <3>0, <3>1, <3>6, ClassImplements
    <3>7. CASE SkipClass
      BY <1>2, <3>0, <3>1, <3>7, SkipImplements
    <3>70. CASE Panic
      BY <1>2, <3>0, <3>1, <3>70, PanicImplements
    <3>8. CASE Cancel
      BY <3>1, <3>8, CancelImplements
    <3>9. CASE Collect
      BY <3>1, <3>9, CollectImplements
    <3>10. CASE AddEdge \/ AddNodeTo \/ AddNodeFrom \/ AddNodeFromTo
      BY <3>1, <3>10, AddsImplement
    <3>11. CASE NextPhase
      <4>1. /\ UNCHANGED <<edges, mappings, interfaces, cancelled, changes>> /\ phase' # "inheritance"
            /\ phase = "inheritance" => at > Len(Classes)
        BY <2>2, <3>11 DEF NextPhase, After, Preparing
      <4>2. phase = "inheritance" => \A n \in DOMAIN Classes : n < at
        BY <3>2, <3>3, <4>1
      <4>3. GoesOn
        BY <4>1, <4>2 DEF GoesOn
      <4>. QED  BY <2>2, <3>1, <4>1, <4>3, OneFileKeeps
    <3>. QED  BY <3>4, <3>5, <3>6, <3>7, <3>70, <3>8, <3>9, <3>10, <3>11 DEF Next, Build, vars
  <2>. QED  BY <2>1, <2>2
<1>. QED  BY <1>0, <1>1, <1>2 DEF ImplInv

LEMMA ImplAlways == Spec => [](GraphInv /\ ImplInv)
BY GraphBegins, GraphSteps, ImplBegins, ImplSteps, PTL DEF Spec

LEMMA CodeIs ==
  ASSUME GraphInv, phase \notin Preparing, NEW k \in DOMAIN Classes, ClassNo(k).name \notin Excluded, NEW s \in Sigs(ClassNo(k))
  PROVE  nodes[CodeOf(k, s)] = MethodOf(<<ClassNo(k).name, s>>)
<1>1. PICK m : m = MethodOf(<<ClassNo(k).name, s>>)
  OBVIOUS
<1>2. Mapped(m)
  <2>1. PICK j \in DOMAIN ClassNo(k).codes : s = ClassNo(k).codes[j].sig
    BY DEF Sigs
  <2>2. Mapped(MethodOf(<<Classes[k][2].name, Classes[k][2].codes[j].sig>>))
    BY <2>1, CodeIsMapped DEF ClassNo
  <2>. QED  BY <1>1, <2>1, <2>2 DEF ClassNo
<1>. QED  BY <1>1, <1>2, KeyIsLinked DEF CodeOf, GraphInv

LEMMA ImplementationsFollow == GraphInv /\ ImplInv => ImplementationsAreLinked
<1>. SUFFICES ASSUME GraphInv, ImplInv, Done, Len(app) = 1
              PROVE  /\ ~cancelled /\ Reach => Implementations \subseteq MethodPairs
                     /\ MethodPairs \subseteq Implementations \cup CallPairs
  BY DEF ImplementationsAreLinked, Reach
<1>1. phase \notin Preparing /\ phase # "inheritance" /\ LinkedInv /\ PairsInv /\ AppInv
  BY DEF Done, Preparing, ImplInv, OneFileInv, GraphInv, LoadInv
<1>2. ASSUME ~cancelled, Reach, NEW p \in Implementations PROVE p \in MethodPairs
  <2>1. PICK n \in DOMAIN Classes, k \in DOMAIN Classes : \E s :
          Implements(n, k, s) /\ p = <<<<ClassNo(k).name, s>>, <<ClassNo(n).name, s>>>>
    BY <1>1, ImplementationsAre
  <2>2. PICK s : Implements(n, k, s) /\ p = <<<<ClassNo(k).name, s>>, <<ClassNo(n).name, s>>>>
    BY <2>1
  <2>3. /\ ClassNo(k).name \notin Excluded /\ ClassNo(n).name \notin Excluded
        /\ s \in Sigs(ClassNo(k)) /\ s \in Sigs(ClassNo(n))
    BY <2>2 DEF Implements, IsInterface
  <2>4. PICK a, b : a = CodeOf(k, s) /\ b = CodeOf(n, s)
    OBVIOUS
  <2>5. nodes[a] = MethodOf(<<ClassNo(k).name, s>>) /\ nodes[b] = MethodOf(<<ClassNo(n).name, s>>)
    BY <1>1, <2>3, <2>4, CodeIs
  <2>6. /\ nodes[a].kind = "method" /\ nodes[a].name = <<ClassNo(k).name, s>>
        /\ nodes[b].kind = "method" /\ nodes[b].name = <<ClassNo(n).name, s>>
    BY <2>5, MethodOfIs
  <2>7. PICK e \in edges : e = <<a, b>>
    BY <1>1, <1>2, <2>2, <2>3, <2>4 DEF LinkedInv
  <2>8. e[1] = a /\ e[2] = b
    BY <2>7
  <2>. QED  BY <2>2, <2>6, <2>8 DEF MethodPairs, Kind
<1>3. ASSUME NEW p \in MethodPairs PROVE p \in Implementations \cup CallPairs
  <2>1. PICK e \in edges : Kind(e[1]) = "method" /\ Kind(e[2]) = "method" /\ p = <<nodes[e[1]].name, nodes[e[2]].name>>
    BY DEF MethodPairs
  <2>. QED  BY <1>1, <2>1 DEF PairsInv, BothMethods, NamesOfPair, Kind
<1>. QED  BY <1>2, <1>3

\* In an app of one file a method of an interface points to those that implement it, if the
\* classes come behind the interface, all names are in reach of a cut index and nothing was
\* cancelled; and, with names in reach or not, no method points to one that neither implements
\* it nor is called by it.
THEOREM ImplementationsAreLinkedAlways == Spec => []ImplementationsAreLinked
BY ImplAlways, ImplementationsFollow, PTL

-----------------------------------------------------------------------------
(* Call graphs.  A walk is a recursive function over the number of steps.   *)

Walking(f, start, keep, links) ==
  f = [k \in Nat |->
        IF k = 0 THEN {start}
        ELSE LET w == f[k - 1] IN w \cup UNION {Beyond(n, keep, links) : n \in w}]

\* A walk, step by step.
WalkSteps(f, start, keep, links) ==
  /\ f[0] = {start}
  /\ \A k \in Nat : f[k + 1] = f[k] \cup UNION {Beyond(n, keep, links) : n \in f[k]}

LEMMA WalkIs ==
  ASSUME NEW start, NEW keep, NEW links
  PROVE  \E f : WalkSteps(f, start, keep, links) /\ Walk(start, keep, links) = f[Len(nodes)]
<1>. DEFINE S       == {start} \cup keep
            next(w) == w \cup UNION {Beyond(n, keep, links) : n \in w}
            step    == [w \in SUBSET S |-> next(w)]
            f       == CHOOSE f : Walking(f, start, keep, links)
<1>1. \E g : Walking(g, start, keep, links)
  <2>1. \A w \in SUBSET S : next(w) \in SUBSET S
    BY DEF Beyond
  <2>2. step \in [SUBSET S -> SUBSET S] /\ {start} \in SUBSET S
    BY <2>1
  <2>. HIDE DEF S
  <2>3. PICK T, s0, t : T = SUBSET S /\ s0 = {start} /\ t = step
    OBVIOUS
  <2>4. s0 \in T /\ t \in [T -> T]
    BY <2>2, <2>3
  <2>5. PICK g \in [Nat -> T] : g[0] = s0 /\ \A k \in Nat \ {0} : g[k] = t[g[k - 1]]
    BY <2>4, StepsExist
  <2>6. ASSUME NEW k \in Nat \ {0} PROVE g[k] = next(g[k - 1])
    <3>1. k - 1 \in Nat
      OBVIOUS
    <3>2. g[k - 1] \in SUBSET S
      BY <2>3, <2>5, <3>1
    <3>3. g[k] = step[g[k - 1]]
      BY <2>3, <2>5
    <3>. QED  BY <3>2, <3>3
  <2>. DEFINE h == [k \in Nat |-> IF k = 0 THEN {start} ELSE next(g[k - 1])]
  <2>7. \A k \in Nat : g[k] = h[k]
    BY <2>3, <2>5, <2>6
  <2>8. g = h
    BY <2>5, <2>7
  <2>9. Walking(g, start, keep, links)
    BY <2>8 DEF Walking
  <2>. QED  BY <2>9
<1>2. Walking(f, start, keep, links)
  BY <1>1
<1>3. Walk(start, keep, links) = f[Len(nodes)]
  BY Zenon DEF Walk, Walking
<1>. HIDE DEF f
<1>. DEFINE h == [k \in Nat |-> IF k = 0 THEN {start} ELSE next(f[k - 1])]
<1>4. f = h
  BY <1>2 DEF Walking
<1>5. f[0] = {start}
  BY <1>4
<1>6. ASSUME NEW k \in Nat PROVE f[k + 1] = f[k] \cup UNION {Beyond(n, keep, links) : n \in f[k]}
  <2>1. k + 1 \in Nat /\ k + 1 # 0 /\ (k + 1) - 1 = k
    OBVIOUS
  <2>2. h[k + 1] = next(f[k])
    BY <2>1
  <2>. QED  BY <1>4, <2>2
<1>7. WalkSteps(f, start, keep, links)
  BY <1>5, <1>6 DEF WalkSteps
<1>. QED  BY <1>3, <1>7

Leading(f, start, pairs) ==
  f = [k \in Nat |->
        IF k = 0 THEN {start}
        ELSE LET w == f[k - 1] IN w \cup {p[2] : p \in {q \in pairs : q[1] \in w}}]

\* What pairs lead to, step by step.
LeadSteps(f, start, pairs) ==
  /\ f[0] = {start}
  /\ \A k \in Nat : \A x : x \in f[k + 1] <=> x \in f[k] \/ \E p \in pairs : p[1] \in f[k] /\ x = p[2]

LEMMA TransitivelyIs ==
  ASSUME NEW start, NEW pairs
  PROVE  \E f : LeadSteps(f, start, pairs) /\ Transitively(start, pairs) = f[Len(nodes)]
<1>. DEFINE S       == {start} \cup {p[2] : p \in pairs}
            next(w) == w \cup {p[2] : p \in {q \in pairs : q[1] \in w}}
            step    == [w \in SUBSET S |-> next(w)]
            f       == CHOOSE f : Leading(f, start, pairs)
<1>1. \E g : Leading(g, start, pairs)
  <2>1. \A w \in SUBSET S : next(w) \in SUBSET S
    OBVIOUS
  <2>2. step \in [SUBSET S -> SUBSET S] /\ {start} \in SUBSET S
    BY <2>1
  <2>. HIDE DEF S
  <2>3. PICK T, s0, t : T = SUBSET S /\ s0 = {start} /\ t = step
    OBVIOUS
  <2>4. s0 \in T /\ t \in [T -> T]
    BY <2>2, <2>3
  <2>5. PICK g \in [Nat -> T] : g[0] = s0 /\ \A k \in Nat \ {0} : g[k] = t[g[k - 1]]
    BY <2>4, StepsExist
  <2>6. ASSUME NEW k \in Nat \ {0} PROVE g[k] = next(g[k - 1])
    <3>1. k - 1 \in Nat
      OBVIOUS
    <3>2. g[k - 1] \in SUBSET S
      BY <2>3, <2>5, <3>1
    <3>3. g[k] = step[g[k - 1]]
      BY <2>3, <2>5
    <3>. QED  BY <3>2, <3>3
  <2>. DEFINE h == [k \in Nat |-> IF k = 0 THEN {start} ELSE next(g[k - 1])]
  <2>7. \A k \in Nat : g[k] = h[k]
    BY <2>3, <2>5, <2>6
  <2>8. g = h
    BY <2>5, <2>7
  <2>9. Leading(g, start, pairs)
    BY <2>8 DEF Leading
  <2>. QED  BY <2>9
<1>2. Leading(f, start, pairs)
  BY <1>1
<1>3. Transitively(start, pairs) = f[Len(nodes)]
  BY Zenon DEF Transitively, Leading
<1>. HIDE DEF f
<1>. DEFINE h == [k \in Nat |-> IF k = 0 THEN {start} ELSE next(f[k - 1])]
<1>4. f = h
  BY <1>2 DEF Leading
<1>5. f[0] = {start}
  BY <1>4
<1>6. ASSUME NEW k \in Nat PROVE f[k + 1] = f[k] \cup {p[2] : p \in {q \in pairs : q[1] \in f[k]}}
  <2>1. k + 1 \in Nat /\ k + 1 # 0 /\ (k + 1) - 1 = k
    OBVIOUS
  <2>2. h[k + 1] = next(f[k])
    BY <2>1
  <2>. QED  BY <1>4, <2>2
<1>7. ASSUME NEW k \in Nat, NEW x
      PROVE  x \in f[k + 1] <=> x \in f[k] \/ \E p \in pairs : p[1] \in f[k] /\ x = p[2]
  BY <1>6
<1>8. LeadSteps(f, start, pairs)
  BY <1>5, <1>7 DEF LeadSteps
<1>. QED  BY <1>3, <1>8

\* A method that is met in a walk is led to by pairs of names, if a link between methods, and
\* two links through a node that is no method, are such a pair.
LEMMA WalkIsLed ==
  ASSUME NEW start \in DOMAIN nodes, nodes[start].kind = "method", Len(nodes) \in Nat,
         NEW keep, NEW links, NEW pairs,
         \A e \in links : e = <<e[1], e[2]>>,
         \A e \in links : nodes[e[1]].kind = "method" /\ nodes[e[2]].kind = "method" =>
           <<nodes[e[1]].name, nodes[e[2]].name>> \in pairs,
         \A d, e \in links :
           d[2] = e[1] /\ d[2] \in keep /\ nodes[d[1]].kind = "method" /\ nodes[d[2]].kind # "method" /\ nodes[e[2]].kind = "method" =>
             d[1] = e[2] \/ <<nodes[d[1]].name, nodes[e[2]].name>> \in pairs,
         \A e \in links : e[1] \in keep /\ e[2] \in keep => nodes[e[1]].kind = "method" \/ nodes[e[2]].kind = "method",
         NEW n \in Walk(start, keep, links), nodes[n].kind = "method"
  PROVE  nodes[n].name \in Transitively(nodes[start].name, pairs)
<1>1. PICK f : WalkSteps(f, start, keep, links) /\ Walk(start, keep, links) = f[Len(nodes)]
  BY WalkIs
<1>1a. f[0] = {start} /\ \A k \in Nat : f[k + 1] = f[k] \cup UNION {Beyond(m, keep, links) : m \in f[k]}
  BY <1>1 DEF WalkSteps
<1>2. PICK name : name = nodes[start].name
  OBVIOUS
<1>3. PICK g : LeadSteps(g, name, pairs) /\ Transitively(name, pairs) = g[Len(nodes)]
  BY TransitivelyIs
<1>3a. g[0] = {name} /\ \A k \in Nat : \A x : x \in g[k + 1] <=> x \in g[k] \/ \E p \in pairs : p[1] \in g[k] /\ x = p[2]
  BY <1>3 DEF LeadSteps
<1>. DEFINE Led(k) == \A m \in f[k] :
              /\ nodes[m].kind = "method" => nodes[m].name \in g[k]
              /\ nodes[m].kind # "method" => \A e \in links : e[1] = m /\ nodes[e[2]].kind = "method" => nodes[e[2]].name \in g[k]
            T == {k \in Nat : Led(k)}
<1>4. 0 \in T
  <2>1. \A m \in f[0] : m = start
    BY <1>1a
  <2>2. name \in g[0]
    BY <1>3a
  <2>3. Led(0)
    BY <1>2, <2>1, <2>2
  <2>. QED  BY <2>3
<1>5. ASSUME NEW k \in Nat, k \in T PROVE k + 1 \in T
  <2>1. Led(k)
    BY <1>5
  <2>2. g[k] \subseteq g[k + 1] /\ \A p \in pairs : p[1] \in g[k] => p[2] \in g[k + 1]
    BY <1>3a
  <2>3. \A a, b : <<a, b>> \in pairs /\ a \in g[k] => b \in g[k + 1]
    BY <2>2
  <2>. SUFFICES ASSUME NEW m \in f[k + 1]
                PROVE  /\ nodes[m].kind = "method" => nodes[m].name \in g[k + 1]
                       /\ nodes[m].kind # "method" =>
                            \A e \in links : e[1] = m /\ nodes[e[2]].kind = "method" => nodes[e[2]].name \in g[k + 1]
    OBVIOUS
  <2>4. CASE m \in f[k]
    BY <2>1, <2>2, <2>4
  <2>5. CASE m \notin f[k]
    <3>1. PICK l \in f[k] : m \in Beyond(l, keep, links)
      BY <1>1a, <2>5
    <3>2. l \in keep /\ m \in keep
      BY <3>1 DEF Beyond
    <3>3. PICK d \in links : d = <<l, m>>
      BY <3>1 DEF Beyond
    <3>4. d[1] = l /\ d[2] = m
      BY <3>3
    <3>5. CASE nodes[m].kind = "method"
      <4>1. CASE nodes[l].kind = "method"
        <5>1. nodes[l].name \in g[k] /\ <<nodes[l].name, nodes[m].name>> \in pairs
          BY <2>1, <3>4, <3>5, <4>1
        <5>. QED  BY <2>3, <3>5, <5>1
      <4>2. CASE nodes[l].kind # "method"
        <5>1. nodes[m].name \in g[k]
          BY <2>1, <3>4, <3>5, <4>2
        <5>. QED  BY <2>2, <3>5, <5>1
      <4>. QED  BY <4>1, <4>2
    <3>6. CASE nodes[m].kind # "method"
      <4>1. nodes[l].kind = "method" /\ nodes[l].name \in g[k]
        BY <2>1, <3>2, <3>4, <3>6
      <4>2. ASSUME NEW e \in links, e[1] = m, nodes[e[2]].kind = "method" PROVE nodes[e[2]].name \in g[k + 1]
        <5>1. l = e[2] \/ <<nodes[l].name, nodes[e[2]].name>> \in pairs
          BY <3>2, <3>4, <3>6, <4>1, <4>2
        <5>. QED  BY <2>2, <2>3, <4>1, <5>1
      <4>. QED  BY <3>6, <4>2
    <3>. QED  BY <3>5, <3>6
  <2>. QED  BY <2>4, <2>5
<1>. HIDE DEF T
<1>6. Nat \subseteq T
  BY <1>4, <1>5, SetInduction
<1>7. Led(Len(nodes))
  BY <1>6 DEF T
<1>. QED  BY <1>1, <1>2, <1>3, <1>7

\* A walk comes to what pairs of names lead to, if their nodes are kept and linked.
PairsLinked(keep, links, pairs) ==
  \A p \in pairs : NodeOf(p[1]) \in keep /\ NodeOf(p[2]) \in keep /\ <<NodeOf(p[1]), NodeOf(p[2])>> \in links
LEMMA WalkComesTo ==
  ASSUME NEW s, Len(nodes) \in Nat, NEW keep, NEW links, NEW pairs, PairsLinked(keep, links, pairs),
         NEW t \in Transitively(s, pairs)
  PROVE  NodeOf(t) \in Walk(NodeOf(s), keep, links) /\ (t = s \/ \E p \in pairs : t = p[2])
<1>1. PICK start : start = NodeOf(s)
  OBVIOUS
<1>2. PICK f : WalkSteps(f, start, keep, links) /\ Walk(start, keep, links) = f[Len(nodes)]
  BY WalkIs
<1>2a. f[0] = {start} /\ \A k \in Nat : f[k + 1] = f[k] \cup UNION {Beyond(m, keep, links) : m \in f[k]}
  BY <1>2 DEF WalkSteps
<1>3. PICK g : LeadSteps(g, s, pairs) /\ Transitively(s, pairs) = g[Len(nodes)]
  BY TransitivelyIs
<1>3a. g[0] = {s} /\ \A k \in Nat : \A x : x \in g[k + 1] <=> x \in g[k] \/ \E p \in pairs : p[1] \in g[k] /\ x = p[2]
  BY <1>3 DEF LeadSteps
<1>. DEFINE T == {k \in Nat : \A x \in g[k] : NodeOf(x) \in f[k] /\ (x = s \/ \E p \in pairs : x = p[2])}
<1>4. 0 \in T
  <2>1. \A x \in g[0] : x = s
    BY <1>3a
  <2>2. start \in f[0]
    BY <1>2a
  <2>. QED  BY <1>1, <2>1, <2>2
<1>5. ASSUME NEW k \in Nat, k \in T PROVE k + 1 \in T
  <2>. SUFFICES ASSUME NEW x \in g[k + 1] PROVE NodeOf(x) \in f[k + 1] /\ (x = s \/ \E p \in pairs : x = p[2])
    OBVIOUS
  <2>0. f[k + 1] = f[k] \cup UNION {Beyond(m, keep, links) : m \in f[k]}
    BY <1>2a
  <2>1. CASE x \in g[k]
    BY <1>5, <2>0, <2>1
  <2>2. CASE x \notin g[k]
    <3>1. PICK p \in pairs : p[1] \in g[k] /\ x = p[2]
      BY <1>3a, <2>2
    <3>2. NodeOf(p[1]) \in f[k]
      BY <1>5, <3>1
    <3>3. PICK a, b : a = NodeOf(p[1]) /\ b = NodeOf(x)
      OBVIOUS
    <3>4. b \in Beyond(a, keep, links)
      BY <3>1, <3>3 DEF Beyond, PairsLinked
    <3>5. b \in f[k + 1]
      BY <2>0, <3>2, <3>3, <3>4
    <3>. QED  BY <3>1, <3>3, <3>5
  <2>. QED  BY <2>1, <2>2
<1>. HIDE DEF T
<1>6. Nat \subseteq T
  BY <1>4, <1>5, SetInduction
<1>7. Len(nodes) \in T
  BY <1>6
<1>. QED  BY <1>1, <1>2, <1>3, <1>7 DEF T

\* What stands between methods.  A value that was returned is linked from the methods it was seen
\* in and to those it came from, whatever else ends as their signatures do; an array belongs to
\* one method; nothing begins at what was passed; and all else that holds a value is linked with
\* methods, or fields, only.
Returned(x) == x.find.kind = "returned" /\ Mapped(x.method)
ReturnOf(x) == Weight("dynamic_return", <<x.find.says>>)
SeenBy(from, w) ==
  \E i \in DOMAIN Findings : LET x == Findings[i][2] IN Returned(x) /\ w = ReturnOf(x) /\ from = mappings[x.method]
ComesFrom(w, to) ==
  \E i \in DOMAIN Findings : LET x == Findings[i][2]
    IN /\ Returned(x) /\ w = ReturnOf(x)
       /\ to = mappings[x.method] \/ (IsOf(to, Bases) /\ EndsWith(nodes[to], x.find.name[2]))
ChangeReturns(c) ==
  /\ c.kind = "to" /\ c.node.kind = "dynamic_return" => ComesFrom(c.node, c.origin)
  /\ c.kind = "from_to" /\ c.node.kind = "dynamic_return" => SeenBy(c.origin, c.node) /\ ComesFrom(c.node, c.destination)

EdgeReturns(e) ==
  /\ nodes[e[1]].kind = "method" /\ nodes[e[2]].kind = "dynamic_return" => SeenBy(e[1], nodes[e[2]])
  /\ nodes[e[1]].kind = "dynamic_return" /\ nodes[e[2]].kind = "method" => ComesFrom(nodes[e[1]], e[2])
EndsFit(e) ==
  /\ nodes[e[2]].kind \notin Bases => nodes[e[1]].kind \in {"method", "field"}
  /\ nodes[e[1]].kind \notin Bases =>
       /\ nodes[e[1]].kind # "dynamic_argument" /\ nodes[e[2]].kind \in Bases
       /\ nodes[e[1]].kind # "dynamic_return" => nodes[e[2]].kind = "method"
ReturnsInv ==
  /\ \A i \in DOMAIN changes : ChangeReturns(changes[i])
  /\ \A e \in edges : EdgeReturns(e) /\ EndsFit(e)
ArraysInv ==
  \A d, e \in edges : nodes[d[2]].kind = "array" => (d[2] = e[2] => d[1] = e[1]) /\ (d[2] = e[1] => d[1] = e[2])

\* A call is asked for, and is linked.
AsksLink(c, x) == c.kind = "edge" /\ c.origin = mappings[x.method] /\ c.destination = mappings[MethodOf(x.find.name)]
LinksAskedInv ==
  \A i \in DOMAIN Findings :
    LET x == Findings[i][2]
    IN Passed("collect", BeforeCollect, i) /\ IsCall(x) /\ Inside(x) => \E j \in DOMAIN changes : AsksLink(changes[j], x)
LinksMadeInv ==
  \A j \in DOMAIN changes :
    Passed("add", BeforeCollect \cup {"collect"}, j) /\ changes[j].kind = "edge" =>
      <<changes[j].origin, changes[j].destination>> \in edges

WalkInv == ReturnsInv /\ ArraysInv /\ LinksAskedInv /\ LinksMadeInv

(***************************************************************************)
(* What stays                                                              *)
(***************************************************************************)
LEMMA SeenStays ==
  ASSUME GraphInv, [Next]_vars, phase \notin Preparing
  PROVE  /\ \A from, w : SeenBy(from, w) => SeenBy(from, w)'
         /\ \A w, to : ComesFrom(w, to) => ComesFrom(w, to)'
<1>0. Findings' = Findings
  BY StepGrows, ItemsStay
<1>1. Grown
  BY StepGrows
<1>2. ASSUME NEW x, x.method.kind = "method", Returned(x)
      PROVE  Returned(x)' /\ mappings'[x.method] = mappings[x.method]
  BY <1>1, <1>2 DEF Returned, Grown, Mapped
<1>3. ASSUME NEW from, NEW w, SeenBy(from, w) PROVE SeenBy(from, w)'
  <2>1. PICK i \in DOMAIN Findings : LET x == Findings[i][2] IN Returned(x) /\ w = ReturnOf(x) /\ from = mappings[x.method]
    BY <1>3 DEF SeenBy
  <2>2. PICK x : x = Findings[i][2]
    OBVIOUS
  <2>3. x.method.kind = "method" /\ Returned(x) /\ w = ReturnOf(x) /\ from = mappings[x.method]
    BY <2>1, <2>2, FoundMethod
  <2>4. Returned(x)' /\ from = mappings'[x.method]
    BY <1>2, <2>3
  <2>5. x = Findings'[i][2] /\ i \in DOMAIN Findings'
    BY <1>0, <2>2
  <2>. QED  BY <2>3, <2>4, <2>5 DEF SeenBy, Returned
<1>4. ASSUME NEW w, NEW to, ComesFrom(w, to) PROVE ComesFrom(w, to)'
  <2>1. PICK i \in DOMAIN Findings : LET x == Findings[i][2]
          IN /\ Returned(x) /\ w = ReturnOf(x)
             /\ to = mappings[x.method] \/ (IsOf(to, Bases) /\ EndsWith(nodes[to], x.find.name[2]))
    BY <1>4 DEF ComesFrom
  <2>2. PICK x : x = Findings[i][2]
    OBVIOUS
  <2>3. /\ x.method.kind = "method" /\ Returned(x) /\ w = ReturnOf(x)
        /\ to = mappings[x.method] \/ (IsOf(to, Bases) /\ EndsWith(nodes[to], x.find.name[2]))
    BY <2>1, <2>2, FoundMethod
  <2>4. Returned(x)' /\ mappings'[x.method] = mappings[x.method]
    BY <1>2, <2>3
  <2>5. to = mappings'[x.method] \/ (IsOf(to, Bases)' /\ EndsWith(nodes'[to], x.find.name[2]))
    BY <1>1, <2>3, <2>4, LinkedStays DEF IsOf
  <2>6. x = Findings'[i][2] /\ i \in DOMAIN Findings'
    BY <1>0, <2>2
  <2>. QED  BY <2>3, <2>4, <2>5, <2>6 DEF ComesFrom, Returned, EndsWith
<1>. QED  BY <1>3, <1>4

\* Of the edges there have been, and of those a step adds, as seen from before it.
EdgeReturnsNow(e) ==
  /\ nodes'[e[1]].kind = "method" /\ nodes'[e[2]].kind = "dynamic_return" => SeenBy(e[1], nodes'[e[2]])
  /\ nodes'[e[1]].kind = "dynamic_return" /\ nodes'[e[2]].kind = "method" => ComesFrom(nodes'[e[1]], e[2])

LEMMA ReturnsKeep ==
  ASSUME GraphInv, GraphInv', [Next]_vars, phase \notin Preparing, ReturnsInv, NEW new, edges' = edges \cup new,
         \A i \in DOMAIN changes' : ChangeReturns(changes'[i]),
         \A e \in new : EdgeReturnsNow(e) /\ EndsFit(e)'
  PROVE  ReturnsInv'
<1>1. /\ \A from, w : SeenBy(from, w) => SeenBy(from, w)'
      /\ \A w, to : ComesFrom(w, to) => ComesFrom(w, to)'
  BY SeenStays
<1>2. ASSUME NEW c, ChangeReturns(c) PROVE ChangeReturns(c)'
  BY <1>1, <1>2 DEF ChangeReturns
<1>3. ASSUME NEW i \in DOMAIN changes' PROVE ChangeReturns(changes[i])'
  <2>1. PICK c : c = changes'[i]
    OBVIOUS
  <2>2. ChangeReturns(c)'
    BY <1>2, <2>1
  <2>. QED  BY <2>1, <2>2 DEF ChangeReturns, SeenBy, ComesFrom
<1>4. \A e \in edges : nodes'[e[1]] = nodes[e[1]] /\ nodes'[e[2]] = nodes[e[2]]
  BY StepGrows, LinkedStays DEF GraphInv, EdgesInv
<1>5. ASSUME NEW e \in edges' PROVE EdgeReturnsNow(e) /\ EndsFit(e)'
  <2>1. CASE e \in edges
    BY <1>4, <2>1 DEF ReturnsInv, EdgeReturns, EdgeReturnsNow, EndsFit
  <2>2. CASE e \in new
    BY <2>2
  <2>. QED  BY <2>1, <2>2
<1>6. ASSUME NEW e \in edges' PROVE EdgeReturns(e)'
  <2>1. PICK a, b, v, w : a = e[1] /\ b = e[2] /\ v = nodes'[a] /\ w = nodes'[b]
    OBVIOUS
  <2>2. /\ v.kind = "method" /\ w.kind = "dynamic_return" => SeenBy(a, w)'
        /\ v.kind = "dynamic_return" /\ w.kind = "method" => ComesFrom(v, b)'
    BY <1>1, <1>5, <2>1 DEF EdgeReturnsNow
  <2>. QED  BY <2>1, <2>2 DEF EdgeReturns, SeenBy, ComesFrom
<1>. QED  BY <1>3, <1>5, <1>6 DEF ReturnsInv

\* A new edge to an array, or from one, if there was another already.
LEMMA ArraysKeep ==
  ASSUME Grown, EdgesInv, ArraysInv, NEW new, edges' = edges \cup new,
         \A e \in new : nodes'[e[1]].kind # "array" /\ nodes'[e[2]].kind # "array"
  PROVE  ArraysInv'
<1>1. \A e \in edges : nodes'[e[1]] = nodes[e[1]] /\ nodes'[e[2]] = nodes[e[2]]
  BY LinkedStays DEF EdgesInv
<1>. SUFFICES ASSUME NEW d \in edges', NEW e \in edges', nodes'[d[2]].kind = "array"
              PROVE  (d[2] = e[2] => d[1] = e[1]) /\ (d[2] = e[1] => d[1] = e[2])
  BY DEF ArraysInv
<1>2. d \in edges
  OBVIOUS
<1>3. d[2] = e[2] \/ d[2] = e[1] => e \in edges
  OBVIOUS
<1>. QED  BY <1>1, <1>2, <1>3 DEF ArraysInv

\* An array that is new, or was found among those that the method is linked to.
LEMMA ArrayAdded ==
  ASSUME Grown, EdgesInv, IsList(nodes), ArraysInv, NEW where, NEW w, NEW n \in Placed(where, w), where \in DOMAIN nodes,
         nodes[where].kind # "array",
         NEW new, new = {<<n, where>>} \/ new = {<<where, n>>}, edges' = edges \cup new
  PROVE  ArraysInv'
<1>1. \A e \in edges : nodes'[e[1]] = nodes[e[1]] /\ nodes'[e[2]] = nodes[e[2]]
  BY LinkedStays DEF EdgesInv
<1>2. \A e \in edges : e[1] \in DOMAIN nodes /\ e[2] \in DOMAIN nodes
  BY DEF EdgesInv, Linked
<1>3. nodes'[where] = nodes[where]
  BY DEF Grown
<1>. SUFFICES ASSUME NEW d \in edges', NEW e \in edges', nodes'[d[2]].kind = "array"
              PROVE  (d[2] = e[2] => d[1] = e[1]) /\ (d[2] = e[1] => d[1] = e[2])
  BY DEF ArraysInv
<1>4. CASE d \in edges /\ e \in edges
  BY <1>1, <1>4 DEF ArraysInv
<1>5. CASE n \in DOMAIN nodes /\ nodes[n] = w /\ <<where, n>> \in edges
  <2>1. PICK g \in edges : g = <<where, n>>
    BY <1>5
  <2>2. g[1] = where /\ g[2] = n
    BY <2>1
  <2>3. \A h \in edges : nodes[n].kind = "array" => (n = h[2] => where = h[1]) /\ (n = h[1] => where = h[2])
    BY <2>2 DEF ArraysInv
  <2>4. nodes'[n] = nodes[n]
    BY <1>5 DEF Grown
  <2>5. CASE d \in edges /\ e \notin edges
    <3>1. d[2] # where
      BY <1>3
    <3>2. (e[1] = n /\ e[2] = where) \/ (e[1] = where /\ e[2] = n)
      BY <2>5
    <3>3. d[2] = n => d[1] = where
      BY <2>3, <2>4, <2>5
    <3>. QED  BY <3>1, <3>2, <3>3
  <2>6. CASE d \notin edges
    <3>1. (d[1] = n /\ d[2] = where) \/ (d[1] = where /\ d[2] = n)
      BY <2>6
    <3>2. d[2] = n /\ d[1] = where
      BY <1>3, <3>1
    <3>3. d \in edges
      BY <1>5, <2>6, <3>1, <3>2
    <3>. QED  BY <2>6, <3>3
  <2>. QED  BY <1>4, <2>5, <2>6
<1>6. CASE n = NewNode
  <2>1. n \notin DOMAIN nodes /\ n # where
    BY <1>6, ListAppend DEF NewNode
  <2>2. \A h \in edges : h[1] # n /\ h[2] # n
    BY <1>2, <2>1
  <2>3. ASSUME NEW h \in new PROVE (h[1] = n /\ h[2] = where) \/ (h[1] = where /\ h[2] = n)
    BY <2>3
  <2>4. d[2] # where
    BY <1>3
  <2>. QED  BY <1>4, <2>1, <2>2, <2>3, <2>4
<1>. QED  BY <1>5, <1>6, PlacedIs

LEMMA CallStays ==
  ASSUME GraphInv, [Next]_vars, phase \notin Preparing, NEW x, x.method.kind = "method"
  PROVE  /\ IsCall(x)' <=> IsCall(x)
         /\ Inside(x)' <=> Inside(x)
         /\ \A c : IsCall(x) /\ Inside(x) /\ AsksLink(c, x) => AsksLink(c, x)'
<1>1. Grown /\ \A k : k.kind = "method" /\ Mapped(k)' => Mapped(k)
  BY StepGrows
<1>2. PICK m, c : m = x.method /\ c = MethodOf(x.find.name)
  OBVIOUS
<1>3. m.kind = "method" /\ c.kind = "method"
  BY <1>2 DEF MethodOf, Weight
<1>4. (Mapped(m)' <=> Mapped(m)) /\ (Mapped(c)' <=> Mapped(c))
  BY <1>1, <1>3 DEF Grown, Mapped
<1>5. (Mapped(m) => mappings'[m] = mappings[m]) /\ (Mapped(c) => mappings'[c] = mappings[c])
  BY <1>1 DEF Grown, Mapped
<1>6. (IsCall(x)' <=> IsCall(x)) /\ (Inside(x)' <=> Inside(x))
  BY <1>2, <1>4 DEF IsCall, Inside
<1>7. ASSUME NEW d, IsCall(x), Inside(x), AsksLink(d, x) PROVE AsksLink(d, x)'
  BY <1>2, <1>5, <1>7 DEF IsCall, Inside, AsksLink
<1>. QED  BY <1>6, <1>7

LEMMA LinksAskedKeep ==
  ASSUME GraphInv, [Next]_vars, phase \notin Preparing, LinksAskedInv,
         \A j \in DOMAIN changes : j \in DOMAIN changes' /\ changes'[j] = changes[j],
         NEW last,
         \A i \in DOMAIN Findings : Passed("collect", BeforeCollect, i)' => Passed("collect", BeforeCollect, i) \/ i = last,
         last \in DOMAIN Findings =>
           LET x == Findings[last][2] IN IsCall(x) /\ Inside(x) => \E j \in DOMAIN changes' : AsksLink(changes'[j], x)
  PROVE  LinksAskedInv'
<1>1. Findings' = Findings
  BY StepGrows, ItemsStay
<1>2. SUFFICES ASSUME NEW i \in DOMAIN Findings, NEW x, x = Findings[i][2],
                      Passed("collect", BeforeCollect, i)', IsCall(x)', Inside(x)'
               PROVE  \E j \in DOMAIN changes' : AsksLink(changes[j], x)'
  BY <1>1 DEF LinksAskedInv, IsCall, Inside, AsksLink
<1>3. x.method.kind = "method"
  BY <1>2, FoundMethod
<1>4. IsCall(x) /\ Inside(x)
  BY <1>2, <1>3, CallStays
<1>5. \E j \in DOMAIN changes' : AsksLink(changes'[j], x)
  <2>1. CASE i = last
    BY <1>2, <1>4, <2>1
  <2>2. CASE i # last
    <3>1. PICK j \in DOMAIN changes : AsksLink(changes[j], x)
      BY <1>2, <1>4, <2>2 DEF LinksAskedInv
    <3>. QED  BY <3>1
  <2>. QED  BY <2>1, <2>2
<1>6. PICK j \in DOMAIN changes' : AsksLink(changes'[j], x)
  BY <1>5
<1>7. PICK c : c = changes'[j]
  OBVIOUS
<1>8. AsksLink(c, x)'
  BY <1>3, <1>4, <1>6, <1>7, CallStays
<1>. QED  BY <1>7, <1>8 DEF AsksLink

LEMMA LinksMadeKeep ==
  ASSUME LinksMadeInv, UNCHANGED changes, edges \subseteq edges',
         NEW last,
         \A j \in DOMAIN changes : Passed("add", BeforeCollect \cup {"collect"}, j)'
                                     => Passed("add", BeforeCollect \cup {"collect"}, j) \/ j = last,
         last \in DOMAIN changes /\ changes[last].kind = "edge" => <<changes[last].origin, changes[last].destination>> \in edges'
  PROVE  LinksMadeInv'
BY DEF LinksMadeInv

LEMMA NothingWalked == GraphInv /\ Uncollected => WalkInv
<1>. SUFFICES ASSUME GraphInv, Uncollected PROVE WalkInv
  OBVIOUS
<1>1. changes = <<>> /\ phase \notin {"add", "done"} /\ phase # "done" /\ phase # "add"
  BY DEF GraphInv, QuietInv, Uncollected, BeforeCollect, Preparing
<1>2. DOMAIN changes = {}
  BY <1>1
<1>3. \A e \in edges : nodes[e[1]].kind \in Bases /\ nodes[e[2]].kind \in Bases
  BY <1>1 DEF GraphInv, BasesInv
<1>4. ReturnsInv
  BY <1>2, <1>3 DEF ReturnsInv, EdgeReturns, EndsFit, Bases
<1>5. ArraysInv
  BY <1>3 DEF ArraysInv, Bases
<1>6. LinksMadeInv
  BY <1>2 DEF LinksMadeInv
<1>7. AppInv
  BY DEF GraphInv, LoadInv
<1>8. \A i \in DOMAIN Findings : i \in Nat \ {0}
  BY <1>7, ItemFacts
<1>9. LinksAskedInv
  BY <1>8 DEF LinksAskedInv, Passed, Uncollected
<1>. QED  BY <1>4, <1>5, <1>6, <1>9 DEF WalkInv

(***************************************************************************)
(* What is asked for                                                       *)
(***************************************************************************)
Leads(s) == IsList(s) /\ \A i \in DOMAIN s : ChangeReturns(s[i])

LEMMA LeadsEmpty == Leads(<<>>)
BY DEF Leads, IsList, Range

LEMMA LeadsOne ==
  ASSUME NEW c, ChangeReturns(c)
  PROVE  Leads(<<c>>)
<1>1. <<c>> \in Seq({c}) /\ Range(<<c>>) = {c} /\ DOMAIN <<c>> = {1} /\ <<c>>[1] = c
  BY DEF Range
<1>. QED  BY <1>1 DEF Leads, IsList

LEMMA LeadsPair ==
  ASSUME NEW c, NEW d, ChangeReturns(c), ChangeReturns(d)
  PROVE  Leads(<<c, d>>)
<1>1. <<c, d>> \in Seq({c, d}) /\ DOMAIN <<c, d>> = {1, 2} /\ <<c, d>>[1] = c /\ <<c, d>>[2] = d
  OBVIOUS
<1>2. Range(<<c, d>>) = {c, d}
  BY <1>1 DEF Range
<1>. QED  BY <1>1, <1>2 DEF Leads, IsList

LEMMA LeadsTwo ==
  ASSUME NEW s, NEW t, Leads(s), Leads(t)
  PROVE  Leads(s \o t)
<1>1. PICK u : u = s \o t
  OBVIOUS
<1>2. IsList(u) /\ Joined(u, s, t)
  BY <1>1, OwnConcat, IsListOf DEF Leads
<1>3. ASSUME NEW i \in DOMAIN u PROVE ChangeReturns(u[i])
  <2>1. CASE i \in 1 .. Len(s)
    BY <1>2, <2>1 DEF Joined, Leads
  <2>2. ASSUME NEW j \in 1 .. Len(t), i = Len(s) + j PROVE ChangeReturns(u[i])
    BY <1>2, <2>2 DEF Joined, Leads
  <2>. QED  BY <1>2, <2>1, <2>2 DEF Joined
<1>. QED  BY <1>1, <1>2, <1>3 DEF Leads

\* Only what a return is noted by says anything of a value returned.
LEMMA SaysNothing ==
  ASSUME NEW c, c.kind \notin {"to", "from_to"} \/ c.node.kind # "dynamic_return"
  PROVE  ChangeReturns(c)
BY DEF ChangeReturns

LEMMA LeadsEdge ==
  ASSUME NEW a, NEW b
  PROVE  /\ \A m, n : ChangeReturns(Edge(m, n))
         /\ Leads(EdgeBetween(a, b))
         /\ Mapped(a) /\ Mapped(b) => EdgeBetween(a, b) = <<Edge(mappings[a], mappings[b])>>
<1>1. ASSUME NEW m, NEW n PROVE ChangeReturns(Edge(m, n))
  BY DEF ChangeReturns, Edge
<1>2. PICK m, n : m = mappings[a] /\ n = mappings[b]
  OBVIOUS
<1>3. EdgeBetween(a, b) = IF Mapped(a) /\ Mapped(b) THEN <<Edge(m, n)>> ELSE <<>>
  BY <1>2 DEF EdgeBetween
<1>4. Leads(<<Edge(m, n)>>)
  <2>1. PICK c : c = Edge(m, n)
    OBVIOUS
  <2>2. ChangeReturns(c)
    BY <1>1, <2>1
  <2>. QED  BY <2>1, <2>2, LeadsOne
<1>. QED  BY <1>1, <1>2, <1>3, <1>4, LeadsEmpty

LEMMA FindingsLead ==
  ASSUME GraphInv, phase = "collect", at <= Len(Findings), Mapped(Item(Findings).method), NEW made \in ChangesOf,
         NEW x, x = Item(Findings)
  PROVE  Leads(made) /\ (IsCall(x) /\ Inside(x) => \E j \in DOMAIN made : AsksLink(made[j], x))
<1>1. find.kind \in FindKinds /\ find = x.find /\ at \in DOMAIN Findings /\ x = Findings[at][2] /\ Mapped(x.method)
  BY FindIs DEF find, Item
<1>2. PICK caller, static, field : caller = finder /\ static = Static /\ field = FieldNode
  OBVIOUS
<1>3. caller = mappings[x.method] /\ static.kind = "static"
  BY <1>2 DEF finder, Static, Weight
<1>4. CASE find.kind = "call"
  <2>1. PICK callee : callee = MethodOf(find.name)
    OBVIOUS
  <2>2. made = CallChanges
    BY <1>4 DEF ChangesOf
  <2>3. Inside(x) <=> Mapped(callee)
    BY <1>1, <2>1 DEF Inside
  <2>4. CASE Mapped(callee)
    <3>1. PICK n : n = mappings[callee]
      OBVIOUS
    <3>2. PICK e, f, g : /\ e = EdgeBetween(Item(Findings).method, callee)
                         /\ f = EdgeBetween(callee, TypeOf(find.name[1]))
                         /\ g = IF find.says = "" THEN <<>> ELSE <<NodeFromTo(caller, n, static, FALSE)>>
      OBVIOUS
    <3>3. made = e \o f \o g
      BY <1>2, <2>1, <2>2, <2>4, <3>1, <3>2 DEF CallChanges
    <3>4. PICK c : c = NodeFromTo(caller, n, static, FALSE)
      OBVIOUS
    <3>5. c.node.kind # "dynamic_return"
      BY <1>3, <3>4 DEF NodeFromTo
    <3>6. Leads(e) /\ Leads(f) /\ Leads(g)
      <4>1. Leads(<<c>>)
        BY <3>5, SaysNothing, LeadsOne
      <4>2. g = <<>> \/ g = <<c>>
        BY <3>2, <3>4
      <4>3. Leads(e) /\ Leads(f)
        BY <3>2, LeadsEdge
      <4>. QED  BY <4>1, <4>2, <4>3, LeadsEmpty
    <3>7. PICK d : d = e \o f
      OBVIOUS
    <3>8. Leads(d) /\ made = d \o g
      BY <3>3, <3>6, <3>7, LeadsTwo
    <3>9. Leads(made)
      BY <3>6, <3>8, LeadsTwo
    <3>10. PICK l : l = Edge(caller, n)
      OBVIOUS
    <3>11. e = <<l>>
      <4>1. e = <<Edge(mappings[Item(Findings).method], mappings[callee])>>
        BY <2>4, <3>2, LeadsEdge
      <4>. QED  BY <1>3, <3>1, <3>10, <4>1
    <3>12. Joined(d, e, f) /\ Joined(made, d, g)
      BY <3>6, <3>7, <3>8, OwnConcat, IsListOf DEF Leads
    <3>13. 1 \in DOMAIN d /\ d[1] = l
      <4>1. Len(e) = 1 /\ e[1] = l
        BY <3>11
      <4>. QED  BY <3>12, <4>1 DEF Joined
    <3>14. 1 \in DOMAIN made /\ made[1] = l
      BY <3>12, <3>13 DEF Joined
    <3>15. AsksLink(l, x)
      BY <1>1, <1>3, <2>1, <3>1, <3>10 DEF AsksLink, Edge
    <3>. QED  BY <3>9, <3>14, <3>15
  <2>5. CASE ~Mapped(callee)
    <3>1. PICK c : c = NodeTo(caller, static, FALSE)
      OBVIOUS
    <3>2. made = IF find.says = "" THEN <<>> ELSE <<c>>
      BY <1>2, <2>1, <2>2, <2>5, <3>1 DEF CallChanges
    <3>3. c.node.kind # "dynamic_return"
      BY <1>3, <3>1 DEF NodeTo
    <3>4. Leads(<<c>>)
      BY <3>3, SaysNothing, LeadsOne
    <3>. QED  BY <2>3, <2>5, <3>2, <3>4, LeadsEmpty
  <2>. QED  BY <2>4, <2>5
<1>5. CASE find.kind # "call"
  <2>0. ~IsCall(x)
    BY <1>1, <1>5 DEF IsCall
  <2>1. CASE find.kind = "returned"
    <3>1. PICK w : w = Weight("dynamic_return", <<find.says>>)
      OBVIOUS
    <3>2. Returned(x) /\ w = ReturnOf(x)
      BY <1>1, <2>1, <3>1 DEF Returned, ReturnOf
    <3>3. SeenBy(caller, w) /\ ComesFrom(w, caller)
      BY <1>1, <1>3, <3>2 DEF SeenBy, ComesFrom
    <3>4. CASE Middle = {}
      <4>1. PICK c : c = NodeTo(caller, w, TRUE)
        OBVIOUS
      <4>2. made = <<c>>
        BY <1>2, <2>1, <3>1, <3>4, <4>1 DEF ChangesOf, ReturnChanges
      <4>3. c.kind = "to" /\ c.node = w /\ c.origin = caller
        BY <4>1 DEF NodeTo
      <4>4. ChangeReturns(c)
        BY <3>3, <4>3 DEF ChangeReturns
      <4>. QED  BY <2>0, <4>2, <4>4, LeadsOne
    <3>5. CASE Middle # {}
      <4>1. PICK n \in Middle : made = <<NodeFromTo(caller, n, w, TRUE)>>
        BY <1>2, <2>1, <3>1, <3>5 DEF ChangesOf, ReturnChanges
      <4>2. PICK c : c = NodeFromTo(caller, n, w, TRUE)
        OBVIOUS
      <4>3. c.kind = "from_to" /\ c.node = w /\ c.origin = caller /\ c.destination = n
        BY <4>2 DEF NodeFromTo
      <4>4. IsOf(n, Bases) /\ EndsWith(nodes[n], x.find.name[2])
        <5>1. PICK k \in DOMAIN mappings : n = mappings[k]
          BY DEF Middle, Range
        <5>2. Linked(n)
          BY <5>1 DEF GraphInv, KeysInv, Linked, Mapped
        <5>. QED  BY <1>1, <5>2 DEF Middle, IsOf, EndsWith, Bases
      <4>5. ComesFrom(w, n)
        BY <1>1, <3>2, <4>4 DEF ComesFrom
      <4>6. ChangeReturns(c)
        BY <3>3, <4>3, <4>5 DEF ChangeReturns
      <4>. QED  BY <2>0, <4>1, <4>2, <4>6, LeadsOne
    <3>. QED  BY <3>4, <3>5
  <2>2. CASE find.kind = "string"
    <3>1. made = EdgeBetween(Item(Findings).method, StringOf(find.name[1]))
      BY <2>2 DEF ChangesOf
    <3>. QED  BY <2>0, <3>1, LeadsEdge
  <2>3. CASE find.kind = "get"
    <3>1. PICK c : c = Edge(field, caller)
      OBVIOUS
    <3>2. made = <<c>>
      BY <1>2, <2>3, <3>1 DEF ChangesOf
    <3>3. ChangeReturns(c)
      BY <3>1, LeadsEdge
    <3>. QED  BY <2>0, <3>2, <3>3, LeadsOne
  <2>4. CASE find.kind = "put"
    <3>1. PICK c, d : c = Edge(caller, field) /\ d = NodeFrom(field, static, FALSE)
      OBVIOUS
    <3>2. made = <<c, d>>
      BY <1>2, <2>4, <3>1 DEF ChangesOf
    <3>3. ChangeReturns(c) /\ ChangeReturns(d)
      <4>1. d.kind = "from"
        BY <3>1 DEF NodeFrom
      <4>. QED  BY <3>1, <4>1, LeadsEdge, SaysNothing
    <3>. QED  BY <2>0, <3>2, <3>3, LeadsPair
  <2>5. CASE find.kind = "array"
    <3>1. PICK c : c = NodeTo(caller, Weight("array", find.name), FALSE)
      OBVIOUS
    <3>2. made = <<c>>
      BY <1>2, <2>5, <3>1 DEF ChangesOf
    <3>3. c.node.kind # "dynamic_return"
      BY <3>1 DEF NodeTo, Weight
    <3>. QED  BY <2>0, <3>2, <3>3, SaysNothing, LeadsOne
  <2>6. CASE find.kind \in {"passed", "array_passed", "field_set"}
    <3>1. PICK node, w, keyed : made = <<NodeFrom(node, w, keyed)>>
      <4>1. made \in {<<NodeFrom(finder, Said, TRUE)>>, <<NodeFrom(finder, Weight("array", find.name), FALSE)>>,
                      <<NodeFrom(FieldNode, Said, TRUE)>>}
        BY <2>6 DEF ChangesOf
      <4>. QED  BY <4>1
    <3>2. PICK c : c = NodeFrom(node, w, keyed)
      OBVIOUS
    <3>3. c.kind = "from"
      BY <3>2 DEF NodeFrom
    <3>. QED  BY <2>0, <3>1, <3>2, <3>3, SaysNothing, LeadsOne
  <2>. QED  BY <1>1, <1>5, <2>1, <2>2, <2>3, <2>4, <2>5, <2>6 DEF FindKinds
<1>. QED  BY <1>4, <1>5

(***************************************************************************)
(* The steps                                                               *)
(***************************************************************************)
LEMMA WalkKeeps ==
  ASSUME GraphInv, GraphInv', [Next]_vars, phase \notin Preparing, WalkInv, UNCHANGED <<edges, changes>>,
         \A i \in DOMAIN Findings : Passed("collect", BeforeCollect, i)' => Passed("collect", BeforeCollect, i),
         \A j \in DOMAIN changes : Passed("add", BeforeCollect \cup {"collect"}, j)'
                                     => Passed("add", BeforeCollect \cup {"collect"}, j)
  PROVE  WalkInv'
<1>0. /\ ReturnsInv /\ ArraysInv /\ LinksAskedInv /\ LinksMadeInv /\ AppInv /\ IsList(changes) /\ EdgesInv /\ Grown
  BY StepGrows DEF WalkInv, GraphInv, LoadInv, GraphType
<1>1. 0 \notin DOMAIN Findings /\ 0 \notin DOMAIN changes
  BY <1>0, ItemFacts, ListFacts
<1>2. \A i \in DOMAIN changes' : ChangeReturns(changes'[i])
  BY <1>0 DEF ReturnsInv
<1>3. PICK none, last : none = {} /\ last = 0
  OBVIOUS
<1>4. edges' = edges \cup none /\ \A e \in none : FALSE
  BY <1>3
<1>5. ReturnsInv'
  BY <1>0, <1>2, <1>4, ReturnsKeep
<1>6. ArraysInv'
  BY <1>0, <1>4, ArraysKeep
<1>7. LinksAskedInv'
  BY <1>0, <1>1, <1>3, LinksAskedKeep
<1>8. LinksMadeInv'
  BY <1>0, <1>1, <1>3, LinksMadeKeep
<1>. QED  BY <1>5, <1>6, <1>7, <1>8 DEF WalkInv

LEMMA CollectWalks ==
  ASSUME GraphInv, GraphInv', [Next]_vars, WalkInv, Collect
  PROVE  WalkInv'
<1>0. /\ ReturnsInv /\ ArraysInv /\ LinksAskedInv /\ LinksMadeInv /\ IsList(changes) /\ AppInv /\ EdgesInv
      /\ phase = "collect" /\ at <= Len(Findings) /\ at \in Nat \ {0} /\ phase' = phase /\ at' = at + 1
      /\ UNCHANGED <<nodes, edges, mappings>> /\ phase \notin Preparing
  BY DEF WalkInv, GraphInv, LoadInv, GraphType, Collect, Has, Onward, Preparing
<1>1. PICK x : x = Item(Findings)
  OBVIOUS
<1>2. x = Findings[at][2]
  BY <1>1 DEF Item
<1>3. Leads(changes)
  BY <1>0 DEF ReturnsInv, Leads
<1>4. /\ \A i \in DOMAIN changes' : ChangeReturns(changes'[i])
      /\ \A j \in DOMAIN changes : j \in DOMAIN changes' /\ changes'[j] = changes[j]
      /\ IsCall(x) /\ Inside(x) => \E j \in DOMAIN changes' : AsksLink(changes'[j], x)
  <2>1. CASE ~Mapped(x.method)
    <3>1. changes' = changes
      BY <1>1, <2>1 DEF Collect
    <3>2. ~IsCall(x)
      BY <2>1 DEF IsCall
    <3>. QED  BY <1>3, <3>1, <3>2 DEF Leads
  <2>2. CASE Mapped(x.method)
    <3>1. PICK made \in ChangesOf : changes' = changes \o made
      BY <1>1, <2>2 DEF Collect
    <3>2. Leads(made) /\ (IsCall(x) /\ Inside(x) => \E j \in DOMAIN made : AsksLink(made[j], x))
      BY <1>0, <1>1, <2>2, FindingsLead
    <3>3. Leads(changes')
      BY <1>3, <3>1, <3>2, LeadsTwo
    <3>4. PICK u : u = changes'
      OBVIOUS
    <3>5. Joined(u, changes, made)
      BY <1>3, <3>1, <3>2, <3>4, OwnConcat, IsListOf DEF Leads
    <3>6. \A j \in DOMAIN changes : j \in DOMAIN u /\ u[j] = changes[j]
      BY <3>5 DEF Joined
    <3>7. ASSUME NEW j \in DOMAIN made PROVE Len(changes) + j \in DOMAIN u /\ u[Len(changes) + j] = made[j]
      BY <3>5 DEF Joined
    <3>8. IsCall(x) /\ Inside(x) => \E j \in DOMAIN u : AsksLink(u[j], x)
      <4>1. ASSUME NEW j \in DOMAIN made, AsksLink(made[j], x) PROVE \E k \in DOMAIN u : AsksLink(u[k], x)
        <5>1. PICK k \in DOMAIN u : u[k] = made[j]
          BY <3>7
        <5>. QED  BY <4>1, <5>1
      <4>. QED  BY <3>2, <4>1
    <3>. QED  BY <3>3, <3>4, <3>6, <3>8 DEF Leads
  <2>. QED  BY <2>1, <2>2
<1>5. PICK none, last : none = {} /\ last = at
  OBVIOUS
<1>6. edges' = edges \cup none /\ \A e \in none : FALSE
  BY <1>0, <1>5
<1>7. ReturnsInv'
  BY <1>0, <1>4, <1>6, ReturnsKeep
<1>8. ArraysInv'
  BY <1>0, <1>6, StepGrows, ArraysKeep
<1>9. ASSUME NEW i \in DOMAIN Findings, Passed("collect", BeforeCollect, i)'
      PROVE  Passed("collect", BeforeCollect, i) \/ i = at
  <2>1. i \in Nat
    BY <1>0, ItemFacts
  <2>. QED  BY <1>0, <1>9, <2>1 DEF Passed
<1>10. LinksAskedInv'
  BY <1>0, <1>2, <1>4, <1>5, <1>9, LinksAskedKeep
<1>11. LinksMadeInv'
  BY <1>0 DEF LinksMadeInv, Passed
<1>. QED  BY <1>7, <1>8, <1>10, <1>11 DEF WalkInv

LEMMA AddWalks ==
  ASSUME GraphInv, GraphInv', [Next]_vars, WalkInv, Has("add", changes), Onward, UNCHANGED changes, ArraysInv',
         NEW new, edges' = edges \cup new, \A e \in new : EdgeReturnsNow(e) /\ EndsFit(e)',
         NEW c, c = change, c.kind = "edge" => <<c.origin, c.destination>> \in edges'
  PROVE  WalkInv'
<1>0. /\ ReturnsInv /\ LinksAskedInv /\ LinksMadeInv /\ IsList(changes) /\ AppInv
      /\ phase = "add" /\ at \in Nat \ {0} /\ phase' = phase /\ at' = at + 1 /\ phase \notin Preparing
  BY DEF WalkInv, GraphInv, LoadInv, GraphType, Has, Onward, Preparing
<1>1. ReturnsInv'
  <2>1. \A i \in DOMAIN changes' : ChangeReturns(changes'[i])
    BY <1>0 DEF ReturnsInv
  <2>. QED  BY <1>0, <2>1, ReturnsKeep
<1>2. LinksAskedInv'
  <2>1. PICK last : last = 0
    OBVIOUS
  <2>2. last \notin DOMAIN Findings
    BY <1>0, <2>1, ItemFacts
  <2>3. \A i \in DOMAIN Findings : Passed("collect", BeforeCollect, i)' => Passed("collect", BeforeCollect, i)
    BY <1>0 DEF Passed
  <2>. QED  BY <1>0, <2>2, <2>3, LinksAskedKeep
<1>3. LinksMadeInv'
  <2>1. PICK last : last = at
    OBVIOUS
  <2>2. ASSUME NEW j \in DOMAIN changes, Passed("add", BeforeCollect \cup {"collect"}, j)'
        PROVE  Passed("add", BeforeCollect \cup {"collect"}, j) \/ j = last
    <3>1. j \in Nat
      BY <1>0, ListFacts
    <3>. QED  BY <1>0, <2>1, <2>2, <3>1 DEF Passed
  <2>3. changes[last] = c
    BY <2>1 DEF change
  <2>. QED  BY <1>0, <2>2, <2>3, LinksMadeKeep
<1>. QED  BY <1>1, <1>2, <1>3 DEF WalkInv

LEMMA AddsWalk ==
  ASSUME GraphInv, GraphInv', [Next]_vars, WalkInv, AddEdge \/ AddNodeTo \/ AddNodeFrom \/ AddNodeFromTo
  PROVE  WalkInv'
<1>0. /\ Has("add", changes) /\ Onward /\ UNCHANGED changes /\ phase \notin Preparing
      /\ EdgesInv /\ KeysInv /\ IsList(nodes) /\ ReturnsInv /\ ArraysInv
  BY DEF AddEdge, AddNodeTo, AddNodeFrom, AddNodeFromTo, Has, Added, GraphInv, GraphType, WalkInv, Preparing
<1>1. PICK c : c = change
  OBVIOUS
<1>2. ChangeFits(c) /\ ChangeReturns(c)
  BY <1>0, <1>1, ChangeIs DEF ReturnsInv, change
<1>3. PICK w : w = c.node
  OBVIOUS
<1>4. CASE AddEdge
  <2>1. c.kind = "edge" /\ UNCHANGED nodes
    BY <1>1, <1>4 DEF AddEdge
  <2>2. PICK new : new = {<<c.origin, c.destination>>}
    OBVIOUS
  <2>3. edges' = edges \cup new
    BY <1>1, <1>4, <2>2 DEF AddEdge
  <2>4. IsOf(c.origin, Bases) /\ IsOf(c.destination, Bases)
    BY <1>2, <2>1 DEF ChangeFits
  <2>5. nodes'[c.origin].kind \in Bases /\ nodes'[c.destination].kind \in Bases
    BY <2>1, <2>4 DEF IsOf
  <2>6. \A e \in new : nodes'[e[1]].kind \in Bases /\ nodes'[e[2]].kind \in Bases
    BY <2>2, <2>5
  <2>7. \A e \in new : EdgeReturnsNow(e) /\ EndsFit(e)'
    BY <2>6 DEF EdgeReturnsNow, EndsFit, Bases
  <2>8. ArraysInv'
    <3>1. \A e \in new : nodes'[e[1]].kind # "array" /\ nodes'[e[2]].kind # "array"
      BY <2>6 DEF Bases
    <3>. QED  BY <1>0, <2>3, <3>1, StepGrows, ArraysKeep
  <2>9. <<c.origin, c.destination>> \in edges'
    BY <2>2, <2>3
  <2>. QED  BY <1>0, <1>1, <2>3, <2>7, <2>8, <2>9, AddWalks
<1>5. CASE AddNodeTo
  <2>1. c.kind = "to"
    BY <1>1, <1>5 DEF AddNodeTo
  <2>2. IsOf(c.origin, {"method"}) /\ w.kind \in {"static", "array", "dynamic_return"}
    BY <1>2, <1>3, <2>1 DEF ChangeFits
  <2>3. PICK d : d = c.origin
    OBVIOUS
  <2>4. PICK n \in Placed(d, w) : Added(d, n, {<<n, d>>})
    BY <1>1, <1>3, <1>5, <2>3 DEF AddNodeTo
  <2>5. PICK new : new = {<<n, d>>}
    OBVIOUS
  <2>6. Grown /\ nodes'[n] = w /\ edges' = edges \cup new
    BY <1>1, <1>3, <2>2, <2>4, <2>5, AddedGrows DEF Bases
  <2>7. nodes'[d].kind = "method" /\ nodes[d].kind = "method" /\ d \in DOMAIN nodes
    BY <2>2, <2>3, <2>6, LinkedStays DEF IsOf
  <2>8. w.kind = "dynamic_return" => ComesFrom(w, d)
    BY <1>2, <1>3, <2>1, <2>3 DEF ChangeReturns
  <2>9. \A e \in new : e[1] = n /\ e[2] = d
    BY <2>5
  <2>10. ASSUME NEW e \in new PROVE EdgeReturnsNow(e) /\ EndsFit(e)'
    <3>1. nodes'[e[1]] = w /\ nodes'[e[2]].kind = "method" /\ e[2] = d
      BY <2>6, <2>7, <2>9
    <3>. QED  BY <2>2, <2>8, <3>1 DEF EdgeReturnsNow, EndsFit, Bases
  <2>11. ArraysInv'
    BY <1>0, <2>5, <2>6, <2>7, ArrayAdded
  <2>. QED  BY <1>0, <1>1, <2>1, <2>6, <2>10, <2>11, AddWalks
<1>6. CASE AddNodeFrom
  <2>1. c.kind = "from"
    BY <1>1, <1>6 DEF AddNodeFrom
  <2>2. IsOf(c.destination, {"method", "field"}) /\ w.kind \in {"static", "array", "dynamic_argument"}
    BY <1>2, <1>3, <2>1 DEF ChangeFits
  <2>3. PICK d : d = c.destination
    OBVIOUS
  <2>4. PICK n \in Placed(d, w) : Added(d, n, {<<d, n>>})
    BY <1>1, <1>3, <1>6, <2>3 DEF AddNodeFrom
  <2>5. PICK new : new = {<<d, n>>}
    OBVIOUS
  <2>6. Grown /\ nodes'[n] = w /\ edges' = edges \cup new
    BY <1>1, <1>3, <2>2, <2>4, <2>5, AddedGrows DEF Bases
  <2>7. nodes'[d] = nodes[d] /\ nodes[d].kind \in {"method", "field"} /\ d \in DOMAIN nodes
    BY <2>2, <2>3, <2>6, LinkedStays DEF IsOf
  <2>8. \A e \in new : e[1] = d /\ e[2] = n
    BY <2>5
  <2>9. ASSUME NEW e \in new PROVE EdgeReturnsNow(e) /\ EndsFit(e)'
    <3>1. nodes'[e[2]] = w /\ nodes'[e[1]].kind \in {"method", "field"}
      BY <2>6, <2>7, <2>8
    <3>. QED  BY <2>2, <3>1 DEF EdgeReturnsNow, EndsFit, Bases
  <2>10. ArraysInv'
    BY <1>0, <2>5, <2>6, <2>7, ArrayAdded
  <2>. QED  BY <1>0, <1>1, <2>1, <2>6, <2>9, <2>10, AddWalks
<1>7. CASE AddNodeFromTo
  <2>1. c.kind = "from_to"
    BY <1>1, <1>7 DEF AddNodeFromTo
  <2>2. /\ IsOf(c.origin, {"method"}) /\ IsOf(c.destination, Bases) /\ w.kind \in {"static", "dynamic_return"}
        /\ w.kind = "static" => nodes[c.destination].kind = "method"
    BY <1>2, <1>3, <2>1 DEF ChangeFits, IsOf
  <2>3. PICK a, d : a = c.origin /\ d = c.destination
    OBVIOUS
  <2>4. PICK n \in Placed(d, w) : Added(d, n, {<<a, n>>, <<n, d>>})
    BY <1>1, <1>3, <1>7, <2>3 DEF AddNodeFromTo, Through
  <2>5. PICK new : new = {<<a, n>>, <<n, d>>}
    OBVIOUS
  <2>6. Grown /\ nodes'[n] = w /\ edges' = edges \cup new
    BY <1>1, <1>3, <2>2, <2>4, <2>5, AddedGrows DEF Bases
  <2>7. nodes'[a].kind = "method" /\ nodes'[d] = nodes[d] /\ nodes[d].kind \in Bases
    BY <2>2, <2>3, <2>6, LinkedStays DEF IsOf
  <2>8. w.kind = "dynamic_return" => SeenBy(a, w) /\ ComesFrom(w, d)
    BY <1>2, <1>3, <2>1, <2>3 DEF ChangeReturns
  <2>9. \A e \in new : (e[1] = a /\ e[2] = n) \/ (e[1] = n /\ e[2] = d)
    BY <2>5
  <2>10. ASSUME NEW e \in new PROVE EdgeReturnsNow(e) /\ EndsFit(e)'
    <3>1. CASE e[1] = a /\ e[2] = n
      <4>1. nodes'[e[2]] = w /\ nodes'[e[1]].kind = "method"
        BY <2>6, <2>7, <3>1
      <4>. QED  BY <2>2, <2>8, <3>1, <4>1 DEF EdgeReturnsNow, EndsFit, Bases
    <3>2. CASE e[1] = n /\ e[2] = d
      <4>1. /\ nodes'[e[1]] = w /\ nodes'[e[2]].kind \in Bases
            /\ w.kind = "static" => nodes'[e[2]].kind = "method"
        BY <2>2, <2>3, <2>6, <2>7, <3>2
      <4>. QED  BY <2>2, <2>8, <3>2, <4>1 DEF EdgeReturnsNow, EndsFit, Bases
    <3>. QED  BY <2>9, <3>1, <3>2
  <2>11. ArraysInv'
    <3>1. \A e \in new : nodes'[e[1]].kind # "array" /\ nodes'[e[2]].kind # "array"
      BY <2>2, <2>6, <2>7, <2>9 DEF Bases
    <3>. QED  BY <1>0, <2>6, <3>1, ArraysKeep
  <2>. QED  BY <1>0, <1>1, <2>1, <2>6, <2>10, <2>11, AddWalks
<1>. QED  BY <1>4, <1>5, <1>6, <1>7

LEMMA WalkBegins == Init => WalkInv
<1>1. Init => Uncollected
  BY DEF Init, Uncollected, BeforeCollect, Preparing
<1>. QED  BY <1>1, GraphBegins, NothingWalked

LEMMA NothingWalkedNext == GraphInv' /\ Uncollected' => WalkInv'
BY NothingWalked, PTL

LEMMA WalkInvSteps == GraphInv /\ WalkInv /\ [Next]_vars => WalkInv'
<1>. SUFFICES ASSUME GraphInv, WalkInv, [Next]_vars PROVE WalkInv'
  OBVIOUS
<1>0. GraphInv'
  BY GraphSteps
<1>1. AppInv /\ IsList(changes) /\ at \in Nat \ {0} /\ phase \in Phases
  BY DEF GraphInv, LoadInv, GraphType
<1>2. \A i \in DOMAIN Findings : i \in Nat \ {0} /\ i <= Len(Findings) /\ Len(Findings) \in Nat
  BY <1>1, ItemFacts
<1>3. \A j \in DOMAIN changes : j \in Nat \ {0} /\ j <= Len(changes) /\ Len(changes) \in Nat
  BY <1>1, ListFacts
<1>4. ASSUME UNCHANGED <<phase, at, edges, changes>> PROVE WalkInv'
  <2>1. CASE phase \in Preparing
    BY <1>0, <1>4, <2>1, NothingWalkedNext DEF Uncollected, BeforeCollect
  <2>2. CASE phase \notin Preparing
    BY <1>0, <1>4, <2>2, WalkKeeps DEF Passed
  <2>. QED  BY <2>1, <2>2
<1>5. CASE UNCHANGED vars \/ (LoadNext /\ UNCHANGED graphVars)
  BY <1>4, <1>5 DEF vars, graphVars
<1>6. CASE Build /\ UNCHANGED loadVars
  <2>1. CASE AddType \/ AddField \/ AddMethod \/ AddString
    <3>1. phase' \in Preparing
      BY <2>1 DEF AddType, AddField, AddMethod, AddString, Has, Onward, Preparing
    <3>. QED  BY <1>0, <3>1, NothingWalkedNext DEF Uncollected, BeforeCollect
  <2>2. CASE AddClass \/ SkipClass \/ Panic
    <3>1. phase' \in {"inheritance", "failed"}
      BY <2>2 DEF AddClass, SkipClass, Panic, Has, Onward
    <3>. QED  BY <1>0, <3>1, NothingWalkedNext DEF Uncollected, BeforeCollect
  <2>3. CASE Cancel
    <3>1. phase = "inheritance" /\ phase' = "collect" /\ at' = 1 /\ changes' = changes
      BY <2>3 DEF Cancel, Has
    <3>2. changes' = <<>>
      BY <3>1 DEF GraphInv, QuietInv
    <3>. QED  BY <1>0, <3>1, <3>2, NothingWalkedNext DEF Uncollected
  <2>4. CASE Collect
    BY <1>0, <2>4, CollectWalks
  <2>5. CASE AddEdge \/ AddNodeTo \/ AddNodeFrom \/ AddNodeFromTo
    BY <1>0, <2>5, AddsWalk
  <2>6. CASE After("types", Types, "fields") \/ After("fields", Fields, "methods") \/ After("methods", Methods, "strings")
             \/ After("strings", Strings, "inheritance")
    <3>1. phase' \in Preparing \cup {"inheritance"}
      BY <2>6 DEF After, Preparing
    <3>. QED  BY <1>0, <3>1, NothingWalkedNext DEF Uncollected, BeforeCollect
  <2>7. CASE After("inheritance", Classes, "collect")
    <3>1. phase = "inheritance" /\ phase' = "collect" /\ at' = 1 /\ changes' = changes
      BY <2>7 DEF After
    <3>2. changes' = <<>>
      BY <3>1 DEF GraphInv, QuietInv
    <3>. QED  BY <1>0, <3>1, <3>2, NothingWalkedNext DEF Uncollected
  <2>8. CASE After("collect", Findings, "add")
    <3>1. phase = "collect" /\ phase' = "add" /\ at > Len(Findings) /\ at' = 1 /\ UNCHANGED <<edges, changes>>
      BY <2>8 DEF After
    <3>2. \A i \in DOMAIN Findings : Passed("collect", BeforeCollect, i)
      BY <1>1, <1>2, <3>1 DEF Passed, BeforeCollect, Preparing
    <3>3. \A j \in DOMAIN changes : ~Passed("add", BeforeCollect \cup {"collect"}, j)'
      BY <1>3, <3>1 DEF Passed
    <3>. QED  BY <1>0, <3>1, <3>2, <3>3, WalkKeeps DEF Preparing
  <2>9. CASE After("add", changes, "done")
    <3>1. phase = "add" /\ phase' = "done" /\ at > Len(changes) /\ UNCHANGED <<edges, changes>>
      BY <2>9 DEF After
    <3>2. \A i \in DOMAIN Findings : Passed("collect", BeforeCollect, i)
      BY <1>1, <3>1 DEF Passed, BeforeCollect, Preparing
    <3>3. \A j \in DOMAIN changes : Passed("add", BeforeCollect \cup {"collect"}, j)
      BY <1>1, <1>3, <3>1 DEF Passed, BeforeCollect, Preparing
    <3>. QED  BY <1>0, <3>1, <3>2, <3>3, WalkKeeps DEF Preparing
  <2>. QED  BY <1>6, <2>1, <2>2, <2>3, <2>4, <2>5, <2>6, <2>7, <2>8, <2>9 DEF Build, NextPhase
<1>. QED  BY <1>5, <1>6 DEF Next

LEMMA WalkAlways == Spec => [](GraphInv /\ ArgInv /\ WalkInv)
BY GraphBegins, GraphSteps, ArgBegins, ArgSteps, WalkBegins, WalkInvSteps, PTL DEF Spec

(***************************************************************************)
(* What is walked                                                          *)
(***************************************************************************)
\* The node of a method's name.
LEMMA NodeIs ==
  ASSUME GraphInv, NEW p, Mapped(MethodOf(p))
  PROVE  /\ NodeOf(p) \in DOMAIN nodes /\ nodes[NodeOf(p)] = MethodOf(p)
         /\ nodes[NodeOf(p)].kind = "method" /\ nodes[NodeOf(p)].name = p
<1>1. NodeOf(p) \in DOMAIN nodes /\ nodes[NodeOf(p)] = MethodOf(p)
  BY DEF NodeOf, GraphInv, KeysInv, Mapped
<1>. QED  BY <1>1, MethodOfIs

\* A method at an end of an edge is the node of its name.
LEMMA EndIs ==
  ASSUME GraphInv, MethodKeysInv, NEW n, Linked(n), nodes[n].kind = "method"
  PROVE  Mapped(MethodOf(nodes[n].name)) /\ NodeOf(nodes[n].name) = n
<1>1. Mapped(nodes[n]) /\ mappings[nodes[n]] = n
  BY DEF Linked, Bases
<1>2. nodes[n] = MethodOf(nodes[n].name)
  BY <1>1 DEF MethodKeysInv, IsKey, Mapped
<1>. QED  BY <1>1, <1>2 DEF NodeOf

LEMMA CallPairIs ==
  ASSUME GraphInv, NEW c \in CallPairs
  PROVE  \E i \in DOMAIN Findings :
           /\ IsCall(Findings[i][2]) /\ Inside(Findings[i][2])
           /\ c = <<Findings[i][2].method.name, Findings[i][2].find.name>>
<1>1. PICK t \in Calls : c = <<t[1], t[2]>>
  BY DEF CallPairs
<1>2. PICK i \in DOMAIN Findings : IsCall(Findings[i][2]) /\ Inside(Findings[i][2])
        /\ t = <<Findings[i][2].method.name, Findings[i][2].find.name, Findings[i][2].find.says>>
  BY CallsAre
<1>3. t[1] = Findings[i][2].method.name /\ t[2] = Findings[i][2].find.name
  BY <1>2
<1>. QED  BY <1>1, <1>2, <1>3

\* Once the graph is built, what calls leads to what is called.
LEMMA CallIsLinked ==
  ASSUME GraphInv, WalkInv, Done, NEW c \in CallPairs
  PROVE  /\ c = <<c[1], c[2]>> /\ Mapped(MethodOf(c[1])) /\ Mapped(MethodOf(c[2]))
         /\ <<NodeOf(c[1]), NodeOf(c[2])>> \in edges
<1>1. PICK i \in DOMAIN Findings : /\ IsCall(Findings[i][2]) /\ Inside(Findings[i][2])
                                   /\ c = <<Findings[i][2].method.name, Findings[i][2].find.name>>
  BY CallPairIs
<1>2. PICK x, p, q : x = Findings[i][2] /\ p = x.method.name /\ q = x.find.name
  OBVIOUS
<1>3. c = <<p, q>> /\ c[1] = p /\ c[2] = q
  BY <1>1, <1>2
<1>4. x.method = MethodOf(p) /\ Mapped(MethodOf(p)) /\ Mapped(MethodOf(q))
  BY <1>1, <1>2, StaticIs DEF IsCall, Inside
<1>5. Passed("collect", BeforeCollect, i)
  BY DEF Passed, Done, BeforeCollect, Preparing
<1>6. PICK j \in DOMAIN changes : AsksLink(changes[j], x)
  BY <1>1, <1>2, <1>5 DEF WalkInv, LinksAskedInv
<1>7. Passed("add", BeforeCollect \cup {"collect"}, j)
  BY DEF Passed, Done, BeforeCollect, Preparing
<1>8. <<changes[j].origin, changes[j].destination>> \in edges
  BY <1>6, <1>7 DEF WalkInv, LinksMadeInv, AsksLink
<1>9. changes[j].origin = NodeOf(p) /\ changes[j].destination = NodeOf(q)
  BY <1>2, <1>4, <1>6 DEF AsksLink, NodeOf
<1>. QED  BY <1>3, <1>4, <1>8, <1>9

LEMMA MethodPairIs ==
  ASSUME NEW a, NEW b, <<a, b>> \in edges, nodes[a].kind = "method", nodes[b].kind = "method"
  PROVE  <<nodes[a].name, nodes[b].name>> \in MethodPairs
<1>1. PICK e \in edges : e = <<a, b>>
  OBVIOUS
<1>2. e[1] = a /\ e[2] = b
  BY <1>1
<1>. QED  BY <1>2 DEF MethodPairs, Kind

LEMMA CallIsPair ==
  ASSUME GraphInv, WalkInv, Done, NEW c \in CallPairs
  PROVE  c \in MethodPairs
<1>1. PICK p, q : p = c[1] /\ q = c[2]
  OBVIOUS
<1>2. c = <<p, q>> /\ Mapped(MethodOf(p)) /\ Mapped(MethodOf(q)) /\ <<NodeOf(p), NodeOf(q)>> \in edges
  BY <1>1, CallIsLinked
<1>3. PICK a, b : a = NodeOf(p) /\ b = NodeOf(q)
  OBVIOUS
<1>4. nodes[a].kind = "method" /\ nodes[a].name = p /\ nodes[b].kind = "method" /\ nodes[b].name = q
  BY <1>2, <1>3, NodeIs
<1>. QED  BY <1>2, <1>3, <1>4, MethodPairIs

\* Methods that a value was seen in are paired by it.
LEMMA ReturnPairIs ==
  ASSUME NEW i \in DOMAIN Findings, NEW j \in DOMAIN Findings, NEW x, x = Findings[i][2], NEW y, y = Findings[j][2],
         Returned(x), Returned(y), x.find.says = y.find.says,
         NEW name, name = y.method.name \/ name \in Ending(y.find.name[2])
  PROVE  <<x.method.name, name>> \in ReturnPairs
<1>1. PICK s, t : s = <<x.method.name, x.find>> /\ t = <<y.method.name, y.find>>
  OBVIOUS
<1>2. s[1] = x.method.name /\ s[2] = x.find /\ t[1] = y.method.name /\ t[2] = y.find
  BY <1>1
<1>3. s \in Found("returned") /\ t \in Found("returned")
  BY <1>1 DEF Found, Returned
<1>4. PICK r : r = <<s, t>>
  OBVIOUS
<1>5. r[1] = s /\ r[2] = t
  BY <1>4
<1>6. r \in {q \in Found("returned") \X Found("returned") : q[1][2].says = q[2][2].says}
  BY <1>2, <1>3, <1>4, <1>5
<1>7. <<r[1][1], name>> \in {<<r[1][1], n>> : n \in {r[2][1]} \cup Ending(r[2][2].name[2])}
  BY <1>2, <1>5
<1>8. <<r[1][1], name>> \in ReturnPairs
  BY <1>6, <1>7 DEF ReturnPairs
<1>. QED  BY <1>2, <1>5, <1>8

\* Two edges through what is no method: a pair, or back to where they began.
LEMMA HopIs ==
  ASSUME GraphInv, ArgInv, WalkInv, MethodKeysInv, Done, NEW d \in edges, NEW e \in edges, d[2] = e[1],
         nodes[d[1]].kind = "method", nodes[e[2]].kind = "method",
         nodes[d[2]].kind \in {"array", "dynamic_argument", "static", "dynamic_return"}
  PROVE  d[1] = e[2] \/ <<nodes[d[1]].name, nodes[e[2]].name>> \in MethodPairs \cup ReturnPairs
<1>1. PICK a, b, n, w, p, q : a = d[1] /\ b = e[2] /\ n = d[2] /\ w = nodes[n] /\ p = nodes[a].name /\ q = nodes[b].name
  OBVIOUS
<1>2. d = <<a, n>> /\ e = <<n, b>> /\ Linked(a) /\ Linked(n) /\ Linked(b)
  BY <1>1 DEF GraphInv, EdgesInv
<1>3. Mapped(MethodOf(p)) /\ NodeOf(p) = a /\ Mapped(MethodOf(q)) /\ NodeOf(q) = b
  BY <1>1, <1>2, EndIs
<1>4. nodes[a].kind = "method" /\ nodes[b].kind = "method"
  BY <1>1
<1>5. CASE w.kind = "array"
  BY <1>1, <1>5 DEF WalkInv, ArraysInv
<1>6. CASE w.kind = "dynamic_argument"
  BY <1>1, <1>6 DEF WalkInv, ReturnsInv, EndsFit, Bases
<1>7. CASE w.kind = "static"
  <2>1. w \in MethodArguments(a, b)
    BY <1>1, <1>2, <1>7 DEF MethodArguments, Successors, Kind, Linked
  <2>2. PICK i \in DOMAIN Findings : LET y == Findings[i][2]
           IN /\ Passes(y) /\ y.method.name = p /\ w.name[3] = y.find.says
              /\ Inside(y) => y.find.name = q
              /\ ~Inside(y) => p = q
    BY <1>3, <2>1, BetweenIsPassed
  <2>3. PICK y : y = Findings[i][2]
    OBVIOUS
  <2>4. CASE Inside(y)
    <3>1. PICK t : t = <<p, q, y.find.says>>
      OBVIOUS
    <3>2. t \in Calls
      BY <2>2, <2>3, <2>4, <3>1, CallsAre DEF Passes, IsCall
    <3>3. t[1] = p /\ t[2] = q
      BY <3>1
    <3>4. <<p, q>> \in CallPairs
      BY <3>2, <3>3 DEF CallPairs
    <3>. QED  BY <1>1, <3>4, CallIsPair
  <2>5. CASE ~Inside(y)
    BY <1>1, <1>3, <2>2, <2>3, <2>5
  <2>. QED  BY <2>4, <2>5
<1>8. CASE w.kind = "dynamic_return"
  <2>1. SeenBy(a, w) /\ ComesFrom(w, b)
    BY <1>1, <1>4, <1>8 DEF WalkInv, ReturnsInv, EdgeReturns
  <2>2. PICK i \in DOMAIN Findings : LET x == Findings[i][2] IN Returned(x) /\ w = ReturnOf(x) /\ a = mappings[x.method]
    BY <2>1 DEF SeenBy
  <2>3. PICK j \in DOMAIN Findings : LET y == Findings[j][2]
          IN /\ Returned(y) /\ w = ReturnOf(y)
             /\ b = mappings[y.method] \/ (IsOf(b, Bases) /\ EndsWith(nodes[b], y.find.name[2]))
    BY <2>1 DEF ComesFrom
  <2>4. PICK x, y : x = Findings[i][2] /\ y = Findings[j][2]
    OBVIOUS
  <2>5. x.find.says = y.find.says
    <3>1. ReturnOf(x) = ReturnOf(y)
      BY <2>2, <2>3, <2>4
    <3>2. PICK u, v : u = x.find.says /\ v = y.find.says
      OBVIOUS
    <3>3. Weight("dynamic_return", <<u>>).name[1] = u /\ Weight("dynamic_return", <<v>>).name[1] = v
      BY DEF Weight
    <3>. QED  BY <3>1, <3>2, <3>3 DEF ReturnOf
  <2>6. nodes[a] = x.method
    BY <2>2, <2>4 DEF Returned, Mapped, GraphInv, KeysInv
  <2>7. q = y.method.name \/ q \in Ending(y.find.name[2])
    <3>1. CASE b = mappings[y.method]
      <4>1. nodes[b] = y.method
        BY <2>3, <2>4, <3>1 DEF Returned, Mapped, GraphInv, KeysInv
      <4>. QED  BY <1>1, <4>1
    <3>2. CASE EndsWith(nodes[b], y.find.name[2])
      BY <1>1, <1>2, <1>4, <3>2 DEF Ending, Linked, Kind
    <3>. QED  BY <2>3, <2>4, <3>1, <3>2
  <2>8. <<x.method.name, q>> \in ReturnPairs
    BY <2>2, <2>3, <2>4, <2>5, <2>7, ReturnPairIs
  <2>. QED  BY <1>1, <2>6, <2>8
<1>. QED  BY <1>1, <1>5, <1>6, <1>7, <1>8

(***************************************************************************)
(* Call graphs                                                             *)
(***************************************************************************)
DownFrom(start, ignore) == Walk(start, Kept(DownKinds, ignore), edges)
UpTo(start, ignore)     == Walk(start, Kept(UpKinds, ignore), UpEdges)

\* The nodes of a call graph are those of the two walks, and returned values.
LEMMA CallgraphNodes ==
  ASSUME NEW start, NEW ignore
  PROVE  /\ \A n \in DownFrom(start, ignore) \cup UpTo(start, ignore) :
              \E c \in CallgraphForMethod(start, ignore).nodes : c[1] = n
         /\ \A c \in CallgraphForMethod(start, ignore).nodes :
              c[1] \in DownFrom(start, ignore) \cup UpTo(start, ignore) \/ Kind(c[1]) = "dynamic_return"
<1>. DEFINE keepBack == Kept(ReturnKinds, ignore)
            down     == DownFrom(start, ignore)
            returned == {n \in UNION {Beyond(d, keepBack, UpEdges) : d \in down} : Kind(n) = "dynamic_return"}
            up       == UpTo(start, ignore)
            FirstCopy(n) == IF n \in down THEN <<n, "down">> ELSE <<n, "return">>
            LastCopy(n)  == IF n \in up \ {start} THEN <<n, "up">> ELSE FirstCopy(n)
            all      == {FirstCopy(n) : n \in down \cup returned} \cup {LastCopy(n) : n \in up}
<1>1. CallgraphForMethod(start, ignore).nodes = all
  BY DEF CallgraphForMethod, DownFrom, UpTo, UpFrom
<1>2. \A n : FirstCopy(n)[1] = n /\ LastCopy(n)[1] = n
  OBVIOUS
<1>3. \A n \in returned : Kind(n) = "dynamic_return"
  OBVIOUS
<1>. HIDE DEF down, returned, up, FirstCopy, LastCopy
<1>4. ASSUME NEW n \in down \cup up PROVE \E c \in all : c[1] = n
  <2>1. CASE n \in down
    <3>1. FirstCopy(n) \in all
      BY <2>1
    <3>. QED  BY <1>2, <3>1
  <2>2. CASE n \in up
    <3>1. LastCopy(n) \in all
      BY <2>2
    <3>. QED  BY <1>2, <3>1
  <2>. QED  BY <2>1, <2>2
<1>5. ASSUME NEW c \in all PROVE c[1] \in down \cup up \/ Kind(c[1]) = "dynamic_return"
  BY <1>2, <1>3
<1>. HIDE DEF all
<1>. QED  BY <1>1, <1>4, <1>5 DEF down, up

\* Edges between kept nodes have a method at one end.
LEMMA KeptEnds ==
  ASSUME GraphInv, WalkInv, NEW e \in edges, nodes[e[1]].kind \in UpKinds, nodes[e[2]].kind \in UpKinds
  PROVE  nodes[e[1]].kind = "method" \/ nodes[e[2]].kind = "method"
<1>1. nodes[e[2]].kind \notin Bases => nodes[e[1]].kind \in {"method", "field"}
  BY DEF WalkInv, ReturnsInv, EndsFit
<1>. QED  BY <1>1 DEF UpKinds, DownKinds, Bases

LEMMA Length == GraphInv => Len(nodes) \in Nat
BY ListFacts DEF GraphInv, GraphType

\* What is met on the way down is led to.
LEMMA DownIsLed ==
  ASSUME GraphInv, ArgInv, WalkInv, MethodKeysInv, Done,
         NEW start \in DOMAIN nodes, nodes[start].kind = "method", NEW ignore,
         NEW n \in DownFrom(start, ignore), nodes[n].kind = "method"
  PROVE  nodes[n].name \in Transitively(nodes[start].name, MethodPairs \cup ReturnPairs)
<1>1. PICK keep, links, pairs :
        keep = Kept(DownKinds, ignore) /\ links = edges /\ pairs = MethodPairs \cup ReturnPairs
  OBVIOUS
<1>2. \A m \in keep : nodes[m].kind \in DownKinds
  BY <1>1 DEF Kept, Kind
<1>3. \A e \in links : e = <<e[1], e[2]>>
  BY <1>1 DEF GraphInv, EdgesInv
<1>4. \A e \in links : nodes[e[1]].kind = "method" /\ nodes[e[2]].kind = "method" =>
        <<nodes[e[1]].name, nodes[e[2]].name>> \in pairs
  BY <1>1, <1>3, MethodPairIs
<1>5. \A d, e \in links :
        d[2] = e[1] /\ d[2] \in keep /\ nodes[d[1]].kind = "method" /\ nodes[d[2]].kind # "method" /\ nodes[e[2]].kind = "method" =>
          d[1] = e[2] \/ <<nodes[d[1]].name, nodes[e[2]].name>> \in pairs
  BY <1>1, <1>2, HopIs DEF DownKinds
<1>6. \A e \in links : e[1] \in keep /\ e[2] \in keep => nodes[e[1]].kind = "method" \/ nodes[e[2]].kind = "method"
  BY <1>1, <1>2, KeptEnds DEF UpKinds
<1>7. n \in Walk(start, keep, links)
  BY <1>1 DEF DownFrom
<1>8. nodes[n].name \in Transitively(nodes[start].name, pairs)
  BY <1>3, <1>4, <1>5, <1>6, <1>7, Length, WalkIsLed
<1>. QED  BY <1>1, <1>8

\* What is met on the way up leads here.
LEMMA UpIsLed ==
  ASSUME GraphInv, ArgInv, WalkInv, MethodKeysInv, Done,
         NEW start \in DOMAIN nodes, nodes[start].kind = "method", NEW ignore,
         NEW n \in UpTo(start, ignore), nodes[n].kind = "method"
  PROVE  nodes[n].name \in Transitively(nodes[start].name, Backwards(MethodPairs \cup ReturnPairs))
<1>1. PICK keep, links, pairs :
        keep = Kept(UpKinds, ignore) /\ links = UpEdges /\ pairs = Backwards(MethodPairs \cup ReturnPairs)
  OBVIOUS
<1>2. \A m \in keep : nodes[m].kind \in UpKinds
  BY <1>1 DEF Kept, Kind
<1>3. ASSUME NEW e \in links
      PROVE  e = <<e[1], e[2]>> /\ \E d \in edges : d = <<e[2], e[1]>> /\ d[1] = e[2] /\ d[2] = e[1]
  <2>1. PICK d \in edges : e = <<d[2], d[1]>>
    BY <1>1 DEF UpEdges
  <2>2. e[1] = d[2] /\ e[2] = d[1]
    BY <2>1
  <2>3. d = <<d[1], d[2]>>
    BY DEF GraphInv, EdgesInv
  <2>. QED  BY <2>1, <2>2, <2>3
<1>4. \A a, b : <<a, b>> \in MethodPairs \cup ReturnPairs => <<b, a>> \in pairs
  <2>1. ASSUME NEW a, NEW b, <<a, b>> \in MethodPairs \cup ReturnPairs PROVE <<b, a>> \in pairs
    <3>1. PICK p \in MethodPairs \cup ReturnPairs : p = <<a, b>>
      BY <2>1
    <3>2. p[1] = a /\ p[2] = b
      BY <3>1
    <3>. QED  BY <1>1, <3>2 DEF Backwards
  <2>. QED  BY <2>1
<1>5. ASSUME NEW e \in links, nodes[e[1]].kind = "method", nodes[e[2]].kind = "method"
      PROVE  <<nodes[e[1]].name, nodes[e[2]].name>> \in pairs
  <2>1. <<e[2], e[1]>> \in edges
    BY <1>3
  <2>2. <<nodes[e[2]].name, nodes[e[1]].name>> \in MethodPairs
    BY <1>5, <2>1, MethodPairIs
  <2>. QED  BY <1>4, <2>2
<1>6. ASSUME NEW d \in links, NEW e \in links, d[2] = e[1], d[2] \in keep, nodes[d[1]].kind = "method",
             nodes[d[2]].kind # "method", nodes[e[2]].kind = "method"
      PROVE  d[1] = e[2] \/ <<nodes[d[1]].name, nodes[e[2]].name>> \in pairs
  <2>1. PICK f \in edges : f[1] = e[2] /\ f[2] = e[1]
    BY <1>3
  <2>2. PICK g \in edges : g[1] = d[2] /\ g[2] = d[1]
    BY <1>3
  <2>3. nodes[f[2]].kind \in {"array", "dynamic_argument", "static", "dynamic_return"}
    BY <1>2, <1>6, <2>1 DEF UpKinds, DownKinds
  <2>4. f[1] = g[2] \/ <<nodes[f[1]].name, nodes[g[2]].name>> \in MethodPairs \cup ReturnPairs
    BY <1>6, <2>1, <2>2, <2>3, HopIs
  <2>5. e[2] = d[1] \/ <<nodes[e[2]].name, nodes[d[1]].name>> \in MethodPairs \cup ReturnPairs
    BY <2>1, <2>2, <2>4
  <2>. QED  BY <1>4, <2>5
<1>7. ASSUME NEW e \in links, e[1] \in keep, e[2] \in keep
      PROVE  nodes[e[1]].kind = "method" \/ nodes[e[2]].kind = "method"
  <2>1. PICK d \in edges : d[1] = e[2] /\ d[2] = e[1]
    BY <1>3
  <2>. QED  BY <1>2, <1>7, <2>1, KeptEnds
<1>8. n \in Walk(start, keep, links)
  BY <1>1 DEF UpTo
<1>9. nodes[n].name \in Transitively(nodes[start].name, pairs)
  BY <1>3, <1>5, <1>6, <1>7, <1>8, Length, WalkIsLed
<1>. QED  BY <1>1, <1>9

\* What is called, and is not ignored, is met on the way down, and what calls on the way up.
LEMMA CallsAreMet ==
  ASSUME GraphInv, WalkInv, Done, NEW s, Mapped(MethodOf(s)), NEW ignored, NEW calls,
         calls = {p \in CallPairs : ignored \notin {p[1][2], p[2][2]}}, NEW t
  PROVE  /\ t \in Transitively(s, calls) =>
              Mapped(MethodOf(t)) /\ NodeOf(t) \in DownFrom(NodeOf(s), {ignored})
         /\ t \in Transitively(s, Backwards(calls)) =>
              Mapped(MethodOf(t)) /\ NodeOf(t) \in UpTo(NodeOf(s), {ignored})
<1>1. ASSUME NEW p \in calls
      PROVE  /\ Mapped(MethodOf(p[1])) /\ Mapped(MethodOf(p[2])) /\ <<NodeOf(p[1]), NodeOf(p[2])>> \in edges
             /\ NodeOf(p[1]) \in Kept(DownKinds, {ignored}) /\ NodeOf(p[2]) \in Kept(DownKinds, {ignored})
             /\ NodeOf(p[1]) \in Kept(UpKinds, {ignored}) /\ NodeOf(p[2]) \in Kept(UpKinds, {ignored})
  <2>1. Mapped(MethodOf(p[1])) /\ Mapped(MethodOf(p[2])) /\ <<NodeOf(p[1]), NodeOf(p[2])>> \in edges
    BY CallIsLinked
  <2>2. ASSUME NEW q, Mapped(MethodOf(q)), ignored # q[2]
        PROVE  NodeOf(q) \in Kept(DownKinds, {ignored}) /\ NodeOf(q) \in Kept(UpKinds, {ignored})
    <3>1. PICK m : m = NodeOf(q)
      OBVIOUS
    <3>2. m \in DOMAIN nodes /\ nodes[m].kind = "method" /\ nodes[m].name = q
      BY <2>2, <3>1, NodeIs
    <3>. QED  BY <2>2, <3>1, <3>2 DEF Kept, Kind, UpKinds, DownKinds
  <2>3. ignored # p[1][2] /\ ignored # p[2][2]
    OBVIOUS
  <2>4. PICK a, b : a = p[1] /\ b = p[2]
    OBVIOUS
  <2>. QED  BY <2>1, <2>2, <2>3, <2>4
<1>2. ASSUME t \in Transitively(s, calls)
      PROVE  Mapped(MethodOf(t)) /\ NodeOf(t) \in DownFrom(NodeOf(s), {ignored})
  <2>1. PICK keep, links : keep = Kept(DownKinds, {ignored}) /\ links = edges
    OBVIOUS
  <2>2. PairsLinked(keep, links, calls)
    BY <1>1, <2>1 DEF PairsLinked
  <2>3. NodeOf(t) \in Walk(NodeOf(s), keep, links) /\ (t = s \/ \E p \in calls : t = p[2])
    BY <1>2, <2>2, Length, WalkComesTo
  <2>. QED  BY <1>1, <2>1, <2>3 DEF DownFrom
<1>3. ASSUME t \in Transitively(s, Backwards(calls))
      PROVE  Mapped(MethodOf(t)) /\ NodeOf(t) \in UpTo(NodeOf(s), {ignored})
  <2>1. PICK keep, links, pairs : keep = Kept(UpKinds, {ignored}) /\ links = UpEdges /\ pairs = Backwards(calls)
    OBVIOUS
  <2>2. ASSUME NEW q \in pairs
        PROVE  /\ NodeOf(q[1]) \in keep /\ NodeOf(q[2]) \in keep /\ <<NodeOf(q[1]), NodeOf(q[2])>> \in links
               /\ Mapped(MethodOf(q[2]))
    <3>1. PICK p \in calls : q = <<p[2], p[1]>>
      BY <2>1 DEF Backwards
    <3>2. q[1] = p[2] /\ q[2] = p[1]
      BY <3>1
    <3>3. PICK e \in edges : e = <<NodeOf(p[1]), NodeOf(p[2])>>
      BY <1>1
    <3>4. PICK a, b : a = NodeOf(p[1]) /\ b = NodeOf(p[2])
      OBVIOUS
    <3>5. e[1] = a /\ e[2] = b
      BY <3>3, <3>4
    <3>6. <<b, a>> \in UpEdges
      BY <3>5 DEF UpEdges
    <3>. QED  BY <1>1, <2>1, <3>2, <3>4, <3>6
  <2>3. NodeOf(t) \in Walk(NodeOf(s), keep, links) /\ (t = s \/ \E p \in pairs : t = p[2])
    <3>1. PairsLinked(keep, links, pairs)
      BY <2>2 DEF PairsLinked
    <3>2. t \in Transitively(s, pairs)
      BY <1>3, <2>1
    <3>. QED  BY <3>1, <3>2, Length, WalkComesTo
  <2>. QED  BY <2>1, <2>2, <2>3 DEF UpTo
<1>. QED  BY <1>2, <1>3

LEMMA CallgraphFollows == GraphInv /\ ArgInv /\ WalkInv /\ MethodKeysInv => CallgraphIsSound
<1>. SUFFICES ASSUME GraphInv, ArgInv, WalkInv, MethodKeysInv, Done, NEW ignored \in {"run", "nothing"},
                     NEW m \in {k \in DOMAIN mappings : k.kind = "method"}
              PROVE  LET links == MethodPairs \cup ReturnPairs
                         calls == {p \in CallPairs : ignored \notin {p[1][2], p[2][2]}}
                         found == {nodes[n[1]].name : n \in {x \in CallgraphForMethod(mappings[m], {ignored}).nodes :
                                                               Kind(x[1]) = "method"}}
                     IN /\ Transitively(m.name, calls) \cup Transitively(m.name, Backwards(calls)) \subseteq found
                        /\ found \subseteq Transitively(m.name, links) \cup Transitively(m.name, Backwards(links))
  BY DEF CallgraphIsSound
<1>. DEFINE calls == {p \in CallPairs : ignored \notin {p[1][2], p[2][2]}}
            found == {nodes[n[1]].name : n \in {x \in CallgraphForMethod(mappings[m], {ignored}).nodes :
                                                  Kind(x[1]) = "method"}}
<1>1. PICK s, start, ignore : s = m.name /\ start = mappings[m] /\ ignore = {ignored}
  OBVIOUS
<1>2. m = MethodOf(s) /\ Mapped(MethodOf(s)) /\ start = NodeOf(s)
  BY <1>1 DEF MethodKeysInv, IsKey, Mapped, NodeOf
<1>3. start \in DOMAIN nodes /\ nodes[start].kind = "method" /\ nodes[start].name = s
  BY <1>2, NodeIs
<1>4. ASSUME NEW t \in Transitively(s, calls) \cup Transitively(s, Backwards(calls)) PROVE t \in found
  <2>1. Mapped(MethodOf(t)) /\ NodeOf(t) \in DownFrom(start, ignore) \cup UpTo(start, ignore)
    BY <1>1, <1>2, CallsAreMet
  <2>2. PICK n : n = NodeOf(t)
    OBVIOUS
  <2>3. nodes[n].kind = "method" /\ nodes[n].name = t
    BY <2>1, <2>2, NodeIs
  <2>4. PICK c \in CallgraphForMethod(start, ignore).nodes : c[1] = n
    BY <2>1, <2>2, CallgraphNodes
  <2>. QED  BY <1>1, <2>3, <2>4 DEF Kind
<1>5. ASSUME NEW t \in found
      PROVE  t \in Transitively(s, MethodPairs \cup ReturnPairs)
                     \cup Transitively(s, Backwards(MethodPairs \cup ReturnPairs))
  <2>1. PICK c \in CallgraphForMethod(start, ignore).nodes : Kind(c[1]) = "method" /\ t = nodes[c[1]].name
    BY <1>1, <1>5
  <2>2. PICK n : n = c[1]
    OBVIOUS
  <2>3. nodes[n].kind = "method" /\ t = nodes[n].name
    BY <2>1, <2>2 DEF Kind
  <2>4. n \in DownFrom(start, ignore) \cup UpTo(start, ignore)
    BY <2>1, <2>2, CallgraphNodes
  <2>. QED  BY <1>3, <2>3, <2>4, DownIsLed, UpIsLed
<1>. QED  BY <1>1, <1>4, <1>5

\* The call graph of a method has every method that it calls or that calls it, through any
\* number of others, if what is to be ignored is on no way there; and no method but those that
\* calls, implementations and values seen as results lead to, whatever method ends as one of their
\* signatures does, in any app.
THEOREM CallgraphIsSoundAlways == Spec => []CallgraphIsSound
BY WalkAlways, MethodKeysAlways, CallgraphFollows, PTL
=============================================================================
