------------------------------ MODULE DexFiles ------------------------------
(***************************************************************************)
(* Loading an app (extraction.rs and dex/mod.rs of coeus_parse): a thread  *)
(* for every dex file of an archive, in which rayon's workers go through   *)
(* the file's table of classes.  A worker adds a class to the file's list, *)
(* to the table of its superclass's subclasses and to that of its          *)
(* interfaces' implementations, each behind a mutex of its own and held    *)
(* for that one change.  A file that cannot be parsed ends its thread, and *)
(* is left out.                                                            *)
(*                                                                         *)
(* A class without members (class_data_off points to no data) takes a      *)
(* shorter way: neither its superclass nor its interfaces are looked at.   *)
(* Every class has a superclass: Object, which has none, is not an app's.  *)
(*                                                                         *)
(* The tables go by names, which are found as strings of the file by an    *)
(* index cut to 16 bits: a type whose name stands further back is called   *)
(* by another string.  A class in a list is the class itself, whatever it  *)
(* is called.                                                              *)
(***************************************************************************)
EXTENDS Integers, FiniteSets, SequencesExt, Lists

CONSTANTS
  Archives,    \* archives of an app: [workers, files]
  NameLimit    \* the strings that a cut index leads to: 2^16 in the code

VARIABLES
  archive,                    \* the archive, which never changes
  stage,                      \* how far a file's classes are
  classes,                    \* ret_classes of each file
  subclasses, implementers,   \* s_table and v_table of each file: name -> names of classes
  app                         \* the MultiDexFile, empty until it is there

loadVars == <<archive, stage, classes, subclasses, implementers, app>>

(***************************************************************************)
(* File: [id, readable, types, fields, methods, strings, classes]; class:  *)
(* [name, super, interface, interfaces, members, defaults, codes]; code:   *)
(* [sig, finds].  Fields and methods are pairs of a class and a name; a    *)
(* default is a field and the string it begins with.                       *)
(***************************************************************************)
FileLists == {"types", "fields", "methods", "strings", "classes"}
IsList(s) == s \in Seq(Range(s))
ListsAreLists(f) ==
  /\ DOMAIN f = {"id", "readable"} \cup FileLists
  /\ \A sort \in FileLists : IsList(f[sort])
  /\ \A c \in Range(f.classes) :
       /\ DOMAIN c = {"name", "super", "interface", "interfaces", "members", "defaults", "codes"}
       /\ IsList(c.interfaces) /\ IsList(c.codes) /\ \A code \in Range(c.codes) : IsList(code.finds)

FileNamesItsOwn(f) ==
  LET types == Range(f.types)
  IN /\ types \subseteq Range(f.strings)
     /\ \A p \in Range(f.fields) \cup Range(f.methods) : p[1] \in types
     /\ \A c \in Range(f.classes) :
          /\ {c.name, c.super} \cup Range(c.interfaces) \subseteq types
          /\ \A k \in DOMAIN c.codes : <<c.name, c.codes[k].sig>> \in Range(f.methods)
          /\ \A k \in DOMAIN c.defaults :
               c.defaults[k][1] \in Range(f.fields) /\ c.defaults[k][2] \in Range(f.strings)

\* A dex file defines a class once; what has no members has neither code nor static fields.
ClassesAreDefinedOnce(f) ==
  /\ \A k, n \in DOMAIN f.classes : f.classes[k].name = f.classes[n].name => k = n
  /\ \A c \in Range(f.classes) : ~c.members => c.codes = <<>> /\ c.defaults = <<>>

ASSUME NameLimitAssumption == NameLimit \in Nat \ {0}
ASSUME ArchivesAssumption ==
  \A a \in Archives :
    /\ a.workers \in Nat \ {0} /\ a.files \in Seq(Range(a.files))
    /\ \A f \in Range(a.files) :
         f.readable \in BOOLEAN /\ ListsAreLists(f) /\ FileNamesItsOwn(f) /\ ClassesAreDefinedOnce(f)

Files == {k \in DOMAIN archive.files : archive.files[k].readable}
Table(f) == DOMAIN archive.files[f].classes

LoadInit ==
  /\ archive \in Archives
  /\ stage = [f \in Files |-> [c \in Table(f) |-> "waiting"]]
  /\ classes = [f \in Files |-> <<>>]
  /\ subclasses = [f \in Files |-> [n \in {} |-> {}]]
  /\ implementers = [f \in Files |-> [n \in {} |-> {}]]
  /\ app = <<>>

(***************************************************************************)
(* A worker, and a class of the table                                      *)
(***************************************************************************)
Definition(f, c) == archive.files[f].classes[c]
At(f, c, name) == stage[f][c] = name
Becomes(f, c, name) == stage' = [stage EXCEPT ![f][c] = name]

\* What a type is called: the string at its name's index, cut (indices are from 0 in the code).
StringIndex(g, name) == CHOOSE i \in DOMAIN g.strings : g.strings[i] = name
Called(g, name) == g.strings[((StringIndex(g, name) - 1) % NameLimit) + 1]
ClassName(f, name) == Called(archive.files[f], name)

\* One worker takes the classes as they come; several split the table anywhere.
UnderWay == {p \in UNION {{f} \X Table(f) : f \in Files} : stage[p[1]][p[2]] \notin {"waiting", "done"}}
MayTake(f, c) ==
  /\ At(f, c, "waiting")
  /\ Cardinality(UnderWay) < archive.workers
  /\ archive.workers = 1 => \A d \in Table(f) : d < c => ~At(f, d, "waiting")

\* A table with members added to what it holds for names.
Listed(table, names, members) ==
  [n \in DOMAIN table \cup names |->
     (IF n \in DOMAIN table THEN table[n] ELSE {}) \cup IF n \in names THEN members ELSE {}]
\* Faulty variant: a class begins a list of subclasses of its own, whether or not it has one.
ExtendedAnew(table, own, super, member) ==
  Listed([n \in DOMAIN table \cup {own} |-> IF n = own THEN {} ELSE table[n]], {super}, {member})
\* A class has a list of subclasses, and is in that of its superclass.
Extended(table, own, super, member) == Listed(Listed(table, {own}, {}), {super}, {member})

\* No members: listed without its interfaces; an interface begins a list of implementations,
\* and what was in one is gone.
ListBare(f, c) ==
  /\ MayTake(f, c) /\ ~Definition(f, c).members
  /\ classes' = [classes EXCEPT ![f] = Append(@, [Definition(f, c) EXCEPT !.interfaces = <<>>])]
  /\ Becomes(f, c, IF Definition(f, c).interface THEN "listed" ELSE "done")
  /\ UNCHANGED <<archive, subclasses, implementers, app>>
BeginImplementations(f, c) ==
  /\ At(f, c, "listed")
  /\ implementers' = [implementers EXCEPT ![f] =
       LET own == ClassName(f, Definition(f, c).name)
       IN [n \in DOMAIN @ \cup {own} |-> IF n = own THEN {} ELSE @[n]]]
  /\ Becomes(f, c, "done")
  /\ UNCHANGED <<archive, classes, subclasses, app>>

ListSubclass(f, c) ==
  /\ MayTake(f, c) /\ Definition(f, c).members
  /\ subclasses' = [subclasses EXCEPT ![f] =
       Extended(@, ClassName(f, Definition(f, c).name), ClassName(f, Definition(f, c).super), Definition(f, c).name)]
  /\ Becomes(f, c, "subclass")
  /\ UNCHANGED <<archive, classes, implementers, app>>
ListImplementation(f, c) ==
  /\ At(f, c, "subclass")
  /\ implementers' = [implementers EXCEPT ![f] =
       Listed(@, {ClassName(f, i) : i \in Range(Definition(f, c).interfaces)}, {Definition(f, c).name})]
  /\ Becomes(f, c, "implementation")
  /\ UNCHANGED <<archive, classes, subclasses, app>>
ListClass(f, c) ==
  /\ At(f, c, "implementation")
  /\ classes' = [classes EXCEPT ![f] = Append(@, Definition(f, c))]
  /\ Becomes(f, c, "done")
  /\ UNCHANGED <<archive, subclasses, implementers, app>>

\* The threads are joined in the order of the files in the archive; the first that was parsed is
\* the primary one.
Parsed(f) == [archive.files[f] EXCEPT !.classes = classes[f]]
Load ==
  /\ app = <<>> /\ Files # {}
  /\ \A f \in Files : \A c \in Table(f) : At(f, c, "done")
  /\ LET kept == Sublist([k \in DOMAIN archive.files |-> k], Files)
     IN app' = [k \in DOMAIN kept |-> Parsed(kept[k])]
  /\ UNCHANGED <<archive, stage, classes, subclasses, implementers>>

Work(f, c) ==
  \/ ListBare(f, c) \/ BeginImplementations(f, c)
  \/ ListSubclass(f, c) \/ ListImplementation(f, c) \/ ListClass(f, c)
LoadNext == (\E f \in Files : \E c \in Table(f) : Work(f, c)) \/ Load

(***************************************************************************)
(* What is asked of the tables                                             *)
(***************************************************************************)
Entry(table, name) == IF name \in DOMAIN table THEN table[name] ELSE {}
GetSubclasses(name)       == UNION {{f} \X Entry(subclasses[f], name) : f \in Files}
GetImplementations(name)  == UNION {{f} \X Entry(implementers[f], name) : f \in Files}

(***************************************************************************)
(* Properties                                                              *)
(***************************************************************************)
\* What the files say.
Defined == UNION {{<<f, Definition(f, c)>> : c \in Table(f)} : f \in Files}
Names   == {d[2].name : d \in Defined} \cup {d[2].super : d \in Defined}
           \cup UNION {Range(d[2].interfaces) : d \in Defined}
SubclassesOf(name) == {<<d[1], d[2].name>> : d \in {e \in Defined : e[2].members /\ e[2].super = name}}
ImplementationsOf(name) ==
  {<<d[1], d[2].name>> : d \in {e \in Defined : e[2].members /\ name \in Range(e[2].interfaces)}}
\* The files in which this is an interface without members, as markers are.
Markers(name) == {d[1] : d \in {e \in Defined : e[2].name = name /\ e[2].interface /\ ~e[2].members}}

\* The names of types are all at indices that need not be cut.
InReach(g) == \A i \in DOMAIN g.strings : g.strings[i] \in Range(g.types) => i <= NameLimit

\* In whatever order workers come to them, and whatever they are called, find_subclasses finds
\* those with members that extend a class in its own file.  Where all names are in reach, it
\* finds these in all files and nothing else, and find_implementations finds the classes that
\* implement an interface - but for a marker, which may be listed after some that implement
\* it and then loses those of its file.
RelativesAreAll ==
  app # <<>> =>
    /\ \A d \in Defined : \A s \in SubclassesOf(d[2].name) :
         s[1] = d[1] => s \in GetSubclasses(ClassName(d[1], d[2].name))
    /\ (\A f \in Files : InReach(archive.files[f])) => \A name \in Names :
         /\ GetSubclasses(name) = SubclassesOf(name)
         /\ GetImplementations(name) \subseteq ImplementationsOf(name)
         /\ \A i \in ImplementationsOf(name) : i[1] \notin Markers(name) => i \in GetImplementations(name)

\* As the documentation of find_implementations has it.
FindsAllImplementations ==
  app # <<>> => \A d \in Defined :
    ImplementationsOf(d[2].name) \subseteq GetImplementations(ClassName(d[1], d[2].name))
=============================================================================
