--------------------------- MODULE RuntimeClasses ---------------------------
(***************************************************************************)
(* The values of the Dex virtual machine and the library classes it brings *)
(* along (vm/runtime.rs), by what they leave in the register of results.   *)
(*                                                                         *)
(* A value is reduced to what breakpoints tell apart.  A register holds a  *)
(* reference together with the name of a type, which need not be that of   *)
(* the value on the heap: what was read from an instance field carries the *)
(* name of the class it was read from, and an array other than of bytes    *)
(* that of its own type.  Such values are masked: stops that look at the   *)
(* name miss them, stops that look at the heap do not.                     *)
(*                                                                         *)
(* A library method is given its arguments and the result r that is in the *)
(* register; it leaves one of several outcomes.  Those that set no result  *)
(* leave r, which is that of an earlier call.  Calls have the arguments    *)
(* that their signature demands; input on which the code panics (text that *)
(* is no Base64, a slice out of bounds) is left out.                       *)
(***************************************************************************)
EXTENDS Naturals, Sequences

\* The strings the driver passes in ("test") are told apart from the program's own.
StringKinds == {"string", "test"}
Masked      == {"masked_string", "masked_test", "masked_array"}
References  == StringKinds \cup Masked \cup {"array", "object"}
Values      == References \cup {"empty", "int", "wide"}

\* What the heap holds for a value, whatever the type its register names.
OnHeap(v) ==
  CASE v = "masked_string" -> "string"
    [] v = "masked_test"   -> "test"
    [] v = "masked_array"  -> "array"
    [] OTHER               -> v

IsText(v)  == OnHeap(v) \in StringKinds
IsArray(v) == OnHeap(v) = "array"
IsObject(v) == IsText(v) \/ v = "object"    \* Value::Object

\* The k-th argument.
Arg(a, k) == IF k \in DOMAIN a THEN a[k] ELSE "empty"
AreInts(a, ks) == \A k \in ks : Arg(a, k) = "int"

Leaves(values) == {[ok |-> TRUE, ret |-> v] : v \in values}
Stopped(r)     == {[ok |-> FALSE, ret |-> r]}
\* A method that is not provided: LinkerError.
Missing(r)     == Stopped(r)

\* Classes that define no constructor put a new object into the register of results.
Plain(name, r) ==
  CASE name = "<init>" -> Leaves({"object"}) [] name = "<clinit>" -> Leaves({r})
    [] OTHER -> Missing(r)

Resources(class, name, a, r) ==
  CASE class = "Context" /\ name \in {"getSharedPreferences", "getAssets"} -> Leaves({"object"})
    [] class = "Charset" /\ name = "forName" -> Leaves({"object"})
    [] class = "AssetManager" /\ name = "open" ->
         IF IsObject(Arg(a, 2)) THEN Leaves({"object"}) \cup Stopped(r) ELSE Stopped(r)
    [] class = "InputStream" /\ name = "read" ->
         IF Arg(a, 1) \in References /\ IsArray(Arg(a, 2)) /\ AreInts(a, {3, 4})
         THEN Leaves({"int"}) \cup Stopped(r) ELSE Leaves({r})
    [] OTHER -> Plain(name, r)

\* getClass fails after it has set its result.
Basics(class, name, a, r) ==
  CASE class = "Object" /\ name = "getClass" ->
         Stopped(IF IsObject(Arg(a, 1)) THEN "object" ELSE r)
    [] class = "Object" /\ name = "equals" ->
         LET x == Arg(a, 1)  y == Arg(a, 2) IN
         Leaves({IF x \in References /\ y \in References /\ ~(IsObject(x) /\ IsObject(y))
                 THEN r ELSE "int"})
    [] class = "Math" /\ name \in {"max", "min"} ->
         IF AreInts(a, {1, 2}) THEN Leaves({"int"}) ELSE Stopped(r)
    [] class = "Debug" /\ name = "isDebuggerConnected" -> Leaves({"int"})
    [] class = "Debug" /\ name = "waitingForDebugger"  -> Leaves({r})
    [] class = "[B" /\ name = "clone" ->
         IF Arg(a, 1) \in References THEN Leaves({"array"}) ELSE Stopped(r)
    [] OTHER -> Plain(name, r)

Providers(class, name, r) ==
  CASE name = "getInstance" /\ class \in {"Cipher", "SecureRandom", "KeyGenerator"} ->
         Leaves({"object"})
    [] class = "SecureRandom" /\ name = "setSeed" -> Leaves({r})
    [] OTHER -> Plain(name, r)

System(name, a, r) ==
  CASE name = "currentTimeMillis" -> Leaves({"wide"})
    [] name = "arraycopy" ->
         IF AreInts(a, {2, 4, 5}) /\ IsArray(Arg(a, 1)) /\ IsArray(Arg(a, 3))
         THEN Leaves({r}) ELSE Stopped(r)
    [] OTHER -> Plain(name, r)

\* Numbers made of what can be parsed as one.
Boxes(name, a, r) ==
  CASE name = "valueOf" -> Stopped(r) \cup (IF IsObject(Arg(a, 1)) THEN Leaves({"object"}) ELSE {})
    [] OTHER -> Plain(name, r)

\* The name of a class is that of the type the register names.
ClassObjects(class, name, a, r) ==
  CASE class = "Class" /\ name = "getName" ->
         IF Arg(a, 1) \in References THEN Leaves({"string"}) ELSE Stopped(r)
    [] class = "Class" /\ name = "getClassLoader" -> Leaves({"object"})
    [] OTHER -> Plain(name, r)

\* Constructors that keep what they are given set no result.
Specs(name, r) == IF name \in {"<init>", "<clinit>", "init"} THEN Leaves({r}) ELSE Missing(r)

Utilities(class, name, a, r) ==
  CASE class = "Arrays" /\ name = "copyOf" ->
         IF IsArray(Arg(a, 1)) /\ Arg(a, 2) = "int"
         THEN Leaves({"array"}) \cup Stopped(r) ELSE Stopped(r)
    [] class = "Objects" /\ name = "requireNonNull" -> Leaves({Arg(a, 1)})
    [] class = "PrintWriter" /\ name = "print" -> Leaves({r})
    [] OTHER -> Plain(name, r)

\* A digest by an algorithm that is not known sets no result.
MessageDigest(name, a, r) ==
  CASE name = "getInstance" -> Leaves(IF IsText(Arg(a, 1)) THEN {"object"} ELSE {r})
    [] name = "digest" ->
         IF Len(a) < 2 THEN Stopped(r)
         ELSE Leaves(IF IsObject(a[1]) /\ IsArray(a[2]) THEN {"array", r} ELSE {r})
    [] OTHER -> Plain(name, r)

Base64(name, a, r) ==
  CASE name = "decode" -> Leaves(IF IsText(Arg(a, 1)) THEN {"array"}
                                 ELSE IF IsObject(Arg(a, 1)) THEN {"array", r} ELSE {r})
    [] name = "encodeToString" -> Leaves(IF IsArray(Arg(a, 1)) THEN StringKinds ELSE {r})
    [] OTHER -> Missing(r)

\* append, of whatever is neither a string nor a builder, fails, and otherwise sets
\* no result, so the builder it returns in Java is not there to go on with.
StringBuilder(name, a, r) ==
  CASE name = "<init>" -> Leaves({r})
    [] name = "append" ->
         IF Arg(a, 1) \notin References \/ Arg(a, 2) \notin References \/ IsText(Arg(a, 2))
         THEN Leaves({r})
         ELSE Stopped(r) \cup (IF IsObject(Arg(a, 2)) THEN Leaves({r}) ELSE {})
    [] name = "toString" -> Leaves(IF IsText(Arg(a, 1)) THEN {OnHeap(Arg(a, 1))}
                                   ELSE IF IsObject(Arg(a, 1)) THEN StringKinds \cup {r} ELSE {r})
    [] OTHER -> Missing(r)

\* String methods that make a string: constructors of nothing, of an array, of a part
\* of an array; a part of a string; its length.
StringsMade(name, a, r) ==
  CASE name = "<init>" ->
         IF /\ Len(a) \in {2, 5} /\ Arg(a, 1) \in References /\ Arg(a, 2) \in References
            /\ Len(a) = 5 => AreInts(a, {3, 4})
            /\ ~IsArray(Arg(a, 2))
         THEN Stopped(r) ELSE Leaves({r})
    [] name = "subSequence" ->
         Leaves(IF IsText(Arg(a, 1)) /\ AreInts(a, {2, 3}) THEN StringKinds ELSE {r})
    [] name = "length" -> Leaves(IF IsText(Arg(a, 1)) THEN {"int"} ELSE {r})

\* Those that look into one.
StringsRead(name, a, r) ==
  CASE name = "getBytes" ->
         IF Arg(a, 1) \in References THEN Leaves({"array"}) ELSE Stopped(r)
    [] name = "toCharArray" ->
         IF Arg(a, 1) \in References THEN Leaves({"array"}) ELSE Stopped(r)
    [] name = "valueOf" -> Leaves(StringKinds)
    [] name = "intern"  -> Leaves({Arg(a, 1)})
    [] name = "hashCode" ->
         IF Len(a) = 1 /\ IsText(a[1]) THEN Leaves({"int"}) ELSE Stopped(r)
    [] name = "equals" ->
         IF Len(a) = 2 /\ IsText(a[1]) /\ IsText(a[2]) THEN Leaves({"int"}) ELSE Stopped(r)

StringClass(name, a, r) ==
  CASE name \in {"<init>", "subSequence", "length"} -> StringsMade(name, a, r)
    [] name \in {"getBytes", "toCharArray", "valueOf", "intern", "hashCode", "equals"} ->
         StringsRead(name, a, r)
    [] OTHER -> Missing(r)

\* A constructor of a class that is not provided is taken to do nothing.
LibraryOutcomes(class, name, a, r) ==
  CASE class = "StringBuilder" -> StringBuilder(name, a, r)
    [] class = "String"        -> StringClass(name, a, r)
    [] class = "Base64"        -> Base64(name, a, r)
    [] class = "MessageDigest" -> MessageDigest(name, a, r)
    [] class = "System"        -> System(name, a, r)
    [] class \in {"Integer", "Long"} -> Boxes(name, a, r)
    [] class \in {"Class", "ClassLoader"} -> ClassObjects(class, name, a, r)
    [] class \in {"IvParameterSpec", "SecretKeySpec"} -> Specs(name, r)
    [] class \in {"Arrays", "Objects", "PrintWriter"} -> Utilities(class, name, a, r)
    [] class \in {"Cipher", "Application", "SecureRandom", "KeyGenerator"} ->
         Providers(class, name, r)
    [] class \in {"Context", "Charset", "SharedPreferences", "AssetManager", "InputStream"} ->
         Resources(class, name, a, r)
    [] class \in {"Object", "Math", "Debug", "[B"} -> Basics(class, name, a, r)
    [] OTHER -> IF name = "<init>" THEN Leaves({r}) ELSE Missing(r)
=============================================================================
