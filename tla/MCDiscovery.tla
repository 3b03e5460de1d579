----------------------------- MODULE MCDiscovery -----------------------------
(***************************************************************************)
(* Small programs for model-checking Discovery: every body of a few        *)
(* instructions for the method that is discovered, with a choice of bodies *)
(* for what it calls.                                                      *)
(***************************************************************************)
EXTENDS Discovery

MCMethods == {"main", "clinit", "callee", "init", "inner", "lib", "none"}
MCFields  == {"own", "other", "third", "count"}

MCMethodOf ==
  [main   |-> [kind |-> "code", ins |-> 1, regs |-> 2],
   clinit |-> [kind |-> "code", ins |-> 0, regs |-> 2],
   callee |-> [kind |-> "code", ins |-> 1, regs |-> 2],
   init   |-> [kind |-> "code", ins |-> 0, regs |-> 2],
   inner  |-> [kind |-> "code", ins |-> 0, regs |-> 2],
   lib    |-> [kind |-> "builtin", ins |-> 0, regs |-> 0],
   none   |-> [kind |-> "abstract", ins |-> 0, regs |-> 0]]

MCFieldOf ==
  [own   |-> [data |-> "none", clinit |-> "clinit", platform |-> FALSE],
   other |-> [data |-> "string", clinit |-> "init", platform |-> FALSE],
   third |-> [data |-> "none", clinit |-> "inner", platform |-> TRUE],
   count |-> [data |-> "int", clinit |-> "inner", platform |-> FALSE]]

I(op, size, reg, to, args) == Ins(op, size, reg, to, args, 0)

\* The instructions, by short names.
Alphabet ==
  [str   |-> I("load", 2, 0, "string", <<>>),
   num   |-> I("load", 1, 1, "int", <<>>),
   arr   |-> I("new_array", 2, 1, "array", <<1>>),
   res   |-> I("move_result", 1, 0, "empty", <<>>),
   virt  |-> I("invoke_virtual", 3, 0, "lib", <<0, 1>>),
   stat  |-> I("invoke_static", 3, 0, "lib", <<1, 0>>),
   call  |-> I("invoke_static", 3, 0, "callee", <<0>>),
   vcall |-> I("invoke_virtual", 3, 0, "callee", <<0>>),
   abs   |-> I("invoke_virtual", 3, 0, "none", <<0>>),
   again |-> I("invoke_static", 3, 0, "main", <<1>>),
   get   |-> I("sget", 2, 0, "other", <<>>),
   get3  |-> I("sget", 2, 1, "third", <<>>),
   geto  |-> I("sget", 2, 1, "own", <<>>),
   put   |-> I("sput", 2, 0, "other", <<>>),
   put3  |-> I("sput", 2, 0, "third", <<>>),
   puto  |-> I("sput", 2, 0, "own", <<>>),
   nop   |-> I("nop", 1, 0, "empty", <<>>),
   loop  |-> Ins("goto", 1, 0, "empty", <<>>, -1),
   over  |-> Ins("if", 2, 0, "empty", <<>>, 3),
   thr   |-> I("throw", 1, 0, "empty", <<>>),
   ret   |-> I("return", 1, 0, "empty", <<>>),
   ret1  |-> I("return", 1, 1, "empty", <<>>),
   void  |-> I("return_void", 1, 0, "empty", <<>>),
   inv1  |-> I("invoke_virtual", 3, 0, "lib", <<0>>),
   inv3  |-> I("invoke_virtual", 3, 0, "lib", <<0, 1, 1>>),
   inv5  |-> I("invoke_static", 3, 0, "lib", <<0, 1, 0, 1, 1>>),
   new   |-> I("new_instance", 2, 0, "object", <<>>),
   move  |-> I("move", 1, 1, "empty", <<0>>),
   add   |-> I("arithmetic", 2, 1, "empty", <<1, 0>>),
   rem   |-> I("remainder", 2, 0, "empty", <<1>>),
   byte  |-> I("narrow", 1, 0, "empty", <<1>>),
   len   |-> I("array_length", 1, 1, "empty", <<0>>),
   aget  |-> I("aget", 2, 0, "empty", <<0, 1>>),
   aput  |-> I("aput", 2, 1, "empty", <<0, 1>>),
   ints  |-> I("new_array", 2, 0, "masked_array", <<1>>),
   fill  |-> I("filled_new_array", 3, 0, "empty", <<>>),
   iget  |-> I("iget", 2, 1, "empty", <<0>>),
   igeto |-> I("iget_object", 2, 0, "empty", <<0>>),
   geti  |-> I("sget_int", 2, 0, "count", <<>>),
   puti  |-> I("sput_int", 2, 1, "count", <<>>),
   test  |-> Ins("test", 2, 0, "empty", <<0, 1>>, 3),
   sw    |-> Ins("switch", 3, 0, "empty", <<1>>, 4)]

\* The code of a body: its instructions by address.
CodeFor(body) ==
  LET address[i \in 1 .. Len(body)] ==
        IF i = 1 THEN 0 ELSE address[i - 1] + Alphabet[body[i - 1]].size
  IN [x \in {address[i] : i \in 1 .. Len(body)} |->
        Alphabet[body[CHOOSE i \in 1 .. Len(body) : address[i] = x]]]
Codes(bodies) == {CodeFor(b) : b \in bodies}

\* All bodies of at most n instructions of a set, and a return.
BodiesUpTo(n, set, returns) == {b \o <<r>> : b \in BoundedSeq(set, n), r \in returns}

MainBodies   == BodiesUpTo(3, {"str", "arr", "virt", "stat", "call", "get", "thr"},
                           {"ret", "void"})
ClinitBodies == BodiesUpTo(4, {"str", "virt", "call", "puto", "geto", "get"}, {"void"})
                  \cup {<<"get", "virt", "new", "put", "void">>}
CalleeBodies == {<<"ret1">>, <<"str", "stat", "ret">>, <<"vcall", "void">>, <<"abs", "void">>,
                 <<"again", "stat", "void">>}
InitBodies   == {<<"str", "put", "void">>, <<"str", "virt", "void">>,
                 <<"str", "call", "get3", "virt", "void">>}
LoopBodies   == BodiesUpTo(3, {"nop", "thr", "str", "res", "put", "virt", "over"}, {"loop"})

\* The library methods.
Of(class, names) == {[class |-> class, name |-> n] : n \in names}
Default == Of("StringBuilder", {"toString"})
Library ==
  UNION {
    Of("StringBuilder", {"<init>", "append", "toString"}),
    Of("String", {"<init>", "subSequence", "length", "getBytes", "toCharArray", "valueOf",
                  "intern", "hashCode", "equals", "toString"}),
    Of("Base64", {"decode", "encodeToString"}), Of("MessageDigest", {"getInstance", "digest"}),
    Of("System", {"currentTimeMillis", "arraycopy"}), Of("Integer", {"valueOf"}),
    Of("Class", {"getName", "getClassLoader"}), Of("SecretKeySpec", {"init"}),
    Of("Arrays", {"copyOf"}), Of("Objects", {"requireNonNull"}), Of("PrintWriter", {"print"}),
    Of("SecureRandom", {"<init>", "getInstance", "setSeed"}), Of("Charset", {"forName"}),
    Of("AssetManager", {"open"}), Of("InputStream", {"read"}),
    Of("Object", {"<init>", "<clinit>", "getClass", "equals"}), Of("Math", {"max"}),
    Of("Debug", {"isDebuggerConnected", "waitingForDebugger"}), Of("[B", {"clone"}),
    Of("Unknown", {"<init>", "run"})}

ProgramsOf(entry, args, main, clinit, callee, library) ==
  [entry : {entry}, args : args, static : {entry = "clinit"}, library : [{"lib"} -> library],
   code : [main : Codes(main), clinit : Codes(clinit), callee : Codes(callee),
           init : Codes(InitBodies), inner : Codes({<<"str", "put3", "void">>})]]

Void == {<<"void">>}
Simple == {<<"ret1">>}

\* A method with a string or an integer parameter.
MethodPrograms ==
  ProgramsOf("main", {<<"test">>, <<"int">>}, MainBodies, Void, CalleeBodies, Default)

\* Each of the other instructions, on operands of each kind, with its result passed on.
Operands   == {<<>>, <<"str">>, <<"num">>, <<"str", "num">>, <<"arr", "move">>, <<"new">>,
               <<"new", "igeto">>, <<"ints">>}
DataBodies ==
  {o \o <<i>> \o u \o <<"ret">> :
     o \in Operands,
     i \in {"move", "add", "rem", "byte", "len", "aget", "aput", "fill", "iget", "igeto",
            "puti", "test", "sw", "put"},
     u \in {<<"virt">>, <<"res", "put">>, <<"geti", "virt">>}}
DataPrograms == ProgramsOf("main", {<<"test">>, <<"int">>}, DataBodies, Void, Simple, Default)

\* Each library method, on arguments of each kind, with its result passed on.
LibraryBodies ==
  {o \o <<i, "res">> \o u :
     o \in Operands \cup {<<"arr", "str">>, <<"ints", "num">>},
     i \in {"inv1", "virt", "inv3", "inv5"}, u \in {<<"virt", "ret">>, <<"put", "ret">>}}
LibraryPrograms == ProgramsOf("main", {<<"test">>, <<"int">>}, LibraryBodies, Void, Simple, Library)

\* The static initialiser of a class with a field that is read or written.
ClinitPrograms == ProgramsOf("clinit", {<<>>}, Void, ClinitBodies, Simple, Default)

\* Methods that end with a jump backwards; one is given too few arguments.
LoopPrograms ==
  ProgramsOf("main", {<<"test">>, <<>>}, {b \o <<"ret">> : b \in LoopBodies}, Void, Simple, Default)

\* All but the last: one set of programs for what holds of any.
BodyPrograms == MethodPrograms \cup DataPrograms \cup LibraryPrograms \cup ClinitPrograms
=============================================================================
