------------------------ MODULE JdwpDebugger_proofs ------------------------
(***************************************************************************)
(* Proofs about JdwpDebugger for every value of its constants: types, what *)
(* the caller takes from the stream of packets, the order of replies, and  *)
(* the ids that are kept of them.                                          *)
(***************************************************************************)
EXTENDS JdwpDebugger, SequenceTheorems, TLAPS

-----------------------------------------------------------------------------
(* Type correctness.                                                       *)

LEMMA RoundsType ==
  ASSUME NEW r \in Rounds
  PROVE  r.cmd \in Commands
  BY DEF Commands

\* Every round a call starts with is a round of the client.
LEMMA CallRoundsType ==
  ASSUME NEW name \in CallNames
  PROVE  CallRounds[name] \in Seq(Rounds)
<1>1. /\ NewClient \in Seq(Rounds) /\ GetVersionInfo \in Seq(Rounds)
      /\ GetAllClasses \in Seq(Rounds) /\ BreakAt \in Seq(Rounds)
      /\ ResumeVm \in Seq(Rounds) /\ StepOver \in Seq(Rounds)
      /\ WriteRegister \in Seq(Rounds) /\ ObjectValue \in Seq(Rounds)
      /\ StringOf \in Seq(Rounds) /\ ArrayOf \in Seq(Rounds)
      /\ NewString \in Seq(Rounds) /\ ClassName \in Seq(Rounds)
      /\ MethodName \in Seq(Rounds) /\ FrameCode \in Seq(Rounds)
  BY DEF Rounds, NewClient, GetVersionInfo, GetAllClasses, BreakAt, ResumeVm, StepOver,
     WriteRegister, ObjectValue, StringOf, ArrayOf, NewString, ClassName, MethodName,
     FrameCode
<1>2. FrameValues \in Seq(Rounds)
  BY SizesAssumption DEF FrameValues, Rounds
<1>. QED  BY <1>1, <1>2 DEF CallNames, CallRounds

\* The rounds an answer inserts are rounds of the client.
LEMMA InsertedType ==
  ASSUME NEW r, NEW v \in Nat
  PROVE  Inserted(r, v) \in Seq(Rounds)
<1>1. /\ Methods \in Rounds /\ VariableTable \in Rounds /\ FieldValues \in Rounds
  BY DEF Rounds
<1>2. /\ [i \in 1 .. v |-> Methods] \in Seq(Rounds)
      /\ [i \in 1 .. v |-> VariableTable] \in Seq(Rounds)
      /\ <<FieldValues>> \in Seq(Rounds)
      /\ <<>> \in Seq(Rounds)
  BY <1>1
<1>. QED  BY <1>2 DEF Inserted

\* Going on with a list of rounds and giving the call up keep the call well-typed.
LEMMA ContinueType ==
  ASSUME CallTypeOK, NEW left \in Seq(Rounds), Continue(left)
  PROVE  CallTypeOK'
  BY SizesAssumption DEF CallTypeOK, Continue

LEMMA GiveUpType ==
  ASSUME CallTypeOK, GiveUp
  PROVE  CallTypeOK'
  BY SizesAssumption DEF CallTypeOK, GiveUp

LEMMA RoundFailsType ==
  ASSUME CallTypeOK, todo # <<>>, RoundFails
  PROVE  CallTypeOK'
<1>1. Tail(todo) \in Seq(Rounds)
  BY DEF CallTypeOK
<1>2. CASE Head(todo).skip
  BY <1>1, <1>2, ContinueType DEF RoundFails
<1>3. CASE ~Head(todo).skip
  BY <1>3, GiveUpType DEF RoundFails
<1>. QED  BY <1>2, <1>3

LEMMA AcceptType ==
  ASSUME CallTypeOK, DebuggerTypeOK, todo # <<>>, NEW v \in Nat, Accept(v)
  PROVE  CallTypeOK' /\ DebuggerTypeOK'
<1>1. /\ Tail(todo) \in Seq(Rounds)
      /\ Inserted(Head(todo), v) \in Seq(Rounds)
  BY InsertedType DEF CallTypeOK
<1>2. Inserted(Head(todo), v) \o Tail(todo) \in Seq(Rounds)
  BY <1>1
<1>3. CallTypeOK'
  BY <1>2, ContinueType, GiveUpType DEF Accept
<1>4. DebuggerTypeOK'
  BY DEF Accept, DebuggerTypeOK
<1>. QED  BY <1>3, <1>4

LEMMA NextTypeType ==
  ASSUME CallTypeOK, todo # <<>>, phase = "await", NextType
  PROVE  CallTypeOK'
<1>1. CASE tries + 1 < TypeCount
  BY <1>1, SizesAssumption DEF NextType, CallTypeOK
<1>2. CASE ~(tries + 1 < TypeCount)
  <2>1. Tail(todo) \in Seq(Rounds)
    BY DEF CallTypeOK
  <2>. QED  BY <1>2, <2>1, ContinueType DEF NextType
<1>. QED  BY <1>1, <1>2

\* What a round reads from a reply is a number.
LEMMA ReadableType ==
  ASSUME NEW r \in Rounds, NEW p \in Packet, IsReply(p), NEW v \in Readable(r, p)
  PROVE  v \in Nat
<1>1. p.val \in Nat
  BY DEF Packet, IsReply
<1>2. 0 .. MaxValue \subseteq Nat
  BY BoundsAssumption
<1>. QED  BY <1>1, <1>2 DEF Readable

\* The outcomes of a command are pairs of an error code and a number.
LEMMA OutcomesType ==
  ASSUME DeviceTypeOK, NEW c \in Command, NEW o \in Outcomes(c)
  PROVE  o[1] \in ErrorCodes /\ o[2] \in Nat
<1>1. 0 .. MaxValue \subseteq Nat
  BY BoundsAssumption
<1>. QED  BY <1>1 DEF Outcomes, ErrorCodes, DeviceTypeOK

LEMMA TakeReplyType ==
  ASSUME TypeOK, TakeReply
  PROVE  TypeOK'
<1>. DEFINE r == Head(todo)
            p == Head(rx)
<1>1. /\ r \in Rounds /\ todo # <<>>
      /\ p \in Packet /\ p.val \in Nat
      /\ Tail(rx) \in Seq(Packet)
  BY DEF TypeOK, CallTypeOK, NetTypeOK, TakeReply, Packet, IsReply
<1>2. CallTypeOK' /\ DebuggerTypeOK'
  <2>1. CASE Accept(p.val)
    BY <1>1, <2>1, AcceptType DEF TypeOK
  <2>2. CASE \E v \in Readable(r, p) : Accept(v)
    BY <1>1, <2>2, AcceptType, ReadableType DEF TypeOK, TakeReply
  <2>3. CASE NextType /\ UNCHANGED dbgVars
    BY <1>1, <2>3, NextTypeType DEF TypeOK, TakeReply, dbgVars, DebuggerTypeOK
  <2>4. CASE RoundFails /\ UNCHANGED dbgVars
    BY <1>1, <2>4, RoundFailsType DEF TypeOK, dbgVars, DebuggerTypeOK
  <2>. QED  BY <2>1, <2>2, <2>3, <2>4 DEF TakeReply
<1>3. NetTypeOK'
  BY <1>1 DEF TypeOK, NetTypeOK, TakeReply, taskVars
<1>4. DeviceTypeOK'
  BY DEF TypeOK, DeviceTypeOK, TakeReply, deviceVars
<1>5. HistoryTypeOK'
  BY DEF TypeOK, HistoryTypeOK, TakeReply
<1>. QED  BY <1>2, <1>3, <1>4, <1>5 DEF TypeOK

LEMMA DeviceAnswersType ==
  ASSUME TypeOK, DeviceAnswers
  PROVE  TypeOK'
<1>. DEFINE c == Head(out)
<1>1. c \in Command /\ Tail(out) \in Seq(Command)
  BY DEF TypeOK, NetTypeOK, DeviceAnswers
<1>2. PICK o \in Outcomes(c) :
        /\ wire' = Append(wire, [type |-> "reply", cmd |-> c.cmd, seq |-> c.seq,
                                 err |-> o[1], val |-> o[2]])
        /\ bps' = IF c.cmd = "breakpoint" /\ o[1] = 0 THEN bps \cup {o[2]} ELSE bps
        /\ steps' = CASE c.cmd = "step" /\ o[1] = 0 -> steps \cup {o[2]}
                      [] c.cmd = "clear_step"       -> steps \ {c.arg}
                      [] OTHER                      -> steps
        /\ nextRequest' = IF c.cmd \in {"breakpoint", "step"} /\ o[1] = 0
                          THEN nextRequest + 1 ELSE nextRequest
        /\ suspended' = (suspended /\ c.cmd # "resume")
  BY DEF DeviceAnswers
<1>3. o[1] \in ErrorCodes /\ o[2] \in Nat
  BY <1>1, OutcomesType DEF TypeOK
<1>4. wire' \in Seq(Packet)
  BY <1>1, <1>2, <1>3 DEF TypeOK, NetTypeOK, Packet, Command
<1>5. NetTypeOK'
  BY <1>1, <1>4 DEF TypeOK, NetTypeOK, DeviceAnswers, taskVars
<1>6. DeviceTypeOK'
  <2>1. steps' \in SUBSET Nat
    BY <1>2, <1>3 DEF TypeOK, DeviceTypeOK
  <2>2. bps' \in SUBSET Nat
    BY <1>2, <1>3 DEF TypeOK, DeviceTypeOK
  <2>. QED  BY <1>2, <2>1, <2>2 DEF TypeOK, DeviceTypeOK, DeviceAnswers
<1>7. CallTypeOK' /\ DebuggerTypeOK' /\ HistoryTypeOK'
  BY DEF TypeOK, CallTypeOK, DebuggerTypeOK, HistoryTypeOK, DeviceAnswers, callVars,
     dbgVars, historyVars
<1>. QED  BY <1>5, <1>6, <1>7 DEF TypeOK

\* The steps of a call that waits, and those of wait_for_package.
LEMMA WaitType ==
  ASSUME TypeOK, WaitForPackage \/ WaitGetsStop \/ WaitGetsOther \/ WaitGetsReply
                 \/ WaitGetsNothing
  PROVE  TypeOK'
<1>. USE DEF TypeOK, taskVars, dbgVars, deviceVars, historyVars, netVars
<1>1. CASE WaitForPackage
  BY <1>1, SizesAssumption DEF WaitForPackage, NetTypeOK, CallTypeOK, DebuggerTypeOK,
     DeviceTypeOK, HistoryTypeOK
<1>2. CASE WaitGetsStop
  <2>1. ClearStep \in Rounds /\ TopFrame \in Rounds
    BY DEF Rounds
  <2>2. CallTypeOK'
    <3>1. PICK left \in {<<ClearStep, TopFrame>>, <<TopFrame>>} : Continue(left)
      BY <1>2 DEF WaitGetsStop
    <3>2. <<ClearStep, TopFrame>> \in Seq(Rounds) /\ <<TopFrame>> \in Seq(Rounds)
      BY <2>1
    <3>. QED  BY <3>1, <3>2, ContinueType
  <2>3. DebuggerTypeOK'
    <3>1. lastStep # {} => (CHOOSE id \in lastStep : TRUE) \in Nat
      BY DEF DebuggerTypeOK
    <3>. QED  BY <1>2, <3>1 DEF WaitGetsStop, DebuggerTypeOK
  <2>4. NetTypeOK' /\ DeviceTypeOK' /\ HistoryTypeOK'
    BY <1>2 DEF WaitGetsStop, NetTypeOK, DeviceTypeOK, HistoryTypeOK
  <2>. QED  BY <2>2, <2>3, <2>4
<1>3. CASE WaitGetsOther
  <2>1. CallTypeOK'
    BY <1>3, GiveUpType DEF WaitGetsOther
  <2>2. NetTypeOK'
    BY <1>3 DEF WaitGetsOther, NetTypeOK
  <2>3. DebuggerTypeOK' /\ DeviceTypeOK' /\ HistoryTypeOK'
    BY <1>3 DEF WaitGetsOther, DebuggerTypeOK, DeviceTypeOK, HistoryTypeOK
  <2>. QED  BY <2>1, <2>2, <2>3
<1>4. CASE WaitGetsReply
  <2>1. CallTypeOK'
    BY <1>4, GiveUpType DEF WaitGetsReply
  <2>2. NetTypeOK'
    BY <1>4 DEF WaitGetsReply, NetTypeOK
  <2>3. DebuggerTypeOK' /\ DeviceTypeOK' /\ HistoryTypeOK'
    BY <1>4 DEF WaitGetsReply, DebuggerTypeOK, DeviceTypeOK, HistoryTypeOK
  <2>. QED  BY <2>1, <2>2, <2>3
<1>5. CASE WaitGetsNothing
  <2>1. CallTypeOK'
    BY <1>5, GiveUpType DEF WaitGetsNothing
  <2>. QED  BY <1>5, <2>1 DEF WaitGetsNothing, NetTypeOK, DebuggerTypeOK, DeviceTypeOK,
              HistoryTypeOK
<1>. QED  BY <1>1, <1>2, <1>3, <1>4, <1>5

\* The steps of a round other than taking a reply.
LEMMA RoundType ==
  ASSUME TypeOK, SendCommand \/ SendFails \/ MethodNotFound \/ TakeEvent \/ RoundTimeout
                 \/ ChannelClosed
  PROVE  TypeOK'
<1>. USE DEF TypeOK, taskVars, dbgVars, deviceVars, historyVars, netVars
<1>0. phase \in {"send", "await"} => /\ todo # <<>>
                                    /\ Head(todo) \in Rounds
                                    /\ Tail(todo) \in Seq(Rounds)
  BY DEF CallTypeOK
<1>1. CASE SendCommand
  <2>1. tx' \in Seq(Command)
    <3>1. [cmd |-> Head(todo).cmd, seq |-> sent + 1,
           arg |-> IF Head(todo).cmd = "clear_step" THEN clearing ELSE 0] \in Command
      BY <1>0, <1>1, RoundsType DEF SendCommand, Command, HistoryTypeOK, DebuggerTypeOK
    <3>. QED  BY <1>1, <3>1 DEF SendCommand, NetTypeOK
  <2>2. NetTypeOK' /\ DeviceTypeOK'
    BY <1>1, <2>1 DEF SendCommand, NetTypeOK, DeviceTypeOK
  <2>3. CallTypeOK'
    BY <1>1 DEF SendCommand, CallTypeOK
  <2>4. DebuggerTypeOK' /\ HistoryTypeOK'
    BY <1>1 DEF SendCommand, DebuggerTypeOK, HistoryTypeOK
  <2>. QED  BY <2>2, <2>3, <2>4
<1>2. CASE SendFails
  <2>1. CallTypeOK'
    BY <1>0, <1>2, RoundFailsType DEF SendFails
  <2>. QED  BY <1>2, <2>1 DEF SendFails, NetTypeOK, DebuggerTypeOK, DeviceTypeOK,
              HistoryTypeOK
<1>3. CASE MethodNotFound
  <2>1. CallTypeOK'
    BY <1>3, GiveUpType DEF MethodNotFound
  <2>. QED  BY <1>3, <2>1 DEF MethodNotFound, NetTypeOK, DebuggerTypeOK, DeviceTypeOK,
              HistoryTypeOK
<1>4. CASE TakeEvent
  <2>1. CallTypeOK'
    BY <1>0, <1>4, RoundFailsType, GiveUpType, ContinueType DEF TakeEvent
  <2>2. /\ rx # <<>> /\ rx' = Tail(rx) /\ swallowed' = swallowed + 1
        /\ UNCHANGED <<tx, out, wire, taskVars, dbgVars, deviceVars, sent, got, givenUp,
                       discarded, stale, stopSeen>>
    BY <1>4 DEF TakeEvent
  <2>3. NetTypeOK'
    BY <2>2 DEF NetTypeOK
  <2>4. DebuggerTypeOK' /\ DeviceTypeOK' /\ HistoryTypeOK'
    BY <2>2 DEF DebuggerTypeOK, DeviceTypeOK, HistoryTypeOK
  <2>. QED  BY <2>1, <2>3, <2>4
<1>5. CASE RoundTimeout
  <2>1. CallTypeOK'
    BY <1>0, <1>5, RoundFailsType DEF RoundTimeout
  <2>. QED  BY <1>5, <2>1 DEF RoundTimeout, NetTypeOK, DebuggerTypeOK, DeviceTypeOK,
              HistoryTypeOK
<1>6. CASE ChannelClosed
  <2>1. CallTypeOK'
    BY <1>0, <1>6, RoundFailsType, ContinueType DEF ChannelClosed
  <2>. QED  BY <1>6, <2>1 DEF ChannelClosed, NetTypeOK, DebuggerTypeOK, DeviceTypeOK,
              HistoryTypeOK
<1>. QED  BY <1>1, <1>2, <1>3, <1>4, <1>5, <1>6

\* The steps of the tasks and of the stream.
LEMMA TasksType ==
  ASSUME TypeOK, Tasks \/ Close \/ PeerGone \/ \E kind \in EventKinds : DeviceEvent(kind)
  PROVE  TypeOK'
<1>. USE DEF TypeOK, taskVars, callVars, dbgVars, deviceVars, historyVars, netVars
<1>1. CASE WriteTask
  <2>1. NetTypeOK'
    BY <1>1 DEF WriteTask, NetTypeOK
  <2>. QED  BY <1>1, <2>1 DEF WriteTask, CallTypeOK, DebuggerTypeOK, DeviceTypeOK,
              HistoryTypeOK
<1>2. CASE WriteToNobody
  <2>1. tx' \in Seq(Command)
    <3>1. CASE tx' = Tail(tx)
      BY <1>2, <3>1 DEF WriteToNobody, NetTypeOK
    <3>2. CASE tx' = <<>>
      BY <3>2, EmptySeq
    <3>. QED  BY <1>2, <3>1, <3>2 DEF WriteToNobody
  <2>2. NetTypeOK'
    BY <1>2, <2>1 DEF WriteToNobody, NetTypeOK
  <2>. QED  BY <1>2, <2>2 DEF WriteToNobody, CallTypeOK, DebuggerTypeOK, DeviceTypeOK,
              HistoryTypeOK
<1>3. CASE ReadTask
  <2>1. NetTypeOK'
    BY <1>3 DEF ReadTask, NetTypeOK
  <2>. QED  BY <1>3, <2>1 DEF ReadTask, CallTypeOK, DebuggerTypeOK, DeviceTypeOK,
              HistoryTypeOK
<1>4. CASE WriterAborted
  <2>1. NetTypeOK'
    BY <1>4, EmptySeq DEF WriterAborted, NetTypeOK
  <2>. QED  BY <1>4, <2>1 DEF WriterAborted, CallTypeOK, DebuggerTypeOK, DeviceTypeOK,
              HistoryTypeOK
<1>5. CASE ReaderAborted
  BY <1>5 DEF ReaderAborted, NetTypeOK, CallTypeOK, DebuggerTypeOK, DeviceTypeOK,
     HistoryTypeOK
<1>6. CASE Close
  BY <1>6 DEF Close, NetTypeOK, CallTypeOK, DebuggerTypeOK, DeviceTypeOK, HistoryTypeOK
<1>7. CASE PeerGone
  <2>1. wire' \in Seq(Packet)
    BY <1>7 DEF PeerGone, NetTypeOK
  <2>2. NetTypeOK'
    BY <1>7, <2>1, EmptySeq DEF PeerGone, NetTypeOK
  <2>. QED  BY <1>7, <2>2 DEF PeerGone, CallTypeOK, DebuggerTypeOK, DeviceTypeOK,
              HistoryTypeOK
<1>8. ASSUME NEW kind \in EventKinds, DeviceEvent(kind)
      PROVE  TypeOK'
  <2>1. wire' \in Seq(Packet)
    BY <1>8 DEF DeviceEvent, NetTypeOK, DeviceTypeOK, Packet
  <2>2. NetTypeOK' /\ DeviceTypeOK'
    BY <1>8, <2>1 DEF DeviceEvent, NetTypeOK, DeviceTypeOK
  <2>. QED  BY <1>8, <2>2 DEF DeviceEvent, CallTypeOK, DebuggerTypeOK, HistoryTypeOK
<1>. QED  BY <1>1, <1>2, <1>3, <1>4, <1>5, <1>6, <1>7, <1>8 DEF Tasks

\* The debugger's channels, call, request ids and the device's state keep their
\* types whatever is sent, answered, lost or closed.
THEOREM TypeCorrect == Spec => []TypeOK
<1>1. Init => TypeOK
  <2> SUFFICES ASSUME Init
               PROVE  TypeOK
    OBVIOUS
  <2>1. NewClient \in Seq(Rounds) /\ NewClient # <<>>
    BY DEF NewClient, Rounds
  <2>2. "new" \in CallNames
    BY DEF CallNames, CallRounds
  <2>3. CallTypeOK
    BY <2>1, <2>2, SizesAssumption DEF Init, CallTypeOK
  <2>4. NetTypeOK /\ DebuggerTypeOK /\ DeviceTypeOK /\ HistoryTypeOK
    BY EmptySeq DEF Init, NetTypeOK, DebuggerTypeOK, DeviceTypeOK, HistoryTypeOK
  <2>. QED  BY <2>3, <2>4 DEF TypeOK
<1>2. TypeOK /\ [Next]_vars => TypeOK'
  <2> SUFFICES ASSUME TypeOK, [Next]_vars
               PROVE  TypeOK'
    OBVIOUS
  <2>1. ASSUME NEW name \in Calls, StartCall(name)
        PROVE  TypeOK'
    <3>1. name \in CallNames /\ CallRounds[name] \in Seq(Rounds)
      BY CallRoundsType, BoundsAssumption
    <3>. QED  BY <2>1, <3>1, SizesAssumption
              DEF TypeOK, StartCall, NetTypeOK, CallTypeOK, DebuggerTypeOK, DeviceTypeOK,
                  HistoryTypeOK, taskVars, dbgVars, deviceVars, historyVars, netVars
  <2>2. CASE UNCHANGED vars
    BY <2>2 DEF vars, taskVars, callVars, dbgVars, deviceVars, historyVars, netVars,
       TypeOK, NetTypeOK, CallTypeOK, DebuggerTypeOK, DeviceTypeOK, HistoryTypeOK
  <2>. QED  BY <2>1, <2>2, TakeReplyType, DeviceAnswersType, WaitType, RoundType,
            TasksType DEF Next, Caller
<1>. QED  BY <1>1, <1>2, PTL DEF Spec

-----------------------------------------------------------------------------
(* The read task, the channel and the TCP stream implement the ordered     *)
(* packet stream of PacketStream: what the caller has not taken yet is     *)
(* rx \o wire, and the read task only moves the seam between the two.      *)

\* How each change of one half changes the whole.
LEMMA SeamMoves ==
  ASSUME NEW q \in Seq(Packet), NEW w \in Seq(Packet), w # <<>>
  PROVE  Append(q, Head(w)) \o Tail(w) = q \o w
  OBVIOUS

LEMMA FrontTaken ==
  ASSUME NEW q \in Seq(Packet), NEW w \in Seq(Packet), q # <<>>
  PROVE  q \o w # <<>> /\ Tail(q) \o w = Tail(q \o w)
  OBVIOUS

LEMMA BackAppended ==
  ASSUME NEW q \in Seq(Packet), NEW w \in Seq(Packet), NEW p \in Packet
  PROVE  /\ q \o Append(w, p) = Append(q \o w, p)
         /\ q \o Append(w, p) # <<>>
         /\ (q \o Append(w, p))[Len(q \o Append(w, p))] = p
<1>1. q \o Append(w, p) = Append(q \o w, p)
  OBVIOUS
<1>2. q \o w \in Seq(Packet)
  OBVIOUS
<1>. DEFINE s == q \o w
<1>. HIDE DEF s
<1>3. Append(s, p) # <<>> /\ Append(s, p)[Len(Append(s, p))] = p
  BY <1>2, AppendProperties DEF s
<1>. QED  BY <1>1, <1>3 DEF s

LEMMA BackCut ==
  ASSUME NEW q \in Seq(Packet), NEW w \in Seq(Packet), NEW n \in 0 .. Len(w)
  PROVE  /\ Len(q) + n \in 0 .. Len(q \o w)
         /\ q \o SubSeq(w, 1, n) = SubSeq(q \o w, 1, Len(q) + n)
  OBVIOUS

-----------------------------------------------------------------------------
LEMMA StreamTypes ==
  ASSUME TypeOK
  PROVE  rx \in Seq(Packet) /\ wire \in Seq(Packet)
  BY DEF TypeOK, NetTypeOK

\* What is sent by the device goes to the back of the stream.
LEMMA EmitStep ==
  ASSUME TypeOK, NEW p \in Packet, wire' = Append(wire, p), link, UNCHANGED <<rx, link>>
  PROVE  Stream!Emit
<1>1. rx' \o wire' = Append(rx \o wire, p)
      /\ rx' \o wire' # <<>>
      /\ (rx' \o wire')[Len(rx' \o wire')] = p
  BY StreamTypes, BackAppended
<1>. QED  BY <1>1 DEF Stream!Emit

\* The steps that put a packet into the stream.
LEMMA DeviceSteps ==
  ASSUME TypeOK, DeviceAnswers \/ \E kind \in EventKinds : DeviceEvent(kind)
  PROVE  Stream!Emit
<1>1. CASE DeviceAnswers
  <2>. DEFINE c == Head(out)
  <2>1. PICK o \in Outcomes(c) :
          wire' = Append(wire, [type |-> "reply", cmd |-> c.cmd, seq |-> c.seq,
                                err |-> o[1], val |-> o[2]])
    BY <1>1 DEF DeviceAnswers
  <2>2. c \in Command
    BY <1>1 DEF TypeOK, NetTypeOK, DeviceAnswers
  <2>3. o[1] \in ErrorCodes /\ o[2] \in Nat
    BY <2>2, OutcomesType DEF TypeOK
  <2>4. [type |-> "reply", cmd |-> c.cmd, seq |-> c.seq, err |-> o[1], val |-> o[2]]
          \in Packet
    BY <2>2, <2>3 DEF Packet, Command
  <2>. QED  BY <1>1, <2>1, <2>4, EmitStep DEF DeviceAnswers, taskVars
<1>2. ASSUME NEW kind \in EventKinds, DeviceEvent(kind)
      PROVE  Stream!Emit
  <2>1. [type |-> "event", cmd |-> kind, seq |-> answered, err |-> 0, val |-> 0]
          \in Packet
    BY DEF Packet, TypeOK, DeviceTypeOK
  <2>. QED  BY <1>2, <2>1, EmitStep DEF DeviceEvent, taskVars
<1>. QED  BY <1>1, <1>2

\* The steps that take one out.
LEMMA TakeSteps ==
  ASSUME TypeOK, TakeReply \/ TakeEvent \/ WaitGetsStop \/ WaitGetsOther \/ WaitGetsReply
  PROVE  Stream!Take
<1>1. rx # <<>> /\ rx' = Tail(rx) /\ UNCHANGED <<wire, link>>
  BY DEF TakeReply, TakeEvent, WaitGetsStop, WaitGetsOther, WaitGetsReply, taskVars
<1>2. rx \o wire # <<>> /\ rx' \o wire' = Tail(rx \o wire)
  BY <1>1, StreamTypes, FrontTaken
<1>. QED  BY <1>1, <1>2 DEF Stream!Take

LEMMA CutStep ==
  ASSUME TypeOK, PeerGone
  PROVE  Stream!Cut
<1>1. PICK n \in 0 .. Len(wire) : wire' = SubSeq(wire, 1, n)
  BY DEF PeerGone
<1>2. rx' = rx /\ link /\ link' = FALSE
  BY DEF PeerGone
<1>3. /\ Len(rx) + n \in 0 .. Len(rx \o wire)
      /\ rx' \o wire' = SubSeq(rx \o wire, 1, Len(rx) + n)
  BY <1>1, <1>2, StreamTypes, BackCut
<1>. QED  BY <1>2, <1>3 DEF Stream!Cut

\* For every number of packets, events, timeouts and calls, what the caller takes is
\* what the device wrote, in that order, up to where the peer was lost.
THEOREM StreamImplemented == Spec => StreamSpec
<1>1. Init => Stream!Init
  BY DEF Init, Stream!Init
<1>2. TypeOK /\ [Next]_vars => [Stream!Next]_<<rx \o wire, link>>
  <2> SUFFICES ASSUME TypeOK, [Next]_vars
               PROVE  Stream!Next \/ UNCHANGED <<rx \o wire, link>>
    OBVIOUS
  <2>1. CASE \/ \E name \in Calls : StartCall(name)
             \/ WaitForPackage \/ Close \/ MethodNotFound \/ SendCommand \/ SendFails
             \/ ChannelClosed \/ RoundTimeout \/ WaitGetsNothing \/ WriteTask
             \/ WriteToNobody \/ WriterAborted \/ ReaderAborted \/ UNCHANGED vars
    <3>1. UNCHANGED <<rx, wire, link>>
      BY <2>1 DEF StartCall, WaitForPackage, Close, MethodNotFound, SendCommand, SendFails,
         ChannelClosed, RoundTimeout, WaitGetsNothing, WriteTask, WriteToNobody,
         WriterAborted, ReaderAborted, vars, netVars, taskVars
    <3>. QED  BY <3>1
  <2>2. CASE ReadTask
    <3>1. rx' \o wire' = rx \o wire /\ link' = link
      BY <2>2, StreamTypes, SeamMoves DEF ReadTask, taskVars
    <3>. QED  BY <3>1
  <2>3. CASE TakeReply \/ TakeEvent \/ WaitGetsStop \/ WaitGetsOther \/ WaitGetsReply
    BY <2>3, TakeSteps DEF Stream!Next
  <2>4. CASE DeviceAnswers \/ \E kind \in EventKinds : DeviceEvent(kind)
    BY <2>4, DeviceSteps DEF Stream!Next
  <2>5. CASE PeerGone
    BY <2>5, CutStep DEF Stream!Next
  <2>. QED  BY <2>1, <2>2, <2>3, <2>4, <2>5 DEF Next, Caller, Tasks
<1>. QED  BY <1>1, <1>2, TypeCorrect, PTL DEF Spec, StreamSpec, Stream!Spec

-----------------------------------------------------------------------------
(* A stop on its way stays in the stream until wait_for_package takes it.  *)

Holds(s) == \E i \in 1 .. Len(s) : IsStop(s[i])

\* Taking a packet that is no stop leaves every stop in the stream.
LEMMA StopKept ==
  ASSUME NEW s \in Seq(Packet), s # <<>>, ~IsStop(Head(s)), Holds(s)
  PROVE  Holds(Tail(s))
<1>1. PICK i \in 1 .. Len(s) : IsStop(s[i])
  BY DEF Holds
<1>2. Head(s) = s[1] /\ Len(Tail(s)) = Len(s) - 1 /\ Len(s) \in Nat
      /\ \A k \in 1 .. Len(s) - 1 : Tail(s)[k] = s[k + 1]
  OBVIOUS
<1>3. i - 1 \in 1 .. Len(s) - 1 /\ Tail(s)[i - 1] = s[i]
  <2>1. i # 1
    BY <1>1, <1>2
  <2>2. i - 1 \in 1 .. Len(s) - 1 /\ (i - 1) + 1 = i
    BY <1>2, <2>1
  <2>. QED  BY <1>2, <2>2
<1>. QED  BY <1>1, <1>2, <1>3 DEF Holds

\* A packet that is added hides no stop, and is there itself.
LEMMA StopAdded ==
  ASSUME NEW s \in Seq(Packet), NEW p \in Packet
  PROVE  Holds(s) \/ IsStop(p) => Holds(Append(s, p))
<1>. DEFINE a == Append(s, p)
<1>1. /\ Len(s) \in Nat /\ Len(a) = Len(s) + 1 /\ a[Len(s) + 1] = p
      /\ \A i \in 1 .. Len(s) : a[i] = s[i]
  OBVIOUS
<1>. HIDE DEF a
<1>2. Holds(s) \/ IsStop(p) => Holds(a)
  BY <1>1 DEF Holds
<1>. QED  BY <1>2 DEF a

\* The steps that take a packet from the stream.
LEMMA TakenStop ==
  ASSUME TypeOK, UnseenStopIsUnderway,
         TakeReply \/ TakeEvent \/ WaitGetsStop \/ WaitGetsOther \/ WaitGetsReply
  PROVE  UnseenStopIsUnderway'
<1>1. rx # <<>> /\ rx' = Tail(rx) /\ UNCHANGED <<wire, link, suspended>>
  BY DEF TakeReply, TakeEvent, WaitGetsStop, WaitGetsOther, WaitGetsReply, taskVars, deviceVars
<1>2. CASE WaitGetsStop
  BY <1>2 DEF WaitGetsStop, UnseenStopIsUnderway
<1>3. CASE TakeEvent
  BY <1>3 DEF TakeEvent, UnseenStopIsUnderway, TypeOK, HistoryTypeOK
<1>4. CASE TakeReply \/ WaitGetsOther \/ WaitGetsReply
  <2>1. ~IsStop(Head(rx)) /\ UNCHANGED <<stopSeen, swallowed>>
    BY <1>4 DEF TakeReply, WaitGetsOther, WaitGetsReply, IsStop, IsReply, historyVars
  <2>2. /\ rx \o wire \in Seq(Packet) /\ rx \o wire # <<>>
        /\ rx' \o wire' = Tail(rx \o wire) /\ Head(rx \o wire) = Head(rx)
    BY <1>1, StreamTypes, FrontTaken
  <2>3. Holds(rx \o wire) => Holds(rx' \o wire')
    BY <2>1, <2>2, StopKept
  <2>. QED  BY <1>1, <2>1, <2>3 DEF UnseenStopIsUnderway, Holds
<1>. QED  BY <1>2, <1>3, <1>4

\* The steps that add one: a stop is reported only as a packet.
LEMMA SentStop ==
  ASSUME TypeOK, UnseenStopIsUnderway, DeviceAnswers \/ \E kind \in EventKinds : DeviceEvent(kind)
  PROVE  UnseenStopIsUnderway'
<1>1. CASE DeviceAnswers
  <2>1. /\ suspended' => suspended
        /\ UNCHANGED <<rx, link, stopSeen, swallowed>>
    BY <1>1 DEF DeviceAnswers, taskVars, historyVars
  <2>2. PICK p \in Packet : wire' = Append(wire, p)
    <3>1. PICK p : wire' = Append(wire, p)
      BY <1>1 DEF DeviceAnswers
    <3>2. wire \in Seq(Packet) /\ wire' \in Seq(Packet)
      BY <1>1, DeviceAnswersType DEF TypeOK, NetTypeOK
    <3>3. wire'[Len(wire) + 1] = p /\ Len(wire) + 1 \in 1 .. Len(wire')
      BY <3>1, <3>2
    <3>4. p \in Packet
      BY <3>2, <3>3
    <3>. QED  BY <3>1, <3>4
  <2>3. rx' \o wire' = Append(rx \o wire, p) /\ rx \o wire \in Seq(Packet)
    BY <2>1, <2>2, StreamTypes, BackAppended
  <2>4. Holds(rx \o wire) => Holds(rx' \o wire')
    BY <2>3, StopAdded
  <2>. QED  BY <2>1, <2>4 DEF UnseenStopIsUnderway, Holds
<1>2. ASSUME NEW kind \in EventKinds, DeviceEvent(kind)
      PROVE  UnseenStopIsUnderway'
  <2>. DEFINE p == [type |-> "event", cmd |-> kind, seq |-> answered, err |-> 0, val |-> 0]
  <2>1. /\ wire' = Append(wire, p) /\ suspended' = (suspended \/ kind \in StopKinds)
        /\ stopSeen' = (stopSeen /\ kind \notin StopKinds)
        /\ UNCHANGED <<rx, link, swallowed>>
    BY <1>2 DEF DeviceEvent, taskVars
  <2>2. p \in Packet /\ (IsStop(p) <=> kind \in StopKinds)
    BY DEF Packet, IsStop, TypeOK, DeviceTypeOK
  <2>. HIDE DEF p
  <2>3. rx' \o wire' = Append(rx \o wire, p) /\ rx \o wire \in Seq(Packet)
    BY <2>1, <2>2, StreamTypes, BackAppended
  <2>4. Holds(rx \o wire) \/ IsStop(p) => Holds(rx' \o wire')
    BY <2>2, <2>3, StopAdded
  <2>5. CASE kind \in StopKinds
    BY <2>2, <2>4, <2>5 DEF UnseenStopIsUnderway, Holds
  <2>6. CASE kind \notin StopKinds
    BY <2>1, <2>4, <2>6 DEF UnseenStopIsUnderway, Holds
  <2>. QED  BY <2>5, <2>6
<1>. QED  BY <1>1, <1>2

\* A stop the device reports reaches wait_for_package unless a round swallows it: for
\* any number of calls, answers and events, whatever gives up or is thrown away.
THEOREM UnseenStopCorrect == Spec => []UnseenStopIsUnderway
<1>1. Init => UnseenStopIsUnderway
  BY DEF Init, UnseenStopIsUnderway
<1>2. TypeOK /\ UnseenStopIsUnderway /\ [Next]_vars => UnseenStopIsUnderway'
  <2> SUFFICES ASSUME TypeOK, UnseenStopIsUnderway, [Next]_vars
               PROVE  UnseenStopIsUnderway'
    OBVIOUS
  <2>1. CASE \/ \E name \in Calls : StartCall(name)
             \/ WaitForPackage \/ Close \/ MethodNotFound \/ SendCommand \/ SendFails
             \/ ChannelClosed \/ RoundTimeout \/ WaitGetsNothing \/ WriteTask
             \/ WriteToNobody \/ WriterAborted \/ ReaderAborted \/ UNCHANGED vars
    <3>1. UNCHANGED <<rx, wire, link, suspended, stopSeen, swallowed>>
      BY <2>1 DEF StartCall, WaitForPackage, Close, MethodNotFound, SendCommand, SendFails,
         ChannelClosed, RoundTimeout, WaitGetsNothing, WriteTask, WriteToNobody,
         WriterAborted, ReaderAborted, vars, netVars, taskVars, deviceVars, historyVars
    <3>. QED  BY <3>1 DEF UnseenStopIsUnderway
  <2>2. CASE ReadTask
    <3>1. rx' \o wire' = rx \o wire /\ UNCHANGED <<link, suspended, stopSeen, swallowed>>
      BY <2>2, StreamTypes, SeamMoves DEF ReadTask, taskVars, deviceVars, historyVars
    <3>. QED  BY <3>1 DEF UnseenStopIsUnderway
  <2>3. CASE TakeReply \/ TakeEvent \/ WaitGetsStop \/ WaitGetsOther \/ WaitGetsReply
    BY <2>3, TakenStop
  <2>4. CASE DeviceAnswers \/ \E kind \in EventKinds : DeviceEvent(kind)
    BY <2>4, SentStop
  <2>5. CASE PeerGone
    BY <2>5 DEF PeerGone, UnseenStopIsUnderway
  <2>. QED  BY <2>1, <2>2, <2>3, <2>4, <2>5 DEF Next, Caller, Tasks
<1>. QED  BY <1>1, <1>2, TypeCorrect, PTL DEF Spec

-----------------------------------------------------------------------------
(* The order of replies: which reply the next round takes.  The argument   *)
(* is by the inductive invariant TypeOK /\ OrderInv; a queue of packets    *)
(* changes in three ways only, a packet is appended, the first one taken,  *)
(* or the queue cut off, and the first three lemmas say what each does to  *)
(* the numbering.                                                          *)
LEMMA LastSeqType ==
  ASSUME NEW b \in Nat, NEW q \in Seq(Packet)
  PROVE  LastSeq(b, q) \in Nat
<1>1. q # <<>> => Len(q) \in 1 .. Len(q) /\ q[Len(q)] \in Packet
  OBVIOUS
<1>. QED  BY <1>1 DEF LastSeq, Packet

LEMMA ChainTail ==
  ASSUME NEW b \in Nat, NEW q \in Seq(Packet), q # <<>>, Chained(b, q)
  PROVE  /\ Head(q).seq = b + Increment(Head(q))
         /\ Chained(Head(q).seq, Tail(q))
         /\ LastSeq(Head(q).seq, Tail(q)) = LastSeq(b, q)
<1>1. /\ Len(q) \in Nat \ {0}
      /\ Head(q) = q[1]
      /\ Len(Tail(q)) = Len(q) - 1
      /\ \A i \in 1 .. Len(q) - 1 : Tail(q)[i] = q[i + 1]
  OBVIOUS
<1>2. Head(q).seq = b + Increment(Head(q))
  BY <1>1 DEF Chained, Before
<1>3. ASSUME NEW i \in 1 .. Len(q) - 1
      PROVE  Tail(q)[i].seq = Before(Head(q).seq, Tail(q), i) + Increment(Tail(q)[i])
  <2>1. q[i + 1].seq = q[i].seq + Increment(q[i + 1])
    BY <1>1 DEF Chained, Before
  <2>2. Before(Head(q).seq, Tail(q), i) = q[i].seq
    <3>1. CASE i = 1
      BY <1>1, <3>1 DEF Before
    <3>2. CASE i # 1
      <4>1. i - 1 \in 1 .. Len(q) - 1
        BY <1>1, <3>2
      <4>. QED  BY <1>1, <3>2, <4>1 DEF Before
    <3>. QED  BY <3>1, <3>2
  <2>. QED  BY <1>1, <2>1, <2>2
<1>4. Chained(Head(q).seq, Tail(q))
  BY <1>1, <1>3 DEF Chained
<1>5. LastSeq(Head(q).seq, Tail(q)) = LastSeq(b, q)
  <2>1. CASE Len(q) = 1
    <3>1. Tail(q) = <<>>
      <4>1. Tail(q) \in Seq(Packet) /\ Len(Tail(q)) = 0
        BY <1>1, <2>1
      <4>. QED  BY <4>1, EmptySeq, Zenon
    <3>. QED  BY <1>1, <2>1, <3>1 DEF LastSeq
  <2>2. CASE Len(q) # 1
    <3>1. Tail(q) # <<>> /\ Len(q) - 1 \in 1 .. Len(q) - 1
      BY <1>1, <2>2
    <3>. QED  BY <1>1, <3>1 DEF LastSeq
  <2>. QED  BY <2>1, <2>2
<1>. QED  BY <1>2, <1>4, <1>5

LEMMA ChainAppend ==
  ASSUME NEW b \in Nat, NEW q \in Seq(Packet), NEW p \in Packet, Chained(b, q),
         p.seq = LastSeq(b, q) + Increment(p)
  PROVE  Chained(b, Append(q, p)) /\ LastSeq(b, Append(q, p)) = p.seq
<1>. DEFINE a == Append(q, p)
<1>1. /\ Len(q) \in Nat /\ Len(a) = Len(q) + 1
      /\ a[Len(q) + 1] = p
      /\ \A i \in 1 .. Len(q) : a[i] = q[i]
      /\ a # <<>>
  OBVIOUS
<1>. HIDE DEF a
<1>2. ASSUME NEW i \in 1 .. Len(q) + 1
      PROVE  a[i].seq = Before(b, a, i) + Increment(a[i])
  <2>1. CASE i = Len(q) + 1
    <3>1. CASE q = <<>>
      BY <1>1, <2>1, <3>1 DEF LastSeq, Before
    <3>2. CASE q # <<>>
      <4>1. Len(q) \in 1 .. Len(q)
        BY <1>1, <3>2
      <4>. QED  BY <1>1, <2>1, <3>2, <4>1 DEF LastSeq, Before
    <3>. QED  BY <3>1, <3>2
  <2>2. CASE i # Len(q) + 1
    <3>1. i \in 1 .. Len(q) /\ (i # 1 => i - 1 \in 1 .. Len(q))
      BY <1>1, <2>2
    <3>. QED  BY <1>1, <3>1 DEF Chained, Before
  <2>. QED  BY <2>1, <2>2
<1>3. Chained(b, a)
  BY <1>1, <1>2 DEF Chained
<1>4. LastSeq(b, a) = p.seq
  BY <1>1 DEF LastSeq
<1>. QED  BY <1>3, <1>4 DEF a

LEMMA ChainPrefix ==
  ASSUME NEW b \in Nat, NEW q \in Seq(Packet), NEW n \in 0 .. Len(q), Chained(b, q)
  PROVE  Chained(b, SubSeq(q, 1, n))
<1>. DEFINE s == SubSeq(q, 1, n)
<1>1. Len(s) = n /\ n \in Nat /\ \A i \in 1 .. n : s[i] = q[i]
  OBVIOUS
<1>. HIDE DEF s
<1>2. ASSUME NEW i \in 1 .. n
      PROVE  s[i].seq = Before(b, s, i) + Increment(s[i])
  <2>1. i \in 1 .. Len(q) /\ (i # 1 => i - 1 \in 1 .. n)
    OBVIOUS
  <2>. QED  BY <1>1, <2>1 DEF Chained, Before
<1>. QED  BY <1>1, <1>2 DEF Chained, s

LEMMA UpToTail ==
  ASSUME NEW n \in Nat, NEW q \in Seq(Packet), q # <<>>, UpTo(n, q)
  PROVE  UpTo(n, Tail(q)) /\ Head(q).seq <= n
<1>1. /\ Len(q) \in Nat \ {0} /\ Head(q) = q[1] /\ Len(Tail(q)) = Len(q) - 1
      /\ \A i \in 1 .. Len(q) - 1 : Tail(q)[i] = q[i + 1]
  OBVIOUS
<1>. QED  BY <1>1 DEF UpTo

LEMMA UpToAppend ==
  ASSUME NEW n \in Nat, NEW q \in Seq(Packet), NEW p \in Packet, UpTo(n, q), p.seq <= n
  PROVE  UpTo(n, Append(q, p))
<1>. DEFINE a == Append(q, p)
<1>1. /\ Len(q) \in Nat /\ Len(a) = Len(q) + 1 /\ a[Len(q) + 1] = p
      /\ \A i \in 1 .. Len(q) : a[i] = q[i]
  OBVIOUS
<1>. HIDE DEF a
<1>2. UpTo(n, a)
  BY <1>1 DEF UpTo
<1>. QED  BY <1>2 DEF a

LEMMA UpToMore ==
  ASSUME NEW n \in Nat, NEW q \in Seq(Packet), UpTo(n, q)
  PROVE  UpTo(n + 1, q)
<1>1. \A i \in 1 .. Len(q) : q[i].seq \in Nat
  BY DEF Packet
<1>. QED  BY <1>1 DEF UpTo

-----------------------------------------------------------------------------
(* The steps.                                                              *)

\* No step but SendCommand leaves a call awaiting.
LEMMA RoundOver ==
  ASSUME NEW left, NEW v,
         Continue(left) \/ GiveUp \/ RoundFails \/ Accept(v) \/ NextType
  PROVE  phase' # "await"
  BY DEF Continue, GiveUp, RoundFails, Accept, NextType

\* Whoever takes the first packet leaves the rest in order.
LEMMA TakeKeepsOrder ==
  ASSUME TypeOK, AnswersInOrder, CommandsInOrder, rx # <<>>, rx' = Tail(rx),
         got' = got + Increment(Head(rx)),
         UNCHANGED <<tx, out, wire, link, writer, answered, sent>>
  PROVE  AnswersInOrder' /\ CommandsInOrder' /\ Head(rx).seq <= sent
<1>1. /\ rx \in Seq(Packet) /\ got \in Nat /\ answered \in Nat /\ Len(out) \in Nat
      /\ sent \in Nat /\ Head(rx) \in Packet /\ Head(rx).seq \in Nat
  BY DEF TypeOK, NetTypeOK, HistoryTypeOK, DeviceTypeOK, Packet
<1>2. got' = Head(rx).seq
  BY <1>1, ChainTail DEF AnswersInOrder
<1>3. /\ Chained(got', rx')
      /\ LastSeq(got', rx') = LastSeq(got, rx)
  BY <1>1, <1>2, ChainTail DEF AnswersInOrder
<1>4. UpTo(answered, rx') /\ Head(rx).seq <= answered
  BY <1>1, UpToTail DEF AnswersInOrder
<1>5. AnswersInOrder'
  BY <1>3, <1>4 DEF AnswersInOrder
<1>. QED  BY <1>1, <1>4, <1>5 DEF CommandsInOrder

\* A round that takes a packet: a reply pays for it, an event leaves a debt.
LEMMA RoundTakes ==
  ASSUME TypeOK, OrderInv, TakeReply \/ TakeEvent
  PROVE  OrderInv'
<1>1. /\ got' = got + Increment(Head(rx))
      /\ rx # <<>> /\ rx' = Tail(rx)
      /\ UNCHANGED <<tx, out, wire, link, writer, answered, sent>>
  BY DEF TakeReply, TakeEvent, Increment, taskVars, deviceVars, TypeOK, HistoryTypeOK
<1>2. AnswersInOrder' /\ CommandsInOrder'
  BY <1>1, TakeKeepsOrder DEF OrderInv
<1>3. phase' # "await"
  BY RoundOver DEF TakeReply, TakeEvent
<1>4. OwedAccount'
  <2>1. CASE TakeReply
    BY <1>3, <2>1 DEF TakeReply, OrderInv, OwedAccount, Owed, TypeOK, HistoryTypeOK
  <2>2. CASE TakeEvent
    BY <1>3, <2>2 DEF TakeEvent, OrderInv, OwedAccount, Owed, TypeOK, HistoryTypeOK
  <2>. QED  BY <2>1, <2>2
<1>. QED  BY <1>2, <1>4 DEF OrderInv

\* wait_for_package takes a packet no round awaits; a reply there was owed.
LEMMA WaitTakes ==
  ASSUME TypeOK, OrderInv, WaitGetsStop \/ WaitGetsOther \/ WaitGetsReply
  PROVE  OrderInv'
<1>1. /\ got' = got + Increment(Head(rx))
      /\ rx # <<>> /\ rx' = Tail(rx)
      /\ UNCHANGED <<tx, out, wire, link, writer, answered, sent>>
  BY DEF WaitGetsStop, WaitGetsOther, WaitGetsReply, Increment, IsStop, IsReply, taskVars,
     deviceVars, historyVars, TypeOK, HistoryTypeOK
<1>2. AnswersInOrder' /\ CommandsInOrder' /\ Head(rx).seq <= sent
  BY <1>1, TakeKeepsOrder DEF OrderInv
<1>3. phase = "event" /\ phase' # "await"
  BY DEF WaitGetsStop, WaitGetsOther, WaitGetsReply, Continue, GiveUp
<1>4. Head(rx).seq = got + Increment(Head(rx))
  BY <1>1, ChainTail DEF TypeOK, NetTypeOK, HistoryTypeOK, OrderInv, AnswersInOrder
<1>5. OwedAccount'
  <2>1. CASE WaitGetsReply
    BY <1>2, <1>3, <1>4, <2>1
    DEF WaitGetsReply, Increment, OrderInv, OwedAccount, Owed, TypeOK, HistoryTypeOK
  <2>2. CASE WaitGetsStop \/ WaitGetsOther
    BY <1>3, <2>2
    DEF WaitGetsStop, WaitGetsOther, historyVars, OrderInv, OwedAccount, Owed
  <2>. QED  BY <2>1, <2>2
<1>. QED  BY <1>2, <1>5 DEF OrderInv

\* A round that gives up leaves its answer owed.
LEMMA RoundGivesUp ==
  ASSUME TypeOK, OrderInv, RoundTimeout \/ ChannelClosed
  PROVE  OrderInv'
<1>1. /\ givenUp' = givenUp + 1 /\ phase = "await"
      /\ UNCHANGED <<tx, out, wire, rx, link, writer, answered, sent, got, swallowed,
                     discarded>>
  BY DEF RoundTimeout, ChannelClosed, netVars, taskVars, deviceVars
<1>2. phase' # "await"
  BY RoundOver DEF RoundTimeout, ChannelClosed
<1>3. OwedAccount'
  BY <1>1, <1>2 DEF OrderInv, OwedAccount, Owed, TypeOK, HistoryTypeOK
<1>4. AnswersInOrder' /\ CommandsInOrder'
  BY <1>1 DEF OrderInv, AnswersInOrder, CommandsInOrder
<1>. QED  BY <1>3, <1>4 DEF OrderInv

\* Steps that touch neither the queues nor the account.
LEMMA QuietSteps ==
  ASSUME OrderInv, (phase' = "await") <=> (phase = "await"),
         UNCHANGED <<tx, out, wire, rx, link, writer, answered, sent, got, givenUp,
                     swallowed, discarded>>
  PROVE  OrderInv'
  BY DEF OrderInv, AnswersInOrder, CommandsInOrder, OwedAccount, Owed

LEMMA SendKeepsOrder ==
  ASSUME TypeOK, OrderInv, SendCommand
  PROVE  OrderInv'
<1>1. /\ sent' = sent + 1 /\ phase = "send" /\ phase' = "await"
      /\ UNCHANGED <<out, wire, rx, link, writer, answered, got, givenUp, swallowed,
                     discarded>>
  BY DEF SendCommand, taskVars, deviceVars
<1>2. AnswersInOrder'
  BY <1>1 DEF OrderInv, AnswersInOrder
<1>3. OwedAccount'
  BY <1>1 DEF OrderInv, OwedAccount, Owed, TypeOK, HistoryTypeOK
<1>4. CommandsInOrder'
  <2>1. PICK c : c.seq = sent + 1 /\ tx' = Append(tx, c)
    BY DEF SendCommand
  <2>2. /\ tx \in Seq(Command) /\ Len(tx) \in Nat /\ Len(out) \in Nat
        /\ answered \in Nat /\ sent \in Nat
    BY DEF TypeOK, NetTypeOK, DeviceTypeOK, HistoryTypeOK
  <2>3. /\ Len(tx') = Len(tx) + 1 /\ tx'[Len(tx) + 1] = c
        /\ \A i \in 1 .. Len(tx) : tx'[i] = tx[i]
    BY <2>1, <2>2
  <2>4. ASSUME link, writer, NEW i \in 1 .. Len(tx) + 1
        PROVE  tx'[i].seq = answered + Len(out) + i
    <3>1. CASE i = Len(tx) + 1
      BY <2>1, <2>2, <2>3, <2>4, <3>1 DEF OrderInv, CommandsInOrder
    <3>2. CASE i # Len(tx) + 1
      <4>1. i \in 1 .. Len(tx)
        BY <2>2, <3>2
      <4>. QED  BY <2>3, <2>4, <4>1 DEF OrderInv, CommandsInOrder
    <3>. QED  BY <3>1, <3>2
  <2>5. answered' + Len(out') <= sent'
    BY <1>1, <2>2 DEF OrderInv, CommandsInOrder
  <2>6. link /\ writer => sent' = answered + Len(out) + Len(tx')
    BY <1>1, <2>2, <2>3 DEF OrderInv, CommandsInOrder
  <2>. QED  BY <1>1, <2>3, <2>4, <2>5, <2>6 DEF OrderInv, CommandsInOrder
<1>. QED  BY <1>2, <1>3, <1>4 DEF OrderInv

LEMMA WriteKeepsOrder ==
  ASSUME TypeOK, OrderInv, WriteTask
  PROVE  OrderInv'
<1>1. /\ writer /\ link /\ tx # <<>>
      /\ out' = Append(out, Head(tx)) /\ tx' = Tail(tx)
      /\ UNCHANGED <<wire, rx, link, writer, answered, sent, got, phase, givenUp,
                     swallowed, discarded>>
  BY DEF WriteTask, taskVars, callVars, deviceVars, historyVars
<1>2. /\ tx \in Seq(Command) /\ out \in Seq(Command) /\ Head(tx) \in Command
      /\ Len(tx) \in Nat \ {0} /\ Len(out) \in Nat /\ answered \in Nat /\ sent \in Nat
  BY <1>1 DEF TypeOK, NetTypeOK, DeviceTypeOK, HistoryTypeOK
<1>3. /\ Head(tx) = tx[1] /\ Len(tx') = Len(tx) - 1
      /\ \A i \in 1 .. Len(tx) - 1 : tx'[i] = tx[i + 1]
  BY <1>1, <1>2
<1>4. /\ Len(out') = Len(out) + 1 /\ out'[Len(out) + 1] = Head(tx)
      /\ \A i \in 1 .. Len(out) : out'[i] = out[i]
  BY <1>1, <1>2
<1>5. ASSUME NEW i \in 1 .. Len(out) + 1
      PROVE  out'[i].seq = answered + i
  <2>1. CASE i = Len(out) + 1
    <3>1. tx[1].seq = answered + Len(out) + 1
      BY <1>1, <1>2 DEF OrderInv, CommandsInOrder
    <3>. QED  BY <1>2, <1>3, <1>4, <2>1, <3>1
  <2>2. CASE i # Len(out) + 1
    <3>1. i \in 1 .. Len(out)
      BY <1>2, <2>2
    <3>. QED  BY <1>1, <1>4, <3>1 DEF OrderInv, CommandsInOrder
  <2>. QED  BY <2>1, <2>2
<1>6. ASSUME NEW i \in 1 .. Len(tx) - 1
      PROVE  tx'[i].seq = answered + Len(out') + i
  <2>1. i + 1 \in 1 .. Len(tx) /\ tx'[i] = tx[i + 1]
    BY <1>2, <1>3
  <2>2. tx[i + 1].seq = answered + Len(out) + (i + 1)
    BY <1>1, <2>1 DEF OrderInv, CommandsInOrder
  <2>. QED  BY <1>2, <1>4, <2>1, <2>2
<1>7. answered + Len(out') <= sent /\ sent = answered + Len(out') + Len(tx')
  BY <1>1, <1>2, <1>3, <1>4 DEF OrderInv, CommandsInOrder
<1>8. CommandsInOrder'
  BY <1>1, <1>3, <1>4, <1>5, <1>6, <1>7 DEF CommandsInOrder
<1>9. AnswersInOrder' /\ OwedAccount'
  BY <1>1 DEF OrderInv, AnswersInOrder, OwedAccount, Owed
<1>. QED  BY <1>8, <1>9 DEF OrderInv

\* A packet moves from the stream to the channel of the caller.
LEMMA ReadKeepsOrder ==
  ASSUME TypeOK, OrderInv, ReadTask
  PROVE  OrderInv'
<1>. DEFINE p == Head(wire)
<1>1. /\ wire # <<>> /\ rx' = Append(rx, p) /\ wire' = Tail(wire)
      /\ UNCHANGED <<tx, out, link, writer, answered, sent, got, phase, givenUp,
                     swallowed, discarded>>
  BY DEF ReadTask, taskVars, callVars, deviceVars, historyVars
<1>2. /\ wire \in Seq(Packet) /\ rx \in Seq(Packet) /\ p \in Packet
      /\ answered \in Nat /\ got \in Nat
  BY <1>1 DEF TypeOK, NetTypeOK, DeviceTypeOK, HistoryTypeOK
<1>3. LastSeq(got, rx) \in Nat
  BY <1>2, LastSeqType
<1>4. /\ p.seq = LastSeq(got, rx) + Increment(p)
      /\ Chained(p.seq, wire')
      /\ LastSeq(p.seq, wire') = LastSeq(LastSeq(got, rx), wire)
  BY <1>1, <1>2, <1>3, ChainTail DEF OrderInv, AnswersInOrder
<1>5. Chained(got, rx') /\ LastSeq(got, rx') = p.seq
  BY <1>1, <1>2, <1>4, ChainAppend DEF OrderInv, AnswersInOrder
<1>6. UpTo(answered, wire') /\ UpTo(answered, rx')
  BY <1>1, <1>2, UpToTail, UpToAppend DEF OrderInv, AnswersInOrder
<1>7. AnswersInOrder'
  BY <1>1, <1>4, <1>5, <1>6 DEF OrderInv, AnswersInOrder
<1>8. CommandsInOrder' /\ OwedAccount'
  BY <1>1 DEF OrderInv, CommandsInOrder, OwedAccount, Owed
<1>. QED  BY <1>7, <1>8 DEF OrderInv

\* The oldest command is answered: the answer is the next in order.
LEMMA AnswerKeepsOrder ==
  ASSUME TypeOK, OrderInv, DeviceAnswers
  PROVE  OrderInv'
<1>1. PICK p : /\ wire' = Append(wire, p)
               /\ p.type = "reply" /\ p.seq = Head(out).seq
  BY DEF DeviceAnswers
<1>2. /\ link /\ out # <<>> /\ out' = Tail(out) /\ answered' = answered + 1
      /\ UNCHANGED <<tx, rx, link, writer, sent, got, phase, givenUp, swallowed, discarded>>
  BY DEF DeviceAnswers, taskVars, callVars, historyVars
<1>3. /\ wire \in Seq(Packet) /\ rx \in Seq(Packet) /\ wire' \in Seq(Packet)
      /\ out \in Seq(Command) /\ tx \in Seq(Command) /\ Len(tx) \in Nat
      /\ Len(out) \in Nat \ {0} /\ answered \in Nat /\ got \in Nat /\ sent \in Nat
  BY <1>2, DeviceAnswersType DEF TypeOK, NetTypeOK, DeviceTypeOK, HistoryTypeOK
<1>4. p \in Packet
  <2>1. wire'[Len(wire) + 1] = p /\ Len(wire') = Len(wire) + 1 /\ Len(wire) \in Nat
    BY <1>1, <1>3
  <2>2. Len(wire) + 1 \in 1 .. Len(wire')
    BY <2>1
  <2>. QED  BY <1>3, <2>1, <2>2
<1>5. LastSeq(got, rx) \in Nat
  BY <1>3, LastSeqType
<1>6. p.seq = answered + 1 /\ Increment(p) = 1
  <2>1. Head(out) = out[1] /\ 1 \in 1 .. Len(out)
    BY <1>2, <1>3
  <2>. QED  BY <1>1, <1>2, <2>1 DEF OrderInv, CommandsInOrder, Increment, IsReply
<1>7. /\ Chained(LastSeq(got, rx), wire')
      /\ LastSeq(LastSeq(got, rx), wire') = answered + 1
  <2>1. LastSeq(LastSeq(got, rx), wire) = answered
    BY <1>2 DEF OrderInv, AnswersInOrder
  <2>. QED  BY <1>1, <1>3, <1>4, <1>5, <1>6, <2>1, ChainAppend DEF OrderInv, AnswersInOrder
<1>8. UpTo(answered + 1, rx) /\ UpTo(answered + 1, wire')
  BY <1>1, <1>3, <1>4, <1>6, UpToMore, UpToAppend DEF OrderInv, AnswersInOrder
<1>9. AnswersInOrder'
  BY <1>2, <1>7, <1>8 DEF OrderInv, AnswersInOrder
<1>10. CommandsInOrder'
  <2>1. /\ Len(out') = Len(out) - 1
        /\ \A i \in 1 .. Len(out) - 1 : out'[i] = out[i + 1]
    BY <1>2, <1>3
  <2>2. ASSUME NEW i \in 1 .. Len(out) - 1
        PROVE  out'[i].seq = answered' + i
    <3>1. i + 1 \in 1 .. Len(out) /\ out'[i] = out[i + 1]
      BY <1>3, <2>1
    <3>2. out[i + 1].seq = answered + (i + 1)
      BY <1>2, <3>1 DEF OrderInv, CommandsInOrder
    <3>. QED  BY <1>2, <1>3, <3>1, <3>2
  <2>3. answered' + Len(out') = answered + Len(out)
    BY <1>2, <1>3, <2>1
  <2>. QED  BY <1>2, <2>1, <2>2, <2>3 DEF OrderInv, CommandsInOrder
<1>11. OwedAccount'
  BY <1>2 DEF OrderInv, OwedAccount, Owed
<1>. QED  BY <1>9, <1>10, <1>11 DEF OrderInv

LEMMA EventKeepsOrder ==
  ASSUME TypeOK, OrderInv, NEW kind \in EventKinds, DeviceEvent(kind)
  PROVE  OrderInv'
<1>. DEFINE p == [type |-> "event", cmd |-> kind, seq |-> answered, err |-> 0, val |-> 0]
<1>1. /\ link /\ wire' = Append(wire, p)
      /\ UNCHANGED <<tx, out, rx, link, writer, answered, sent, got, phase, givenUp,
                     swallowed, discarded>>
  BY DEF DeviceEvent, taskVars, callVars
<1>2. /\ wire \in Seq(Packet) /\ rx \in Seq(Packet) /\ answered \in Nat /\ got \in Nat
  BY DEF TypeOK, NetTypeOK, DeviceTypeOK, HistoryTypeOK
<1>3. p \in Packet /\ p.seq = answered /\ Increment(p) = 0
  BY <1>2 DEF Packet, Increment, IsReply
<1>. HIDE DEF p
<1>4. LastSeq(got, rx) \in Nat
  BY <1>2, LastSeqType
<1>5. LastSeq(LastSeq(got, rx), wire) = answered
  BY <1>1 DEF OrderInv, AnswersInOrder
<1>6. /\ Chained(LastSeq(got, rx), wire')
      /\ LastSeq(LastSeq(got, rx), wire') = answered
  BY <1>1, <1>2, <1>3, <1>4, <1>5, ChainAppend DEF OrderInv, AnswersInOrder
<1>7. UpTo(answered, wire')
  BY <1>1, <1>2, <1>3, UpToAppend DEF OrderInv, AnswersInOrder
<1>8. AnswersInOrder'
  BY <1>1, <1>6, <1>7 DEF OrderInv, AnswersInOrder
<1>9. CommandsInOrder' /\ OwedAccount'
  BY <1>1 DEF OrderInv, CommandsInOrder, OwedAccount, Owed
<1>. QED  BY <1>8, <1>9 DEF OrderInv

\* Once the peer is gone what is left of the stream is a prefix, still in order.
LEMMA LossKeepsOrder ==
  ASSUME TypeOK, OrderInv, PeerGone \/ WriteToNobody \/ WriterAborted
  PROVE  OrderInv'
<1>1. CASE PeerGone
  <2>1. PICK n \in 0 .. Len(wire) : wire' = SubSeq(wire, 1, n)
    BY <1>1 DEF PeerGone
  <2>2. /\ link' = FALSE /\ out' = <<>>
        /\ UNCHANGED <<tx, rx, writer, answered, sent, got, phase, givenUp, swallowed,
                       discarded>>
    BY <1>1 DEF PeerGone, callVars, deviceVars, historyVars
  <2>3. /\ wire \in Seq(Packet) /\ rx \in Seq(Packet) /\ Len(out) \in Nat
        /\ answered \in Nat /\ got \in Nat /\ sent \in Nat
    BY DEF TypeOK, NetTypeOK, DeviceTypeOK, HistoryTypeOK
  <2>4. LastSeq(got, rx) \in Nat
    BY <2>3, LastSeqType
  <2>5. Chained(LastSeq(got, rx), wire')
    BY <2>1, <2>3, <2>4, ChainPrefix DEF OrderInv, AnswersInOrder
  <2>6. UpTo(answered, wire')
    <3>1. Len(wire') = n /\ \A i \in 1 .. n : wire'[i] = wire[i] /\ i \in 1 .. Len(wire)
      BY <2>1, <2>3
    <3>. QED  BY <3>1 DEF OrderInv, AnswersInOrder, UpTo
  <2>7. AnswersInOrder'
    BY <2>2, <2>5, <2>6 DEF OrderInv, AnswersInOrder
  <2>8. CommandsInOrder'
    <3>1. Len(out') = 0
      BY <2>2
    <3>. QED  BY <2>2, <2>3, <3>1 DEF OrderInv, CommandsInOrder
  <2>9. OwedAccount'
    BY <2>2 DEF OrderInv, OwedAccount, Owed
  <2>. QED  BY <2>7, <2>8, <2>9 DEF OrderInv
<1>2. CASE WriteToNobody \/ WriterAborted
  <2>1. /\ ~(link /\ writer')
        /\ UNCHANGED <<out, wire, rx, link, answered, sent, got, phase, givenUp,
                       swallowed, discarded>>
    BY <1>2 DEF WriteToNobody, WriterAborted, callVars, deviceVars, historyVars
  <2>. QED  BY <2>1 DEF OrderInv, AnswersInOrder, CommandsInOrder, OwedAccount, Owed
<1>. QED  BY <1>1, <1>2

-----------------------------------------------------------------------------
\* Whatever is lost, late, swallowed or given up, the packets stay in order and the
\* account of owed answers balances.
THEOREM OrderCorrect == Spec => []OrderInv
<1>1. Init => OrderInv
  BY DEF Init, OrderInv, AnswersInOrder, CommandsInOrder, OwedAccount, Owed, Chained,
     LastSeq, UpTo
<1>2. TypeOK /\ OrderInv /\ [Next]_vars => OrderInv'
  <2> SUFFICES ASSUME TypeOK, OrderInv, [Next]_vars
               PROVE  OrderInv'
    OBVIOUS
  <2>1. CASE \/ \E name \in Calls : StartCall(name)
             \/ SendFails \/ MethodNotFound \/ WaitForPackage \/ WaitGetsNothing
             \/ Close \/ ReaderAborted \/ UNCHANGED vars
    <3>1. UNCHANGED <<tx, out, wire, rx, link, writer, answered, sent, got, givenUp,
                      swallowed, discarded>>
      BY <2>1 DEF StartCall, SendFails, MethodNotFound, WaitForPackage, WaitGetsNothing,
         Close, ReaderAborted, vars, netVars, taskVars, deviceVars, historyVars
    <3>2. (phase' = "await") <=> (phase = "await")
      BY <2>1, RoundOver DEF StartCall, SendFails, MethodNotFound, WaitForPackage,
         WaitGetsNothing, Close, ReaderAborted, vars, callVars, GiveUp
    <3>. QED  BY <3>1, <3>2, QuietSteps
  <2>2. CASE TakeReply \/ TakeEvent
    BY <2>2, RoundTakes
  <2>3. CASE WaitGetsStop \/ WaitGetsOther \/ WaitGetsReply
    BY <2>3, WaitTakes
  <2>4. CASE RoundTimeout \/ ChannelClosed
    BY <2>4, RoundGivesUp
  <2>5. CASE SendCommand
    BY <2>5, SendKeepsOrder
  <2>6. CASE WriteTask
    BY <2>6, WriteKeepsOrder
  <2>7. CASE ReadTask
    BY <2>7, ReadKeepsOrder
  <2>8. CASE DeviceAnswers
    BY <2>8, AnswerKeepsOrder
  <2>9. CASE \E kind \in EventKinds : DeviceEvent(kind)
    BY <2>9, EventKeepsOrder
  <2>10. CASE PeerGone \/ WriteToNobody \/ WriterAborted
    BY <2>10, LossKeepsOrder
  <2>. QED  BY <2>1, <2>2, <2>3, <2>4, <2>5, <2>6, <2>7, <2>8, <2>9, <2>10
            DEF Next, Caller, Tasks
<1>. QED  BY <1>1, <1>2, TypeCorrect, PTL DEF Spec

\* The reply a round takes next answers the command as many commands ago as there are
\* answers owed: its own if and only if none is.
THEOREM NextReplyCorrect == Spec => []NextReplyIsOwedOne
<1>1. TypeOK /\ OrderInv => NextReplyIsOwedOne
  <2> SUFFICES ASSUME TypeOK, OrderInv, phase = "await", rx # <<>>, IsReply(Head(rx))
               PROVE  Owed >= 0 /\ Head(rx).seq = sent - Owed
    BY DEF NextReplyIsOwedOne
  <2>1. Head(rx).seq = got + 1
    BY ChainTail DEF TypeOK, NetTypeOK, HistoryTypeOK, OrderInv, AnswersInOrder, Increment
  <2>2. Owed >= 0 /\ sent = got + Owed + 1 /\ Owed \in Int /\ got \in Nat
    BY DEF OrderInv, OwedAccount, Owed, TypeOK, HistoryTypeOK
  <2>. QED  BY <2>1, <2>2
<1>. QED  BY <1>1, TypeCorrect, OrderCorrect, PTL

-----------------------------------------------------------------------------
(* The requests the debugger knows.  RequestsInv is inductive beside TypeOK *)
(* and OrderInv, which say that an answer numbered sent was written when   *)
(* every command was answered.                                             *)

\* A sequence over a set is one over any larger set.
LEMMA SeqOfMore ==
  ASSUME NEW S, NEW T, S \subseteq T, NEW q \in Seq(S)
  PROVE  q \in Seq(T)
  OBVIOUS

\* The sequences of the invariant, and what one of them loses or gains.
LEMMA SeqEnds ==
  ASSUME NEW S, NEW q \in Seq(S)
  PROVE  /\ q # <<>> => Head(q) \in S /\ Tail(q) \in Seq(S)
         /\ \A e \in S : Append(q, e) \in Seq(S)
         /\ <<>> \in Seq(S)
  BY EmptySeq

\* What is under way stays good while requests are only added and no round begins.
LEMMA MoreGranted ==
  ASSUME sent' = sent, bps \subseteq bps', steps \subseteq steps',
         phase' = "await" => phase = "await" /\ todo' = todo
  PROVE  Asked \subseteq Asked' /\ Granted \subseteq Granted'
  BY DEF Asked, Granted

\* The commands that leave the last step alone are the same for the same last step,
\* and more for none.
LEMMA MoreKept ==
  ASSUME lastStep' \subseteq lastStep
  PROVE  KeepsLastStep \subseteq KeepsLastStep'
  BY DEF KeepsLastStep

\* Going on with rounds of which only the first may clear a step.
LEMMA ContinueClears ==
  ASSUME NEW left \in Seq(NoClearing), Continue(left)
  PROVE  /\ todo' # <<>> => Tail(todo') \in Seq(NoClearing)
         /\ phase' = "send" => Head(todo').cmd # "clear_step"
         /\ phase' # "await"
<1>1. left # <<>> => Head(left) \in NoClearing /\ Tail(left) \in Seq(NoClearing)
  OBVIOUS
<1>. QED  BY <1>1 DEF Continue, NoClearing

\* The rounds of a call the caller begins, and those an answer inserts, clear no step.
LEMMA CallsDoNotClear ==
  ASSUME NEW name \in CallNames
  PROVE  CallRounds[name] \in Seq(NoClearing)
<1>1. /\ IdSizes \in NoClearing /\ Version \in NoClearing /\ ClassBySignature \in NoClearing
      /\ AllClasses \in NoClearing /\ SetBreakpoint \in NoClearing /\ Resume \in NoClearing
      /\ Step \in NoClearing /\ FrameValue \in NoClearing /\ SetFrameValue \in NoClearing
      /\ ReferenceType \in NoClearing /\ ObjectSignature \in NoClearing /\ FieldIds \in NoClearing
      /\ StringValue \in NoClearing /\ CreateString \in NoClearing /\ ArrayLength \in NoClearing
      /\ ArrayValues \in NoClearing
  BY DEF NoClearing, Rounds, Round, IdSizes, Version, ClassBySignature, AllClasses, SetBreakpoint,
     Resume, Step, FrameValue, SetFrameValue, ReferenceType, ObjectSignature, FieldIds, StringValue,
     CreateString, ArrayLength, ArrayValues
<1>2. FrameValues \in Seq(NoClearing)
  BY <1>1, SizesAssumption DEF FrameValues
<1>3. /\ NewClient \in Seq(NoClearing) /\ GetVersionInfo \in Seq(NoClearing)
      /\ GetAllClasses \in Seq(NoClearing) /\ BreakAt \in Seq(NoClearing)
      /\ ResumeVm \in Seq(NoClearing) /\ StepOver \in Seq(NoClearing)
      /\ WriteRegister \in Seq(NoClearing) /\ ObjectValue \in Seq(NoClearing)
      /\ StringOf \in Seq(NoClearing) /\ ArrayOf \in Seq(NoClearing)
      /\ NewString \in Seq(NoClearing) /\ ClassName \in Seq(NoClearing)
      /\ MethodName \in Seq(NoClearing) /\ FrameCode \in Seq(NoClearing)
  BY <1>1 DEF NewClient, GetVersionInfo, GetAllClasses, BreakAt, ResumeVm, StepOver,
     WriteRegister, ObjectValue, StringOf, ArrayOf, NewString, ClassName, MethodName, FrameCode
<1>. QED  BY <1>2, <1>3 DEF CallNames, CallRounds

\* The same of the rounds an answer inserts.
LEMMA InsertedDoNotClear ==
  ASSUME NEW r, NEW v \in Nat
  PROVE  Inserted(r, v) \in Seq(NoClearing)
<1>1. Methods \in NoClearing /\ VariableTable \in NoClearing /\ FieldValues \in NoClearing
  BY DEF NoClearing, Rounds, Round, Methods, VariableTable, FieldValues
<1>2. /\ [i \in 1 .. v |-> Methods] \in Seq(NoClearing)
      /\ [i \in 1 .. v |-> VariableTable] \in Seq(NoClearing)
      /\ <<FieldValues>> \in Seq(NoClearing)
      /\ <<>> \in Seq(NoClearing)
  BY <1>1
<1>. QED  BY <1>2 DEF Inserted

\* How a round ends without an answer that is accepted.
LEMMA RoundEnds ==
  ASSUME TypeOK, ClearsFirst, todo # <<>>,
         Continue(Tail(todo)) \/ GiveUp \/ RoundFails
  PROVE  ClearsFirst' /\ phase' # "await"
<1>1. CASE Continue(Tail(todo))
  BY <1>1, ContinueClears DEF ClearsFirst
<1>2. CASE GiveUp
  BY <1>2 DEF GiveUp, ClearsFirst
<1>. QED  BY <1>1, <1>2 DEF RoundFails

\* The steps that ask for nothing, grant nothing and give no new last step.
LEMMA RequestsStay ==
  ASSUME RequestsInv,
         sent' = sent, bps \subseteq bps', steps \subseteq steps', breakPoints' = breakPoints,
         lastStep' \subseteq lastStep, ~stale' => ~stale, link' => link, writer' => writer,
         phase' = "await" => phase = "await" /\ todo' = todo,
         tx' \in Seq(Asked), out' \in Seq(Asked), wire' \in Seq(Granted), rx' \in Seq(Granted),
         ~stale /\ link' => /\ out' \in Seq(KeepsLastStep)
                            /\ writer' => tx' \in Seq(KeepsLastStep),
         ClearsFirst'
  PROVE  RequestsInv'
<1>1. AllAskedAndGranted'
  <2>1. Asked \subseteq Asked' /\ Granted \subseteq Granted'
    BY MoreGranted
  <2>2. tx' \in Seq(Asked') /\ out' \in Seq(Asked')
    BY <2>1, SeqOfMore
  <2>3. wire' \in Seq(Granted') /\ rx' \in Seq(Granted')
    BY <2>1, SeqOfMore
  <2>. QED  BY <2>2, <2>3 DEF AllAskedAndGranted
<1>2. ListedBreakpointsExist' /\ LastStepIsLive'
  BY DEF RequestsInv, ListedBreakpointsExist, LastStepIsLive
<1>3. LastStepIsKept'
  <2>1. KeepsLastStep \subseteq KeepsLastStep'
    BY MoreKept
  <2>2. ASSUME ~stale', link'
        PROVE  /\ out' \in Seq(KeepsLastStep')
               /\ writer' => tx' \in Seq(KeepsLastStep')
    <3>1. /\ out' \in Seq(KeepsLastStep)
          /\ writer' => tx' \in Seq(KeepsLastStep)
      BY <2>2, Zenon
    <3>. QED  BY <2>1, <3>1, SeqOfMore, Zenon
  <2>. QED  BY <2>2 DEF LastStepIsKept
<1>. QED  BY <1>1, <1>2, <1>3 DEF RequestsInv

\* The packets on their way to the caller were written by the last answer at the latest.
LEMMA GrantedSoFar ==
  ASSUME TypeOK, OrderInv, RequestsInv
  PROVE  /\ wire \in Seq({p \in Granted : p.seq <= answered})
         /\ rx \in Seq({p \in Granted : p.seq <= answered})
         /\ answered + Len(out) <= sent
<1>1. UpTo(answered, wire) /\ UpTo(answered, rx)
  BY DEF OrderInv, AnswersInOrder
<1>2. wire \in Seq(Granted) /\ rx \in Seq(Granted)
  BY DEF RequestsInv, AllAskedAndGranted
<1>3. \A q \in Seq(Granted) : UpTo(answered, q) => q \in Seq({p \in Granted : p.seq <= answered})
  <2> SUFFICES ASSUME NEW q \in Seq(Granted), UpTo(answered, q)
               PROVE  q \in Seq({p \in Granted : p.seq <= answered})
    OBVIOUS
  <2>. DEFINE T == {p \in Granted : p.seq <= answered}
  <2>1. Len(q) \in Nat /\ q = [i \in 1 .. Len(q) |-> q[i]] /\ \A i \in 1 .. Len(q) : q[i] \in Granted
    OBVIOUS
  <2>2. \A i \in 1 .. Len(q) : q[i] \in T
    BY <2>1 DEF UpTo
  <2>. HIDE DEF T
  <2>3. q \in Seq(T)
    BY <2>1, <2>2
  <2>. QED  BY <2>3 DEF T
<1>. QED  BY <1>1, <1>2, <1>3 DEF OrderInv, CommandsInOrder

\* A round takes an answer: what it notes is what the device granted, or it is stale.
LEMMA TakeReplyKeepsRequests ==
  ASSUME TypeOK, OrderInv, RequestsInv, TakeReply
  PROVE  RequestsInv'
<1>. DEFINE r == Head(todo)
            p == Head(rx)
<1>1. /\ phase = "await" /\ rx # <<>> /\ IsReply(p) /\ rx' = Tail(rx)
      /\ stale' = (stale \/ p.seq # sent)
      /\ UNCHANGED <<tx, out, wire, link, writer, bps, steps, answered, sent>>
  BY DEF TakeReply, taskVars, deviceVars
<1>2. /\ todo # <<>> /\ r \in Rounds /\ Tail(todo) \in Seq(NoClearing)
      /\ p \in Packet /\ p.val \in Nat /\ p.seq \in Nat
      /\ sent \in Nat /\ answered \in Nat /\ Len(out) \in Nat /\ Len(tx) \in Nat
  BY <1>1 DEF TypeOK, CallTypeOK, NetTypeOK, HistoryTypeOK, DeviceTypeOK, RequestsInv, ClearsFirst,
     Packet, IsReply
<1>3. rx' \in Seq(Granted) /\ p \in Granted /\ p.seq <= answered /\ answered + Len(out) <= sent
  <2>1. p \in {q \in Granted : q.seq <= answered}
    BY <1>1, GrantedSoFar, SeqEnds
  <2>. QED  BY <1>1, <2>1, SeqEnds, GrantedSoFar DEF RequestsInv, AllAskedAndGranted
<1>4. CASE \E v \in Nat : Accept(v) /\ (r.reads => p.err = 0 /\ v \in Readable(r, p))
  <2>1. PICK v \in Nat : Accept(v) /\ (r.reads => p.err = 0 /\ v \in Readable(r, p))
    BY <1>4
  <2>2. /\ lastStep' = IF r.cmd = "step" THEN {v} ELSE lastStep
        /\ breakPoints' = IF r.cmd = "breakpoint" THEN breakPoints \cup {v} ELSE breakPoints
        /\ GiveUp \/ Continue(Inserted(r, v) \o Tail(todo))
    BY <2>1 DEF Accept
  <2>3. ClearsFirst' /\ phase' # "await"
    <3>1. Inserted(r, v) \o Tail(todo) \in Seq(NoClearing)
      <4>1. Inserted(r, v) \in Seq(NoClearing)
        BY InsertedDoNotClear
      <4>. QED  BY <1>2, <4>1
    <3>2. CASE Continue(Inserted(r, v) \o Tail(todo))
      BY <3>1, <3>2, ContinueClears DEF ClearsFirst
    <3>3. CASE GiveUp
      BY <3>3 DEF GiveUp, ClearsFirst
    <3>. QED  BY <2>2, <3>2, <3>3
  <2>4. ASSUME ~stale', r.cmd \in {"step", "breakpoint"}
        PROVE  /\ p.seq = sent
               /\ r.cmd = "step" => v \in steps
               /\ r.cmd = "breakpoint" => v \in bps
    <3>1. p.seq = sent /\ p.cmd = r.cmd
      BY <1>1, <1>3, <2>4 DEF Granted
    <3>2. r.reads
      BY <1>2, <2>4 DEF Rounds, Round, IdSizes, Version, ClassBySignature, AllClasses, Methods,
         VariableTable, SetBreakpoint, Resume, Step, ClearStep, TopFrame, FrameValue, SetFrameValue,
         ReferenceType, ObjectSignature, FieldIds, FieldValues, StringValue, CreateString,
         ArrayLength, ArrayValues
    <3>3. v = p.val /\ p.err = 0
      BY <2>1, <3>1, <3>2 DEF Readable
    <3>. QED  BY <1>1, <1>3, <3>1, <3>3 DEF Granted
  <2>5. ListedBreakpointsExist' /\ LastStepIsLive'
    BY <1>1, <2>2, <2>4 DEF RequestsInv, ListedBreakpointsExist, LastStepIsLive
  <2>6. LastStepIsKept'
    <3>1. CASE r.cmd = "step" /\ ~stale' /\ link
      <4>1. Len(out) = 0 /\ (writer => Len(tx) = 0)
        BY <1>2, <1>3, <2>4, <3>1 DEF OrderInv, CommandsInOrder
      <4>2. out = <<>> /\ (writer => tx = <<>>)
        BY <4>1, EmptySeq DEF TypeOK, NetTypeOK
      <4>. QED  BY <1>1, <4>2, EmptySeq DEF LastStepIsKept
    <3>2. CASE r.cmd # "step"
      <4>1. KeepsLastStep' = KeepsLastStep
        BY <2>2, <3>2 DEF KeepsLastStep
      <4>. QED  BY <1>1, <4>1 DEF RequestsInv, LastStepIsKept
    <3>. QED  BY <1>1, <3>1, <3>2 DEF LastStepIsKept
  <2>7. AllAskedAndGranted'
    <3>1. Asked \subseteq Asked' /\ Granted \subseteq Granted'
      BY <1>1, <2>3, MoreGranted
    <3>2. tx' \in Seq(Asked') /\ out' \in Seq(Asked')
      BY <1>1, <3>1, SeqOfMore DEF RequestsInv, AllAskedAndGranted
    <3>3. wire' \in Seq(Granted') /\ rx' \in Seq(Granted')
      BY <1>1, <1>3, <3>1, SeqOfMore DEF RequestsInv, AllAskedAndGranted
    <3>. QED  BY <3>2, <3>3 DEF AllAskedAndGranted
  <2>. QED  BY <2>3, <2>5, <2>6, <2>7 DEF RequestsInv
<1>5. CASE UNCHANGED dbgVars /\ (RoundFails \/ (r.cmd = "values" /\ NextType))
  <2>1. ClearsFirst' /\ phase' # "await"
    <3>1. CASE RoundFails
      BY <1>2, <3>1, RoundEnds DEF RequestsInv
    <3>2. CASE r.cmd = "values" /\ NextType
      <4>1. CASE todo' = todo /\ phase' = "send"
        BY <1>2, <3>2, <4>1 DEF ClearsFirst
      <4>2. CASE Continue(Tail(todo))
        BY <1>2, <4>2, RoundEnds DEF RequestsInv
      <4>. QED  BY <3>2, <4>1, <4>2 DEF NextType
    <3>. QED  BY <1>5, <3>1, <3>2
  <2>2. /\ breakPoints' = breakPoints /\ lastStep' = lastStep
        /\ tx \in Seq(Asked) /\ out \in Seq(Asked) /\ wire \in Seq(Granted)
    BY <1>5 DEF dbgVars, RequestsInv, AllAskedAndGranted
  <2>. QED  BY <1>1, <1>3, <2>1, <2>2, RequestsStay DEF RequestsInv, LastStepIsKept
<1>6. \A v \in Readable(r, p) : v \in Nat
  BY <1>1, <1>2, ReadableType
<1>7. \/ ~r.reads /\ Accept(p.val)
      \/ r.reads /\ p.err = 0 /\ \E v \in Readable(r, p) : Accept(v)
      \/ UNCHANGED dbgVars /\ (RoundFails \/ (r.cmd = "values" /\ NextType))
  BY DEF TakeReply
<1>8. CASE ~r.reads /\ Accept(p.val)
  BY <1>2, <1>4, <1>8
<1>9. CASE r.reads /\ p.err = 0 /\ \E v \in Readable(r, p) : Accept(v)
  BY <1>4, <1>6, <1>9
<1>. QED  BY <1>5, <1>7, <1>8, <1>9

\* A new command is the round's own, and clears a step only when none is noted.
LEMMA SendKeepsRequests ==
  ASSUME TypeOK, OrderInv, RequestsInv, SendCommand
  PROVE  RequestsInv'
<1>1. /\ sent' = sent + 1 /\ phase = "send" /\ phase' = "await" /\ todo' = todo
      /\ UNCHANGED <<out, wire, rx, link, writer, stale, lastStep, breakPoints, bps, steps>>
  BY DEF SendCommand, taskVars, dbgVars, deviceVars
<1>2. PICK c : /\ c = [cmd |-> Head(todo).cmd, seq |-> sent + 1,
                       arg |-> IF Head(todo).cmd = "clear_step" THEN clearing ELSE 0]
               /\ tx' = Append(tx, c)
  BY DEF SendCommand
<1>3. c \in Command /\ sent \in Nat /\ answered \in Nat /\ Len(out) \in Nat
  BY <1>1, <1>2, RoundsType DEF TypeOK, CallTypeOK, HistoryTypeOK, DebuggerTypeOK, DeviceTypeOK,
     NetTypeOK, Command
<1>4. Asked \subseteq Asked' /\ c \in Asked'
  BY <1>1, <1>2, <1>3 DEF Asked, Command
<1>5. {p \in Granted : p.seq <= answered} \subseteq Granted'
  <2>1. answered <= sent
    BY <1>3, GrantedSoFar
  <2>2. \A p \in Packet : p.seq \in Nat
    BY DEF Packet
  <2>. QED  BY <1>1, <1>3, <2>1, <2>2 DEF Granted
<1>6. AllAskedAndGranted'
  <2>1. tx \in Seq(Asked') /\ out \in Seq(Asked')
    BY <1>4, SeqOfMore DEF RequestsInv, AllAskedAndGranted
  <2>2. tx' \in Seq(Asked')
    BY <1>2, <1>4, <2>1, SeqEnds
  <2>3. wire \in Seq(Granted') /\ rx \in Seq(Granted')
    BY <1>5, GrantedSoFar, SeqOfMore
  <2>. QED  BY <1>1, <2>1, <2>2, <2>3 DEF AllAskedAndGranted
<1>7. LastStepIsKept'
  <2>1. c \in KeepsLastStep /\ KeepsLastStep' = KeepsLastStep
    BY <1>1, <1>2, <1>3 DEF KeepsLastStep, RequestsInv, ClearsFirst
  <2>. QED  BY <1>1, <1>2, <2>1, SeqEnds DEF RequestsInv, LastStepIsKept
<1>8. ListedBreakpointsExist' /\ LastStepIsLive' /\ ClearsFirst'
  BY <1>1 DEF RequestsInv, ListedBreakpointsExist, LastStepIsLive, ClearsFirst
<1>. QED  BY <1>6, <1>7, <1>8 DEF RequestsInv

\* The device answers: it grants a request, or clears one that is the last step no more.
LEMMA AnswerKeepsRequests ==
  ASSUME TypeOK, OrderInv, RequestsInv, DeviceAnswers
  PROVE  RequestsInv'
<1>. DEFINE c == Head(out)
<1>1. /\ link /\ out # <<>> /\ out' = Tail(out)
      /\ UNCHANGED <<tx, rx, link, writer, todo, phase, lastStep, breakPoints, sent, stale>>
  BY DEF DeviceAnswers, taskVars, callVars, dbgVars, historyVars
<1>2. PICK o \in Outcomes(c) :
        /\ wire' = Append(wire, [type |-> "reply", cmd |-> c.cmd, seq |-> c.seq,
                                 err |-> o[1], val |-> o[2]])
        /\ bps' = IF c.cmd = "breakpoint" /\ o[1] = 0 THEN bps \cup {o[2]} ELSE bps
        /\ steps' = CASE c.cmd = "step" /\ o[1] = 0 -> steps \cup {o[2]}
                      [] c.cmd = "clear_step"       -> steps \ {c.arg}
                      [] OTHER                      -> steps
  BY DEF DeviceAnswers
<1>3. /\ c \in Command /\ c \in Asked /\ out' \in Seq(Asked) /\ Len(out) \in Nat \ {0}
      /\ answered \in Nat /\ sent \in Nat /\ o[1] \in ErrorCodes /\ o[2] \in Nat
  <2>1. c \in Asked /\ out' \in Seq(Asked)
    BY <1>1, SeqEnds DEF RequestsInv, AllAskedAndGranted
  <2>2. c \in Command /\ Len(out) \in Nat \ {0} /\ answered \in Nat /\ sent \in Nat
    BY <1>1 DEF TypeOK, NetTypeOK, DeviceTypeOK, HistoryTypeOK
  <2>. QED  BY <2>1, <2>2, OutcomesType DEF TypeOK
<1>4. answered < sent
  BY <1>3, GrantedSoFar
<1>5. /\ bps \subseteq bps'
      /\ steps \subseteq steps' \/ (c.cmd = "clear_step" /\ steps' = steps \ {c.arg})
      /\ c.cmd = "breakpoint" /\ o[1] = 0 => o[2] \in bps'
      /\ c.cmd = "step" /\ o[1] = 0 => o[2] \in steps'
  <2>1. CASE c.cmd = "step" /\ o[1] = 0
    BY <1>2, <2>1
  <2>2. CASE c.cmd = "clear_step"
    BY <1>2, <2>2
  <2>3. CASE ~(c.cmd = "step" /\ o[1] = 0) /\ c.cmd # "clear_step"
    BY <1>2, <2>3
  <2>. QED  BY <2>1, <2>2, <2>3
<1>6. {p \in Granted : p.seq <= answered} \subseteq Granted'
  <2>1. \A p \in Packet : p.seq \in Nat
    BY DEF Packet
  <2>. QED  BY <1>1, <1>3, <1>4, <1>5, <2>1 DEF Granted
<1>7. PICK p \in Granted' : wire' = Append(wire, p)
  <2>. DEFINE q == [type |-> "reply", cmd |-> c.cmd, seq |-> c.seq, err |-> o[1], val |-> o[2]]
  <2>1. q \in Packet
    BY <1>3 DEF Packet, Command
  <2>2. q \in Granted'
    BY <1>1, <1>3, <1>5, <2>1 DEF Granted, Asked
  <2>. QED  BY <1>2, <2>2
<1>8. AllAskedAndGranted'
  <2>1. Asked' = Asked
    BY <1>1 DEF Asked
  <2>2. wire \in Seq(Granted') /\ rx \in Seq(Granted')
    BY <1>6, GrantedSoFar, SeqOfMore
  <2>3. wire' \in Seq(Granted')
    BY <1>7, <2>2, SeqEnds
  <2>. QED  BY <1>1, <1>3, <2>1, <2>2, <2>3 DEF RequestsInv, AllAskedAndGranted
<1>9. LastStepIsKept' /\ LastStepIsLive'
  <2>1. KeepsLastStep' = KeepsLastStep
    BY <1>1 DEF KeepsLastStep
  <2>2. ~stale => c \in KeepsLastStep /\ Tail(out) \in Seq(KeepsLastStep)
    BY <1>1, SeqEnds DEF RequestsInv, LastStepIsKept
  <2>3. LastStepIsKept'
    BY <1>1, <2>1, <2>2 DEF RequestsInv, LastStepIsKept
  <2>4. LastStepIsLive'
    BY <1>1, <1>5, <2>2 DEF RequestsInv, LastStepIsLive, KeepsLastStep
  <2>. QED  BY <2>3, <2>4
<1>10. ListedBreakpointsExist' /\ ClearsFirst'
  BY <1>1, <1>5 DEF RequestsInv, ListedBreakpointsExist, ClearsFirst
<1>. QED  BY <1>8, <1>9, <1>10 DEF RequestsInv

\* The other steps of a round, and a call that is begun or ends without one.
LEMMA CallKeepsRequests ==
  ASSUME TypeOK, RequestsInv,
         \/ \E name \in Calls : StartCall(name)
         \/ SendFails \/ MethodNotFound \/ TakeEvent \/ RoundTimeout \/ ChannelClosed
         \/ WaitForPackage \/ WaitGetsNothing
  PROVE  RequestsInv'
<1>1. /\ UNCHANGED <<tx, out, wire, link, writer, sent, bps, steps, breakPoints, lastStep, stale>>
      /\ rx' = rx \/ (rx # <<>> /\ rx' = Tail(rx))
  BY DEF StartCall, SendFails, MethodNotFound, TakeEvent, RoundTimeout, ChannelClosed, WaitForPackage,
     WaitGetsNothing, netVars, taskVars, dbgVars, deviceVars, historyVars
<1>2. rx' \in Seq(Granted) /\ wire \in Seq(Granted) /\ tx \in Seq(Asked) /\ out \in Seq(Asked)
  BY <1>1, SeqEnds DEF RequestsInv, AllAskedAndGranted
<1>3. phase \in {"send", "await"} => todo # <<>>
  BY DEF TypeOK, CallTypeOK
<1>4. ClearsFirst' /\ phase' # "await"
  <2>1. ASSUME NEW name \in Calls, StartCall(name)
        PROVE  ClearsFirst' /\ phase' # "await"
    <3>1. CallRounds[name] \in Seq(NoClearing) /\ CallRounds[name] # <<>>
      BY <2>1, CallsDoNotClear, BoundsAssumption DEF StartCall
    <3>2. Head(CallRounds[name]) \in NoClearing /\ Tail(CallRounds[name]) \in Seq(NoClearing)
      BY <3>1, SeqEnds
    <3>. QED  BY <2>1, <3>2 DEF StartCall, ClearsFirst, NoClearing
  <2>2. CASE SendFails \/ MethodNotFound \/ RoundTimeout \/ ChannelClosed
    <3>1. todo # <<>> /\ (Continue(Tail(todo)) \/ GiveUp \/ RoundFails)
      BY <1>3, <2>2 DEF SendFails, MethodNotFound, RoundTimeout, ChannelClosed
    <3>. QED  BY <3>1, RoundEnds DEF RequestsInv
  <2>3. CASE TakeEvent
    <3>1. todo # <<>> /\ (Continue(Tail(todo)) \/ GiveUp \/ RoundFails)
      BY <1>3, <2>3 DEF TakeEvent
    <3>. QED  BY <3>1, RoundEnds DEF RequestsInv
  <2>4. CASE WaitForPackage
    BY <2>4 DEF WaitForPackage, ClearsFirst
  <2>5. CASE WaitGetsNothing
    BY <2>5 DEF WaitGetsNothing, GiveUp, ClearsFirst
  <2>. QED  BY <2>1, <2>2, <2>3, <2>4, <2>5
<1>5. ~stale /\ link => /\ out \in Seq(KeepsLastStep)
                        /\ (writer => tx \in Seq(KeepsLastStep))
  BY DEF RequestsInv, LastStepIsKept
<1>. QED  BY <1>1, <1>2, <1>4, <1>5, RequestsStay

\* wait_for_package gives the last step away before it asks to have it cleared.
LEMMA WaitKeepsRequests ==
  ASSUME TypeOK, RequestsInv, WaitGetsStop \/ WaitGetsOther \/ WaitGetsReply
  PROVE  RequestsInv'
<1>1. /\ UNCHANGED <<tx, out, wire, link, writer, sent, bps, steps, breakPoints, stale>>
      /\ rx # <<>> /\ rx' = Tail(rx) /\ lastStep' \subseteq lastStep
  BY DEF WaitGetsStop, WaitGetsOther, WaitGetsReply, taskVars, dbgVars, deviceVars, historyVars
<1>2. rx' \in Seq(Granted) /\ wire \in Seq(Granted) /\ tx \in Seq(Asked) /\ out \in Seq(Asked)
  BY <1>1, SeqEnds DEF RequestsInv, AllAskedAndGranted
<1>3. ClearsFirst' /\ phase' # "await"
  <2>1. CASE WaitGetsOther \/ WaitGetsReply
    BY <2>1 DEF WaitGetsOther, WaitGetsReply, GiveUp, ClearsFirst
  <2>2. CASE WaitGetsStop
    <3>. DEFINE clears == Head(rx).cmd = "step_done" /\ lastStep # {}
    <3>1. TopFrame \in NoClearing
      BY DEF NoClearing, Rounds, Round, TopFrame
    <3>2. CASE clears
      <4>1. Continue(<<ClearStep, TopFrame>>) /\ lastStep' = {}
        BY <2>2, <3>2 DEF WaitGetsStop
      <4>2. todo' = <<ClearStep, TopFrame>> /\ phase' = "send"
        BY <4>1 DEF Continue
      <4>3. Tail(todo') \in Seq(NoClearing)
        BY <3>1, <4>2
      <4>. QED  BY <4>1, <4>2, <4>3 DEF ClearsFirst
    <3>3. CASE ~clears
      <4>1. Continue(<<TopFrame>>) /\ <<TopFrame>> \in Seq(NoClearing)
        BY <2>2, <3>1, <3>3 DEF WaitGetsStop
      <4>. QED  BY <4>1, ContinueClears DEF ClearsFirst
    <3>. QED  BY <3>2, <3>3
  <2>. QED  BY <2>1, <2>2
<1>4. ~stale /\ link => /\ out \in Seq(KeepsLastStep)
                        /\ (writer => tx \in Seq(KeepsLastStep))
  BY DEF RequestsInv, LastStepIsKept
<1>. QED  BY <1>1, <1>2, <1>3, <1>4, RequestsStay

\* The tasks pass on what they are given, or lose it.
LEMMA TasksKeepRequests ==
  ASSUME TypeOK, RequestsInv,
         Tasks \/ Close \/ PeerGone \/ \E kind \in EventKinds : DeviceEvent(kind)
  PROVE  RequestsInv'
<1>1. /\ UNCHANGED <<todo, phase, lastStep, breakPoints, bps, steps, sent, stale>>
      /\ link' => link
      /\ writer' => writer
  <2>1. CASE WriteTask \/ ReadTask
    BY <2>1 DEF WriteTask, ReadTask, taskVars, callVars, dbgVars, deviceVars, historyVars
  <2>2. CASE WriteToNobody \/ WriterAborted
    BY <2>2 DEF WriteToNobody, WriterAborted, callVars, dbgVars, deviceVars, historyVars
  <2>3. CASE ReaderAborted \/ Close \/ PeerGone
    BY <2>3 DEF ReaderAborted, Close, PeerGone, callVars, dbgVars, deviceVars, historyVars
  <2>4. CASE \E kind \in EventKinds : DeviceEvent(kind)
    BY <2>4 DEF DeviceEvent, taskVars, callVars, dbgVars
  <2>. QED  BY <2>1, <2>2, <2>3, <2>4 DEF Tasks
<1>2. ClearsFirst'
  BY <1>1 DEF RequestsInv, ClearsFirst
<1>3. /\ tx \in Seq(Asked) /\ out \in Seq(Asked) /\ wire \in Seq(Granted) /\ rx \in Seq(Granted)
      /\ ~stale /\ link => out \in Seq(KeepsLastStep)
      /\ ~stale /\ link /\ writer => tx \in Seq(KeepsLastStep)
  BY DEF RequestsInv, AllAskedAndGranted, LastStepIsKept
<1>4. /\ tx' \in Seq(Asked) /\ out' \in Seq(Asked) /\ wire' \in Seq(Granted) /\ rx' \in Seq(Granted)
      /\ ~stale /\ link' => out' \in Seq(KeepsLastStep)
      /\ ~stale /\ link' /\ writer' => tx' \in Seq(KeepsLastStep)
  <2>1. CASE WriteTask
    <3>1. /\ writer /\ link /\ tx # <<>> /\ out' = Append(out, Head(tx)) /\ tx' = Tail(tx)
          /\ UNCHANGED <<wire, rx>>
      BY <2>1 DEF WriteTask
    <3>. QED  BY <1>3, <3>1, SeqEnds
  <2>2. CASE WriteToNobody \/ WriterAborted
    <3>1. /\ UNCHANGED <<out, wire, rx, link>> /\ ~(link' /\ writer')
          /\ tx' = <<>> \/ (tx # <<>> /\ tx' = Tail(tx))
      BY <2>2 DEF WriteToNobody, WriterAborted
    <3>. QED  BY <1>3, <3>1, SeqEnds
  <2>3. CASE ReadTask
    <3>1. /\ wire # <<>> /\ rx' = Append(rx, Head(wire)) /\ wire' = Tail(wire)
          /\ UNCHANGED <<tx, out, link, writer>>
      BY <2>3 DEF ReadTask, taskVars
    <3>. QED  BY <1>3, <3>1, SeqEnds
  <2>4. CASE ReaderAborted \/ Close
    <3>1. UNCHANGED <<tx, out, wire, rx, link, writer>>
      BY <2>4 DEF ReaderAborted, Close, netVars
    <3>. QED  BY <1>3, <3>1
  <2>5. CASE PeerGone
    <3>1. PICK n \in 0 .. Len(wire) : wire' = SubSeq(wire, 1, n)
      BY <2>5 DEF PeerGone
    <3>2. wire' \in Seq(Granted)
      BY <1>3, <3>1
    <3>3. UNCHANGED <<tx, rx>> /\ out' = <<>> /\ ~link'
      BY <2>5 DEF PeerGone
    <3>. QED  BY <1>3, <3>2, <3>3, SeqEnds
  <2>6. ASSUME NEW kind \in EventKinds, DeviceEvent(kind)
        PROVE  /\ wire' \in Seq(Granted)
               /\ UNCHANGED <<tx, out, rx, link, writer>>
    <3>. DEFINE p == [type |-> "event", cmd |-> kind, seq |-> answered, err |-> 0, val |-> 0]
    <3>1. p \in Granted
      BY DEF Granted, Packet, IsReply, TypeOK, DeviceTypeOK
    <3>2. wire' = Append(wire, p) /\ UNCHANGED <<tx, out, rx, link, writer>>
      BY <2>6 DEF DeviceEvent, taskVars
    <3>. QED  BY <1>3, <3>1, <3>2, SeqEnds
  <2>. QED  BY <1>3, <2>1, <2>2, <2>3, <2>4, <2>5, <2>6 DEF Tasks
<1>5. ~stale /\ link' => /\ out' \in Seq(KeepsLastStep)
                         /\ (writer' => tx' \in Seq(KeepsLastStep))
  BY <1>4
<1>. QED  BY <1>1, <1>2, <1>4, <1>5, RequestsStay

-----------------------------------------------------------------------------
\* Every answer on its way is its command's own, names a request the device has, and
\* nothing on its way clears the last step.
THEOREM RequestsCorrect == Spec => []RequestsInv
<1>1. Init => RequestsInv
  <2> SUFFICES ASSUME Init
               PROVE  RequestsInv
    OBVIOUS
  <2>1. IdSizes \in NoClearing /\ Version \in NoClearing
    BY DEF NoClearing, Rounds, Round, IdSizes, Version
  <2>2. todo = <<IdSizes, Version>> /\ Head(todo) = IdSizes /\ Tail(todo) \in Seq(NoClearing)
    BY <2>1 DEF Init, NewClient
  <2>3. ClearsFirst
    BY <2>1, <2>2 DEF ClearsFirst, NoClearing
  <2>4. AllAskedAndGranted /\ LastStepIsKept
    BY SeqEnds DEF Init, AllAskedAndGranted, LastStepIsKept
  <2>5. ListedBreakpointsExist /\ LastStepIsLive
    BY DEF Init, ListedBreakpointsExist, LastStepIsLive
  <2>. QED  BY <2>3, <2>4, <2>5 DEF RequestsInv
<1>2. TypeOK /\ OrderInv /\ RequestsInv /\ [Next]_vars => RequestsInv'
  <2> SUFFICES ASSUME TypeOK, OrderInv, RequestsInv, [Next]_vars
               PROVE  RequestsInv'
    OBVIOUS
  <2>1. CASE UNCHANGED vars
    BY <2>1 DEF vars, netVars, taskVars, callVars, dbgVars, deviceVars, historyVars, RequestsInv,
       AllAskedAndGranted, Asked, Granted, ListedBreakpointsExist, LastStepIsLive, LastStepIsKept,
       KeepsLastStep, ClearsFirst
  <2>. QED  BY <2>1, TakeReplyKeepsRequests, SendKeepsRequests, AnswerKeepsRequests,
            CallKeepsRequests, WaitKeepsRequests, TasksKeepRequests DEF Next, Caller
<1>. QED  BY <1>1, <1>2, TypeCorrect, OrderCorrect, PTL DEF Spec

\* As long as no round took a stale reply, every breakpoint the debugger lists is set at
\* the device, for any number of commands, answers and requests.
THEOREM ListedBreakpointsCorrect == Spec => []ListedBreakpointsExist
<1>1. RequestsInv => ListedBreakpointsExist
  BY DEF RequestsInv
<1>. QED  BY <1>1, RequestsCorrect, PTL

\* As long as no round took a stale reply, the step the debugger would clear is live at
\* the device.
THEOREM LastStepCorrect == Spec => []LastStepIsLive
<1>1. RequestsInv => LastStepIsLive
  BY DEF RequestsInv
<1>. QED  BY <1>1, RequestsCorrect, PTL
=============================================================================
