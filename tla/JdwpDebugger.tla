---------------------------- MODULE JdwpDebugger ----------------------------
(***************************************************************************)
(* The debugger of coeus: the Python-facing Debugger (debugging.rs) on the *)
(* JdwpClient (jdwp.rs), its two tokio tasks and their unbounded channels, *)
(* and the device at the other end of the TCP stream.                      *)
(*                                                                         *)
(*   caller --tx--> write task --out--> device --wire--> read task --rx--> *)
(*                                                                         *)
(* Packet ids are drawn at random and no reply is ever compared with the   *)
(* command it answers: whoever reads rx next takes whatever is there.  The *)
(* model numbers the commands instead, in the order they are sent, so that *)
(* a property can say which answer a round took.  Those numbers, and the   *)
(* counters sent, got, givenUp, swallowed, discarded, stale and stopSeen, *)
(* are history; no action is guarded by them except for the bounds Max...  *)
(*                                                                         *)
(* The device is not part of the repository.  It is modelled as the client *)
(* uses it: it answers every command once, in order, and reports a stop    *)
(* (breakpoint or step) only while it runs, suspending all its threads.    *)
(***************************************************************************)
EXTENDS JdwpRounds, FiniteSets

CONSTANTS
  Calls,        \* the calls the caller may make
  MaxSent,      \* bound: no call is begun once so many commands were sent
  MaxEvents,    \* bound: event packets the device sends
  MaxGivenUp,   \* bound: rounds that time out while the peer is still there
  MaxValue,     \* bound: classes, methods or fields an answer lists
  MayClose,     \* the caller may close the client
  MayLosePeer   \* the device may go away

ASSUME BoundsAssumption ==
  /\ Calls \subseteq CallNames \ {"new"}
  /\ MaxSent \in Nat /\ MaxEvents \in Nat /\ MaxGivenUp \in Nat /\ MaxValue \in Nat
  /\ MayClose \in BOOLEAN /\ MayLosePeer \in BOOLEAN

VARIABLES
  tx, out, wire, rx,          \* the two channels and the two directions of the stream
  link,                       \* TRUE while the peer is connected
  writer, reader,             \* TRUE while the task has not ended
  closing,                    \* close() has aborted both tasks
  op, todo, tries, phase,     \* the call being made: its rounds still to be done
  lastStep, breakPoints,      \* Debugger: last_step_id (an Option) and break_points
  clearing, hasFrame,         \* id given to clear_step; a DebuggerStackFrame exists
  suspended, bps, steps, nextRequest, answered, events,        \* the device
  sent, got, givenUp, swallowed, discarded, stale, stopSeen   \* history

netVars     == <<tx, out, wire, rx>>
taskVars    == <<link, writer, reader, closing>>
callVars    == <<op, todo, tries, phase>>
dbgVars     == <<lastStep, breakPoints, clearing, hasFrame>>
deviceVars  == <<suspended, bps, steps, nextRequest, answered, events>>
historyVars == <<sent, got, givenUp, swallowed, discarded, stale, stopSeen>>
vars == <<netVars, taskVars, callVars, dbgVars, deviceVars, historyVars>>

StopKinds  == {"breakpoint_hit", "step_done"}
EventKinds == StopKinds \cup {"other_event"}
ErrorCodes == {0, 34, 35}   \* 34 wrong type for a slot, 35 stands for every other error

Command == [cmd : Commands, seq : Nat, arg : Nat]
\* seq: of a reply, the number of the command it answers; of an event, the number
\* of commands the device had answered when it sent it.
Packet  == [type : {"reply"}, cmd : Commands, seq : Nat, err : ErrorCodes, val : Nat]
             \cup [type : {"event"}, cmd : EventKinds, seq : Nat, err : {0}, val : {0}]

IsReply(p) == p.type = "reply"
IsStop(p)  == p.type = "event" /\ p.cmd \in StopKinds

Init ==   \* connected, hand shaken, both tasks spawned, get_id_sizes about to run
  /\ tx = <<>> /\ out = <<>> /\ wire = <<>> /\ rx = <<>>
  /\ link = TRUE /\ writer = TRUE /\ reader = TRUE /\ closing = FALSE
  /\ op = "new" /\ todo = NewClient /\ tries = 0 /\ phase = "send"
  /\ lastStep = {} /\ breakPoints = {} /\ clearing = 0 /\ hasFrame = FALSE
  /\ suspended = FALSE /\ bps = {} /\ steps = {} /\ nextRequest = 1
  /\ answered = 0 /\ events = 0
  /\ sent = 0 /\ got = 0 /\ givenUp = 0 /\ swallowed = 0 /\ discarded = 0
  /\ stale = FALSE /\ stopSeen = FALSE

-----------------------------------------------------------------------------
(* The caller.                                                             *)

\* The call goes on with the rounds left, or returns when there are none.
Continue(left) ==
  /\ todo' = left
  /\ tries' = 0
  /\ phase' = IF left = <<>> THEN "idle" ELSE "send"
  /\ op' = IF left = <<>> THEN "none" ELSE op

\* The call returns an error or panics; a client that fails in new() is gone.
GiveUp ==
  /\ todo' = <<>>
  /\ tries' = 0
  /\ phase' = IF op = "new" THEN "failed" ELSE "idle"
  /\ op' = "none"

RoundFails == IF Head(todo).skip THEN Continue(Tail(todo)) ELSE GiveUp

\* An answer is accepted as the answer to the current round, with value v.
Accept(v) ==
  LET r == Head(todo) IN
  /\ IF r.cmd = "class" /\ v = 0 /\ op \in NeedsClass
     THEN GiveUp
     ELSE Continue(Inserted(r, v) \o Tail(todo))
  /\ lastStep' = IF r.cmd = "step" THEN {v} ELSE lastStep
  /\ breakPoints' = IF r.cmd = "breakpoint" THEN breakPoints \cup {v} ELSE breakPoints
  /\ hasFrame' = (hasFrame \/ r.cmd = "frames")
  /\ UNCHANGED clearing

\* Faulty variant of NextType: the iterator over the tags is one too long.
NextTypeOffByOne ==
  IF tries < TypeCount
  THEN tries' = tries + 1 /\ phase' = "send" /\ UNCHANGED <<op, todo>>
  ELSE Continue(Tail(todo))

\* get_values asks again for the same register with the next type tag, until
\* the tags run out.
NextType ==
  IF tries + 1 < TypeCount
  THEN tries' = tries + 1 /\ phase' = "send" /\ UNCHANGED <<op, todo>>
  ELSE Continue(Tail(todo))

StartCall(name) ==
  /\ phase = "idle"
  /\ sent < MaxSent
  /\ name \in FrameCalls => hasFrame
  /\ CallRounds[name] # <<>>   \* get_values of a method without registers does nothing
  /\ op' = name /\ todo' = CallRounds[name] /\ tries' = 0 /\ phase' = "send"
  /\ UNCHANGED <<netVars, taskVars, dbgVars, deviceVars, historyVars>>

\* send_cmd: the channel is unbounded, so sending never waits.
SendCommand ==
  /\ phase = "send"
  /\ writer
  /\ phase' = "await"
  /\ sent' = sent + 1
  /\ tx' = Append(tx, [cmd |-> Head(todo).cmd, seq |-> sent + 1,
                       arg |-> IF Head(todo).cmd = "clear_step" THEN clearing ELSE 0])
  /\ UNCHANGED <<out, wire, rx, taskVars, op, todo, tries, dbgVars, deviceVars,
                 got, givenUp, swallowed, discarded, stale, stopSeen>>

\* The write task is gone and with it the receiving end of the channel.
SendFails ==
  /\ phase = "send"
  /\ ~writer
  /\ RoundFails
  /\ UNCHANGED <<netVars, taskVars, dbgVars, deviceVars, historyVars>>

\* set_breakpoint gets the classes, then finds no method of that name.
MethodNotFound ==
  /\ phase = "send"
  /\ op = "set_breakpoint" /\ Head(todo).cmd = "breakpoint"
  /\ GiveUp
  /\ UNCHANGED <<netVars, taskVars, dbgVars, deviceVars, historyVars>>

\* What a round may read from the data of a successful reply: what the device
\* wrote when the reply has the expected layout, anything when it has another.
Readable(r, p) ==
  IF p.cmd = r.cmd THEN {p.val}
  ELSE IF p.cmd \in NoDataCommands THEN {} ELSE 0 .. MaxValue

TakeReply ==
  /\ phase = "await" /\ rx # <<>> /\ IsReply(Head(rx))
  /\ LET r == Head(todo)
         p == Head(rx)
     IN /\ \/ ~r.reads /\ Accept(p.val)
           \/ r.reads /\ p.err = 0 /\ \E v \in Readable(r, p) : Accept(v)
           \/ r.cmd = "values" /\ p.err = 34 /\ NextType /\ UNCHANGED dbgVars
           \/ /\ r.reads
              /\ \/ p.err = 0 /\ p.cmd # r.cmd
                 \/ p.err # 0 /\ ~(r.cmd = "values" /\ p.err = 34)
              /\ RoundFails
              /\ UNCHANGED dbgVars
        /\ stale' = (stale \/ p.seq # sent)
  /\ rx' = Tail(rx)
  /\ got' = got + 1
  /\ UNCHANGED <<tx, out, wire, taskVars, deviceVars, sent, givenUp, swallowed,
                 discarded, stopSeen>>

\* The round takes an event for its answer.  The event is lost.
TakeEvent ==
  /\ phase = "await" /\ rx # <<>> /\ ~IsReply(Head(rx))
  /\ CASE Head(todo).onEvent = "fail"  -> RoundFails
       [] Head(todo).onEvent = "panic" -> GiveUp
       [] OTHER                        -> Continue(Tail(todo))
  /\ rx' = Tail(rx)
  /\ swallowed' = swallowed + 1
  /\ UNCHANGED <<tx, out, wire, taskVars, dbgVars, deviceVars, sent, got, givenUp,
                 discarded, stale, stopSeen>>

\* wait_for_package: the sleep(10s) branch of the select! wins.
RoundTimeout ==
  /\ phase = "await" /\ Head(todo).timed
  /\ givenUp < MaxGivenUp \/ ~link
  /\ RoundFails
  /\ givenUp' = givenUp + 1
  /\ UNCHANGED <<netVars, taskVars, dbgVars, deviceVars, sent, got, swallowed,
                 discarded, stale, stopSeen>>

\* The read task is gone and the channel is drained: recv() returns None.
ChannelClosed ==
  /\ phase = "await" /\ ~reader /\ rx = <<>>
  /\ IF Head(todo).onEvent = "empty" THEN Continue(Tail(todo)) ELSE RoundFails
  /\ givenUp' = givenUp + 1
  /\ UNCHANGED <<netVars, taskVars, dbgVars, deviceVars, sent, got, swallowed,
                 discarded, stale, stopSeen>>

-----------------------------------------------------------------------------
(* Debugger.wait_for_package.                                              *)

WaitForPackage ==
  /\ phase = "idle"
  /\ op' = "wait_for_package" /\ phase' = "event" /\ todo' = <<>> /\ tries' = 0
  /\ UNCHANGED <<netVars, taskVars, dbgVars, deviceVars, historyVars>>

\* Faulty variant of WaitGetsStop: last_step_id is read, not taken.
WaitKeepsStepId ==
  /\ phase = "event" /\ rx # <<>> /\ IsStop(Head(rx))
  /\ LET clears == Head(rx).cmd = "step_done" /\ lastStep # {} IN
     /\ Continue(IF clears THEN <<ClearStep, TopFrame>> ELSE <<TopFrame>>)
     /\ clearing' = IF clears THEN CHOOSE id \in lastStep : TRUE ELSE clearing
  /\ rx' = Tail(rx)
  /\ stopSeen' = TRUE
  /\ UNCHANGED <<tx, out, wire, taskVars, lastStep, breakPoints, hasFrame, deviceVars,
                 sent, got, givenUp, swallowed, discarded, stale>>

\* A breakpoint or a step: clear the step request if there is one, then ask for
\* the top frame of the stopped thread.
WaitGetsStop ==
  /\ phase = "event" /\ rx # <<>> /\ IsStop(Head(rx))
  /\ LET clears == Head(rx).cmd = "step_done" /\ lastStep # {} IN
     /\ Continue(IF clears THEN <<ClearStep, TopFrame>> ELSE <<TopFrame>>)
     /\ lastStep' = IF clears THEN {} ELSE lastStep
     /\ clearing' = IF clears THEN CHOOSE id \in lastStep : TRUE ELSE clearing
  /\ rx' = Tail(rx)
  /\ stopSeen' = TRUE
  /\ UNCHANGED <<tx, out, wire, taskVars, breakPoints, hasFrame, deviceVars, sent,
                 got, givenUp, swallowed, discarded, stale>>

\* Any other event leaves composite.events empty, and events[0] panics.
WaitGetsOther ==
  /\ phase = "event" /\ rx # <<>> /\ ~IsReply(Head(rx)) /\ ~IsStop(Head(rx))
  /\ GiveUp
  /\ rx' = Tail(rx)
  /\ UNCHANGED <<tx, out, wire, taskVars, dbgVars, deviceVars, historyVars>>

\* Faulty variant of WaitGetsReply: everything pending is thrown away.
WaitDrainsChannel ==
  /\ phase = "event" /\ rx # <<>> /\ IsReply(Head(rx))
  /\ GiveUp
  /\ rx' = <<>>
  /\ got' = got + 1
  /\ discarded' = discarded + 1
  /\ UNCHANGED <<tx, out, wire, taskVars, dbgVars, deviceVars, sent, givenUp,
                 swallowed, stale, stopSeen>>

\* A reply left over from a round that gave up: "Nothing".
WaitGetsReply ==
  /\ phase = "event" /\ rx # <<>> /\ IsReply(Head(rx))
  /\ GiveUp
  /\ rx' = Tail(rx)
  /\ got' = got + 1
  /\ discarded' = discarded + 1
  /\ UNCHANGED <<tx, out, wire, taskVars, dbgVars, deviceVars, sent, givenUp,
                 swallowed, stale, stopSeen>>

\* Ten seconds pass, or the channel is closed: "Nothing".
WaitGetsNothing ==
  /\ phase = "event"
  /\ GiveUp
  /\ UNCHANGED <<netVars, taskVars, dbgVars, deviceVars, historyVars>>

-----------------------------------------------------------------------------
(* The two tasks and close().                                              *)

\* Faulty variant of WriteTask: the packet is written, then written again.
WriteTaskTwice ==
  /\ writer /\ link /\ tx # <<>>
  /\ out' = out \o <<Head(tx), Head(tx)>>
  /\ tx' = Tail(tx)
  /\ UNCHANGED <<wire, rx, taskVars, callVars, dbgVars, deviceVars, historyVars>>

WriteTask ==
  /\ writer /\ link /\ tx # <<>>
  /\ out' = Append(out, Head(tx))
  /\ tx' = Tail(tx)
  /\ UNCHANGED <<wire, rx, taskVars, callVars, dbgVars, deviceVars, historyVars>>

\* Writing to a stream without a peer: the bytes are lost, or write_all fails,
\* the task ends and drops the receiver with all it holds.
WriteToNobody ==
  /\ writer /\ ~link /\ tx # <<>>
  /\ \/ tx' = Tail(tx) /\ UNCHANGED writer
     \/ tx' = <<>> /\ writer' = FALSE
  /\ UNCHANGED <<out, wire, rx, link, reader, closing, callVars, dbgVars, deviceVars,
                 historyVars>>

\* Faulty variant of ReadTask: the newest packet is handed out first.
ReadTaskLifo ==
  /\ reader /\ wire # <<>>
  /\ rx' = <<Head(wire)>> \o rx
  /\ wire' = Tail(wire)
  /\ UNCHANGED <<tx, out, taskVars, callVars, dbgVars, deviceVars, historyVars>>

\* Faulty variant of ReadTask: an error reply is logged and not passed on.
ReadTaskDropsErrors ==
  /\ reader /\ wire # <<>>
  /\ rx' = IF Head(wire).err = 0 THEN Append(rx, Head(wire)) ELSE rx
  /\ wire' = Tail(wire)
  /\ UNCHANGED <<tx, out, taskVars, callVars, dbgVars, deviceVars, historyVars>>

\* One packet is read and passed on, a reply or a command by its flags.  At the
\* end of the stream the task does not end: it retries read_u32 for ever.
ReadTask ==
  /\ reader /\ wire # <<>>
  /\ rx' = Append(rx, Head(wire))
  /\ wire' = Tail(wire)
  /\ UNCHANGED <<tx, out, taskVars, callVars, dbgVars, deviceVars, historyVars>>

Close ==
  /\ MayClose /\ phase = "idle" /\ ~closing
  /\ closing' = TRUE
  /\ UNCHANGED <<netVars, link, writer, reader, callVars, dbgVars, deviceVars,
                 historyVars>>

\* An aborted task stops at its next await, dropping its end of the channel.
WriterAborted ==
  /\ closing /\ writer
  /\ writer' = FALSE
  /\ tx' = <<>>
  /\ UNCHANGED <<out, wire, rx, link, reader, closing, callVars, dbgVars, deviceVars,
                 historyVars>>

\* Faulty variant of ReaderAborted: close() forgets the read task.
ReaderOutlivesClose == FALSE /\ UNCHANGED vars

ReaderAborted ==
  /\ closing /\ reader
  /\ reader' = FALSE
  /\ UNCHANGED <<netVars, link, writer, closing, callVars, dbgVars, deviceVars,
                 historyVars>>

-----------------------------------------------------------------------------
(* The device.                                                             *)

\* The error code and the value the device answers a command with.
Outcomes(c) ==
  CASE c.cmd \in {"breakpoint", "step"}        -> {<<0, nextRequest>>, <<35, 0>>}
    [] c.cmd \in {"class", "all_classes"}      -> {0} \X (0 .. MaxValue)
    [] c.cmd \in {"methods", "fields"}         -> ({0} \X (0 .. MaxValue)) \cup {<<35, 0>>}
    [] c.cmd = "frames" /\ suspended           -> {<<0, 0>>}
    [] c.cmd = "values" /\ suspended           -> {<<0, 0>>, <<34, 0>>, <<35, 0>>}
    [] c.cmd \in {"frames", "values"}          -> {<<35, 0>>}
    [] c.cmd \in {"id_sizes", "version", "resume", "clear_step"} -> {<<0, 0>>}
    [] OTHER                                   -> {<<0, 0>>, <<35, 0>>}

DeviceAnswers ==
  /\ link /\ out # <<>>
  /\ LET c == Head(out) IN \E o \in Outcomes(c) :
       /\ wire' = Append(wire, [type |-> "reply", cmd |-> c.cmd, seq |-> c.seq,
                                err |-> o[1], val |-> o[2]])
       /\ bps' = IF c.cmd = "breakpoint" /\ o[1] = 0 THEN bps \cup {o[2]} ELSE bps
       /\ steps' = CASE c.cmd = "step" /\ o[1] = 0 -> steps \cup {o[2]}
                     [] c.cmd = "clear_step"       -> steps \ {c.arg}
                     [] OTHER                      -> steps
       /\ nextRequest' = IF c.cmd \in {"breakpoint", "step"} /\ o[1] = 0
                         THEN nextRequest + 1 ELSE nextRequest
       /\ suspended' = (suspended /\ c.cmd # "resume")
  /\ out' = Tail(out)
  /\ answered' = answered + 1
  /\ UNCHANGED <<tx, rx, taskVars, callVars, dbgVars, events, historyVars>>

DeviceEvent(kind) ==
  /\ link /\ events < MaxEvents
  /\ kind \in StopKinds => ~suspended
  /\ kind = "breakpoint_hit" => bps # {}
  /\ kind = "step_done" => steps # {}
  /\ wire' = Append(wire, [type |-> "event", cmd |-> kind, seq |-> answered,
                           err |-> 0, val |-> 0])
  /\ suspended' = (suspended \/ kind \in StopKinds)
  /\ stopSeen' = (stopSeen /\ kind \notin StopKinds)
  /\ events' = events + 1
  /\ UNCHANGED <<tx, out, rx, taskVars, callVars, dbgVars, bps, steps, nextRequest,
                 answered, sent, got, givenUp, swallowed, discarded, stale>>

\* The device goes away; what it had sent may be lost from some point on.
PeerGone ==
  /\ MayLosePeer /\ link
  /\ link' = FALSE
  /\ out' = <<>>
  /\ \E n \in 0 .. Len(wire) : wire' = SubSeq(wire, 1, n)
  /\ UNCHANGED <<tx, rx, writer, reader, closing, callVars, dbgVars, deviceVars,
                 historyVars>>

-----------------------------------------------------------------------------
Caller ==
  \/ SendCommand \/ SendFails \/ TakeReply \/ TakeEvent \/ ChannelClosed
  \/ WaitGetsStop \/ WaitGetsOther \/ WaitGetsReply

Tasks == WriteTask \/ WriteToNobody \/ ReadTask \/ WriterAborted \/ ReaderAborted

Next ==
  \/ \E name \in Calls : StartCall(name)
  \/ WaitForPackage \/ Close \/ MethodNotFound
  \/ Caller \/ RoundTimeout \/ WaitGetsNothing
  \/ Tasks
  \/ DeviceAnswers
  \/ \E kind \in EventKinds : DeviceEvent(kind)
  \/ PeerGone

Spec == Init /\ [][Next]_vars

\* The runtime polls the tasks and the blocked caller, its timers fire, and a
\* connected device answers.  Nothing obliges the caller to make a call, the
\* device to send an event, or a timer to fire before the answer is there.
Fairness ==
  /\ WF_vars(Caller)
  /\ WF_vars(WriteTask) /\ WF_vars(WriteToNobody) /\ WF_vars(ReadTask)
  /\ WF_vars(WriterAborted) /\ WF_vars(ReaderAborted)
  /\ WF_vars(DeviceAnswers)
  /\ WF_vars(WaitGetsNothing)
  /\ WF_vars(~link /\ RoundTimeout)

FairSpec == Spec /\ Fairness
-----------------------------------------------------------------------------
(* Properties.                                                             *)

NetTypeOK ==
  /\ tx \in Seq(Command) /\ out \in Seq(Command)
  /\ wire \in Seq(Packet) /\ rx \in Seq(Packet)
  /\ link \in BOOLEAN /\ writer \in BOOLEAN /\ reader \in BOOLEAN /\ closing \in BOOLEAN

CallTypeOK ==
  /\ op \in CallNames \cup {"none", "wait_for_package"}
  /\ todo \in Seq(Rounds)
  /\ tries \in 0 .. TypeCount - 1
  /\ phase \in {"idle", "send", "await", "event", "failed"}
  /\ phase \in {"send", "await"} <=> todo # <<>>

DebuggerTypeOK ==
  /\ lastStep \in SUBSET Nat /\ breakPoints \in SUBSET Nat
  /\ clearing \in Nat /\ hasFrame \in BOOLEAN

DeviceTypeOK ==
  /\ suspended \in BOOLEAN /\ bps \in SUBSET Nat /\ steps \in SUBSET Nat
  /\ nextRequest \in Nat /\ answered \in Nat /\ events \in Nat

HistoryTypeOK ==
  /\ sent \in Nat /\ got \in Nat /\ givenUp \in Nat /\ swallowed \in Nat
  /\ discarded \in Nat /\ stale \in BOOLEAN /\ stopSeen \in BOOLEAN

\* Every variable has its type; a call is sending or awaiting exactly while it has
\* rounds left, so that no round is ever taken from an empty list.
TypeOK == NetTypeOK /\ CallTypeOK /\ DebuggerTypeOK /\ DeviceTypeOK /\ HistoryTypeOK

\* The answers still owed to rounds that stopped waiting for them: each timeout
\* and each swallowed event leaves one behind, each reply wait_for_package throws
\* away removes one.
Owed == givenUp + swallowed - discarded

\* The inductive invariant behind NextReplyIsOwedOne.  On the way to the caller the
\* replies are numbered without a gap, an event carrying the number of the reply
\* before it; got is the number of the last reply taken.
Increment(p) == IF IsReply(p) THEN 1 ELSE 0
Before(b, q, i) == IF i = 1 THEN b ELSE q[i - 1].seq
Chained(b, q) == \A i \in 1 .. Len(q) : q[i].seq = Before(b, q, i) + Increment(q[i])
LastSeq(b, q) == IF q = <<>> THEN b ELSE q[Len(q)].seq
UpTo(n, q)    == \A i \in 1 .. Len(q) : q[i].seq <= n

AnswersInOrder ==
  /\ Chained(got, rx)
  /\ Chained(LastSeq(got, rx), wire)
  /\ link => LastSeq(LastSeq(got, rx), wire) = answered
  /\ UpTo(answered, rx) /\ UpTo(answered, wire)

\* On the way to the device the commands are numbered without a gap, too.
CommandsInOrder ==
  /\ answered + Len(out) <= sent
  /\ link => \A i \in 1 .. Len(out) : out[i].seq = answered + i
  /\ link /\ writer =>
       /\ \A i \in 1 .. Len(tx) : tx[i].seq = answered + Len(out) + i
       /\ sent = answered + Len(out) + Len(tx)

\* Every command sent was answered, is the one the caller awaits, or is owed.
OwedAccount ==
  /\ Owed >= 0
  /\ sent = got + Owed + (IF phase = "await" THEN 1 ELSE 0)

\* Nothing the stream does can separate a reply from its place in the order.
OrderInv == AnswersInOrder /\ CommandsInOrder /\ OwedAccount

\* The next reply a round can take is the answer to its own command exactly when
\* no earlier round left its answer behind; otherwise it is the answer to the
\* command as many commands ago as there are answers owed.
NextReplyIsOwedOne ==
  phase = "await" /\ rx # <<>> /\ IsReply(Head(rx)) =>
    /\ Owed >= 0
    /\ Head(rx).seq = sent - Owed

\* As long as no round took a stale reply, every breakpoint the debugger lists is
\* one the device has, under the id the device gave it.
ListedBreakpointsExist == ~stale => breakPoints \subseteq bps

\* As long as no round took a stale reply, last_step_id is a step request that is
\* live at the device, so that clear_step clears it.
LastStepIsLive == ~stale => lastStep \subseteq steps

\* The inductive invariant behind the two.  The command with the number sent is the
\* current round's, and so is its answer: an answer with that number names a request
\* the device has, since the device has answered every command that could remove it.
\* A request that is on its way to be cleared is no longer the last step, for a
\* clear_step is sent only by a call that has given last_step_id away.
Asked ==
  {c \in Command : /\ c.seq <= sent
                   /\ phase = "await" /\ c.seq = sent => c.cmd = Head(todo).cmd}
Granted ==
  {p \in Packet : IsReply(p) =>
     /\ phase = "await" /\ p.seq = sent => p.cmd = Head(todo).cmd
     /\ p.cmd = "breakpoint" /\ p.err = 0 => p.val \in bps
     /\ p.cmd = "step" /\ p.err = 0 /\ p.seq = sent => p.val \in steps}
KeepsLastStep == {c \in Command : c.cmd = "clear_step" => c.arg \notin lastStep}
NoClearing == {r \in Rounds : r.cmd # "clear_step"}

AllAskedAndGranted ==
  /\ tx \in Seq(Asked) /\ out \in Seq(Asked)
  /\ wire \in Seq(Granted) /\ rx \in Seq(Granted)
LastStepIsKept ==
  ~stale /\ link => /\ out \in Seq(KeepsLastStep)
                    /\ writer => tx \in Seq(KeepsLastStep)
ClearsFirst ==
  /\ todo # <<>> => Tail(todo) \in Seq(NoClearing)
  /\ phase = "send" /\ Head(todo).cmd = "clear_step" => lastStep = {}

RequestsInv ==
  AllAskedAndGranted /\ ListedBreakpointsExist /\ LastStepIsLive /\ LastStepIsKept /\ ClearsFirst

\* A stop the device reported and the debugger has not been told of is on its way
\* to the debugger, unless a round took it for the answer to a command.
UnseenStopIsUnderway ==
  suspended /\ ~stopSeen /\ swallowed = 0 /\ link =>
    \E i \in 1 .. Len(rx \o wire) : IsStop((rx \o wire)[i])

\* "If a breakpoint is hit, we should get a composite event": a stop leaves the
\* channel only into Debugger.wait_for_package.
StopsReachWaitForPackage ==
  [][rx # <<>> /\ IsStop(Head(rx)) /\ rx' = Tail(rx) => phase = "event"]_vars

\* What the caller takes from rx is what the device wrote, in that order, nothing
\* lost, added or reordered before the peer goes away.
Stream == INSTANCE PacketStream WITH stream <- rx \o wire, up <- link, Packets <- Packet
StreamSpec == Stream!Spec

\* While the device is there every call returns, also those that wait for their
\* answer without a timeout: the answer a round waits for has not been taken.
CallsReturn ==
  (phase \in {"send", "await", "event"}) ~> (phase \in {"idle", "failed"} \/ ~link \/ closing)

\* "It will give up after 10s": wait_for_package, and every call that uses only
\* rounds with a timeout, returns also when the device is gone.
TimedCalls ==
  {"wait_for_package", "resume", "step", "get_values", "set_value", "get_version_info"}
TimedCallsReturn ==
  (phase \in {"send", "await", "event"} /\ op \in TimedCalls) ~> (phase \in {"idle", "failed"})

\* Once the client is closed no call is left waiting, whatever it waits with.
CloseReleasesCalls ==
  (closing /\ phase \in {"send", "await", "event"}) ~> (phase = "idle")
=============================================================================
