-------------------------- MODULE ModuleCommProofs --------------------------
(***************************************************************************)
(* Theorems about ModuleComm, for any number of modules, any masks, any    *)
(* bounds and any depth of nesting.                                        *)
(***************************************************************************)
EXTENDS ModuleComm, WellFoundedInduction, SequenceTheorems, TLAPS

LEMMA Sizes ==
    N \in Nat /\ 0 \in 0 .. N /\ Initial \in 0 .. N /\ MaxMsgs \in Nat
BY SizeAssumption

LEMMA ModuleIds == Modules \subseteq 0 .. N /\ 0 \notin Modules
BY Sizes DEF Modules

(* A set of modules that is not empty has a greatest member, so the head of
   module_list and the cell behind another are what their names say.       *)
LEMMA GreatestIn ==
    ASSUME NEW S \in SUBSET Modules, S # {}
    PROVE  Greatest(S) \in S /\ \A x \in S : x <= Greatest(S)
<1> DEFINE R == {N - x : x \in S}
<1>0. N \in Nat /\ S \subseteq 1 .. N
    BY Sizes DEF Modules
<1>1. \A x \in S : N - x \in Nat
    BY <1>0
<1>2. R \subseteq Nat /\ R # {}
    BY <1>1
<1>3. PICK r \in R : \A y \in R : ~(<<y, r>> \in OpToRel(<, Nat))
    BY <1>2, NatLessThanWellFounded, WFMin
<1>4. \A y \in R : ~(y < r)
    BY <1>2, <1>3 DEF OpToRel
<1>5. PICK g \in S : r = N - g
    BY <1>3
<1>6. \A x \in S : x <= g
    BY <1>0, <1>4, <1>5
<1> QED
    BY <1>0, <1>6 DEF Greatest
-----------------------------------------------------------------------------
(* The C stack: what pushing, popping and changing a frame leave alone. *)

LEMMA PushFrame ==
    ASSUME NEW s \in Seq(Frames), NEW f \in Frames
    PROVE  /\ Append(s, f) \in Seq(Frames) /\ Len(Append(s, f)) = Len(s) + 1
           /\ \A i \in 1 .. Len(s) : Append(s, f)[i] = s[i]
           /\ Append(s, f)[Len(s) + 1] = f
OBVIOUS

LEMMA PopFrame ==
    ASSUME stack \in Seq(Frames), Depth > 0
    PROVE  /\ Pop \in Seq(Frames) /\ Len(Pop) = Depth - 1
           /\ \A i \in 1 .. Depth - 1 : Pop[i] = stack[i]
<1>1. /\ 1 \in Int /\ Depth - 1 \in Int /\ Depth \in Nat
      /\ \A i \in 1 .. Depth - 1 : stack[i] \in Frames
    BY DEF Depth
<1>2. /\ Pop \in Seq(Frames)
      /\ Len(Pop) = IF 1 <= Depth - 1 THEN Depth - 1 - 1 + 1 ELSE 0
      /\ \A i \in 1 .. Depth - 1 - 1 + 1 : Pop[i] = stack[1 + i - 1]
    BY <1>1, SubSeqProperties DEF Pop
<1> QED
    BY <1>1, <1>2

LEMMA ChangeFrame ==
    ASSUME stack \in Seq(Frames), Depth > 0, NEW f \in Frames
    PROVE  /\ Become(f) \in Seq(Frames) /\ Len(Become(f)) = Depth
           /\ \A i \in 1 .. Depth - 1 : Become(f)[i] = stack[i]
           /\ Become(f)[Depth] = f
BY DEF Become, Depth

LEMMA TopFrame ==
    ASSUME stack \in Seq(Frames), Depth > 0
    PROVE  T \in Frames /\ Depth \in 1 .. Depth
BY DEF T, Depth

(* The frames the actions build. *)
LEMMA FrameType ==
    ASSUME NEW k \in {"loop", "send", "flush", "cmd", "start"},
           NEW pc \in {"select", "io", "exec", "next", "write", "wait", "post", "run"},
           NEW mod \in 0 .. N, NEW itr \in 0 .. N
    PROVE  k # "send" => Frame(k, pc, mod, itr) \in Frames
BY DEF Frame, Frames, FrameRecords

LEMMA FlushFrameType ==
    ASSUME NEW m \in 0 .. N
    PROVE  FlushFrame(m) \in Frames
BY Sizes, FrameType DEF FlushFrame

LEMMA CmdFrameType ==
    ASSUME NEW m \in 0 .. N, NEW ops \in SUBSET Ops
    PROVE  CmdFrame(m, ops) \in Frames
BY Sizes DEF CmdFrame, Frame, Frames, FrameRecords

LEMMA ExecuteType ==
    ASSUME NEW m \in 0 .. N, NEW item, NEW ops \in SUBSET Ops
    PROVE  Execute(m, item, ops) \in Frames
BY CmdFrameType DEF Execute

LEMMA FirstType ==
    ASSUME listed \subseteq Modules
    PROVE  First \in 0 .. N /\ (First = 0 \/ First \in listed)
<1>1. CASE listed = {}
    BY <1>1, Sizes DEF First, Greatest
<1>2. CASE listed # {}
  <2>1. First \in listed
    BY <1>2, GreatestIn DEF First
  <2> QED
    BY <2>1, Sizes DEF Modules
<1> QED
    BY <1>1, <1>2

LEMMA AfterType ==
    ASSUME listed \subseteq Modules, NEW m \in 0 .. N
    PROVE  After(m) \in 0 .. N /\ (After(m) = 0 \/ (After(m) \in listed /\ After(m) < m))
<1> DEFINE S == {x \in listed : x < m}
<1>1. CASE S = {}
    BY <1>1, Sizes DEF After, Greatest
<1>2. CASE S # {}
  <2>1. Greatest(S) \in S
    BY <1>2, GreatestIn
  <2>2. After(m) \in listed /\ After(m) < m
    BY <2>1 DEF After
  <2> QED
    BY <2>2, ModuleIds
<1> QED
    BY <1>1, <1>2

(* Queues and pipes. *)
LEMMA PutInQueue ==
    ASSUME NEW S, NEW f \in [Modules -> Seq(S)], NEW m, NEW x \in S
    PROVE  [f EXCEPT ![m] = Append(@, x)] \in [Modules -> Seq(S)]
<1>1. ASSUME NEW y \in Modules
      PROVE  (IF y = m THEN Append(f[m], x) ELSE f[y]) \in Seq(S)
    BY <1>1
<1> QED
    BY <1>1

LEMMA TakeFromQueue ==
    ASSUME NEW S, NEW f \in [Modules -> Seq(S)], NEW m, f[m] # <<>>
    PROVE  /\ [f EXCEPT ![m] = Tail(@)] \in [Modules -> Seq(S)]
           /\ m \in Modules => Head(f[m]) \in S
<1>1. ASSUME NEW y \in Modules
      PROVE  (IF y = m THEN Tail(f[m]) ELSE f[y]) \in Seq(S)
    BY <1>1, HeadTailProperties
<1> QED
    BY <1>1, HeadTailProperties

-----------------------------------------------------------------------------
(* Type correctness. *)

LEMMA InitType == Init => TypeOK
<1> SUFFICES ASSUME Init PROVE TypeOK
    OBVIOUS
<1>1. stack \in Seq(Frames)
  <2>1. Frame("loop", "select", 0, 0) \in Frames
    BY Sizes, FrameType
  <2> QED
    BY <2>1 DEF Init
<1>2. listed \subseteq Modules /\ alive \subseteq Modules /\ started \in 0 .. N
    BY Sizes DEF Init, Modules
<1>3. masks \in [Modules -> Masks]
    BY MaskAssumption DEF Init
<1>4. /\ queue \in [Modules -> Seq(Messages)] /\ pipe \in [Modules -> Seq(Messages)]
      /\ inp \in [Modules -> Seq(Items)] /\ owes \in [Modules -> Seq(Nat)]
      /\ cqueue \in Seq([mod : Modules, item : Items])
      /\ items \in [Modules -> Nat] /\ sent \in 0 .. MaxMsgs
    BY Sizes DEF Init
<1> QED
    BY <1>1, <1>2, <1>3, <1>4 DEF Init, TypeOK

(* What a step may put on the stack. *)
LEMMA StackSteps ==
    ASSUME TypeOK, Depth > 0
    PROVE  /\ T \in Frames /\ T.mod \in 0 .. N /\ T.itr \in 0 .. N
           /\ T.ops \in SUBSET Ops
           /\ Pop \in Seq(Frames)
           /\ \A f \in Frames : Push(f) \in Seq(Frames) /\ Become(f) \in Seq(Frames)
           /\ \A pc \in {"select", "io", "exec", "next", "write", "wait", "post", "run"} :
                 /\ [T EXCEPT !.pc = pc] \in Frames /\ Goto(pc) \in Seq(Frames)
                 /\ \A f \in Frames : GotoAndPush(pc, f) \in Seq(Frames)
           /\ FlushFrame(T.mod) \in Frames
<1>1. stack \in Seq(Frames)
    BY DEF TypeOK
<1>2. T \in Frames
    BY <1>1, TopFrame
<1>3. /\ T.mod \in 0 .. N /\ T.itr \in 0 .. N /\ T.ops \in SUBSET Ops
      /\ \A pc \in {"select", "io", "exec", "next", "write", "wait", "post", "run"} :
            [T EXCEPT !.pc = pc] \in Frames
    BY <1>2 DEF Frames, FrameRecords
<1>4. \A f \in Frames : Push(f) \in Seq(Frames) /\ Become(f) \in Seq(Frames)
    BY <1>1, PushFrame, ChangeFrame DEF Push
<1>5. \A pc \in {"select", "io", "exec", "next", "write", "wait", "post", "run"} :
          Goto(pc) \in Seq(Frames)
    BY <1>3, <1>4 DEF Goto
<1> QED
    BY <1>1, <1>2, <1>3, <1>4, <1>5, PopFrame, PushFrame, FlushFrameType DEF GotoAndPush

LEMMA KillType ==
    ASSUME TypeOK, NEW ms, Kill(ms)
    PROVE  /\ listed' \subseteq Modules /\ deathRow' \subseteq Modules
           /\ freed' \subseteq Modules /\ started' \in 0 .. N /\ masks' \in [Modules -> Masks]
BY DEF Kill, TypeOK

LEMMA SendingType == TypeOK /\ Sending => TypeOK'
<1> SUFFICES ASSUME TypeOK, Sending PROVE TypeOK'
    OBVIOUS
<1>0. Depth > 0
    BY DEF Sending, SendNext, PositiveWrite, SendPost, At
<1>1. CASE SendNext
  <2>1. stack' \in Seq(Frames)
    <3>1. CASE T.itr = 0
      BY <1>0, <1>1, <3>1, StackSteps DEF SendNext
    <3>2. CASE T.itr # 0
      <4> DEFINE f == [T EXCEPT !.mod = T.itr, !.itr = After(T.itr),
                                !.pc = IF T.itr \in T.to THEN "write" ELSE "next"]
      <4>1. T \in Frames /\ T.itr \in 0 .. N
        BY <1>0, StackSteps
      <4>2. After(T.itr) \in 0 .. N
        BY <4>1, AfterType DEF TypeOK
      <4>3. f \in Frames
        BY <4>1, <4>2 DEF Frames, FrameRecords
      <4> QED
        BY <1>0, <1>1, <3>2, <4>3, StackSteps DEF SendNext
    <3> QED
      BY <3>1, <3>2
  <2> QED
    BY <1>1, <2>1 DEF SendNext, TypeOK, listVars, procVars, dataVars
<1>2. CASE PositiveWrite
  <2>1. stack' \in Seq(Frames)
    BY <1>0, <1>2, StackSteps DEF PositiveWrite
  <2>2. queue' \in [Modules -> Seq(Messages)]
    <3>1. T.msg \in Messages
      BY <1>0, <1>2, StackSteps DEF PositiveWrite, At, Frames, FrameRecords
    <3>2. queue \in [Modules -> Seq(Messages)]
      BY DEF TypeOK
    <3>3. \/ queue' = [queue EXCEPT ![T.mod] = Append(@, T.msg)]
          \/ queue' = queue
      BY <1>2 DEF PositiveWrite
    <3>4. [queue EXCEPT ![T.mod] = Append(@, T.msg)] \in [Modules -> Seq(Messages)]
      BY <3>1, <3>2, PutInQueue, Zenon
    <3> QED
      BY <3>2, <3>3, <3>4, Zenon
  <2> QED
    BY <1>2, <2>1, <2>2 DEF PositiveWrite, TypeOK, listVars, procVars
<1>3. CASE SendPost
  <2>1. stack' \in Seq(Frames)
    BY <1>0, <1>3, StackSteps DEF SendPost
  <2> QED
    BY <1>3, <2>1 DEF SendPost, TypeOK, listVars, procVars, dataVars
<1> QED
    BY <1>1, <1>2, <1>3 DEF Sending

LEMMA FlushingType == TypeOK /\ Flushing => TypeOK'
<1> SUFFICES ASSUME TypeOK, Flushing PROVE TypeOK'
    OBVIOUS
<1>0. Depth > 0
    BY DEF Flushing, FlushWrite, FlushDone, FlushFails, At
<1>1. CASE FlushWrite
  <2>1. queue \in [Modules -> Seq(Messages)] /\ pipe \in [Modules -> Seq(Messages)]
    BY DEF TypeOK
  <2>2. T.mod \in Modules /\ queue[T.mod] # <<>>
    BY <1>1 DEF FlushWrite, TypeOK
  <2>3. queue' \in [Modules -> Seq(Messages)] /\ Head(queue[T.mod]) \in Messages
    <3>1. queue' = [queue EXCEPT ![T.mod] = Tail(@)]
      BY <1>1 DEF FlushWrite
    <3> QED
      BY <2>1, <2>2, <3>1, TakeFromQueue, Zenon
  <2>4. pipe' \in [Modules -> Seq(Messages)]
    <3>1. pipe' = [pipe EXCEPT ![T.mod] = Append(@, Head(queue[T.mod]))]
      BY <1>1 DEF FlushWrite
    <3> QED
      BY <2>1, <2>3, <3>1, PutInQueue, Zenon
  <2> QED
    BY <1>1, <2>3, <2>4 DEF FlushWrite, TypeOK, listVars, procVars
<1>2. CASE FlushDone
  BY <1>0, <1>2, StackSteps DEF FlushDone, TypeOK, listVars, procVars, dataVars
<1>3. CASE FlushFails
  <2>1. stack' \in Seq(Frames)
    BY <1>0, <1>3, StackSteps DEF FlushFails
  <2> QED
    BY <1>3, <2>1, KillType DEF FlushFails, TypeOK, procVars, dataVars
<1> QED
    BY <1>1, <1>2, <1>3 DEF Flushing

(* What Receive does, whatever it waits for. *)
TakesInput(m) ==
    /\ inp[m] # <<>>
    /\ inp' = [inp EXCEPT ![m] = Tail(@)]
    /\ Kill({m}) \/ UNCHANGED listVars
    /\ UNCHANGED <<procVars, queue, pipe, sent>>

LEMMA TakesInputType ==
    ASSUME TypeOK, NEW m, TakesInput(m), stack' \in Seq(Frames),
           cqueue' \in Seq([mod : Modules, item : Items])
    PROVE  TypeOK'
<1>1. inp' \in [Modules -> Seq(Items)]
  <2>1. inp \in [Modules -> Seq(Items)]
    BY DEF TypeOK
  <2> QED
    BY <2>1, TakeFromQueue DEF TakesInput
<1>2. CASE Kill({m})
  BY <1>1, <1>2, KillType DEF TakesInput, TypeOK, procVars
<1>3. CASE UNCHANGED listVars
  BY <1>1, <1>3 DEF TakesInput, TypeOK, procVars, listVars
<1> QED
  BY <1>2, <1>3 DEF TakesInput

LEMMA ReceiveFailsType ==
    ASSUME TypeOK, NEW m, ReceiveFails(m), stack' \in Seq(Frames)
    PROVE  TypeOK'
<1>1. Kill({m}) /\ UNCHANGED <<procVars, dataVars>>
  BY DEF ReceiveFails
<1> QED
  BY <1>1, KillType DEF TypeOK, procVars, dataVars

LEMMA WaitingType == TypeOK /\ Waiting => TypeOK'
<1> SUFFICES ASSUME TypeOK, Waiting PROVE TypeOK'
    OBVIOUS
<1>0. /\ Depth > 0 /\ T.mod \in 0 .. N
      /\ cqueue \in Seq([mod : Modules, item : Items])
    BY StackSteps DEF Waiting, WaitUnlock, WaitCommand, WaitEOF, WaitTimeout, At, TypeOK
<1>1. CASE WaitUnlock
  BY <1>0, <1>1, StackSteps, TakesInputType DEF WaitUnlock, Receive, TakesInput
<1>2. CASE WaitCommand
  <2>1. Execute(T.mod, Head(inp[T.mod]), SyncOps) \in Frames
    BY <1>0, OpsAssumption, ExecuteType DEF OpsAssumption
  <2> QED
    BY <1>0, <1>2, <2>1, StackSteps, TakesInputType DEF WaitCommand, Receive, TakesInput
<1>3. CASE WaitEOF
  BY <1>0, <1>3, StackSteps, ReceiveFailsType DEF WaitEOF
<1>4. CASE WaitTimeout
  <2>1. stack' \in Seq(Frames)
    BY <1>0, <1>4, StackSteps DEF WaitTimeout
  <2> QED
    BY <1>4, <2>1, KillType DEF WaitTimeout, TypeOK, procVars, dataVars
<1> QED
    BY <1>1, <1>2, <1>3, <1>4 DEF Waiting

LEMMA StartingType == TypeOK /\ Starting => TypeOK'
<1> SUFFICES ASSUME TypeOK, Starting PROVE TypeOK'
    OBVIOUS
<1>0. /\ Depth > 0 /\ T.mod \in 0 .. N
      /\ cqueue \in Seq([mod : Modules, item : Items])
    BY StackSteps DEF Starting, StartFinished, StartCommand, StartEOF, StartFlush,
                      StartGivenUp, At, TypeOK
<1>1. CASE StartFinished
  BY <1>0, <1>1, StackSteps, TakesInputType DEF StartFinished, Receive, TakesInput
<1>2. CASE StartCommand
  <2>1. Execute(T.mod, Head(inp[T.mod]), QueuedOps) \in Frames
    BY <1>0, OpsAssumption, ExecuteType DEF OpsAssumption
  <2> QED
    BY <1>0, <1>2, <2>1, StackSteps, TakesInputType DEF StartCommand, Receive, TakesInput
<1>3. CASE StartEOF
  BY <1>0, <1>3, StackSteps, ReceiveFailsType DEF StartEOF
<1>4. CASE StartFlush
  <2>1. stack' \in Seq(Frames)
    BY <1>0, <1>4, StackSteps DEF StartFlush
  <2> QED
    BY <1>4, <2>1 DEF StartFlush, TypeOK, listVars, procVars, dataVars
<1>5. CASE StartGivenUp
  <2>1. stack' \in Seq(Frames)
    BY <1>0, <1>5, StackSteps DEF StartGivenUp
  <2> QED
    BY <1>5, <2>1 DEF StartGivenUp, TypeOK, listVars, procVars, dataVars
<1> QED
    BY <1>1, <1>2, <1>3, <1>4, <1>5 DEF Starting

(* A command that sends, whatever kind of frame it pushes. *)
LEMMA NewSendType ==
    ASSUME NEW c \in Classes, NEW ms \in SUBSET Modules, NEW pc \in {"next", "write"},
           NEW mod \in 0 .. N, NEW itr \in 0 .. N, NEW grab \in BOOLEAN,
           NEW push \in BOOLEAN, sent \in 0 .. MaxMsgs, sent < MaxMsgs
    PROVE  NewSend(c, ms, pc, mod, itr, grab, push) \in Frames
<1>1. [n |-> sent + 1, cls |-> c] \in Messages
    BY Sizes DEF Messages
<1> QED
    BY <1>1, Sizes DEF NewSend, Frame, Frames, FrameRecords

LEMMA SendType ==
    ASSUME TypeOK, Depth > 0, NEW f \in Frames, Send(f)
    PROVE  TypeOK'
<1>1. stack' \in Seq(Frames)
    BY StackSteps DEF Send
<1>2. sent' \in 0 .. MaxMsgs
    BY Sizes DEF Send, TypeOK
<1> QED
    BY <1>1, <1>2 DEF Send, TypeOK, listVars, procVars

LEMMA LaunchType ==
    ASSUME TypeOK, NEW m \in Modules, Launch(m), stack' \in Seq(Frames)
    PROVE  TypeOK'
<1>1. started' \in 0 .. N
    BY ModuleIds DEF Launch
<1>2. masks' \in [Modules -> Masks]
  <2>1. DefaultMasks \in Masks
    BY DEF DefaultMasks, Masks
  <2> QED
    BY <2>1 DEF Launch, TypeOK
<1> QED
    BY <1>1, <1>2 DEF Launch, TypeOK, dataVars

LEMMA CommandingType == TypeOK /\ Commanding => TypeOK'
<1> SUFFICES ASSUME TypeOK, Commanding PROVE TypeOK'
    OBVIOUS
<1>0. Depth > 0
    BY DEF Commanding, Broadcast, SendToModule, SendReply, SetMasks, KillModule,
           StartModule, StartSynchronous, Wait, May, At
<1>1. ASSUME NEW c \in Classes, NEW grab \in BOOLEAN, Broadcast(c, grab)
      PROVE  TypeOK'
  <2>1. First \in 0 .. N /\ sent \in 0 .. MaxMsgs /\ sent < MaxMsgs
    BY <1>1, FirstType DEF TypeOK, Broadcast, Send
  <2>2. NewSend(c, Modules, "next", 0, First, grab, FALSE) \in Frames
    BY <2>1, Sizes, NewSendType
  <2> QED
    BY <1>0, <1>1, <2>2, SendType DEF Broadcast
<1>2. ASSUME NEW c \in Classes, NEW m \in Modules, SendToModule(c, {m})
      PROVE  TypeOK'
  <2>1. First \in 0 .. N /\ sent \in 0 .. MaxMsgs /\ sent < MaxMsgs
    BY <1>2, FirstType DEF TypeOK, SendToModule, Send
  <2>2. NewSend(c, {m}, "next", 0, First, FALSE, TRUE) \in Frames
    BY <2>1, Sizes, NewSendType
  <2> QED
    BY <1>0, <1>2, <2>2, SendType DEF SendToModule
<1>3. ASSUME NEW c \in Classes, SendReply(c)
      PROVE  TypeOK'
  <2>1. T.mod \in 0 .. N /\ T.mod # 0 /\ sent \in 0 .. MaxMsgs /\ sent < MaxMsgs
    BY <1>0, <1>3, StackSteps DEF TypeOK, SendReply, Send
  <2>2. NewSend(c, {T.mod}, "write", T.mod, 0, FALSE, TRUE) \in Frames
    <3>1. {T.mod} \in SUBSET Modules
      BY <2>1, Sizes DEF Modules
    <3> QED
      BY <2>1, <3>1, Sizes, NewSendType
  <2> QED
    BY <1>0, <1>3, <2>2, SendType DEF SendReply
<1>4. CASE SetMasks
  <2>1. masks' \in [Modules -> Masks]
    BY <1>4, MaskAssumption DEF SetMasks, TypeOK
  <2> QED
    BY <1>4, <2>1 DEF SetMasks, TypeOK, procVars, dataVars
<1>5. ASSUME NEW m \in Modules, KillModule({m})
      PROVE  TypeOK'
  BY <1>5, KillType DEF KillModule, TypeOK, procVars, dataVars
<1>6. ASSUME NEW m \in Modules, StartModule(m)
      PROVE  TypeOK'
  BY <1>6, LaunchType DEF StartModule, TypeOK
<1>7. ASSUME NEW m \in Modules, StartSynchronous(m)
      PROVE  TypeOK'
  <2>1. Frame("start", "wait", m, 0) \in Frames
    BY Sizes, ModuleIds, FrameType
  <2>2. stack' \in Seq(Frames)
    BY <1>0, <1>7, <2>1, StackSteps DEF StartSynchronous
  <2> QED
    BY <1>7, <2>2, LaunchType DEF StartSynchronous
<1>8. CASE Wait
  <2>1. Frame("loop", "select", 0, 0) \in Frames
    BY Sizes, FrameType
  <2>2. stack' \in Seq(Frames)
    BY <1>0, <1>8, <2>1, StackSteps DEF Wait
  <2> QED
    BY <1>8, <2>2 DEF Wait, TypeOK, listVars, procVars, dataVars
<1> QED
    BY <1>1, <1>2, <1>3, <1>4, <1>5, <1>6, <1>7, <1>8 DEF Commanding

LEMMA LoopingType == TypeOK /\ Looping => TypeOK'
<1> SUFFICES ASSUME TypeOK, Looping PROVE TypeOK'
    OBVIOUS
<1>0. /\ Depth > 0 /\ T \in Frames /\ T.mod \in 0 .. N /\ T.itr \in 0 .. N
      /\ listed \subseteq Modules
      /\ cqueue \in Seq([mod : Modules, item : Items])
  <2>1. Depth > 0
    BY DEF Looping, Select, IoReceive, IoReceiveFails, IoNoInput, IoModule,
           IoFlush, IoDone, ExecuteCommand, Cleanup, At
  <2> QED
    BY <2>1, StackSteps DEF TypeOK
<1>1. NextModule \in Seq(Frames)
  <2>1. [T EXCEPT !.pc = "post", !.mod = T.itr, !.itr = After(T.itr)] \in Frames
    BY <1>0, AfterType DEF Frames, FrameRecords
  <2> QED
    BY <1>0, <2>1, StackSteps DEF NextModule
<1>2. CASE Select
  <2>1. [T EXCEPT !.pc = "io", !.itr = First,
                  !.to = {m \in listed : Readable(m)}] \in Frames
    <3>1. {m \in listed : Readable(m)} \in SUBSET Modules
      BY <1>0
    <3> QED
      BY <1>0, <3>1, FirstType DEF Frames, FrameRecords
  <2>2. stack' \in Seq(Frames)
    BY <1>0, <1>2, <2>1, StackSteps DEF Select
  <2> QED
    BY <1>2, <2>2 DEF Select, TypeOK, listVars, procVars, dataVars
<1>3. CASE IoReceive
  <2>1. TakesInput(T.itr) /\ T.itr \in Modules
    BY <1>0, <1>3 DEF IoReceive, IoModule, Receive, TakesInput
  <2>2. Head(inp[T.itr]) \in Items
    BY <2>1, TakeFromQueue DEF TakesInput, TypeOK
  <2>3. cqueue' \in Seq([mod : Modules, item : Items])
    BY <1>0, <1>3, <2>1, <2>2 DEF IoReceive
  <2> QED
    BY <1>1, <1>3, <2>1, <2>3, TakesInputType DEF IoReceive
<1>4. CASE IoReceiveFails
  BY <1>1, <1>4, ReceiveFailsType DEF IoReceiveFails
<1>5. CASE IoNoInput
  BY <1>1, <1>5 DEF IoNoInput, TypeOK, listVars, procVars, dataVars
<1>6. CASE IoFlush
  <2>1. stack' \in Seq(Frames)
    BY <1>0, <1>6, StackSteps DEF IoFlush
  <2> QED
    BY <1>6, <2>1 DEF IoFlush, TypeOK, listVars, procVars, dataVars
<1>7. CASE IoDone
  <2>1. [T EXCEPT !.pc = "exec", !.to = {}, !.mod = 0] \in Frames
    BY <1>0, Sizes DEF Frames, FrameRecords
  <2>2. stack' \in Seq(Frames)
    BY <1>0, <1>7, <2>1, StackSteps DEF IoDone
  <2> QED
    BY <1>7, <2>2 DEF IoDone, TypeOK, listVars, procVars, dataVars
<1>8. CASE ExecuteCommand
  <2>1. Head(cqueue) \in [mod : Modules, item : Items]
        /\ cqueue' \in Seq([mod : Modules, item : Items])
    BY <1>0, <1>8, HeadTailProperties DEF ExecuteCommand
  <2>2. Execute(Head(cqueue).mod, Head(cqueue).item, QueuedOps) \in Frames
    BY <2>1, ModuleIds, OpsAssumption, ExecuteType DEF OpsAssumption
  <2>3. stack' \in Seq(Frames)
    BY <1>0, <1>8, <2>2, StackSteps DEF ExecuteCommand
  <2> QED
    BY <1>8, <2>1, <2>3 DEF ExecuteCommand, TypeOK, listVars, procVars
<1>9. CASE Cleanup
  <2>1. stack' \in Seq(Frames)
    BY <1>0, <1>9, StackSteps DEF Cleanup
  <2>2. queue' \in [Modules -> Seq(Messages)] /\ inp' \in [Modules -> Seq(Items)]
    BY <1>9 DEF Cleanup, TypeOK
  <2> QED
    BY <1>9, <2>1, <2>2 DEF Cleanup, TypeOK, procVars
<1> QED
    BY <1>2, <1>3, <1>4, <1>5, <1>6, <1>7, <1>8, <1>9 DEF Looping

LEMMA ModuleStepType ==
    ASSUME TypeOK, NEW m \in Modules, ModuleStep(m)
    PROVE  TypeOK'
<1>1. CASE ModuleReads(m)
  <2>1. pipe' \in [Modules -> Seq(Messages)] /\ Head(pipe[m]) \in Messages
    BY <1>1, TakeFromQueue DEF ModuleReads, TypeOK
  <2>2. owes' \in [Modules -> Seq(Nat)]
    <3>1. Head(pipe[m]).n \in Nat
      BY <2>1, Sizes DEF Messages
    <3>2. [owes EXCEPT ![m] = Append(@, Head(pipe[m]).n)] \in [Modules -> Seq(Nat)]
      BY <3>1, PutInQueue DEF TypeOK
    <3>3. \/ owes' = [owes EXCEPT ![m] = Append(@, Head(pipe[m]).n)]
          \/ owes' = [owes EXCEPT ![m] = @]
      BY <1>1 DEF ModuleReads
    <3> QED
      BY <3>2, <3>3 DEF TypeOK
  <2> QED
    BY <1>1, <2>1, <2>2 DEF ModuleReads, TypeOK, listVars
<1>2. CASE ModuleUnlocks(m)
  <2>1. owes' \in [Modules -> Seq(Nat)] /\ Head(owes[m]) \in Nat
    BY <1>2, TakeFromQueue DEF ModuleUnlocks, TypeOK
  <2>2. [t |-> "unlock", n |-> Head(owes[m])] \in Items
    BY <2>1 DEF Items, ItemTypes
  <2>3. inp' \in [Modules -> Seq(Items)]
    BY <1>2, <2>2, PutInQueue DEF ModuleUnlocks, TypeOK
  <2> QED
    BY <1>2, <2>1, <2>3 DEF ModuleUnlocks, TypeOK, listVars
<1>3. ASSUME NEW t \in {"cmd", "finished"}, ModuleSends(m, t)
      PROVE  TypeOK'
  <2>1. items' \in [Modules -> Nat]
    BY <1>3 DEF ModuleSends, TypeOK
  <2>2. [t |-> t, n |-> items'[m]] \in Items
    BY <2>1 DEF Items, ItemTypes
  <2>3. inp' \in [Modules -> Seq(Items)]
    BY <1>3, <2>2, PutInQueue DEF ModuleSends, TypeOK
  <2> QED
    BY <1>3, <2>1, <2>3 DEF ModuleSends, TypeOK, listVars
<1>4. ASSUME NEW polite \in BOOLEAN, ModuleExits(m, polite)
      PROVE  TypeOK'
  <2>1. [t |-> "quit", n |-> items[m]] \in Items
    BY DEF Items, ItemTypes, TypeOK
  <2>2. inp' \in [Modules -> Seq(Items)]
    BY <1>4, <2>1, PutInQueue DEF ModuleExits, TypeOK
  <2>3. pipe' \in [Modules -> Seq(Messages)] /\ owes' \in [Modules -> Seq(Nat)]
    BY <1>4 DEF ModuleExits, TypeOK
  <2> QED
    BY <1>4, <2>2, <2>3 DEF ModuleExits, TypeOK, listVars
<1> QED
    BY <1>1, <1>2, <1>3, <1>4 DEF ModuleStep

LEMMA OtherType == TypeOK /\ (Return \/ HandleEvent \/ WaitOver \/ Crash) => TypeOK'
<1> SUFFICES ASSUME TypeOK, Return \/ HandleEvent \/ WaitOver \/ Crash PROVE TypeOK'
    OBVIOUS
<1>1. CASE Return \/ WaitOver
  BY <1>1, StackSteps DEF Return, WaitOver, At, TypeOK, listVars, procVars, dataVars
<1>2. CASE HandleEvent
  <2>1. CmdFrame(0, EventOps) \in Frames
    BY Sizes, OpsAssumption, CmdFrameType DEF OpsAssumption
  <2>2. stack' \in Seq(Frames)
    BY <1>2, <2>1, StackSteps DEF HandleEvent, At
  <2> QED
    BY <1>2, <2>2 DEF HandleEvent, TypeOK, listVars, procVars, dataVars
<1>3. CASE Crash
  BY <1>3 DEF Crash, TypeOK, listVars, procVars, dataVars
<1> QED
    BY <1>1, <1>2, <1>3

LEMMA NextType == TypeOK /\ [Next]_vars => TypeOK'
<1> SUFFICES ASSUME TypeOK, [Next]_vars PROVE TypeOK'
    OBVIOUS
<1>1. CASE Next
  BY <1>1, SendingType, FlushingType, WaitingType, StartingType, CommandingType,
     LoopingType, ModuleStepType, OtherType DEF Next
<1>2. CASE UNCHANGED vars
  BY <1>2 DEF vars, TypeOK
<1> QED
    BY <1>1, <1>2

(* fvwm's records of the modules keep their types: in particular every frame
   of the C stack, every queue and every pipe only holds what belongs there,
   whatever the modules and the commands do.                               *)
THEOREM TypeCorrect == Spec => []TypeOK
<1>1. Init => TypeOK
    BY InitType
<1>2. TypeOK /\ [Next]_vars => TypeOK'
    BY NextType
<1> QED
    BY <1>1, <1>2, PTL DEF Spec

-----------------------------------------------------------------------------
(* The records of the modules. *)

(* What most steps do to the lists: nothing, or a module_kill. *)
OnlyKills == UNCHANGED <<started, listed, deathRow, freed>> \/ \E ms : Kill(ms)

LEMMA KillsKeepRecords ==
    ASSUME RecordsAccountedFor, OnlyKills, UNCHANGED cqueue
    PROVE  RecordsAccountedFor'
BY DEF RecordsAccountedFor, OnlyKills, Kill

LEMMA QuietSteps ==
    ASSUME \/ Sending \/ Flushing \/ Waiting \/ Starting \/ Return
           \/ HandleEvent \/ WaitOver \/ Crash
           \/ \E m \in Modules : ModuleStep(m)
           \/ Select \/ IoReceiveFails \/ IoNoInput \/ IoFlush \/ IoDone
    PROVE  OnlyKills /\ UNCHANGED cqueue
<1>1. CASE Sending
  BY <1>1 DEF Sending, SendNext, PositiveWrite, SendPost, listVars, dataVars, OnlyKills
<1>2. CASE Flushing
  BY <1>2 DEF Flushing, FlushWrite, FlushDone, FlushFails, listVars, dataVars, OnlyKills
<1>3. CASE Waiting
  BY <1>3 DEF Waiting, WaitUnlock, WaitCommand, WaitEOF, WaitTimeout, Receive,
              ReceiveFails, listVars, dataVars, OnlyKills
<1>4. CASE Starting
  BY <1>4 DEF Starting, StartFinished, StartCommand, StartEOF, StartFlush, StartGivenUp,
              Receive, ReceiveFails, listVars, dataVars, OnlyKills
<1>5. CASE Return \/ HandleEvent \/ WaitOver \/ Crash
  BY <1>5 DEF Return, HandleEvent, WaitOver, Crash, listVars, dataVars, OnlyKills
<1>6. ASSUME NEW m \in Modules, ModuleStep(m)
      PROVE  OnlyKills /\ UNCHANGED cqueue
  BY <1>6 DEF ModuleStep, ModuleReads, ModuleUnlocks, ModuleSends, ModuleExits,
              listVars, OnlyKills
<1>7. CASE Select \/ IoReceiveFails \/ IoNoInput \/ IoFlush \/ IoDone
  BY <1>7 DEF Select, IoReceiveFails, IoNoInput, IoFlush, IoDone, ReceiveFails,
              listVars, dataVars, OnlyKills
<1> QED
  BY <1>1, <1>2, <1>3, <1>4, <1>5, <1>6, <1>7

LEMMA LaunchKeepsRecords ==
    ASSUME TypeOK, RecordsAccountedFor, NEW m \in Modules, Launch(m)
    PROVE  RecordsAccountedFor'
<1>1. /\ started \in Nat /\ m = started + 1
      /\ started' = m /\ listed' = listed \cup {m}
      /\ UNCHANGED <<deathRow, freed, cqueue>>
    BY Sizes DEF Launch, TypeOK, dataVars
<1>2. m \notin listed /\ m \notin deathRow /\ m \notin freed
    BY <1>1 DEF RecordsAccountedFor
<1>3. 1 .. m = (1 .. started) \cup {m}
    BY <1>1
<1> QED
    BY <1>1, <1>2, <1>3 DEF RecordsAccountedFor

LEMMA CommandingKeepsRecords ==
    TypeOK /\ RecordsAccountedFor /\ Commanding => RecordsAccountedFor'
<1> SUFFICES ASSUME TypeOK, RecordsAccountedFor, Commanding
             PROVE  RecordsAccountedFor'
    OBVIOUS
<1>1. CASE \/ \E c \in Classes, grab \in BOOLEAN : Broadcast(c, grab)
           \/ \E c \in Classes, m \in Modules : SendToModule(c, {m})
           \/ \E c \in Classes : SendReply(c)
           \/ SetMasks
           \/ \E m \in Modules : KillModule({m})
           \/ Wait
  <2>1. OnlyKills /\ UNCHANGED cqueue
    BY <1>1 DEF Broadcast, SendToModule, SendReply, Send, SetMasks, KillModule, Wait,
                listVars, dataVars, OnlyKills
  <2> QED
    BY <2>1, KillsKeepRecords
<1>2. ASSUME NEW m \in Modules, StartModule(m) \/ StartSynchronous(m)
      PROVE  RecordsAccountedFor'
  BY <1>2, LaunchKeepsRecords DEF StartModule, StartSynchronous
<1> QED
  BY <1>1, <1>2 DEF Commanding

LEMMA QueueingKeepsRecords ==
    ASSUME TypeOK, RecordsAccountedFor, IoReceive \/ ExecuteCommand \/ Cleanup
    PROVE  RecordsAccountedFor'
<1>0. cqueue \in Seq([mod : Modules, item : Items])
    BY DEF TypeOK
<1>1. CASE IoReceive
  <2> DEFINE e == [mod |-> T.itr, item |-> Head(inp[T.itr])]
  <2>1. OnlyKills /\ T.itr \in listed /\ cqueue' = Append(cqueue, e)
    BY <1>1 DEF IoReceive, IoModule, Receive, listVars, OnlyKills
  <2>2. freed' = freed /\ T.itr \notin freed
    BY <2>1 DEF OnlyKills, Kill, RecordsAccountedFor
  <2>3. \A i \in DOMAIN cqueue' : cqueue'[i] = e \/ (i \in DOMAIN cqueue /\ cqueue'[i] = cqueue[i])
    BY <1>0, <2>1
  <2>4. \A i \in DOMAIN cqueue' : cqueue'[i].mod \notin freed'
    BY <2>2, <2>3 DEF RecordsAccountedFor
  <2> QED
    BY <2>1, <2>4 DEF RecordsAccountedFor, OnlyKills, Kill
<1>2. CASE ExecuteCommand
  <2>1. cqueue # <<>> /\ cqueue' = Tail(cqueue) /\ UNCHANGED listVars
    BY <1>2 DEF ExecuteCommand
  <2>2. \A i \in DOMAIN cqueue' : i + 1 \in DOMAIN cqueue /\ cqueue'[i] = cqueue[i + 1]
    BY <1>0, <2>1
  <2> QED
    BY <2>1, <2>2 DEF RecordsAccountedFor, listVars
<1>3. CASE Cleanup
  BY <1>3 DEF Cleanup, RecordsAccountedFor
<1> QED
  BY <1>1, <1>2, <1>3

LEMMA NextRecords == TypeOK /\ RecordsAccountedFor /\ [Next]_vars => RecordsAccountedFor'
<1> SUFFICES ASSUME TypeOK, RecordsAccountedFor, [Next]_vars
             PROVE  RecordsAccountedFor'
    OBVIOUS
<1>1. CASE UNCHANGED vars
  BY <1>1 DEF vars, RecordsAccountedFor
<1>2. CASE Commanding \/ IoReceive \/ ExecuteCommand \/ Cleanup
  BY <1>2, CommandingKeepsRecords, QueueingKeepsRecords
<1>3. CASE ~Commanding /\ ~IoReceive /\ ~ExecuteCommand /\ ~Cleanup /\ Next
  BY <1>3, QuietSteps, KillsKeepRecords DEF Next, Looping
<1> QED
  BY <1>1, <1>2, <1>3

(* Every module that was ever started is in exactly one of module_list, the
   death row and the set of freed records, and no command of a freed module
   waits in the command queue, whatever kills modules and whenever.        *)
THEOREM RecordsCorrect == Spec => []RecordsAccountedFor
<1>1. Init => RecordsAccountedFor
    BY Sizes DEF Init, RecordsAccountedFor
<1>2. TypeOK /\ RecordsAccountedFor /\ [Next]_vars => RecordsAccountedFor'
    BY NextRecords
<1> QED
    BY <1>1, <1>2, TypeCorrect, PTL DEF Spec
-----------------------------------------------------------------------------
(* The packets on their way. *)

(* The numbers of some messages, and of those on their way to each module. *)
Nums(q) == {q[i].n : i \in 1 .. Len(q)}
Carried == [m \in Modules |-> Nums(pipe[m]) \cup Nums(queue[m])]

(* A frame by itself: it works for a module that was started, if for any; a
   frame that sends has not yet reached the modules up to its iterator, which
   is a cell behind the one it is about to write to.                       *)
Ahead(g, m) == m <= g.itr \/ (g.pc = "write" /\ m = g.mod)
FrameNumbered(g, st, n, c) ==
    /\ g.mod <= st
    /\ g.k = "send" =>
          /\ g.msg.n <= n
          /\ g.pc = "write" => g.itr < g.mod
          /\ \A m \in Modules : Ahead(g, m) => g.msg.n \notin c[m]

(* No two frames send the same message. *)
StackNumbered(s, st, n, c) ==
    /\ \A i \in 1 .. Len(s) : FrameNumbered(s[i], st, n, c)
    /\ \A i, j \in 1 .. Len(s) :
          s[i].k = "send" /\ s[j].k = "send" /\ s[i].msg.n = s[j].msg.n => i = j

(* Only messages that were sent are on their way, only to modules that were
   started, and none is queued for one whose record is freed.              *)
QueuesNumbered ==
    /\ alive \subseteq 1 .. started
    /\ \A m \in Modules : Carried[m] \subseteq 1 .. sent
    /\ \A m \in Modules : m > started => pipe[m] = <<>> /\ queue[m] = <<>>
    /\ \A m \in freed : queue[m] = <<>>
    /\ \A i \in 1 .. Len(cqueue) : cqueue[i].mod <= started

ChannelInv ==
    /\ TypeOK /\ RecordsAccountedFor
    /\ StackNumbered(stack, started, sent, Carried)
    /\ QueuesNumbered

-----------------------------------------------------------------------------
(* Numbers of messages on their way. *)

LEMMA NumsOf ==
    ASSUME NEW q \in Seq(Messages)
    PROVE  /\ \A x : x \in Nums(q) <=> \E i \in 1 .. Len(q) : q[i].n = x
           /\ Nums(q) \subseteq Nat
<1>1. \A i \in 1 .. Len(q) : q[i] \in Messages
    OBVIOUS
<1>2. \A i \in 1 .. Len(q) : q[i].n \in Nat
    BY <1>1, Sizes DEF Messages
<1> QED
    BY <1>2 DEF Nums

LEMMA NumsAppend ==
    ASSUME NEW q \in Seq(Messages), NEW x \in Messages
    PROVE  Nums(Append(q, x)) = Nums(q) \cup {x.n}
<1> DEFINE r == Append(q, x)
<1>1. /\ Len(q) \in Nat /\ Len(r) = Len(q) + 1 /\ r[Len(q) + 1] = x
      /\ \A i \in 1 .. Len(q) : r[i] = q[i]
    OBVIOUS
<1> HIDE DEF r
<1>2. 1 .. Len(r) = (1 .. Len(q)) \cup {Len(q) + 1}
    BY <1>1
<1>3. ASSUME NEW i \in 1 .. Len(r)
      PROVE  r[i].n \in Nums(q) \cup {x.n}
    BY <1>1, <1>2, <1>3 DEF Nums
<1>4. ASSUME NEW i \in 1 .. Len(q)
      PROVE  q[i].n \in Nums(r)
    BY <1>1, <1>2, <1>4 DEF Nums
<1>5. x.n \in Nums(r)
    BY <1>1, <1>2 DEF Nums
<1> QED
    BY <1>3, <1>4, <1>5 DEF Nums, r

LEMMA NumsTail ==
    ASSUME NEW q \in Seq(Messages), q # <<>>
    PROVE  /\ Head(q) \in Messages
           /\ Nums(q) = {Head(q).n} \cup Nums(Tail(q))
<1> DEFINE r == Tail(q)
<1>1. /\ Len(q) \in Nat /\ Len(q) > 0 /\ Len(r) = Len(q) - 1 /\ Head(q) = q[1]
      /\ q[1] \in Messages
      /\ \A i \in 1 .. Len(r) : r[i] = q[i + 1]
    OBVIOUS
<1> HIDE DEF r
<1>3. ASSUME NEW i \in 1 .. Len(q)
      PROVE  q[i].n \in {Head(q).n} \cup Nums(r)
  <2>1. CASE i = 1
    BY <1>1, <2>1
  <2>2. CASE i # 1
    <3>1. i - 1 \in 1 .. Len(r) /\ r[i - 1] = q[i - 1 + 1] /\ i - 1 + 1 = i
      BY <1>1, <2>2
    <3> QED
      BY <3>1 DEF Nums
  <2> QED
    BY <2>1, <2>2
<1>4. ASSUME NEW i \in 1 .. Len(r)
      PROVE  r[i].n \in Nums(q)
  <2>1. i + 1 \in 1 .. Len(q) /\ r[i] = q[i + 1]
    BY <1>1
  <2> QED
    BY <2>1 DEF Nums
<1>5. Head(q).n \in Nums(q)
  <2>1. 1 \in 1 .. Len(q)
    BY <1>1
  <2> QED
    BY <1>1, <2>1 DEF Nums
<1> QED
    BY <1>1, <1>3, <1>4, <1>5 DEF Nums, r

LEMMA NumsEmpty == Nums(<<>>) = {}
BY DEF Nums

-----------------------------------------------------------------------------
(* What keeps the frames numbered. *)

(* Messages that are read or lost, or sent and started modules that are more. *)
LEMMA NumberedLess ==
    ASSUME NEW s \in Seq(Frames), NEW st \in Nat, NEW st2 \in Nat, NEW n \in Nat,
           NEW n2 \in Nat, NEW c, NEW d, StackNumbered(s, st, n, c),
           st <= st2, n <= n2, \A m \in Modules : d[m] \subseteq c[m]
    PROVE  StackNumbered(s, st2, n2, d)
<1>1. ASSUME NEW i \in 1 .. Len(s)
      PROVE  FrameNumbered(s[i], st2, n2, d)
  <2> DEFINE g == s[i]
  <2>1. g \in Frames /\ FrameNumbered(g, st, n, c)
    BY DEF StackNumbered
  <2>2. g.mod \in 0 .. N /\ (g.k = "send" => g.msg.n \in Nat)
    BY <2>1, Sizes DEF Frames, FrameRecords, Messages
  <2> HIDE DEF g
  <2>3. g.mod <= st2 /\ (g.k = "send" => g.msg.n <= n2)
    BY <2>1, <2>2, Sizes DEF FrameNumbered
  <2>4. FrameNumbered(g, st2, n2, d)
    BY <2>1, <2>3 DEF FrameNumbered
  <2> QED
    BY <2>4 DEF g
<1> QED
    BY <1>1 DEF StackNumbered

LEMMA NumberedPush ==
    ASSUME NEW s \in Seq(Frames), NEW g \in Frames, NEW st, NEW n, NEW c,
           StackNumbered(s, st, n, c), FrameNumbered(g, st, n, c),
           g.k = "send" => \A i \in 1 .. Len(s) : s[i].k = "send" => s[i].msg.n # g.msg.n
    PROVE  StackNumbered(Append(s, g), st, n, c)
<1> DEFINE r == Append(s, g)
<1>1. /\ Len(s) \in Nat /\ Len(r) = Len(s) + 1 /\ r[Len(s) + 1] = g
      /\ \A i \in 1 .. Len(s) : r[i] = s[i]
    BY PushFrame
<1>2. \A i \in 1 .. Len(r) : i \in 1 .. Len(s) \/ i = Len(s) + 1
    BY <1>1
<1> HIDE DEF r
<1>3. ASSUME NEW i \in 1 .. Len(r)
      PROVE  FrameNumbered(r[i], st, n, c)
    BY <1>1, <1>2 DEF StackNumbered
<1>4. ASSUME NEW i \in 1 .. Len(r), NEW j \in 1 .. Len(r),
             r[i].k = "send", r[j].k = "send", r[i].msg.n = r[j].msg.n
      PROVE  i = j
    BY <1>1, <1>2, <1>4 DEF StackNumbered
<1>5. StackNumbered(r, st, n, c)
    BY <1>3, <1>4 DEF StackNumbered
<1> QED
    BY <1>5 DEF r

LEMMA NumberedPop ==
    ASSUME stack \in Seq(Frames), Depth > 0, NEW st, NEW n, NEW c,
           StackNumbered(stack, st, n, c)
    PROVE  StackNumbered(Pop, st, n, c)
<1>1. /\ Depth \in Nat /\ Len(Pop) = Depth - 1 /\ Len(stack) = Depth
      /\ \A i \in 1 .. Depth - 1 : Pop[i] = stack[i]
    BY PopFrame DEF Depth
<1>2. \A i \in 1 .. Len(Pop) : i \in 1 .. Len(stack) /\ Pop[i] = stack[i]
    BY <1>1
<1> QED
    BY <1>2 DEF StackNumbered

(* Another frame in the place of the top frame, which may only go on sending
   what that one sends.                                                    *)
LEMMA NumberedChange ==
    ASSUME stack \in Seq(Frames), Depth > 0, NEW g \in Frames, NEW st, NEW n, NEW c,
           StackNumbered(stack, st, n, c), FrameNumbered(g, st, n, c),
           g.k = T.k /\ g.msg = T.msg
    PROVE  StackNumbered(Become(g), st, n, c)
<1> DEFINE r == Become(g)
<1>1. /\ Len(stack) = Depth /\ Len(r) = Depth /\ r[Depth] = g /\ T = stack[Depth]
      /\ Depth \in Nat /\ Depth \in 1 .. Depth
      /\ \A i \in 1 .. Depth - 1 : r[i] = stack[i]
    BY ChangeFrame DEF Depth, T
<1>2. \A i \in 1 .. Depth : i \in 1 .. Depth - 1 \/ i = Depth
    BY <1>1
<1> HIDE DEF r
<1>3. ASSUME NEW i \in 1 .. Len(r)
      PROVE  FrameNumbered(r[i], st, n, c) /\ r[i].k = stack[i].k /\ r[i].msg = stack[i].msg
    BY <1>1, <1>2 DEF StackNumbered
<1>4. StackNumbered(r, st, n, c)
    BY <1>1, <1>3 DEF StackNumbered
<1> QED
    BY <1>4 DEF r

(* The top frame puts its message on its way to a module that is not ahead. *)
LEMMA NumberedPut ==
    ASSUME NEW s \in Seq(Frames), NEW st, NEW n, NEW c, NEW d, NEW h \in 1 .. Len(s),
           StackNumbered(s, st, n, c), s[h].k = "send", NEW w \in Modules,
           ~Ahead(s[h], w), d[w] = c[w] \cup {s[h].msg.n},
           \A m \in Modules : m # w => d[m] = c[m]
    PROVE  StackNumbered(s, st, n, d)
<1>1. ASSUME NEW i \in 1 .. Len(s)
      PROVE  FrameNumbered(s[i], st, n, d)
  <2>1. FrameNumbered(s[i], st, n, c)
    BY DEF StackNumbered
  <2>2. ASSUME NEW m \in Modules, Ahead(s[i], m), s[i].k = "send"
        PROVE  s[i].msg.n \notin d[m]
    <3>1. s[i].msg.n \notin c[m]
      BY <2>1, <2>2 DEF FrameNumbered
    <3>2. CASE m # w
      BY <3>1, <3>2
    <3>3. CASE m = w /\ i # h
      <4>1. s[i].msg.n # s[h].msg.n
        BY <2>2, <3>3 DEF StackNumbered
      <4> QED
        BY <3>1, <3>3, <4>1
    <3>4. CASE m = w /\ i = h
      BY <2>2, <3>4
    <3> QED
      BY <3>2, <3>3, <3>4
  <2> QED
    BY <2>1, <2>2 DEF FrameNumbered
<1> QED
    BY <1>1 DEF StackNumbered

-----------------------------------------------------------------------------
(* What the steps do to the stack. *)

(* The C stack, as it is. *)
Numbered(s) == s \in Seq(Frames) /\ StackNumbered(s, started, sent, Carried)

LEMMA TopNumbered ==
    ASSUME ChannelInv, Depth > 0
    PROVE  /\ stack \in Seq(Frames) /\ Numbered(stack) /\ Numbered(Pop)
           /\ T \in Frames /\ T.mod \in 0 .. N /\ T.itr \in 0 .. N
           /\ FrameNumbered(T, started, sent, Carried)
           /\ started \in Nat /\ sent \in Nat
           /\ Depth \in 1 .. Len(stack) /\ T = stack[Depth]
<1>1. /\ TypeOK /\ stack \in Seq(Frames) /\ started \in Nat /\ sent \in Nat
      /\ StackNumbered(stack, started, sent, Carried)
    BY Sizes DEF ChannelInv, TypeOK
<1>2. Depth \in 1 .. Len(stack) /\ T = stack[Depth]
    BY <1>1 DEF Depth, T
<1>3. FrameNumbered(T, started, sent, Carried)
    BY <1>1, <1>2 DEF StackNumbered
<1>4. Numbered(Pop)
    BY <1>1, NumberedPop, StackSteps DEF Numbered
<1> QED
    BY <1>1, <1>2, <1>3, <1>4, StackSteps DEF Numbered

(* A frame that does not send. *)
LEMMA PlainFrame ==
    ASSUME NEW g \in Frames, NEW st, NEW n, NEW c, g.k # "send", g.mod <= st
    PROVE  FrameNumbered(g, st, n, c)
BY DEF FrameNumbered

LEMMA PushPlain ==
    ASSUME NEW s, Numbered(s), NEW g \in Frames, g.k # "send", g.mod <= started
    PROVE  Numbered(Append(s, g))
<1>1. StackNumbered(Append(s, g), started, sent, Carried)
    BY PlainFrame, NumberedPush DEF Numbered
<1> QED
    BY <1>1, PushFrame DEF Numbered

(* The top frame goes on at another place, perhaps after a flush. *)
LEMMA GotoNumbered ==
    ASSUME ChannelInv, Depth > 0,
           NEW pc \in {"select", "io", "exec", "next", "wait", "post", "run"}
    PROVE  /\ Numbered(Goto(pc)) /\ Numbered(GotoAndPush(pc, FlushFrame(T.mod)))
           /\ \A m \in Modules : Ahead([T EXCEPT !.pc = pc], m) => m <= T.itr
<1> DEFINE g == [T EXCEPT !.pc = pc]
<1>1. /\ T \in Frames /\ FrameNumbered(T, started, sent, Carried)
      /\ T.mod \in 0 .. N /\ T.mod <= started /\ TypeOK
    BY TopNumbered DEF FrameNumbered, ChannelInv
<1>2. g \in Frames /\ Goto(pc) \in Seq(Frames) /\ FlushFrame(T.mod) \in Frames
    BY <1>1, StackSteps
<1>3. g.k = T.k /\ g.msg = T.msg /\ g.pc = pc /\ g.mod = T.mod /\ g.itr = T.itr
    BY <1>1 DEF Frames, FrameRecords
<1>4. Goto(pc) = Become(g)
    BY DEF Goto
<1> HIDE DEF g
<1>5. \A m : Ahead(g, m) => Ahead(T, m) /\ m <= T.itr
    BY <1>3 DEF Ahead
<1>6. FrameNumbered(g, started, sent, Carried)
    BY <1>1, <1>3, <1>5 DEF FrameNumbered
<1>7. StackNumbered(Become(g), started, sent, Carried)
    BY <1>2, <1>3, <1>6, TopNumbered, NumberedChange DEF Numbered
<1>8. Numbered(Goto(pc))
    BY <1>2, <1>4, <1>7 DEF Numbered
<1>9. FlushFrame(T.mod).k = "flush" /\ FlushFrame(T.mod).mod = T.mod
    BY DEF FlushFrame, Frame
<1>10. Numbered(Append(Goto(pc), FlushFrame(T.mod)))
    BY <1>1, <1>2, <1>8, <1>9, PushPlain
<1> QED
    BY <1>5, <1>8, <1>10 DEF GotoAndPush, g

(* What is executed for a module that was started. *)
LEMMA ExecuteNumbered ==
    ASSUME NEW m \in 0 .. N, m <= started, NEW item, NEW ops \in SUBSET Ops,
           NEW s, Numbered(s)
    PROVE  Numbered(Append(s, Execute(m, item, ops)))
<1> DEFINE g == Execute(m, item, ops)
<1>1. g \in Frames /\ g.k = "cmd" /\ g.mod = m
    BY ExecuteType DEF Execute, CmdFrame, Frame
<1> HIDE DEF g
<1>2. Numbered(Append(s, g))
    BY <1>1, PushPlain
<1> QED
    BY <1>2 DEF g

(* The event loop changes its frame. *)
LEMMA LoopNumbered ==
    ASSUME ChannelInv, Depth > 0, NEW g \in Frames, T.k # "send", g.k = T.k,
           g.msg = T.msg, g.mod <= started
    PROVE  Numbered(Become(g))
<1>1. StackNumbered(Become(g), started, sent, Carried)
    BY TopNumbered, PlainFrame, NumberedChange DEF Numbered
<1>2. Become(g) \in Seq(Frames)
    BY StackSteps DEF ChannelInv
<1> QED
    BY <1>1, <1>2 DEF Numbered

(* The list holds modules that were started. *)
LEMMA ListedStarted ==
    ASSUME ChannelInv, NEW m, m \in listed \/ m \in deathRow \/ m \in freed
    PROVE  m \in Modules /\ m <= started /\ m \in 1 .. started
BY Sizes DEF ChannelInv, RecordsAccountedFor, TypeOK, Modules

LEMMA NextNumbered ==
    ASSUME ChannelInv, SendNext
    PROVE  Numbered(stack')
<1>0. Depth > 0 /\ TypeOK
    BY DEF SendNext, At, ChannelInv
<1>1. CASE T.itr = 0
    BY <1>0, <1>1, TopNumbered DEF SendNext
<1>2. CASE T.itr # 0
  <2> DEFINE g == [T EXCEPT !.mod = T.itr, !.itr = After(T.itr),
                            !.pc = IF T.itr \in T.to THEN "write" ELSE "next"]
  <2>1. /\ T \in Frames /\ T.itr \in 0 .. N /\ T.itr \in listed
        /\ FrameNumbered(T, started, sent, Carried)
        /\ stack' = Become(g) /\ T.k = "send"
    BY <1>0, <1>2, TopNumbered DEF SendNext, At
  <2>2. /\ After(T.itr) \in 0 .. N
        /\ After(T.itr) = 0 \/ After(T.itr) < T.itr
    BY <1>0, <2>1, AfterType DEF TypeOK
  <2>3. /\ g \in Frames /\ g.k = T.k /\ g.msg = T.msg /\ g.mod = T.itr
        /\ g.itr = After(T.itr)
    BY <2>1, <2>2 DEF Frames, FrameRecords
  <2>4. T.itr \in Modules /\ T.itr <= started
    BY <2>1, ListedStarted
  <2> HIDE DEF g
  <2>5. /\ g.itr < T.itr
        /\ \A m \in Modules : Ahead(g, m) => m <= T.itr
    BY <1>2, <2>2, <2>3, <2>4, Sizes DEF Ahead, Modules
  <2>6. FrameNumbered(g, started, sent, Carried)
    BY <2>1, <2>3, <2>4, <2>5 DEF FrameNumbered, Ahead
  <2>7. StackNumbered(Become(g), started, sent, Carried) /\ Become(g) \in Seq(Frames)
    BY <1>0, <2>3, <2>6, TopNumbered, NumberedChange, StackSteps DEF Numbered
  <2> QED
    BY <2>1, <2>7 DEF Numbered
<1> QED
    BY <1>1, <1>2

(* A new message. *)
LEMMA SendNumbered ==
    ASSUME ChannelInv, Depth > 0, NEW g \in Frames, Send(g),
           g.mod <= started, g.msg.n = sent + 1, g.pc = "write" => g.itr < g.mod
    PROVE  StackNumbered(stack', started, sent', Carried)
<1>1. /\ stack \in Seq(Frames) /\ started \in Nat /\ sent \in Nat
      /\ StackNumbered(stack, started, sent, Carried)
    BY TopNumbered DEF Numbered
<1>2. sent' = sent + 1 /\ stack' = Append(stack, g)
    BY DEF Send, Push
<1>3. StackNumbered(stack, started, sent + 1, Carried)
  <2>1. sent + 1 \in Nat /\ sent <= sent + 1 /\ started <= started
    BY <1>1
  <2>2. \A m \in Modules : Carried[m] \subseteq Carried[m]
    OBVIOUS
  <2> QED
    BY <1>1, <2>1, <2>2, NumberedLess, Zenon
<1>4. ASSUME NEW m \in Modules
      PROVE  g.msg.n \notin Carried[m]
  <2>1. Carried[m] \subseteq 1 .. sent
    BY DEF ChannelInv, QueuesNumbered
  <2> QED
    BY <1>1, <2>1
<1>5. FrameNumbered(g, started, sent + 1, Carried)
    BY <1>1, <1>4 DEF FrameNumbered
<1>6. ASSUME NEW i \in 1 .. Len(stack), stack[i].k = "send"
      PROVE  stack[i].msg.n # g.msg.n
  <2>1. stack[i] \in Frames /\ stack[i].msg.n <= sent
    BY <1>1, <1>6 DEF StackNumbered, FrameNumbered
  <2>2. stack[i].msg.n \in Nat
    BY <1>6, <2>1, Sizes DEF Frames, FrameRecords, Messages
  <2> QED
    BY <1>1, <2>1, <2>2
<1> QED
    BY <1>1, <1>2, <1>3, <1>5, <1>6, NumberedPush

LEMMA CommandsNumbered ==
    ASSUME ChannelInv,
           \/ \E c \in Classes, grab \in BOOLEAN : Broadcast(c, grab)
           \/ \E c \in Classes, m \in Modules : SendToModule(c, {m})
           \/ \E c \in Classes : SendReply(c)
           \/ SetMasks
           \/ \E m \in Modules : KillModule({m})
           \/ Wait
    PROVE  StackNumbered(stack', started, sent', Carried)
<1>0. Depth > 0 /\ TypeOK
    BY DEF Broadcast, SendToModule, SendReply, SetMasks, KillModule, Wait, May, At, ChannelInv
<1>t. /\ T.mod \in 0 .. N /\ T.mod <= started /\ started \in Nat /\ Numbered(stack)
      /\ First \in 0 .. N /\ sent \in 0 .. MaxMsgs
    BY <1>0, TopNumbered, FirstType DEF FrameNumbered, TypeOK
<1>1. ASSUME NEW c \in Classes, NEW grab \in BOOLEAN, Broadcast(c, grab)
      PROVE  StackNumbered(stack', started, sent', Carried)
  <2> DEFINE g == NewSend(c, Modules, "next", 0, First, grab, FALSE)
  <2>1. Send(g) /\ sent < MaxMsgs
    BY <1>1 DEF Broadcast, Send
  <2>2. g \in Frames
    BY <1>t, <2>1, Sizes, NewSendType
  <2>3. g.mod = 0 /\ g.msg.n = sent + 1 /\ g.pc # "write"
    BY DEF NewSend, Frame
  <2> HIDE DEF g
  <2> QED
    BY <1>0, <1>t, <2>1, <2>2, <2>3, SendNumbered
<1>2. ASSUME NEW c \in Classes, NEW m \in Modules, SendToModule(c, {m})
      PROVE  StackNumbered(stack', started, sent', Carried)
  <2> DEFINE g == NewSend(c, {m}, "next", 0, First, FALSE, TRUE)
  <2>1. Send(g) /\ sent < MaxMsgs
    BY <1>2 DEF SendToModule, Send
  <2>2. g \in Frames
    BY <1>t, <2>1, Sizes, NewSendType
  <2>3. g.mod = 0 /\ g.msg.n = sent + 1 /\ g.pc # "write"
    BY DEF NewSend, Frame
  <2> HIDE DEF g
  <2> QED
    BY <1>0, <1>t, <2>1, <2>2, <2>3, SendNumbered
<1>3. ASSUME NEW c \in Classes, SendReply(c)
      PROVE  StackNumbered(stack', started, sent', Carried)
  <2> DEFINE g == NewSend(c, {T.mod}, "write", T.mod, 0, FALSE, TRUE)
  <2>1. Send(g) /\ sent < MaxMsgs /\ T.mod # 0
    BY <1>3 DEF SendReply, Send
  <2>2. g \in Frames
    <3>1. {T.mod} \in SUBSET Modules
      BY <1>t, <2>1, Sizes DEF Modules
    <3> QED
      BY <1>t, <2>1, <3>1, Sizes, NewSendType
  <2>3. g.mod = T.mod /\ g.msg.n = sent + 1 /\ g.itr = 0
    BY DEF NewSend, Frame
  <2> HIDE DEF g
  <2>4. g.itr < g.mod
    BY <1>t, <2>1, <2>3, Sizes
  <2> QED
    BY <1>0, <1>t, <2>1, <2>2, <2>3, <2>4, SendNumbered
<1>4. CASE SetMasks \/ \E m \in Modules : KillModule({m})
    BY <1>t, <1>4 DEF SetMasks, KillModule, Numbered, dataVars
<1>5. CASE Wait
  <2> DEFINE g == Frame("loop", "select", 0, 0)
  <2>1. g \in Frames /\ g.k # "send" /\ g.mod = 0
    BY Sizes, FrameType DEF Frame
  <2> HIDE DEF g
  <2>2. Numbered(Append(stack, g))
    BY <1>t, <2>1, PushPlain
  <2> QED
    BY <1>5, <2>2 DEF Wait, Push, Numbered, g, dataVars
<1> QED
    BY <1>1, <1>2, <1>3, <1>4, <1>5

(* The other steps that leave the messages and the queue of commands alone. *)
LEMMA WaitsNumbered ==
    ASSUME ChannelInv, Waiting \/ Starting
    PROVE  Numbered(stack')
<1>0. Depth > 0 /\ TypeOK
    BY DEF Waiting, WaitUnlock, WaitCommand, WaitEOF, WaitTimeout, Starting, StartFinished,
           StartCommand, StartEOF, StartFlush, StartGivenUp, At, ChannelInv
<1>t. /\ T.mod \in 0 .. N /\ T.mod <= started /\ Numbered(stack) /\ Numbered(Pop)
    BY <1>0, TopNumbered DEF FrameNumbered
<1>1. CASE WaitUnlock \/ WaitEOF \/ WaitTimeout
  <2>1. stack' = Goto("post")
    BY <1>1 DEF WaitUnlock, WaitEOF, WaitTimeout
  <2> QED
    BY <1>0, <2>1, GotoNumbered
<1>2. CASE WaitCommand
  <2>1. stack' = Append(stack, Execute(T.mod, Head(inp[T.mod]), SyncOps))
    BY <1>2 DEF WaitCommand, Push
  <2> QED
    BY <1>t, <2>1, ExecuteNumbered, OpsAssumption DEF OpsAssumption
<1>3. CASE StartFinished \/ StartEOF \/ StartGivenUp
    BY <1>t, <1>3 DEF StartFinished, StartEOF, StartGivenUp
<1>4. CASE StartCommand
  <2>1. stack' = Append(stack, Execute(T.mod, Head(inp[T.mod]), QueuedOps))
    BY <1>4 DEF StartCommand, Push
  <2> QED
    BY <1>t, <2>1, ExecuteNumbered, OpsAssumption DEF OpsAssumption
<1>5. CASE StartFlush
  <2>1. stack' = Append(stack, FlushFrame(T.mod))
    BY <1>5 DEF StartFlush, Push
  <2>2. /\ FlushFrame(T.mod) \in Frames /\ FlushFrame(T.mod).k # "send"
        /\ FlushFrame(T.mod).mod = T.mod
    BY <1>t, FlushFrameType DEF FlushFrame, Frame
  <2> QED
    BY <1>t, <2>1, <2>2, PushPlain
<1> QED
    BY <1>1, <1>2, <1>3, <1>4, <1>5 DEF Waiting, Starting

LEMMA LoopsNumbered ==
    ASSUME ChannelInv, Looping
    PROVE  Numbered(stack')
<1>0. Depth > 0 /\ TypeOK /\ T.k = "loop"
    BY DEF Looping, Select, IoReceive, IoReceiveFails, IoNoInput, IoModule,
           IoFlush, IoDone, ExecuteCommand, Cleanup, At, ChannelInv
<1>t. /\ T \in Frames /\ T.mod \in 0 .. N /\ T.itr \in 0 .. N /\ T.mod <= started
      /\ started \in Nat /\ Numbered(stack)
    BY <1>0, TopNumbered DEF FrameNumbered
<1>1. CASE IoReceive \/ IoReceiveFails \/ IoNoInput
  <2> DEFINE g == [T EXCEPT !.pc = "post", !.mod = T.itr, !.itr = After(T.itr)]
  <2>1. stack' = Become(g) /\ T.itr \in listed
    BY <1>1 DEF IoReceive, IoReceiveFails, IoNoInput, IoModule, NextModule
  <2>2. /\ g \in Frames /\ g.k = T.k /\ g.msg = T.msg /\ g.mod = T.itr
    BY <1>0, <1>t, AfterType DEF Frames, FrameRecords, TypeOK
  <2> HIDE DEF g
  <2> QED
    BY <1>0, <2>1, <2>2, ListedStarted, LoopNumbered
<1>2. CASE Select
  <2> DEFINE g == [T EXCEPT !.pc = "io", !.itr = First, !.to = {m \in listed : Readable(m)}]
  <2>1. {m \in listed : Readable(m)} \in SUBSET Modules /\ First \in 0 .. N
    BY <1>0, FirstType DEF TypeOK
  <2>2. g \in Frames /\ g.k = T.k /\ g.msg = T.msg /\ g.mod = T.mod
    BY <1>t, <2>1 DEF Frames, FrameRecords
  <2>3. stack' = Become(g)
    BY <1>2 DEF Select
  <2> HIDE DEF g
  <2> QED
    BY <1>0, <1>t, <2>2, <2>3, LoopNumbered
<1>3. CASE IoFlush
    BY <1>0, <1>3, GotoNumbered DEF IoFlush
<1>4. CASE IoDone
  <2> DEFINE g == [T EXCEPT !.pc = "exec", !.to = {}, !.mod = 0]
  <2>2. g \in Frames /\ g.k = T.k /\ g.msg = T.msg /\ g.mod = 0
    BY <1>t, Sizes DEF Frames, FrameRecords
  <2>3. stack' = Become(g)
    BY <1>4 DEF IoDone
  <2> HIDE DEF g
  <2> QED
    BY <1>0, <1>t, <2>2, <2>3, LoopNumbered
<1>5. CASE ExecuteCommand
  <2>1. /\ cqueue \in Seq([mod : Modules, item : Items]) /\ cqueue # <<>>
        /\ stack' = Append(stack, Execute(Head(cqueue).mod, Head(cqueue).item, QueuedOps))
    BY <1>0, <1>5 DEF ExecuteCommand, Push, TypeOK
  <2> DEFINE Cmds == [mod : Modules, item : Items]
  <2> HIDE DEF Cmds
  <2>4. Head(cqueue) = cqueue[1] /\ 1 \in 1 .. Len(cqueue) /\ cqueue[1] \in Cmds
  <3>1. cqueue \in Seq(Cmds) /\ cqueue # <<>>
    BY <2>1 DEF Cmds
  <3> QED
    BY <3>1
  <2>2. Head(cqueue) = cqueue[1] /\ 1 \in 1 .. Len(cqueue) /\ cqueue[1].mod \in Modules
    BY <2>4 DEF Cmds
  <2>3. Head(cqueue).mod \in 0 .. N /\ Head(cqueue).mod <= started
    BY <2>2, ModuleIds DEF ChannelInv, QueuesNumbered
  <2> QED
    BY <1>t, <2>1, <2>3, ExecuteNumbered, OpsAssumption DEF OpsAssumption
<1>6. CASE Cleanup
    BY <1>0, <1>6, GotoNumbered DEF Cleanup
<1> QED
    BY <1>1, <1>2, <1>3, <1>4, <1>5, <1>6 DEF Looping

LEMMA OthersNumbered ==
    ASSUME ChannelInv,
           \/ SendPost \/ FlushDone \/ FlushFails \/ Return \/ HandleEvent \/ WaitOver
           \/ Crash
    PROVE  Numbered(stack')
<1>0. Depth > 0 \/ Crash
    BY DEF SendPost, FlushDone, FlushFails, Return, HandleEvent, WaitOver, At
<1>1. CASE SendPost
    BY <1>0, <1>1, GotoNumbered DEF SendPost, At
<1>2. CASE FlushDone \/ FlushFails \/ Return \/ WaitOver
    BY <1>2, TopNumbered DEF FlushDone, FlushFails, Return, WaitOver, At
<1>3. CASE HandleEvent
  <2> DEFINE g == CmdFrame(0, EventOps)
  <2>1. g \in Frames /\ g.k # "send" /\ g.mod = 0
    BY Sizes, OpsAssumption, CmdFrameType DEF OpsAssumption, CmdFrame, Frame
  <2>2. stack' = Append(stack, g) /\ Numbered(stack) /\ started \in Nat
    BY <1>3, TopNumbered DEF HandleEvent, Push, At
  <2> HIDE DEF g
  <2> QED
    BY <2>1, <2>2, PushPlain
<1>4. CASE Crash
    BY <1>4 DEF Crash, Numbered, StackNumbered
<1> QED
    BY <1>1, <1>2, <1>3, <1>4

-----------------------------------------------------------------------------
(* What the steps do to the messages. *)

(* Most steps leave the packets alone. *)
Still == UNCHANGED <<started, freed, alive, queue, pipe>>

StillSteps ==
    \/ SendNext \/ SendPost \/ FlushDone \/ FlushFails \/ Waiting \/ Starting
    \/ \E c \in Classes, grab \in BOOLEAN : Broadcast(c, grab)
    \/ \E c \in Classes, m \in Modules : SendToModule(c, {m})
    \/ \E c \in Classes : SendReply(c)
    \/ SetMasks
    \/ \E m \in Modules : KillModule({m})
    \/ Wait
    \/ Return \/ HandleEvent \/ WaitOver \/ Crash
    \/ Select \/ IoReceive \/ IoReceiveFails \/ IoNoInput \/ IoFlush \/ IoDone
    \/ ExecuteCommand
    \/ \E m \in Modules : ModuleUnlocks(m)
    \/ \E m \in Modules : ModuleSends(m, "cmd") \/ ModuleSends(m, "finished")

LEMMA StillStepsAreStill ==
    ASSUME StillSteps
    PROVE  Still /\ OnlyKills
<1>1. CASE SendNext \/ SendPost \/ FlushDone \/ FlushFails
    BY <1>1 DEF SendNext, SendPost, FlushDone, FlushFails, listVars, procVars, dataVars,
                Kill, OnlyKills, Still
<1>2. CASE Waiting
    BY <1>2 DEF Waiting, WaitUnlock, WaitCommand, WaitEOF, WaitTimeout, Receive,
                ReceiveFails, listVars, procVars, dataVars, Kill, OnlyKills, Still
<1>3. CASE Starting
    BY <1>3 DEF Starting, StartFinished, StartCommand, StartEOF, StartFlush, StartGivenUp,
                Receive, ReceiveFails, listVars, procVars, dataVars, Kill, OnlyKills, Still
<1>4. CASE \/ \E c \in Classes, grab \in BOOLEAN : Broadcast(c, grab)
           \/ \E c \in Classes, m \in Modules : SendToModule(c, {m})
           \/ \E c \in Classes : SendReply(c)
           \/ SetMasks
           \/ \E m \in Modules : KillModule({m})
           \/ Wait
    BY <1>4 DEF Broadcast, SendToModule, SendReply, Send, SetMasks, KillModule, Wait,
                listVars, procVars, dataVars, Kill, OnlyKills, Still
<1>5. CASE Return \/ HandleEvent \/ WaitOver \/ Crash
    BY <1>5 DEF Return, HandleEvent, WaitOver, Crash, listVars, procVars, dataVars,
                OnlyKills, Still
<1>6. CASE \/ Select \/ IoReceive \/ IoReceiveFails \/ IoNoInput \/ IoFlush \/ IoDone
           \/ ExecuteCommand
    BY <1>6 DEF Select, IoReceive, IoReceiveFails, IoNoInput, IoFlush, IoDone,
                ExecuteCommand, Receive, ReceiveFails, listVars, procVars, dataVars,
                Kill, OnlyKills, Still
<1>7. CASE \/ \E m \in Modules : ModuleUnlocks(m)
           \/ \E m \in Modules : ModuleSends(m, "cmd") \/ ModuleSends(m, "finished")
    BY <1>7 DEF ModuleUnlocks, ModuleSends, listVars, OnlyKills, Still
<1> QED
    BY <1>1, <1>2, <1>3, <1>4, <1>5, <1>6, <1>7 DEF StillSteps

LEMMA StillStack ==
    ASSUME ChannelInv, StillSteps
    PROVE  StackNumbered(stack', started, sent', Carried)
<1>0. StackNumbered(stack, started, sent, Carried)
    BY DEF ChannelInv
<1>1. CASE \/ \E c \in Classes, grab \in BOOLEAN : Broadcast(c, grab)
           \/ \E c \in Classes, m \in Modules : SendToModule(c, {m})
           \/ \E c \in Classes : SendReply(c)
           \/ SetMasks
           \/ \E m \in Modules : KillModule({m})
           \/ Wait
    BY <1>1, CommandsNumbered
<1>2. CASE \/ \E m \in Modules : ModuleUnlocks(m)
           \/ \E m \in Modules : ModuleSends(m, "cmd") \/ ModuleSends(m, "finished")
    BY <1>0, <1>2 DEF ModuleUnlocks, ModuleSends
<1>3. CASE SendNext
    BY <1>3, NextNumbered DEF SendNext, Numbered, dataVars
<1>4. CASE Waiting \/ Starting
  <2>1. UNCHANGED sent
    BY <1>4 DEF Waiting, WaitUnlock, WaitCommand, WaitEOF, WaitTimeout, Starting,
           StartFinished, StartCommand, StartEOF, StartFlush, StartGivenUp, Receive,
           ReceiveFails, dataVars
  <2> QED
    BY <1>4, <2>1, WaitsNumbered DEF Numbered
<1>5. CASE \/ Select \/ IoReceive \/ IoReceiveFails \/ IoNoInput \/ IoFlush \/ IoDone
           \/ ExecuteCommand
  <2>1. UNCHANGED sent
    BY <1>5 DEF Select, IoReceive, IoReceiveFails, IoNoInput, IoFlush, IoDone,
           ExecuteCommand, Receive, ReceiveFails, dataVars
  <2>2. Looping
    BY <1>5 DEF Looping
  <2> QED
    BY <2>1, <2>2, LoopsNumbered DEF Numbered
<1>6. CASE \/ SendPost \/ FlushDone \/ FlushFails \/ Return \/ HandleEvent \/ WaitOver
           \/ Crash
  <2>1. UNCHANGED sent
    BY <1>6 DEF SendPost, FlushDone, FlushFails, Return, HandleEvent, WaitOver, Crash,
           dataVars
  <2> QED
    BY <1>6, <2>1, OthersNumbered DEF Numbered
<1> QED
    BY <1>1, <1>2, <1>3, <1>4, <1>5, <1>6 DEF StillSteps

LEMMA SentGrows ==
    ASSUME ChannelInv, StillSteps
    PROVE  sent \in Nat /\ sent' \in Nat /\ sent <= sent'
<1>1. sent \in Nat
    BY DEF ChannelInv, TypeOK
<1>2. sent' = sent \/ sent' = sent + 1
    BY DEF StillSteps, SendNext, SendPost, FlushDone, FlushFails, Waiting, WaitUnlock,
       WaitCommand, WaitEOF, WaitTimeout, Starting, StartFinished, StartCommand, StartEOF,
       StartFlush, StartGivenUp, Broadcast, SendToModule, SendReply, Send, SetMasks,
       KillModule, Wait, Return, HandleEvent, WaitOver, Crash, Select, IoReceive,
       IoReceiveFails, IoNoInput, IoFlush, IoDone, ExecuteCommand, ModuleUnlocks,
       ModuleSends, Receive, ReceiveFails, dataVars
<1> QED
    BY <1>1, <1>2

(* Commands come from modules that were started. *)
LEMMA CommandsStarted ==
    ASSUME ChannelInv, StillSteps
    PROVE  \A i \in 1 .. Len(cqueue') : cqueue'[i].mod <= started
<1>0. /\ cqueue \in Seq([mod : Modules, item : Items])
      /\ \A i \in 1 .. Len(cqueue) : cqueue[i].mod <= started
    BY DEF ChannelInv, QueuesNumbered, TypeOK
<1>1. CASE IoReceive
  <2> DEFINE e == [mod |-> T.itr, item |-> Head(inp[T.itr])]
  <2>1. T.itr \in listed /\ cqueue' = Append(cqueue, e)
    BY <1>1 DEF IoReceive, IoModule
  <2>2. \A i \in 1 .. Len(cqueue') :
            cqueue'[i] = e \/ (i \in 1 .. Len(cqueue) /\ cqueue'[i] = cqueue[i])
    BY <1>0, <2>1
  <2>3. e.mod <= started
    BY <2>1, ListedStarted
  <2> QED
    BY <1>0, <2>2, <2>3
<1>2. CASE ExecuteCommand
  <2>1. cqueue # <<>> /\ cqueue' = Tail(cqueue)
    BY <1>2 DEF ExecuteCommand
  <2>2. \A i \in 1 .. Len(cqueue') : i + 1 \in 1 .. Len(cqueue) /\ cqueue'[i] = cqueue[i + 1]
    BY <1>0, <2>1
  <2> QED
    BY <1>0, <2>2
<1>3. CASE StillSteps /\ ~IoReceive /\ ~ExecuteCommand
  <2>1. cqueue' = cqueue
    BY <1>3 DEF StillSteps, SendNext, SendPost, FlushDone, FlushFails, Waiting, WaitUnlock,
       WaitCommand, WaitEOF, WaitTimeout, Starting, StartFinished, StartCommand, StartEOF,
       StartFlush, StartGivenUp, Broadcast, SendToModule, SendReply, Send, SetMasks,
       KillModule, Wait, Return, HandleEvent, WaitOver, Crash, Select,
       IoReceiveFails, IoNoInput, IoFlush, IoDone, ModuleUnlocks,
       ModuleSends, ReceiveFails, dataVars
  <2> QED
    BY <1>0, <2>1
<1> QED
    BY <1>1, <1>2, <1>3

LEMMA StillInv ==
    ASSUME ChannelInv, StillSteps
    PROVE  StackNumbered(stack', started', sent', Carried') /\ QueuesNumbered'
<1>1. Still /\ Carried' = Carried
    BY StillStepsAreStill DEF Still, Carried, Nums
<1>2. StackNumbered(stack', started', sent', Carried')
    BY <1>1, StillStack DEF Still
<1>3. \A m \in Modules : Carried'[m] \subseteq 1 .. sent'
  <2>1. \A x : x \in 1 .. sent => x \in 1 .. sent'
    BY SentGrows
  <2> QED
    BY <1>1, <2>1 DEF ChannelInv, QueuesNumbered
<1>4. QueuesNumbered'
    BY <1>1, <1>3, CommandsStarted DEF ChannelInv, QueuesNumbered, Still
<1> QED
    BY <1>2, <1>4

(* The top frame has moved on. *)
LEMMA GotoIs ==
    ASSUME ChannelInv, Depth > 0,
           NEW pc \in {"select", "io", "exec", "next", "wait", "post", "run"}
    PROVE  LET s == Goto(pc) IN
           /\ Depth \in 1 .. Len(s) /\ s[Depth].k = T.k /\ s[Depth].msg = T.msg
           /\ \A m \in Modules : Ahead(s[Depth], m) => m <= T.itr
<1>1. T \in Frames /\ [T EXCEPT !.pc = pc] \in Frames /\ stack \in Seq(Frames)
    BY TopNumbered, StackSteps DEF ChannelInv
<1>2. Len(Goto(pc)) = Depth /\ Goto(pc)[Depth] = [T EXCEPT !.pc = pc] /\ Depth \in 1 .. Depth
    BY <1>1, ChangeFrame, TopFrame DEF Goto
<1>3. [T EXCEPT !.pc = pc].k = T.k /\ [T EXCEPT !.pc = pc].msg = T.msg
    BY <1>1 DEF Frames, FrameRecords
<1> QED
    BY <1>2, <1>3, GotoNumbered

(* A message is put into the queue of w. *)
LEMMA CarriedPut ==
    ASSUME TypeOK, NEW w \in Modules, NEW x \in Messages,
           queue' = [queue EXCEPT ![w] = Append(@, x)], pipe' = pipe
    PROVE  /\ Carried'[w] = Carried[w] \cup {x.n}
           /\ \A m \in Modules : m # w => Carried'[m] = Carried[m] /\ queue'[m] = queue[m]
<1>1. queue \in [Modules -> Seq(Messages)]
    BY DEF TypeOK
<1>2. /\ queue'[w] = Append(queue[w], x) /\ queue[w] \in Seq(Messages)
      /\ \A m \in Modules : m # w => queue'[m] = queue[m]
    BY <1>1
<1>3. Nums(queue'[w]) = Nums(queue[w]) \cup {x.n}
    BY <1>2, NumsAppend
<1> QED
    BY <1>2, <1>3 DEF Carried

(* What the frame that is about to write knows. *)
LEMMA WriterFacts ==
    ASSUME ChannelInv, At("send", "write")
    PROVE  /\ TypeOK /\ Depth > 0
           /\ T.mod \in Modules /\ T.mod <= started /\ T.mod \in 1 .. started
           /\ T.itr < T.mod /\ T.itr \in Nat
           /\ T.msg \in Messages /\ T.msg.n \in 1 .. sent
           /\ T.msg.n \notin Carried[T.mod]
<1>1. /\ TypeOK /\ Depth > 0 /\ T.k = "send" /\ T.pc = "write"
      /\ T \in Frames /\ T.mod \in 0 .. N /\ T.itr \in 0 .. N
      /\ FrameNumbered(T, started, sent, Carried) /\ started \in Nat /\ sent \in Nat
    BY TopNumbered DEF ChannelInv, At
<1>2. T.mod <= started /\ T.itr < T.mod /\ T.msg.n <= sent
    BY <1>1 DEF FrameNumbered
<1>3. T.msg \in Messages
    BY <1>1 DEF Frames
<1>4. T.msg.n \in 1 .. sent
    BY <1>1, <1>2, <1>3, Sizes DEF Messages
<1>5. T.mod \in Modules /\ T.itr \in Nat /\ T.mod \in 1 .. started
    BY <1>1, <1>2, Sizes DEF Modules
<1>6. T.msg.n \notin Carried[T.mod]
    BY <1>1, <1>5 DEF FrameNumbered, Ahead
<1> QED
    BY <1>1, <1>2, <1>3, <1>4, <1>5, <1>6

LEMMA PutStack ==
    ASSUME ChannelInv, At("send", "write"), NEW d,
           d[T.mod] = Carried[T.mod] \cup {T.msg.n},
           \A m \in Modules : m # T.mod => d[m] = Carried[m]
    PROVE  /\ StackNumbered(Goto("post"), started, sent, d)
           /\ StackNumbered(GotoAndPush("wait", FlushFrame(T.mod)), started, sent, d)
<1>0. /\ T.mod \in Modules /\ T.mod <= started /\ T.itr < T.mod /\ T.itr \in Nat
      /\ Depth > 0 /\ T.k = "send" /\ TypeOK /\ T.mod \in Int
    BY WriterFacts DEF At, Modules
<1>1. ASSUME NEW pc \in {"post", "wait"}
      PROVE  StackNumbered(Goto(pc), started, sent, d) /\ Goto(pc) \in Seq(Frames)
  <2>1. PICK s : s = Goto(pc)
    OBVIOUS
  <2>2. s \in Seq(Frames) /\ StackNumbered(s, started, sent, Carried)
    BY <1>0, <2>1, GotoNumbered DEF Numbered
  <2>3. PICK h : h = Depth
    OBVIOUS
  <2>4. /\ h \in 1 .. Len(s) /\ s[h].k = "send" /\ s[h].msg = T.msg
        /\ \A m \in Modules : Ahead(s[h], m) => m <= T.itr
    BY <1>0, <2>1, <2>3, GotoIs
  <2>5. ~Ahead(s[h], T.mod)
    BY <1>0, <2>4
  <2>6. d[T.mod] = Carried[T.mod] \cup {s[h].msg.n}
    BY <2>4
  <2>7. StackNumbered(s, started, sent, d)
    BY <1>0, <2>2, <2>4, <2>5, <2>6, NumberedPut
  <2> QED
    BY <2>1, <2>2, <2>7
<1>2. /\ FlushFrame(T.mod) \in Frames /\ FlushFrame(T.mod).k # "send"
      /\ FlushFrame(T.mod).mod = T.mod
    BY <1>0, StackSteps DEF FlushFrame, Frame
<1>3. StackNumbered(Append(Goto("wait"), FlushFrame(T.mod)), started, sent, d)
  <2>1. FrameNumbered(FlushFrame(T.mod), started, sent, d)
    BY <1>0, <1>2, PlainFrame
  <2> QED
    BY <1>1, <1>2, <2>1, NumberedPush
<1> QED
    BY <1>1, <1>3 DEF GotoAndPush

LEMMA WriteInv ==
    ASSUME ChannelInv, PositiveWrite
    PROVE  StackNumbered(stack', started', sent', Carried') /\ QueuesNumbered'
<1>0. /\ At("send", "write") /\ T.mod \notin freed /\ QueuesNumbered
      /\ UNCHANGED <<listVars, procVars, pipe, inp, cqueue, sent>>
    BY DEF PositiveWrite, ChannelInv
<1>w. /\ TypeOK /\ Depth > 0 /\ T.mod \in Modules /\ T.mod <= started /\ T.mod \in 1 .. started
      /\ T.msg \in Messages /\ T.msg.n \in 1 .. sent /\ started \in Int
    BY <1>0, WriterFacts, TopNumbered
<1>1. CASE queue' = queue /\ stack' = Goto("post")
  <2>1. Carried' = Carried
    BY <1>0, <1>1 DEF Carried, Nums
  <2>2. Numbered(stack')
    BY <1>w, <1>1, GotoNumbered
  <2> QED
    BY <1>0, <1>1, <2>1, <2>2 DEF Numbered, QueuesNumbered, listVars, procVars
<1>2. CASE /\ queue' = [queue EXCEPT ![T.mod] = Append(@, T.msg)]
           /\ stack' = Goto("post") \/ stack' = GotoAndPush("wait", FlushFrame(T.mod))
  <2>1. PICK w \in Modules, x \in Messages : w = T.mod /\ x = T.msg
    BY <1>w
  <2>2. /\ Carried'[w] = Carried[w] \cup {x.n}
        /\ \A m \in Modules : m # w => Carried'[m] = Carried[m] /\ queue'[m] = queue[m]
    BY <1>0, <1>w, <1>2, <2>1, CarriedPut
  <2>3. PICK d : d = Carried'
    OBVIOUS
  <2>4. /\ d[T.mod] = Carried[T.mod] \cup {T.msg.n}
        /\ \A m \in Modules : m # T.mod => d[m] = Carried[m]
    BY <2>1, <2>2, <2>3
  <2>5. StackNumbered(stack', started, sent, d)
    BY <1>0, <1>2, <2>4, PutStack
  <2>6. ASSUME NEW m \in Modules
        PROVE  /\ Carried'[m] \subseteq 1 .. sent
               /\ m > started \/ m \in freed => queue'[m] = queue[m]
    <3>1. CASE m = w
      BY <1>0, <1>w, <2>1, <2>2, <3>1 DEF QueuesNumbered, Modules
    <3>2. CASE m # w
      BY <1>0, <2>2, <3>2 DEF QueuesNumbered
    <3> QED
      BY <3>1, <3>2
  <2>7. freed \subseteq Modules
    BY <1>w DEF TypeOK
  <2>8. QueuesNumbered'
    BY <1>0, <2>6, <2>7 DEF QueuesNumbered, listVars, procVars
  <2> QED
    BY <1>0, <2>3, <2>5, <2>8 DEF listVars
<1> QED
    BY <1>1, <1>2 DEF PositiveWrite

LEMMA FlushInv ==
    ASSUME ChannelInv, FlushWrite
    PROVE  StackNumbered(stack', started', sent', Carried') /\ QueuesNumbered'
<1>0. /\ TypeOK /\ QueuesNumbered /\ T.mod \in alive /\ queue[T.mod] # <<>>
      /\ queue \in [Modules -> Seq(Messages)] /\ pipe \in [Modules -> Seq(Messages)]
      /\ pipe' = [pipe EXCEPT ![T.mod] = Append(@, Head(queue[T.mod]))]
      /\ queue' = [queue EXCEPT ![T.mod] = Tail(@)]
      /\ UNCHANGED <<stack, listVars, procVars, inp, cqueue, sent>>
    BY DEF FlushWrite, ChannelInv, TypeOK
<1>1. PICK w \in Modules : w = T.mod /\ w <= started
  <2>1. T.mod \in Modules /\ T.mod \in 1 .. started
    BY <1>0 DEF TypeOK, QueuesNumbered
  <2> QED
    BY <2>1
<1>2. /\ pipe'[w] = Append(pipe[w], Head(queue[w])) /\ queue'[w] = Tail(queue[w])
      /\ queue[w] \in Seq(Messages) /\ pipe[w] \in Seq(Messages) /\ queue[w] # <<>>
      /\ \A m \in Modules : m # w => pipe'[m] = pipe[m] /\ queue'[m] = queue[m]
    BY <1>0, <1>1
<1>3. PICK h \in Messages : h = Head(queue[w]) /\ Nums(queue[w]) = {h.n} \cup Nums(Tail(queue[w]))
    BY <1>2, NumsTail
<1>4. Nums(pipe'[w]) = Nums(pipe[w]) \cup {h.n} /\ Nums(queue[w]) = {h.n} \cup Nums(queue'[w])
    BY <1>2, <1>3, NumsAppend
<1>5. \A m \in Modules : Carried'[m] = Carried[m]
  <2> TAKE m \in Modules
  <2>1. CASE m = w
    BY <1>4, <2>1 DEF Carried
  <2>2. CASE m # w
    BY <1>2, <2>2 DEF Carried
  <2> QED
    BY <2>1, <2>2
<1>6. Carried' = Carried
    BY <1>5 DEF Carried
<1>7. StackNumbered(stack', started', sent', Carried')
    BY <1>0, <1>6 DEF ChannelInv, listVars
<1>8. \A m \in Modules : m > started \/ m \in freed =>
           m # w /\ queue'[m] = queue[m] /\ pipe'[m] = pipe[m]
  <2>1. w \notin freed
    BY <1>0, <1>2 DEF QueuesNumbered
  <2>2. \A m \in Modules : m > started => m # w
    BY <1>0, <1>1, Sizes DEF Modules, TypeOK
  <2> QED
    BY <1>2, <2>1, <2>2
<1>9. freed \subseteq Modules
    BY <1>0 DEF TypeOK
<1>10. QueuesNumbered'
    BY <1>0, <1>6, <1>8, <1>9 DEF QueuesNumbered, listVars, procVars
<1> QED
    BY <1>7, <1>10

LEMMA LaunchInv ==
    ASSUME ChannelInv, NEW m \in Modules, StartModule(m) \/ StartSynchronous(m)
    PROVE  StackNumbered(stack', started', sent', Carried') /\ QueuesNumbered'
<1>0. /\ Depth > 0 /\ TypeOK /\ QueuesNumbered /\ started \in Nat /\ sent \in Nat
      /\ stack \in Seq(Frames) /\ StackNumbered(stack, started, sent, Carried)
      /\ cqueue \in Seq([mod : Modules, item : Items])
    BY TopNumbered DEF StartModule, StartSynchronous, May, At, Numbered, ChannelInv, TypeOK
<1>1. /\ m = started + 1 /\ started' = m /\ alive' = alive \cup {m}
      /\ UNCHANGED <<deathRow, freed, queue, pipe, cqueue, sent>>
    BY DEF StartModule, StartSynchronous, Launch, dataVars
<1>2. Carried' = Carried
    BY <1>1 DEF Carried, Nums
<1>3. StackNumbered(stack, started', sent', Carried')
  <2>1. /\ m \in Nat /\ started <= m /\ sent <= sent
        /\ \A k \in Modules : Carried[k] \subseteq Carried[k]
    BY <1>0, <1>1
  <2>2. StackNumbered(stack, m, sent, Carried)
    BY <1>0, <2>1, NumberedLess, Zenon
  <2> QED
    BY <1>1, <1>2, <2>2
<1>4. StackNumbered(stack', started', sent', Carried')
  <2>1. CASE stack' = stack
    BY <1>3, <2>1
  <2>2. CASE stack' = Push(Frame("start", "wait", m, 0))
    <3> DEFINE g == Frame("start", "wait", m, 0)
    <3>1. g \in Frames
      BY Sizes, ModuleIds, FrameType
    <3>2. g.k # "send" /\ g.mod = m /\ m <= m
      BY <1>0, <1>1 DEF Frame
    <3> HIDE DEF g
    <3>3. FrameNumbered(g, started', sent', Carried')
      BY <1>1, <3>1, <3>2, PlainFrame
    <3>4. StackNumbered(Append(stack, g), started', sent', Carried')
      BY <1>0, <1>3, <3>1, <3>2, <3>3, NumberedPush
    <3> QED
      BY <2>2, <3>4 DEF g, Push
  <2> QED
    BY <2>1, <2>2 DEF StartModule, StartSynchronous
<1>5. \A i \in 1 .. Len(cqueue) : cqueue[i].mod <= m
  <2> TAKE i \in 1 .. Len(cqueue)
  <2>2. cqueue[i] \in [mod : Modules, item : Items]
    <3>1. cqueue \in Seq([mod : Modules, item : Items])
      BY <1>0
    <3> QED
      BY <3>1, ElementOfSeq
  <2>1. cqueue[i].mod \in Modules /\ cqueue[i].mod <= started
    BY <1>0, <2>2 DEF QueuesNumbered
  <2> QED
    BY <1>0, <1>1, <2>1, Sizes DEF Modules
<1>6. alive' \subseteq 1 .. m
    BY <1>0, <1>1 DEF QueuesNumbered
<1>7. \A k \in Modules : k > m => k > started
    BY <1>0, <1>1, Sizes DEF Modules
<1>8. QueuesNumbered'
    BY <1>0, <1>1, <1>2, <1>5, <1>6, <1>7 DEF QueuesNumbered
<1> QED
    BY <1>4, <1>8

(* Messages are read or lost. *)
LEMMA LessInv ==
    ASSUME ChannelInv, Numbered(stack'), UNCHANGED <<started, cqueue, sent>>,
           alive' \subseteq alive, freed' \subseteq Modules,
           \A m \in Modules : Nums(pipe'[m]) \subseteq Nums(pipe[m]),
           \A m \in Modules : queue'[m] = queue[m] \/ queue'[m] = <<>>,
           \A m \in freed' : queue'[m] = <<>>,
           \A m \in Modules : m > started => pipe'[m] = <<>>
    PROVE  StackNumbered(stack', started', sent', Carried') /\ QueuesNumbered'
<1>1. \A m \in Modules : Nums(queue'[m]) \subseteq Nums(queue[m])
    BY NumsEmpty
<1>2. \A m \in Modules : Carried'[m] \subseteq Carried[m]
    BY <1>1 DEF Carried
<1>3. started \in Nat /\ sent \in Nat /\ started <= started /\ sent <= sent
    BY Sizes DEF ChannelInv, TypeOK
<1>4. PICK d, s : d = Carried' /\ s = stack'
    OBVIOUS
<1>5. StackNumbered(s, started, sent, d)
  <2>1. s \in Seq(Frames) /\ StackNumbered(s, started, sent, Carried)
    BY <1>4 DEF Numbered
  <2>2. \A m \in Modules : d[m] \subseteq Carried[m]
    BY <1>2, <1>4
  <2> QED
    BY <1>3, <2>1, <2>2, NumberedLess, Zenon
<1>6. QueuesNumbered'
    BY <1>2 DEF ChannelInv, QueuesNumbered
<1> QED
    BY <1>4, <1>5, <1>6

LEMMA CleanupInv ==
    ASSUME ChannelInv, Cleanup
    PROVE  StackNumbered(stack', started', sent', Carried') /\ QueuesNumbered'
<1>1. Numbered(stack')
    BY LoopsNumbered DEF Looping
<1>2. /\ freed' = freed \cup deathRow
      /\ queue' = [m \in Modules |-> IF m \in deathRow THEN <<>> ELSE queue[m]]
      /\ UNCHANGED <<started, alive, pipe, cqueue, sent>>
    BY DEF Cleanup, procVars
<1>3. /\ \A m \in Modules : queue'[m] = queue[m] \/ queue'[m] = <<>>
      /\ \A m \in freed' : queue'[m] = <<>>
      /\ freed' \subseteq Modules
    BY <1>2 DEF ChannelInv, QueuesNumbered, TypeOK
<1>4. \A m \in Modules : m > started => pipe'[m] = <<>>
    BY <1>2 DEF ChannelInv, QueuesNumbered
<1> QED
    BY <1>1, <1>2, <1>3, <1>4, LessInv

LEMMA ReadsInv ==
    ASSUME ChannelInv, NEW w \in Modules,
           ModuleReads(w) \/ ModuleExits(w, TRUE) \/ ModuleExits(w, FALSE)
    PROVE  StackNumbered(stack', started', sent', Carried') /\ QueuesNumbered'
<1>0. /\ TypeOK /\ QueuesNumbered /\ pipe \in [Modules -> Seq(Messages)] /\ freed \subseteq Modules
      /\ StackNumbered(stack, started, sent, Carried) /\ stack \in Seq(Frames)
    BY DEF ChannelInv, TypeOK
<1>1. /\ UNCHANGED <<stack, listVars, queue, cqueue, sent>>
      /\ alive' \subseteq alive
    BY DEF ModuleReads, ModuleExits
<1>2. /\ \A m \in Modules : m # w => pipe'[m] = pipe[m]
      /\ \/ pipe'[w] = <<>>
         \/ pipe[w] # <<>> /\ pipe'[w] = Tail(pipe[w])
    BY <1>0 DEF ModuleReads, ModuleExits
<1>3. Nums(pipe'[w]) \subseteq Nums(pipe[w]) /\ (pipe[w] = <<>> => pipe'[w] = <<>>)
  <2>1. pipe[w] \in Seq(Messages)
    BY <1>0
  <2> QED
    BY <1>2, <2>1, NumsTail, NumsEmpty
<1>4. /\ \A m \in Modules : Nums(pipe'[m]) \subseteq Nums(pipe[m])
      /\ \A m \in Modules : m > started => pipe'[m] = <<>>
    BY <1>0, <1>2, <1>3 DEF QueuesNumbered
<1>5. Numbered(stack')
    BY <1>0, <1>1 DEF Numbered
<1>6. /\ UNCHANGED <<started, cqueue, sent>> /\ freed' = freed
      /\ \A m \in Modules : queue'[m] = queue[m]
      /\ \A m \in freed' : queue'[m] = <<>>
    BY <1>0, <1>1 DEF listVars, QueuesNumbered
<1> QED
    BY <1>0, <1>1, <1>4, <1>5, <1>6, LessInv

LEMMA ChannelInit == Init => ChannelInv
<1> SUFFICES ASSUME Init PROVE ChannelInv
    OBVIOUS
<1>1. TypeOK /\ RecordsAccountedFor
    BY InitType, Sizes DEF Init, RecordsAccountedFor
<1>2. \A m \in Modules : Carried[m] = {}
    BY NumsEmpty DEF Init, Carried
<1>3. QueuesNumbered
    BY <1>2, Sizes DEF Init, QueuesNumbered
<1>4. StackNumbered(stack, started, sent, Carried)
  <2> DEFINE g == Frame("loop", "select", 0, 0)
  <2>1. g.k = "loop" /\ g.mod = 0
    BY DEF Frame
  <2>2. stack = <<g>> /\ 0 <= started
    BY Sizes DEF Init
  <2> HIDE DEF g
  <2> QED
    BY <2>1, <2>2 DEF StackNumbered, FrameNumbered
<1> QED
    BY <1>1, <1>3, <1>4 DEF ChannelInv

LEMMA NextCases ==
    ASSUME Next
    PROVE  \/ StillSteps \/ PositiveWrite \/ FlushWrite \/ Cleanup
           \/ \E m \in Modules : StartModule(m) \/ StartSynchronous(m)
           \/ \E m \in Modules : ModuleReads(m) \/ ModuleExits(m, TRUE) \/ ModuleExits(m, FALSE)
BY DEF Next, Sending, Flushing, Looping, Commanding, ModuleStep, StillSteps

LEMMA ChannelNext == ChannelInv /\ [Next]_vars => ChannelInv'
<1> SUFFICES ASSUME ChannelInv, [Next]_vars PROVE ChannelInv'
    OBVIOUS
<1>1. TypeOK' /\ RecordsAccountedFor'
    BY NextType, NextRecords DEF ChannelInv
<1>2. CASE Next
  <2>1. StackNumbered(stack', started', sent', Carried') /\ QueuesNumbered'
    BY <1>2, NextCases, StillInv, WriteInv, FlushInv, CleanupInv, LaunchInv, ReadsInv
  <2> QED
    BY <1>1, <2>1 DEF ChannelInv
<1>3. CASE UNCHANGED vars
  <2>1. Carried' = Carried
    BY <1>3 DEF vars, Carried, Nums
  <2> QED
    BY <1>1, <1>3, <2>1 DEF vars, ChannelInv, QueuesNumbered
<1> QED
    BY <1>2, <1>3

-----------------------------------------------------------------------------
(* The refinement: the steps of ModuleChannel, told by what happens to the
   channels and to their states.                                           *)

Chan == [m \in Modules |-> ChannelTo(m)]
State == [m \in Modules |-> StateOf(m)]

LEMMA StutterStep ==
    ASSUME Chan' = Chan, State' = State
    PROVE  UNCHANGED Channel!cvars
BY DEF Channel!cvars, Chan, State

LEMMA OpenStep ==
    ASSUME NEW m \in Modules, State[m] = "new", State' = [State EXCEPT ![m] = "open"],
           Chan' = Chan
    PROVE  Channel!CNext
<1>1. Channel!Open(m)
    BY DEF Channel!Open, Chan, State
<1> QED
    BY <1>1 DEF Channel!CNext

LEMMA PutStep ==
    ASSUME NEW m \in Modules, NEW x \in Messages, State[m] \in {"open", "closing"},
           \A i \in DOMAIN Chan[m] : Chan[m][i] # x,
           Chan' = [Chan EXCEPT ![m] = Append(@, x)], State' = State
    PROVE  Channel!CNext
<1>1. Channel!Put(m, x)
    BY DEF Channel!Put, Chan, State
<1> QED
    BY <1>1 DEF Channel!CNext

LEMMA GetStep ==
    ASSUME NEW m \in Modules, Chan[m] # <<>>,
           Chan' = [Chan EXCEPT ![m] = Tail(@)], State' = State
    PROVE  Channel!CNext
<1>1. Channel!Get(m)
    BY DEF Channel!Get, Chan, State
<1> QED
    BY <1>1 DEF Channel!CNext

LEMMA LoseStep ==
    ASSUME NEW m \in Modules, State[m] # "new",
           Chan' = [Chan EXCEPT ![m] = <<>>], State' = State
    PROVE  Channel!CNext
<1>1. Channel!Lose(m)
    BY DEF Channel!Lose, Chan, State
<1> QED
    BY <1>1 DEF Channel!CNext

LEMMA StartClosingStep ==
    ASSUME NEW ms \in SUBSET Modules, \A m \in ms : State[m] = "open",
           State' = [m \in Modules |-> IF m \in ms THEN "closing" ELSE State[m]],
           Chan' = Chan
    PROVE  Channel!CNext
<1>1. Channel!StartClosing(ms)
    BY DEF Channel!StartClosing, Chan, State
<1> QED
    BY <1>1 DEF Channel!CNext

LEMMA CloseStep ==
    ASSUME NEW ms \in SUBSET Modules, \A m \in ms : State[m] = "closing",
           State' = [m \in Modules |-> IF m \in ms THEN "closed" ELSE State[m]],
           Chan' = [m \in Modules |-> IF m \in ms THEN Chan'[m] ELSE Chan[m]],
           \A m \in ms : \E n \in 0 .. Len(Chan[m]) : Chan'[m] = SubSeq(Chan[m], 1, n)
    PROVE  Channel!CNext
<1>1. Channel!Close(ms)
    BY DEF Channel!Close, Chan, State
<1> QED
    BY <1>1 DEF Channel!CNext

(* What the state of the lists is to a channel. *)
LEMMA StateCases ==
    ASSUME ChannelInv, NEW m \in Modules
    PROVE  /\ State[m] = "open" <=> m \in listed
           /\ State[m] = "closing" <=> m \in deathRow
           /\ State[m] = "closed" <=> m \in freed
           /\ State[m] = "new" <=> m > started
<1>1. /\ listed \cup deathRow \cup freed = 1 .. started
      /\ listed \cap deathRow = {} /\ listed \cap freed = {} /\ deathRow \cap freed = {}
    BY DEF ChannelInv, RecordsAccountedFor
<1>2. m \in 1 .. started <=> ~(m > started)
    BY Sizes DEF ChannelInv, TypeOK, Modules
<1> QED
    BY <1>1, <1>2 DEF State, StateOf

LEMMA StillChannels ==
    ASSUME ChannelInv, Still, OnlyKills
    PROVE  Channel!CNext \/ UNCHANGED Channel!cvars
<1>1. Chan' = Chan
    BY DEF Still, Chan, ChannelTo
<1>2. CASE UNCHANGED <<started, listed, deathRow, freed>>
  <2>1. State' = State
    BY <1>2 DEF State, StateOf
  <2> QED
    BY <1>1, <2>1, StutterStep
<1>3. ASSUME NEW ms, Kill(ms)
      PROVE  Channel!CNext
  <2>1. /\ listed' = listed \ ms /\ deathRow' = deathRow \cup (ms \cap listed)
        /\ freed' = freed /\ listed \subseteq Modules
    BY <1>3 DEF Kill, ChannelInv, TypeOK
  <2>2. PICK ks \in SUBSET Modules : ks = ms \cap listed
    BY <2>1
  <2>3. ASSUME NEW m \in Modules
        PROVE  StateOf(m)' = IF m \in ks THEN "closing" ELSE State[m]
    BY <2>1, <2>2, StateCases DEF State, StateOf
  <2>4. State' = [m \in Modules |-> IF m \in ks THEN "closing" ELSE State[m]]
    BY <2>3 DEF State
  <2>5. \A m \in ks : State[m] = "open"
    BY <2>2, StateCases
  <2> QED
    BY <1>1, <2>4, <2>5, StartClosingStep
<1> QED
    BY <1>2, <1>3 DEF OnlyKills

(* A message on its way has its number among the numbers. *)
LEMMA CarriedIn ==
    ASSUME TypeOK, NEW m \in Modules
    PROVE  /\ pipe[m] \in Seq(Messages) /\ queue[m] \in Seq(Messages)
           /\ pipe[m] \o queue[m] \in Seq(Messages)
           /\ \A i \in DOMAIN (pipe[m] \o queue[m]) :
                 (pipe[m] \o queue[m])[i].n \in Carried[m]
<1>1. PICK p, q \in Seq(Messages) : p = pipe[m] /\ q = queue[m]
    BY DEF TypeOK
<1>2. /\ p \o q \in Seq(Messages) /\ Len(p \o q) = Len(p) + Len(q)
      /\ Len(p) \in Nat /\ Len(q) \in Nat
      /\ \A i \in 1 .. Len(p) + Len(q) :
            (p \o q)[i] = IF i <= Len(p) THEN p[i] ELSE q[i - Len(p)]
    BY ConcatProperties
<1>3. DOMAIN (p \o q) = 1 .. Len(p) + Len(q)
    BY <1>2
<1>4. ASSUME NEW i \in 1 .. Len(p) + Len(q)
      PROVE  (p \o q)[i].n \in Nums(p) \cup Nums(q)
  <2>1. CASE i <= Len(p)
    <3>1. i \in 1 .. Len(p) /\ (p \o q)[i] = p[i]
      BY <1>2, <2>1
    <3> QED
      BY <3>1 DEF Nums
  <2>2. CASE ~(i <= Len(p))
    <3>1. i - Len(p) \in 1 .. Len(q) /\ (p \o q)[i] = q[i - Len(p)]
      BY <1>2, <2>2
    <3> QED
      BY <3>1 DEF Nums
  <2> QED
    BY <2>1, <2>2
<1>5. Carried[m] = Nums(p) \cup Nums(q)
    BY <1>1 DEF Carried
<1> QED
    BY <1>1, <1>2, <1>3, <1>4, <1>5

-----------------------------------------------------------------------------
(* The messages a module has yet to read, of which the first are in its pipe
   and the others in its queue.                                            *)

(* One more message waits. *)
LEMMA ConcatPut ==
    ASSUME NEW p \in Seq(Messages), NEW q \in Seq(Messages), NEW x \in Messages
    PROVE  p \o Append(q, x) = Append(p \o q, x)
<1>1. <<x>> \in Seq(Messages) /\ p \o q \in Seq(Messages)
    BY ConcatProperties
<1>2. Append(q, x) = q \o <<x>>
    BY AppendIsConcat
<1>3. Append(p \o q, x) = (p \o q) \o <<x>>
    BY <1>1, AppendIsConcat
<1>4. (p \o q) \o <<x>> = p \o (q \o <<x>>)
    BY <1>1, ConcatAssociative
<1> QED
    BY <1>2, <1>3, <1>4

(* A message goes from the queue to the pipe. *)
LEMMA ConcatMove ==
    ASSUME NEW p \in Seq(Messages), NEW q \in Seq(Messages), q # <<>>
    PROVE  Append(p, Head(q)) \o Tail(q) = p \o q
<1>1. PICK h \in Messages, t \in Seq(Messages) : h = Head(q) /\ t = Tail(q)
    BY HeadTailProperties
<1>2. <<h>> \in Seq(Messages) /\ Append(p, h) = p \o <<h>>
    BY AppendIsConcat
<1>3. (p \o <<h>>) \o t = p \o (<<h>> \o t)
    BY <1>2, ConcatAssociative
<1>4. q = <<h>> \o t
  <2>1. /\ Len(q) \in Nat /\ Len(q) # 0 /\ Len(t) = Len(q) - 1 /\ h = q[1]
        /\ \A i \in 1 .. Len(t) : t[i] = q[i + 1]
    BY <1>1
  <2>2. PICK u \in Seq(Messages) : u = <<h>> \o t
    BY <1>2, ConcatProperties
  <2>3. /\ Len(<<h>>) = 1 /\ <<h>>[1] = h
        /\ Len(u) = 1 + Len(t)
        /\ \A i \in 1 .. 1 + Len(t) : u[i] = IF i <= 1 THEN <<h>>[i] ELSE t[i - 1]
    BY <1>2, <2>2, ConcatProperties
  <2>4. ASSUME NEW i \in 1 .. Len(q) PROVE q[i] = u[i]
    <3>1. CASE i = 1
      BY <2>1, <2>3, <3>1
    <3>2. CASE i # 1
      <4>1. i - 1 \in 1 .. Len(t) /\ i - 1 + 1 = i /\ ~(i <= 1) /\ i \in 1 .. 1 + Len(t)
        BY <2>1, <3>2
      <4> QED
        BY <2>1, <2>3, <4>1
    <3> QED
      BY <3>1, <3>2
  <2>5. Len(q) = Len(u)
    BY <2>1, <2>3
  <2> QED
    BY <2>2, <2>4, <2>5, SeqEqual
<1> QED
    BY <1>1, <1>2, <1>3, <1>4

(* The first message is read. *)
LEMMA ConcatGet ==
    ASSUME NEW p \in Seq(Messages), NEW q \in Seq(Messages), p # <<>>
    PROVE  p \o q # <<>> /\ Tail(p) \o q = Tail(p \o q)
<1>1. PICK c \in Seq(Messages) : c = p \o q
    BY ConcatProperties
<1>2. /\ Len(c) = Len(p) + Len(q)
      /\ \A i \in 1 .. Len(p) + Len(q) : c[i] = IF i <= Len(p) THEN p[i] ELSE q[i - Len(p)]
    BY <1>1, ConcatProperties
<1>3. Len(p) \in Nat /\ Len(p) # 0 /\ Len(q) \in Nat
    OBVIOUS
<1>4. c # <<>>
    BY <1>2, <1>3
<1>5. PICK t \in Seq(Messages) :
          /\ t = Tail(p) /\ Len(t) = Len(p) - 1 /\ \A i \in 1 .. Len(t) : t[i] = p[i + 1]
    BY HeadTailProperties
<1>6. PICK d \in Seq(Messages) :
          /\ d = Tail(c) /\ Len(d) = Len(c) - 1 /\ \A i \in 1 .. Len(d) : d[i] = c[i + 1]
    BY <1>4, HeadTailProperties
<1>7. PICK e \in Seq(Messages) : e = t \o q
    BY ConcatProperties
<1>e. /\ Len(e) = Len(t) + Len(q)
      /\ \A i \in 1 .. Len(t) + Len(q) : e[i] = IF i <= Len(t) THEN t[i] ELSE q[i - Len(t)]
    BY <1>7, ConcatProperties
<1>8. Len(d) = Len(e)
    BY <1>2, <1>3, <1>5, <1>6, <1>e
<1>9. ASSUME NEW i \in 1 .. Len(d) PROVE d[i] = e[i]
  <2>1. i \in 1 .. Len(t) + Len(q) /\ i + 1 \in 1 .. Len(p) + Len(q) /\ d[i] = c[i + 1]
    BY <1>2, <1>3, <1>5, <1>6
  <2>2. CASE i <= Len(t)
    BY <1>2, <1>3, <1>5, <1>e, <2>1, <2>2
  <2>3. CASE ~(i <= Len(t))
    <3>1. ~(i + 1 <= Len(p)) /\ i + 1 - Len(p) = i - Len(t)
      BY <1>3, <1>5, <2>3
    <3>2. c[i + 1] = q[i + 1 - Len(p)]
      BY <1>2, <2>1, <3>1
    <3>3. e[i] = q[i - Len(t)]
      BY <1>e, <2>1, <2>3
    <3> QED
      BY <2>1, <3>1, <3>2, <3>3
  <2> QED
    BY <2>2, <2>3
<1>10. d = e
    BY <1>8, <1>9, SeqEqual
<1> QED
    BY <1>1, <1>4, <1>5, <1>6, <1>7, <1>10

(* What is left of the messages when the queue is dropped. *)
LEMMA ConcatCut ==
    ASSUME NEW p \in Seq(Messages), NEW q \in Seq(Messages)
    PROVE  \E n \in 0 .. Len(p \o q) : p = SubSeq(p \o q, 1, n)
<1>1. Len(p) \in 0 .. Len(p \o q)
    BY ConcatProperties
<1>2. CASE p = <<>>
  <2>1. SubSeq(p \o q, 1, 0) = <<>>
    BY SubSeqEmpty
  <2> QED
    BY <1>1, <1>2, <2>1
<1>3. CASE p # <<>>
  <2>1. 1 \in 1 .. Len(p) /\ Len(p) \in 1 .. Len(p)
    BY <1>3
  <2>2. SubSeq(p \o q, 1, Len(p)) = SubSeq(p, 1, Len(p)) /\ SubSeq(p, 1, Len(p)) = p
    BY <2>1, SubSeqOfConcat1, SubSeqFull
  <2> QED
    BY <1>1, <2>2
<1> QED
    BY <1>2, <1>3

(* The channel of one module changes. *)
LEMMA OneChannel ==
    ASSUME NEW w \in Modules, NEW v, ChannelTo(w)' = v,
           \A m \in Modules : m # w => ChannelTo(m)' = ChannelTo(m)
    PROVE  Chan' = [Chan EXCEPT ![w] = v]
<1>1. \A m \in Modules : ChannelTo(m)' = IF m = w THEN v ELSE ChannelTo(m)
    OBVIOUS
<1> QED
    BY <1>1 DEF Chan

LEMMA SameStates ==
    ASSUME UNCHANGED listVars
    PROVE  State' = State
BY DEF State, StateOf, listVars

LEMMA WriteChannels ==
    ASSUME ChannelInv, PositiveWrite
    PROVE  Channel!CNext \/ UNCHANGED Channel!cvars
<1>0. /\ At("send", "write") /\ T.mod \notin freed
      /\ UNCHANGED listVars /\ pipe' = pipe /\ alive' = alive /\ freed' = freed
    BY DEF PositiveWrite, listVars, procVars
<1>w. /\ TypeOK /\ T.mod \in Modules /\ T.mod \in 1 .. started
      /\ T.msg \in Messages /\ T.msg.n \notin Carried[T.mod]
    BY <1>0, WriterFacts
<1>s. State' = State
    BY <1>0, SameStates
<1>1. CASE queue' = queue
  <2>1. Chan' = Chan
    BY <1>0, <1>1 DEF Chan, ChannelTo
  <2> QED
    BY <1>s, <2>1, StutterStep
<1>2. CASE queue' = [queue EXCEPT ![T.mod] = Append(@, T.msg)]
  <2>1. PICK w \in Modules, x \in Messages : w = T.mod /\ x = T.msg
    BY <1>w
  <2>2. /\ queue'[w] = Append(queue[w], x)
        /\ \A m \in Modules : m # w => queue'[m] = queue[m]
    BY <1>w, <1>2, <2>1 DEF TypeOK
  <2>3. \A m \in Modules : m # w => ChannelTo(m)' = ChannelTo(m)
    BY <1>0, <2>2 DEF ChannelTo
  <2>4. CASE w \notin alive
    <3>1. ChannelTo(w)' = ChannelTo(w)
      BY <1>0, <2>4 DEF ChannelTo
    <3>2. Chan' = Chan
      BY <2>3, <3>1 DEF Chan
    <3> QED
      BY <1>s, <3>2, StutterStep
  <2>5. CASE w \in alive
    <3>1. ChannelTo(w) = pipe[w] \o queue[w] /\ ChannelTo(w)' = pipe[w] \o Append(queue[w], x)
      BY <1>0, <2>1, <2>2, <2>5 DEF ChannelTo
    <3>2. pipe[w] \o Append(queue[w], x) = Append(pipe[w] \o queue[w], x)
      BY <1>w, CarriedIn, ConcatPut
    <3>3. Chan[w] = ChannelTo(w)
      BY DEF Chan
    <3>4. Chan' = [Chan EXCEPT ![w] = Append(Chan[w], x)]
      BY <2>3, <3>1, <3>2, <3>3, OneChannel
    <3>5. Chan' = [Chan EXCEPT ![w] = Append(@, x)]
      BY <3>4
    <3>6. x.n \notin Carried[w]
      BY <1>w, <2>1
    <3>7. \A i \in DOMAIN Chan[w] : Chan[w][i] # x
      BY <1>w, <3>1, <3>3, <3>6, CarriedIn
    <3>8. State[w] \in {"open", "closing"}
      <4>1. w \in listed \/ w \in deathRow
        BY <1>0, <1>w, <2>1 DEF ChannelInv, RecordsAccountedFor
      <4> QED
        BY <4>1, StateCases
    <3> QED
      BY <1>s, <3>5, <3>7, <3>8, PutStep
  <2> QED
    BY <2>4, <2>5
<1> QED
    BY <1>1, <1>2 DEF PositiveWrite

LEMMA FlushChannels ==
    ASSUME ChannelInv, FlushWrite
    PROVE  Channel!CNext \/ UNCHANGED Channel!cvars
<1>0. /\ TypeOK /\ QueuesNumbered /\ T.mod \in alive /\ queue[T.mod] # <<>>
      /\ queue \in [Modules -> Seq(Messages)] /\ pipe \in [Modules -> Seq(Messages)]
      /\ pipe' = [pipe EXCEPT ![T.mod] = Append(@, Head(queue[T.mod]))]
      /\ queue' = [queue EXCEPT ![T.mod] = Tail(@)]
      /\ UNCHANGED listVars /\ alive' = alive /\ freed' = freed
    BY DEF FlushWrite, ChannelInv, TypeOK, listVars, procVars
<1>1. PICK w \in Modules : w = T.mod
  <2>1. T.mod \in Modules
    BY <1>0 DEF TypeOK
  <2> QED
    BY <2>1
<1>2. /\ pipe'[w] = Append(pipe[w], Head(queue[w])) /\ queue'[w] = Tail(queue[w])
      /\ queue[w] \in Seq(Messages) /\ pipe[w] \in Seq(Messages) /\ queue[w] # <<>>
      /\ \A m \in Modules : m # w => pipe'[m] = pipe[m] /\ queue'[m] = queue[m]
    BY <1>0, <1>1
<1>3. w \notin freed /\ w \in alive
    BY <1>0, <1>1, <1>2 DEF QueuesNumbered
<1>4. pipe'[w] \o queue'[w] = pipe[w] \o queue[w]
    BY <1>2, ConcatMove
<1>5. ASSUME NEW m \in Modules PROVE ChannelTo(m)' = ChannelTo(m)
  <2>1. CASE m = w
    BY <1>0, <1>3, <1>4, <2>1 DEF ChannelTo
  <2>2. CASE m # w
    BY <1>0, <1>2, <2>2 DEF ChannelTo
  <2> QED
    BY <2>1, <2>2
<1>6. Chan' = Chan
    BY <1>5 DEF Chan
<1> QED
    BY <1>0, <1>6, SameStates, StutterStep

LEMMA LaunchChannels ==
    ASSUME ChannelInv, NEW w \in Modules, StartModule(w) \/ StartSynchronous(w)
    PROVE  Channel!CNext
<1>1. /\ w = started + 1 /\ alive' = alive \cup {w} /\ listed' = listed \cup {w}
      /\ UNCHANGED <<deathRow, freed, queue, pipe>>
    BY DEF StartModule, StartSynchronous, Launch, dataVars
<1>2. w > started
    BY <1>1, Sizes DEF ChannelInv, TypeOK
<1>3. /\ State[w] = "new" /\ w \notin alive /\ w \notin freed
      /\ pipe[w] = <<>> /\ queue[w] = <<>>
  <2>1. State[w] = "new" /\ w \notin freed
    BY <1>2, StateCases
  <2>2. w \notin 1 .. started
    BY <1>2, Sizes DEF ChannelInv, TypeOK, Modules
  <2> QED
    BY <1>2, <2>1, <2>2 DEF ChannelInv, QueuesNumbered
<1>4. <<>> \in Seq(Messages) /\ <<>> \o <<>> = <<>>
    OBVIOUS
<1>5. ASSUME NEW m \in Modules PROVE ChannelTo(m)' = ChannelTo(m)
  <2>1. CASE m = w
    BY <1>1, <1>3, <1>4, <2>1 DEF ChannelTo
  <2>2. CASE m # w
    BY <1>1, <2>2 DEF ChannelTo
  <2> QED
    BY <2>1, <2>2
<1>6. Chan' = Chan
    BY <1>5 DEF Chan
<1>7. \A m \in Modules : StateOf(m)' = IF m = w THEN "open" ELSE State[m]
    BY <1>1 DEF State, StateOf
<1>8. State' = [State EXCEPT ![w] = "open"]
    BY <1>7 DEF State
<1> QED
    BY <1>3, <1>6, <1>8, OpenStep

LEMMA CleanupChannels ==
    ASSUME ChannelInv, Cleanup
    PROVE  Channel!CNext
<1>0. TypeOK /\ deathRow \subseteq Modules
    BY DEF ChannelInv, TypeOK
<1>1. /\ freed' = freed \cup deathRow /\ deathRow' = {} /\ listed' = listed
      /\ queue' = [m \in Modules |-> IF m \in deathRow THEN <<>> ELSE queue[m]]
      /\ pipe' = pipe /\ alive' = alive
    BY DEF Cleanup, procVars
<1>2. PICK ks \in SUBSET Modules : ks = deathRow
    BY <1>0
<1>3. \A m \in ks : State[m] = "closing"
    BY <1>2, StateCases
<1>4. ASSUME NEW m \in Modules
      PROVE  StateOf(m)' = IF m \in ks THEN "closed" ELSE State[m]
    BY <1>1, <1>2, StateCases DEF State, StateOf
<1>5. State' = [m \in Modules |-> IF m \in ks THEN "closed" ELSE State[m]]
    BY <1>4 DEF State
<1>6. ASSUME NEW m \in Modules, m \notin ks
      PROVE  ChannelTo(m)' = ChannelTo(m)
    BY <1>1, <1>2, <1>6 DEF ChannelTo
<1>7. Chan' = [m \in Modules |-> IF m \in ks THEN Chan'[m] ELSE Chan[m]]
    BY <1>6 DEF Chan
<1>8. ASSUME NEW m \in ks
      PROVE  \E n \in 0 .. Len(Chan[m]) : Chan'[m] = SubSeq(Chan[m], 1, n)
  <2>0. m \in Modules /\ Chan'[m] = ChannelTo(m)' /\ Chan[m] = ChannelTo(m)
    BY DEF Chan
  <2>1. CASE m \notin alive
    <3>1. Chan'[m] = <<>> /\ Chan[m] = <<>>
      BY <1>1, <2>0, <2>1 DEF ChannelTo
    <3>2. SubSeq(<<>>, 1, 0) = <<>> /\ 0 \in 0 .. Len(<<>>)
      BY SubSeqEmpty, EmptySeq
    <3> QED
      BY <3>1, <3>2
  <2>2. CASE m \in alive
    <3>1. m \in deathRow /\ m \notin freed /\ m \in freed'
      BY <1>1, <1>2 DEF ChannelInv, RecordsAccountedFor
    <3>2. Chan'[m] = pipe[m] /\ Chan[m] = pipe[m] \o queue[m]
      BY <1>1, <2>0, <2>2, <3>1 DEF ChannelTo
    <3>3. \E n \in 0 .. Len(pipe[m] \o queue[m]) : pipe[m] = SubSeq(pipe[m] \o queue[m], 1, n)
      BY <1>0, <2>0, CarriedIn, ConcatCut
    <3> QED
      BY <3>2, <3>3
  <2> QED
    BY <2>1, <2>2
<1> QED
    BY <1>3, <1>5, <1>7, <1>8, CloseStep

LEMMA ReadChannels ==
    ASSUME ChannelInv, NEW w \in Modules, ModuleReads(w)
    PROVE  Channel!CNext
<1>0. /\ TypeOK /\ pipe \in [Modules -> Seq(Messages)]
    BY DEF ChannelInv, TypeOK
<1>1. /\ w \in alive /\ pipe[w] # <<>> /\ pipe' = [pipe EXCEPT ![w] = Tail(@)]
      /\ alive' = alive /\ queue' = queue /\ UNCHANGED listVars /\ freed' = freed
    BY DEF ModuleReads, listVars
<1>2. pipe'[w] = Tail(pipe[w]) /\ \A m \in Modules : m # w => pipe'[m] = pipe[m]
    BY <1>0, <1>1
<1>3. \A m \in Modules : m # w => ChannelTo(m)' = ChannelTo(m)
    BY <1>1, <1>2 DEF ChannelTo
<1>4. ChannelTo(w) # <<>> /\ ChannelTo(w)' = Tail(ChannelTo(w))
  <2>1. CASE w \in freed
    BY <1>1, <1>2, <2>1 DEF ChannelTo
  <2>2. CASE w \notin freed
    <3>1. ChannelTo(w) = pipe[w] \o queue[w] /\ ChannelTo(w)' = Tail(pipe[w]) \o queue[w]
      BY <1>1, <1>2, <2>2 DEF ChannelTo
    <3> QED
      BY <1>0, <1>1, <3>1, CarriedIn, ConcatGet
  <2> QED
    BY <2>1, <2>2
<1>5. Chan[w] = ChannelTo(w)
    BY DEF Chan
<1>6. Chan' = [Chan EXCEPT ![w] = Tail(Chan[w])]
    BY <1>3, <1>4, <1>5, OneChannel
<1>7. Chan' = [Chan EXCEPT ![w] = Tail(@)] /\ Chan[w] # <<>>
    BY <1>4, <1>5, <1>6
<1> QED
    BY <1>1, <1>7, SameStates, GetStep

LEMMA ExitChannels ==
    ASSUME ChannelInv, NEW w \in Modules, ModuleExits(w, TRUE) \/ ModuleExits(w, FALSE)
    PROVE  Channel!CNext
<1>0. TypeOK /\ pipe \in [Modules -> Seq(Messages)]
    BY DEF ChannelInv, TypeOK
<1>1. /\ w \in alive /\ alive' = alive \ {w} /\ pipe' = [pipe EXCEPT ![w] = <<>>]
      /\ queue' = queue /\ UNCHANGED listVars /\ freed' = freed
    BY DEF ModuleExits, listVars
<1>2. \A m \in Modules : m # w => ChannelTo(m)' = ChannelTo(m)
    BY <1>0, <1>1 DEF ChannelTo
<1>3. ChannelTo(w)' = <<>>
    BY <1>1 DEF ChannelTo
<1>4. Chan' = [Chan EXCEPT ![w] = <<>>]
    BY <1>2, <1>3, OneChannel
<1>5. State[w] # "new"
  <2>1. w \in 1 .. started
    BY <1>1 DEF ChannelInv, QueuesNumbered
  <2>2. ~(w > started)
    BY <2>1, Sizes DEF ChannelInv, TypeOK
  <2> QED
    BY <2>2, StateCases
<1> QED
    BY <1>1, <1>4, <1>5, SameStates, LoseStep

LEMMA ChannelsStart == Init => Channel!CInit
<1> SUFFICES ASSUME Init PROVE Channel!CInit
    OBVIOUS
<1>1. \A m \in Modules : ChannelTo(m) = <<>>
  <2>1. <<>> \o <<>> = <<>>
    OBVIOUS
  <2> QED
    BY <2>1 DEF Init, ChannelTo
<1>2. \A m \in Modules : StateOf(m) \in {"new", "open"}
    BY DEF Init, StateOf
<1> QED
    BY <1>1, <1>2 DEF Channel!CInit

LEMMA ChannelsStep ==
    ASSUME ChannelInv, [Next]_vars
    PROVE  [Channel!CNext]_(Channel!cvars)
<1>1. CASE Next
  <2>1. CASE StillSteps
    BY <2>1, StillStepsAreStill, StillChannels
  <2> QED
    BY <1>1, <2>1, NextCases, WriteChannels, FlushChannels, CleanupChannels,
       LaunchChannels, ReadChannels, ExitChannels
<1>2. CASE UNCHANGED vars
  <2>1. Chan' = Chan /\ State' = State
    BY <1>2 DEF vars, Chan, ChannelTo, State, StateOf
  <2> QED
    BY <2>1, StutterStep
<1> QED
    BY <1>1, <1>2

(* What fvwm writes to each module, from the first packet to the last, goes
   through a channel that keeps the order, repeats nothing, and loses only
   from the end of a channel that is being closed, whatever the modules do
   and in whatever activation the packets are sent (ReliableChannels).     *)
THEOREM ChannelsReliable == Spec => ReliableChannels
<1>1. Init => ChannelInv
    BY ChannelInit
<1>2. ChannelInv /\ [Next]_vars => ChannelInv'
    BY ChannelNext
<1>3. Init => Channel!CInit
    BY ChannelsStart
<1>4. ChannelInv /\ [Next]_vars => [Channel!CNext]_(Channel!cvars)
    BY ChannelsStep
<1> QED
    BY <1>1, <1>2, <1>3, <1>4, PTL DEF Spec, ReliableChannels, Channel!CSpec

-----------------------------------------------------------------------------
(***************************************************************************)
(* Under which commands fvwm never uses the memory of a module, or of a    *)
(* cell of module_list, that it has freed.                                 *)
(*                                                                         *)
(* The argument: a loop over module_list is stopped with its iterator on   *)
(* the next cell only while fvwm writes to, or waits for, the module of    *)
(* the current cell.  If what runs meanwhile works for that module alone,  *)
(* then that module alone can be killed, and the next cell stays.  The     *)
(* record of a killed module stays as long as a frame works for it, since  *)
(* module_cleanup is only called by an event loop, and without Wait there  *)
(* is but one event loop, at the bottom of the stack.                      *)
(***************************************************************************)

(* The commands for which the argument holds: none Waits, and those that are
   executed in a wait for an unlock only reply or set masks.               *)
TameOps == {"reply", "masks"}
CommandsAreTame ==
    /\ "wait" \notin EventOps \cup QueuedOps
    /\ SyncOps \subseteq TameOps

(* A frame by itself: the event loop is the bottom one and no command runs
   another, only the other frames and a loop between reading and flushing
   use their module, and an iterator is on a cell of the list other than
   that of the module at hand.                                             *)
Iterating(g) == g.k = "send" \/ (g.k = "loop" /\ g.pc \in {"io", "post"})
FrameOK(g, bottom, l, f) ==
    /\ g.k = "loop" <=> bottom
    /\ g.k # "loop" \/ g.pc = "post" => g.mod \notin f
    /\ g.itr # 0 => Iterating(g) /\ g.itr \in l /\ g.itr # g.mod
    /\ g.k = "loop" /\ ~Iterating(g) => g.mod = 0
    /\ "wait" \notin g.ops

(* A frame above one with an iterator works for the same module. *)
ServesOnly(g, m) == g.mod = m /\ g.itr = 0 /\ g.k # "start" /\ g.ops \subseteq TameOps

(* The strengthening of NoUseAfterFree that every step preserves. *)
StackOK(s, l, f) ==
    /\ Len(s) > 0
    /\ \A i \in 1 .. Len(s) : FrameOK(s[i], i = 1, l, f)
    /\ \A i, j \in 1 .. Len(s) : i < j /\ s[i].itr # 0 => ServesOnly(s[j], s[i].mod)

-----------------------------------------------------------------------------
(* Stacks. *)

LEMMA StackPush ==
    ASSUME NEW s \in Seq(Frames), NEW g \in Frames, NEW l, NEW f,
           StackOK(s, l, f), FrameOK(g, FALSE, l, f),
           \A i \in 1 .. Len(s) : s[i].itr # 0 => ServesOnly(g, s[i].mod)
    PROVE  StackOK(Append(s, g), l, f)
<1> DEFINE r == Append(s, g)
<1>1. /\ Len(s) \in Nat /\ Len(r) = Len(s) + 1 /\ r[Len(s) + 1] = g
      /\ \A i \in 1 .. Len(s) : r[i] = s[i]
    BY PushFrame
<1>2. ASSUME NEW i \in 1 .. Len(r)
      PROVE  FrameOK(r[i], i = 1, l, f)
  <2>1. CASE i \in 1 .. Len(s)
    BY <1>1, <2>1 DEF StackOK
  <2>2. CASE i = Len(s) + 1
    <3>1. (i = 1) = FALSE
      BY <1>1, <2>2 DEF StackOK
    <3> QED
      BY <1>1, <2>2, <3>1
  <2> QED
    BY <1>1, <2>1, <2>2
<1>3. ASSUME NEW i \in 1 .. Len(r), NEW j \in 1 .. Len(r), i < j, r[i].itr # 0
      PROVE  ServesOnly(r[j], r[i].mod)
  <2>1. i \in 1 .. Len(s) /\ r[i] = s[i]
    BY <1>1, <1>3
  <2>2. CASE j \in 1 .. Len(s)
    BY <1>1, <1>3, <2>1, <2>2 DEF StackOK
  <2>3. CASE j = Len(s) + 1
    BY <1>1, <1>3, <2>1, <2>3
  <2> QED
    BY <1>1, <2>2, <2>3
<1> QED
    BY <1>1, <1>2, <1>3 DEF StackOK

LEMMA StackPop ==
    ASSUME stack \in Seq(Frames), NEW l, NEW f, StackOK(stack, l, f), Depth > 1
    PROVE  StackOK(Pop, l, f)
<1>1. /\ Depth \in Nat /\ Len(Pop) = Depth - 1 /\ Len(stack) = Depth
      /\ \A i \in 1 .. Depth - 1 : Pop[i] = stack[i]
    BY PopFrame DEF Depth
<1>2. \A i \in 1 .. Depth - 1 : i \in 1 .. Len(stack)
    BY <1>1
<1> QED
    BY <1>1, <1>2 DEF StackOK

LEMMA StackChange ==
    ASSUME stack \in Seq(Frames), NEW g \in Frames, NEW l, NEW f,
           StackOK(stack, l, f), FrameOK(g, Depth = 1, l, f),
           \A i \in 1 .. Depth - 1 : stack[i].itr # 0 => ServesOnly(g, stack[i].mod)
    PROVE  StackOK(Become(g), l, f)
<1> DEFINE r == Become(g)
<1>1. /\ Depth \in Nat /\ Depth > 0 /\ Len(stack) = Depth
      /\ Len(r) = Depth /\ r[Depth] = g
      /\ \A i \in 1 .. Depth - 1 : r[i] = stack[i]
    BY ChangeFrame DEF Depth, StackOK
<1>2. ASSUME NEW i \in 1 .. Depth
      PROVE  FrameOK(r[i], i = 1, l, f)
  <2>1. CASE i = Depth
    BY <1>1, <2>1
  <2>2. CASE i # Depth
    BY <1>1, <2>2 DEF StackOK
  <2> QED
    BY <2>1, <2>2
<1>3. ASSUME NEW i \in 1 .. Depth, NEW j \in 1 .. Depth, i < j, r[i].itr # 0
      PROVE  ServesOnly(r[j], r[i].mod)
  <2>1. i \in 1 .. Depth - 1 /\ r[i] = stack[i]
    BY <1>1, <1>3
  <2>2. CASE j = Depth
    BY <1>1, <1>3, <2>1, <2>2
  <2>3. CASE j # Depth
    BY <1>1, <1>3, <2>1, <2>3 DEF StackOK
  <2> QED
    BY <2>2, <2>3
<1> QED
    BY <1>1, <1>2, <1>3 DEF StackOK

(* The event loop alone. *)
LEMMA StackOne ==
    ASSUME NEW s, NEW l, NEW f, Len(s) = 1, FrameOK(s[1], TRUE, l, f)
    PROVE  StackOK(s, l, f)
<1>1. ASSUME NEW i \in 1 .. Len(s)
      PROVE  FrameOK(s[i], i = 1, l, f)
  <2>1. i = 1 /\ (i = 1) = TRUE
    OBVIOUS
  <2> QED
    BY <2>1
<1>2. \A i, j \in 1 .. Len(s) : ~(i < j)
    OBVIOUS
<1> QED
    BY <1>1, <1>2 DEF StackOK

(* What the top frame knows of those below it. *)
LEMMA TopOfStack ==
    ASSUME stack \in Seq(Frames), NEW l, NEW f, StackOK(stack, l, f)
    PROVE  /\ Depth \in Nat /\ Depth > 0 /\ Len(stack) = Depth /\ T = stack[Depth]
           /\ FrameOK(T, Depth = 1, l, f)
           /\ T.k = "loop" <=> Depth = 1
           /\ \A i \in 1 .. Depth - 1 : stack[i].itr # 0 => ServesOnly(T, stack[i].mod)
           /\ \A i \in 1 .. Depth : stack[i].itr # 0 => stack[i].itr # T.mod
<1>1. Depth \in Nat /\ Depth > 0 /\ Len(stack) = Depth /\ T = stack[Depth]
    BY DEF StackOK, Depth, T
<1>2. FrameOK(T, Depth = 1, l, f)
    BY <1>1 DEF StackOK
<1>3. \A i \in 1 .. Depth - 1 : stack[i].itr # 0 => ServesOnly(T, stack[i].mod)
    BY <1>1 DEF StackOK
<1>4. ASSUME NEW i \in 1 .. Depth, stack[i].itr # 0
      PROVE  stack[i].itr # T.mod
  <2>1. stack[i].itr # stack[i].mod
    BY <1>1, <1>4 DEF StackOK, FrameOK
  <2>2. CASE i = Depth
    BY <1>1, <2>1, <2>2
  <2>3. CASE i # Depth
    BY <1>1, <1>3, <1>4, <2>1, <2>3 DEF ServesOnly
  <2> QED
    BY <2>2, <2>3
<1> QED
    BY <1>1, <1>2, <1>3, <1>4 DEF FrameOK

(* Killing modules that no iterator is on. *)
LEMMA StackKill ==
    ASSUME NEW s, NEW l, NEW f, NEW ms, StackOK(s, l, f),
           \A i \in 1 .. Len(s) : s[i].itr # 0 => s[i].itr \notin ms
    PROVE  StackOK(s, l \ ms, f)
BY DEF StackOK, FrameOK

(* Starting modules. *)
LEMMA StackMore ==
    ASSUME NEW s, NEW l, NEW f, NEW ms, StackOK(s, l, f)
    PROVE  StackOK(s, l \cup ms, f)
BY DEF StackOK, FrameOK

-----------------------------------------------------------------------------
(* The ways in which steps change the stack. *)

SafeInv == TypeOK /\ RecordsAccountedFor /\ StackOK(stack, listed, freed)

(* A frame that serves the module of the frame below it. *)
LEMMA PushServing ==
    ASSUME NEW s \in Seq(Frames), NEW g \in Frames, NEW l, NEW f, StackOK(s, l, f),
           g.k \notin {"loop", "start"}, g.mod = s[Len(s)].mod, g.mod \notin f,
           g.itr = 0, g.ops \subseteq TameOps
    PROVE  StackOK(Append(s, g), l, f)
<1>1. FrameOK(g, FALSE, l, f)
    BY DEF FrameOK, TameOps
<1>2. ASSUME NEW i \in 1 .. Len(s), s[i].itr # 0
      PROVE  ServesOnly(g, s[i].mod)
  <2>1. Len(s) \in Nat /\ Len(s) \in 1 .. Len(s)
    BY DEF StackOK
  <2>2. s[Len(s)].mod = s[i].mod
    BY <1>2, <2>1 DEF StackOK, ServesOnly
  <2> QED
    BY <2>2 DEF ServesOnly
<1> QED
    BY <1>1, <1>2, StackPush

(* A frame other than an event loop goes on at another place. *)
LEMMA GotoSafe ==
    ASSUME TypeOK, NEW l, NEW f, StackOK(stack, l, f), T.k # "loop",
           NEW pc \in {"select", "io", "exec", "next", "write", "wait", "post", "run"}
    PROVE  StackOK(Goto(pc), l, f) /\ Goto(pc) \in Seq(Frames)
<1> DEFINE g == [T EXCEPT !.pc = pc]
<1>1. stack \in Seq(Frames)
    BY DEF TypeOK
<1>2. Depth > 0 /\ T \in Frames /\ g \in Frames
    BY <1>1, TopOfStack, StackSteps
<1>3. g.k = T.k /\ g.mod = T.mod /\ g.itr = T.itr /\ g.ops = T.ops
    BY <1>2 DEF Frames, FrameRecords
<1>4. FrameOK(g, Depth = 1, l, f)
    BY <1>1, <1>3, TopOfStack DEF FrameOK, Iterating
<1>5. \A i \in 1 .. Depth - 1 : stack[i].itr # 0 => ServesOnly(g, stack[i].mod)
    BY <1>1, <1>3, TopOfStack DEF ServesOnly
<1> QED
    BY <1>1, <1>2, <1>4, <1>5, StackChange, StackSteps DEF Goto

LEMMA FlushFrameFields ==
    ASSUME NEW m
    PROVE  /\ FlushFrame(m).k = "flush" /\ FlushFrame(m).mod = m
           /\ FlushFrame(m).itr = 0 /\ FlushFrame(m).ops = {}
BY DEF FlushFrame, Frame

LEMMA ExecuteFields ==
    ASSUME NEW m, NEW item, NEW ops
    PROVE  /\ Execute(m, item, ops).k = "cmd" /\ Execute(m, item, ops).mod = m
           /\ Execute(m, item, ops).itr = 0 /\ Execute(m, item, ops).ops \subseteq ops
BY DEF Execute, CmdFrame, Frame

(* It goes on there when a flush of its module's queue is over. *)
LEMMA GotoAndFlushSafe ==
    ASSUME TypeOK, NEW l, NEW f, StackOK(stack, l, f), T.k # "loop", T.mod \notin f,
           NEW pc \in {"select", "io", "exec", "next", "write", "wait", "post", "run"}
    PROVE  StackOK(GotoAndPush(pc, FlushFrame(T.mod)), l, f)
<1>1. StackOK(Goto(pc), l, f) /\ Goto(pc) \in Seq(Frames)
    BY GotoSafe
<1>2. stack \in Seq(Frames) /\ Depth > 0
    BY TopOfStack DEF TypeOK
<1>3. T \in Frames /\ [T EXCEPT !.pc = pc] \in Frames /\ FlushFrame(T.mod) \in Frames
    BY <1>2, StackSteps
<1>4. Len(Goto(pc)) = Depth /\ Goto(pc)[Depth] = [T EXCEPT !.pc = pc]
    BY <1>2, <1>3, ChangeFrame DEF Goto
<1>5. [T EXCEPT !.pc = pc].mod = T.mod
    BY <1>3 DEF Frames, FrameRecords
<1> QED
    BY <1>1, <1>3, <1>4, <1>5, FlushFrameFields, PushServing DEF GotoAndPush

LEMMA PopSafe ==
    ASSUME TypeOK, NEW l, NEW f, StackOK(stack, l, f), T.k # "loop"
    PROVE  StackOK(Pop, l, f)
<1>1. stack \in Seq(Frames) /\ Depth > 1
    BY TopOfStack DEF TypeOK
<1> QED
    BY <1>1, StackPop

(* Killing the module the top frame works for. *)
LEMMA KillTop ==
    ASSUME SafeInv, Kill({T.mod}) \/ UNCHANGED listVars
    PROVE  StackOK(stack, listed', freed')
<1>1. CASE Kill({T.mod})
  <2>1. listed' = listed \ {T.mod} /\ freed' = freed
    BY <1>1 DEF Kill
  <2>2. Len(stack) = Depth /\ \A i \in 1 .. Depth : stack[i].itr # 0 => stack[i].itr # T.mod
    BY TopOfStack DEF SafeInv, TypeOK
  <2> QED
    BY <2>1, <2>2, StackKill DEF SafeInv
<1>2. CASE UNCHANGED listVars
    BY <1>2 DEF SafeInv, listVars
<1> QED
    BY <1>1, <1>2

(* Where there is no iterator, any frame may be put on top. *)
NoIterator == \A i \in 1 .. Depth : stack[i].itr = 0

LEMMA PushFree ==
    ASSUME TypeOK, NEW l, NEW f, StackOK(stack, l, f), NoIterator,
           NEW g \in Frames, FrameOK(g, FALSE, l, f)
    PROVE  StackOK(Push(g), l, f)
<1>1. stack \in Seq(Frames) /\ Len(stack) = Depth
    BY TopOfStack DEF TypeOK
<1> QED
    BY <1>1, StackPush DEF NoIterator, Push

LEMMA NoIteratorHere ==
    ASSUME SafeInv,
           \/ T.k = "start"
           \/ T.k = "cmd" /\ ~(T.ops \subseteq TameOps)
           \/ T.k = "loop" /\ T.pc \in {"select", "exec"}
    PROVE  NoIterator
<1>1. /\ Depth \in Nat /\ Depth > 0 /\ T = stack[Depth]
      /\ FrameOK(T, Depth = 1, listed, freed)
      /\ \A i \in 1 .. Depth - 1 : stack[i].itr # 0 => ServesOnly(T, stack[i].mod)
    BY TopOfStack DEF SafeInv, TypeOK
<1>2. T.itr = 0
    BY <1>1 DEF FrameOK, Iterating
<1>3. ASSUME NEW i \in 1 .. Depth - 1
      PROVE  stack[i].itr = 0
  <2>1. ~ServesOnly(T, stack[i].mod)
    BY <1>1, <1>3 DEF ServesOnly, FrameOK
  <2> QED
    BY <1>1, <2>1
<1> QED
    BY <1>1, <1>2, <1>3 DEF NoIterator

-----------------------------------------------------------------------------
(* The steps. *)

StackSafe == StackOK(stack, listed, freed)

LEMMA SendingSafe == SafeInv /\ Sending => StackSafe'
<1> SUFFICES ASSUME SafeInv, Sending PROVE StackSafe'
    OBVIOUS
<1>0. /\ TypeOK /\ StackOK(stack, listed, freed)
      /\ T.k = "send" /\ Depth > 0 /\ T \in Frames /\ T.itr \in 0 .. N
      /\ T.mod \notin freed /\ Depth # 1
  <2>1. TypeOK /\ T.k = "send" /\ Depth > 0 /\ stack \in Seq(Frames)
    BY DEF SafeInv, TypeOK, Sending, SendNext, PositiveWrite, SendPost, At
  <2> QED
    BY <2>1, TopOfStack, StackSteps DEF SafeInv, FrameOK
<1>1. listed' = listed /\ freed' = freed
    BY DEF Sending, SendNext, PositiveWrite, SendPost, listVars
<1>2. CASE SendNext /\ T.itr = 0
  BY <1>0, <1>1, <1>2, PopSafe DEF SendNext, StackSafe
<1>3. CASE SendNext /\ T.itr # 0
  <2> DEFINE g == [T EXCEPT !.mod = T.itr, !.itr = After(T.itr),
                            !.pc = IF T.itr \in T.to THEN "write" ELSE "next"]
  <2>1. T.itr \in listed /\ T.itr \notin freed /\ stack' = Become(g)
    BY <1>3 DEF SendNext, SafeInv, RecordsAccountedFor
  <2>2. /\ After(T.itr) \in 0 .. N
        /\ After(T.itr) = 0 \/ (After(T.itr) \in listed /\ After(T.itr) < T.itr)
    BY <1>0, AfterType DEF TypeOK
  <2>3. /\ g \in Frames /\ g.k = "send" /\ g.mod = T.itr
        /\ g.itr = After(T.itr) /\ g.ops = T.ops
    BY <1>0, <2>2 DEF Frames, FrameRecords
  <2>4. "wait" \notin T.ops
    BY <1>0, TopOfStack DEF FrameOK, TypeOK
  <2>5. FrameOK(g, Depth = 1, listed, freed)
    BY <1>0, <2>1, <2>2, <2>3, <2>4 DEF FrameOK, Iterating
  <2>6. \A i \in 1 .. Depth - 1 : stack[i].itr # 0 => ServesOnly(g, stack[i].mod)
    BY <1>0, <1>3, TopOfStack DEF ServesOnly, TypeOK
  <2>7. StackOK(Become(g), listed, freed)
    BY <1>0, <2>3, <2>5, <2>6, StackChange DEF TypeOK
  <2> QED
    BY <1>1, <2>1, <2>7 DEF StackSafe
<1>4. CASE PositiveWrite
  <2>1. stack' = Goto("post") \/ stack' = GotoAndPush("wait", FlushFrame(T.mod))
    BY <1>4 DEF PositiveWrite
  <2> QED
    BY <1>0, <1>1, <2>1, GotoSafe, GotoAndFlushSafe DEF StackSafe
<1>5. CASE SendPost
  <2>1. stack' = Goto("next") \/ stack' = GotoAndPush("next", FlushFrame(T.mod))
    BY <1>5 DEF SendPost
  <2> QED
    BY <1>0, <1>1, <2>1, GotoSafe, GotoAndFlushSafe DEF StackSafe
<1> QED
    BY <1>2, <1>3, <1>4, <1>5 DEF Sending

LEMMA FlushingSafe == SafeInv /\ Flushing => StackSafe'
<1> SUFFICES ASSUME SafeInv, Flushing PROVE StackSafe'
    OBVIOUS
<1>0. T.k = "flush" /\ TypeOK /\ StackOK(stack, listed, freed)
    BY DEF Flushing, FlushWrite, FlushDone, FlushFails, At, SafeInv
<1>1. CASE FlushWrite
  BY <1>0, <1>1 DEF FlushWrite, listVars, StackSafe
<1>2. CASE FlushDone
  BY <1>0, <1>2, PopSafe DEF FlushDone, listVars, StackSafe
<1>3. CASE FlushFails
  <2>1. StackOK(stack, listed', freed') /\ stack' = Pop
    BY <1>3, KillTop DEF FlushFails
  <2> QED
    BY <1>0, <2>1, PopSafe DEF StackSafe
<1> QED
    BY <1>1, <1>2, <1>3 DEF Flushing

LEMMA WaitingSafe == CommandsAreTame /\ SafeInv /\ Waiting => StackSafe'
<1> SUFFICES ASSUME CommandsAreTame, SafeInv, Waiting PROVE StackSafe'
    OBVIOUS
<1>0. /\ T.k = "send" /\ TypeOK /\ T.mod \notin freed /\ T.mod \in 0 .. N
      /\ stack \in Seq(Frames) /\ T = stack[Len(stack)]
  <2>1. T.k = "send" /\ TypeOK /\ stack \in Seq(Frames) /\ T.mod \notin freed
    BY DEF Waiting, WaitUnlock, WaitCommand, WaitEOF, WaitTimeout, At, SafeInv, TypeOK
  <2> QED
    BY <2>1, TopOfStack, StackSteps DEF SafeInv
<1>1. Kill({T.mod}) \/ UNCHANGED listVars
    BY DEF Waiting, WaitUnlock, WaitCommand, WaitEOF, WaitTimeout, Receive, ReceiveFails
<1>2. StackOK(stack, listed', freed') /\ freed' = freed
    BY <1>1, KillTop DEF Kill, listVars
<1>3. CASE WaitUnlock \/ WaitEOF \/ WaitTimeout
  <2>1. stack' = Goto("post")
    BY <1>3 DEF WaitUnlock, WaitEOF, WaitTimeout
  <2> QED
    BY <1>0, <1>2, <2>1, GotoSafe DEF StackSafe
<1>4. CASE WaitCommand
  <2> DEFINE g == Execute(T.mod, Head(inp[T.mod]), SyncOps)
  <2>1. stack' = Append(stack, g)
    BY <1>4 DEF WaitCommand, Push
  <2>2. g \in Frames
    BY <1>0, OpsAssumption, ExecuteType DEF OpsAssumption
  <2>3. g.k = "cmd" /\ g.mod = T.mod /\ g.itr = 0 /\ g.ops \subseteq TameOps
    BY ExecuteFields DEF CommandsAreTame
  <2> HIDE DEF g
  <2>4. StackOK(Append(stack, g), listed', freed')
    BY <1>0, <1>2, <2>2, <2>3, PushServing
  <2> QED
    BY <2>1, <2>4 DEF StackSafe
<1> QED
    BY <1>3, <1>4 DEF Waiting

LEMMA StartingSafe == CommandsAreTame /\ SafeInv /\ Starting => StackSafe'
<1> SUFFICES ASSUME CommandsAreTame, SafeInv, Starting PROVE StackSafe'
    OBVIOUS
<1>0. /\ T.k = "start" /\ TypeOK /\ T.mod \notin freed /\ T.mod \in 0 .. N
      /\ stack \in Seq(Frames) /\ Depth > 0 /\ T = stack[Len(stack)]
  <2>1. T.k = "start" /\ TypeOK /\ stack \in Seq(Frames) /\ T.mod \notin freed
    BY DEF Starting, StartFinished, StartCommand, StartEOF, StartFlush, StartGivenUp,
           At, SafeInv, TypeOK
  <2> QED
    BY <2>1, TopOfStack, StackSteps DEF SafeInv
<1>1. Kill({T.mod}) \/ UNCHANGED listVars
    BY DEF Starting, StartFinished, StartCommand, StartEOF, StartFlush, StartGivenUp,
           Receive, ReceiveFails
<1>2. StackOK(stack, listed', freed') /\ freed' = freed
    BY <1>1, KillTop DEF Kill, listVars
<1>3. CASE StartFinished \/ StartEOF \/ StartGivenUp
  <2>1. stack' = Pop
    BY <1>3 DEF StartFinished, StartEOF, StartGivenUp
  <2> QED
    BY <1>0, <1>2, <2>1, PopSafe DEF StackSafe
<1>4. CASE StartCommand
  <2> DEFINE g == Execute(T.mod, Head(inp[T.mod]), QueuedOps)
  <2>1. stack' = Push(g)
    BY <1>4 DEF StartCommand
  <2>2. g \in Frames
    BY <1>0, OpsAssumption, ExecuteType DEF OpsAssumption
  <2>3. g.k = "cmd" /\ g.mod = T.mod /\ g.itr = 0 /\ "wait" \notin g.ops
    BY ExecuteFields DEF CommandsAreTame
  <2> HIDE DEF g
  <2>4. FrameOK(g, FALSE, listed', freed')
    BY <1>0, <1>2, <2>3 DEF FrameOK
  <2>5. NoIterator
    BY <1>0, NoIteratorHere
  <2>6. StackOK(Push(g), listed', freed')
    BY <1>0, <1>2, <2>2, <2>4, <2>5, PushFree
  <2> QED
    BY <2>1, <2>6 DEF StackSafe
<1>5. CASE StartFlush
  <2>1. stack' = Append(stack, FlushFrame(T.mod))
    BY <1>5 DEF StartFlush, Push
  <2>2. FlushFrame(T.mod) \in Frames
    BY <1>0, FlushFrameType
  <2>3. StackOK(Append(stack, FlushFrame(T.mod)), listed', freed')
    BY <1>0, <1>2, <2>2, FlushFrameFields, PushServing
  <2> QED
    BY <2>1, <2>3 DEF StackSafe
<1> QED
    BY <1>3, <1>4, <1>5 DEF Starting

LEMMA NewSendFields ==
    ASSUME NEW c, NEW ms, NEW pc, NEW mod, NEW itr, NEW grab, NEW push
    PROVE  LET g == NewSend(c, ms, pc, mod, itr, grab, push)
           IN  g.k = "send" /\ g.mod = mod /\ g.itr = itr /\ g.ops = {}
BY DEF NewSend, Frame

(* A broadcast may only start where no other loop over the list is stopped. *)
LEMMA BroadcastSafe ==
    ASSUME SafeInv, T.k = "cmd", ~(T.ops \subseteq TameOps), UNCHANGED listVars,
           NEW c \in Classes, NEW ms \in SUBSET Modules, NEW grab \in BOOLEAN,
           NEW push \in BOOLEAN, Send(NewSend(c, ms, "next", 0, First, grab, push))
    PROVE  StackSafe'
<1> DEFINE g == NewSend(c, ms, "next", 0, First, grab, push)
<1>1. /\ TypeOK /\ StackOK(stack, listed, freed) /\ listed \subseteq Modules
      /\ freed \subseteq Modules
    BY DEF SafeInv, TypeOK
<1>2. First \in 0 .. N /\ (First = 0 \/ First \in listed)
    BY <1>1, FirstType
<1>3. g \in Frames /\ stack' = Push(g)
    BY <1>1, <1>2, Sizes, NewSendType DEF Send, TypeOK
<1>4. g.k = "send" /\ g.mod = 0 /\ g.itr = First /\ g.ops = {}
    BY NewSendFields
<1> HIDE DEF g
<1>5. FrameOK(g, FALSE, listed, freed)
    BY <1>1, <1>2, <1>4, ModuleIds DEF FrameOK, Iterating
<1>6. StackOK(Push(g), listed, freed)
    BY <1>1, <1>3, <1>5, NoIteratorHere, PushFree
<1> QED
    BY <1>3, <1>6 DEF StackSafe, listVars

LEMMA ReplySafe ==
    ASSUME SafeInv, NEW c \in Classes, SendReply(c)
    PROVE  StackSafe'
<1> DEFINE g == NewSend(c, {T.mod}, "write", T.mod, 0, FALSE, TRUE)
<1>1. /\ TypeOK /\ StackOK(stack, listed, freed) /\ stack \in Seq(Frames)
      /\ T.mod \notin freed /\ T.mod # 0 /\ stack' = Append(stack, g)
      /\ UNCHANGED listVars /\ sent \in 0 .. MaxMsgs /\ sent < MaxMsgs
    BY DEF SafeInv, TypeOK, SendReply, Send, Push
<1>2. T.mod \in 0 .. N /\ T = stack[Len(stack)]
    BY <1>1, TopOfStack, StackSteps
<1>3. g \in Frames
  <2>1. {T.mod} \in SUBSET Modules
    BY <1>1, <1>2, Sizes DEF Modules
  <2> QED
    BY <1>1, <1>2, <2>1, Sizes, NewSendType
<1>4. g.k = "send" /\ g.mod = T.mod /\ g.itr = 0 /\ g.ops = {}
    BY NewSendFields
<1> HIDE DEF g
<1>5. StackOK(Append(stack, g), listed, freed)
    BY <1>1, <1>2, <1>3, <1>4, PushServing
<1> QED
    BY <1>1, <1>5 DEF StackSafe, listVars

LEMMA LaunchSafe ==
    ASSUME SafeInv, NEW m \in Modules, Launch(m)
    PROVE  StackOK(stack, listed', freed') /\ m \notin freed'
<1>1. m = started + 1 /\ listed' = listed \cup {m} /\ freed' = freed /\ started \in Nat
    BY Sizes DEF Launch, SafeInv, TypeOK
<1> QED
    BY <1>1, StackMore DEF SafeInv, RecordsAccountedFor

LEMMA CommandingSafe == CommandsAreTame /\ SafeInv /\ Commanding => StackSafe'
<1> SUFFICES ASSUME CommandsAreTame, SafeInv, Commanding PROVE StackSafe'
    OBVIOUS
<1>0. /\ T.k = "cmd" /\ TypeOK /\ StackOK(stack, listed, freed)
      /\ stack \in Seq(Frames) /\ "wait" \notin T.ops
  <2>1. T.k = "cmd" /\ TypeOK /\ StackOK(stack, listed, freed) /\ stack \in Seq(Frames)
    BY DEF Commanding, Broadcast, SendToModule, SendReply, SetMasks, KillModule,
           StartModule, StartSynchronous, Wait, May, At, SafeInv, TypeOK
  <2> QED
    BY <2>1, TopOfStack DEF FrameOK
<1>1. ASSUME NEW c \in Classes, NEW grab \in BOOLEAN, Broadcast(c, grab)
      PROVE  StackSafe'
  <2>1. ~(T.ops \subseteq TameOps) /\ UNCHANGED listVars
    BY <1>1 DEF Broadcast, May, TameOps, Send
  <2> QED
    BY <1>0, <1>1, <2>1, BroadcastSafe DEF Broadcast
<1>2. ASSUME NEW c \in Classes, NEW m \in Modules, SendToModule(c, {m})
      PROVE  StackSafe'
  <2>1. ~(T.ops \subseteq TameOps) /\ UNCHANGED listVars
    BY <1>2 DEF SendToModule, May, TameOps, Send
  <2> QED
    BY <1>0, <1>2, <2>1, BroadcastSafe DEF SendToModule
<1>3. ASSUME NEW c \in Classes, SendReply(c)
      PROVE  StackSafe'
  BY <1>3, ReplySafe
<1>4. CASE SetMasks
  BY <1>0, <1>4 DEF SetMasks, StackSafe
<1>5. ASSUME NEW m \in Modules, KillModule({m})
      PROVE  StackSafe'
  <2>1. listed' = listed \ {m} /\ freed' = freed /\ stack' = stack
    BY <1>5 DEF KillModule, Kill
  <2>2. NoIterator /\ Len(stack) = Depth
    BY <1>0, <1>5, NoIteratorHere, TopOfStack DEF KillModule, May, TameOps
  <2>3. StackOK(stack, listed \ {m}, freed)
    BY <1>0, <2>2, StackKill DEF NoIterator
  <2> QED
    BY <2>1, <2>3 DEF StackSafe
<1>6. ASSUME NEW m \in Modules, StartModule(m)
      PROVE  StackSafe'
  BY <1>6, LaunchSafe DEF StartModule, StackSafe
<1>7. ASSUME NEW m \in Modules, StartSynchronous(m)
      PROVE  StackSafe'
  <2> DEFINE g == Frame("start", "wait", m, 0)
  <2>1. StackOK(stack, listed', freed') /\ m \notin freed' /\ stack' = Push(g)
    BY <1>7, LaunchSafe DEF StartSynchronous
  <2>2. g \in Frames
    BY Sizes, ModuleIds, FrameType
  <2>3. g.k = "start" /\ g.mod = m /\ g.itr = 0 /\ g.ops = {}
    BY DEF Frame
  <2> HIDE DEF g
  <2>4. FrameOK(g, FALSE, listed', freed')
    BY <2>1, <2>3 DEF FrameOK
  <2>5. NoIterator
    BY <1>0, <1>7, NoIteratorHere DEF StartSynchronous, May, TameOps
  <2>6. StackOK(Push(g), listed', freed')
    BY <1>0, <2>1, <2>2, <2>4, <2>5, PushFree
  <2> QED
    BY <2>1, <2>6 DEF StackSafe
<1>8. CASE Wait
  BY <1>0, <1>8 DEF Wait, May
<1> QED
    BY <1>1, <1>2, <1>3, <1>4, <1>5, <1>6, <1>7, <1>8 DEF Commanding

-----------------------------------------------------------------------------
(* The event loop is the only frame when it acts. *)

LEMMA LoopChange ==
    ASSUME TypeOK, NEW l, NEW f, StackOK(stack, l, f), T.k = "loop",
           NEW g \in Frames, FrameOK(g, TRUE, l, f)
    PROVE  StackOK(Become(g), l, f) /\ Len(Become(g)) = 1 /\ Become(g)[1] = g
<1>1. stack \in Seq(Frames) /\ Depth = 1
    BY TopOfStack DEF TypeOK
<1>2. (Depth = 1) = TRUE
    BY <1>1
<1>3. FrameOK(g, Depth = 1, l, f)
    BY <1>2
<1>4. \A i \in 1 .. Depth - 1 : stack[i].itr # 0 => ServesOnly(g, stack[i].mod)
    BY <1>1
<1>5. StackOK(Become(g), l, f)
    BY <1>1, <1>3, <1>4, StackChange
<1> QED
    BY <1>1, <1>5, ChangeFrame

(* The loop over the modules goes on to the next one. *)
LEMMA NextModuleSafe ==
    ASSUME SafeInv, IoModule, stack' = NextModule,
           Kill({T.itr}) \/ UNCHANGED listVars
    PROVE  StackSafe'
<1> DEFINE g == [T EXCEPT !.pc = "post", !.mod = T.itr, !.itr = After(T.itr)]
<1>1. /\ TypeOK /\ StackOK(stack, listed, freed) /\ stack \in Seq(Frames)
      /\ T.k = "loop" /\ Depth > 0 /\ T.itr \in listed /\ listed \subseteq Modules
    BY DEF SafeInv, TypeOK, IoModule, At
<1>2. /\ T \in Frames /\ T.itr \in 0 .. N /\ T.itr \notin freed /\ "wait" \notin T.ops
      /\ T.itr # 0
    BY <1>1, StackSteps, TopOfStack, ModuleIds
       DEF SafeInv, RecordsAccountedFor, FrameOK, IoModule
<1>3. /\ After(T.itr) \in 0 .. N
      /\ After(T.itr) = 0 \/ (After(T.itr) \in listed /\ After(T.itr) < T.itr)
    BY <1>1, <1>2, AfterType
<1>4. /\ g \in Frames /\ g.k = "loop" /\ g.pc = "post" /\ g.mod = T.itr
      /\ g.itr = After(T.itr) /\ g.ops = T.ops
    BY <1>1, <1>2, <1>3 DEF Frames, FrameRecords
<1>5. After(T.itr) # 0 => After(T.itr) # T.itr
    BY <1>2, <1>3, Sizes
<1> HIDE DEF g
<1>6. FrameOK(g, TRUE, listed, freed)
    BY <1>2, <1>3, <1>4, <1>5 DEF FrameOK, Iterating
<1>7. StackOK(Become(g), listed, freed) /\ Len(Become(g)) = 1 /\ Become(g)[1] = g
    BY <1>1, <1>4, <1>6, LoopChange
<1>8. stack' = Become(g)
    BY DEF NextModule, g
<1>9. CASE Kill({T.itr})
  <2>1. listed' = listed \ {T.itr} /\ freed' = freed
    BY <1>9 DEF Kill
  <2>2. \A i \in 1 .. Len(Become(g)) :
            Become(g)[i].itr # 0 => Become(g)[i].itr \notin {T.itr}
    BY <1>4, <1>5, <1>7
  <2>3. StackOK(Become(g), listed \ {T.itr}, freed)
    BY <1>7, <2>2, StackKill
  <2> QED
    BY <1>8, <2>1, <2>3 DEF StackSafe
<1>10. CASE UNCHANGED listVars
  BY <1>7, <1>8, <1>10 DEF StackSafe, listVars
<1> QED
    BY <1>9, <1>10

(* A step of the event loop that only changes its own frame. *)
LEMMA LoopGoesOn ==
    ASSUME TypeOK, NEW l, NEW f, StackOK(stack, l, f), T.k = "loop",
           NEW pc \in {"select", "io", "exec", "next", "write", "wait", "post", "run"},
           IF pc = "io" THEN T.pc = "post" ELSE T.itr = 0 /\ T.mod = 0
                                               /\ pc \in {"select", "exec"}
    PROVE  StackOK(Goto(pc), l, f) /\ Len(Goto(pc)) = 1 /\ Goto(pc)[1].mod = T.mod
<1> DEFINE g == [T EXCEPT !.pc = pc]
<1>1. stack \in Seq(Frames) /\ Depth > 0
    BY TopOfStack DEF TypeOK
<1>2. T \in Frames /\ g \in Frames
    BY <1>1, StackSteps
<1>3. g.k = T.k /\ g.pc = pc /\ g.mod = T.mod /\ g.itr = T.itr /\ g.ops = T.ops
    BY <1>2 DEF Frames, FrameRecords
<1>4. FrameOK(T, TRUE, l, f)
    BY <1>1, TopOfStack DEF FrameOK
<1> HIDE DEF g
<1>5. FrameOK(g, TRUE, l, f)
    BY <1>3, <1>4 DEF FrameOK, Iterating
<1>6. Goto(pc) = Become(g)
    BY DEF Goto, g
<1> QED
    BY <1>2, <1>3, <1>5, <1>6, LoopChange

LEMMA LoopingSafe == CommandsAreTame /\ SafeInv /\ Looping => StackSafe'
<1> SUFFICES ASSUME CommandsAreTame, SafeInv, Looping PROVE StackSafe'
    OBVIOUS
<1>1. /\ T.k = "loop" /\ TypeOK /\ StackOK(stack, listed, freed)
      /\ stack \in Seq(Frames) /\ listed \subseteq Modules
      /\ cqueue \in Seq([mod : Modules, item : Items])
    BY DEF SafeInv, TypeOK, Looping, Select, IoReceive, IoReceiveFails, IoNoInput,
           IoModule, IoFlush, IoDone, ExecuteCommand, Cleanup, At
<1>2. /\ Depth = 1 /\ T \in Frames /\ FrameOK(T, TRUE, listed, freed) /\ T.mod \in 0 .. N
  <2>1. Depth = 1 /\ FrameOK(T, Depth = 1, listed, freed)
    BY <1>1, TopOfStack
  <2>2. (Depth = 1) = TRUE /\ Depth > 0
    BY <2>1
  <2>3. FrameOK(T, TRUE, listed, freed)
    BY <2>1, <2>2
  <2> QED
    BY <1>1, <2>1, <2>2, <2>3, StackSteps
<1>3. CASE Select
  <2> DEFINE g == [T EXCEPT !.pc = "io", !.itr = First, !.to = {m \in listed : Readable(m)}]
  <2>1. First \in 0 .. N /\ (First = 0 \/ First \in listed)
    BY <1>1, FirstType
  <2>2. {m \in listed : Readable(m)} \in SUBSET Modules
    BY <1>1
  <2>3. /\ g \in Frames /\ g.k = "loop" /\ g.pc = "io" /\ g.mod = T.mod
        /\ g.itr = First /\ g.ops = T.ops
    BY <1>1, <1>2, <2>1, <2>2 DEF Frames, FrameRecords
  <2>4. T.mod = 0 /\ "wait" \notin T.ops
    BY <1>1, <1>2, <1>3 DEF FrameOK, Iterating, Select, At
  <2>5. FrameOK(g, TRUE, listed, freed)
    BY <2>1, <2>3, <2>4 DEF FrameOK, Iterating
  <2>6. StackOK(Become(g), listed, freed)
    BY <1>1, <2>3, <2>5, LoopChange
  <2> QED
    BY <1>3, <2>6 DEF Select, StackSafe, listVars
<1>4. CASE IoReceive
  BY <1>4, NextModuleSafe DEF IoReceive, Receive
<1>5. CASE IoReceiveFails
  BY <1>5, NextModuleSafe DEF IoReceiveFails, ReceiveFails
<1>6. CASE IoNoInput
  BY <1>6, NextModuleSafe DEF IoNoInput
<1>7. CASE IoFlush
  <2> DEFINE h == Goto("io")
  <2>1. T.pc = "post" /\ T.mod \notin freed /\ UNCHANGED listVars
    BY <1>1, <1>2, <1>7 DEF IoFlush, At, FrameOK
  <2>2. StackOK(h, listed, freed) /\ Len(h) = 1 /\ h[1].mod = T.mod /\ h \in Seq(Frames)
    BY <1>1, <1>2, <2>1, LoopGoesOn, StackSteps
  <2>3. FlushFrame(T.mod) \in Frames
    BY <1>2, FlushFrameType
  <2>4. stack' = h \/ stack' = Append(h, FlushFrame(T.mod))
    BY <1>7 DEF IoFlush, GotoAndPush
  <2> HIDE DEF h
  <2>5. StackOK(Append(h, FlushFrame(T.mod)), listed, freed)
    BY <2>1, <2>2, <2>3, FlushFrameFields, PushServing
  <2> QED
    BY <2>1, <2>2, <2>4, <2>5 DEF StackSafe, listVars
<1>8. CASE IoDone
  <2> DEFINE g == [T EXCEPT !.pc = "exec", !.to = {}, !.mod = 0]
  <2>1. T.itr = 0 /\ "wait" \notin T.ops
    BY <1>2, <1>8 DEF IoDone, FrameOK
  <2>2. /\ g \in Frames /\ g.k = "loop" /\ g.pc = "exec" /\ g.mod = 0
        /\ g.itr = 0 /\ g.ops = T.ops
    BY <1>1, <1>2, <2>1, Sizes DEF Frames, FrameRecords
  <2>3. FrameOK(g, TRUE, listed, freed)
    BY <2>1, <2>2 DEF FrameOK, Iterating
  <2>4. StackOK(Become(g), listed, freed)
    BY <1>1, <2>2, <2>3, LoopChange
  <2> QED
    BY <1>8, <2>4 DEF IoDone, StackSafe, listVars
<1>9. CASE ExecuteCommand
  <2> DEFINE g == Execute(Head(cqueue).mod, Head(cqueue).item, QueuedOps)
  <2>1. /\ Head(cqueue).mod \in Modules /\ Head(cqueue).mod \notin freed
        /\ UNCHANGED listVars /\ stack' = Push(g) /\ NoIterator
    <3>1. /\ cqueue # <<>> /\ UNCHANGED listVars /\ stack' = Push(g) /\ T.pc = "exec"
      BY <1>9 DEF ExecuteCommand, At
    <3>2. 1 \in DOMAIN cqueue /\ Head(cqueue) = cqueue[1]
      BY <1>1, <3>1
    <3>3. Head(cqueue) \in [mod : Modules, item : Items]
      BY <1>1, <3>1, HeadTailProperties
    <3> QED
      BY <1>1, <3>1, <3>2, <3>3, NoIteratorHere DEF SafeInv, RecordsAccountedFor
  <2>2. g \in Frames
    BY <2>1, ModuleIds, OpsAssumption, ExecuteType DEF OpsAssumption
  <2>3. g.k = "cmd" /\ g.mod \notin freed /\ g.itr = 0 /\ "wait" \notin g.ops
    BY <2>1, ExecuteFields DEF CommandsAreTame
  <2> HIDE DEF g
  <2>4. FrameOK(g, FALSE, listed, freed)
    BY <2>3 DEF FrameOK
  <2>5. StackOK(Push(g), listed, freed)
    BY <1>1, <2>1, <2>2, <2>4, PushFree
  <2> QED
    BY <2>1, <2>5 DEF StackSafe, listVars
<1>10. CASE Cleanup
  <2>1. /\ T.itr = 0 /\ T.mod = 0 /\ "wait" \notin T.ops /\ listed' = listed
        /\ stack' = Goto("select")
    BY <1>1, <1>2, <1>10 DEF Cleanup, At, FrameOK, Iterating
  <2>2. Len(stack) = 1 /\ stack[1] = T
    BY <1>1, <1>2, TopOfStack
  <2>3. FrameOK(T, TRUE, listed', freed')
    BY <1>1, <1>10, <2>1 DEF FrameOK, Iterating, Cleanup, At
  <2>4. StackOK(stack, listed', freed')
    BY <2>2, <2>3, StackOne
  <2> QED
    BY <1>1, <2>1, <2>4, LoopGoesOn DEF StackSafe
<1> QED
    BY <1>3, <1>4, <1>5, <1>6, <1>7, <1>8, <1>9, <1>10 DEF Looping

LEMMA OtherSafe ==
    ASSUME CommandsAreTame, SafeInv,
           \/ Return \/ HandleEvent \/ WaitOver \/ UNCHANGED vars
           \/ \E m \in Modules : ModuleStep(m)
    PROVE  StackSafe'
<1>1. TypeOK /\ StackOK(stack, listed, freed) /\ stack \in Seq(Frames)
    BY DEF SafeInv, TypeOK
<1>2. CASE Return
  BY <1>1, <1>2, PopSafe DEF Return, At, StackSafe, listVars
<1>3. CASE HandleEvent
  <2> DEFINE g == CmdFrame(0, EventOps)
  <2>1. NoIterator /\ stack' = Push(g) /\ UNCHANGED listVars
    BY <1>3, NoIteratorHere DEF HandleEvent, At
  <2>2. g \in Frames
    BY Sizes, OpsAssumption, CmdFrameType DEF OpsAssumption
  <2>3. g.k = "cmd" /\ g.mod = 0 /\ g.itr = 0 /\ g.ops = EventOps /\ 0 \notin freed
    BY <1>1, ModuleIds DEF CmdFrame, Frame, TypeOK
  <2> HIDE DEF g
  <2>4. FrameOK(g, FALSE, listed, freed)
    BY <2>3 DEF FrameOK, CommandsAreTame
  <2>5. StackOK(Push(g), listed, freed)
    BY <1>1, <2>1, <2>2, <2>4, PushFree
  <2> QED
    BY <2>1, <2>5 DEF StackSafe, listVars
<1>4. CASE WaitOver
  BY <1>1, <1>4, TopOfStack DEF WaitOver, At
<1>5. CASE UNCHANGED vars
  BY <1>1, <1>5 DEF vars, StackSafe
<1>6. CASE \E m \in Modules : ModuleStep(m)
  BY <1>1, <1>6 DEF ModuleStep, ModuleReads, ModuleUnlocks, ModuleSends, ModuleExits,
                    StackSafe, listVars
<1> QED
    BY <1>2, <1>3, <1>4, <1>5, <1>6

-----------------------------------------------------------------------------
LEMMA SafeInvMeansSafe == SafeInv => NoUseAfterFree
<1> SUFFICES ASSUME SafeInv PROVE NoUseAfterFree
    OBVIOUS
<1>1. FrameOK(T, Depth = 1, listed, freed)
    BY TopOfStack DEF SafeInv, TypeOK
<1>2. ~UsesFreedCell
    BY <1>1 DEF FrameOK, UsesFreedCell
<1>3. ~UsesFreedModule
    BY <1>1 DEF FrameOK, UsesFreedModule, At, May
<1> QED
    BY <1>2, <1>3 DEF NoUseAfterFree

LEMMA InitSafe == Init => StackSafe
<1> SUFFICES ASSUME Init PROVE StackSafe
    OBVIOUS
<1> DEFINE g == Frame("loop", "select", 0, 0)
<1>1. stack = <<g>> /\ g.k = "loop" /\ g.pc = "select" /\ g.mod = 0 /\ g.itr = 0
      /\ g.ops = {}
    BY DEF Init, Frame
<1> HIDE DEF g
<1>2. Len(stack) = 1 /\ stack[1] = g
    BY <1>1
<1>3. FrameOK(g, TRUE, listed, freed)
    BY <1>1 DEF FrameOK, Iterating
<1> QED
    BY <1>1, <1>2, <1>3, StackOne DEF StackSafe

LEMMA NextSafe == CommandsAreTame /\ SafeInv /\ [Next]_vars => SafeInv'
<1> SUFFICES ASSUME CommandsAreTame, SafeInv, [Next]_vars PROVE SafeInv'
    OBVIOUS
<1>1. TypeOK' /\ RecordsAccountedFor'
    BY NextType, NextRecords DEF SafeInv
<1>2. ~Crash
    BY SafeInvMeansSafe DEF Crash, NoUseAfterFree
<1>3. StackSafe'
    BY <1>2, SendingSafe, FlushingSafe, WaitingSafe, StartingSafe, CommandingSafe,
       LoopingSafe, OtherSafe DEF Next
<1> QED
    BY <1>1, <1>3 DEF SafeInv, StackSafe

(* If no command Waits, and modules that fvwm waits for send nothing but
   replies and masks, then fvwm uses no list cell and no module record that
   it has freed, however modules are started, killed, exit or hang.        *)
THEOREM TameCommandsUseNoFreedMemory == CommandsAreTame => (Spec => []NoUseAfterFree)
<1> SUFFICES ASSUME CommandsAreTame PROVE Spec => []NoUseAfterFree
    OBVIOUS
<1>1. Init => RecordsAccountedFor
    BY Sizes DEF Init, RecordsAccountedFor
<1>2. Init => SafeInv
    BY <1>1, InitType, InitSafe DEF SafeInv, StackSafe
<1>3. SafeInv /\ [Next]_vars => SafeInv'
    BY NextSafe
<1> QED
    BY <1>2, <1>3, SafeInvMeansSafe, PTL DEF Spec
=============================================================================
