----------------------------- MODULE ModuleComm -----------------------------
(***************************************************************************)
(* fvwm and its modules: fvwm/module_list.c, fvwm/module_interface.c and   *)
(* the part of the event loop (My_XNextEvent) that serves the modules.     *)
(*                                                                         *)
(* Each module is a process at the other end of two pipes.  fvwm is one    *)
(* thread, but a thread that calls itself: while it waits for a module to  *)
(* unlock a message it executes that module's commands, a command may send *)
(* further messages, and a Wait command runs the event loop again.  stack  *)
(* is the C stack: one frame per activation that other code can run under. *)
(* Only the last frame acts.  Lists of modules are singly linked with new  *)
(* modules in front, and modules are numbered in the order they start, so  *)
(* the list is its set of members in descending order and the cell behind  *)
(* module m is that of the greatest member below m.                        *)
(***************************************************************************)
EXTENDS Integers, Sequences, FiniteSets

CONSTANTS
    N,           \* number of modules that are ever started
    Initial,     \* modules 1 .. Initial are running at the start
    ListenOnly,  \* modules that have no pipe from fvwm (ModuleListenOnly)
    Classes,     \* kinds of messages the masks tell apart
    MaskOf,      \* masks the modules ask for: [pipe, sync, nograb : SUBSET Classes]
    EventOps,    \* what an event handler may do (see Ops below)
    QueuedOps,   \* what a command executed by the event loop may do
    SyncOps,     \* what a command executed in a wait for an unlock may do
    MaxMsgs,     \* bound on messages fvwm sends
    MaxItems,    \* bound on what a module sends, besides unlocks
    PipeCap,     \* messages a pipe holds before writing blocks
    MaxDepth     \* bound on nested event loops

(* An operation of a command: a broadcast, SendToModule, Send_Reply, the
   mask commands, KillModule, Module, ModuleSynchronous, Wait.             *)
Ops == {"broadcast", "sendto", "reply", "masks", "kill", "start", "startsync", "wait"}

ASSUME SizeAssumption ==
    /\ N \in Nat /\ Initial \in 0 .. N
    /\ MaxMsgs \in Nat /\ MaxItems \in Nat /\ PipeCap \in Nat \ {0} /\ MaxDepth \in Nat
ASSUME OpsAssumption == EventOps \subseteq Ops /\ QueuedOps \subseteq Ops /\ SyncOps \subseteq Ops

Modules == 1 .. N
Masks == [pipe : SUBSET Classes, sync : SUBSET Classes, nograb : SUBSET Classes]

ASSUME MaskAssumption == MaskOf \in [Modules -> Masks] /\ ListenOnly \subseteq Modules

VARIABLES
    stack,      \* the activations of fvwm; empty once it has crashed
    started,    \* number of modules started so far
    listed,     \* members of module_list
    deathRow,   \* members of death_row
    freed,      \* modules whose record has been freed
    masks,      \* the masks fvwm holds for each module
    queue,      \* per module, messages not yet written (pipeQueue)
    pipe,       \* per module, messages in the pipe to the module
    inp,        \* per module, what is in the pipe to fvwm
    cqueue,     \* commands received but not yet executed
    alive,      \* module processes that run
    owes,       \* per module, sync messages it read and has not unlocked
    sent,       \* number of messages fvwm has sent
    items       \* per module, number of commands it has sent

procVars == <<alive, owes, items>>
listVars == <<started, listed, deathRow, freed, masks>>
dataVars == <<queue, pipe, inp, cqueue, sent>>
vars == <<stack, started, listed, deathRow, freed, masks,
          queue, pipe, inp, cqueue, alive, owes, sent, items>>

Messages == [n : 1 .. MaxMsgs, cls : Classes]
NoMsg == [n |-> 0, cls |-> "none"]

(* What a module sends: a command, the unlock of message n, the report that
   it has started, or its last command (cont = 0).                         *)
ItemTypes == {"cmd", "unlock", "finished", "quit"}
Items == [t : ItemTypes, n : Nat]

FrameRecords ==
    [k    : {"loop", "send", "flush", "cmd", "start"},
     pc   : {"select", "io", "exec", "next", "write", "wait", "post", "run"},
     mod  : 0 .. N,                  \* the module the frame is working for
     itr  : 0 .. N,                  \* its list iterator: the next cell
     msg  : Messages \cup {NoMsg},
     to   : SUBSET Modules,          \* the modules it sends to or can read
     grab : BOOLEAN,                 \* the server is grabbed meanwhile
     push : BOOLEAN,                 \* flush each queue after the write
     ops  : SUBSET Ops]              \* what the command may still do
Frames == {f \in FrameRecords : f.k = "send" => f.msg \in Messages}

Frame(k, pc, mod, itr) ==
    [k |-> k, pc |-> pc, mod |-> mod, itr |-> itr, msg |-> NoMsg, to |-> {},
     grab |-> FALSE, push |-> FALSE, ops |-> {}]

-----------------------------------------------------------------------------
(* Lists and frames. *)

Greatest(S) == IF S = {} THEN 0 ELSE CHOOSE m \in S : \A x \in S : x <= m

(* The head of module_list, and the cell behind that of module m. *)
First == Greatest(listed)
After(m) == Greatest({x \in listed : x < m})

Depth == Len(stack)
T == stack[Depth]
At(k, pc) == Depth > 0 /\ T.k = k /\ T.pc = pc

Push(f) == Append(stack, f)
Pop == SubSeq(stack, 1, Depth - 1)
Become(f) == [stack EXCEPT ![Depth] = f]
Goto(pc) == Become([T EXCEPT !.pc = pc])
GotoAndPush(pc, f) == Append(Goto(pc), f)

Loops == {i \in DOMAIN stack : stack[i].k = "loop"}

(* Mutants of Kill: the record is freed at once; it is not put anywhere. *)
Kill_AtOnce(ms) ==
    /\ listed' = listed \ ms
    /\ freed' = freed \cup (ms \cap listed)
    /\ UNCHANGED <<started, deathRow, masks>>

(* module_kill: a module that is not in module_list is left where it is. *)
Kill(ms) ==
    /\ listed' = listed \ ms
    /\ deathRow' = deathRow \cup (ms \cap listed)
    /\ UNCHANGED <<started, freed, masks>>

FlushFrame(m) == Frame("flush", "run", m, 0)
CmdFrame(m, ops) == [Frame("cmd", "run", m, 0) EXCEPT !.ops = ops]

(* What executing a received item may do: all but commands are NOPs. *)
Execute(m, item, ops) == CmdFrame(m, IF item.t = "cmd" THEN ops ELSE {})

-----------------------------------------------------------------------------
(* Sending: BroadcastPacket, SendPacket, SendToModule, PositiveWrite. *)

(* The loop over module_list takes the next cell. *)
SendNext ==
    /\ At("send", "next")
    /\ IF T.itr = 0 THEN stack' = Pop
       ELSE /\ T.itr \in listed
            /\ stack' = Become([T EXCEPT !.mod = T.itr, !.itr = After(T.itr),
                                         !.pc = IF T.itr \in T.to THEN "write" ELSE "next"])
    /\ UNCHANGED <<listVars, procVars, dataVars>>

(* Mutant: the server being grabbed is ignored. *)
Wanted_AlthoughGrabbed(m, c, grab) == m \notin ListenOnly /\ c \in masks[m].pipe

(* PositiveWrite returns at once when the module does not want the message. *)
Wanted(m, c, grab) ==
    /\ m \notin ListenOnly
    /\ c \in masks[m].pipe
    /\ ~(grab /\ c \in masks[m].sync \cap masks[m].nograb)

(* Mutant: the message is put at the front of the queue. *)
PositiveWrite_InFront ==
    /\ At("send", "write") /\ T.mod \notin freed
    /\ IF Wanted(T.mod, T.msg.cls, T.grab)
       THEN /\ queue' = [queue EXCEPT ![T.mod] = <<T.msg>> \o @]
            /\ stack' = IF T.msg.cls \in masks[T.mod].sync /\ ~T.grab
                          THEN GotoAndPush("wait", FlushFrame(T.mod))
                          ELSE Goto("post")
       ELSE UNCHANGED queue /\ stack' = Goto("post")
    /\ UNCHANGED <<listVars, procVars, pipe, inp, cqueue, sent>>

(* PositiveWrite: queue the message; when the module is to unlock it, and
   the server is not grabbed, write the queue out and wait.                *)
PositiveWrite ==
    /\ At("send", "write") /\ T.mod \notin freed
    /\ IF Wanted(T.mod, T.msg.cls, T.grab)
       THEN /\ queue' = [queue EXCEPT ![T.mod] = Append(@, T.msg)]
            /\ stack' = IF T.msg.cls \in masks[T.mod].sync /\ ~T.grab
                          THEN GotoAndPush("wait", FlushFrame(T.mod))
                          ELSE Goto("post")
       ELSE UNCHANGED queue /\ stack' = Goto("post")
    /\ UNCHANGED <<listVars, procVars, pipe, inp, cqueue, sent>>

(* Send_Reply and SendToModule flush the queue after the write. *)
SendPost ==
    /\ At("send", "post") /\ (T.push => T.mod \notin freed)
    /\ stack' = IF T.push THEN GotoAndPush("next", FlushFrame(T.mod)) ELSE Goto("next")
    /\ UNCHANGED <<listVars, procVars, dataVars>>

-----------------------------------------------------------------------------
(* FlushMessageQueue. *)

(* Mutant: a message that was written stays in the queue. *)
FlushWrite_Repeats ==
    /\ At("flush", "run") /\ T.mod \in alive
    /\ queue[T.mod] # <<>> /\ Len(pipe[T.mod]) < PipeCap
    /\ pipe' = [pipe EXCEPT ![T.mod] = Append(@, Head(queue[T.mod]))]
    /\ UNCHANGED <<stack, listVars, queue, procVars, inp, cqueue, sent>>

FlushWrite ==
    /\ At("flush", "run") /\ T.mod \in alive
    /\ queue[T.mod] # <<>> /\ Len(pipe[T.mod]) < PipeCap
    /\ pipe' = [pipe EXCEPT ![T.mod] = Append(@, Head(queue[T.mod]))]
    /\ queue' = [queue EXCEPT ![T.mod] = Tail(@)]
    /\ UNCHANGED <<stack, listVars, procVars, inp, cqueue, sent>>

FlushDone ==
    /\ At("flush", "run") /\ queue[T.mod] = <<>>
    /\ stack' = Pop
    /\ UNCHANGED <<listVars, procVars, dataVars>>

(* The write fails because the module is gone, or the pipe stays full until
   moduleTimeout has passed.                                               *)
FlushFails ==
    /\ At("flush", "run") /\ queue[T.mod] # <<>>
    /\ T.mod \notin alive \/ Len(pipe[T.mod]) >= PipeCap
    /\ Kill({T.mod}) /\ stack' = Pop
    /\ UNCHANGED <<procVars, dataVars>>

-----------------------------------------------------------------------------
(* module_receive, and the waits that call it. *)

(* An item, or the end of a closed pipe, can be read. *)
Readable(m) == inp[m] # <<>> \/ m \notin alive

(* module_receive(m) takes an item of one of the types; a quitting module is
   killed, its last command is still used.                                 *)
Receive(m, types) ==
    /\ inp[m] # <<>> /\ Head(inp[m]).t \in types
    /\ inp' = [inp EXCEPT ![m] = Tail(@)]
    /\ IF Head(inp[m]).t = "quit" THEN Kill({m}) ELSE UNCHANGED listVars
    /\ UNCHANGED <<procVars, queue, pipe, sent>>

(* Mutant: the end of the pipe is taken for an empty pipe. *)
ReceiveFails_Ignored(m) ==
    /\ inp[m] = <<>> /\ m \notin alive
    /\ UNCHANGED <<listVars, procVars, dataVars>>

(* module_receive(m) fails at the end of the pipe. *)
ReceiveFails(m) ==
    /\ inp[m] = <<>> /\ m \notin alive
    /\ Kill({m})
    /\ UNCHANGED <<procVars, dataVars>>

(* A module that quits sends "NOP UNLOCK" as its last words. *)
EndsWait == {"unlock", "quit"}

WaitUnlock ==
    /\ At("send", "wait") /\ T.mod \notin freed
    /\ Receive(T.mod, EndsWait)
    /\ stack' = Goto("post")
    /\ UNCHANGED cqueue

WaitCommand ==
    /\ At("send", "wait") /\ T.mod \notin freed
    /\ Receive(T.mod, ItemTypes \ EndsWait)
    /\ stack' = Push(Execute(T.mod, Head(inp[T.mod]), SyncOps))
    /\ UNCHANGED cqueue

WaitEOF ==
    /\ At("send", "wait") /\ T.mod \notin freed
    /\ ReceiveFails(T.mod)
    /\ stack' = Goto("post")

(* Mutant: the wait has no time limit. *)
WaitTimeout_Never ==
    /\ At("send", "wait") /\ FALSE
    /\ UNCHANGED vars

(* Nothing arrives for moduleTimeout seconds. *)
WaitTimeout ==
    /\ At("send", "wait") /\ ~Readable(T.mod)
    /\ T.mod \notin freed
    /\ Kill({T.mod}) /\ stack' = Goto("post")
    /\ UNCHANGED <<procVars, dataVars>>

(* ModuleSynchronous waits for the module it started. *)
StartFinished ==
    /\ At("start", "wait") /\ T.mod \notin freed
    /\ Receive(T.mod, {"finished"})
    /\ stack' = Pop
    /\ UNCHANGED cqueue

StartCommand ==
    /\ At("start", "wait") /\ T.mod \notin freed
    /\ Receive(T.mod, ItemTypes \ {"finished"})
    /\ stack' = Push(Execute(T.mod, Head(inp[T.mod]), QueuedOps))
    /\ UNCHANGED cqueue

StartEOF ==
    /\ At("start", "wait") /\ T.mod \notin freed
    /\ ReceiveFails(T.mod)
    /\ stack' = Pop

StartFlush ==
    /\ At("start", "wait") /\ T.mod \notin freed
    /\ queue[T.mod] # <<>> /\ Len(pipe[T.mod]) < PipeCap
    /\ stack' = Push(FlushFrame(T.mod))
    /\ UNCHANGED <<listVars, procVars, dataVars>>

(* The time given to ModuleSynchronous is over, or the user escapes. *)
StartGivenUp ==
    /\ At("start", "wait") /\ T.mod \notin freed
    /\ stack' = Pop
    /\ UNCHANGED <<listVars, procVars, dataVars>>

-----------------------------------------------------------------------------
(* Commands.  A command is any sequence of the operations in T.ops. *)

May(op) == At("cmd", "run") /\ op \in T.ops

(* Frame that sends a new message of class c to the modules in ms. *)
NewSend(c, ms, pc, mod, itr, grab, push) ==
    [Frame("send", pc, mod, itr) EXCEPT !.msg = [n |-> sent + 1, cls |-> c],
                                        !.to = ms, !.grab = grab, !.push = push]
Send(frame) ==
    /\ sent < MaxMsgs /\ sent' = sent + 1
    /\ stack' = Push(frame)
    /\ UNCHANGED <<listVars, procVars, queue, pipe, inp, cqueue>>

(* BroadcastPacket, with the server grabbed around it or not. *)
Broadcast(c, grab) ==
    /\ May("broadcast")
    /\ Send(NewSend(c, Modules, "next", 0, First, grab, FALSE))

(* CMD_SendToModule, for the modules whose names match. *)
SendToModule(c, ms) ==
    /\ May("sendto")
    /\ Send(NewSend(c, ms, "next", 0, First, FALSE, TRUE))

(* Mutant: the command need not have come from a module. *)
SendReply_ToAnyone(c) ==
    /\ May("reply") /\ T.mod \notin freed
    /\ Send(NewSend(c, {T.mod}, "write", T.mod, 0, FALSE, TRUE))

(* CMD_Send_Reply, to the module the command came from. *)
SendReply(c) ==
    /\ May("reply") /\ T.mod # 0 /\ T.mod \notin freed
    /\ Send(NewSend(c, {T.mod}, "write", T.mod, 0, FALSE, TRUE))

(* CMD_set_mask, CMD_set_sync_mask and CMD_set_nograb_mask. *)
SetMasks ==
    /\ May("masks") /\ T.mod # 0 /\ T.mod \notin freed
    /\ masks' = [masks EXCEPT ![T.mod] = MaskOf[T.mod]]
    /\ UNCHANGED <<stack, started, listed, deathRow, freed, procVars, dataVars>>

(* CMD_KillModule. *)
KillModule(ms) ==
    /\ May("kill") /\ ms \cap listed # {}
    /\ Kill(ms)
    /\ UNCHANGED <<stack, procVars, dataVars>>

(* do_execute_module: the new module goes to the front of module_list, with
   the default masks.                                                      *)
DefaultMasks == [pipe |-> Classes, sync |-> {}, nograb |-> {}]
Launch(m) ==
    /\ m = started + 1 /\ m \in Modules
    /\ started' = m
    /\ listed' = listed \cup {m}
    /\ alive' = alive \cup {m}
    /\ masks' = [masks EXCEPT ![m] = DefaultMasks]
    /\ UNCHANGED <<deathRow, freed, owes, items, dataVars>>

(* CMD_Module and CMD_ModuleListenOnly. *)
StartModule(m) == May("start") /\ Launch(m) /\ UNCHANGED stack

(* CMD_ModuleSynchronous. *)
StartSynchronous(m) ==
    /\ May("startsync") /\ Launch(m)
    /\ stack' = Push(Frame("start", "wait", m, 0))

(* CMD_Wait runs the event loop. *)
Wait ==
    /\ May("wait") /\ Cardinality(Loops) < MaxDepth
    /\ stack' = Push(Frame("loop", "select", 0, 0))
    /\ UNCHANGED <<listVars, procVars, dataVars>>

Return ==
    /\ At("cmd", "run")
    /\ stack' = Pop
    /\ UNCHANGED <<listVars, procVars, dataVars>>

-----------------------------------------------------------------------------
(* Use of freed memory.  A loop over module_list holds a pointer to the next
   list cell, which module_kill frees; a wait, and the commands that refer
   to exc->m.module, hold a pointer to the module, which module_cleanup
   frees.  Any outcome is possible then; a crash stands for all.           *)

UsesFreedCell ==
    /\ At("send", "next") \/ At("loop", "io")
    /\ T.itr # 0 /\ T.itr \notin listed

UsesFreedModule ==
    /\ \/ At("send", "write") \/ At("send", "wait") \/ At("start", "wait")
       \/ At("send", "post") /\ T.push
       \/ May("reply") \/ May("masks")
    /\ T.mod \in freed

Crash ==
    /\ UsesFreedCell \/ UsesFreedModule
    /\ stack' = <<>>
    /\ UNCHANGED <<listVars, procVars, dataVars>>

-----------------------------------------------------------------------------
(* My_XNextEvent. *)

(* An X event is fetched and handled. *)
HandleEvent ==
    /\ At("loop", "select")
    /\ stack' = Push(CmdFrame(0, EventOps))
    /\ UNCHANGED <<listVars, procVars, dataVars>>

(* The event a Wait command waits for has come. *)
WaitOver ==
    /\ At("loop", "select") /\ Depth > 1
    /\ stack' = Pop
    /\ UNCHANGED <<listVars, procVars, dataVars>>

Writable(m) == m \notin ListenOnly /\ (m \notin alive \/ Len(pipe[m]) < PipeCap)
Serviceable(m) == Readable(m) \/ (queue[m] # <<>> /\ Writable(m))

(* select reports the modules that can be read or written. *)
Select ==
    /\ At("loop", "select") /\ \E m \in listed : Serviceable(m)
    /\ stack' = Become([T EXCEPT !.pc = "io", !.itr = First,
                                 !.to = {m \in listed : Readable(m)}])
    /\ UNCHANGED <<listVars, procVars, dataVars>>

(* One step of the loop over the modules: read a command of a module that
   select reported into the command queue, ...                             *)
NextModule == Become([T EXCEPT !.pc = "post", !.mod = T.itr, !.itr = After(T.itr)])
IoModule == At("loop", "io") /\ T.itr # 0 /\ T.itr \in listed

IoReceive ==
    /\ IoModule /\ T.itr \in T.to
    /\ Receive(T.itr, ItemTypes)
    /\ cqueue' = Append(cqueue, [mod |-> T.itr, item |-> Head(inp[T.itr])])
    /\ stack' = NextModule

IoReceiveFails ==
    /\ IoModule /\ T.itr \in T.to
    /\ ReceiveFails(T.itr)
    /\ stack' = NextModule

IoNoInput ==
    /\ IoModule /\ T.itr \notin T.to
    /\ stack' = NextModule
    /\ UNCHANGED <<listVars, procVars, dataVars>>

(* ... then write out its queue. *)
IoFlush ==
    /\ At("loop", "post")
    /\ stack' = IF queue[T.mod] # <<>> /\ Writable(T.mod)
                   THEN GotoAndPush("io", FlushFrame(T.mod))
                   ELSE Goto("io")
    /\ UNCHANGED <<listVars, procVars, dataVars>>

IoDone ==
    /\ At("loop", "io") /\ T.itr = 0
    /\ stack' = Become([T EXCEPT !.pc = "exec", !.to = {}, !.mod = 0])
    /\ UNCHANGED <<listVars, procVars, dataVars>>

(* ExecuteCommandQueue. *)
ExecuteCommand ==
    /\ At("loop", "exec") /\ cqueue # <<>>
    /\ cqueue' = Tail(cqueue)
    /\ stack' = Push(Execute(Head(cqueue).mod, Head(cqueue).item, QueuedOps))
    /\ UNCHANGED <<listVars, procVars, queue, pipe, inp, sent>>

(* Mutants: the command queue is not looked at; every queue is emptied. *)
Cleanup_TooEarly ==
    /\ At("loop", "exec")
    /\ freed' = freed \cup deathRow /\ deathRow' = {}
    /\ stack' = Goto("select")
    /\ UNCHANGED <<started, listed, masks, procVars, dataVars>>
Cleanup_AllQueues ==
    /\ At("loop", "exec") /\ cqueue = <<>>
    /\ freed' = freed \cup deathRow /\ deathRow' = {}
    /\ queue' = [m \in Modules |-> <<>>]
    /\ inp' = [m \in Modules |-> IF m \in deathRow THEN <<>> ELSE inp[m]]
    /\ stack' = Goto("select")
    /\ UNCHANGED <<started, listed, masks, procVars, pipe, cqueue, sent>>

(* module_cleanup, when the command queue is empty. *)
Cleanup ==
    /\ At("loop", "exec") /\ cqueue = <<>>
    /\ freed' = freed \cup deathRow /\ deathRow' = {}
    /\ queue' = [m \in Modules |-> IF m \in deathRow THEN <<>> ELSE queue[m]]
    /\ inp' = [m \in Modules |-> IF m \in deathRow THEN <<>> ELSE inp[m]]
    /\ stack' = Goto("select")
    /\ UNCHANGED <<started, listed, masks, procVars, pipe, cqueue, sent>>

-----------------------------------------------------------------------------
(* The modules. *)

Connected(m) == m \in alive /\ m \notin freed

(* A module reads a message; those of its sync mask it will unlock. *)
ModuleReads(m) ==
    /\ m \in alive /\ pipe[m] # <<>>
    /\ pipe' = [pipe EXCEPT ![m] = Tail(@)]
    /\ owes' = [owes EXCEPT ![m] = IF Head(pipe[m]).cls \in MaskOf[m].sync
                                     THEN Append(@, Head(pipe[m]).n) ELSE @]
    /\ UNCHANGED <<stack, listVars, alive, items, queue, inp, cqueue, sent>>

(* SendUnlockNotification. *)
ModuleUnlocks(m) ==
    /\ Connected(m) /\ owes[m] # <<>>
    /\ inp' = [inp EXCEPT ![m] = Append(@, [t |-> "unlock", n |-> Head(owes[m])])]
    /\ owes' = [owes EXCEPT ![m] = Tail(@)]
    /\ UNCHANGED <<stack, listVars, alive, items, queue, pipe, cqueue, sent>>

(* SendText; the report that it has finished startup is the first thing a
   module started by fvwm sends.                                           *)
ModuleSends(m, t) ==
    /\ Connected(m) /\ items[m] < MaxItems
    /\ t = "finished" => m > Initial /\ items[m] = 0
    /\ items' = [items EXCEPT ![m] = @ + 1]
    /\ inp' = [inp EXCEPT ![m] = Append(@, [t |-> t, n |-> items'[m]])]
    /\ UNCHANGED <<stack, listVars, alive, owes, queue, pipe, cqueue, sent>>

(* A module exits, after SendQuitNotification or without a word. *)
ModuleExits(m, polite) ==
    /\ m \in alive
    /\ alive' = alive \ {m}
    /\ pipe' = [pipe EXCEPT ![m] = <<>>]
    /\ owes' = [owes EXCEPT ![m] = <<>>]
    /\ inp' = IF polite /\ m \notin freed
                 THEN [inp EXCEPT ![m] = Append(@, [t |-> "quit", n |-> items[m]])] ELSE inp
    /\ UNCHANGED <<stack, listVars, items, queue, cqueue, sent>>

-----------------------------------------------------------------------------
Init ==
    /\ stack = <<Frame("loop", "select", 0, 0)>>
    /\ started = Initial
    /\ listed = 1 .. Initial /\ deathRow = {} /\ freed = {}
    /\ masks = MaskOf
    /\ queue = [m \in Modules |-> <<>>]
    /\ pipe = [m \in Modules |-> <<>>]
    /\ inp = [m \in Modules |-> <<>>]
    /\ cqueue = <<>>
    /\ alive = 1 .. Initial
    /\ owes = [m \in Modules |-> <<>>]
    /\ sent = 0
    /\ items = [m \in Modules |-> 0]

Sending == SendNext \/ PositiveWrite \/ SendPost
Flushing == FlushWrite \/ FlushDone \/ FlushFails
Waiting == WaitUnlock \/ WaitCommand \/ WaitEOF \/ WaitTimeout
Starting == StartFinished \/ StartCommand \/ StartEOF \/ StartFlush \/ StartGivenUp

Commanding ==
    \/ \E c \in Classes, grab \in BOOLEAN : Broadcast(c, grab)
    \/ \E c \in Classes, m \in Modules : SendToModule(c, {m})
    \/ \E c \in Classes : SendReply(c)
    \/ SetMasks
    \/ \E m \in Modules : KillModule({m})
    \/ \E m \in Modules : StartModule(m) \/ StartSynchronous(m)
    \/ Wait

Looping ==
    \/ Select \/ IoReceive \/ IoReceiveFails \/ IoNoInput
    \/ IoFlush \/ IoDone \/ ExecuteCommand \/ Cleanup

(* What fvwm does once it has something to do, save for commands beginning
   operations, which they do as they please.                               *)
FvwmStep == Sending \/ Flushing \/ Waiting \/ Return \/ Looping \/ Crash

ModuleStep(m) ==
    \/ ModuleReads(m) \/ ModuleUnlocks(m)
    \/ ModuleSends(m, "cmd") \/ ModuleSends(m, "finished")
    \/ ModuleExits(m, TRUE) \/ ModuleExits(m, FALSE)

Next ==
    \/ Sending \/ Flushing \/ Waiting \/ Return \/ Looping
    \/ Starting \/ Commanding \/ HandleEvent \/ WaitOver \/ Crash
    \/ \E m \in Modules : ModuleStep(m)

Spec == Init /\ [][Next]_vars

(* Scheduling that can be relied on: fvwm goes on with what it has begun,
   commands come to an end, select is not starved by X events for ever, and
   moduleTimeout elapses.  Nothing is assumed of the modules.              *)
FairSpec == Spec /\ WF_vars(FvwmStep) /\ SF_vars(Select)

-----------------------------------------------------------------------------
(* Properties. *)

(* Every variable has the type its declaration gives it. *)
TypeOK ==
    /\ stack \in Seq(Frames)
    /\ started \in 0 .. N
    /\ listed \subseteq Modules /\ deathRow \subseteq Modules /\ freed \subseteq Modules
    /\ masks \in [Modules -> Masks]
    /\ queue \in [Modules -> Seq(Messages)] /\ pipe \in [Modules -> Seq(Messages)]
    /\ inp \in [Modules -> Seq(Items)]
    /\ cqueue \in Seq([mod : Modules, item : Items])
    /\ alive \subseteq Modules
    /\ owes \in [Modules -> Seq(Nat)]
    /\ sent \in 0 .. MaxMsgs /\ items \in [Modules -> Nat]

(* A module record is in exactly one place from its start on: in the list,
   in the death row, or freed; a freed one leaves nothing behind in the
   command queue that would be executed on its behalf.                     *)
RecordsAccountedFor ==
    /\ listed \cup deathRow \cup freed = 1 .. started
    /\ listed \cap deathRow = {} /\ listed \cap freed = {} /\ deathRow \cap freed = {}
    /\ \A i \in DOMAIN cqueue : cqueue[i].mod \notin freed

(* No code uses a freed list cell or a freed module record: not the loops
   over module_list, whose next cell may go while they write to a module,
   nor a wait or a command that goes on after the module was killed.       *)
NoUseAfterFree == ~UsesFreedCell /\ ~UsesFreedModule

(* The wait for a message to be unlocked ends with the unlock of that
   message, not with one that answers another message, unless the module
   was killed before.                                                      *)
UnlockIsOwn ==
    [][WaitUnlock /\ T.mod \in listed /\ Head(inp[T.mod]).t = "unlock"
         => Head(inp[T.mod]).n = T.msg.n]_vars

(* Whatever the modules do or fail to do, fvwm gets back to its event loop. *)
EventLoopResumes == []<>(Depth = 1 /\ At("loop", "select"))

(* A module that has exited is taken off the list. *)
DeadModulesGo == \A m \in Modules : (m \in listed /\ m \notin alive) ~> m \notin listed

(* The packets to each module go through a reliable channel. *)
ChannelTo(m) ==
    IF m \notin alive THEN <<>> ELSE IF m \in freed THEN pipe[m] ELSE pipe[m] \o queue[m]
StateOf(m) ==
    IF m \in listed THEN "open"
    ELSE IF m \in deathRow THEN "closing"
    ELSE IF m \in freed THEN "closed" ELSE "new"
Channel == INSTANCE ModuleChannel WITH chan  <- [m \in Modules |-> ChannelTo(m)],
                                       state <- [m \in Modules |-> StateOf(m)]
ReliableChannels == Channel!CSpec
=============================================================================
