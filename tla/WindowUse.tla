----------------------------- MODULE WindowUse -----------------------------
(* The use of window records by commands that are still running while the   *)
(* windows go away: complex functions, menu actions, All and Wait keep       *)
(* pointers to records on the C stack, Wait and the module interface run     *)
(* other events and commands meanwhile, and destroy_window frees a record or *)
(* puts it off until nothing runs (fvwm/functions.c, fvwm/menus.c,           *)
(* fvwm/builtins.c, fvwm/add_window.c, fvwm/update.c, fvwm/misc.c).          *)
EXTENDS Integers, Sequences, FiniteSets, SequencesExt, FiniteSetsExt

CONSTANTS
  Clients,           \* ids of client windows; an id may be used again
  Recs,              \* FvwmWindow structures
  Functions,         \* names of complex functions
  EventCommands,     \* bound to keys, or sent by modules to the event loop
  ClickCommands,     \* bound to mouse buttons over windows
  FunctionCommands,  \* in complex functions
  MenuCommands,      \* actions of menus and of their items
  AllCommands,       \* what All is given to run
  LockCommands,      \* sent by a module that delays M_DESTROY_WINDOW
  MaxFrames,         \* bound: how many activations nest (MAX_FUNCTION_DEPTH)
  None

Commands == {"close", "wait", "function", "menu", "all", "destroyfunc", "addtofunc"}

ASSUME WindowUseAssumption ==
  /\ None \notin Recs \cup Functions \cup Clients /\ MaxFrames \in Nat
  /\ EventCommands \cup ClickCommands \cup FunctionCommands \cup MenuCommands
       \cup AllCommands \cup LockCommands \subseteq Commands

VARIABLES
  win,      \* the window records: client, status, M_DESTROY_WINDOWs sent
  context,  \* the record XFindContext returns for a client window
  doomed,   \* Scr.FWScheduledForDestroy
  flags,    \* of Scr: is_executing_..., is_window_scheduled_for_destroy, depth
  uses,     \* use_depth of the functions that are defined
  grab,     \* grab_count of the contexts, and the pointer grab at the server
  frames    \* activations on the C stack, the innermost last

vars == <<win, context, doomed, flags, uses, grab, frames>>

Now == [win |-> win, context |-> context, doomed |-> doomed, flags |-> flags,
        uses |-> uses, grab |-> grab, frames |-> frames]

Becomes(S) ==
  /\ win' = S.win /\ context' = S.context /\ doomed' = S.doomed
  /\ flags' = S.flags /\ uses' = S.uses /\ grab' = S.grab /\ frames' = S.frames

Kinds == {"click", "function", "menu", "closed menu", "item", "all", "wait",
          "put off", "destroy"}

\* A frame keeps the window it was given, the function it runs, the windows
\* All has still to do, and what it saved on entry: is_executing_menu_function
\* of a menu action, is_ungrabbed of Wait.
Frame == [kind: Kinds, win: Recs \cup {None}, func: Functions \cup {None},
          todo: SUBSET Recs, saved: BOOLEAN]

TypeOK ==
  /\ win \in [Recs -> [client: Clients \cup {None}, told: Nat,
                       status: {"none", "listed", "scheduled", "freed"}]]
  /\ context \in [Clients -> Recs \cup {None}]
  /\ doomed \in Seq(Recs)
  /\ flags \in [function: BOOLEAN, menu: BOOLEAN, scheduled: BOOLEAN, depth: Nat]
  /\ DOMAIN uses \subseteq Functions /\ \A f \in DOMAIN uses : uses[f] \in Nat
  /\ grab \in [normal: Nat, menu: Nat, passive: Nat, pointer: BOOLEAN]
  /\ frames \in Seq(Frame)

Init ==
  /\ win = [r \in Recs |-> [client |-> None, told |-> 0, status |-> "none"]]
  /\ context = [c \in Clients |-> None]
  /\ doomed = <<>>
  /\ flags = [function |-> FALSE, menu |-> FALSE, scheduled |-> FALSE, depth |-> 0]
  /\ uses = [f \in Functions |-> 0]
  /\ grab = [normal |-> 0, menu |-> 0, passive |-> 0, pointer |-> FALSE]
  /\ frames = <<>>

Listed(S) == {r \in Recs : S.win[r].status = "listed"}

Enter(S, kind, r, f, todo, saved) ==
  [S EXCEPT !.frames = Append(@, [kind |-> kind, win |-> r, func |-> f,
                                  todo |-> todo, saved |-> saved])]
Leave(S) == [S EXCEPT !.frames = Front(@)]

---------------------------------------------------------------------------
(* Grabs of the pointer.  A passive grab only delays the next ungrab.       *)

GrabAll(S) == S.grab.normal + S.grab.menu + S.grab.passive

GrabEm(S, ctx) ==
  [S EXCEPT !.grab[ctx] = @ + 1,
            !.grab.pointer = @ \/ ctx # "passive"]

\* Another client may have grabbed the pointer unless fvwm has it.
MayFail(S) == GrabAll(S) = S.grab.passive /\ ~S.grab.pointer

\* Mutant: the count is taken down without looking at it.
UngrabEm_Unchecked(S, ctx) ==
  [S EXCEPT !.grab[ctx] = @ - 1, !.grab.pointer = @ /\ GrabAll(S) > 1]

UngrabEm(S, ctx) ==
  IF S.grab[ctx] = 0 THEN S
  ELSE [S EXCEPT !.grab[ctx] = @ - 1,
                 !.grab.pointer = @ /\ GrabAll(S) > 1]

---------------------------------------------------------------------------
(* Destruction of windows.                                                  *)

\* Mutant: the context is deleted whatever record it names.
DeleteClientContext_Any(S, r) ==
  [S EXCEPT !.context = [@ EXCEPT ![S.win[r].client] = None]]

DeleteClientContext(S, r) ==
  [S EXCEPT !.context = [c \in Clients |-> IF @[c] = r THEN None ELSE @[c]]]

\* destroy_auxiliary_windows and free.
FreeWindow(S, r) ==
  [DeleteClientContext(S, r) EXCEPT !.win[r].status = "freed"]

Announce(S, r) ==
  [S EXCEPT !.win[r].status = "scheduled", !.win[r].told = @ + 1]

\* Mutant: a window that is scheduled already is put off again.
DestroyWindow_Twice(S, r) ==
  IF S.flags.function \/ S.flags.menu
  THEN LET R == [Announce(S, r) EXCEPT !.flags.scheduled = TRUE]
       IN Enter(DeleteClientContext(R, r), "put off", r, None, {}, FALSE)
  ELSE IF S.win[r].status = "scheduled" THEN FreeWindow(S, r)
       ELSE Enter(Announce(S, r), "destroy", r, None, {}, FALSE)

\* M_DESTROY_WINDOW is sent before the record is freed or put off.
DestroyWindow(S, r) ==
  LET isScheduled == S.win[r].status = "scheduled"
      isExecuting == S.flags.function \/ S.flags.menu
  IN CASE isExecuting /\ isScheduled -> S
       [] isExecuting /\ ~isScheduled ->
            LET R == [Announce(S, r) EXCEPT !.flags.scheduled = TRUE]
            IN Enter(DeleteClientContext(R, r), "put off", r, None, {}, FALSE)
       [] ~isExecuting /\ isScheduled -> FreeWindow(S, r)
       [] OTHER -> Enter(Announce(S, r), "destroy", r, None, {}, FALSE)

---------------------------------------------------------------------------
(* Complex functions.                                                       *)

BeginFunction(S, f) ==
  [S EXCEPT !.flags.function = TRUE, !.flags.depth = @ + 1, !.uses[f] = @ + 1]

\* Mutant: the end of a nested function ends the outer one, too.
CfCleanup_Nested(S) ==
  [S EXCEPT !.flags.depth = @ - 1, !.flags.function = FALSE]

CfCleanup(S) ==
  [S EXCEPT !.flags.depth = @ - 1,
            !.flags.function = @ /\ S.flags.depth # 1]

EndFunction(S, f) == CfCleanup([S EXCEPT !.uses[f] = @ - 1])

\* Mutant: no cleanup when the pointer cannot be grabbed.
ExecuteComplexFunction_NoCleanup(S, f, r) ==
  LET B == BeginFunction(S, f)
      targets == IF r = None THEN Listed(S) \cup {None} ELSE {r}
  IN {Enter(GrabEm(B, "normal"), "function", t, f, {}, FALSE) : t \in targets}
     \cup (IF MayFail(S) THEN {B} ELSE {})
     \cup (IF r = None THEN {EndFunction(B, f)} ELSE {})

\* Without a window the user selects one, if an item needs it, or gives up.
ExecuteComplexFunction(S, f, r) ==
  LET B == BeginFunction(S, f)
      targets == IF r = None THEN Listed(S) \cup {None} ELSE {r}
  IN {Enter(GrabEm(B, "normal"), "function", t, f, {}, FALSE) : t \in targets}
     \cup (IF MayFail(S) \/ r = None THEN {EndFunction(B, f)} ELSE {})

DestroyFunction(S, f) ==
  IF S.uses[f] # 0 THEN S
  ELSE [S EXCEPT !.uses = [g \in DOMAIN @ \ {f} |-> @[g]]]

AddToFunction(S, f) ==
  [S EXCEPT !.uses = [g \in DOMAIN @ \cup {f} |-> IF g \in DOMAIN @ THEN @[g] ELSE 0]]

---------------------------------------------------------------------------
(* What a frame executes.  Each operator yields the states it may end in.   *)

\* Mutant: Wait ungrabs whatever was grabbed and always grabs again.
CmdWait_Regrabs(S) ==
  {Enter(UngrabEm(S, "normal"), "wait", None, None, {}, TRUE)}

CmdWait(S) ==
  {Enter(UngrabEm(S, "normal"), "wait", None, None, {}, S.grab.normal > 0)}

CmdMenu(S, r) ==
  {Enter(GrabEm(S, "menu"), "menu", r, None, {}, FALSE)}
    \cup (IF MayFail(S) THEN {S} ELSE {})

\* execute_function: a command that needs a window does nothing without one.
Execute(S, cmd, r) ==
  CASE cmd = "close" -> IF r = None THEN {S} ELSE {DestroyWindow(S, r)}
    [] cmd = "wait" -> CmdWait(S)
    [] cmd = "menu" -> CmdMenu(S, r)
    [] cmd = "all" -> {Enter(S, "all", None, None, Listed(S), FALSE)}
    [] cmd = "function" ->
         {S} \cup UNION {ExecuteComplexFunction(S, f, r) : f \in DOMAIN S.uses}
    [] cmd = "destroyfunc" -> {S} \cup {DestroyFunction(S, f) : f \in DOMAIN S.uses}
    [] cmd = "addtofunc" -> {AddToFunction(S, f) : f \in Functions}

\* The windows a new record may replace: none that a frame still knows.
Unused ==
  {r \in Recs : /\ win[r].status \in {"none", "freed"}
                /\ \A i \in DOMAIN frames : frames[i].win # r /\ r \notin frames[i].todo}

Top == Last(frames)
Runs(kind) == frames # <<>> /\ Top.kind = kind

\* destroy_scheduled_windows has nothing to do, or may not do it.
NothingScheduled == flags.scheduled => flags.function \/ flags.menu

\* HandleEvents, or the loop of Wait, fetches events and module commands.
InEventLoop ==
  (frames = <<>> /\ NothingScheduled) \/ Runs("wait")

\* Commands that are nested too deep are not executed.
Step(cmds, S, r) ==
  IF Len(S.frames) > MaxFrames THEN Becomes(S)
  ELSE \E cmd \in cmds : \E T \in Execute(S, cmd, r) : Becomes(T)

---------------------------------------------------------------------------
(* Events.                                                                  *)

HandleMapRequest(c) ==
  /\ InEventLoop /\ context[c] = None
  /\ \E r \in Unused :
       /\ win' = [win EXCEPT ![r] = [client |-> c, told |-> 0, status |-> "listed"]]
       /\ context' = [context EXCEPT ![c] = r]
  /\ UNCHANGED <<doomed, flags, uses, grab, frames>>

\* A client withdraws or destroys its window.  Of a window that is scheduled
\* for destruction only the DestroyNotify is handled.
HandleDestroyNotify(c) ==
  /\ InEventLoop /\ context[c] # None
  /\ Becomes(DestroyWindow(Now, context[c]))

\* The window under the pointer, or the root window.
HandleButtonPress ==
  /\ InEventLoop
  /\ \E r \in Listed(Now) :
       Step(ClickCommands, Enter(GrabEm(Now, "passive"), "click", r, None, {}, FALSE), r)

\* A key binding, a command of a module or a scheduled command.
HandleCommand ==
  InEventLoop /\ \E r \in Listed(Now) \cup {None} : Step(EventCommands, Now, r)

---------------------------------------------------------------------------
(* The steps of the innermost frame.                                        *)

RunFunctionItem == Runs("function") /\ Step(FunctionCommands, Now, Top.win)

\* Items without a window ask for one at the end of the immediate items.
SelectWindow ==
  /\ Runs("function") /\ Top.win = None
  /\ \E r \in Listed(Now) : frames' = [frames EXCEPT ![Len(frames)].win = r]
  /\ UNCHANGED <<win, context, doomed, flags, uses, grab>>

MenuExecuteFunction(S, r) ==
  [Enter(S, "item", r, None, {}, S.flags.menu) EXCEPT !.flags.menu = TRUE]

\* A dynamic popup, popdown or missing submenu action, in an open menu.
RunMenuAction ==
  Runs("menu") /\ Step(MenuCommands, MenuExecuteFunction(Now, Top.win), Top.win)

\* The user selects an item: the menu closes and its action is executed.
SelectItem ==
  /\ Runs("menu")
  /\ LET C == UngrabEm([Now EXCEPT !.frames[Len(frames)].kind = "closed menu"], "menu")
     IN Step(MenuCommands, MenuExecuteFunction(C, Top.win), Top.win)

RunAll ==
  /\ Runs("all")
  /\ \E r \in Top.todo :
       Step(AllCommands, [Now EXCEPT !.frames[Len(frames)].todo = @ \ {r}], r)

\* A module that delays M_DESTROY_WINDOW has commands executed meanwhile.
RunLockedCommand ==
  /\ Runs("put off") \/ Runs("destroy")
  /\ \E c \in Clients :
       context[c] # None /\ Step(LockCommands, Now, context[c])

ReturnFromClick == Runs("click") /\ Becomes(UngrabEm(Leave(Now), "passive"))

ReturnFromFunction ==
  /\ Runs("function")
  /\ Becomes(UngrabEm(EndFunction(Leave(Now), Top.func), "normal"))

ReturnFromMenu ==
  \/ Runs("menu") /\ Becomes(UngrabEm(Leave(Now), "menu"))
  \/ Runs("closed menu") /\ Becomes(Leave(Now))

\* The menu goes on without its window if that is gone.
ReturnFromItem ==
  /\ Runs("item")
  /\ LET B == [Leave(Now) EXCEPT !.flags.menu = Top.saved]
     IN Becomes(IF Top.win \in Listed(Now) THEN B
                ELSE [B EXCEPT !.frames[Len(frames) - 1].win = None])

ReturnFromAll == Runs("all") /\ Top.todo = {} /\ Becomes(Leave(Now))

\* Wait grabs the pointer again if it had ungrabbed it; that may fail.
ReturnFromWait ==
  /\ Runs("wait")
  /\ \/ Top.saved /\ Becomes(GrabEm(Leave(Now), "normal"))
     \/ (Top.saved => MayFail(Now)) /\ Becomes(Leave(Now))

ReturnFromBroadcast ==
  \/ Runs("put off") /\ Becomes([Leave(Now) EXCEPT !.doomed = Append(@, Top.win)])
  \/ Runs("destroy") /\ Becomes(FreeWindow(Leave(Now), Top.win))

\* destroy_window for each of the windows of q in turn.
DestroyEach(S, q) ==
  LET After[n \in 0..Len(q)] ==
        IF n = 0 THEN S ELSE DestroyWindow(After[n - 1], q[n])
  IN After[Len(q)]

DestroyScheduledWindows ==
  /\ frames = <<>> /\ ~NothingScheduled
  /\ Becomes(DestroyEach([Now EXCEPT !.flags.scheduled = FALSE, !.doomed = <<>>],
                         doomed))

Next ==
  \/ \E c \in Clients : HandleMapRequest(c) \/ HandleDestroyNotify(c)
  \/ HandleButtonPress \/ HandleCommand
  \/ RunFunctionItem \/ SelectWindow \/ RunMenuAction \/ SelectItem \/ RunAll
  \/ RunLockedCommand
  \/ ReturnFromClick \/ ReturnFromFunction \/ ReturnFromMenu \/ ReturnFromItem
  \/ ReturnFromAll \/ ReturnFromWait \/ ReturnFromBroadcast
  \/ DestroyScheduledWindows

Spec == Init /\ [][Next]_vars

---------------------------------------------------------------------------
(* Properties.                                                              *)

Count(kind) == Cardinality({i \in DOMAIN frames : frames[i].kind = kind})

\* The frame that runs next reads its window, or the windows All has still to
\* do: none of them has been freed.  A click reads its window after the bound
\* command (fvwm/events.c:1811), a function before each item, destroy_window
\* after its broadcast; and the function that runs is still defined.
NoUseAfterFree ==
  frames # <<>> =>
    /\ Top.kind \in {"click", "function", "menu", "put off", "destroy"} /\ Top.win # None
         => win[Top.win].status # "freed"
    /\ \A r \in Top.todo : win[r].status # "freed"
    /\ Top.func # None => Top.func \in DOMAIN uses

\* Events find the record of each window that is managed, and never one that
\* was freed, also when the id of a window was used again while its old
\* record was still waiting to be freed (fvwm/add_window.c:114).
ContextsCurrent ==
  /\ \A r \in Listed(Now) : context[win[r].client] = r
  /\ \A c \in Clients : context[c] # None =>
       /\ win[context[c]].client = c
       /\ \/ win[context[c]].status = "listed"
          \/ \E i \in DOMAIN frames :
               frames[i].kind = "destroy" /\ frames[i].win = context[c]

\* Modules are told of the end of each window once, before its record goes.
AnnouncedOnce ==
  \A r \in Recs :
    win[r].told = IF win[r].status \in {"none", "listed"} THEN 0 ELSE 1

\* When the event loop waits no command is taken to be running, and every
\* window that went away has been freed, in whatever order functions, menus
\* and waits ended and whichever of them could not grab the pointer.
FlagsTakenBack ==
  /\ flags.function = (Count("function") > 0) /\ flags.depth = Count("function")
  /\ \A f \in DOMAIN uses :
       uses[f] = Cardinality({i \in DOMAIN frames : frames[i].func = f})
  /\ frames = <<>> /\ NothingScheduled =>
       \A r \in Recs : win[r].status # "scheduled"

\* Each frame gives back its own grab and no other: the pointer is grabbed
\* while somebody counts on it, and free when the event loop waits.
GrabsBalanced ==
  /\ GrabAll(Now) > grab.passive => grab.pointer
  /\ grab.pointer => GrabAll(Now) > 0
  /\ grab.normal <= Count("function")
  /\ grab.menu = Count("menu") /\ grab.passive = Count("click")

\* Every command takes back what it set, and nothing else.
NothingLeftBehind == FlagsTakenBack /\ GrabsBalanced
===========================================================================
