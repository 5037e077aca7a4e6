---------------------------- MODULE MCModuleComm ----------------------------
(* Instances of ModuleComm for TLC. *)
EXTENDS ModuleComm

(* Masks of modules that unlock nothing, of modules that unlock "sync"
   messages (FvwmEvent, FvwmAuto), and of modules that do so and ignore them
   while the server is grabbed (FvwmAnimate, FvwmIconMan).                 *)
PlainMask == [pipe |-> Classes \ {"sync"}, sync |-> {}, nograb |-> {}]
SyncMask == [pipe |-> Classes, sync |-> {"sync"}, nograb |-> {}]
NoGrabMask == [pipe |-> Classes, sync |-> {"sync"}, nograb |-> {"sync"}]

MCClasses == {"plain", "sync"}
AllPlain == [m \in Modules |-> PlainMask]
AllSync == [m \in Modules |-> SyncMask]
AllNoGrab == [m \in Modules |-> NoGrabMask]
SyncSecond == [m \in Modules |-> IF m = 2 THEN SyncMask ELSE PlainMask]
=============================================================================
