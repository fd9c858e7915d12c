------------------------------- MODULE GameLoop -------------------------------
(***************************************************************************)
(* GameLoop of src/services/game/game_loop.cpp: a thread that ticks until  *)
(* running_ is false, and the callers of start(), stop() and tick().       *)
(* callbackMutex_ is held while the tick callback runs, and again while    *)
(* the metrics callback does.                                              *)
(*                                                                         *)
(* Assigning to a std::thread that has not been joined ends the program,   *)
(* and so does joining one that is not there any more: crashed.  The tick  *)
(* times and metrics are left out.                                         *)
(***************************************************************************)
EXTENDS Naturals, FiniteSets

CONSTANTS Controllers        \* threads that start, stop and tick the loop

VARIABLES loopRunning,       \* running_
          loopThread,        \* thread_: "none", or where the loop thread is
          callback,          \* who holds callbackMutex_, or "free"
          controller,        \* where each controller is
          crashed,
          overlapped         \* ghost: start() or stop() was called during another such call

loopVars == <<loopRunning, loopThread, callback, controller, crashed, overlapped>>

LoopInit ==
  /\ loopRunning = FALSE /\ loopThread = "none" /\ callback = "free"
  /\ controller = [c \in Controllers |-> "idle"]
  /\ crashed = FALSE /\ overlapped = FALSE

\* Who is inside of start() or stop().
Controlling == {c \in Controllers : controller[c] \in {"start", "check", "join"}}

\* start(): running_ is set if it was not ...
StartLoop(c) ==
  /\ ~crashed /\ controller[c] = "idle" /\ ~loopRunning
  /\ loopRunning' = TRUE
  /\ overlapped' = (overlapped \/ Controlling # {})
  /\ controller' = [controller EXCEPT ![c] = "start"]
  /\ UNCHANGED <<loopThread, callback, crashed>>

\* ... and the new thread is assigned to thread_.
AssignThread(c) ==
  /\ ~crashed /\ controller[c] = "start"
  /\ IF loopThread = "none" THEN loopThread' = "top" /\ UNCHANGED crashed
     ELSE crashed' = TRUE /\ UNCHANGED loopThread
  /\ controller' = [controller EXCEPT ![c] = "idle"]
  /\ UNCHANGED <<loopRunning, callback, overlapped>>

\* Mutant of stop(): the flag is not cleared.
StopKeepsFlag(c) ==
  /\ ~crashed /\ controller[c] = "idle"
  /\ overlapped' = (overlapped \/ Controlling # {})
  /\ controller' = [controller EXCEPT ![c] = "check"]
  /\ UNCHANGED <<loopRunning, loopThread, callback, crashed>>

\* stop(): the flag first ...
StopLoop(c) ==
  /\ ~crashed /\ controller[c] = "idle"
  /\ loopRunning' = FALSE
  /\ overlapped' = (overlapped \/ Controlling # {})
  /\ controller' = [controller EXCEPT ![c] = "check"]
  /\ UNCHANGED <<loopThread, callback, crashed>>

\* ... then joinable() ...
StopCheck(c) ==
  /\ ~crashed /\ controller[c] = "check"
  /\ controller' = [controller EXCEPT ![c] = IF loopThread = "none" THEN "idle" ELSE "join"]
  /\ UNCHANGED <<loopRunning, loopThread, callback, crashed, overlapped>>

\* ... and join().
StopJoin(c) ==
  /\ ~crashed /\ controller[c] = "join"
  /\ \/ /\ loopThread = "ended"
        /\ loopThread' = "none" /\ controller' = [controller EXCEPT ![c] = "idle"]
        /\ UNCHANGED crashed
     \/ loopThread = "none" /\ crashed' = TRUE /\ UNCHANGED <<loopThread, controller>>
  /\ UNCHANGED <<loopRunning, callback, overlapped>>

\* run(): the flag, the tick callback, the metrics callback.
LoopTop ==
  /\ ~crashed /\ loopThread = "top"
  /\ loopThread' = IF loopRunning THEN "tick" ELSE "ended"
  /\ UNCHANGED <<loopRunning, callback, controller, crashed, overlapped>>

LoopTick ==
  /\ ~crashed
  /\ \/ loopThread = "tick" /\ callback = "free" /\ callback' = "loop" /\ loopThread' = "ticking"
     \/ loopThread = "ticking" /\ callback' = "free" /\ loopThread' = "metrics"
     \/ loopThread = "metrics" /\ callback = "free" /\ loopThread' = "top" /\ UNCHANGED callback
  /\ UNCHANGED <<loopRunning, controller, crashed, overlapped>>

\* GameServer::tick(): only while the loop is not running, as far as that was true
\* when it was asked.
ManualTick(c) ==
  /\ ~crashed
  /\ \/ /\ controller[c] = "idle" /\ ~loopRunning
        /\ controller' = [controller EXCEPT ![c] = "tick"] /\ UNCHANGED callback
     \/ /\ controller[c] = "tick" /\ callback = "free"
        /\ callback' = "manual" /\ controller' = [controller EXCEPT ![c] = "ticking"]
     \/ /\ controller[c] = "ticking"
        /\ callback' = "free" /\ controller' = [controller EXCEPT ![c] = "idle"]
  /\ UNCHANGED <<loopRunning, loopThread, crashed, overlapped>>

\* After a crash nothing happens any more.
LoopCrashed == crashed /\ UNCHANGED loopVars

LoopNext ==
  \/ LoopTop \/ LoopTick \/ LoopCrashed
  \/ \E c \in Controllers : \/ StartLoop(c) \/ AssignThread(c)
                            \/ StopLoop(c) \/ StopCheck(c) \/ StopJoin(c)
                            \/ ManualTick(c)

LoopSpec == LoopInit /\ [][LoopNext]_loopVars

\* The threads run, and the mutex is given to the loop as often as it is free.
LoopFairness ==
  /\ WF_loopVars(LoopTop) /\ SF_loopVars(LoopTick)
  /\ \A c \in Controllers :
       /\ WF_loopVars(StopCheck(c)) /\ WF_loopVars(StopJoin(c))
       /\ WF_loopVars(controller[c] = "ticking" /\ ManualTick(c))

\* The tick callback never runs twice at once, whoever ticks.  And as long as calls of start()
\* and stop() do not overlap, the program is not brought down, running_ says whether a
\* thread ticks, and a stop() that joins has a thread to join that has been told to end
\* (GameLoop::start, stop, run, GameServer::tick).
LoopSafe ==
  /\ \A c \in Controllers : controller[c] = "ticking" =>
       loopThread # "ticking" /\ \A d \in Controllers \ {c} : controller[d] # "ticking"
  /\ ~overlapped =>
       /\ ~crashed
       /\ loopRunning /\ Controlling = {} => loopThread \notin {"none", "ended"}
       /\ \A c \in Controlling :
            /\ loopRunning <=> controller[c] = "start"
            /\ controller[c] = "start" => loopThread = "none"
            /\ controller[c] = "join" => loopThread # "none"

\* stop() returns: the thread it joins ends after the tick it is in.  Only calls of start()
\* and stop() that overlap can prevent it, or bring the program down.
StopReturns ==
  \A c \in Controllers :
    controller[c] \in {"check", "join"} ~> controller[c] = "idle" \/ overlapped
=============================================================================
