--------------------------- MODULE XctestSession ---------------------------
(***************************************************************************)
(* XCUITestService (services/dvt/xctest/mod.rs): one run of a test bundle, *)
(* from the device's version to the end of the test plan, and the wait for *)
(* WebDriverAgent on top of it.                                            *)
(*                                                                         *)
(* The runner's messages go through the reader of the main connection.  It *)
(* gives those the bootstrap handler takes to the handler, which answers   *)
(* on the spot, and puts the others into the queue of the driver channel,  *)
(* from which run_dispatch_loop serves the listener.  The handler is       *)
(* installed with the channel and cleared when the plan has started.       *)
(* Connecting is one step here; XctestRun composes it from the handshakes  *)
(* of DtxHandshake.  Locks and wake-ups of a channel are RemoteServer.     *)
(***************************************************************************)
EXTENDS Integers, Sequences, FiniteSets

CONSTANTS
  Versions,     \* iOS major versions
  MaxMessages,  \* messages of the runner
  MaxPolls      \* polls of WebDriverAgent before its deadline

VARIABLES
  pc,        \* where XCUITestService::run is
  ver,       \* the device's major version
  init,      \* whether the initializer for the driver channel is registered
  early,     \* whether the driver channel has the bootstrap handler
  channel,   \* the driver channel: "none", "proxied", "plain"
  runner,    \* the runner process
  plan,      \* "no", "asked", "running": the call that starts the plan
  sent,      \* what the runner has sent, in order
  wire,      \* indices of sent not yet read, 0 for the request of a channel
  queue,     \* indices in the queue of the driver channel
  seen,      \* indices given to the listener
  replies,   \* how often each index was answered
  closed,    \* the reader has met the end of the connection
  result,
  wda        \* run_until_wda_ready: its place, its polls, its task

vars == <<pc, ver, init, early, channel, runner, plan, sent, wire, queue, seen, replies,
          closed, result, wda>>

(* What the bootstrap handler takes; "garbled" is such a message whose     *)
(* arguments cannot be decoded.                                            *)
Bootstrap == {"log", "version", "ready"}

Kinds == Bootstrap \cup {"garbled", "begin", "case", "finish"}

Indices == 1..MaxMessages

Init ==
  /\ pc = "idle" /\ ver = 0 /\ init = FALSE /\ early = FALSE
  /\ channel = "none" /\ runner = "none" /\ plan = "no"
  /\ sent = <<>> /\ wire = <<>> /\ queue = <<>> /\ seen = <<>>
  /\ replies = [i \in Indices |-> 0]
  /\ closed = FALSE /\ result = "none"
  /\ wda = [at |-> "idle", polls |-> 0, task |-> "none"]

traffic == <<sent, wire, queue, seen, replies>>

world == <<runner, traffic, closed>>

-----------------------------------------------------------------------------
(* XCUITestService::run.                                                   *)

Go(from, to) == pc = from /\ pc' = to

Return(r) ==
  /\ pc' = "returned" /\ result' = r

(* An operation over the connection that fails ends the run.               *)
MayFail(from) == pc = from /\ Return("err")

(* The run, started for itself or as the task of run_until_wda_ready.      *)
Start ==
  /\ Go("idle", "version")
  /\ \/ UNCHANGED wda
     \/ wda' = [wda EXCEPT !.at = "poll", !.task = "running"]
  /\ UNCHANGED <<ver, init, early, channel, plan, world, result>>

GetVersion ==
  /\ \/ Go("version", "connect") /\ ver' \in Versions /\ UNCHANGED result
     \/ MayFail("version") /\ UNCHANGED ver
  /\ UNCHANGED <<init, early, channel, plan, world, wda>>

(* connect_testmanagerd, the two TestManagerProxy::open and the process    *)
(* control channel.                                                        *)
Connect ==
  /\ \/ Go("connect", "handlers") /\ UNCHANGED result
     \/ MayFail("connect")
  /\ UNCHANGED <<ver, init, early, channel, plan, world, wda>>

(* initialize_testmanager_sessions and                                     *)
(* register_early_driver_channel_handler.                                  *)
InstallHandlers ==
  /\ Go("handlers", "init_ctrl")
  /\ init' = TRUE
  /\ UNCHANGED <<ver, early, channel, plan, world, result, wda>>

(* init_ctrl_session, init_session: calls from iOS 11 on.                  *)
InitSession(from, to) ==
  /\ \/ Go(from, to) /\ UNCHANGED result
     \/ MayFail(from) /\ ver >= 11
  /\ UNCHANGED <<ver, init, early, channel, plan, world, wda>>

(* launch_suspended_process.                                               *)
Launch ==
  /\ \/ Go("launch", "authorize") /\ runner' = "launched" /\ UNCHANGED result
     \/ MayFail("launch") /\ UNCHANGED runner
  /\ UNCHANGED <<ver, init, early, channel, plan, traffic, closed, wda>>

(* authorize_test: the reply false fails it from iOS 12 on, a call that    *)
(* fails does always.                                                      *)
Authorize ==
  /\ \/ /\ Go("authorize", "wait_proxied")
        /\ runner' = IF runner = "launched" THEN "authorized" ELSE runner
        /\ UNCHANGED result
     \/ MayFail("authorize") /\ UNCHANGED runner
  /\ UNCHANGED <<ver, init, early, channel, plan, traffic, closed, wda>>

(* wait_for_xctest_service_channel looks for a proxied channel first and,  *)
(* when that has timed out, for a plain one.                               *)
WaitChannel ==
  /\ \/ pc = "wait_proxied" /\ channel = "proxied" /\ pc' = "start_plan" /\ UNCHANGED result
     \/ pc = "wait_plain" /\ channel = "plain" /\ pc' = "start_plan" /\ UNCHANGED result
     \/ MayFail("wait_proxied") /\ closed
     \/ MayFail("wait_plain") /\ closed
  /\ UNCHANGED <<ver, init, early, channel, plan, world, wda>>

WaitTimeout ==
  /\ \/ Go("wait_proxied", "wait_plain") /\ channel # "proxied" /\ UNCHANGED result
     \/ pc = "wait_plain" /\ channel # "plain" /\ Return("runner_timeout")
  /\ UNCHANGED <<ver, init, early, channel, plan, world, wda>>

(* start_executing_test_plan: the call, and its reply.                     *)
StartPlan ==
  /\ pc = "start_plan" /\ plan = "no"
  /\ \/ plan' = "asked" /\ UNCHANGED <<pc, result>>
     \/ MayFail("start_plan") /\ closed /\ UNCHANGED plan
  /\ UNCHANGED <<ver, init, early, channel, world, wda>>

PlanReply ==
  /\ pc = "start_plan"
  /\ \/ plan = "running" /\ pc' = "clear" /\ UNCHANGED result
     \/ plan = "asked" /\ closed /\ MayFail("start_plan")
  /\ UNCHANGED <<ver, init, early, channel, plan, world, wda>>

(* clear_incoming_handler; from here on all messages are queued.           *)
ClearHandler ==
  /\ Go("clear", "dispatch")
  /\ early' = FALSE
  /\ UNCHANGED <<ver, init, channel, plan, world, result, wda>>

(* Variant: a callback of a test case is given to the listener and the     *)
(* answer the runner waits for is forgotten.                               *)
DispatchForgetsCase ==
  /\ pc = "dispatch" /\ queue # <<>>
  /\ LET i == Head(queue)
     IN  /\ seen' = Append(seen, i)
         /\ \/ /\ sent[i].kind # "garbled"
               /\ replies' = IF sent[i].expects /\ sent[i].kind # "case"
                             THEN [replies EXCEPT ![i] = @ + 1] ELSE replies
               /\ IF sent[i].kind = "finish" THEN Return("ok") ELSE UNCHANGED <<pc, result>>
            \/ Return("err") /\ UNCHANGED replies
  /\ queue' = Tail(queue)
  /\ UNCHANGED <<ver, init, early, channel, runner, plan, sent, wire, closed, wda>>

(* run_dispatch_loop: one message, its listener, its answer.  A listener,  *)
(* a decoding or an answer that fails ends the run.                        *)
Dispatch ==
  /\ pc = "dispatch" /\ queue # <<>>
  /\ LET i == Head(queue)
     IN  /\ seen' = Append(seen, i)
         /\ \/ /\ sent[i].kind # "garbled"
               /\ replies' = IF sent[i].expects THEN [replies EXCEPT ![i] = @ + 1] ELSE replies
               /\ IF sent[i].kind = "finish" THEN Return("ok") ELSE UNCHANGED <<pc, result>>
            \/ Return("err") /\ UNCHANGED replies
  /\ queue' = Tail(queue)
  /\ UNCHANGED <<ver, init, early, channel, runner, plan, sent, wire, closed, wda>>

(* Variant: the disconnection does not end the loop.                       *)
DispatchEndsHangs ==
  /\ pc = "dispatch" /\ queue = <<>> /\ ~closed /\ Return("timeout")
  /\ UNCHANGED <<ver, init, early, channel, plan, world, wda>>

(* The other ways out of the loop: a read of a closed connection, the      *)
(* deadline, and the select over disconnect_waiter, which may win even     *)
(* when a message is queued.                                               *)
DispatchEnds ==
  /\ pc = "dispatch"
  /\ \/ queue = <<>> /\ closed /\ Return("err")
     \/ queue = <<>> /\ ~closed /\ Return("timeout")
     \/ closed /\ Return("disconnected")
  /\ UNCHANGED <<ver, init, early, channel, plan, world, wda>>

-----------------------------------------------------------------------------
(* The reader task of the main connection.                                 *)

(* Variant: a message of the bootstrap that the handler takes is also put  *)
(* into the queue.                                                         *)
ReadMessageTwice ==
  /\ wire # <<>> /\ Head(wire) > 0
  /\ LET i == Head(wire)
     IN  /\ queue' = Append(queue, i)
         /\ IF early /\ sent[i].kind \in Bootstrap
            THEN replies' = IF sent[i].expects THEN [replies EXCEPT ![i] = @ + 1] ELSE replies
            ELSE UNCHANGED replies
  /\ wire' = Tail(wire)
  /\ UNCHANGED <<pc, ver, init, early, channel, runner, plan, sent, seen, closed, result, wda>>

(* The runner's channel is registered, with the handler of                 *)
(* install_early_xctest_handler if the initializer is there, and           *)
(* acknowledged; an acknowledgement that cannot be written closes the      *)
(* connection.                                                             *)
RegisterChannel ==
  /\ wire # <<>> /\ Head(wire) = 0
  /\ wire' = Tail(wire)
  /\ early' = init
  /\ channel' \in {"proxied", "plain"}
  /\ \/ UNCHANGED closed
     \/ runner = "gone" /\ closed' = TRUE
  /\ UNCHANGED <<pc, ver, init, runner, plan, sent, queue, seen, replies, result, wda>>

(* should_handle_in_bootstrap and the outcome of the handler: a message is *)
(* handled also when its answer cannot be written, and one the handler     *)
(* fails on goes into the queue of the channel like all others.            *)
ReadMessage ==
  /\ wire # <<>> /\ Head(wire) > 0
  /\ LET i == Head(wire)
     IN  IF early /\ sent[i].kind \in Bootstrap
         THEN /\ \/ replies' = IF sent[i].expects THEN [replies EXCEPT ![i] = @ + 1] ELSE replies
                 \/ runner = "gone" /\ UNCHANGED replies
              /\ UNCHANGED queue
         ELSE queue' = Append(queue, i) /\ UNCHANGED replies
  /\ wire' = Tail(wire)
  /\ UNCHANGED <<pc, ver, init, early, channel, runner, plan, sent, seen, closed, result, wda>>

ReadEof ==
  /\ wire = <<>> /\ runner = "gone" /\ ~closed
  /\ closed' = TRUE
  /\ UNCHANGED <<pc, ver, init, early, channel, runner, plan, traffic, result, wda>>

-----------------------------------------------------------------------------
(* The runner on the device.                                               *)

RunnerOpensChannel ==
  /\ runner = "authorized"
  /\ runner' = "up"
  /\ wire' = Append(wire, 0)
  /\ UNCHANGED <<pc, ver, init, early, channel, plan, sent, queue, seen, replies, closed,
                 result, wda>>

(* Before the plan was asked for, the runner sends what belongs to the     *)
(* bootstrap; afterwards anything, the end of the plan last.               *)
RunnerSends(kind) ==
  /\ runner = "up" /\ Len(sent) < MaxMessages
  /\ kind \notin Bootstrap \cup {"garbled"} => plan # "no"
  /\ \A i \in DOMAIN sent : sent[i].kind # "finish"
  /\ \E e \in IF kind = "ready" THEN {TRUE} ELSE BOOLEAN :
       sent' = Append(sent, [kind |-> kind, expects |-> e])
  /\ wire' = Append(wire, Len(sent) + 1)
  /\ UNCHANGED <<pc, ver, init, early, channel, runner, plan, queue, seen, replies, closed,
                 result, wda>>

RunnerStartsPlan ==
  /\ runner = "up" /\ plan = "asked"
  /\ plan' = "running"
  /\ UNCHANGED <<pc, ver, init, early, channel, world, result, wda>>

RunnerExits ==
  /\ runner \in {"launched", "authorized", "up"}
  /\ runner' = "gone"
  /\ UNCHANGED <<pc, ver, init, early, channel, plan, traffic, closed, result, wda>>

-----------------------------------------------------------------------------
(* run_until_wda_ready: the run is a task of its own; WebDriverAgent's     *)
(* status is polled until it answers, the task ends or the deadline passes.*)

(* Variant: at the deadline the error is returned and the task goes on.    *)
WdaPollDetaches ==
  /\ wda.at = "poll"
  /\ IF result # "none"
     THEN wda' = [wda EXCEPT !.at = "failed", !.task = "joined"]
     ELSE \/ runner = "up" /\ wda' = [wda EXCEPT !.at = "ready"]
          \/ wda.polls < MaxPolls /\ wda' = [wda EXCEPT !.polls = @ + 1]
          \/ wda.polls = MaxPolls /\ wda' = [wda EXCEPT !.at = "failed"]
  /\ UNCHANGED <<pc, ver, init, early, channel, plan, world, result>>

WdaPoll ==
  /\ wda.at = "poll"
  /\ IF result # "none"
     THEN wda' = [wda EXCEPT !.at = "failed", !.task = "joined"] /\ UNCHANGED pc
     ELSE \/ runner = "up" /\ wda' = [wda EXCEPT !.at = "ready"] /\ UNCHANGED pc
          \/ wda.polls < MaxPolls /\ wda' = [wda EXCEPT !.polls = @ + 1] /\ UNCHANGED pc
          \/ /\ wda.polls = MaxPolls
             /\ wda' = [wda EXCEPT !.at = "failed", !.task = "aborted"]
             /\ pc' = "aborted"
  /\ UNCHANGED <<ver, init, early, channel, plan, world, result>>

(* WdaRunHandle::wait and abort.                                           *)
WdaWait ==
  /\ wda.at = "ready" /\ wda.task = "running" /\ result # "none"
  /\ wda' = [wda EXCEPT !.task = "joined"]
  /\ UNCHANGED <<pc, ver, init, early, channel, plan, world, result>>

WdaAbort ==
  /\ wda.at = "ready" /\ wda.task = "running" /\ result = "none"
  /\ wda' = [wda EXCEPT !.task = "aborted"]
  /\ pc' = "aborted"
  /\ UNCHANGED <<ver, init, early, channel, plan, world, result>>

-----------------------------------------------------------------------------
RunSteps ==
  \/ GetVersion \/ InstallHandlers
  \/ InitSession("init_ctrl", "init_main") \/ InitSession("init_main", "launch")
  \/ Launch \/ Authorize \/ WaitChannel \/ WaitTimeout
  \/ StartPlan \/ PlanReply \/ ClearHandler \/ Dispatch \/ DispatchEnds

RunNext == Connect \/ RunSteps

ReaderNext == RegisterChannel \/ ReadMessage \/ ReadEof

Others ==
  \/ Start \/ ReaderNext
  \/ RunnerOpensChannel \/ RunnerStartsPlan \/ RunnerExits
  \/ \E kind \in Kinds : RunnerSends(kind)
  \/ WdaPoll \/ WdaWait \/ WdaAbort

Next == RunNext \/ Others

(* tokio polls what is runnable; a call on a connection returns when the   *)
(* device answers it or the connection ends.  The runner does not stay     *)
(* silent for ever: it starts the plan it is asked for or exits, and it    *)
(* exits in the end.                                                       *)
Fairness ==
  /\ WF_vars(RunNext) /\ WF_vars(ReaderNext) /\ WF_vars(RunnerExits)
  /\ WF_vars(WdaPoll)

Spec == Init /\ [][Next]_vars /\ Fairness

-----------------------------------------------------------------------------
InSeq(s) == {s[i] : i \in DOMAIN s}

(* The hand-over from the bootstrap handler to the dispatch loop loses and *)
(* doubles nothing: every message that is not the bootstrap's is either on *)
(* its way or has been, or will be, given to the listener, in the order in *)
(* which the runner sent it, the request of the channel (0) before all of  *)
(* them; so is one the handler failed on.  What the handler has taken is   *)
(* answered, unless the runner is gone, and none is both answered by the   *)
(* handler and given to the listener.                                      *)
NothingLostAtHandOver ==
  LET chain == seen \o queue \o wire
  IN  /\ \A i, j \in DOMAIN chain : i < j => chain[i] < chain[j]
      /\ \A i \in DOMAIN sent :
           \/ i \in InSeq(chain)
           \/ /\ sent[i].kind \in Bootstrap
              /\ sent[i].expects => replies[i] = 1 \/ runner = "gone"
      /\ \A i \in InSeq(queue) : replies[i] = 0

(* A run that returns Ok has served the plan to its end: everything the    *)
(* runner sent up to the end of the plan was answered exactly once if it   *)
(* asked for an answer; only the bootstrap handler goes on without its     *)
(* answer having been written, and only when the runner is gone.           *)
OkMeansAnswered ==
  result = "ok" =>
    \E f \in DOMAIN sent :
      /\ sent[f].kind = "finish"
      /\ \A i \in 1..f :
           \/ replies[i] = IF sent[i].expects THEN 1 ELSE 0
           \/ replies[i] = 0 /\ sent[i].kind \in Bootstrap /\ runner = "gone"

(* When run_until_wda_ready gives up, no task goes on driving the runner.  *)
FailedWdaLeavesNoTask == wda.at = "failed" => wda.task # "running"

(* A run returns, whatever the runner does, unless it is aborted.  What    *)
(* the dispatch loop waits for wakes it here, as it does on one thread; on *)
(* several a wake-up can be lost, which RemoteServer shows.                *)
RunReturns == (pc = "version") ~> (pc \in {"returned", "aborted"})
=============================================================================
