---------------------------- MODULE RemoteServer ----------------------------
(***************************************************************************)
(* The DTX connection of idevice/src/services/dvt/remote_server.rs: the    *)
(* state behind RemoteServerShared, the reader task that routes what the   *)
(* device sends, and the host tasks that call methods, read channels, wait *)
(* for channels to be registered and wait for the disconnection.           *)
(*                                                                         *)
(* One action is one critical section: a lock taken and released, an       *)
(* atomic access, a write to the transport, the creation of a Notified     *)
(* future. Parallel = TRUE is the multi-thread tokio runtime of the ffi    *)
(* and tools crates, where these interleave freely; Parallel = FALSE is a  *)
(* single-threaded one (the wasm32 build), where a task that runs between  *)
(* two await points is not interrupted.                                    *)
(***************************************************************************)
EXTENDS Integers, Sequences

CONSTANTS
    Tasks,          \* host tasks holding the client or an OwnedChannel
    Codes,          \* the channel codes of the instance; 0 is the control channel
    LocalCodes,     \* codes make_channel hands out (positive)
    RemoteCodes,    \* keys of the channels the device opens: minus its code
    MaxId,          \* bound on the identifiers taken from current_message
    MaxDevice,      \* bound on the messages the device originates
    MaxQueue,       \* bound on the ChannelQueue objects created
    Workload,       \* the operations the tasks perform, among AllOps
    Parallel,       \* TRUE: tasks run on several threads
    CanDrop         \* TRUE: the RemoteServerClient may be dropped

AllOps == {"call", "invoke", "open", "read", "wait", "disconnect", "handler", "register",
           "abandon"}

ASSUME CodesAssumption ==
    /\ 0 \in Codes /\ Codes \subseteq Int
    /\ LocalCodes \subseteq Codes /\ RemoteCodes \subseteq Codes
    /\ 0 \notin LocalCodes /\ 0 \notin RemoteCodes
    /\ LocalCodes \cap RemoteCodes = {}
ASSUME BoundsAssumption ==
    /\ MaxId \in Nat /\ MaxDevice \in Nat /\ MaxQueue \in Nat \ {0}
    /\ Workload \subseteq AllOps /\ Parallel \in BOOLEAN /\ CanDrop \in BOOLEAN

VARIABLES
    current_message,    \* last identifier handed out
    pending_replies,    \* keys of the map of oneshot senders
    oneshot,            \* per identifier, what its receiver would see
    channels,           \* code -> ChannelQueue object, 0 when absent
    channel_metadata,   \* codes with a ChannelMetadata entry
    registrations,      \* codes whose identifier has an incoming initializer
    handlers,           \* codes with an incoming message handler
    queues,             \* ChannelQueue object -> its messages
    nextQueue,          \* last ChannelQueue object created
    new_channel,        \* the next code make_channel hands out
    known,              \* codes the tasks hold a channel handle for
    closed,             \* the AtomicBool
    rpc,                \* where the reader task is
    rmsg,               \* the message the reader is routing
    inbound,            \* device -> host, in order
    eof,                \* the transport has failed
    outstanding,        \* identifiers the device has yet to answer
    answered,           \* per device identifier, host replies written for it
    sent,               \* messages originated by the device so far
    pc, kind, chan,     \* per task: position, operation, channel operated on
    call,               \* per task: identifier of the call in progress, or 0
    queue,              \* per task: the ChannelQueue it holds, or 0
    woken,              \* per task: the notifications its futures received
    held                \* per task: device identifier of a message to answer

taskVars   == <<pc, kind, chan, call, queue, woken, held>>
replyVars  == <<current_message, pending_replies, oneshot>>
chanVars   == <<channels, channel_metadata, registrations, handlers, queues, nextQueue,
                new_channel, known>>
readerVars == <<rpc, rmsg>>
deviceVars == <<inbound, eof, outstanding, answered, sent>>
vars == <<taskVars, replyVars, chanVars, readerVars, deviceVars, closed>>

Ids       == 1..MaxId
DeviceIds == 1..MaxDevice
QueueIds  == 1..MaxQueue
Selectors == {"reply", "invoke", "request", "cancel", "capabilities"}

(***************************************************************************)
(* A message as the router sees it. conv is the conversation index: 0 for  *)
(* what the device originates, 1 for its answers. chan is the host's key   *)
(* for the channel. arg is the channel a control message is about.         *)
(***************************************************************************)
Message == [conv : {0}, id : 0..MaxDevice, chan : Codes, sel : Selectors,
            arg : Codes, expects : BOOLEAN]
      \cup [conv : {1}, id : Ids, chan : Codes, sel : Selectors,
            arg : Codes, expects : {FALSE}]
NoMsg   == [conv |-> 0, id |-> 0, chan |-> 0, sel |-> "invoke", arg |-> 0,
            expects |-> FALSE]
Reply(i, c) == [conv |-> 1, id |-> i, chan |-> c, sel |-> "reply", arg |-> 0,
                expects |-> FALSE]

(***************************************************************************)
(* Scheduling. A position in NoYield is reached without an await after the *)
(* step before it, so a single-threaded runtime runs on from there.        *)
(***************************************************************************)
NoYield       == {"check", "park"}
MayRun(t)   == \/ Parallel
               \/ /\ rpc # "store_closed"
                  /\ \A u \in Tasks \ {t} : pc[u] \notin NoYield
ReaderRuns  == Parallel \/ \A u \in Tasks : pc[u] \notin NoYield

(***************************************************************************)
(* Notify::notify_waiters: only futures already created are woken; nothing *)
(* is stored for a task that creates its future later. An update and the   *)
(* notify_waiters that follows it are one step here: a task that parks     *)
(* between them is woken as if it had parked before the update.            *)
(***************************************************************************)
NotifyWaiters(waits(_), event) ==
    woken' = [t \in Tasks |-> IF pc[t] = "parked" /\ waits(t)
                              THEN woken[t] \cup {event} ELSE woken[t]]
NotifyClosed      == NotifyWaiters(LAMBDA t : TRUE, "closed")
NotifyRegistry    == NotifyWaiters(LAMBDA t : kind[t] = "wait", "event")
NotifyQueue(q)    == NotifyWaiters(LAMBDA t : kind[t] = "read" /\ queue[t] = q, "event")

\* The operation of t returns, with a value or an error, or is dropped.
Finish(t) ==
    /\ pc' = [pc EXCEPT ![t] = "idle"]
    /\ kind' = [kind EXCEPT ![t] = "none"]
    /\ chan' = [chan EXCEPT ![t] = 0]
    /\ call' = [call EXCEPT ![t] = 0]
    /\ queue' = [queue EXCEPT ![t] = 0]

\* The operation of t goes on at position p.
Goto(t, p) ==
    /\ pc' = [pc EXCEPT ![t] = p]
    /\ UNCHANGED <<kind, chan, call, queue>>

\* wait_for_registered_channel_code borrows the client, make_channel and
\* register_incoming_channel_initializer borrow it mutably; calls and reads go
\* through an OwnedChannel, disconnect_waiter owns its clone of the shared state.
MayBorrow(k) ==
    /\ rpc # "aborted"
    /\ \A u \in Tasks : kind[u] # "open" /\ (k # "wait" => kind[u] # "wait")

\* Task t, idle and owing no answer, starts an operation on channel c at position p.
Start(t, k, c, p) ==
    /\ MayRun(t) /\ pc[t] = "idle" /\ held[t] = 0
    /\ pc' = [pc EXCEPT ![t] = p]
    /\ kind' = [kind EXCEPT ![t] = k]
    /\ chan' = [chan EXCEPT ![t] = c]
    /\ UNCHANGED queue

\* The reader has dealt with its message.
NextFrame == rpc' = "read" /\ rmsg' = NoMsg

-----------------------------------------------------------------------------
Init ==
    /\ current_message = 0
    /\ pending_replies = {}
    /\ oneshot = [i \in Ids |-> "none"]
    /\ channels = [c \in Codes |-> IF c = 0 THEN 1 ELSE 0]
    /\ channel_metadata = {0}
    /\ registrations = {}
    /\ handlers = {}
    /\ queues = [q \in QueueIds |-> <<>>]
    /\ nextQueue = 1 /\ new_channel = 1 /\ known = {0}
    /\ closed = FALSE
    /\ rpc = "read" /\ rmsg = NoMsg
    /\ inbound = <<>> /\ eof = FALSE /\ outstanding = {}
    /\ answered = [d \in DeviceIds |-> 0]
    /\ sent = 0
    /\ pc = [t \in Tasks |-> "idle"]
    /\ kind = [t \in Tasks |-> "none"]
    /\ chan = [t \in Tasks |-> 0]
    /\ call = [t \in Tasks |-> 0]
    /\ queue = [t \in Tasks |-> 0]
    /\ woken = [t \in Tasks |-> {}]
    /\ held = [t \in Tasks |-> 0]

-----------------------------------------------------------------------------
(***************************************************************************)
(* call_method and call_method_with_reply. The identifier is private to    *)
(* the caller until its sender is in pending_replies, so taking it and     *)
(* inserting the sender are one step.                                      *)
(***************************************************************************)
TakeIdentifier(t) ==
    /\ current_message < MaxId
    /\ current_message' = current_message + 1
    /\ call' = [call EXCEPT ![t] = current_message']

\* Variant: the sender is filed under fetch_add's result, one too low.
InsertSenderOffByOne(i) ==
    /\ pending_replies' = pending_replies \cup {i - 1}
    /\ oneshot' = [oneshot EXCEPT ![i] = "open"]

InsertSender(i) ==
    /\ pending_replies' = pending_replies \cup {i}
    /\ oneshot' = [oneshot EXCEPT ![i] = "open"]

CallMethodWithReply(t, c) ==
    /\ Start(t, "call", c, "write")
    /\ TakeIdentifier(t)
    /\ InsertSender(current_message')
    /\ UNCHANGED <<woken, held, chanVars, readerVars, deviceVars, closed>>

CallMethod(t, c) ==
    /\ Start(t, "invoke", c, "write")
    /\ TakeIdentifier(t)
    /\ UNCHANGED <<pending_replies, oneshot, woken, held, chanVars, readerVars, deviceVars,
                   closed>>

(***************************************************************************)
(* RemoteServerShared::write_all succeeds. A transport the device has left *)
(* may still take bytes, which then reach nobody.                          *)
(***************************************************************************)
WireChannel(t) == IF kind[t] = "open" THEN 0 ELSE chan[t]

WriteOk(t) ==
    /\ MayRun(t) /\ pc[t] = "write"
    /\ outstanding' = IF eof THEN outstanding ELSE outstanding \cup {<<call[t], WireChannel(t)>>}
    /\ IF kind[t] = "invoke" THEN Finish(t) ELSE Goto(t, "await")
    /\ UNCHANGED <<woken, held, replyVars, chanVars, readerVars, inbound, eof, answered,
                   sent, closed>>

\* Variant: the failed writer removes the newest sender instead of its own.
WriteErrRemovesNewest(t) ==
    /\ MayRun(t) /\ pc[t] = "write" /\ eof
    /\ pending_replies' = pending_replies \ {current_message}
    /\ Finish(t)
    /\ UNCHANGED <<woken, held, current_message, oneshot, chanVars, readerVars, deviceVars,
                   closed>>

(***************************************************************************)
(* write_all fails, which a broken transport makes it do: send_method      *)
(* removes the sender again and returns the error.                         *)
(***************************************************************************)
WriteErr(t) ==
    /\ MayRun(t) /\ pc[t] = "write" /\ eof
    /\ pending_replies' = pending_replies \ {call[t]}
    /\ Finish(t)
    /\ UNCHANGED <<woken, held, current_message, oneshot, chanVars, readerVars, deviceVars,
                   closed>>

(***************************************************************************)
(* wait_for_reply: the receiver yields the reply, or fails because its     *)
(* sender was dropped and the caller is given an error. make_channel takes *)
(* a reply with a payload for a refusal, and hands out the channel         *)
(* otherwise.                                                              *)
(***************************************************************************)
ReceiveReply(t) ==
    /\ MayRun(t) /\ pc[t] = "await" /\ oneshot[call[t]] = "value"
    /\ \/ kind[t] = "open" /\ known' = known \cup {chan[t]}
       \/ UNCHANGED known
    /\ Finish(t)
    /\ UNCHANGED <<woken, held, channels, channel_metadata, registrations, handlers, queues,
                   nextQueue, new_channel, replyVars, readerVars, deviceVars, closed>>

ReceiveDropped(t) ==
    /\ MayRun(t) /\ pc[t] = "await" /\ oneshot[call[t]] = "dropped"
    /\ pending_replies' = pending_replies \ {call[t]}
    /\ Finish(t)
    /\ UNCHANGED <<woken, held, current_message, oneshot, chanVars, readerVars, deviceVars,
                   closed>>

\* Variant: a guard that cleans up removes the sender of a dropped call.
AbandonRemovesSender(t) ==
    /\ MayRun(t) /\ pc[t] \notin {"idle", "check", "park"}
    /\ Finish(t)
    /\ woken' = [woken EXCEPT ![t] = {}]
    /\ pending_replies' = pending_replies \ {call[t]}
    /\ UNCHANGED <<held, current_message, oneshot, chanVars, readerVars, deviceVars, closed>>

(***************************************************************************)
(* The future of an operation is dropped where it waits (a timeout, a      *)
(* losing select! branch): for a lock, for the transport, for a reply or   *)
(* for a notification. Nothing is undone: an abandoned call leaves its     *)
(* sender in pending_replies, and its message, or a part of it, may have   *)
(* reached the device; an abandoned make_channel leaves what it has        *)
(* registered so far. Dropped before its first registration, an operation  *)
(* has used up an identifier or a channel code, and done nothing else.     *)
(***************************************************************************)
Abandon(t) ==
    /\ MayRun(t) /\ pc[t] \notin {"idle", "check", "park"}
    /\ \/ UNCHANGED outstanding
       \/ /\ pc[t] = "write" /\ ~eof
          /\ outstanding' = outstanding \cup {<<call[t], WireChannel(t)>>}
    /\ Finish(t)
    /\ woken' = [woken EXCEPT ![t] = {}]
    /\ UNCHANGED <<held, replyVars, chanVars, readerVars, inbound, eof, answered, sent, closed>>

(***************************************************************************)
(* make_channel: metadata (and its notification), then the queue, then the *)
(* correlated _requestChannelWithCode:identifier: on the control channel.  *)
(* A refusal or an error leaves both registrations in place.               *)
(***************************************************************************)
MakeChannel(t) ==
    /\ new_channel \in LocalCodes /\ MayBorrow("open")
    /\ Start(t, "open", new_channel, "ensure")
    /\ new_channel' = new_channel + 1
    /\ channel_metadata' = channel_metadata \cup {new_channel}
    /\ NotifyRegistry
    /\ UNCHANGED <<call, held, channels, registrations, handlers, queues, nextQueue, known,
                   replyVars, readerVars, deviceVars, closed>>

\* ensure_channel_registered: a queue is created only for a code without one.
EnsureChannelRegistered(c) ==
    IF channels[c] # 0
    THEN UNCHANGED <<channels, nextQueue>>
    ELSE /\ nextQueue < MaxQueue
         /\ nextQueue' = nextQueue + 1
         /\ channels' = [channels EXCEPT ![c] = nextQueue']

MakeChannelEnsure(t) ==
    /\ MayRun(t) /\ pc[t] = "ensure"
    /\ EnsureChannelRegistered(chan[t])
    /\ Goto(t, "request")
    /\ UNCHANGED <<woken, held, channel_metadata, registrations, handlers, queues,
                   new_channel, known, replyVars, readerVars, deviceVars, closed>>

MakeChannelRequest(t) ==
    /\ MayRun(t) /\ pc[t] = "request"
    /\ TakeIdentifier(t)
    /\ InsertSender(current_message')
    /\ pc' = [pc EXCEPT ![t] = "write"]
    /\ UNCHANGED <<kind, chan, queue, woken, held, chanVars, readerVars, deviceVars, closed>>

-----------------------------------------------------------------------------
(***************************************************************************)
(* read_message, wait_for_registered_channel_code and disconnect_waiter    *)
(* share one loop: look, check closed, create the Notified futures, sleep. *)
(***************************************************************************)
StartRead(t, c) ==
    /\ Start(t, "read", c, "get")
    /\ UNCHANGED <<call, woken, held, replyVars, chanVars, readerVars, deviceVars, closed>>

StartWait(t, c) ==
    /\ MayBorrow("wait")
    /\ Start(t, "wait", c, "find")
    /\ UNCHANGED <<call, woken, held, replyVars, chanVars, readerVars, deviceVars, closed>>

StartDisconnectWait(t) ==
    /\ Start(t, "disconnect", 0, "check")
    /\ UNCHANGED <<call, woken, held, replyVars, chanVars, readerVars, deviceVars, closed>>

\* get_channel_queue: clone the Arc of the channel's queue; none is UnknownChannel.
GetChannelQueue(t) ==
    /\ MayRun(t) /\ pc[t] = "get"
    /\ IF channels[chan[t]] = 0
       THEN Finish(t)
       ELSE /\ queue' = [queue EXCEPT ![t] = channels[chan[t]]]
            /\ pc' = [pc EXCEPT ![t] = "pop"]
            /\ UNCHANGED <<kind, chan, call>>
    /\ UNCHANGED <<woken, held, replyVars, chanVars, readerVars, deviceVars, closed>>

\* pop_front; a message that expects a reply is then the task's to answer.
PopMessage(t) ==
    /\ MayRun(t) /\ pc[t] = "pop"
    /\ IF queues[queue[t]] = <<>>
       THEN Goto(t, "check") /\ UNCHANGED <<queues, held>>
       ELSE LET m == Head(queues[queue[t]]) IN
            /\ queues' = [queues EXCEPT ![queue[t]] = Tail(@)]
            /\ held' = [held EXCEPT ![t] = IF m.expects THEN m.id ELSE 0]
            /\ Finish(t)
    /\ UNCHANGED <<woken, channels, channel_metadata, registrations, handlers, nextQueue,
                   new_channel, known, replyVars, readerVars, deviceVars, closed>>

\* find_registered_channel_code: look for a matching entry of the metadata.
FindChannelCode(t) ==
    /\ MayRun(t) /\ pc[t] = "find"
    /\ IF chan[t] \in channel_metadata
       THEN known' = known \cup {chan[t]} /\ Finish(t)
       ELSE Goto(t, "check") /\ UNCHANGED known
    /\ UNCHANGED <<woken, held, channels, channel_metadata, registrations, handlers, queues,
                   nextQueue, new_channel, replyVars, readerVars, deviceVars, closed>>

CheckClosed(t) ==
    /\ MayRun(t) /\ pc[t] = "check"
    /\ IF closed THEN Finish(t) ELSE Goto(t, "park")
    /\ UNCHANGED <<woken, held, replyVars, chanVars, readerVars, deviceVars, closed>>

Park(t) ==
    /\ MayRun(t) /\ pc[t] = "park"
    /\ Goto(t, "parked")
    /\ UNCHANGED <<woken, held, replyVars, chanVars, readerVars, deviceVars, closed>>

\* select! takes a branch that is ready: loop again, or give up.
WakeEvent(t) ==
    /\ MayRun(t) /\ pc[t] = "parked" /\ "event" \in woken[t]
    /\ \/ kind[t] = "read" /\ Goto(t, "get")
       \/ kind[t] = "wait" /\ Goto(t, "find")
    /\ woken' = [woken EXCEPT ![t] = {}]
    /\ UNCHANGED <<held, replyVars, chanVars, readerVars, deviceVars, closed>>

WakeClosed(t) ==
    /\ MayRun(t) /\ pc[t] = "parked" /\ "closed" \in woken[t]
    /\ Finish(t)
    /\ woken' = [woken EXCEPT ![t] = {}]
    /\ UNCHANGED <<held, replyVars, chanVars, readerVars, deviceVars, closed>>

(***************************************************************************)
(* Handlers: OwnedChannel::set_incoming_handler, clear_incoming_handler,   *)
(* send_raw_reply_for, and register_incoming_channel_initializer.          *)
(***************************************************************************)
SetIncomingHandler(t, c) ==
    /\ MayRun(t) /\ pc[t] = "idle" /\ held[t] = 0 /\ c \notin handlers
    /\ handlers' = handlers \cup {c}
    /\ UNCHANGED <<channels, channel_metadata, registrations, queues, nextQueue,
                   new_channel, known, taskVars, replyVars, readerVars, deviceVars, closed>>

ClearIncomingHandler(t, c) ==
    /\ MayRun(t) /\ pc[t] = "idle" /\ held[t] = 0 /\ c \in handlers
    /\ handlers' = handlers \ {c}
    /\ UNCHANGED <<channels, channel_metadata, registrations, queues, nextQueue,
                   new_channel, known, taskVars, replyVars, readerVars, deviceVars, closed>>

RegisterInitializer(t, c) ==
    /\ MayRun(t) /\ pc[t] = "idle" /\ held[t] = 0 /\ c \notin registrations
    /\ MayBorrow("register")
    /\ registrations' = registrations \cup {c}
    /\ UNCHANGED <<channels, channel_metadata, handlers, queues, nextQueue, new_channel, known,
                   taskVars, replyVars, readerVars, deviceVars, closed>>

\* The task answers the message it popped; a write error only reaches the task.
SendRawReplyFor(t) ==
    /\ MayRun(t) /\ pc[t] = "idle" /\ held[t] # 0
    /\ \/ answered' = [answered EXCEPT ![held[t]] = @ + 1]
       \/ eof /\ UNCHANGED answered
    /\ held' = [held EXCEPT ![t] = 0]
    /\ UNCHANGED <<pc, kind, chan, call, queue, woken, inbound, eof, outstanding, sent,
                   replyVars, chanVars, readerVars, closed>>

\* Drop for RemoteServerClient: abort the reader at an await point, nothing else.
DropClient ==
    /\ CanDrop /\ MayBorrow("drop") /\ rpc \notin {"store_closed", "done"}
    /\ rpc' = "aborted" /\ rmsg' = NoMsg
    /\ UNCHANGED <<taskVars, replyVars, chanVars, deviceVars, closed>>

-----------------------------------------------------------------------------
(***************************************************************************)
(* The reader task: Message::from_reader, then dispatch_pending_reply,     *)
(* handle_control_message, dispatch_to_handler, enqueue_message, in this   *)
(* order, each falling through to the next when it does not consume.       *)
(***************************************************************************)
ReadFrame ==
    /\ ReaderRuns /\ rpc = "read" /\ inbound # <<>>
    /\ rmsg' = Head(inbound)
    /\ inbound' = Tail(inbound)
    /\ rpc' = "reply"
    /\ UNCHANGED <<eof, outstanding, answered, sent, taskVars, replyVars, chanVars, closed>>

\* The value of a oneshot whose receiver is gone is dropped with a warning.
DispatchPendingReply ==
    /\ ReaderRuns /\ rpc = "reply"
    /\ IF rmsg.conv # 0 /\ rmsg.id \in pending_replies
       THEN /\ pending_replies' = pending_replies \ {rmsg.id}
            /\ oneshot' = [oneshot EXCEPT ![rmsg.id] = "value"]
            /\ NextFrame
       ELSE rpc' = "control" /\ UNCHANGED <<rmsg, pending_replies, oneshot>>
    /\ UNCHANGED <<current_message, taskVars, chanVars, deviceVars, closed>>

(***************************************************************************)
(* handle_control_message dispatches on the selector of a channel 0        *)
(* message. Capabilities (whose state is in module DtxHandshake) stay      *)
(* readable on channel 0 and skip its handler. What cannot be decoded is   *)
(* consumed, except a channel request, which goes on like any message.     *)
(***************************************************************************)
HandleControlMessage ==
    /\ ReaderRuns /\ rpc = "control"
    /\ LET on(sel) == rmsg.chan = 0 /\ rmsg.sel = sel IN
       \/ on("request") /\ rpc' = "register" /\ UNCHANGED rmsg
       \/ on("cancel") /\ rpc' = "cancel" /\ UNCHANGED rmsg
       \/ on("capabilities") /\ rpc' = "enqueue" /\ UNCHANGED rmsg
       \/ (on("cancel") \/ on("capabilities")) /\ NextFrame
       \/ ~on("cancel") /\ ~on("capabilities") /\ rpc' = "handler" /\ UNCHANGED rmsg
    /\ UNCHANGED <<taskVars, replyVars, chanVars, deviceVars, closed>>

\* Variant: the registration is not announced.
RegisterIncomingMetadataSilently ==
    /\ ReaderRuns /\ rpc = "register"
    /\ channel_metadata' = channel_metadata \cup {rmsg.arg}
    /\ rpc' = "ensure"
    /\ UNCHANGED <<rmsg, taskVars, channels, registrations, handlers, queues, nextQueue,
                   new_channel, known, replyVars, deviceVars, closed>>

\* An incoming channel: metadata first, and its waiters are woken...
RegisterIncomingMetadata ==
    /\ ReaderRuns /\ rpc = "register"
    /\ channel_metadata' = channel_metadata \cup {rmsg.arg}
    /\ NotifyRegistry
    /\ rpc' = "ensure"
    /\ UNCHANGED <<rmsg, pc, kind, chan, call, queue, held, channels, registrations,
                   handlers, queues, nextQueue, new_channel, known, replyVars, deviceVars, closed>>

\* ... then its queue ...
RegisterIncomingQueue ==
    /\ ReaderRuns /\ rpc = "ensure"
    /\ EnsureChannelRegistered(rmsg.arg)
    /\ rpc' = "initialize"
    /\ UNCHANGED <<rmsg, taskVars, channel_metadata, registrations, handlers, queues,
                   new_channel, known, replyVars, deviceVars, closed>>

\* ... then run_incoming_channel_initializers, whose failure is only logged ...
RunInitializer ==
    /\ ReaderRuns /\ rpc = "initialize"
    /\ \/ /\ rmsg.arg \in registrations
          /\ handlers' = handlers \cup {rmsg.arg}
          /\ known' = known \cup {rmsg.arg}
       \/ UNCHANGED <<handlers, known>>
    /\ rpc' = "ack"
    /\ UNCHANGED <<rmsg, taskVars, channels, channel_metadata, registrations, queues,
                   nextQueue, new_channel, replyVars, deviceVars, closed>>

\* ... then the acknowledgement; when it cannot be written the connection is
\* marked closed, though the reader goes on.
AckIncomingChannel ==
    /\ ReaderRuns /\ rpc = "ack"
    /\ \/ /\ answered' = [answered EXCEPT ![rmsg.id] = @ + 1]
          /\ UNCHANGED <<closed, woken>>
       \/ /\ eof
          /\ closed' = TRUE
          /\ NotifyClosed
          /\ UNCHANGED answered
    /\ NextFrame
    /\ UNCHANGED <<pc, kind, chan, call, queue, held, inbound, eof, outstanding, sent,
                   replyVars, chanVars>>

\* remove_channel takes its three locks one after the other.
RemoveChannelHandler ==
    /\ ReaderRuns /\ rpc = "cancel"
    /\ handlers' = handlers \ {rmsg.arg}
    /\ rpc' = "cancel_queue"
    /\ UNCHANGED <<rmsg, taskVars, channels, channel_metadata, registrations, queues,
                   nextQueue, new_channel, known, replyVars, deviceVars, closed>>

RemoveChannelQueue ==
    /\ ReaderRuns /\ rpc = "cancel_queue"
    /\ channels' = [channels EXCEPT ![rmsg.arg] = 0]
    /\ rpc' = "cancel_metadata"
    /\ UNCHANGED <<rmsg, taskVars, channel_metadata, registrations, handlers, queues,
                   nextQueue, new_channel, known, replyVars, deviceVars, closed>>

\* Variant: the metadata of a cancelled channel is forgotten.
RemoveChannelKeepsMetadata ==
    /\ ReaderRuns /\ rpc = "cancel_metadata"
    /\ NotifyRegistry
    /\ NextFrame
    /\ UNCHANGED <<pc, kind, chan, call, queue, held, chanVars, replyVars, deviceVars, closed>>

RemoveChannelMetadata ==
    /\ ReaderRuns /\ rpc = "cancel_metadata"
    /\ channel_metadata' = channel_metadata \ {rmsg.arg}
    /\ NotifyRegistry
    /\ NextFrame
    /\ UNCHANGED <<pc, kind, chan, call, queue, held, channels, registrations, handlers,
                   queues, nextQueue, new_channel, known, replyVars, deviceVars, closed>>

(***************************************************************************)
(* dispatch_to_handler: the handler is cloned out of the map under its     *)
(* lock and runs after the lock is released. What it declines, or fails    *)
(* on, goes to the channel's queue unanswered.                             *)
(***************************************************************************)
LookupHandler ==
    /\ ReaderRuns /\ rpc = "handler"
    /\ rpc' = IF rmsg.conv = 0 /\ rmsg.chan \in handlers THEN "run" ELSE "enqueue"
    /\ UNCHANGED <<rmsg, taskVars, replyVars, chanVars, deviceVars, closed>>

HandlerDeclines ==
    /\ ReaderRuns /\ rpc = "run"
    /\ rpc' = "enqueue"
    /\ UNCHANGED <<rmsg, taskVars, replyVars, chanVars, deviceVars, closed>>

\* Variant: a handled message falls through to the queue as well.
HandlerHandlesAndEnqueues ==
    /\ ReaderRuns /\ rpc = "run"
    /\ answered' = [answered EXCEPT ![rmsg.id] = @ + 1]
    /\ rpc' = "enqueue"
    /\ UNCHANGED <<rmsg, inbound, eof, outstanding, sent, taskVars, replyVars, chanVars, closed>>

\* Reply(bytes) always answers; HandledNoReply answers only what expects it.
HandlerHandles ==
    /\ ReaderRuns /\ rpc = "run"
    /\ \/ answered' = [answered EXCEPT ![rmsg.id] = @ + 1]
       \/ (~rmsg.expects \/ eof) /\ UNCHANGED answered
    /\ NextFrame
    /\ UNCHANGED <<inbound, eof, outstanding, sent, taskVars, replyVars, chanVars, closed>>

\* Variant: the queue's readers are not notified.
EnqueueMessageSilently ==
    /\ ReaderRuns /\ rpc = "enqueue" /\ channels[rmsg.chan] # 0
    /\ queues' = [queues EXCEPT ![channels[rmsg.chan]] = Append(@, rmsg)]
    /\ NextFrame
    /\ UNCHANGED <<taskVars, channels, channel_metadata, registrations, handlers, nextQueue,
                   new_channel, known, replyVars, deviceVars, closed>>

\* enqueue_message: a message for an unknown channel is dropped with a warning.
EnqueueMessage ==
    /\ ReaderRuns /\ rpc = "enqueue"
    /\ IF channels[rmsg.chan] = 0
       THEN UNCHANGED <<queues, woken>>
       ELSE /\ queues' = [queues EXCEPT ![channels[rmsg.chan]] = Append(@, rmsg)]
            /\ NotifyQueue(channels[rmsg.chan])
    /\ NextFrame
    /\ UNCHANGED <<pc, kind, chan, call, queue, held, channels, channel_metadata,
                   registrations, handlers, nextQueue, new_channel, known, replyVars, deviceVars,
                   closed>>

\* Variant: the reader exits without dropping the senders.
FailNoPendingReplies ==
    /\ ReaderRuns /\ rpc = "read" /\ eof
    /\ rpc' = "store_closed"
    /\ UNCHANGED <<rmsg, replyVars, taskVars, chanVars, deviceVars, closed>>

(***************************************************************************)
(* The reader exits: fail_pending_replies drops every sender, then closed  *)
(* is set and its waiters are woken. A caller woken in between finds       *)
(* closed still FALSE.                                                     *)
(***************************************************************************)
FailPendingReplies ==
    /\ ReaderRuns /\ rpc = "read" /\ eof
    /\ oneshot' = [i \in Ids |-> IF i \in pending_replies THEN "dropped" ELSE oneshot[i]]
    /\ pending_replies' = {}
    /\ rpc' = "store_closed"
    /\ UNCHANGED <<rmsg, current_message, taskVars, chanVars, deviceVars, closed>>

StoreClosed ==
    /\ rpc = "store_closed"
    /\ closed' = TRUE
    /\ NotifyClosed
    /\ rpc' = "done"
    /\ UNCHANGED <<rmsg, pc, kind, chan, call, queue, held, replyVars, chanVars, deviceVars>>

-----------------------------------------------------------------------------
(***************************************************************************)
(* The device, as remote_server.rs uses it: it answers a call at most      *)
(* once, on the call's channel and in any order, originates messages with  *)
(* identifiers of its own, opens and cancels channels, and goes away.      *)
(***************************************************************************)
DeviceReply ==
    \E r \in outstanding :
        /\ ~eof
        /\ outstanding' = outstanding \ {r}
        /\ inbound' = Append(inbound, Reply(r[1], r[2]))
        /\ UNCHANGED <<eof, answered, sent, taskVars, replyVars, chanVars, readerVars, closed>>

DeviceOriginates(c, s, a, e) ==
    /\ ~eof /\ sent < MaxDevice
    /\ sent' = sent + 1
    /\ inbound' = Append(inbound, [conv |-> 0, id |-> sent', chan |-> c, sel |-> s,
                                   arg |-> a, expects |-> e])
    /\ UNCHANGED <<eof, outstanding, answered, taskVars, replyVars, chanVars, readerVars,
                   closed>>

DeviceInvokes(c, e) == DeviceOriginates(c, "invoke", 0, e)
DeviceRequestsChannel(c) == DeviceOriginates(0, "request", c, TRUE)
DeviceCancelsChannel(c) == DeviceOriginates(0, "cancel", c, FALSE)
DevicePublishesCapabilities == DeviceOriginates(0, "capabilities", 0, FALSE)

DeviceCloses ==
    /\ ~eof
    /\ eof' = TRUE
    /\ UNCHANGED <<inbound, outstanding, answered, sent, taskVars, replyVars, chanVars,
                   readerVars, closed>>

-----------------------------------------------------------------------------
\* What a task decides to do.
Operation(t) ==
    \/ \E c \in known :
          \/ "call" \in Workload /\ CallMethodWithReply(t, c)
          \/ "invoke" \in Workload /\ CallMethod(t, c)
          \/ "read" \in Workload /\ StartRead(t, c)
          \/ "handler" \in Workload /\ SetIncomingHandler(t, c)
          \/ "handler" \in Workload /\ ClearIncomingHandler(t, c)
    \/ \E c \in RemoteCodes :
          \/ "wait" \in Workload /\ StartWait(t, c)
          \/ "register" \in Workload /\ RegisterInitializer(t, c)
    \/ "open" \in Workload /\ MakeChannel(t)
    \/ "disconnect" \in Workload /\ StartDisconnectWait(t)
    \/ "abandon" \in Workload /\ Abandon(t)

\* What an operation, once started, goes through.
Progress(t) ==
    \/ WriteOk(t) \/ WriteErr(t) \/ ReceiveReply(t) \/ ReceiveDropped(t)
    \/ MakeChannelEnsure(t) \/ MakeChannelRequest(t)
    \/ GetChannelQueue(t) \/ PopMessage(t) \/ FindChannelCode(t) \/ CheckClosed(t)
    \/ Park(t) \/ WakeEvent(t) \/ WakeClosed(t) \/ SendRawReplyFor(t)

Reader ==
    \/ ReadFrame \/ DispatchPendingReply \/ HandleControlMessage
    \/ RegisterIncomingMetadata \/ RegisterIncomingQueue \/ RunInitializer
    \/ AckIncomingChannel
    \/ RemoveChannelHandler \/ RemoveChannelQueue \/ RemoveChannelMetadata
    \/ LookupHandler \/ HandlerDeclines \/ HandlerHandles \/ EnqueueMessage
    \/ FailPendingReplies \/ StoreClosed

Device ==
    \/ DeviceReply
    \/ \E c \in Codes, e \in BOOLEAN : DeviceInvokes(c, e)
    \/ \E c \in RemoteCodes : DeviceRequestsChannel(c)
    \/ \E c \in Codes : DeviceCancelsChannel(c)
    \/ DevicePublishesCapabilities
    \/ DeviceCloses

Next ==
    \/ \E t \in Tasks : Operation(t) \/ Progress(t)
    \/ Reader
    \/ Device
    \/ DropClient

Spec == Init /\ [][Next]_vars

(***************************************************************************)
(* tokio polls a spawned task, and a future a task awaits, until it is     *)
(* pending; nothing makes the device answer or a user start an operation.  *)
(***************************************************************************)
Fairness == SF_vars(Reader) /\ \A t \in Tasks : SF_vars(Progress(t))
FairSpec == Spec /\ Fairness

-----------------------------------------------------------------------------
TaskPcs   == {"idle", "write", "await", "ensure", "request", "get", "pop", "find",
              "check", "park", "parked"}
ReaderPcs == {"read", "reply", "control", "register", "ensure", "initialize", "ack",
              "cancel", "cancel_queue", "cancel_metadata", "handler", "run", "enqueue",
              "store_closed", "done", "aborted"}
Kinds     == {"none", "call", "invoke", "open", "read", "wait", "disconnect"}

ReplyTypeOK ==
    /\ current_message \in 0..MaxId
    /\ pending_replies \subseteq Ids
    /\ oneshot \in [Ids -> {"none", "open", "value", "dropped"}]

ChanTypeOK ==
    /\ channels \in [Codes -> 0..MaxQueue]
    /\ channel_metadata \subseteq Codes
    /\ registrations \subseteq RemoteCodes
    /\ handlers \subseteq Codes
    /\ queues \in [QueueIds -> Seq(Message)]
    /\ nextQueue \in QueueIds
    /\ new_channel \in Int
    /\ known \subseteq Codes

ReaderTypeOK == rpc \in ReaderPcs /\ rmsg \in Message /\ closed \in BOOLEAN

DeviceTypeOK ==
    /\ inbound \in Seq(Message)
    /\ eof \in BOOLEAN
    /\ outstanding \subseteq Ids \X Codes
    /\ answered \in [DeviceIds -> Nat]
    /\ sent \in 0..MaxDevice

TaskTypeOK ==
    /\ pc \in [Tasks -> TaskPcs]
    /\ kind \in [Tasks -> Kinds]
    /\ chan \in [Tasks -> Codes]
    /\ call \in [Tasks -> 0..MaxId]
    /\ queue \in [Tasks -> 0..MaxQueue]
    /\ woken \in [Tasks -> SUBSET {"event", "closed"}]
    /\ held \in [Tasks -> 0..MaxDevice]

\* Type invariant: every field of RemoteServerShared, of the reader and of the
\* tasks keeps its type.
TypeOK == ReplyTypeOK /\ ChanTypeOK /\ ReaderTypeOK /\ DeviceTypeOK /\ TaskTypeOK

(***************************************************************************)
(* Routing (dispatch_pending_reply before enqueue_message): the reply to a *)
(* call_method_with_reply never surfaces in a channel's queue, where a     *)
(* read_message of another task would take it for a message of the device, *)
(* not even when the caller has given up waiting for it.                   *)
(***************************************************************************)
CorrelatedRepliesStayPrivate ==
    \A q \in QueueIds : \A n \in 1..Len(queues[q]) :
        queues[q][n].conv = 1 => oneshot[queues[q][n].id] = "none"

(***************************************************************************)
(* send_method and wait_for_reply: as long as a caller can still be        *)
(* answered, the sender that would wake it is in pending_replies, and no   *)
(* other caller waits on the same identifier.                              *)
(***************************************************************************)
EveryWaiterHasItsSender ==
    \A t \in Tasks : pc[t] = "await" =>
        /\ oneshot[call[t]] = "open" => call[t] \in pending_replies
        /\ \A u \in Tasks \ {t} : pc[u] = "await" => call[u] # call[t]

(***************************************************************************)
(* dispatch_to_handler, handle_control_message and send_raw_reply_for: a   *)
(* message of the device is answered at most once, whichever of them it    *)
(* reaches, and one that waits to be read has not been answered.           *)
(***************************************************************************)
AnsweredAtMostOnce ==
    /\ \A d \in DeviceIds : answered[d] <= 1
    /\ \A t \in Tasks : held[t] # 0 => answered[held[t]] = 0

(***************************************************************************)
(* read_message ("Checks cached messages first"): a task does not sleep    *)
(* forever on a queue that holds a message.                                *)
(***************************************************************************)
CachedMessageIsRead ==
    \A t \in Tasks :
        (pc[t] = "parked" /\ kind[t] = "read" /\ queues[queue[t]] # <<>>)
            ~> pc[t] # "parked"

(***************************************************************************)
(* make_channel, handle_control_message and remove_channel keep the two    *)
(* registries in step: outside the reader's own windows, a registered      *)
(* channel without a queue is one make_channel has not given its queue,    *)
(* and nobody holds it: a read or a message on a channel somebody holds    *)
(* does not find it unknown unless the device has cancelled it. A          *)
(* make_channel dropped between its two locks leaves such metadata for     *)
(* good; an aborted reader may leave its window open.                      *)
(***************************************************************************)
RegisteredChannelsHaveQueues ==
    rpc \notin {"ensure", "cancel_metadata", "aborted"} =>
        \A c \in channel_metadata : channels[c] # 0 \/ c \in LocalCodes \ known

(***************************************************************************)
(* registry_notify: a task that waits for a channel to be registered does  *)
(* not sleep on while it is.                                               *)
(***************************************************************************)
RegistrationWakesWaiter ==
    \A t \in Tasks :
        (pc[t] = "parked" /\ kind[t] = "wait" /\ chan[t] \in channel_metadata)
            ~> (pc[t] # "parked" \/ chan[t] \notin channel_metadata)

(***************************************************************************)
(* fail_pending_replies: a call still unanswered when the transport fails, *)
(* and before the reader has left, returns.                                *)
(***************************************************************************)
CallsInFlightReturn ==
    \A t \in Tasks :
        (pc[t] = "await" /\ eof /\ rpc \notin {"store_closed", "done"})
            ~> pc[t] # "await"
=============================================================================
