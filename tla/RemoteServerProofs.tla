------------------------- MODULE RemoteServerProofs -------------------------
(***************************************************************************)
(* Proofs about the DTX connection of RemoteServer for any number of       *)
(* tasks, channels and messages.                                           *)
(***************************************************************************)
EXTENDS RemoteServer, TLAPS

(***************************************************************************)
(* TypeOK alone is not inductive: PopMessage takes the head of the queue   *)
(* the task holds, which exists because get_channel_queue found it, and    *)
(* WriteOk sends the identifier the task has taken.                        *)
(***************************************************************************)
TaskInv ==
    /\ TaskTypeOK
    /\ \A t \in Tasks : pc[t] = "pop" => queue[t] # 0
    /\ \A t \in Tasks : pc[t] \in {"write", "await"} => call[t] \in Ids
TypeInv == ReplyTypeOK /\ ChanTypeOK /\ ReaderTypeOK /\ DeviceTypeOK /\ TaskInv

Wakes == woken' \in [Tasks -> SUBSET {"event", "closed"}]

-----------------------------------------------------------------------------
\* The constants of the specification belong to the sets they should.
LEMMA Constants ==
    /\ 0 \in Codes /\ Codes \subseteq Int
    /\ LocalCodes \subseteq Codes /\ RemoteCodes \subseteq Codes
    /\ MaxId \in Nat /\ MaxDevice \in Nat /\ MaxQueue \in Nat
    /\ 0 \in 0..MaxId /\ 0 \in 0..MaxQueue /\ 0 \in 0..MaxDevice /\ 1 \in QueueIds
    /\ QueueIds \subseteq 0..MaxQueue /\ Ids \subseteq 0..MaxId
    /\ NoMsg \in Message
<1>1. NoMsg \in Message
  BY CodesAssumption, BoundsAssumption DEF NoMsg, Message, Selectors
<1> QED BY <1>1, CodesAssumption, BoundsAssumption DEF QueueIds, Ids

LEMMA Positions ==
    /\ "idle" \in TaskPcs /\ "write" \in TaskPcs /\ "await" \in TaskPcs
    /\ "ensure" \in TaskPcs /\ "request" \in TaskPcs /\ "get" \in TaskPcs
    /\ "pop" \in TaskPcs /\ "find" \in TaskPcs /\ "check" \in TaskPcs
    /\ "park" \in TaskPcs /\ "parked" \in TaskPcs
    /\ "none" \in Kinds /\ "call" \in Kinds /\ "invoke" \in Kinds /\ "open" \in Kinds
    /\ "read" \in Kinds /\ "wait" \in Kinds /\ "disconnect" \in Kinds
  BY DEF TaskPcs, Kinds

LEMMA ReaderPositions ==
    /\ "read" \in ReaderPcs /\ "reply" \in ReaderPcs /\ "control" \in ReaderPcs
    /\ "register" \in ReaderPcs /\ "ensure" \in ReaderPcs /\ "initialize" \in ReaderPcs
    /\ "ack" \in ReaderPcs /\ "cancel" \in ReaderPcs /\ "cancel_queue" \in ReaderPcs
    /\ "cancel_metadata" \in ReaderPcs /\ "handler" \in ReaderPcs /\ "run" \in ReaderPcs
    /\ "enqueue" \in ReaderPcs /\ "store_closed" \in ReaderPcs /\ "done" \in ReaderPcs
    /\ "aborted" \in ReaderPcs
  BY DEF ReaderPcs

\* What a step leaves alone keeps its type.
LEMMA SameReply == ReplyTypeOK /\ UNCHANGED replyVars => ReplyTypeOK'
  BY DEF ReplyTypeOK, replyVars
LEMMA SameChan == ChanTypeOK /\ UNCHANGED chanVars => ChanTypeOK'
  BY DEF ChanTypeOK, chanVars
LEMMA SameReader == ReaderTypeOK /\ UNCHANGED <<readerVars, closed>> => ReaderTypeOK'
  BY DEF ReaderTypeOK, readerVars
LEMMA SameDevice == DeviceTypeOK /\ UNCHANGED deviceVars => DeviceTypeOK'
  BY DEF DeviceTypeOK, deviceVars
LEMMA SameTask == TaskInv /\ UNCHANGED taskVars => TaskInv'
  BY DEF TaskInv, TaskTypeOK, taskVars
LEMMA SameTaskButWoken ==
    TaskInv /\ UNCHANGED <<pc, kind, chan, call, queue, held>> /\ Wakes => TaskInv'
  BY DEF TaskInv, TaskTypeOK, Wakes

\* notify_waiters only adds notifications.
LEMMA NotifyType ==
    ASSUME TaskInv,
           \/ NotifyClosed \/ NotifyRegistry \/ \E q \in QueueIds : NotifyQueue(q)
    PROVE  Wakes
<1>1. CASE NotifyClosed
  BY <1>1 DEF NotifyClosed, NotifyWaiters, TaskInv, TaskTypeOK, Wakes
<1>2. CASE NotifyRegistry
  BY <1>2 DEF NotifyRegistry, NotifyWaiters, TaskInv, TaskTypeOK, Wakes
<1>3. ASSUME NEW q \in QueueIds, NotifyQueue(q) PROVE Wakes
  BY <1>3 DEF NotifyQueue, NotifyWaiters, TaskInv, TaskTypeOK, Wakes
<1> QED BY <1>1, <1>2, <1>3

\* The three ways a task moves keep its locals in their types.
LEMMA FinishType ==
    ASSUME NEW t \in Tasks, TaskInv, Finish(t), Wakes, held' \in [Tasks -> 0..MaxDevice]
    PROVE  TaskInv'
  BY Constants, Positions DEF TaskInv, TaskTypeOK, Finish, Wakes

LEMMA GotoType ==
    ASSUME NEW t \in Tasks, NEW p \in TaskPcs \ {"pop"}, TaskInv, Goto(t, p), Wakes,
           UNCHANGED held, p \in {"write", "await"} => pc[t] = "write"
    PROVE  TaskInv'
  BY DEF TaskInv, TaskTypeOK, Goto, Wakes

LEMMA StartType ==
    ASSUME NEW t \in Tasks, NEW k \in Kinds, NEW c \in Codes, NEW p \in TaskPcs \ {"pop"},
           TaskInv, Start(t, k, c, p), Wakes, UNCHANGED held,
           \/ UNCHANGED call /\ p \notin {"write", "await"}
           \/ \E i \in Ids : call' = [call EXCEPT ![t] = i]
    PROVE  TaskInv'
<1>1. CASE UNCHANGED call /\ p \notin {"write", "await"}
  BY <1>1 DEF TaskInv, TaskTypeOK, Start, Wakes
<1>2. ASSUME NEW i \in Ids, call' = [call EXCEPT ![t] = i] PROVE TaskInv'
  <2>1. call' \in [Tasks -> 0..MaxId] /\ call'[t] \in Ids
    BY <1>2, Constants DEF TaskInv, TaskTypeOK
  <2> QED BY <1>2, <2>1 DEF TaskInv, TaskTypeOK, Start, Wakes
<1> QED BY <1>1, <1>2

LEMMA TakeIdentifierType ==
    ASSUME NEW t \in Tasks, TypeInv, TakeIdentifier(t)
    PROVE  /\ current_message' \in Ids /\ current_message' \in 0..MaxId
           /\ \E i \in Ids : call' = [call EXCEPT ![t] = i]
<1>1. current_message' \in Ids
  BY Constants DEF TypeInv, ReplyTypeOK, TakeIdentifier, Ids
<1> QED BY <1>1, Constants DEF TakeIdentifier

LEMMA InsertSenderType ==
    ASSUME TypeInv, current_message' \in Ids, InsertSender(current_message')
    PROVE  ReplyTypeOK'
  BY Constants DEF TypeInv, ReplyTypeOK, InsertSender, Ids

LEMMA EnsureType ==
    ASSUME NEW c \in Codes, ChanTypeOK, EnsureChannelRegistered(c),
           UNCHANGED <<channel_metadata, registrations, handlers, queues, new_channel, known>>
    PROVE  ChanTypeOK'
  BY Constants DEF ChanTypeOK, EnsureChannelRegistered, QueueIds

-----------------------------------------------------------------------------
LEMMA InitTypeInv == Init => TypeInv
<1> SUFFICES ASSUME Init PROVE TypeInv
  OBVIOUS
<1>1. ReplyTypeOK
  BY Constants DEF Init, ReplyTypeOK
<1>2. ChanTypeOK
  <2>1. channels \in [Codes -> 0..MaxQueue]
    BY Constants DEF Init
  <2>2. queues \in [QueueIds -> Seq(Message)]
    BY DEF Init
  <2>3. nextQueue \in QueueIds /\ new_channel \in Int
    BY Constants DEF Init
  <2> QED BY <2>1, <2>2, <2>3, Constants DEF Init, ChanTypeOK
<1>3. ReaderTypeOK
  BY Constants, ReaderPositions DEF Init, ReaderTypeOK
<1>4. DeviceTypeOK
  <2>1. inbound \in Seq(Message) /\ answered \in [DeviceIds -> Nat]
    BY DEF Init
  <2>2. eof \in BOOLEAN /\ outstanding \subseteq Ids \X Codes /\ sent \in 0..MaxDevice
    BY Constants DEF Init
  <2> QED BY <2>1, <2>2 DEF DeviceTypeOK
<1>5. TaskInv
  BY Constants, Positions DEF Init, TaskInv, TaskTypeOK
<1> QED BY <1>1, <1>2, <1>3, <1>4, <1>5 DEF TypeInv

LEMMA TypeTaskCalls ==
    ASSUME TypeInv, NEW t \in Tasks,
           \/ \E c \in known : CallMethodWithReply(t, c) \/ CallMethod(t, c)
           \/ WriteOk(t) \/ WriteErr(t) \/ ReceiveReply(t) \/ ReceiveDropped(t)
           \/ Abandon(t) \/ MakeChannel(t) \/ MakeChannelEnsure(t) \/ MakeChannelRequest(t)
    PROVE  TypeInv'
<1> USE Positions, SameReply, SameChan, SameReader, SameDevice, SameTask DEF TypeInv
<1>0. /\ chan[t] \in Codes /\ call[t] \in 0..MaxId /\ held \in [Tasks -> 0..MaxDevice]
      /\ known \subseteq Codes
      /\ UNCHANGED woken => Wakes
  BY DEF TaskInv, TaskTypeOK, ChanTypeOK, Wakes
<1>1. ASSUME NEW c \in known, CallMethodWithReply(t, c) PROVE TypeInv'
  <2>1. ReplyTypeOK' /\ \E i \in Ids : call' = [call EXCEPT ![t] = i]
    BY <1>1, TakeIdentifierType, InsertSenderType DEF CallMethodWithReply
  <2>2. TaskInv'
    BY <1>0, <1>1, <2>1, StartType DEF CallMethodWithReply
  <2> QED BY <1>1, <2>1, <2>2 DEF CallMethodWithReply
<1>2. ASSUME NEW c \in known, CallMethod(t, c) PROVE TypeInv'
  <2>1. current_message' \in 0..MaxId /\ \E i \in Ids : call' = [call EXCEPT ![t] = i]
    BY <1>2, TakeIdentifierType DEF CallMethod
  <2>2. TaskInv'
    BY <1>0, <1>2, <2>1, StartType DEF CallMethod
  <2>3. ReplyTypeOK'
    BY <1>2, <2>1 DEF CallMethod, ReplyTypeOK
  <2> QED BY <1>2, <2>2, <2>3 DEF CallMethod
<1>3. CASE WriteOk(t)
  <2>1. TaskInv'
    BY <1>0, <1>3, FinishType, GotoType DEF WriteOk
  <2>2. DeviceTypeOK'
    <3>1. call[t] \in Ids
      BY <1>3 DEF WriteOk, TaskInv
    <3> QED BY <1>0, <1>3, <3>1, Constants DEF WriteOk, WireChannel, DeviceTypeOK
  <2> QED BY <1>3, <2>1, <2>2 DEF WriteOk
<1>4. CASE WriteErr(t)
  <2>1. TaskInv'
    BY <1>0, <1>4, FinishType DEF WriteErr
  <2>2. ReplyTypeOK'
    BY <1>4 DEF WriteErr, ReplyTypeOK
  <2> QED BY <1>4, <2>1, <2>2 DEF WriteErr
<1>5. CASE ReceiveReply(t)
  <2>1. TaskInv'
    BY <1>0, <1>5, FinishType DEF ReceiveReply
  <2>2. ChanTypeOK'
    BY <1>0, <1>5 DEF ReceiveReply, ChanTypeOK
  <2> QED BY <1>5, <2>1, <2>2 DEF ReceiveReply
<1>6. CASE ReceiveDropped(t)
  <2>1. TaskInv'
    BY <1>0, <1>6, FinishType DEF ReceiveDropped
  <2>2. ReplyTypeOK'
    BY <1>6 DEF ReceiveDropped, ReplyTypeOK
  <2> QED BY <1>6, <2>1, <2>2 DEF ReceiveDropped
<1>7. CASE Abandon(t)
  <2>1. Wakes
    BY <1>7 DEF Abandon, Wakes, TaskInv, TaskTypeOK
  <2>2. TaskInv'
    BY <1>0, <1>7, <2>1, FinishType DEF Abandon
  <2>3. DeviceTypeOK'
    <3>1. CASE pc[t] = "write"
      <4>1. call[t] \in Ids /\ WireChannel(t) \in Codes
        BY <3>1, Constants DEF WireChannel, TaskInv, TaskTypeOK
      <4> QED BY <1>7, <4>1 DEF Abandon, DeviceTypeOK
    <3>2. CASE pc[t] # "write"
      BY <1>7, <3>2 DEF Abandon, DeviceTypeOK
    <3> QED BY <3>1, <3>2
  <2> QED BY <1>7, <2>2, <2>3 DEF Abandon
<1>8. CASE MakeChannel(t)
  <2>1. new_channel \in Codes /\ Wakes
    BY <1>8, Constants, NotifyType DEF MakeChannel
  <2>2. TaskInv'
    BY <1>8, <2>1, StartType DEF MakeChannel
  <2>3. ChanTypeOK'
    BY <1>8, <2>1 DEF MakeChannel, ChanTypeOK
  <2> QED BY <1>8, <2>2, <2>3 DEF MakeChannel
<1>9. CASE MakeChannelEnsure(t)
  <2>1. TaskInv'
    BY <1>0, <1>9, GotoType DEF MakeChannelEnsure
  <2>2. ChanTypeOK'
    BY <1>0, <1>9, EnsureType DEF MakeChannelEnsure
  <2> QED BY <1>9, <2>1, <2>2 DEF MakeChannelEnsure
<1>10. CASE MakeChannelRequest(t)
  <2>1. ReplyTypeOK' /\ \E i \in Ids : call' = [call EXCEPT ![t] = i]
    BY <1>10, TakeIdentifierType, InsertSenderType DEF MakeChannelRequest
  <2>2. TaskInv'
    BY <1>10, <2>1, Constants DEF MakeChannelRequest, TaskInv, TaskTypeOK
  <2> QED BY <1>10, <2>1, <2>2 DEF MakeChannelRequest
<1> QED BY <1>1, <1>2, <1>3, <1>4, <1>5, <1>6, <1>7, <1>8, <1>9, <1>10

LEMMA TypeTaskReads ==
    ASSUME TypeInv, NEW t \in Tasks,
           \/ \E c \in known : \/ StartRead(t, c) \/ SetIncomingHandler(t, c)
                              \/ ClearIncomingHandler(t, c)
           \/ \E c \in RemoteCodes : StartWait(t, c) \/ RegisterInitializer(t, c)
           \/ StartDisconnectWait(t)
           \/ GetChannelQueue(t) \/ PopMessage(t) \/ FindChannelCode(t) \/ CheckClosed(t)
           \/ Park(t) \/ WakeEvent(t) \/ WakeClosed(t) \/ SendRawReplyFor(t)
    PROVE  TypeInv'
<1> USE Positions, SameReply, SameChan, SameReader, SameDevice, SameTask DEF TypeInv
<1>0. /\ chan[t] \in Codes /\ call \in [Tasks -> 0..MaxId]
      /\ held \in [Tasks -> 0..MaxDevice] /\ known \subseteq Codes
      /\ UNCHANGED woken => Wakes
      /\ woken' = [woken EXCEPT ![t] = {}] => Wakes
  BY DEF TaskInv, TaskTypeOK, ChanTypeOK, Wakes
<1>1. ASSUME NEW c \in known, StartRead(t, c) PROVE TypeInv'
  <2>1. TaskInv'
    BY <1>0, <1>1, StartType DEF StartRead
  <2> QED BY <1>1, <2>1 DEF StartRead
<1>2. ASSUME NEW c \in known, SetIncomingHandler(t, c) \/ ClearIncomingHandler(t, c)
      PROVE TypeInv'
  <2>1. ChanTypeOK'
    BY <1>0, <1>2 DEF SetIncomingHandler, ClearIncomingHandler, ChanTypeOK
  <2> QED BY <1>2, <2>1 DEF SetIncomingHandler, ClearIncomingHandler
<1>3. ASSUME NEW c \in RemoteCodes, StartWait(t, c) PROVE TypeInv'
  <2>1. TaskInv'
    BY <1>0, <1>3, Constants, StartType DEF StartWait
  <2> QED BY <1>3, <2>1 DEF StartWait
<1>4. ASSUME NEW c \in RemoteCodes, RegisterInitializer(t, c) PROVE TypeInv'
  <2>1. ChanTypeOK'
    BY <1>4 DEF RegisterInitializer, ChanTypeOK
  <2> QED BY <1>4, <2>1 DEF RegisterInitializer
<1>5. CASE StartDisconnectWait(t)
  <2>1. TaskInv'
    BY <1>0, <1>5, Constants, StartType DEF StartDisconnectWait
  <2> QED BY <1>5, <2>1 DEF StartDisconnectWait
<1>6. CASE GetChannelQueue(t)
  <2>1. CASE channels[chan[t]] = 0
    <3>1. TaskInv'
      BY <1>0, <1>6, <2>1, FinishType DEF GetChannelQueue
    <3> QED BY <1>6, <3>1 DEF GetChannelQueue
  <2>2. CASE channels[chan[t]] # 0
    <3>1. channels[chan[t]] \in 0..MaxQueue
      BY <1>0 DEF ChanTypeOK
    <3>2. TaskInv'
      BY <1>0, <1>6, <2>2, <3>1 DEF GetChannelQueue, TaskInv, TaskTypeOK
    <3> QED BY <1>6, <3>2 DEF GetChannelQueue
  <2> QED BY <2>1, <2>2
<1>7. CASE PopMessage(t)
  <2>1. queue[t] \in QueueIds /\ queues[queue[t]] \in Seq(Message)
    BY <1>7, Constants DEF PopMessage, QueueIds, TaskInv, TaskTypeOK, ChanTypeOK
  <2>2. CASE queues[queue[t]] = <<>>
    <3>1. TaskInv'
      BY <1>0, <1>7, <2>2, GotoType DEF PopMessage
    <3>2. ChanTypeOK'
      BY <1>7, <2>2 DEF PopMessage, ChanTypeOK
    <3> QED BY <1>7, <3>1, <3>2 DEF PopMessage
  <2>3. CASE queues[queue[t]] # <<>>
    <3> DEFINE m == Head(queues[queue[t]])
    <3>1. m \in Message /\ Tail(queues[queue[t]]) \in Seq(Message)
      BY <2>1, <2>3
    <3>2. (IF m.expects THEN m.id ELSE 0) \in 0..MaxDevice
      BY <3>1, Constants DEF Message
    <3>3. held' \in [Tasks -> 0..MaxDevice]
      <4> HIDE DEF m
      <4> QED BY <1>0, <1>7, <2>3, <3>2 DEF PopMessage, m
    <3>4. TaskInv'
      BY <1>0, <1>7, <2>3, <3>3, FinishType DEF PopMessage
    <3>5. queues' \in [QueueIds -> Seq(Message)]
      BY <1>7, <2>1, <2>3, <3>1 DEF PopMessage, ChanTypeOK
    <3>6. ChanTypeOK'
      BY <1>7, <3>5 DEF PopMessage, ChanTypeOK
    <3> QED BY <1>7, <3>4, <3>6 DEF PopMessage
  <2> QED BY <2>2, <2>3
<1>8. CASE FindChannelCode(t)
  <2>1. TaskInv'
    BY <1>0, <1>8, FinishType, GotoType DEF FindChannelCode
  <2>2. ChanTypeOK'
    BY <1>0, <1>8 DEF FindChannelCode, ChanTypeOK
  <2> QED BY <1>8, <2>1, <2>2 DEF FindChannelCode
<1>9. CASE CheckClosed(t)
  <2>1. TaskInv'
    BY <1>0, <1>9, FinishType, GotoType DEF CheckClosed
  <2> QED BY <1>9, <2>1 DEF CheckClosed
<1>10. CASE Park(t)
  <2>1. TaskInv'
    BY <1>0, <1>10, GotoType DEF Park
  <2> QED BY <1>10, <2>1 DEF Park
<1>11. CASE WakeEvent(t)
  <2>1. TaskInv'
    BY <1>0, <1>11, GotoType DEF WakeEvent
  <2> QED BY <1>11, <2>1 DEF WakeEvent
<1>12. CASE WakeClosed(t)
  <2>1. TaskInv'
    BY <1>0, <1>12, FinishType DEF WakeClosed
  <2> QED BY <1>12, <2>1 DEF WakeClosed
<1>13. CASE SendRawReplyFor(t)
  <2>1. TaskInv'
    BY <1>13, Constants DEF SendRawReplyFor, TaskInv, TaskTypeOK
  <2>2. DeviceTypeOK'
    BY <1>13 DEF SendRawReplyFor, DeviceTypeOK
  <2> QED BY <1>13, <2>1, <2>2 DEF SendRawReplyFor
<1> QED
  BY <1>1, <1>2, <1>3, <1>4, <1>5, <1>6, <1>7, <1>8, <1>9, <1>10, <1>11, <1>12, <1>13

LEMMA TypeReader == TypeInv /\ (Reader \/ DropClient) => TypeInv'
<1> SUFFICES ASSUME TypeInv, Reader \/ DropClient PROVE TypeInv'
  OBVIOUS
<1> USE ReaderPositions, SameReply, SameChan, SameDevice, SameTask DEF TypeInv
<1>0. /\ rmsg.arg \in Codes /\ rmsg.chan \in Codes
      /\ NextFrame /\ closed' \in BOOLEAN => ReaderTypeOK'
      /\ \A p \in ReaderPcs : rpc' = p /\ UNCHANGED <<rmsg, closed>> => ReaderTypeOK'
      /\ closed \in BOOLEAN
  BY Constants DEF ReaderTypeOK, Message, NextFrame
<1>1. CASE ReadFrame
  <2>1. Head(inbound) \in Message /\ Tail(inbound) \in Seq(Message)
    BY <1>1 DEF ReadFrame, DeviceTypeOK
  <2>2. DeviceTypeOK' /\ ReaderTypeOK'
    BY <1>1, <2>1 DEF ReadFrame, DeviceTypeOK, ReaderTypeOK
  <2> QED BY <1>1, <2>2 DEF ReadFrame
<1>2. CASE DispatchPendingReply
  <2>1. ReplyTypeOK'
    BY <1>2 DEF DispatchPendingReply, ReplyTypeOK
  <2> QED BY <1>0, <1>2, <2>1 DEF DispatchPendingReply
<1>3. CASE HandleControlMessage
  BY <1>0, <1>3 DEF HandleControlMessage
<1>4. CASE RegisterIncomingMetadata
  <2>1. TaskInv'
    BY <1>4, NotifyType, SameTaskButWoken DEF RegisterIncomingMetadata
  <2>2. ChanTypeOK'
    BY <1>0, <1>4 DEF RegisterIncomingMetadata, ChanTypeOK
  <2> QED BY <1>0, <1>4, <2>1, <2>2 DEF RegisterIncomingMetadata
<1>5. CASE RegisterIncomingQueue
  <2>1. ChanTypeOK'
    BY <1>0, <1>5, EnsureType DEF RegisterIncomingQueue
  <2> QED BY <1>0, <1>5, <2>1 DEF RegisterIncomingQueue
<1>6. CASE RunInitializer
  <2>1. ChanTypeOK'
    BY <1>0, <1>6 DEF RunInitializer, ChanTypeOK
  <2> QED BY <1>0, <1>6, <2>1 DEF RunInitializer
<1>7. CASE AckIncomingChannel
  <2>1. TaskInv'
    BY <1>7, NotifyType, SameTaskButWoken, SameTask DEF AckIncomingChannel, taskVars
  <2>2. DeviceTypeOK'
    BY <1>7 DEF AckIncomingChannel, DeviceTypeOK
  <2> QED BY <1>0, <1>7, <2>1, <2>2 DEF AckIncomingChannel
<1>8. CASE RemoveChannelHandler
  <2>1. ChanTypeOK'
    BY <1>8 DEF RemoveChannelHandler, ChanTypeOK
  <2> QED BY <1>0, <1>8, <2>1 DEF RemoveChannelHandler
<1>9. CASE RemoveChannelQueue
  <2>1. ChanTypeOK'
    BY <1>9, Constants DEF RemoveChannelQueue, ChanTypeOK
  <2> QED BY <1>0, <1>9, <2>1 DEF RemoveChannelQueue
<1>10. CASE RemoveChannelMetadata
  <2>1. TaskInv'
    BY <1>10, NotifyType, SameTaskButWoken DEF RemoveChannelMetadata
  <2>2. ChanTypeOK'
    BY <1>10 DEF RemoveChannelMetadata, ChanTypeOK
  <2> QED BY <1>0, <1>10, <2>1, <2>2 DEF RemoveChannelMetadata
<1>11. CASE LookupHandler \/ HandlerDeclines
  BY <1>0, <1>11 DEF LookupHandler, HandlerDeclines
<1>12. CASE HandlerHandles
  <2>1. DeviceTypeOK'
    BY <1>12 DEF HandlerHandles, DeviceTypeOK
  <2> QED BY <1>0, <1>12, <2>1 DEF HandlerHandles
<1>13. CASE EnqueueMessage
  <2>1. CASE channels[rmsg.chan] = 0
    <3>1. UNCHANGED <<chanVars, taskVars>>
      BY <1>13, <2>1 DEF EnqueueMessage, chanVars, taskVars
    <3>2. UNCHANGED chanVars /\ UNCHANGED taskVars
      BY <3>1
    <3> QED BY <1>0, <1>13, <3>2 DEF EnqueueMessage
  <2>2. CASE channels[rmsg.chan] # 0
    <3>1. channels[rmsg.chan] \in QueueIds
      <4>1. channels[rmsg.chan] \in 0..MaxQueue
        BY <1>0 DEF ChanTypeOK
      <4> QED BY <2>2, <4>1, Constants DEF QueueIds
    <3>2. TaskInv'
      <4>1. NotifyQueue(channels[rmsg.chan])
        BY <1>13, <2>2 DEF EnqueueMessage
      <4>2. Wakes
        BY <3>1, <4>1, NotifyType
      <4> QED BY <1>13, <4>2, SameTaskButWoken DEF EnqueueMessage
    <3>3. queues' \in [QueueIds -> Seq(Message)]
      <4>1. Append(queues[channels[rmsg.chan]], rmsg) \in Seq(Message)
        BY <3>1 DEF ChanTypeOK, ReaderTypeOK
      <4> QED BY <1>13, <2>2, <3>1, <4>1 DEF EnqueueMessage, ChanTypeOK
    <3>4. ChanTypeOK'
      BY <1>13, <3>3 DEF EnqueueMessage, ChanTypeOK
    <3> QED BY <1>0, <1>13, <3>2, <3>4 DEF EnqueueMessage
  <2> QED BY <2>1, <2>2
<1>14. CASE FailPendingReplies
  <2>1. ReplyTypeOK'
    BY <1>14 DEF FailPendingReplies, ReplyTypeOK
  <2> QED BY <1>0, <1>14, <2>1 DEF FailPendingReplies
<1>15. CASE StoreClosed
  <2>1. TaskInv'
    BY <1>15, NotifyType, SameTaskButWoken DEF StoreClosed
  <2>2. ReaderTypeOK'
    BY <1>15 DEF StoreClosed, ReaderTypeOK
  <2> QED BY <1>15, <2>1, <2>2 DEF StoreClosed
<1>16. CASE DropClient
  <2>1. ReaderTypeOK'
    BY <1>16, Constants DEF DropClient, ReaderTypeOK
  <2> QED BY <1>16, <2>1 DEF DropClient
<1> QED
  BY <1>1, <1>2, <1>3, <1>4, <1>5, <1>6, <1>7, <1>8, <1>9, <1>10, <1>11, <1>12, <1>13,
     <1>14, <1>15, <1>16 DEF Reader

LEMMA TypeDevice == TypeInv /\ Device => TypeInv'
<1> SUFFICES ASSUME TypeInv, Device PROVE TypeInv'
  OBVIOUS
<1> USE SameReply, SameChan, SameReader, SameTask DEF TypeInv
<1>1. CASE DeviceReply
  <2>1. PICK r \in outstanding :
            /\ outstanding' = outstanding \ {r}
            /\ inbound' = Append(inbound, Reply(r[1], r[2]))
            /\ UNCHANGED <<eof, answered, sent, taskVars, replyVars, chanVars, readerVars,
                           closed>>
    BY <1>1 DEF DeviceReply
  <2>2. Reply(r[1], r[2]) \in Message
    BY Constants DEF Reply, Message, Selectors, DeviceTypeOK
  <2>3. DeviceTypeOK'
    BY <2>1, <2>2 DEF DeviceTypeOK
  <2> QED BY <2>1, <2>3
<1>2. ASSUME NEW c \in Codes, NEW s \in Selectors, NEW a \in Codes, NEW e \in BOOLEAN,
             DeviceOriginates(c, s, a, e)
      PROVE  TypeInv'
  <2>1. sent' \in 0..MaxDevice
    BY <1>2, Constants DEF DeviceOriginates, DeviceTypeOK
  <2>2. [conv |-> 0, id |-> sent', chan |-> c, sel |-> s, arg |-> a, expects |-> e] \in Message
    BY <2>1 DEF Message
  <2>3. DeviceTypeOK'
    BY <1>2, <2>1, <2>2 DEF DeviceOriginates, DeviceTypeOK
  <2> QED BY <1>2, <2>3 DEF DeviceOriginates
<1>3. CASE DeviceCloses
  <2>1. DeviceTypeOK'
    BY <1>3 DEF DeviceCloses, DeviceTypeOK
  <2> QED BY <1>3, <2>1 DEF DeviceCloses
<1>4. CASE \E c \in Codes, e \in BOOLEAN : DeviceInvokes(c, e)
  BY <1>2, <1>4, Constants DEF DeviceInvokes, Selectors
<1>5. CASE \E c \in RemoteCodes : DeviceRequestsChannel(c)
  BY <1>2, <1>5, Constants DEF DeviceRequestsChannel, Selectors
<1>6. CASE \E c \in Codes : DeviceCancelsChannel(c)
  BY <1>2, <1>6, Constants DEF DeviceCancelsChannel, Selectors
<1>7. CASE DevicePublishesCapabilities
  BY <1>2, <1>7, Constants DEF DevicePublishesCapabilities, Selectors
<1> QED BY <1>1, <1>3, <1>4, <1>5, <1>6, <1>7 DEF Device

LEMMA TypeStep == TypeInv /\ [Next]_vars => TypeInv'
<1> SUFFICES ASSUME TypeInv, [Next]_vars PROVE TypeInv'
  OBVIOUS
<1>1. ASSUME NEW t \in Tasks, Operation(t) PROVE TypeInv'
  BY <1>1, TypeTaskCalls, TypeTaskReads DEF Operation
<1>2. ASSUME NEW t \in Tasks, Progress(t) PROVE TypeInv'
  BY <1>2, TypeTaskCalls, TypeTaskReads DEF Progress
<1>3. CASE UNCHANGED vars
  BY <1>3, SameReply, SameChan, SameReader, SameDevice, SameTask DEF TypeInv, vars
<1> QED BY <1>1, <1>2, <1>3, TypeReader, TypeDevice DEF Next

LEMMA TypeInvariant == Spec => []TypeInv
  BY InitTypeInv, TypeStep, PTL DEF Spec

(***************************************************************************)
(* Every field of the shared state, of the reader and of the tasks keeps   *)
(* its type, however many tasks use the connection.                        *)
(***************************************************************************)
THEOREM TypeCorrect == Spec => []TypeOK
<1>1. TypeInv => TypeOK
  BY DEF TypeInv, TypeOK, TaskInv
<1> QED BY <1>1, TypeInvariant, PTL

-----------------------------------------------------------------------------
(***************************************************************************)
(* The replies. An identifier is in flight from the write of its call to   *)
(* the moment the reader has looked it up in pending_replies.              *)
(***************************************************************************)
Expected(i) == \E c \in Codes : <<i, c>> \in outstanding
Arrived(i)  == \E n \in 1..Len(inbound) : inbound[n].conv = 1 /\ inbound[n].id = i
Routed(i)   == rpc = "reply" /\ rmsg.conv = 1 /\ rmsg.id = i
InFlight(i) == Expected(i) \/ Arrived(i) \/ Routed(i)
Calling(t)  == pc[t] \in {"write", "await"}
ReaderLeft  == rpc \in {"store_closed", "done"}

\* Identifiers that current_message has not reached are unused.
Issued ==
    /\ \A i \in Ids : i > current_message => oneshot[i] = "none" /\ ~InFlight(i)
    /\ \A t \in Tasks : call[t] <= current_message
    /\ rmsg.conv = 1 => rmsg.id <= current_message
    /\ \A q \in QueueIds : \A n \in 1..Len(queues[q]) :
          queues[q][n].conv = 1 => queues[q][n].id <= current_message

\* The device answers a call at most once, so an identifier is in one place.
OneCopy ==
    /\ \A i \in Ids : \A c, d \in Codes :
          <<i, c>> \in outstanding /\ <<i, d>> \in outstanding => c = d
    /\ \A i \in Ids : Expected(i) => ~Arrived(i) /\ ~Routed(i)
    /\ \A i \in Ids : Arrived(i) => ~Routed(i)
    /\ \A m, n \in 1..Len(inbound) :
          inbound[m].conv = 1 /\ inbound[n].conv = 1 /\ inbound[m].id = inbound[n].id
              => m = n

\* A call in progress is nobody else's and, until written, neither in flight
\* nor answered.
OwnCall ==
    /\ \A t \in Tasks : pc[t] = "write" => ~InFlight(call[t]) /\ oneshot[call[t]] # "value"
    /\ \A t, u \in Tasks : Calling(t) /\ Calling(u) /\ t # u => call[t] # call[u]

\* While the reader is there, a correlated reply on its way finds its sender.
Covered ==
    /\ \A i \in Ids : InFlight(i) /\ oneshot[i] # "none" =>
          i \in pending_replies \/ ReaderLeft
    /\ \A i \in Ids : oneshot[i] = "dropped" => ReaderLeft
    /\ \A i \in pending_replies : oneshot[i] # "none"

\* What passed dispatch_pending_reply unconsumed was not correlated.
Uncorrelated == rmsg.conv = 1 /\ rpc # "reply" => oneshot[rmsg.id] = "none"

SenderKept ==
    \A t \in Tasks : Calling(t) /\ oneshot[call[t]] = "open" => call[t] \in pending_replies

ReplyInv ==
    /\ Issued /\ OneCopy /\ OwnCall /\ Covered /\ Uncorrelated /\ SenderKept
    /\ CorrelatedRepliesStayPrivate

LEMMA MessageIds == \A m \in Message : m.conv = 1 => m.id \in Ids
<1> SUFFICES ASSUME NEW m \in Message, m.conv = 1 PROVE m.id \in Ids
  OBVIOUS
<1>1. CASE m \in [conv : {0}, id : 0..MaxDevice, chan : Codes, sel : Selectors,
                 arg : Codes, expects : BOOLEAN]
  BY <1>1
<1>2. CASE m \in [conv : {1}, id : Ids, chan : Codes, sel : Selectors,
                 arg : Codes, expects : {FALSE}]
  BY <1>2
<1> QED BY <1>1, <1>2 DEF Message

LEMMA QueuedIds ==
    ASSUME TypeInv
    PROVE  /\ rmsg.conv = 1 => rmsg.id \in Ids
           /\ \A q \in QueueIds : \A n \in 1..Len(queues[q]) :
                  queues[q][n].conv = 1 => queues[q][n].id \in Ids
           /\ \A n \in 1..Len(inbound) : inbound[n].conv = 1 => inbound[n].id \in Ids
<1>1. \A q \in QueueIds : \A n \in 1..Len(queues[q]) : queues[q][n] \in Message
  BY DEF TypeInv, ChanTypeOK
<1>2. \A n \in 1..Len(inbound) : inbound[n] \in Message
  BY DEF TypeInv, DeviceTypeOK
<1>3. rmsg \in Message
  BY DEF TypeInv, ReaderTypeOK
<1> QED BY <1>1, <1>2, <1>3, MessageIds

LEMMA InitReplyInv == Init => ReplyInv
<1> SUFFICES ASSUME Init PROVE ReplyInv
  OBVIOUS
<1>1. /\ \A i : ~InFlight(i)
      /\ \A t \in Tasks : ~Calling(t) /\ call[t] = 0 /\ pc[t] # "write"
      /\ \A q \in QueueIds : Len(queues[q]) = 0
      /\ rmsg.conv = 0 /\ current_message = 0 /\ Len(inbound) = 0
      /\ \A i \in Ids : oneshot[i] = "none"
  BY DEF Init, NoMsg, InFlight, Expected, Arrived, Routed, Calling
<1> QED
  BY <1>1 DEF ReplyInv, Issued, OneCopy, OwnCall, Covered, Uncorrelated, SenderKept,
              CorrelatedRepliesStayPrivate, InFlight, Init

(***************************************************************************)
(* A step that neither takes an identifier, nor touches the senders or the *)
(* transport: the reader may move past dispatch_pending_reply or drop its  *)
(* message, queues may lose messages or gain the routed one, tasks may     *)
(* leave their calls.                                                      *)
(***************************************************************************)
QuietReader ==
    /\ rpc' = "reply" => rpc = "reply" /\ rmsg' = rmsg
    /\ rmsg' = NoMsg \/ (rmsg' = rmsg /\ (rpc' # "reply" => rpc # "reply"))
    /\ ReaderLeft => ReaderLeft'
QuietTasks ==
    \A t \in Tasks :
        /\ Calling(t)' => Calling(t) /\ call'[t] = call[t]
        /\ pc'[t] = "write" => pc[t] = "write"
        /\ call'[t] = call[t] \/ call'[t] = 0
QuietQueues ==
    \A q \in QueueIds : \A n \in 1..Len(queues'[q]) :
        \/ \E m \in 1..Len(queues[q]) : queues'[q][n] = queues[q][m]
        \/ queues'[q][n] = rmsg /\ rpc # "reply"

LEMMA QuietStep ==
    ASSUME TypeInv, ReplyInv, QuietReader, QuietTasks, QuietQueues,
           UNCHANGED <<replyVars, outstanding, inbound>>
    PROVE  ReplyInv'
<1> USE DEF replyVars
<1>1. /\ \A i : Expected(i)' <=> Expected(i)
      /\ \A i : Arrived(i)' <=> Arrived(i)
      /\ \A i : Routed(i)' => Routed(i)
      /\ \A i : InFlight(i)' => InFlight(i)
  BY DEF Expected, Arrived, Routed, InFlight, QuietReader
<1>2. /\ current_message \in Nat /\ call \in [Tasks -> 0..MaxId]
      /\ NoMsg.conv = 0
  BY Constants DEF TypeInv, ReplyTypeOK, TaskInv, TaskTypeOK, NoMsg
<1>3. Issued'
  <2>1. \A t \in Tasks : call'[t] <= current_message
    BY <1>2 DEF ReplyInv, Issued, QuietTasks
  <2>2. rmsg'.conv = 1 => rmsg'.id <= current_message
    BY <1>2 DEF ReplyInv, Issued, QuietReader
  <2>3. \A q \in QueueIds : \A n \in 1..Len(queues'[q]) :
            queues'[q][n].conv = 1 => queues'[q][n].id <= current_message
    BY DEF ReplyInv, Issued, QuietQueues
  <2> QED BY <1>1, <2>1, <2>2, <2>3 DEF ReplyInv, Issued
<1>4. OneCopy'
  BY <1>1 DEF ReplyInv, OneCopy
<1>5. OwnCall'
  <2>1. \A t \in Tasks : pc'[t] = "write" => call'[t] = call[t]
    BY DEF QuietTasks, Calling
  <2> QED BY <1>1, <2>1 DEF ReplyInv, OwnCall, QuietTasks
<1>6. Covered'
  BY <1>1 DEF ReplyInv, Covered, QuietReader
<1>7. Uncorrelated'
  BY <1>2 DEF ReplyInv, Uncorrelated, QuietReader
<1>8. SenderKept'
  BY DEF ReplyInv, SenderKept, QuietTasks
<1>9. CorrelatedRepliesStayPrivate'
  BY DEF ReplyInv, CorrelatedRepliesStayPrivate, Uncorrelated, QuietQueues
<1> QED BY <1>3, <1>4, <1>5, <1>6, <1>7, <1>8, <1>9 DEF ReplyInv

\* Finish, and the moves of Goto and Start to other positions, are quiet.
LEMMA QuietFinish ==
    ASSUME NEW t \in Tasks, TypeInv, Finish(t) PROVE QuietTasks
  BY DEF TypeInv, TaskInv, TaskTypeOK, Finish, QuietTasks, Calling

LEMMA QuietGoto ==
    ASSUME NEW t \in Tasks, TypeInv, NEW p, Goto(t, p),
           p # "write", p = "await" => pc[t] = "write"
    PROVE  QuietTasks
  BY DEF TypeInv, TaskInv, TaskTypeOK, Goto, QuietTasks, Calling

LEMMA QuietStart ==
    ASSUME NEW t \in Tasks, TypeInv, NEW k, NEW c, NEW p, Start(t, k, c, p),
           p \notin {"write", "await"}, UNCHANGED call
    PROVE  QuietTasks
  BY DEF TypeInv, TaskInv, TaskTypeOK, Start, QuietTasks, Calling

LEMMA QuietSame ==
    /\ UNCHANGED queues => QuietQueues
    /\ UNCHANGED <<pc, call>> => QuietTasks
    /\ UNCHANGED readerVars => QuietReader
<1>1. UNCHANGED queues => QuietQueues
  BY DEF QuietQueues
<1>2. UNCHANGED <<pc, call>> => QuietTasks
  BY DEF QuietTasks, Calling
<1>3. UNCHANGED readerVars => QuietReader
  BY DEF QuietReader, readerVars, ReaderLeft
<1> QED BY <1>1, <1>2, <1>3

(***************************************************************************)
(* Taking an identifier, with or without a sender for its reply.           *)
(***************************************************************************)
LEMMA FreshCall ==
    ASSUME TypeInv, ReplyInv, NEW t \in Tasks, TakeIdentifier(t),
           pc' = [pc EXCEPT ![t] = "write"], ~Calling(t),
           \/ InsertSender(current_message')
           \/ UNCHANGED <<pending_replies, oneshot>>,
           UNCHANGED <<outstanding, inbound, rpc, rmsg, queues>>
    PROVE  ReplyInv'
<1> DEFINE i == current_message + 1
<1>1. /\ i \in Ids /\ current_message' = i /\ call' = [call EXCEPT ![t] = i]
      /\ current_message \in Nat
  BY Constants DEF TakeIdentifier, TypeInv, ReplyTypeOK, Ids
<1>2. /\ oneshot[i] = "none" /\ ~InFlight(i)
      /\ \A u \in Tasks : call[u] # i
  BY <1>1, Constants DEF ReplyInv, Issued, TypeInv, TaskInv, TaskTypeOK
<1>3. /\ \A j : Expected(j)' <=> Expected(j)
      /\ \A j : Arrived(j)' <=> Arrived(j)
      /\ \A j : Routed(j)' <=> Routed(j)
      /\ \A j : InFlight(j)' <=> InFlight(j)
      /\ ReaderLeft' <=> ReaderLeft
  BY DEF Expected, Arrived, Routed, InFlight, ReaderLeft
<1>4. /\ pending_replies \subseteq pending_replies'
      /\ \A j \in Ids : j # i => oneshot'[j] = oneshot[j]
      /\ oneshot'[i] = "none" \/ (oneshot'[i] = "open" /\ i \in pending_replies')
  BY <1>1, <1>2 DEF InsertSender, TypeInv, ReplyTypeOK
<1>5. \A u \in Tasks : u # t => call'[u] = call[u] /\ (Calling(u)' <=> Calling(u)) /\ pc'[u] = pc[u]
  BY <1>1 DEF Calling, TypeInv, TaskInv, TaskTypeOK
<1>6. call'[t] = i /\ pc'[t] = "write"
  BY <1>1 DEF TypeInv, TaskInv, TaskTypeOK
<1>7. \A u \in Tasks : Calling(u) => call[u] \in Ids
  BY DEF TypeInv, TaskInv, Calling
<1> HIDE DEF i
<1>8. Issued'
  <2>1. \A j \in Ids : j > i => oneshot'[j] = "none" /\ ~InFlight(j)'
    <3>1. \A j \in Ids : j > i => j > current_message /\ j # i
      BY <1>1 DEF i, Ids
    <3> QED BY <1>3, <1>4, <3>1 DEF ReplyInv, Issued
  <2>2. \A u \in Tasks : call'[u] <= i
    BY <1>1, <1>5, <1>6 DEF i, ReplyInv, Issued, TypeInv, TaskInv, TaskTypeOK, Ids
  <2>3. rmsg.conv = 1 => rmsg.id <= i
    BY <1>1, QueuedIds DEF i, ReplyInv, Issued, Ids
  <2>4. \A q \in QueueIds : \A n \in 1..Len(queues[q]) :
            queues[q][n].conv = 1 => queues[q][n].id <= i
    <3>1. \A j \in Ids : j <= current_message => j <= i
      BY <1>1 DEF i, Ids
    <3> QED BY <3>1, QueuedIds DEF ReplyInv, Issued
  <2> QED BY <1>1, <2>1, <2>2, <2>3, <2>4 DEF Issued
<1>9. OneCopy'
  BY <1>3 DEF ReplyInv, OneCopy
<1>10. OwnCall'
  BY <1>1, <1>2, <1>3, <1>4, <1>5, <1>6, <1>7 DEF ReplyInv, OwnCall, Calling
<1>11. Covered'
  <2>1. \A j \in pending_replies' : oneshot'[j] # "none"
    BY <1>1, <1>4 DEF ReplyInv, Covered, InsertSender, TypeInv, ReplyTypeOK
  <2> QED BY <1>2, <1>3, <1>4, <2>1 DEF ReplyInv, Covered
<1>12. /\ rmsg.conv = 1 => rmsg.id \in Ids /\ rmsg.id # i
       /\ \A q \in QueueIds : \A n \in 1..Len(queues[q]) :
              queues[q][n].conv = 1 => queues[q][n].id \in Ids /\ queues[q][n].id # i
  <2>1. \A j \in Ids : j <= current_message => j # i
    BY <1>1 DEF i, Ids
  <2> QED BY <2>1, QueuedIds DEF ReplyInv, Issued
<1>13. Uncorrelated'
  BY <1>4, <1>12 DEF ReplyInv, Uncorrelated
<1>14. SenderKept'
  BY <1>2, <1>4, <1>5, <1>6, <1>7 DEF ReplyInv, SenderKept
<1>15. CorrelatedRepliesStayPrivate'
  BY <1>4, <1>12 DEF ReplyInv, CorrelatedRepliesStayPrivate
<1> QED BY <1>8, <1>9, <1>10, <1>11, <1>13, <1>14, <1>15 DEF ReplyInv

\* A message that may have been written; its call goes on or is given up.
LEMMA ReplyWritten ==
    ASSUME TypeInv, ReplyInv, NEW t \in Tasks, pc[t] = "write",
           Finish(t) \/ Goto(t, "await"),
           outstanding' \subseteq outstanding \cup {<<call[t], WireChannel(t)>>},
           UNCHANGED <<replyVars, queues, rmsg, rpc, inbound>>
    PROVE  ReplyInv'
<1>1. /\ call[t] \in Ids /\ WireChannel(t) \in Codes /\ ~InFlight(call[t])
      /\ call[t] <= current_message
  BY Constants DEF WireChannel, TypeInv, TaskInv, TaskTypeOK, ReplyInv, OwnCall, Issued
<1>2. /\ QuietTasks /\ pc'[t] # "write"
      /\ \A u \in Tasks : u # t => pc'[u] = pc[u]
  BY QuietFinish, QuietGoto DEF Finish, Goto, TypeInv, TaskInv, TaskTypeOK
<1>3. /\ \A j \in Ids : Expected(j)' => Expected(j) \/ j = call[t]
      /\ \A j : Arrived(j)' <=> Arrived(j)
      /\ \A j : Routed(j)' <=> Routed(j)
      /\ ReaderLeft' <=> ReaderLeft
  BY <1>1 DEF Expected, Arrived, Routed, ReaderLeft
<1>4. \A j \in Ids : InFlight(j)' => InFlight(j) \/ j = call[t]
  BY <1>3 DEF InFlight
<1>5. UNCHANGED <<replyVars, queues, rmsg, rpc, inbound>>
  OBVIOUS
<1>6. current_message \in Nat /\ \A j \in Ids : j > current_message => j # call[t]
  BY <1>1 DEF TypeInv, ReplyTypeOK, Ids
<1>7. Issued'
  <2>1. \A u \in Tasks : call'[u] <= current_message
    BY <1>2, <1>6 DEF QuietTasks, ReplyInv, Issued
  <2> QED BY <1>4, <1>5, <1>6, <2>1 DEF ReplyInv, Issued, replyVars
<1>8. OneCopy'
  <2>1. \A j \in Ids : \A c, d \in Codes :
            <<j, c>> \in outstanding' /\ <<j, d>> \in outstanding' => c = d
    <3>1. \A c \in Codes : <<call[t], c>> \notin outstanding
      BY <1>1 DEF InFlight, Expected
    <3> QED BY <1>1, <3>1 DEF ReplyInv, OneCopy
  <2>2. \A j \in Ids : Expected(j)' => ~Arrived(j)' /\ ~Routed(j)'
    BY <1>1, <1>3 DEF ReplyInv, OneCopy, InFlight
  <2> QED BY <1>3, <1>5, <2>1, <2>2 DEF ReplyInv, OneCopy
<1>9. OwnCall'
  <2>1. \A u \in Tasks : pc'[u] = "write" =>
                         ~InFlight(call[u])' /\ oneshot'[call'[u]] # "value"
    <3> SUFFICES ASSUME NEW u \in Tasks, pc'[u] = "write"
                 PROVE  ~InFlight(call[u])' /\ oneshot'[call'[u]] # "value"
      OBVIOUS
    <3>1. u # t /\ pc[u] = "write" /\ call'[u] = call[u] /\ call[u] \in Ids
      BY <1>2 DEF QuietTasks, Calling, TypeInv, TaskInv
    <3>2. call[u] # call[t] /\ ~InFlight(call[u]) /\ oneshot[call[u]] # "value"
      BY <3>1 DEF ReplyInv, OwnCall, Calling
    <3> QED BY <1>4, <1>5, <3>1, <3>2 DEF replyVars
  <2> QED BY <1>2, <2>1 DEF ReplyInv, OwnCall, QuietTasks
<1>10. Covered'
  <2>1. oneshot[call[t]] # "none" => call[t] \in pending_replies \/ ReaderLeft
    <3>1. oneshot[call[t]] \in {"open", "dropped", "value", "none"}
      BY <1>1 DEF TypeInv, ReplyTypeOK
    <3> QED BY <1>1, <3>1 DEF ReplyInv, SenderKept, Covered, OwnCall, Calling
  <2> QED BY <1>3, <1>4, <1>5, <2>1 DEF ReplyInv, Covered, replyVars
<1>11. Uncorrelated' /\ CorrelatedRepliesStayPrivate'
  BY <1>5 DEF ReplyInv, Uncorrelated, CorrelatedRepliesStayPrivate, replyVars
<1>12. SenderKept'
  BY <1>2, <1>5 DEF ReplyInv, SenderKept, QuietTasks, replyVars
<1> QED BY <1>7, <1>8, <1>9, <1>10, <1>11, <1>12 DEF ReplyInv

LEMMA ReplyWriteOk ==
    ASSUME TypeInv, ReplyInv, NEW t \in Tasks, WriteOk(t) PROVE ReplyInv'
  BY ReplyWritten DEF WriteOk, chanVars, readerVars

(***************************************************************************)
(* A call that ends by removing its own sender: a failed write, which was  *)
(* never in flight, or a dropped sender, after which no reply is routed.   *)
(***************************************************************************)
LEMMA ReplyRemoveSender ==
    ASSUME TypeInv, ReplyInv, NEW t \in Tasks, WriteErr(t) \/ ReceiveDropped(t)
    PROVE  ReplyInv'
<1>1. /\ Calling(t) /\ call[t] \in Ids
      /\ pending_replies' = pending_replies \ {call[t]}
      /\ UNCHANGED <<current_message, oneshot, queues, rpc, rmsg, inbound, outstanding>>
  BY DEF WriteErr, ReceiveDropped, Calling, TypeInv, TaskInv, chanVars, readerVars, deviceVars
<1>2. InFlight(call[t]) => ReaderLeft
  BY <1>1 DEF WriteErr, ReceiveDropped, ReplyInv, OwnCall, Covered
<1>3. QuietTasks /\ ~Calling(t)'
  BY QuietFinish DEF WriteErr, ReceiveDropped, Finish, Calling, TypeInv, TaskInv, TaskTypeOK
<1>4. /\ \A j : Expected(j)' <=> Expected(j)
      /\ \A j : Arrived(j)' <=> Arrived(j)
      /\ \A j : Routed(j)' <=> Routed(j)
      /\ \A j : InFlight(j)' <=> InFlight(j)
      /\ ReaderLeft' <=> ReaderLeft
  BY <1>1 DEF Expected, Arrived, Routed, InFlight, ReaderLeft
<1>5. Issued'
  <2>1. \A u \in Tasks : call'[u] <= current_message
    BY <1>3 DEF QuietTasks, ReplyInv, Issued, TypeInv, ReplyTypeOK
  <2> QED BY <1>1, <1>4, <2>1 DEF ReplyInv, Issued
<1>6. OneCopy'
  BY <1>1, <1>4 DEF ReplyInv, OneCopy
<1>7. OwnCall'
  <2>1. \A u \in Tasks : pc'[u] = "write" => call'[u] = call[u]
    BY <1>3 DEF QuietTasks, Calling
  <2> QED BY <1>1, <1>3, <1>4, <2>1 DEF ReplyInv, OwnCall, QuietTasks
<1>8. Covered'
  BY <1>1, <1>2, <1>4 DEF ReplyInv, Covered
<1>9. Uncorrelated' /\ CorrelatedRepliesStayPrivate'
  BY <1>1 DEF ReplyInv, Uncorrelated, CorrelatedRepliesStayPrivate
<1>10. SenderKept'
  <2> SUFFICES ASSUME NEW u \in Tasks, Calling(u)', oneshot'[call'[u]] = "open"
               PROVE  call'[u] \in pending_replies'
    BY DEF SenderKept
  <2>1. u # t /\ Calling(u) /\ call'[u] = call[u]
    BY <1>3 DEF QuietTasks
  <2>2. call[u] # call[t] /\ call[u] \in pending_replies
    BY <1>1, <2>1 DEF ReplyInv, OwnCall, SenderKept
  <2> QED BY <1>1, <2>1, <2>2
<1> QED BY <1>5, <1>6, <1>7, <1>8, <1>9, <1>10 DEF ReplyInv

\* The host state is untouched and replies stay in flight, one copy each.
LEMMA Transport ==
    ASSUME TypeInv, ReplyInv,
           UNCHANGED <<replyVars, pc, call, queues>>,
           \A i \in Ids : InFlight(i)' => InFlight(i),
           OneCopy', ReaderLeft => ReaderLeft',
           Uncorrelated', rmsg'.conv = 1 => rmsg'.id <= current_message
    PROVE  ReplyInv'
<1> USE DEF replyVars
<1>1. Issued'
  BY DEF ReplyInv, Issued
<1>2. OwnCall'
  <2>1. \A t \in Tasks : pc[t] = "write" => call[t] \in Ids
    BY DEF TypeInv, TaskInv
  <2>2. \A t \in Tasks : Calling(t)' <=> Calling(t)
    BY DEF Calling
  <2> QED BY <2>1, <2>2 DEF ReplyInv, OwnCall
<1>3. Covered'
  BY DEF ReplyInv, Covered
<1>4. SenderKept' /\ CorrelatedRepliesStayPrivate'
  BY DEF ReplyInv, SenderKept, CorrelatedRepliesStayPrivate, Calling
<1> QED BY <1>1, <1>2, <1>3, <1>4 DEF ReplyInv

LEMMA ReplyDevice ==
    ASSUME TypeInv, ReplyInv, Device PROVE ReplyInv'
<1>1. CASE DeviceReply
  <2>1. PICK r \in outstanding :
            /\ outstanding' = outstanding \ {r}
            /\ inbound' = Append(inbound, Reply(r[1], r[2]))
            /\ UNCHANGED <<taskVars, replyVars, chanVars, readerVars>>
    BY <1>1 DEF DeviceReply
  <2>2. PICK k \in Ids, d \in Codes : r = <<k, d>>
    BY DEF TypeInv, DeviceTypeOK
  <2>3. /\ Len(inbound) \in Nat /\ Len(inbound') = Len(inbound) + 1
        /\ \A n \in 1..Len(inbound) : inbound'[n] = inbound[n]
        /\ inbound'[Len(inbound')].conv = 1 /\ inbound'[Len(inbound')].id = k
    BY <2>1, <2>2 DEF TypeInv, DeviceTypeOK, Reply
  <2>4. Expected(k) /\ ~Arrived(k) /\ ~Routed(k)
    BY <2>2 DEF Expected, ReplyInv, OneCopy
  <2>5. /\ \A i \in Ids : Expected(i)' <=> Expected(i) /\ i # k
        /\ \A i : Routed(i)' <=> Routed(i)
        /\ ReaderLeft' <=> ReaderLeft
    BY <2>1, <2>2 DEF Expected, Routed, ReaderLeft, readerVars, ReplyInv, OneCopy
  <2>6. \A i \in Ids : Arrived(i)' <=> Arrived(i) \/ i = k
    <3> SUFFICES ASSUME NEW i \in Ids PROVE Arrived(i)' <=> Arrived(i) \/ i = k
      OBVIOUS
    <3>1. Arrived(i)' => Arrived(i) \/ i = k
      <4> SUFFICES ASSUME NEW n \in 1..Len(inbound'), inbound'[n].conv = 1, inbound'[n].id = i
                   PROVE  Arrived(i) \/ i = k
        BY DEF Arrived
      <4> QED BY <2>3 DEF Arrived
    <3>2. Arrived(i) => Arrived(i)'
      <4> SUFFICES ASSUME NEW n \in 1..Len(inbound), inbound[n].conv = 1, inbound[n].id = i
                   PROVE  Arrived(i)'
        BY DEF Arrived
      <4>1. n \in 1..Len(inbound') /\ inbound'[n] = inbound[n]
        BY <2>3
      <4> QED BY <4>1 DEF Arrived
    <3>3. Arrived(k)'
      <4>1. Len(inbound') \in 1..Len(inbound')
        BY <2>3
      <4> QED BY <2>3, <4>1 DEF Arrived
    <3> QED BY <3>1, <3>2, <3>3
  <2>7. \A i \in Ids : InFlight(i)' => InFlight(i)
    BY <2>4, <2>5, <2>6 DEF InFlight
  <2>8. OneCopy'
    <3>1. \A m, n \in 1..Len(inbound') :
            inbound'[m].conv = 1 /\ inbound'[n].conv = 1 /\ inbound'[m].id = inbound'[n].id
                => m = n
      <4> SUFFICES ASSUME NEW m \in 1..Len(inbound'), NEW n \in 1..Len(inbound'), m # n,
                          inbound'[m].conv = 1, inbound'[n].conv = 1,
                          inbound'[m].id = inbound'[n].id
                   PROVE  FALSE
        OBVIOUS
      <4>1. CASE m \in 1..Len(inbound) /\ n \in 1..Len(inbound)
        BY <2>3, <4>1 DEF ReplyInv, OneCopy
      <4>2. CASE m \notin 1..Len(inbound)
        <5>1. m = Len(inbound') /\ n \in 1..Len(inbound)
          BY <2>3, <4>2
        <5> QED BY <2>3, <2>4, <5>1 DEF Arrived
      <4>3. CASE n \notin 1..Len(inbound)
        <5>1. n = Len(inbound') /\ m \in 1..Len(inbound)
          BY <2>3, <4>3
        <5> QED BY <2>3, <2>4, <5>1 DEF Arrived
      <4> QED BY <4>1, <4>2, <4>3
    <3>2. \A i \in Ids : \A c, e \in Codes :
            <<i, c>> \in outstanding' /\ <<i, e>> \in outstanding' => c = e
      BY <2>1 DEF ReplyInv, OneCopy
    <3> QED BY <2>4, <2>5, <2>6, <3>1, <3>2 DEF ReplyInv, OneCopy
  <2>9. Uncorrelated' /\ (rmsg'.conv = 1 => rmsg'.id <= current_message)
    BY <2>1 DEF ReplyInv, Uncorrelated, Issued, readerVars, replyVars
  <2> QED BY <2>1, <2>5, <2>7, <2>8, <2>9, Transport DEF taskVars, chanVars
<1>2. ASSUME NEW c, NEW s, NEW a, NEW e, DeviceOriginates(c, s, a, e) PROVE ReplyInv'
  <2> DEFINE m0 == [conv |-> 0, id |-> sent', chan |-> c, sel |-> s, arg |-> a, expects |-> e]
  <2>1. /\ inbound' = Append(inbound, m0) /\ m0.conv = 0
        /\ UNCHANGED <<taskVars, replyVars, chanVars, readerVars, outstanding>>
    BY <1>2 DEF DeviceOriginates
  <2>2. /\ Len(inbound) \in Nat /\ Len(inbound') = Len(inbound) + 1
        /\ \A n \in 1..Len(inbound) : inbound'[n] = inbound[n]
        /\ inbound'[Len(inbound')].conv = 0
    <3>1. inbound \in Seq(Message)
      BY DEF TypeInv, DeviceTypeOK
    <3> HIDE DEF m0
    <3> QED BY <2>1, <3>1
  <2>3. \A n \in 1..Len(inbound') : inbound'[n].conv = 1 =>
            n \in 1..Len(inbound) /\ inbound'[n] = inbound[n]
    BY <2>2
  <2>4. /\ \A i : Expected(i)' <=> Expected(i)
        /\ \A i : Routed(i)' <=> Routed(i)
        /\ ReaderLeft' <=> ReaderLeft
        /\ \A i : Arrived(i)' => Arrived(i)
    BY <2>1, <2>3 DEF Expected, Routed, ReaderLeft, Arrived, readerVars
  <2>5. \A i \in Ids : InFlight(i)' => InFlight(i)
    BY <2>4 DEF InFlight
  <2>6. OneCopy'
    BY <2>1, <2>3, <2>4 DEF ReplyInv, OneCopy
  <2>7. Uncorrelated' /\ (rmsg'.conv = 1 => rmsg'.id <= current_message)
    BY <2>1 DEF ReplyInv, Uncorrelated, Issued, readerVars, replyVars
  <2> QED BY <2>1, <2>4, <2>5, <2>6, <2>7, Transport DEF taskVars, chanVars
<1>3. CASE DeviceCloses
  BY <1>3, QuietSame, QuietStep DEF DeviceCloses, taskVars, chanVars
<1> QED
  BY <1>1, <1>2, <1>3 DEF Device, DeviceInvokes, DeviceRequestsChannel,
                          DeviceCancelsChannel, DevicePublishesCapabilities

LEMMA ReplyReadFrame ==
    ASSUME TypeInv, ReplyInv, ReadFrame PROVE ReplyInv'
<1>1. /\ inbound \in Seq(Message) /\ inbound # <<>>
      /\ rmsg' = inbound[1] /\ inbound' = Tail(inbound)
      /\ rpc = "read" /\ rpc' = "reply"
      /\ UNCHANGED <<outstanding, taskVars, replyVars, chanVars>>
  BY DEF ReadFrame, TypeInv, DeviceTypeOK
<1>2. /\ Len(inbound) \in Nat \ {0} /\ Len(inbound') = Len(inbound) - 1
      /\ \A n \in 1..Len(inbound') : inbound'[n] = inbound[n + 1] /\ n + 1 \in 1..Len(inbound)
      /\ 1 \in 1..Len(inbound)
  BY <1>1
<1>3. /\ \A i : Expected(i)' <=> Expected(i)
      /\ \A i : Routed(i)' <=> (inbound[1].conv = 1 /\ inbound[1].id = i)
      /\ ~ReaderLeft
  BY <1>1 DEF Expected, Routed, ReaderLeft
<1>4. \A i : Arrived(i)' => \E n \in 2..Len(inbound) : inbound[n].conv = 1 /\ inbound[n].id = i
  <2> SUFFICES ASSUME NEW i, NEW n \in 1..Len(inbound'), inbound'[n].conv = 1, inbound'[n].id = i
               PROVE  \E m \in 2..Len(inbound) : inbound[m].conv = 1 /\ inbound[m].id = i
    BY DEF Arrived
  <2>1. n + 1 \in 2..Len(inbound) /\ inbound'[n] = inbound[n + 1]
    BY <1>2
  <2> QED BY <2>1
<1>5. \A i : Arrived(i)' \/ Routed(i)' => Arrived(i)
  BY <1>2, <1>3, <1>4 DEF Arrived
<1>6. \A i \in Ids : InFlight(i)' => InFlight(i)
  BY <1>3, <1>5 DEF InFlight
<1>7. OneCopy'
  <2>1. \A i \in Ids : Arrived(i)' => ~Routed(i)'
    <3> SUFFICES ASSUME NEW i \in Ids, Arrived(i)', Routed(i)' PROVE FALSE
      OBVIOUS
    <3>1. PICK n \in 2..Len(inbound) : inbound[n].conv = 1 /\ inbound[n].id = i
      BY <1>4
    <3> QED BY <1>2, <1>3, <3>1 DEF ReplyInv, OneCopy
  <2>2. \A m, n \in 1..Len(inbound') :
            inbound'[m].conv = 1 /\ inbound'[n].conv = 1 /\ inbound'[m].id = inbound'[n].id
                => m = n
    <3> SUFFICES ASSUME NEW m \in 1..Len(inbound'), NEW n \in 1..Len(inbound'),
                        inbound'[m].conv = 1, inbound'[n].conv = 1,
                        inbound'[m].id = inbound'[n].id
                 PROVE  m = n
      OBVIOUS
    <3>1. m + 1 = n + 1
      BY <1>2 DEF ReplyInv, OneCopy
    <3> QED BY <3>1
  <2> QED BY <1>1, <1>3, <1>5, <2>1, <2>2 DEF ReplyInv, OneCopy
<1>8. rmsg'.conv = 1 => rmsg'.id <= current_message
  <2> SUFFICES ASSUME inbound[1].conv = 1 PROVE inbound[1].id <= current_message
    BY <1>1
  <2>1. inbound[1].id \in Ids /\ Arrived(inbound[1].id)
    BY <1>2, QueuedIds DEF Arrived
  <2>2. current_message \in Nat
    BY Constants DEF TypeInv, ReplyTypeOK
  <2> QED BY <2>1, <2>2 DEF ReplyInv, Issued, InFlight, Ids
<1>9. Uncorrelated'
  BY <1>1 DEF Uncorrelated
<1> QED BY <1>1, <1>3, <1>6, <1>7, <1>8, <1>9, Transport DEF taskVars, chanVars

LEMMA ReplyDispatch ==
    ASSUME TypeInv, ReplyInv, DispatchPendingReply PROVE ReplyInv'
<1>1. /\ rpc = "reply" /\ rpc' # "reply" /\ ~ReaderLeft /\ ~ReaderLeft'
      /\ UNCHANGED <<outstanding, inbound, taskVars, chanVars, current_message>>
  BY DEF DispatchPendingReply, NextFrame, ReaderLeft, deviceVars
<1>2. /\ \A i : Expected(i)' <=> Expected(i)
      /\ \A i : Arrived(i)' <=> Arrived(i)
      /\ \A i : ~Routed(i)'
      /\ \A i : InFlight(i)' => InFlight(i)
  BY <1>1 DEF Expected, Arrived, Routed, InFlight
<1>3. OneCopy'
  BY <1>1, <1>2 DEF ReplyInv, OneCopy
<1>4. CASE rmsg.conv # 0 /\ rmsg.id \in pending_replies
  <2>0. PICK k \in Ids : k = rmsg.id
    BY <1>4 DEF TypeInv, ReplyTypeOK
  <2>1. /\ rmsg.conv = 1 /\ rmsg' = NoMsg
        /\ pending_replies' = pending_replies \ {k}
        /\ oneshot' = [oneshot EXCEPT ![k] = "value"]
    <3>1. rmsg.conv \in {0, 1}
      BY DEF TypeInv, ReaderTypeOK, Message
    <3> QED BY <1>4, <2>0, <3>1 DEF DispatchPendingReply, NextFrame
  <2>2. Routed(k) /\ InFlight(k) /\ ~Expected(k) /\ ~Arrived(k) /\ ~InFlight(k)'
    BY <1>1, <1>2, <2>0, <2>1 DEF Routed, InFlight, ReplyInv, OneCopy
  <2>3. /\ \A i \in Ids : i # k => oneshot'[i] = oneshot[i]
        /\ oneshot'[k] = "value" /\ k <= current_message
    BY <2>0, <2>1 DEF TypeInv, ReplyTypeOK, ReplyInv, Issued
  <2>4. Issued'
    <3>1. \A i \in Ids : i > current_message => i # k
      BY <2>1, <2>3 DEF TypeInv, ReplyTypeOK, Ids
    <3>2. rmsg'.conv = 0
      BY <2>1 DEF NoMsg
    <3> QED BY <1>1, <1>2, <2>3, <3>1, <3>2 DEF ReplyInv, Issued, taskVars, chanVars
  <2>5. OwnCall'
    <3>1. \A t \in Tasks : pc[t] = "write" => call[t] \in Ids /\ call[t] # k
      BY <2>2 DEF TypeInv, TaskInv, ReplyInv, OwnCall
    <3>2. \A t \in Tasks : Calling(t)' <=> Calling(t)
      BY <1>1 DEF Calling, taskVars
    <3> QED BY <1>1, <1>2, <2>3, <3>1, <3>2 DEF ReplyInv, OwnCall, taskVars
  <2>6. Covered'
    <3>1. \A i \in Ids : InFlight(i)' => i # k
      BY <2>2
    <3>2. \A i \in Ids : oneshot'[i] = "dropped" => i # k
      BY <2>3
    <3> QED BY <1>1, <1>2, <2>1, <2>3, <3>1, <3>2 DEF ReplyInv, Covered
  <2>7. Uncorrelated'
    BY <2>1 DEF Uncorrelated, NoMsg
  <2>8. SenderKept'
    <3>1. \A t \in Tasks : Calling(t) => call[t] \in Ids
      BY DEF TypeInv, TaskInv, Calling
    <3>2. \A t \in Tasks : Calling(t)' <=> Calling(t)
      BY <1>1 DEF Calling, taskVars
    <3> QED BY <1>1, <2>1, <2>3, <3>1, <3>2 DEF ReplyInv, SenderKept, taskVars
  <2>9. CorrelatedRepliesStayPrivate'
    <3>1. oneshot[k] # "none"
      <4>1. \A i \in Ids : i \in pending_replies => oneshot[i] # "none"
        BY DEF ReplyInv, Covered
      <4> QED BY <1>4, <2>0, <4>1
    <3> QED BY <1>1, <2>3, <3>1, QueuedIds DEF ReplyInv, CorrelatedRepliesStayPrivate, chanVars
  <2> QED BY <1>3, <2>4, <2>5, <2>6, <2>7, <2>8, <2>9 DEF ReplyInv
<1>5. CASE ~(rmsg.conv # 0 /\ rmsg.id \in pending_replies)
  <2>1. UNCHANGED <<rmsg, replyVars>>
    BY <1>5 DEF DispatchPendingReply, replyVars
  <2>2. Uncorrelated'
    <3> SUFFICES ASSUME rmsg.conv = 1 PROVE oneshot[rmsg.id] = "none"
      BY <2>1 DEF Uncorrelated, replyVars
    <3>1. rmsg.id \in Ids /\ InFlight(rmsg.id)
      BY <1>1, QueuedIds DEF InFlight, Routed
    <3> QED BY <1>1, <1>5, <3>1 DEF ReplyInv, Covered
  <2>3. rmsg'.conv = 1 => rmsg'.id <= current_message
    BY <2>1 DEF ReplyInv, Issued
  <2> QED BY <1>1, <1>2, <1>3, <2>1, <2>2, <2>3, Transport DEF taskVars, chanVars
<1> QED BY <1>4, <1>5

LEMMA ReplyFail ==
    ASSUME TypeInv, ReplyInv, FailPendingReplies PROVE ReplyInv'
<1>1. /\ pending_replies' = {}
      /\ oneshot' = [i \in Ids |-> IF i \in pending_replies THEN "dropped" ELSE oneshot[i]]
      /\ rpc = "read" /\ rpc' = "store_closed" /\ ReaderLeft'
      /\ UNCHANGED <<outstanding, inbound, rmsg, taskVars, chanVars, current_message>>
  BY DEF FailPendingReplies, ReaderLeft, deviceVars
<1>2. /\ \A i : Expected(i)' <=> Expected(i)
      /\ \A i : Arrived(i)' <=> Arrived(i)
      /\ \A i : Routed(i)' <=> Routed(i)
      /\ \A i : InFlight(i)' <=> InFlight(i)
      /\ \A t \in Tasks : Calling(t)' <=> Calling(t)
  BY <1>1 DEF Expected, Arrived, Routed, InFlight, Calling, taskVars
<1>3. \A i \in Ids : oneshot[i] = "none" => oneshot'[i] = "none"
  BY <1>1 DEF ReplyInv, Covered
<1>4. Issued'
  BY <1>1, <1>2, <1>3 DEF ReplyInv, Issued, taskVars, chanVars
<1>5. OneCopy'
  BY <1>1, <1>2 DEF ReplyInv, OneCopy
<1>6. \A t \in Tasks : Calling(t) => call[t] \in Ids
  BY DEF TypeInv, TaskInv, Calling
<1>7. OwnCall'
  <2>1. \A i \in Ids : oneshot'[i] = "value" => oneshot[i] = "value"
    BY <1>1
  <2> QED BY <1>1, <1>2, <1>6, <2>1 DEF ReplyInv, OwnCall, Calling, taskVars
<1>8. Covered'
  BY <1>1 DEF Covered
<1>9. Uncorrelated'
  BY <1>1, <1>3, QueuedIds DEF ReplyInv, Uncorrelated
<1>10. SenderKept'
  BY <1>1, <1>2, <1>6 DEF ReplyInv, SenderKept, taskVars
<1>11. CorrelatedRepliesStayPrivate'
  BY <1>1, <1>3, QueuedIds DEF ReplyInv, CorrelatedRepliesStayPrivate, chanVars
<1> QED BY <1>4, <1>5, <1>7, <1>8, <1>9, <1>10, <1>11 DEF ReplyInv

LEMMA ReplyReader ==
    ASSUME TypeInv, ReplyInv, Reader \/ DropClient PROVE ReplyInv'
<1> USE QuietSame, QuietStep
<1>0. NextFrame /\ rpc \notin {"store_closed", "done"} => QuietReader
  BY DEF NextFrame, QuietReader, ReaderLeft
<1>1. CASE HandleControlMessage
  <2>1. QuietReader
    BY <1>0, <1>1 DEF HandleControlMessage, QuietReader, ReaderLeft
  <2> QED BY <1>1, <2>1 DEF HandleControlMessage, taskVars, chanVars, deviceVars
<1>2. CASE RegisterIncomingMetadata
  <2>1. QuietReader
    BY <1>2 DEF RegisterIncomingMetadata, QuietReader, ReaderLeft
  <2> QED BY <1>2, <2>1 DEF RegisterIncomingMetadata, deviceVars
<1>3. CASE RegisterIncomingQueue
  <2>1. QuietReader
    BY <1>3 DEF RegisterIncomingQueue, QuietReader, ReaderLeft
  <2> QED BY <1>3, <2>1 DEF RegisterIncomingQueue, taskVars, deviceVars
<1>4. CASE RunInitializer
  <2>1. QuietReader
    BY <1>4 DEF RunInitializer, QuietReader, ReaderLeft
  <2> QED BY <1>4, <2>1 DEF RunInitializer, taskVars, deviceVars
<1>5. CASE AckIncomingChannel
  BY <1>0, <1>5 DEF AckIncomingChannel, chanVars
<1>6. CASE RemoveChannelHandler
  <2>1. QuietReader
    BY <1>6 DEF RemoveChannelHandler, QuietReader, ReaderLeft
  <2> QED BY <1>6, <2>1 DEF RemoveChannelHandler, taskVars, deviceVars
<1>7. CASE RemoveChannelQueue
  <2>1. QuietReader
    BY <1>7 DEF RemoveChannelQueue, QuietReader, ReaderLeft
  <2> QED BY <1>7, <2>1 DEF RemoveChannelQueue, taskVars, deviceVars
<1>8. CASE RemoveChannelMetadata
  BY <1>0, <1>8 DEF RemoveChannelMetadata, deviceVars
<1>9. CASE LookupHandler \/ HandlerDeclines
  <2>1. QuietReader
    BY <1>9 DEF LookupHandler, HandlerDeclines, QuietReader, ReaderLeft
  <2> QED BY <1>9, <2>1 DEF LookupHandler, HandlerDeclines, taskVars, chanVars, deviceVars
<1>10. CASE HandlerHandles
  BY <1>0, <1>10 DEF HandlerHandles, taskVars, chanVars
<1>11. CASE EnqueueMessage
  <2>1. QuietQueues
    <3>1. CASE channels[rmsg.chan] = 0
      BY <1>11, <3>1 DEF EnqueueMessage
    <3>2. CASE channels[rmsg.chan] # 0
      <4> DEFINE k == channels[rmsg.chan]
      <4>1. /\ queues' = [queues EXCEPT ![k] = Append(queues[k], rmsg)]
            /\ rpc = "enqueue"
        BY <1>11, <3>2 DEF EnqueueMessage
      <4> HIDE DEF k
      <4> SUFFICES ASSUME NEW q \in QueueIds, NEW n \in 1..Len(queues'[q])
                   PROVE  \/ \E m \in 1..Len(queues[q]) : queues'[q][n] = queues[q][m]
                          \/ queues'[q][n] = rmsg /\ rpc # "reply"
        BY DEF QuietQueues
      <4>2. queues[q] \in Seq(Message) /\ q \in DOMAIN queues
        BY DEF TypeInv, ChanTypeOK
      <4>3. CASE q = k
        <5>1. queues'[q] = Append(queues[q], rmsg)
          BY <4>1, <4>2, <4>3
        <5>2. n \in 1..Len(queues[q]) \/ n = Len(queues[q]) + 1
          BY <4>2, <5>1
        <5> QED BY <4>1, <4>2, <5>1, <5>2
      <4>4. CASE q # k
        BY <4>1, <4>2, <4>4
      <4> QED BY <4>3, <4>4
    <3> QED BY <3>1, <3>2
  <2> QED BY <1>0, <1>11, <2>1 DEF EnqueueMessage, deviceVars
<1>12. CASE StoreClosed
  <2>1. QuietReader
    BY <1>12 DEF StoreClosed, QuietReader, ReaderLeft
  <2> QED BY <1>12, <2>1 DEF StoreClosed, chanVars, deviceVars
<1>13. CASE DropClient
  <2>1. QuietReader
    BY <1>13 DEF DropClient, QuietReader, ReaderLeft
  <2> QED BY <1>13, <2>1 DEF DropClient, taskVars, chanVars, deviceVars
<1> QED
  BY <1>1, <1>2, <1>3, <1>4, <1>5, <1>6, <1>7, <1>8, <1>9, <1>10, <1>11, <1>12, <1>13,
     ReplyReadFrame, ReplyDispatch, ReplyFail DEF Reader

LEMMA ReplyTasks ==
    ASSUME TypeInv, ReplyInv, NEW t \in Tasks, Operation(t) \/ Progress(t) PROVE ReplyInv'
<1> USE QuietSame, QuietStep
<1>1. ASSUME NEW c, CallMethodWithReply(t, c) PROVE ReplyInv'
  BY <1>1, FreshCall DEF CallMethodWithReply, Start, Calling, chanVars, readerVars, deviceVars
<1>2. ASSUME NEW c, CallMethod(t, c) PROVE ReplyInv'
  BY <1>2, FreshCall DEF CallMethod, Start, Calling, chanVars, readerVars, deviceVars
<1>3. CASE MakeChannelRequest(t)
  BY <1>3, FreshCall DEF MakeChannelRequest, Calling, chanVars, readerVars, deviceVars
<1>4. CASE ReceiveReply(t)
  BY <1>4, QuietFinish DEF ReceiveReply, deviceVars
<1>5. CASE Abandon(t)
  <2>1. UNCHANGED <<replyVars, queues, readerVars, rmsg, rpc, inbound>>
    BY <1>5 DEF Abandon, chanVars, readerVars
  <2>2. CASE UNCHANGED outstanding
    BY <1>5, <2>1, <2>2, QuietFinish DEF Abandon
  <2>3. CASE ~UNCHANGED outstanding
    <3>1. /\ pc[t] = "write" /\ Finish(t)
          /\ outstanding' \subseteq outstanding \cup {<<call[t], WireChannel(t)>>}
      BY <1>5, <2>3 DEF Abandon
    <3> QED BY <2>1, <3>1, ReplyWritten
  <2> QED BY <2>2, <2>3
<1>6. CASE MakeChannel(t)
  BY <1>6, QuietStart DEF MakeChannel, deviceVars
<1>7. CASE MakeChannelEnsure(t)
  BY <1>7, QuietGoto DEF MakeChannelEnsure, deviceVars
<1>8. ASSUME NEW c, StartRead(t, c) \/ StartWait(t, c) PROVE ReplyInv'
  BY <1>8, QuietStart DEF StartRead, StartWait, chanVars, deviceVars
<1>9. CASE StartDisconnectWait(t)
  BY <1>9, QuietStart DEF StartDisconnectWait, chanVars, deviceVars
<1>10. CASE GetChannelQueue(t)
  <2>1. QuietTasks
    BY <1>10, QuietFinish
       DEF GetChannelQueue, QuietTasks, Calling, TypeInv, TaskInv, TaskTypeOK
  <2> QED BY <1>10, <2>1 DEF GetChannelQueue, chanVars, deviceVars
<1>11. CASE PopMessage(t)
  <2>1. QuietTasks
    BY <1>11, QuietFinish, QuietGoto DEF PopMessage
  <2>2. QuietQueues
    <3>1. CASE queues[queue[t]] = <<>>
      BY <1>11, <3>1 DEF PopMessage
    <3>2. CASE queues[queue[t]] # <<>>
      <4> DEFINE k == queue[t]
      <4>1. queues' = [queues EXCEPT ![k] = Tail(queues[k])] /\ queues[k] # <<>>
        BY <1>11, <3>2 DEF PopMessage
      <4> HIDE DEF k
      <4> SUFFICES ASSUME NEW q \in QueueIds, NEW n \in 1..Len(queues'[q])
                   PROVE  \E m \in 1..Len(queues[q]) : queues'[q][n] = queues[q][m]
        BY DEF QuietQueues
      <4>2. queues[q] \in Seq(Message) /\ q \in DOMAIN queues
        BY DEF TypeInv, ChanTypeOK
      <4>3. CASE q = k
        <5>1. queues'[q] = Tail(queues[q]) /\ queues[q] # <<>>
          BY <4>1, <4>2, <4>3
        <5>2. n + 1 \in 1..Len(queues[q]) /\ queues'[q][n] = queues[q][n + 1]
          BY <4>2, <5>1
        <5> QED BY <5>2
      <4>4. CASE q # k
        BY <4>1, <4>2, <4>4
      <4> QED BY <4>3, <4>4
    <3> QED BY <3>1, <3>2
  <2> QED BY <1>11, <2>1, <2>2 DEF PopMessage, deviceVars
<1>12. CASE FindChannelCode(t)
  BY <1>12, QuietFinish, QuietGoto DEF FindChannelCode, deviceVars
<1>13. CASE CheckClosed(t) \/ Park(t)
  BY <1>13, QuietFinish, QuietGoto DEF CheckClosed, Park, chanVars, deviceVars
<1>14. CASE WakeEvent(t) \/ WakeClosed(t)
  BY <1>14, QuietFinish, QuietGoto DEF WakeEvent, WakeClosed, chanVars, deviceVars
<1>15. CASE SendRawReplyFor(t)
  BY <1>15 DEF SendRawReplyFor, chanVars
<1>16. ASSUME NEW c, SetIncomingHandler(t, c) \/ ClearIncomingHandler(t, c)
                     \/ RegisterInitializer(t, c)
       PROVE ReplyInv'
  BY <1>16 DEF SetIncomingHandler, ClearIncomingHandler, RegisterInitializer, taskVars,
               deviceVars
<1> QED
  BY <1>1, <1>2, <1>3, <1>4, <1>5, <1>6, <1>7, <1>8, <1>9, <1>10, <1>11, <1>12, <1>13,
     <1>14, <1>15, <1>16, ReplyWriteOk, ReplyRemoveSender DEF Operation, Progress

LEMMA ReplyStep == TypeInv /\ ReplyInv /\ [Next]_vars => ReplyInv'
<1> SUFFICES ASSUME TypeInv, ReplyInv, [Next]_vars PROVE ReplyInv'
  OBVIOUS
<1>1. CASE UNCHANGED vars
  BY <1>1, QuietSame, QuietStep DEF vars, taskVars, chanVars, deviceVars
<1> QED BY <1>1, ReplyTasks, ReplyReader, ReplyDevice DEF Next

LEMMA ReplyInvariant == Spec => []ReplyInv
  BY InitReplyInv, ReplyStep, TypeInvariant, PTL DEF Spec

(***************************************************************************)
(* dispatch_pending_reply and enqueue_message: whatever calls are started, *)
(* abandoned or failed, the reply to a correlated call is never left in a  *)
(* queue for another reader to take.                                       *)
(***************************************************************************)
THEOREM RepliesStayPrivate == Spec => []CorrelatedRepliesStayPrivate
<1>1. ReplyInv => CorrelatedRepliesStayPrivate
  BY DEF ReplyInv
<1> QED BY <1>1, ReplyInvariant, PTL

(***************************************************************************)
(* send_method and wait_for_reply: a caller that can still be answered has *)
(* its own sender in pending_replies.                                      *)
(***************************************************************************)
THEOREM WaitersKeepSenders == Spec => []EveryWaiterHasItsSender
<1>1. ReplyInv => EveryWaiterHasItsSender
  BY DEF ReplyInv, SenderKept, OwnCall, Calling, EveryWaiterHasItsSender
<1> QED BY <1>1, ReplyInvariant, PTL

-----------------------------------------------------------------------------
(***************************************************************************)
(* The two registries. While the reader is between the two updates of a    *)
(* registration or of a cancellation, the channel it is about is exempt.   *)
(* A code is handed out by make_channel only once, and only by the task    *)
(* that has passed the registration of its queue.                          *)
(***************************************************************************)
Mending(c) == rpc \in {"ensure", "cancel_metadata"} /\ rmsg.arg = c
Opened(t)  == kind[t] = "open" /\ pc[t] \in {"request", "write", "await"}

Handles ==
    /\ \A c \in known \cap LocalCodes : c < new_channel
    /\ \A t \in Tasks : kind[t] = "open" => chan[t] < new_channel
    /\ \A t \in Tasks : kind[t] = "wait" => chan[t] \in RemoteCodes
    /\ \A t \in Tasks : pc[t] = "find" => kind[t] = "wait"

InStep ==
    /\ \A c \in channel_metadata :
          channels[c] # 0 \/ Mending(c) \/ c \in LocalCodes \ known
    /\ \A t \in Tasks : Opened(t) /\ chan[t] \in channel_metadata =>
          channels[chan[t]] # 0 \/ Mending(chan[t])

RegistryInv == Handles /\ (rpc # "aborted" => InStep)

\* Tasks may leave their operations, or move on within them.
QuietHandles ==
    \A t \in Tasks :
        /\ kind'[t] \in {"open", "wait"} => kind'[t] = kind[t] /\ chan'[t] = chan[t]
        /\ pc'[t] = "find" => kind'[t] = "wait"
        /\ Opened(t)' => Opened(t)
QuietMending ==
    /\ rpc = "aborted" => rpc' = "aborted"
    /\ rpc \in {"ensure", "cancel_metadata"} =>
          rpc' = "aborted" \/ (rpc' = rpc /\ rmsg' = rmsg)

LEMMA HandlesQuiet ==
    ASSUME RegistryInv, QuietHandles, UNCHANGED <<known, new_channel>>
    PROVE  Handles'
<1>1. /\ \A t \in Tasks : kind'[t] = "open" => kind[t] = "open" /\ chan'[t] = chan[t]
      /\ \A t \in Tasks : kind'[t] = "wait" => kind[t] = "wait" /\ chan'[t] = chan[t]
      /\ \A t \in Tasks : pc'[t] = "find" => kind'[t] = "wait"
  BY DEF QuietHandles
<1> QED BY <1>1 DEF RegistryInv, Handles

LEMMA RegistryQuiet ==
    ASSUME RegistryInv, QuietHandles, QuietMending,
           UNCHANGED <<channels, channel_metadata, known, new_channel>>
    PROVE  RegistryInv'
<1>1. Handles'
  BY HandlesQuiet
<1>2. \A c : Mending(c) => Mending(c)' \/ rpc' = "aborted"
  BY DEF Mending, QuietMending
<1>3. \A t \in Tasks : Opened(t)' => Opened(t) /\ chan'[t] = chan[t]
  BY DEF QuietHandles, Opened
<1> QED BY <1>1, <1>2, <1>3 DEF RegistryInv, InStep, QuietMending

LEMMA HandlesSame ==
    ASSUME RegistryInv
    PROVE  /\ UNCHANGED <<pc, kind, chan>> => QuietHandles
           /\ UNCHANGED readerVars => QuietMending
<1>1. UNCHANGED <<pc, kind, chan>> => QuietHandles
  BY DEF RegistryInv, Handles, QuietHandles, Opened
<1>2. UNCHANGED readerVars => QuietMending
  BY DEF QuietMending, readerVars
<1> QED BY <1>1, <1>2

\* Only task t moves: what is left to show is about t.
LEMMA HandlesMove ==
    ASSUME RegistryInv, NEW t \in Tasks,
           \A u \in Tasks : u # t => /\ pc'[u] = pc[u] /\ kind'[u] = kind[u]
                                     /\ chan'[u] = chan[u],
           kind'[t] \in {"open", "wait"} => kind'[t] = kind[t] /\ chan'[t] = chan[t],
           pc'[t] = "find" => kind'[t] = "wait",
           Opened(t)' => Opened(t)
    PROVE  QuietHandles
<1>1. \A u \in Tasks : u # t =>
          /\ kind'[u] \in {"open", "wait"} => kind'[u] = kind[u] /\ chan'[u] = chan[u]
          /\ pc'[u] = "find" => kind'[u] = "wait"
          /\ Opened(u)' => Opened(u)
  BY DEF RegistryInv, Handles, Opened
<1> QED BY <1>1 DEF QuietHandles

LEMMA HandlesFinish ==
    ASSUME TypeInv, RegistryInv, NEW t \in Tasks, Finish(t) PROVE QuietHandles
<1>1. /\ \A u \in Tasks : u # t => pc'[u] = pc[u] /\ kind'[u] = kind[u] /\ chan'[u] = chan[u]
      /\ kind'[t] = "none" /\ pc'[t] = "idle"
  BY DEF Finish, TypeInv, TaskInv, TaskTypeOK
<1> QED BY <1>1, HandlesMove DEF Opened

LEMMA HandlesGoto ==
    ASSUME TypeInv, RegistryInv, NEW t \in Tasks, NEW p, Goto(t, p),
           p \notin {"request", "write"}, p = "await" => pc[t] = "write",
           p = "find" => kind[t] = "wait"
    PROVE  QuietHandles
<1>1. /\ \A u \in Tasks : u # t => pc'[u] = pc[u] /\ kind'[u] = kind[u] /\ chan'[u] = chan[u]
      /\ kind'[t] = kind[t] /\ chan'[t] = chan[t] /\ pc'[t] = p
  BY DEF Goto, TypeInv, TaskInv, TaskTypeOK
<1> QED BY <1>1, HandlesMove DEF Opened

LEMMA HandlesStart ==
    ASSUME TypeInv, RegistryInv, NEW t \in Tasks, NEW k, NEW c, NEW p, Start(t, k, c, p),
           k \notin {"open", "wait"}, p # "find"
    PROVE  QuietHandles
<1>1. /\ \A u \in Tasks : u # t => pc'[u] = pc[u] /\ kind'[u] = kind[u] /\ chan'[u] = chan[u]
      /\ kind'[t] = k /\ pc'[t] = p
  BY DEF Start, TypeInv, TaskInv, TaskTypeOK
<1> QED BY <1>1, HandlesMove DEF Opened

LEMMA RegistryInit == Init => RegistryInv
  BY Constants DEF Init, RegistryInv, Handles, InStep, Opened

LEMMA RegistryTasks ==
    ASSUME TypeInv, RegistryInv, NEW t \in Tasks, Operation(t) \/ Progress(t)
    PROVE  RegistryInv'
<1> USE HandlesSame, RegistryQuiet
<1>1. ASSUME NEW c, CallMethodWithReply(t, c) \/ CallMethod(t, c) PROVE RegistryInv'
  <2>1. QuietHandles
    BY <1>1, HandlesStart DEF CallMethodWithReply, CallMethod
  <2> QED BY <1>1, <2>1 DEF CallMethodWithReply, CallMethod, chanVars
<1>2. CASE WriteOk(t)
  <2>1. QuietHandles
    BY <1>2, HandlesFinish, HandlesGoto DEF WriteOk
  <2> QED BY <1>2, <2>1 DEF WriteOk, chanVars
<1>3. CASE WriteErr(t) \/ ReceiveDropped(t) \/ Abandon(t)
  <2>1. QuietHandles
    BY <1>3, HandlesFinish DEF WriteErr, ReceiveDropped, Abandon
  <2> QED BY <1>3, <2>1 DEF WriteErr, ReceiveDropped, Abandon, chanVars
<1>4. CASE ReceiveReply(t)
  <2>1. /\ QuietHandles /\ QuietMending
        /\ known' \subseteq known \cup (IF kind[t] = "open" THEN {chan[t]} ELSE {})
        /\ UNCHANGED <<channels, channel_metadata, new_channel, rpc, rmsg>>
    BY <1>4, HandlesFinish DEF ReceiveReply, readerVars
  <2>2. \A c \in known' \cap LocalCodes : c < new_channel
    BY <2>1 DEF RegistryInv, Handles
  <2>3. Handles'
    BY <2>1, <2>2 DEF QuietHandles, RegistryInv, Handles
  <2>4. \A u \in Tasks : Opened(u)' => Opened(u) /\ chan'[u] = chan[u]
    BY <2>1 DEF QuietHandles, Opened
  <2>5. kind[t] = "open" => Opened(t)
    BY <1>4 DEF ReceiveReply, Opened
  <2>6. rpc # "aborted" => InStep'
    BY <2>1, <2>4, <2>5 DEF RegistryInv, InStep, Mending
  <2> QED BY <2>1, <2>3, <2>6 DEF RegistryInv
<1>5. CASE MakeChannelRequest(t)
  <2>1. /\ \A u \in Tasks : u # t => pc'[u] = pc[u]
        /\ pc[t] = "request" /\ pc'[t] = "write" /\ UNCHANGED <<kind, chan>>
    BY <1>5 DEF MakeChannelRequest, TypeInv, TaskInv, TaskTypeOK
  <2>2. QuietHandles
    BY <2>1, HandlesMove DEF Opened
  <2> QED BY <1>5, <2>2 DEF MakeChannelRequest, chanVars
<1>6. ASSUME NEW c, StartRead(t, c) PROVE RegistryInv'
  <2>1. QuietHandles
    BY <1>6, HandlesStart DEF StartRead
  <2> QED BY <1>6, <2>1 DEF StartRead, chanVars
<1>7. ASSUME NEW c \in RemoteCodes, StartWait(t, c) PROVE RegistryInv'
  <2>1. /\ \A u \in Tasks : u # t => pc'[u] = pc[u] /\ kind'[u] = kind[u] /\ chan'[u] = chan[u]
        /\ kind'[t] = "wait" /\ chan'[t] = c /\ pc'[t] = "find"
    BY <1>7 DEF StartWait, Start, TypeInv, TaskInv, TaskTypeOK
  <2>2. UNCHANGED <<channels, channel_metadata, known, new_channel, rpc, rmsg>>
    BY <1>7 DEF StartWait, chanVars, readerVars
  <2>3. Handles'
    BY <2>1, <2>2 DEF RegistryInv, Handles
  <2>4. \A u \in Tasks : Opened(u)' => Opened(u) /\ chan'[u] = chan[u]
    BY <2>1 DEF Opened
  <2> QED BY <2>2, <2>3, <2>4 DEF RegistryInv, InStep, Mending
<1>8. CASE StartDisconnectWait(t)
  <2>1. QuietHandles
    BY <1>8, HandlesStart DEF StartDisconnectWait
  <2> QED BY <1>8, <2>1 DEF StartDisconnectWait, chanVars
<1>9. CASE GetChannelQueue(t)
  <2>1. CASE channels[chan[t]] = 0
    <3>1. QuietHandles
      BY <1>9, <2>1, HandlesFinish DEF GetChannelQueue
    <3> QED BY <1>9, <3>1 DEF GetChannelQueue, chanVars
  <2>2. CASE channels[chan[t]] # 0
    <3>1. /\ \A u \in Tasks : u # t => pc'[u] = pc[u]
          /\ pc'[t] = "pop" /\ UNCHANGED <<kind, chan>>
      BY <1>9, <2>2 DEF GetChannelQueue, TypeInv, TaskInv, TaskTypeOK
    <3>2. QuietHandles
      BY <3>1, HandlesMove DEF Opened
    <3> QED BY <1>9, <3>2 DEF GetChannelQueue, chanVars
  <2> QED BY <2>1, <2>2
<1>10. CASE PopMessage(t)
  <2>1. QuietHandles
    BY <1>10, HandlesFinish, HandlesGoto DEF PopMessage
  <2> QED BY <1>10, <2>1 DEF PopMessage
<1>11. CASE FindChannelCode(t)
  <2>1. /\ QuietHandles /\ QuietMending
        /\ known' \subseteq known \cup {chan[t]}
        /\ UNCHANGED <<channels, channel_metadata, new_channel, rpc, rmsg>>
    BY <1>11, HandlesFinish, HandlesGoto DEF FindChannelCode, readerVars
  <2>2. chan[t] \notin LocalCodes
    BY <1>11, CodesAssumption DEF FindChannelCode, RegistryInv, Handles
  <2>3. Handles'
    BY <2>1, <2>2 DEF QuietHandles, RegistryInv, Handles
  <2>4. \A u \in Tasks : Opened(u)' => Opened(u) /\ chan'[u] = chan[u]
    BY <2>1 DEF QuietHandles, Opened
  <2>5. LocalCodes \ known \subseteq LocalCodes \ known'
    BY <2>1, <2>2
  <2>6. rpc # "aborted" => InStep'
    BY <2>1, <2>4, <2>5 DEF RegistryInv, InStep, Mending
  <2> QED BY <2>1, <2>3, <2>6 DEF RegistryInv
<1>12. CASE CheckClosed(t) \/ Park(t)
  <2>1. QuietHandles
    BY <1>12, HandlesFinish, HandlesGoto DEF CheckClosed, Park
  <2> QED BY <1>12, <2>1 DEF CheckClosed, Park, chanVars
<1>13. CASE WakeEvent(t) \/ WakeClosed(t)
  <2>1. QuietHandles
    BY <1>13, HandlesFinish, HandlesGoto DEF WakeEvent, WakeClosed
  <2> QED BY <1>13, <2>1 DEF WakeEvent, WakeClosed, chanVars
<1>14. CASE SendRawReplyFor(t)
  BY <1>14 DEF SendRawReplyFor, chanVars
<1>15. ASSUME NEW c, SetIncomingHandler(t, c) \/ ClearIncomingHandler(t, c)
                     \/ RegisterInitializer(t, c)
       PROVE RegistryInv'
  BY <1>15 DEF SetIncomingHandler, ClearIncomingHandler, RegisterInitializer, taskVars
<1>16. CASE MakeChannel(t)
  <2>0. PICK n : n = new_channel
    OBVIOUS
  <2>1. /\ \A u \in Tasks : u # t => pc'[u] = pc[u] /\ kind'[u] = kind[u] /\ chan'[u] = chan[u]
        /\ kind'[t] = "open" /\ chan'[t] = n /\ pc'[t] = "ensure"
    BY <1>16, <2>0 DEF MakeChannel, Start, TypeInv, TaskInv, TaskTypeOK
  <2>2. /\ channel_metadata' = channel_metadata \cup {n} /\ n \in LocalCodes
        /\ UNCHANGED <<channels, known, rpc, rmsg>> /\ new_channel' = n + 1
    BY <1>16, <2>0 DEF MakeChannel, readerVars
  <2>3. /\ n \in Int /\ known \subseteq Int /\ \A u \in Tasks : chan[u] \in Int
    BY <2>2, CodesAssumption DEF TypeInv, ChanTypeOK, TaskInv, TaskTypeOK
  <2>4. Handles'
    <3>1. \A c \in known' \cap LocalCodes : c < n + 1
      BY <2>0, <2>2, <2>3 DEF RegistryInv, Handles
    <3>2. \A u \in Tasks : kind'[u] = "open" => chan'[u] < n + 1
      BY <2>0, <2>1, <2>3 DEF RegistryInv, Handles
    <3> QED BY <2>1, <2>2, <3>1, <3>2 DEF RegistryInv, Handles
  <2>5. n \notin known
    BY <2>0, <2>2, <2>3 DEF RegistryInv, Handles
  <2>6. \A u \in Tasks : Opened(u)' => Opened(u) /\ chan'[u] = chan[u] /\ chan[u] # n
    BY <2>0, <2>1, <2>3 DEF Opened, RegistryInv, Handles
  <2>7. rpc # "aborted" => InStep'
    BY <2>2, <2>5, <2>6 DEF RegistryInv, InStep, Mending
  <2> QED BY <2>2, <2>4, <2>7 DEF RegistryInv
<1>17. CASE MakeChannelEnsure(t)
  <2>1. /\ \A c \in Codes : channels[c] # 0 => channels'[c] # 0
        /\ channels'[chan[t]] # 0
    <3>1. chan[t] \in Codes /\ nextQueue + 1 # 0
      BY DEF TypeInv, TaskInv, TaskTypeOK, ChanTypeOK, QueueIds
    <3> QED BY <1>17, <3>1 DEF MakeChannelEnsure, EnsureChannelRegistered, TypeInv, ChanTypeOK
  <2>2. /\ \A u \in Tasks : u # t => pc'[u] = pc[u]
        /\ pc'[t] = "request" /\ UNCHANGED <<kind, chan>>
    BY <1>17 DEF MakeChannelEnsure, Goto, TypeInv, TaskInv, TaskTypeOK
  <2>3. /\ UNCHANGED <<channel_metadata, known, new_channel, rpc, rmsg>>
        /\ channel_metadata \subseteq Codes
    BY <1>17 DEF MakeChannelEnsure, readerVars, TypeInv, ChanTypeOK
  <2>4. Handles'
    BY <2>2, <2>3 DEF RegistryInv, Handles
  <2>5. \A u \in Tasks : Opened(u)' => Opened(u) \/ u = t
    BY <2>2 DEF Opened
  <2>6. \A u \in Tasks : Opened(u)' /\ chan[u] \in channel_metadata =>
            channels'[chan[u]] # 0 \/ Mending(chan[u]) \/ rpc = "aborted"
    BY <2>1, <2>3, <2>5 DEF RegistryInv, InStep
  <2>7. \A c \in channel_metadata :
            channels'[c] # 0 \/ Mending(c) \/ c \in LocalCodes \ known \/ rpc = "aborted"
    BY <2>1, <2>3 DEF RegistryInv, InStep
  <2> QED BY <2>2, <2>3, <2>4, <2>6, <2>7 DEF RegistryInv, InStep, Mending
<1> QED
  BY <1>1, <1>2, <1>3, <1>4, <1>5, <1>6, <1>7, <1>8, <1>9, <1>10, <1>11, <1>12, <1>13,
     <1>14, <1>15, <1>16, <1>17 DEF Operation, Progress

LEMMA RegistryReader ==
    ASSUME TypeInv, RegistryInv, Reader \/ DropClient PROVE RegistryInv'
<1> USE HandlesSame, RegistryQuiet
<1>1. CASE ReadFrame \/ DispatchPendingReply
  <2>1. QuietMending
    BY <1>1 DEF ReadFrame, DispatchPendingReply, QuietMending
  <2> QED BY <1>1, <2>1 DEF ReadFrame, DispatchPendingReply, taskVars, chanVars
<1>2. CASE HandleControlMessage \/ LookupHandler \/ HandlerDeclines \/ HandlerHandles
  <2>1. QuietMending
    BY <1>2 DEF HandleControlMessage, LookupHandler, HandlerDeclines, HandlerHandles, QuietMending
  <2> QED
    BY <1>2, <2>1 DEF HandleControlMessage, LookupHandler, HandlerDeclines, HandlerHandles,
                      taskVars, chanVars
<1>3. CASE AckIncomingChannel \/ RemoveChannelHandler \/ EnqueueMessage
  <2>1. QuietMending
    BY <1>3 DEF AckIncomingChannel, RemoveChannelHandler, EnqueueMessage, QuietMending
  <2> QED
    BY <1>3, <2>1 DEF AckIncomingChannel, RemoveChannelHandler, EnqueueMessage, taskVars,
                      chanVars
<1>4. CASE FailPendingReplies \/ StoreClosed \/ DropClient
  <2>1. QuietMending
    BY <1>4 DEF FailPendingReplies, StoreClosed, DropClient, QuietMending
  <2> QED
    BY <1>4, <2>1 DEF FailPendingReplies, StoreClosed, DropClient, taskVars, chanVars
<1>5. CASE RegisterIncomingMetadata
  <2>1. /\ channel_metadata' = channel_metadata \cup {rmsg.arg}
        /\ UNCHANGED <<channels, known, new_channel, pc, kind, chan>>
        /\ rpc = "register" /\ rpc' = "ensure" /\ rmsg' = rmsg
    BY <1>5 DEF RegisterIncomingMetadata
  <2>2. /\ \A c : ~Mending(c) /\ (c = rmsg.arg => Mending(c)')
        /\ \A u \in Tasks : Opened(u)' <=> Opened(u)
    BY <2>1 DEF Mending, Opened
  <2>3. Handles'
    BY <2>1 DEF RegistryInv, Handles
  <2> QED BY <2>1, <2>2, <2>3 DEF RegistryInv, InStep
<1>6. CASE RegisterIncomingQueue
  <2>1. rmsg.arg \in Codes /\ nextQueue + 1 # 0 /\ channel_metadata \subseteq Codes
    <3>1. rmsg.arg \in Codes
      BY DEF TypeInv, ReaderTypeOK, Message
    <3>2. nextQueue + 1 # 0
      BY DEF TypeInv, ChanTypeOK, QueueIds
    <3> QED BY <3>1, <3>2 DEF TypeInv, ChanTypeOK
  <2>2. /\ \A c \in Codes : channels[c] # 0 => channels'[c] # 0
        /\ channels'[rmsg.arg] # 0
    BY <1>6, <2>1 DEF RegisterIncomingQueue, EnsureChannelRegistered, TypeInv, ChanTypeOK
  <2>3. /\ UNCHANGED <<channel_metadata, known, new_channel, pc, kind, chan>>
        /\ rpc = "ensure"
    BY <1>6 DEF RegisterIncomingQueue, taskVars
  <2>4. /\ \A c : Mending(c) => c = rmsg.arg
        /\ \A u \in Tasks : (Opened(u)' <=> Opened(u)) /\ chan'[u] = chan[u]
    BY <2>3 DEF Mending, Opened
  <2>5. Handles'
    BY <2>3 DEF RegistryInv, Handles
  <2>6. \A c \in channel_metadata' : channels'[c] # 0 \/ c \in LocalCodes \ known'
    BY <2>1, <2>2, <2>3, <2>4 DEF RegistryInv, InStep
  <2>7. \A u \in Tasks : Opened(u)' /\ chan'[u] \in channel_metadata' => channels'[chan'[u]] # 0
    BY <2>1, <2>2, <2>3, <2>4 DEF RegistryInv, InStep
  <2> QED BY <2>5, <2>6, <2>7 DEF RegistryInv, InStep
<1>7. CASE RemoveChannelQueue
  <2>1. /\ channels' = [channels EXCEPT ![rmsg.arg] = 0] /\ rmsg' = rmsg
        /\ rpc = "cancel_queue" /\ rpc' = "cancel_metadata"
        /\ UNCHANGED <<channel_metadata, known, new_channel, pc, kind, chan>>
    BY <1>7 DEF RemoveChannelQueue, taskVars
  <2>2. /\ \A c : ~Mending(c) /\ (c = rmsg.arg => Mending(c)')
        /\ \A u \in Tasks : Opened(u)' <=> Opened(u)
    BY <2>1 DEF Mending, Opened
  <2>3. /\ \A c \in Codes : c # rmsg.arg => channels'[c] = channels[c]
        /\ channel_metadata \subseteq Codes
    BY <2>1 DEF TypeInv, ChanTypeOK
  <2>4. Handles'
    BY <2>1 DEF RegistryInv, Handles
  <2> QED BY <2>1, <2>2, <2>3, <2>4 DEF RegistryInv, InStep
<1>8. CASE RemoveChannelMetadata
  <2>1. /\ channel_metadata' = channel_metadata \ {rmsg.arg}
        /\ rpc = "cancel_metadata"
        /\ UNCHANGED <<channels, known, new_channel, pc, kind, chan>>
    BY <1>8 DEF RemoveChannelMetadata
  <2>2. /\ \A c : Mending(c) => c = rmsg.arg
        /\ \A u \in Tasks : Opened(u)' <=> Opened(u)
    BY <2>1 DEF Mending, Opened
  <2>3. Handles'
    BY <2>1 DEF RegistryInv, Handles
  <2> QED BY <2>1, <2>2, <2>3 DEF RegistryInv, InStep
<1>9. CASE RunInitializer
  <2>1. /\ UNCHANGED <<channels, channel_metadata, new_channel, pc, kind, chan, rmsg>>
        /\ rpc = "initialize" /\ rpc' = "ack"
        /\ known' = known \/ (known' = known \cup {rmsg.arg} /\ rmsg.arg \in registrations)
    BY <1>9 DEF RunInitializer, taskVars
  <2>2. known' \cap LocalCodes = known \cap LocalCodes /\ LocalCodes \ known' = LocalCodes \ known
    BY <2>1, CodesAssumption DEF TypeInv, ChanTypeOK
  <2>3. /\ \A c : ~Mending(c)
        /\ \A u \in Tasks : Opened(u)' <=> Opened(u)
    BY <2>1 DEF Mending, Opened
  <2>4. Handles'
    BY <2>1, <2>2 DEF RegistryInv, Handles
  <2> QED BY <2>1, <2>2, <2>3, <2>4 DEF RegistryInv, InStep
<1> QED BY <1>1, <1>2, <1>3, <1>4, <1>5, <1>6, <1>7, <1>8, <1>9 DEF Reader

LEMMA RegistryStep == TypeInv /\ RegistryInv /\ [Next]_vars => RegistryInv'
<1> SUFFICES ASSUME TypeInv, RegistryInv, [Next]_vars PROVE RegistryInv'
  OBVIOUS
<1>1. CASE Device
  <2>1. UNCHANGED <<taskVars, chanVars, readerVars>>
    BY <1>1 DEF Device, DeviceReply, DeviceInvokes, DeviceRequestsChannel,
                DeviceCancelsChannel, DevicePublishesCapabilities, DeviceOriginates,
                DeviceCloses
  <2> QED BY <2>1, HandlesSame, RegistryQuiet DEF taskVars, chanVars
<1>2. CASE UNCHANGED vars
  BY <1>2, HandlesSame, RegistryQuiet DEF vars, taskVars, chanVars
<1> QED BY <1>1, <1>2, RegistryTasks, RegistryReader DEF Next

(***************************************************************************)
(* make_channel, handle_control_message and remove_channel: a registered   *)
(* channel that somebody holds has a queue, whatever channels are opened,  *)
(* cancelled or given up half-way.                                         *)
(***************************************************************************)
THEOREM ChannelsHaveQueues == Spec => []RegisteredChannelsHaveQueues
<1>1. RegistryInv => RegisteredChannelsHaveQueues
  BY DEF RegistryInv, InStep, RegisteredChannelsHaveQueues, Mending
<1>2. Spec => []RegistryInv
  BY RegistryInit, RegistryStep, TypeInvariant, PTL DEF Spec
<1> QED BY <1>1, <1>2, PTL

-----------------------------------------------------------------------------
(***************************************************************************)
(* The answers. A message of the device is in one place at a time: on the  *)
(* wire, with the reader, in one queue, or with the task that popped it.   *)
(***************************************************************************)
Of(m, d)   == m.conv = 0 /\ m.id = d
Waiting(d) == \E n \in 1..Len(inbound) : Of(inbound[n], d)
Routing(d) == Of(rmsg, d)
Queued(d)  == \E q \in QueueIds : \E n \in 1..Len(queues[q]) : Of(queues[q][n], d)
Held(d)    == \E t \in Tasks : held[t] = d
Present(d) == Waiting(d) \/ Routing(d) \/ Queued(d) \/ Held(d)

OnePlace ==
    \A d \in DeviceIds :
        /\ Waiting(d) => ~Routing(d) /\ ~Queued(d) /\ ~Held(d)
        /\ Routing(d) => ~Queued(d) /\ ~Held(d)
        /\ Queued(d) => ~Held(d)

\* No place holds two copies of it.
OnWireOnce ==
    \A d \in DeviceIds : \A m, n \in 1..Len(inbound) :
        Of(inbound[m], d) /\ Of(inbound[n], d) => m = n
QueuedOnce ==
    \A d \in DeviceIds : \A p, q \in QueueIds :
        \A m \in 1..Len(queues[p]), n \in 1..Len(queues[q]) :
            Of(queues[p][m], d) /\ Of(queues[q][n], d) => p = q /\ m = n
HeldOnce ==
    \A d \in DeviceIds : \A t, u \in Tasks : held[t] = d /\ held[u] = d => t = u

\* What is somewhere has not been answered, and what has not been sent is nowhere.
Unanswered ==
    \A d \in DeviceIds :
        /\ answered[d] <= 1
        /\ Present(d) => answered[d] = 0
        /\ d > sent => answered[d] = 0 /\ ~Present(d)

\* The reader answers only what the device originated: a channel request is
\* never an answer, and a handler is not run for one.
Requests ==
    /\ \A n \in 1..Len(inbound) : inbound[n].sel = "request" => inbound[n].conv = 0
    /\ rmsg.sel = "request" => rmsg.conv = 0
    /\ rpc \in {"register", "ensure", "initialize", "ack", "run"} => rmsg.conv = 0

AnswerInv == OnePlace /\ OnWireOnce /\ QueuedOnce /\ HeldOnce /\ Unanswered /\ Requests

LEMMA AnswerInit == Init => AnswerInv
<1> SUFFICES ASSUME Init PROVE AnswerInv
  OBVIOUS
<1>1. /\ Len(inbound) = 0 /\ \A q \in QueueIds : Len(queues[q]) = 0
      /\ \A t \in Tasks : held[t] = 0
      /\ rmsg = NoMsg /\ NoMsg.id = 0 /\ NoMsg.conv = 0 /\ rpc = "read"
      /\ \A d \in DeviceIds : answered[d] = 0
  BY DEF Init, NoMsg
<1>2. \A d \in DeviceIds : d # 0
  BY Constants DEF DeviceIds
<1>3. \A d \in DeviceIds : ~Waiting(d) /\ ~Routing(d) /\ ~Queued(d) /\ ~Held(d)
  BY <1>1, <1>2 DEF Waiting, Routing, Queued, Held, Of
<1>4. OnWireOnce /\ QueuedOnce /\ HeldOnce
  BY <1>1, <1>2 DEF OnWireOnce, QueuedOnce, HeldOnce
<1> QED BY <1>1, <1>3, <1>4 DEF AnswerInv, OnePlace, Unanswered, Present, Requests

(***************************************************************************)
(* A step that moves no message: the reader goes on with its message or    *)
(* drops it.                                                               *)
(***************************************************************************)
Answering == {"register", "ensure", "initialize", "ack", "run"}
ReaderKeeps ==
    /\ rmsg' = rmsg \/ rmsg' = NoMsg
    /\ rpc' \in Answering => rmsg'.conv = 0

LEMMA NoMessage ==
    /\ NoMsg.conv = 0 /\ NoMsg.id = 0 /\ NoMsg.sel # "request"
    /\ \A d \in DeviceIds : d # 0 /\ ~Of(NoMsg, d)
<1>1. NoMsg.conv = 0 /\ NoMsg.id = 0 /\ NoMsg.sel # "request"
  BY DEF NoMsg
<1>2. \A d \in DeviceIds : d # 0
  BY Constants DEF DeviceIds
<1> QED BY <1>1, <1>2 DEF Of

LEMMA AnswerQuiet ==
    ASSUME AnswerInv, ReaderKeeps, UNCHANGED <<inbound, queues, held, answered, sent>>
    PROVE  AnswerInv'
<1>1. \A d \in DeviceIds :
        /\ Waiting(d)' <=> Waiting(d)
        /\ Queued(d)' <=> Queued(d)
        /\ Held(d)' <=> Held(d)
        /\ Routing(d)' => Routing(d)
        /\ Present(d)' => Present(d)
  <2> SUFFICES ASSUME NEW d \in DeviceIds
               PROVE  /\ Waiting(d)' <=> Waiting(d)
                      /\ Queued(d)' <=> Queued(d)
                      /\ Held(d)' <=> Held(d)
                      /\ Routing(d)' => Routing(d)
                      /\ Present(d)' => Present(d)
    OBVIOUS
  <2>1. Waiting(d)' <=> Waiting(d)
    BY DEF Waiting
  <2>2. Queued(d)' <=> Queued(d)
    BY DEF Queued
  <2>3. Held(d)' <=> Held(d)
    BY DEF Held
  <2>4. Routing(d)' => Routing(d)
    BY NoMessage DEF Routing, ReaderKeeps
  <2> QED BY <2>1, <2>2, <2>3, <2>4 DEF Present
<1>2. OnePlace'
  BY <1>1 DEF AnswerInv, OnePlace
<1>3. OnWireOnce' /\ QueuedOnce' /\ HeldOnce'
  BY DEF AnswerInv, OnWireOnce, QueuedOnce, HeldOnce
<1>4. Unanswered'
  BY <1>1 DEF AnswerInv, Unanswered
<1>5. Requests'
  BY NoMessage DEF AnswerInv, Requests, ReaderKeeps, Answering
<1> QED BY <1>2, <1>3, <1>4, <1>5 DEF AnswerInv

LEMMA KeepsSame ==
    ASSUME AnswerInv
    PROVE  /\ UNCHANGED readerVars => ReaderKeeps
           /\ NextFrame => ReaderKeeps
           /\ UNCHANGED rmsg /\ (rpc' \in Answering => rpc \in Answering) => ReaderKeeps
<1>1. rpc \in Answering => rmsg.conv = 0
  BY DEF AnswerInv, Requests, Answering
<1>2. UNCHANGED readerVars => ReaderKeeps
  BY <1>1 DEF ReaderKeeps, readerVars
<1>3. NextFrame => ReaderKeeps
  BY NoMessage DEF NextFrame, ReaderKeeps
<1>4. UNCHANGED rmsg /\ (rpc' \in Answering => rpc \in Answering) => ReaderKeeps
  BY <1>1 DEF ReaderKeeps
<1> QED BY <1>2, <1>3, <1>4

(***************************************************************************)
(* A step that takes a message out of a place, or moves it to another:     *)
(* what OnePlace and Unanswered say follows from how the places change.    *)
(***************************************************************************)
LEMMA AnswerMove ==
    ASSUME TypeInv, AnswerInv, UNCHANGED <<answered, sent>>,
           \A d \in DeviceIds :
               /\ Present(d)' => Present(d)
               /\ Waiting(d)' => Waiting(d) /\ ~Routing(d)' /\ ~Queued(d)' /\ ~Held(d)'
               /\ Routing(d)' => ~Queued(d)' /\ ~Held(d)'
               /\ Queued(d)' => ~Held(d)'
    PROVE  OnePlace' /\ Unanswered'
  BY DEF AnswerInv, OnePlace, Unanswered

LEMMA AnswerReadFrame ==
    ASSUME TypeInv, AnswerInv, ReadFrame PROVE AnswerInv'
<1>1. /\ inbound # <<>> /\ rmsg' = Head(inbound) /\ inbound' = Tail(inbound)
      /\ rpc' = "reply" /\ UNCHANGED <<queues, held, answered, sent>>
  BY DEF ReadFrame, taskVars, chanVars
<1>2. inbound \in Seq(Message)
  BY DEF TypeInv, DeviceTypeOK
<1>3. /\ 1 \in 1..Len(inbound) /\ rmsg' = inbound[1]
      /\ Len(inbound') = Len(inbound) - 1
      /\ \A n \in 1..Len(inbound') :
            n + 1 \in 1..Len(inbound) /\ n + 1 # 1 /\ inbound'[n] = inbound[n + 1]
  BY <1>1, <1>2
<1>4. \A d \in DeviceIds :
        /\ Waiting(d)' => Waiting(d) /\ ~Routing(d)'
        /\ Routing(d)' => Waiting(d)
        /\ Queued(d)' <=> Queued(d)
        /\ Held(d)' <=> Held(d)
  <2> SUFFICES ASSUME NEW d \in DeviceIds
               PROVE  /\ Waiting(d)' => Waiting(d) /\ ~Routing(d)'
                      /\ Routing(d)' => Waiting(d)
                      /\ Queued(d)' <=> Queued(d)
                      /\ Held(d)' <=> Held(d)
    OBVIOUS
  <2>1. Routing(d)' => Waiting(d)
    BY <1>3 DEF Routing, Waiting
  <2>2. ASSUME Waiting(d)' PROVE Waiting(d) /\ ~Routing(d)'
    <3>1. PICK n \in 1..Len(inbound') : Of(inbound'[n], d)
      BY <2>2 DEF Waiting
    <3>2. n + 1 \in 1..Len(inbound) /\ n + 1 # 1 /\ Of(inbound[n + 1], d)
      BY <1>3, <3>1
    <3>3. ~Of(inbound[1], d)
      BY <1>3, <3>2 DEF AnswerInv, OnWireOnce
    <3> QED BY <1>3, <3>2, <3>3 DEF Waiting, Routing
  <2>3. Queued(d)' <=> Queued(d)
    BY <1>1 DEF Queued
  <2>4. Held(d)' <=> Held(d)
    BY <1>1 DEF Held
  <2> QED BY <2>1, <2>2, <2>3, <2>4
<1>5. OnePlace' /\ Unanswered'
  <2>1. \A d \in DeviceIds :
          /\ Present(d)' => Present(d)
          /\ Waiting(d)' => Waiting(d) /\ ~Routing(d)' /\ ~Queued(d)' /\ ~Held(d)'
          /\ Routing(d)' => ~Queued(d)' /\ ~Held(d)'
          /\ Queued(d)' => ~Held(d)'
    BY <1>4 DEF AnswerInv, OnePlace, Present
  <2> QED BY <1>1, <2>1, AnswerMove
<1>6. OnWireOnce'
  <2> SUFFICES ASSUME NEW d \in DeviceIds, NEW m \in 1..Len(inbound'),
                      NEW n \in 1..Len(inbound'), Of(inbound'[m], d), Of(inbound'[n], d)
               PROVE  m = n
    BY DEF OnWireOnce
  <2>1. m + 1 = n + 1
    BY <1>3 DEF AnswerInv, OnWireOnce
  <2> QED BY <2>1
<1>7. QueuedOnce' /\ HeldOnce'
  BY <1>1 DEF AnswerInv, QueuedOnce, HeldOnce
<1>8. Requests'
  BY <1>1, <1>3 DEF AnswerInv, Requests
<1> QED BY <1>5, <1>6, <1>7, <1>8 DEF AnswerInv

LEMMA AnswerEnqueue ==
    ASSUME TypeInv, AnswerInv, EnqueueMessage PROVE AnswerInv'
<1>1. CASE channels[rmsg.chan] = 0
  BY <1>1, KeepsSame, AnswerQuiet DEF EnqueueMessage, deviceVars
<1>2. CASE channels[rmsg.chan] # 0
  <2> DEFINE k == channels[rmsg.chan]
  <2>1. /\ queues' = [queues EXCEPT ![k] = Append(queues[k], rmsg)]
        /\ rmsg' = NoMsg /\ rpc' = "read" /\ UNCHANGED <<inbound, held, answered, sent>>
    BY <1>2 DEF EnqueueMessage, NextFrame, deviceVars
  <2>2. rmsg \in Message /\ queues \in [QueueIds -> Seq(Message)]
    BY DEF TypeInv, ReaderTypeOK, ChanTypeOK
  <2> HIDE DEF k
  <2>3. \A q \in QueueIds : \A n \in 1..Len(queues'[q]) :
          \/ n \in 1..Len(queues[q]) /\ queues'[q][n] = queues[q][n]
          \/ q = k /\ n = Len(queues[k]) + 1 /\ queues'[q][n] = rmsg
    <3> SUFFICES ASSUME NEW q \in QueueIds, NEW n \in 1..Len(queues'[q])
                 PROVE  \/ n \in 1..Len(queues[q]) /\ queues'[q][n] = queues[q][n]
                        \/ q = k /\ n = Len(queues[k]) + 1 /\ queues'[q][n] = rmsg
      OBVIOUS
    <3>1. queues[q] \in Seq(Message)
      BY <2>2
    <3>2. CASE q = k
      <4>1. queues'[q] = Append(queues[q], rmsg)
        BY <2>1, <2>2, <3>2
      <4>2. n \in 1..Len(queues[q]) \/ n = Len(queues[q]) + 1
        BY <3>1, <4>1
      <4> QED BY <2>2, <3>1, <3>2, <4>1, <4>2
    <3>3. CASE q # k
      BY <2>1, <2>2, <3>3
    <3> QED BY <3>2, <3>3
  <2>4. \A d \in DeviceIds :
          /\ Waiting(d)' <=> Waiting(d)
          /\ Held(d)' <=> Held(d)
          /\ ~Routing(d)'
          /\ Queued(d)' => Queued(d) \/ Routing(d)
    <3> SUFFICES ASSUME NEW d \in DeviceIds
                 PROVE  /\ Waiting(d)' <=> Waiting(d)
                        /\ Held(d)' <=> Held(d)
                        /\ ~Routing(d)'
                        /\ Queued(d)' => Queued(d) \/ Routing(d)
      OBVIOUS
    <3>1. Waiting(d)' <=> Waiting(d)
      BY <2>1 DEF Waiting
    <3>2. Held(d)' <=> Held(d)
      BY <2>1 DEF Held
    <3>3. ~Routing(d)'
      BY <2>1, NoMessage DEF Routing
    <3>4. Queued(d)' => Queued(d) \/ Routing(d)
      BY <2>3 DEF Queued, Routing
    <3> QED BY <3>1, <3>2, <3>3, <3>4
  <2>5. OnePlace' /\ Unanswered'
    <3>1. \A d \in DeviceIds :
            /\ Present(d)' => Present(d)
            /\ Waiting(d)' => Waiting(d) /\ ~Routing(d)' /\ ~Queued(d)' /\ ~Held(d)'
            /\ Routing(d)' => ~Queued(d)' /\ ~Held(d)'
            /\ Queued(d)' => ~Held(d)'
      BY <2>4 DEF AnswerInv, OnePlace, Present
    <3> QED BY <2>1, <3>1, AnswerMove
  <2>6. QueuedOnce'
    <3> SUFFICES ASSUME NEW d \in DeviceIds, NEW p \in QueueIds, NEW q \in QueueIds,
                        NEW m \in 1..Len(queues'[p]), NEW n \in 1..Len(queues'[q]),
                        Of(queues'[p][m], d), Of(queues'[q][n], d)
                 PROVE  p = q /\ m = n
      BY DEF QueuedOnce
    <3>1. CASE ~Routing(d)
      <4>1. /\ m \in 1..Len(queues[p]) /\ queues'[p][m] = queues[p][m]
            /\ n \in 1..Len(queues[q]) /\ queues'[q][n] = queues[q][n]
        BY <2>3, <3>1 DEF Routing
      <4> QED BY <4>1 DEF AnswerInv, QueuedOnce
    <3>2. CASE Routing(d)
      <4>1. ~Queued(d)
        BY <3>2 DEF AnswerInv, OnePlace
      <4>2. /\ p = k /\ m = Len(queues[k]) + 1
            /\ q = k /\ n = Len(queues[k]) + 1
        BY <2>3, <4>1 DEF Queued
      <4> QED BY <4>2
    <3> QED BY <3>1, <3>2
  <2>7. OnWireOnce' /\ HeldOnce'
    BY <2>1 DEF AnswerInv, OnWireOnce, HeldOnce
  <2>8. Requests'
    BY <2>1, NoMessage DEF AnswerInv, Requests
  <2> QED BY <2>5, <2>6, <2>7, <2>8 DEF AnswerInv
<1> QED BY <1>1, <1>2

LEMMA AnswerPop ==
    ASSUME TypeInv, AnswerInv, NEW t \in Tasks, PopMessage(t) PROVE AnswerInv'
<1>1. CASE queues[queue[t]] = <<>>
  BY <1>1, KeepsSame, AnswerQuiet DEF PopMessage, deviceVars
<1>2. CASE queues[queue[t]] # <<>>
  <2>0. PICK k \in QueueIds : k = queue[t]
    <3>1. pc[t] = "pop" /\ queue[t] # 0 /\ queue[t] \in 0..MaxQueue /\ MaxQueue \in Nat
      BY Constants DEF PopMessage, TypeInv, TaskInv, TaskTypeOK
    <3> QED BY <3>1 DEF QueueIds
  <2>1. PICK m : m = Head(queues[k])
    OBVIOUS
  <2>2. /\ queues[k] # <<>> /\ queues' = [queues EXCEPT ![k] = Tail(queues[k])]
        /\ held' = [held EXCEPT ![t] = IF m.expects THEN m.id ELSE 0]
        /\ UNCHANGED <<rpc, rmsg, inbound, answered, sent>>
    BY <1>2, <2>0, <2>1 DEF PopMessage, readerVars, deviceVars
  <2>3. queues \in [QueueIds -> Seq(Message)] /\ held \in [Tasks -> 0..MaxDevice]
    BY DEF TypeInv, ChanTypeOK, TaskInv, TaskTypeOK
  <2>4. 1 \in 1..Len(queues[k]) /\ m = queues[k][1] /\ m \in Message
    <3>1. queues[k] \in Seq(Message)
      BY <2>3
    <3> QED BY <2>1, <2>2, <3>1
  <2>5. m.expects => m.conv = 0
    <3>1. CASE m \in [conv : {0}, id : 0..MaxDevice, chan : Codes, sel : Selectors,
                      arg : Codes, expects : BOOLEAN]
      BY <3>1
    <3>2. CASE m \in [conv : {1}, id : Ids, chan : Codes, sel : Selectors,
                      arg : Codes, expects : {FALSE}]
      BY <3>2
    <3> QED BY <2>4, <3>1, <3>2 DEF Message
  \* Where a message of the new queues was before; it was not the head.
  <2>6. ASSUME NEW q \in QueueIds, NEW n \in 1..Len(queues'[q])
        PROVE  /\ q = k => /\ n + 1 \in 1..Len(queues[q])
                           /\ n + 1 # 1 /\ queues'[q][n] = queues[q][n + 1]
               /\ q # k => n \in 1..Len(queues[q]) /\ queues'[q][n] = queues[q][n]
    <3>1. queues[q] \in Seq(Message)
      BY <2>3
    <3>2. CASE q = k
      <4>1. queues'[q] = Tail(queues[q]) /\ queues[q] # <<>>
        BY <2>2, <2>3, <3>2
      <4> QED BY <3>1, <3>2, <4>1
    <3>3. CASE q # k
      BY <2>2, <2>3, <3>3
    <3> QED BY <3>2, <3>3
  <2>7. \A d \in DeviceIds :
          /\ Waiting(d)' <=> Waiting(d)
          /\ Routing(d)' <=> Routing(d)
          /\ Queued(d)' => Queued(d) /\ ~Of(m, d)
          /\ Held(d)' => Held(d) \/ (Queued(d) /\ Of(m, d))
          /\ Of(m, d) => Queued(d)
    <3> SUFFICES ASSUME NEW d \in DeviceIds
                 PROVE  /\ Waiting(d)' <=> Waiting(d)
                        /\ Routing(d)' <=> Routing(d)
                        /\ Queued(d)' => Queued(d) /\ ~Of(m, d)
                        /\ Held(d)' => Held(d) \/ (Queued(d) /\ Of(m, d))
                        /\ Of(m, d) => Queued(d)
      OBVIOUS
    <3>1. Waiting(d)' <=> Waiting(d)
      BY <2>2 DEF Waiting
    <3>2. Routing(d)' <=> Routing(d)
      BY <2>2 DEF Routing
    <3>3. Of(m, d) => Queued(d)
      BY <2>4 DEF Queued
    <3>4. ASSUME Queued(d)' PROVE Queued(d) /\ ~Of(m, d)
      <4>0. PICK q \in QueueIds : \E n \in 1..Len(queues'[q]) : Of(queues'[q][n], d)
        BY <3>4 DEF Queued
      <4>1. PICK n \in 1..Len(queues'[q]) : Of(queues'[q][n], d)
        BY <4>0
      <4>2. CASE q = k
        <5>1. n + 1 \in 1..Len(queues[q]) /\ n + 1 # 1 /\ Of(queues[q][n + 1], d)
          BY <2>6, <4>1, <4>2
        <5>2. ~Of(queues[k][1], d)
          BY <2>4, <4>2, <5>1 DEF AnswerInv, QueuedOnce
        <5> QED BY <2>4, <5>1, <5>2 DEF Queued
      <4>3. CASE q # k
        <5>1. n \in 1..Len(queues[q]) /\ Of(queues[q][n], d)
          BY <2>6, <4>1, <4>3
        <5>2. ~Of(queues[k][1], d)
          BY <2>4, <4>3, <5>1 DEF AnswerInv, QueuedOnce
        <5> QED BY <2>4, <5>1, <5>2 DEF Queued
      <4> QED BY <4>2, <4>3
    <3>5. ASSUME Held(d)' PROVE Held(d) \/ (Queued(d) /\ Of(m, d))
      <4>1. PICK u \in Tasks : held'[u] = d
        BY <3>5 DEF Held
      <4>2. CASE u = t
        <5>1. held'[t] = IF m.expects THEN m.id ELSE 0
          BY <2>2, <2>3
        <5>2. m.expects /\ m.id = d
          BY <4>1, <4>2, <5>1, NoMessage
        <5> QED BY <2>5, <3>3, <5>2 DEF Of
      <4>3. CASE u # t
        BY <2>2, <2>3, <4>1, <4>3 DEF Held
      <4> QED BY <4>2, <4>3
    <3> QED BY <3>1, <3>2, <3>3, <3>4, <3>5
  <2>8. OnePlace' /\ Unanswered'
    <3>1. \A d \in DeviceIds :
            /\ Present(d)' => Present(d)
            /\ Waiting(d)' => Waiting(d) /\ ~Routing(d)' /\ ~Queued(d)' /\ ~Held(d)'
            /\ Routing(d)' => ~Queued(d)' /\ ~Held(d)'
            /\ Queued(d)' => ~Held(d)'
      BY <2>7 DEF AnswerInv, OnePlace, Present
    <3> QED BY <2>2, <3>1, AnswerMove
  <2>9. QueuedOnce'
    <3> SUFFICES ASSUME NEW d \in DeviceIds, NEW p \in QueueIds, NEW q \in QueueIds,
                        NEW i \in 1..Len(queues'[p]), NEW j \in 1..Len(queues'[q]),
                        Of(queues'[p][i], d), Of(queues'[q][j], d)
                 PROVE  p = q /\ i = j
      BY DEF QueuedOnce
    <3>1. i \in Nat /\ j \in Nat
      OBVIOUS
    <3>2. PICK a \in 1..Len(queues[p]) :
              Of(queues[p][a], d) /\ a = IF p = k THEN i + 1 ELSE i
      BY <2>6
    <3>3. PICK b \in 1..Len(queues[q]) :
              Of(queues[q][b], d) /\ b = IF q = k THEN j + 1 ELSE j
      BY <2>6
    <3>4. p = q /\ a = b
      BY <3>2, <3>3 DEF AnswerInv, QueuedOnce
    <3> QED BY <3>1, <3>2, <3>3, <3>4
  <2>10. HeldOnce'
    <3> SUFFICES ASSUME NEW d \in DeviceIds, NEW u \in Tasks, NEW v \in Tasks,
                        held'[u] = d, held'[v] = d, u # v
                 PROVE  FALSE
      BY DEF HeldOnce
    <3>1. CASE u # t /\ v # t
      <4>1. held[u] = d /\ held[v] = d
        BY <2>2, <2>3, <3>1
      <4> QED BY <4>1 DEF AnswerInv, HeldOnce
    <3>2. CASE u = t \/ v = t
      <4>1. PICK w \in Tasks : w # t /\ held'[w] = d /\ held'[t] = d
        BY <3>2
      <4>2. held[w] = d /\ (held'[t] = IF m.expects THEN m.id ELSE 0)
        BY <2>2, <2>3, <4>1
      <4>3. Of(m, d)
        BY <2>5, <4>1, <4>2, NoMessage DEF Of
      <4>4. Queued(d) /\ Held(d)
        BY <2>7, <4>2, <4>3 DEF Held
      <4> QED BY <4>4 DEF AnswerInv, OnePlace
    <3> QED BY <3>1, <3>2
  <2>11. OnWireOnce' /\ Requests'
    BY <2>2 DEF AnswerInv, OnWireOnce, Requests
  <2> QED BY <2>8, <2>9, <2>10, <2>11 DEF AnswerInv
<1> QED BY <1>1, <1>2

(***************************************************************************)
(* A step that answers message i, which leaves its place.                  *)
(***************************************************************************)
LEMMA AnswerWritten ==
    ASSUME TypeInv, AnswerInv, NEW i,
           i \in DeviceIds => Present(i) /\ ~Present(i)',
           answered' = [answered EXCEPT ![i] = answered[i] + 1],
           UNCHANGED <<inbound, queues, sent>>,
           rmsg' = rmsg \/ rmsg' = NoMsg, rpc' \in Answering => rmsg'.conv = 0,
           \A t \in Tasks : held'[t] = held[t] \/ held'[t] = 0
    PROVE  AnswerInv'
<1>1. \A d \in DeviceIds :
        /\ Waiting(d)' <=> Waiting(d)
        /\ Queued(d)' <=> Queued(d)
        /\ Held(d)' => Held(d)
        /\ Routing(d)' => Routing(d)
        /\ Present(d)' => Present(d)
  <2> SUFFICES ASSUME NEW d \in DeviceIds
               PROVE  /\ Waiting(d)' <=> Waiting(d)
                      /\ Queued(d)' <=> Queued(d)
                      /\ Held(d)' => Held(d)
                      /\ Routing(d)' => Routing(d)
                      /\ Present(d)' => Present(d)
    OBVIOUS
  <2>1. Waiting(d)' <=> Waiting(d)
    BY DEF Waiting
  <2>2. Queued(d)' <=> Queued(d)
    BY DEF Queued
  <2>3. Held(d)' => Held(d)
    BY NoMessage DEF Held
  <2>4. Routing(d)' => Routing(d)
    BY NoMessage DEF Routing
  <2> QED BY <2>1, <2>2, <2>3, <2>4 DEF Present
<1>2. OnePlace'
  BY <1>1 DEF AnswerInv, OnePlace
<1>3. OnWireOnce' /\ QueuedOnce'
  BY DEF AnswerInv, OnWireOnce, QueuedOnce
<1>4. HeldOnce'
  BY NoMessage DEF AnswerInv, HeldOnce
<1>5. Unanswered'
  <2> SUFFICES ASSUME NEW d \in DeviceIds
               PROVE  /\ answered'[d] <= 1
                      /\ Present(d)' => answered'[d] = 0
                      /\ d > sent' => answered'[d] = 0 /\ ~Present(d)'
    BY DEF Unanswered
  <2>1. answered \in [DeviceIds -> Nat]
    BY DEF TypeInv, DeviceTypeOK
  <2>2. /\ answered[d] <= 1 /\ (Present(d) => answered[d] = 0)
        /\ d > sent => answered[d] = 0 /\ ~Present(d)
    BY DEF AnswerInv, Unanswered
  <2>3. CASE d = i
    <3>1. answered'[d] = answered[d] + 1 /\ answered[d] = 0 /\ Present(d) /\ ~Present(d)'
      BY <2>1, <2>2, <2>3
    <3> QED BY <2>2, <3>1
  <2>4. CASE d # i
    <3>1. answered'[d] = answered[d]
      BY <2>1, <2>4
    <3> QED BY <1>1, <2>2, <3>1
  <2> QED BY <2>3, <2>4
<1>6. Requests'
  BY NoMessage DEF AnswerInv, Requests, Answering
<1> QED BY <1>2, <1>3, <1>4, <1>5, <1>6 DEF AnswerInv

LEMMA ReaderAnswers ==
    ASSUME TypeInv, AnswerInv, rpc \in Answering, NextFrame,
           answered' = [answered EXCEPT ![rmsg.id] = answered[rmsg.id] + 1],
           UNCHANGED <<inbound, queues, sent, held>>
    PROVE  AnswerInv'
<1>1. rmsg.conv = 0 /\ rmsg' = NoMsg
  BY DEF AnswerInv, Requests, Answering, NextFrame
<1>2. ASSUME NEW d \in DeviceIds, d = rmsg.id PROVE Present(d) /\ ~Present(d)'
  <2>1. Routing(d)
    BY <1>1, <1>2 DEF Routing, Of
  <2>2. ~Waiting(d) /\ ~Queued(d) /\ ~Held(d)
    BY <2>1 DEF AnswerInv, OnePlace
  <2>3. ~Waiting(d)' /\ ~Queued(d)' /\ ~Held(d)'
    BY <2>2 DEF Waiting, Queued, Held
  <2>4. ~Routing(d)'
    BY <1>1, NoMessage DEF Routing
  <2> QED BY <2>1, <2>3, <2>4 DEF Present
<1>3. PICK i : i = rmsg.id
  OBVIOUS
<1>4. answered' = [answered EXCEPT ![i] = answered[i] + 1]
  BY <1>3
<1>5. rpc' \notin Answering
  BY DEF NextFrame, Answering
<1> QED BY <1>1, <1>2, <1>3, <1>4, <1>5, AnswerWritten

LEMMA TaskAnswers ==
    ASSUME TypeInv, AnswerInv, NEW t \in Tasks, SendRawReplyFor(t) PROVE AnswerInv'
<1>0. held \in [Tasks -> 0..MaxDevice]
  BY DEF TypeInv, TaskInv, TaskTypeOK
<1>1. /\ held[t] # 0 /\ held' = [held EXCEPT ![t] = 0]
      /\ UNCHANGED <<rpc, rmsg, inbound, queues, sent>>
  BY DEF SendRawReplyFor, chanVars, readerVars
<1>2. \A u \in Tasks : (u # t => held'[u] = held[u]) /\ (u = t => held'[u] = 0)
  BY <1>0, <1>1
<1>3. rpc' \in Answering => rmsg'.conv = 0
  BY <1>1 DEF AnswerInv, Requests, Answering
<1>4. PICK i : i = held[t]
  OBVIOUS
<1>5. ASSUME NEW d \in DeviceIds, d = i PROVE Present(d) /\ ~Present(d)'
  <2>1. Held(d)
    BY <1>4, <1>5 DEF Held
  <2>2. ~Waiting(d) /\ ~Queued(d) /\ ~Routing(d)
    BY <2>1 DEF AnswerInv, OnePlace
  <2>3. ~Waiting(d)' /\ ~Queued(d)' /\ ~Routing(d)'
    BY <1>1, <2>2 DEF Waiting, Queued, Routing
  <2>4. \A u \in Tasks : held[u] = d => u = t
    BY <1>4, <1>5 DEF AnswerInv, HeldOnce
  <2>5. ~Held(d)'
    BY <1>2, <2>4, NoMessage DEF Held
  <2> QED BY <2>1, <2>3, <2>5 DEF Present
<1>6. CASE answered' = [answered EXCEPT ![held[t]] = @ + 1]
  <2>1. answered' = [answered EXCEPT ![i] = answered[i] + 1]
    BY <1>4, <1>6
  <2>2. \A u \in Tasks : held'[u] = held[u] \/ held'[u] = 0
    BY <1>2
  <2> QED BY <1>1, <1>3, <1>5, <2>1, <2>2, AnswerWritten
\* The reply could not be written: the message is gone, unanswered.
<1>7. CASE UNCHANGED answered
  <2>1. \A d \in DeviceIds :
          /\ Waiting(d)' <=> Waiting(d)
          /\ Queued(d)' <=> Queued(d)
          /\ Routing(d)' <=> Routing(d)
          /\ Held(d)' => Held(d)
    <3> SUFFICES ASSUME NEW d \in DeviceIds
                 PROVE  /\ Waiting(d)' <=> Waiting(d)
                        /\ Queued(d)' <=> Queued(d)
                        /\ Routing(d)' <=> Routing(d)
                        /\ Held(d)' => Held(d)
      OBVIOUS
    <3>1. (Waiting(d)' <=> Waiting(d)) /\ (Queued(d)' <=> Queued(d))
      BY <1>1 DEF Waiting, Queued
    <3>2. Routing(d)' <=> Routing(d)
      BY <1>1 DEF Routing
    <3>3. Held(d)' => Held(d)
      BY <1>2, NoMessage DEF Held
    <3> QED BY <3>1, <3>2, <3>3
  <2>2. OnePlace' /\ Unanswered'
    <3>1. \A d \in DeviceIds :
            /\ Present(d)' => Present(d)
            /\ Waiting(d)' => Waiting(d) /\ ~Routing(d)' /\ ~Queued(d)' /\ ~Held(d)'
            /\ Routing(d)' => ~Queued(d)' /\ ~Held(d)'
            /\ Queued(d)' => ~Held(d)'
      BY <2>1 DEF AnswerInv, OnePlace, Present
    <3> QED BY <1>1, <1>7, <3>1, AnswerMove
  <2>3. HeldOnce'
    BY <1>2, NoMessage DEF AnswerInv, HeldOnce
  <2>4. OnWireOnce' /\ QueuedOnce' /\ Requests'
    BY <1>1 DEF AnswerInv, OnWireOnce, QueuedOnce, Requests
  <2> QED BY <2>2, <2>3, <2>4 DEF AnswerInv
<1> QED BY <1>6, <1>7 DEF SendRawReplyFor

\* The device sends one more message: an answer, or one with a new identifier.
LEMMA AnswerSent ==
    ASSUME TypeInv, AnswerInv, NEW m \in Message, inbound' = Append(inbound, m),
           m.sel = "request" => m.conv = 0,
           UNCHANGED <<queues, held, answered, rpc, rmsg>>,
           \/ m.conv = 1 /\ UNCHANGED sent
           \/ m.conv = 0 /\ sent' = sent + 1 /\ m.id = sent'
    PROVE  AnswerInv'
<1>1. inbound \in Seq(Message) /\ sent \in Nat
  BY Constants DEF TypeInv, DeviceTypeOK
<1>2. /\ Len(inbound') = Len(inbound) + 1
      /\ \A n \in 1..Len(inbound') :
            \/ n \in 1..Len(inbound) /\ inbound'[n] = inbound[n]
            \/ n = Len(inbound) + 1 /\ inbound'[n] = m
  BY <1>1
<1>3. \A d \in DeviceIds : Of(m, d) => d > sent /\ ~(d > sent') /\ ~Present(d)
  <2> SUFFICES ASSUME NEW d \in DeviceIds, Of(m, d)
               PROVE  d > sent /\ ~(d > sent') /\ ~Present(d)
    OBVIOUS
  <2>1. d = sent + 1 /\ sent' = sent + 1
    BY DEF Of
  <2>2. d > sent /\ ~(d > sent')
    BY <1>1, <2>1
  <2> QED BY <2>2 DEF AnswerInv, Unanswered
<1>4. \A d \in DeviceIds : d > sent' => d > sent
  BY <1>1, Constants DEF DeviceIds
<1>5. \A d \in DeviceIds :
        /\ Waiting(d)' => Waiting(d) \/ Of(m, d)
        /\ Queued(d)' <=> Queued(d)
        /\ Routing(d)' <=> Routing(d)
        /\ Held(d)' <=> Held(d)
  <2> SUFFICES ASSUME NEW d \in DeviceIds
               PROVE  /\ Waiting(d)' => Waiting(d) \/ Of(m, d)
                      /\ Queued(d)' <=> Queued(d)
                      /\ Routing(d)' <=> Routing(d)
                      /\ Held(d)' <=> Held(d)
    OBVIOUS
  <2>1. Waiting(d)' => Waiting(d) \/ Of(m, d)
    BY <1>2 DEF Waiting
  <2>2. Queued(d)' <=> Queued(d)
    BY DEF Queued
  <2>3. (Routing(d)' <=> Routing(d)) /\ (Held(d)' <=> Held(d))
    BY DEF Routing, Held
  <2> QED BY <2>1, <2>2, <2>3
<1>6. OnePlace'
  BY <1>3, <1>5 DEF AnswerInv, OnePlace, Present
<1>7. OnWireOnce'
  <2> SUFFICES ASSUME NEW d \in DeviceIds, NEW i \in 1..Len(inbound'),
                      NEW j \in 1..Len(inbound'), Of(inbound'[i], d), Of(inbound'[j], d)
               PROVE  i = j
    BY DEF OnWireOnce
  <2>1. CASE Of(m, d)
    <3>1. ~Waiting(d)
      BY <1>3, <2>1 DEF Present
    <3> QED BY <1>2, <3>1 DEF Waiting
  <2>2. CASE ~Of(m, d)
    <3>1. /\ i \in 1..Len(inbound) /\ inbound'[i] = inbound[i]
          /\ j \in 1..Len(inbound) /\ inbound'[j] = inbound[j]
      BY <1>2, <2>2
    <3> QED BY <3>1 DEF AnswerInv, OnWireOnce
  <2> QED BY <2>1, <2>2
<1>8. QueuedOnce' /\ HeldOnce'
  BY DEF AnswerInv, QueuedOnce, HeldOnce
<1>9. Unanswered'
  <2> SUFFICES ASSUME NEW d \in DeviceIds
               PROVE  /\ answered'[d] <= 1
                      /\ Present(d)' => answered'[d] = 0
                      /\ d > sent' => answered'[d] = 0 /\ ~Present(d)'
    BY DEF Unanswered
  <2>1. /\ answered[d] <= 1 /\ (Present(d) => answered[d] = 0)
        /\ d > sent => answered[d] = 0 /\ ~Present(d)
    BY DEF AnswerInv, Unanswered
  <2>2. Present(d)' => Present(d) \/ Of(m, d)
    BY <1>5 DEF Present
  <2> QED BY <1>3, <1>4, <2>1, <2>2
<1>10. Requests'
  BY <1>2 DEF AnswerInv, Requests
<1> QED BY <1>6, <1>7, <1>8, <1>9, <1>10 DEF AnswerInv

LEMMA AnswerDevice == ASSUME TypeInv, AnswerInv, Device PROVE AnswerInv'
<1>1. CASE DeviceReply
  <2>1. PICK r \in outstanding :
          /\ inbound' = Append(inbound, Reply(r[1], r[2]))
          /\ UNCHANGED <<queues, held, answered, rpc, rmsg, sent>>
    BY <1>1 DEF DeviceReply, taskVars, chanVars, readerVars
  <2>2. PICK m : m = Reply(r[1], r[2])
    OBVIOUS
  <2>3. m \in Message /\ m.conv = 1 /\ m.sel # "request"
    <3>1. r[1] \in Ids /\ r[2] \in Codes
      BY <2>1 DEF TypeInv, DeviceTypeOK
    <3> QED BY <2>2, <3>1, Constants DEF Reply, Message, Selectors
  <2> QED BY <2>1, <2>2, <2>3, AnswerSent
<1>2. ASSUME NEW c \in Codes, NEW s \in Selectors, NEW a \in Codes, NEW e \in BOOLEAN,
             DeviceOriginates(c, s, a, e)
      PROVE  AnswerInv'
  <2>1. /\ sent < MaxDevice /\ sent' = sent + 1
        /\ inbound' = Append(inbound, [conv |-> 0, id |-> sent', chan |-> c, sel |-> s,
                                       arg |-> a, expects |-> e])
        /\ UNCHANGED <<queues, held, answered, rpc, rmsg>>
    BY <1>2 DEF DeviceOriginates, taskVars, chanVars, readerVars
  <2>2. PICK m : m = [conv |-> 0, id |-> sent', chan |-> c, sel |-> s, arg |-> a,
                      expects |-> e]
    OBVIOUS
  <2>3. sent' \in 0..MaxDevice
    BY <2>1, Constants DEF TypeInv, DeviceTypeOK
  <2>4. m \in Message /\ m.conv = 0 /\ m.id = sent'
    BY <2>2, <2>3 DEF Message
  <2> QED BY <2>1, <2>2, <2>4, AnswerSent
<1>3. CASE DeviceCloses
  BY <1>3, KeepsSame, AnswerQuiet DEF DeviceCloses, taskVars, chanVars
<1> QED
  BY <1>1, <1>2, <1>3, Constants
     DEF Device, DeviceInvokes, DeviceRequestsChannel, DeviceCancelsChannel,
         DevicePublishesCapabilities, Selectors

LEMMA AnswerReader ==
    ASSUME TypeInv, AnswerInv, Reader \/ DropClient PROVE AnswerInv'
<1> USE AnswerQuiet, KeepsSame
<1>1. CASE DispatchPendingReply
  <2>1. ReaderKeeps
    BY <1>1 DEF DispatchPendingReply, Answering
  <2> QED BY <1>1, <2>1 DEF DispatchPendingReply, taskVars, chanVars, deviceVars
<1>2. CASE HandleControlMessage
  <2>1. ReaderKeeps
    <3>1. CASE NextFrame
      BY <3>1
    <3>2. CASE rpc' = "register" /\ UNCHANGED rmsg
      <4>1. rmsg.sel = "request"
        BY <1>2, <3>2 DEF HandleControlMessage, NextFrame
      <4> QED BY <3>2, <4>1 DEF ReaderKeeps, AnswerInv, Requests
    <3>3. CASE rpc' \in {"cancel", "enqueue", "handler"} /\ UNCHANGED rmsg
      BY <3>3 DEF Answering
    <3> QED BY <1>2, <3>1, <3>2, <3>3 DEF HandleControlMessage
  <2> QED BY <1>2, <2>1 DEF HandleControlMessage, taskVars, chanVars, deviceVars
<1>3. CASE RegisterIncomingMetadata
  <2>1. ReaderKeeps
    BY <1>3 DEF RegisterIncomingMetadata, Answering
  <2> QED BY <1>3, <2>1 DEF RegisterIncomingMetadata, deviceVars
<1>4. CASE RegisterIncomingQueue
  <2>1. ReaderKeeps
    BY <1>4 DEF RegisterIncomingQueue, Answering
  <2> QED BY <1>4, <2>1 DEF RegisterIncomingQueue, taskVars, deviceVars
<1>5. CASE RunInitializer
  <2>1. ReaderKeeps
    BY <1>5 DEF RunInitializer, Answering
  <2> QED BY <1>5, <2>1 DEF RunInitializer, taskVars, deviceVars
<1>6. CASE AckIncomingChannel
  <2>1. rpc \in Answering /\ NextFrame /\ UNCHANGED <<inbound, queues, sent, held>>
    BY <1>6 DEF AckIncomingChannel, Answering, chanVars
  <2>2. CASE UNCHANGED answered
    BY <2>1, <2>2
  <2>3. CASE answered' = [answered EXCEPT ![rmsg.id] = @ + 1]
    BY <2>1, <2>3, ReaderAnswers
  <2> QED BY <1>6, <2>2, <2>3 DEF AckIncomingChannel
<1>7. CASE RemoveChannelHandler \/ RemoveChannelQueue
  <2>1. ReaderKeeps
    BY <1>7 DEF RemoveChannelHandler, RemoveChannelQueue, Answering
  <2> QED BY <1>7, <2>1 DEF RemoveChannelHandler, RemoveChannelQueue, taskVars, deviceVars
<1>8. CASE RemoveChannelMetadata
  BY <1>8 DEF RemoveChannelMetadata, deviceVars
<1>9. CASE LookupHandler
  <2>1. ReaderKeeps
    BY <1>9 DEF LookupHandler, ReaderKeeps, Answering
  <2> QED BY <1>9, <2>1 DEF LookupHandler, taskVars, chanVars, deviceVars
<1>10. CASE HandlerDeclines
  <2>1. ReaderKeeps
    BY <1>10 DEF HandlerDeclines, Answering
  <2> QED BY <1>10, <2>1 DEF HandlerDeclines, taskVars, chanVars, deviceVars
<1>11. CASE HandlerHandles
  <2>1. rpc \in Answering /\ NextFrame /\ UNCHANGED <<inbound, queues, sent, held>>
    BY <1>11 DEF HandlerHandles, Answering, chanVars, taskVars
  <2>2. CASE UNCHANGED answered
    BY <2>1, <2>2
  <2>3. CASE answered' = [answered EXCEPT ![rmsg.id] = @ + 1]
    BY <2>1, <2>3, ReaderAnswers
  <2> QED BY <1>11, <2>2, <2>3 DEF HandlerHandles
<1>12. CASE FailPendingReplies
  <2>1. ReaderKeeps
    BY <1>12 DEF FailPendingReplies, Answering
  <2> QED BY <1>12, <2>1 DEF FailPendingReplies, taskVars, chanVars, deviceVars
<1>13. CASE StoreClosed
  <2>1. ReaderKeeps
    BY <1>13 DEF StoreClosed, Answering
  <2> QED BY <1>13, <2>1 DEF StoreClosed, chanVars, deviceVars
<1>14. CASE DropClient
  <2>1. ReaderKeeps
    BY <1>14, NoMessage DEF DropClient, ReaderKeeps, Answering
  <2> QED BY <1>14, <2>1 DEF DropClient, taskVars, chanVars, deviceVars
<1> QED
  BY <1>1, <1>2, <1>3, <1>4, <1>5, <1>6, <1>7, <1>8, <1>9, <1>10, <1>11, <1>12, <1>13,
     <1>14, AnswerReadFrame, AnswerEnqueue DEF Reader

LEMMA AnswerTasks ==
    ASSUME TypeInv, AnswerInv, NEW t \in Tasks, Operation(t) \/ Progress(t)
    PROVE  AnswerInv'
<1> USE AnswerQuiet, KeepsSame
<1>1. ASSUME NEW c, CallMethodWithReply(t, c) \/ CallMethod(t, c) PROVE AnswerInv'
  BY <1>1 DEF CallMethodWithReply, CallMethod, chanVars, deviceVars
<1>2. ASSUME NEW c, StartRead(t, c) \/ StartWait(t, c) PROVE AnswerInv'
  BY <1>2 DEF StartRead, StartWait, chanVars, deviceVars
<1>3. ASSUME NEW c, SetIncomingHandler(t, c) \/ ClearIncomingHandler(t, c)
                    \/ RegisterInitializer(t, c)
      PROVE  AnswerInv'
  BY <1>3 DEF SetIncomingHandler, ClearIncomingHandler, RegisterInitializer, taskVars,
              deviceVars
<1>4. CASE MakeChannel(t) \/ MakeChannelEnsure(t)
  BY <1>4 DEF MakeChannel, MakeChannelEnsure, deviceVars
<1>5. CASE MakeChannelRequest(t) \/ StartDisconnectWait(t) \/ Abandon(t)
  BY <1>5 DEF MakeChannelRequest, StartDisconnectWait, Abandon, chanVars, deviceVars
<1>6. CASE WriteOk(t)
  BY <1>6 DEF WriteOk, chanVars
<1>7. CASE WriteErr(t) \/ ReceiveDropped(t)
  BY <1>7 DEF WriteErr, ReceiveDropped, chanVars, deviceVars
<1>8. CASE ReceiveReply(t) \/ FindChannelCode(t)
  BY <1>8 DEF ReceiveReply, FindChannelCode, deviceVars
<1>9. CASE GetChannelQueue(t) \/ CheckClosed(t) \/ Park(t)
  BY <1>9 DEF GetChannelQueue, CheckClosed, Park, chanVars, deviceVars
<1>10. CASE WakeEvent(t) \/ WakeClosed(t)
  BY <1>10 DEF WakeEvent, WakeClosed, chanVars, deviceVars
<1> QED
  BY <1>1, <1>2, <1>3, <1>4, <1>5, <1>6, <1>7, <1>8, <1>9, <1>10, AnswerPop, TaskAnswers
     DEF Operation, Progress

LEMMA AnswerStep == TypeInv /\ AnswerInv /\ [Next]_vars => AnswerInv'
<1> SUFFICES ASSUME TypeInv, AnswerInv, [Next]_vars PROVE AnswerInv'
  OBVIOUS
<1>1. CASE UNCHANGED vars
  BY <1>1, KeepsSame, AnswerQuiet DEF vars, taskVars, chanVars, deviceVars
<1> QED BY <1>1, AnswerTasks, AnswerReader, AnswerDevice DEF Next

(***************************************************************************)
(* dispatch_to_handler, handle_control_message and send_raw_reply_for: no  *)
(* message of the device is answered twice, however many tasks read the    *)
(* channels and whenever handlers come and go.                             *)
(***************************************************************************)
THEOREM AnsweredOnce == Spec => []AnsweredAtMostOnce
<1>1. ASSUME TypeInv, AnswerInv PROVE AnsweredAtMostOnce
  <2>1. \A t \in Tasks : held[t] # 0 => held[t] \in DeviceIds
    BY <1>1, Constants DEF TypeInv, TaskInv, TaskTypeOK, DeviceIds
  <2>2. \A t \in Tasks : held[t] # 0 => answered[held[t]] = 0
    BY <1>1, <2>1 DEF AnswerInv, Unanswered, Present, Held
  <2> QED BY <1>1, <2>2 DEF AnswerInv, Unanswered, AnsweredAtMostOnce
<1>2. Spec => []AnswerInv
  BY AnswerInit, AnswerStep, TypeInvariant, PTL DEF Spec
<1> QED BY <1>1, <1>2, TypeInvariant, PTL
=============================================================================
