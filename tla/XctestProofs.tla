---------------------------- MODULE XctestProofs ----------------------------
(***************************************************************************)
(* Proofs about an XCTest run, for any versions, number of messages, polls *)
(* and attempts, and on any number of threads.                             *)
(***************************************************************************)
EXTENDS XctestRun, SequenceTheorems, TLAPS

(***************************************************************************)
(* The connection being opened: what the client believes of the device's   *)
(* notification is what the reader has seen, and rsd_connect returns Ok    *)
(* only after it has sent the host's capabilities.                         *)
(***************************************************************************)
HandshakeInv ==
  /\ already \in BOOLEAN /\ (already => hello = "seen")
  /\ identifiers = "received" => hello = "seen"
  /\ hpc = "done" /\ outcome = "ok" /\ mode = "rsd" => offered /\ hello = "seen"
  /\ hpc \in {"look", "check", "park", "parked"} /\ mode = "rsd" => offered

Opens == {"lockdown", "exchanged", "silent"}
StackType == [at : {"idle", "dial", "failed", "done"}, tries : Nat, open : Seq(Opens)]

(* Opened connections, and the function that opens the next one.           *)
StackInv ==
  /\ ver \in Nat
  /\ stack \in StackType
  /\ pc \in {"idle", "version"} => stack = NoStack
  /\ stack.at \in {"idle", "dial"} => Len(stack.open) < 3
  /\ stack.at = "done" => Len(stack.open) = 3
  /\ stack.at = "dial" => mode = Mode
  /\ ver >= 17 => \A i \in 2 .. Len(stack.open) : stack.open[i] = "exchanged"

-----------------------------------------------------------------------------
(* The session                                                             *)

Message == [kind : Session!Kinds, expects : BOOLEAN]

TrafficTypeOK ==
  /\ sent \in Seq(Message) /\ Len(sent) <= MaxMessages
  /\ wire \in Seq(Nat) /\ queue \in Seq(Nat) /\ seen \in Seq(Nat)
  /\ replies \in [Session!Indices -> Nat]

Due(i) == IF sent[i].expects THEN 1 ELSE 0

(* What the bootstrap handler has taken: answered, or its answer could not *)
(* be written any more.                                                    *)
Taken(i) ==
  /\ sent[i].kind \in Session!Bootstrap
  /\ replies[i] = Due(i) \/ (runner = "gone" /\ replies[i] = 0)

In(i, s) == \E a \in 1 .. Len(s) : s[a] = i

(* Everything seen comes before everything queued, and that before what is *)
(* on the wire; each in the order in which the runner sent it.             *)
Increasing(s) == \A a, b \in 1 .. Len(s) : a < b => s[a] < s[b]
Before(s, t) == \A a \in 1 .. Len(s), b \in 1 .. Len(t) : s[a] < t[b]
InOrder ==
  /\ Increasing(seen) /\ Increasing(queue) /\ Increasing(wire)
  /\ Before(seen, queue) /\ Before(seen, wire) /\ Before(queue, wire)

(* Indices are those of messages; 0 is only on the wire.  There is no      *)
(* runner before it is launched, and it sends nothing before it has asked  *)
(* for its channel.                                                        *)
BeforeLaunch ==
  {"idle", "version", "connect", "handlers", "init_ctrl", "init_main", "launch"}
NotUp == {"none", "launched", "authorized"}
Indexed ==
  /\ \A a \in 1 .. Len(seen) : seen[a] \in 1 .. Len(sent)
  /\ \A a \in 1 .. Len(queue) : queue[a] \in 1 .. Len(sent)
  /\ \A a \in 1 .. Len(wire) : wire[a] \in 0 .. Len(sent)
  /\ pc \in BeforeLaunch => runner = "none"
  /\ runner \in NotUp =>
       sent = <<>> /\ wire = <<>> /\ queue = <<>> /\ seen = <<>>

(* Nothing is answered before its turn.                                    *)
Accounted ==
  /\ \A i \in 1 .. Len(sent) :
       \/ In(i, seen) \/ In(i, queue) \/ In(i, wire)
       \/ Taken(i)
  /\ \A a \in 1 .. Len(queue) : replies[queue[a]] = 0
  /\ \A a \in 1 .. Len(wire) : wire[a] > 0 => replies[wire[a]] = 0
  /\ \A i \in Session!Indices : i > Len(sent) => replies[i] = 0

(* A run that has not failed has answered everything it has seen, and one  *)
(* that has returned Ok has seen the end of the plan.                      *)
Served ==
  /\ result \in {"none", "ok"} => \A a \in 1 .. Len(seen) : replies[seen[a]] = Due(seen[a])
  /\ result = "ok" => \E a \in 1 .. Len(seen) : sent[seen[a]].kind = "finish"
  /\ result # "none" => pc = "returned"

TrafficInv == TrafficTypeOK /\ InOrder /\ Indexed /\ Accounted /\ Served

WdaInv ==
  /\ wda \in [at : {"idle", "poll", "ready", "failed"}, polls : Nat,
              task : {"none", "running", "joined", "aborted"}]
  /\ FailedWdaLeavesNoTask

-----------------------------------------------------------------------------
(* A step of the run is one of the session or leaves the session alone.    *)

LEMMA NextRefines == [Next]_vars => [Session!Next]_session
<1> SUFFICES ASSUME [Next]_vars PROVE [Session!Next]_session OBVIOUS
<1>1. CASE UNCHANGED vars
  BY <1>1 DEF vars
<1>2. CASE Connecting
  <2>1. CASE StackReturns
    BY <2>1 DEF StackReturns, Session!Next, Session!RunNext
  <2>2. CASE BeginStack \/ HandshakeStep \/ DialDvtByLockdown \/ HandshakeEnds \/ RetryStack
    BY <2>2 DEF BeginStack, HandshakeStep, DialDvtByLockdown, HandshakeEnds, RetryStack
  <2> QED BY <1>2, <2>1, <2>2 DEF Connecting
<1>3. CASE PeerStep
  BY <1>3 DEF PeerStep
<1>4. CASE Session!RunSteps
  BY <1>4 DEF Session!Next, Session!RunNext
<1>5. CASE Session!Others
  BY <1>5 DEF Session!Next
<1> QED BY <1>1, <1>2, <1>3, <1>4, <1>5 DEF Next

-----------------------------------------------------------------------------
(* The handshake of one connection                                         *)

LEMMA FreshHandshake ==
    ASSUME NEW m, Fresh(m) PROVE HandshakeInv' /\ mode' = m
  BY DEF Fresh, HandshakeInv

LEMMA HandshakeSteps ==
    ASSUME HandshakeInv, H!Client \/ H!Reader \/ H!Device
    PROVE  HandshakeInv' /\ mode' = mode
<1> USE DEF H!clientVars, H!connVars, H!peerVars, H!Return, H!Goto, H!Fail, HandshakeInv
<1>1. CASE H!Connect
  <2>1. /\ already' = FALSE /\ identifiers' = "pending" /\ mode' = mode
        /\ hpc' \in {"look", "snapshot"} /\ (mode = "rsd" => hpc' = "snapshot")
    BY <1>1 DEF H!Connect
  <2> QED BY <2>1
<1>2. CASE H!ConnectFails BY <1>2 DEF H!ConnectFails
<1>3. CASE H!Snapshot
  <2>1. /\ already' = (identifiers = "received") /\ hpc' = "store"
        /\ UNCHANGED <<mode, identifiers, offered, hello>>
    BY <1>3 DEF H!Snapshot
  <2>2. already' \in BOOLEAN /\ (already' => hello' = "seen")
    BY <2>1
  <2> QED BY <2>1, <2>2
<1>4. CASE H!StoreState
  <2>1. /\ identifiers' = IF already THEN "received" ELSE "pending"
        /\ hpc' = "send" /\ UNCHANGED <<already, mode, offered, hello>>
    BY <1>4 DEF H!StoreState
  <2>2. identifiers' = "received" => already
    BY <2>1
  <2> QED BY <2>1, <2>2
<1>5. CASE H!SendCapabilities \/ H!SendFails BY <1>5 DEF H!SendCapabilities, H!SendFails
<1>6. CASE H!Look \/ H!CheckClosed \/ H!Park BY <1>6 DEF H!Look, H!CheckClosed, H!Park
<1>7. CASE H!WakeHandshake \/ H!WakeClosed BY <1>7 DEF H!WakeHandshake, H!WakeClosed
<1>8. CASE H!TimeOut BY <1>8 DEF H!TimeOut
<1>9. CASE H!Reader BY <1>9 DEF H!Reader, H!ReceiveHello, H!ReaderExits
<1>10. CASE H!Device BY <1>10 DEF H!Device, H!DeviceHello, H!DeviceCloses
<1> QED
  BY <1>1, <1>2, <1>3, <1>4, <1>5, <1>6, <1>7, <1>8, <1>9, <1>10 DEF H!Client

(* Every step of the run takes a handshake one step further, starts a new  *)
(* one, or leaves it alone.                                                *)
LEMMA HandshakeOrFresh ==
    ASSUME [Next]_vars
    PROVE  H!Client \/ H!Reader \/ H!Device \/ (\E m : Fresh(m)) \/ UNCHANGED handshake
<1>1. CASE UNCHANGED vars
  BY <1>1 DEF vars
<1>2. CASE Connecting
  BY <1>2 DEF Connecting, BeginStack, HandshakeStep, DialDvtByLockdown, HandshakeEnds,
     RetryStack, StackReturns, Opened, Failed, Dial
<1>3. CASE PeerStep
  BY <1>3 DEF PeerStep
<1> QED BY <1>1, <1>2, <1>3 DEF Next

LEMMA HandshakeInvNext == HandshakeInv /\ [Next]_vars => HandshakeInv'
<1> SUFFICES ASSUME HandshakeInv, [Next]_vars PROVE HandshakeInv' OBVIOUS
<1>1. CASE UNCHANGED handshake
  BY <1>1 DEF handshake, HandshakeInv
<1> QED BY <1>1, HandshakeOrFresh, HandshakeSteps, FreshHandshake

LEMMA HandshakeInvInit == Init => HandshakeInv
  BY DEF Init, H!Init, HandshakeInv

-----------------------------------------------------------------------------
(* The stack of connections                                                *)

LEMMA StackTyped ==
    ASSUME StackInv
    PROVE  stack \in StackType /\ stack.open \in Seq(Opens) /\ stack.tries \in Nat
  BY DEF StackInv, StackType

(* What an assignment to a field makes of a stack.                         *)
LEMMA StackFields ==
    ASSUME NEW s \in StackType, NEW n \in Nat
    PROVE  /\ [s EXCEPT !.at = "failed", !.tries = n] \in StackType
           /\ [s EXCEPT !.at = "failed", !.tries = n].at = "failed"
           /\ [s EXCEPT !.at = "failed", !.tries = n].open = s.open
           /\ [s EXCEPT !.tries = n] \in StackType
           /\ [s EXCEPT !.tries = n].at = s.at
           /\ [s EXCEPT !.tries = n].open = s.open
  BY DEF StackType

LEMMA NoStackTyped == NoStack \in StackType /\ NoStack.at = "idle" /\ NoStack.open = <<>>
<1>1. <<>> \in Seq(Opens) OBVIOUS
<1> QED BY <1>1 DEF NoStack, StackType

LEMMA StackInvInit == Init => StackInv
  BY NoStackTyped DEF Init, Session!Init, StackInv

(* A step of the session other than the version's keeps the stack.         *)
LEMMA VersionKept ==
    ASSUME StackInv, [Session!Next]_session
    PROVE  /\ ver' \in Nat
           /\ ver' = ver \/ stack = NoStack
           /\ pc' \in {"idle", "version"} => pc \in {"idle", "version"}
<1> USE DEF Session!world, Session!traffic, Session!Go, Session!Return, Session!MayFail
<1>1. CASE UNCHANGED session
  BY <1>1 DEF session, StackInv
<1>2. CASE Session!GetVersion
  BY <1>2, BoundsAssumption DEF Session!GetVersion, StackInv
<1>3. CASE Session!Connect
  BY <1>3 DEF Session!Connect, StackInv
<1>4. CASE Session!RunSteps /\ ~Session!GetVersion
  BY <1>4 DEF StackInv, Session!RunSteps, Session!InstallHandlers, Session!InitSession,
     Session!Launch, Session!Authorize, Session!WaitChannel, Session!WaitTimeout,
     Session!StartPlan, Session!PlanReply, Session!ClearHandler, Session!Dispatch,
     Session!DispatchEnds
<1>5. CASE Session!Others
  BY <1>5 DEF StackInv, Session!Others, Session!Start, Session!ReaderNext,
     Session!RegisterChannel, Session!ReadMessage, Session!ReadEof,
     Session!RunnerOpensChannel, Session!RunnerStartsPlan, Session!RunnerExits,
     Session!RunnerSends, Session!WdaPoll, Session!WdaWait, Session!WdaAbort
<1> QED BY <1>1, <1>2, <1>3, <1>4, <1>5 DEF Session!Next, Session!RunNext

LEMMA SessionKeepsStack ==
    ASSUME StackInv, [Session!Next]_session, UNCHANGED <<stack, handshake>>
    PROVE  StackInv'
<1>1. mode' = mode BY DEF handshake
<1>2. CASE ver' = ver
  BY <1>1, <1>2, VersionKept DEF StackInv, Mode
<1>3. CASE stack = NoStack
  BY <1>1, <1>3, VersionKept, NoStackTyped DEF StackInv
<1> QED BY <1>2, <1>3, VersionKept

(* One more connection, of which an rsd one exchanged capabilities.        *)
LEMMA OpenedKeepsStack ==
    ASSUME StackInv, pc = "connect", stack.at = "dial", UNCHANGED session,
           NEW how \in Opens, Opened(how),
           ver >= 17 => Len(stack.open) = 0 \/ how = "exchanged"
    PROVE  StackInv'
<1> DEFINE s == [stack EXCEPT !.open = Append(stack.open, how)]
<1>1. pc' = pc /\ ver' = ver BY DEF session
<1>2. /\ stack.open \in Seq(Opens) /\ Len(stack.open) < 3 /\ ver \in Nat
      /\ stack \in StackType
  BY DEF StackInv, StackType, Opens
<1>3. /\ Append(stack.open, how) \in Seq(Opens)
      /\ Len(Append(stack.open, how)) = Len(stack.open) + 1
      /\ \A i \in 1 .. Len(stack.open) : Append(stack.open, how)[i] = stack.open[i]
      /\ Append(stack.open, how)[Len(stack.open) + 1] = how
  BY <1>2
<1>4. /\ s \in StackType
      /\ s.open = Append(stack.open, how)
  BY <1>2, <1>3 DEF StackType
<1>5. /\ Len(s.open) = Len(stack.open) + 1 /\ Len(stack.open) \in Nat
      /\ ver >= 17 => \A i \in 2 .. Len(s.open) : s.open[i] = "exchanged"
  <2>1. Len(s.open) = Len(stack.open) + 1 /\ Len(stack.open) \in Nat BY <1>2, <1>3, <1>4
  <2>2. ASSUME ver >= 17, NEW i \in 2 .. Len(s.open) PROVE s.open[i] = "exchanged"
    <3>1. CASE i = Len(stack.open) + 1 BY <1>3, <1>4, <2>1, <2>2, <3>1
    <3>2. CASE i # Len(stack.open) + 1
      <4>1. i \in 2 .. Len(stack.open) BY <2>1, <3>2
      <4>2. s.open[i] = stack.open[i] BY <1>3, <1>4, <4>1
      <4> QED BY <2>2, <4>1, <4>2 DEF StackInv
    <3> QED BY <3>1, <3>2
  <2> QED BY <2>1, <2>2
<1>6. CASE Len(s.open) = 3 /\ stack' = [s EXCEPT !.at = "done"]
  <2>1. /\ stack' \in StackType
        /\ stack'.at = "done" /\ stack'.open = s.open
    BY <1>4, <1>6 DEF StackType
  <2> HIDE DEF s
  <2> QED BY <1>1, <1>2, <1>5, <1>6, <2>1 DEF StackInv, StackType, Opens
<1>7. CASE Len(s.open) # 3 /\ Dial(s)
  <2>1. /\ stack' \in StackType
        /\ stack'.at = "dial" /\ stack'.open = s.open
    BY <1>4, <1>7 DEF Dial, StackType
  <2>2. mode' = Mode /\ Mode' = Mode
    BY <1>1, <1>7 DEF Dial, Fresh, Mode
  <2> HIDE DEF s
  <2>3. Len(s.open) < 3 BY <1>2, <1>5, <1>7
  <2> QED BY <1>1, <1>2, <1>5, <2>1, <2>2, <2>3 DEF StackInv, StackType, Opens
<1> QED BY <1>6, <1>7 DEF Opened

LEMMA FailedKeepsStack ==
    ASSUME StackInv, pc = "connect", UNCHANGED session, Failed PROVE StackInv'
<1>1. stack' = [stack EXCEPT !.at = "failed"] /\ pc' = pc /\ ver' = ver
  BY DEF Failed, session
<1>2. stack' \in StackType /\ stack'.at = "failed" /\ stack'.open = stack.open
  BY <1>1, StackTyped DEF StackType
<1> QED BY <1>1, <1>2 DEF StackInv

LEMMA StackInvNext == HandshakeInv /\ StackInv /\ [Next]_vars => StackInv'
<1> SUFFICES ASSUME HandshakeInv, StackInv, [Next]_vars PROVE StackInv' OBVIOUS
<1>1. CASE UNCHANGED vars
  BY <1>1, SessionKeepsStack DEF vars
<1>2. CASE BeginStack
  <2>1. pc' = pc /\ ver' = ver /\ pc = "connect" /\ stack.at = "idle"
    BY <1>2 DEF BeginStack, session
  <2>2. ASSUME NEW s \in {stack, [stack EXCEPT !.tries = @ + 1]}, Dial(s) PROVE StackInv'
    <3>1. /\ stack' = [s EXCEPT !.at = "dial"] /\ s.open = stack.open
          /\ stack' \in StackType
      BY <2>2 DEF Dial, StackInv, StackType, Opens
    <3>2. stack'.at = "dial" /\ stack'.open = stack.open
      BY <2>2, <3>1 DEF StackInv
    <3>3. mode' = Mode /\ Mode' = Mode
      BY <2>1, <2>2 DEF Dial, Fresh, Mode
    <3> QED BY <2>1, <3>1, <3>2, <3>3 DEF StackInv, StackType, Opens
  <2>3. CASE stack' = [stack EXCEPT !.at = "failed", !.tries = @ + 1]
    <3>1. /\ stack' \in StackType
          /\ stack'.at = "failed" /\ stack'.open = stack.open
      <4>1. stack.tries + 1 \in Nat BY StackTyped
      <4> QED BY <2>3, <4>1, StackTyped, StackFields
    <3> QED BY <2>1, <3>1 DEF StackInv, StackType, Opens
  <2> QED BY <1>2, <2>2, <2>3 DEF BeginStack
<1>3. CASE HandshakeStep \/ PeerStep
  <2>1. UNCHANGED <<session, stack>> /\ mode' = mode
    BY <1>3, HandshakeSteps DEF HandshakeStep, PeerStep
  <2> QED BY <2>1 DEF session, StackInv, Mode
<1>4. CASE DialDvtByLockdown
  <2>1. UNCHANGED session /\ pc = "connect" /\ stack.at = "dial" /\ Opening = "dvt"
    BY <1>4 DEF DialDvtByLockdown
  <2>2. ver >= 17 => Len(stack.open) = 0
    <3>1. stack.open \in Seq(Opens) /\ Len(stack.open) < 3
      BY <2>1 DEF StackInv, StackType, Opens
    <3> QED BY <2>1, <3>1 DEF Opening, Order
  <2> QED BY <1>4, <2>1, <2>2, OpenedKeepsStack, FailedKeepsStack DEF DialDvtByLockdown, Opens
<1>5. CASE HandshakeEnds
  <2>1. UNCHANGED session /\ pc = "connect" /\ stack.at = "dial" /\ hpc = "done"
    BY <1>5 DEF HandshakeEnds
  <2>2. CASE outcome = "ok" /\ Opened(IF offered /\ hello = "seen" THEN "exchanged" ELSE "silent")
    <3> DEFINE how == IF offered /\ hello = "seen" THEN "exchanged" ELSE "silent"
    <3>1. ver >= 17 => how = "exchanged"
      BY <2>1, <2>2 DEF StackInv, Mode, HandshakeInv
    <3>2. how \in Opens /\ Opened(how) BY <2>2 DEF Opens
    <3> HIDE DEF how
    <3> QED BY <2>1, <3>1, <3>2, OpenedKeepsStack
  <2> QED BY <1>5, <2>1, <2>2, FailedKeepsStack DEF HandshakeEnds
<1>6. CASE RetryStack
  <2>1. pc' = pc /\ ver' = ver /\ pc = "connect"
    BY <1>6 DEF RetryStack, session
  <2>2. stack' = [NoStack EXCEPT !.tries = stack.tries]
    BY <1>6 DEF RetryStack
  <2>3. /\ stack' \in StackType
        /\ stack'.at = "idle" /\ stack'.open = <<>>
    BY <2>2, NoStackTyped, StackTyped, StackFields
  <2> QED BY <2>1, <2>3 DEF StackInv, StackType, Opens
<1>7. CASE StackReturns
  <2>1. stack' = NoStack /\ Session!Connect BY <1>7 DEF StackReturns
  <2>2. ver' \in Nat
    BY <2>1 DEF Session!Connect, StackInv
  <2> QED BY <2>1, <2>2, NoStackTyped DEF StackInv
<1>8. CASE (Session!RunSteps \/ Session!Others) /\ UNCHANGED <<stack, handshake>>
  BY <1>8, SessionKeepsStack DEF Session!Next, Session!RunNext
<1> QED BY <1>1, <1>2, <1>3, <1>4, <1>5, <1>6, <1>7, <1>8 DEF Next, Connecting

(***************************************************************************)
(* A run on iOS 17 goes on only with testmanagerd connections that         *)
(* exchanged capabilities both ways, however many connections and stacks   *)
(* rsd_connect and connect_testmanagerd_rsd gave up before.                *)
(***************************************************************************)
THEOREM TestmanagerdHasExchanged == Spec => []TestmanagerdExchanged
<1>1. StackInv => TestmanagerdExchanged
  BY DEF StackInv, TestmanagerdExchanged
<1>2. HandshakeInv /\ StackInv /\ [Next]_vars => (HandshakeInv /\ StackInv)'
  BY HandshakeInvNext, StackInvNext
<1>3. Init => HandshakeInv /\ StackInv
  BY HandshakeInvInit, StackInvInit
<1> QED BY <1>1, <1>2, <1>3, PTL DEF Spec

-----------------------------------------------------------------------------
(* The messages of the runner                                              *)

LEMMA TailIs ==
    ASSUME NEW S, NEW s \in Seq(S), s # <<>>
    PROVE  /\ Tail(s) \in Seq(S) /\ Len(s) \in Nat \ {0} /\ Len(Tail(s)) = Len(s) - 1
           /\ \A a \in 1 .. Len(Tail(s)) : Tail(s)[a] = s[a + 1]
           /\ Head(s) = s[1] /\ s[1] \in S
  OBVIOUS

LEMMA AppendIs ==
    ASSUME NEW S, NEW s \in Seq(S), NEW e \in S
    PROVE  /\ Append(s, e) \in Seq(S) /\ Len(s) \in Nat /\ Len(Append(s, e)) = Len(s) + 1
           /\ \A a \in 1 .. Len(s) : Append(s, e)[a] = s[a]
           /\ Append(s, e)[Len(s) + 1] = e
  OBVIOUS

LEMMA TrafficInvInit == Session!Init => TrafficInv
<1> SUFFICES ASSUME Session!Init PROVE TrafficInv OBVIOUS
<1>1. TrafficTypeOK
  BY BoundsAssumption DEF Session!Init, TrafficTypeOK, Session!Indices
<1> QED
  BY <1>1 DEF Session!Init, TrafficInv, InOrder, Indexed, Accounted, Served, Increasing,
              Before, In, Session!Indices

(* A step that leaves the messages alone.                                  *)
LEMMA Aside ==
    ASSUME TrafficInv, UNCHANGED Session!traffic,
           runner' = runner \/ (runner' \in NotUp => runner \in NotUp),
           pc' \in BeforeLaunch => runner' = "none", runner = "gone" => runner' = "gone",
           \/ result' = result /\ (pc' = pc \/ result = "none")
           \/ result' \notin {"none", "ok"} /\ pc' = "returned"
    PROVE  TrafficInv'
<1> USE DEF Session!traffic
<1>1. TrafficTypeOK' BY DEF TrafficInv, TrafficTypeOK
<1>2. InOrder' BY DEF TrafficInv, InOrder, Increasing, Before
<1>3. Indexed' BY DEF TrafficInv, Indexed
<1>4. Accounted' BY DEF TrafficInv, Accounted, Taken, In, Due
<1>5. Served' BY DEF TrafficInv, Served, Due
<1> QED BY <1>1, <1>2, <1>3, <1>4, <1>5 DEF TrafficInv

LEMMA RunStepsAside ==
    ASSUME TrafficInv, Session!Connect \/ Session!RunSteps, ~Session!Dispatch
    PROVE  TrafficInv'
<1> USE DEF Session!world, Session!traffic, Session!Go, Session!Return, Session!MayFail,
            BeforeLaunch, NotUp
<1>0. (pc \in BeforeLaunch => runner = "none") /\ (result # "none" => pc = "returned")
  BY DEF TrafficInv, Indexed, Served
<1>1. CASE Session!Connect BY <1>0, <1>1, Aside DEF Session!Connect
<1>2. CASE Session!GetVersion BY <1>0, <1>2, Aside DEF Session!GetVersion
<1>3. CASE Session!InstallHandlers BY <1>0, <1>3, Aside DEF Session!InstallHandlers
<1>4. CASE Session!InitSession("init_ctrl", "init_main")
  BY <1>0, <1>4, Aside DEF Session!InitSession
<1>5. CASE Session!InitSession("init_main", "launch")
  BY <1>0, <1>5, Aside DEF Session!InitSession
<1>6. CASE Session!Launch BY <1>0, <1>6, Aside DEF Session!Launch
<1>7. CASE Session!Authorize BY <1>0, <1>7, Aside DEF Session!Authorize
<1>8. CASE Session!WaitChannel BY <1>0, <1>8, Aside DEF Session!WaitChannel
<1>9. CASE Session!WaitTimeout BY <1>0, <1>9, Aside DEF Session!WaitTimeout
<1>10. CASE Session!StartPlan BY <1>0, <1>10, Aside DEF Session!StartPlan
<1>11. CASE Session!PlanReply BY <1>0, <1>11, Aside DEF Session!PlanReply
<1>12. CASE Session!ClearHandler BY <1>0, <1>12, Aside DEF Session!ClearHandler
<1>13. CASE Session!DispatchEnds BY <1>0, <1>13, Aside DEF Session!DispatchEnds
<1> QED
  BY <1>1, <1>2, <1>3, <1>4, <1>5, <1>6, <1>7, <1>8, <1>9, <1>10, <1>11, <1>12, <1>13
     DEF Session!RunSteps

LEMMA OthersAside ==
    ASSUME TrafficInv,
           \/ Session!Start \/ Session!ReadEof \/ Session!RunnerStartsPlan
           \/ Session!RunnerExits \/ Session!WdaPoll \/ Session!WdaWait \/ Session!WdaAbort
    PROVE  TrafficInv'
<1> USE DEF Session!world, Session!traffic, Session!Go, BeforeLaunch, NotUp
<1>0. (pc \in BeforeLaunch => runner = "none") /\ (result # "none" => pc = "returned")
  BY DEF TrafficInv, Indexed, Served
<1>1. CASE Session!Start BY <1>0, <1>1, Aside DEF Session!Start
<1>2. CASE Session!ReadEof BY <1>0, <1>2, Aside DEF Session!ReadEof
<1>3. CASE Session!RunnerStartsPlan BY <1>0, <1>3, Aside DEF Session!RunnerStartsPlan
<1>4. CASE Session!RunnerExits BY <1>0, <1>4, Aside DEF Session!RunnerExits
<1>5. CASE Session!WdaPoll BY <1>0, <1>5, Aside DEF Session!WdaPoll
<1>6. CASE Session!WdaWait BY <1>0, <1>6, Aside DEF Session!WdaWait
<1>7. CASE Session!WdaAbort BY <1>0, <1>7, Aside DEF Session!WdaAbort
<1> QED BY <1>1, <1>2, <1>3, <1>4, <1>5, <1>6, <1>7

(* Orders of sequences under Tail and Append.                              *)
LEMMA TailIncreasing ==
    ASSUME NEW s \in Seq(Nat), s # <<>>, Increasing(s)
    PROVE  Increasing(Tail(s)) /\ \A a \in 1 .. Len(Tail(s)) : s[1] < Tail(s)[a]
<1>1. /\ Len(s) \in Nat \ {0} /\ Len(Tail(s)) = Len(s) - 1
      /\ \A a \in 1 .. Len(Tail(s)) : Tail(s)[a] = s[a + 1]
  BY TailIs
<1>2. \A a \in 1 .. Len(Tail(s)) : a + 1 \in 1 .. Len(s) /\ 1 < a + 1 /\ 1 \in 1 .. Len(s)
  BY <1>1
<1>3. \A a \in 1 .. Len(Tail(s)) : s[1] < s[a + 1]
  BY <1>2 DEF Increasing
<1>4. ASSUME NEW a \in 1 .. Len(Tail(s)), NEW b \in 1 .. Len(Tail(s)), a < b
      PROVE  Tail(s)[a] < Tail(s)[b]
  <2>1. s[a + 1] < s[b + 1] BY <1>2, <1>4 DEF Increasing
  <2> QED BY <1>1, <2>1
<1> QED BY <1>1, <1>3, <1>4 DEF Increasing

LEMMA AppendIncreasing ==
    ASSUME NEW s \in Seq(Nat), NEW e \in Nat, Increasing(s), \A a \in 1 .. Len(s) : s[a] < e
    PROVE  Increasing(Append(s, e))
<1> DEFINE t == Append(s, e)
<1>1. /\ Len(s) \in Nat /\ Len(t) = Len(s) + 1 /\ t[Len(s) + 1] = e
      /\ \A a \in 1 .. Len(s) : t[a] = s[a]
  BY AppendIs
<1> HIDE DEF t
<1>2. ASSUME NEW a \in 1 .. Len(t), NEW b \in 1 .. Len(t), a < b PROVE t[a] < t[b]
  <2>1. a \in 1 .. Len(s) BY <1>1, <1>2
  <2>2. CASE b = Len(s) + 1 BY <1>1, <2>1, <2>2
  <2>3. CASE b # Len(s) + 1
    <3>1. b \in 1 .. Len(s) BY <1>1, <2>3
    <3>2. s[a] < s[b] BY <1>2, <2>1, <3>1 DEF Increasing
    <3> QED BY <1>1, <2>1, <3>1, <3>2
  <2> QED BY <2>2, <2>3
<1>3. Increasing(t) BY <1>2 DEF Increasing
<1> QED BY <1>3 DEF t

LEMMA TailBefore ==
    ASSUME NEW s \in Seq(Nat), s # <<>>, NEW t \in Seq(Nat)
    PROVE  (Before(s, t) => Before(Tail(s), t)) /\ (Before(t, s) => Before(t, Tail(s)))
<1>1. /\ Len(s) \in Nat \ {0} /\ Len(Tail(s)) = Len(s) - 1
      /\ \A a \in 1 .. Len(Tail(s)) : Tail(s)[a] = s[a + 1]
  BY TailIs
<1>2. \A a \in 1 .. Len(Tail(s)) : a + 1 \in 1 .. Len(s)
  BY <1>1
<1> QED BY <1>1, <1>2 DEF Before

LEMMA AppendBefore ==
    ASSUME NEW s \in Seq(Nat), NEW t \in Seq(Nat), NEW e \in Nat
    PROVE  /\ Before(s, t) /\ (\A b \in 1 .. Len(t) : e < t[b]) => Before(Append(s, e), t)
           /\ Before(t, s) /\ (\A b \in 1 .. Len(t) : t[b] < e) => Before(t, Append(s, e))
<1> DEFINE u == Append(s, e)
<1>1. /\ Len(s) \in Nat /\ Len(u) = Len(s) + 1 /\ u[Len(s) + 1] = e
      /\ \A a \in 1 .. Len(s) : u[a] = s[a]
  BY AppendIs
<1> HIDE DEF u
<1>2. \A a \in 1 .. Len(u) : a = Len(s) + 1 \/ a \in 1 .. Len(s)
  BY <1>1
<1>3. /\ Before(s, t) /\ (\A b \in 1 .. Len(t) : e < t[b]) => Before(u, t)
      /\ Before(t, s) /\ (\A b \in 1 .. Len(t) : t[b] < e) => Before(t, u)
  BY <1>1, <1>2 DEF Before
<1> QED BY <1>3 DEF u

LEMMA InTail ==
    ASSUME NEW s \in Seq(Nat), s # <<>>, NEW k, In(k, s), k # s[1] PROVE In(k, Tail(s))
<1>1. /\ Len(s) \in Nat \ {0} /\ Len(Tail(s)) = Len(s) - 1
      /\ \A a \in 1 .. Len(Tail(s)) : Tail(s)[a] = s[a + 1]
  BY TailIs
<1>2. PICK a \in 1 .. Len(s) : s[a] = k BY DEF In
<1>3. a - 1 \in 1 .. Len(Tail(s)) BY <1>1, <1>2
<1>4. Tail(s)[a - 1] = s[a] BY <1>1, <1>3
<1> QED BY <1>2, <1>3, <1>4 DEF In

LEMMA InAppend ==
    ASSUME NEW s \in Seq(Nat), NEW e \in Nat
    PROVE  In(e, Append(s, e)) /\ \A k : In(k, s) => In(k, Append(s, e))
<1> DEFINE t == Append(s, e)
<1>1. /\ Len(s) \in Nat /\ Len(t) = Len(s) + 1 /\ t[Len(s) + 1] = e
      /\ \A a \in 1 .. Len(s) : t[a] = s[a]
  BY AppendIs
<1> HIDE DEF t
<1>2. Len(s) + 1 \in 1 .. Len(t) /\ \A a \in 1 .. Len(s) : a \in 1 .. Len(t) BY <1>1
<1>3. In(e, t) /\ \A k : In(k, s) => In(k, t) BY <1>1, <1>2 DEF In
<1> QED BY <1>3 DEF t

(* The elements of a tail are elements, those of Append(s, e) are those of *)
(* s and e.                                                                *)
LEMMA TailElements ==
    ASSUME NEW s \in Seq(Nat), s # <<>>, NEW a \in 1 .. Len(Tail(s))
    PROVE  \E b \in 1 .. Len(s) : Tail(s)[a] = s[b]
<1>1. /\ Len(s) \in Nat \ {0} /\ Len(Tail(s)) = Len(s) - 1 /\ Tail(s)[a] = s[a + 1]
  BY TailIs
<1>2. a + 1 \in 1 .. Len(s) BY <1>1
<1> QED BY <1>1, <1>2

LEMMA AppendElements ==
    ASSUME NEW s \in Seq(Nat), NEW e \in Nat, NEW a \in 1 .. Len(Append(s, e))
    PROVE  Append(s, e)[a] = e \/ \E b \in 1 .. Len(s) : Append(s, e)[a] = s[b]
<1> DEFINE t == Append(s, e)
<1>1. /\ Len(s) \in Nat /\ Len(t) = Len(s) + 1 /\ t[Len(s) + 1] = e
      /\ \A b \in 1 .. Len(s) : t[b] = s[b]
  BY AppendIs
<1> HIDE DEF t
<1>2. a \in 1 .. Len(t) BY DEF t
<1>3. a = Len(s) + 1 \/ a \in 1 .. Len(s)
  BY <1>1, <1>2
<1>4. t[a] = e \/ \E b \in 1 .. Len(s) : t[a] = s[b] BY <1>1, <1>3
<1> QED BY <1>4 DEF t

(* Joining two sequences, the first of which comes before the second.      *)
LEMMA Joined ==
    ASSUME NEW s \in Seq(Nat), NEW t \in Seq(Nat), Increasing(s), Increasing(t), Before(s, t)
    PROVE  /\ s \o t \in Seq(Nat) /\ Increasing(s \o t)
           /\ \A k : In(k, s) \/ In(k, t) => In(k, s \o t)
           /\ \A u \in Seq(Nat) : Before(s, u) /\ Before(t, u) => Before(s \o t, u)
<1> DEFINE c == s \o t
<1>1. /\ Len(s) \in Nat /\ Len(t) \in Nat /\ c \in Seq(Nat) /\ Len(c) = Len(s) + Len(t)
      /\ \A i \in 1 .. Len(c) : c[i] = IF i <= Len(s) THEN s[i] ELSE t[i - Len(s)]
  BY ConcatProperties
<1> HIDE DEF c
<1>2. Len(s) \in Nat /\ Len(t) \in Nat /\ Len(c) = Len(s) + Len(t) BY <1>1
<1>3. \A i \in 1 .. Len(c) :
        \/ i \in 1 .. Len(s) /\ c[i] = s[i]
        \/ i > Len(s) /\ i - Len(s) \in 1 .. Len(t) /\ c[i] = t[i - Len(s)]
  BY <1>1
<1>4. ASSUME NEW a \in 1 .. Len(c), NEW b \in 1 .. Len(c), a < b PROVE c[a] < c[b]
  <2>1. CASE b \in 1 .. Len(s) /\ c[b] = s[b]
    <3>1. a \in 1 .. Len(s) /\ c[a] = s[a] BY <1>1, <1>3, <1>4, <2>1
    <3> QED BY <1>4, <2>1, <3>1 DEF Increasing
  <2>2. CASE /\ b > Len(s) /\ b - Len(s) \in 1 .. Len(t) /\ c[b] = t[b - Len(s)]
             /\ a \in 1 .. Len(s) /\ c[a] = s[a]
    BY <2>2 DEF Before
  <2>3. CASE /\ b > Len(s) /\ b - Len(s) \in 1 .. Len(t) /\ c[b] = t[b - Len(s)]
             /\ a > Len(s) /\ a - Len(s) \in 1 .. Len(t) /\ c[a] = t[a - Len(s)]
    <3>1. a - Len(s) < b - Len(s) BY <1>1, <1>4
    <3> QED BY <2>3, <3>1 DEF Increasing
  <2> QED BY <1>3, <2>1, <2>2, <2>3
<1>5. ASSUME NEW k, In(k, s) PROVE In(k, c)
  <2>1. PICK a \in 1 .. Len(s) : s[a] = k BY <1>5 DEF In
  <2>2. a \in 1 .. Len(c) /\ c[a] = s[a] BY <1>1, <2>1
  <2> QED BY <2>1, <2>2 DEF In
<1>6. ASSUME NEW k, In(k, t) PROVE In(k, c)
  <2>1. PICK a \in 1 .. Len(t) : t[a] = k BY <1>6 DEF In
  <2>2. PICK b \in 1 .. Len(c) : b = a + Len(s) BY <1>2
  <2>3. ~(b <= Len(s)) /\ b - Len(s) = a BY <1>2, <2>2
  <2>4. c[b] = t[b - Len(s)] BY <1>1, <2>3
  <2>5. c[b] = t[a] BY <2>3, <2>4
  <2> QED BY <2>1, <2>2, <2>5 DEF In
<1>7. ASSUME NEW u \in Seq(Nat), Before(s, u), Before(t, u) PROVE Before(c, u)
  BY <1>3, <1>7 DEF Before
<1>8. Increasing(c) BY <1>4 DEF Increasing
<1> QED BY <1>1, <1>5, <1>6, <1>7, <1>8 DEF c

(* The reader takes the request of the channel off the wire.               *)
LEMMA RegisterKeeps == ASSUME TrafficInv, Session!RegisterChannel PROVE TrafficInv'
<1> USE DEF TrafficInv
<1>1. /\ wire # <<>> /\ wire[1] = 0 /\ wire' = Tail(wire) /\ wire \in Seq(Nat)
      /\ UNCHANGED <<pc, runner, sent, queue, seen, replies, result>>
  BY TailIs DEF Session!RegisterChannel, TrafficTypeOK
<1>2. queue \in Seq(Nat) /\ seen \in Seq(Nat)
  BY DEF TrafficTypeOK
<1>3. \A a \in 1 .. Len(wire') : \E b \in 1 .. Len(wire) : wire'[a] = wire[b]
  BY <1>1, TailElements
<1>4. TrafficTypeOK' BY <1>1, TailIs DEF TrafficTypeOK
<1>5. InOrder'
  <2>1. Increasing(wire') /\ Before(seen, wire') /\ Before(queue, wire')
    BY <1>1, <1>2, TailIncreasing, TailBefore DEF InOrder
  <2> QED BY <1>1, <2>1 DEF InOrder, Increasing, Before
<1>6. Indexed' BY <1>1, <1>3 DEF Indexed
<1>7. Accounted'
  <2>1. \A k \in 1 .. Len(sent) : In(k, wire) => In(k, wire')
    BY <1>1, InTail
  <2>2. \A a \in 1 .. Len(wire') : wire'[a] > 0 => replies[wire'[a]] = 0
    BY <1>3 DEF Accounted
  <2> QED BY <1>1, <2>1, <2>2 DEF Accounted, Taken, Due, In
<1>8. Served' BY <1>1 DEF Served, Due
<1> QED BY <1>4, <1>5, <1>6, <1>7, <1>8

(* The reader takes a message: to the handler, or into the queue.          *)
LEMMA ReadMessageKeeps == ASSUME TrafficInv, Session!ReadMessage PROVE TrafficInv'
<1> USE DEF TrafficInv
<1>1. wire # <<>> /\ Head(wire) > 0 /\ wire \in Seq(Nat)
  BY DEF Session!ReadMessage, TrafficTypeOK
<1>2. Head(wire) = wire[1] /\ wire[1] \in Nat /\ 1 \in 1 .. Len(wire)
  BY <1>1, TailIs
<1>3. PICK i \in Nat : i = wire[1] /\ i > 0 BY <1>1, <1>2
<1>4. i \in 1 .. Len(sent)
  <2>1. wire[1] \in 0 .. Len(sent) BY <1>2 DEF Indexed
  <2> QED BY <1>3, <2>1
<1>5. /\ wire' = Tail(wire) /\ UNCHANGED <<pc, runner, sent, seen, result>>
      /\ runner \notin NotUp /\ \A k : Due(k)' = Due(k)
  BY <1>1 DEF Session!ReadMessage, Indexed, Due
<1>6. /\ sent \in Seq(Message) /\ Len(sent) \in Nat /\ Len(sent) <= MaxMessages
      /\ queue \in Seq(Nat) /\ seen \in Seq(Nat)
      /\ replies \in [Session!Indices -> Nat] /\ MaxMessages \in Nat
  BY BoundsAssumption DEF TrafficTypeOK
<1>7. \A k \in 1 .. Len(sent) : k \in Session!Indices
  BY <1>6 DEF Session!Indices
<1>8. replies[i] = 0 /\ sent[i] \in Message
  BY <1>2, <1>3, <1>4, <1>6 DEF Accounted
<1>9. \A k : In(k, wire) /\ k # i => In(k, wire')
  BY <1>1, <1>3, <1>5, InTail
<1>10. \A a \in 1 .. Len(wire') : i < wire'[a] /\ \E b \in 1 .. Len(wire) : wire'[a] = wire[b]
  BY <1>1, <1>3, <1>5, TailIncreasing, TailElements DEF InOrder
<1>11. /\ \A a \in 1 .. Len(seen) : seen[a] < i
       /\ \A a \in 1 .. Len(queue) : queue[a] < i
  BY <1>2, <1>3 DEF InOrder, Before
<1>12. Increasing(wire') /\ Before(seen, wire') /\ Before(queue, wire')
  BY <1>1, <1>5, <1>6, TailIncreasing, TailBefore DEF InOrder
<1>13. wire' \in Seq(Nat) BY <1>1, <1>5, TailIs
<1>14. CASE ~(early /\ sent[i].kind \in Session!Bootstrap)
  <2>1. queue' = Append(queue, i) /\ replies' = replies
    BY <1>2, <1>3, <1>14 DEF Session!ReadMessage
  <2>2. \A a \in 1 .. Len(queue') : queue'[a] = i \/ \E b \in 1 .. Len(queue) : queue'[a] = queue[b]
    BY <1>6, <2>1, AppendElements
  <2>3. TrafficTypeOK' BY <1>5, <1>6, <1>13, <2>1, AppendIs DEF TrafficTypeOK
  <2>4. InOrder'
    <3>1. Increasing(queue') /\ Before(seen, queue') /\ Before(queue', wire')
      BY <1>6, <1>10, <1>11, <1>12, <1>13, <2>1, AppendIncreasing, AppendBefore DEF InOrder
    <3> QED BY <1>5, <1>12, <3>1 DEF InOrder, Increasing, Before
  <2>5. Indexed'
    BY <1>4, <1>5, <1>10, <2>2 DEF Indexed
  <2>6. Accounted'
    <3>1. \A k : (In(k, queue) => In(k, queue')) /\ In(i, queue')
      BY <1>6, <2>1, InAppend
    <3>2. \A k \in 1 .. Len(sent) :
            \/ In(k, seen) \/ In(k, queue') \/ In(k, wire')
            \/ Taken(k)
      BY <1>9, <3>1 DEF Accounted
    <3>3. \A a \in 1 .. Len(queue') : replies[queue'[a]] = 0
      BY <1>8, <2>2 DEF Accounted
    <3>4. \A a \in 1 .. Len(wire') : wire'[a] > 0 => replies[wire'[a]] = 0
      BY <1>10 DEF Accounted
    <3> QED BY <1>5, <2>1, <3>2, <3>3, <3>4 DEF Accounted, Taken, In
  <2>7. Served' BY <1>5, <2>1 DEF Served
  <2> QED BY <2>3, <2>4, <2>5, <2>6, <2>7
<1>15. CASE early /\ sent[i].kind \in Session!Bootstrap
  <2>1. /\ \/ replies' = IF sent[i].expects THEN [replies EXCEPT ![i] = replies[i] + 1] ELSE replies
           \/ replies' = replies /\ runner = "gone"
        /\ queue' = queue
    BY <1>2, <1>3, <1>15 DEF Session!ReadMessage
  <2>2. /\ replies' \in [Session!Indices -> Nat]
        /\ replies'[i] = Due(i) \/ (runner = "gone" /\ replies'[i] = 0)
        /\ \A k \in Session!Indices : k # i => replies'[k] = replies[k]
    <3>1. CASE replies' = IF sent[i].expects THEN [replies EXCEPT ![i] = replies[i] + 1] ELSE replies
      BY <1>4, <1>6, <1>7, <1>8, <3>1 DEF Due, Message
    <3>2. CASE replies' = replies /\ runner = "gone"
      BY <1>6, <1>8, <3>2
    <3> QED BY <2>1, <3>1, <3>2
  <2>3. TrafficTypeOK' BY <1>5, <1>6, <1>13, <2>1, <2>2 DEF TrafficTypeOK
  <2>4. InOrder' BY <1>5, <1>12, <2>1 DEF InOrder, Increasing, Before
  <2>5. Indexed' BY <1>5, <1>10, <2>1 DEF Indexed
  <2>6. Accounted'
    <3>1. \A k \in 1 .. Len(sent) :
            \/ In(k, seen) \/ In(k, queue) \/ In(k, wire')
            \/ Taken(k)'
      BY <1>5, <1>7, <1>9, <1>15, <2>2 DEF Accounted, Taken
    <3>2. \A a \in 1 .. Len(queue) : replies'[queue[a]] = 0
      <4> TAKE a \in 1 .. Len(queue)
      <4>1. queue[a] \in Session!Indices /\ queue[a] # i BY <1>7, <1>11 DEF Indexed
      <4> QED BY <2>2, <4>1 DEF Accounted
    <3>3. \A a \in 1 .. Len(wire') : wire'[a] > 0 => replies'[wire'[a]] = 0
      <4> SUFFICES ASSUME NEW a \in 1 .. Len(wire'), wire'[a] > 0 PROVE replies'[wire'[a]] = 0
        OBVIOUS
      <4>1. PICK b \in 1 .. Len(wire) : wire'[a] = wire[b] BY <1>10
      <4>2. wire[b] \in 1 .. Len(sent) BY <4>1 DEF Indexed
      <4>3. wire'[a] \in Session!Indices /\ wire'[a] # i BY <1>7, <1>10, <4>1, <4>2
      <4> QED BY <2>2, <4>1, <4>3 DEF Accounted
    <3>4. \A k \in Session!Indices : k > Len(sent) => replies'[k] = 0
      BY <1>4, <1>6, <2>2 DEF Accounted, Session!Indices
    <3> QED BY <1>5, <2>1, <3>1, <3>2, <3>3, <3>4 DEF Accounted, In
  <2>7. Served'
    <3>1. ASSUME NEW a \in 1 .. Len(seen) PROVE replies'[seen[a]] = replies[seen[a]]
      <4>1. seen[a] \in Session!Indices /\ seen[a] # i BY <1>7, <1>11 DEF Indexed
      <4> QED BY <2>2, <4>1
    <3> QED BY <1>5, <3>1 DEF Served
  <2> QED BY <2>3, <2>4, <2>5, <2>6, <2>7
<1> QED BY <1>14, <1>15

(* The runner asks for its channel before it sends anything else.          *)
LEMMA OpensChannelKeeps == ASSUME TrafficInv, Session!RunnerOpensChannel PROVE TrafficInv'
<1> USE DEF TrafficInv
<1>1. /\ sent = <<>> /\ wire = <<>> /\ queue = <<>> /\ seen = <<>> /\ wire' = Append(wire, 0)
      /\ runner' = "up" /\ runner = "authorized"
      /\ UNCHANGED <<pc, sent, queue, seen, replies, result>>
  BY DEF Session!RunnerOpensChannel, Indexed, NotUp
<1>2. wire' \in Seq(Nat) /\ Len(wire') = 1 /\ wire'[1] = 0
  BY <1>1
<1>3. TrafficTypeOK' BY <1>1, <1>2 DEF TrafficTypeOK
<1>4. InOrder' BY <1>1, <1>2 DEF InOrder, Increasing, Before
<1>5. Indexed' BY <1>1, <1>2 DEF Indexed, NotUp, BeforeLaunch
<1>6. Accounted' BY <1>1, <1>2 DEF Accounted
<1>7. Served' BY <1>1 DEF Served, Due
<1> QED BY <1>3, <1>4, <1>5, <1>6, <1>7

LEMMA RunnerSendsKeeps ==
    ASSUME TrafficInv, NEW kind \in Session!Kinds, Session!RunnerSends(kind) PROVE TrafficInv'
<1> USE DEF TrafficInv
<1>1. /\ sent \in Seq(Message) /\ Len(sent) \in Nat /\ Len(sent) < MaxMessages
      /\ wire \in Seq(Nat) /\ queue \in Seq(Nat) /\ seen \in Seq(Nat)
      /\ replies \in [Session!Indices -> Nat] /\ MaxMessages \in Nat
  BY BoundsAssumption DEF TrafficTypeOK, Session!RunnerSends
<1>2. PICK m \in Message : sent' = Append(sent, m)
  BY DEF Session!RunnerSends, Message
<1> DEFINE n == Len(sent) + 1
<1>3. /\ wire' = Append(wire, n) /\ runner = "up"
      /\ UNCHANGED <<pc, runner, queue, seen, replies, result>>
  BY DEF Session!RunnerSends
<1>4. /\ sent' \in Seq(Message) /\ Len(sent') = n
      /\ \A k \in 1 .. Len(sent) : sent'[k] = sent[k]
  BY <1>1, <1>2, AppendIs
<1>5. n \in Nat /\ n \in Session!Indices /\ n > Len(sent)
  BY <1>1 DEF Session!Indices
<1>6. \A k \in 1 .. Len(sent') : k = n \/ k \in 1 .. Len(sent)
  BY <1>1, <1>4
<1>7. \A k \in 1 .. Len(sent) : Due(k)' = Due(k) /\ sent'[k] = sent[k]
  BY <1>4 DEF Due
<1>8. /\ \A a \in 1 .. Len(seen) : seen[a] \in 1 .. Len(sent) /\ seen[a] < n
      /\ \A a \in 1 .. Len(queue) : queue[a] \in 1 .. Len(sent) /\ queue[a] < n
      /\ \A a \in 1 .. Len(wire) : wire[a] \in 0 .. Len(sent) /\ wire[a] < n
  <2>1. \A k \in 0 .. Len(sent) : k < n BY <1>1
  <2>2. \A k \in 1 .. Len(sent) : k < n BY <1>1
  <2> HIDE DEF n
  <2> QED BY <2>1, <2>2 DEF Indexed
<1> HIDE DEF n
<1>9. \A a \in 1 .. Len(wire') : wire'[a] = n \/ \E b \in 1 .. Len(wire) : wire'[a] = wire[b]
  BY <1>1, <1>3, <1>5, AppendElements
<1>10. TrafficTypeOK' BY <1>1, <1>3, <1>4, <1>5, AppendIs DEF TrafficTypeOK, n
<1>11. InOrder'
  <2>1. Increasing(wire') /\ Before(seen, wire') /\ Before(queue, wire')
    BY <1>1, <1>3, <1>5, <1>8, AppendIncreasing, AppendBefore DEF InOrder
  <2> QED BY <1>3, <2>1 DEF InOrder, Increasing, Before
<1>12. Indexed'
  <2>1. \A k : (k \in 1 .. Len(sent) => k \in 1 .. Len(sent')) /\ (k \in 0 .. Len(sent) => k \in 0 .. Len(sent'))
    BY <1>1, <1>4 DEF n
  <2>2. \A a \in 1 .. Len(wire') : wire'[a] \in 0 .. Len(sent')
    <3>1. n \in 0 .. Len(sent') BY <1>1, <1>4, <1>5
    <3> QED BY <1>8, <1>9, <2>1, <3>1
  <2> QED BY <1>3, <1>8, <2>1, <2>2 DEF Indexed, NotUp
<1>13. Accounted'
  <2>1. In(n, wire') /\ \A k : In(k, wire) => In(k, wire')
    BY <1>1, <1>3, <1>5, InAppend
  <2>2. \A k \in 1 .. Len(sent') :
          \/ In(k, seen) \/ In(k, queue) \/ In(k, wire')
          \/ Taken(k)'
    BY <1>3, <1>6, <1>7, <2>1 DEF Accounted, Taken
  <2>3. \A a \in 1 .. Len(wire') : wire'[a] > 0 => replies[wire'[a]] = 0
    BY <1>5, <1>9 DEF Accounted
  <2>4. \A k \in Session!Indices : k > Len(sent') => replies[k] = 0
    BY <1>1, <1>4 DEF Accounted, n, Session!Indices
  <2> QED BY <1>3, <2>2, <2>3, <2>4 DEF Accounted, In
<1>14. Served' BY <1>3, <1>7, <1>8 DEF Served
<1> QED BY <1>10, <1>11, <1>12, <1>13, <1>14

(* The dispatch loop serves the oldest message, or fails on it.            *)
LEMMA DispatchKeeps == ASSUME TrafficInv, Session!Dispatch PROVE TrafficInv'
<1> USE DEF TrafficInv
<1>1. queue # <<>> /\ queue \in Seq(Nat) /\ pc = "dispatch" /\ result = "none"
  BY DEF Session!Dispatch, TrafficTypeOK, Served
<1>2. Head(queue) = queue[1] /\ queue[1] \in Nat /\ 1 \in 1 .. Len(queue)
  BY <1>1, TailIs
<1>3. PICK i \in Nat : i = queue[1] BY <1>2
<1>4. i \in 1 .. Len(sent) /\ replies[i] = 0 BY <1>2, <1>3 DEF Indexed, Accounted
<1>5. /\ queue' = Tail(queue) /\ seen' = Append(seen, i)
      /\ UNCHANGED <<runner, sent, wire>> /\ \A k : Due(k)' = Due(k)
  BY <1>2, <1>3 DEF Session!Dispatch, Due
<1>6. /\ sent \in Seq(Message) /\ Len(sent) \in Nat /\ Len(sent) <= MaxMessages
      /\ wire \in Seq(Nat) /\ seen \in Seq(Nat)
      /\ replies \in [Session!Indices -> Nat] /\ MaxMessages \in Nat
  BY BoundsAssumption DEF TrafficTypeOK
<1>7. \A k \in 1 .. Len(sent) : k \in Session!Indices
  BY <1>6 DEF Session!Indices
<1>8. \/ /\ replies' = IF sent[i].expects THEN [replies EXCEPT ![i] = replies[i] + 1] ELSE replies
         /\ \/ sent[i].kind = "finish" /\ pc' = "returned" /\ result' = "ok"
            \/ sent[i].kind # "finish" /\ pc' = pc /\ result' = result
      \/ replies' = replies /\ pc' = "returned" /\ result' = "err"
  BY <1>2, <1>3 DEF Session!Dispatch, Session!Return
<1>9. sent[i] \in Message BY <1>4, <1>6
<1>10. /\ replies' \in [Session!Indices -> Nat]
       /\ \A k \in Session!Indices : k # i => replies'[k] = replies[k]
       /\ result' \in {"none", "ok"} => replies'[i] = Due(i)
  <2>1. i \in Session!Indices BY <1>4, <1>7
  <2>2. CASE replies' = IF sent[i].expects THEN [replies EXCEPT ![i] = replies[i] + 1] ELSE replies
    BY <1>4, <1>6, <1>9, <2>1, <2>2 DEF Due, Message
  <2>3. CASE replies' = replies /\ result' = "err" BY <1>6, <2>3
  <2> QED BY <1>8, <2>2, <2>3
<1>11. /\ queue' \in Seq(Nat) /\ Increasing(queue')
       /\ \A a \in 1 .. Len(queue') : i < queue'[a] /\ \E b \in 1 .. Len(queue) : queue'[a] = queue[b]
  BY <1>1, <1>3, <1>5, TailIs, TailIncreasing, TailElements DEF InOrder
<1>12. /\ \A a \in 1 .. Len(seen) : seen[a] < i
       /\ \A a \in 1 .. Len(wire) : i < wire[a]
  BY <1>2, <1>3 DEF InOrder, Before
<1>13. \A a \in 1 .. Len(seen') : seen'[a] = i \/ \E b \in 1 .. Len(seen) : seen'[a] = seen[b]
  BY <1>5, <1>6, AppendElements
<1>14. TrafficTypeOK' BY <1>5, <1>6, <1>10, <1>11, AppendIs DEF TrafficTypeOK
<1>15. InOrder'
  <2>1. Increasing(seen') /\ Before(seen', wire)
    BY <1>5, <1>6, <1>12, AppendIncreasing, AppendBefore DEF InOrder
  <2>2. Before(seen, queue') /\ Before(queue', wire)
    BY <1>1, <1>5, <1>6, TailBefore DEF InOrder
  <2>3. Before(seen', queue')
    BY <1>5, <1>6, <1>11, <2>2, AppendBefore
  <2> QED BY <1>5, <1>11, <2>1, <2>2, <2>3 DEF InOrder, Increasing, Before
<1>16. Indexed'
  <2>1. runner \notin NotUp BY <1>1 DEF Indexed
  <2>2. pc' \notin BeforeLaunch BY <1>1, <1>8 DEF BeforeLaunch
  <2> QED BY <1>4, <1>5, <1>11, <1>13, <2>1, <2>2 DEF Indexed
<1>17. Accounted'
  <2>1. In(i, seen') /\ \A k : In(k, seen) => In(k, seen')
    BY <1>5, <1>6, InAppend
  <2>2. \A k : In(k, queue) /\ k # i => In(k, queue')
    BY <1>1, <1>3, <1>5, InTail
  <2>3. \A k \in 1 .. Len(sent) :
          \/ In(k, seen') \/ In(k, queue') \/ In(k, wire)
          \/ Taken(k)'
    BY <1>5, <1>7, <1>10, <2>1, <2>2 DEF Accounted, Taken
  <2>4. \A a \in 1 .. Len(queue') : replies'[queue'[a]] = 0
    <3> TAKE a \in 1 .. Len(queue')
    <3>1. PICK b \in 1 .. Len(queue) : queue'[a] = queue[b] BY <1>11
    <3>2. queue[b] \in Session!Indices /\ queue[b] # i BY <1>7, <1>11, <3>1 DEF Indexed
    <3> QED BY <1>10, <3>1, <3>2 DEF Accounted
  <2>5. \A a \in 1 .. Len(wire) : wire[a] > 0 => replies'[wire[a]] = 0
    <3> SUFFICES ASSUME NEW a \in 1 .. Len(wire), wire[a] > 0 PROVE replies'[wire[a]] = 0
      OBVIOUS
    <3>1. wire[a] \in 1 .. Len(sent) BY DEF Indexed
    <3>2. wire[a] \in Session!Indices /\ wire[a] # i BY <1>7, <1>12, <3>1
    <3> QED BY <1>10, <3>2 DEF Accounted
  <2>6. \A k \in Session!Indices : k > Len(sent) => replies'[k] = 0
    BY <1>4, <1>6, <1>10 DEF Accounted, Session!Indices
  <2> QED BY <1>5, <2>3, <2>4, <2>5, <2>6 DEF Accounted, In
<1>18. Served'
  <2>1. ASSUME result' \in {"none", "ok"}, NEW a \in 1 .. Len(seen')
        PROVE  replies'[seen'[a]] = Due(seen'[a])
    <3>1. CASE seen'[a] = i BY <1>10, <2>1, <3>1
    <3>2. ASSUME NEW b \in 1 .. Len(seen), seen'[a] = seen[b] PROVE replies'[seen[b]] = Due(seen[b])
      <4>1. seen[b] \in Session!Indices /\ seen[b] # i BY <1>7, <1>12 DEF Indexed
      <4>2. replies[seen[b]] = Due(seen[b]) BY <1>1 DEF Served
      <4> QED BY <1>10, <4>1, <4>2
    <3> QED BY <1>13, <3>1, <3>2
  <2>2. result' = "ok" => \E a \in 1 .. Len(seen') : sent[seen'[a]].kind = "finish"
    <3>1. Len(seen) + 1 \in 1 .. Len(seen') /\ seen'[Len(seen) + 1] = i
      BY <1>5, <1>6, AppendIs
    <3>2. result' = "ok" => sent[i].kind = "finish"
      BY <1>1, <1>8
    <3> QED BY <3>1, <3>2
  <2>3. result' # "none" => pc' = "returned"
    BY <1>1, <1>8
  <2> QED BY <1>5, <2>1, <2>2, <2>3 DEF Served
<1> QED BY <1>14, <1>15, <1>16, <1>17, <1>18

LEMMA TrafficInvNext == TrafficInv /\ [Session!Next]_session => TrafficInv'
<1> SUFFICES ASSUME TrafficInv, [Session!Next]_session PROVE TrafficInv' OBVIOUS
<1>1. CASE UNCHANGED session
  BY <1>1, Aside DEF session, Session!traffic, TrafficInv, Indexed
<1>2. CASE Session!RunNext
  BY <1>2, RunStepsAside, DispatchKeeps DEF Session!RunNext
<1>3. CASE Session!Others
  BY <1>3, OthersAside, RegisterKeeps, ReadMessageKeeps, OpensChannelKeeps, RunnerSendsKeeps
     DEF Session!Others, Session!ReaderNext
<1> QED BY <1>1, <1>2, <1>3 DEF Session!Next

LEMMA TrafficInvariant == Spec => []TrafficInv
<1>1. Init => TrafficInv BY TrafficInvInit DEF Init
<1>2. TrafficInv /\ [Next]_vars => TrafficInv' BY NextRefines, TrafficInvNext
<1> QED BY <1>1, <1>2, PTL DEF Spec

-----------------------------------------------------------------------------
(***************************************************************************)
(* run_dispatch_loop returns Ok only after the end of the plan, and        *)
(* everything the runner had sent up to it was answered exactly once if it *)
(* asked for an answer, by the bootstrap handler or by the loop; only the  *)
(* handler may have failed to write an answer, and to a runner that is     *)
(* gone.                                                                   *)
(***************************************************************************)
THEOREM OkRunsAnswered == Spec => []OkMeansAnswered
<1>1. ASSUME TrafficInv, result = "ok" PROVE OkMeansAnswered
  <2>1. PICK a \in 1 .. Len(seen) : sent[seen[a]].kind = "finish"
    BY <1>1 DEF TrafficInv, Served
  <2> DEFINE f == seen[a]
  <2>2. /\ f \in 1 .. Len(sent) /\ Len(sent) \in Nat /\ seen \in Seq(Nat)
        /\ DOMAIN sent = 1 .. Len(sent)
    BY <1>1 DEF TrafficInv, Indexed, TrafficTypeOK
  <2>3. ASSUME NEW i \in 1 .. f PROVE replies[i] = Due(i) \/ Taken(i)
    <3>1. i \in 1 .. Len(sent) BY <2>2
    <3>2. CASE In(i, seen) BY <1>1, <3>2 DEF TrafficInv, Served, In
    <3>3. ~In(i, queue) /\ ~In(i, wire)
      <4>1. \A b \in 1 .. Len(queue) : f < queue[b]
        BY <1>1 DEF TrafficInv, InOrder, Before
      <4>2. \A b \in 1 .. Len(wire) : f < wire[b]
        BY <1>1 DEF TrafficInv, InOrder, Before
      <4>3. i <= f /\ f \in Nat /\ i \in Nat BY <2>2
      <4>4. ASSUME NEW b \in 1 .. Len(queue), queue[b] = i PROVE FALSE BY <4>1, <4>3, <4>4
      <4>5. ASSUME NEW b \in 1 .. Len(wire), wire[b] = i PROVE FALSE BY <4>2, <4>3, <4>5
      <4> QED BY <4>4, <4>5 DEF In
    <3> QED BY <1>1, <3>1, <3>2, <3>3 DEF TrafficInv, Accounted
  <2> HIDE DEF f
  <2> QED BY <2>1, <2>2, <2>3 DEF f, OkMeansAnswered, Session!OkMeansAnswered, Taken, Due
<1>2. TrafficInv => OkMeansAnswered
  BY <1>1 DEF OkMeansAnswered, Session!OkMeansAnswered
<1> QED BY <1>2, TrafficInvariant, PTL

(***************************************************************************)
(* Between the bootstrap handler and run_dispatch_loop no message of the   *)
(* runner is lost, doubled or put out of order, however many there are and *)
(* whenever clear_incoming_handler runs.                                   *)
(***************************************************************************)
THEOREM NothingIsLost == Spec => []NothingLostAtHandOver
<1>1. ASSUME TrafficInv PROVE NothingLostAtHandOver
  <2> DEFINE front == seen \o queue
             chain == front \o wire
  <2>1. seen \in Seq(Nat) /\ queue \in Seq(Nat) /\ wire \in Seq(Nat) /\ Len(sent) \in Nat
    BY <1>1 DEF TrafficInv, TrafficTypeOK
  <2>2. front \in Seq(Nat) /\ Increasing(front) /\ Before(front, wire)
        /\ \A k : In(k, seen) \/ In(k, queue) => In(k, front)
    BY <1>1, <2>1, Joined DEF TrafficInv, InOrder
  <2>3. Increasing(chain) /\ chain \in Seq(Nat)
        /\ \A k : In(k, front) \/ In(k, wire) => In(k, chain)
    <3> HIDE DEF front
    <3> QED BY <1>1, <2>1, <2>2, Joined DEF TrafficInv, InOrder
  <2>4. chain = seen \o queue \o wire OBVIOUS
  <2> HIDE DEF chain, front
  <2>5. \A i, j \in DOMAIN chain : i < j => chain[i] < chain[j]
    BY <2>3 DEF Increasing
  <2>6. DOMAIN sent = 1 .. Len(sent) /\ DOMAIN queue = 1 .. Len(queue)
    BY <1>1 DEF TrafficInv, TrafficTypeOK
  <2>7. \A i \in DOMAIN sent :
          \/ i \in Session!InSeq(chain)
          \/ /\ sent[i].kind \in Session!Bootstrap
             /\ sent[i].expects => replies[i] = 1 \/ runner = "gone"
    <3> TAKE i \in DOMAIN sent
    <3>1. In(i, chain) => i \in Session!InSeq(chain)
      BY <2>3 DEF In, Session!InSeq
    <3> QED BY <1>1, <2>2, <2>3, <2>6, <3>1 DEF TrafficInv, Accounted, Taken, Due
  <2>8. \A i \in Session!InSeq(queue) : replies[i] = 0
    BY <1>1, <2>6 DEF TrafficInv, Accounted, Session!InSeq
  <2> QED
    BY <2>4, <2>5, <2>7, <2>8 DEF NothingLostAtHandOver, Session!NothingLostAtHandOver
<1> QED BY <1>1, TrafficInvariant, PTL

-----------------------------------------------------------------------------
(* run_until_wda_ready                                                     *)

LEMMA WdaInvNext == WdaInv /\ [Session!Next]_session => WdaInv'
<1> SUFFICES ASSUME WdaInv, [Session!Next]_session PROVE WdaInv' OBVIOUS
<1> USE DEF WdaInv, FailedWdaLeavesNoTask, Session!FailedWdaLeavesNoTask
<1>1. CASE UNCHANGED wda
  BY <1>1
<1>2. CASE Session!Start
  BY <1>2 DEF Session!Start
<1>3. CASE Session!WdaPoll
  <2>1. /\ wda.at = "poll"
        /\ \/ wda' = [wda EXCEPT !.at = "failed", !.task = "joined"]
           \/ wda' = [wda EXCEPT !.at = "ready"]
           \/ wda' = [wda EXCEPT !.polls = wda.polls + 1]
           \/ wda' = [wda EXCEPT !.at = "failed", !.task = "aborted"]
    BY <1>3 DEF Session!WdaPoll
  <2>2. CASE wda' = [wda EXCEPT !.at = "failed", !.task = "joined"] BY <2>2
  <2>3. CASE wda' = [wda EXCEPT !.at = "ready"] BY <2>3
  <2>4. CASE wda' = [wda EXCEPT !.polls = wda.polls + 1] BY <2>1, <2>4
  <2>5. CASE wda' = [wda EXCEPT !.at = "failed", !.task = "aborted"] BY <2>5
  <2> QED BY <2>1, <2>2, <2>3, <2>4, <2>5
<1>4. CASE Session!WdaWait \/ Session!WdaAbort
  BY <1>4 DEF Session!WdaWait, Session!WdaAbort
<1> QED
  BY <1>1, <1>2, <1>3, <1>4 DEF session, Session!Next, Session!RunNext, Session!RunSteps, Session!Others,
     Session!Connect, Session!GetVersion, Session!InstallHandlers, Session!InitSession,
     Session!Launch, Session!Authorize, Session!WaitChannel, Session!WaitTimeout,
     Session!StartPlan, Session!PlanReply, Session!ClearHandler, Session!Dispatch,
     Session!DispatchEnds, Session!ReaderNext, Session!RegisterChannel,
     Session!ReadMessage, Session!ReadEof, Session!RunnerOpensChannel,
     Session!RunnerStartsPlan, Session!RunnerExits, Session!RunnerSends

(***************************************************************************)
(* When run_until_wda_ready returns an error, at its deadline or because   *)
(* the run ended, it has joined or aborted the task it started.            *)
(***************************************************************************)
THEOREM FailedWdaHasNoTask == Spec => []FailedWdaLeavesNoTask
<1>1. Init => WdaInv
  BY DEF Init, Session!Init, WdaInv, FailedWdaLeavesNoTask, Session!FailedWdaLeavesNoTask
<1>2. WdaInv /\ [Next]_vars => WdaInv'
  BY NextRefines, WdaInvNext
<1>3. WdaInv => FailedWdaLeavesNoTask
  BY DEF WdaInv
<1> QED BY <1>1, <1>2, <1>3, PTL DEF Spec

=============================================================================
