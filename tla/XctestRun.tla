------------------------------ MODULE XctestRun ------------------------------
(***************************************************************************)
(* An XCTest run down to the handshakes of its three connections:          *)
(* XctestSession, in which connecting is one step, composed with           *)
(* DtxHandshake, which opens one connection.                               *)
(*                                                                         *)
(* connect_testmanagerd (services/dvt/xctest/mod.rs) opens them one after  *)
(* the other.  From iOS 17 on they go through a tunnel of their own, up to *)
(* StackAttempts times, and a dvt connection that cannot be had there is   *)
(* asked of lockdown instead; before iOS 17 all three come from lockdown.  *)
(***************************************************************************)
EXTENDS Naturals, Sequences

CONSTANTS
  Versions, MaxMessages, MaxPolls,  \* of XctestSession
  MaxAttempts, Parallel,            \* of DtxHandshake
  StackAttempts                     \* RSD_STACK_ATTEMPTS

ASSUME BoundsAssumption ==
  /\ Versions \subseteq Nat /\ MaxMessages \in Nat /\ MaxPolls \in Nat
  /\ MaxAttempts \in Nat \ {0} /\ StackAttempts \in Nat \ {0}
ASSUME ParallelAssumption == Parallel \in BOOLEAN

VARIABLES
  pc, ver, init, early, channel, runner, plan, sent, wire, queue, seen, replies,
  closed, result, wda,
  stack,    \* where connect_testmanagerd is: its place, its attempts, what it has opened
  mode, attempt, identifiers, already, offered, hpc, woken, hclosed, rpc, hello, eof,
  outcome

Session == INSTANCE XctestSession

H == INSTANCE DtxHandshake WITH pc <- hpc, closed <- hclosed

handshake == <<mode, attempt, identifiers, already, offered, hpc, woken, hclosed, rpc,
               hello, eof, outcome>>

session == <<pc, ver, init, early, channel, runner, plan, sent, wire, queue, seen,
             replies, closed, result, wda>>

vars == <<session, stack, handshake>>

(* No connection is being opened.                                          *)
NoStack == [at |-> "idle", tries |-> 0, open |-> <<>>]

Init == Session!Init /\ H!Init /\ mode = "lockdown" /\ stack = NoStack

-----------------------------------------------------------------------------
(* The state of a connection that is about to be opened, or of none.       *)
Fresh(m) ==
  /\ mode' = m /\ attempt' = 0 /\ outcome' = "none"
  /\ identifiers' = "pending" /\ already' = FALSE /\ offered' = FALSE
  /\ hpc' = "connect" /\ woken' = {} /\ hclosed' = FALSE /\ rpc' = "none"
  /\ hello' = "none" /\ eof' = FALSE

(* The order in which connect_rsd_stack_once and connect_testmanagerd open *)
(* the connections.                                                        *)
Order == IF ver >= 17 THEN <<"dvt", "ctrl", "main">> ELSE <<"ctrl", "main", "dvt">>

Opening == Order[Len(stack.open) + 1]

(* Which function opens the next one.  connect_dtx_service waits for no    *)
(* greeting of the dvt service.                                            *)
Mode == IF ver >= 17 THEN "rsd" ELSE "lockdown"

Dial(s) == stack' = [s EXCEPT !.at = "dial"] /\ Fresh(Mode)

(* connect_testmanagerd is called; the tunnel and its RSD handshake.       *)
BeginStack ==
  /\ pc = "connect" /\ stack.at = "idle"
  /\ \/ ver < 17 /\ Dial(stack)
     \/ ver >= 17 /\ Dial([stack EXCEPT !.tries = @ + 1])
     \/ ver >= 17 /\ stack' = [stack EXCEPT !.at = "failed", !.tries = @ + 1]
                  /\ UNCHANGED handshake
  /\ UNCHANGED session

(* A step of rsd_connect or connect_dtx_service, and one of the connection *)
(* it is opening.                                                          *)
Dialling == pc = "connect" /\ stack.at = "dial" /\ (Opening = "dvt" => Mode = "rsd")

HandshakeStep == Dialling /\ H!Client /\ UNCHANGED <<session, stack>>

PeerStep == Dialling /\ (H!Reader \/ H!Device) /\ UNCHANGED <<session, stack>>

(* The next connection, or the end, with this one opened as `how`.         *)
Opened(how) ==
  LET s == [stack EXCEPT !.open = Append(@, how)]
  IN  IF Len(s.open) = 3 THEN stack' = [s EXCEPT !.at = "done"] /\ UNCHANGED handshake
                         ELSE Dial(s)

Failed == stack' = [stack EXCEPT !.at = "failed"] /\ UNCHANGED handshake

(* connect_dtx_service for the dvt service: no greeting, or the fallback.  *)
DialDvtByLockdown ==
  /\ pc = "connect" /\ stack.at = "dial" /\ Opening = "dvt"
  /\ Mode = "rsd" => hpc = "done" /\ outcome = "error"
  /\ Opened("lockdown") \/ Failed
  /\ UNCHANGED session

HandshakeEnds ==
  /\ pc = "connect" /\ stack.at = "dial" /\ hpc = "done"
  /\ \/ outcome = "ok" /\ Opened(IF offered /\ hello = "seen" THEN "exchanged" ELSE "silent")
     \/ outcome = "error" /\ ~(Opening = "dvt" /\ Mode = "rsd") /\ Failed
  /\ UNCHANGED session

(* Variant: the attempts are counted per stack and never add up.           *)
RetryStackForgets ==
  /\ pc = "connect" /\ stack.at = "failed" /\ ver >= 17 /\ stack.tries < StackAttempts
  /\ stack' = NoStack /\ Fresh("lockdown")
  /\ UNCHANGED session

(* connect_testmanagerd_rsd tries the whole stack again.                   *)
RetryStack ==
  /\ pc = "connect" /\ stack.at = "failed" /\ ver >= 17 /\ stack.tries < StackAttempts
  /\ stack' = [NoStack EXCEPT !.tries = stack.tries] /\ Fresh("lockdown")
  /\ UNCHANGED session

(* The session goes on with what connect_testmanagerd returned; opening    *)
(* the channels on it may still fail.                                      *)
StackReturns ==
  /\ pc = "connect"
  /\ \/ stack.at = "done"
     \/ /\ stack.at = "failed" /\ (ver < 17 \/ stack.tries = StackAttempts)
        /\ pc' = "returned"
  /\ Session!Connect
  /\ stack' = NoStack /\ Fresh("lockdown")

-----------------------------------------------------------------------------
Connecting ==
  \/ BeginStack \/ HandshakeStep \/ DialDvtByLockdown \/ HandshakeEnds \/ RetryStack
  \/ StackReturns

Next ==
  \/ Connecting \/ PeerStep
  \/ Session!RunSteps /\ UNCHANGED <<stack, handshake>>
  \/ Session!Others /\ UNCHANGED <<stack, handshake>>

(* As in XctestSession; the task of the run is polled while it connects,   *)
(* too, and timers fire.                                                   *)
Fairness ==
  /\ WF_vars(Connecting)
  /\ WF_vars(Session!RunSteps /\ UNCHANGED <<stack, handshake>>)
  /\ WF_vars(Session!ReaderNext /\ UNCHANGED <<stack, handshake>>)
  /\ WF_vars(Session!RunnerExits /\ UNCHANGED <<stack, handshake>>)
  /\ WF_vars(Session!WdaPoll /\ UNCHANGED <<stack, handshake>>)

Spec == Init /\ [][Next]_vars /\ Fairness

-----------------------------------------------------------------------------
(* connect_testmanagerd: connecting, with its retries of a connection, of  *)
(* the whole stack and its fallback, is one step of the session that comes *)
(* to an end; the detailed run implements XctestSession, fairness          *)
(* included.                                                               *)
ImplementsSession == Session!Spec

(* connect_testmanagerd_rsd: a run on iOS 17 goes on only with connections *)
(* to testmanagerd that have exchanged capabilities both ways, each on the *)
(* very connection it goes on with and not on one an earlier attempt, of   *)
(* the connection or of the stack, gave up.                                *)
TestmanagerdExchanged ==
  pc = "connect" /\ stack.at = "done" /\ ver >= 17 =>
    stack.open[2] = "exchanged" /\ stack.open[3] = "exchanged"

(* The hand-over from handler to dispatch loop; see XctestSession.         *)
NothingLostAtHandOver == Session!NothingLostAtHandOver

(* Ok means that the plan was served to its end; see XctestSession.        *)
OkMeansAnswered == Session!OkMeansAnswered

(* A failed run_until_wda_ready leaves no task; see XctestSession.         *)
FailedWdaLeavesNoTask == Session!FailedWdaLeavesNoTask

(* A run returns, however often it had to connect; see XctestSession.      *)
RunReturns == Session!RunReturns
=============================================================================
