---------------------------- MODULE DtxHandshake ----------------------------
(***************************************************************************)
(* The capability handshake of a DTX connection and the two ways an XCTest *)
(* run opens one: perform_handshake under rsd_connect, which retries on a  *)
(* new connection, and wait_for_capabilities under connect_dtx_service,    *)
(* which ignores its result. The client is sequential (both functions      *)
(* borrow the RemoteServerClient); it races with the reader task, the      *)
(* device and the timer.                                                   *)
(*                                                                         *)
(* perform_handshake has no caller without capabilities of its own, so the *)
(* Skipped state of CapabilityHandshakeState does not arise.               *)
(***************************************************************************)
EXTENDS Naturals

CONSTANTS
    MaxAttempts,    \* rsd_connect's MAX_ATTEMPTS
    Parallel        \* TRUE: client and reader run on several threads

VARIABLES
    mode,           \* "rsd" or "lockdown": the function that connects
    attempt,        \* connections opened so far
    identifiers,    \* supported_identifiers: "pending" or "received"
    already,        \* already_received: the copy perform_handshake took
    offered,        \* the host's capabilities were written to this connection
    pc,             \* where the client is
    woken,          \* what the client's Notified futures received
    closed,         \* the AtomicBool of this connection
    rpc,            \* the reader of this connection
    hello,          \* the device's notification: "none", "sent", "seen"
    eof,            \* the transport of this connection has failed
    outcome         \* what the connecting function returned

connVars   == <<mode, attempt, outcome>>
clientVars == <<connVars, already, offered, pc>>
peerVars   == <<hello, eof>>
vars == <<clientVars, identifiers, woken, closed, rpc, peerVars>>

\* Positions the client reaches without an await that can suspend it: the locks
\* are never held across one, so a single-threaded runtime runs on from there.
NoYield    == {"store", "check", "park"}
ReaderRuns == Parallel \/ pc \notin NoYield

Init ==
    /\ mode \in {"rsd", "lockdown"} /\ attempt = 0 /\ outcome = "none"
    /\ identifiers = "pending" /\ already = FALSE /\ offered = FALSE
    /\ pc = "connect" /\ woken = {} /\ closed = FALSE /\ rpc = "none"
    /\ hello = "none" /\ eof = FALSE

-----------------------------------------------------------------------------
Return(o) == pc' = "done" /\ outcome' = o /\ UNCHANGED <<mode, attempt>>
Goto(p)   == pc' = p /\ UNCHANGED connVars

(***************************************************************************)
(* A failed handshake: connect_dtx_service hands out the client all the    *)
(* same, rsd_connect sleeps and tries again, up to MaxAttempts times.      *)
(***************************************************************************)
Fail ==
    \/ mode = "lockdown" /\ Return("ok")
    \/ mode = "rsd" /\ attempt < MaxAttempts /\ Goto("connect")
    \/ mode = "rsd" /\ attempt = MaxAttempts /\ Return("error")

\* RemoteServerClient::with_label on a new stream; the previous client is dropped.
Connect ==
    /\ pc = "connect"
    /\ attempt' = attempt + 1
    /\ pc' = IF mode = "lockdown" THEN "look" ELSE "snapshot"
    /\ identifiers' = "pending" /\ already' = FALSE /\ offered' = FALSE
    /\ woken' = {} /\ closed' = FALSE /\ rpc' = "read" /\ hello' = "none" /\ eof' = FALSE
    /\ UNCHANGED <<mode, outcome>>

\* A stream that cannot be opened is not retried.
ConnectFails ==
    /\ pc = "connect"
    /\ Return("error")
    /\ UNCHANGED <<already, offered, identifiers, woken, closed, rpc, peerVars>>

(***************************************************************************)
(* perform_handshake copies the state under its lock, releases the lock,   *)
(* takes it again and writes what the copy says.                           *)
(***************************************************************************)
Snapshot ==
    /\ pc = "snapshot"
    /\ already' = (identifiers = "received")
    /\ Goto("store")
    /\ UNCHANGED <<offered, identifiers, woken, closed, rpc, peerVars>>

StoreState ==
    /\ pc = "store"
    /\ identifiers' = IF already THEN "received" ELSE "pending"
    /\ Goto("send")
    /\ UNCHANGED <<already, offered, woken, closed, rpc, peerVars>>

\* Variant: the early return for capabilities already received comes first.
SendAfterEarlyReturn ==
    /\ pc = "send"
    /\ IF already
       THEN Return("ok") /\ UNCHANGED offered
       ELSE offered' = TRUE /\ Goto("look")
    /\ UNCHANGED <<already, identifiers, woken, closed, rpc, peerVars>>

\* call_method with the host's capabilities, then the early return.
SendCapabilities ==
    /\ pc = "send"
    /\ offered' = TRUE
    /\ IF already THEN Return("ok") ELSE Goto("look")
    /\ UNCHANGED <<already, identifiers, woken, closed, rpc, peerVars>>

SendFails ==
    /\ pc = "send" /\ eof
    /\ Fail
    /\ UNCHANGED <<already, offered, identifiers, woken, closed, rpc, peerVars>>

(***************************************************************************)
(* The loop of perform_handshake and wait_for_capabilities.                *)
(***************************************************************************)
Look ==
    /\ pc = "look"
    /\ IF identifiers = "received" THEN Return("ok") ELSE Goto("check")
    /\ UNCHANGED <<already, offered, identifiers, woken, closed, rpc, peerVars>>

CheckClosed ==
    /\ pc = "check"
    /\ IF closed THEN Fail ELSE Goto("park")
    /\ UNCHANGED <<already, offered, identifiers, woken, closed, rpc, peerVars>>

Park ==
    /\ pc = "park"
    /\ Goto("parked")
    /\ UNCHANGED <<already, offered, identifiers, woken, closed, rpc, peerVars>>

WakeHandshake ==
    /\ pc = "parked" /\ "handshake" \in woken
    /\ Goto("look") /\ woken' = {}
    /\ UNCHANGED <<already, offered, identifiers, closed, rpc, peerVars>>

WakeClosed ==
    /\ pc = "parked" /\ "closed" \in woken
    /\ Fail /\ woken' = {}
    /\ UNCHANGED <<already, offered, identifiers, closed, rpc, peerVars>>

\* The timer fires while the loop sleeps; timeout polls the loop before the timer.
TimeOut ==
    /\ pc = "parked" /\ woken = {}
    /\ Fail
    /\ UNCHANGED <<already, offered, identifiers, woken, closed, rpc, peerVars>>

-----------------------------------------------------------------------------
\* notify_waiters reaches futures that exist.
Notify(event) == woken' = IF pc = "parked" THEN woken \cup {event} ELSE woken

\* handle_control_message on _notifyOfPublishedCapabilities:.
ReceiveHello ==
    /\ ReaderRuns /\ rpc = "read" /\ hello = "sent"
    /\ hello' = "seen"
    /\ identifiers' = "received"
    /\ Notify("handshake")
    /\ UNCHANGED <<clientVars, closed, rpc, eof>>

\* The reader exits on a transport error, the bytes before it having been read.
ReaderExits ==
    /\ ReaderRuns /\ rpc = "read" /\ eof /\ hello # "sent"
    /\ rpc' = "done" /\ closed' = TRUE
    /\ Notify("closed")
    /\ UNCHANGED <<clientVars, identifiers, peerVars>>

\* The device: one notification per connection, whenever it likes, or none.
DeviceHello ==
    /\ attempt > 0 /\ ~eof /\ hello = "none" /\ pc \notin {"connect", "done"}
    /\ hello' = "sent"
    /\ UNCHANGED <<clientVars, identifiers, woken, closed, rpc, eof>>

DeviceCloses ==
    /\ attempt > 0 /\ ~eof /\ pc \notin {"connect", "done"}
    /\ eof' = TRUE
    /\ UNCHANGED <<clientVars, identifiers, woken, closed, rpc, hello>>

Client == \/ Connect \/ ConnectFails \/ Snapshot \/ StoreState \/ SendCapabilities
          \/ SendFails \/ Look \/ CheckClosed \/ Park \/ WakeHandshake \/ WakeClosed
          \/ TimeOut
Reader == ReceiveHello \/ ReaderExits
Device == DeviceHello \/ DeviceCloses
Next   == Client \/ Reader \/ Device

Spec == Init /\ [][Next]_vars

=============================================================================
