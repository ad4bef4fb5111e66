----------------------------- MODULE Http2Flow -----------------------------
(***************************************************************************)
(* Flow control of the HTTP/2 client under RemoteXPC (xpc/http2/mod.rs):   *)
(* messages on the channels, file transfers on streams of their own        *)
(* (xpc/mod.rs), the send windows of the connection and of the streams,    *)
(* and the device that grants credit, changes InitialWindowSize and resets *)
(* streams. The client is borrowed mutably, so it does one thing at a      *)
(* time.                                                                   *)
(*                                                                         *)
(* Bytes in flight are known by their number. What the device sends may be *)
(* taken in any order (TCP keeps it, so this allows more), except that the *)
(* acknowledgement of SETTINGS separates the bytes written before it from  *)
(* those written after it.                                                 *)
(***************************************************************************)
EXTENDS Integers

CONSTANTS
    Channels,       \* streams for messages: root, reply, responses
    FileStreams,    \* streams for outbound file transfers
    FirstFileStream,
    DefaultWindow,  \* DEFAULT_WINDOW
    MaxFrame,       \* MAX_FRAME_SIZE
    Preamble,       \* length of the wrapper that begins a transfer
    Sizes,          \* lengths of the messages and files sent
    MaxSends,       \* bound on the messages and files sent
    Increments,     \* increments of the device's WINDOW_UPDATEs
    InitialSizes,   \* values of InitialWindowSize the device announces
    MaxSettings,    \* bound on the SETTINGS it sends
    MaxCredit       \* the device tops a window up only below this

Streams == Channels \cup FileStreams

ASSUME StreamsAssumption == Streams \subseteq Nat /\ Channels \cap FileStreams = {}
ASSUME SizesAssumption ==
    /\ FirstFileStream \in Nat
    /\ DefaultWindow \in Nat /\ MaxFrame \in Nat \ {0} /\ Preamble \in Nat \ {0}
    /\ Sizes \subseteq Nat \ {0} /\ Increments \subseteq Nat \ {0}
    /\ InitialSizes \subseteq Nat
    /\ MaxSends \in Nat /\ MaxSettings \in Nat /\ MaxCredit \in Nat

VARIABLES
    conn_send_window,
    stream_send_windows,    \* meaningful for the streams in seeded
    seeded,                 \* streams with an entry in stream_send_windows
    peer_initial_window,
    finished_file_transfer_streams,
    next_outbound_file_stream,
    pc,             \* "idle", "send" or "read"
    job,            \* the payload being sent, and what follows it
    sends,          \* messages and files begun
    cflight,        \* bytes on their way to the device, over all streams
    flight,         \* per stream, those written before a SETTINGS ack in flight
    after,          \* per stream, those written after it
    ccredit,        \* connection increments on their way to the host
    credit,         \* stream increments on their way to the host
    settings,       \* InitialWindowSize on its way to the host, or {}
    acked,          \* a SETTINGS ack is on its way to the device
    delta,          \* what that ack changes in every stream's window
    resets,         \* RST_STREAMs on their way to the host
    dev_conn,       \* device: bytes it is still ready to take
    dev_stream,     \* device: the same, per stream
    announced,      \* device: SETTINGS sent
    gone            \* device: streams it has reset

hostVars   == <<conn_send_window, stream_send_windows, seeded, peer_initial_window>>
sendVars   == <<finished_file_transfer_streams, next_outbound_file_stream, pc, job, sends>>
flightVars == <<cflight, flight, after>>
creditVars == <<ccredit, credit>>
setVars    == <<settings, acked, delta>>
devVars    == <<dev_conn, dev_stream, announced>>
rstVars    == <<resets, gone>>
vars == <<hostVars, sendVars, flightVars, creditVars, setVars, devVars, rstVars>>

NoJob == [stream |-> 0, left |-> 0, next |-> 0, end |-> FALSE]

Init ==
    /\ conn_send_window = DefaultWindow
    /\ stream_send_windows = [s \in Streams |-> 0] /\ seeded = {}
    /\ peer_initial_window = DefaultWindow
    /\ finished_file_transfer_streams = {}
    /\ next_outbound_file_stream = FirstFileStream
    /\ pc = "idle" /\ job = NoJob /\ sends = 0
    /\ cflight = 0 /\ flight = [s \in Streams |-> 0] /\ after = [s \in Streams |-> 0]
    /\ ccredit = 0 /\ credit = [s \in Streams |-> 0]
    /\ settings = {} /\ acked = FALSE /\ delta = 0
    /\ dev_conn = DefaultWindow /\ dev_stream = [s \in Streams |-> DefaultWindow]
    /\ announced = 0
    /\ resets = {} /\ gone = {}

\* stream_send_window: a stream's entry is made when it is first needed.
Window(s) == IF s \in seeded THEN stream_send_windows[s] ELSE peer_initial_window

-----------------------------------------------------------------------------
Begin(j) ==
    /\ pc = "idle" /\ sends < MaxSends
    /\ sends' = sends + 1 /\ pc' = "send" /\ job' = j
    /\ UNCHANGED <<finished_file_transfer_streams, hostVars, flightVars, creditVars, setVars,
                   devVars, rstVars>>

\* send_root, send_reply and open_file_stream_for_response.
SendMessage(s, n) ==
    /\ Begin([stream |-> s, left |-> n, next |-> 0, end |-> FALSE])
    /\ UNCHANGED next_outbound_file_stream

\* send_file_transfer_with_progress: the preamble, the file in chunks that are
\* sent one after the other, END_STREAM.
SendFileTransfer(n) ==
    /\ next_outbound_file_stream \in FileStreams
    /\ Begin([stream |-> next_outbound_file_stream, left |-> Preamble, next |-> n,
              end |-> TRUE])
    /\ next_outbound_file_stream' = next_outbound_file_stream + 2

-----------------------------------------------------------------------------
Least(m, n) == IF m <= n THEN m ELSE n
FrameSize == Least(Least(job.left, MaxFrame), Least(conn_send_window, Window(job.stream)))

\* Variant: send_inner waits until a full frame fits.
BlockedForFullFrame ==
    \/ conn_send_window < Least(job.left, MaxFrame)
    \/ Window(job.stream) < Least(job.left, MaxFrame)

\* send_inner waits only while a window is used up.
Blocked == conn_send_window <= 0 \/ Window(job.stream) <= 0

\* Variant: the bytes are not taken off the connection's window.
SendFrameUnaccounted ==
    LET s == job.stream IN
    /\ pc = "send" /\ job.left > 0 /\ ~Blocked
    /\ stream_send_windows' = [stream_send_windows EXCEPT ![s] = Window(s) - FrameSize]
    /\ seeded' = seeded \cup {s}
    /\ cflight' = cflight + FrameSize
    /\ IF acked
       THEN after' = [after EXCEPT ![s] = @ + FrameSize] /\ UNCHANGED flight
       ELSE flight' = [flight EXCEPT ![s] = @ + FrameSize] /\ UNCHANGED after
    /\ job' = [job EXCEPT !.left = @ - FrameSize]
    /\ UNCHANGED <<conn_send_window, peer_initial_window, finished_file_transfer_streams,
                   next_outbound_file_stream, pc, sends, creditVars, setVars, devVars, rstVars>>

\* send_inner writes one DATA frame, as large as both windows allow.
SendFrame ==
    LET s == job.stream IN
    /\ pc = "send" /\ job.left > 0 /\ ~Blocked
    /\ conn_send_window' = conn_send_window - FrameSize
    /\ stream_send_windows' = [stream_send_windows EXCEPT ![s] = Window(s) - FrameSize]
    /\ seeded' = seeded \cup {s}
    /\ cflight' = cflight + FrameSize
    /\ IF acked
       THEN after' = [after EXCEPT ![s] = @ + FrameSize] /\ UNCHANGED flight
       ELSE flight' = [flight EXCEPT ![s] = @ + FrameSize] /\ UNCHANGED after
    /\ job' = [job EXCEPT !.left = @ - FrameSize]
    /\ UNCHANGED <<peer_initial_window, finished_file_transfer_streams,
                   next_outbound_file_stream, pc, sends, creditVars, setVars, devVars, rstVars>>

\* Variant: every stream a payload ends on is recorded as a finished transfer.
PayloadDoneMarksAll ==
    /\ pc = "send" /\ job.left = 0
    /\ IF job.next > 0
       THEN /\ job' = [job EXCEPT !.left = job.next, !.next = 0]
            /\ UNCHANGED <<pc, finished_file_transfer_streams>>
       ELSE /\ pc' = "idle" /\ job' = NoJob
            /\ finished_file_transfer_streams' =
                   finished_file_transfer_streams \cup {job.stream}
    /\ UNCHANGED <<next_outbound_file_stream, sends, hostVars, flightVars, creditVars,
                   setVars, devVars, rstVars>>

\* The payload is out: the next one follows, or END_STREAM, or send returns.
PayloadDone ==
    /\ pc = "send" /\ job.left = 0
    /\ IF job.next > 0
       THEN /\ job' = [job EXCEPT !.left = job.next, !.next = 0]
            /\ UNCHANGED <<pc, finished_file_transfer_streams>>
       ELSE /\ pc' = "idle" /\ job' = NoJob
            /\ finished_file_transfer_streams' =
                   IF job.end THEN finished_file_transfer_streams \cup {job.stream}
                              ELSE finished_file_transfer_streams
    /\ UNCHANGED <<next_outbound_file_stream, sends, hostVars, flightVars, creditVars,
                   setVars, devVars, rstVars>>

\* send_inner waits for credit in vain for 30 seconds, or its future is dropped
\* while it waits, flushes or goes from one chunk to the next: what is left of
\* the job is never sent.
GiveUp ==
    /\ pc = "send"
    /\ pc' = "idle" /\ job' = NoJob
    /\ UNCHANGED <<finished_file_transfer_streams, next_outbound_file_stream, sends, hostVars,
                   flightVars, creditVars, setVars, devVars, rstVars>>

\* read and read_any pump until DATA comes (module XpcReceive) or are dropped.
StartRead ==
    /\ pc = "idle" /\ pc' = "read"
    /\ UNCHANGED <<finished_file_transfer_streams, next_outbound_file_stream, job, sends,
                   hostVars, flightVars, creditVars, setVars, devVars, rstVars>>

ReadReturns ==
    /\ pc = "read" /\ pc' = "idle"
    /\ UNCHANGED <<finished_file_transfer_streams, next_outbound_file_stream, job, sends,
                   hostVars, flightVars, creditVars, setVars, devVars, rstVars>>

-----------------------------------------------------------------------------
\* Variant: a send without credit waits and does not read.
PumpingOnlyInRead == pc = "read"

\* Somebody calls pump: a read, or a send without credit.
Pumping == pc = "read" \/ (pc = "send" /\ job.left > 0 /\ Blocked)

PumpConnUpdate(n) ==
    /\ Pumping /\ n \in 1..ccredit
    /\ ccredit' = ccredit - n
    /\ conn_send_window' = conn_send_window + n
    /\ UNCHANGED <<stream_send_windows, seeded, peer_initial_window, sendVars, flightVars,
                   credit, setVars, devVars, rstVars>>

PumpStreamUpdate(s, n) ==
    /\ Pumping /\ n \in 1..credit[s]
    /\ credit' = [credit EXCEPT ![s] = @ - n]
    /\ stream_send_windows' = [stream_send_windows EXCEPT ![s] = Window(s) + n]
    /\ seeded' = seeded \cup {s}
    /\ UNCHANGED <<conn_send_window, peer_initial_window, sendVars, flightVars, ccredit,
                   setVars, devVars, rstVars>>

\* SETTINGS: every stream in use moves by the difference; then the ack.
PumpSettings(v) ==
    /\ Pumping /\ v \in settings
    /\ settings' = {}
    /\ peer_initial_window' = v
    /\ stream_send_windows' = [s \in Streams |->
           IF s \in seeded THEN stream_send_windows[s] + (v - peer_initial_window)
                           ELSE stream_send_windows[s]]
    /\ acked' = TRUE /\ delta' = v - peer_initial_window
    /\ UNCHANGED <<conn_send_window, seeded, sendVars, flightVars, creditVars, devVars, rstVars>>

\* A reset of a stream we finished is its completion; of another, an error.
PumpReset(s) ==
    /\ Pumping /\ s \in resets
    /\ resets' = resets \ {s}
    /\ IF s \in finished_file_transfer_streams
       THEN /\ finished_file_transfer_streams' = finished_file_transfer_streams \ {s}
            /\ UNCHANGED <<pc, job>>
       ELSE /\ pc' = "idle" /\ job' = NoJob
            /\ UNCHANGED finished_file_transfer_streams
    /\ UNCHANGED <<next_outbound_file_stream, sends, hostVars, flightVars, creditVars,
                   setVars, devVars, gone>>

-----------------------------------------------------------------------------
(***************************************************************************)
(* The device. It applies a new InitialWindowSize to its own accounts when *)
(* the ack reaches it, the bytes before the ack having been received.      *)
(***************************************************************************)
DeviceReceives(s, n) ==
    /\ n \in 1..flight[s] /\ n <= cflight
    /\ flight' = [flight EXCEPT ![s] = @ - n]
    /\ cflight' = cflight - n
    /\ dev_conn' = dev_conn - n
    /\ dev_stream' = [dev_stream EXCEPT ![s] = @ - n]
    /\ UNCHANGED <<after, announced, hostVars, sendVars, creditVars, setVars, rstVars>>

DeviceReceivesAck ==
    /\ acked /\ \A s \in Streams : flight[s] = 0
    /\ dev_stream' = [s \in Streams |-> dev_stream[s] + delta]
    /\ flight' = after /\ after' = [s \in Streams |-> 0]
    /\ acked' = FALSE /\ delta' = 0
    /\ UNCHANGED <<settings, dev_conn, announced, cflight, hostVars, sendVars, creditVars,
                   rstVars>>

DeviceGrantsConn(n) ==
    /\ dev_conn < MaxCredit
    /\ dev_conn' = dev_conn + n /\ ccredit' = ccredit + n
    /\ UNCHANGED <<dev_stream, announced, credit, hostVars, sendVars, flightVars, setVars,
                   rstVars>>

DeviceGrantsStream(s, n) ==
    /\ dev_stream[s] < MaxCredit
    /\ dev_stream' = [dev_stream EXCEPT ![s] = @ + n]
    /\ credit' = [credit EXCEPT ![s] = @ + n]
    /\ UNCHANGED <<dev_conn, announced, ccredit, hostVars, sendVars, flightVars, setVars,
                   rstVars>>

DeviceSettings(v) ==
    /\ settings = {} /\ ~acked /\ announced < MaxSettings
    /\ announced' = announced + 1
    /\ settings' = {v}
    /\ UNCHANGED <<acked, delta, dev_conn, dev_stream, hostVars, sendVars, flightVars,
                   creditVars, rstVars>>

DeviceResets(s) ==
    /\ s < next_outbound_file_stream /\ s \notin gone
    /\ gone' = gone \cup {s} /\ resets' = resets \cup {s}
    /\ UNCHANGED <<hostVars, sendVars, flightVars, creditVars, setVars, devVars>>

-----------------------------------------------------------------------------
Pump ==
    \/ \E n \in 1..ccredit : PumpConnUpdate(n)
    \/ \E s \in Streams : \E n \in 1..credit[s] : PumpStreamUpdate(s, n)
    \/ \E v \in settings : PumpSettings(v)
    \/ \E s \in FileStreams : PumpReset(s)

Host ==
    \/ \E n \in Sizes : SendFileTransfer(n) \/ \E s \in Channels : SendMessage(s, n)
    \/ SendFrame \/ PayloadDone \/ GiveUp \/ StartRead \/ ReadReturns
    \/ Pump

Device ==
    \/ \E s \in Streams : \E n \in 1..flight[s] : DeviceReceives(s, n)
    \/ DeviceReceivesAck
    \/ \E n \in Increments :
          DeviceGrantsConn(n) \/ \E s \in Streams : DeviceGrantsStream(s, n)
    \/ \E v \in InitialSizes : DeviceSettings(v)
    \/ \E s \in FileStreams : DeviceResets(s)

Next == Host \/ Device

Spec == Init /\ [][Next]_vars

(***************************************************************************)
(* The host's future is polled; the device takes what arrives, and grants  *)
(* more credit at the latest when the credit it gave is used up.           *)
(***************************************************************************)
FairSpec ==
    /\ Spec
    /\ WF_vars(SendFrame) /\ WF_vars(PayloadDone) /\ WF_vars(Pump)
    /\ WF_vars(\E s \in Streams : \E n \in 1..flight[s] : DeviceReceives(s, n))
    /\ WF_vars(DeviceReceivesAck)
    /\ WF_vars(dev_conn <= 0 /\ \E n \in Increments : DeviceGrantsConn(n))
    /\ \A s \in Streams :
          WF_vars(dev_stream[s] <= 0 /\ \E n \in Increments : DeviceGrantsStream(s, n))

-----------------------------------------------------------------------------
\* Type invariant of the client, of what is in flight and of the device.
TypeOK ==
    /\ conn_send_window \in Int /\ stream_send_windows \in [Streams -> Int]
    /\ seeded \subseteq Streams /\ peer_initial_window \in Nat
    /\ finished_file_transfer_streams \subseteq FileStreams
    /\ next_outbound_file_stream \in Nat
    /\ pc \in {"idle", "send", "read"}
    /\ job \in [stream : Streams \cup {0}, left : Nat, next : Nat, end : BOOLEAN]
    /\ pc = "send" => job.stream \in Streams /\ (job.end => job.stream \in FileStreams)
    /\ sends \in 0..MaxSends
    /\ cflight \in Nat /\ flight \in [Streams -> Nat] /\ after \in [Streams -> Nat]
    /\ ccredit \in Nat /\ credit \in [Streams -> Nat]
    /\ settings \subseteq InitialSizes /\ acked \in BOOLEAN /\ delta \in Int
    /\ dev_conn \in Int /\ dev_stream \in [Streams -> Int] /\ announced \in 0..MaxSettings
    /\ resets \subseteq FileStreams /\ gone \subseteq FileStreams

(***************************************************************************)
(* send_inner, stream_send_window and pump: whatever is in flight is       *)
(* covered by credit the device has granted, on the connection and on each *)
(* stream, however its grants and its changes of InitialWindowSize cross   *)
(* with the frames ("overruns the connection window ... and the device     *)
(* answers with GOAWAY (FLOW_CONTROL_ERROR)").                             *)
(***************************************************************************)
NeverOverrun ==
    /\ cflight <= dev_conn
    /\ \A s \in Streams : flight[s] > 0 => flight[s] <= dev_stream[s]

(***************************************************************************)
(* send_inner ("can deadlock when the peer waits for its remaining credit  *)
(* to be consumed before replenishing the window"): when the sender waits  *)
(* and nothing is under way in either direction, the device has none of    *)
(* its credit left unused on that stream or on the connection.             *)
(***************************************************************************)
Quiet ==
    /\ ccredit = 0 /\ settings = {} /\ ~acked /\ cflight = 0
    /\ \A s \in Streams : credit[s] = 0 /\ flight[s] = 0 /\ after[s] = 0

NoStandoff ==
    pc = "send" /\ job.left > 0 /\ Blocked /\ Quiet
        => dev_conn <= 0 \/ dev_stream[job.stream] <= 0

(***************************************************************************)
(* send and send_end_stream: a payload larger than every window gets       *)
(* through to a device that replenishes what it has consumed, and the      *)
(* 30-second timeout is not needed for it.                                 *)
(***************************************************************************)
SendCompletes == (pc = "send") ~> (pc # "send")
=============================================================================
