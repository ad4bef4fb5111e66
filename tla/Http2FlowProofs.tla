-------------------------- MODULE Http2FlowProofs --------------------------
(***************************************************************************)
(* Proofs about Http2Flow, for every set of streams, every size and every  *)
(* bound. Credit is neither made nor lost: what the device is ready to     *)
(* take is what the host believes it may send, plus what is in flight,     *)
(* plus the grants on their way. NeverOverrun and NoStandoff are two       *)
(* readings of that balance.                                               *)
(***************************************************************************)
EXTENDS Http2Flow, TLAPS

\* The typing that every step needs, without the history of the job.
Numbers ==
    /\ conn_send_window \in Int /\ stream_send_windows \in [Streams -> Int]
    /\ seeded \subseteq Streams /\ peer_initial_window \in Nat
    /\ cflight \in Nat /\ flight \in [Streams -> Nat] /\ after \in [Streams -> Nat]
    /\ ccredit \in Nat /\ credit \in [Streams -> Nat]
    /\ settings \subseteq InitialSizes /\ acked \in BOOLEAN /\ delta \in Int
    /\ dev_conn \in Int /\ dev_stream \in [Streams -> Int]

Jobs ==
    /\ finished_file_transfer_streams \subseteq FileStreams
    /\ next_outbound_file_stream \in Nat
    /\ pc \in {"idle", "send", "read"}
    /\ job \in [stream : Streams \cup {0}, left : Nat, next : Nat, end : BOOLEAN]
    /\ pc = "send" => job.stream \in Streams /\ (job.end => job.stream \in FileStreams)
    /\ sends \in 0..MaxSends
    /\ announced \in 0..MaxSettings
    /\ resets \subseteq FileStreams /\ gone \subseteq FileStreams

\* At most one change of InitialWindowSize is under way.
OneChange ==
    /\ settings # {} => ~acked
    /\ ~acked => delta = 0 /\ \A s \in Streams : after[s] = 0

ConnBalance ==
    /\ dev_conn = conn_send_window + cflight + ccredit
    /\ conn_send_window >= 0

StreamBalance(s) ==
    /\ dev_stream[s] + delta = Window(s) + flight[s] + after[s] + credit[s]
    /\ flight[s] = 0 \/ Window(s) + after[s] >= delta
    /\ after[s] = 0 \/ Window(s) >= 0

StreamBalances == \A s \in Streams : StreamBalance(s)

FlowInv == Numbers /\ Jobs /\ OneChange /\ ConnBalance /\ StreamBalances

-----------------------------------------------------------------------------
USE StreamsAssumption, SizesAssumption

\* The empty account: nothing sent, nothing granted, nothing announced.
LEMMA InitFlow == Init => FlowInv
<1> SUFFICES ASSUME Init PROVE FlowInv
  OBVIOUS
<1>1. Numbers
  <2>1. DefaultWindow \in Nat /\ DefaultWindow \in Int /\ {} \subseteq InitialSizes
    OBVIOUS
  <2>2. /\ [s \in Streams |-> 0] \in [Streams -> Nat]
        /\ [s \in Streams |-> 0] \in [Streams -> Int]
        /\ [s \in Streams |-> DefaultWindow] \in [Streams -> Int]
    BY <2>1
  <2>3. acked \in BOOLEAN
    BY DEF Init
  <2> QED
    BY <2>1, <2>2, <2>3 DEF Init, Numbers
<1>2. Jobs
  BY DEF Init, Jobs, NoJob
<1>3. OneChange /\ ConnBalance
  BY DEF Init, OneChange, ConnBalance
<1>4. StreamBalances
  BY DEF Init, StreamBalances, StreamBalance, Window
<1> QED
  BY <1>1, <1>2, <1>3, <1>4 DEF FlowInv

\* Steps that move no byte and no credit keep the balance.
LEMMA AccountsUnchanged ==
    ASSUME Numbers, OneChange, ConnBalance, StreamBalances,
           UNCHANGED <<hostVars, flightVars, creditVars, setVars, dev_conn, dev_stream>>
    PROVE  Numbers' /\ OneChange' /\ ConnBalance' /\ StreamBalances'
<1> USE DEF hostVars, flightVars, creditVars, setVars
<1>1. Numbers'
  BY DEF Numbers
<1>2. OneChange' /\ ConnBalance'
  BY DEF OneChange, ConnBalance
<1>3. StreamBalances'
  BY DEF StreamBalances, StreamBalance, Window
<1> QED
  BY <1>1, <1>2, <1>3

\* The window a stream has is an integer, whether it has an entry or not.
LEMMA WindowType ==
    ASSUME Numbers, NEW s \in Streams PROVE Window(s) \in Int
  BY DEF Numbers, Window

\* send_inner writes at least one byte and no more than either window holds.
LEMMA FrameFits ==
    ASSUME Numbers, Jobs, pc = "send", job.left > 0, ~Blocked
    PROVE  /\ FrameSize \in Nat /\ FrameSize > 0
           /\ FrameSize <= job.left
           /\ FrameSize <= conn_send_window
           /\ FrameSize <= Window(job.stream)
<1>1. Window(job.stream) \in Int
  BY WindowType DEF Jobs
<1>2. job.left \in Nat /\ conn_send_window \in Int
  BY DEF Jobs, Numbers
<1> QED
  BY <1>1, <1>2 DEF FrameSize, Least, Blocked

-----------------------------------------------------------------------------
LEMMA NoJobType == NoJob \in [stream : Streams \cup {0}, left : Nat, next : Nat, end : BOOLEAN]
  BY DEF NoJob

\* The steps of the client that only change what it is doing.
LEMMA JobStep ==
    ASSUME FlowInv,
           \/ \E n \in Sizes : SendFileTransfer(n) \/ \E s \in Channels : SendMessage(s, n)
           \/ PayloadDone \/ GiveUp \/ StartRead \/ ReadReturns
           \/ \E s \in FileStreams : PumpReset(s)
           \/ \E s \in FileStreams : DeviceResets(s)
           \/ UNCHANGED vars
    PROVE  FlowInv'
<1> USE DEF FlowInv
<1>1. CASE \E n \in Sizes : SendFileTransfer(n)
  <2> PICK n \in Sizes : SendFileTransfer(n)
    BY <1>1
  <2>1. Jobs'
    BY DEF SendFileTransfer, Begin, Jobs, rstVars, devVars, Streams
  <2> QED
    BY <2>1, AccountsUnchanged DEF SendFileTransfer, Begin, devVars
<1>2. CASE \E n \in Sizes : \E s \in Channels : SendMessage(s, n)
  <2> PICK n \in Sizes, s \in Channels : SendMessage(s, n)
    BY <1>2
  <2>1. Jobs'
    BY DEF SendMessage, Begin, Jobs, rstVars, devVars, Streams
  <2> QED
    BY <2>1, AccountsUnchanged DEF SendMessage, Begin, devVars
<1>3. CASE PayloadDone
  <2>1. ASSUME job.next > 0 PROVE Jobs'
    <3>1. job' = [job EXCEPT !.left = job.next, !.next = 0]
      BY <1>3, <2>1 DEF PayloadDone
    <3>2. /\ job' \in [stream : Streams \cup {0}, left : Nat, next : Nat, end : BOOLEAN]
          /\ job'.stream = job.stream /\ job'.end = job.end
      BY <3>1 DEF Jobs
    <3>3. UNCHANGED <<pc, finished_file_transfer_streams, next_outbound_file_stream, sends,
                      announced, resets, gone>>
      BY <1>3, <2>1 DEF PayloadDone, devVars, rstVars
    <3>4. pc = "send" => job.stream \in Streams /\ (job.end => job.stream \in FileStreams)
      BY DEF Jobs
    <3>5. pc' = "send" =>
             job'.stream \in Streams /\ (job'.end => job'.stream \in FileStreams)
      BY <3>2, <3>3, <3>4, Zenon
    <3>6. job' \in [stream : Streams \cup {0}, left : Nat, next : Nat, end : BOOLEAN]
      BY <3>2
    <3> QED
      BY <3>3, <3>5, <3>6 DEF Jobs
  <2>2. ASSUME ~(job.next > 0) PROVE Jobs'
    <3>1. /\ pc' = "idle" /\ job' = NoJob
          /\ finished_file_transfer_streams' =
                 IF job.end THEN finished_file_transfer_streams \cup {job.stream}
                            ELSE finished_file_transfer_streams
          /\ UNCHANGED <<next_outbound_file_stream, sends, announced, resets, gone>>
      BY <1>3, <2>2 DEF PayloadDone, devVars, rstVars
    <3>2. finished_file_transfer_streams' \subseteq FileStreams
      <4>1. /\ job.end => job.stream \in FileStreams
            /\ finished_file_transfer_streams \subseteq FileStreams
        BY <1>3 DEF PayloadDone, Jobs
      <4>2. CASE job.end
        BY <3>1, <4>1, <4>2
      <4>3. CASE ~job.end
        BY <3>1, <4>1, <4>3
      <4> QED
        BY <4>2, <4>3
    <3>3. /\ job' \in [stream : Streams \cup {0}, left : Nat, next : Nat, end : BOOLEAN]
          /\ pc' = "idle" /\ pc' # "send"
          /\ UNCHANGED <<next_outbound_file_stream, sends, announced, resets, gone>>
      BY <3>1, NoJobType
    <3> QED
      BY <3>2, <3>3 DEF Jobs
  <2>3. Jobs'
    BY <2>1, <2>2
  <2> QED
    BY <1>3, <2>3, AccountsUnchanged DEF PayloadDone, devVars
<1>4. CASE GiveUp
  <2>1. Jobs'
    BY <1>4 DEF GiveUp, Jobs, NoJob, rstVars, devVars
  <2> QED
    BY <1>4, <2>1, AccountsUnchanged DEF GiveUp, devVars
<1>5. CASE StartRead
  <2>1. Jobs'
    BY <1>5 DEF StartRead, Jobs, rstVars, devVars
  <2> QED
    BY <1>5, <2>1, AccountsUnchanged DEF StartRead, devVars
<1>6. CASE ReadReturns
  <2>1. Jobs'
    BY <1>6 DEF ReadReturns, Jobs, rstVars, devVars
  <2> QED
    BY <1>6, <2>1, AccountsUnchanged DEF ReadReturns, devVars
<1>7. CASE \E s \in FileStreams : PumpReset(s)
  <2> PICK s \in FileStreams : PumpReset(s)
    BY <1>7
  <2>1. /\ finished_file_transfer_streams' \subseteq FileStreams
        /\ resets' \subseteq FileStreams
        /\ UNCHANGED <<next_outbound_file_stream, sends, announced, gone>>
    BY DEF PumpReset, Jobs, devVars
  <2>2. (pc' = "idle" /\ job' = NoJob) \/ UNCHANGED <<pc, job>>
    BY DEF PumpReset
  <2>3. Jobs'
    BY <2>1, <2>2, NoJobType DEF Jobs
  <2> QED
    BY <2>3, AccountsUnchanged DEF PumpReset, devVars
<1>8. CASE \E s \in FileStreams : DeviceResets(s)
  <2> PICK s \in FileStreams : DeviceResets(s)
    BY <1>8
  <2>1. Jobs'
    BY DEF DeviceResets, Jobs, sendVars, devVars
  <2> QED
    BY <2>1, AccountsUnchanged DEF DeviceResets, devVars
<1>9. CASE UNCHANGED vars
  <2>1. Jobs'
    BY <1>9 DEF vars, Jobs, sendVars, devVars, rstVars
  <2> QED
    BY <1>9, <2>1, AccountsUnchanged DEF vars, devVars
<1> QED
  BY <1>1, <1>2, <1>3, <1>4, <1>5, <1>6, <1>7, <1>8, <1>9

\* Jobs is about none of the accounts.
LEMMA JobsUnchanged ==
    ASSUME Jobs, UNCHANGED <<sendVars, announced, rstVars>> PROVE Jobs'
  BY DEF Jobs, sendVars, rstVars

\* A DATA frame moves its bytes from both windows into flight.
LEMMA SendFrameStep == ASSUME FlowInv, SendFrame PROVE FlowInv'
<1> USE DEF FlowInv
<1> DEFINE k == FrameSize
           r == job.stream
<1>1. k \in Nat /\ k > 0 /\ k <= job.left /\ k <= conn_send_window /\ k <= Window(r)
  BY FrameFits DEF SendFrame
<1>2. r \in Streams
  BY DEF SendFrame, Jobs
<1>3. /\ conn_send_window' = conn_send_window - k
      /\ stream_send_windows' = [stream_send_windows EXCEPT ![r] = Window(r) - k]
      /\ seeded' = seeded \cup {r}
      /\ cflight' = cflight + k
      /\ job' = [job EXCEPT !.left = @ - k]
      /\ UNCHANGED <<peer_initial_window, ccredit, credit, settings, acked, delta,
                     dev_conn, dev_stream>>
  BY DEF SendFrame, creditVars, setVars, devVars
<1>4. /\ acked => after' = [after EXCEPT ![r] = @ + k] /\ flight' = flight
      /\ ~acked => flight' = [flight EXCEPT ![r] = @ + k] /\ after' = after
  BY DEF SendFrame
<1>5. UNCHANGED <<finished_file_transfer_streams, next_outbound_file_stream, pc, sends,
                  announced, resets, gone>>
  BY DEF SendFrame, devVars, rstVars
<1>6. Window(r) \in Int
  BY <1>2, WindowType
<1> HIDE DEF k, r
<1>7. Numbers'
  BY <1>1, <1>2, <1>3, <1>4, <1>6 DEF Numbers
<1>8. Jobs'
  <2>1. job' \in [stream : Streams \cup {0}, left : Nat, next : Nat, end : BOOLEAN]
    BY <1>1, <1>3 DEF Jobs
  <2>2. job'.stream = job.stream /\ job'.end = job.end
    BY <1>3 DEF Jobs
  <2> QED
    BY <1>5, <2>1, <2>2 DEF Jobs
<1>9. OneChange' /\ ConnBalance'
  BY <1>1, <1>2, <1>3, <1>4 DEF OneChange, ConnBalance, Numbers
<1>10. ASSUME NEW s \in Streams PROVE StreamBalance(s)'
  <2>1. StreamBalance(s) /\ Window(s) \in Int
    BY WindowType DEF StreamBalances
  <2>2. CASE s = r
    <3>1. Window(s)' = Window(s) - k
      BY <1>2, <1>3, <2>2 DEF Window, Numbers
    <3> QED
      BY <1>1, <1>2, <1>3, <1>4, <2>1, <2>2, <3>1 DEF StreamBalance, Numbers, OneChange
  <2>3. CASE s # r
    <3>1. Window(s)' = Window(s)
      BY <1>2, <1>3, <2>3 DEF Window, Numbers
    <3> QED
      BY <1>1, <1>2, <1>3, <1>4, <2>1, <2>3, <3>1 DEF StreamBalance, Numbers
  <2> QED
    BY <2>2, <2>3
<1> QED
  BY <1>7, <1>8, <1>9, <1>10 DEF StreamBalances

-----------------------------------------------------------------------------
\* A WINDOW_UPDATE moves a grant from the wire into the window.
LEMMA PumpConnUpdateStep ==
    ASSUME FlowInv, NEW n \in 1..ccredit, PumpConnUpdate(n) PROVE FlowInv'
<1> USE DEF FlowInv
<1>1. n \in Nat /\ n > 0 /\ n <= ccredit
  BY DEF Numbers
<1>2. /\ ccredit' = ccredit - n /\ conn_send_window' = conn_send_window + n
      /\ UNCHANGED <<stream_send_windows, seeded, peer_initial_window, cflight, flight,
                     after, credit, settings, acked, delta, dev_conn, dev_stream>>
  BY DEF PumpConnUpdate, flightVars, setVars, devVars
<1>3. Jobs'
  BY JobsUnchanged DEF PumpConnUpdate, devVars
<1>4. Numbers' /\ OneChange' /\ ConnBalance'
  BY <1>1, <1>2 DEF Numbers, OneChange, ConnBalance
<1>5. StreamBalances'
  BY <1>2 DEF StreamBalances, StreamBalance, Window
<1> QED
  BY <1>3, <1>4, <1>5

LEMMA PumpStreamUpdateStep ==
    ASSUME FlowInv, NEW r \in Streams, NEW n \in 1..credit[r], PumpStreamUpdate(r, n)
    PROVE  FlowInv'
<1> USE DEF FlowInv
<1>1. n \in Nat /\ n > 0 /\ n <= credit[r]
  BY DEF Numbers
<1>2. /\ credit' = [credit EXCEPT ![r] = @ - n]
      /\ stream_send_windows' = [stream_send_windows EXCEPT ![r] = Window(r) + n]
      /\ seeded' = seeded \cup {r}
      /\ UNCHANGED <<conn_send_window, peer_initial_window, cflight, flight, after, ccredit,
                     settings, acked, delta, dev_conn, dev_stream>>
  BY DEF PumpStreamUpdate, flightVars, setVars, devVars
<1>3. Jobs'
  BY JobsUnchanged DEF PumpStreamUpdate, devVars
<1>4. Window(r) \in Int
  BY WindowType
<1>5. Numbers' /\ OneChange' /\ ConnBalance'
  BY <1>1, <1>2, <1>4 DEF Numbers, OneChange, ConnBalance
<1>6. ASSUME NEW s \in Streams PROVE StreamBalance(s)'
  <2>1. StreamBalance(s) /\ Window(s) \in Int
    BY WindowType DEF StreamBalances
  <2>2. CASE s = r
    <3>1. Window(s)' = Window(s) + n
      BY <1>2, <2>2 DEF Window, Numbers
    <3> QED
      BY <1>1, <1>2, <2>1, <2>2, <3>1 DEF StreamBalance, Numbers
  <2>3. CASE s # r
    <3>1. Window(s)' = Window(s)
      BY <1>2, <2>3 DEF Window, Numbers
    <3> QED
      BY <1>1, <1>2, <2>1, <2>3, <3>1 DEF StreamBalance, Numbers
  <2> QED
    BY <2>2, <2>3
<1> QED
  BY <1>3, <1>5, <1>6 DEF StreamBalances

\* SETTINGS moves every stream's window, in use or not, by the same amount.
LEMMA PumpSettingsStep ==
    ASSUME FlowInv, NEW v \in settings, PumpSettings(v) PROVE FlowInv'
<1> USE DEF FlowInv
<1>1. v \in Nat /\ v \in InitialSizes /\ ~acked
  BY DEF Numbers, OneChange
<1>2. /\ settings' = {} /\ peer_initial_window' = v
      /\ stream_send_windows' = [s \in Streams |->
             IF s \in seeded THEN stream_send_windows[s] + (v - peer_initial_window)
                             ELSE stream_send_windows[s]]
      /\ acked' = TRUE /\ delta' = v - peer_initial_window
      /\ UNCHANGED <<conn_send_window, seeded, cflight, flight, after, ccredit, credit,
                     dev_conn, dev_stream>>
  BY DEF PumpSettings, flightVars, creditVars, devVars
<1>3. Jobs'
  BY JobsUnchanged DEF PumpSettings, devVars
<1>4. Numbers'
  BY <1>1, <1>2 DEF Numbers
<1>5. OneChange' /\ ConnBalance'
  BY <1>2 DEF OneChange, ConnBalance
<1>6. ASSUME NEW s \in Streams PROVE StreamBalance(s)'
  <2>1. StreamBalance(s) /\ Window(s) \in Int
    BY WindowType DEF StreamBalances
  <2>2. Window(s)' = Window(s) + delta'
    BY <1>1, <1>2 DEF Window, Numbers
  <2>3. delta = 0 /\ after[s] = 0
    BY <1>1 DEF OneChange
  <2>4. delta' \in Int
    BY <1>4 DEF Numbers
  <2> QED
    BY <1>2, <2>1, <2>2, <2>3, <2>4 DEF StreamBalance, Numbers
<1> QED
  BY <1>3, <1>4, <1>5, <1>6 DEF StreamBalances

-----------------------------------------------------------------------------
\* The device takes bytes off the wire and off what it is ready to take.
LEMMA DeviceReceivesStep ==
    ASSUME FlowInv, NEW r \in Streams, NEW n \in 1..flight[r], DeviceReceives(r, n)
    PROVE  FlowInv'
<1> USE DEF FlowInv
<1>1. n \in Nat /\ n > 0 /\ n <= flight[r] /\ n <= cflight
  BY DEF Numbers, DeviceReceives
<1>2. /\ flight' = [flight EXCEPT ![r] = @ - n]
      /\ cflight' = cflight - n
      /\ dev_conn' = dev_conn - n
      /\ dev_stream' = [dev_stream EXCEPT ![r] = @ - n]
      /\ UNCHANGED <<conn_send_window, stream_send_windows, seeded, peer_initial_window,
                     after, ccredit, credit, settings, acked, delta>>
  BY DEF DeviceReceives, hostVars, creditVars, setVars
<1>3. Jobs'
  BY JobsUnchanged DEF DeviceReceives
<1>4. Numbers' /\ OneChange' /\ ConnBalance'
  BY <1>1, <1>2 DEF Numbers, OneChange, ConnBalance
<1>5. ASSUME NEW s \in Streams PROVE StreamBalance(s)'
  <2>1. StreamBalance(s) /\ Window(s) \in Int
    BY WindowType DEF StreamBalances
  <2>2. Window(s)' = Window(s)
    BY <1>2 DEF Window
  <2>3. CASE s = r
    BY <1>1, <1>2, <2>1, <2>2, <2>3 DEF StreamBalance, Numbers
  <2>4. CASE s # r
    BY <1>1, <1>2, <2>1, <2>2, <2>4 DEF StreamBalance, Numbers
  <2> QED
    BY <2>3, <2>4
<1> QED
  BY <1>3, <1>4, <1>5 DEF StreamBalances

\* The ack brings the device's accounts to the new InitialWindowSize.
LEMMA DeviceReceivesAckStep == ASSUME FlowInv, DeviceReceivesAck PROVE FlowInv'
<1> USE DEF FlowInv
<1>1. acked /\ \A s \in Streams : flight[s] = 0
  BY DEF DeviceReceivesAck
<1>2. /\ dev_stream' = [s \in Streams |-> dev_stream[s] + delta]
      /\ flight' = after /\ after' = [s \in Streams |-> 0]
      /\ acked' = FALSE /\ delta' = 0
      /\ UNCHANGED <<conn_send_window, stream_send_windows, seeded, peer_initial_window,
                     cflight, ccredit, credit, settings, dev_conn>>
  BY DEF DeviceReceivesAck, hostVars, creditVars
<1>3. Jobs'
  BY JobsUnchanged DEF DeviceReceivesAck
<1>4. Numbers' /\ OneChange' /\ ConnBalance'
  <2>1. acked' \in BOOLEAN
    BY <1>2
  <2>2. Numbers'
    BY <1>2, <2>1 DEF Numbers
  <2> QED
    BY <1>2, <2>2 DEF OneChange, ConnBalance
<1>5. ASSUME NEW s \in Streams PROVE StreamBalance(s)'
  <2>1. StreamBalance(s) /\ Window(s) \in Int
    BY WindowType DEF StreamBalances
  <2>2. Window(s)' = Window(s)
    BY <1>2 DEF Window
  <2> QED
    BY <1>1, <1>2, <2>1, <2>2 DEF StreamBalance, Numbers
<1> QED
  BY <1>3, <1>4, <1>5 DEF StreamBalances

\* A grant is on the wire as soon as the device is ready to take more.
LEMMA DeviceGrantsConnStep ==
    ASSUME FlowInv, NEW n \in Increments, DeviceGrantsConn(n) PROVE FlowInv'
<1> USE DEF FlowInv
<1>1. /\ dev_conn' = dev_conn + n /\ ccredit' = ccredit + n
      /\ UNCHANGED <<conn_send_window, stream_send_windows, seeded, peer_initial_window,
                     cflight, flight, after, credit, settings, acked, delta, dev_stream>>
  BY DEF DeviceGrantsConn, hostVars, flightVars, setVars
<1>2. Jobs'
  BY JobsUnchanged DEF DeviceGrantsConn
<1>3. Numbers' /\ OneChange' /\ ConnBalance'
  BY <1>1 DEF Numbers, OneChange, ConnBalance
<1>4. StreamBalances'
  BY <1>1 DEF StreamBalances, StreamBalance, Window
<1> QED
  BY <1>2, <1>3, <1>4

LEMMA DeviceGrantsStreamStep ==
    ASSUME FlowInv, NEW n \in Increments, NEW r \in Streams, DeviceGrantsStream(r, n)
    PROVE  FlowInv'
<1> USE DEF FlowInv
<1>1. /\ dev_stream' = [dev_stream EXCEPT ![r] = @ + n]
      /\ credit' = [credit EXCEPT ![r] = @ + n]
      /\ UNCHANGED <<conn_send_window, stream_send_windows, seeded, peer_initial_window,
                     cflight, flight, after, ccredit, settings, acked, delta, dev_conn>>
  BY DEF DeviceGrantsStream, hostVars, flightVars, setVars
<1>2. Jobs'
  BY JobsUnchanged DEF DeviceGrantsStream
<1>3. Numbers' /\ OneChange' /\ ConnBalance'
  BY <1>1 DEF Numbers, OneChange, ConnBalance
<1>4. ASSUME NEW s \in Streams PROVE StreamBalance(s)'
  <2>1. StreamBalance(s) /\ Window(s) \in Int
    BY WindowType DEF StreamBalances
  <2>2. Window(s)' = Window(s)
    BY <1>1 DEF Window
  <2>3. n \in Nat
    OBVIOUS
  <2> QED
    BY <1>1, <2>1, <2>2, <2>3 DEF StreamBalance, Numbers
<1> QED
  BY <1>2, <1>3, <1>4 DEF StreamBalances

LEMMA DeviceSettingsStep ==
    ASSUME FlowInv, NEW v \in InitialSizes, DeviceSettings(v) PROVE FlowInv'
<1> USE DEF FlowInv
<1>1. /\ settings' = {v} /\ ~acked
      /\ UNCHANGED <<conn_send_window, stream_send_windows, seeded, peer_initial_window,
                     cflight, flight, after, ccredit, credit, acked, delta, dev_conn,
                     dev_stream>>
  BY DEF DeviceSettings, hostVars, flightVars, creditVars
<1>2. Jobs'
  <2>1. announced' \in 0..MaxSettings
    BY DEF DeviceSettings, Jobs
  <2> QED
    BY <2>1 DEF DeviceSettings, Jobs, sendVars, rstVars
<1>3. Numbers' /\ OneChange' /\ ConnBalance'
  BY <1>1 DEF Numbers, OneChange, ConnBalance
<1>4. StreamBalances'
  BY <1>1 DEF StreamBalances, StreamBalance, Window
<1> QED
  BY <1>2, <1>3, <1>4

-----------------------------------------------------------------------------
\* FlowInv is an invariant of the client and the device.
THEOREM BalanceKept == Spec => []FlowInv
<1>1. ASSUME FlowInv, [Next]_vars PROVE FlowInv'
  <2>1. CASE Pump
    <3>1. CASE \E n \in 1..ccredit : PumpConnUpdate(n)
      BY <1>1, <3>1, PumpConnUpdateStep
    <3>2. CASE \E s \in Streams : \E n \in 1..credit[s] : PumpStreamUpdate(s, n)
      BY <1>1, <3>2, PumpStreamUpdateStep
    <3>3. CASE \E v \in settings : PumpSettings(v)
      BY <1>1, <3>3, PumpSettingsStep
    <3>4. CASE \E s \in FileStreams : PumpReset(s)
      BY <1>1, <3>4, JobStep
    <3> QED
      BY <2>1, <3>1, <3>2, <3>3, <3>4 DEF Pump
  <2>2. CASE Host
    BY <1>1, <2>1, <2>2, JobStep, SendFrameStep DEF Host
  <2>3. CASE Device
    <3>1. CASE \E s \in Streams : \E n \in 1..flight[s] : DeviceReceives(s, n)
      BY <1>1, <3>1, DeviceReceivesStep
    <3>2. CASE DeviceReceivesAck
      BY <1>1, <3>2, DeviceReceivesAckStep
    <3>3. CASE \E n \in Increments : DeviceGrantsConn(n)
      BY <1>1, <3>3, DeviceGrantsConnStep
    <3>4. CASE \E n \in Increments : \E s \in Streams : DeviceGrantsStream(s, n)
      BY <1>1, <3>4, DeviceGrantsStreamStep
    <3>5. CASE \E v \in InitialSizes : DeviceSettings(v)
      BY <1>1, <3>5, DeviceSettingsStep
    <3>6. CASE \E s \in FileStreams : DeviceResets(s)
      BY <1>1, <3>6, JobStep
    <3> QED
      BY <2>3, <3>1, <3>2, <3>3, <3>4, <3>5, <3>6 DEF Device
  <2>4. CASE UNCHANGED vars
    BY <1>1, <2>4, JobStep
  <2> QED
    BY <1>1, <2>2, <2>3, <2>4 DEF Next
<1> QED
  BY <1>1, InitFlow, PTL DEF Spec

\* Type correctness of the client, the wire and the device.
THEOREM TypeCorrect == Spec => []TypeOK
<1>1. FlowInv => TypeOK
  BY DEF FlowInv, Numbers, Jobs, TypeOK
<1> QED
  BY <1>1, BalanceKept, PTL

(***************************************************************************)
(* send_inner never puts more on the wire than the device has granted, on  *)
(* the connection or on a stream, whatever crosses with it.                *)
(***************************************************************************)
THEOREM GrantsCoverFlight == Spec => []NeverOverrun
<1>1. ASSUME FlowInv PROVE NeverOverrun
  <2> USE <1>1 DEF FlowInv
  <2>1. cflight <= dev_conn
    BY DEF ConnBalance, Numbers
  <2>2. ASSUME NEW s \in Streams, flight[s] > 0 PROVE flight[s] <= dev_stream[s]
    <3>1. StreamBalance(s) /\ Window(s) \in Int
      BY WindowType DEF StreamBalances
    <3> QED
      BY <2>2, <3>1 DEF StreamBalance, Numbers
  <2> QED
    BY <2>1, <2>2 DEF NeverOverrun
<1> QED
  BY <1>1, BalanceKept, PTL

(***************************************************************************)
(* The deadlock send_inner guards against: when it waits and nothing is on *)
(* the wire, the device has no credit outstanding that it could be waiting *)
(* to see used.                                                            *)
(***************************************************************************)
THEOREM WaitsOnlyWithoutCredit == Spec => []NoStandoff
<1>1. ASSUME FlowInv PROVE NoStandoff
  <2> USE <1>1 DEF FlowInv
  <2> SUFFICES ASSUME pc = "send", Blocked, Quiet
               PROVE  dev_conn <= 0 \/ dev_stream[job.stream] <= 0
    BY DEF NoStandoff
  <2>1. job.stream \in Streams
    BY DEF Jobs
  <2>2. CASE conn_send_window <= 0
    BY <2>2 DEF ConnBalance, Numbers, Quiet
  <2>3. CASE Window(job.stream) <= 0
    <3>1. StreamBalance(job.stream) /\ Window(job.stream) \in Int
      BY <2>1, WindowType DEF StreamBalances
    <3>2. ~acked
      BY DEF Quiet
    <3>3. delta = 0
      BY <3>2 DEF OneChange
    <3>4. credit[job.stream] = 0 /\ flight[job.stream] = 0 /\ after[job.stream] = 0
      BY <2>1 DEF Quiet
    <3>5. dev_stream[job.stream] \in Int
      BY <2>1 DEF Numbers
    <3> QED
      BY <2>3, <3>1, <3>3, <3>4, <3>5 DEF StreamBalance
  <2> QED
    BY <2>2, <2>3 DEF Blocked
<1> QED
  BY <1>1, BalanceKept, PTL
=============================================================================
