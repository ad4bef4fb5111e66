----------------------------- MODULE XpcReceive -----------------------------
(***************************************************************************)
(* How RemoteXpcClient receives (xpc/mod.rs): the device cuts the messages *)
(* of a channel into DATA frames, TCP cuts the frames into reads, and a    *)
(* receive may be dropped at every await. Three buffers survive a dropped  *)
(* receive: recv_buf (bytes not yet a frame), cache (frames not yet asked  *)
(* for) and partial (bytes not yet a message).                             *)
(*                                                                         *)
(* A byte is <<k, i>>, the i-th byte of the k-th message of its channel.   *)
(***************************************************************************)
EXTENDS Integers, Sequences, SequencesExt

CONSTANTS
    Channels,           \* ROOT_CHANNEL and REPLY_CHANNEL
    Script,             \* the messages of each channel: [len, body], in order
    Receives,           \* the lists of channels a receive asks for
    XPC_WRAPPER_LEN,
    StreamWindow,       \* InitialWindowSize of do_handshake
    ConnWindow,         \* connection window after do_handshake
    DeviceFrame,        \* largest DATA frame of the device
    MaxBlank,           \* bound on its empty DATA frames
    CanClose            \* whether the device may close the connection

ASSUME WindowsAssumption ==
    /\ XPC_WRAPPER_LEN \in Nat \ {0} /\ DeviceFrame \in Nat \ {0}
    /\ StreamWindow \in Nat \ {0} /\ ConnWindow \in Nat \ {0} /\ MaxBlank \in Nat
ASSUME ScriptAssumption ==
    /\ \A c \in Channels :
         /\ Script[c] \in Seq([len : Nat, body : BOOLEAN])
         /\ \A k \in DOMAIN Script[c] : Script[c][k].len >= XPC_WRAPPER_LEN
    /\ Receives \subseteq Seq(Channels)

VARIABLES
    partial,    \* per channel: bytes toward the next whole message
    cache,      \* per stream: DATA payloads not yet read
    recv_buf,   \* whole frames at the front of recv_buf
    torn,       \* recv_buf also holds the beginning of the next frame
    pc,         \* "idle", "recv" (decoding), "read" (read or read_any), "send"
    flushing,   \* pump waits for the flush of its WINDOW_UPDATEs
    op,         \* the channels the receive asks for
    at,         \* position in op of the next channel to decode
    returned,   \* per channel: the messages receives have returned
    malformed,  \* a receive has failed to decode a message
    wire,       \* frames in the socket
    sent,       \* device, per channel: bytes sent
    blanks,     \* device: empty DATA frames sent
    rwin,       \* device, per channel: what it may still send
    rconn,      \* device: the same for the connection
    closed      \* device: has closed the connection

decVars  == <<partial, returned, malformed>>
pumpVars == <<cache, recv_buf, torn>>
ctlVars  == <<pc, op, at>>
sentVars == <<sent, blanks, closed>>
winVars  == <<rwin, rconn>>
vars == <<decVars, pumpVars, ctlVars, flushing, wire, sentVars, winVars>>

\* The bytes of message k, of the first k messages, and everything channel c will
\* ever carry.
Message(c, k) == [i \in 1..Script[c][k].len |-> <<k, i>>]

BytesUpTo(c) ==
    LET upto[k \in 0..Len(Script[c])] ==
            IF k = 0 THEN <<>> ELSE upto[k - 1] \o Message(c, k)
    IN  upto

Bytes == [c \in Channels |-> BytesUpTo(c)[Len(Script[c])]]

Init ==
    /\ partial = [c \in Channels |-> <<>>] /\ cache = [c \in Channels |-> <<>>]
    /\ recv_buf = <<>> /\ torn = FALSE
    /\ pc = "idle" /\ flushing = FALSE /\ op = <<>> /\ at = 1
    /\ returned = [c \in Channels |-> <<>>] /\ malformed = FALSE
    /\ wire = <<>>
    /\ sent = [c \in Channels |-> 0] /\ blanks = 0 /\ closed = FALSE
    /\ rwin = [c \in Channels |-> StreamWindow] /\ rconn = ConnWindow

-----------------------------------------------------------------------------
\* XPCMessage::decode on a buffer: is there enough, is it a message?
Enough(c, buf) ==
    /\ Len(buf) >= XPC_WRAPPER_LEN
    /\ buf[1][2] = 1 => Len(buf) >= Script[c][buf[1][1]].len

IsMessage(c, buf) == buf[1][2] = 1 /\ IsPrefix(Message(c, buf[1][1]), buf)

\* take_buffered drains the bytes of the message it returns.
Drain(c, buf) == SubSeq(buf, Script[c][buf[1][1]].len + 1, Len(buf))

\* The operation returns, fails or is dropped.
Return == pc' = "idle" /\ op' = <<>> /\ at' = 1

\* recv, recv_root and recv_any.
Start(o) ==
    /\ pc = "idle" /\ pc' = "recv" /\ op' = o /\ at' = 1
    /\ UNCHANGED <<decVars, pumpVars, flushing, wire, sentVars, winVars>>

\* Variant: after an empty message every receive reads.
AfterEmptyReads == at + 1

\* After an empty message a receive on one channel tries its buffer again,
\* recv_any goes on to the next channel.
AfterEmpty == IF Len(op) = 1 THEN at ELSE at + 1

\* One take_buffered. A message with a body is returned, an empty one skipped.
TakeBuffered ==
    LET c == op[at]  buf == partial[c]  k == buf[1][1] IN
    /\ pc = "recv" /\ at <= Len(op)
    /\ \/ /\ ~Enough(c, buf)
          /\ at' = at + 1
          /\ UNCHANGED <<decVars, pc, op>>
       \/ /\ Enough(c, buf) /\ ~IsMessage(c, buf)
          /\ malformed' = TRUE /\ Return
          /\ UNCHANGED <<partial, returned>>
       \/ /\ Enough(c, buf) /\ IsMessage(c, buf) /\ Script[c][k].body
          /\ partial' = [partial EXCEPT ![c] = Drain(c, buf)]
          /\ returned' = [returned EXCEPT ![c] = Append(@, k)]
          /\ Return
          /\ UNCHANGED malformed
       \/ /\ Enough(c, buf) /\ IsMessage(c, buf) /\ ~Script[c][k].body
          /\ partial' = [partial EXCEPT ![c] = Drain(c, buf)]
          /\ at' = AfterEmpty
          /\ UNCHANGED <<pc, op, returned, malformed>>
    /\ UNCHANGED <<pumpVars, flushing, wire, sentVars, winVars>>

NeedMore ==
    /\ pc = "recv" /\ at > Len(op) /\ pc' = "read"
    /\ UNCHANGED <<op, at, decVars, pumpVars, flushing, wire, sentVars, winVars>>

-----------------------------------------------------------------------------
Cached == \E c \in Range(op) : cache[c] # <<>>

\* read and read_any return the first payload cached for a wanted channel.
ReadCached ==
    /\ pc = "read" /\ ~flushing /\ Cached
    /\ LET c == op[CHOOSE j \in DOMAIN op :
                      cache[op[j]] # <<>> /\ \A l \in 1..(j - 1) : cache[op[l]] = <<>>]
       IN /\ partial' = [partial EXCEPT ![c] = @ \o Head(cache[c])]
          /\ cache' = [cache EXCEPT ![c] = Tail(@)]
    /\ pc' = "recv" /\ at' = 1
    /\ UNCHANGED <<op, returned, malformed, recv_buf, torn, flushing, wire, sentVars, winVars>>

\* A read that finds nothing pumps, and so does a send without credit.
Pumping == ~flushing /\ (pc = "send" \/ (pc = "read" /\ ~Cached))

\* Variant: only the stream's window is replenished.
PumpDataForStream ==
    /\ Pumping /\ recv_buf # <<>>
    /\ LET f == Head(recv_buf) IN
       /\ cache' = [cache EXCEPT ![f.stream] = Append(@, f.bytes)]
       /\ rwin' = [rwin EXCEPT ![f.stream] = @ + Len(f.bytes)]
       /\ flushing' = (Len(f.bytes) > 0)
    /\ recv_buf' = Tail(recv_buf)
    /\ UNCHANGED <<rconn, torn, ctlVars, decVars, wire, sentVars>>

\* pump takes a DATA frame: the payload is cached and both WINDOW_UPDATEs are
\* queued before it waits for the flush.
PumpData ==
    /\ Pumping /\ recv_buf # <<>>
    /\ LET f == Head(recv_buf) IN
       /\ cache' = [cache EXCEPT ![f.stream] = Append(@, f.bytes)]
       /\ rwin' = [rwin EXCEPT ![f.stream] = @ + Len(f.bytes)]
       /\ rconn' = rconn + Len(f.bytes)
       /\ flushing' = (Len(f.bytes) > 0)
    /\ recv_buf' = Tail(recv_buf)
    /\ UNCHANGED <<torn, ctlVars, decVars, wire, sentVars>>

Flushed ==
    /\ flushing /\ flushing' = FALSE
    /\ UNCHANGED <<ctlVars, decVars, pumpVars, wire, sentVars, winVars>>

\* next_frame reads n whole frames and, if t, the beginning of another one.
ReadSocket(n, t) ==
    /\ Pumping /\ recv_buf = <<>> /\ n <= Len(wire)
    /\ n > 0 \/ (t /\ ~torn)
    /\ t => n < Len(wire)
    /\ recv_buf' = SubSeq(wire, 1, n) /\ wire' = SubSeq(wire, n + 1, Len(wire))
    /\ torn' = t
    /\ UNCHANGED <<cache, ctlVars, flushing, decVars, sentVars, winVars>>

\* The peer has closed the connection: the read fails.
ReadEof ==
    /\ Pumping /\ recv_buf = <<>> /\ wire = <<>> /\ closed
    /\ Return
    /\ UNCHANGED <<flushing, decVars, pumpVars, wire, sentVars, winVars>>

\* Variant: pump caches the payload after the flush, where a drop loses it.
DropLosesPayload ==
    /\ flushing \/ (Pumping /\ recv_buf = <<>>)
    /\ Return /\ flushing' = FALSE
    /\ \/ ~flushing /\ UNCHANGED cache
       \/ \E c \in Channels :
             flushing /\ cache[c] # <<>> /\ cache' = [cache EXCEPT ![c] = Front(@)]
    /\ UNCHANGED <<decVars, recv_buf, torn, wire, sentVars, winVars>>

\* The receive, or the send, is dropped: while it waits for the socket or for
\* the flush.
Drop ==
    /\ flushing \/ (Pumping /\ recv_buf = <<>>)
    /\ Return /\ flushing' = FALSE
    /\ UNCHANGED <<decVars, pumpVars, wire, sentVars, winVars>>

\* send_inner out of credit (module Http2Flow), and the credit that ends it.
StartSend ==
    /\ pc = "idle" /\ pc' = "send"
    /\ UNCHANGED <<op, at, flushing, decVars, pumpVars, wire, sentVars, winVars>>

SendEnds ==
    /\ pc = "send" /\ ~flushing /\ pc' = "idle"
    /\ UNCHANGED <<op, at, flushing, decVars, pumpVars, wire, sentVars, winVars>>

-----------------------------------------------------------------------------
\* The device sends the next n bytes of a channel as one DATA frame; the frame
\* that ends the stream may be empty.
DeviceSends(c, n) ==
    /\ ~closed /\ n <= rwin[c] /\ n <= rconn /\ sent[c] + n <= Len(Bytes[c])
    /\ n = 0 => blanks < MaxBlank /\ sent[c] = Len(Bytes[c])
    /\ blanks' = IF n = 0 THEN blanks + 1 ELSE blanks
    /\ wire' = Append(wire, [stream |-> c,
                             bytes |-> SubSeq(Bytes[c], sent[c] + 1, sent[c] + n)])
    /\ sent' = [sent EXCEPT ![c] = @ + n]
    /\ rwin' = [rwin EXCEPT ![c] = @ - n] /\ rconn' = rconn - n
    /\ UNCHANGED <<closed, decVars, pumpVars, ctlVars, flushing>>

DeviceCloses ==
    /\ CanClose /\ ~closed /\ closed' = TRUE
    /\ UNCHANGED <<sent, blanks, decVars, pumpVars, ctlVars, flushing, wire, winVars>>

-----------------------------------------------------------------------------
Client ==
    \/ TakeBuffered \/ NeedMore \/ ReadCached
    \/ PumpData \/ Flushed \/ ReadEof
    \/ \E n \in 0..Len(wire), t \in BOOLEAN : ReadSocket(n, t)

SendsMore(c) == \E n \in 1..DeviceFrame : DeviceSends(c, n)

Next ==
    \/ Client
    \/ \E o \in Receives : Start(o)
    \/ StartSend \/ SendEnds \/ Drop
    \/ \E c \in Channels : DeviceSends(c, 0) \/ SendsMore(c)
    \/ DeviceCloses

Spec == Init /\ [][Next]_vars

(***************************************************************************)
(* A receive that is not dropped is polled, and the device sends what it   *)
(* has while the windows allow it; bytes of a frame do not stay away.      *)
(***************************************************************************)
FairSpec ==
    /\ Spec
    /\ WF_vars(Client)
    /\ \A c \in Channels : SF_vars(SendsMore(c))

-----------------------------------------------------------------------------
(***************************************************************************)
(* recv_buf, cache and partial ("a partially-received message survives a   *)
(* cancelled read"): for its user the client is XpcChannels. Each          *)
(* channel's messages with a body are returned in the order they were      *)
(* sent, each once and none skipped, to a receive that asked for the       *)
(* channel, and no receive meets bytes it cannot decode, wherever receives *)
(* and sends are dropped.                                                  *)
(***************************************************************************)
Queues == INSTANCE XpcChannels WITH wanted <- op, got <- returned, intact <- ~malformed

ImplementsQueues == Queues!Spec

(***************************************************************************)
(* pump ("never a torn or dropped update"): the device's windows are the   *)
(* initial ones less the bytes the client has not taken up: no drop costs  *)
(* the connection or a stream a byte of credit.                            *)
(***************************************************************************)
Share(f, S) == IF f.stream \in S THEN Len(f.bytes) ELSE 0

Total(frames, S) ==
    LET upto[n \in 0..Len(frames)] ==
            IF n = 0 THEN 0 ELSE upto[n - 1] + Share(frames[n], S)
    IN  upto[Len(frames)]

UnreadBytes(S) == Total(recv_buf \o wire, S)

CreditIsReturned ==
    /\ rconn + UnreadBytes(Channels) = ConnWindow
    /\ \A c \in Channels : rwin[c] + UnreadBytes({c}) = StreamWindow

(***************************************************************************)
(* recv and recv_root: a message that was or will be sent on the channel   *)
(* ends the receive, however it is cut and even when it is larger than the *)
(* windows.                                                                *)
(***************************************************************************)
Due(c) == \E k \in DOMAIN Script[c] : Script[c][k].body /\ k \notin Range(returned[c])

MessageIsReturned ==
    \A c \in Channels :
        (pc \in {"recv", "read"} /\ op = <<c>> /\ Due(c)) ~> (pc = "idle" \/ closed)
=============================================================================
