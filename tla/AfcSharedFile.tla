--------------------------- MODULE AfcSharedFile ---------------------------
(***************************************************************************)
(* Files opened on one shared AFC connection, from afc/shared_file.rs over *)
(* AfcClient::file_request and send_op of afc/mod.rs. Each file has two    *)
(* halves: a reader, whose poll functions drive a stored future, and the   *)
(* owner of its close handle, who also issues other AFC operations on the  *)
(* same Arc<Mutex<AfcClient>>. A stored future moves only while somebody   *)
(* polls it, and keeps its place in the mutex queue, or the mutex itself,  *)
(* when nobody does.                                                       *)
(*                                                                         *)
(* The contents of a file are its offsets: a byte is known by where it is. *)
(***************************************************************************)
EXTENDS Naturals, Sequences

CONSTANTS
    Files,      \* files opened on the connection
    Size,       \* length of each file on the device
    Chunk,      \* MAX_TRANSFER
    MaxRead,    \* bound on the buffers passed to poll_read
    MaxOps,     \* bound on the operations started
    Faults      \* among AllFaults

AllFaults == {"cancel",  \* a read or seek future is dropped, its reader kept
              "drop",    \* a reader, or a future of the owner, is dropped
              "fail"}    \* the device answers a valid request with an error status

ASSUME SizesAssumption ==
    /\ Size \in Nat /\ MaxOps \in Nat
    /\ Chunk \in Nat \ {0} /\ MaxRead \in Nat \ {0}
ASSUME FaultsAssumption == Faults \subseteq AllFaults

VARIABLES
    mutex,          \* the queue of tokio's Mutex; its head holds the guard
    package_number, \* identifier of the next packet
    requests,       \* host -> device, in order
    responses,      \* device -> host, in order
    opened,         \* device: the files with an open descriptor
    position,       \* device: the cursor of each descriptor
    job,            \* per half: the request sequence its future is in
    user,           \* per file: what is polling the reader
    arg,            \* per file: room in the buffer of the poll_read, or the seek's target
    cursor,         \* history, per file: the offset the reader's user expects next
    handle,         \* per file: "none", "split" once open has returned, "spent"
    started,        \* operations started so far
    failed,         \* history: readers given an error since their last seek
    abandoned,      \* history: readers a poll of which was cancelled
    orphans         \* history: futures dropped between their request and its response

Half == {"reader", "owner"}
Actors == Files \X Half
wireVars == <<requests, responses, package_number>>
devVars  == <<opened, position>>
userVars == <<user, arg, cursor, handle, started>>
histVars == <<failed, abandoned, orphans>>
vars == <<mutex, wireVars, devVars, job, userVars, histVars>>

(***************************************************************************)
(* A future: the operation it is in, whether it is to send or to receive,  *)
(* bytes still wanted and collected, the packet it waits on, seek target.  *)
(***************************************************************************)
Job(op, n, p) == [op |-> op, at |-> "send", left |-> n, got |-> 0, num |-> 0, to |-> p]
NoJob == Job("none", 0, 0)

Init ==
    /\ mutex = <<>> /\ package_number = 0 /\ requests = <<>> /\ responses = <<>>
    /\ opened = {} /\ position = [f \in Files |-> 0]
    /\ job = [a \in Actors |-> NoJob]
    /\ user = [f \in Files |-> "idle"]
    /\ arg = [f \in Files |-> 0]
    /\ cursor = [f \in Files |-> 0]
    /\ handle = [f \in Files |-> "none"]
    /\ started = 0 /\ failed = {} /\ abandoned = {} /\ orphans = 0

Least(m, n) == IF m <= n THEN m ELSE n

\* Variant: the connection is shared without taking the lock.
HoldsAnyway(a) == \E i \in 1..Len(mutex) : mutex[i] = a

Holds(a)    == mutex # <<>> /\ Head(mutex) = a
Polled(a)   == a[2] = "reader" => user[a[1]] \in {"read", "preseek", "seek"}

\* A future that is dropped leaves the queue, or gives the guard back.
Without(a) ==
    IF \E i \in 1..Len(mutex) : mutex[i] = a
    THEN LET i == CHOOSE i \in 1..Len(mutex) : mutex[i] = a
         IN  SubSeq(mutex, 1, i - 1) \o SubSeq(mutex, i + 1, Len(mutex))
    ELSE mutex

\* A new future is polled at once: it joins the queue of the mutex.
Launch(a, j) ==
    /\ job' = [job EXCEPT ![a] = j]
    /\ mutex' = Append(mutex, a)

MayStart == started < MaxOps /\ started' = started + 1

-----------------------------------------------------------------------------
\* SharedFileDescriptor::open.
Open(f) ==
    /\ MayStart /\ handle[f] = "none" /\ job[<<f, "owner">>] = NoJob
    /\ Launch(<<f, "owner">>, Job("FileOpen", 0, 0))
    /\ UNCHANGED <<wireVars, devVars, user, arg, cursor, handle, histVars>>

\* SharedFileCloser::close consumes the handle, whatever the device answers.
Close(f) ==
    /\ MayStart /\ handle[f] = "split" /\ job[<<f, "owner">>] = NoJob
    /\ handle' = [handle EXCEPT ![f] = "spent"]
    /\ Launch(<<f, "owner">>, Job("FileClose", 0, 0))
    /\ UNCHANGED <<wireVars, devVars, user, arg, cursor, histVars>>

\* Any other AFC operation of the caller (list_dir, mk_dir, get_file_info, ...).
SendOp(f) ==
    /\ MayStart /\ job[<<f, "owner">>] = NoJob
    /\ Launch(<<f, "owner">>, Job("Other", 0, 0))
    /\ UNCHANGED <<wireVars, devVars, user, arg, cursor, handle, histVars>>

\* poll_read with room for n bytes: a future already pending is polled instead.
BeginRead(f, n) ==
    /\ MayStart /\ handle[f] # "none" /\ user[f] = "idle"
    /\ user' = [user EXCEPT ![f] = "read"]
    /\ arg' = [arg EXCEPT ![f] = n]
    /\ IF job[<<f, "reader">>] = NoJob
       THEN Launch(<<f, "reader">>, Job("Read", n, 0))
       ELSE UNCHANGED <<job, mutex>>
    /\ UNCHANGED <<wireVars, devVars, cursor, handle, histVars>>

(***************************************************************************)
(* AsyncSeekExt::seek: poll_complete until nothing is pending, start_seek, *)
(* then poll_complete for the new position.                                *)
(***************************************************************************)
BeginSeek(f, p) ==
    /\ MayStart /\ handle[f] # "none" /\ user[f] = "idle"
    /\ IF job[<<f, "reader">>] = NoJob
       THEN /\ user' = [user EXCEPT ![f] = "seek"]
            /\ Launch(<<f, "reader">>, Job("FileSeek", 0, p))
       ELSE /\ user' = [user EXCEPT ![f] = "preseek"]
            /\ UNCHANGED <<job, mutex>>
    /\ arg' = [arg EXCEPT ![f] = p]
    /\ UNCHANGED <<wireVars, devVars, cursor, handle, histVars>>

-----------------------------------------------------------------------------
\* Variant: every chunk asked for is a full one.
SendFullChunks(a) ==
    LET j == job[a] IN
    /\ Holds(a) /\ Polled(a) /\ j.op # "none" /\ j.at = "send"
    /\ requests' = Append(requests, [op |-> j.op, file |-> a[1], num |-> package_number,
                                     n |-> Chunk, to |-> j.to])
    /\ package_number' = package_number + 1
    /\ job' = [job EXCEPT ![a] = [j EXCEPT !.at = "recv", !.num = package_number]]
    /\ UNCHANGED <<mutex, responses, devVars, userVars, histVars>>

\* file_request, first half: take a packet number and write the packet.
Send(a) ==
    LET j == job[a] IN
    /\ Holds(a) /\ Polled(a) /\ j.op # "none" /\ j.at = "send"
    /\ requests' = Append(requests, [op |-> j.op, file |-> a[1], num |-> package_number,
                                     n |-> Least(j.left, Chunk), to |-> j.to])
    /\ package_number' = package_number + 1
    /\ job' = [job EXCEPT ![a] = [j EXCEPT !.at = "recv", !.num = package_number]]
    /\ UNCHANGED <<mutex, responses, devVars, userVars, histVars>>

\* The future of a is ready; it gives the guard back and is removed.
Ready(a) ==
    /\ job' = [job EXCEPT ![a] = NoJob]
    /\ mutex' = Tail(mutex)

\* The future of a goes on with another request of the same operation.
GoOn(a, j) ==
    /\ job' = [job EXCEPT ![a] = [j EXCEPT !.at = "send"]]
    /\ UNCHANGED <<mutex, user, arg, cursor, handle, failed>>

Panic(f, why) == user' = [user EXCEPT ![f] = why] /\ UNCHANGED cursor

(***************************************************************************)
(* poll_read and poll_complete take the result of the stored future. Bytes *)
(* are copied into the buffer of the present call and not the one that     *)
(* started the future; a result of the other kind is unreachable!(). After *)
(* an earlier seek has completed, start_seek stores the new one.           *)
(***************************************************************************)
DeliverBytes(f, n) ==
    /\ IF user[f] = "read" /\ n <= arg[f]
       THEN /\ user' = [user EXCEPT ![f] = "idle"]
            /\ cursor' = IF f \in failed THEN cursor ELSE [cursor EXCEPT ![f] = @ + n]
       ELSE Panic(f, IF user[f] = "read" THEN "overflow" ELSE "unreachable")
    /\ Ready(<<f, "reader">>)
    /\ UNCHANGED <<arg, handle, failed>>

DeliverPosition(f, p) ==
    /\ \/ /\ user[f] = "seek"
          /\ user' = [user EXCEPT ![f] = "idle"]
          /\ cursor' = [cursor EXCEPT ![f] = p]
          /\ Ready(<<f, "reader">>)
       \/ /\ user[f] = "preseek"
          /\ user' = [user EXCEPT ![f] = "seek"]
          /\ cursor' = [cursor EXCEPT ![f] = p]
          /\ job' = [job EXCEPT ![<<f, "reader">>] = Job("FileSeek", 0, arg[f])]
          /\ mutex' = Append(Tail(mutex), <<f, "reader">>)
       \/ /\ user[f] = "read"
          /\ Panic(f, "unreachable")
          /\ Ready(<<f, "reader">>)
    /\ failed' = failed \ {f}
    /\ UNCHANGED <<arg, handle>>

\* Variant: the guard is not given back on an error.
DeliverErrorKeepsGuard(a) ==
    /\ user' = IF a[2] = "reader" THEN [user EXCEPT ![a[1]] = "idle"] ELSE user
    /\ job' = [job EXCEPT ![a] = NoJob]
    /\ failed' = IF a[2] = "reader" THEN failed \cup {a[1]} ELSE failed
    /\ UNCHANGED <<mutex, arg, cursor, handle>>

DeliverError(a) ==
    /\ user' = IF a[2] = "reader" THEN [user EXCEPT ![a[1]] = "idle"] ELSE user
    /\ failed' = IF a[2] = "reader" THEN failed \cup {a[1]} ELSE failed
    /\ Ready(a)
    /\ UNCHANGED <<arg, cursor, handle>>

(***************************************************************************)
(* file_request, second half: AfcClient::read takes whatever packet comes  *)
(* next; neither its number nor its operation is looked at.                *)
(***************************************************************************)
Respond(a) ==
    /\ Holds(a) /\ Polled(a) /\ job[a].at = "recv" /\ responses # <<>>
    /\ responses' = Tail(responses)

ReceiveError(a) ==
    /\ Respond(a) /\ Head(responses).status = "error"
    /\ DeliverError(a)
    /\ UNCHANGED <<requests, package_number, devVars, started, abandoned, orphans>>

\* Variant: a short last chunk is thrown away.
ReceiveBytesLosesShort(f) ==
    LET a == <<f, "reader">> j == job[<<f, "reader">>] r == Head(responses) IN
    /\ Respond(a) /\ r.status = "ok" /\ j.op = "Read"
    /\ \/ r.len < Least(j.left, Chunk) /\ DeliverBytes(f, j.got)
       \/ r.len = Least(j.left, Chunk) /\ j.left <= Chunk /\ DeliverBytes(f, j.got + r.len)
       \/ /\ r.len = Least(j.left, Chunk) /\ j.left > Chunk
          /\ GoOn(a, [j EXCEPT !.got = @ + r.len, !.left = @ - Chunk])
    /\ UNCHANGED <<requests, package_number, devVars, started, abandoned, orphans>>

\* start_read: stop at an empty or short chunk, or when the amount is reached.
ReceiveBytes(f) ==
    LET a == <<f, "reader">> j == job[<<f, "reader">>] r == Head(responses) IN
    /\ Respond(a) /\ r.status = "ok" /\ j.op = "Read"
    /\ IF r.len < Least(j.left, Chunk) \/ j.left <= Chunk
       THEN DeliverBytes(f, j.got + r.len)
       ELSE GoOn(a, [j EXCEPT !.got = @ + r.len, !.left = @ - Chunk])
    /\ UNCHANGED <<requests, package_number, devVars, started, abandoned, orphans>>

\* schedule_seek: FileSeek is followed by FileTell under the same guard.
ReceiveSeek(f) ==
    LET a == <<f, "reader">> j == job[<<f, "reader">>] IN
    /\ Respond(a) /\ Head(responses).status = "ok" /\ j.op = "FileSeek"
    /\ GoOn(a, [j EXCEPT !.op = "FileTell"])
    /\ UNCHANGED <<requests, package_number, devVars, started, abandoned, orphans>>

\* The eight bytes of a position, a handle or a success code; data comes without.
HasWord(r) == r.op # "Read" /\ r.len = 0

\* An answer without the eight position bytes is an error.
ReceiveTell(f) ==
    LET a == <<f, "reader">> r == Head(responses) IN
    /\ Respond(a) /\ r.status = "ok" /\ job[a].op = "FileTell"
    /\ IF HasWord(r) THEN DeliverPosition(f, r.pos) ELSE DeliverError(a)
    /\ UNCHANGED <<requests, package_number, devVars, started, abandoned, orphans>>

\* open_handle needs a handle in the answer; close and the rest take any.
ReceiveOwner(f) ==
    LET a == <<f, "owner">> r == Head(responses) IN
    /\ Respond(a) /\ r.status = "ok"
    /\ IF job[a].op = "FileOpen" /\ HasWord(r)
       THEN handle' = [handle EXCEPT ![f] = "split"]
       ELSE UNCHANGED handle
    /\ Ready(a)
    /\ UNCHANGED <<requests, package_number, devVars, user, arg, cursor, started, histVars>>

-----------------------------------------------------------------------------
\* The user stops polling (a timeout, select!): the stored future stays as it is.
CancelPoll(f) ==
    /\ "cancel" \in Faults /\ user[f] \in {"read", "preseek", "seek"}
    /\ user' = [user EXCEPT ![f] = "idle"]
    /\ abandoned' = abandoned \cup {f}
    /\ UNCHANGED <<mutex, wireVars, devVars, job, arg, cursor, handle, started, failed, orphans>>

(***************************************************************************)
(* A future is dropped. Between its request and the response it leaves the *)
(* response to whoever reads next; file_request does not notice.           *)
(***************************************************************************)
Drop(a) ==
    /\ "drop" \in Faults
    /\ job' = [job EXCEPT ![a] = NoJob]
    /\ mutex' = Without(a)
    /\ orphans' = IF job[a].at = "recv" THEN orphans + 1 ELSE orphans
    /\ UNCHANGED <<wireVars, devVars, arg, cursor, handle, started, failed, abandoned>>

\* The reader is dropped with its stored future (its user failed or panicked).
DropReader(f) ==
    /\ handle[f] # "none" /\ user[f] # "dropped"
    /\ user' = [user EXCEPT ![f] = "dropped"]
    /\ Drop(<<f, "reader">>)

\* The future of an open, a close or another operation is dropped.
DropOwner(f) ==
    /\ job[<<f, "owner">>] # NoJob
    /\ Drop(<<f, "owner">>)
    /\ UNCHANGED user

-----------------------------------------------------------------------------
(***************************************************************************)
(* The device answers requests in order, each once, and may read short.    *)
(***************************************************************************)
Answer(q, status, n, p) ==
    /\ requests' = Tail(requests)
    /\ responses' = Append(responses, [op |-> q.op, num |-> q.num, status |-> status,
                                       len |-> n, pos |-> p])
    /\ UNCHANGED <<package_number, mutex, job, userVars, histVars>>

NeedsFile == {"Read", "FileSeek", "FileTell", "FileClose"}

DeviceRefuses ==
    /\ requests # <<>>
    /\ \/ "fail" \in Faults
       \/ Head(requests).op \in NeedsFile /\ Head(requests).file \notin opened
    /\ Answer(Head(requests), "error", 0, 0)
    /\ UNCHANGED devVars

DeviceServes ==
    /\ requests # <<>>
    /\ LET q == Head(requests) f == q.file IN
       /\ q.op \in NeedsFile => f \in opened
       /\ \/ /\ q.op = "Read"
             /\ \E n \in 0..q.n :
                   /\ n = 0 \/ position[f] + n <= Size
                   /\ n = 0 => position[f] >= Size
                   /\ position' = [position EXCEPT ![f] = @ + n]
                   /\ Answer(q, "ok", n, 0)
             /\ UNCHANGED opened
          \/ /\ q.op = "FileSeek"
             /\ position' = [position EXCEPT ![f] = q.to]
             /\ Answer(q, "ok", 0, 0) /\ UNCHANGED opened
          \/ /\ q.op = "FileTell"
             /\ Answer(q, "ok", 0, position[f]) /\ UNCHANGED devVars
          \/ /\ q.op = "Other"
             /\ \E n \in {0, Chunk} : Answer(q, "ok", n, 0)
             /\ UNCHANGED devVars
          \/ /\ q.op = "FileOpen"
             /\ opened' = opened \cup {f}
             /\ Answer(q, "ok", 0, 0) /\ UNCHANGED position
          \/ /\ q.op = "FileClose"
             /\ opened' = opened \ {f}
             /\ Answer(q, "ok", 0, 0) /\ UNCHANGED position

-----------------------------------------------------------------------------
Operation(f) ==
    \/ Open(f) \/ Close(f) \/ SendOp(f)
    \/ \E n \in 1..MaxRead : BeginRead(f, n)
    \/ \E p \in 0..(Size + 1) : BeginSeek(f, p)

\* A poll that makes a future of f move.
Poll(f) ==
    \/ \E h \in Half : Send(<<f, h>>) \/ ReceiveError(<<f, h>>)
    \/ ReceiveBytes(f) \/ ReceiveSeek(f) \/ ReceiveTell(f) \/ ReceiveOwner(f)

Disturb(f) == CancelPoll(f) \/ DropReader(f) \/ DropOwner(f)

Device == DeviceServes \/ DeviceRefuses

Next == (\E f \in Files : Operation(f) \/ Poll(f) \/ Disturb(f)) \/ Device

Spec == Init /\ [][Next]_vars

\* A woken future is polled by whoever awaits it, and the device answers.
FairSpec == Spec /\ WF_vars(Device) /\ \A f \in Files : WF_vars(Poll(f))

-----------------------------------------------------------------------------
Ops == {"none", "Read", "FileSeek", "FileTell", "FileOpen", "FileClose", "Other"}

Request  == [op : Ops, file : Files, num : Nat, n : Nat, to : Nat]
Response == [op : Ops, num : Nat, status : {"ok", "error"}, len : Nat, pos : Nat]
Future   == [op : Ops, at : {"send", "recv"}, left : Nat, got : Nat, num : Nat, to : Nat]

\* Type invariant: the client, the two halves of each file and the device.
TypeOK ==
    /\ mutex \in Seq(Actors) /\ package_number \in Nat
    /\ requests \in Seq(Request) /\ responses \in Seq(Response)
    /\ opened \subseteq Files /\ position \in [Files -> Nat]
    /\ job \in [Actors -> Future]
    /\ user \in [Files -> {"idle", "read", "preseek", "seek", "dropped", "overflow",
                        "unreachable"}]
    /\ arg \in [Files -> Nat] /\ cursor \in [Files -> Nat]
    /\ handle \in [Files -> {"none", "split", "spent"}]
    /\ started \in Nat /\ orphans \in Nat
    /\ failed \subseteq Files /\ abandoned \subseteq Files

(***************************************************************************)
(* file_request ("a different request cannot consume this operation's      *)
(* response"): that is so until a future is dropped between its request    *)
(* and the response. Every such drop puts the connection one response      *)
(* behind, for good and by exactly one: a future then takes the answer to  *)
(* the request as many before its own as were dropped.                     *)
(***************************************************************************)
ResponsesLagByDrops ==
    \A a \in Actors :
        Holds(a) /\ job[a].at = "recv" /\ responses # <<>>
            => Head(responses).num + orphans = job[a].num

(***************************************************************************)
(* poll_read and poll_complete: the unreachable!() of each, and the panic  *)
(* of put_slice on a buffer too small, are never reached on a file whose   *)
(* polls are all carried through, on a connection that has not fallen      *)
(* behind.                                                                 *)
(***************************************************************************)
NeverPanics ==
    orphans = 0 => \A f \in Files \ abandoned : user[f] \notin {"overflow", "unreachable"}

(***************************************************************************)
(* AsyncRead over chunked Read requests, with seeks, errors, cancelled     *)
(* polls and other users of the connection in between: a reader that is    *)
(* not in an operation is where the device's descriptor is, so no byte is  *)
(* skipped or delivered twice. An error of the device may lose the place;  *)
(* the next seek that succeeds finds it again. On a connection that has    *)
(* fallen behind nothing of the kind is left.                              *)
(***************************************************************************)
CursorFollowsDevice ==
    orphans = 0 =>
        \A f \in Files \ failed :
            user[f] = "idle" /\ job[<<f, "reader">>] = NoJob => cursor[f] = position[f]

(***************************************************************************)
(* SharedFileCloser ("the device-side file descriptor can still be closed  *)
(* if that code fails or panics"): a close that was begun comes back,      *)
(* unless a cancelled poll has left its future behind on a reader of the   *)
(* connection that is still alive.                                         *)
(***************************************************************************)
LeftBehind == \E f \in Files : user[f] = "idle" /\ job[<<f, "reader">>] # NoJob
CloseReturns ==
    \A f \in Files :
        (job[<<f, "owner">>].op = "FileClose")
            ~> (job[<<f, "owner">>] = NoJob \/ LeftBehind)
=============================================================================
