------------------------ MODULE AfcSharedFileProofs ------------------------
(***************************************************************************)
(* What holds of the files of one AFC connection for any number of files,  *)
(* any sizes and any number of operations.                                 *)
(*                                                                         *)
(* The argument: at most one future waits on a response, and it holds the  *)
(* mutex. What travels is the answers nobody waits for, one for each       *)
(* future that was dropped in its round trip, and its own request or       *)
(* answer behind them, numbered without a gap (Lag).                       *)
(*                                                                         *)
(* Until the first such drop what travels is its own (OneOutstanding),     *)
(* although AfcClient::read looks at neither number nor operation.         *)
(* A reader nobody cancelled has the future its user polls (UserLine), and *)
(* the bytes a reader has been given, those its future has collected and   *)
(* those on the wire add up to the cursor of the device (CursorLine).      *)
(***************************************************************************)
EXTENDS AfcSharedFile, SequenceTheorems, TLAPS

ReaderOps == {"none", "Read", "FileSeek", "FileTell"}
OwnerOps  == {"none", "FileOpen", "FileClose", "Other"}
Panicked  == {"overflow", "unreachable"}

\* The readers run reads and seeks, the owners the rest; a read asks for what is left.
JobsOK ==
    \A f \in Files :
        /\ job[<<f, "reader">>].op \in ReaderOps /\ job[<<f, "owner">>].op \in OwnerOps
        /\ \A h \in Half : /\ job[<<f, h>>].left + job[<<f, h>>].got <= MaxRead
                           /\ job[<<f, h>>].op = "none" => job[<<f, h>>] = NoJob

\* The request a future that waits has sent, and what an answer to it may hold.
IsRequestOf(q, a) ==
    /\ q.op = job[a].op /\ q.file = a[1] /\ q.num = job[a].num
    /\ q.n = Least(job[a].left, Chunk) /\ q.to = job[a].to

Answers(r, a) ==
    /\ r.num = job[a].num /\ r.op = job[a].op
    /\ r.status = "ok" /\ r.op = "Read" => r.len <= Least(job[a].left, Chunk)
    /\ r.status = "ok" /\ r.op = "FileTell" => r.pos = position[a[1]] /\ r.len = 0

Quiet == requests = <<>> /\ responses = <<>> /\ \A a \in Actors : job[a].at = "send"

Waiting(a) ==
    /\ Holds(a) /\ job[a].at = "recv" /\ job[a].op # "none"
    /\ \A b \in Actors : job[b].at = "recv" => b = a
    /\ \/ Len(requests) = 1 /\ IsRequestOf(requests[1], a) /\ responses = <<>>
       \/ requests = <<>> /\ Len(responses) = 1 /\ Answers(responses[1], a)

\* One request is outstanding at a time, and its future holds the guard.
OneOutstanding == Quiet \/ \E a \in Actors : Waiting(a)

\* What the user of a reader that was never cancelled polls.
UserAt(f) ==
    /\ user[f] = "preseek" => arg[f] <= Size + 1
    /\ f \notin abandoned =>
        /\ user[f] \in {"idle", "read", "seek", "dropped"}
        /\ user[f] \in {"idle", "dropped"} => job[<<f, "reader">>] = NoJob
        /\ user[f] = "read" => /\ job[<<f, "reader">>].op = "Read"
                               /\ job[<<f, "reader">>].left + job[<<f, "reader">>].got <= arg[f]
        /\ user[f] = "seek" => job[<<f, "reader">>].op \in {"FileSeek", "FileTell"}
UserLine == \A f \in Files : UserAt(f)

\* The bytes of a file that wait on the wire.
Landed(f) ==
    IF job[<<f, "reader">>].at = "recv" /\ responses # <<>> /\ Head(responses).status = "ok"
    THEN Head(responses).len ELSE 0

\* A reader in its place, and a reader in a read.
CursorAt(f) ==
    f \notin failed /\ user[f] \notin Panicked \cup {"dropped"} =>
        /\ job[<<f, "reader">>].op = "none" => cursor[f] = position[f]
        /\ job[<<f, "reader">>].op = "Read"
              => cursor[f] + job[<<f, "reader">>].got + Landed(f) = position[f]
CursorLine == \A f \in Files : CursorAt(f)

\* The ranges of the variables while nothing was dropped between request and response.
Bounded ==
    /\ mutex \in Seq(Actors) /\ package_number \in Nat
    /\ requests \in Seq([op : Ops, file : Files, num : Nat, n : 0..Chunk, to : 0..(Size + 1)])
    /\ responses \in Seq([op : Ops, num : Nat, status : {"ok", "error"}, len : 0..Chunk,
                          pos : 0..(Size + 1)])
    /\ opened \subseteq Files /\ position \in [Files -> 0..(Size + 1)]
    /\ job \in [Actors -> [op : Ops, at : {"send", "recv"}, left : 0..MaxRead,
                           got : 0..MaxRead, num : Nat, to : 0..(Size + 1)]]
    /\ user \in [Files -> {"idle", "read", "preseek", "seek", "dropped", "overflow",
                        "unreachable"}]
    /\ arg \in [Files -> 0..(MaxRead + Size + 1)]
    /\ cursor \in [Files -> 0..(Size + 1)]
    /\ handle \in [Files -> {"none", "split", "spent"}]
    /\ started \in 0..MaxOps
    /\ failed \subseteq Files /\ abandoned \subseteq Files

SharedInv ==
    /\ Bounded /\ JobsOK /\ OneOutstanding
    /\ UserLine /\ CursorLine

-----------------------------------------------------------------------------
(* Jobs, the mutex queue and the wire. *)

JobType == [op : Ops, at : {"send", "recv"}, left : 0 .. MaxRead,
            got : 0 .. MaxRead, num : Nat, to : 0 .. (Size + 1)]

LEMMA NewJob ==
    ASSUME NEW op \in Ops, NEW n \in 0 .. MaxRead, NEW p \in 0 .. (Size + 1)
    PROVE  /\ Job(op, n, p) \in JobType /\ NoJob \in JobType
           /\ Job(op, n, p).op = op /\ Job(op, n, p).at = "send"
           /\ Job(op, n, p).left = n /\ Job(op, n, p).got = 0
           /\ NoJob.op = "none" /\ NoJob.at = "send" /\ NoJob.left = 0 /\ NoJob.got = 0
<1>1. Job(op, n, p) = [op |-> op, at |-> "send", left |-> n, got |-> 0, num |-> 0, to |-> p]
  BY DEF Job
<1>2. 0 \in 0 .. MaxRead /\ 0 \in 0 .. (Size + 1) /\ "none" \in Ops
  BY SizesAssumption DEF Ops
<1>3. NoJob \in JobType
  BY <1>2 DEF NoJob, Job, JobType
<1>4. Job(op, n, p) \in JobType
  BY <1>1, <1>2 DEF JobType
<1> QED BY <1>1, <1>3, <1>4 DEF NoJob, Job

LEMMA ReaderOwner ==
    ASSUME NEW f \in Files, NEW g \in Files
    PROVE  /\ <<f, "reader">> \in Actors /\ <<f, "owner">> \in Actors
           /\ <<f, "reader">> # <<g, "owner">>
           /\ <<f, "reader">> = <<g, "reader">> => f = g
           /\ <<f, "owner">> = <<g, "owner">> => f = g
           /\ <<f, "reader">>[1] = f /\ <<f, "owner">>[1] = f
           /\ <<f, "reader">>[2] = "reader" /\ <<f, "owner">>[2] = "owner"
  BY DEF Actors, Half

\* A future that joins the queue leaves the holder of the guard where it is.
LEMMA QueueGrows ==
    ASSUME NEW q \in Seq(Actors), NEW a \in Actors
    PROVE  /\ Append(q, a) \in Seq(Actors) /\ Append(q, a) # <<>>
           /\ q # <<>> => Head(Append(q, a)) = Head(q)
<1>1. /\ Append(q, a) \in Seq(Actors) /\ Append(q, a) # <<>>
      /\ \A i \in 1 .. Len(q) : Append(q, a)[i] = q[i]
  BY AppendProperties
<1>2. ASSUME q # <<>> PROVE Head(Append(q, a)) = Head(q)
  <2>1. Head(Append(q, a)) = Append(q, a)[1] /\ Head(q) = q[1]
    BY <1>1, <1>2, HeadTailProperties
  <2>2. 1 \in 1 .. Len(q)
    BY <1>2, EmptySeq
  <2> QED BY <2>1, <2>2, <1>1
<1> QED BY <1>1, <1>2

LEMMA QueueShrinks ==
    ASSUME NEW S, NEW q \in Seq(S), q # <<>>
    PROVE  /\ Tail(q) \in Seq(S) /\ Head(q) = q[1] /\ Head(q) \in S
           /\ Len(q) = 1 => Tail(q) = <<>>
<1>1. Tail(q) \in Seq(S) /\ Head(q) \in S /\ Len(Tail(q)) = Len(q) - 1
  BY HeadTailProperties
<1>2. Head(q) = q[1]
  OBVIOUS
<1>3. ASSUME Len(q) = 1 PROVE Tail(q) = <<>>
  <2>1. Len(Tail(q)) = 0
    BY <1>1, <1>3
  <2> QED BY <2>1, <1>1, EmptySeq
<1> QED BY <1>1, <1>2, <1>3

\* A future that leaves the queue leaves the holder where it is, unless it is the holder.
LEMMA QueueWithout ==
    ASSUME mutex \in Seq(Actors), NEW a \in Actors
    PROVE  /\ Without(a) \in Seq(Actors)
           /\ \A b \in Actors : Holds(b) /\ b # a => Without(a) # <<>> /\ Head(Without(a)) = b
<1>1. CASE ~ \E i \in 1 .. Len(mutex) : mutex[i] = a
  BY <1>1 DEF Without, Holds
<1>2. CASE \E i \in 1 .. Len(mutex) : mutex[i] = a
  <2> DEFINE i == CHOOSE k \in 1 .. Len(mutex) : mutex[k] = a
             u == SubSeq(mutex, 1, i - 1)
             v == SubSeq(mutex, i + 1, Len(mutex))
  <2>1. i \in 1 .. Len(mutex) /\ mutex[i] = a
    BY <1>2
  <2>2. Without(a) = u \o v
    BY <1>2 DEF Without
  <2> HIDE DEF i
  <2>3. Len(mutex) \in Nat /\ \A k \in 1 .. Len(mutex) : mutex[k] \in Actors
    OBVIOUS
  <2>4. u \in Seq(Actors) /\ Len(u) = i - 1 /\ \A k \in 1 .. i - 1 : u[k] = mutex[k]
    <3>1. /\ u \in Seq(Actors)
          /\ Len(u) = IF 1 <= i - 1 THEN (i - 1) - 1 + 1 ELSE 0
          /\ \A k \in 1 .. (i - 1) - 1 + 1 : u[k] = mutex[1 + k - 1]
      <4>1. 1 \in Int /\ i - 1 \in Int /\ \A k \in 1 .. i - 1 : mutex[k] \in Actors
        BY <2>1, <2>3
      <4> QED BY <4>1, SubSeqProperties
    <3> QED BY <3>1, <2>1, <2>3
  <2>5. v \in Seq(Actors)
    <3>1. i + 1 \in Int /\ Len(mutex) \in Int
          /\ \A k \in i + 1 .. Len(mutex) : mutex[k] \in Actors
      BY <2>1, <2>3
    <3> QED BY <3>1, SubSeqProperties
  <2> HIDE DEF u, v
  <2>6. /\ u \o v \in Seq(Actors) /\ Len(u \o v) = Len(u) + Len(v)
        /\ \A k \in 1 .. Len(u) + Len(v) :
              (u \o v)[k] = IF k <= Len(u) THEN u[k] ELSE v[k - Len(u)]
    BY <2>4, <2>5, ConcatProperties
  <2>7. ASSUME NEW b \in Actors, Holds(b), b # a
        PROVE  u \o v # <<>> /\ Head(u \o v) = b
    <3>1. mutex[1] = b
      BY <2>7 DEF Holds
    <3>2. i > 1
      BY <3>1, <2>1, <2>7
    <3>3. Len(u) >= 1 /\ Len(v) \in Nat /\ u[1] = b
      BY <3>2, <3>1, <2>1, <2>3, <2>4, <2>5
    <3>4. (u \o v)[1] = b /\ Len(u \o v) >= 1
      BY <3>3, <2>6
    <3> QED BY <3>4, <2>6
  <2> QED BY <2>2, <2>6, <2>7
<1> QED BY <1>1, <1>2

\* The future that waits is the one whose answer travels.
LEMMA WaiterIsAlone ==
    ASSUME OneOutstanding, NEW a \in Actors, job[a].at = "recv"
    PROVE  Waiting(a)
  BY DEF OneOutstanding, Quiet, Waiting

\* While somebody waits, nobody else can send.
LEMMA SenderFindsQuiet ==
    ASSUME OneOutstanding, NEW a \in Actors, Holds(a), job[a].at = "send"
    PROVE  Quiet
  BY DEF OneOutstanding, Waiting, Holds

\* A step of futures that do not wait.
LEMMA StillOutstanding ==
    ASSUME OneOutstanding, UNCHANGED <<requests, responses, position>>,
           \A b \in Actors : job[b].at = "recv" => job'[b] = job[b] /\ (Holds(b) => Holds(b)'),
           \A b \in Actors : job'[b].at = "recv" => job[b].at = "recv",
           \A b \in Actors : job'[b].at \in {"send", "recv"}
    PROVE  OneOutstanding'
<1>1. CASE Quiet
  <2>1. Quiet'
    BY <1>1 DEF Quiet
  <2> QED BY <2>1 DEF OneOutstanding
<1>2. CASE \E a \in Actors : Waiting(a)
  <2>1. PICK a \in Actors : Waiting(a)
    BY <1>2
  <2>2. job'[a] = job[a] /\ Holds(a)'
    BY <2>1 DEF Waiting
  <2>3. Waiting(a)'
    BY <2>1, <2>2 DEF Waiting, IsRequestOf, Answers
  <2> QED BY <2>3 DEF OneOutstanding
<1> QED BY <1>1, <1>2 DEF OneOutstanding

\* A future takes its answer and goes on, or is done.
LEMMA AnswerTaken ==
    ASSUME Bounded, OneOutstanding, NEW a \in Actors, Respond(a), UNCHANGED requests,
           NEW j, j.at = "send", job' = [job EXCEPT ![a] = j]
    PROVE  OneOutstanding' /\ responses' = <<>>
<1>1. Waiting(a) /\ responses # <<>>
  BY WaiterIsAlone DEF Respond
<1>2. requests = <<>> /\ Len(responses) = 1
  BY <1>1 DEF Waiting
<1>3. responses' = <<>>
  BY <1>2, QueueShrinks DEF Respond, Bounded
<1>4. \A b \in Actors : job'[b].at = "send"
  BY <1>1 DEF Waiting, Bounded
<1> QED BY <1>2, <1>3, <1>4 DEF OneOutstanding, Quiet

\* What a future finds when it takes its answer.
LEMMA TakenAnswer ==
    ASSUME Bounded, OneOutstanding, NEW a \in Actors, Respond(a)
    PROVE  /\ Waiting(a) /\ Head(responses) = responses[1] /\ Answers(Head(responses), a)
           /\ Head(responses).len \in 0 .. Chunk /\ Head(responses).pos \in 0 .. (Size + 1)
           /\ Head(responses).status \in {"ok", "error"}
           /\ mutex # <<>> /\ Tail(mutex) \in Seq(Actors)
           /\ Tail(responses) \in Seq([op : Ops, num : Nat, status : {"ok", "error"},
                                       len : 0 .. Chunk, pos : 0 .. (Size + 1)])
           /\ job[a].op # "none"
<1>1. Waiting(a) /\ responses # <<>>
  BY WaiterIsAlone DEF Respond
<1>2. Head(responses) = responses[1]
      /\ Head(responses) \in [op : Ops, num : Nat, status : {"ok", "error"},
                              len : 0 .. Chunk, pos : 0 .. (Size + 1)]
      /\ Tail(responses) \in Seq([op : Ops, num : Nat, status : {"ok", "error"},
                                  len : 0 .. Chunk, pos : 0 .. (Size + 1)])
  BY <1>1, QueueShrinks DEF Bounded
<1>3. mutex # <<>> /\ Tail(mutex) \in Seq(Actors)
  BY QueueShrinks DEF Respond, Holds, Bounded
<1>4. Answers(Head(responses), a) /\ job[a].op # "none"
  BY <1>1, <1>2 DEF Waiting
<1> QED BY <1>1, <1>2, <1>3, <1>4

-----------------------------------------------------------------------------
(* Steps that start, cancel or drop an operation. *)

LEMMA JobsTyped ==
    ASSUME Bounded
    PROVE  job \in [Actors -> JobType] /\ (job' \in [Actors -> JobType] => job' \in
              [Actors -> [op : Ops, at : {"send", "recv"}, left : 0 .. MaxRead,
                          got : 0 .. MaxRead, num : Nat, to : 0 .. (Size + 1)]])
  BY DEF Bounded, JobType

OpsOf(h) == IF h = "reader" THEN ReaderOps ELSE OwnerOps

\* JobsOK follows from what the job that changed looks like.
LEMMA JobsStayOK ==
    ASSUME JobsOK, job \in [Actors -> JobType], NEW f \in Files, NEW h \in Half,
           NEW j \in JobType, j.op \in OpsOf(h), j.left + j.got <= MaxRead,
           j.op = "none" => j = NoJob, job' = [job EXCEPT ![<<f, h>>] = j]
    PROVE  JobsOK'
<1> SUFFICES ASSUME NEW g \in Files
             PROVE  /\ job'[<<g, "reader">>].op \in ReaderOps
                    /\ job'[<<g, "owner">>].op \in OwnerOps
                    /\ \A k \in Half : /\ job'[<<g, k>>].left + job'[<<g, k>>].got <= MaxRead
                                       /\ job'[<<g, k>>].op = "none" => job'[<<g, k>>] = NoJob
  BY DEF JobsOK
<1>1. \A k \in Half : job'[<<g, k>>] = IF g = f /\ k = h THEN j ELSE job[<<g, k>>]
  BY DEF Actors
<1>2. /\ job[<<g, "reader">>].op \in ReaderOps /\ job[<<g, "owner">>].op \in OwnerOps
      /\ \A k \in Half : /\ job[<<g, k>>].left + job[<<g, k>>].got <= MaxRead
                         /\ job[<<g, k>>].op = "none" => job[<<g, k>>] = NoJob
  BY DEF JobsOK
<1>3. "reader" \in Half /\ "owner" \in Half
  BY DEF Half
<1> QED BY <1>1, <1>2, <1>3 DEF OpsOf

\* A future is created and joins the queue.
LEMMA Launches ==
    ASSUME SharedInv, NEW f \in Files, NEW h \in Half, job[<<f, h>>] = NoJob,
           NEW op \in Ops \ {"none"}, op \in OpsOf(h),
           NEW n \in 0 .. MaxRead, NEW p \in 0 .. (Size + 1),
           Launch(<<f, h>>, Job(op, n, p)), UNCHANGED <<requests, responses, position>>
    PROVE  /\ job' \in [Actors -> JobType] /\ mutex' \in Seq(Actors)
           /\ JobsOK' /\ OneOutstanding'
           /\ job'[<<f, h>>] = Job(op, n, p)
           /\ \A b \in Actors : b # <<f, h>> => job'[b] = job[b]
<1> DEFINE a == <<f, h>>
           j == Job(op, n, p)
<1>1. job \in [Actors -> JobType] /\ mutex \in Seq(Actors) /\ a \in Actors
  BY JobsTyped DEF SharedInv, Bounded, Actors
<1>2. /\ j \in JobType /\ j.op = op /\ j.at = "send" /\ j.left = n /\ j.got = 0
      /\ NoJob.at = "send"
  BY NewJob
<1> HIDE DEF j
<1>3. job' = [job EXCEPT ![a] = j] /\ mutex' = Append(mutex, a)
  BY DEF Launch, j
<1>4. /\ job' \in [Actors -> JobType] /\ job'[a] = j
      /\ \A b \in Actors : b # a => job'[b] = job[b]
  BY <1>1, <1>2, <1>3
<1>5. mutex' \in Seq(Actors) /\ \A b \in Actors : Holds(b) => Holds(b)'
  BY <1>1, <1>3, QueueGrows DEF Holds
<1>6. JobsOK'
  <2>1. j.op \in OpsOf(h) /\ j.left + j.got <= MaxRead /\ j.op # "none"
    BY <1>2, SizesAssumption
  <2> QED BY <2>1, <1>1, <1>2, <1>3, JobsStayOK DEF SharedInv
<1>7. OneOutstanding'
  <2>1. \A b \in Actors : job[b].at = "recv" => job'[b] = job[b] /\ (Holds(b) => Holds(b)')
    BY <1>2, <1>4, <1>5
  <2>2. \A b \in Actors : job'[b].at = "recv" => job[b].at = "recv"
    BY <1>2, <1>4
  <2>3. \A b \in Actors : job'[b].at \in {"send", "recv"}
    BY <1>4 DEF JobType
  <2> QED BY <2>1, <2>2, <2>3, StillOutstanding DEF SharedInv
<1> QED BY <1>4, <1>5, <1>6, <1>7 DEF j

\* Nothing one reader knows has changed.
Kept(f) ==
    /\ user'[f] = user[f] /\ arg'[f] = arg[f] /\ cursor'[f] = cursor[f]
    /\ position'[f] = position[f] /\ job'[<<f, "reader">>] = job[<<f, "reader">>]
    /\ f \in failed' <=> f \in failed
    /\ f \in abandoned' <=> f \in abandoned
    /\ Landed(f)' = Landed(f)

LEMMA ReaderKept ==
    ASSUME NEW f \in Files, Kept(f)
    PROVE  (UserAt(f) => UserAt(f)') /\ (CursorAt(f) => CursorAt(f)')
<1>1. UserAt(f) => UserAt(f)'
  BY DEF UserAt, Kept
<1>2. CursorAt(f) => CursorAt(f)'
  <2> HIDE DEF Landed
  <2> QED BY DEF CursorAt, Kept
<1> QED BY <1>1, <1>2

LEMMA ReadersKept ==
    ASSUME UserLine, CursorLine, \A f \in Files : Kept(f)
    PROVE  UserLine' /\ CursorLine'
  BY ReaderKept DEF UserLine, CursorLine

LEMMA OtherReadersKept ==
    ASSUME UserLine, CursorLine, NEW f \in Files, UserAt(f)', CursorAt(f)',
           \A g \in Files \ {f} : Kept(g)
    PROVE  UserLine' /\ CursorLine'
  BY ReaderKept DEF UserLine, CursorLine

LEMMA OwnerStarts ==
    ASSUME SharedInv, NEW f \in Files, Open(f) \/ Close(f) \/ SendOp(f)
    PROVE  SharedInv'
<1> DEFINE a == <<f, "owner">>
<1>1. PICK op \in {"FileOpen", "FileClose", "Other"} :
         /\ job[a] = NoJob /\ Launch(a, Job(op, 0, 0)) /\ MayStart
         /\ handle' \in [Files -> {"none", "split", "spent"}]
         /\ UNCHANGED <<wireVars, devVars, user, arg, cursor, histVars>>
  BY DEF Open, Close, SendOp, SharedInv, Bounded
<1>2. /\ job' \in [Actors -> JobType] /\ mutex' \in Seq(Actors) /\ JobsOK' /\ OneOutstanding'
      /\ \A b \in Actors : b # a => job'[b] = job[b]
  <2>1. /\ op \in Ops \ {"none"} /\ op \in OpsOf("owner") /\ "owner" \in Half
        /\ 0 \in 0 .. MaxRead /\ 0 \in 0 .. (Size + 1)
    BY SizesAssumption DEF Ops, OpsOf, OwnerOps, Half
  <2> QED BY <2>1, <1>1, Launches DEF wireVars, devVars
<1>3. \A g \in Files : job'[<<g, "reader">>] = job[<<g, "reader">>]
  BY <1>2, ReaderOwner
<1>4. UserLine' /\ CursorLine'
  <2>1. \A g \in Files : Kept(g)
    BY <1>1, <1>3 DEF Kept, Landed, wireVars, devVars, histVars
  <2> QED BY <2>1, ReadersKept DEF SharedInv
<1>5. Bounded'
  <2>1. started' \in 0 .. MaxOps
    BY <1>1, SizesAssumption DEF MayStart, SharedInv, Bounded
  <2> QED BY <2>1, <1>1, <1>2 DEF SharedInv, Bounded, JobType, wireVars, devVars, histVars
<1> QED BY <1>2, <1>4, <1>5 DEF SharedInv

LEMMA ReadStarts ==
    ASSUME SharedInv, NEW f \in Files, NEW n \in 1 .. MaxRead, BeginRead(f, n)
    PROVE  SharedInv'
<1> DEFINE a == <<f, "reader">>
<1>0. a \in Actors /\ job \in [Actors -> JobType]
  BY JobsTyped, ReaderOwner DEF SharedInv
<1>1. /\ user[f] = "idle" /\ user' = [user EXCEPT ![f] = "read"] /\ arg' = [arg EXCEPT ![f] = n]
      /\ UNCHANGED <<requests, responses, package_number, opened, position, cursor, handle,
                     failed, abandoned>>
  BY DEF BeginRead, wireVars, devVars, histVars
<1>2. /\ started' \in 0 .. MaxOps /\ user' \in [Files -> {"idle", "read", "preseek", "seek",
                                          "dropped", "overflow", "unreachable"}]
      /\ arg' \in [Files -> 0 .. (MaxRead + Size + 1)]
  BY <1>1, SizesAssumption DEF BeginRead, MayStart, SharedInv, Bounded
<1>3. CASE job[a] = NoJob
  <2>1. Launch(a, Job("Read", n, 0))
    BY <1>3 DEF BeginRead
  <2>2. /\ "Read" \in Ops \ {"none"} /\ "Read" \in OpsOf("reader") /\ "reader" \in Half
        /\ n \in 0 .. MaxRead /\ 0 \in 0 .. (Size + 1)
    BY SizesAssumption DEF Ops, OpsOf, ReaderOps, Half
  <2>3. /\ job' \in [Actors -> JobType] /\ mutex' \in Seq(Actors) /\ JobsOK' /\ OneOutstanding'
        /\ job'[a] = Job("Read", n, 0) /\ \A b \in Actors : b # a => job'[b] = job[b]
    BY <2>1, <2>2, <1>1, <1>3, Launches
  <2>4. /\ Job("Read", n, 0).op = "Read" /\ Job("Read", n, 0).at = "send"
        /\ Job("Read", n, 0).left = n /\ Job("Read", n, 0).got = 0 /\ NoJob.op = "none"
    BY <2>2, NewJob
  <2>5. UserAt(f)'
    BY <1>1, <2>3, <2>4 DEF UserAt, SharedInv, Bounded
  <2>6. CursorAt(f)'
    <3>1. Landed(f)' = 0
      BY <2>3, <2>4 DEF Landed
    <3>2. f \notin failed => cursor[f] = position[f] /\ cursor[f] \in Nat
      <4>1. CursorAt(f) /\ cursor[f] \in Nat
        BY SizesAssumption DEF SharedInv, CursorLine, Bounded
      <4> QED BY <4>1, <1>1, <1>3, <2>4 DEF CursorAt, Panicked
    <3> HIDE DEF Landed
    <3> QED BY <3>1, <3>2, <1>1, <2>3, <2>4 DEF CursorAt
  <2>7. UserLine' /\ CursorLine'
    <3>1. \A g \in Files \ {f} : job'[<<g, "reader">>] = job[<<g, "reader">>]
      BY <2>3, ReaderOwner
    <3>2. \A g \in Files \ {f} : Kept(g)
      BY <3>1, <1>1 DEF Kept, Landed, SharedInv, Bounded
    <3> QED BY <3>2, <2>5, <2>6, OtherReadersKept DEF SharedInv
  <2>8. Bounded'
    BY <1>1, <1>2, <2>3 DEF SharedInv, Bounded, JobType
  <2> QED BY <2>3, <2>7, <2>8 DEF SharedInv
<1>4. CASE job[a] # NoJob
  <2>1. UNCHANGED <<job, mutex>>
    BY <1>4 DEF BeginRead
  <2>2. f \in abandoned
    BY <1>1, <1>4 DEF SharedInv, UserLine, UserAt
  <2>3. Bounded'
    BY <1>1, <1>2, <2>1 DEF SharedInv, Bounded
  <2>4. JobsOK'
    BY <2>1 DEF SharedInv, JobsOK
  <2>5. OneOutstanding'
    BY <2>1, <1>1 DEF SharedInv, OneOutstanding, Quiet, Waiting, Holds, IsRequestOf, Answers
  <2>6. UserAt(f)'
    BY <2>2, <1>1 DEF UserAt
  <2>7. CursorAt(f)'
    <3>1. Landed(f)' = Landed(f)
      BY <2>1, <1>1 DEF Landed
    <3> HIDE DEF Landed
    <3> QED BY <3>1, <2>1, <1>1 DEF CursorAt, SharedInv, CursorLine, Panicked
  <2>8. UserLine' /\ CursorLine'
    <3>1. \A g \in Files \ {f} : Kept(g)
      BY <1>1, <2>1 DEF Kept, Landed, SharedInv, Bounded
    <3> QED BY <3>1, <2>6, <2>7, OtherReadersKept DEF SharedInv
  <2> QED BY <2>3, <2>4, <2>5, <2>8 DEF SharedInv
<1> QED BY <1>3, <1>4

LEMMA SeekStarts ==
    ASSUME SharedInv, NEW f \in Files, NEW p \in 0 .. (Size + 1), BeginSeek(f, p)
    PROVE  SharedInv'
<1> DEFINE a == <<f, "reader">>
<1>1. /\ user[f] = "idle" /\ user' = [user EXCEPT ![f] = user'[f]]
      /\ user'[f] = IF job[a] = NoJob THEN "seek" ELSE "preseek"
      /\ arg' = [arg EXCEPT ![f] = p]
      /\ UNCHANGED <<requests, responses, package_number, opened, position, cursor, handle,
                     failed, abandoned>>
  BY DEF BeginSeek, wireVars, devVars, histVars, SharedInv, Bounded
<1>2. /\ started' \in 0 .. MaxOps /\ user' \in [Files -> {"idle", "read", "preseek", "seek",
                                          "dropped", "overflow", "unreachable"}]
      /\ arg' \in [Files -> 0 .. (MaxRead + Size + 1)]
  <2>1. started' \in 0 .. MaxOps
    BY SizesAssumption DEF BeginSeek, MayStart, SharedInv, Bounded
  <2>2. p \in 0 .. (MaxRead + Size + 1)
    BY SizesAssumption
  <2> QED BY <2>1, <2>2, <1>1 DEF SharedInv, Bounded
<1>3. CASE job[a] = NoJob
  <2>1. Launch(a, Job("FileSeek", 0, p))
    BY <1>3 DEF BeginSeek
  <2>2. /\ "FileSeek" \in Ops \ {"none"} /\ "FileSeek" \in OpsOf("reader") /\ "reader" \in Half
        /\ 0 \in 0 .. MaxRead
    BY SizesAssumption DEF Ops, OpsOf, ReaderOps, Half
  <2>3. /\ job' \in [Actors -> JobType] /\ mutex' \in Seq(Actors) /\ JobsOK' /\ OneOutstanding'
        /\ job'[a] = Job("FileSeek", 0, p) /\ \A b \in Actors : b # a => job'[b] = job[b]
    BY <2>1, <2>2, <1>1, <1>3, Launches
  <2>4. Job("FileSeek", 0, p).op = "FileSeek"
    BY <2>2, NewJob
  <2>5. UserAt(f)' /\ CursorAt(f)'
    <3> HIDE DEF Landed
    <3> QED BY <1>1, <1>3, <2>3, <2>4 DEF UserAt, CursorAt
  <2>6. UserLine' /\ CursorLine'
    <3>1. \A g \in Files \ {f} : job'[<<g, "reader">>] = job[<<g, "reader">>]
      BY <2>3, ReaderOwner
    <3>2. \A g \in Files \ {f} : Kept(g)
      BY <3>1, <1>1 DEF Kept, Landed, SharedInv, Bounded
    <3> QED BY <3>2, <2>5, OtherReadersKept DEF SharedInv
  <2>7. Bounded'
    BY <1>1, <1>2, <2>3 DEF SharedInv, Bounded, JobType
  <2> QED BY <2>3, <2>6, <2>7 DEF SharedInv
<1>4. CASE job[a] # NoJob
  <2>1. UNCHANGED <<job, mutex>>
    BY <1>4 DEF BeginSeek
  <2>2. f \in abandoned
    BY <1>1, <1>4 DEF SharedInv, UserLine, UserAt
  <2>3. Bounded'
    BY <1>1, <1>2, <2>1 DEF SharedInv, Bounded
  <2>4. JobsOK'
    BY <2>1 DEF SharedInv, JobsOK
  <2>5. OneOutstanding'
    BY <2>1, <1>1 DEF SharedInv, OneOutstanding, Quiet, Waiting, Holds, IsRequestOf, Answers
  <2>6. UserAt(f)'
    BY <2>2, <1>1 DEF UserAt, SharedInv, Bounded
  <2>7. CursorAt(f)'
    <3>1. Landed(f)' = Landed(f)
      BY <2>1, <1>1 DEF Landed
    <3> HIDE DEF Landed
    <3> QED BY <3>1, <2>1, <1>1 DEF CursorAt, SharedInv, CursorLine, Panicked
  <2>8. UserLine' /\ CursorLine'
    <3>1. \A g \in Files \ {f} : Kept(g)
      BY <1>1, <2>1 DEF Kept, Landed, SharedInv, Bounded
    <3> QED BY <3>1, <2>6, <2>7, OtherReadersKept DEF SharedInv
  <2> QED BY <2>3, <2>4, <2>5, <2>8 DEF SharedInv
<1> QED BY <1>3, <1>4

LEMMA PollCancelled ==
    ASSUME SharedInv, NEW f \in Files, CancelPoll(f)
    PROVE  SharedInv'
<1>1. /\ user[f] \in {"read", "preseek", "seek"} /\ user' = [user EXCEPT ![f] = "idle"]
      /\ abandoned' = abandoned \cup {f}
      /\ UNCHANGED <<mutex, requests, responses, package_number, opened, position, job, arg,
                     cursor, handle, started, failed>>
  BY DEF CancelPoll, wireVars, devVars
<1>2. Bounded'
  BY <1>1 DEF SharedInv, Bounded
<1>3. JobsOK'
  BY <1>1 DEF SharedInv, JobsOK
<1>4. OneOutstanding'
  BY <1>1 DEF SharedInv, OneOutstanding, Quiet, Waiting, Holds, IsRequestOf, Answers
<1>5. UserAt(f)'
  BY <1>1 DEF UserAt, SharedInv, Bounded
<1>6. CursorAt(f)'
  <2>1. Landed(f)' = Landed(f) /\ user[f] \notin Panicked \cup {"dropped"}
    BY <1>1 DEF Landed, Panicked
  <2> HIDE DEF Landed
  <2> QED BY <2>1, <1>1 DEF CursorAt, SharedInv, CursorLine
<1>7. UserLine' /\ CursorLine'
  <2>1. \A g \in Files \ {f} : Kept(g)
    BY <1>1 DEF Kept, Landed, SharedInv, Bounded
  <2> QED BY <2>1, <1>5, <1>6, OtherReadersKept DEF SharedInv
<1> QED BY <1>2, <1>3, <1>4, <1>7 DEF SharedInv

\* A future that does not wait on a response is taken away with its place in the queue.
LEMMA JobDropped ==
    ASSUME SharedInv, NEW f \in Files, NEW h \in Half, job[<<f, h>>].at # "recv",
           job' = [job EXCEPT ![<<f, h>>] = NoJob], mutex' = Without(<<f, h>>),
           UNCHANGED <<requests, responses, position>>
    PROVE  /\ job' \in [Actors -> JobType] /\ mutex' \in Seq(Actors)
           /\ JobsOK' /\ OneOutstanding'
<1> DEFINE a == <<f, h>>
<1>1. /\ a \in Actors /\ job \in [Actors -> JobType] /\ mutex \in Seq(Actors)
      /\ NoJob \in JobType /\ NoJob.at = "send" /\ NoJob.op = "none"
      /\ NoJob.left = 0 /\ NoJob.got = 0 /\ "none" \in OpsOf(h)
  <2>1. "Read" \in Ops /\ 0 \in 0 .. MaxRead /\ 0 \in 0 .. (Size + 1)
    BY SizesAssumption DEF Ops
  <2> QED BY <2>1, JobsTyped, NewJob DEF SharedInv, Bounded, Actors, OpsOf, ReaderOps, OwnerOps
<1>2. job' \in [Actors -> JobType] /\ \A b \in Actors : job'[b] = IF b = a THEN NoJob ELSE job[b]
  BY <1>1
<1>3. mutex' \in Seq(Actors) /\ \A b \in Actors : Holds(b) /\ b # a => Holds(b)'
  BY <1>1, QueueWithout DEF Holds
<1>4. JobsOK'
  <2>1. NoJob.left + NoJob.got <= MaxRead
    BY <1>1, SizesAssumption
  <2> QED BY <2>1, <1>1, JobsStayOK DEF SharedInv
<1>5. OneOutstanding'
  <2>1. \A b \in Actors : job[b].at = "recv" => job'[b] = job[b] /\ (Holds(b) => Holds(b)')
    BY <1>2, <1>3
  <2>2. \A b \in Actors : job'[b].at = "recv" => job[b].at = "recv"
    BY <1>1, <1>2
  <2>3. \A b \in Actors : job'[b].at \in {"send", "recv"}
    BY <1>2 DEF JobType
  <2> QED BY <2>1, <2>2, <2>3, StillOutstanding DEF SharedInv
<1> QED BY <1>2, <1>3, <1>4, <1>5

LEMMA ReaderDropped ==
    ASSUME SharedInv, orphans \in Nat, orphans' = 0, NEW f \in Files, DropReader(f)
    PROVE  SharedInv'
<1> DEFINE a == <<f, "reader">>
<1>1. /\ job[a].at # "recv" /\ user' = [user EXCEPT ![f] = "dropped"]
      /\ job' = [job EXCEPT ![a] = NoJob] /\ mutex' = Without(a)
      /\ UNCHANGED <<requests, responses, package_number, opened, position, arg, cursor, handle,
                     started, failed, abandoned>>
  BY DEF DropReader, Drop, wireVars, devVars
<1>2. job' \in [Actors -> JobType] /\ mutex' \in Seq(Actors) /\ JobsOK' /\ OneOutstanding'
  BY <1>1, JobDropped DEF Half
<1>3. /\ job \in [Actors -> JobType] /\ a \in Actors /\ job'[a] = NoJob
      /\ \A b \in Actors : b # a => job'[b] = job[b]
  <2>1. job \in [Actors -> JobType] /\ a \in Actors
    BY JobsTyped, ReaderOwner DEF SharedInv
  <2> QED BY <2>1, <1>1
<1>4. UserAt(f)' /\ CursorAt(f)'
  <2> HIDE DEF Landed
  <2> QED BY <1>1, <1>3 DEF UserAt, CursorAt, SharedInv, Bounded
<1>5. UserLine' /\ CursorLine'
  <2>1. \A g \in Files \ {f} : job'[<<g, "reader">>] = job[<<g, "reader">>]
    BY <1>3, ReaderOwner
  <2>2. \A g \in Files \ {f} : Kept(g)
    BY <2>1, <1>1 DEF Kept, Landed, SharedInv, Bounded
  <2> QED BY <2>2, <1>4, OtherReadersKept DEF SharedInv
<1>6. Bounded'
  BY <1>1, <1>2 DEF SharedInv, Bounded, JobType
<1> QED BY <1>2, <1>5, <1>6 DEF SharedInv

LEMMA OwnerDropped ==
    ASSUME SharedInv, orphans \in Nat, orphans' = 0, NEW f \in Files, DropOwner(f)
    PROVE  SharedInv'
<1> DEFINE a == <<f, "owner">>
<1>1. /\ job[a].at # "recv" /\ job' = [job EXCEPT ![a] = NoJob] /\ mutex' = Without(a)
      /\ UNCHANGED <<requests, responses, package_number, opened, position, user, arg, cursor,
                     handle, started, failed, abandoned>>
  BY DEF DropOwner, Drop, wireVars, devVars
<1>2. job' \in [Actors -> JobType] /\ mutex' \in Seq(Actors) /\ JobsOK' /\ OneOutstanding'
  BY <1>1, JobDropped DEF Half
<1>3. \A g \in Files : job'[<<g, "reader">>] = job[<<g, "reader">>]
  <2>1. job \in [Actors -> JobType]
    BY JobsTyped DEF SharedInv
  <2> QED BY <2>1, <1>1, ReaderOwner
<1>4. UserLine' /\ CursorLine'
  <2>1. \A g \in Files : Kept(g)
    BY <1>1, <1>3 DEF Kept, Landed
  <2> QED BY <2>1, ReadersKept DEF SharedInv
<1>5. Bounded'
  BY <1>1, <1>2 DEF SharedInv, Bounded, JobType
<1> QED BY <1>2, <1>4, <1>5 DEF SharedInv

-----------------------------------------------------------------------------
(* A request and its answer. *)

ReqType == [op : Ops, file : Files, num : Nat, n : 0 .. Chunk, to : 0 .. (Size + 1)]
RespType == [op : Ops, num : Nat, status : {"ok", "error"}, len : 0 .. Chunk, pos : 0 .. (Size + 1)]

\* An empty channel that is sent one message.
LEMMA FirstIn ==
    ASSUME NEW S, NEW m \in S
    PROVE  /\ Append(<<>>, m) \in Seq(S) /\ Len(Append(<<>>, m)) = 1
           /\ Append(<<>>, m)[1] = m /\ Append(<<>>, m) # <<>> /\ Head(Append(<<>>, m)) = m
<1>1. <<>> \in Seq(S) /\ Len(<<>>) = 0
  BY EmptySeq
<1>2. /\ Append(<<>>, m) \in Seq(S) /\ Append(<<>>, m) # <<>> /\ Len(Append(<<>>, m)) = 0 + 1
      /\ Append(<<>>, m)[0 + 1] = m
  BY <1>1, AppendProperties
<1> QED BY <1>2

LEMMA RequestSent ==
    ASSUME SharedInv, NEW f \in Files, NEW h \in Half, Send(<<f, h>>)
    PROVE  SharedInv'
<1> DEFINE a == <<f, h>>
           q == [op |-> job[a].op, file |-> f, num |-> package_number,
                 n |-> Least(job[a].left, Chunk), to |-> job[a].to]
           j == [job[a] EXCEPT !.at = "recv", !.num = package_number]
<1>1. /\ Holds(a) /\ job[a].op # "none" /\ job[a].at = "send"
      /\ requests' = Append(requests, q) /\ package_number' = package_number + 1
      /\ job' = [job EXCEPT ![a] = j]
      /\ UNCHANGED <<mutex, responses, opened, position, user, arg, cursor, handle, started,
                     failed, abandoned>>
  BY DEF Send, devVars, userVars, histVars
<1>2. a \in Actors /\ job \in [Actors -> JobType] /\ job[a] \in JobType /\ package_number \in Nat
  BY JobsTyped DEF SharedInv, Bounded, Actors
<1>3. Quiet
  BY <1>1, <1>2, SenderFindsQuiet DEF SharedInv
<1>4. /\ j \in JobType /\ j.op = job[a].op /\ j.at = "recv" /\ j.left = job[a].left
      /\ j.got = job[a].got /\ j.num = package_number /\ j.to = job[a].to
  BY <1>2 DEF JobType
<1>5. /\ q \in ReqType /\ q.op = j.op /\ q.file = f /\ q.num = j.num
      /\ q.n = Least(j.left, Chunk) /\ q.to = j.to
  <2>1. job[a].left \in Nat /\ Chunk \in Nat
    BY <1>2, SizesAssumption DEF JobType
  <2>2. Least(job[a].left, Chunk) \in 0 .. Chunk
    BY <2>1 DEF Least
  <2> QED BY <2>2, <1>2, <1>4 DEF JobType, ReqType
<1> HIDE DEF j, q
<1>6. requests' \in Seq(ReqType) /\ Len(requests') = 1 /\ requests'[1] = q
  BY <1>1, <1>3, <1>5, FirstIn DEF Quiet
<1>7. /\ job' \in [Actors -> JobType] /\ job'[a] = j
      /\ \A b \in Actors : b # a => job'[b] = job[b]
  BY <1>1, <1>2, <1>4
<1>8. JobsOK'
  <2>1. job[a].op \in OpsOf(h) /\ job[a].left + job[a].got <= MaxRead
    <3>1. job[a].op \in OpsOf(h)
      BY DEF SharedInv, JobsOK, OpsOf, Half
    <3>2. job[a].left + job[a].got <= MaxRead
      BY DEF SharedInv, JobsOK
    <3> QED BY <3>1, <3>2
  <2>2. j.op \in OpsOf(h) /\ j.left + j.got <= MaxRead /\ j.op # "none"
    BY <2>1, <1>1, <1>4
  <2> QED BY <2>2, <1>1, <1>2, <1>4, JobsStayOK DEF SharedInv
<1>9. OneOutstanding'
  <2>1. Holds(a)' /\ responses' = <<>>
    BY <1>1, <1>3 DEF Holds, Quiet
  <2>2. \A b \in Actors : job'[b].at = "recv" => b = a
    BY <1>3, <1>7 DEF Quiet
  <2>3. IsRequestOf(requests[1], a)'
    BY <1>5, <1>6, <1>7 DEF IsRequestOf
  <2>4. Waiting(a)'
    BY <2>1, <2>2, <2>3, <1>1, <1>4, <1>6, <1>7 DEF Waiting
  <2> QED BY <2>4, <1>2 DEF OneOutstanding
<1>10. UserLine' /\ CursorLine'
  <2>1. \A g \in Files : Landed(g) = 0 /\ Landed(g)' = 0
    BY <1>1, <1>3 DEF Landed, Quiet
  <2>2. ASSUME NEW g \in Files
        PROVE  /\ job'[<<g, "reader">>].op = job[<<g, "reader">>].op
               /\ job'[<<g, "reader">>].left = job[<<g, "reader">>].left
               /\ job'[<<g, "reader">>].got = job[<<g, "reader">>].got
               /\ job[<<g, "reader">>].op = "none" => job'[<<g, "reader">>] = job[<<g, "reader">>]
    <3>1. <<g, "reader">> \in Actors
      BY ReaderOwner
    <3> QED BY <3>1, <1>1, <1>4, <1>7
  <2>3. NoJob.op = "none"
    BY DEF NoJob, Job
  <2>4. ASSUME NEW g \in Files PROVE UserAt(g)'
    <3>1. UserAt(g)
      BY DEF SharedInv, UserLine
    <3> QED BY <3>1, <2>2, <2>3, <1>1 DEF UserAt
  <2>5. ASSUME NEW g \in Files PROVE CursorAt(g)'
    <3>1. CursorAt(g)
      BY DEF SharedInv, CursorLine
    <3> HIDE DEF Landed
    <3> QED BY <3>1, <2>1, <2>2, <1>1 DEF CursorAt
  <2> QED BY <2>4, <2>5 DEF UserLine, CursorLine
<1>11. Bounded'
  <2>1. package_number' \in Nat
    BY <1>1, <1>2
  <2> QED BY <2>1, <1>1, <1>6, <1>7 DEF SharedInv, Bounded, JobType, ReqType
<1> QED BY <1>8, <1>9, <1>10, <1>11 DEF SharedInv

\* The answer of a future travels; every other reader has nothing on the wire.
LEMMA OthersHaveNothing ==
    ASSUME SharedInv, NEW a \in Actors, Waiting(a), NEW f \in Files, <<f, "reader">> # a
    PROVE  job[<<f, "reader">>].at # "recv" /\ Landed(f) = 0
  BY ReaderOwner DEF Waiting, Landed

\* The future of an actor takes its answer and becomes j.
LEMMA Takes ==
    ASSUME SharedInv, NEW f \in Files, NEW h \in Half, Respond(<<f, h>>),
           NEW j \in JobType, j.at = "send", j.op \in OpsOf(h), j.left + j.got <= MaxRead,
           j.op = "none" => j = NoJob, job' = [job EXCEPT ![<<f, h>>] = j],
           UNCHANGED <<requests, position>>
    PROVE  /\ job' \in [Actors -> JobType] /\ JobsOK' /\ OneOutstanding'
           /\ responses' = <<>> /\ responses' \in Seq(RespType)
           /\ job'[<<f, h>>] = j /\ \A b \in Actors : b # <<f, h>> => job'[b] = job[b]
           /\ \A g \in Files : Landed(g)' = 0
           /\ \A g \in Files : g # f \/ h # "reader"
                 => Landed(g) = 0 /\ job'[<<g, "reader">>] = job[<<g, "reader">>]
<1> DEFINE a == <<f, h>>
<1>1. a \in Actors /\ job \in [Actors -> JobType]
  BY JobsTyped DEF SharedInv, Actors
<1>2. Waiting(a)
  BY <1>1, WaiterIsAlone DEF SharedInv, Respond
<1>3. JobsOK'
  BY <1>1, JobsStayOK DEF SharedInv
<1>4. OneOutstanding' /\ responses' = <<>>
  BY <1>1, AnswerTaken DEF SharedInv
<1>5. responses' \in Seq(RespType)
  BY <1>4, EmptySeq
<1>6. /\ job' \in [Actors -> JobType] /\ job'[a] = j
      /\ \A b \in Actors : b # a => job'[b] = job[b]
  BY <1>1
<1>7. \A g \in Files : Landed(g)' = 0
  BY <1>4 DEF Landed
<1>8. \A g \in Files : g # f \/ h # "reader"
         => Landed(g) = 0 /\ job'[<<g, "reader">>] = job[<<g, "reader">>]
  <2> TAKE g \in Files
  <2> HAVE g # f \/ h # "reader"
  <2>0. <<g, "reader">> # a
    OBVIOUS
  <2>1. Landed(g) = 0
    BY <2>0, <1>1, <1>2, OthersHaveNothing
  <2>2. job'[<<g, "reader">>] = job[<<g, "reader">>]
    BY <2>0, <1>6, ReaderOwner
  <2> QED BY <2>1, <2>2
<1> QED BY <1>3, <1>4, <1>5, <1>6, <1>7, <1>8

\* What an actor has when the future it polls is done.
LEMMA NoJobIs ==
    /\ NoJob \in JobType /\ NoJob.op = "none" /\ NoJob.at = "send"
    /\ NoJob.left = 0 /\ NoJob.got = 0 /\ NoJob.left + NoJob.got <= MaxRead
    /\ \A h \in Half : NoJob.op \in OpsOf(h)
<1>1. "Read" \in Ops /\ 0 \in 0 .. MaxRead /\ 0 \in 0 .. (Size + 1)
  BY SizesAssumption DEF Ops
<1>2. /\ NoJob \in JobType /\ NoJob.op = "none" /\ NoJob.at = "send"
      /\ NoJob.left = 0 /\ NoJob.got = 0
  BY <1>1, NewJob
<1> QED BY <1>2, SizesAssumption DEF OpsOf, ReaderOps, OwnerOps

LEMMA ErrorReceived ==
    ASSUME SharedInv, NEW f \in Files, NEW h \in Half, Respond(<<f, h>>), DeliverError(<<f, h>>),
           UNCHANGED <<requests, package_number, devVars, started, abandoned>>
    PROVE  SharedInv'
<1> DEFINE a == <<f, h>>
<1>1. /\ job' = [job EXCEPT ![a] = NoJob] /\ mutex' = Tail(mutex)
      /\ user' = IF h = "reader" THEN [user EXCEPT ![f] = "idle"] ELSE user
      /\ failed' = IF h = "reader" THEN failed \cup {f} ELSE failed
      /\ UNCHANGED <<requests, package_number, opened, position, arg, cursor, handle, started,
                     abandoned>>
  BY DEF DeliverError, Ready, devVars
<1>2. a \in Actors
  BY DEF Actors
<1>3. mutex' \in Seq(Actors)
  BY <1>1, <1>2, TakenAnswer DEF SharedInv
<1>4. /\ job' \in [Actors -> JobType] /\ JobsOK' /\ OneOutstanding'
      /\ responses' \in Seq(RespType) /\ job'[a] = NoJob
      /\ \A g \in Files : Landed(g)' = 0
      /\ \A g \in Files : g # f \/ h # "reader"
            => Landed(g) = 0 /\ job'[<<g, "reader">>] = job[<<g, "reader">>]
  <2>1. /\ NoJob \in JobType /\ NoJob.at = "send" /\ NoJob.op \in OpsOf(h)
        /\ NoJob.left + NoJob.got <= MaxRead
    BY NoJobIs
  <2>2. job' = [job EXCEPT ![<<f, h>>] = NoJob] /\ UNCHANGED <<requests, position>>
    BY <1>1
  <2>3. job'[a] = NoJob
    <3>1. job \in [Actors -> JobType]
      BY JobsTyped DEF SharedInv
    <3> QED BY <3>1, <2>2, <1>2
  <2> QED BY <2>1, <2>2, <2>3, Takes
<1>5. UserLine' /\ CursorLine'
  <2>1. ASSUME NEW g \in Files, g # f \/ h # "reader" PROVE Kept(g)
    <3>1. /\ Landed(g)' = Landed(g) /\ job'[<<g, "reader">>] = job[<<g, "reader">>]
      BY <2>1, <1>4
    <3>2. h = "reader" => g # f
      BY <2>1
    <3> HIDE DEF Landed
    <3> QED BY <3>1, <3>2, <1>1 DEF Kept, SharedInv, Bounded
  <2>2. CASE h = "reader"
    <3>1. UserAt(f)' /\ CursorAt(f)'
      <4> HIDE DEF Landed
      <4> QED BY <2>2, <1>1, <1>4 DEF UserAt, CursorAt, SharedInv, Bounded
    <3>2. \A g \in Files \ {f} : Kept(g)
      BY <2>1
    <3> QED BY <3>1, <3>2, OtherReadersKept DEF SharedInv
  <2>3. CASE h = "owner"
    <3>1. \A g \in Files : Kept(g)
      BY <2>1, <2>3
    <3> QED BY <3>1, ReadersKept DEF SharedInv
  <2> QED BY <2>2, <2>3 DEF Half
<1>6. Bounded'
  <2>1. user' \in [Files -> {"idle", "read", "preseek", "seek", "dropped", "overflow",
                             "unreachable"}] /\ failed' \subseteq Files
    BY <1>1 DEF SharedInv, Bounded
  <2> QED BY <2>1, <1>1, <1>3, <1>4 DEF SharedInv, Bounded, JobType, RespType
<1> QED BY <1>4, <1>5, <1>6 DEF SharedInv

LEMMA OwnerReceived ==
    ASSUME SharedInv, NEW f \in Files, ReceiveOwner(f)
    PROVE  SharedInv'
<1> DEFINE a == <<f, "owner">>
<1>1. /\ Respond(a) /\ job' = [job EXCEPT ![a] = NoJob] /\ mutex' = Tail(mutex)
      /\ UNCHANGED <<requests, package_number, opened, position, user, arg, cursor, started,
                     failed, abandoned>>
  BY DEF ReceiveOwner, Ready, devVars, histVars
<1>2. handle' \in [Files -> {"none", "split", "spent"}]
  BY DEF ReceiveOwner, SharedInv, Bounded
<1>3. mutex' \in Seq(Actors)
  BY <1>1, ReaderOwner, TakenAnswer DEF SharedInv
<1>4. /\ job' \in [Actors -> JobType] /\ JobsOK' /\ OneOutstanding'
      /\ responses' \in Seq(RespType)
      /\ \A g \in Files : Landed(g)' = 0
      /\ \A g \in Files :
            Landed(g) = 0 /\ job'[<<g, "reader">>] = job[<<g, "reader">>]
  <2>1. "owner" \in Half
    BY DEF Half
  <2> QED BY <2>1, <1>1, NoJobIs, Takes
<1>5. UserLine' /\ CursorLine'
  <2>1. \A g \in Files : Kept(g)
    <3> HIDE DEF Landed
    <3> QED BY <1>1, <1>4 DEF Kept
  <2> QED BY <2>1, ReadersKept DEF SharedInv
<1>6. Bounded'
  BY <1>1, <1>2, <1>3, <1>4 DEF SharedInv, Bounded, JobType, RespType
<1> QED BY <1>4, <1>5, <1>6 DEF SharedInv

\* A full chunk moves from what is wanted to what is collected.
LEMMA ChunkMoves ==
    ASSUME NEW left \in Nat, NEW got \in Nat, NEW max \in Nat, NEW chunk \in Nat,
           left > chunk, left + got <= max
    PROVE  /\ got + chunk \in 0 .. max /\ left - chunk \in 0 .. max
           /\ (left - chunk) + (got + chunk) = left + got
  OBVIOUS

\* Bytes come in: the read goes on, or is done and they are given to the user.
LEMMA BytesReceived ==
    ASSUME SharedInv, NEW f \in Files, ReceiveBytes(f)
    PROVE  SharedInv'
<1> DEFINE a == <<f, "reader">>
           r == Head(responses)
           j == [job[a] EXCEPT !.got = @ + r.len, !.left = @ - Chunk, !.at = "send"]
<1>1. /\ Respond(a) /\ r.status = "ok" /\ job[a].op = "Read"
      /\ UNCHANGED <<requests, package_number, opened, position, started, abandoned>>
  BY DEF ReceiveBytes, devVars
<1>2. a \in Actors /\ job \in [Actors -> JobType] /\ job[a] \in JobType /\ "reader" \in Half
  BY JobsTyped, ReaderOwner DEF SharedInv, Half
<1>3. /\ Waiting(a) /\ Answers(r, a) /\ r.len \in 0 .. Chunk /\ Tail(mutex) \in Seq(Actors)
      /\ r = responses[1] /\ responses # <<>>
  BY <1>1, <1>2, TakenAnswer DEF SharedInv, Respond
<1>4. /\ job[a].at = "recv" /\ r.len <= Least(job[a].left, Chunk)
  BY <1>1, <1>3 DEF Waiting, Answers
<1>5. Landed(f) = r.len
  BY <1>1, <1>3, <1>4 DEF Landed
<1>6. /\ job[a].left \in 0 .. MaxRead /\ job[a].got \in 0 .. MaxRead
      /\ job[a].left + job[a].got <= MaxRead /\ Chunk \in Nat \ {0} /\ MaxRead \in Nat
  BY <1>2, SizesAssumption DEF JobType, SharedInv, JobsOK
<1>7. f \notin failed /\ user[f] \notin Panicked \cup {"dropped"}
        => cursor[f] + job[a].got + r.len = position[f]
  <2>1. CursorAt(f)
    BY DEF SharedInv, CursorLine
  <2> HIDE DEF Landed, r
  <2> QED BY <2>1, <1>1, <1>5 DEF CursorAt
<1>8. user[f] \in {"read", "preseek", "seek"}
  BY <1>1, ReaderOwner DEF Respond, Polled
<1> HIDE DEF r
<1>9. CASE r.len < Least(job[a].left, Chunk) \/ job[a].left <= Chunk
  <2>1. DeliverBytes(f, job[a].got + r.len)
    BY <1>9 DEF ReceiveBytes, r
  <2>2. job' = [job EXCEPT ![a] = NoJob] /\ mutex' = Tail(mutex) /\ UNCHANGED <<arg, handle, failed>>
    BY <2>1 DEF DeliverBytes, Ready
  <2>3. /\ job' \in [Actors -> JobType] /\ JobsOK' /\ OneOutstanding'
        /\ responses' \in Seq(RespType) /\ job'[a] = NoJob
        /\ \A g \in Files : Landed(g)' = 0
        /\ \A g \in Files : g # f
              => Landed(g) = 0 /\ job'[<<g, "reader">>] = job[<<g, "reader">>]
    <3>1. /\ NoJob \in JobType /\ NoJob.at = "send" /\ NoJob.op \in OpsOf("reader")
          /\ NoJob.left + NoJob.got <= MaxRead
      BY NoJobIs, <1>2
    <3> QED BY <3>1, <2>2, <1>1, <1>2, Takes
  <2>4. job[a].got + r.len <= job[a].got + job[a].left /\ r.len \in Nat
    BY <1>3, <1>4, <1>6 DEF Least
  <2>5. CASE user[f] = "read" /\ job[a].got + r.len <= arg[f]
    <3>1. /\ user' = [user EXCEPT ![f] = "idle"]
          /\ cursor' = IF f \in failed THEN cursor
                       ELSE [cursor EXCEPT ![f] = cursor[f] + (job[a].got + r.len)]
      BY <2>1, <2>5 DEF DeliverBytes
    <3>2. f \notin failed => cursor[f] + (job[a].got + r.len) = position[f]
      <4>1. cursor[f] \in Nat
        BY SizesAssumption DEF SharedInv, Bounded
      <4> QED BY <4>1, <2>4, <2>5, <1>6, <1>7 DEF Panicked
    <3>3. cursor' \in [Files -> 0 .. (Size + 1)] /\ (f \notin failed => cursor'[f] = position[f])
      BY <3>1, <3>2 DEF SharedInv, Bounded
    <3>4. UserAt(f)' /\ CursorAt(f)'
      <4>1. user'[f] = "idle"
        BY <3>1 DEF SharedInv, Bounded
      <4> HIDE DEF Landed
      <4> QED BY <4>1, <3>3, <2>2, <2>3, <1>1, NoJobIs DEF UserAt, CursorAt
    <3>5. \A g \in Files \ {f} : Kept(g)
      <4>1. \A g \in Files \ {f} : user'[g] = user[g] /\ cursor'[g] = cursor[g]
        BY <3>1 DEF SharedInv, Bounded
      <4> HIDE DEF Landed
      <4> QED BY <4>1, <2>2, <2>3, <1>1 DEF Kept
    <3>6. UserLine' /\ CursorLine'
      BY <3>4, <3>5, OtherReadersKept DEF SharedInv
    <3>7. Bounded'
      <4>1. user' \in [Files -> {"idle", "read", "preseek", "seek", "dropped", "overflow",
                                 "unreachable"}]
        BY <3>1 DEF SharedInv, Bounded
      <4> QED BY <4>1, <3>3, <2>2, <2>3, <1>1, <1>3 DEF SharedInv, Bounded, JobType, RespType
    <3> QED BY <3>6, <3>7, <2>3 DEF SharedInv
  <2>6. CASE ~(user[f] = "read" /\ job[a].got + r.len <= arg[f])
    <3>1. /\ user' = [user EXCEPT ![f] = IF user[f] = "read" THEN "overflow" ELSE "unreachable"]
          /\ cursor' = cursor
      BY <2>1, <2>6 DEF DeliverBytes, Panic
    <3>2. f \in abandoned
      <4>1. UserAt(f)
        BY DEF SharedInv, UserLine
      <4>2. arg[f] \in Nat
        BY SizesAssumption DEF SharedInv, Bounded
      <4>3. f \notin abandoned => user[f] = "read" /\ job[a].left + job[a].got <= arg[f]
        BY <4>1, <1>1, <1>8 DEF UserAt
      <4> QED BY <4>2, <4>3, <2>4, <2>6, <1>6
    <3>3. user'[f] \in Panicked
      BY <3>1 DEF SharedInv, Bounded, Panicked
    <3>4. UserAt(f)' /\ CursorAt(f)'
      <4> HIDE DEF Landed
      <4> QED BY <3>2, <3>3, <1>1 DEF UserAt, CursorAt, Panicked
    <3>5. \A g \in Files \ {f} : Kept(g)
      <4>1. \A g \in Files \ {f} : user'[g] = user[g]
        BY <3>1 DEF SharedInv, Bounded
      <4> HIDE DEF Landed
      <4> QED BY <4>1, <3>1, <2>2, <2>3, <1>1 DEF Kept
    <3>6. UserLine' /\ CursorLine'
      BY <3>4, <3>5, OtherReadersKept DEF SharedInv
    <3>7. Bounded'
      <4>1. user' \in [Files -> {"idle", "read", "preseek", "seek", "dropped", "overflow",
                                 "unreachable"}]
        BY <3>1 DEF SharedInv, Bounded
      <4> QED BY <4>1, <3>1, <2>2, <2>3, <1>1, <1>3 DEF SharedInv, Bounded, JobType, RespType
    <3> QED BY <3>6, <3>7, <2>3 DEF SharedInv
  <2> QED BY <2>5, <2>6
<1>10. CASE ~(r.len < Least(job[a].left, Chunk) \/ job[a].left <= Chunk)
  <2>1. r.len = Chunk /\ job[a].left > Chunk
    BY <1>10, <1>3, <1>4, <1>6 DEF Least
  <2>2. /\ job' = [job EXCEPT ![a] = j]
        /\ UNCHANGED <<mutex, user, arg, cursor, handle, failed>>
    BY <1>10 DEF ReceiveBytes, GoOn, r
  <2>3. /\ j \in JobType /\ j.at = "send" /\ j.op = "Read" /\ j.left + j.got <= MaxRead
        /\ j.got = job[a].got + r.len /\ j.left + j.got = job[a].left + job[a].got
    <3>1. /\ job[a].got + r.len \in 0 .. MaxRead /\ job[a].left - Chunk \in 0 .. MaxRead
          /\ (job[a].left - Chunk) + (job[a].got + r.len) = job[a].left + job[a].got
      <4>1. job[a].left \in Nat /\ job[a].got \in Nat /\ Chunk \in Nat
        BY <1>6
      <4>2. /\ job[a].got + Chunk \in 0 .. MaxRead /\ job[a].left - Chunk \in 0 .. MaxRead
            /\ (job[a].left - Chunk) + (job[a].got + Chunk) = job[a].left + job[a].got
        BY <4>1, <2>1, <1>6, ChunkMoves
      <4> QED BY <4>2, <2>1
    <3>2. /\ j \in JobType /\ j.at = "send" /\ j.op = job[a].op /\ j.left = job[a].left - Chunk
          /\ j.got = job[a].got + r.len
      BY <3>1, <1>2 DEF JobType
    <3> HIDE DEF j
    <3> QED BY <3>1, <3>2, <1>1, <1>6
  <2> HIDE DEF j
  <2>4. /\ job' \in [Actors -> JobType] /\ JobsOK' /\ OneOutstanding'
        /\ responses' \in Seq(RespType) /\ job'[a] = j
        /\ \A g \in Files : Landed(g)' = 0
        /\ \A g \in Files : g # f
              => Landed(g) = 0 /\ job'[<<g, "reader">>] = job[<<g, "reader">>]
    <3>1. j.op \in OpsOf("reader") /\ j.op # "none"
      BY <2>3 DEF OpsOf, ReaderOps
    <3> QED BY <3>1, <2>2, <2>3, <1>1, <1>2, Takes
  <2>5. UserAt(f)' /\ CursorAt(f)'
    <3>1. UserAt(f)
      BY DEF SharedInv, UserLine
    <3>2. UserAt(f)'
      BY <3>1, <2>2, <2>3, <2>4, <1>1, <1>8 DEF UserAt
    <3>3. cursor[f] \in Nat /\ r.len \in Nat
      <4>1. cursor[f] \in Nat
        BY SizesAssumption DEF SharedInv, Bounded
      <4> QED BY <4>1, <1>3, <1>6
    <3>4. CursorAt(f)'
      <4> HIDE DEF Landed
      <4> QED BY <3>3, <2>2, <2>3, <2>4, <1>1, <1>6, <1>7 DEF CursorAt
    <3> QED BY <3>2, <3>4
  <2>6. \A g \in Files \ {f} : Kept(g)
    <3> HIDE DEF Landed
    <3> QED BY <2>2, <2>4, <1>1 DEF Kept
  <2>7. UserLine' /\ CursorLine'
    BY <2>5, <2>6, OtherReadersKept DEF SharedInv
  <2>8. Bounded'
    BY <2>2, <2>4, <1>1 DEF SharedInv, Bounded, JobType, RespType
  <2> QED BY <2>4, <2>7, <2>8 DEF SharedInv
<1> QED BY <1>9, <1>10

LEMMA SeekReceived ==
    ASSUME SharedInv, NEW f \in Files, ReceiveSeek(f)
    PROVE  SharedInv'
<1> DEFINE a == <<f, "reader">>
           j == [job[a] EXCEPT !.op = "FileTell", !.at = "send"]
<1>1. /\ Respond(a) /\ job[a].op = "FileSeek" /\ job' = [job EXCEPT ![a] = j]
      /\ UNCHANGED <<mutex, requests, package_number, opened, position, user, arg, cursor, handle,
                     started, failed, abandoned>>
  BY DEF ReceiveSeek, GoOn, devVars
<1>2. a \in Actors /\ job \in [Actors -> JobType] /\ job[a] \in JobType /\ "reader" \in Half
  BY JobsTyped, ReaderOwner DEF SharedInv, Half
<1>3. /\ j \in JobType /\ j.at = "send" /\ j.op = "FileTell" /\ j.left = job[a].left
      /\ j.got = job[a].got
  BY <1>2 DEF JobType, Ops
<1> HIDE DEF j
<1>4. j.left + j.got <= MaxRead /\ j.op \in OpsOf("reader") /\ j.op # "none"
  BY <1>2, <1>3 DEF SharedInv, JobsOK, OpsOf, ReaderOps
<1>5. /\ job' \in [Actors -> JobType] /\ JobsOK' /\ OneOutstanding'
      /\ responses' \in Seq(RespType)
      /\ \A g \in Files : Landed(g)' = 0
      /\ \A g \in Files : g # f
            => Landed(g) = 0 /\ job'[<<g, "reader">>] = job[<<g, "reader">>]
  BY <1>1, <1>2, <1>3, <1>4, Takes
<1>6. job'[a] = j
  BY <1>1, <1>2
<1>7. UserAt(f)' /\ CursorAt(f)'
  <2>1. UserAt(f) /\ user[f] \in {"read", "preseek", "seek"}
    BY <1>1, ReaderOwner DEF SharedInv, UserLine, Respond, Polled
  <2> HIDE DEF Landed
  <2> QED BY <2>1, <1>1, <1>3, <1>6 DEF UserAt, CursorAt
<1>8. \A g \in Files \ {f} : Kept(g)
  <2> HIDE DEF Landed
  <2> QED BY <1>1, <1>5 DEF Kept
<1>9. UserLine' /\ CursorLine'
  BY <1>7, <1>8, OtherReadersKept DEF SharedInv
<1>10. Bounded'
  BY <1>1, <1>5 DEF SharedInv, Bounded, JobType, RespType
<1> QED BY <1>5, <1>9, <1>10 DEF SharedInv

LEMMA TellReceived ==
    ASSUME SharedInv, NEW f \in Files, ReceiveTell(f)
    PROVE  SharedInv'
<1> DEFINE a == <<f, "reader">>
           r == Head(responses)
<1>1. /\ Respond(a) /\ r.status = "ok" /\ job[a].op = "FileTell"
      /\ IF HasWord(r) THEN DeliverPosition(f, r.pos) ELSE DeliverError(a)
      /\ UNCHANGED <<requests, package_number, opened, position, started, abandoned>>
  BY DEF ReceiveTell, devVars
<1>2. a \in Actors /\ job \in [Actors -> JobType] /\ job[a] \in JobType /\ "reader" \in Half
  BY JobsTyped, ReaderOwner DEF SharedInv, Half
<1>3. /\ Answers(r, a) /\ r.pos \in 0 .. (Size + 1) /\ Tail(mutex) \in Seq(Actors)
  BY <1>1, <1>2, TakenAnswer DEF SharedInv
<1>4. r.op = "FileTell" /\ r.len = 0 /\ r.pos = position[f]
  BY <1>1, <1>3, ReaderOwner DEF Answers
<1>5. DeliverPosition(f, r.pos)
  BY <1>1, <1>4 DEF HasWord
<1> HIDE DEF r
<1>6. failed' = failed \ {f} /\ UNCHANGED <<arg, handle>>
  BY <1>5 DEF DeliverPosition
<1>7. CASE user[f] = "preseek"
  <2> DEFINE j == Job("FileSeek", 0, arg[f])
  <2>1. /\ user' = [user EXCEPT ![f] = "seek"] /\ cursor' = [cursor EXCEPT ![f] = r.pos]
        /\ job' = [job EXCEPT ![a] = j] /\ mutex' = Append(Tail(mutex), a)
    BY <1>5, <1>7 DEF DeliverPosition
  <2>2. f \in abandoned /\ arg[f] \in 0 .. (Size + 1)
    <3>1. UserAt(f) /\ arg[f] \in Nat
      BY SizesAssumption DEF SharedInv, UserLine, Bounded
    <3> QED BY <3>1, <1>7, SizesAssumption DEF UserAt
  <2>3. /\ j \in JobType /\ j.at = "send" /\ j.op = "FileSeek" /\ j.left = 0 /\ j.got = 0
    <3>1. "FileSeek" \in Ops /\ 0 \in 0 .. MaxRead
      BY SizesAssumption DEF Ops
    <3> QED BY <3>1, <2>2, NewJob
  <2> HIDE DEF j
  <2>4. j.left + j.got <= MaxRead /\ j.op \in OpsOf("reader") /\ j.op # "none"
    BY <2>3, SizesAssumption DEF OpsOf, ReaderOps
  <2>5. /\ job' \in [Actors -> JobType] /\ JobsOK' /\ OneOutstanding'
        /\ responses' \in Seq(RespType)
        /\ \A g \in Files : Landed(g)' = 0
        /\ \A g \in Files : g # f
              => Landed(g) = 0 /\ job'[<<g, "reader">>] = job[<<g, "reader">>]
    BY <2>1, <2>3, <2>4, <1>1, <1>2, Takes
  <2>6. job'[a] = j /\ mutex' \in Seq(Actors)
    BY <2>1, <1>2, <1>3, QueueGrows
  <2>7. user'[f] = "seek" /\ \A g \in Files \ {f} : user'[g] = user[g] /\ cursor'[g] = cursor[g]
    BY <2>1 DEF SharedInv, Bounded
  <2>8. UserAt(f)' /\ CursorAt(f)'
    <3> HIDE DEF Landed
    <3> QED BY <2>2, <2>3, <2>6, <2>7, <1>1 DEF UserAt, CursorAt
  <2>9. \A g \in Files \ {f} : Kept(g)
    <3> HIDE DEF Landed
    <3> QED BY <2>5, <2>7, <1>1, <1>6 DEF Kept
  <2>10. UserLine' /\ CursorLine'
    BY <2>8, <2>9, OtherReadersKept DEF SharedInv
  <2>11. Bounded'
    <3>1. /\ user' \in [Files -> {"idle", "read", "preseek", "seek", "dropped", "overflow",
                                  "unreachable"}]
          /\ cursor' \in [Files -> 0 .. (Size + 1)] /\ failed' \subseteq Files
      BY <2>1, <1>3, <1>6 DEF SharedInv, Bounded
    <3> QED BY <3>1, <2>5, <2>6, <1>1, <1>6 DEF SharedInv, Bounded, JobType, RespType
  <2> QED BY <2>5, <2>10, <2>11 DEF SharedInv
<1>8. CASE user[f] # "preseek"
  <2>1. /\ job' = [job EXCEPT ![a] = NoJob] /\ mutex' = Tail(mutex)
    BY <1>5, <1>8 DEF DeliverPosition, Ready
  <2>2. \/ /\ user[f] = "seek" /\ user' = [user EXCEPT ![f] = "idle"]
           /\ cursor' = [cursor EXCEPT ![f] = position[f]]
        \/ user[f] = "read" /\ user' = [user EXCEPT ![f] = "unreachable"] /\ cursor' = cursor
    BY <1>4, <1>5, <1>8 DEF DeliverPosition, Panic
  <2>3. /\ job' \in [Actors -> JobType] /\ JobsOK' /\ OneOutstanding'
        /\ responses' \in Seq(RespType)
        /\ \A g \in Files : Landed(g)' = 0
        /\ \A g \in Files : g # f
              => Landed(g) = 0 /\ job'[<<g, "reader">>] = job[<<g, "reader">>]
    <3>1. /\ NoJob \in JobType /\ NoJob.at = "send" /\ NoJob.op \in OpsOf("reader")
          /\ NoJob.left + NoJob.got <= MaxRead
      BY NoJobIs, <1>2
    <3> QED BY <3>1, <2>1, <1>1, <1>2, Takes
  <2>4. job'[a] = NoJob
    BY <2>1, <1>2
  <2>5. \A g \in Files \ {f} : user'[g] = user[g] /\ cursor'[g] = cursor[g]
    BY <2>2 DEF SharedInv, Bounded
  <2>6. UserAt(f)' /\ CursorAt(f)'
    <3>1. UserAt(f)
      BY DEF SharedInv, UserLine
    <3>2. CASE user[f] = "seek"
      <4>1. user'[f] = "idle" /\ cursor'[f] = position[f]
        BY <3>2, <2>2 DEF SharedInv, Bounded
      <4> HIDE DEF Landed
      <4> QED BY <4>1, <2>3, <2>4, <1>1, NoJobIs DEF UserAt, CursorAt
    <3>3. CASE user[f] = "read"
      <4>1. user'[f] = "unreachable" /\ f \in abandoned
        BY <3>1, <3>3, <2>2, <1>1 DEF SharedInv, Bounded, UserAt
      <4> HIDE DEF Landed
      <4> QED BY <4>1, <1>1 DEF UserAt, CursorAt, Panicked
    <3> QED BY <3>2, <3>3, <2>2
  <2>7. \A g \in Files \ {f} : Kept(g)
    <3> HIDE DEF Landed
    <3> QED BY <2>3, <2>5, <1>1, <1>6 DEF Kept
  <2>8. UserLine' /\ CursorLine'
    BY <2>6, <2>7, OtherReadersKept DEF SharedInv
  <2>9. Bounded'
    <3>1. /\ user' \in [Files -> {"idle", "read", "preseek", "seek", "dropped", "overflow",
                                  "unreachable"}]
          /\ cursor' \in [Files -> 0 .. (Size + 1)] /\ failed' \subseteq Files
      BY <2>2, <1>6 DEF SharedInv, Bounded
    <3> QED BY <3>1, <2>1, <2>3, <1>1, <1>3, <1>6 DEF SharedInv, Bounded, JobType, RespType
  <2> QED BY <2>3, <2>8, <2>9 DEF SharedInv
<1> QED BY <1>7, <1>8

\* The device finds the request of the future that waits.
LEMMA DeviceFinds ==
    ASSUME SharedInv, requests # <<>>
    PROVE  /\ Head(requests) \in ReqType /\ Tail(requests) = <<>> /\ responses = <<>>
           /\ \E f \in Files, h \in Half :
                 Waiting(<<f, h>>) /\ IsRequestOf(Head(requests), <<f, h>>)
<1>1. PICK a \in Actors : Waiting(a)
  BY DEF SharedInv, OneOutstanding, Quiet
<1>2. Len(requests) = 1 /\ IsRequestOf(requests[1], a) /\ responses = <<>>
  BY <1>1 DEF Waiting
<1>3. Head(requests) \in ReqType /\ Head(requests) = requests[1] /\ Tail(requests) = <<>>
  <2>1. requests \in Seq(ReqType)
    BY DEF SharedInv, Bounded, ReqType
  <2> QED BY <2>1, <1>2, QueueShrinks
<1>4. PICK f \in Files, h \in Half : a = <<f, h>>
  BY DEF Actors
<1> QED BY <1>1, <1>2, <1>3, <1>4

\* Where the device's cursor may go when it answers q.
Moved(q, status, n) ==
    /\ \A g \in Files : g # q.file => position'[g] = position[g]
    /\ q.op = "Read" => position'[q.file] = position[q.file] + IF status = "ok" THEN n ELSE 0
    /\ q.op \notin {"Read", "FileSeek"} => position'[q.file] = position[q.file]

LEMMA DeviceAnswered ==
    ASSUME SharedInv, requests # <<>>,
           NEW status \in {"ok", "error"}, NEW n \in 0 .. Chunk, NEW p \in 0 .. (Size + 1),
           Answer(Head(requests), status, n, p), Moved(Head(requests), status, n),
           position' \in [Files -> 0 .. (Size + 1)], opened' \subseteq Files,
           status = "ok" /\ Head(requests).op = "Read" => n <= Head(requests).n,
           status = "ok" /\ Head(requests).op = "FileTell"
              => p = position'[Head(requests).file] /\ n = 0
    PROVE  SharedInv'
<1> DEFINE q == Head(requests)
           r == [op |-> q.op, num |-> q.num, status |-> status, len |-> n, pos |-> p]
<1>1. /\ q \in ReqType /\ Tail(requests) = <<>> /\ responses = <<>>
  BY DeviceFinds
<1>2. PICK f \in Files, h \in Half : Waiting(<<f, h>>) /\ IsRequestOf(q, <<f, h>>)
  BY DeviceFinds
<1> DEFINE a == <<f, h>>
<1>3. /\ requests' = <<>> /\ responses' = Append(<<>>, r)
      /\ UNCHANGED <<package_number, mutex, job, user, arg, cursor, handle, started, failed,
                     abandoned>>
  BY <1>1 DEF Answer, userVars, histVars
<1>4. r \in RespType
  BY <1>1 DEF ReqType, RespType
<1>5. /\ responses' \in Seq(RespType) /\ Len(responses') = 1 /\ responses'[1] = r
      /\ responses' # <<>> /\ Head(responses') = r
  BY <1>3, <1>4, FirstIn
<1>6. /\ q.op = job[a].op /\ q.file = f /\ q.num = job[a].num /\ q.n = Least(job[a].left, Chunk)
  BY <1>2 DEF IsRequestOf
<1>7. /\ r.op = q.op /\ r.num = q.num /\ r.status = status /\ r.len = n /\ r.pos = p
  OBVIOUS
<1> HIDE DEF r
<1>8. OneOutstanding'
  <2>1. Answers(responses[1], a)'
    BY <1>3, <1>5, <1>6, <1>7, ReaderOwner DEF Answers
  <2>2. Waiting(a)'
    BY <2>1, <1>2, <1>3, <1>5 DEF Waiting, Holds
  <2>3. a \in Actors
    BY DEF Actors
  <2> QED BY <2>2, <2>3 DEF OneOutstanding
<1>9. ASSUME NEW g \in Files PROVE UserAt(g)' /\ CursorAt(g)'
  <2>1. UserAt(g) /\ CursorAt(g) /\ cursor[g] \in Nat /\ position[g] \in Nat
    BY SizesAssumption DEF SharedInv, UserLine, CursorLine, Bounded
  <2>2. UserAt(g)'
    BY <2>1, <1>3 DEF UserAt
  <2>3. Landed(g) = 0
    BY <1>1 DEF Landed
  <2>4. CASE g = f /\ h = "reader"
    <3>1. job[<<g, "reader">>].at = "recv" /\ job[<<g, "reader">>].op = q.op /\ q.op # "none"
      BY <2>4, <1>2, <1>6 DEF Waiting
    <3>2. Landed(g)' = IF status = "ok" THEN n ELSE 0
      BY <3>1, <1>3, <1>5, <1>7 DEF Landed
    <3>3. q.op = "Read" => position'[g] = position[g] + IF status = "ok" THEN n ELSE 0
      BY <2>4, <1>6 DEF Moved
    <3>4. n \in Nat /\ job[<<g, "reader">>].got \in Nat
      <4>1. <<g, "reader">> \in Actors /\ job \in [Actors -> JobType]
        BY ReaderOwner, JobsTyped DEF SharedInv
      <4> QED BY <4>1, SizesAssumption DEF JobType
    <3> HIDE DEF Landed, q
    <3>5. CursorAt(g)'
      BY <3>1, <3>2, <3>3, <3>4, <2>1, <2>3, <1>3 DEF CursorAt
    <3> QED BY <2>2, <3>5
  <2>5. CASE ~(g = f /\ h = "reader")
    <3>1. job[<<g, "reader">>].at # "recv"
      BY <2>5, <1>2, ReaderOwner DEF Waiting
    <3>2. Landed(g)' = 0
      BY <3>1, <1>3 DEF Landed
    <3>3. position'[g] = position[g]
      <4>1. CASE g # f
        BY <4>1, <1>6 DEF Moved
      <4>2. CASE g = f
        <5>1. h = "owner"
          BY <4>2, <2>5 DEF Half
        <5>2. q.op \in OwnerOps
          BY <5>1, <1>6 DEF SharedInv, JobsOK
        <5> QED BY <5>2, <4>2, <1>6 DEF OwnerOps, Moved
      <4> QED BY <4>1, <4>2
    <3> HIDE DEF Landed
    <3>4. CursorAt(g)'
      BY <3>2, <3>3, <2>1, <2>3, <1>3 DEF CursorAt
    <3> QED BY <2>2, <3>4
  <2> QED BY <2>4, <2>5
<1>10. UserLine' /\ CursorLine'
  BY <1>9 DEF UserLine, CursorLine
<1>11. JobsOK'
  BY <1>3 DEF SharedInv, JobsOK
<1>12. Bounded'
  <2>1. requests' \in Seq(ReqType)
    BY <1>3, EmptySeq
  <2> QED BY <2>1, <1>3, <1>5 DEF SharedInv, Bounded, ReqType, RespType
<1> QED BY <1>8, <1>10, <1>11, <1>12 DEF SharedInv

LEMMA DeviceStep ==
    ASSUME SharedInv, Device
    PROVE  SharedInv'
<1> DEFINE q == Head(requests)
<1>1. /\ requests # <<>> /\ 0 \in 0 .. Chunk /\ 0 \in 0 .. (Size + 1)
      /\ position \in [Files -> 0 .. (Size + 1)] /\ opened \subseteq Files
  <2>1. requests # <<>>
    BY DEF Device, DeviceRefuses, DeviceServes
  <2>2. 0 \in 0 .. Chunk /\ 0 \in 0 .. (Size + 1)
    BY SizesAssumption
  <2> QED BY <2>1, <2>2 DEF SharedInv, Bounded
<1>2. q \in ReqType /\ q.file \in Files /\ q.n \in 0 .. Chunk /\ q.to \in 0 .. (Size + 1)
  BY <1>1, DeviceFinds DEF ReqType
<1>3. CASE DeviceRefuses
  <2>1. Answer(q, "error", 0, 0) /\ UNCHANGED <<opened, position>>
    BY <1>3 DEF DeviceRefuses, devVars
  <2>2. Moved(q, "error", 0)
    BY <2>1, <1>1, <1>2 DEF Moved
  <2> QED BY <2>1, <2>2, <1>1, DeviceAnswered
<1>4. CASE DeviceServes
  <2>1. CASE q.op = "Read"
    <3>1. PICK n \in 0 .. q.n : /\ n = 0 \/ position[q.file] + n <= Size
                                /\ position' = [position EXCEPT ![q.file] = @ + n]
                                /\ Answer(q, "ok", n, 0) /\ UNCHANGED opened
      BY <2>1, <1>4 DEF DeviceServes
    <3>2. n \in 0 .. Chunk /\ n <= q.n /\ position[q.file] + n \in 0 .. (Size + 1)
      <4>1. position[q.file] \in 0 .. (Size + 1) /\ Size \in Nat /\ Chunk \in Nat
        BY <1>1, <1>2, SizesAssumption
      <4> HIDE DEF q
      <4> QED BY <4>1, <3>1, <1>2
    <3>3. position' \in [Files -> 0 .. (Size + 1)]
      BY <3>1, <3>2, <1>1, <1>2
    <3>4. Moved(q, "ok", n)
      BY <3>1, <2>1, <1>1, <1>2 DEF Moved
    <3> QED BY <3>1, <3>2, <3>3, <3>4, <2>1, <1>1, DeviceAnswered
  <2>2. CASE q.op = "FileSeek"
    <3>1. /\ position' = [position EXCEPT ![q.file] = q.to]
          /\ Answer(q, "ok", 0, 0) /\ UNCHANGED opened
      BY <2>2, <1>4 DEF DeviceServes
    <3>2. position' \in [Files -> 0 .. (Size + 1)] /\ Moved(q, "ok", 0)
      BY <3>1, <2>2, <1>1, <1>2 DEF Moved
    <3> QED BY <3>1, <3>2, <2>2, <1>1, DeviceAnswered
  <2>3. CASE q.op = "FileTell"
    <3>1. Answer(q, "ok", 0, position[q.file]) /\ UNCHANGED <<opened, position>>
      BY <2>3, <1>4 DEF DeviceServes, devVars
    <3>2. Moved(q, "ok", 0) /\ position[q.file] \in 0 .. (Size + 1)
      BY <3>1, <2>3, <1>1, <1>2 DEF Moved
    <3> QED BY <3>1, <3>2, <2>3, <1>1, DeviceAnswered
  <2>5. CASE q.op = "Other"
    <3>1. PICK n \in {0, Chunk} : Answer(q, "ok", n, 0) /\ UNCHANGED <<opened, position>>
      BY <2>5, <1>4 DEF DeviceServes, devVars
    <3>2. Moved(q, "ok", n) /\ n \in 0 .. Chunk
      BY <3>1, <2>5, <1>1, <1>2, SizesAssumption DEF Moved
    <3> QED BY <3>1, <3>2, <2>5, <1>1, DeviceAnswered
  <2>4. CASE q.op \in {"FileOpen", "FileClose"}
    <3>1. Answer(q, "ok", 0, 0) /\ UNCHANGED position /\ opened' \subseteq Files
      BY <2>4, <1>1, <1>2, <1>4 DEF DeviceServes
    <3>2. Moved(q, "ok", 0)
      BY <3>1, <2>4, <1>1, <1>2 DEF Moved
    <3> QED BY <3>1, <3>2, <2>4, <1>1, DeviceAnswered
  <2> QED BY <2>1, <2>2, <2>3, <2>4, <2>5, <1>4 DEF DeviceServes
<1> QED BY <1>3, <1>4 DEF Device

-----------------------------------------------------------------------------
(* With drops: the connection is behind by one response for each. *)

\* The packets on the wire are the last ones numbered; a future that waits holds the guard.
Outstanding == Len(responses) + Len(requests)
Waits == \E a \in Actors : job[a].at = "recv"
Lag ==
    /\ \A a \in Actors : job[a].at = "recv" => Holds(a) /\ job[a].num + 1 = package_number
    /\ Outstanding = orphans + (IF Waits THEN 1 ELSE 0)
    /\ \A i \in 1 .. Len(responses) : responses[i].num + Outstanding + 1 = package_number + i
    /\ \A i \in 1 .. Len(requests) : requests[i].num + Len(requests) + 1 = package_number + i

LagInv == TypeOK /\ Lag

LEMMA FutureTyped ==
    ASSUME NEW op \in Ops, NEW n \in Nat, NEW p \in Nat
    PROVE  /\ Job(op, n, p) \in Future /\ Job(op, n, p).at = "send"
           /\ NoJob \in Future /\ NoJob.at = "send"
<1>1. /\ Job(op, n, p) = [op |-> op, at |-> "send", left |-> n, got |-> 0, num |-> 0, to |-> p]
      /\ NoJob = [op |-> "none", at |-> "send", left |-> 0, got |-> 0, num |-> 0, to |-> 0]
  BY DEF Job, NoJob
<1> QED BY <1>1 DEF Future, Ops

\* A step of futures that do not wait.
LEMMA LagKept ==
    ASSUME Lag, UNCHANGED <<requests, responses, package_number, orphans>>,
           \A b \in Actors : job[b].at = "recv" => job'[b] = job[b] /\ Holds(b)',
           \A b \in Actors : job'[b].at = "recv" => job[b].at = "recv"
    PROVE  Lag'
<1>1. Waits' <=> Waits
  BY DEF Waits
<1>2. Outstanding' = Outstanding
  BY DEF Outstanding
<1> QED BY <1>1, <1>2 DEF Lag

\* A future that waits is alone in it.
LEMMA LagAlone ==
    ASSUME Lag, NEW a \in Actors, Holds(a)
    PROVE  \A b \in Actors : job[b].at = "recv" => b = a
  BY DEF Lag, Holds

\* A new future joins the queue.
LEMMA LagLaunch ==
    ASSUME LagInv, NEW a \in Actors, NEW j \in Future, j.at = "send", job[a].at = "send",
           Launch(a, j), UNCHANGED <<requests, responses, package_number, orphans>>
    PROVE  /\ mutex' \in Seq(Actors) /\ job' \in [Actors -> Future]
           /\ Lag'
<1>1. /\ mutex \in Seq(Actors) /\ job \in [Actors -> Future]
      /\ job' = [job EXCEPT ![a] = j] /\ mutex' = Append(mutex, a)
  BY DEF LagInv, TypeOK, Launch
<1>2. /\ mutex' \in Seq(Actors) /\ mutex' # <<>>
      /\ mutex # <<>> => Head(mutex') = Head(mutex)
  BY <1>1, QueueGrows
<1>3. \A b \in Actors : Holds(b) => Holds(b)'
  BY <1>2 DEF Holds
<1>4. \A b \in Actors : b # a => job'[b] = job[b]
  BY <1>1
<1>5. job'[a] = j
  BY <1>1
<1> QED BY <1>1, <1>2, <1>3, <1>4, <1>5, LagKept DEF LagInv, Lag

\* A future takes the next response and goes on, or is done.
LEMMA LagTaken ==
    ASSUME LagInv, NEW a \in Actors, Respond(a), UNCHANGED <<requests, package_number, orphans>>,
           NEW j, j.at = "send", job' = [job EXCEPT ![a] = j]
    PROVE  Lag'
<1>1. /\ responses \in Seq(Response) /\ requests \in Seq(Request) /\ package_number \in Nat
      /\ orphans \in Nat /\ responses # <<>> /\ responses' = Tail(responses) /\ job[a].at = "recv"
      /\ Holds(a) /\ job \in [Actors -> Future]
  BY DEF LagInv, TypeOK, Respond
<1>2. \A b \in Actors : job[b].at = "recv" => b = a
  BY <1>1, LagAlone DEF LagInv
<1>3. Waits /\ ~Waits' /\ \A b \in Actors : job'[b].at # "recv"
  BY <1>1, <1>2 DEF Waits
<1>4. /\ Len(responses') = Len(responses) - 1 /\ Len(responses) \in Nat \ {0}
      /\ Len(requests) \in Nat
      /\ \A i \in 1 .. Len(responses') : i + 1 \in 1 .. Len(responses) /\ responses'[i] = responses[i + 1]
  BY <1>1
<1>5. Outstanding = orphans + 1 /\ Outstanding' = Outstanding - 1 /\ Outstanding' = orphans'
  BY <1>1, <1>3, <1>4 DEF LagInv, Lag, Outstanding
<1>6. \A i \in 1 .. Len(responses') : responses'[i].num + Outstanding' + 1 = package_number' + i
  <2> SUFFICES ASSUME NEW i \in 1 .. Len(responses')
               PROVE  responses'[i].num + Outstanding' + 1 = package_number' + i
    OBVIOUS
  <2>1. /\ i \in Nat /\ i + 1 \in 1 .. Len(responses) /\ responses'[i] = responses[i + 1]
        /\ responses[i + 1] \in Response
    BY <1>1, <1>4
  <2>2. responses[i + 1].num + Outstanding + 1 = package_number + (i + 1)
    BY <2>1 DEF LagInv, Lag
  <2>3. PICK m \in Nat : m = responses[i + 1].num
    BY <2>1 DEF Response
  <2>4. PICK o \in Nat, c \in Nat : o = orphans /\ c = package_number
    BY <1>1
  <2>5. Outstanding = o + 1 /\ Outstanding' = o /\ package_number' = c /\ responses'[i].num = m
    BY <1>5, <2>1, <2>3, <2>4, Zenon
  <2>6. m + (o + 1) + 1 = c + (i + 1)
    BY <2>2, <2>3, <2>4, <2>5, Zenon
  <2>7. i \in Nat
    BY <2>1, Zenon
  <2>8. m + o + 1 = c + i
    BY <2>6, <2>7
  <2> QED BY <2>5, <2>8, Zenon
<1>7. \A i \in 1 .. Len(requests') : requests'[i].num + Len(requests') + 1 = package_number' + i
  BY DEF LagInv, Lag
<1> QED BY <1>3, <1>5, <1>6, <1>7 DEF Lag

\* A future is dropped.
LEMMA LagDropped ==
    ASSUME LagInv, NEW a \in Actors, Drop(a)
    PROVE  /\ mutex' \in Seq(Actors) /\ job' \in [Actors -> Future] /\ orphans' \in Nat
           /\ Lag'
<1>1. /\ mutex \in Seq(Actors) /\ job \in [Actors -> Future] /\ orphans \in Nat
      /\ job' = [job EXCEPT ![a] = NoJob] /\ mutex' = Without(a)
      /\ orphans' = IF job[a].at = "recv" THEN orphans + 1 ELSE orphans
      /\ UNCHANGED <<requests, responses, package_number>>
  BY DEF LagInv, TypeOK, Drop, wireVars
<1>2. NoJob \in Future /\ NoJob.at = "send"
  BY FutureTyped DEF Ops
<1>3. /\ mutex' \in Seq(Actors)
      /\ \A b \in Actors : Holds(b) /\ b # a => Holds(b)'
  BY <1>1, QueueWithout DEF Holds
<1>4. job' \in [Actors -> Future] /\ job'[a] = NoJob /\ \A b \in Actors : b # a => job'[b] = job[b]
  BY <1>1, <1>2
<1>5. CASE job[a].at # "recv"
  <2>1. orphans' = orphans /\ \A b \in Actors : job[b].at = "recv" => b # a /\ Holds(b)
    BY <1>1, <1>5 DEF LagInv, Lag
  <2>2. Lag'
    BY <2>1, <1>1, <1>2, <1>3, <1>4, LagKept DEF LagInv
  <2> QED BY <2>1, <2>2, <1>1, <1>3, <1>4
<1>6. CASE job[a].at = "recv"
  <2>1. \A b \in Actors : job[b].at = "recv" => b = a
    BY <1>6, LagAlone DEF LagInv, Lag
  <2>2. Waits /\ ~Waits' /\ \A b \in Actors : job'[b].at # "recv"
    BY <1>2, <1>4, <1>6, <2>1 DEF Waits
  <2>3. Outstanding' = Outstanding /\ Outstanding = orphans + 1 /\ orphans' = orphans + 1
    BY <1>1, <1>6, <2>2 DEF LagInv, Lag, Outstanding
  <2>4. Lag'
    BY <2>2, <2>3, <1>1 DEF LagInv, Lag
  <2> QED BY <2>3, <2>4, <1>1, <1>3, <1>4
<1> QED BY <1>5, <1>6

\* A future that holds the guard sends.
LEMMA LagSent ==
    ASSUME LagInv, NEW a \in Actors, Send(a)
    PROVE  LagInv'
<1> DEFINE q == [op |-> job[a].op, file |-> a[1], num |-> package_number,
                 n |-> Least(job[a].left, Chunk), to |-> job[a].to]
           j == [job[a] EXCEPT !.at = "recv", !.num = package_number]
<1>1. /\ Holds(a) /\ job[a].at = "send" /\ requests' = Append(requests, q)
      /\ package_number' = package_number + 1 /\ job' = [job EXCEPT ![a] = j]
      /\ UNCHANGED <<mutex, responses, opened, position, user, arg, cursor, handle, started,
                     failed, abandoned, orphans>>
  BY DEF Send, devVars, userVars, histVars
<1>2. /\ requests \in Seq(Request) /\ responses \in Seq(Response) /\ package_number \in Nat
      /\ orphans \in Nat /\ job \in [Actors -> Future] /\ job[a] \in Future
  BY DEF LagInv, TypeOK
<1>3. j \in Future /\ j.at = "recv" /\ j.num = package_number
  BY <1>2 DEF Future
<1>4. q \in Request /\ q.num = package_number
  <2>1. Least(job[a].left, Chunk) \in Nat
    BY <1>2, SizesAssumption DEF Future, Least
  <2> QED BY <2>1, <1>2 DEF Request, Future, Actors
<1> HIDE DEF q, j
<1>5. /\ requests' \in Seq(Request) /\ Len(requests') = Len(requests) + 1
      /\ requests'[Len(requests) + 1] = q
      /\ \A i \in 1 .. Len(requests) : requests'[i] = requests[i]
  BY <1>1, <1>2, <1>4, AppendProperties
<1>6. job' \in [Actors -> Future] /\ job'[a] = j /\ \A b \in Actors : b # a => job'[b] = job[b]
  BY <1>1, <1>2, <1>3
<1>7. \A b \in Actors : job[b].at # "recv"
  BY <1>1, LagAlone DEF LagInv
<1>8. ~Waits /\ Waits' /\ \A b \in Actors : job'[b].at = "recv" => b = a
  BY <1>3, <1>6, <1>7 DEF Waits
<1>9. Len(requests) \in Nat /\ Len(responses) \in Nat
  BY <1>2
<1>10. Outstanding = orphans /\ Outstanding' = Outstanding + 1 /\ Outstanding \in Nat
  <2>1. Outstanding = orphans + 0
    BY <1>8 DEF LagInv, Lag
  <2>2. Len(responses') = Len(responses) /\ Len(requests') = Len(requests) + 1
    BY <1>1, <1>5
  <2>3. Outstanding' = Outstanding + 1 /\ Outstanding \in Nat
    BY <2>2, <1>9 DEF Outstanding
  <2>4. orphans \in Nat
    BY <1>2
  <2> HIDE DEF Outstanding
  <2> QED BY <2>1, <2>3, <2>4
<1>11. Lag'
  <2>1. \A b \in Actors : job'[b].at = "recv" => Holds(b)' /\ job'[b].num + 1 = package_number'
    BY <1>1, <1>3, <1>6, <1>8 DEF Holds
  <2>2. ASSUME NEW i \in 1 .. Len(responses')
        PROVE  responses'[i].num + Outstanding' + 1 = package_number' + i
    <3>1. responses[i].num + Outstanding + 1 = package_number + i
      BY <1>1 DEF LagInv, Lag
    <3>2. responses[i].num \in Nat /\ i \in Nat
      <4>1. responses[i] \in Response /\ i \in Nat
        BY <1>1, <1>2
      <4> QED BY <4>1 DEF Response
    <3>3. responses' = responses /\ package_number' = package_number + 1 /\ package_number \in Nat
      BY <1>1, <1>2
    <3>4. PICK m \in Nat, o \in Nat, c \in Nat, k \in Nat :
             m = responses[i].num /\ o = Outstanding /\ c = package_number /\ k = i
      BY <3>2, <3>3, <1>10, Zenon
    <3>5. m + o + 1 = c + k
      BY <3>1, <3>4, Zenon
    <3>6. m + (o + 1) + 1 = (c + 1) + k
      BY <3>5
    <3> QED BY <3>3, <3>4, <3>6, <1>10, Zenon
  <2>3. ASSUME NEW i \in 1 .. Len(requests')
        PROVE  requests'[i].num + Len(requests') + 1 = package_number' + i
    <3>1. CASE i \in 1 .. Len(requests)
      <4>1. requests[i].num + Len(requests) + 1 = package_number + i /\ requests'[i] = requests[i]
        BY <3>1, <1>5 DEF LagInv, Lag
      <4>2. requests[i] \in Request /\ i \in Nat
        BY <3>1, <1>2
      <4>3. requests[i].num \in Nat
        BY <4>2 DEF Request
      <4>4. /\ requests'[i].num = requests[i].num /\ Len(requests') = Len(requests) + 1
            /\ package_number' = package_number + 1 /\ package_number \in Nat
        BY <4>1, <1>1, <1>2, <1>5
      <4>5. PICK m \in Nat, l \in Nat, c \in Nat, k \in Nat :
               m = requests[i].num /\ l = Len(requests) /\ c = package_number /\ k = i
        BY <4>2, <4>3, <4>4, <1>9, Zenon
      <4>6. m + l + 1 = c + k
        BY <4>1, <4>5, Zenon
      <4>7. m + (l + 1) + 1 = (c + 1) + k
        BY <4>6
      <4> QED BY <4>4, <4>5, <4>7, Zenon
    <3>2. CASE i \notin 1 .. Len(requests)
      <4>1. i = Len(requests) + 1
        BY <3>2, <1>5, <1>9
      <4>2. /\ requests'[i].num = package_number /\ Len(requests') = Len(requests) + 1
            /\ package_number' = package_number + 1 /\ package_number \in Nat
        BY <4>1, <1>1, <1>2, <1>4, <1>5
      <4>3. PICK l \in Nat, c \in Nat : l = Len(requests) /\ c = package_number
        BY <4>2, <1>9, Zenon
      <4>4. c + (l + 1) + 1 = (c + 1) + (l + 1)
        OBVIOUS
      <4> QED BY <4>1, <4>2, <4>3, <4>4, Zenon
    <3> QED BY <3>1, <3>2
  <2> QED BY <2>1, <2>2, <2>3, <1>1, <1>8, <1>10 DEF Lag
<1>12. TypeOK'
  <2>1. package_number' \in Nat
    BY <1>1, <1>2
  <2> QED BY <2>1, <1>1, <1>5, <1>6 DEF LagInv, TypeOK
<1> QED BY <1>11, <1>12 DEF LagInv

\* The parts of the state a future's answer does not reach.
LEMMA LagReceives ==
    ASSUME LagInv, NEW a \in Actors, Respond(a), NEW j \in Future, j.at = "send",
           job' = [job EXCEPT ![a] = j],
           UNCHANGED <<requests, package_number, opened, position, arg, started, abandoned, orphans>>,
           mutex' \in Seq(Actors), handle' \in [Files -> {"none", "split", "spent"}],
           cursor' \in [Files -> Nat], failed' \subseteq Files,
           user' \in [Files -> {"idle", "read", "preseek", "seek", "dropped", "overflow",
                                "unreachable"}]
    PROVE  LagInv'
<1>1. Lag'
  BY LagTaken
<1>2. responses' \in Seq(Response)
  BY QueueShrinks DEF LagInv, TypeOK, Respond
<1>3. job' \in [Actors -> Future]
  BY DEF LagInv, TypeOK
<1> QED BY <1>1, <1>2, <1>3 DEF LagInv, TypeOK

\* What a future that takes a response finds.
LEMMA LagFinds ==
    ASSUME LagInv, NEW a \in Actors, Respond(a)
    PROVE  /\ Head(responses) \in Response /\ job[a] \in Future
           /\ Tail(mutex) \in Seq(Actors) /\ Append(Tail(mutex), a) \in Seq(Actors)
<1>1. Head(responses) \in Response
  BY QueueShrinks DEF LagInv, TypeOK, Respond
<1>2. Tail(mutex) \in Seq(Actors)
  BY QueueShrinks DEF LagInv, TypeOK, Respond, Holds
<1>3. Append(Tail(mutex), a) \in Seq(Actors)
  BY <1>2, QueueGrows
<1> QED BY <1>1, <1>2, <1>3 DEF LagInv, TypeOK

LEMMA LagDelivers ==
    ASSUME LagInv, NEW f \in Files, NEW h \in Half, Respond(<<f, h>>),
           UNCHANGED <<requests, package_number, opened, position, started, abandoned, orphans>>
    PROVE  /\ DeliverError(<<f, h>>) => LagInv'
           /\ h = "reader" => \A n \in Nat : /\ DeliverBytes(f, n) => LagInv'
                                             /\ DeliverPosition(f, n) => LagInv'
           /\ \A j \in Future : GoOn(<<f, h>>, j) => LagInv'
<1> DEFINE a == <<f, h>>
<1>1. a \in Actors /\ a[1] = f
  BY DEF Actors
<1>2. Tail(mutex) \in Seq(Actors) /\ Append(Tail(mutex), a) \in Seq(Actors) /\ mutex \in Seq(Actors)
  BY <1>1, LagFinds DEF LagInv, TypeOK
<1>3. NoJob \in Future /\ NoJob.at = "send"
  BY FutureTyped DEF Ops
<1> HIDE DEF a
<1>4. /\ user \in [Files -> {"idle", "read", "preseek", "seek", "dropped", "overflow",
                             "unreachable"}]
      /\ cursor \in [Files -> Nat] /\ failed \subseteq Files
      /\ handle \in [Files -> {"none", "split", "spent"}] /\ arg \in [Files -> Nat]
  BY DEF LagInv, TypeOK
<1>5. Respond(a)
  BY DEF a
<1>6. ASSUME DeliverError(a) PROVE LagInv'
  <2>1. /\ job' = [job EXCEPT ![a] = NoJob] /\ mutex' = Tail(mutex)
        /\ UNCHANGED <<arg, cursor, handle>>
        /\ user' = IF a[2] = "reader" THEN [user EXCEPT ![f] = "idle"] ELSE user
        /\ failed' = IF a[2] = "reader" THEN failed \cup {f} ELSE failed
    BY <1>6, <1>1 DEF DeliverError, Ready
  <2>2. /\ user' \in [Files -> {"idle", "read", "preseek", "seek", "dropped", "overflow",
                                "unreachable"}]
        /\ failed' \subseteq Files
    BY <2>1, <1>4
  <2> QED BY <2>1, <2>2, <1>1, <1>2, <1>3, <1>4, <1>5, LagReceives
<1>7. ASSUME h = "reader", NEW n \in Nat, DeliverBytes(f, n) PROVE LagInv'
  <2>1. /\ job' = [job EXCEPT ![a] = NoJob] /\ mutex' = Tail(mutex)
        /\ UNCHANGED <<arg, handle, failed>>
        /\ \/ user' = [user EXCEPT ![f] = "idle"] \/ user' = [user EXCEPT ![f] = "overflow"]
           \/ user' = [user EXCEPT ![f] = "unreachable"]
        /\ cursor' = cursor \/ cursor' = [cursor EXCEPT ![f] = cursor[f] + n]
    BY <1>7 DEF DeliverBytes, Ready, Panic, a
  <2>2. cursor[f] + n \in Nat
    <3>1. cursor[f] \in Nat
      BY <1>4
    <3> QED BY <3>1, <1>7
  <2>3. /\ user' \in [Files -> {"idle", "read", "preseek", "seek", "dropped", "overflow",
                                "unreachable"}]
        /\ cursor' \in [Files -> Nat]
    BY <2>1, <2>2, <1>4
  <2> QED BY <2>1, <2>3, <1>1, <1>2, <1>3, <1>4, <1>5, LagReceives
<1>8. ASSUME h = "reader", NEW n \in Nat, DeliverPosition(f, n) PROVE LagInv'
  <2>1. \/ /\ job' = [job EXCEPT ![a] = NoJob] /\ mutex' = Tail(mutex)
        \/ /\ job' = [job EXCEPT ![a] = Job("FileSeek", 0, arg[f])]
           /\ mutex' = Append(Tail(mutex), a)
    BY <1>8 DEF DeliverPosition, Ready, a
  <2>2. /\ UNCHANGED <<arg, handle>> /\ failed' = failed \ {f}
        /\ \/ user' = [user EXCEPT ![f] = "idle"] \/ user' = [user EXCEPT ![f] = "seek"]
           \/ user' = [user EXCEPT ![f] = "unreachable"]
        /\ cursor' = cursor \/ cursor' = [cursor EXCEPT ![f] = n]
    BY <1>8 DEF DeliverPosition, Panic
  <2>3. /\ user' \in [Files -> {"idle", "read", "preseek", "seek", "dropped", "overflow",
                                "unreachable"}]
        /\ cursor' \in [Files -> Nat] /\ failed' \subseteq Files
    BY <2>2, <1>4, <1>8
  <2>4. Job("FileSeek", 0, arg[f]) \in Future /\ Job("FileSeek", 0, arg[f]).at = "send"
    <3>1. arg[f] \in Nat /\ 0 \in Nat /\ "FileSeek" \in Ops
      BY <1>4 DEF Ops
    <3> QED BY <3>1, FutureTyped
  <2>5. handle' \in [Files -> {"none", "split", "spent"}] /\ arg' = arg
    BY <2>2, <1>4
  <2>6. CASE job' = [job EXCEPT ![a] = NoJob] /\ mutex' = Tail(mutex)
    BY <2>3, <2>5, <2>6, <1>1, <1>2, <1>3, <1>5, LagReceives
  <2>7. CASE /\ job' = [job EXCEPT ![a] = Job("FileSeek", 0, arg[f])]
             /\ mutex' = Append(Tail(mutex), a)
    BY <2>3, <2>4, <2>5, <2>7, <1>1, <1>2, <1>5, LagReceives
  <2> QED BY <2>1, <2>6, <2>7
<1>9. ASSUME NEW j \in Future, GoOn(a, j) PROVE LagInv'
  <2>1. /\ job' = [job EXCEPT ![a] = [j EXCEPT !.at = "send"]]
        /\ UNCHANGED <<mutex, user, arg, cursor, handle, failed>>
    BY <1>9 DEF GoOn
  <2>2. [j EXCEPT !.at = "send"] \in Future /\ [j EXCEPT !.at = "send"].at = "send"
    BY DEF Future
  <2> QED BY <2>1, <2>2, <1>1, <1>2, <1>4, <1>5, LagReceives
<1> QED BY <1>6, <1>7, <1>8, <1>9 DEF a

\* A response takes the place of the oldest request.
Transferred(r) ==
    /\ r.num = requests[1].num
    /\ Len(requests) \in Nat \ {0} /\ Len(requests') = Len(requests) - 1
    /\ \A i \in 1 .. Len(requests') : requests'[i] = requests[i + 1]
    /\ Len(responses) \in Nat /\ Len(responses') = Len(responses) + 1
    /\ responses'[Len(responses) + 1] = r
    /\ \A i \in 1 .. Len(responses) : responses'[i] = responses[i]

LEMMA LagAnswers ==
    ASSUME LagInv, NEW r \in Response, Transferred(r),
           UNCHANGED <<package_number, mutex, job, orphans>>
    PROVE  Lag'
<1>1. package_number \in Nat
  BY DEF LagInv, TypeOK
<1>2. /\ Len(requests') = Len(requests) - 1 /\ Len(responses') = Len(responses) + 1
      /\ Len(requests) \in Nat /\ Len(requests) >= 1 /\ Len(responses) \in Nat
  BY DEF Transferred
<1>3. Outstanding' = Outstanding /\ (Waits' <=> Waits)
  BY <1>2 DEF Outstanding, Waits
<1>4. \A a \in Actors : job'[a].at = "recv" => Holds(a)' /\ job'[a].num + 1 = package_number'
  BY DEF LagInv, Lag, Holds
<1>5. ASSUME NEW i \in 1 .. Len(responses')
      PROVE  responses'[i].num + Outstanding' + 1 = package_number' + i
  <2>1. CASE i \in 1 .. Len(responses)
    <3>1. responses'[i] = responses[i]
      BY <2>1 DEF Transferred
    <3> QED BY <2>1, <3>1, <1>3 DEF LagInv, Lag
  <2>2. CASE i \notin 1 .. Len(responses)
    <3>1. i = Len(responses) + 1
      BY <2>2, <1>2
    <3>2. responses'[i].num = r.num /\ r.num = requests[1].num
      BY <3>1 DEF Transferred
    <3>3. requests[1].num + Len(requests) + 1 = package_number + 1
      BY <1>2 DEF LagInv, Lag
    <3>4. r.num \in Nat
      BY DEF Response
    <3>5. r.num + (Len(responses) + Len(requests)) + 1 = package_number + (Len(responses) + 1)
      BY <3>2, <3>3, <3>4, <1>1, <1>2
    <3>6. Outstanding' = Len(responses) + Len(requests) /\ package_number' = package_number
      BY <1>3 DEF Outstanding
    <3> QED BY <3>1, <3>2, <3>5, <3>6, Zenon
  <2> QED BY <2>1, <2>2
<1>6. ASSUME NEW i \in 1 .. Len(requests')
      PROVE  requests'[i].num + Len(requests') + 1 = package_number' + i
  <2>1. i \in Nat
    OBVIOUS
  <2>2. i + 1 \in 1 .. Len(requests)
    BY <1>2
  <2>3. requests'[i] = requests[i + 1]
    BY DEF Transferred
  <2>4. requests[i + 1].num + Len(requests) + 1 = package_number + (i + 1)
    BY <2>2 DEF LagInv, Lag
  <2>5. requests[i + 1].num \in Nat
    <3>1. requests[i + 1] \in Request
      BY <2>2 DEF LagInv, TypeOK
    <3> QED BY <3>1 DEF Request
  <2>6. Len(requests) \in Nat
    BY <1>2
  <2>7. requests[i + 1].num + (Len(requests) - 1) + 1 = package_number + i
    <3>1. PICK m \in Nat : m = requests[i + 1].num
      BY <2>5
    <3>2. PICK k \in Nat : k = Len(requests)
      BY <2>6
    <3>3. PICK c \in Nat : c = package_number
      BY <1>1
    <3>4. m + k + 1 = c + (i + 1)
      BY <2>4, <3>1, <3>2, <3>3, Zenon
    <3>5. m + (k - 1) + 1 = c + i
      BY <2>1, <3>4
    <3> QED BY <3>1, <3>2, <3>3, <3>5, Zenon
  <2>8. package_number' = package_number
    OBVIOUS
  <2> QED BY <2>3, <2>7, <2>8, <1>2, Zenon
<1> QED BY <1>3, <1>4, <1>5, <1>6 DEF LagInv, Lag

\* The device answers the oldest request.
LEMMA LagAnswered ==
    ASSUME LagInv, requests # <<>>, NEW status \in {"ok", "error"}, NEW n \in Nat, NEW p \in Nat,
           Answer(Head(requests), status, n, p),
           opened' \subseteq Files, position' \in [Files -> Nat]
    PROVE  LagInv'
<1> DEFINE q == Head(requests)
           r == [op |-> q.op, num |-> q.num, status |-> status, len |-> n, pos |-> p]
<1>1. /\ requests' = Tail(requests) /\ responses' = Append(responses, r)
      /\ UNCHANGED <<package_number, mutex, job, user, arg, cursor, handle, started, failed,
                     abandoned, orphans>>
  BY DEF Answer, userVars, histVars
<1>2. q \in Request /\ q = requests[1]
  BY QueueShrinks DEF LagInv, TypeOK
<1>3. r \in Response /\ r.num = requests[1].num
  BY <1>2 DEF Request, Response
<1> HIDE DEF r
<1>4. requests \in Seq(Request) /\ responses \in Seq(Response)
  BY DEF LagInv, TypeOK
<1>5. /\ responses' \in Seq(Response) /\ Len(responses') = Len(responses) + 1
      /\ responses'[Len(responses) + 1] = r /\ Len(responses) \in Nat
      /\ \A i \in 1 .. Len(responses) : responses'[i] = responses[i]
  BY <1>1, <1>3, <1>4, AppendProperties
<1>6. /\ requests' \in Seq(Request) /\ Len(requests') = Len(requests) - 1
      /\ Len(requests) \in Nat \ {0}
      /\ \A i \in 1 .. Len(requests') : requests'[i] = requests[i + 1]
  BY <1>1, <1>4
<1>7. Lag'
  BY <1>1, <1>3, <1>5, <1>6, LagAnswers DEF Transferred
<1> QED BY <1>1, <1>5, <1>6, <1>7 DEF LagInv, TypeOK

\* The caller's operations and what disturbs them.
LEMMA LagOperation ==
    ASSUME LagInv, NEW f \in Files, Operation(f)
    PROVE  LagInv'
<1>1. /\ <<f, "reader">> \in Actors /\ <<f, "owner">> \in Actors
      /\ arg \in [Files -> Nat] /\ started \in Nat
      /\ user \in [Files -> {"idle", "read", "preseek", "seek", "dropped", "overflow",
                             "unreachable"}]
      /\ handle \in [Files -> {"none", "split", "spent"}]
  BY DEF LagInv, TypeOK, Actors, Half
<1>2. NoJob.at = "send" /\ 0 \in Nat
  BY FutureTyped DEF Ops
<1>3. \A op \in Ops, n \in Nat, p \in Nat : Job(op, n, p) \in Future /\ Job(op, n, p).at = "send"
  BY FutureTyped
<1>4. ASSUME Open(f) \/ Close(f) \/ SendOp(f) PROVE LagInv'
  <2>1. PICK op \in Ops : Launch(<<f, "owner">>, Job(op, 0, 0))
    BY <1>4 DEF Open, Close, SendOp, Ops
  <2>2. /\ job[<<f, "owner">>] = NoJob /\ started' = started + 1
        /\ handle' = handle \/ handle' = [handle EXCEPT ![f] = "spent"]
        /\ UNCHANGED <<requests, responses, package_number, opened, position, user, arg, cursor,
                       failed, abandoned, orphans>>
    BY <1>4 DEF Open, Close, SendOp, MayStart, wireVars, devVars, histVars
  <2>3. mutex' \in Seq(Actors) /\ job' \in [Actors -> Future] /\ Lag'
    BY <2>1, <2>2, <1>1, <1>2, <1>3, LagLaunch
  <2>4. handle' \in [Files -> {"none", "split", "spent"}] /\ started' \in Nat
    BY <2>2, <1>1
  <2> QED BY <2>2, <2>3, <2>4 DEF LagInv, TypeOK
<1>5. ASSUME NEW n \in 1 .. MaxRead, BeginRead(f, n) PROVE LagInv'
  <2>1. /\ started' = started + 1 /\ user' = [user EXCEPT ![f] = "read"]
        /\ arg' = [arg EXCEPT ![f] = n]
        /\ UNCHANGED <<requests, responses, package_number, opened, position, cursor, handle,
                       failed, abandoned, orphans>>
        /\ \/ job[<<f, "reader">>] = NoJob /\ Launch(<<f, "reader">>, Job("Read", n, 0))
           \/ UNCHANGED <<job, mutex>>
    BY <1>5 DEF BeginRead, MayStart, wireVars, devVars, histVars
  <2>2. n \in Nat /\ "Read" \in Ops
    BY SizesAssumption DEF Ops
  <2>3. mutex' \in Seq(Actors) /\ job' \in [Actors -> Future] /\ Lag'
    <3>1. CASE UNCHANGED <<job, mutex>>
      BY <2>1, <3>1, LagKept DEF LagInv, TypeOK, Lag, Holds
    <3>2. CASE job[<<f, "reader">>] = NoJob /\ Launch(<<f, "reader">>, Job("Read", n, 0))
      BY <3>2, <2>1, <2>2, <1>1, <1>2, <1>3, LagLaunch
    <3> QED BY <2>1, <3>1, <3>2
  <2>4. /\ arg' \in [Files -> Nat] /\ started' \in Nat
        /\ user' \in [Files -> {"idle", "read", "preseek", "seek", "dropped", "overflow",
                                "unreachable"}]
    BY <2>1, <2>2, <1>1
  <2> QED BY <2>1, <2>3, <2>4 DEF LagInv, TypeOK
<1>6. ASSUME NEW p \in 0 .. (Size + 1), BeginSeek(f, p) PROVE LagInv'
  <2>1. /\ started' = started + 1 /\ arg' = [arg EXCEPT ![f] = p]
        /\ UNCHANGED <<requests, responses, package_number, opened, position, cursor, handle,
                       failed, abandoned, orphans>>
        /\ \/ user' = [user EXCEPT ![f] = "seek"] \/ user' = [user EXCEPT ![f] = "preseek"]
        /\ \/ job[<<f, "reader">>] = NoJob /\ Launch(<<f, "reader">>, Job("FileSeek", 0, p))
           \/ UNCHANGED <<job, mutex>>
    BY <1>6 DEF BeginSeek, MayStart, wireVars, devVars, histVars
  <2>2. p \in Nat /\ "FileSeek" \in Ops
    BY SizesAssumption DEF Ops
  <2>3. mutex' \in Seq(Actors) /\ job' \in [Actors -> Future] /\ Lag'
    <3>1. CASE UNCHANGED <<job, mutex>>
      BY <2>1, <3>1, LagKept DEF LagInv, TypeOK, Lag, Holds
    <3>2. CASE job[<<f, "reader">>] = NoJob /\ Launch(<<f, "reader">>, Job("FileSeek", 0, p))
      BY <3>2, <2>1, <2>2, <1>1, <1>2, <1>3, LagLaunch
    <3> QED BY <2>1, <3>1, <3>2
  <2>4. /\ arg' \in [Files -> Nat] /\ started' \in Nat
        /\ user' \in [Files -> {"idle", "read", "preseek", "seek", "dropped", "overflow",
                                "unreachable"}]
    BY <2>1, <2>2, <1>1
  <2> QED BY <2>1, <2>3, <2>4 DEF LagInv, TypeOK
<1> QED BY <1>4, <1>5, <1>6 DEF Operation

LEMMA LagDisturbed ==
    ASSUME LagInv, NEW f \in Files, Disturb(f)
    PROVE  LagInv' /\ (orphans' = 0 => orphans = 0)
<1>1. CASE CancelPoll(f)
  <2>1. /\ user' = [user EXCEPT ![f] = "idle"] /\ abandoned' = abandoned \cup {f}
        /\ UNCHANGED <<mutex, requests, responses, package_number, opened, position, job, arg,
                       cursor, handle, started, failed, orphans>>
    BY <1>1 DEF CancelPoll, wireVars, devVars
  <2>2. Lag'
    BY <2>1, LagKept DEF LagInv, Lag, Holds
  <2> QED BY <2>1, <2>2 DEF LagInv, TypeOK
<1>2. ASSUME NEW h \in Half, Drop(<<f, h>>),
             user' = user \/ user' = [user EXCEPT ![f] = "dropped"]
      PROVE  LagInv' /\ (orphans' = 0 => orphans = 0)
  <2>1. mutex' \in Seq(Actors) /\ job' \in [Actors -> Future] /\ orphans' \in Nat /\ Lag'
    BY <1>2, LagDropped DEF Actors
  <2>2. /\ UNCHANGED <<requests, responses, package_number, opened, position, arg, cursor, handle,
                       started, failed, abandoned>>
        /\ orphans' = orphans \/ orphans' = orphans + 1
    BY <1>2 DEF Drop, wireVars, devVars
  <2>3. user' \in [Files -> {"idle", "read", "preseek", "seek", "dropped", "overflow",
                             "unreachable"}]
    BY <1>2 DEF LagInv, TypeOK
  <2> QED BY <2>1, <2>2, <2>3 DEF LagInv, TypeOK
<1>3. CASE DropReader(f)
  BY <1>2, <1>3 DEF DropReader, Half
<1>4. CASE DropOwner(f)
  BY <1>2, <1>4 DEF DropOwner, Half
<1> QED BY <1>1, <1>3, <1>4 DEF Disturb

\* A poll that takes a response.
LEMMA LagPolled ==
    ASSUME LagInv, NEW f \in Files, Poll(f)
    PROVE  LagInv'
<1> DEFINE a == <<f, "reader">> o == <<f, "owner">> r == Head(responses)
<1>1. a \in Actors /\ o \in Actors /\ "reader" \in Half /\ "owner" \in Half
  BY DEF Actors, Half
<1>2. ASSUME NEW h \in Half, Send(<<f, h>>) PROVE LagInv'
  BY <1>2, LagSent DEF Actors
<1>3. ASSUME NEW h \in Half, ReceiveError(<<f, h>>) PROVE LagInv'
  <2>1. /\ Respond(<<f, h>>) /\ DeliverError(<<f, h>>)
        /\ UNCHANGED <<requests, package_number, opened, position, started, abandoned, orphans>>
    BY <1>3 DEF ReceiveError, devVars
  <2> QED BY <2>1, LagDelivers
<1>4. CASE ReceiveBytes(f)
  <2>1. /\ Respond(a)
        /\ UNCHANGED <<requests, package_number, opened, position, started, abandoned, orphans>>
        /\ \/ DeliverBytes(f, job[a].got + r.len)
           \/ /\ job[a].left > Chunk
              /\ GoOn(a, [job[a] EXCEPT !.got = @ + r.len, !.left = @ - Chunk])
    <3>1. job[a] \in Future
      BY <1>1 DEF LagInv, TypeOK
    <3>2. job[a].left \in Nat /\ Chunk \in Nat
      BY <3>1, SizesAssumption DEF Future
    <3> QED BY <1>4, <3>2 DEF ReceiveBytes, devVars
  <2>2. r \in Response /\ job[a] \in Future
    BY <2>1, <1>1, LagFinds
  <2>3. job[a].got + r.len \in Nat
    BY <2>2 DEF Response, Future
  <2>4. ASSUME job[a].left > Chunk
        PROVE  [job[a] EXCEPT !.got = @ + r.len, !.left = @ - Chunk] \in Future
    <3>1. job[a].left - Chunk \in Nat
      BY <2>2, <2>4, SizesAssumption DEF Future
    <3> QED BY <3>1, <2>2, <2>3 DEF Future
  <2> QED BY <2>1, <2>3, <2>4, <1>1, LagDelivers
<1>5. CASE ReceiveSeek(f)
  <2>1. /\ Respond(a) /\ GoOn(a, [job[a] EXCEPT !.op = "FileTell"])
        /\ UNCHANGED <<requests, package_number, opened, position, started, abandoned, orphans>>
    BY <1>5 DEF ReceiveSeek, devVars
  <2>2. job[a] \in Future
    BY <2>1, <1>1, LagFinds
  <2>3. [job[a] EXCEPT !.op = "FileTell"] \in Future
    BY <2>2 DEF Future, Ops
  <2> QED BY <2>1, <2>3, <1>1, LagDelivers
<1>6. CASE ReceiveTell(f)
  <2>1. /\ Respond(a) /\ (DeliverPosition(f, r.pos) \/ DeliverError(a))
        /\ UNCHANGED <<requests, package_number, opened, position, started, abandoned, orphans>>
    BY <1>6 DEF ReceiveTell, devVars
  <2>2. r.pos \in Nat
    <3>1. r \in Response
      BY <2>1, <1>1, LagFinds
    <3> QED BY <3>1 DEF Response
  <2> QED BY <2>1, <2>2, <1>1, LagDelivers
<1>7. CASE ReceiveOwner(f)
  <2>1. /\ Respond(o) /\ job' = [job EXCEPT ![o] = NoJob] /\ mutex' = Tail(mutex)
        /\ UNCHANGED <<requests, package_number, opened, position, user, arg, cursor, started,
                       failed, abandoned, orphans>>
        /\ handle' = handle \/ handle' = [handle EXCEPT ![f] = "split"]
    BY <1>7 DEF ReceiveOwner, Ready, devVars, histVars
  <2>2. mutex' \in Seq(Actors)
    BY <2>1, <1>1, LagFinds
  <2>3. NoJob \in Future /\ NoJob.at = "send"
    BY FutureTyped DEF Ops
  <2>4. /\ handle' \in [Files -> {"none", "split", "spent"}]
        /\ cursor' \in [Files -> Nat] /\ failed' \subseteq Files
        /\ user' \in [Files -> {"idle", "read", "preseek", "seek", "dropped", "overflow",
                                "unreachable"}]
    BY <2>1 DEF LagInv, TypeOK
  <2> QED BY <2>1, <2>2, <2>3, <2>4, <1>1, LagReceives
<1> QED BY <1>2, <1>3, <1>4, <1>5, <1>6, <1>7 DEF Poll

LEMMA LagDevice ==
    ASSUME LagInv, Device
    PROVE  LagInv'
<1> DEFINE q == Head(requests) f == q.file
<1>1. requests # <<>>
  BY DEF Device, DeviceRefuses, DeviceServes
<1>2. q \in Request
  BY <1>1, QueueShrinks DEF LagInv, TypeOK
<1>3. f \in Files /\ q.to \in Nat /\ q.n \in Nat
  BY <1>2 DEF Request
<1>4. opened \subseteq Files /\ position \in [Files -> Nat] /\ position[f] \in Nat
  BY <1>3 DEF LagInv, TypeOK
<1> HIDE DEF q, f
<1>5. CASE DeviceRefuses
  <2>1. Answer(q, "error", 0, 0) /\ UNCHANGED <<opened, position>>
    BY <1>5 DEF DeviceRefuses, devVars, q
  <2> QED BY <2>1, <1>1, <1>4, LagAnswered DEF q
<1>6. CASE DeviceServes
  <2>1. /\ \E n \in Nat, p \in Nat : Answer(q, "ok", n, p)
        /\ opened' = opened \/ opened' = opened \cup {f} \/ opened' = opened \ {f}
        /\ \/ position' = position \/ position' = [position EXCEPT ![f] = q.to]
           \/ \E n \in Nat : position' = [position EXCEPT ![f] = @ + n]
    <3>1. Chunk \in Nat /\ 0 \in Nat /\ \A n \in 0 .. q.n : n \in Nat
      BY <1>3, SizesAssumption
    <3> QED BY <1>6, <1>4, <3>1 DEF DeviceServes, devVars, q, f
  <2>2. opened' \subseteq Files /\ position' \in [Files -> Nat]
    BY <2>1, <1>3, <1>4
  <2> QED BY <2>1, <2>2, <1>1, LagAnswered DEF q
<1> QED BY <1>5, <1>6 DEF Device

LEMMA LagInit == Init => LagInv
<1> SUFFICES ASSUME Init PROVE LagInv
  OBVIOUS
<1>1. NoJob \in Future /\ NoJob.at = "send"
  BY FutureTyped DEF Ops
<1>2. \A a \in Actors : job[a].at = "send"
  BY <1>1 DEF Init
<1>3. TypeOK
  BY <1>1 DEF Init, TypeOK
<1>4. Lag
  BY <1>2 DEF Init, Lag, Waits, Outstanding
<1> QED BY <1>3, <1>4 DEF LagInv

LEMMA LagStep ==
    ASSUME LagInv, [Next]_vars
    PROVE  LagInv' /\ (orphans' = 0 => orphans = 0)
<1>1. ASSUME NEW f \in Files, Operation(f) PROVE LagInv' /\ orphans' = orphans
  <2>1. orphans' = orphans
    BY <1>1 DEF Operation, Open, Close, SendOp, BeginRead, BeginSeek, histVars
  <2> QED BY <1>1, <2>1, LagOperation
<1>2. ASSUME NEW f \in Files, Poll(f) PROVE LagInv' /\ orphans' = orphans
  <2>1. orphans' = orphans
    BY <1>2 DEF Poll, Send, ReceiveError, ReceiveBytes, ReceiveSeek, ReceiveTell, ReceiveOwner,
                histVars
  <2> QED BY <1>2, <2>1, LagPolled
<1>3. ASSUME NEW f \in Files, Disturb(f) PROVE LagInv' /\ (orphans' = 0 => orphans = 0)
  BY <1>3, LagDisturbed
<1>4. CASE Device
  <2>1. orphans' = orphans
    BY <1>4 DEF Device, DeviceServes, DeviceRefuses, Answer, histVars
  <2> QED BY <1>4, <2>1, LagDevice
<1>5. CASE UNCHANGED vars
  <2>1. UNCHANGED <<mutex, requests, responses, package_number, opened, position, job, user, arg,
                    cursor, handle, started, failed, abandoned, orphans>>
    BY <1>5 DEF vars, wireVars, devVars, userVars, histVars
  <2>2. Lag'
    BY <2>1, LagKept DEF LagInv, Lag, Holds
  <2> QED BY <2>1, <2>2 DEF LagInv, TypeOK
<1> QED BY <1>1, <1>2, <1>3, <1>4, <1>5 DEF Next

-----------------------------------------------------------------------------
(* The theorems. *)

LEMMA SharedInvInit == Init => SharedInv
<1> SUFFICES ASSUME Init PROVE SharedInv
  OBVIOUS
<1>1. /\ NoJob \in JobType /\ NoJob.op = "none" /\ NoJob.at = "send"
      /\ NoJob.left + NoJob.got <= MaxRead
  BY NoJobIs
<1>2. job \in [Actors -> JobType] /\ \A a \in Actors : job[a] = NoJob
  BY <1>1 DEF Init
<1>3. Bounded
  <2>1. /\ 0 \in 0 .. (Size + 1) /\ 0 \in 0 .. (MaxRead + Size + 1) /\ 0 \in 0 .. MaxOps
    BY SizesAssumption
  <2> QED BY <2>1, <1>2 DEF Init, Bounded, JobType
<1>4. JobsOK
  BY <1>1, <1>2 DEF JobsOK, ReaderOps, OwnerOps, Actors, Half
<1>5. OneOutstanding
  BY <1>1, <1>2 DEF Init, OneOutstanding, Quiet
<1>6. UserLine
  BY <1>2, ReaderOwner DEF Init, UserLine, UserAt
<1>7. CursorLine
  BY <1>1, <1>2, ReaderOwner DEF Init, CursorLine, CursorAt
<1> QED BY <1>3, <1>4, <1>5, <1>6, <1>7 DEF SharedInv

LEMMA SharedInvStep ==
    ASSUME SharedInv, orphans \in Nat, orphans' = 0, [Next]_vars
    PROVE  SharedInv'
<1>1. ASSUME NEW f \in Files, Operation(f) PROVE SharedInv'
  BY <1>1, OwnerStarts, ReadStarts, SeekStarts DEF Operation
<1>2. ASSUME NEW f \in Files, Poll(f) PROVE SharedInv'
  <2>1. ASSUME NEW h \in Half, Send(<<f, h>>) PROVE SharedInv'
    BY <2>1, RequestSent
  <2>2. ASSUME NEW h \in Half, ReceiveError(<<f, h>>) PROVE SharedInv'
    BY <2>2, ErrorReceived DEF ReceiveError
  <2> QED BY <1>2, <2>1, <2>2, BytesReceived, SeekReceived, TellReceived, OwnerReceived DEF Poll
<1>3. ASSUME NEW f \in Files, Disturb(f) PROVE SharedInv'
  BY <1>3, PollCancelled, ReaderDropped, OwnerDropped DEF Disturb
<1>4. CASE Device
  BY <1>4, DeviceStep
<1>5. CASE UNCHANGED vars
  <2>1. UNCHANGED <<mutex, requests, responses, package_number, opened, position, job, user, arg,
                    cursor, handle, started, failed, abandoned>>
    BY <1>5 DEF vars, wireVars, devVars, userVars, histVars
  <2>2. Bounded' /\ JobsOK'
    BY <2>1 DEF SharedInv, Bounded, JobsOK
  <2>3. OneOutstanding'
    BY <2>1 DEF SharedInv, OneOutstanding, Quiet, Waiting, Holds, IsRequestOf, Answers
  <2>4. UserLine' /\ CursorLine'
    BY <2>1 DEF SharedInv, UserLine, UserAt, CursorLine, CursorAt, Landed
  <2> QED BY <2>2, <2>3, <2>4 DEF SharedInv
<1> QED BY <1>1, <1>2, <1>3, <1>4, <1>5 DEF Next

(***************************************************************************)
(* The connection with cancelled polls, failing requests and futures       *)
(* dropped at any moment: LagInv always, and SharedInv until the first     *)
(* future is dropped between its request and the response.                 *)
(***************************************************************************)
ConnectionInv == LagInv /\ (orphans = 0 => SharedInv)

THEOREM SharedInvariant == Spec => []ConnectionInv
<1>1. Init => ConnectionInv
  BY LagInit, SharedInvInit DEF ConnectionInv
<1>2. ConnectionInv /\ [Next]_vars => ConnectionInv'
  <2> SUFFICES ASSUME ConnectionInv, [Next]_vars PROVE ConnectionInv'
    OBVIOUS
  <2>1. LagInv' /\ (orphans' = 0 => orphans = 0)
    BY LagStep DEF ConnectionInv
  <2>2. ASSUME orphans' = 0 PROVE SharedInv'
    <3>1. SharedInv /\ orphans \in Nat
      BY <2>1, <2>2 DEF ConnectionInv
    <3> QED BY <2>2, <3>1, SharedInvStep
  <2> QED BY <2>1, <2>2 DEF ConnectionInv
<1> QED BY <1>1, <1>2, PTL DEF Spec

(***************************************************************************)
(* file_request: "a different request cannot consume this operation's      *)
(* response". The packet a future takes is the one as many before its own  *)
(* as futures were dropped between request and response, for any number of *)
(* files, operations and drops; without a drop it is its own, though       *)
(* neither number nor operation is compared.                               *)
(***************************************************************************)
THEOREM ResponsesLag == Spec => []ResponsesLagByDrops
<1>1. LagInv => ResponsesLagByDrops
  <2> SUFFICES ASSUME LagInv, NEW a \in Actors, Holds(a), job[a].at = "recv",
                      responses # <<>>
               PROVE  Head(responses).num + orphans = job[a].num
    BY DEF ResponsesLagByDrops
  <2>1. /\ responses \in Seq(Response) /\ job[a] \in Future /\ orphans \in Nat
        /\ package_number \in Nat
    BY DEF LagInv, TypeOK
  <2>2. Head(responses) = responses[1] /\ responses[1] \in Response /\ 1 \in 1 .. Len(responses)
    BY <2>1, QueueShrinks
  <2>3. responses[1].num \in Nat /\ job[a].num \in Nat
    BY <2>1, <2>2 DEF Response, Future
  <2>4. Outstanding = orphans + 1
    BY <2>1 DEF LagInv, Lag, Waits
  <2>5. job[a].num + 1 = package_number /\ responses[1].num + Outstanding + 1 = package_number + 1
    BY <2>2 DEF LagInv, Lag
  <2> HIDE DEF Outstanding
  <2> QED BY <2>1, <2>2, <2>3, <2>4, <2>5
<1> QED BY <1>1, SharedInvariant, PTL DEF ConnectionInv

(***************************************************************************)
(* poll_read and poll_complete: neither unreachable!() nor the panic of    *)
(* put_slice happens on a file whose polls are all carried through, for    *)
(* any buffer size and any MAX_TRANSFER, until the connection falls behind.*)
(***************************************************************************)
THEOREM ReadersNeverPanic == Spec => []NeverPanics
<1>1. ConnectionInv => NeverPanics
  BY DEF ConnectionInv, SharedInv, UserLine, UserAt, NeverPanics
<1> QED BY <1>1, SharedInvariant, PTL

(***************************************************************************)
(* AsyncRead and AsyncSeek over chunked requests: a reader at rest that    *)
(* met no error since its last seek is where the device's descriptor is;   *)
(* no byte is skipped or delivered twice, whatever was cancelled, until    *)
(* the connection falls behind.                                            *)
(***************************************************************************)
THEOREM CursorsFollow == Spec => []CursorFollowsDevice
<1>1. ConnectionInv => CursorFollowsDevice
  <2> SUFFICES ASSUME SharedInv, NEW f \in Files \ failed, user[f] = "idle",
                      job[<<f, "reader">>] = NoJob
               PROVE  cursor[f] = position[f]
    BY DEF CursorFollowsDevice, ConnectionInv
  <2>1. CursorAt(f)
    BY DEF SharedInv, CursorLine
  <2> QED BY <2>1, NoJobIs DEF CursorAt, Panicked
<1> QED BY <1>1, SharedInvariant, PTL

=============================================================================
