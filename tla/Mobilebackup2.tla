--------------------------- MODULE Mobilebackup2 ---------------------------
(***************************************************************************)
(* The mobilebackup2 client (services/mobilebackup2.rs): the DeviceLink    *)
(* handshake, the operations a host starts, and process_dl_loop, in which  *)
(* the device asks and the host serves files from a backup directory.      *)
(*                                                                         *)
(* Both directions of the connection are sequences of tokens: a DL message *)
(* is one token, and so is each piece the binary streams are made of (a    *)
(* length of zero, a length with its string, a block with its code).  A    *)
(* file is the sequence of its blocks, {} where there is none and {c}      *)
(* where it holds c.  Directories are left out, but for a copy of one: the  *)
(* code ignores what create_dir_all returns but for                        *)
(* DLMessageCreateDirectory.                                               *)
(*                                                                         *)
(* The device keeps what it believes the backup to hold (mirror), except   *)
(* for the files whose transfer or change it knows to have failed (doubt); *)
(* the model notes beside it the files of which the host reported a change *)
(* that it did not make (passed).                                          *)
(***************************************************************************)
EXTENDS Integers, Sequences, SequencesExt, FiniteSets

CONSTANTS
  Paths,        \* names of files in the backup
  Values,       \* contents of a block
  MaxBlocks,    \* blocks of a file
  MaxRequests,  \* requests the device makes and files it uploads, in all
  MaxWire,      \* tokens under way in one direction
  Targets,      \* overall progress values a DL message may carry, 0 for none
  Totals,       \* byte totals a DLMessageUploadFiles may announce
  EmitBytes,    \* PROGRESS_EMIT_BYTES, in blocks
  Rejecting     \* whether the device may refuse the handshake

ASSUME BoundsAssumption ==
  /\ Paths # {} /\ MaxBlocks \in Nat /\ MaxRequests \in Nat /\ MaxWire \in Nat \ {0}
  /\ Targets \subseteq 0..100 /\ Totals \subseteq Nat
  /\ EmitBytes \in Nat \ {0} /\ Rejecting \in BOOLEAN

VARIABLES
  h,        \* the client: where it is in which call, and the locals of it
  tracker,  \* ProgressTracker
  shown,    \* the last BackupProgress handed to on_progress
  store,    \* the backup directory
  passed,   \* history: files the host passed over and reported as done
  toHost, toDevice,
  dev,      \* the device's place in the dialogue
  ask,      \* its request, and what it has heard of it
  mirror, doubt,
  asked,    \* DL messages sent by the device
  broken,   \* an operation on this connection has failed, or was dropped
  misread   \* somebody took a token for something it is not

vars == <<h, tracker, shown, store, passed, toHost, toDevice, dev, ask,
          mirror, doubt, asked, broken, misread>>

-----------------------------------------------------------------------------
NoAsk == [tag |-> "none", files |-> <<>>, pairs |-> <<>>, got |-> <<>>, bad |-> {}]

FileSeqs == {<<p>> : p \in Paths} \cup {<<p, q>> : p, q \in Paths}

Pairs == {x \in Paths \X Paths : x[1] # x[2]}

PairSeqs == {<<x>> : x \in Pairs} \cup {<<x, y>> : x, y \in Pairs}

Contents == UNION {[1..n -> Values] : n \in 0..MaxBlocks}

NoArgs == [files |-> <<>>, pairs |-> <<>>, target |-> 0, total |-> 0]

Token(kind, path, val) ==
  [kind |-> kind, path |-> path, val |-> val, bad |-> {}, args |-> NoArgs]

NoPath == CHOOSE p \in Paths : TRUE

Msg(tag) == Token(tag, NoPath, 0)

Idle == [pc |-> "idle", file |-> NoPath, todo |-> <<>>, content |-> <<>>, errs |-> {},
         bytes |-> 0, done |-> 0, args |-> NoArgs, result |-> "none"]

(* ProgressTracker::default, made anew by every process_dl_loop.           *)
NewTracker == [anchor |-> 0, session |-> 0, emitted |-> 0, last |-> 0]

Init ==
  /\ h = [Idle EXCEPT !.pc = "dl_version"]
  /\ tracker = NewTracker
  /\ shown = [session |-> 0, overall |-> 0]
  /\ store = [p \in Paths |-> {}] /\ mirror = store /\ passed = {}
  /\ toHost = <<>> /\ toDevice = <<>>
  /\ dev = "greet" /\ ask = NoAsk /\ doubt = {} /\ asked = 0
  /\ broken = FALSE /\ misread = FALSE

-----------------------------------------------------------------------------
(* The two ends of the connection.  Nothing is said of what follows a      *)
(* misreading.                                                             *)

Say(tok) ==
  /\ ~misread /\ Len(toDevice) < MaxWire
  /\ toDevice' = Append(toDevice, tok)

Take ==
  /\ ~misread /\ toHost # <<>>
  /\ toHost' = Tail(toHost)

Kind == Head(toHost).kind

Args == Head(toHost).args

deviceSide == <<dev, ask, mirror, doubt, asked>>

progressVars == <<tracker, shown>>

backup == <<store, passed>>

Fail(result) ==
  /\ h' = [Idle EXCEPT !.result = result]
  /\ broken' = TRUE

-----------------------------------------------------------------------------
(* ProgressTracker.  Percentages are whole numbers here.                   *)

(* snapshot: what on_progress is given, and last_progress.                 *)
Overall(t, done, total, target) ==
  LET reached == IF total > 0 /\ done > total THEN total ELSE done
      frac    == IF total > 0 THEN ((target - t.anchor) * reached) \div total ELSE 0
      here    == IF target > t.anchor THEN t.anchor + frac ELSE t.anchor
  IN  IF here > t.last THEN here ELSE t.last

(* on_progress(tracker.snapshot(...)).                                     *)
Snapshot(t, bytes, done, total, target) ==
  /\ tracker' = [t EXCEPT !.last = Overall(t, done, total, target)]
  /\ shown' = [session |-> t.session + bytes, overall |-> Overall(t, done, total, target)]

(* Variant: the bytes of the batch are not added to the session.           *)
FinishBatchForgets(t, bytes, target) ==
  [t EXCEPT !.emitted = t.session + bytes, !.anchor = IF target > @ THEN target ELSE @]

FinishBatch(t, bytes, target) ==
  [t EXCEPT !.session = @ + bytes, !.emitted = t.session + bytes,
            !.anchor = IF target > @ THEN target ELSE @]

(* The batch is over: finish_batch and the closing snapshot.               *)
EndBatch(bytes, target) ==
  Snapshot(FinishBatch(tracker, bytes, target), 0, 0, 0, 0)

(* should_emit, with the snapshot that follows when it says so.            *)
MayEmit(bytes, done, total, target) ==
  IF tracker.session + bytes - tracker.emitted >= EmitBytes
  THEN Snapshot([tracker EXCEPT !.emitted = tracker.session + bytes], bytes, done, total, target)
  ELSE UNCHANGED progressVars

-----------------------------------------------------------------------------
(* Connecting: dl_version_exchange, then version_exchange.                 *)

DlVersionExchange ==
  /\ h.pc = "dl_version" /\ Take
  /\ IF Kind = "DLMessageVersionExchange"
     THEN /\ Say(Msg("DLVersionsOk"))
          /\ h' = [h EXCEPT !.pc = "dl_ready"]
          /\ UNCHANGED broken
     ELSE h' = [h EXCEPT !.pc = "failed"] /\ broken' = TRUE /\ UNCHANGED toDevice
  /\ UNCHANGED <<progressVars, backup, deviceSide, misread>>

DlDeviceReady ==
  /\ h.pc = "dl_ready" /\ Take
  /\ IF Kind = "DLMessageDeviceReady"
     THEN /\ Say(Msg("Hello"))
          /\ h' = [h EXCEPT !.pc = "hello"]
          /\ UNCHANGED broken
     ELSE h' = [h EXCEPT !.pc = "failed"] /\ broken' = TRUE /\ UNCHANGED toDevice
  /\ UNCHANGED <<progressVars, backup, deviceSide, misread>>

(* A Response with a non-zero ErrorCode or without ProtocolVersion fails.  *)
VersionExchange ==
  /\ h.pc = "hello" /\ Take
  /\ IF Kind = "Response"
     THEN h' = Idle /\ UNCHANGED broken
     ELSE h' = [h EXCEPT !.pc = "failed"] /\ broken' = TRUE
  /\ UNCHANGED <<progressVars, backup, toDevice, deviceSide, misread>>

-----------------------------------------------------------------------------
(* Operations of the host.                                                 *)

(* The operation sends its request and enters process_dl_loop.             *)
EnterLoop ==
  /\ Say(Msg("request"))
  /\ h' = [Idle EXCEPT !.pc = "loop"]
  /\ tracker' = NewTracker
  /\ shown' = [session |-> 0, overall |-> 0]
  /\ UNCHANGED <<backup, toHost, deviceSide, broken, misread>>

(* Returns before anything was sent.                                       *)
Refuse(result) ==
  /\ h' = [Idle EXCEPT !.result = result]
  /\ UNCHANGED <<progressVars, backup, toHost, toDevice, deviceSide, broken, misread>>

(* What decides whether an operation gets as far as its request: whether   *)
(* the caller named a source, whether the connection knows the device's    *)
(* identifier, and what the directory holds (0 nothing, 1 it exists, 2 a   *)
(* Manifest.plist, 3 all that assert_backup_exists asks for).              *)
Given == [source : BOOLEAN, udid : BOOLEAN, level : 0..3]

Named(g) == g.source \/ g.udid

Needs(g, least) == IF Named(g) /\ g.level >= least THEN "loop" ELSE "err"

(* info_from_path, list_from_path and extract_from_path unwrap the         *)
(* identifier even where the caller named a source.                        *)
UnwrapsUdid(g, least) == IF Needs(g, least) = "loop" /\ ~g.udid THEN "panic" ELSE Needs(g, least)

Begin(outcomes) ==
  /\ h.pc = "idle"
  /\ \E o \in outcomes : IF o = "loop" THEN EnterLoop ELSE Refuse(o)

BackupFromPath == Begin({Needs(g, 0) : g \in Given})

RestoreFromPath == Begin({Needs(g, 1) : g \in Given})

UnbackFromPath == Begin({Needs(g, 2) : g \in Given})

InfoFromPath == Begin({UnwrapsUdid(g, 3) : g \in Given})

ListFromPath == Begin({UnwrapsUdid(g, 3) : g \in Given})

ExtractFromPath == Begin({UnwrapsUdid(g, 2) : g \in Given})

ChangePasswordFromPath == Begin({IF g.udid THEN "loop" ELSE "err" : g \in Given})

EraseDeviceFromPath == ChangePasswordFromPath

(* request_backup_info, list_backups, start_backup, start_restore: the     *)
(* request of the operation above it, and one answer taken as it comes.    *)
StartCall ==
  /\ h.pc = "idle"
  /\ Say(Msg("request"))
  /\ h' = [Idle EXCEPT !.pc = "reply"]
  /\ UNCHANGED <<progressVars, backup, toHost, deviceSide, broken, misread>>

(* A DLMessageProcessMessage is the answer, whether it carries an          *)
(* ErrorCode or not; a request of the device is taken for one and lost.    *)
ReceiveReply ==
  /\ h.pc = "reply" /\ Take
  /\ CASE Kind = "DLMessageProcessMessage" ->
              h' = [Idle EXCEPT !.result = "ok"] /\ UNCHANGED <<broken, misread>>
       [] Kind = "ErrorCode" ->
              h' = [Idle EXCEPT !.result = "err"] /\ UNCHANGED <<broken, misread>>
       [] OTHER ->
              Fail("err") /\ misread' = TRUE
  /\ UNCHANGED <<progressVars, backup, toDevice, deviceSide>>

Disconnect ==
  /\ h.pc = "idle"
  /\ Say(Msg("DLMessageDisconnect"))
  /\ h' = [h EXCEPT !.pc = "left"]
  /\ UNCHANGED <<progressVars, backup, toHost, deviceSide, broken, misread>>

-----------------------------------------------------------------------------
(* process_dl_loop.                                                        *)

Streamed == {"dir", "zero", "name", "data", "success", "error"}

Loop(tag) ==
  /\ h.pc = "loop" /\ Take
  /\ Kind = tag

Status(code, bad) == [Token("status", NoPath, code) EXCEPT !.bad = bad]

(* The progress a message without a stream carries is applied at once.     *)
AfterMessage(target) ==
  IF target > 0 THEN EndBatch(0, target) ELSE UNCHANGED progressVars

(* DLMessageGetFreeDiskSpace, DLMessagePurgeDiskSpace, DLContentsOf-       *)
(* Directory, DLMessageCreateDirectory, and any tag the loop does not      *)
(* know: one status and nothing else.                                      *)
AnswerOnly ==
  /\ Loop("simple")
  /\ \E code \in {0, -1} : Say(Status(code, {}))
  /\ UNCHANGED <<h, progressVars, backup, deviceSide, broken, misread>>

(* The files after the first n renames; a rename of what is not there      *)
(* fails.                                                                  *)
Rename(s, from, to) ==
  IF from = to THEN s ELSE [s EXCEPT ![to] = s[from], ![from] = {}]

Renamed(s, pairs) ==
  LET after[n \in 0..Len(pairs)] ==
        IF n = 0 THEN s ELSE Rename(after[n - 1], pairs[n][1], pairs[n][2])
  IN  after[Len(pairs)]

MayRename(s, pairs, n) ==
  \A i \in 1..n : Renamed(s, SubSeq(pairs, 1, i - 1))[pairs[i][1]] # {}

Ends(pairs) == {x[1] : x \in ToSet(pairs)} \cup {x[2] : x \in ToSet(pairs)}

(* What was passed over goes where the file goes.                          *)
Tainted(bad, pairs) == IF bad \cap Ends(pairs) = {} THEN bad ELSE bad \cup Ends(pairs)

(* Variant: a rename that fails is reported like one that does not.        *)
MoveFilesAlwaysDone ==
  /\ Loop("move")
  /\ \E n \in 0..Len(Args.pairs) :
       /\ MayRename(store, Args.pairs, n)
       /\ store' = Renamed(store, SubSeq(Args.pairs, 1, n))
       /\ Say(Status(0, {}))
  /\ passed' = Tainted(passed, Args.pairs)
  /\ AfterMessage(Args.target)
  /\ UNCHANGED <<h, deviceSide, broken, misread>>

(* move_files_from_message stops at the first rename that fails.           *)
MoveFiles ==
  /\ Loop("move")
  /\ \E n \in 0..Len(Args.pairs) :
       /\ MayRename(store, Args.pairs, n)
       /\ store' = Renamed(store, SubSeq(Args.pairs, 1, n))
       /\ Say(Status(IF n = Len(Args.pairs) THEN 0 ELSE -1, {}))
  /\ passed' = Tainted(passed, Args.pairs)
  /\ AfterMessage(Args.target)
  /\ UNCHANGED <<h, deviceSide, broken, misread>>

Removed(s, gone) == [p \in Paths |-> IF p \in gone THEN {} ELSE s[p]]

(* remove_files_from_message skips what is not there, and what exists()    *)
(* cannot look up, and stops at the first removal that fails.              *)
RemoveFiles ==
  /\ Loop("remove")
  /\ \E n \in 0..Len(Args.files) :
       LET tried == ToSet(SubSeq(Args.files, 1, n))
       IN  \E unseen \in SUBSET {p \in tried : store[p] # {}} :
             /\ n < Len(Args.files) => store[Args.files[n + 1]] # {}
             /\ store' = Removed(store, tried \ unseen)
             /\ passed' = (passed \ tried) \cup unseen
             /\ Say(Status(IF n = Len(Args.files) THEN 0 ELSE -1, {}))
  /\ AfterMessage(Args.target)
  /\ UNCHANGED <<h, deviceSide, broken, misread>>

Copied(s, from, to) == [s EXCEPT ![to] = s[from]]

(* copy_item_from_message, of a file.                                      *)
CopyItem ==
  /\ Loop("copy")
  /\ LET from == Args.pairs[1][1]
         to   == Args.pairs[1][2]
     IN  \/ /\ store[from] # {}
            /\ store' = Copied(store, from, to)
            /\ passed' = Tainted(passed, Args.pairs)
            /\ Say(Status(0, {}))
         \/ Say(Status(-1, {})) /\ UNCHANGED backup
  /\ UNCHANGED <<h, progressVars, deviceSide, broken, misread>>

(* copy_item_from_message, of the directory that holds the first file of   *)
(* the pair: an empty directory is made for the second, and that is all.   *)
CopyDirectory ==
  /\ Loop("copy")
  /\ \/ Say(Status(0, {})) /\ passed' = passed \cup Ends(Args.pairs)
     \/ Say(Status(-1, {})) /\ UNCHANGED passed
  /\ UNCHANGED <<h, progressVars, store, deviceSide, broken, misread>>

(* DLMessageProcessMessage, with an ErrorCode or without, and              *)
(* DLMessageDisconnect end the loop.                                       *)
LoopReturns ==
  /\ \/ Loop("DLMessageProcessMessage")
     \/ Loop("ErrorCode")
     \/ Loop("DLMessageDisconnect")
  /\ h' = [Idle EXCEPT !.result = "ok"]
  /\ UNCHANGED <<progressVars, backup, toDevice, deviceSide, broken, misread>>

(* What is left of a stream an earlier error cut short is read as the      *)
(* length of a DL message.                                                 *)
LoopMisreads ==
  /\ h.pc = "loop" /\ Take
  /\ Kind \in Streamed
  /\ Fail("err")
  /\ misread' = TRUE
  /\ UNCHANGED <<progressVars, backup, toDevice, deviceSide>>

-----------------------------------------------------------------------------
(* handle_upload_files: files from the device.                             *)

UploadFiles ==
  /\ Loop("upload")
  /\ h' = [h EXCEPT !.pc = "dir", !.bytes = 0, !.args = Args]
  /\ UNCHANGED <<progressVars, backup, toDevice, deviceSide, broken, misread>>

UploadEnds ==
  /\ EndBatch(h.bytes, h.args.target)
  /\ Say(Status(0, {}))
  /\ h' = [h EXCEPT !.pc = "loop", !.bytes = 0, !.args = NoArgs]
  /\ UNCHANGED <<backup, broken, misread>>

(* A string where the code expects one, or a zero length which ends the    *)
(* batch; anything else is out of step.                                    *)
UploadString(at, expected, next) ==
  /\ h.pc = at /\ Take
  /\ CASE Kind = "zero" -> UploadEnds
       [] Kind = expected ->
            /\ h' = [h EXCEPT !.pc = next, !.file = Head(toHost).path]
            /\ UNCHANGED <<progressVars, backup, toDevice, broken, misread>>
       [] OTHER ->
            /\ Fail("err") /\ misread' = TRUE
            /\ UNCHANGED <<progressVars, backup, toDevice>>
  /\ UNCHANGED <<deviceSide>>

UploadDirName == UploadString("dir", "dir", "name")

UploadFileName == UploadString("name", "name", "first")

(* The file is complete as far as the host can tell: on_file_received.     *)
FileEnds ==
  /\ h' = [h EXCEPT !.pc = "dir", !.content = <<>>]
  /\ UNCHANGED <<progressVars, backup, broken, misread>>

(* One block.  At the first one the old file is removed and a new one      *)
(* created.                                                                *)
UploadBlock ==
  /\ h.pc \in {"first", "blocks"} /\ Take
  /\ CASE Kind = "zero" -> FileEnds
       [] Kind = "data" ->
            /\ store' = [store EXCEPT ![h.file] = {Append(h.content, Head(toHost).val)}]
            /\ passed' = passed \ {h.file}
            /\ h' = [h EXCEPT !.pc = "blocks", !.bytes = @ + 1,
                              !.content = Append(@, Head(toHost).val)]
            /\ MayEmit(h.bytes + 1, h.bytes + 1, h.args.total, h.args.target)
            /\ UNCHANGED <<broken, misread>>
       [] Kind \in {"success", "error"} ->
            /\ IF h.pc = "first"
               THEN store' = [store EXCEPT ![h.file] = {<<>>}] /\ passed' = passed \ {h.file}
               ELSE UNCHANGED backup
            /\ h' = [h EXCEPT !.pc = "dir", !.content = <<>>]
            /\ UNCHANGED <<progressVars, broken, misread>>
       [] OTHER ->
            /\ Fail("err") /\ misread' = TRUE
            /\ UNCHANGED <<progressVars, backup>>
  /\ UNCHANGED <<toDevice, deviceSide>>

(* The new file cannot be created, with the old one removed or not, or a   *)
(* block cannot be written: the call ends where it stands in the stream.   *)
UploadFails ==
  /\ h.pc \in {"first", "blocks"} /\ Take
  /\ \/ /\ h.pc = "first" /\ Kind \in {"data", "success", "error"}
        /\ \E left \in {store[h.file], {}, {<<>>}} : store' = [store EXCEPT ![h.file] = left]
     \/ h.pc = "blocks" /\ Kind = "data" /\ UNCHANGED store
  /\ Fail("err")
  /\ UNCHANGED <<progressVars, passed, toDevice, deviceSide, misread>>

-----------------------------------------------------------------------------
(* handle_download_files: files to the device.                             *)

DownloadFiles ==
  /\ Loop("download")
  /\ h' = [h EXCEPT !.pc = "file", !.todo = Args.files, !.args = Args, !.errs = {},
                    !.bytes = 0, !.done = 0]
  /\ UNCHANGED <<progressVars, backup, toDevice, deviceSide, broken, misread>>

(* send_single_file announces the name, then opens the file.               *)
SendName ==
  /\ h.pc = "file" /\ h.todo # <<>>
  /\ Say(Token("name", Head(h.todo), 0))
  /\ \/ /\ store[Head(h.todo)] # {}
        /\ \E c \in store[Head(h.todo)] : h' = [h EXCEPT !.pc = "send", !.content = c]
     \/ h' = [h EXCEPT !.pc = "fail"]
  /\ UNCHANGED <<progressVars, backup, toHost, deviceSide, broken, misread>>

SendBlock ==
  /\ h.pc = "send" /\ h.content # <<>>
  /\ \/ /\ Say(Token("data", NoPath, Head(h.content)))
        /\ h' = [h EXCEPT !.content = Tail(@), !.bytes = @ + 1]
        /\ MayEmit(h.bytes + 1, h.done, Len(h.args.files), h.args.target)
     \/ /\ h' = [h EXCEPT !.pc = "fail"]
        /\ UNCHANGED <<progressVars, toDevice>>
  /\ UNCHANGED <<backup, toHost, deviceSide, broken, misread>>

(* Variant: a file that failed is not put into the error dictionary.       *)
SendTrailerUnrecorded ==
  /\ h.pc = "fail" \/ (h.pc = "send" /\ h.content = <<>>)
  /\ Say(Token(IF h.pc = "fail" THEN "error" ELSE "success", NoPath, 0))
  /\ h' = [h EXCEPT !.pc = "file", !.todo = Tail(@), !.content = <<>>, !.done = @ + 1]
  /\ Snapshot(tracker, h.bytes, h.done + 1, Len(h.args.files), h.args.target)
  /\ UNCHANGED <<backup, toHost, deviceSide, broken, misread>>

(* The trailer of a file: DL_CODE_SUCCESS, or the block of                 *)
(* send_file_error, which also puts the file into the error dictionary.    *)
SendTrailer ==
  /\ h.pc = "fail" \/ (h.pc = "send" /\ h.content = <<>>)
  /\ Say(Token(IF h.pc = "fail" THEN "error" ELSE "success", NoPath, 0))
  /\ h' = [h EXCEPT !.pc = "file", !.todo = Tail(@), !.content = <<>>, !.done = @ + 1,
                    !.errs = IF h.pc = "fail" THEN @ \cup {Head(h.todo)} ELSE @]
  /\ Snapshot(tracker, h.bytes, h.done + 1, Len(h.args.files), h.args.target)
  /\ UNCHANGED <<backup, toHost, deviceSide, broken, misread>>

DownloadEnds ==
  /\ h.pc = "file" /\ h.todo = <<>>
  /\ ~misread /\ Len(toDevice) + 1 < MaxWire
  /\ toDevice' = toDevice \o <<Msg("zero"), Status(IF h.errs = {} THEN 0 ELSE -13, h.errs)>>
  /\ EndBatch(h.bytes, h.args.target)
  /\ h' = [h EXCEPT !.pc = "loop", !.bytes = 0, !.errs = {}, !.done = 0,
                    !.args = NoArgs]
  /\ UNCHANGED <<backup, toHost, deviceSide, broken, misread>>

-----------------------------------------------------------------------------
(* The device.                                                             *)

hostSide == <<h, progressVars, backup, broken>>

Tell(tok) ==
  /\ ~misread /\ Len(toHost) < MaxWire
  /\ toHost' = Append(toHost, tok)

Hear ==
  /\ ~misread /\ toDevice # <<>>
  /\ toDevice' = Tail(toDevice)

DeviceGreets ==
  /\ dev = "greet"
  /\ \E k \in {"DLMessageVersionExchange"} \cup (IF Rejecting THEN {"simple"} ELSE {}) :
       Tell(Msg(k))
  /\ dev' = "versions"
  /\ UNCHANGED <<hostSide, toDevice, ask, mirror, doubt, asked, misread>>

(* What the device answers to the host's own messages, and where it goes.  *)
DeviceHears ==
  /\ Hear
  /\ LET k == Head(toDevice).kind
         no(msg) == IF Rejecting THEN {msg} ELSE {}
     IN  \/ /\ dev = "versions" /\ k = "DLVersionsOk"
            /\ \E m \in {"DLMessageDeviceReady"} \cup no("simple") : Tell(Msg(m))
            /\ dev' = "hello"
         \/ /\ dev = "hello" /\ k = "Hello"
            /\ \E m \in {"Response"} \cup no("ErrorCode") : Tell(Msg(m))
            /\ dev' = "idle"
         \/ dev = "idle" /\ k = "request" /\ dev' = "loop" /\ UNCHANGED toHost
         \/ k = "DLMessageDisconnect" /\ dev' = "gone" /\ UNCHANGED toHost
  /\ UNCHANGED <<hostSide, ask, mirror, doubt, asked, misread>>

(* A request of the loop, to be answered by a status.                      *)
DeviceAsks ==
  /\ dev = "loop" /\ asked < MaxRequests
  /\ asked' = asked + 1
  /\ \E tag \in {"simple", "move", "remove", "copy", "upload", "download"}, target \in Targets :
       /\ \E fs \in IF tag \in {"remove", "download"} THEN FileSeqs ELSE {<<>>},
             ps \in CASE tag = "move" -> PairSeqs
                      [] tag = "copy" -> {<<x>> : x \in Pairs}
                      [] OTHER -> {<<>>},
             tot \in IF tag = "upload" THEN Totals ELSE {0} :
            /\ ask' = [NoAsk EXCEPT !.tag = tag, !.files = fs, !.pairs = ps]
            /\ Tell([Msg(tag) EXCEPT !.args =
                       [files |-> fs, pairs |-> ps, total |-> tot,
                        target |-> IF tag \in {"simple", "copy"} THEN 0 ELSE target]])
       /\ dev' = CASE tag = "upload" -> "dir"
                   [] tag = "download" -> "files"
                   [] OTHER -> "status"
  /\ UNCHANGED <<hostSide, toDevice, mirror, doubt, misread>>

DeviceEndsLoop ==
  /\ dev = "loop"
  /\ \E k \in {"DLMessageProcessMessage", "ErrorCode", "DLMessageDisconnect"} : Tell(Msg(k))
  /\ dev' = "idle" /\ ask' = NoAsk
  /\ UNCHANGED <<hostSide, toDevice, mirror, doubt, asked, misread>>

(* The stream of an upload.  A file ends with success, with an error, or   *)
(* with a zero length; a zero length in place of a name ends the batch.    *)
DeviceUploads ==
  /\ \/ /\ dev = "dir"
        /\ \/ Tell(Msg("zero")) /\ dev' = "status"
           \/ Tell(Msg("dir")) /\ dev' = "name"
        /\ UNCHANGED <<ask, mirror, doubt, asked>>
     \/ /\ dev = "name"
        /\ \/ Tell(Msg("zero")) /\ dev' = "status" /\ UNCHANGED <<ask, asked>>
           \/ \E p \in Paths :
                /\ asked < MaxRequests /\ asked' = asked + 1
                /\ Tell(Token("name", p, 0)) /\ dev' = "blocks"
                /\ ask' = [ask EXCEPT !.files = <<p>>, !.got = <<>>]
        /\ UNCHANGED <<mirror, doubt>>
     \/ /\ dev = "blocks" /\ Len(ask.got) < MaxBlocks
        /\ \E v \in Values :
             /\ Tell(Token("data", NoPath, v))
             /\ ask' = [ask EXCEPT !.got = Append(@, v)]
        /\ UNCHANGED <<dev, mirror, doubt, asked>>
     \/ /\ dev = "blocks"
        /\ LET p == Head(ask.files)
           IN  \/ /\ Tell(Msg("success"))
                  /\ mirror' = [mirror EXCEPT ![p] = {ask.got}]
                  /\ doubt' = doubt \ {p}
               \/ Tell(Msg("error")) /\ doubt' = doubt \cup {p} /\ UNCHANGED mirror
               \/ /\ Tell(Msg("zero"))
                  /\ mirror' = IF ask.got = <<>> THEN mirror ELSE [mirror EXCEPT ![p] = {ask.got}]
                  /\ doubt' = IF ask.got = <<>> THEN doubt ELSE doubt \ {p}
        /\ dev' = "dir" /\ UNCHANGED <<ask, asked>>
  /\ UNCHANGED <<hostSide, toDevice, misread>>

(* The stream of a download, read the way it is written: a name, blocks    *)
(* and a trailer, again and again, then a zero length.                     *)
DeviceDownloads ==
  /\ dev \in {"files", "content"} /\ Hear
  /\ LET tok == Head(toDevice)
     IN  CASE dev = "files" /\ tok.kind = "name" /\ ask.files # <<>> /\ tok.path = Head(ask.files) ->
                dev' = "content" /\ ask' = [ask EXCEPT !.got = <<>>] /\ UNCHANGED misread
           [] dev = "files" /\ tok.kind = "zero" /\ ask.files = <<>> ->
                dev' = "status" /\ UNCHANGED <<ask, misread>>
           [] dev = "content" /\ tok.kind = "data" ->
                ask' = [ask EXCEPT !.got = Append(@, tok.val)] /\ UNCHANGED <<dev, misread>>
           [] dev = "content" /\ tok.kind = "success" /\ store[Head(ask.files)] = {ask.got} ->
                dev' = "files" /\ ask' = [ask EXCEPT !.files = Tail(@)] /\ UNCHANGED misread
           [] dev = "content" /\ tok.kind = "error" ->
                /\ dev' = "files"
                /\ ask' = [ask EXCEPT !.files = Tail(@), !.bad = @ \cup {Head(ask.files)}]
                /\ UNCHANGED misread
           [] OTHER -> misread' = TRUE /\ UNCHANGED <<dev, ask>>
  /\ UNCHANGED <<hostSide, toHost, mirror, doubt, asked>>

(* What a request that succeeded makes of the mirror, and what is in doubt *)
(* once its status is known.                                               *)
Touched == ToSet(ask.files) \cup Ends(ask.pairs)

Applied == CASE ask.tag = "move" -> Renamed(mirror, ask.pairs)
             [] ask.tag = "remove" -> Removed(mirror, ToSet(ask.files))
             [] ask.tag = "copy" -> Copied(mirror, ask.pairs[1][1], ask.pairs[1][2])
             [] OTHER -> mirror

Doubtful(ok) ==
  CASE ask.tag \notin {"move", "remove", "copy"} -> doubt
    [] ask.tag \in {"move", "remove", "copy"} /\ ~ok -> doubt \cup Touched
    [] ask.tag = "remove" /\ ok -> doubt \ Touched
    [] ask.tag \in {"move", "copy"} /\ ok ->
         IF doubt \cap Touched = {} THEN doubt ELSE doubt \cup Touched

(* The status of a request.  What succeeded is applied to the mirror, what *)
(* failed is in doubt; a multi status must name the files that failed.     *)
DeviceTakesStatus ==
  /\ dev = "status" /\ Hear
  /\ LET tok == Head(toDevice)
         ok  == tok.kind = "status" /\ tok.val = 0
     IN  /\ misread' = (misread \/ tok.kind # "status" \/ tok.bad # ask.bad
                          \/ (ok # (ask.bad = {}) /\ ask.tag = "download"))
         /\ mirror' = IF ok THEN Applied ELSE mirror
         /\ doubt' = Doubtful(ok)
  /\ dev' = "loop" /\ ask' = NoAsk
  /\ UNCHANGED <<hostSide, toHost, asked>>

(* A message the device does not expect where it is: the host started an   *)
(* operation after an error while the device is still in the last one.     *)
DeviceMisreads ==
  /\ Hear
  /\ LET k == Head(toDevice).kind
     IN  \/ dev \in {"loop", "dir", "name", "blocks"}
         \/ dev = "idle" /\ k \notin {"request", "DLMessageDisconnect"}
  /\ Head(toDevice).kind # "DLMessageDisconnect"
  /\ misread' = TRUE
  /\ UNCHANGED <<hostSide, toHost, dev, ask, mirror, doubt, asked>>

(* The socket fails under a read of the client.                            *)
SocketError ==
  /\ h.pc \notin {"idle", "left", "failed"}
  /\ IF h.pc \in {"dl_version", "dl_ready", "hello"}
     THEN h' = [h EXCEPT !.pc = "failed"] /\ broken' = TRUE
     ELSE Fail("err")
  /\ dev' = "gone" /\ toHost' = <<>> /\ toDevice' = <<>>
  /\ UNCHANGED <<progressVars, backup, ask, mirror, doubt, asked, misread>>

(* The future of an operation is dropped.                                  *)
DropOperation ==
  /\ h.pc \notin {"idle", "left", "failed"}
  /\ IF h.pc \in {"dl_version", "dl_ready", "hello"}
     THEN h' = [h EXCEPT !.pc = "failed"] /\ broken' = TRUE
     ELSE Fail("none")
  /\ UNCHANGED <<progressVars, backup, toHost, toDevice, deviceSide, misread>>

-----------------------------------------------------------------------------
HostNext ==
  \/ DlVersionExchange \/ DlDeviceReady \/ VersionExchange
  \/ BackupFromPath \/ RestoreFromPath \/ UnbackFromPath
  \/ InfoFromPath \/ ListFromPath \/ ExtractFromPath
  \/ ChangePasswordFromPath \/ EraseDeviceFromPath
  \/ StartCall \/ ReceiveReply \/ Disconnect
  \/ AnswerOnly \/ MoveFiles \/ RemoveFiles \/ CopyItem \/ CopyDirectory
  \/ LoopReturns \/ LoopMisreads
  \/ UploadFiles \/ UploadDirName \/ UploadFileName \/ UploadBlock \/ UploadFails
  \/ DownloadFiles \/ SendName \/ SendBlock \/ SendTrailer \/ DownloadEnds
  \/ SocketError \/ DropOperation

DeviceNext ==
  \/ DeviceGreets \/ DeviceHears \/ DeviceAsks \/ DeviceEndsLoop \/ DeviceUploads
  \/ DeviceDownloads \/ DeviceTakesStatus \/ DeviceMisreads

Next == HostNext \/ DeviceNext

Spec == Init /\ [][Next]_vars

-----------------------------------------------------------------------------
(* Every variable has its type.                                            *)
TypeOK ==
  /\ h.pc \in {"dl_version", "dl_ready", "hello", "idle", "loop", "reply", "left", "failed",
               "dir", "name", "first", "blocks", "file", "send", "fail"}
  /\ h.file \in Paths /\ h.errs \subseteq Paths /\ h.bytes \in Nat /\ h.done \in Nat
  /\ h.result \in {"none", "ok", "err", "panic"}
  /\ tracker \in [anchor : 0..100, session : Nat, emitted : Nat, last : 0..100]
  /\ shown \in [session : Nat, overall : 0..100]
  /\ \A p \in Paths : store[p] \subseteq Contents /\ Cardinality(store[p]) <= 1
  /\ doubt \subseteq Paths /\ passed \subseteq Paths /\ asked \in 0..MaxRequests
  /\ broken \in BOOLEAN /\ misread \in BOOLEAN

(* Host and device stay in step: as long as no operation has failed or was *)
(* dropped on the connection, no step of either takes a piece of a stream  *)
(* for a message or for another piece, every request gets the one status   *)
(* it asks for, a file reaches the device as it is on disk, and a multi    *)
(* status names exactly the files whose transfer ended in an error.  The   *)
(* calls that wait for one answer are out: start_backup sends the message  *)
(* of backup_from_path, and takes a request the device makes in its loop   *)
(* for the answer.                                                         *)
StaysInStep == [][misread' => misread \/ broken \/ h.pc = "reply"]_vars

(* Between two requests the backup directory holds what the device         *)
(* believes it to hold, for every file whose last change the host did not  *)
(* report as failed, nor pass over.  It passes over two things alone: a    *)
(* removal of a file that exists() cannot look up, and a copy of the files *)
(* in a directory.                                                         *)
BackupIsWhatDeviceBelieves ==
  dev = "loop" /\ ~broken => \A p \in Paths \ (doubt \cup passed) : store[p] = mirror[p]

(* Within one operation the progress handed to on_progress never falls,    *)
(* neither the bytes of the session nor the percentage, across batches in  *)
(* either direction.                                                       *)
ProgressNeverFalls ==
  [][h.pc # "idle" => /\ shown'.session >= shown.session
                      /\ shown'.overall >= shown.overall]_vars
=============================================================================
