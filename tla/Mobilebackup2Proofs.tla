------------------------ MODULE Mobilebackup2Proofs ------------------------
(***************************************************************************)
(* Proofs about the backup service, for any files, any number of requests, *)
(* blocks of any number per file and any number of tokens under way.       *)
(*                                                                         *)
(* Progress needs little: what was shown is never ahead of the tracker.    *)
(*                                                                         *)
(* That both ends stay in step needs the whole dialogue.  Dialogue lists   *)
(* the pairs of positions of host and device with what is under way between*)
(* them.  While a stream runs, one end is ahead of the other by as many    *)
(* steps as there are tokens on the wire, so the invariant has a sequence  *)
(* of views, the states the end behind will pass through: the first is     *)
(* where it is now, the last is where the other end is, and each token of  *)
(* the wire leads from one view to the next.  Taking a token drops the     *)
(* first view, sending one appends a view.                                 *)
(***************************************************************************)
EXTENDS Mobilebackup2, WellFoundedInduction, SequenceTheorems, TLAPS

USE DEF backup

-----------------------------------------------------------------------------
(* Types.  A block has a value, and a copy names what it copies.  The      *)
(* history passed is only taken away from Paths, and needs no type.        *)

Files == [Paths -> SUBSET Seq(Values)]

Single(s) == \A p \in Paths : \A c, d \in s[p] : c = d

Arguments == [files : Seq(Paths), pairs : Seq(Pairs), target : Nat, total : Nat]

Codes == Values \cup {0, -1, -13}

Kinds == {"DLMessageVersionExchange", "DLVersionsOk", "DLMessageDeviceReady", "Hello",
          "Response", "ErrorCode", "request", "DLMessageProcessMessage",
          "DLMessageDisconnect", "simple", "move", "remove", "copy", "upload", "download",
          "dir", "zero", "name", "data", "success", "error", "status"}

Tokens == {t \in [kind : Kinds, path : Paths, val : Codes, bad : SUBSET Paths,
                  args : Arguments] :
             /\ t.kind = "data" => t.val \in Values
             /\ t.kind = "copy" => t.args.pairs # <<>>}

Positions == {"dl_version", "dl_ready", "hello", "idle", "loop", "reply", "left", "failed",
              "dir", "name", "first", "blocks", "file", "send", "fail"}

HostStates == [pc : Positions, file : Paths, todo : Seq(Paths), content : Seq(Values),
               errs : SUBSET Paths, bytes : Nat, done : Nat, args : Arguments,
               result : {"none", "ok", "err", "panic"}]

Requests == [tag : {"none", "simple", "move", "remove", "copy", "upload", "download"},
             files : Seq(Paths), pairs : Seq(Pairs), got : Seq(Values), bad : SUBSET Paths]

HostOK ==
  /\ h \in HostStates
  /\ h.pc \in {"send", "fail"} => h.todo # <<>>
  /\ h.pc \notin {"send", "fail", "blocks"} => h.content = <<>>

ProgressOK ==
  /\ tracker \in [anchor : Int, session : Int, emitted : Int, last : Int]
  /\ shown \in [session : Int, overall : Int]

StoreOK ==
  /\ store \in Files
  /\ Single(store)

WiresOK == toHost \in Seq(Tokens) /\ toDevice \in Seq(Tokens)

DeviceOK ==
  /\ dev \in {"greet", "versions", "hello", "idle", "loop", "gone", "dir", "name", "blocks",
              "files", "content", "status"}
  /\ ask \in Requests /\ mirror \in Files /\ doubt \subseteq Paths
  /\ dev \in {"blocks", "content"} => ask.files # <<>>
  /\ ask.tag = "copy" => ask.pairs # <<>>

TypeInv ==
  /\ HostOK /\ ProgressOK /\ StoreOK /\ WiresOK /\ DeviceOK
  /\ broken \in BOOLEAN /\ misread \in BOOLEAN

-----------------------------------------------------------------------------
(* The dialogue.  As long as no operation has failed, the two ends are at  *)
(* positions that belong together, and what is under way leads from one to *)
(* the other.                                                              *)

Agree(m, d) == \A p \in Paths \ (d \cup passed) : store[p] = m[p]

At(p, d) == h.pc = p /\ dev = d

Silent == toHost = <<>> /\ toDevice = <<>>

(* One message is under way, to the host or to the device.                 *)
HostMail(kinds) ==
  /\ toDevice = <<>> /\ Len(toHost) = 1 /\ toHost[1].kind \in kinds

DeviceMail(kind) ==
  /\ toHost = <<>> /\ Len(toDevice) = 1 /\ toDevice[1].kind = kind

(* Connecting, and between operations.                                     *)
Connecting ==
  \/ At("dl_version", "greet") /\ Silent
  \/ At("dl_version", "versions") /\ HostMail(Kinds)
  \/ At("dl_ready", "versions") /\ DeviceMail("DLVersionsOk")
  \/ At("dl_ready", "hello") /\ HostMail(Kinds)
  \/ At("hello", "hello") /\ DeviceMail("Hello")
  \/ At("hello", "idle") /\ HostMail(Kinds)

Endings == {"DLMessageProcessMessage", "ErrorCode", "DLMessageDisconnect"}

Resting ==
  \/ At("idle", "idle") /\ Silent
  \/ At("reply", "idle") /\ DeviceMail("request")
  \/ At("reply", "loop") /\ Silent
  \/ At("reply", "idle") /\ HostMail(Endings)
  \/ At("left", "idle") /\ DeviceMail("DLMessageDisconnect")
  \/ At("left", "gone") /\ Silent

(* In process_dl_loop, without a request of the device.                    *)
Looping ==
  \/ At("loop", "idle") /\ DeviceMail("request")
  \/ At("loop", "loop") /\ Silent
  \/ At("loop", "idle") /\ HostMail(Endings)

(* The device is in its loop and has made a request, while the host waits  *)
(* for one answer.                                                         *)
RequestTags == {"simple", "move", "remove", "copy", "upload", "download"}

Mismatched ==
  /\ h.pc = "reply" /\ toDevice = <<>>
  /\ toHost # <<>> /\ toHost[1].kind \in RequestTags
  /\ dev \in {"status", "files", "dir", "name", "blocks"}

(* A request that one status answers, before the host has served it.       *)
Requested ==
  /\ At("loop", "status") /\ ask.bad = {}
  /\ ask.tag \in {"simple", "move", "remove", "copy"}
  /\ ask.tag = "remove" => ask.pairs = <<>>
  /\ HostMail({ask.tag})
  /\ toHost[1].args.files = ask.files /\ toHost[1].args.pairs = ask.pairs

(* The status is under way; the directory is what the device will believe. *)
Answered ==
  /\ At("loop", "status") /\ ask.bad = {}
  /\ ask.tag \in {"simple", "move", "remove", "copy", "upload"}
  /\ DeviceMail("status") /\ toDevice[1].bad = {}
  /\ LET ok == toDevice[1].val = 0
     IN  Agree(IF ok THEN Applied ELSE mirror, Doubtful(ok))

(* An upload: views are the states of the device from the one the host has *)
(* reached to the present one, a token of the stream between each two.     *)
UploadViews == [phase : {"loop", "dir", "name", "blocks", "status"}, file : Paths,
                got : Seq(Values), mirror : Files, doubt : SUBSET Paths]

Same(u, w) == w.mirror = u.mirror /\ w.doubt = u.doubt

Received(u, w) ==
  w.mirror = [u.mirror EXCEPT ![u.file] = {u.got}] /\ w.doubt = u.doubt \ {u.file}

UploadStep(u, t, w) ==
  \/ u.phase = "loop" /\ t.kind = "upload" /\ w.phase = "dir" /\ Same(u, w)
  \/ u.phase = "dir" /\ t.kind = "zero" /\ w.phase = "status" /\ Same(u, w)
  \/ u.phase = "dir" /\ t.kind = "dir" /\ w.phase = "name" /\ Same(u, w)
  \/ u.phase = "name" /\ t.kind = "zero" /\ w.phase = "status" /\ Same(u, w)
  \/ /\ u.phase = "name" /\ t.kind = "name" /\ w.phase = "blocks" /\ Same(u, w)
     /\ w.file = t.path /\ w.got = <<>>
  \/ /\ u.phase = "blocks" /\ t.kind = "data" /\ w.phase = "blocks" /\ Same(u, w)
     /\ w.file = u.file /\ w.got = Append(u.got, t.val)
  \/ u.phase = "blocks" /\ t.kind = "success" /\ w.phase = "dir" /\ Received(u, w)
  \/ /\ u.phase = "blocks" /\ t.kind = "error" /\ w.phase = "dir"
     /\ w.mirror = u.mirror /\ w.doubt = u.doubt \cup {u.file}
  \/ /\ u.phase = "blocks" /\ t.kind = "zero" /\ w.phase = "dir"
     /\ IF u.got = <<>> THEN Same(u, w) ELSE Received(u, w)

HostSees(u) ==
  \/ /\ u.phase \in {"loop", "dir", "name"} /\ h.pc = u.phase
     /\ h.content = <<>> /\ Agree(u.mirror, u.doubt)
  \/ /\ u.phase = "blocks" /\ u.got = <<>> /\ h.pc = "first" /\ h.file = u.file
     /\ h.content = <<>> /\ Agree(u.mirror, u.doubt)
  \/ /\ u.phase = "blocks" /\ u.got # <<>> /\ h.pc = "blocks" /\ h.file = u.file
     /\ h.content = u.got /\ store[u.file] = {u.got}
     /\ Agree(u.mirror, u.doubt \cup {u.file})

DeviceIs(u) ==
  /\ u.phase = dev /\ u.mirror = mirror /\ u.doubt = doubt
  /\ dev = "blocks" => ask.files = <<u.file>> /\ ask.got = u.got

UploadPath(v) ==
  /\ v \in Seq(UploadViews) /\ Len(v) = Len(toHost) + 1
  /\ HostSees(v[1]) /\ DeviceIs(v[Len(v)])
  /\ \A i \in 1..Len(toHost) : UploadStep(v[i], toHost[i], v[i + 1])

Uploading ==
  /\ ask.tag = "upload" /\ ask.bad = {} /\ toDevice = <<>> /\ dev # "loop"
  /\ \E v : UploadPath(v)

(* A download: here the host is ahead, and views are its own states.       *)
DownloadViews == [phase : {"files", "content", "status", "loop"}, files : Seq(Paths),
                  got : Seq(Values), bad : SUBSET Paths]

DownloadStep(u, t, w) ==
  \/ /\ u.phase = "files" /\ u.files # <<>> /\ t.kind = "name" /\ t.path = Head(u.files)
     /\ w.phase = "content" /\ w.files = u.files /\ w.got = <<>> /\ w.bad = u.bad
  \/ /\ u.phase = "content" /\ t.kind = "data"
     /\ w.phase = "content" /\ w.files = u.files /\ w.got = Append(u.got, t.val)
     /\ w.bad = u.bad
  \/ /\ u.phase = "content" /\ t.kind = "success" /\ store[Head(u.files)] = {u.got}
     /\ w.phase = "files" /\ w.files = Tail(u.files) /\ w.bad = u.bad
  \/ /\ u.phase = "content" /\ t.kind = "error"
     /\ w.phase = "files" /\ w.files = Tail(u.files) /\ w.bad = u.bad \cup {Head(u.files)}
  \/ /\ u.phase = "files" /\ u.files = <<>> /\ t.kind = "zero"
     /\ w.phase = "status" /\ w.bad = u.bad
  \/ /\ u.phase = "status" /\ t.kind = "status" /\ t.bad = u.bad
     /\ t.val = 0 <=> u.bad = {}
     /\ w.phase = "loop"

HostIs(u) ==
  \/ h.pc = "file" /\ u.phase = "files" /\ u.files = h.todo /\ u.bad = h.errs
  \/ /\ h.pc = "send" /\ u.phase = "content" /\ u.files = h.todo /\ u.bad = h.errs
     /\ store[Head(h.todo)] = {u.got \o h.content}
  \/ h.pc = "fail" /\ u.phase = "content" /\ u.files = h.todo /\ u.bad = h.errs
  \/ h.pc = "loop" /\ u.phase = "loop"

DeviceSees(u) ==
  /\ u.phase = dev /\ u.bad = ask.bad
  /\ dev \in {"files", "content"} => u.files = ask.files
  /\ dev = "content" => u.got = ask.got

DownloadPath(v) ==
  /\ v \in Seq(DownloadViews) /\ Len(v) = Len(toDevice) + 1
  /\ DeviceSees(v[1]) /\ HostIs(v[Len(v)])
  /\ \A i \in 1..Len(toDevice) : DownloadStep(v[i], toDevice[i], v[i + 1])

Downloading ==
  /\ ask.tag = "download"
  /\ \/ /\ At("loop", "files") /\ HostMail({"download"})
        /\ toHost[1].args.files = ask.files /\ ask.bad = {}
     \/ toHost = <<>> /\ dev # "loop" /\ \E v : DownloadPath(v)

Dialogue ==
  \/ Agree(mirror, doubt) /\ (Connecting \/ Resting \/ Looping \/ Requested \/ Downloading)
  \/ Answered
  \/ Uploading
  \/ Mismatched

StepInv == ~broken => ~misread /\ Dialogue

(* Progress: what was shown is not ahead of the tracker.                   *)
InLoop == h.pc \in {"loop", "dir", "name", "first", "blocks", "file", "send", "fail"}

ProgressInv ==
  InLoop => /\ shown.session <= tracker.session + h.bytes
            /\ shown.overall <= tracker.last
            /\ h.pc = "loop" => h.bytes = 0

-----------------------------------------------------------------------------
(* move_files_from_message.  Renamed is a fold; what it computes is proved *)
(* by induction over the pairs, in the form of a least counterexample.     *)

(* A set of numbers that is not empty has a least element.                 *)
LEMMA LeastNumber ==
  ASSUME NEW T, T \subseteq Nat, T # {}
  PROVE  \E n \in T : \A m \in T : ~(m < n)
<1> DEFINE R == {p \in Nat \X Nat : p[1] < p[2]}
<1>1. IsWellFoundedOn(R, Nat)
  <2>1. IsWellFoundedOn(OpToRel(<, Nat), Nat)
    BY NatLessThanWellFounded
  <2>2. OpToRel(<, Nat) = R
    BY DEF OpToRel
  <2> QED BY <2>1, <2>2
<1>2. \E n \in T : \A m \in T : ~ (<<m, n>> \in R)
  BY <1>1, WFMin
<1> QED BY <1>2

LEMMA OneRename ==
  ASSUME NEW s \in Files, NEW from \in Paths, NEW to \in Paths
  PROVE  /\ Rename(s, from, to) \in Files
         /\ Single(s) => Single(Rename(s, from, to))
         /\ \A p \in Paths : p # from /\ p # to => Rename(s, from, to)[p] = s[p]
         /\ from # to => Rename(s, from, to)[to] = s[from] /\ Rename(s, from, to)[from] = {}
<1> USE DEF Files
<1>1. CASE from = to
  BY <1>1 DEF Rename
<1>2. CASE from # to
  <2> DEFINE r == Rename(s, from, to)
  <2>1. r = [s EXCEPT ![to] = s[from], ![from] = {}]
    BY <1>2 DEF Rename
  <2>2. /\ r \in Files /\ r[to] = s[from] /\ r[from] = {}
        /\ \A p \in Paths : p # from /\ p # to => r[p] = s[p]
    BY <1>2, <2>1
  <2>3. Single(s) => Single(r)
    <3> HIDE DEF r
    <3> SUFFICES ASSUME Single(s), NEW p \in Paths, NEW c \in r[p], NEW d \in r[p] PROVE c = d
      BY DEF Single
    <3>1. r[p] = s[p] \/ r[p] = s[from] \/ r[p] = {}
      BY <2>2
    <3> QED BY <3>1 DEF Single
  <2> QED BY <1>2, <2>2, <2>3
<1> QED BY <1>1, <1>2

(* f holds the files after each of the first k renames.                    *)
Renames(f, s, pairs, k) ==
  f = [n \in 0..k |-> IF n = 0 THEN s ELSE Rename(f[n - 1], pairs[n][1], pairs[n][2])]

LEMMA RenamesExist ==
  ASSUME NEW s, NEW pairs \in Seq(Pairs), NEW k \in 0..Len(pairs)
  PROVE  \E f : Renames(f, s, pairs, k)
<1> DEFINE T == {i \in 0..Len(pairs) : ~ \E f : Renames(f, s, pairs, i)}
<1>1. SUFFICES ASSUME T # {} PROVE FALSE
  OBVIOUS
<1>2. Len(pairs) \in Nat /\ T \subseteq Nat
  OBVIOUS
<1>3. PICK i \in T : \A m \in T : ~(m < i)
  BY <1>1, <1>2, LeastNumber
<1>4. CASE i = 0
  <2>1. Renames([n \in 0..0 |-> s], s, pairs, 0)
    BY DEF Renames
  <2> QED BY <2>1, <1>3, <1>4
<1>5. CASE i # 0
  <2>1. i - 1 \in 0..Len(pairs) /\ i - 1 < i /\ i \in Nat \ {0}
    BY <1>2, <1>3, <1>5
  <2>2. PICK g : Renames(g, s, pairs, i - 1)
    BY <2>1, <1>3
  <2> DEFINE f == [n \in 0..i |-> IF n = i THEN Rename(g[i - 1], pairs[i][1], pairs[i][2])
                                          ELSE g[n]]
  <2>3. \A n \in 0..(i - 1) : f[n] = g[n]
    BY <2>1
  <2>4. \A n \in 0..(i - 1) :
          g[n] = IF n = 0 THEN s ELSE Rename(g[n - 1], pairs[n][1], pairs[n][2])
    BY <2>1, <2>2 DEF Renames
  <2>5. \A n \in 0..i :
          f[n] = IF n = 0 THEN s ELSE Rename(f[n - 1], pairs[n][1], pairs[n][2])
    <3> TAKE n \in 0..i
    <3>1. CASE n = i
      BY <3>1, <2>1, <2>3
    <3>2. CASE n # i
      <4>1. n \in 0..(i - 1) /\ (n # 0 => n - 1 \in 0..(i - 1))
        BY <3>2, <2>1
      <4> QED BY <4>1, <2>3, <2>4
    <3> QED BY <3>1, <3>2
  <2>6. f = [n \in 0..i |-> f[n]]
    OBVIOUS
  <2> HIDE DEF f
  <2>7. Renames(f, s, pairs, i)
    BY <2>5, <2>6 DEF Renames
  <2> QED BY <2>7, <1>3
<1> QED BY <1>4, <1>5

LEMMA RenamedIs ==
  ASSUME NEW s, NEW pairs \in Seq(Pairs)
  PROVE  \E f : Renames(f, s, pairs, Len(pairs)) /\ Renamed(s, pairs) = f[Len(pairs)]
<1> DEFINE after[n \in 0..Len(pairs)] ==
             IF n = 0 THEN s ELSE Rename(after[n - 1], pairs[n][1], pairs[n][2])
<1>1. Renamed(s, pairs) = after[Len(pairs)]
  BY DEF Renamed
<1>2. Len(pairs) \in 0..Len(pairs)
  OBVIOUS
<1>3. \E f : Renames(f, s, pairs, Len(pairs))
  BY <1>2, RenamesExist
<1>4. after = CHOOSE f : Renames(f, s, pairs, Len(pairs))
  BY DEF Renames
<1>5. Renames(after, s, pairs, Len(pairs))
  <2> HIDE DEF after
  <2> QED BY <1>3, <1>4
<1> HIDE DEF after
<1> QED BY <1>1, <1>5

(* The paths that a sequence of renames is about.                          *)
LEMMA PairEnds ==
  ASSUME NEW pairs \in Seq(Pairs), NEW n \in 1..Len(pairs)
  PROVE  /\ pairs[n][1] \in Paths /\ pairs[n][2] \in Paths
         /\ pairs[n][1] \in Ends(pairs) /\ pairs[n][2] \in Ends(pairs)
<1>1. pairs[n] \in Pairs /\ pairs[n] \in ToSet(pairs)
  BY DEF ToSet
<1> QED BY <1>1 DEF Pairs, Ends

(* What renames keep of a directory: the types, and what they leave alone. *)
LEMMA RenamedKeeps ==
  ASSUME NEW s \in Files, NEW pairs \in Seq(Pairs)
  PROVE  /\ Renamed(s, pairs) \in Files
         /\ Single(s) => Single(Renamed(s, pairs))
         /\ \A p \in Paths \ Ends(pairs) : Renamed(s, pairs)[p] = s[p]
<1>1. PICK f : Renames(f, s, pairs, Len(pairs)) /\ Renamed(s, pairs) = f[Len(pairs)]
  BY RenamedIs
<1> DEFINE Keeps(i) ==
             /\ f[i] \in Files
             /\ Single(s) => Single(f[i])
             /\ \A p \in Paths \ Ends(pairs) : f[i][p] = s[p]
           T == {i \in 0..Len(pairs) : ~Keeps(i)}
<1>2. SUFFICES ASSUME T # {} PROVE FALSE
  <2>1. Len(pairs) \in 0..Len(pairs) /\ (T = {} => Keeps(Len(pairs)))
    OBVIOUS
  <2>2. PICK x : x = f[Len(pairs)] /\ x = Renamed(s, pairs)
    BY <1>1
  <2>3. ASSUME T = {}
        PROVE  /\ x \in Files
               /\ Single(s) => Single(x)
               /\ \A p \in Paths \ Ends(pairs) : x[p] = s[p]
    BY <2>1, <2>2, <2>3
  <2> QED BY <2>2, <2>3
<1>3. Len(pairs) \in Nat /\ T \subseteq Nat
  OBVIOUS
<1>4. PICK i \in T : \A j \in T : ~(j < i)
  BY <1>2, <1>3, LeastNumber
<1>5. /\ i \in 0..Len(pairs)
      /\ f[i] = IF i = 0 THEN s ELSE Rename(f[i - 1], pairs[i][1], pairs[i][2])
  <2>1. i \in 0..Len(pairs)
    BY <1>4
  <2> QED BY <1>1, <2>1 DEF Renames
<1>6. CASE i = 0
  BY <1>4, <1>5, <1>6
<1>7. CASE i # 0
  <2>1. i - 1 \in 0..Len(pairs) /\ i - 1 < i /\ i \in 1..Len(pairs)
    BY <1>3, <1>5, <1>7
  <2>2. Keeps(i - 1)
    BY <2>1, <1>4
  <2>3. PICK from \in Paths, to \in Paths :
          /\ from = pairs[i][1] /\ to = pairs[i][2]
          /\ from \in Ends(pairs) /\ to \in Ends(pairs)
    BY <2>1, PairEnds
  <2>4. PICK a \in Files : a = f[i - 1]
    BY <2>2
  <2>5. PICK x : x = f[i] /\ x = Rename(a, from, to)
    BY <1>5, <1>7, <2>3, <2>4
  <2>6. /\ x \in Files
        /\ Single(a) => Single(x)
        /\ \A p \in Paths : p # from /\ p # to => x[p] = a[p]
    <3>1. /\ Rename(a, from, to) \in Files
          /\ Single(a) => Single(Rename(a, from, to))
          /\ \A p \in Paths : p # from /\ p # to => Rename(a, from, to)[p] = a[p]
          /\ from # to => /\ Rename(a, from, to)[to] = a[from]
                          /\ Rename(a, from, to)[from] = {}
      BY OneRename
    <3> QED BY <2>5, <3>1
  <2>7. \A p \in Paths \ Ends(pairs) : f[i][p] = s[p]
    <3>1. \A p \in Paths \ Ends(pairs) : a[p] = s[p]
      BY <2>2, <2>4
    <3>2. \A p \in Paths \ Ends(pairs) : x[p] = a[p]
      BY <2>3, <2>6
    <3> QED BY <2>5, <3>1, <3>2
  <2>8. Keeps(i)
    BY <2>2, <2>4, <2>5, <2>6, <2>7
  <2> QED BY <1>4, <2>8
<1> QED BY <1>6, <1>7

(* Two directories that agree outside D still do after the same renames,   *)
(* none of which is about a path in D.                                     *)
LEMMA RenamedAgree ==
  ASSUME NEW s \in Files, NEW m \in Files, NEW D, NEW pairs \in Seq(Pairs),
         Ends(pairs) \cap D = {}, \A p \in Paths \ D : s[p] = m[p]
  PROVE  \A p \in Paths \ D : Renamed(s, pairs)[p] = Renamed(m, pairs)[p]
<1>1. PICK f : Renames(f, s, pairs, Len(pairs)) /\ Renamed(s, pairs) = f[Len(pairs)]
  BY RenamedIs
<1>2. PICK g : Renames(g, m, pairs, Len(pairs)) /\ Renamed(m, pairs) = g[Len(pairs)]
  BY RenamedIs
<1> DEFINE Alike(i) == /\ f[i] \in Files /\ g[i] \in Files
                       /\ \A p \in Paths \ D : f[i][p] = g[i][p]
           T == {i \in 0..Len(pairs) : ~Alike(i)}
<1>3. SUFFICES ASSUME T # {} PROVE FALSE
  <2>1. Len(pairs) \in 0..Len(pairs) /\ (T = {} => Alike(Len(pairs)))
    OBVIOUS
  <2>2. PICK x : x = f[Len(pairs)] /\ x = Renamed(s, pairs)
    BY <1>1
  <2>3. PICK y : y = g[Len(pairs)] /\ y = Renamed(m, pairs)
    BY <1>2
  <2>4. T = {} => \A p \in Paths \ D : x[p] = y[p]
    BY <2>1, <2>2, <2>3
  <2> QED BY <2>2, <2>3, <2>4
<1>4. Len(pairs) \in Nat /\ T \subseteq Nat
  OBVIOUS
<1>5. PICK i \in T : \A j \in T : ~(j < i)
  BY <1>3, <1>4, LeastNumber
<1>6. /\ i \in 0..Len(pairs)
      /\ f[i] = IF i = 0 THEN s ELSE Rename(f[i - 1], pairs[i][1], pairs[i][2])
      /\ g[i] = IF i = 0 THEN m ELSE Rename(g[i - 1], pairs[i][1], pairs[i][2])
  <2>1. i \in 0..Len(pairs)
    BY <1>5
  <2> QED BY <1>1, <1>2, <2>1 DEF Renames
<1>7. CASE i = 0
  BY <1>5, <1>6, <1>7
<1>8. CASE i # 0
  <2>1. i - 1 \in 0..Len(pairs) /\ i - 1 < i /\ i \in 1..Len(pairs)
    BY <1>4, <1>6, <1>8
  <2>2. Alike(i - 1)
    BY <2>1, <1>5
  <2>3. PICK from \in Paths, to \in Paths :
          /\ from = pairs[i][1] /\ to = pairs[i][2]
          /\ from \in Ends(pairs) /\ to \in Ends(pairs)
    BY <2>1, PairEnds
  <2>4. PICK a \in Files : a = f[i - 1]
    BY <2>2
  <2>5. PICK b \in Files : b = g[i - 1]
    BY <2>2
  <2>6. PICK x : x = f[i] /\ x = Rename(a, from, to)
    BY <1>6, <1>8, <2>3, <2>4
  <2>7. PICK y : y = g[i] /\ y = Rename(b, from, to)
    BY <1>6, <1>8, <2>3, <2>5
  <2>8. /\ x \in Files
        /\ \A p \in Paths : p # from /\ p # to => x[p] = a[p]
        /\ from # to => x[to] = a[from] /\ x[from] = {}
    <3>1. /\ Rename(a, from, to) \in Files
          /\ Single(a) => Single(Rename(a, from, to))
          /\ \A p \in Paths : p # from /\ p # to => Rename(a, from, to)[p] = a[p]
          /\ from # to => /\ Rename(a, from, to)[to] = a[from]
                          /\ Rename(a, from, to)[from] = {}
      BY OneRename
    <3> QED BY <2>6, <3>1
  <2>9. /\ y \in Files
        /\ \A p \in Paths : p # from /\ p # to => y[p] = b[p]
        /\ from # to => y[to] = b[from] /\ y[from] = {}
    <3>1. /\ Rename(b, from, to) \in Files
          /\ Single(b) => Single(Rename(b, from, to))
          /\ \A p \in Paths : p # from /\ p # to => Rename(b, from, to)[p] = b[p]
          /\ from # to => /\ Rename(b, from, to)[to] = b[from]
                          /\ Rename(b, from, to)[from] = {}
      BY OneRename
    <3> QED BY <2>7, <3>1
  <2>10. \A q \in Paths \ D : a[q] = b[q]
    BY <2>2, <2>4, <2>5
  <2>11. from \in Paths \ D /\ to \in Paths \ D
    BY <2>3
  <2>12. ASSUME NEW p \in Paths \ D PROVE x[p] = y[p]
    <3>1. CASE from = to
      BY <2>6, <2>7, <2>10, <3>1 DEF Rename
    <3>2. CASE from # to /\ p \in {from, to}
      BY <2>8, <2>9, <2>10, <2>11, <3>2
    <3>3. CASE p # from /\ p # to
      BY <2>8, <2>9, <2>10, <3>3
    <3> QED BY <3>1, <3>2, <3>3
  <2>13. Alike(i)
    BY <2>6, <2>7, <2>8, <2>9, <2>12
  <2> QED BY <1>5, <2>13
<1> QED BY <1>7, <1>8

LEMMA PrefixEnds ==
  ASSUME NEW pairs \in Seq(Pairs), NEW n \in 0..Len(pairs)
  PROVE  SubSeq(pairs, 1, n) \in Seq(Pairs) /\ Ends(SubSeq(pairs, 1, n)) \subseteq Ends(pairs)
<1>1. /\ SubSeq(pairs, 1, n) \in Seq(Pairs) /\ Len(SubSeq(pairs, 1, n)) = n
      /\ \A i \in 1..n : SubSeq(pairs, 1, n)[i] = pairs[i] /\ i \in 1..Len(pairs)
  OBVIOUS
<1>2. ToSet(SubSeq(pairs, 1, n)) \subseteq ToSet(pairs)
  BY <1>1 DEF ToSet
<1> QED BY <1>1, <1>2 DEF Ends

(* remove_files_from_message and copy_item_from_message.                   *)
LEMMA RemovedKeeps ==
  ASSUME NEW s \in Files, NEW gone
  PROVE  /\ Removed(s, gone) \in Files
         /\ Single(s) => Single(Removed(s, gone))
         /\ \A p \in Paths \ gone : Removed(s, gone)[p] = s[p]
         /\ \A p \in Paths \cap gone : Removed(s, gone)[p] = {}
<1>1. Removed(s, gone) \in Files
  BY DEF Removed, Files
<1>2. /\ \A p \in Paths \ gone : Removed(s, gone)[p] = s[p]
      /\ \A p \in Paths \cap gone : Removed(s, gone)[p] = {}
  BY DEF Removed
<1>3. Single(s) => Single(Removed(s, gone))
  <2> SUFFICES ASSUME Single(s), NEW p \in Paths, NEW c \in Removed(s, gone)[p],
                      NEW d \in Removed(s, gone)[p]
               PROVE  c = d
    BY DEF Single
  <2> QED BY <1>2 DEF Single
<1> QED BY <1>1, <1>2, <1>3

LEMMA CopiedKeeps ==
  ASSUME NEW s \in Files, NEW from \in Paths, NEW to \in Paths
  PROVE  /\ Copied(s, from, to) \in Files
         /\ Single(s) => Single(Copied(s, from, to))
         /\ \A p \in Paths : p # to => Copied(s, from, to)[p] = s[p]
         /\ Copied(s, from, to)[to] = s[from]
<1>1. /\ Copied(s, from, to) \in Files
      /\ \A p \in Paths : p # to => Copied(s, from, to)[p] = s[p]
      /\ Copied(s, from, to)[to] = s[from]
  BY DEF Copied, Files
<1>2. Single(s) => Single(Copied(s, from, to))
  <2> SUFFICES ASSUME Single(s), NEW p \in Paths, NEW c \in Copied(s, from, to)[p],
                      NEW d \in Copied(s, from, to)[p]
               PROVE  c = d
    BY DEF Single
  <2>1. Copied(s, from, to)[p] = s[p] \/ Copied(s, from, to)[p] = s[from]
    BY <1>1
  <2> QED BY <2>1 DEF Single
<1> QED BY <1>1, <1>2

-----------------------------------------------------------------------------
(* Type correctness.                                                       *)

LEMMA NoPathIs == NoPath \in Paths
  BY BoundsAssumption DEF NoPath

LEMMA NothingTyped ==
  /\ <<>> \in Seq(Paths) /\ <<>> \in Seq(Pairs) /\ <<>> \in Seq(Values)
  /\ NoArgs \in Arguments /\ Idle \in HostStates /\ NoAsk \in Requests
  /\ Idle.pc = "idle" /\ Idle.content = <<>> /\ Idle.bytes = 0
<1>1. <<>> \in Seq(Paths) /\ <<>> \in Seq(Pairs) /\ <<>> \in Seq(Values)
  OBVIOUS
<1>2. NoArgs \in Arguments
  BY <1>1 DEF NoArgs, Arguments
<1>3. Idle \in HostStates
  BY <1>1, <1>2, NoPathIs DEF Idle, HostStates, Positions
<1>4. NoAsk \in Requests
  BY <1>1 DEF NoAsk, Requests
<1>5. Idle.pc = "idle" /\ Idle.content = <<>> /\ Idle.bytes = 0
  BY DEF Idle
<1> QED BY <1>1, <1>2, <1>3, <1>4, <1>5

LEMMA TokenTyped ==
  ASSUME NEW k \in Kinds, NEW p \in Paths, NEW c \in Codes, NEW b \in SUBSET Paths,
         NEW a \in Arguments, k = "data" => c \in Values, k = "copy" => a.pairs # <<>>
  PROVE  [kind |-> k, path |-> p, val |-> c, bad |-> b, args |-> a] \in Tokens
  BY DEF Tokens

LEMMA MsgTyped ==
  ASSUME NEW k \in Kinds \ {"data", "copy"}
  PROVE  Msg(k) \in Tokens /\ Msg(k).kind = k
<1>1. Msg(k) = [kind |-> k, path |-> NoPath, val |-> 0, bad |-> {}, args |-> NoArgs]
  BY DEF Msg, Token
<1>2. 0 \in Codes /\ {} \in SUBSET Paths
  BY DEF Codes
<1>3. [kind |-> k, path |-> NoPath, val |-> 0, bad |-> {}, args |-> NoArgs] \in Tokens
  BY <1>2, NoPathIs, NothingTyped, TokenTyped
<1> QED BY <1>1, <1>3

LEMMA StatusTyped ==
  ASSUME NEW c \in {0, -1, -13}, NEW b \in SUBSET Paths
  PROVE  /\ Status(c, b) \in Tokens /\ Status(c, b).kind = "status"
         /\ Status(c, b).val = c /\ Status(c, b).bad = b
<1>1. Status(c, b) = [kind |-> "status", path |-> NoPath, val |-> c, bad |-> b,
                      args |-> NoArgs]
  BY DEF Status, Token
<1>2. c \in Codes /\ "status" \in Kinds
  BY DEF Codes, Kinds
<1>3. [kind |-> "status", path |-> NoPath, val |-> c, bad |-> b, args |-> NoArgs] \in Tokens
  BY <1>2, NoPathIs, NothingTyped, TokenTyped
<1> QED BY <1>1, <1>3

LEMMA PieceTyped ==
  /\ \A p \in Paths : /\ Token("name", p, 0) \in Tokens
                      /\ Token("name", p, 0).kind = "name" /\ Token("name", p, 0).path = p
  /\ \A v \in Values : /\ Token("data", NoPath, v) \in Tokens
                       /\ Token("data", NoPath, v).kind = "data"
                       /\ Token("data", NoPath, v).val = v
<1>1. ASSUME NEW p \in Paths
      PROVE  /\ Token("name", p, 0) \in Tokens
             /\ Token("name", p, 0).kind = "name" /\ Token("name", p, 0).path = p
  <2>1. Token("name", p, 0) = [kind |-> "name", path |-> p, val |-> 0, bad |-> {},
                               args |-> NoArgs]
    BY DEF Token
  <2>2. 0 \in Codes /\ {} \in SUBSET Paths /\ "name" \in Kinds
    BY DEF Codes, Kinds
  <2>3. [kind |-> "name", path |-> p, val |-> 0, bad |-> {}, args |-> NoArgs] \in Tokens
    BY <2>2, NothingTyped, TokenTyped
  <2> QED BY <2>1, <2>3
<1>2. ASSUME NEW v \in Values
      PROVE  /\ Token("data", NoPath, v) \in Tokens
             /\ Token("data", NoPath, v).kind = "data" /\ Token("data", NoPath, v).val = v
  <2>1. Token("data", NoPath, v) = [kind |-> "data", path |-> NoPath, val |-> v, bad |-> {},
                                    args |-> NoArgs]
    BY DEF Token
  <2>2. v \in Codes /\ {} \in SUBSET Paths /\ "data" \in Kinds
    BY DEF Codes, Kinds
  <2>3. [kind |-> "data", path |-> NoPath, val |-> v, bad |-> {}, args |-> NoArgs] \in Tokens
    BY <2>2, NoPathIs, NothingTyped, TokenTyped
  <2> QED BY <2>1, <2>3
<1> QED BY <1>1, <1>2

LEMMA TokenFields ==
  ASSUME NEW t \in Tokens
  PROVE  /\ t.kind \in Kinds /\ t.path \in Paths /\ t.val \in Codes /\ t.bad \in SUBSET Paths
         /\ t.args \in Arguments /\ t.args.files \in Seq(Paths) /\ t.args.pairs \in Seq(Pairs)
         /\ t.args.target \in Nat /\ t.args.total \in Nat
         /\ t.kind = "data" => t.val \in Values
         /\ t.kind = "copy" => t.args.pairs # <<>>
<1>1. /\ t.kind \in Kinds /\ t.path \in Paths /\ t.val \in Codes /\ t.bad \in SUBSET Paths
      /\ t.args \in Arguments
      /\ t.kind = "data" => t.val \in Values
      /\ t.kind = "copy" => t.args.pairs # <<>>
  BY DEF Tokens
<1>2. /\ t.args.files \in Seq(Paths) /\ t.args.pairs \in Seq(Pairs)
      /\ t.args.target \in Nat /\ t.args.total \in Nat
  BY <1>1 DEF Arguments
<1> QED BY <1>1, <1>2

(* The two ends of the connection.                                         *)
LEMMA Queue ==
  ASSUME NEW T, NEW s \in Seq(T)
  PROVE  /\ \A t \in T : Append(s, t) \in Seq(T)
         /\ s # <<>> => /\ Tail(s) \in Seq(T) /\ Head(s) \in T /\ Head(s) = s[1]
                        /\ Len(s) > 0 /\ Len(Tail(s)) = Len(s) - 1
<1>1. \A t \in T : Append(s, t) \in Seq(T)
  OBVIOUS
<1>2. s # <<>> => /\ Tail(s) \in Seq(T) /\ Head(s) \in T /\ Head(s) = s[1]
                  /\ Len(s) > 0 /\ Len(Tail(s)) = Len(s) - 1
  OBVIOUS
<1> QED BY <1>1, <1>2

LEMMA SayTyped ==
  ASSUME WiresOK, NEW tok \in Tokens
  PROVE  /\ Say(tok) => toDevice' \in Seq(Tokens)
         /\ Tell(tok) => toHost' \in Seq(Tokens)
<1>1. toHost \in Seq(Tokens) /\ toDevice \in Seq(Tokens)
  BY DEF WiresOK
<1>2. Say(tok) => toDevice' \in Seq(Tokens)
  BY <1>1, Queue DEF Say
<1>3. Tell(tok) => toHost' \in Seq(Tokens)
  BY <1>1, Queue DEF Tell
<1> QED BY <1>2, <1>3

LEMMA TakeTyped ==
  ASSUME WiresOK
  PROVE  /\ Take => /\ toHost' \in Seq(Tokens) /\ Head(toHost) \in Tokens
                    /\ Head(toHost) = toHost[1] /\ Len(toHost) > 0
         /\ Hear => /\ toDevice' \in Seq(Tokens) /\ Head(toDevice) \in Tokens
                    /\ Head(toDevice) = toDevice[1] /\ Len(toDevice) > 0
<1>1. toHost \in Seq(Tokens) /\ toDevice \in Seq(Tokens)
  BY DEF WiresOK
<1>2. Take => /\ toHost' \in Seq(Tokens) /\ Head(toHost) \in Tokens
              /\ Head(toHost) = toHost[1] /\ Len(toHost) > 0
  BY <1>1, Queue DEF Take
<1>3. Hear => /\ toDevice' \in Seq(Tokens) /\ Head(toDevice) \in Tokens
              /\ Head(toDevice) = toDevice[1] /\ Len(toDevice) > 0
  BY <1>1, Queue DEF Hear
<1> QED BY <1>2, <1>3

(* ProgressTracker.                                                        *)
Trackers == [anchor : Int, session : Int, emitted : Int, last : Int]

LEMMA OverallIs ==
  ASSUME NEW t \in Trackers, NEW done \in Int, NEW total \in Nat, NEW target \in Int
  PROVE  Overall(t, done, total, target) \in Int /\ Overall(t, done, total, target) >= t.last
<1>1. t.anchor \in Int /\ t.last \in Int
  BY DEF Trackers
<1> DEFINE reached == IF total > 0 /\ done > total THEN total ELSE done
           frac == IF total > 0 THEN ((target - t.anchor) * reached) \div total ELSE 0
           here == IF target > t.anchor THEN t.anchor + frac ELSE t.anchor
<1>2. reached \in Int
  OBVIOUS
<1>3. frac \in Int
  <2>1. (target - t.anchor) * reached \in Int
    <3> HIDE DEF reached
    <3> QED BY <1>1, <1>2
  <2> HIDE DEF reached
  <2>2. CASE total > 0
    <3>1. \A n \in Int : n \div total \in Int
      BY <2>2
    <3> QED BY <2>1, <2>2, <3>1
  <2> QED BY <2>2
<1>4. here \in Int
  <2> HIDE DEF frac
  <2> QED BY <1>1, <1>3
<1>5. Overall(t, done, total, target) = IF here > t.last THEN here ELSE t.last
  BY DEF Overall
<1> HIDE DEF here
<1> QED BY <1>1, <1>4, <1>5

LEMMA SnapshotIs ==
  ASSUME NEW t \in Trackers, NEW bytes \in Int, NEW done \in Int, NEW total \in Nat,
         NEW target \in Int, Snapshot(t, bytes, done, total, target)
  PROVE  /\ ProgressOK'
         /\ tracker'.session = t.session /\ tracker'.last >= t.last
         /\ shown'.session = t.session + bytes /\ shown'.overall = tracker'.last
<1>0. PICK o \in Int : o = Overall(t, done, total, target) /\ o >= t.last
  BY OverallIs
<1>1. tracker' = [t EXCEPT !.last = o] /\ shown' = [session |-> t.session + bytes, overall |-> o]
  BY <1>0 DEF Snapshot
<1>2. tracker' = [anchor |-> t.anchor, session |-> t.session, emitted |-> t.emitted, last |-> o]
  BY <1>1 DEF Trackers
<1>3. t.anchor \in Int /\ t.session \in Int /\ t.emitted \in Int
  BY DEF Trackers
<1>4. t.session + bytes \in Int
  BY <1>3
<1>5. tracker' \in [anchor : Int, session : Int, emitted : Int, last : Int]
  BY <1>2, <1>3
<1>6. shown' \in [session : Int, overall : Int]
  BY <1>1, <1>4
<1>7. ProgressOK'
  BY <1>5, <1>6 DEF ProgressOK
<1>8. /\ tracker'.session = t.session /\ tracker'.last = o
      /\ shown'.session = t.session + bytes /\ shown'.overall = o
  BY <1>1, <1>2
<1> QED BY <1>0, <1>7, <1>8

LEMMA EndBatchIs ==
  ASSUME ProgressOK, NEW bytes \in Int, NEW target \in Int, EndBatch(bytes, target)
  PROVE  /\ ProgressOK'
         /\ tracker'.session = tracker.session + bytes /\ tracker'.last >= tracker.last
         /\ shown'.session = tracker'.session /\ shown'.overall = tracker'.last
<1>1. /\ tracker \in Trackers
      /\ tracker.anchor \in Int /\ tracker.session \in Int /\ tracker.last \in Int
  BY DEF ProgressOK, Trackers
<1>2. PICK t : t = FinishBatch(tracker, bytes, target)
  OBVIOUS
<1>3. /\ t.session = tracker.session + bytes /\ t.last = tracker.last
      /\ t \in Trackers
  <2>1. PICK a \in Int : a = IF target > tracker.anchor THEN target ELSE tracker.anchor
    BY <1>1
  <2>2. t = [tracker EXCEPT !.session = tracker.session + bytes,
                            !.emitted = tracker.session + bytes, !.anchor = a]
    BY <1>2, <2>1 DEF FinishBatch
  <2>3. t = [anchor |-> a, session |-> tracker.session + bytes,
             emitted |-> tracker.session + bytes, last |-> tracker.last]
    BY <1>1, <2>2 DEF Trackers
  <2>4. tracker.session + bytes \in Int
    BY <1>1
  <2> QED BY <1>1, <2>3, <2>4 DEF Trackers
<1>4. Snapshot(t, 0, 0, 0, 0)
  BY <1>2 DEF EndBatch
<1>5. /\ ProgressOK'
      /\ tracker'.session = t.session /\ tracker'.last >= t.last
      /\ shown'.session = t.session + 0 /\ shown'.overall = tracker'.last
  <2>1. 0 \in Int /\ 0 \in Nat
    OBVIOUS
  <2> QED BY <1>3, <1>4, <2>1, SnapshotIs
<1>6. t.session \in Int
  BY <1>3 DEF Trackers
<1> QED BY <1>3, <1>5, <1>6

LEMMA AfterMessageIs ==
  ASSUME ProgressOK, NEW target \in Int, AfterMessage(target)
  PROVE  /\ ProgressOK'
         /\ tracker'.session = tracker.session /\ tracker'.last >= tracker.last
         /\ \/ shown' = shown
            \/ shown'.session = tracker'.session /\ shown'.overall = tracker'.last
<1>1. CASE target > 0
  <2>1. EndBatch(0, target)
    BY <1>1 DEF AfterMessage
  <2>2. tracker.session \in Int
    BY DEF ProgressOK
  <2>3. 0 \in Int
    OBVIOUS
  <2>4. /\ ProgressOK'
        /\ tracker'.session = tracker.session + 0 /\ tracker'.last >= tracker.last
        /\ shown'.session = tracker'.session /\ shown'.overall = tracker'.last
    BY <2>1, <2>3, EndBatchIs
  <2> QED BY <2>2, <2>4
<1>2. CASE ~(target > 0)
  BY <1>2 DEF AfterMessage, progressVars, ProgressOK
<1> QED BY <1>1, <1>2

LEMMA MayEmitIs ==
  ASSUME ProgressOK, NEW bytes \in Int, NEW done \in Int, NEW total \in Nat,
         NEW target \in Int, MayEmit(bytes, done, total, target)
  PROVE  /\ ProgressOK'
         /\ tracker'.session = tracker.session /\ tracker'.last >= tracker.last
         /\ \/ shown' = shown
            \/ shown'.session = tracker.session + bytes /\ shown'.overall = tracker'.last
<1>1. CASE tracker.session + bytes - tracker.emitted >= EmitBytes
  <2>1. PICK t : t = [tracker EXCEPT !.emitted = tracker.session + bytes]
    OBVIOUS
  <2>2. t \in Trackers /\ t.session = tracker.session /\ t.last = tracker.last
    BY <2>1 DEF ProgressOK, Trackers
  <2>3. Snapshot(t, bytes, done, total, target)
    BY <1>1, <2>1 DEF MayEmit
  <2>4. /\ ProgressOK'
        /\ tracker'.session = t.session /\ tracker'.last >= t.last
        /\ shown'.session = t.session + bytes /\ shown'.overall = tracker'.last
    BY <2>2, <2>3, SnapshotIs
  <2> QED BY <2>2, <2>4
<1>2. CASE ~(tracker.session + bytes - tracker.emitted >= EmitBytes)
  BY <1>2 DEF MayEmit, progressVars, ProgressOK
<1> QED BY <1>1, <1>2

(* What a step leaves alone keeps its type.                                *)
LEMMA LeftAlone ==
  ASSUME TypeInv
  PROVE  /\ UNCHANGED h => HostOK'
         /\ UNCHANGED progressVars => ProgressOK'
         /\ store' = store => StoreOK'
         /\ UNCHANGED deviceSide => DeviceOK'
         /\ UNCHANGED backup => StoreOK'
<1>1. UNCHANGED h => HostOK'
  BY DEF TypeInv, HostOK
<1>2. UNCHANGED progressVars => ProgressOK'
  BY DEF TypeInv, ProgressOK, progressVars
<1>3. store' = store => StoreOK'
  BY DEF TypeInv, StoreOK
<1>4. UNCHANGED deviceSide => DeviceOK'
  BY DEF TypeInv, DeviceOK, deviceSide
<1> QED BY <1>1, <1>2, <1>3, <1>4

(* The client's position changes, or a call returns.                       *)
LEMMA HostFields ==
  ASSUME HostOK
  PROVE  /\ h.pc \in Positions /\ h.file \in Paths /\ h.todo \in Seq(Paths)
         /\ h.content \in Seq(Values) /\ h.errs \in SUBSET Paths /\ h.bytes \in Nat
         /\ h.done \in Nat /\ h.args \in Arguments
         /\ h.args.files \in Seq(Paths) /\ h.args.target \in Nat /\ h.args.total \in Nat
<1>1. /\ h.pc \in Positions /\ h.file \in Paths /\ h.todo \in Seq(Paths)
      /\ h.content \in Seq(Values) /\ h.errs \in SUBSET Paths /\ h.bytes \in Nat
      /\ h.done \in Nat /\ h.args \in Arguments
  BY DEF HostOK, HostStates
<1>2. /\ h.args.files \in Seq(Paths) /\ h.args.target \in Nat /\ h.args.total \in Nat
  BY <1>1 DEF Arguments
<1> QED BY <1>1, <1>2

LEMMA HostMoves ==
  ASSUME HostOK, NEW p \in Positions \ {"send", "fail"}, h' = [h EXCEPT !.pc = p],
         h.content = <<>>
  PROVE  HostOK' /\ h'.pc = p /\ h'.bytes = h.bytes
<1>1. h' \in HostStates /\ h'.pc = p /\ h'.content = h.content /\ h'.bytes = h.bytes
  BY DEF HostOK, HostStates
<1> QED BY <1>1 DEF HostOK

(* The client as a call leaves or enters it.                               *)
Fresh(p, r) == [pc |-> p, file |-> NoPath, todo |-> <<>>, content |-> <<>>, errs |-> {},
                bytes |-> 0, done |-> 0, args |-> NoArgs, result |-> r]

LEMMA HostReturns ==
  ASSUME NEW p \in {"idle", "loop", "reply"}, NEW r \in {"none", "ok", "err", "panic"},
         h' = Fresh(p, r)
  PROVE  HostOK' /\ h'.pc = p /\ h'.bytes = 0 /\ h'.content = <<>>
<1>1. h' \in HostStates
  BY NothingTyped, NoPathIs DEF Fresh, HostStates, Positions
<1>2. h'.pc = p /\ h'.content = <<>> /\ h'.bytes = 0
  BY DEF Fresh
<1> QED BY <1>1, <1>2 DEF HostOK

LEMMA IdleForms ==
  /\ Idle = Fresh("idle", "none")
  /\ \A r \in {"none", "ok", "err", "panic"} : [Idle EXCEPT !.result = r] = Fresh("idle", r)
  /\ \A p : [Idle EXCEPT !.pc = p] = Fresh(p, "none")
<1>1. Idle = Fresh("idle", "none")
  BY DEF Idle, Fresh
<1>2. PICK i \in HostStates : i = Idle
  BY NothingTyped
<1>3. /\ i.pc = "idle" /\ i.file = NoPath /\ i.todo = <<>> /\ i.content = <<>>
      /\ i.errs = {} /\ i.bytes = 0 /\ i.done = 0 /\ i.args = NoArgs
      /\ i.result = "none"
  BY <1>2 DEF Idle
<1>4. ASSUME NEW r \in {"none", "ok", "err", "panic"}
      PROVE  [Idle EXCEPT !.result = r] = Fresh("idle", r)
  <2>1. [i EXCEPT !.result = r] =
          [pc |-> i.pc, file |-> i.file, todo |-> i.todo, content |-> i.content,
           errs |-> i.errs, bytes |-> i.bytes, done |-> i.done, args |-> i.args, result |-> r]
    BY DEF HostStates
  <2> QED BY <1>2, <1>3, <2>1 DEF Fresh
<1>5. ASSUME NEW p PROVE [Idle EXCEPT !.pc = p] = Fresh(p, "none")
  <2>1. [i EXCEPT !.pc = p] =
          [pc |-> p, file |-> i.file, todo |-> i.todo, content |-> i.content,
           errs |-> i.errs, bytes |-> i.bytes, done |-> i.done, args |-> i.args,
           result |-> i.result]
    BY DEF HostStates
  <2> QED BY <1>2, <1>3, <2>1 DEF Fresh
<1> QED BY <1>1, <1>4, <1>5

LEMMA FailTyped ==
  ASSUME Fail("err")
  PROVE  HostOK' /\ h'.pc = "idle" /\ broken' = TRUE
<1>1. h' = Fresh("idle", "err") /\ broken' = TRUE
  BY IdleForms DEF Fail
<1> QED BY <1>1, HostReturns

LEMMA EnterLoopTyped ==
  ASSUME TypeInv, EnterLoop
  PROVE  TypeInv'
<1>1. HostOK'
  <2>1. h' = Fresh("loop", "none")
    BY IdleForms DEF EnterLoop
  <2> QED BY <2>1, HostReturns
<1>2. ProgressOK'
  BY DEF EnterLoop, ProgressOK, NewTracker
<1>3. WiresOK'
  <2>1. Msg("request") \in Tokens
    BY MsgTyped DEF Kinds
  <2> QED BY <2>1, SayTyped DEF TypeInv, WiresOK, EnterLoop
<1>4. StoreOK' /\ DeviceOK' /\ broken' \in BOOLEAN /\ misread' \in BOOLEAN
  BY LeftAlone DEF EnterLoop, TypeInv
<1> QED BY <1>1, <1>2, <1>3, <1>4 DEF TypeInv

LEMMA RefuseTyped ==
  ASSUME TypeInv, NEW r \in {"err", "panic"}, Refuse(r)
  PROVE  TypeInv'
<1>1. HostOK'
  <2>1. h' = Fresh("idle", r)
    BY IdleForms DEF Refuse
  <2> QED BY <2>1, HostReturns
<1>2. ProgressOK' /\ StoreOK' /\ DeviceOK' /\ broken' \in BOOLEAN /\ misread' \in BOOLEAN
  BY LeftAlone DEF Refuse, TypeInv
<1>3. WiresOK'
  BY DEF Refuse, TypeInv, WiresOK
<1> QED BY <1>1, <1>2, <1>3 DEF TypeInv

(* What the operations of the host do, whichever it is.                    *)
Operation ==
  \/ h.pc = "idle" /\ EnterLoop
  \/ h.pc = "idle" /\ Refuse("err")
  \/ h.pc = "idle" /\ Refuse("panic")

LEMMA Operations ==
  ASSUME \/ BackupFromPath \/ RestoreFromPath \/ UnbackFromPath
         \/ InfoFromPath \/ ListFromPath \/ ExtractFromPath
         \/ ChangePasswordFromPath \/ EraseDeviceFromPath
  PROVE  Operation
<1>1. ASSUME NEW S \in SUBSET {"loop", "err", "panic"}, Begin(S) PROVE Operation
  BY <1>1 DEF Begin, Operation
<1>2. /\ \A n : {Needs(g, n) : g \in Given} \in SUBSET {"loop", "err", "panic"}
      /\ \A n : {UnwrapsUdid(g, n) : g \in Given} \in SUBSET {"loop", "err", "panic"}
      /\ {IF g.udid THEN "loop" ELSE "err" : g \in Given} \in SUBSET {"loop", "err", "panic"}
  BY DEF Needs, UnwrapsUdid
<1> QED BY <1>1, <1>2 DEF BackupFromPath, RestoreFromPath, UnbackFromPath, InfoFromPath,
      ListFromPath, ExtractFromPath, ChangePasswordFromPath, EraseDeviceFromPath

(* Progress.  Nothing is shown, or what is shown is the tracker's.         *)
Rising ==
  h.pc # "idle" => shown'.session >= shown.session /\ shown'.overall >= shown.overall

Good == TypeInv' /\ ProgressInv' /\ Rising

LEMMA ShownTyped ==
  ASSUME ProgressOK
  PROVE  /\ tracker.session \in Int /\ tracker.last \in Int
         /\ shown.session \in Int /\ shown.overall \in Int
  BY DEF ProgressOK

LEMMA NothingShown ==
  ASSUME TypeInv, ProgressInv, UNCHANGED progressVars,
         InLoop' => /\ InLoop /\ h'.bytes \in Int /\ h'.bytes >= h.bytes
                    /\ h'.pc = "loop" => h'.bytes = 0
  PROVE  ProgressInv' /\ Rising
<1>1. /\ tracker.session \in Int /\ tracker.last \in Int
      /\ shown.session \in Int /\ shown.overall \in Int
      /\ h.bytes \in Int /\ shown' = shown /\ tracker' = tracker
  BY ShownTyped, HostFields DEF TypeInv, progressVars
<1>2. Rising
  BY <1>1 DEF Rising
<1>3. ASSUME InLoop' PROVE /\ shown'.session <= tracker'.session + h'.bytes
                           /\ shown'.overall <= tracker'.last
                           /\ h'.pc = "loop" => h'.bytes = 0
  <2>1. InLoop /\ h'.bytes \in Int /\ h'.bytes >= h.bytes /\ (h'.pc = "loop" => h'.bytes = 0)
    BY <1>3
  <2>2. shown.session <= tracker.session + h.bytes /\ shown.overall <= tracker.last
    BY <2>1 DEF ProgressInv
  <2> QED BY <1>1, <2>1, <2>2
<1>4. ProgressInv'
  BY <1>3 DEF ProgressInv
<1> QED BY <1>2, <1>4

LEMMA SomethingShown ==
  ASSUME TypeInv, ProgressInv, ProgressOK', InLoop, NEW b \in Int, b >= h.bytes,
         tracker'.session \in {tracker.session, tracker.session + b},
         tracker'.last >= tracker.last,
         \/ shown' = shown
         \/ shown'.session = tracker.session + b /\ shown'.overall = tracker'.last,
         h'.bytes \in Int,
         tracker'.session + h'.bytes = tracker.session + b,
         h'.pc = "loop" => h'.bytes = 0
  PROVE  ProgressInv' /\ Rising
<1>1. /\ tracker.session \in Int /\ tracker.last \in Int
      /\ shown.session \in Int /\ shown.overall \in Int
      /\ h.bytes \in Int
  BY ShownTyped, HostFields DEF TypeInv
<1>2. /\ tracker'.session \in Int /\ tracker'.last \in Int
      /\ shown'.session \in Int /\ shown'.overall \in Int
  BY DEF ProgressOK
<1>3. shown.session <= tracker.session + h.bytes /\ shown.overall <= tracker.last
  BY DEF ProgressInv
<1>4. Rising
  BY <1>1, <1>2, <1>3 DEF Rising
<1>5. /\ shown'.session <= tracker'.session + h'.bytes
      /\ shown'.overall <= tracker'.last
  BY <1>1, <1>2, <1>3
<1>6. ProgressInv'
  BY <1>5 DEF ProgressInv
<1> QED BY <1>4, <1>6

(* Connecting.                                                             *)
LEMMA ConnectGood ==
  ASSUME TypeInv, ProgressInv, DlVersionExchange \/ DlDeviceReady \/ VersionExchange
  PROVE  Good
<1> USE DEF TypeInv
<1>0. h.pc \in {"dl_version", "dl_ready", "hello"} /\ Take /\ UNCHANGED progressVars
  BY DEF DlVersionExchange, DlDeviceReady, VersionExchange
<1>1. \/ \E p \in {"dl_ready", "hello", "failed"} : h' = [h EXCEPT !.pc = p]
      \/ h' = Idle
  BY DEF DlVersionExchange, DlDeviceReady, VersionExchange
<1>2. HostOK' /\ ~InLoop'
  <2>1. h.content = <<>>
    BY <1>0 DEF HostOK
  <2>2. ASSUME NEW p \in {"dl_ready", "hello", "failed"}, h' = [h EXCEPT !.pc = p]
        PROVE  HostOK' /\ ~InLoop'
    <3>1. p \in Positions \ {"send", "fail"}
      BY DEF Positions
    <3>2. HostOK' /\ h'.pc = p
      BY <2>1, <2>2, <3>1, HostMoves
    <3> QED BY <3>2 DEF InLoop
  <2>3. CASE h' = Idle
    <3>1. HostOK' /\ h'.pc = "idle"
      BY <2>3, IdleForms, HostReturns
    <3> QED BY <3>1 DEF InLoop
  <2> QED BY <1>1, <2>2, <2>3
<1>3. WiresOK'
  <2>1. toHost' \in Seq(Tokens)
    BY <1>0, TakeTyped
  <2>2. Msg("DLVersionsOk") \in Tokens /\ Msg("Hello") \in Tokens
    BY MsgTyped DEF Kinds
  <2>3. Say(Msg("DLVersionsOk")) \/ Say(Msg("Hello")) \/ UNCHANGED toDevice
    BY DEF DlVersionExchange, DlDeviceReady, VersionExchange
  <2>4. toDevice' \in Seq(Tokens)
    BY <2>2, <2>3, SayTyped DEF WiresOK
  <2> QED BY <2>1, <2>4 DEF WiresOK
<1>4. StoreOK' /\ DeviceOK' /\ ProgressOK' /\ broken' \in BOOLEAN /\ misread' \in BOOLEAN
  BY LeftAlone DEF DlVersionExchange, DlDeviceReady, VersionExchange
<1>5. ProgressInv' /\ Rising
  BY <1>0, <1>2, NothingShown
<1> QED BY <1>2, <1>3, <1>4, <1>5 DEF Good

(* The operations.                                                         *)
LEMMA OperationGood ==
  ASSUME TypeInv, ProgressInv, Operation
  PROVE  Good
<1>1. CASE h.pc = "idle" /\ EnterLoop
  <2>1. TypeInv'
    BY <1>1, EnterLoopTyped
  <2>2. Rising
    BY <1>1 DEF Rising
  <2>3. h' = Fresh("loop", "none")
    BY <1>1, IdleForms DEF EnterLoop
  <2>4. h'.bytes = 0
    BY <2>3 DEF Fresh
  <2>5. /\ shown'.session = 0 /\ shown'.overall = 0
        /\ tracker'.session = 0 /\ tracker'.last = 0
    BY <1>1 DEF EnterLoop, NewTracker
  <2>6. ProgressInv'
    BY <2>4, <2>5 DEF ProgressInv
  <2> QED BY <2>1, <2>2, <2>6 DEF Good
<1>2. ASSUME NEW r \in {"err", "panic"}, h.pc = "idle", Refuse(r)
      PROVE  Good
  <2>1. TypeInv'
    BY <1>2, RefuseTyped
  <2>2. Rising
    BY <1>2 DEF Rising
  <2>3. h' = Fresh("idle", r)
    BY <1>2, IdleForms DEF Refuse
  <2>4. h'.pc = "idle"
    BY <2>3 DEF Fresh
  <2>5. ProgressInv'
    BY <2>4 DEF ProgressInv, InLoop
  <2> QED BY <2>1, <2>2, <2>5 DEF Good
<1> QED BY <1>1, <1>2 DEF Operation

LEMMA CallGood ==
  ASSUME TypeInv, ProgressInv, StartCall \/ Disconnect \/ ReceiveReply
  PROVE  Good
<1> USE DEF TypeInv
<1>0. UNCHANGED progressVars
  BY DEF StartCall, Disconnect, ReceiveReply
<1>1. HostOK' /\ ~InLoop'
  <2>1. CASE StartCall
    <3>1. h' = Fresh("reply", "none")
      BY <2>1, IdleForms DEF StartCall
    <3> QED BY <3>1, HostReturns DEF InLoop
  <2>2. CASE Disconnect
    <3>1. h.content = <<>> /\ h' = [h EXCEPT !.pc = "left"]
      BY <2>2 DEF HostOK, Disconnect
    <3>2. HostOK' /\ h'.pc = "left"
      BY <3>1, HostMoves DEF Positions
    <3> QED BY <3>2 DEF InLoop
  <2>3. CASE ReceiveReply
    <3>1. h' = [Idle EXCEPT !.result = "ok"] \/ h' = [Idle EXCEPT !.result = "err"]
      BY <2>3 DEF ReceiveReply, Fail
    <3>2. h' = Fresh("idle", "ok") \/ h' = Fresh("idle", "err")
      BY <3>1, IdleForms
    <3> QED BY <3>2, HostReturns DEF InLoop
  <2> QED BY <2>1, <2>2, <2>3
<1>2. WiresOK'
  <2>1. Msg("request") \in Tokens /\ Msg("DLMessageDisconnect") \in Tokens
    BY MsgTyped DEF Kinds
  <2>2. CASE StartCall \/ Disconnect
    <3>1. UNCHANGED toHost /\ (Say(Msg("request")) \/ Say(Msg("DLMessageDisconnect")))
      BY <2>2 DEF StartCall, Disconnect
    <3> QED BY <2>1, <3>1, SayTyped DEF WiresOK
  <2>3. CASE ReceiveReply
    <3>1. UNCHANGED toDevice /\ Take
      BY <2>3 DEF ReceiveReply
    <3> QED BY <3>1, TakeTyped DEF WiresOK
  <2> QED BY <2>2, <2>3
<1>3. StoreOK' /\ DeviceOK' /\ ProgressOK'
  BY LeftAlone DEF StartCall, Disconnect, ReceiveReply
<1>4. broken' \in BOOLEAN /\ misread' \in BOOLEAN
  BY DEF StartCall, Disconnect, ReceiveReply, Fail
<1>5. ProgressInv' /\ Rising
  BY <1>0, <1>1, NothingShown
<1> QED BY <1>1, <1>2, <1>3, <1>4, <1>5 DEF Good

(* The messages of the loop that one status answers.                       *)
LEMMA StatusSaid ==
  ASSUME TypeInv, Take, NEW c \in {0, -1}, Say(Status(c, {}))
  PROVE  WiresOK'
<1>1. Status(c, {}) \in Tokens
  BY StatusTyped
<1> QED BY <1>1, SayTyped, TakeTyped DEF TypeInv, WiresOK

LEMMA MessageShown ==
  ASSUME TypeInv, ProgressInv, h.pc = "loop", UNCHANGED h, NEW target \in Int,
         AfterMessage(target)
  PROVE  ProgressOK' /\ ProgressInv' /\ Rising
<1>1. /\ ProgressOK'
      /\ tracker'.session = tracker.session /\ tracker'.last >= tracker.last
      /\ \/ shown' = shown
         \/ shown'.session = tracker'.session /\ shown'.overall = tracker'.last
  BY AfterMessageIs DEF TypeInv
<1>2. InLoop
  BY DEF InLoop
<1>3. h.bytes = 0
  BY <1>2 DEF ProgressInv
<1>4. 0 \in Int /\ 0 >= h.bytes /\ h'.bytes = 0
  BY <1>3
<1>5. tracker.session \in Int
  BY ShownTyped DEF TypeInv
<1>6. tracker.session + 0 = tracker.session
  BY <1>5
<1>7. ProgressInv' /\ Rising
  <2>1. tracker'.session \in {tracker.session, tracker.session + 0}
    BY <1>1
  <2>2. \/ shown' = shown
        \/ shown'.session = tracker.session + 0 /\ shown'.overall = tracker'.last
    BY <1>1, <1>6
  <2>3. tracker'.session + h'.bytes = tracker.session + 0 /\ h'.bytes \in Int
    BY <1>1, <1>4
  <2>4. tracker'.last >= tracker.last /\ (h'.pc = "loop" => h'.bytes = 0)
    BY <1>1, <1>4
  <2> QED BY <1>1, <1>2, <1>4, <2>1, <2>2, <2>3, <2>4, SomethingShown
<1> QED BY <1>1, <1>7

LEMMA AnswerOnlyGood ==
  ASSUME TypeInv, ProgressInv, AnswerOnly
  PROVE  Good
<1>1. /\ Take /\ UNCHANGED <<h, progressVars, backup, deviceSide, broken, misread>>
      /\ \E c \in {0, -1} : Say(Status(c, {}))
  BY DEF AnswerOnly, Loop
<1>2. WiresOK'
  BY <1>1, StatusSaid
<1>3. HostOK' /\ ProgressOK' /\ StoreOK' /\ DeviceOK'
  BY <1>1, LeftAlone
<1>4. ProgressInv' /\ Rising
  BY <1>1 DEF ProgressInv, InLoop, Rising, TypeInv, ProgressOK, progressVars
<1> QED BY <1>1, <1>2, <1>3, <1>4 DEF Good, TypeInv

LEMMA MoveFilesGood ==
  ASSUME TypeInv, ProgressInv, MoveFiles
  PROVE  Good
<1>1. /\ h.pc = "loop" /\ Take /\ AfterMessage(Args.target)
      /\ UNCHANGED <<h, deviceSide, broken, misread>>
  BY DEF MoveFiles, Loop
<1>2. PICK n \in 0..Len(Args.pairs) :
        /\ store' = Renamed(store, SubSeq(Args.pairs, 1, n))
        /\ Say(Status(IF n = Len(Args.pairs) THEN 0 ELSE -1, {}))
  BY DEF MoveFiles
<1>3. Head(toHost) \in Tokens
  BY <1>1, TakeTyped DEF TypeInv
<1>4. Args.pairs \in Seq(Pairs) /\ Args.target \in Nat
  BY <1>3, TokenFields DEF Args
<1>5. SubSeq(Args.pairs, 1, n) \in Seq(Pairs)
  BY <1>4, PrefixEnds
<1>6. StoreOK'
  <2>1. store \in Files /\ Single(store)
    BY DEF TypeInv, StoreOK
  <2>2. store' \in Files /\ Single(store')
    BY <1>2, <1>5, <2>1, RenamedKeeps
  <2> QED BY <2>2 DEF StoreOK, Single
<1>7. WiresOK'
  <2>1. PICK c \in {0, -1} : c = IF n = Len(Args.pairs) THEN 0 ELSE -1
    OBVIOUS
  <2>2. Say(Status(c, {}))
    BY <1>2, <2>1
  <2> QED BY <1>1, <2>2, StatusSaid
<1>8. ProgressOK' /\ ProgressInv' /\ Rising
  <2>1. Args.target \in Int
    BY <1>4
  <2> QED BY <1>1, <2>1, MessageShown
<1>9. HostOK' /\ DeviceOK'
  BY <1>1, LeftAlone
<1> QED BY <1>1, <1>6, <1>7, <1>8, <1>9 DEF Good, TypeInv

LEMMA RemoveFilesGood ==
  ASSUME TypeInv, ProgressInv, RemoveFiles
  PROVE  Good
<1>1. /\ h.pc = "loop" /\ Take /\ AfterMessage(Args.target)
      /\ UNCHANGED <<h, deviceSide, broken, misread>>
  BY DEF RemoveFiles, Loop
<1>2. PICK n \in 0..Len(Args.files) :
        /\ \E gone : store' = Removed(store, gone)
        /\ Say(Status(IF n = Len(Args.files) THEN 0 ELSE -1, {}))
  BY DEF RemoveFiles
<1>3. Head(toHost) \in Tokens
  BY <1>1, TakeTyped DEF TypeInv
<1>4. Args.target \in Int
  BY <1>3, TokenFields DEF Args
<1>6. StoreOK'
  <2>1. store \in Files /\ Single(store)
    BY DEF TypeInv, StoreOK
  <2>2. store' \in Files /\ Single(store')
    <3>1. PICK gone : store' = Removed(store, gone)
      BY <1>2
    <3> QED BY <2>1, <3>1, RemovedKeeps
  <2> QED BY <2>2 DEF StoreOK, Single
<1>7. WiresOK'
  <2>1. PICK c \in {0, -1} : c = IF n = Len(Args.files) THEN 0 ELSE -1
    OBVIOUS
  <2>2. Say(Status(c, {}))
    BY <1>2, <2>1
  <2> QED BY <1>1, <2>2, StatusSaid
<1>8. ProgressOK' /\ ProgressInv' /\ Rising
  BY <1>1, <1>4, MessageShown
<1>9. HostOK' /\ DeviceOK'
  BY <1>1, LeftAlone
<1> QED BY <1>1, <1>6, <1>7, <1>8, <1>9 DEF Good, TypeInv

LEMMA CopyItemGood ==
  ASSUME TypeInv, ProgressInv, CopyItem \/ CopyDirectory
  PROVE  Good
<1>1. /\ Take /\ Kind = "copy" /\ UNCHANGED <<h, progressVars, deviceSide, broken, misread>>
  BY DEF CopyItem, CopyDirectory, Loop
<1>2. Head(toHost) \in Tokens
  BY <1>1, TakeTyped DEF TypeInv
<1>3. Args.pairs \in Seq(Pairs) /\ Args.pairs # <<>>
  BY <1>1, <1>2, TokenFields DEF Args, Kind
<1>4. PICK from \in Paths, to \in Paths :
        from = Args.pairs[1][1] /\ to = Args.pairs[1][2]
  BY <1>3, PairEnds
<1>5. \/ store' = Copied(store, from, to) /\ Say(Status(0, {}))
      \/ store' = store /\ (Say(Status(0, {})) \/ Say(Status(-1, {})))
  BY <1>4 DEF CopyItem, CopyDirectory
<1>6. WiresOK'
  BY <1>1, <1>5, StatusSaid
<1>7. StoreOK'
  <2>1. store \in Files /\ Single(store)
    BY DEF TypeInv, StoreOK
  <2>2. Copied(store, from, to) \in Files /\ Single(Copied(store, from, to))
    BY <2>1, CopiedKeeps
  <2>3. store' \in Files /\ Single(store')
    BY <1>5, <2>1, <2>2
  <2> QED BY <2>3 DEF StoreOK, Single
<1>8. HostOK' /\ ProgressOK' /\ DeviceOK'
  BY <1>1, LeftAlone
<1>9. ProgressInv' /\ Rising
  BY <1>1 DEF ProgressInv, InLoop, Rising, TypeInv, ProgressOK, progressVars
<1> QED BY <1>1, <1>6, <1>7, <1>8, <1>9 DEF Good, TypeInv

(* The loop ends, well or not.                                             *)
LEMMA LoopEndsGood ==
  ASSUME TypeInv, ProgressInv, LoopReturns \/ LoopMisreads
  PROVE  Good
<1>1. /\ Take /\ UNCHANGED <<progressVars, backup, toDevice, deviceSide>>
      /\ broken' \in BOOLEAN /\ misread' \in BOOLEAN
  BY DEF LoopReturns, LoopMisreads, Loop, Fail, TypeInv
<1>2. h' = [Idle EXCEPT !.result = "ok"] \/ h' = [Idle EXCEPT !.result = "err"]
  BY DEF LoopReturns, LoopMisreads, Fail
<1>3. h' = Fresh("idle", "ok") \/ h' = Fresh("idle", "err")
  BY <1>2, IdleForms
<1>4. HostOK' /\ ~InLoop'
  BY <1>3, HostReturns DEF InLoop
<1>5. WiresOK'
  BY <1>1, TakeTyped DEF TypeInv, WiresOK
<1>6. ProgressOK' /\ StoreOK' /\ DeviceOK'
  BY <1>1, LeftAlone
<1>7. ProgressInv' /\ Rising
  BY <1>1, <1>4, NothingShown
<1> QED BY <1>1, <1>4, <1>5, <1>6, <1>7 DEF Good, TypeInv

(* Uploads.                                                                *)
LEMMA UploadFilesGood ==
  ASSUME TypeInv, ProgressInv, UploadFiles
  PROVE  Good
<1>1. /\ h.pc = "loop" /\ Take /\ h' = [h EXCEPT !.pc = "dir", !.bytes = 0, !.args = Args]
      /\ UNCHANGED <<progressVars, backup, toDevice, deviceSide, broken, misread>>
  BY DEF UploadFiles, Loop
<1>2. PICK a \in Arguments : a = Args
  BY <1>1, TakeTyped, TokenFields DEF TypeInv, Args
<1>3. h \in HostStates /\ h.content = <<>>
  BY <1>1 DEF TypeInv, HostOK
<1>4. h' = [h EXCEPT !.pc = "dir", !.bytes = 0, !.args = a]
  BY <1>1, <1>2
<1>5. h' \in HostStates /\ h'.pc = "dir" /\ h'.content = h.content /\ h'.bytes = 0
  BY <1>3, <1>4 DEF HostStates, Positions
<1>6. HostOK'
  BY <1>3, <1>5 DEF HostOK
<1>7. WiresOK'
  BY <1>1, TakeTyped DEF TypeInv, WiresOK
<1>8. ProgressOK' /\ StoreOK' /\ DeviceOK'
  BY <1>1, LeftAlone
<1>9. ProgressInv' /\ Rising
  <2>1. InLoop /\ h.bytes = 0
    BY <1>1 DEF ProgressInv, InLoop
  <2> QED BY <1>1, <1>5, <2>1, NothingShown
<1> QED BY <1>1, <1>6, <1>7, <1>8, <1>9 DEF Good, TypeInv

LEMMA UploadEndsGood ==
  ASSUME TypeInv, ProgressInv, InLoop, h.content = <<>>, Take, UploadEnds,
         UNCHANGED deviceSide
  PROVE  Good
<1>1. /\ EndBatch(h.bytes, h.args.target) /\ Say(Status(0, {}))
      /\ h' = [h EXCEPT !.pc = "loop", !.bytes = 0, !.args = NoArgs]
      /\ UNCHANGED <<backup, broken, misread>>
  BY DEF UploadEnds
<1>2. h \in HostStates /\ h.bytes \in Int /\ h.args.target \in Int
  BY HostFields DEF TypeInv, HostOK
<1>3. h' \in HostStates /\ h'.pc = "loop" /\ h'.content = h.content /\ h'.bytes = 0
  BY <1>1, <1>2, NothingTyped DEF HostStates, Positions
<1>4. HostOK'
  BY <1>3 DEF HostOK
<1>5. WiresOK'
  BY <1>1, StatusSaid
<1>6. StoreOK' /\ DeviceOK'
  BY <1>1, LeftAlone
<1>7. /\ ProgressOK'
      /\ tracker'.session = tracker.session + h.bytes /\ tracker'.last >= tracker.last
      /\ shown'.session = tracker'.session /\ shown'.overall = tracker'.last
  BY <1>1, <1>2, EndBatchIs DEF TypeInv
<1>8. ProgressInv' /\ Rising
  <2>1. tracker.session \in Int
    BY ShownTyped DEF TypeInv
  <2>2. /\ tracker'.session + h'.bytes = tracker.session + h.bytes
        /\ tracker'.session \in {tracker.session, tracker.session + h.bytes}
        /\ h.bytes >= h.bytes /\ h'.bytes \in Int /\ (h'.pc = "loop" => h'.bytes = 0)
        /\ \/ shown' = shown
           \/ shown'.session = tracker.session + h.bytes /\ shown'.overall = tracker'.last
    BY <1>2, <1>3, <1>7, <2>1
  <2> QED BY <1>2, <1>7, <2>2, SomethingShown
<1> QED BY <1>1, <1>4, <1>5, <1>6, <1>7, <1>8 DEF Good, TypeInv

(* A read out of step fails the call.                                      *)
LEMMA FailGood ==
  ASSUME TypeInv, ProgressInv, Take, Fail("err"), StoreOK', misread' \in BOOLEAN,
         UNCHANGED <<progressVars, toDevice, deviceSide>>
  PROVE  Good
<1>1. HostOK' /\ h'.pc = "idle" /\ broken' = TRUE
  BY FailTyped
<1>2. WiresOK'
  BY TakeTyped DEF TypeInv, WiresOK
<1>3. ProgressOK' /\ DeviceOK'
  BY LeftAlone
<1>4. ProgressInv' /\ Rising
  BY <1>1, NothingShown DEF InLoop
<1> QED BY <1>1, <1>2, <1>3, <1>4 DEF Good, TypeInv

LEMMA UploadStringGood ==
  ASSUME TypeInv, ProgressInv, NEW at \in {"dir", "name"}, NEW expected,
         NEW next \in {"name", "first"}, UploadString(at, expected, next)
  PROVE  Good
<1>1. h.pc = at /\ Take /\ UNCHANGED deviceSide
  BY DEF UploadString
<1>2. InLoop /\ h.content = <<>> /\ h \in HostStates
  BY <1>1 DEF InLoop, TypeInv, HostOK
<1>3. \/ UploadEnds
      \/ /\ h' = [h EXCEPT !.pc = next, !.file = Head(toHost).path]
         /\ UNCHANGED <<progressVars, backup, toDevice, broken, misread>>
      \/ /\ Fail("err") /\ misread' = TRUE /\ UNCHANGED <<progressVars, backup, toDevice>>
  BY DEF UploadString
<1>4. CASE UploadEnds
  BY <1>1, <1>2, <1>4, UploadEndsGood
<1>5. CASE /\ h' = [h EXCEPT !.pc = next, !.file = Head(toHost).path]
           /\ UNCHANGED <<progressVars, backup, toDevice, broken, misread>>
  <2>1. PICK p \in Paths : p = Head(toHost).path
    BY <1>1, TakeTyped, TokenFields DEF TypeInv
  <2>2. h' = [h EXCEPT !.pc = next, !.file = p]
    BY <1>5, <2>1
  <2>3. h' \in HostStates /\ h'.pc = next /\ h'.content = h.content /\ h'.bytes = h.bytes
    BY <1>2, <2>2 DEF HostStates, Positions
  <2>4. HostOK'
    BY <1>2, <2>3 DEF HostOK
  <2>5. WiresOK'
    BY <1>1, <1>5, TakeTyped DEF TypeInv, WiresOK
  <2>6. ProgressOK' /\ StoreOK' /\ DeviceOK'
    BY <1>1, <1>5, LeftAlone
  <2>7. h.bytes \in Int
    BY HostFields DEF TypeInv
  <2>8. ProgressInv' /\ Rising
    BY <1>2, <1>5, <2>3, <2>7, NothingShown
  <2> QED BY <1>5, <2>4, <2>5, <2>6, <2>8 DEF Good, TypeInv
<1>6. CASE Fail("err") /\ misread' = TRUE /\ UNCHANGED <<progressVars, backup, toDevice>>
  <2>1. StoreOK'
    BY <1>6, LeftAlone
  <2> QED BY <1>1, <1>6, <2>1, FailGood
<1> QED BY <1>3, <1>4, <1>5, <1>6

LEMMA StoreSet ==
  ASSUME StoreOK, NEW p \in Paths, NEW x \in SUBSET Seq(Values), \A c, d \in x : c = d,
         store' = [store EXCEPT ![p] = x]
  PROVE  StoreOK'
<1>1. store' \in Files
  BY DEF StoreOK, Files
<1>2. \A q \in Paths : store'[q] = IF q = p THEN x ELSE store[q]
  BY DEF StoreOK, Files
<1>3. Single(store')
  BY <1>2 DEF StoreOK, Single
<1> QED BY <1>1, <1>3 DEF StoreOK, Single

LEMMA UploadBlockGood ==
  ASSUME TypeInv, ProgressInv, UploadBlock
  PROVE  Good
<1>1. h.pc \in {"first", "blocks"} /\ Take /\ UNCHANGED <<toDevice, deviceSide>>
  BY DEF UploadBlock
<1>2. InLoop /\ h \in HostStates
  BY <1>1 DEF InLoop, TypeInv, HostOK
<1>3. h.bytes \in Int /\ h.bytes \in Nat /\ h.file \in Paths /\ h.content \in Seq(Values)
  BY HostFields DEF TypeInv
<1>4. Head(toHost) \in Tokens /\ WiresOK' /\ DeviceOK'
  BY <1>1, TakeTyped, LeftAlone DEF TypeInv, WiresOK
<1>5. StoreOK
  BY DEF TypeInv
<1>6. ASSUME h' = [h EXCEPT !.pc = "dir", !.content = <<>>], StoreOK',
             UNCHANGED <<progressVars, broken, misread>>
      PROVE  Good
  <2>1. h' \in HostStates /\ h'.pc = "dir" /\ h'.content = <<>> /\ h'.bytes = h.bytes
    BY <1>2, <1>6, NothingTyped DEF HostStates, Positions
  <2>2. HostOK'
    BY <2>1 DEF HostOK
  <2>3. ProgressOK'
    BY <1>6, LeftAlone
  <2>4. ProgressInv' /\ Rising
    BY <1>2, <1>3, <1>6, <2>1, NothingShown
  <2> QED BY <1>4, <1>6, <2>2, <2>3, <2>4 DEF Good, TypeInv
<1>7. CASE Kind = "zero"
  <2>1. FileEnds
    BY <1>7 DEF UploadBlock
  <2>2. h' = [h EXCEPT !.pc = "dir", !.content = <<>>]
    BY <2>1 DEF FileEnds
  <2>3. UNCHANGED <<progressVars, backup, broken, misread>>
    BY <2>1 DEF FileEnds
  <2> QED BY <1>6, <2>2, <2>3, LeftAlone
<1>8. CASE Kind = "data"
  <2>1. PICK v \in Values : v = Head(toHost).val
    BY <1>4, <1>8, TokenFields DEF Kind
  <2>2. PICK c \in Seq(Values) : c = Append(h.content, v)
    BY <1>3, <2>1, Queue
  <2>3. /\ store' = [store EXCEPT ![h.file] = {c}]
        /\ h' = [h EXCEPT !.pc = "blocks", !.bytes = h.bytes + 1, !.content = c]
        /\ MayEmit(h.bytes + 1, h.bytes + 1, h.args.total, h.args.target)
        /\ UNCHANGED <<broken, misread>>
    BY <1>8, <2>1, <2>2 DEF UploadBlock
  <2>4. h.bytes + 1 \in Nat /\ h.bytes + 1 \in Int
    BY <1>3
  <2>5. PICK n \in Nat : n = h.bytes + 1
    BY <2>4
  <2>6. h' = [h EXCEPT !.pc = "blocks", !.bytes = n, !.content = c]
    BY <2>3, <2>5
  <2>7. h' \in HostStates /\ h'.pc = "blocks" /\ h'.bytes = h.bytes + 1
    BY <1>2, <2>5, <2>6 DEF HostStates, Positions
  <2>8. HostOK'
    BY <2>7 DEF HostOK
  <2>9. StoreOK'
    <3>1. {c} \in SUBSET Seq(Values) /\ \A x, y \in {c} : x = y
      OBVIOUS
    <3> QED BY <1>3, <1>5, <2>3, <3>1, StoreSet
  <2>10. h.args.total \in Nat /\ h.args.target \in Int
    BY HostFields DEF TypeInv
  <2>11. /\ ProgressOK'
         /\ tracker'.session = tracker.session /\ tracker'.last >= tracker.last
         /\ \/ shown' = shown
            \/ shown'.session = tracker.session + (h.bytes + 1)
               /\ shown'.overall = tracker'.last
    BY <2>3, <2>4, <2>10, MayEmitIs DEF TypeInv
  <2>12. ProgressInv' /\ Rising
    <3>1. /\ h.bytes + 1 >= h.bytes /\ h'.bytes \in Int
          /\ tracker'.session \in {tracker.session, tracker.session + (h.bytes + 1)}
          /\ tracker'.session + h'.bytes = tracker.session + (h.bytes + 1)
          /\ h'.pc = "loop" => h'.bytes = 0
      BY <1>3, <2>4, <2>7, <2>11
    <3> QED BY <1>2, <2>4, <2>11, <3>1, SomethingShown
  <2> QED BY <1>4, <2>3, <2>8, <2>9, <2>11, <2>12 DEF Good, TypeInv
<1>9. CASE Kind \in {"success", "error"}
  <2>1. /\ store' = IF h.pc = "first" THEN [store EXCEPT ![h.file] = {<<>>}] ELSE store
        /\ UNCHANGED <<progressVars, broken, misread>>
    BY <1>9 DEF UploadBlock
  <2>2. h' = [h EXCEPT !.pc = "dir", !.content = <<>>]
    BY <1>9 DEF UploadBlock
  <2>3. {<<>>} \in SUBSET Seq(Values) /\ \A x, y \in {<<>>} : x = y
    OBVIOUS
  <2>4. StoreOK'
    BY <1>3, <1>5, <2>1, <2>3, StoreSet, LeftAlone
  <2> QED BY <1>6, <2>1, <2>2, <2>4
<1>10. CASE Kind \notin {"zero", "data", "success", "error"}
  <2>1. Fail("err") /\ misread' = TRUE /\ UNCHANGED <<progressVars, backup>>
    BY <1>10 DEF UploadBlock
  <2>2. StoreOK'
    BY <2>1, LeftAlone
  <2> QED BY <1>1, <2>1, <2>2, FailGood
<1> QED BY <1>7, <1>8, <1>9, <1>10

LEMMA UploadFailsGood ==
  ASSUME TypeInv, ProgressInv, UploadFails
  PROVE  Good
<1>1. /\ h.pc \in {"first", "blocks"} /\ Take /\ Fail("err")
      /\ UNCHANGED <<progressVars, toDevice, deviceSide>> /\ UNCHANGED misread
  BY DEF UploadFails
<1>2. StoreOK /\ h.file \in Paths /\ misread' \in BOOLEAN
  BY <1>1, HostFields DEF TypeInv
<1>3. PICK x \in {store[h.file], {}, {<<>>}} :
        store' = store \/ store' = [store EXCEPT ![h.file] = x]
  BY DEF UploadFails
<1>4. x \in SUBSET Seq(Values) /\ \A c, d \in x : c = d
  <2>1. store[h.file] \in SUBSET Seq(Values) /\ \A c, d \in store[h.file] : c = d
    BY <1>2 DEF StoreOK, Files, Single
  <2>2. {} \in SUBSET Seq(Values) /\ {<<>>} \in SUBSET Seq(Values)
    OBVIOUS
  <2>3. CASE x = store[h.file]
    BY <2>1, <2>3
  <2>4. CASE x \in {{}, {<<>>}}
    BY <2>2, <2>4
  <2> QED BY <2>3, <2>4
<1>5. StoreOK'
  BY <1>2, <1>3, <1>4, StoreSet, LeftAlone
<1> QED BY <1>1, <1>2, <1>5, FailGood

(* Downloads.                                                              *)
LEMMA DownloadFilesGood ==
  ASSUME TypeInv, ProgressInv, DownloadFiles
  PROVE  Good
<1>1. /\ h.pc = "loop" /\ Take
      /\ h' = [h EXCEPT !.pc = "file", !.todo = Args.files, !.args = Args, !.errs = {},
                        !.bytes = 0, !.done = 0]
      /\ UNCHANGED <<progressVars, backup, toDevice, deviceSide, broken, misread>>
  BY DEF DownloadFiles, Loop
<1>2. PICK a \in Arguments : a = Args /\ a.files \in Seq(Paths)
  BY <1>1, TakeTyped, TokenFields DEF TypeInv, Args
<1>3. h \in HostStates /\ h.content = <<>>
  BY <1>1 DEF TypeInv, HostOK
<1>4. PICK fs \in Seq(Paths) : fs = a.files
  BY <1>2
<1>5. h' = [h EXCEPT !.pc = "file", !.todo = fs, !.args = a, !.errs = {}, !.bytes = 0,
                     !.done = 0]
  BY <1>1, <1>2, <1>4
<1>6. h' \in HostStates /\ h'.pc = "file" /\ h'.content = h.content /\ h'.bytes = 0
  BY <1>3, <1>5 DEF HostStates, Positions
<1>7. HostOK'
  BY <1>3, <1>6 DEF HostOK
<1>8. WiresOK' /\ ProgressOK' /\ StoreOK' /\ DeviceOK'
  BY <1>1, TakeTyped, LeftAlone DEF TypeInv, WiresOK
<1>9. ProgressInv' /\ Rising
  <2>1. InLoop /\ h.bytes = 0
    BY <1>1 DEF ProgressInv, InLoop
  <2> QED BY <1>1, <1>6, <2>1, NothingShown
<1> QED BY <1>1, <1>7, <1>8, <1>9 DEF Good, TypeInv

LEMMA SendNameGood ==
  ASSUME TypeInv, ProgressInv, SendName
  PROVE  Good
<1>1. /\ h.pc = "file" /\ h.todo # <<>> /\ Say(Token("name", Head(h.todo), 0))
      /\ UNCHANGED <<progressVars, backup, toHost, deviceSide, broken, misread>>
  BY DEF SendName
<1>2. h \in HostStates /\ h.todo \in Seq(Paths) /\ h.bytes \in Int /\ InLoop
  BY <1>1, HostFields DEF TypeInv, HostOK, InLoop
<1>3. Head(h.todo) \in Paths
  BY <1>1, <1>2, Queue
<1>4. WiresOK'
  <2>1. Token("name", Head(h.todo), 0) \in Tokens
    BY <1>3, PieceTyped
  <2> QED BY <1>1, <2>1, SayTyped DEF TypeInv, WiresOK
<1>5. \/ \E c \in Seq(Values) : h' = [h EXCEPT !.pc = "send", !.content = c]
      \/ h' = [h EXCEPT !.pc = "fail"]
  <2>1. store[Head(h.todo)] \in SUBSET Seq(Values)
    BY <1>3 DEF TypeInv, StoreOK, Files
  <2> QED BY <2>1 DEF SendName
<1>6. /\ h' \in HostStates /\ h'.pc \in {"send", "fail"} /\ h'.todo = h.todo
      /\ h'.bytes = h.bytes
  <2>1. ASSUME NEW c \in Seq(Values), h' = [h EXCEPT !.pc = "send", !.content = c]
        PROVE  /\ h' \in HostStates /\ h'.pc \in {"send", "fail"} /\ h'.todo = h.todo
               /\ h'.bytes = h.bytes
    BY <1>2, <2>1 DEF HostStates, Positions
  <2>2. CASE h' = [h EXCEPT !.pc = "fail"]
    BY <1>2, <2>2 DEF HostStates, Positions
  <2> QED BY <1>5, <2>1, <2>2
<1>7. HostOK'
  BY <1>1, <1>6 DEF HostOK
<1>8. ProgressOK' /\ StoreOK' /\ DeviceOK'
  BY <1>1, LeftAlone
<1>9. ProgressInv' /\ Rising
  BY <1>1, <1>2, <1>6, NothingShown
<1> QED BY <1>1, <1>4, <1>7, <1>8, <1>9 DEF Good, TypeInv

LEMMA SendBlockGood ==
  ASSUME TypeInv, ProgressInv, SendBlock
  PROVE  Good
<1>1. /\ h.pc = "send" /\ h.content # <<>>
      /\ UNCHANGED <<backup, toHost, deviceSide, broken, misread>>
  BY DEF SendBlock
<1>2. /\ h \in HostStates /\ h.content \in Seq(Values) /\ h.bytes \in Int /\ h.bytes \in Nat
      /\ h.todo # <<>> /\ InLoop
  BY <1>1, HostFields DEF TypeInv, HostOK, InLoop
<1>3. StoreOK' /\ DeviceOK'
  BY <1>1, LeftAlone
<1>4. CASE /\ Say(Token("data", NoPath, Head(h.content)))
           /\ h' = [h EXCEPT !.content = Tail(h.content), !.bytes = h.bytes + 1]
           /\ MayEmit(h.bytes + 1, h.done, Len(h.args.files), h.args.target)
  <2>1. PICK c \in Seq(Values), n \in Nat : c = Tail(h.content) /\ n = h.bytes + 1
    <3>1. Tail(h.content) \in Seq(Values)
      BY <1>1, <1>2, Queue
    <3>2. h.bytes + 1 \in Nat
      BY <1>2
    <3> QED BY <3>1, <3>2
  <2>2. h' = [h EXCEPT !.content = c, !.bytes = n]
    BY <1>4, <2>1
  <2>3. h' \in HostStates /\ h'.pc = h.pc /\ h'.bytes = n /\ h'.todo = h.todo
    BY <1>2, <2>2 DEF HostStates
  <2>4. HostOK'
    BY <1>1, <1>2, <2>3 DEF HostOK
  <2>5. WiresOK'
    <3>1. Head(h.content) \in Values
      BY <1>1, <1>2, Queue
    <3>2. Token("data", NoPath, Head(h.content)) \in Tokens
      BY <3>1, PieceTyped
    <3> QED BY <1>1, <1>4, <3>2, SayTyped DEF TypeInv, WiresOK
  <2>6. /\ h.done \in Int /\ Len(h.args.files) \in Nat /\ h.args.target \in Int
        /\ h.bytes + 1 \in Int
    BY <1>2, HostFields DEF TypeInv
  <2>7. /\ ProgressOK'
        /\ tracker'.session = tracker.session /\ tracker'.last >= tracker.last
        /\ \/ shown' = shown
           \/ shown'.session = tracker.session + (h.bytes + 1)
              /\ shown'.overall = tracker'.last
    BY <1>4, <2>6, MayEmitIs DEF TypeInv
  <2>8. ProgressInv' /\ Rising
    <3>1. /\ h.bytes + 1 >= h.bytes /\ h'.bytes \in Int
          /\ tracker'.session \in {tracker.session, tracker.session + (h.bytes + 1)}
          /\ tracker'.session + h'.bytes = tracker.session + (h.bytes + 1)
          /\ h'.pc = "loop" => h'.bytes = 0
      BY <1>1, <1>2, <2>1, <2>3, <2>6, <2>7
    <3> QED BY <1>2, <2>6, <2>7, <3>1, SomethingShown
  <2> QED BY <1>1, <1>3, <2>4, <2>5, <2>7, <2>8 DEF Good, TypeInv
<1>5. CASE h' = [h EXCEPT !.pc = "fail"] /\ UNCHANGED <<progressVars, toDevice>>
  <2>1. h' \in HostStates /\ h'.pc = "fail" /\ h'.bytes = h.bytes /\ h'.todo = h.todo
    BY <1>2, <1>5 DEF HostStates, Positions
  <2>2. HostOK'
    BY <1>2, <2>1 DEF HostOK
  <2>3. WiresOK'
    BY <1>1, <1>5 DEF TypeInv, WiresOK
  <2>4. ProgressOK'
    BY <1>5, LeftAlone
  <2>5. ProgressInv' /\ Rising
    BY <1>2, <1>5, <2>1, NothingShown
  <2> QED BY <1>1, <1>3, <2>2, <2>3, <2>4, <2>5 DEF Good, TypeInv
<1> QED BY <1>4, <1>5 DEF SendBlock

LEMMA SendTrailerGood ==
  ASSUME TypeInv, ProgressInv, SendTrailer
  PROVE  Good
<1>1. /\ h.pc \in {"send", "fail"}
      /\ UNCHANGED <<backup, toHost, deviceSide, broken, misread>>
      /\ Snapshot(tracker, h.bytes, h.done + 1, Len(h.args.files), h.args.target)
  BY DEF SendTrailer
<1>2. /\ h \in HostStates /\ h.bytes \in Int /\ h.done \in Nat /\ h.errs \in SUBSET Paths
      /\ h.todo \in Seq(Paths) /\ h.todo # <<>> /\ InLoop
  BY <1>1, HostFields DEF TypeInv, HostOK, InLoop
<1>3. PICK td \in Seq(Paths), n \in Nat, e \in SUBSET Paths :
        /\ td = Tail(h.todo) /\ n = h.done + 1
        /\ e = IF h.pc = "fail" THEN h.errs \cup {Head(h.todo)} ELSE h.errs
  <2>1. Tail(h.todo) \in Seq(Paths) /\ Head(h.todo) \in Paths
    BY <1>2, Queue
  <2>2. h.done + 1 \in Nat
    BY <1>2
  <2>3. (IF h.pc = "fail" THEN h.errs \cup {Head(h.todo)} ELSE h.errs) \in SUBSET Paths
    BY <1>2, <2>1
  <2> QED BY <2>1, <2>2, <2>3, Zenon
<1>4. h' = [h EXCEPT !.pc = "file", !.todo = td, !.content = <<>>, !.done = n, !.errs = e]
  BY <1>3 DEF SendTrailer
<1>5. h' \in HostStates /\ h'.pc = "file" /\ h'.content = <<>> /\ h'.bytes = h.bytes
  BY <1>2, <1>4, NothingTyped DEF HostStates, Positions
<1>6. HostOK'
  BY <1>5 DEF HostOK
<1>7. WiresOK'
  <2>1. PICK k \in {"error", "success"} : k = IF h.pc = "fail" THEN "error" ELSE "success"
    OBVIOUS
  <2>2. Token(k, NoPath, 0) \in Tokens
    BY MsgTyped DEF Msg, Kinds
  <2>3. Say(Token(k, NoPath, 0))
    BY <2>1 DEF SendTrailer
  <2> QED BY <1>1, <2>2, <2>3, SayTyped DEF TypeInv, WiresOK
<1>8. StoreOK' /\ DeviceOK'
  BY <1>1, LeftAlone
<1>9. /\ ProgressOK'
      /\ tracker'.session = tracker.session /\ tracker'.last >= tracker.last
      /\ shown'.session = tracker.session + h.bytes /\ shown'.overall = tracker'.last
  <2>1. Len(h.args.files) \in Nat /\ h.args.target \in Int
    BY HostFields DEF TypeInv
  <2>2. h.done + 1 \in Int
    BY <1>2
  <2>3. tracker \in Trackers
    BY DEF TypeInv, ProgressOK, Trackers
  <2> QED BY <1>1, <1>2, <2>1, <2>2, <2>3, SnapshotIs
<1>10. ProgressInv' /\ Rising
  <2>1. /\ h.bytes >= h.bytes /\ h'.bytes \in Int
        /\ tracker'.session \in {tracker.session, tracker.session + h.bytes}
        /\ tracker'.session + h'.bytes = tracker.session + h.bytes
        /\ h'.pc = "loop" => h'.bytes = 0
    BY <1>2, <1>5, <1>9
  <2> QED BY <1>2, <1>9, <2>1, SomethingShown
<1> QED BY <1>1, <1>6, <1>7, <1>8, <1>9, <1>10 DEF Good, TypeInv

LEMMA DownloadEndsGood ==
  ASSUME TypeInv, ProgressInv, DownloadEnds
  PROVE  Good
<1>1. /\ h.pc = "file" /\ EndBatch(h.bytes, h.args.target)
      /\ h' = [h EXCEPT !.pc = "loop", !.bytes = 0, !.errs = {}, !.done = 0, !.args = NoArgs]
      /\ UNCHANGED <<backup, toHost, deviceSide, broken, misread>>
  BY DEF DownloadEnds
<1>2. /\ h \in HostStates /\ h.bytes \in Int /\ h.args.target \in Int /\ InLoop
      /\ h.content = <<>> /\ h.errs \in SUBSET Paths
  BY <1>1, HostFields DEF TypeInv, HostOK, InLoop
<1>3. h' \in HostStates /\ h'.pc = "loop" /\ h'.content = h.content /\ h'.bytes = 0
  BY <1>1, <1>2, NothingTyped DEF HostStates, Positions
<1>4. HostOK'
  BY <1>2, <1>3 DEF HostOK
<1>5. WiresOK'
  <2>1. PICK c \in {0, -13} : c = IF h.errs = {} THEN 0 ELSE -13
    OBVIOUS
  <2>2. Msg("zero") \in Tokens /\ Status(c, h.errs) \in Tokens
    BY <1>2, MsgTyped, StatusTyped DEF Kinds
  <2>3. toDevice' = toDevice \o <<Msg("zero"), Status(c, h.errs)>>
    BY <2>1 DEF DownloadEnds
  <2>4. <<Msg("zero"), Status(c, h.errs)>> \in Seq(Tokens)
    BY <2>2
  <2>5. toDevice \in Seq(Tokens)
    BY DEF TypeInv, WiresOK
  <2>6. toDevice' \in Seq(Tokens)
    BY <2>3, <2>4, <2>5
  <2> QED BY <1>1, <2>6 DEF TypeInv, WiresOK
<1>6. StoreOK' /\ DeviceOK'
  BY <1>1, LeftAlone
<1>7. /\ ProgressOK'
      /\ tracker'.session = tracker.session + h.bytes /\ tracker'.last >= tracker.last
      /\ shown'.session = tracker'.session /\ shown'.overall = tracker'.last
  BY <1>1, <1>2, EndBatchIs DEF TypeInv
<1>8. ProgressInv' /\ Rising
  <2>1. tracker.session \in Int
    BY ShownTyped DEF TypeInv
  <2>2. /\ tracker'.session + h'.bytes = tracker.session + h.bytes
        /\ tracker'.session \in {tracker.session, tracker.session + h.bytes}
        /\ h.bytes >= h.bytes /\ h'.bytes \in Int /\ (h'.pc = "loop" => h'.bytes = 0)
        /\ \/ shown' = shown
           \/ shown'.session = tracker.session + h.bytes /\ shown'.overall = tracker'.last
    BY <1>2, <1>3, <1>7, <2>1
  <2> QED BY <1>2, <1>7, <2>2, SomethingShown
<1> QED BY <1>1, <1>4, <1>5, <1>6, <1>7, <1>8 DEF Good, TypeInv

LEMMA SocketErrorGood ==
  ASSUME TypeInv, ProgressInv, SocketError
  PROVE  Good
<1>1. /\ toHost' = <<>> /\ toDevice' = <<>> /\ dev' = "gone"
      /\ UNCHANGED <<progressVars, backup, ask, mirror, doubt, asked, misread>>
  BY DEF SocketError
<1>2. HostOK' /\ ~InLoop' /\ broken' = TRUE
  <2>1. CASE h.pc \in {"dl_version", "dl_ready", "hello"}
    <3>1. h' = [h EXCEPT !.pc = "failed"] /\ h.content = <<>> /\ broken' = TRUE
      BY <2>1 DEF SocketError, TypeInv, HostOK
    <3>2. HostOK' /\ h'.pc = "failed"
      BY <3>1, HostMoves DEF Positions, TypeInv
    <3> QED BY <3>1, <3>2 DEF InLoop
  <2>2. CASE h.pc \notin {"dl_version", "dl_ready", "hello"}
    <3>1. Fail("err")
      BY <2>2 DEF SocketError
    <3> QED BY <3>1, FailTyped DEF InLoop
  <2> QED BY <2>1, <2>2
<1>3. WiresOK'
  BY <1>1 DEF WiresOK
<1>4. ProgressOK' /\ StoreOK'
  BY <1>1, LeftAlone
<1>5. DeviceOK'
  BY <1>1 DEF TypeInv, DeviceOK
<1>6. ProgressInv' /\ Rising
  BY <1>1, <1>2, NothingShown
<1> QED BY <1>1, <1>2, <1>3, <1>4, <1>5, <1>6 DEF Good, TypeInv

LEMMA DropOperationGood ==
  ASSUME TypeInv, ProgressInv, DropOperation
  PROVE  Good
<1>1. UNCHANGED <<progressVars, backup, toHost, toDevice, deviceSide, misread>>
  BY DEF DropOperation
<1>2. HostOK' /\ ~InLoop' /\ broken' = TRUE
  <2>1. CASE h.pc \in {"dl_version", "dl_ready", "hello"}
    <3>1. h' = [h EXCEPT !.pc = "failed"] /\ h.content = <<>> /\ broken' = TRUE
      BY <2>1 DEF DropOperation, TypeInv, HostOK
    <3>2. HostOK' /\ h'.pc = "failed"
      BY <3>1, HostMoves DEF Positions, TypeInv
    <3> QED BY <3>1, <3>2 DEF InLoop
  <2>2. CASE h.pc \notin {"dl_version", "dl_ready", "hello"}
    <3>1. h' = Fresh("idle", "none") /\ broken' = TRUE
      BY <2>2, IdleForms DEF DropOperation, Fail
    <3> QED BY <3>1, HostReturns DEF InLoop
  <2> QED BY <2>1, <2>2
<1>3. WiresOK'
  BY <1>1 DEF TypeInv, WiresOK
<1>4. ProgressOK' /\ StoreOK' /\ DeviceOK'
  BY <1>1, LeftAlone
<1>5. ProgressInv' /\ Rising
  BY <1>1, <1>2, NothingShown
<1> QED BY <1>1, <1>2, <1>3, <1>4, <1>5 DEF Good, TypeInv

(* The device.                                                             *)
LEMMA DeviceStep ==
  ASSUME TypeInv, ProgressInv, UNCHANGED hostSide, WiresOK', DeviceOK', misread' \in BOOLEAN
  PROVE  Good
<1>1. UNCHANGED h /\ UNCHANGED progressVars /\ UNCHANGED backup /\ UNCHANGED broken
  BY DEF hostSide
<1>2. HostOK' /\ ProgressOK' /\ StoreOK'
  BY <1>1, LeftAlone
<1>3. ProgressInv' /\ Rising
  BY <1>1 DEF ProgressInv, InLoop, Rising, TypeInv, ProgressOK, progressVars
<1> QED BY <1>1, <1>2, <1>3 DEF Good, TypeInv

LEMMA AskFields ==
  ASSUME DeviceOK
  PROVE  /\ ask \in Requests /\ ask.files \in Seq(Paths) /\ ask.pairs \in Seq(Pairs)
         /\ ask.got \in Seq(Values) /\ ask.bad \in SUBSET Paths
         /\ ask.tag \in {"none", "simple", "move", "remove", "copy", "upload", "download"}
         /\ mirror \in Files /\ doubt \in SUBSET Paths
  BY DEF DeviceOK, Requests

LEMMA MessageTold ==
  ASSUME TypeInv, NEW k \in Kinds \ {"data", "copy"}, Tell(Msg(k))
  PROVE  toHost' \in Seq(Tokens)
<1>1. Msg(k) \in Tokens
  BY MsgTyped
<1> QED BY <1>1, SayTyped DEF TypeInv

LEMMA DeviceTalksGood ==
  ASSUME TypeInv, ProgressInv, DeviceGreets \/ DeviceHears \/ DeviceEndsLoop
  PROVE  Good
<1>1. UNCHANGED hostSide /\ misread' = misread
  BY DEF DeviceGreets, DeviceHears, DeviceEndsLoop
<1>2. \/ \E k \in {"DLMessageVersionExchange", "simple", "DLMessageDeviceReady", "Response",
                   "ErrorCode", "DLMessageProcessMessage", "DLMessageDisconnect"} : Tell(Msg(k))
      \/ UNCHANGED toHost
  BY DEF DeviceGreets, DeviceHears, DeviceEndsLoop
<1>3. toHost' \in Seq(Tokens)
  <2>1. ASSUME NEW k \in {"DLMessageVersionExchange", "simple", "DLMessageDeviceReady",
                          "Response", "ErrorCode", "DLMessageProcessMessage",
                          "DLMessageDisconnect"}, Tell(Msg(k))
        PROVE  toHost' \in Seq(Tokens)
    <3>1. k \in Kinds \ {"data", "copy"}
      BY DEF Kinds
    <3> QED BY <2>1, <3>1, MessageTold
  <2> QED BY <1>2, <2>1 DEF TypeInv, WiresOK
<1>4. Hear \/ UNCHANGED toDevice
  BY DEF DeviceGreets, DeviceHears, DeviceEndsLoop
<1>5. WiresOK'
  BY <1>3, <1>4, TakeTyped DEF TypeInv, WiresOK
<1>6. /\ dev' \in {"versions", "hello", "idle", "loop", "gone"} /\ UNCHANGED <<mirror, doubt>>
      /\ ask' \in {ask, NoAsk}
  BY DEF DeviceGreets, DeviceHears, DeviceEndsLoop
<1>7. DeviceOK'
  <2>1. NoAsk \in Requests /\ NoAsk.tag = "none"
    BY NothingTyped DEF NoAsk
  <2> QED BY <1>6, <2>1 DEF TypeInv, DeviceOK
<1> QED BY <1>1, <1>5, <1>7, DeviceStep DEF TypeInv

(* A request of the device, and the message it is sent with.               *)
LEMMA RequestTyped ==
  ASSUME NEW tag \in RequestTags, NEW a \in Arguments, tag = "copy" => a.pairs # <<>>
  PROVE  \E tok \in Tokens : /\ tok = [Msg(tag) EXCEPT !.args = a]
                             /\ tok.kind = tag /\ tok.args = a
<1>1. PICK m \in [kind : RequestTags, path : Paths, val : Int, bad : SUBSET Paths,
                 args : Arguments] :
        m = Msg(tag) /\ m.kind = tag /\ m.path = NoPath /\ m.val = 0 /\ m.bad = {}
  <2>1. PICK m : m = [kind |-> tag, path |-> NoPath, val |-> 0, bad |-> {}, args |-> NoArgs]
    OBVIOUS
  <2>2. m \in [kind : RequestTags, path : Paths, val : Int, bad : SUBSET Paths,
               args : Arguments]
    BY <2>1, NoPathIs, NothingTyped
  <2>3. m.kind = tag /\ m.path = NoPath /\ m.val = 0 /\ m.bad = {}
    BY <2>1
  <2>4. Msg(tag) = [kind |-> tag, path |-> NoPath, val |-> 0, bad |-> {}, args |-> NoArgs]
    BY DEF Msg, Token
  <2>5. m = Msg(tag)
    BY <2>1, <2>4
  <2> QED BY <2>2, <2>3, <2>5
<1>2. PICK tok : tok = [kind |-> tag, path |-> NoPath, val |-> 0, bad |-> {}, args |-> a]
  OBVIOUS
<1>3. [m EXCEPT !.args = a] = tok
  <2>1. [m EXCEPT !.args = a] =
          [kind |-> m.kind, path |-> m.path, val |-> m.val, bad |-> m.bad, args |-> a]
    OBVIOUS
  <2> QED BY <1>1, <1>2, <2>1
<1>4. tag \in Kinds /\ 0 \in Codes /\ {} \in SUBSET Paths /\ tag # "data"
  BY DEF Kinds, Codes, RequestTags
<1>5. tok \in Tokens
  BY <1>2, <1>4, NoPathIs, TokenTyped
<1>6. tok.kind = tag /\ tok.args = a
  BY <1>2
<1> QED BY <1>1, <1>3, <1>5, <1>6

(* What DeviceAsks chooses.                                                *)
LEMMA AsksIs ==
  ASSUME DeviceAsks
  PROVE  \E tag \in RequestTags, fs \in Seq(Paths), ps \in Seq(Pairs), tok \in Tokens :
           /\ ask' \in Requests /\ ask'.tag = tag /\ ask'.files = fs /\ ask'.pairs = ps
           /\ ask'.got = <<>> /\ ask'.bad = {}
           /\ tag = "copy" => ps # <<>>
           /\ tag = "remove" => ps = <<>>
           /\ tok.kind = tag /\ tok.args.files = fs /\ tok.args.pairs = ps /\ Tell(tok)
           /\ dev' = CASE tag = "upload" -> "dir"
                       [] tag = "download" -> "files"
                       [] OTHER -> "status"
<1>1. PICK tag \in RequestTags, target \in Targets :
        /\ \E fs \in IF tag \in {"remove", "download"} THEN FileSeqs ELSE {<<>>},
              ps \in CASE tag = "move" -> PairSeqs
                       [] tag = "copy" -> {<<x>> : x \in Pairs}
                       [] OTHER -> {<<>>},
              tot \in IF tag = "upload" THEN Totals ELSE {0} :
             /\ ask' = [NoAsk EXCEPT !.tag = tag, !.files = fs, !.pairs = ps]
             /\ Tell([Msg(tag) EXCEPT !.args =
                        [files |-> fs, pairs |-> ps, total |-> tot,
                         target |-> IF tag \in {"simple", "copy"} THEN 0 ELSE target]])
        /\ dev' = CASE tag = "upload" -> "dir"
                    [] tag = "download" -> "files"
                    [] OTHER -> "status"
  BY DEF DeviceAsks, RequestTags
<1>2. PICK fs, ps, tot :
        /\ fs \in IF tag \in {"remove", "download"} THEN FileSeqs ELSE {<<>>}
        /\ ps \in CASE tag = "move" -> PairSeqs
                   [] tag = "copy" -> {<<x>> : x \in Pairs}
                   [] OTHER -> {<<>>}
        /\ tot \in IF tag = "upload" THEN Totals ELSE {0}
        /\ ask' = [NoAsk EXCEPT !.tag = tag, !.files = fs, !.pairs = ps]
        /\ Tell([Msg(tag) EXCEPT !.args =
                   [files |-> fs, pairs |-> ps, total |-> tot,
                    target |-> IF tag \in {"simple", "copy"} THEN 0 ELSE target]])
  BY <1>1
<1>3. fs \in Seq(Paths)
  <2>1. fs \in FileSeqs \/ fs = <<>>
    BY <1>2
  <2>2. ASSUME NEW p \in Paths, NEW q \in Paths
        PROVE  <<p>> \in Seq(Paths) /\ <<p, q>> \in Seq(Paths)
    OBVIOUS
  <2>3. fs \in FileSeqs => \E p, q \in Paths : fs = <<p>> \/ fs = <<p, q>>
    BY DEF FileSeqs
  <2> QED BY <2>1, <2>2, <2>3, NothingTyped
<1>4. ps \in Seq(Pairs) /\ (tag = "copy" => ps # <<>>) /\ (tag = "remove" => ps = <<>>)
  <2>1. /\ ps \in PairSeqs \/ ps \in {<<x>> : x \in Pairs} \/ ps = <<>>
        /\ tag = "copy" => ps \in {<<x>> : x \in Pairs}
        /\ tag = "remove" => ps = <<>>
    BY <1>2
  <2>2. ASSUME NEW x \in Pairs, NEW y \in Pairs
        PROVE  <<x>> \in Seq(Pairs) /\ <<x>> # <<>> /\ <<x, y>> \in Seq(Pairs)
    OBVIOUS
  <2>3. ASSUME ps \in {<<x>> : x \in Pairs} PROVE ps \in Seq(Pairs) /\ ps # <<>>
    BY <2>2, <2>3, Zenon
  <2>4. ps \in PairSeqs => \E x, y \in Pairs : ps = <<x>> \/ ps = <<x, y>>
    BY DEF PairSeqs
  <2> QED BY <2>1, <2>2, <2>3, <2>4, NothingTyped
<1>5. tot \in Nat
  BY <1>2, BoundsAssumption
<1>6. PICK tgt \in Nat : tgt = IF tag \in {"simple", "copy"} THEN 0 ELSE target
  <2>1. target \in 0..100
    BY BoundsAssumption
  <2>2. target \in Nat
    BY <2>1
  <2> QED BY <2>2
<1>7. PICK a \in Arguments : /\ a = [files |-> fs, pairs |-> ps, total |-> tot, target |-> tgt]
                              /\ a.files = fs /\ a.pairs = ps
  <2>1. PICK a : a = [files |-> fs, pairs |-> ps, total |-> tot, target |-> tgt]
    OBVIOUS
  <2>2. a \in Arguments
    BY <1>3, <1>4, <1>5, <2>1 DEF Arguments
  <2>3. a.files = fs /\ a.pairs = ps
    BY <2>1
  <2> QED BY <2>1, <2>2, <2>3
<1>8. PICK tok \in Tokens : /\ tok = [Msg(tag) EXCEPT !.args = a]
                           /\ tok.kind = tag /\ tok.args = a
  BY <1>4, <1>7, RequestTyped
<1>9. Tell(tok) /\ tok.kind = tag /\ tok.args.files = fs /\ tok.args.pairs = ps
  BY <1>2, <1>6, <1>7, <1>8
<1>10. /\ ask' \in Requests /\ ask'.tag = tag /\ ask'.files = fs /\ ask'.pairs = ps
       /\ ask'.got = <<>> /\ ask'.bad = {}
  <2>1. PICK n \in Requests : n = NoAsk /\ n.got = <<>> /\ n.bad = {}
    BY NothingTyped DEF NoAsk
  <2>2. ask' = [n EXCEPT !.tag = tag, !.files = fs, !.pairs = ps]
    BY <1>2, <2>1
  <2>3. /\ ask' \in Requests /\ ask'.tag = tag /\ ask'.files = fs /\ ask'.pairs = ps
        /\ ask'.got = n.got /\ ask'.bad = n.bad
    BY <1>3, <1>4, <2>2 DEF Requests, RequestTags
  <2> QED BY <2>1, <2>3
<1> QED BY <1>1, <1>3, <1>4, <1>9, <1>10

LEMMA DeviceAsksGood ==
  ASSUME TypeInv, ProgressInv, DeviceAsks
  PROVE  Good
<1>1. PICK tag \in RequestTags, fs \in Seq(Paths), ps \in Seq(Pairs), tok \in Tokens :
           /\ ask' \in Requests /\ ask'.tag = tag /\ ask'.files = fs /\ ask'.pairs = ps
           /\ ask'.got = <<>> /\ ask'.bad = {}
           /\ tag = "copy" => ps # <<>>
           /\ tag = "remove" => ps = <<>>
           /\ tok.kind = tag /\ tok.args.files = fs /\ tok.args.pairs = ps /\ Tell(tok)
           /\ dev' = CASE tag = "upload" -> "dir"
                       [] tag = "download" -> "files"
                       [] OTHER -> "status"
  BY AsksIs
<1>2. UNCHANGED <<hostSide, toDevice, mirror, doubt, misread>>
  BY DEF DeviceAsks
<1>3. WiresOK'
  BY <1>1, <1>2, SayTyped DEF TypeInv, WiresOK
<1>4. dev' \in {"dir", "files", "status"}
  BY <1>1
<1>5. DeviceOK'
  BY <1>1, <1>2, <1>4 DEF TypeInv, DeviceOK
<1> QED BY <1>2, <1>3, <1>5, DeviceStep DEF TypeInv

(* The steps of DeviceUploads, one by one.                                 *)
UploadsDir ==
  /\ dev = "dir"
  /\ \/ Tell(Msg("zero")) /\ dev' = "status"
     \/ Tell(Msg("dir")) /\ dev' = "name"
  /\ UNCHANGED <<ask, mirror, doubt>>

UploadsName ==
  /\ dev = "name" /\ UNCHANGED <<mirror, doubt>>
  /\ \/ Tell(Msg("zero")) /\ dev' = "status" /\ UNCHANGED ask
     \/ \E p \in Paths :
          /\ Tell(Token("name", p, 0)) /\ dev' = "blocks"
          /\ ask' = [ask EXCEPT !.files = <<p>>, !.got = <<>>]

UploadsBlock ==
  /\ dev = "blocks" /\ UNCHANGED <<dev, mirror, doubt>>
  /\ \E v \in Values : /\ Tell(Token("data", NoPath, v))
                       /\ ask' = [ask EXCEPT !.got = Append(ask.got, v)]

UploadsTrailer ==
  /\ dev = "blocks" /\ dev' = "dir" /\ UNCHANGED ask
  /\ LET p == Head(ask.files)
     IN  \/ /\ Tell(Msg("success"))
            /\ mirror' = [mirror EXCEPT ![p] = {ask.got}] /\ doubt' = doubt \ {p}
         \/ Tell(Msg("error")) /\ doubt' = doubt \cup {p} /\ UNCHANGED mirror
         \/ Tell(Msg("zero")) /\ ask.got = <<>> /\ UNCHANGED <<mirror, doubt>>
         \/ /\ Tell(Msg("zero")) /\ ask.got # <<>>
            /\ mirror' = [mirror EXCEPT ![p] = {ask.got}] /\ doubt' = doubt \ {p}

LEMMA UploadsIs ==
  ASSUME DeviceUploads
  PROVE  /\ UNCHANGED hostSide /\ UNCHANGED toDevice /\ UNCHANGED misread
         /\ UploadsDir \/ UploadsName \/ UploadsBlock \/ UploadsTrailer
<1>1. UNCHANGED hostSide /\ UNCHANGED toDevice /\ UNCHANGED misread
  BY DEF DeviceUploads
<1>2. \/ /\ dev = "dir"
         /\ \/ Tell(Msg("zero")) /\ dev' = "status"
            \/ Tell(Msg("dir")) /\ dev' = "name"
         /\ UNCHANGED <<ask, mirror, doubt, asked>>
      \/ /\ dev = "name"
         /\ \/ Tell(Msg("zero")) /\ dev' = "status" /\ UNCHANGED <<ask, asked>>
            \/ \E p \in Paths :
                 /\ asked < MaxRequests /\ asked' = asked + 1
                 /\ Tell(Token("name", p, 0)) /\ dev' = "blocks"
                 /\ ask' = [ask EXCEPT !.files = <<p>>, !.got = <<>>]
         /\ UNCHANGED <<mirror, doubt>>
      \/ /\ dev = "blocks" /\ Len(ask.got) < MaxBlocks
         /\ \E v \in Values :
              /\ Tell(Token("data", NoPath, v))
              /\ ask' = [ask EXCEPT !.got = Append(ask.got, v)]
         /\ UNCHANGED <<dev, mirror, doubt, asked>>
      \/ /\ dev = "blocks"
         /\ LET p == Head(ask.files)
            IN  \/ /\ Tell(Msg("success"))
                   /\ mirror' = [mirror EXCEPT ![p] = {ask.got}]
                   /\ doubt' = doubt \ {p}
                \/ Tell(Msg("error")) /\ doubt' = doubt \cup {p} /\ UNCHANGED mirror
                \/ /\ Tell(Msg("zero"))
                   /\ mirror' = IF ask.got = <<>> THEN mirror
                                ELSE [mirror EXCEPT ![p] = {ask.got}]
                   /\ doubt' = IF ask.got = <<>> THEN doubt ELSE doubt \ {p}
         /\ dev' = "dir" /\ UNCHANGED <<ask, asked>>
  BY DEF DeviceUploads
<1>3. CASE /\ dev = "dir"
           /\ \/ Tell(Msg("zero")) /\ dev' = "status"
              \/ Tell(Msg("dir")) /\ dev' = "name"
           /\ UNCHANGED <<ask, mirror, doubt, asked>>
  BY <1>1, <1>3 DEF UploadsDir
<1>4. CASE /\ dev = "name"
           /\ \/ Tell(Msg("zero")) /\ dev' = "status" /\ UNCHANGED <<ask, asked>>
              \/ \E p \in Paths :
                   /\ asked < MaxRequests /\ asked' = asked + 1
                   /\ Tell(Token("name", p, 0)) /\ dev' = "blocks"
                   /\ ask' = [ask EXCEPT !.files = <<p>>, !.got = <<>>]
           /\ UNCHANGED <<mirror, doubt>>
  BY <1>1, <1>4 DEF UploadsName
<1>5. CASE /\ dev = "blocks" /\ Len(ask.got) < MaxBlocks
           /\ \E v \in Values :
                /\ Tell(Token("data", NoPath, v))
                /\ ask' = [ask EXCEPT !.got = Append(ask.got, v)]
           /\ UNCHANGED <<dev, mirror, doubt, asked>>
  BY <1>1, <1>5 DEF UploadsBlock
<1>6. CASE /\ dev = "blocks"
           /\ LET p == Head(ask.files)
              IN  \/ /\ Tell(Msg("success"))
                     /\ mirror' = [mirror EXCEPT ![p] = {ask.got}]
                     /\ doubt' = doubt \ {p}
                  \/ Tell(Msg("error")) /\ doubt' = doubt \cup {p} /\ UNCHANGED mirror
                  \/ /\ Tell(Msg("zero"))
                     /\ mirror' = IF ask.got = <<>> THEN mirror
                                  ELSE [mirror EXCEPT ![p] = {ask.got}]
                     /\ doubt' = IF ask.got = <<>> THEN doubt ELSE doubt \ {p}
           /\ dev' = "dir" /\ UNCHANGED <<ask, asked>>
  <2>1. CASE ask.got = <<>>
    BY <1>1, <1>6, <2>1 DEF UploadsTrailer
  <2>2. CASE ask.got # <<>>
    BY <1>1, <1>6, <2>2 DEF UploadsTrailer
  <2> QED BY <2>1, <2>2
<1> QED BY <1>2, <1>3, <1>4, <1>5, <1>6

LEMMA MirrorSet ==
  ASSUME NEW m \in Files, NEW p \in Paths, NEW c \in Seq(Values)
  PROVE  /\ [m EXCEPT ![p] = {c}] \in Files
         /\ \A q \in Paths : [m EXCEPT ![p] = {c}][q] = IF q = p THEN {c} ELSE m[q]
  BY DEF Files

LEMMA DeviceUploadsGood ==
  ASSUME TypeInv, ProgressInv, DeviceUploads
  PROVE  Good
<1>1. /\ UNCHANGED hostSide /\ UNCHANGED toDevice /\ UNCHANGED misread
      /\ UploadsDir \/ UploadsName \/ UploadsBlock \/ UploadsTrailer
  BY UploadsIs
<1>2. DeviceOK /\ ask \in Requests
  BY DEF TypeInv, DeviceOK
<1>3. /\ ask.files \in Seq(Paths) /\ ask.got \in Seq(Values) /\ mirror \in Files
      /\ doubt \in SUBSET Paths
  BY <1>2, AskFields
<1>4. Msg("zero") \in Tokens /\ Msg("dir") \in Tokens /\ Msg("success") \in Tokens
      /\ Msg("error") \in Tokens
  BY MsgTyped DEF Kinds
<1>5. ASSUME NEW tok \in Tokens, Tell(tok) PROVE WiresOK'
  BY <1>1, <1>5, SayTyped DEF TypeInv, WiresOK
<1>6. CASE UploadsDir
  <2>1. WiresOK'
    BY <1>4, <1>5, <1>6 DEF UploadsDir
  <2>2. DeviceOK'
    BY <1>2, <1>6 DEF UploadsDir, DeviceOK
  <2> QED BY <1>1, <2>1, <2>2, DeviceStep DEF TypeInv
<1>7. CASE UploadsName
  <2>1. CASE Tell(Msg("zero")) /\ dev' = "status" /\ UNCHANGED ask
    <3>1. WiresOK'
      BY <1>4, <1>5, <2>1
    <3>2. DeviceOK'
      BY <1>2, <1>7, <2>1 DEF UploadsName, DeviceOK
    <3> QED BY <1>1, <3>1, <3>2, DeviceStep DEF TypeInv
  <2>2. ASSUME NEW p \in Paths, Tell(Token("name", p, 0)), dev' = "blocks",
               ask' = [ask EXCEPT !.files = <<p>>, !.got = <<>>]
        PROVE  Good
    <3>1. WiresOK'
      BY <1>5, <2>2, PieceTyped
    <3>2. PICK f \in Seq(Paths) : f = <<p>> /\ f # <<>>
      <4>1. <<p>> \in Seq(Paths) /\ <<p>> # <<>>
        OBVIOUS
      <4> QED BY <4>1
    <3>3. ask' = [ask EXCEPT !.files = f, !.got = <<>>]
      BY <2>2, <3>2
    <3>4. ask' \in Requests /\ ask'.files = f /\ ask'.tag = ask.tag /\ ask'.pairs = ask.pairs
      BY <1>2, <3>3, NothingTyped DEF Requests
    <3>5. DeviceOK'
      BY <1>2, <1>7, <2>2, <3>2, <3>4 DEF UploadsName, DeviceOK
    <3> QED BY <1>1, <3>1, <3>5, DeviceStep DEF TypeInv
  <2> QED BY <1>7, <2>1, <2>2 DEF UploadsName
<1>8. CASE UploadsBlock
  <2>1. PICK v \in Values : /\ Tell(Token("data", NoPath, v))
                            /\ ask' = [ask EXCEPT !.got = Append(ask.got, v)]
    BY <1>8 DEF UploadsBlock
  <2>2. WiresOK'
    BY <1>5, <2>1, PieceTyped
  <2>3. PICK g \in Seq(Values) : g = Append(ask.got, v)
    BY <1>3, Queue
  <2>4. ask' = [ask EXCEPT !.got = g]
    BY <2>1, <2>3
  <2>5. /\ ask' \in Requests /\ ask'.files = ask.files /\ ask'.tag = ask.tag
        /\ ask'.pairs = ask.pairs
    BY <1>2, <2>4 DEF Requests
  <2>6. DeviceOK'
    BY <1>2, <1>8, <2>5 DEF UploadsBlock, DeviceOK
  <2> QED BY <1>1, <2>2, <2>6, DeviceStep DEF TypeInv
<1>9. CASE UploadsTrailer
  <2>1. WiresOK'
    BY <1>4, <1>5, <1>9 DEF UploadsTrailer
  <2>2. PICK p \in Paths : p = Head(ask.files)
    BY <1>2, <1>3, <1>9, Queue DEF UploadsTrailer, DeviceOK
  <2>3. [mirror EXCEPT ![p] = {ask.got}] \in Files
    BY <1>3, MirrorSet
  <2>4. mirror' \in Files /\ doubt' \subseteq Paths
    BY <1>3, <1>9, <2>2, <2>3 DEF UploadsTrailer
  <2>5. DeviceOK'
    BY <1>2, <1>9, <2>4 DEF UploadsTrailer, DeviceOK
  <2> QED BY <1>1, <2>1, <2>5, DeviceStep DEF TypeInv
<1> QED BY <1>1, <1>6, <1>7, <1>8, <1>9

(* The steps of DeviceDownloads.                                           *)
LEMMA DownloadsIs ==
  ASSUME DeviceDownloads, NEW tok, tok = Head(toDevice)
  PROVE  /\ Hear /\ UNCHANGED hostSide /\ UNCHANGED toHost /\ UNCHANGED <<mirror, doubt>>
         /\ \/ /\ dev = "files" /\ tok.kind = "name" /\ ask.files # <<>>
               /\ tok.path = Head(ask.files)
               /\ dev' = "content" /\ ask' = [ask EXCEPT !.got = <<>>] /\ UNCHANGED misread
            \/ /\ dev = "files" /\ tok.kind = "zero" /\ ask.files = <<>>
               /\ dev' = "status" /\ UNCHANGED <<ask, misread>>
            \/ /\ dev = "content" /\ tok.kind = "data"
               /\ ask' = [ask EXCEPT !.got = Append(ask.got, tok.val)]
               /\ UNCHANGED <<dev, misread>>
            \/ /\ dev = "content" /\ tok.kind = "success" /\ store[Head(ask.files)] = {ask.got}
               /\ dev' = "files" /\ ask' = [ask EXCEPT !.files = Tail(ask.files)]
               /\ UNCHANGED misread
            \/ /\ dev = "content" /\ tok.kind = "error" /\ dev' = "files"
               /\ ask' = [ask EXCEPT !.files = Tail(ask.files),
                                     !.bad = ask.bad \cup {Head(ask.files)}]
               /\ UNCHANGED misread
            \/ /\ ~(/\ dev = "files" /\ tok.kind = "name" /\ ask.files # <<>>
                    /\ tok.path = Head(ask.files))
               /\ ~(dev = "files" /\ tok.kind = "zero" /\ ask.files = <<>>)
               /\ ~(dev = "content" /\ tok.kind = "data")
               /\ ~(dev = "content" /\ tok.kind = "success" /\ store[Head(ask.files)] = {ask.got})
               /\ ~(dev = "content" /\ tok.kind = "error")
               /\ misread' = TRUE /\ UNCHANGED <<dev, ask>>
<1>1. Hear /\ UNCHANGED hostSide /\ UNCHANGED toHost /\ UNCHANGED <<mirror, doubt>>
  BY DEF DeviceDownloads
<1>2. CASE /\ dev = "files" /\ tok.kind = "name" /\ ask.files # <<>>
           /\ tok.path = Head(ask.files)
  BY <1>1, <1>2 DEF DeviceDownloads
<1>3. CASE dev = "files" /\ tok.kind = "zero" /\ ask.files = <<>>
  BY <1>1, <1>3 DEF DeviceDownloads
<1>4. CASE dev = "content" /\ tok.kind = "data"
  BY <1>1, <1>4 DEF DeviceDownloads
<1>5. CASE dev = "content" /\ tok.kind = "success" /\ store[Head(ask.files)] = {ask.got}
  BY <1>1, <1>5 DEF DeviceDownloads
<1>6. CASE dev = "content" /\ tok.kind = "error"
  BY <1>1, <1>6 DEF DeviceDownloads
<1>7. CASE /\ ~(/\ dev = "files" /\ tok.kind = "name" /\ ask.files # <<>>
                /\ tok.path = Head(ask.files))
           /\ ~(dev = "files" /\ tok.kind = "zero" /\ ask.files = <<>>)
           /\ ~(dev = "content" /\ tok.kind = "data")
           /\ ~(dev = "content" /\ tok.kind = "success" /\ store[Head(ask.files)] = {ask.got})
           /\ ~(dev = "content" /\ tok.kind = "error")
  BY <1>1, <1>7 DEF DeviceDownloads
<1> QED BY <1>2, <1>3, <1>4, <1>5, <1>6, <1>7

LEMMA DeviceDownloadsGood ==
  ASSUME TypeInv, ProgressInv, DeviceDownloads
  PROVE  Good
<1>1. PICK tok : tok = Head(toDevice)
  OBVIOUS
<1>2. Hear /\ UNCHANGED hostSide /\ UNCHANGED toHost /\ UNCHANGED <<mirror, doubt>>
  BY DEF DeviceDownloads
<1>3. WiresOK' /\ tok \in Tokens
  BY <1>1, <1>2, TakeTyped DEF TypeInv, WiresOK
<1>4. DeviceOK /\ ask \in Requests
  BY DEF TypeInv, DeviceOK
<1>5. /\ ask.files \in Seq(Paths) /\ ask.got \in Seq(Values) /\ ask.bad \in SUBSET Paths
  BY <1>4, AskFields
<1>6. ASSUME ask' \in Requests, ask'.tag = ask.tag, ask'.pairs = ask.pairs,
             dev' \in {"content", "files", "status"},
             dev' = "content" => ask'.files # <<>>, misread' \in BOOLEAN
      PROVE  Good
  <2>1. DeviceOK'
    BY <1>2, <1>4, <1>6 DEF DeviceOK
  <2> QED BY <1>2, <1>3, <1>6, <2>1, DeviceStep
<1>7. misread \in BOOLEAN
  BY DEF TypeInv
<1>8. CASE /\ dev = "files" /\ ask.files # <<>>
           /\ dev' = "content" /\ ask' = [ask EXCEPT !.got = <<>>] /\ UNCHANGED misread
  <2>1. /\ ask' \in Requests /\ ask'.files = ask.files /\ ask'.tag = ask.tag
        /\ ask'.pairs = ask.pairs
    BY <1>4, <1>8, NothingTyped DEF Requests
  <2> QED BY <1>6, <1>7, <1>8, <2>1
<1>9. CASE dev' = "status" /\ UNCHANGED <<ask, misread>>
  BY <1>4, <1>6, <1>7, <1>9
<1>10. CASE /\ dev = "content" /\ tok.kind = "data"
            /\ ask' = [ask EXCEPT !.got = Append(ask.got, tok.val)]
            /\ UNCHANGED <<dev, misread>>
  <2>1. tok.val \in Values
    BY <1>3, <1>10, TokenFields
  <2>2. PICK g \in Seq(Values) : g = Append(ask.got, tok.val)
    BY <1>5, <2>1, Queue
  <2>3. ask' = [ask EXCEPT !.got = g]
    BY <1>10, <2>2
  <2>4. /\ ask' \in Requests /\ ask'.files = ask.files /\ ask'.tag = ask.tag
        /\ ask'.pairs = ask.pairs
    BY <1>4, <2>3 DEF Requests
  <2>5. ask.files # <<>> /\ dev' = "content"
    BY <1>4, <1>10 DEF DeviceOK
  <2> QED BY <1>6, <1>7, <1>10, <2>4, <2>5
<1>11. ASSUME dev = "content", dev' = "files", UNCHANGED misread,
              \/ ask' = [ask EXCEPT !.files = Tail(ask.files)]
              \/ ask' = [ask EXCEPT !.files = Tail(ask.files),
                                    !.bad = ask.bad \cup {Head(ask.files)}]
       PROVE  Good
  <2>1. ask.files # <<>>
    BY <1>4, <1>11 DEF DeviceOK
  <2>2. PICK f \in Seq(Paths), b \in SUBSET Paths :
          f = Tail(ask.files) /\ b = ask.bad \cup {Head(ask.files)}
    <3>1. Tail(ask.files) \in Seq(Paths) /\ Head(ask.files) \in Paths
      BY <1>5, <2>1, Queue
    <3> QED BY <1>5, <3>1
  <2>3. ask' = [ask EXCEPT !.files = f] \/ ask' = [ask EXCEPT !.files = f, !.bad = b]
    BY <1>11, <2>2
  <2>4. ask' \in Requests /\ ask'.tag = ask.tag /\ ask'.pairs = ask.pairs
    BY <1>4, <2>3 DEF Requests
  <2> QED BY <1>6, <1>7, <1>11, <2>4
<1>12. CASE misread' = TRUE /\ UNCHANGED <<dev, ask>>
  <2>1. dev \in {"content", "files"}
    BY DEF DeviceDownloads
  <2>2. dev' = "content" => ask'.files # <<>>
    BY <1>4, <1>12 DEF DeviceOK
  <2> QED BY <1>4, <1>6, <1>12, <2>1, <2>2
<1>13. \/ /\ dev = "files" /\ ask.files # <<>>
          /\ dev' = "content" /\ ask' = [ask EXCEPT !.got = <<>>] /\ UNCHANGED misread
       \/ dev' = "status" /\ UNCHANGED <<ask, misread>>
       \/ /\ dev = "content" /\ tok.kind = "data"
          /\ ask' = [ask EXCEPT !.got = Append(ask.got, tok.val)]
          /\ UNCHANGED <<dev, misread>>
       \/ /\ dev = "content" /\ dev' = "files" /\ UNCHANGED misread
          /\ \/ ask' = [ask EXCEPT !.files = Tail(ask.files)]
             \/ ask' = [ask EXCEPT !.files = Tail(ask.files),
                                   !.bad = ask.bad \cup {Head(ask.files)}]
       \/ misread' = TRUE /\ UNCHANGED <<dev, ask>>
  BY <1>1, DownloadsIs
<1> QED BY <1>8, <1>9, <1>10, <1>11, <1>12, <1>13

LEMMA AppliedTyped ==
  ASSUME DeviceOK
  PROVE  Applied \in Files /\ \A ok : Doubtful(ok) \subseteq Paths /\ Touched \subseteq Paths
<1>1. /\ ask.files \in Seq(Paths) /\ ask.pairs \in Seq(Pairs) /\ mirror \in Files
      /\ doubt \in SUBSET Paths /\ (ask.tag = "copy" => ask.pairs # <<>>)
  BY AskFields DEF DeviceOK
<1>2. Renamed(mirror, ask.pairs) \in Files
  BY <1>1, RenamedKeeps
<1>3. Removed(mirror, ToSet(ask.files)) \in Files
  BY <1>1, RemovedKeeps
<1>4. ask.tag = "copy" => Copied(mirror, ask.pairs[1][1], ask.pairs[1][2]) \in Files
  <2> SUFFICES ASSUME ask.tag = "copy"
               PROVE  Copied(mirror, ask.pairs[1][1], ask.pairs[1][2]) \in Files
    OBVIOUS
  <2>1. ask.pairs[1][1] \in Paths /\ ask.pairs[1][2] \in Paths
    BY <1>1, PairEnds
  <2> QED BY <1>1, <2>1, CopiedKeeps
<1>5. Applied \in Files
  BY <1>1, <1>2, <1>3, <1>4 DEF Applied
<1>6. Touched \subseteq Paths
  <2>1. \A x \in ToSet(ask.pairs) : x[1] \in Paths /\ x[2] \in Paths
    BY <1>1, PairEnds DEF ToSet
  <2>2. ToSet(ask.files) \subseteq Paths
    BY <1>1 DEF ToSet
  <2> QED BY <2>1, <2>2 DEF Touched, Ends
<1>7. \A ok : Doubtful(ok) \subseteq Paths
  BY <1>1, <1>6 DEF Doubtful
<1> QED BY <1>5, <1>6, <1>7

LEMMA DeviceTakesStatusGood ==
  ASSUME TypeInv, ProgressInv, DeviceTakesStatus
  PROVE  Good
<1>2. /\ Hear /\ dev' = "loop" /\ ask' = NoAsk
      /\ UNCHANGED hostSide /\ UNCHANGED toHost /\ misread' \in BOOLEAN
  BY DEF DeviceTakesStatus
<1>3. PICK ok \in BOOLEAN : mirror' = (IF ok THEN Applied ELSE mirror) /\ doubt' = Doubtful(ok)
  BY DEF DeviceTakesStatus
<1>4. WiresOK'
  BY <1>2, TakeTyped DEF TypeInv, WiresOK
<1>5. mirror' \in Files /\ doubt' \subseteq Paths
  BY <1>3, AppliedTyped, AskFields DEF TypeInv
<1>6. NoAsk \in Requests /\ NoAsk.tag = "none"
  BY NothingTyped DEF NoAsk
<1>7. DeviceOK'
  BY <1>2, <1>5, <1>6 DEF DeviceOK
<1> QED BY <1>2, <1>4, <1>7, DeviceStep

LEMMA DeviceMisreadsGood ==
  ASSUME TypeInv, ProgressInv, DeviceMisreads
  PROVE  Good
<1>1. Hear /\ UNCHANGED <<hostSide, toHost, deviceSide>> /\ misread' = TRUE
  BY DEF DeviceMisreads, deviceSide
<1>2. WiresOK' /\ DeviceOK'
  BY <1>1, TakeTyped, LeftAlone DEF TypeInv, WiresOK
<1> QED BY <1>1, <1>2, DeviceStep

(* Types and progress together.                                            *)
LEMMA NextGood ==
  ASSUME TypeInv, ProgressInv, Next
  PROVE  Good
<1>1. CASE HostNext
  <2>1. CASE DlVersionExchange \/ DlDeviceReady \/ VersionExchange
    BY <2>1, ConnectGood
  <2>2. ASSUME \/ BackupFromPath \/ RestoreFromPath \/ UnbackFromPath
               \/ InfoFromPath \/ ListFromPath \/ ExtractFromPath
               \/ ChangePasswordFromPath \/ EraseDeviceFromPath
        PROVE  Good
    BY <2>2, Operations, OperationGood
  <2>3. CASE StartCall \/ ReceiveReply \/ Disconnect
    BY <2>3, CallGood
  <2>4. CASE \/ AnswerOnly \/ MoveFiles \/ RemoveFiles \/ CopyItem \/ CopyDirectory
             \/ LoopReturns \/ LoopMisreads
    BY <2>4, AnswerOnlyGood, MoveFilesGood, RemoveFilesGood, CopyItemGood, LoopEndsGood
  <2>5. CASE UploadFiles \/ UploadDirName \/ UploadFileName \/ UploadBlock \/ UploadFails
    <3>1. CASE UploadDirName \/ UploadFileName
      BY <3>1, UploadStringGood DEF UploadDirName, UploadFileName
    <3> QED BY <2>5, <3>1, UploadFilesGood, UploadBlockGood, UploadFailsGood
  <2>6. CASE DownloadFiles \/ SendName \/ SendBlock \/ SendTrailer \/ DownloadEnds
    BY <2>6, DownloadFilesGood, SendNameGood, SendBlockGood, SendTrailerGood, DownloadEndsGood
  <2>7. CASE SocketError \/ DropOperation
    BY <2>7, SocketErrorGood, DropOperationGood
  <2> QED BY <1>1, <2>1, <2>2, <2>3, <2>4, <2>5, <2>6, <2>7 DEF HostNext
<1>2. CASE DeviceNext
  BY <1>2, DeviceTalksGood, DeviceAsksGood, DeviceUploadsGood, DeviceDownloadsGood,
     DeviceTakesStatusGood, DeviceMisreadsGood DEF DeviceNext
<1> QED BY <1>1, <1>2 DEF Next

LEMMA InitGood == Init => TypeInv /\ ProgressInv
<1> SUFFICES ASSUME Init PROVE TypeInv /\ ProgressInv
  OBVIOUS
<1>1. h = Fresh("dl_version", "none")
  BY IdleForms DEF Init
<1>2. HostOK /\ h.pc = "dl_version"
  <2>1. h \in HostStates
    BY <1>1, NothingTyped, NoPathIs DEF Fresh, HostStates, Positions
  <2>2. h.pc = "dl_version" /\ h.content = <<>>
    BY <1>1 DEF Fresh
  <2> QED BY <2>1, <2>2 DEF HostOK
<1>3. ProgressOK
  BY DEF Init, NewTracker, ProgressOK
<1>4. StoreOK
  BY DEF Init, StoreOK, Files, Single
<1>5. WiresOK
  BY DEF Init, WiresOK
<1>6. DeviceOK
  <2>1. NoAsk \in Requests /\ NoAsk.tag = "none"
    BY NothingTyped DEF NoAsk
  <2> QED BY <1>4, <2>1 DEF Init, DeviceOK, StoreOK
<1>7. broken \in BOOLEAN /\ misread \in BOOLEAN
  BY DEF Init
<1>8. ProgressInv
  BY <1>2 DEF ProgressInv, InLoop
<1> QED BY <1>2, <1>3, <1>4, <1>5, <1>6, <1>7, <1>8 DEF TypeInv

LEMMA StutterGood ==
  ASSUME TypeInv, ProgressInv, UNCHANGED vars
  PROVE  Good
<1>1. UNCHANGED h /\ UNCHANGED progressVars /\ UNCHANGED backup /\ UNCHANGED deviceSide
      /\ UNCHANGED <<toHost, toDevice, broken, misread>>
  BY DEF vars, progressVars, deviceSide
<1>2. HostOK' /\ ProgressOK' /\ StoreOK' /\ DeviceOK'
  BY <1>1, LeftAlone
<1>3. ProgressInv' /\ Rising
  BY <1>1 DEF ProgressInv, InLoop, Rising, TypeInv, ProgressOK, progressVars
<1>4. WiresOK'
  BY <1>1 DEF TypeInv, WiresOK
<1> QED BY <1>1, <1>2, <1>3, <1>4 DEF Good, TypeInv

(* Types hold, and what on_progress was last given is never ahead of the   *)
(* tracker and the bytes of the batch under way.                           *)
THEOREM ClientInvariant == Spec => [](TypeInv /\ ProgressInv)
<1>1. Init => TypeInv /\ ProgressInv
  BY InitGood
<1>2. TypeInv /\ ProgressInv /\ [Next]_vars => (TypeInv /\ ProgressInv)'
  BY NextGood, StutterGood DEF Good
<1> QED BY <1>1, <1>2, PTL DEF Spec

(* Within one operation the progress shown never falls, neither the bytes  *)
(* of the session nor the percentage, across batches in either direction.  *)
THEOREM ProgressGrows == Spec => ProgressNeverFalls
<1>1. TypeInv /\ ProgressInv /\ [Next]_vars =>
        [h.pc # "idle" => /\ shown'.session >= shown.session
                          /\ shown'.overall >= shown.overall]_vars
  BY NextGood, StutterGood DEF Good, Rising
<1> QED BY <1>1, ClientInvariant, PTL DEF Spec, ProgressNeverFalls

-----------------------------------------------------------------------------
(* Where the two ends can be when one of them acts.                        *)

DownloadWaits ==
  /\ ask.tag = "download" /\ At("loop", "files") /\ HostMail({"download"})
  /\ toHost[1].args.files = ask.files /\ ask.bad = {}

DownloadRuns ==
  /\ ask.tag = "download" /\ toHost = <<>> /\ dev # "loop" /\ \E v : DownloadPath(v)

LEMMA UploadingIs ==
  ASSUME Uploading
  PROVE  /\ h.pc \in {"loop", "dir", "name", "first", "blocks"} /\ toDevice = <<>>
         /\ dev \in {"dir", "name", "blocks", "status"}
<1>1. PICK v : UploadPath(v)
  BY DEF Uploading
<1>2. HostSees(v[1]) /\ DeviceIs(v[Len(v)]) /\ v[Len(v)] \in UploadViews
  <2>1. v \in Seq(UploadViews) /\ Len(v) = Len(toHost) + 1
    BY <1>1 DEF UploadPath
  <2>2. Len(v) \in 1..Len(v)
    <3>1. Len(v) # 0
      <4> SUFFICES ASSUME Len(v) = 0 PROVE FALSE
        OBVIOUS
      <4>1. v = <<>>
        BY <2>1
      <4> QED BY <1>1, <4>1 DEF UploadPath
    <3> QED BY <2>1, <3>1
  <2> QED BY <1>1, <2>1, <2>2 DEF UploadPath
<1>3. h.pc \in {"loop", "dir", "name", "first", "blocks"}
  BY <1>2 DEF HostSees
<1>4. dev \in {"dir", "name", "blocks", "status"}
  BY <1>2 DEF DeviceIs, UploadViews, Uploading
<1> QED BY <1>3, <1>4 DEF Uploading

LEMMA DownloadRunsIs ==
  ASSUME DownloadRuns
  PROVE  /\ h.pc \in {"file", "send", "fail", "loop"} /\ toHost = <<>>
         /\ dev \in {"files", "content", "status"}
<1>1. PICK v : DownloadPath(v)
  BY DEF DownloadRuns
<1>2. HostIs(v[Len(v)]) /\ DeviceSees(v[1])
  BY <1>1 DEF DownloadPath
<1>3. h.pc \in {"file", "send", "fail", "loop"}
  BY <1>2 DEF HostIs
<1>4. dev \in {"files", "content", "status", "loop"}
  <2>1. v \in Seq(DownloadViews) /\ Len(v) = Len(toDevice) + 1
    BY <1>1 DEF DownloadPath
  <2>2. 1 \in 1..Len(v)
    BY <2>1
  <2>3. v[1] \in DownloadViews
    BY <2>1, <2>2
  <2> QED BY <1>2, <2>3 DEF DeviceSees, DownloadViews
<1> QED BY <1>3, <1>4 DEF DownloadRuns

LEMMA DialogueIs ==
  Dialogue <=> \/ /\ Agree(mirror, doubt)
                  /\ Connecting \/ Resting \/ Looping \/ Requested \/ DownloadWaits \/ DownloadRuns
               \/ Answered
               \/ Uploading
               \/ Mismatched
  BY DEF Dialogue, Downloading, DownloadWaits, DownloadRuns

LEMMA Hears ==
  ASSUME Dialogue, toDevice # <<>>
  PROVE  \/ /\ Agree(mirror, doubt)
            /\ \/ At("dl_ready", "versions") /\ DeviceMail("DLVersionsOk")
               \/ At("hello", "hello") /\ DeviceMail("Hello")
               \/ At("reply", "idle") /\ DeviceMail("request")
               \/ At("left", "idle") /\ DeviceMail("DLMessageDisconnect")
               \/ At("loop", "idle") /\ DeviceMail("request")
         \/ Agree(mirror, doubt) /\ DownloadRuns
         \/ Answered
<1>1. CASE Agree(mirror, doubt) /\ Connecting
  BY <1>1 DEF Connecting, Silent, HostMail
<1>2. CASE Agree(mirror, doubt) /\ (Resting \/ Looping)
  BY <1>2 DEF Resting, Looping, Silent, HostMail
<1>3. CASE Requested \/ DownloadWaits \/ Uploading \/ Mismatched
  BY <1>3 DEF Requested, DownloadWaits, HostMail, Uploading, Mismatched
<1> QED BY <1>1, <1>2, <1>3, DialogueIs

LEMMA Takes ==
  ASSUME Dialogue, toHost # <<>>
  PROVE  \/ /\ Agree(mirror, doubt)
            /\ \/ At("dl_version", "versions") /\ HostMail(Kinds)
               \/ At("dl_ready", "hello") /\ HostMail(Kinds)
               \/ At("hello", "idle") /\ HostMail(Kinds)
               \/ At("reply", "idle") /\ HostMail(Endings)
               \/ At("loop", "idle") /\ HostMail(Endings)
               \/ Requested
               \/ DownloadWaits
         \/ Uploading
         \/ Mismatched
<1>1. CASE Agree(mirror, doubt) /\ Connecting
  BY <1>1 DEF Connecting, Silent, DeviceMail
<1>2. CASE Agree(mirror, doubt) /\ (Resting \/ Looping)
  BY <1>2 DEF Resting, Looping, Silent, DeviceMail
<1>3. CASE Answered \/ DownloadRuns
  BY <1>3 DEF Answered, DownloadRuns, DeviceMail
<1> QED BY <1>1, <1>2, <1>3, DialogueIs

(* A host that is not in a call, and one that is sending.                  *)
LEMMA Rests ==
  ASSUME Dialogue, h.pc = "idle"
  PROVE  Agree(mirror, doubt) /\ At("idle", "idle") /\ Silent
<1>1. ~Uploading /\ ~DownloadRuns
  BY UploadingIs, DownloadRunsIs
<1>2. /\ ~Connecting /\ ~Looping /\ ~Requested /\ ~DownloadWaits /\ ~Answered
      /\ ~Mismatched
  BY DEF Connecting, Looping, Requested, DownloadWaits, Answered, Mismatched, At
<1>3. Agree(mirror, doubt) /\ Resting
  BY <1>1, <1>2, DialogueIs
<1> QED BY <1>3 DEF Resting, At

LEMMA Sends ==
  ASSUME Dialogue, h.pc \in {"file", "send", "fail"}
  PROVE  Agree(mirror, doubt) /\ DownloadRuns
<1>1. ~Uploading
  BY UploadingIs
<1>2. /\ ~Connecting /\ ~Resting /\ ~Looping /\ ~Requested /\ ~DownloadWaits /\ ~Answered
      /\ ~Mismatched
  BY DEF Connecting, Resting, Looping, Requested, DownloadWaits, Answered, Mismatched, At
<1> QED BY <1>1, <1>2, DialogueIs

(* A device that has not greeted, one that is free to ask, and one that is *)
(* uploading.                                                              *)
LEMMA Speaks ==
  ASSUME Dialogue
  PROVE  /\ dev = "greet" => Agree(mirror, doubt) /\ At("dl_version", "greet") /\ Silent
         /\ dev = "loop" => /\ Agree(mirror, doubt) /\ Silent
                            /\ At("loop", "loop") \/ At("reply", "loop")
         /\ dev \in {"dir", "name", "blocks"} => Uploading \/ Mismatched
<1>1. Answered => dev = "status"
  BY DEF Answered, At
<1>2. Requested => dev = "status"
  BY DEF Requested, At
<1>3. DownloadWaits \/ DownloadRuns => dev \in {"files", "content", "status"}
  BY DownloadRunsIs DEF DownloadWaits, At
<1>4. Connecting => \/ At("dl_version", "greet") /\ Silent
                    \/ dev \in {"versions", "hello", "idle"}
  BY DEF Connecting, At
<1>5. Resting => dev \in {"idle", "gone"} \/ (At("reply", "loop") /\ Silent)
  BY DEF Resting, At
<1>6. Looping => dev = "idle" \/ (At("loop", "loop") /\ Silent)
  BY DEF Looping, At
<1>7. Uploading => dev \in {"dir", "name", "blocks", "status"}
  BY UploadingIs
<1>8. Mismatched => dev \in {"status", "files", "dir", "name", "blocks"}
  BY DEF Mismatched
<1> QED BY <1>1, <1>2, <1>3, <1>4, <1>5, <1>6, <1>7, <1>8, DialogueIs DEF At

-----------------------------------------------------------------------------
(* Every step keeps the two ends together.                                 *)

InStep ==
  /\ misread' => h.pc = "reply" /\ broken'
  /\ ~broken' => Dialogue'

LEMMA AgreeKept ==
  ASSUME Agree(mirror, doubt), UNCHANGED <<backup, mirror, doubt>>
  PROVE  Agree(mirror, doubt)'
  BY DEF Agree

LEMMA TailOfOne ==
  ASSUME NEW T, NEW s \in Seq(T), Len(s) = 1
  PROVE  Tail(s) = <<>>
<1>1. s # <<>>
  BY EmptySeq
<1>2. Tail(s) \in Seq(T) /\ Len(Tail(s)) = 0
  BY <1>1, Queue
<1> QED BY <1>2, EmptySeq

(* One message is taken, one is said.                                      *)
LEMMA MailTaken ==
  ASSUME WiresOK, NEW K, HostMail(K), Take
  PROVE  toHost' = <<>> /\ toDevice = <<>> /\ Kind \in K /\ Head(toHost) = toHost[1]
<1>1. toHost \in Seq(Tokens) /\ Len(toHost) = 1 /\ toHost[1].kind \in K /\ toDevice = <<>>
  BY DEF WiresOK, HostMail
<1>2. Head(toHost) = toHost[1] /\ toHost' = Tail(toHost)
  BY <1>1 DEF Take
<1>3. Tail(toHost) = <<>>
  BY <1>1, TailOfOne
<1> QED BY <1>1, <1>2, <1>3 DEF Kind

LEMMA MailHeard ==
  ASSUME WiresOK, NEW k, DeviceMail(k), Hear
  PROVE  toDevice' = <<>> /\ toHost = <<>> /\ Head(toDevice).kind = k
         /\ Head(toDevice) = toDevice[1]
<1>1. toDevice \in Seq(Tokens) /\ Len(toDevice) = 1 /\ toDevice[1].kind = k /\ toHost = <<>>
  BY DEF WiresOK, DeviceMail
<1>2. Head(toDevice) = toDevice[1] /\ toDevice' = Tail(toDevice)
  BY <1>1 DEF Hear
<1>3. Tail(toDevice) = <<>>
  BY <1>1, TailOfOne
<1> QED BY <1>1, <1>2, <1>3

LEMMA SaidAlone ==
  ASSUME toDevice = <<>>, NEW tok, Say(tok)
  PROVE  Len(toDevice') = 1 /\ toDevice'[1] = tok
<1>1. toDevice' = Append(<<>>, tok)
  BY DEF Say
<1>2. Append(<<>>, tok) = <<tok>>
  OBVIOUS
<1> QED BY <1>1, <1>2

LEMMA ToldAlone ==
  ASSUME toHost = <<>>, NEW tok, Tell(tok)
  PROVE  Len(toHost') = 1 /\ toHost'[1] = tok
<1>1. toHost' = Append(<<>>, tok)
  BY DEF Tell
<1>2. Append(<<>>, tok) = <<tok>>
  OBVIOUS
<1> QED BY <1>1, <1>2

LEMMA ConnectSteps ==
  ASSUME TypeInv, ~misread, Dialogue,
         DlVersionExchange \/ DlDeviceReady \/ VersionExchange
  PROVE  InStep
<1>0. Take /\ UNCHANGED <<backup, deviceSide, misread>> /\ toHost # <<>> /\ WiresOK
  BY DEF DlVersionExchange, DlDeviceReady, VersionExchange, Take, TypeInv
<1>1. Uploading \/ Requested \/ DownloadWaits \/ Mismatched =>
        h.pc \notin {"dl_version", "dl_ready", "hello"}
  BY UploadingIs DEF Requested, DownloadWaits, Mismatched, At
<1>2. /\ Agree(mirror, doubt)
      /\ \/ At("dl_version", "versions") /\ HostMail(Kinds) /\ DlVersionExchange
         \/ At("dl_ready", "hello") /\ HostMail(Kinds) /\ DlDeviceReady
         \/ At("hello", "idle") /\ HostMail(Kinds) /\ VersionExchange
  BY <1>0, <1>1, Takes DEF DlVersionExchange, DlDeviceReady, VersionExchange, At
<1>3. toHost' = <<>> /\ toDevice = <<>>
  BY <1>0, <1>2, MailTaken
<1>4. Agree(mirror, doubt)' /\ dev' = dev /\ ~misread'
  BY <1>0, <1>2, AgreeKept DEF deviceSide
<1>5. SUFFICES ASSUME ~broken' PROVE Connecting' \/ Resting'
  BY <1>4, DialogueIs DEF InStep, Dialogue
<1>6. h \in HostStates
  BY DEF TypeInv, HostOK
<1>7. CASE At("dl_version", "versions") /\ DlVersionExchange
  <2>1. Say(Msg("DLVersionsOk")) /\ h' = [h EXCEPT !.pc = "dl_ready"]
    BY <1>5, <1>7 DEF DlVersionExchange
  <2>2. h'.pc = "dl_ready"
    BY <1>6, <2>1 DEF HostStates
  <2>3. DeviceMail("DLVersionsOk")'
    BY <1>3, <2>1, SaidAlone, MsgTyped DEF DeviceMail, Kinds
  <2> QED BY <1>4, <1>7, <2>2, <2>3 DEF Connecting, At
<1>8. CASE At("dl_ready", "hello") /\ DlDeviceReady
  <2>1. Say(Msg("Hello")) /\ h' = [h EXCEPT !.pc = "hello"]
    BY <1>5, <1>8 DEF DlDeviceReady
  <2>2. h'.pc = "hello"
    BY <1>6, <2>1 DEF HostStates
  <2>3. DeviceMail("Hello")'
    BY <1>3, <2>1, SaidAlone, MsgTyped DEF DeviceMail, Kinds
  <2> QED BY <1>4, <1>8, <2>2, <2>3 DEF Connecting, At
<1>9. CASE At("hello", "idle") /\ VersionExchange
  <2>1. h' = Idle /\ UNCHANGED toDevice
    BY <1>5, <1>9 DEF VersionExchange
  <2>2. h'.pc = "idle"
    BY <2>1, NothingTyped
  <2> QED BY <1>3, <1>4, <1>9, <2>1, <2>2 DEF Resting, At, Silent
<1> QED BY <1>2, <1>7, <1>8, <1>9

LEMMA OperationSteps ==
  ASSUME TypeInv, ~misread, Dialogue, Operation \/ StartCall \/ Disconnect
  PROVE  InStep
<1>1. h.pc = "idle" /\ UNCHANGED <<backup, toHost, deviceSide, misread>>
  BY DEF Operation, EnterLoop, Refuse, StartCall, Disconnect
<1>2. Agree(mirror, doubt) /\ At("idle", "idle") /\ Silent
  BY <1>1, Rests
<1>3. Agree(mirror, doubt)' /\ dev' = "idle" /\ toHost' = <<>> /\ toDevice = <<>> /\ ~misread'
  BY <1>1, <1>2, AgreeKept DEF deviceSide, At, Silent
<1>4. SUFFICES Resting' \/ Looping'
  BY <1>3 DEF InStep, Dialogue
<1>5. CASE EnterLoop
  <2>1. h'.pc = "loop" /\ Say(Msg("request"))
    <3>1. h' = Fresh("loop", "none")
      BY <1>5, IdleForms DEF EnterLoop
    <3> QED BY <1>5, <3>1 DEF EnterLoop, Fresh
  <2>2. DeviceMail("request")'
    BY <1>3, <2>1, SaidAlone, MsgTyped DEF DeviceMail, Kinds
  <2> QED BY <1>3, <2>1, <2>2 DEF Looping, At
<1>6. ASSUME NEW r \in {"err", "panic"}, Refuse(r) PROVE Resting'
  <2>1. h' = Fresh("idle", r) /\ UNCHANGED toDevice
    BY <1>6, IdleForms DEF Refuse
  <2>2. h'.pc = "idle"
    BY <2>1 DEF Fresh
  <2> QED BY <1>3, <2>1, <2>2 DEF Resting, At, Silent
<1>7. CASE StartCall
  <2>1. h'.pc = "reply" /\ Say(Msg("request"))
    <3>1. h' = Fresh("reply", "none")
      BY <1>7, IdleForms DEF StartCall
    <3> QED BY <1>7, <3>1 DEF StartCall, Fresh
  <2>2. DeviceMail("request")'
    BY <1>3, <2>1, SaidAlone, MsgTyped DEF DeviceMail, Kinds
  <2> QED BY <1>3, <2>1, <2>2 DEF Resting, At
<1>8. CASE Disconnect
  <2>1. h'.pc = "left" /\ Say(Msg("DLMessageDisconnect"))
    BY <1>8 DEF Disconnect, TypeInv, HostOK, HostStates
  <2>2. DeviceMail("DLMessageDisconnect")'
    BY <1>3, <2>1, SaidAlone, MsgTyped DEF DeviceMail, Kinds
  <2> QED BY <1>3, <2>1, <2>2 DEF Resting, At
<1> QED BY <1>5, <1>6, <1>7, <1>8 DEF Operation

LEMMA ReceiveReplySteps ==
  ASSUME TypeInv, ~misread, Dialogue, ReceiveReply
  PROVE  InStep
<1>1. /\ h.pc = "reply" /\ Take /\ UNCHANGED <<backup, toDevice, deviceSide>>
      /\ toHost # <<>> /\ WiresOK
  BY DEF ReceiveReply, Take, TypeInv
<1>2. Uploading \/ Requested \/ DownloadWaits => h.pc # "reply"
  BY UploadingIs DEF Requested, DownloadWaits, At
<1>3. CASE Agree(mirror, doubt) /\ At("reply", "idle") /\ HostMail(Endings)
  <2>1. toHost' = <<>> /\ toDevice = <<>>
    BY <1>1, <1>3, MailTaken
  <2>2. Agree(mirror, doubt)' /\ dev' = "idle" /\ toDevice' = <<>>
    BY <1>1, <1>3, <2>1, AgreeKept DEF deviceSide, At
  <2>3. ASSUME NEW r \in {"ok", "err"}, h' = [Idle EXCEPT !.result = r], misread' = misread
        PROVE  InStep
    <3>1. h' = Fresh("idle", r)
      BY <2>3, IdleForms
    <3>2. h'.pc = "idle"
      BY <3>1 DEF Fresh
    <3>3. Resting'
      BY <2>1, <2>2, <3>2 DEF Resting, At, Silent
    <3> QED BY <2>2, <2>3, <3>3 DEF InStep, Dialogue
  <2>4. CASE Kind = "DLMessageProcessMessage"
    BY <2>3, <2>4 DEF ReceiveReply
  <2>5. CASE Kind = "ErrorCode"
    BY <2>3, <2>5 DEF ReceiveReply
  <2>6. CASE Kind \notin {"DLMessageProcessMessage", "ErrorCode"}
    BY <1>1, <2>6 DEF ReceiveReply, Fail, InStep
  <2> QED BY <2>4, <2>5, <2>6
<1>4. CASE Mismatched
  <2>1. Kind \in RequestTags
    BY <1>1, <1>4, TakeTyped DEF Mismatched, Kind, TypeInv
  <2>2. broken' = TRUE
    BY <2>1 DEF ReceiveReply, Fail, RequestTags
  <2> QED BY <1>1, <2>2 DEF InStep
<1> QED BY <1>1, <1>2, <1>3, <1>4, Takes DEF At

(* What the host finds in the loop.                                        *)
LEMMA LoopFinds ==
  ASSUME TypeInv, Dialogue, h.pc = "loop", Take
  PROVE  \/ /\ Agree(mirror, doubt) /\ At("loop", "idle")
            /\ HostMail(Endings)
            /\ Kind \in Endings
         \/ Agree(mirror, doubt) /\ Requested /\ Kind = ask.tag
         \/ Agree(mirror, doubt) /\ DownloadWaits /\ Kind = "download"
         \/ Uploading /\ Kind = "upload"
<1>1. toHost # <<>> /\ WiresOK /\ Head(toHost) = toHost[1] /\ Len(toHost) > 0
  BY TakeTyped DEF TypeInv, Take
<1>2. \/ /\ Agree(mirror, doubt)
         /\ \/ At("loop", "idle") /\ HostMail(Endings)
            \/ Requested
            \/ DownloadWaits
      \/ Uploading
  BY <1>1, Takes DEF At, Mismatched
<1>3. CASE /\ Agree(mirror, doubt) /\ At("loop", "idle")
           /\ HostMail(Endings)
  <2>1. Kind \in Endings
    BY <1>1, <1>3, MailTaken
  <2> QED BY <1>3, <2>1
<1>4. CASE Agree(mirror, doubt) /\ Requested
  <2>1. Kind = ask.tag
    BY <1>1, <1>4 DEF Requested, HostMail, Kind
  <2> QED BY <1>4, <2>1
<1>5. CASE Agree(mirror, doubt) /\ DownloadWaits
  <2>1. Kind = "download"
    BY <1>1, <1>5 DEF DownloadWaits, HostMail, Kind
  <2> QED BY <1>5, <2>1
<1>6. CASE Uploading
  <2>1. PICK v : UploadPath(v)
    BY <1>6 DEF Uploading
  <2>2. HostSees(v[1]) /\ \A i \in 1..Len(toHost) : UploadStep(v[i], toHost[i], v[i + 1])
    BY <2>1 DEF UploadPath
  <2>3. v[1].phase = "loop"
    BY <2>2 DEF HostSees
  <2>4. 1 \in 1..Len(toHost)
    BY <1>1 DEF WiresOK
  <2>5. UploadStep(v[1], toHost[1], v[1 + 1])
    BY <2>2, <2>4
  <2>6. toHost[1].kind = "upload"
    BY <2>3, <2>5 DEF UploadStep
  <2> QED BY <1>1, <1>6, <2>6 DEF Kind
<1> QED BY <1>2, <1>3, <1>4, <1>5, <1>6

(* The status is on its way, and the directory is as the device will       *)
(* believe when it reads it.                                               *)
LEMMA StatusAnswers ==
  ASSUME TypeInv, ~misread, Requested, Take, UNCHANGED <<h, deviceSide, broken, misread>>,
         \/ /\ Say(Status(0, {}))
            /\ \A p \in Paths \ (Doubtful(TRUE) \cup passed') : store'[p] = Applied[p]
         \/ /\ Say(Status(-1, {}))
            /\ \A p \in Paths \ (Doubtful(FALSE) \cup passed') : store'[p] = mirror[p]
  PROVE  InStep
<1>1. /\ At("loop", "status") /\ ask.bad = {} /\ HostMail({ask.tag}) /\ WiresOK
      /\ ask.tag \in {"simple", "move", "remove", "copy"}
  BY DEF Requested, TypeInv
<1>2. toHost' = <<>> /\ toDevice = <<>>
  BY <1>1, MailTaken
<1>3. At("loop", "status")' /\ ask' = ask /\ mirror' = mirror /\ doubt' = doubt
  BY <1>1 DEF At, deviceSide
<1>4. Applied' = Applied
  BY <1>3 DEF Applied
<1>5. ASSUME NEW c \in {0, -1}, Say(Status(c, {})),
             Agree(IF c = 0 THEN Applied ELSE mirror, Doubtful(c = 0))'
      PROVE  InStep
  <2>1. Len(toDevice') = 1 /\ toDevice'[1] = Status(c, {})
    BY <1>2, <1>5, SaidAlone
  <2>2. /\ Status(c, {}).kind = "status" /\ Status(c, {}).val = c /\ Status(c, {}).bad = {}
    BY StatusTyped
  <2>3. DeviceMail("status")' /\ toDevice'[1].bad = {} /\ toDevice'[1].val = c
    BY <1>2, <2>1, <2>2 DEF DeviceMail
  <2>4. Answered'
    BY <1>1, <1>3, <1>5, <2>3 DEF Answered
  <2> QED BY <2>4 DEF InStep, Dialogue
<1>6. ASSUME Say(Status(0, {})), \A p \in Paths \ (Doubtful(TRUE) \cup passed') : store'[p] = Applied[p]
      PROVE  InStep
  <2>1. PICK c \in {0, -1} : c = 0
    OBVIOUS
  <2>2. (c = 0) = TRUE
    BY <2>1
  <2>3. Doubtful(TRUE)' = Doubtful(TRUE)
    BY <1>3 DEF Doubtful, Touched
  <2>4. Agree(IF c = 0 THEN Applied ELSE mirror, Doubtful(c = 0))'
    BY <1>4, <1>6, <2>1, <2>2, <2>3 DEF Agree
  <2> QED BY <1>5, <1>6, <2>1, <2>4
<1>7. ASSUME Say(Status(-1, {})), \A p \in Paths \ (Doubtful(FALSE) \cup passed') : store'[p] = mirror[p]
      PROVE  InStep
  <2>1. PICK c \in {0, -1} : c = -1
    OBVIOUS
  <2>2. (c = 0) = FALSE
    BY <2>1
  <2>3. Doubtful(FALSE)' = Doubtful(FALSE)
    BY <1>3 DEF Doubtful, Touched
  <2>4. Agree(IF c = 0 THEN Applied ELSE mirror, Doubtful(c = 0))'
    BY <1>3, <1>7, <2>2, <2>3 DEF Agree
  <2> QED BY <1>5, <1>7, <2>1, <2>4
<1> QED BY <1>6, <1>7

(* A sequence of files, and the first of them.                             *)
LEMMA PrefixSet ==
  ASSUME NEW fs \in Seq(Paths), NEW n \in 0..Len(fs)
  PROVE  ToSet(SubSeq(fs, 1, n)) \subseteq ToSet(fs)
<1>1. /\ SubSeq(fs, 1, n) \in Seq(Paths) /\ Len(SubSeq(fs, 1, n)) = n
      /\ \A i \in 1..n : SubSeq(fs, 1, n)[i] = fs[i] /\ i \in 1..Len(fs)
  OBVIOUS
<1> QED BY <1>1 DEF ToSet

LEMMA AnswerOnlySteps ==
  ASSUME TypeInv, ~misread, Dialogue, AnswerOnly
  PROVE  InStep
<1>1. /\ h.pc = "loop" /\ Take /\ Kind = "simple"
      /\ UNCHANGED <<h, backup, deviceSide, broken, misread>>
  BY DEF AnswerOnly, Loop
<1>2. PICK c \in {0, -1} : Say(Status(c, {}))
  BY DEF AnswerOnly
<1>3. Agree(mirror, doubt) /\ Requested /\ ask.tag = "simple"
  BY <1>1, LoopFinds DEF Requested, Endings
<1>4. Applied = mirror /\ \A ok : Doubtful(ok) = doubt
  BY <1>3 DEF Applied, Doubtful
<1>5. \A p \in Paths \ (doubt \cup passed') : store'[p] = mirror[p]
  BY <1>1, <1>3 DEF Agree
<1> QED BY <1>1, <1>2, <1>3, <1>4, <1>5, StatusAnswers

(* What was passed over, and where it goes.                                *)
LEMMA TaintedIs ==
  ASSUME NEW bad, NEW pairs
  PROVE  /\ bad \subseteq Tainted(bad, pairs)
         /\ bad \cap Ends(pairs) # {} => Ends(pairs) \subseteq Tainted(bad, pairs)
  BY DEF Tainted

LEMMA MoveFilesSteps ==
  ASSUME TypeInv, ~misread, Dialogue, MoveFiles
  PROVE  InStep
<1>1. /\ h.pc = "loop" /\ Take /\ Kind = "move"
      /\ UNCHANGED <<h, deviceSide, broken, misread>>
  BY DEF MoveFiles, Loop
<1>2. Agree(mirror, doubt) /\ Requested /\ ask.tag = "move"
  BY <1>1, LoopFinds DEF Requested, Endings
<1>3. PICK ps \in Seq(Pairs) : ps = ask.pairs /\ ps = Args.pairs
  <2>1. Head(toHost) = toHost[1]
    BY <1>1, TakeTyped DEF TypeInv
  <2>2. ask.pairs \in Seq(Pairs) /\ Args.pairs = ask.pairs
    BY <1>2, <2>1, AskFields DEF Requested, TypeInv, Args
  <2> QED BY <2>2
<1>4. PICK n \in 0..Len(ps) :
        /\ store' = Renamed(store, SubSeq(ps, 1, n))
        /\ Say(Status(IF n = Len(ps) THEN 0 ELSE -1, {}))
  BY <1>3 DEF MoveFiles
<1>5. PICK D : /\ D = doubt \cup passed /\ \A p \in Paths \ D : store[p] = mirror[p]
               /\ passed \subseteq passed'
               /\ passed \cap Ends(ps) # {} => Ends(ps) \subseteq passed'
  <2>1. passed' = Tainted(passed, ps)
    BY <1>3 DEF MoveFiles
  <2>2. \A p \in Paths \ (doubt \cup passed) : store[p] = mirror[p]
    BY <1>2 DEF Agree
  <2> QED BY <2>1, <2>2, TaintedIs
<1>6. store \in Files /\ mirror \in Files
  BY DEF TypeInv, StoreOK, DeviceOK
<1>7. Ends(ps) \subseteq Touched
  BY <1>3 DEF Ends, Touched
<1>8. CASE n = Len(ps)
  <2>1. SubSeq(ps, 1, n) = ps
    BY <1>8, SubSeqFull
  <2>2. store' = Renamed(store, ps) /\ Say(Status(0, {}))
    BY <1>4, <1>8, <2>1
  <2>3. Applied = Renamed(mirror, ps)
    BY <1>2, <1>3 DEF Applied
  <2>4. Doubtful(TRUE) = IF doubt \cap Touched = {} THEN doubt ELSE doubt \cup Touched
    BY <1>2 DEF Doubtful
  <2>5. /\ D \subseteq Doubtful(TRUE) \cup passed'
        /\ D \cap Ends(ps) # {} => Ends(ps) \subseteq Doubtful(TRUE) \cup passed'
    BY <1>5, <1>7, <2>4
  <2>6. CASE D \cap Ends(ps) = {}
    <3>1. PICK s \in Files, m \in Files : s = store /\ m = mirror
      BY <1>6
    <3>2. Ends(ps) \cap D = {} /\ \A p \in Paths \ D : s[p] = m[p]
      BY <1>5, <2>6, <3>1
    <3>3. \A p \in Paths \ D : Renamed(s, ps)[p] = Renamed(m, ps)[p]
      BY <3>2, RenamedAgree
    <3>4. \A p \in Paths \ (Doubtful(TRUE) \cup passed') : store'[p] = Applied[p]
      BY <2>2, <2>3, <2>5, <3>1, <3>3
    <3> QED BY <1>1, <1>2, <2>2, <3>4, StatusAnswers
  <2>7. CASE D \cap Ends(ps) # {}
    <3>1. /\ \A p \in Paths \ Ends(ps) : store'[p] = store[p]
          /\ \A p \in Paths \ Ends(ps) : Applied[p] = mirror[p]
      BY <1>6, <2>2, <2>3, RenamedKeeps
    <3>2. \A p \in Paths \ (Doubtful(TRUE) \cup passed') : store'[p] = Applied[p]
      BY <1>5, <2>5, <2>7, <3>1
    <3> QED BY <1>1, <1>2, <2>2, <3>2, StatusAnswers
  <2> QED BY <2>6, <2>7
<1>9. CASE n # Len(ps)
  <2>1. Say(Status(-1, {}))
    BY <1>4, <1>9
  <2>2. Doubtful(FALSE) = doubt \cup Touched
    BY <1>2 DEF Doubtful
  <2>3. PICK qs \in Seq(Pairs) : qs = SubSeq(ps, 1, n) /\ Ends(qs) \subseteq Ends(ps)
    BY PrefixEnds
  <2>4. \A p \in Paths \ Ends(qs) : store'[p] = store[p]
    <3>1. \A p \in Paths \ Ends(qs) : Renamed(store, qs)[p] = store[p]
      BY <1>6, RenamedKeeps
    <3> QED BY <1>4, <2>3, <3>1
  <2>5. \A p \in Paths \ (Doubtful(FALSE) \cup passed') : store'[p] = mirror[p]
    BY <1>5, <1>7, <2>2, <2>3, <2>4
  <2> QED BY <1>1, <1>2, <2>1, <2>5, StatusAnswers
<1> QED BY <1>8, <1>9

LEMMA RemoveFilesSteps ==
  ASSUME TypeInv, ~misread, Dialogue, RemoveFiles
  PROVE  InStep
<1>1. /\ h.pc = "loop" /\ Take /\ Kind = "remove"
      /\ UNCHANGED <<h, deviceSide, broken, misread>>
  BY DEF RemoveFiles, Loop
<1>2. Agree(mirror, doubt) /\ Requested /\ ask.tag = "remove"
  BY <1>1, LoopFinds DEF Requested, Endings
<1>3. PICK fs \in Seq(Paths) : fs = ask.files /\ fs = Args.files
  <2>1. Head(toHost) = toHost[1]
    BY <1>1, TakeTyped DEF TypeInv
  <2>2. ask.files \in Seq(Paths) /\ Args.files = ask.files
    BY <1>2, <2>1, AskFields DEF Requested, TypeInv, Args
  <2> QED BY <2>2
<1>4. PICK n \in 0..Len(fs), tried \in SUBSET ToSet(fs), unseen \in SUBSET ToSet(fs) :
        /\ tried = ToSet(SubSeq(fs, 1, n)) /\ unseen \subseteq tried
        /\ store' = Removed(store, tried \ unseen)
        /\ passed' = (passed \ tried) \cup unseen
        /\ Say(Status(IF n = Len(fs) THEN 0 ELSE -1, {}))
  <2>1. PICK n \in 0..Len(fs) :
          \E unseen \in SUBSET {p \in ToSet(SubSeq(fs, 1, n)) : store[p] # {}} :
            /\ store' = Removed(store, ToSet(SubSeq(fs, 1, n)) \ unseen)
            /\ passed' = (passed \ ToSet(SubSeq(fs, 1, n))) \cup unseen
            /\ Say(Status(IF n = Len(fs) THEN 0 ELSE -1, {}))
    BY <1>3 DEF RemoveFiles
  <2>2. PICK tried \in SUBSET ToSet(fs) : tried = ToSet(SubSeq(fs, 1, n))
    BY PrefixSet
  <2>3. PICK unseen \in SUBSET {p \in tried : store[p] # {}} :
          /\ store' = Removed(store, tried \ unseen)
          /\ passed' = (passed \ tried) \cup unseen
          /\ Say(Status(IF n = Len(fs) THEN 0 ELSE -1, {}))
    BY <2>1, <2>2
  <2>4. unseen \in SUBSET ToSet(fs) /\ unseen \subseteq tried
    BY <2>2
  <2> QED BY <2>1, <2>2, <2>3, <2>4
<1>5. /\ store \in Files /\ mirror \in Files
      /\ \A p \in Paths \ (doubt \cup passed) : store[p] = mirror[p]
  BY <1>2 DEF TypeInv, StoreOK, DeviceOK, Agree
<1>6. Touched = ToSet(fs)
  BY <1>2, <1>3 DEF Touched, Requested, ToSet, Ends
<1>7. /\ \A p \in Paths \ (tried \ unseen) : store'[p] = store[p]
      /\ \A p \in Paths \cap (tried \ unseen) : store'[p] = {}
  BY <1>4, <1>5, RemovedKeeps
<1>8. tried \subseteq ToSet(fs)
  BY <1>4, PrefixSet
<1>9. CASE n = Len(fs)
  <2>1. tried = ToSet(fs) /\ Say(Status(0, {}))
    BY <1>4, <1>9, SubSeqFull
  <2>2. Applied = Removed(mirror, ToSet(fs))
    BY <1>2, <1>3 DEF Applied
  <2>3. Doubtful(TRUE) = doubt \ ToSet(fs)
    BY <1>2, <1>6 DEF Doubtful
  <2>4. /\ \A p \in Paths \ ToSet(fs) : Applied[p] = mirror[p]
        /\ \A p \in Paths \cap ToSet(fs) : Applied[p] = {}
    BY <1>5, <2>2, RemovedKeeps
  <2>5. ASSUME NEW p \in Paths \ (Doubtful(TRUE) \cup passed') PROVE store'[p] = Applied[p]
    BY <1>4, <1>5, <1>7, <2>1, <2>3, <2>4
  <2> QED BY <1>1, <1>2, <2>1, <2>5, StatusAnswers
<1>10. CASE n # Len(fs)
  <2>1. Say(Status(-1, {}))
    BY <1>4, <1>10
  <2>2. Doubtful(FALSE) = doubt \cup ToSet(fs)
    BY <1>2, <1>6 DEF Doubtful
  <2>3. ASSUME NEW p \in Paths \ (Doubtful(FALSE) \cup passed') PROVE store'[p] = mirror[p]
    BY <1>4, <1>5, <1>7, <1>8, <2>2
  <2> QED BY <1>1, <1>2, <2>1, <2>3, StatusAnswers
<1> QED BY <1>9, <1>10

(* A copy on the wire names what it copies.                                *)
LEMMA CopyFinds ==
  ASSUME TypeInv, Dialogue, Loop("copy")
  PROVE  /\ Agree(mirror, doubt) /\ Requested /\ ask.tag = "copy" /\ Args.pairs = ask.pairs
         /\ \E from, to \in Paths :
              /\ from = ask.pairs[1][1] /\ to = ask.pairs[1][2]
              /\ {from, to} \subseteq Ends(ask.pairs) /\ {from, to} \subseteq Touched
<1>1. h.pc = "loop" /\ Take /\ Kind = "copy"
  BY DEF Loop
<1>2. Agree(mirror, doubt) /\ Requested /\ ask.tag = "copy"
  BY <1>1, LoopFinds DEF Requested, Endings
<1>3. ask.pairs \in Seq(Pairs) /\ Args.pairs = ask.pairs /\ ask.pairs # <<>>
  <2>1. Head(toHost) = toHost[1]
    BY <1>1, TakeTyped DEF TypeInv
  <2> QED BY <1>2, <2>1, AskFields DEF Requested, TypeInv, Args, DeviceOK
<1>4. /\ ask.pairs[1][1] \in Paths /\ ask.pairs[1][2] \in Paths
      /\ ask.pairs[1][1] \in Ends(ask.pairs) /\ ask.pairs[1][2] \in Ends(ask.pairs)
  BY <1>3, PairEnds
<1>5. Ends(ask.pairs) \subseteq Touched
  BY DEF Ends, Touched
<1> QED BY <1>2, <1>3, <1>4, <1>5

LEMMA CopyItemSteps ==
  ASSUME TypeInv, ~misread, Dialogue, CopyItem \/ CopyDirectory
  PROVE  InStep
<1>1. /\ Loop("copy") /\ Take /\ UNCHANGED <<h, deviceSide, broken, misread>>
  BY DEF CopyItem, CopyDirectory, Loop
<1>2. Agree(mirror, doubt) /\ Requested /\ ask.tag = "copy" /\ Args.pairs = ask.pairs
  BY <1>1, CopyFinds
<1>3. PICK from \in Paths, to \in Paths :
        /\ from = ask.pairs[1][1] /\ to = ask.pairs[1][2]
        /\ {from, to} \subseteq Ends(ask.pairs) /\ {from, to} \subseteq Touched
  BY <1>1, CopyFinds
<1>4. /\ store \in Files /\ mirror \in Files
      /\ \A p \in Paths \ (doubt \cup passed) : store[p] = mirror[p]
  BY <1>2 DEF TypeInv, StoreOK, DeviceOK, Agree
<1>5. /\ Applied = Copied(mirror, from, to)
      /\ Doubtful(TRUE) = IF doubt \cap Touched = {} THEN doubt ELSE doubt \cup Touched
      /\ Doubtful(FALSE) = doubt \cup Touched
  BY <1>2, <1>3 DEF Applied, Doubtful
<1>6. /\ \A p \in Paths : p # to => Applied[p] = mirror[p]
      /\ Applied[to] = mirror[from]
  BY <1>4, <1>5, CopiedKeeps
<1>7. CASE /\ store' = Copied(store, from, to) /\ Say(Status(0, {}))
           /\ passed' = Tainted(passed, ask.pairs)
  <2>1. /\ \A p \in Paths : p # to => store'[p] = store[p]
        /\ store'[to] = store[from]
    BY <1>4, <1>7, CopiedKeeps
  <2>2. /\ passed \subseteq passed'
        /\ passed \cap Ends(ask.pairs) # {} => Ends(ask.pairs) \subseteq passed'
    BY <1>7, TaintedIs
  <2>3. ASSUME NEW p \in Paths \ (Doubtful(TRUE) \cup passed') PROVE store'[p] = Applied[p]
    <3>1. p \notin doubt \cup passed
      BY <1>5, <2>2
    <3>2. CASE p = to
      <4>1. from \notin doubt \cup passed
        BY <1>3, <1>5, <2>2, <3>2
      <4> QED BY <1>4, <1>6, <2>1, <3>2, <4>1
    <3>3. CASE p # to
      BY <1>4, <1>6, <2>1, <3>1, <3>3
    <3> QED BY <3>2, <3>3
  <2> QED BY <1>1, <1>2, <1>7, <2>3, StatusAnswers
<1>8. CASE /\ store' = store /\ Say(Status(0, {}))
           /\ passed' = passed \cup Ends(ask.pairs)
  <2>1. ASSUME NEW p \in Paths \ (Doubtful(TRUE) \cup passed') PROVE store'[p] = Applied[p]
    BY <1>3, <1>4, <1>5, <1>6, <1>8
  <2> QED BY <1>1, <1>2, <1>8, <2>1, StatusAnswers
<1>9. CASE UNCHANGED <<store, passed>> /\ Say(Status(-1, {}))
  <2>1. ASSUME NEW p \in Paths \ (Doubtful(FALSE) \cup passed') PROVE store'[p] = mirror[p]
    BY <1>4, <1>5, <1>9
  <2> QED BY <1>1, <1>2, <1>9, <2>1, StatusAnswers
<1>10. CASE CopyItem
  BY <1>2, <1>3, <1>7, <1>9, <1>10 DEF CopyItem
<1>11. CASE CopyDirectory
  BY <1>2, <1>8, <1>9, <1>11 DEF CopyDirectory
<1> QED BY <1>10, <1>11

LEMMA LoopEndsSteps ==
  ASSUME TypeInv, ~misread, Dialogue, LoopReturns \/ LoopMisreads
  PROVE  InStep
<1>1. /\ h.pc = "loop" /\ Take /\ UNCHANGED <<backup, toDevice, deviceSide>>
      /\ WiresOK
  BY DEF LoopReturns, LoopMisreads, Loop, TypeInv
<1>2. Kind \in Endings \cup RequestTags
  BY <1>1, LoopFinds DEF Requested, RequestTags
<1>3. LoopReturns
  BY <1>2 DEF LoopMisreads, Streamed, Endings, RequestTags
<1>4. Kind \in Endings /\ ~misread'
      /\ h' = [Idle EXCEPT !.result = "ok"]
  BY <1>3 DEF LoopReturns, Loop, Endings
<1>5. /\ Agree(mirror, doubt) /\ At("loop", "idle")
      /\ HostMail(Endings)
  BY <1>1, <1>4, LoopFinds DEF Requested, Endings
<1>6. toHost' = <<>> /\ toDevice = <<>>
  BY <1>1, <1>5, MailTaken
<1>7. h' = Fresh("idle", "ok")
  BY <1>4, IdleForms
<1>8. h'.pc = "idle"
  BY <1>7 DEF Fresh
<1>9. Resting' /\ Agree(mirror, doubt)'
  BY <1>1, <1>5, <1>6, <1>8, AgreeKept DEF Resting, At, Silent, deviceSide
<1> QED BY <1>4, <1>9 DEF InStep, Dialogue


-----------------------------------------------------------------------------
(* An upload, on the host's side: the host moves to the next of the views. *)

LEMMA UploadNext ==
  ASSUME TypeInv, Uploading, Take
  PROVE  \E v : \E u, w \in UploadViews :
           /\ UploadPath(v) /\ u = v[1] /\ w = v[2]
           /\ HostSees(u) /\ UploadStep(u, Head(toHost), w)
<1>1. PICK v : UploadPath(v)
  BY DEF Uploading
<1>2. /\ toHost \in Seq(Tokens) /\ Len(toHost) \in Nat /\ Len(toHost) > 0
      /\ Head(toHost) = toHost[1]
  BY TakeTyped DEF TypeInv, WiresOK
<1>3. v \in Seq(UploadViews) /\ Len(v) = Len(toHost) + 1 /\ HostSees(v[1])
  BY <1>1 DEF UploadPath
<1>4. 1 \in 1..Len(v) /\ 2 \in 1..Len(v) /\ 1 \in 1..Len(toHost)
  BY <1>2, <1>3
<1>5. UploadStep(v[1], toHost[1], v[1 + 1])
  BY <1>1, <1>4 DEF UploadPath
<1>6. v[1] \in UploadViews /\ v[2] \in UploadViews /\ v[1 + 1] = v[2]
  BY <1>3, <1>4
<1> QED BY <1>1, <1>2, <1>3, <1>5, <1>6

LEMMA UploadTaken ==
  ASSUME TypeInv, Uploading, Take, UNCHANGED <<toDevice, deviceSide>>,
         NEW v, UploadPath(v), NEW w, w = v[2], HostSees(w)'
  PROVE  Uploading'
<1>1. PICK n \in Nat : /\ n = Len(toHost) - 1 /\ Len(toHost) = n + 1
                       /\ toHost \in Seq(Tokens) /\ toHost' = Tail(toHost)
  <2>1. toHost \in Seq(Tokens) /\ Len(toHost) \in Nat /\ Len(toHost) > 0
    BY TakeTyped DEF TypeInv, WiresOK
  <2>2. Len(toHost) - 1 \in Nat
    BY <2>1
  <2> QED BY <2>1, <2>2 DEF Take
<1>2. v \in Seq(UploadViews) /\ Len(v) = n + 2
  BY <1>1 DEF UploadPath
<1>3. v # <<>> /\ toHost # <<>>
  BY <1>1, <1>2
<1>4. /\ Tail(v) \in Seq(UploadViews) /\ Len(Tail(v)) = n + 1
      /\ \A i \in 1..(n + 1) : Tail(v)[i] = v[i + 1]
  BY <1>2, <1>3
<1>5. Len(Tail(toHost)) = n /\ \A i \in 1..n : Tail(toHost)[i] = toHost[i + 1]
  BY <1>1, <1>3
<1>6. PICK t : t = Tail(v)
  OBVIOUS
<1>7. /\ t \in Seq(UploadViews) /\ Len(t) = Len(toHost') + 1
      /\ t[1] = w /\ t[Len(t)] = v[Len(v)]
  <2>1. 1 \in 1..(n + 1) /\ n + 1 \in 1..(n + 1) /\ (n + 1) + 1 = n + 2 /\ 1 + 1 = 2
    OBVIOUS
  <2> QED BY <1>1, <1>2, <1>4, <1>5, <1>6, <2>1
<1>8. \A i \in 1..Len(toHost') : UploadStep(t[i], toHost'[i], t[i + 1])
  <2> SUFFICES ASSUME NEW i \in 1..n PROVE UploadStep(t[i], toHost'[i], t[i + 1])
    BY <1>1, <1>5
  <2>1. PICK j \in 1..(n + 1) : j = i + 1
    OBVIOUS
  <2>2. UploadStep(v[j], toHost[j], v[j + 1])
    BY <1>1 DEF UploadPath
  <2>3. t[i] = v[j] /\ t[i + 1] = v[j + 1] /\ toHost'[i] = toHost[j]
    <3>1. i \in 1..(n + 1) /\ i + 1 \in 1..(n + 1)
      OBVIOUS
    <3> QED BY <1>1, <1>4, <1>5, <1>6, <2>1, <3>1
  <2> QED BY <2>2, <2>3
<1>9. DeviceIs(v[Len(v)])'
  BY DEF UploadPath, DeviceIs, deviceSide
<1>10. UploadPath(t)'
  BY <1>7, <1>8, <1>9 DEF UploadPath
<1> QED BY <1>10 DEF Uploading, deviceSide

(* A view at which the device waits for the status is the last one.        *)
LEMMA UploadOver ==
  ASSUME TypeInv, Uploading, Take, NEW v, UploadPath(v), NEW w, w = v[2],
         w.phase = "status"
  PROVE  toHost' = <<>> /\ dev = "status" /\ mirror = w.mirror /\ doubt = w.doubt
<1>1. /\ toHost \in Seq(Tokens) /\ Len(toHost) \in Nat /\ Len(toHost) > 0
      /\ toHost' = Tail(toHost)
  BY TakeTyped DEF TypeInv, WiresOK, Take
<1>2. Len(v) = Len(toHost) + 1 /\ DeviceIs(v[Len(v)])
  BY DEF UploadPath
<1>3. Len(toHost) = 1
  <2>0. SUFFICES ASSUME Len(toHost) # 1 PROVE FALSE
    OBVIOUS
  <2>1. 2 \in 1..Len(toHost)
    <3>1. PICK n \in Nat : n = Len(toHost) /\ n > 0 /\ n # 1
      BY <1>1, <2>0
    <3>2. 2 \in 1..n
      BY <3>1
    <3> QED BY <3>1, <3>2
  <2>2. UploadStep(v[2], toHost[2], v[2 + 1])
    BY <2>1 DEF UploadPath
  <2> QED BY <2>2 DEF UploadStep
<1>4. toHost' = <<>>
  BY <1>1, <1>3, TailOfOne
<1>5. DeviceIs(w)
  BY <1>2, <1>3
<1> QED BY <1>4, <1>5 DEF DeviceIs

LEMMA UploadFilesSteps ==
  ASSUME TypeInv, ~misread, Dialogue, UploadFiles
  PROVE  InStep
<1>1. /\ h.pc = "loop" /\ Take /\ Kind = "upload"
      /\ h' = [h EXCEPT !.pc = "dir", !.bytes = 0, !.args = Args]
      /\ UNCHANGED backup /\ UNCHANGED <<toDevice, deviceSide>> /\ UNCHANGED misread
  BY DEF UploadFiles, Loop
<1>2. Uploading
  BY <1>1, LoopFinds DEF Requested, Endings
<1>3. PICK v : \E u, w \in UploadViews :
        /\ UploadPath(v) /\ u = v[1] /\ w = v[2]
        /\ HostSees(u) /\ UploadStep(u, Head(toHost), w)
  BY <1>1, <1>2, UploadNext
<1>4. PICK u \in UploadViews, w \in UploadViews :
        /\ UploadPath(v) /\ u = v[1] /\ w = v[2]
        /\ HostSees(u) /\ UploadStep(u, Head(toHost), w)
  BY <1>3
<1>5. u.phase = "loop" /\ Agree(u.mirror, u.doubt)
  BY <1>1, <1>4 DEF HostSees
<1>6. w.phase = "dir" /\ Same(u, w)
  BY <1>4, <1>5 DEF UploadStep
<1>7. h'.pc = "dir" /\ h'.content = <<>>
  <2>1. h \in HostStates /\ h.content = <<>>
    BY <1>1 DEF TypeInv, HostOK
  <2>2. h'.pc = "dir" /\ h'.content = h.content
    BY <1>1, <2>1 DEF HostStates
  <2> QED BY <2>1, <2>2
<1>8. HostSees(w)'
  BY <1>1, <1>5, <1>6, <1>7 DEF HostSees, Agree, Same
<1>9. Uploading'
  BY <1>1, <1>2, <1>4, <1>8, UploadTaken
<1> QED BY <1>1, <1>9 DEF InStep, Dialogue

LEMMA UploadEndsSteps ==
  ASSUME TypeInv, ~misread, Uploading, Take, UploadEnds, UNCHANGED deviceSide,
         NEW v, UploadPath(v), NEW u \in UploadViews, NEW w \in UploadViews, w = v[2],
         w.phase = "status", Same(u, w), Agree(u.mirror, u.doubt)
  PROVE  InStep
<1>1. /\ Say(Status(0, {})) /\ h' = [h EXCEPT !.pc = "loop", !.bytes = 0, !.args = NoArgs]
      /\ UNCHANGED backup /\ UNCHANGED misread
  BY DEF UploadEnds
<1>2. toHost' = <<>> /\ dev = "status" /\ mirror = w.mirror /\ doubt = w.doubt
  BY UploadOver
<1>3. h'.pc = "loop"
  BY <1>1 DEF TypeInv, HostOK, HostStates
<1>4. ask.tag = "upload" /\ ask.bad = {} /\ toDevice = <<>>
  BY DEF Uploading
<1>5. PICK c \in {0, -1} : c = 0
  OBVIOUS
<1>6. Len(toDevice') = 1 /\ toDevice'[1] = Status(c, {})
  BY <1>1, <1>4, <1>5, SaidAlone
<1>7. Status(c, {}).kind = "status" /\ Status(c, {}).val = c /\ Status(c, {}).bad = {}
  BY StatusTyped
<1>8. DeviceMail("status")' /\ toDevice'[1].bad = {} /\ toDevice'[1].val = c
  BY <1>2, <1>6, <1>7 DEF DeviceMail
<1>9. /\ dev' = "status" /\ ask'.tag = "upload" /\ ask'.bad = {}
      /\ mirror' = mirror /\ doubt' = doubt
  BY <1>2, <1>4 DEF deviceSide
<1>10. Applied' = mirror /\ \A ok : Doubtful(ok)' = doubt
  BY <1>9 DEF Applied, Doubtful
<1>11. \A p \in Paths \ (doubt \cup passed') : store'[p] = mirror[p]
  BY <1>1, <1>2 DEF Same, Agree
<1>12. Agree(IF c = 0 THEN Applied ELSE mirror, Doubtful(c = 0))'
  BY <1>5, <1>10, <1>11 DEF Agree
<1>13. At("loop", "status")'
  BY <1>3, <1>9 DEF At
<1>14. Answered'
  BY <1>8, <1>9, <1>12, <1>13 DEF Answered
<1> QED BY <1>1, <1>14 DEF InStep, Dialogue

LEMMA UploadStringSteps ==
  ASSUME TypeInv, ~misread, Dialogue, UploadDirName \/ UploadFileName
  PROVE  InStep
<1>1. /\ h.pc \in {"dir", "name"} /\ Take /\ UNCHANGED deviceSide /\ h \in HostStates
      /\ h.content = <<>>
  BY DEF UploadDirName, UploadFileName, UploadString, TypeInv, HostOK
<1>2. Uploading
  BY <1>1, Takes DEF At, Requested, DownloadWaits, Mismatched, Take
<1>3. PICK v : \E u, w \in UploadViews :
        /\ UploadPath(v) /\ u = v[1] /\ w = v[2]
        /\ HostSees(u) /\ UploadStep(u, Head(toHost), w)
  BY <1>1, <1>2, UploadNext
<1>4. PICK u \in UploadViews, w \in UploadViews :
        /\ UploadPath(v) /\ u = v[1] /\ w = v[2]
        /\ HostSees(u) /\ UploadStep(u, Head(toHost), w)
  BY <1>3
<1>5. u.phase = h.pc /\ Agree(u.mirror, u.doubt)
  BY <1>1, <1>4 DEF HostSees
<1>6. \/ Kind = "zero" /\ w.phase = "status" /\ Same(u, w)
      \/ h.pc = "dir" /\ Kind = "dir" /\ w.phase = "name" /\ Same(u, w)
      \/ /\ h.pc = "name" /\ Kind = "name" /\ w.phase = "blocks" /\ Same(u, w)
         /\ w.file = Head(toHost).path /\ w.got = <<>>
  BY <1>1, <1>4, <1>5 DEF UploadStep, Kind
<1>7. CASE Kind = "zero" /\ w.phase = "status" /\ Same(u, w)
  <2>1. UploadEnds
    BY <1>7 DEF UploadDirName, UploadFileName, UploadString
  <2> QED BY <1>1, <1>2, <1>4, <1>5, <1>7, <2>1, UploadEndsSteps
<1>8. CASE h.pc = "dir" /\ Kind = "dir" /\ w.phase = "name" /\ Same(u, w)
  <2>1. /\ h' = [h EXCEPT !.pc = "name", !.file = Head(toHost).path]
        /\ UNCHANGED backup /\ UNCHANGED toDevice /\ UNCHANGED misread
    BY <1>8 DEF UploadDirName, UploadFileName, UploadString
  <2>2. h'.pc = "name" /\ h'.content = <<>>
    BY <1>1, <2>1 DEF HostStates
  <2>3. HostSees(w)'
    BY <1>5, <1>8, <2>1, <2>2 DEF HostSees, Agree, Same
  <2>4. Uploading'
    BY <1>1, <1>2, <1>4, <2>1, <2>3, UploadTaken
  <2> QED BY <2>1, <2>4 DEF InStep, Dialogue
<1>9. CASE /\ h.pc = "name" /\ Kind = "name" /\ w.phase = "blocks" /\ Same(u, w)
           /\ w.file = Head(toHost).path /\ w.got = <<>>
  <2>1. /\ h' = [h EXCEPT !.pc = "first", !.file = Head(toHost).path]
        /\ UNCHANGED backup /\ UNCHANGED toDevice /\ UNCHANGED misread
    BY <1>9 DEF UploadDirName, UploadFileName, UploadString
  <2>2. h'.pc = "first" /\ h'.content = <<>> /\ h'.file = w.file
    BY <1>1, <1>9, <2>1 DEF HostStates
  <2>3. HostSees(w)'
    BY <1>5, <1>9, <2>1, <2>2 DEF HostSees, Agree, Same
  <2>4. Uploading'
    BY <1>1, <1>2, <1>4, <2>1, <2>3, UploadTaken
  <2> QED BY <2>1, <2>4 DEF InStep, Dialogue
<1> QED BY <1>6, <1>7, <1>8, <1>9

(* The file that a block belongs to, before and after the block.           *)
LEMMA StoreAfter ==
  ASSUME StoreOK, NEW p \in Paths, NEW x, store' = [store EXCEPT ![p] = x]
  PROVE  store'[p] = x /\ \A q \in Paths : q # p => store'[q] = store[q]
  BY DEF StoreOK, Files

LEMMA UploadBlockSteps ==
  ASSUME TypeInv, ~misread, Dialogue, UploadBlock
  PROVE  InStep
<1>1. /\ h.pc \in {"first", "blocks"} /\ Take /\ UNCHANGED <<toDevice, deviceSide>>
      /\ h \in HostStates /\ h.file \in Paths /\ h.content \in Seq(Values) /\ StoreOK
  BY HostFields DEF UploadBlock, TypeInv, HostOK
<1>2. Uploading
  BY <1>1, Takes DEF At, Requested, DownloadWaits, Mismatched, Take
<1>3. PICK v : \E u, w \in UploadViews :
        /\ UploadPath(v) /\ u = v[1] /\ w = v[2]
        /\ HostSees(u) /\ UploadStep(u, Head(toHost), w)
  BY <1>1, <1>2, UploadNext
<1>4. PICK u \in UploadViews, w \in UploadViews :
        /\ UploadPath(v) /\ u = v[1] /\ w = v[2]
        /\ HostSees(u) /\ UploadStep(u, Head(toHost), w)
  BY <1>3
<1>5. u.phase = "blocks" /\ h.file = u.file /\ h.content = u.got
  BY <1>1, <1>4 DEF HostSees
<1>6. \/ h.pc = "first" /\ u.got = <<>> /\ Agree(u.mirror, u.doubt)
      \/ /\ h.pc = "blocks" /\ u.got # <<>> /\ store[u.file] = {u.got}
         /\ Agree(u.mirror, u.doubt \cup {u.file})
  BY <1>1, <1>4, <1>5 DEF HostSees
<1>7. u.mirror \in Files /\ u.file \in Paths /\ u.got \in Seq(Values)
  BY <1>1, <1>5 DEF UploadViews
<1>8. \/ /\ Kind = "data" /\ w.phase = "blocks" /\ Same(u, w)
         /\ w.file = u.file /\ w.got = Append(u.got, Head(toHost).val)
      \/ Kind = "success" /\ w.phase = "dir" /\ Received(u, w)
      \/ /\ Kind = "error" /\ w.phase = "dir"
         /\ w.mirror = u.mirror /\ w.doubt = u.doubt \cup {u.file}
      \/ /\ Kind = "zero" /\ w.phase = "dir"
         /\ IF u.got = <<>> THEN Same(u, w) ELSE Received(u, w)
  BY <1>4, <1>5 DEF UploadStep, Kind
<1>9. Received(u, w) => /\ w.doubt = u.doubt \ {u.file} /\ w.mirror[u.file] = {u.got}
                        /\ \A q \in Paths : q # u.file => w.mirror[q] = u.mirror[q]
  BY <1>7 DEF Received, Files
<1>10. \A q \in Paths \ (u.doubt \cup passed) : q # u.file => store[q] = u.mirror[q]
  BY <1>6 DEF Agree
<1>11. ASSUME w.phase = "dir", h' = [h EXCEPT !.pc = "dir", !.content = <<>>],
              UNCHANGED misread, \A q \in Paths \ (w.doubt \cup passed') : store'[q] = w.mirror[q]
       PROVE  InStep
  <2>1. h'.pc = "dir" /\ h'.content = <<>>
    BY <1>1, <1>11 DEF HostStates
  <2>2. HostSees(w)'
    BY <1>11, <2>1 DEF HostSees, Agree
  <2>3. Uploading'
    BY <1>1, <1>2, <1>4, <2>2, UploadTaken
  <2> QED BY <1>11, <2>3 DEF InStep, Dialogue
<1>12. CASE /\ Kind = "data" /\ w.phase = "blocks" /\ Same(u, w)
            /\ w.file = u.file /\ w.got = Append(u.got, Head(toHost).val)
  <2>1. PICK x \in Values : x = Head(toHost).val
    BY <1>1, <1>12, TakeTyped, TokenFields DEF Kind, TypeInv
  <2>2. PICK c \in Seq(Values) : c = Append(h.content, x) /\ c # <<>>
    <3>1. Append(h.content, x) \in Seq(Values) /\ Append(h.content, x) # <<>>
      BY <1>1
    <3> QED BY <3>1
  <2>3. /\ store' = [store EXCEPT ![h.file] = {c}] /\ passed' = passed \ {u.file}
        /\ h' = [h EXCEPT !.pc = "blocks", !.bytes = h.bytes + 1, !.content = c]
        /\ UNCHANGED <<broken, misread>>
    BY <1>5, <1>12, <2>1, <2>2 DEF UploadBlock
  <2>4. h'.pc = "blocks" /\ h'.content = c /\ h'.file = h.file
    BY <1>1, <2>3 DEF HostStates
  <2>5. store'[h.file] = {c} /\ \A q \in Paths : q # h.file => store'[q] = store[q]
    BY <1>1, <2>3, StoreAfter
  <2>6. w.got = c /\ w.file = h.file /\ w.mirror = u.mirror /\ w.doubt = u.doubt
    BY <1>5, <1>12, <2>1, <2>2 DEF Same
  <2>7. \A q \in Paths \ (w.doubt \cup {w.file} \cup passed') : store'[q] = w.mirror[q]
    BY <1>5, <1>10, <2>3, <2>5, <2>6
  <2>8. HostSees(w)'
    BY <1>12, <2>2, <2>4, <2>5, <2>6, <2>7 DEF HostSees, Agree
  <2>9. Uploading'
    BY <1>1, <1>2, <1>4, <2>8, UploadTaken
  <2> QED BY <2>3, <2>9 DEF InStep, Dialogue
<1>13. CASE Kind \in {"success", "error"}
  <2>1. /\ store' = IF h.pc = "first" THEN [store EXCEPT ![h.file] = {<<>>}] ELSE store
        /\ passed' = passed \ {u.file} \/ passed' = passed
        /\ h' = [h EXCEPT !.pc = "dir", !.content = <<>>] /\ UNCHANGED misread
    BY <1>5, <1>13 DEF UploadBlock
  <2>2. store'[u.file] = {u.got} /\ \A q \in Paths : q # u.file => store'[q] = store[q]
    <3>1. CASE h.pc = "first"
      <4>1. store' = [store EXCEPT ![h.file] = {<<>>}]
        BY <2>1, <3>1
      <4>2. store'[h.file] = {<<>>} /\ \A q \in Paths : q # h.file => store'[q] = store[q]
        BY <1>1, <4>1, StoreAfter
      <4> QED BY <1>5, <1>6, <3>1, <4>2
    <3>2. CASE h.pc = "blocks"
      BY <1>6, <2>1, <3>2
    <3> QED BY <1>1, <3>1, <3>2
  <2>3. CASE Kind = "success"
    <3>1. w.phase = "dir" /\ Received(u, w)
      BY <1>8, <2>3
    <3>2. \A q \in Paths \ (w.doubt \cup passed') : store'[q] = w.mirror[q]
      BY <1>9, <1>10, <2>1, <2>2, <3>1
    <3> QED BY <1>11, <2>1, <3>1, <3>2
  <2>4. CASE Kind = "error"
    <3>1. w.phase = "dir" /\ w.mirror = u.mirror /\ w.doubt = u.doubt \cup {u.file}
      BY <1>8, <2>4
    <3>2. \A q \in Paths \ (w.doubt \cup passed') : store'[q] = w.mirror[q]
      BY <1>10, <2>1, <2>2, <3>1
    <3> QED BY <1>11, <2>1, <3>1, <3>2
  <2> QED BY <1>13, <2>3, <2>4
<1>14. CASE Kind = "zero"
  <2>1. FileEnds
    BY <1>14 DEF UploadBlock
  <2>2. h' = [h EXCEPT !.pc = "dir", !.content = <<>>] /\ UNCHANGED backup /\ UNCHANGED misread
    BY <2>1 DEF FileEnds
  <2>3. w.phase = "dir" /\ IF u.got = <<>> THEN Same(u, w) ELSE Received(u, w)
    BY <1>8, <1>14
  <2>4. \A q \in Paths \ (w.doubt \cup passed') : store'[q] = w.mirror[q]
    <3>1. CASE u.got = <<>>
      BY <1>6, <2>2, <2>3, <3>1 DEF Same, Agree
    <3>2. CASE u.got # <<>>
      BY <1>6, <1>9, <1>10, <2>2, <2>3, <3>2
    <3> QED BY <3>1, <3>2
  <2> QED BY <1>11, <2>2, <2>3, <2>4
<1> QED BY <1>8, <1>12, <1>13, <1>14

LEMMA UploadFailsSteps ==
  ASSUME ~misread, UploadFails
  PROVE  InStep
  BY DEF UploadFails, Fail, InStep

-----------------------------------------------------------------------------
(* A download, on the host's side: a view is added for every token sent.   *)

DownloadLine(v, x) ==
  /\ v \in Seq(DownloadViews) /\ Len(v) = Len(x) + 1
  /\ \A i \in 1..Len(x) : DownloadStep(v[i], x[i], v[i + 1])

LEMMA LineGrows ==
  ASSUME NEW x \in Seq(Tokens), NEW v, DownloadLine(v, x),
         NEW t \in Tokens, NEW w \in DownloadViews, NEW u, u = v[Len(v)],
         DownloadStep(u, t, w)
  PROVE  /\ DownloadLine(Append(v, w), Append(x, t)) /\ Append(v, w)[1] = v[1]
         /\ Append(v, w)[Len(Append(v, w))] = w
<1>1. PICK n \in Nat : n = Len(x)
  OBVIOUS
<1>2. v \in Seq(DownloadViews) /\ Len(v) = n + 1
  BY <1>1 DEF DownloadLine
<1>3. PICK a \in Seq(DownloadViews) : a = Append(v, w)
  <2>1. Append(v, w) \in Seq(DownloadViews)
    BY <1>2
  <2> QED BY <2>1
<1>4. Len(a) = n + 2 /\ (\A i \in 1..(n + 1) : a[i] = v[i]) /\ a[n + 2] = w
  BY <1>2, <1>3
<1>5. PICK y \in Seq(Tokens) : y = Append(x, t)
  <2>1. Append(x, t) \in Seq(Tokens)
    OBVIOUS
  <2> QED BY <2>1
<1>6. Len(y) = n + 1 /\ (\A i \in 1..n : y[i] = x[i]) /\ y[n + 1] = t
  BY <1>1, <1>5
<1>7. ASSUME NEW i \in 1..(n + 1) PROVE DownloadStep(a[i], y[i], a[i + 1])
  <2>1. CASE i = n + 1
    <3>1. a[i] = u /\ y[i] = t /\ a[i + 1] = w
      <4>1. i \in 1..(n + 1) /\ i + 1 = n + 2
        BY <2>1
      <4> QED BY <1>2, <1>4, <1>6, <2>1, <4>1
    <3> QED BY <3>1
  <2>2. CASE i # n + 1
    <3>1. i \in 1..n /\ i \in 1..(n + 1) /\ i + 1 \in 1..(n + 1)
      BY <2>2
    <3>2. DownloadStep(v[i], x[i], v[i + 1])
      BY <1>1, <3>1 DEF DownloadLine
    <3>3. a[i] = v[i] /\ a[i + 1] = v[i + 1] /\ y[i] = x[i]
      BY <1>4, <1>6, <3>1
    <3> QED BY <3>2, <3>3
  <2> QED BY <2>1, <2>2
<1>8. DownloadLine(a, y)
  <2>1. Len(a) = Len(y) + 1
    BY <1>4, <1>6
  <2> QED BY <1>6, <1>7, <2>1 DEF DownloadLine
<1>9. a[1] = v[1] /\ a[Len(a)] = w
  BY <1>4
<1> QED BY <1>3, <1>5, <1>8, <1>9

(* A step of the host in a download.                                       *)
LEMMA DownloadGoes ==
  ASSUME ask.tag = "download", toHost' = <<>>, dev # "loop", ~misread,
         Agree(mirror, doubt), UNCHANGED <<backup, deviceSide, misread>>,
         NEW v, NEW x, DownloadLine(v, x), toDevice' = x, NEW u, NEW w,
         u = v[1], DeviceSees(u), w = v[Len(v)], HostIs(w)'
  PROVE  InStep
<1>1. /\ ask' = ask /\ dev' = dev /\ UNCHANGED <<backup, mirror, doubt>>
      /\ UNCHANGED backup /\ UNCHANGED misread
  BY DEF deviceSide
<1>2. DownloadLine(v, x)'
  BY <1>1 DEF DownloadLine, DownloadStep
<1>3. DeviceSees(u)'
  BY <1>1 DEF DeviceSees
<1>4. DownloadPath(v)'
  BY <1>2, <1>3 DEF DownloadPath, DownloadLine
<1>5. DownloadRuns'
  BY <1>1, <1>4 DEF DownloadRuns
<1>6. Agree(mirror, doubt)'
  BY <1>1, AgreeKept
<1> QED BY <1>1, <1>5, <1>6 DEF InStep, Dialogue, Downloading, DownloadRuns

(* The views when the host acts, and the last of them.                     *)
LEMMA DownloadNow ==
  ASSUME TypeInv, Dialogue, h.pc \in {"file", "send", "fail"}
  PROVE  /\ Agree(mirror, doubt) /\ ask.tag = "download" /\ toHost = <<>> /\ dev # "loop"
         /\ \E v : \E u, w \in DownloadViews :
              /\ DownloadLine(v, toDevice) /\ u = v[1] /\ DeviceSees(u)
              /\ w = v[Len(v)] /\ HostIs(w)
<1>1. Agree(mirror, doubt) /\ DownloadRuns
  BY Sends
<1>2. PICK v : DownloadPath(v)
  BY <1>1 DEF DownloadRuns
<1>3. v \in Seq(DownloadViews) /\ Len(v) = Len(toDevice) + 1 /\ Len(toDevice) \in Nat
  BY <1>2 DEF DownloadPath, TypeInv, WiresOK
<1>4. 1 \in 1..Len(v) /\ Len(v) \in 1..Len(v)
  BY <1>3
<1>5. v[1] \in DownloadViews /\ v[Len(v)] \in DownloadViews
  BY <1>3, <1>4
<1>6. DownloadLine(v, toDevice) /\ DeviceSees(v[1]) /\ HostIs(v[Len(v)])
  BY <1>2 DEF DownloadPath, DownloadLine
<1> QED BY <1>1, <1>5, <1>6 DEF DownloadRuns

(* One token is said, and a view added for it.                             *)
LEMMA DownloadSays ==
  ASSUME TypeInv, ~misread, Dialogue, h.pc \in {"file", "send", "fail"},
         UNCHANGED <<backup, toHost, deviceSide, misread>>,
         NEW v, NEW u, NEW z, DownloadLine(v, toDevice), u = v[1], DeviceSees(u),
         z = v[Len(v)],
         NEW t \in Tokens, Say(t), NEW w \in DownloadViews, DownloadStep(z, t, w), HostIs(w)'
  PROVE  InStep
<1>1. Agree(mirror, doubt) /\ ask.tag = "download" /\ toHost = <<>> /\ dev # "loop"
  BY DownloadNow
<1>2. PICK x \in Seq(Tokens) : x = toDevice
  BY DEF TypeInv, WiresOK
<1>3. DownloadLine(v, x)
  BY <1>2
<1>4. /\ DownloadLine(Append(v, w), Append(x, t)) /\ Append(v, w)[1] = v[1]
      /\ Append(v, w)[Len(Append(v, w))] = w
  BY <1>3, LineGrows
<1>5. PICK a, y : a = Append(v, w) /\ y = Append(x, t)
  OBVIOUS
<1>6. toDevice' = y /\ toHost' = <<>>
  BY <1>1, <1>2, <1>5 DEF Say
<1>7. DownloadLine(a, y) /\ u = a[1] /\ w = a[Len(a)]
  BY <1>4, <1>5
<1> QED BY <1>1, <1>6, <1>7, DownloadGoes

LEMMA DownloadFilesSteps ==
  ASSUME TypeInv, ~misread, Dialogue, DownloadFiles
  PROVE  InStep
<1>1. /\ h.pc = "loop" /\ Take /\ Kind = "download"
      /\ h' = [h EXCEPT !.pc = "file", !.todo = Args.files, !.args = Args, !.errs = {},
                        !.bytes = 0, !.done = 0]
      /\ UNCHANGED toDevice /\ UNCHANGED <<backup, deviceSide, misread>>
  BY DEF DownloadFiles, Loop
<1>2. Agree(mirror, doubt) /\ DownloadWaits
  BY <1>1, LoopFinds DEF Requested, Endings
<1>3. /\ ask.tag = "download" /\ dev = "files" /\ ask.bad = {} /\ HostMail({"download"})
      /\ toHost[1].args.files = ask.files /\ ask.files \in Seq(Paths)
  BY <1>2, AskFields DEF DownloadWaits, At, TypeInv
<1>4. toHost' = <<>> /\ toDevice = <<>> /\ Args.files = ask.files
  BY <1>1, <1>3, MailTaken DEF TypeInv, Args
<1>5. PICK fs \in Seq(Paths) : fs = ask.files
  BY <1>3
<1>6. h'.pc = "file" /\ h'.todo = fs /\ h'.errs = {}
  <2>1. h \in HostStates
    BY DEF TypeInv, HostOK
  <2> QED BY <1>1, <1>4, <1>5, <2>1 DEF HostStates
<1>7. PICK g \in Seq(Values) : g = <<>>
  BY NothingTyped
<1>8. PICK u \in DownloadViews : u.phase = "files" /\ u.files = fs /\ u.bad = {}
  <2>1. PICK u : u = [phase |-> "files", files |-> fs, got |-> g, bad |-> {}]
    OBVIOUS
  <2>2. u \in DownloadViews /\ u.phase = "files" /\ u.files = fs /\ u.bad = {}
    BY <2>1 DEF DownloadViews
  <2> QED BY <2>2
<1>9. PICK v : v = <<u>>
  OBVIOUS
<1>10. v \in Seq(DownloadViews) /\ Len(v) = 1 /\ v[1] = u
  BY <1>9
<1>11. PICK x : x = <<>> /\ Len(x) = 0
  OBVIOUS
<1>12. DownloadLine(v, x)
  BY <1>10, <1>11 DEF DownloadLine
<1>13. DeviceSees(u)
  BY <1>3, <1>5, <1>8 DEF DeviceSees
<1>14. HostIs(u)'
  BY <1>6, <1>8 DEF HostIs
<1>15. toDevice' = x /\ u = v[Len(v)] /\ u = v[1] /\ dev # "loop"
  BY <1>1, <1>3, <1>4, <1>10, <1>11
<1> QED BY <1>1, <1>2, <1>3, <1>4, <1>12, <1>13, <1>14, <1>15, DownloadGoes

LEMMA SendNameSteps ==
  ASSUME TypeInv, ~misread, Dialogue, SendName
  PROVE  InStep
<1>1. /\ h.pc = "file" /\ h.todo # <<>> /\ Say(Token("name", Head(h.todo), 0))
      /\ UNCHANGED <<backup, toHost, deviceSide, misread>> /\ UNCHANGED backup
      /\ h \in HostStates /\ h.todo \in Seq(Paths)
  BY HostFields DEF SendName, TypeInv, HostOK
<1>2. PICK v : \E u, z \in DownloadViews :
        /\ DownloadLine(v, toDevice) /\ u = v[1] /\ DeviceSees(u)
        /\ z = v[Len(v)] /\ HostIs(z)
  BY <1>1, DownloadNow
<1>3. PICK u \in DownloadViews, z \in DownloadViews :
        /\ DownloadLine(v, toDevice) /\ u = v[1] /\ DeviceSees(u)
        /\ z = v[Len(v)] /\ HostIs(z)
  BY <1>2
<1>4. z.phase = "files" /\ z.files = h.todo /\ z.bad = h.errs
  BY <1>1, <1>3 DEF HostIs
<1>5. PICK p \in Paths : p = Head(h.todo)
  BY <1>1, Queue
<1>6. PICK t \in Tokens : t = Token("name", p, 0) /\ t.kind = "name" /\ t.path = p
  BY PieceTyped
<1>7. Say(t)
  BY <1>1, <1>5, <1>6
<1>8. PICK w \in DownloadViews :
        w.phase = "content" /\ w.files = z.files /\ w.got = <<>> /\ w.bad = z.bad
  <2>1. PICK w : w = [phase |-> "content", files |-> z.files, got |-> <<>>, bad |-> z.bad]
    OBVIOUS
  <2>2. /\ w \in DownloadViews /\ w.phase = "content" /\ w.files = z.files /\ w.got = <<>>
        /\ w.bad = z.bad
    BY <2>1, NothingTyped DEF DownloadViews
  <2> QED BY <2>2
<1>9. DownloadStep(z, t, w)
  BY <1>1, <1>4, <1>5, <1>6, <1>8 DEF DownloadStep
<1>10. HostIs(w)'
  <2>1. CASE h' = [h EXCEPT !.pc = "fail"]
    <3>1. h'.pc = "fail" /\ h'.todo = h.todo /\ h'.errs = h.errs
      BY <1>1, <2>1 DEF HostStates
    <3> QED BY <1>4, <1>8, <3>1 DEF HostIs
  <2>2. ASSUME NEW c \in store[p], h' = [h EXCEPT !.pc = "send", !.content = c]
        PROVE  HostIs(w)'
    <3>1. c \in Seq(Values) /\ store[p] = {c}
      BY <2>2 DEF TypeInv, StoreOK, Files, Single
    <3>2. h'.pc = "send" /\ h'.todo = h.todo /\ h'.errs = h.errs /\ h'.content = c
      BY <1>1, <2>2, <3>1 DEF HostStates
    <3>3. <<>> \o c = c
      BY <3>1
    <3>4. store'[Head(h'.todo)] = {w.got \o h'.content}
      BY <1>1, <1>5, <1>8, <3>1, <3>2, <3>3
    <3> QED BY <1>4, <1>8, <3>2, <3>4 DEF HostIs
  <2> QED BY <1>5, <2>1, <2>2 DEF SendName
<1> QED BY <1>1, <1>3, <1>7, <1>9, <1>10, DownloadSays

LEMMA HeadMoves ==
  ASSUME NEW r \in Seq(Values), NEW s \in Seq(Values), s # <<>>
  PROVE  Append(r, Head(s)) \o Tail(s) = r \o s
<1>1. PICK x \in Values : x = Head(s)
  BY Queue
<1>2. PICK c \in Seq(Values) : c = Tail(s)
  BY Queue
<1>3. PICK o \in Seq(Values) : o = <<x>>
  <2>1. <<x>> \in Seq(Values)
    OBVIOUS
  <2> QED BY <2>1
<1>4. s = o \o c
  BY <1>1, <1>2, <1>3
<1>5. Append(r, x) = r \o o
  BY <1>3, AppendIsConcat
<1>6. (r \o o) \o c = r \o (o \o c)
  BY ConcatAssociative
<1> QED BY <1>1, <1>2, <1>4, <1>5, <1>6

LEMMA SendBlockSteps ==
  ASSUME TypeInv, ~misread, Dialogue, SendBlock
  PROVE  InStep
<1>1. /\ h.pc = "send" /\ h.content # <<>> /\ UNCHANGED backup
      /\ UNCHANGED <<backup, toHost, deviceSide, misread>> /\ UNCHANGED toHost
      /\ UNCHANGED <<backup, deviceSide, misread>>
      /\ h \in HostStates /\ h.todo \in Seq(Paths) /\ h.content \in Seq(Values)
  BY HostFields DEF SendBlock, TypeInv, HostOK
<1>2. PICK v : \E u, z \in DownloadViews :
        /\ DownloadLine(v, toDevice) /\ u = v[1] /\ DeviceSees(u)
        /\ z = v[Len(v)] /\ HostIs(z)
  BY <1>1, DownloadNow
<1>3. PICK u \in DownloadViews, z \in DownloadViews :
        /\ DownloadLine(v, toDevice) /\ u = v[1] /\ DeviceSees(u)
        /\ z = v[Len(v)] /\ HostIs(z)
  BY <1>2
<1>4. /\ z.phase = "content" /\ z.files = h.todo /\ z.bad = h.errs /\ z.got \in Seq(Values)
      /\ store[Head(h.todo)] = {z.got \o h.content}
  BY <1>1, <1>3 DEF HostIs, DownloadViews
<1>5. CASE /\ Say(Token("data", NoPath, Head(h.content)))
           /\ h' = [h EXCEPT !.content = Tail(h.content), !.bytes = h.bytes + 1]
  <2>1. PICK x \in Values : x = Head(h.content)
    BY <1>1, Queue
  <2>2. PICK c \in Seq(Values) : c = Tail(h.content)
    BY <1>1, Queue
  <2>3. PICK t \in Tokens : t = Token("data", NoPath, x) /\ t.kind = "data" /\ t.val = x
    BY PieceTyped
  <2>4. PICK g \in Seq(Values) : g = Append(z.got, x)
    <3>1. Append(z.got, x) \in Seq(Values)
      BY <1>4
    <3> QED BY <3>1
  <2>5. PICK w \in DownloadViews :
          w.phase = "content" /\ w.files = z.files /\ w.got = g /\ w.bad = z.bad
    <3>1. PICK w : w = [phase |-> "content", files |-> z.files, got |-> g, bad |-> z.bad]
      OBVIOUS
    <3>2. /\ w \in DownloadViews /\ w.phase = "content" /\ w.files = z.files /\ w.got = g
          /\ w.bad = z.bad
      BY <3>1 DEF DownloadViews
    <3> QED BY <3>2
  <2>6. DownloadStep(z, t, w)
    BY <1>4, <2>3, <2>4, <2>5 DEF DownloadStep
  <2>7. g \o c = z.got \o h.content
    <3>1. PICK s \in Seq(Values) : s = h.content /\ s # <<>>
      BY <1>1
    <3>2. PICK r \in Seq(Values) : r = z.got
      BY <1>4
    <3>3. Append(r, Head(s)) \o Tail(s) = r \o s
      BY <3>1, HeadMoves
    <3> QED BY <2>1, <2>2, <2>4, <3>1, <3>2, <3>3
  <2>8. h'.pc = "send" /\ h'.todo = h.todo /\ h'.errs = h.errs /\ h'.content = c
    <3>1. h' = [h EXCEPT !.content = c, !.bytes = h.bytes + 1]
      BY <1>5, <2>2
    <3> QED BY <1>1, <3>1 DEF HostStates
  <2>9. store'[Head(h'.todo)] = {w.got \o h'.content}
    BY <1>1, <1>4, <2>5, <2>7, <2>8
  <2>10. HostIs(w)'
    BY <1>4, <2>5, <2>8, <2>9 DEF HostIs
  <2>11. Say(t)
    BY <1>5, <2>1, <2>3
  <2> QED BY <1>1, <1>3, <2>6, <2>10, <2>11, DownloadSays
<1>6. CASE h' = [h EXCEPT !.pc = "fail"] /\ UNCHANGED toDevice
  <2>1. h'.pc = "fail" /\ h'.todo = h.todo /\ h'.errs = h.errs
    BY <1>1, <1>6 DEF HostStates
  <2>2. HostIs(z)'
    BY <1>4, <2>1 DEF HostIs
  <2>3. Agree(mirror, doubt) /\ ask.tag = "download" /\ toHost = <<>> /\ dev # "loop"
    BY <1>1, DownloadNow
  <2>4. PICK x : x = toDevice
    OBVIOUS
  <2>5. toDevice' = x /\ toHost' = <<>> /\ DownloadLine(v, x)
    BY <1>1, <1>3, <1>6, <2>3, <2>4
  <2> QED BY <1>1, <1>3, <2>2, <2>3, <2>5, DownloadGoes
<1> QED BY <1>5, <1>6 DEF SendBlock

LEMMA SendTrailerSteps ==
  ASSUME TypeInv, ~misread, Dialogue, SendTrailer
  PROVE  InStep
<1>1. /\ h.pc \in {"send", "fail"} /\ UNCHANGED backup
      /\ UNCHANGED <<backup, toHost, deviceSide, misread>>
      /\ h \in HostStates /\ h.todo \in Seq(Paths) /\ h.errs \in SUBSET Paths
      /\ h.todo # <<>>
  BY HostFields DEF SendTrailer, TypeInv, HostOK
<1>2. PICK v : \E u, z \in DownloadViews :
        /\ DownloadLine(v, toDevice) /\ u = v[1] /\ DeviceSees(u)
        /\ z = v[Len(v)] /\ HostIs(z)
  BY <1>1, DownloadNow
<1>3. PICK u \in DownloadViews, z \in DownloadViews :
        /\ DownloadLine(v, toDevice) /\ u = v[1] /\ DeviceSees(u)
        /\ z = v[Len(v)] /\ HostIs(z)
  BY <1>2
<1>4. z.phase = "content" /\ z.files = h.todo /\ z.bad = h.errs /\ z.got \in Seq(Values)
  BY <1>1, <1>3 DEF HostIs, DownloadViews
<1>5. PICK p \in Paths : p = Head(h.todo)
  BY <1>1, Queue
<1>6. PICK td \in Seq(Paths) : td = Tail(h.todo)
  BY <1>1, Queue
<1>7. PICK k \in {"error", "success"} : k = IF h.pc = "fail" THEN "error" ELSE "success"
  OBVIOUS
<1>8. PICK e \in SUBSET Paths : e = IF k = "error" THEN h.errs \cup {p} ELSE h.errs
  <2>1. (IF k = "error" THEN h.errs \cup {p} ELSE h.errs) \in SUBSET Paths
    BY <1>1
  <2> QED BY <2>1
<1>9. /\ h' = [h EXCEPT !.pc = "file", !.todo = td, !.content = <<>>, !.done = h.done + 1,
                        !.errs = e]
      /\ Say(Token(k, NoPath, 0))
  BY <1>5, <1>6, <1>7, <1>8 DEF SendTrailer
<1>10. h'.pc = "file" /\ h'.todo = td /\ h'.errs = e
  BY <1>1, <1>9 DEF HostStates
<1>11. PICK t \in Tokens : t = Token(k, NoPath, 0) /\ t.kind = k
  <2>1. Msg(k) \in Tokens /\ Msg(k).kind = k
    BY MsgTyped DEF Kinds
  <2> QED BY <2>1 DEF Msg
<1>12. PICK w \in DownloadViews : w.phase = "files" /\ w.files = td /\ w.bad = e
  <2>1. PICK w : w = [phase |-> "files", files |-> td, got |-> z.got, bad |-> e]
    OBVIOUS
  <2>2. w \in DownloadViews /\ w.phase = "files" /\ w.files = td /\ w.bad = e
    BY <1>4, <2>1 DEF DownloadViews
  <2> QED BY <2>2
<1>13. DownloadStep(z, t, w)
  <2>1. CASE h.pc = "fail"
    BY <1>4, <1>5, <1>6, <1>7, <1>8, <1>11, <1>12, <2>1 DEF DownloadStep
  <2>2. CASE h.pc = "send"
    <3>1. store[Head(h.todo)] = {z.got \o h.content} /\ h.content = <<>>
      BY <1>3, <2>2 DEF HostIs, SendTrailer
    <3>2. z.got \o <<>> = z.got
      BY <1>4
    <3>3. store[Head(z.files)] = {z.got}
      BY <1>4, <3>1, <3>2
    <3> QED BY <1>4, <1>6, <1>7, <1>8, <1>11, <1>12, <2>2, <3>3 DEF DownloadStep
  <2> QED BY <1>1, <2>1, <2>2
<1>14. HostIs(w)'
  BY <1>10, <1>12 DEF HostIs
<1>15. Say(t)
  BY <1>9, <1>11
<1> QED BY <1>1, <1>3, <1>13, <1>14, <1>15, DownloadSays

LEMMA DownloadEndsSteps ==
  ASSUME TypeInv, ~misread, Dialogue, DownloadEnds
  PROVE  InStep
<1>1. /\ h.pc = "file" /\ h.todo = <<>> /\ UNCHANGED toHost
      /\ h' = [h EXCEPT !.pc = "loop", !.bytes = 0, !.errs = {}, !.done = 0, !.args = NoArgs]
      /\ UNCHANGED <<backup, deviceSide, misread>> /\ h \in HostStates /\ h.errs \in SUBSET Paths
  BY HostFields DEF DownloadEnds, TypeInv, HostOK
<1>2. PICK v : \E u, z \in DownloadViews :
        /\ DownloadLine(v, toDevice) /\ u = v[1] /\ DeviceSees(u)
        /\ z = v[Len(v)] /\ HostIs(z)
  BY <1>1, DownloadNow
<1>3. PICK u \in DownloadViews, z \in DownloadViews :
        /\ DownloadLine(v, toDevice) /\ u = v[1] /\ DeviceSees(u)
        /\ z = v[Len(v)] /\ HostIs(z)
  BY <1>2
<1>4. z.phase = "files" /\ z.files = <<>> /\ z.bad = h.errs
  BY <1>1, <1>3 DEF HostIs
<1>5. Agree(mirror, doubt) /\ ask.tag = "download" /\ toHost = <<>> /\ dev # "loop"
  BY <1>1, DownloadNow
<1>6. PICK c \in {0, -13} : c = IF h.errs = {} THEN 0 ELSE -13
  OBVIOUS
<1>7. PICK e \in SUBSET Paths : e = h.errs
  BY <1>1
<1>8. PICK t \in Tokens : t = Msg("zero") /\ t.kind = "zero"
  BY MsgTyped DEF Kinds
<1>9. PICK s \in Tokens : /\ s = Status(c, e) /\ s.kind = "status" /\ s.val = c
                          /\ s.bad = e
  BY StatusTyped
<1>10. PICK x \in Seq(Tokens) : x = toDevice
  BY DEF TypeInv, WiresOK
<1>11. toDevice' = Append(Append(x, t), s)
  <2>1. toDevice' = x \o <<t, s>>
    BY <1>6, <1>7, <1>8, <1>9, <1>10 DEF DownloadEnds
  <2>2. x \o <<t, s>> = Append(Append(x, t), s)
    OBVIOUS
  <2> QED BY <2>1, <2>2
<1>12. PICK w \in DownloadViews : w.phase = "status" /\ w.bad = e
  <2>1. PICK w : w = [phase |-> "status", files |-> z.files, got |-> z.got, bad |-> e]
    OBVIOUS
  <2>2. w \in DownloadViews /\ w.phase = "status" /\ w.bad = e
    BY <2>1 DEF DownloadViews
  <2> QED BY <2>2
<1>13. PICK w2 \in DownloadViews : w2.phase = "loop"
  <2>1. PICK w2 : w2 = [phase |-> "loop", files |-> z.files, got |-> z.got, bad |-> e]
    OBVIOUS
  <2>2. w2 \in DownloadViews /\ w2.phase = "loop"
    BY <2>1 DEF DownloadViews
  <2> QED BY <2>2
<1>14. DownloadStep(z, t, w)
  BY <1>4, <1>7, <1>8, <1>12 DEF DownloadStep
<1>15. DownloadStep(w, s, w2)
  <2>1. c = 0 <=> e = {}
    BY <1>6, <1>7
  <2> QED BY <1>9, <1>12, <1>13, <2>1 DEF DownloadStep
<1>16. PICK a, y : a = Append(v, w) /\ y = Append(x, t)
  OBVIOUS
<1>17. DownloadLine(a, y) /\ a[1] = v[1] /\ a[Len(a)] = w
  <2>1. DownloadLine(v, x)
    BY <1>3, <1>10
  <2>2. /\ DownloadLine(Append(v, w), Append(x, t)) /\ Append(v, w)[1] = v[1]
        /\ Append(v, w)[Len(Append(v, w))] = w
    BY <1>3, <1>14, <2>1, LineGrows
  <2> QED BY <1>16, <2>2
<1>18. PICK b, q : b = Append(a, w2) /\ q = Append(y, s)
  OBVIOUS
<1>19. DownloadLine(b, q) /\ b[1] = a[1] /\ b[Len(b)] = w2
  <2>1. y \in Seq(Tokens)
    BY <1>16
  <2>2. /\ DownloadLine(Append(a, w2), Append(y, s)) /\ Append(a, w2)[1] = a[1]
        /\ Append(a, w2)[Len(Append(a, w2))] = w2
    BY <1>15, <1>17, <2>1, LineGrows
  <2> QED BY <1>18, <2>2
<1>20. toDevice' = q /\ u = b[1] /\ w2 = b[Len(b)] /\ toHost' = <<>>
  BY <1>1, <1>3, <1>5, <1>11, <1>16, <1>17, <1>18, <1>19
<1>21. HostIs(w2)'
  <2>1. h'.pc = "loop"
    BY <1>1 DEF HostStates
  <2> QED BY <1>13, <2>1 DEF HostIs
<1> QED BY <1>1, <1>3, <1>5, <1>19, <1>20, <1>21, DownloadGoes

-----------------------------------------------------------------------------
(* The device, outside the streams.                                        *)

LEMMA HostKept ==
  ASSUME UNCHANGED hostSide
  PROVE  UNCHANGED h /\ UNCHANGED backup /\ UNCHANGED broken
  BY DEF hostSide

LEMMA DeviceGreetsSteps ==
  ASSUME TypeInv, ~misread, Dialogue, DeviceGreets
  PROVE  InStep
<1>1. /\ dev = "greet" /\ dev' = "versions" /\ UNCHANGED hostSide /\ UNCHANGED toDevice
      /\ UNCHANGED misread /\ UNCHANGED <<mirror, doubt>>
  BY DEF DeviceGreets
<1>2. PICK k \in {"DLMessageVersionExchange", "simple"} : Tell(Msg(k))
  BY DEF DeviceGreets
<1>3. Agree(mirror, doubt) /\ At("dl_version", "greet") /\ Silent
  BY <1>1, Speaks
<1>4. Msg(k).kind \in Kinds
  BY MsgTyped DEF Kinds
<1>5. HostMail(Kinds)'
  <2>1. Len(toHost') = 1 /\ toHost'[1] = Msg(k)
    BY <1>2, <1>3, ToldAlone DEF Silent
  <2> QED BY <1>1, <1>3, <1>4, <2>1 DEF HostMail, Silent
<1>6. Agree(mirror, doubt)'
  BY <1>1, <1>3, HostKept, AgreeKept
<1>7. At("dl_version", "versions")'
  BY <1>1, <1>3, HostKept DEF At
<1> QED BY <1>1, <1>5, <1>6, <1>7 DEF InStep, Dialogue, Connecting

(* What the device finds first in the stream of a download.                *)
LEMMA DownloadFinds ==
  ASSUME TypeInv, DownloadRuns, Hear
  PROVE  \E v : \E u, w \in DownloadViews :
           /\ DownloadPath(v) /\ u = v[1] /\ w = v[2]
           /\ DeviceSees(u) /\ DownloadStep(u, Head(toDevice), w)
<1>1. PICK v : DownloadPath(v)
  BY DEF DownloadRuns
<1>2. /\ toDevice \in Seq(Tokens) /\ Len(toDevice) \in Nat /\ Len(toDevice) > 0
      /\ Head(toDevice) = toDevice[1]
  BY TakeTyped DEF TypeInv, WiresOK
<1>3. v \in Seq(DownloadViews) /\ Len(v) = Len(toDevice) + 1 /\ DeviceSees(v[1])
  BY <1>1 DEF DownloadPath
<1>4. 1 \in 1..Len(v) /\ 2 \in 1..Len(v) /\ 1 \in 1..Len(toDevice)
  BY <1>2, <1>3
<1>5. DownloadStep(v[1], toDevice[1], v[1 + 1])
  BY <1>1, <1>4 DEF DownloadPath
<1>6. v[1] \in DownloadViews /\ v[2] \in DownloadViews /\ v[1 + 1] = v[2]
  BY <1>3, <1>4
<1> QED BY <1>1, <1>2, <1>3, <1>5, <1>6

LEMMA DeviceHearsSteps ==
  ASSUME TypeInv, ~misread, Dialogue, DeviceHears
  PROVE  InStep
<1>1. /\ Hear /\ toDevice # <<>> /\ UNCHANGED hostSide /\ UNCHANGED misread
      /\ UNCHANGED <<mirror, doubt>> /\ WiresOK
      /\ UNCHANGED h /\ UNCHANGED backup
  BY HostKept DEF DeviceHears, Hear, TypeInv
<1>2. Agree(mirror, doubt) => Agree(mirror, doubt)'
  BY <1>1, AgreeKept
<1>3. ASSUME NEW k \in Kinds \ {"data", "copy"}, toHost = <<>>, Tell(Msg(k)), toDevice' = <<>>
      PROVE  HostMail(Kinds)' /\ HostMail({k})'
  <2>1. Msg(k).kind = k
    BY MsgTyped
  <2>2. Len(toHost') = 1 /\ toHost'[1] = Msg(k)
    BY <1>3, ToldAlone
  <2> QED BY <1>3, <2>1, <2>2 DEF HostMail
<1>4. CASE Agree(mirror, doubt) /\ At("dl_ready", "versions") /\ DeviceMail("DLVersionsOk")
  <2>1. toDevice' = <<>> /\ toHost = <<>> /\ Head(toDevice).kind = "DLVersionsOk"
    BY <1>1, <1>4, MailHeard
  <2>2. PICK k \in {"DLMessageDeviceReady", "simple"} : Tell(Msg(k)) /\ dev' = "hello"
    BY <1>4, <2>1 DEF DeviceHears, At
  <2>3. HostMail(Kinds)'
    BY <1>3, <2>1, <2>2 DEF Kinds
  <2> QED BY <1>1, <1>2, <1>4, <2>2, <2>3 DEF InStep, Dialogue, Connecting, At
<1>5. CASE Agree(mirror, doubt) /\ At("hello", "hello") /\ DeviceMail("Hello")
  <2>1. toDevice' = <<>> /\ toHost = <<>> /\ Head(toDevice).kind = "Hello"
    BY <1>1, <1>5, MailHeard
  <2>2. PICK k \in {"Response", "ErrorCode"} : Tell(Msg(k)) /\ dev' = "idle"
    BY <1>5, <2>1 DEF DeviceHears, At
  <2>3. HostMail(Kinds)'
    BY <1>3, <2>1, <2>2 DEF Kinds
  <2> QED BY <1>1, <1>2, <1>5, <2>2, <2>3 DEF InStep, Dialogue, Connecting, At
<1>6. CASE Agree(mirror, doubt) /\ At("reply", "idle") /\ DeviceMail("request")
  <2>1. toDevice' = <<>> /\ toHost = <<>> /\ Head(toDevice).kind = "request"
    BY <1>1, <1>6, MailHeard
  <2>2. dev' = "loop" /\ UNCHANGED toHost
    BY <1>6, <2>1 DEF DeviceHears, At
  <2> QED BY <1>1, <1>2, <1>6, <2>1, <2>2 DEF InStep, Dialogue, Resting, At, Silent
<1>7. CASE Agree(mirror, doubt) /\ At("left", "idle") /\ DeviceMail("DLMessageDisconnect")
  <2>1. toDevice' = <<>> /\ toHost = <<>> /\ Head(toDevice).kind = "DLMessageDisconnect"
    BY <1>1, <1>7, MailHeard
  <2>2. dev' = "gone" /\ UNCHANGED toHost
    BY <1>7, <2>1 DEF DeviceHears, At
  <2> QED BY <1>1, <1>2, <1>7, <2>1, <2>2 DEF InStep, Dialogue, Resting, At, Silent
<1>8. CASE Agree(mirror, doubt) /\ At("loop", "idle") /\ DeviceMail("request")
  <2>1. toDevice' = <<>> /\ toHost = <<>> /\ Head(toDevice).kind = "request"
    BY <1>1, <1>8, MailHeard
  <2>2. dev' = "loop" /\ UNCHANGED toHost
    BY <1>8, <2>1 DEF DeviceHears, At
  <2> QED BY <1>1, <1>2, <1>8, <2>1, <2>2 DEF InStep, Dialogue, Looping, At, Silent
<1>9. CASE DownloadRuns
  <2>1. PICK v : \E u, w \in DownloadViews :
          /\ DownloadPath(v) /\ u = v[1] /\ w = v[2]
          /\ DeviceSees(u) /\ DownloadStep(u, Head(toDevice), w)
    BY <1>1, <1>9, DownloadFinds
  <2>2. Head(toDevice).kind \in {"name", "data", "success", "error", "zero", "status"}
    BY <2>1 DEF DownloadStep
  <2> QED BY <2>2 DEF DeviceHears
<1>10. CASE Answered
  <2>1. dev = "status" /\ DeviceMail("status")
    BY <1>10 DEF Answered, At
  <2>2. Head(toDevice).kind = "status"
    BY <1>1, <2>1, MailHeard
  <2> QED BY <2>1, <2>2 DEF DeviceHears
<1> QED BY <1>1, <1>4, <1>5, <1>6, <1>7, <1>8, <1>9, <1>10, Hears

LEMMA DeviceEndsLoopSteps ==
  ASSUME TypeInv, ~misread, Dialogue, DeviceEndsLoop
  PROVE  InStep
<1>1. /\ dev = "loop" /\ dev' = "idle" /\ UNCHANGED hostSide /\ UNCHANGED toDevice
      /\ UNCHANGED misread /\ UNCHANGED <<mirror, doubt>>
  BY DEF DeviceEndsLoop
<1>2. PICK k \in Endings : Tell(Msg(k))
  BY DEF DeviceEndsLoop, Endings
<1>3. Agree(mirror, doubt) /\ Silent /\ (At("loop", "loop") \/ At("reply", "loop"))
  BY <1>1, Speaks
<1>4. Msg(k).kind = k
  BY MsgTyped DEF Kinds, Endings
<1>5. HostMail(Endings)'
  <2>1. Len(toHost') = 1 /\ toHost'[1] = Msg(k)
    BY <1>2, <1>3, ToldAlone DEF Silent
  <2> QED BY <1>1, <1>3, <1>4, <2>1 DEF HostMail, Silent
<1>6. Agree(mirror, doubt)'
  BY <1>1, <1>3, HostKept, AgreeKept
<1>7. At("loop", "idle")' \/ At("reply", "idle")'
  BY <1>1, <1>3, HostKept DEF At
<1> QED BY <1>1, <1>5, <1>6, <1>7 DEF InStep, Dialogue, Looping, Resting

LEMMA DeviceAsksSteps ==
  ASSUME TypeInv, ~misread, Dialogue, DeviceAsks
  PROVE  InStep
<1>1. /\ dev = "loop" /\ UNCHANGED hostSide /\ UNCHANGED toDevice /\ UNCHANGED misread
      /\ UNCHANGED <<mirror, doubt>> /\ UNCHANGED h /\ UNCHANGED backup
  BY HostKept DEF DeviceAsks
<1>2. Agree(mirror, doubt) /\ Silent /\ (At("loop", "loop") \/ At("reply", "loop"))
  BY <1>1, Speaks
<1>3. PICK tag \in RequestTags, fs \in Seq(Paths), ps \in Seq(Pairs), tok \in Tokens :
           /\ ask' \in Requests /\ ask'.tag = tag /\ ask'.files = fs /\ ask'.pairs = ps
           /\ ask'.got = <<>> /\ ask'.bad = {}
           /\ tag = "copy" => ps # <<>>
           /\ tag = "remove" => ps = <<>>
           /\ tok.kind = tag /\ tok.args.files = fs /\ tok.args.pairs = ps /\ Tell(tok)
           /\ dev' = CASE tag = "upload" -> "dir"
                       [] tag = "download" -> "files"
                       [] OTHER -> "status"
  BY AsksIs
<1>4. Len(toHost') = 1 /\ toHost'[1] = tok /\ toDevice' = <<>>
  BY <1>1, <1>2, <1>3, ToldAlone DEF Silent
<1>4a. CASE h.pc = "reply"
  <2>1. toHost' # <<>> /\ toHost'[1].kind \in RequestTags
    <3>1. PICK y : y = toHost' /\ Len(y) = 1 /\ y[1] = tok
      BY <1>4
    <3>2. Len(<<>>) # 1
      OBVIOUS
    <3>3. y # <<>>
      BY <3>1, <3>2, Zenon
    <3> QED BY <1>3, <3>1, <3>3
  <2>2. dev' \in {"dir", "files", "status"} /\ h'.pc = "reply"
    BY <1>1, <1>3, <1>4a
  <2>3. Mismatched'
    BY <1>4, <2>1, <2>2 DEF Mismatched
  <2> QED BY <1>1, <2>3 DEF InStep, Dialogue
<1>5. SUFFICES ASSUME h.pc = "loop" PROVE InStep
  BY <1>2, <1>4a DEF At
<1>5a. Agree(mirror, doubt)' /\ h'.pc = "loop"
  BY <1>1, <1>2, <1>5, AgreeKept DEF At
<1>6. HostMail({tag})'
  BY <1>3, <1>4 DEF HostMail
<1>7. CASE tag \in {"simple", "move", "remove", "copy"}
  <2>1. dev' = "status"
    BY <1>3, <1>7
  <2>2. Requested'
    BY <1>3, <1>4, <1>5a, <1>6, <1>7, <2>1 DEF Requested, At
  <2> QED BY <1>1, <1>5a, <2>2 DEF InStep, Dialogue
<1>8. CASE tag = "download"
  <2>1. dev' = "files"
    BY <1>3, <1>8
  <2>2. Downloading'
    BY <1>3, <1>4, <1>5a, <1>6, <1>8, <2>1 DEF Downloading, At
  <2> QED BY <1>1, <1>5a, <2>2 DEF InStep, Dialogue
<1>9. CASE tag = "upload"
  <2>1. dev' = "dir"
    BY <1>3, <1>9
  <2>2. mirror \in Files /\ doubt \in SUBSET Paths /\ h.content = <<>>
    BY <1>5, AskFields DEF TypeInv, HostOK
  <2>3. PICK u, w : /\ u = [phase |-> "loop", file |-> NoPath, got |-> <<>>, mirror |-> mirror,
                            doubt |-> doubt]
                    /\ w = [phase |-> "dir", file |-> NoPath, got |-> <<>>, mirror |-> mirror,
                            doubt |-> doubt]
    OBVIOUS
  <2>4. u \in UploadViews /\ w \in UploadViews
    BY <2>2, <2>3, NoPathIs, NothingTyped DEF UploadViews
  <2>5. /\ u.phase = "loop" /\ u.mirror = mirror /\ u.doubt = doubt
        /\ w.phase = "dir" /\ w.mirror = mirror /\ w.doubt = doubt
    BY <2>3
  <2>6. PICK v : v = <<u, w>>
    OBVIOUS
  <2>7. v \in Seq(UploadViews) /\ Len(v) = 2 /\ v[1] = u /\ v[2] = w
    BY <2>4, <2>6
  <2>8. HostSees(u)'
    BY <1>1, <1>2, <1>5a, <2>2, <2>5 DEF HostSees, Agree
  <2>9. DeviceIs(w)'
    BY <1>1, <2>1, <2>5 DEF DeviceIs
  <2>10. UploadStep(u, tok, w)
    BY <1>3, <1>9, <2>5 DEF UploadStep, Same
  <2>11. \A i \in 1..Len(toHost') : UploadStep(v[i], toHost'[i], v[i + 1])
    BY <1>4, <2>7, <2>10
  <2>12. UploadPath(v)'
    BY <1>4, <2>7, <2>8, <2>9, <2>11 DEF UploadPath
  <2>13. Uploading'
    BY <1>3, <1>4, <1>9, <2>1, <2>12 DEF Uploading
  <2> QED BY <1>1, <2>13 DEF InStep, Dialogue
<1> QED BY <1>7, <1>8, <1>9 DEF RequestTags

LEMMA DeviceMisreadsSteps ==
  ASSUME TypeInv, ~misread, Dialogue, DeviceMisreads
  PROVE  InStep
<1>1. /\ Hear /\ toDevice # <<>> /\ WiresOK
      /\ dev \in {"loop", "dir", "name", "blocks", "idle"}
      /\ dev = "idle" =>
           Head(toDevice).kind \notin {"request", "DLMessageDisconnect"}
  BY DEF DeviceMisreads, Hear, TypeInv
<1>2. ~DownloadRuns /\ ~Answered
  BY <1>1, DownloadRunsIs DEF Answered, At
<1>3. ASSUME NEW k \in {"request", "DLMessageDisconnect"}, DeviceMail(k), dev = "idle"
      PROVE  FALSE
  BY <1>1, <1>3, MailHeard
<1> QED BY <1>1, <1>2, <1>3, Hears DEF At

-----------------------------------------------------------------------------
(* An upload, on the device's side: a view is added for every token.       *)

LEMMA UploadTells ==
  ASSUME TypeInv, ~misread, Uploading, UNCHANGED <<h, backup, toDevice, misread>>,
         ask'.tag = "upload", ask'.bad = {}, dev' # "loop",
         NEW v, UploadPath(v), NEW z, z = v[Len(v)], NEW t \in Tokens, Tell(t),
         NEW w \in UploadViews, UploadStep(z, t, w), DeviceIs(w)'
  PROVE  InStep
<1>1. PICK x \in Seq(Tokens) : x = toHost
  BY DEF TypeInv, WiresOK
<1>2. PICK n \in Nat : n = Len(x)
  OBVIOUS
<1>3. v \in Seq(UploadViews) /\ Len(v) = n + 1
  BY <1>1, <1>2 DEF UploadPath
<1>4. PICK a \in Seq(UploadViews) : a = Append(v, w)
  <2>1. Append(v, w) \in Seq(UploadViews)
    BY <1>3
  <2> QED BY <2>1
<1>5. Len(a) = n + 2 /\ (\A i \in 1..(n + 1) : a[i] = v[i]) /\ a[n + 2] = w
  BY <1>3, <1>4
<1>6. PICK y \in Seq(Tokens) : y = Append(x, t)
  <2>1. Append(x, t) \in Seq(Tokens)
    OBVIOUS
  <2> QED BY <2>1
<1>7. Len(y) = n + 1 /\ (\A i \in 1..n : y[i] = x[i]) /\ y[n + 1] = t
  BY <1>2, <1>6
<1>8. ASSUME NEW i \in 1..(n + 1) PROVE UploadStep(a[i], y[i], a[i + 1])
  <2>1. CASE i = n + 1
    <3>1. a[i] = z /\ y[i] = t /\ a[i + 1] = w
      <4>1. i \in 1..(n + 1) /\ i + 1 = n + 2
        BY <2>1
      <4> QED BY <1>3, <1>5, <1>7, <2>1, <4>1
    <3> QED BY <3>1
  <2>2. CASE i # n + 1
    <3>1. i \in 1..n /\ i \in 1..(n + 1) /\ i + 1 \in 1..(n + 1)
      BY <2>2
    <3>2. UploadStep(v[i], x[i], v[i + 1])
      BY <1>1, <1>2, <3>1 DEF UploadPath
    <3>3. a[i] = v[i] /\ a[i + 1] = v[i + 1] /\ y[i] = x[i]
      BY <1>5, <1>7, <3>1
    <3> QED BY <3>2, <3>3
  <2> QED BY <2>1, <2>2
<1>9. a[1] = v[1] /\ a[Len(a)] = w /\ Len(a) = Len(y) + 1
  BY <1>5, <1>7
<1>10. HostSees(v[1])' /\ toHost' = y
  BY <1>1, <1>6 DEF UploadPath, HostSees, Agree, Tell
<1>11. UploadPath(a)'
  BY <1>7, <1>8, <1>9, <1>10 DEF UploadPath
<1>12. Uploading'
  BY <1>11 DEF Uploading
<1> QED BY <1>12 DEF InStep, Dialogue

(* The device goes on with a stream that the host will not read.           *)
LEMMA MismatchedUploads ==
  ASSUME TypeInv, Mismatched, UNCHANGED <<h, backup, toDevice, misread>>,
         UploadsDir \/ UploadsName \/ UploadsBlock \/ UploadsTrailer
  PROVE  Mismatched'
<1>1. /\ dev' \in {"status", "name", "blocks", "dir"}
      /\ \E tok : Tell(tok)
  BY DEF UploadsDir, UploadsName, UploadsBlock, UploadsTrailer
<1>2. PICK tok : toHost' = Append(toHost, tok)
  BY <1>1 DEF Tell
<1>3. PICK x : x = toHost /\ x \in Seq(Tokens) /\ x # <<>>
  BY DEF TypeInv, WiresOK, Mismatched
<1>4. PICK y : y = Append(x, tok)
  OBVIOUS
<1>5. y # <<>> /\ y[1] = x[1]
  BY <1>3, <1>4
<1>6. toHost' = y /\ toHost = x
  BY <1>2, <1>3, <1>4
<1> QED BY <1>1, <1>5, <1>6 DEF Mismatched

LEMMA DeviceUploadsSteps ==
  ASSUME TypeInv, ~misread, Dialogue, DeviceUploads
  PROVE  InStep
<1>1. /\ UNCHANGED hostSide /\ UNCHANGED toDevice /\ UNCHANGED misread
      /\ UploadsDir \/ UploadsName \/ UploadsBlock \/ UploadsTrailer
  BY UploadsIs
<1>2. UNCHANGED <<h, backup, toDevice, misread>>
  BY <1>1, HostKept
<1>2a. CASE Mismatched
  <2>1. Mismatched'
    BY <1>2a, <1>1, <1>2, MismatchedUploads
  <2> QED BY <1>1, <2>1 DEF InStep, Dialogue
<1>2b. SUFFICES ASSUME Uploading PROVE InStep
  BY <1>2a, <1>1, Speaks DEF UploadsDir, UploadsName, UploadsBlock, UploadsTrailer
<1>3. Uploading /\ ask.tag = "upload" /\ ask.bad = {}
  BY <1>2b DEF Uploading
<1>4. PICK v : UploadPath(v)
  BY <1>3 DEF Uploading
<1>5. PICK z \in UploadViews : z = v[Len(v)] /\ DeviceIs(z)
  <2>1. v \in Seq(UploadViews) /\ Len(v) = Len(toHost) + 1 /\ Len(toHost) \in Nat
    BY <1>4 DEF UploadPath, TypeInv, WiresOK
  <2>2. Len(v) \in 1..Len(v)
    BY <2>1
  <2>3. v[Len(v)] \in UploadViews /\ DeviceIs(v[Len(v)])
    BY <1>4, <2>1, <2>2 DEF UploadPath
  <2> QED BY <2>3
<1>6. /\ z.phase = dev /\ z.mirror = mirror /\ z.doubt = doubt
      /\ dev = "blocks" => ask.files = <<z.file>> /\ ask.got = z.got
  BY <1>5 DEF DeviceIs
<1>7. /\ z.file \in Paths /\ z.got \in Seq(Values) /\ mirror \in Files
      /\ doubt \in SUBSET Paths /\ ask \in Requests
  BY AskFields DEF UploadViews, TypeInv
<1>8. CASE UploadsDir
  <2>1. PICK k \in {"zero", "dir"} : /\ Tell(Msg(k))
                                     /\ dev' = IF k = "zero" THEN "status" ELSE "name"
    BY <1>8 DEF UploadsDir
  <2>2. dev = "dir" /\ ask' = ask /\ mirror' = mirror /\ doubt' = doubt
    BY <1>8 DEF UploadsDir
  <2>3. PICK t \in Tokens : t = Msg(k) /\ t.kind = k
    BY MsgTyped DEF Kinds
  <2>4. PICK ph \in {"status", "name"} : ph = dev'
    BY <2>1
  <2>5. PICK w \in UploadViews : /\ w.phase = ph /\ w.file = z.file /\ w.got = z.got
                                 /\ w.mirror = mirror /\ w.doubt = doubt
    <3>1. PICK w : w = [phase |-> ph, file |-> z.file, got |-> z.got, mirror |-> mirror,
                       doubt |-> doubt]
      OBVIOUS
    <3>2. /\ w \in UploadViews /\ w.phase = ph /\ w.file = z.file /\ w.got = z.got
          /\ w.mirror = mirror /\ w.doubt = doubt
      BY <1>7, <3>1, NothingTyped DEF UploadViews
    <3> QED BY <3>2
  <2>6. UploadStep(z, t, w)
    BY <1>6, <2>1, <2>2, <2>3, <2>4, <2>5 DEF UploadStep, Same
  <2>7. DeviceIs(w)'
    BY <2>2, <2>4, <2>5 DEF DeviceIs
  <2>8. ask'.tag = "upload" /\ ask'.bad = {} /\ dev' # "loop" /\ Tell(t)
    BY <1>3, <2>1, <2>2, <2>3
  <2> QED BY <1>2, <1>3, <1>4, <1>5, <2>6, <2>7, <2>8, UploadTells
<1>9. CASE UploadsName
  <2>1. CASE Tell(Msg("zero")) /\ dev' = "status" /\ UNCHANGED ask
    <3>1. dev = "name" /\ mirror' = mirror /\ doubt' = doubt
      BY <1>9 DEF UploadsName
    <3>2. PICK t \in Tokens : t = Msg("zero") /\ t.kind = "zero"
      BY MsgTyped DEF Kinds
    <3>3. PICK w \in UploadViews : /\ w.phase = "status" /\ w.file = z.file /\ w.got = z.got
                                   /\ w.mirror = mirror /\ w.doubt = doubt
      <4>1. PICK w : w = [phase |-> "status", file |-> z.file, got |-> z.got, mirror |-> mirror,
                         doubt |-> doubt]
        OBVIOUS
      <4>2. /\ w \in UploadViews /\ w.phase = "status" /\ w.file = z.file /\ w.got = z.got
            /\ w.mirror = mirror /\ w.doubt = doubt
        BY <1>7, <4>1, NothingTyped DEF UploadViews
      <4> QED BY <4>2
    <3>4. UploadStep(z, t, w)
      BY <1>6, <3>1, <3>2, <3>3 DEF UploadStep, Same
    <3>5. DeviceIs(w)'
      BY <2>1, <3>1, <3>3 DEF DeviceIs
    <3>6. ask'.tag = "upload" /\ ask'.bad = {} /\ dev' # "loop" /\ Tell(t)
      BY <1>3, <2>1, <3>2
    <3> QED BY <1>2, <1>3, <1>4, <1>5, <3>4, <3>5, <3>6, UploadTells
  <2>2. ASSUME NEW p \in Paths, Tell(Token("name", p, 0)), dev' = "blocks",
               ask' = [ask EXCEPT !.files = <<p>>, !.got = <<>>]
        PROVE  InStep
    <3>1. dev = "name" /\ mirror' = mirror /\ doubt' = doubt
      BY <1>9 DEF UploadsName
    <3>2. PICK t \in Tokens : t = Token("name", p, 0) /\ t.kind = "name" /\ t.path = p
      BY PieceTyped
    <3>3. PICK w \in UploadViews : /\ w.phase = "blocks" /\ w.file = p /\ w.got = <<>>
                                   /\ w.mirror = mirror /\ w.doubt = doubt
      <4>1. PICK w : w = [phase |-> "blocks", file |-> p, got |-> <<>>, mirror |-> mirror,
                         doubt |-> doubt]
        OBVIOUS
      <4>2. /\ w \in UploadViews /\ w.phase = "blocks" /\ w.file = p /\ w.got = <<>>
            /\ w.mirror = mirror /\ w.doubt = doubt
        BY <1>7, <4>1, NothingTyped DEF UploadViews
      <4> QED BY <4>2
    <3>4. UploadStep(z, t, w)
      BY <1>6, <3>1, <3>2, <3>3 DEF UploadStep, Same
    <3>5. /\ ask'.files = <<p>> /\ ask'.got = <<>> /\ ask'.tag = ask.tag
          /\ ask'.bad = ask.bad
      BY <1>7, <2>2 DEF Requests
    <3>6. DeviceIs(w)'
      BY <2>2, <3>1, <3>3, <3>5 DEF DeviceIs
    <3>7. ask'.tag = "upload" /\ ask'.bad = {} /\ dev' # "loop" /\ Tell(t)
      BY <1>3, <2>2, <3>2, <3>5
    <3> QED BY <1>2, <1>3, <1>4, <1>5, <3>4, <3>6, <3>7, UploadTells
  <2> QED BY <1>9, <2>1, <2>2 DEF UploadsName
<1>10. CASE UploadsBlock
  <2>1. PICK c \in Values : /\ Tell(Token("data", NoPath, c))
                            /\ ask' = [ask EXCEPT !.got = Append(ask.got, c)]
    BY <1>10 DEF UploadsBlock
  <2>2. dev = "blocks" /\ dev' = "blocks" /\ mirror' = mirror /\ doubt' = doubt
    BY <1>10 DEF UploadsBlock
  <2>3. PICK t \in Tokens : t = Token("data", NoPath, c) /\ t.kind = "data" /\ t.val = c
    BY PieceTyped
  <2>4. PICK g \in Seq(Values) : g = Append(z.got, c)
    <3>1. Append(z.got, c) \in Seq(Values)
      BY <1>7
    <3> QED BY <3>1
  <2>5. PICK w \in UploadViews : /\ w.phase = "blocks" /\ w.file = z.file /\ w.got = g
                                 /\ w.mirror = mirror /\ w.doubt = doubt
    <3>1. PICK w : w = [phase |-> "blocks", file |-> z.file, got |-> g, mirror |-> mirror,
                       doubt |-> doubt]
      OBVIOUS
    <3>2. /\ w \in UploadViews /\ w.phase = "blocks" /\ w.file = z.file /\ w.got = g
          /\ w.mirror = mirror /\ w.doubt = doubt
      BY <1>7, <3>1, NothingTyped DEF UploadViews
    <3> QED BY <3>2
  <2>6. UploadStep(z, t, w)
    BY <1>6, <2>2, <2>3, <2>4, <2>5 DEF UploadStep, Same
  <2>7. /\ ask'.files = ask.files /\ ask'.got = g /\ ask'.tag = ask.tag
        /\ ask'.bad = ask.bad
    <3>1. ask' = [ask EXCEPT !.got = g]
      BY <1>6, <2>1, <2>2, <2>4
    <3> QED BY <1>7, <3>1 DEF Requests
  <2>8. DeviceIs(w)'
    BY <1>6, <2>2, <2>5, <2>7 DEF DeviceIs
  <2>9. ask'.tag = "upload" /\ ask'.bad = {} /\ dev' # "loop" /\ Tell(t)
    BY <1>3, <2>1, <2>2, <2>3, <2>7
  <2> QED BY <1>2, <1>3, <1>4, <1>5, <2>6, <2>8, <2>9, UploadTells
<1>11. CASE UploadsTrailer
  <2>1. dev = "blocks" /\ dev' = "dir" /\ ask' = ask
    BY <1>11 DEF UploadsTrailer
  <2>2. ask.got = z.got /\ Head(ask.files) = z.file
    BY <1>6, <2>1
  <2>3. PICK m \in Files : m = mirror' /\ mirror' \in Files
    <3>1. [mirror EXCEPT ![z.file] = {z.got}] \in Files
      BY <1>7, MirrorSet
    <3>2. mirror' \in Files
      BY <1>7, <1>11, <2>2, <3>1 DEF UploadsTrailer
    <3> QED BY <3>2
  <2>4. PICK d \in SUBSET Paths : d = doubt'
    <3>1. doubt' \in SUBSET Paths
      BY <1>7, <1>11, <2>2 DEF UploadsTrailer
    <3> QED BY <3>1
  <2>5. PICK w \in UploadViews : /\ w.phase = "dir" /\ w.file = z.file /\ w.got = z.got
                                 /\ w.mirror = m /\ w.doubt = d
    <3>1. PICK w : w = [phase |-> "dir", file |-> z.file, got |-> z.got, mirror |-> m,
                       doubt |-> d]
      OBVIOUS
    <3>2. /\ w \in UploadViews /\ w.phase = "dir" /\ w.file = z.file /\ w.got = z.got
          /\ w.mirror = m /\ w.doubt = d
      BY <1>7, <3>1, NothingTyped DEF UploadViews
    <3> QED BY <3>2
  <2>6. DeviceIs(w)'
    BY <2>1, <2>3, <2>4, <2>5 DEF DeviceIs
  <2>7. ask'.tag = "upload" /\ ask'.bad = {} /\ dev' # "loop"
    BY <1>3, <2>1
  <2>8. ASSUME NEW k \in {"success", "error", "zero"}, Tell(Msg(k)),
               \A t \in Tokens : t.kind = k => UploadStep(z, t, w)
        PROVE  InStep
    <3>1. PICK t \in Tokens : t = Msg(k) /\ t.kind = k
      BY MsgTyped DEF Kinds
    <3>2. UploadStep(z, t, w) /\ Tell(t)
      BY <2>8, <3>1
    <3> QED BY <1>2, <1>3, <1>4, <1>5, <2>6, <2>7, <3>2, UploadTells
  <2>9. CASE /\ Tell(Msg("success")) /\ mirror' = [mirror EXCEPT ![z.file] = {z.got}]
             /\ doubt' = doubt \ {z.file}
    <3>1. \A t \in Tokens : t.kind = "success" => UploadStep(z, t, w)
      BY <1>6, <2>1, <2>3, <2>4, <2>5, <2>9 DEF UploadStep, Received
    <3> QED BY <2>8, <2>9, <3>1
  <2>10. CASE Tell(Msg("error")) /\ doubt' = doubt \cup {z.file} /\ UNCHANGED mirror
    <3>1. \A t \in Tokens : t.kind = "error" => UploadStep(z, t, w)
      BY <1>6, <2>1, <2>3, <2>4, <2>5, <2>10 DEF UploadStep
    <3> QED BY <2>8, <2>10, <3>1
  <2>11. CASE Tell(Msg("zero")) /\ z.got = <<>> /\ UNCHANGED <<mirror, doubt>>
    <3>1. \A t \in Tokens : t.kind = "zero" => UploadStep(z, t, w)
      BY <1>6, <2>1, <2>3, <2>4, <2>5, <2>11 DEF UploadStep, Same
    <3> QED BY <2>8, <2>11, <3>1
  <2>12. CASE /\ Tell(Msg("zero")) /\ z.got # <<>>
              /\ mirror' = [mirror EXCEPT ![z.file] = {z.got}] /\ doubt' = doubt \ {z.file}
    <3>1. \A t \in Tokens : t.kind = "zero" => UploadStep(z, t, w)
      BY <1>6, <2>1, <2>3, <2>4, <2>5, <2>12 DEF UploadStep, Received
    <3> QED BY <2>8, <2>12, <3>1
  <2> QED BY <1>11, <2>2, <2>9, <2>10, <2>11, <2>12 DEF UploadsTrailer
<1> QED BY <1>1, <1>8, <1>9, <1>10, <1>11

-----------------------------------------------------------------------------
(* A download, on the device's side: the device moves to the next view.    *)

LEMMA DownloadHeard ==
  ASSUME TypeInv, ~misread, DownloadRuns, Agree(mirror, doubt), Hear,
         UNCHANGED <<h, backup, mirror, doubt>>, UNCHANGED toHost, UNCHANGED misread,
         ask'.tag = "download", dev' # "loop",
         NEW v, DownloadPath(v), NEW w, w = v[2], DeviceSees(w)'
  PROVE  InStep
<1>1. PICK n \in Nat : /\ n = Len(toDevice) - 1 /\ Len(toDevice) = n + 1
                       /\ toDevice \in Seq(Tokens) /\ toDevice' = Tail(toDevice)
  <2>1. toDevice \in Seq(Tokens) /\ Len(toDevice) \in Nat /\ Len(toDevice) > 0
    BY TakeTyped DEF TypeInv, WiresOK
  <2>2. Len(toDevice) - 1 \in Nat
    BY <2>1
  <2> QED BY <2>1, <2>2 DEF Hear
<1>2. v \in Seq(DownloadViews) /\ Len(v) = n + 2
  BY <1>1 DEF DownloadPath
<1>3. v # <<>> /\ toDevice # <<>>
  BY <1>1, <1>2
<1>4. /\ Tail(v) \in Seq(DownloadViews) /\ Len(Tail(v)) = n + 1
      /\ \A i \in 1..(n + 1) : Tail(v)[i] = v[i + 1]
  BY <1>2, <1>3
<1>5. Len(Tail(toDevice)) = n /\ \A i \in 1..n : Tail(toDevice)[i] = toDevice[i + 1]
  BY <1>1, <1>3
<1>6. PICK t : t = Tail(v)
  OBVIOUS
<1>7. /\ t \in Seq(DownloadViews) /\ Len(t) = Len(toDevice') + 1
      /\ t[1] = w /\ t[Len(t)] = v[Len(v)]
  <2>1. 1 \in 1..(n + 1) /\ n + 1 \in 1..(n + 1) /\ (n + 1) + 1 = n + 2 /\ 1 + 1 = 2
    OBVIOUS
  <2> QED BY <1>1, <1>2, <1>4, <1>5, <1>6, <2>1
<1>8. PICK x : x = Tail(toDevice) /\ x = toDevice'
  BY <1>1
<1>9. ASSUME NEW i \in 1..n PROVE DownloadStep(t[i], x[i], t[i + 1])'
  <2>1. PICK j \in 1..(n + 1) : j = i + 1
    OBVIOUS
  <2>2. PICK a, b, c : a = v[j] /\ b = toDevice[j] /\ c = v[j + 1]
    OBVIOUS
  <2>3. DownloadStep(a, b, c)
    BY <1>1, <2>2 DEF DownloadPath
  <2>4. DownloadStep(a, b, c)'
    BY <2>3 DEF DownloadStep
  <2>5. t[i] = a /\ t[i + 1] = c /\ x[i] = b
    <3>1. i \in 1..(n + 1) /\ i + 1 \in 1..(n + 1)
      OBVIOUS
    <3> QED BY <1>4, <1>5, <1>6, <1>8, <2>1, <2>2, <3>1
  <2> QED BY <2>4, <2>5
<1>10. DownloadLine(t, x)'
  BY <1>5, <1>7, <1>8, <1>9 DEF DownloadLine
<1>11. HostIs(v[Len(v)])'
  BY DEF DownloadPath, HostIs
<1>12. DownloadPath(t)'
  BY <1>7, <1>8, <1>10, <1>11 DEF DownloadPath, DownloadLine
<1>13. DownloadRuns'
  BY <1>12 DEF DownloadRuns
<1>14. Agree(mirror, doubt)'
  BY AgreeKept
<1> QED BY <1>13, <1>14 DEF InStep, Dialogue, Downloading, DownloadRuns

LEMMA DeviceDownloadsSteps ==
  ASSUME TypeInv, ~misread, Dialogue, DeviceDownloads
  PROVE  InStep
<1>1. PICK tok : tok = Head(toDevice)
  OBVIOUS
<1>2. /\ Hear /\ UNCHANGED hostSide /\ UNCHANGED toHost /\ UNCHANGED <<mirror, doubt>>
      /\ dev \in {"files", "content"} /\ toDevice # <<>>
  BY DEF DeviceDownloads, Hear
<1>3. UNCHANGED <<h, backup, mirror, doubt>> /\ UNCHANGED toHost
  BY <1>2, HostKept
<1>4. Agree(mirror, doubt) /\ DownloadRuns /\ ask.tag = "download"
  BY <1>2, Hears DEF At, Answered, DownloadRuns
<1>5. PICK v : \E u, w \in DownloadViews :
        /\ DownloadPath(v) /\ u = v[1] /\ w = v[2]
        /\ DeviceSees(u) /\ DownloadStep(u, Head(toDevice), w)
  BY <1>2, <1>4, DownloadFinds
<1>6. PICK u \in DownloadViews, w \in DownloadViews :
        /\ DownloadPath(v) /\ u = v[1] /\ w = v[2]
        /\ DeviceSees(u) /\ DownloadStep(u, tok, w)
  BY <1>1, <1>5
<1>7. /\ u.phase = dev /\ u.bad = ask.bad /\ u.files = ask.files
      /\ dev = "content" => u.got = ask.got
  BY <1>2, <1>6 DEF DeviceSees
<1>8. /\ ask \in Requests /\ ask.files \in Seq(Paths) /\ ask.got \in Seq(Values)
      /\ ask.bad \in SUBSET Paths /\ (dev = "content" => ask.files # <<>>)
  BY AskFields DEF TypeInv, DeviceOK
<1>9. tok \in Tokens
  BY <1>1, <1>2, TakeTyped DEF TypeInv
<1>10. ASSUME UNCHANGED misread, ask'.tag = ask.tag, dev' \in {"files", "content", "status"},
              DeviceSees(w)'
       PROVE  InStep
  BY <1>2, <1>3, <1>4, <1>6, <1>10, DownloadHeard
<1>11. CASE /\ dev = "files" /\ tok.kind = "name" /\ ask.files # <<>>
            /\ tok.path = Head(ask.files)
            /\ dev' = "content" /\ ask' = [ask EXCEPT !.got = <<>>] /\ UNCHANGED misread
  <2>1. /\ ask'.got = <<>> /\ ask'.files = ask.files /\ ask'.bad = ask.bad
        /\ ask'.tag = ask.tag
    BY <1>8, <1>11 DEF Requests
  <2>2. w.phase = "content" /\ w.files = u.files /\ w.got = <<>> /\ w.bad = u.bad
    BY <1>6, <1>7, <1>11 DEF DownloadStep
  <2>3. DeviceSees(w)'
    BY <1>7, <1>11, <2>1, <2>2 DEF DeviceSees
  <2> QED BY <1>10, <1>11, <2>1, <2>3
<1>12. CASE /\ dev = "files" /\ tok.kind = "zero" /\ ask.files = <<>>
            /\ dev' = "status" /\ UNCHANGED <<ask, misread>>
  <2>1. w.phase = "status" /\ w.bad = u.bad
    BY <1>6, <1>7, <1>12 DEF DownloadStep
  <2>2. DeviceSees(w)'
    BY <1>7, <1>12, <2>1 DEF DeviceSees
  <2> QED BY <1>10, <1>12, <2>2
<1>13. CASE /\ dev = "content" /\ tok.kind = "data"
            /\ ask' = [ask EXCEPT !.got = Append(ask.got, tok.val)]
            /\ UNCHANGED <<dev, misread>>
  <2>1. PICK g \in Seq(Values) : g = Append(ask.got, tok.val)
    <3>1. tok.val \in Values
      BY <1>9, <1>13, TokenFields
    <3>2. Append(ask.got, tok.val) \in Seq(Values)
      BY <1>8, <3>1
    <3> QED BY <3>2
  <2>2. /\ ask'.got = g /\ ask'.files = ask.files /\ ask'.bad = ask.bad
        /\ ask'.tag = ask.tag
    <3>1. ask' = [ask EXCEPT !.got = g]
      BY <1>13, <2>1
    <3> QED BY <1>8, <3>1 DEF Requests
  <2>3. /\ w.phase = "content" /\ w.files = u.files /\ w.got = Append(u.got, tok.val)
        /\ w.bad = u.bad
    BY <1>6, <1>7, <1>13 DEF DownloadStep
  <2>4. DeviceSees(w)'
    BY <1>7, <1>13, <2>1, <2>2, <2>3 DEF DeviceSees
  <2> QED BY <1>10, <1>13, <2>2, <2>4
<1>14. CASE /\ dev = "content" /\ tok.kind = "success" /\ store[Head(ask.files)] = {ask.got}
            /\ dev' = "files" /\ ask' = [ask EXCEPT !.files = Tail(ask.files)]
            /\ UNCHANGED misread
  <2>1. ask'.files = Tail(ask.files) /\ ask'.bad = ask.bad /\ ask'.tag = ask.tag
    BY <1>8, <1>14 DEF Requests
  <2>2. w.phase = "files" /\ w.files = Tail(u.files) /\ w.bad = u.bad
    BY <1>6, <1>7, <1>14 DEF DownloadStep
  <2>3. DeviceSees(w)'
    BY <1>7, <1>14, <2>1, <2>2 DEF DeviceSees
  <2> QED BY <1>10, <1>14, <2>1, <2>3
<1>15. CASE /\ dev = "content" /\ tok.kind = "error" /\ dev' = "files"
            /\ ask' = [ask EXCEPT !.files = Tail(ask.files),
                                  !.bad = ask.bad \cup {Head(ask.files)}]
            /\ UNCHANGED misread
  <2>1. /\ ask'.files = Tail(ask.files) /\ ask'.bad = ask.bad \cup {Head(ask.files)}
        /\ ask'.tag = ask.tag
    BY <1>8, <1>15 DEF Requests
  <2>2. /\ w.phase = "files" /\ w.files = Tail(u.files)
        /\ w.bad = u.bad \cup {Head(u.files)}
    BY <1>6, <1>7, <1>15 DEF DownloadStep
  <2>3. DeviceSees(w)'
    BY <1>7, <1>15, <2>1, <2>2 DEF DeviceSees
  <2> QED BY <1>10, <1>15, <2>1, <2>3
<1>16. ~ /\ ~(/\ dev = "files" /\ tok.kind = "name" /\ ask.files # <<>>
              /\ tok.path = Head(ask.files))
         /\ ~(dev = "files" /\ tok.kind = "zero" /\ ask.files = <<>>)
         /\ ~(dev = "content" /\ tok.kind = "data")
         /\ ~(dev = "content" /\ tok.kind = "success" /\ store[Head(ask.files)] = {ask.got})
         /\ ~(dev = "content" /\ tok.kind = "error")
  BY <1>2, <1>6, <1>7 DEF DownloadStep
<1> QED BY <1>1, <1>11, <1>12, <1>13, <1>14, <1>15, <1>16, DownloadsIs

LEMMA DeviceTakesStatusSteps ==
  ASSUME TypeInv, ~misread, Dialogue, DeviceTakesStatus
  PROVE  InStep
<1>1. /\ dev = "status" /\ Hear /\ dev' = "loop" /\ toDevice # <<>>
      /\ UNCHANGED hostSide /\ UNCHANGED toHost /\ WiresOK
      /\ UNCHANGED h /\ UNCHANGED backup
  BY HostKept DEF DeviceTakesStatus, Hear, TypeInv
<1>2. PICK tok : tok = Head(toDevice)
  OBVIOUS
<1>3. /\ misread' = (misread \/ tok.kind # "status" \/ tok.bad # ask.bad
                       \/ ((tok.kind = "status" /\ tok.val = 0) # (ask.bad = {})
                           /\ ask.tag = "download"))
      /\ mirror' = IF tok.kind = "status" /\ tok.val = 0 THEN Applied ELSE mirror
      /\ doubt' = Doubtful(tok.kind = "status" /\ tok.val = 0)
  BY <1>2 DEF DeviceTakesStatus
<1>4. ASSUME toDevice' = <<>>, toHost = <<>>, h.pc = "loop",
             Agree(mirror, doubt)', ~misread'
      PROVE  InStep
  <2>1. Looping'
    BY <1>1, <1>4 DEF Looping, At, Silent
  <2> QED BY <1>4, <2>1 DEF InStep, Dialogue
<1>5. CASE Answered
  <2>1. /\ h.pc = "loop" /\ ask.bad = {} /\ ask.tag # "download" /\ DeviceMail("status")
        /\ toDevice[1].bad = {}
    BY <1>5 DEF Answered, At
  <2>2. toDevice' = <<>> /\ toHost = <<>> /\ tok.kind = "status" /\ tok = toDevice[1]
    BY <1>1, <1>2, <2>1, MailHeard
  <2>3. ~misread'
    BY <1>3, <2>1, <2>2
  <2>4. Agree(IF tok.val = 0 THEN Applied ELSE mirror, Doubtful(tok.val = 0))
    BY <1>5, <2>2 DEF Answered
  <2>5. (tok.kind = "status" /\ tok.val = 0) = (tok.val = 0)
    BY <2>2
  <2>6. mirror' = (IF tok.val = 0 THEN Applied ELSE mirror) /\ doubt' = Doubtful(tok.val = 0)
    BY <1>3, <2>5
  <2>7. Agree(mirror, doubt)'
    BY <1>1, <2>4, <2>6 DEF Agree
  <2> QED BY <1>4, <2>1, <2>2, <2>3, <2>7
<1>6. CASE Agree(mirror, doubt) /\ DownloadRuns
  <2>1. PICK v : \E u, w \in DownloadViews :
          /\ DownloadPath(v) /\ u = v[1] /\ w = v[2]
          /\ DeviceSees(u) /\ DownloadStep(u, Head(toDevice), w)
    BY <1>1, <1>6, DownloadFinds
  <2>2. PICK u \in DownloadViews, w \in DownloadViews :
          /\ DownloadPath(v) /\ u = v[1] /\ w = v[2]
          /\ DeviceSees(u) /\ DownloadStep(u, tok, w)
    BY <1>2, <2>1
  <2>3. u.phase = "status" /\ u.bad = ask.bad
    BY <1>1, <2>2 DEF DeviceSees
  <2>4. /\ tok.kind = "status" /\ tok.bad = ask.bad /\ (tok.val = 0 <=> ask.bad = {})
        /\ w.phase = "loop"
    BY <2>2, <2>3 DEF DownloadStep
  <2>5. ask.tag = "download" /\ toHost = <<>>
    BY <1>6 DEF DownloadRuns
  <2>6. ~misread'
    BY <1>3, <2>4
  <2>7. Applied = mirror /\ \A ok : Doubtful(ok) = doubt
    BY <2>5 DEF Applied, Doubtful
  <2>8. mirror' = mirror /\ doubt' = doubt
    BY <1>3, <2>7
  <2>9. Agree(mirror, doubt)'
    BY <1>1, <1>6, <2>8 DEF Agree
  <2>10. Len(toDevice) = 1
    <3>0. SUFFICES ASSUME Len(toDevice) # 1 PROVE FALSE
      OBVIOUS
    <3>1. PICK n \in Nat : n = Len(toDevice) /\ n > 0 /\ n # 1
      BY <1>1, <3>0, TakeTyped DEF WiresOK
    <3>2. 2 \in 1..n
      BY <3>1
    <3>3. DownloadStep(v[2], toDevice[2], v[2 + 1])
      BY <2>2, <3>1, <3>2 DEF DownloadPath
    <3> QED BY <2>2, <2>4, <3>3 DEF DownloadStep
  <2>11. toDevice' = <<>>
    BY <1>1, <2>10, TailOfOne DEF WiresOK, Hear
  <2>12. h.pc = "loop"
    <3>1. Len(v) = 2 /\ HostIs(v[Len(v)])
      BY <2>2, <2>10 DEF DownloadPath
    <3>2. HostIs(w)
      BY <2>2, <3>1
    <3> QED BY <2>4, <3>2 DEF HostIs
  <2> QED BY <1>4, <2>5, <2>6, <2>9, <2>11, <2>12
<1> QED BY <1>1, <1>5, <1>6, Hears DEF At

-----------------------------------------------------------------------------
(* All steps together.                                                     *)

LEMMA BreakSteps ==
  ASSUME ~misread, SocketError \/ DropOperation
  PROVE  InStep
  BY DEF SocketError, DropOperation, Fail, InStep

LEMMA NextSteps ==
  ASSUME TypeInv, ~misread, Dialogue, Next
  PROVE  InStep
<1>1. CASE HostNext
  <2>1. CASE DlVersionExchange \/ DlDeviceReady \/ VersionExchange
    BY <2>1, ConnectSteps
  <2>2. ASSUME \/ BackupFromPath \/ RestoreFromPath \/ UnbackFromPath
               \/ InfoFromPath \/ ListFromPath \/ ExtractFromPath
               \/ ChangePasswordFromPath \/ EraseDeviceFromPath
        PROVE  InStep
    BY <2>2, Operations, OperationSteps
  <2>3. CASE StartCall \/ ReceiveReply \/ Disconnect
    BY <2>3, OperationSteps, ReceiveReplySteps
  <2>4. CASE \/ AnswerOnly \/ MoveFiles \/ RemoveFiles \/ CopyItem \/ CopyDirectory
             \/ LoopReturns \/ LoopMisreads
    BY <2>4, AnswerOnlySteps, MoveFilesSteps, RemoveFilesSteps, CopyItemSteps, LoopEndsSteps
  <2>5. CASE UploadFiles \/ UploadDirName \/ UploadFileName \/ UploadBlock \/ UploadFails
    BY <2>5, UploadFilesSteps, UploadStringSteps, UploadBlockSteps, UploadFailsSteps
  <2>6. CASE DownloadFiles \/ SendName \/ SendBlock \/ SendTrailer \/ DownloadEnds
    BY <2>6, DownloadFilesSteps, SendNameSteps, SendBlockSteps, SendTrailerSteps,
       DownloadEndsSteps
  <2>7. CASE SocketError \/ DropOperation
    BY <2>7, BreakSteps
  <2> QED BY <1>1, <2>1, <2>2, <2>3, <2>4, <2>5, <2>6, <2>7 DEF HostNext
<1>2. CASE DeviceNext
  BY <1>2, DeviceGreetsSteps, DeviceHearsSteps, DeviceAsksSteps, DeviceEndsLoopSteps,
     DeviceUploadsSteps, DeviceDownloadsSteps, DeviceTakesStatusSteps, DeviceMisreadsSteps
     DEF DeviceNext
<1> QED BY <1>1, <1>2 DEF Next

(* An operation that has failed is not forgotten.                          *)
LEMMA BrokenStays ==
  ASSUME broken = TRUE, [Next]_vars
  PROVE  broken' = TRUE
<1>1. CASE HostNext
  <2>1. CASE \/ DlVersionExchange \/ DlDeviceReady \/ VersionExchange
             \/ SocketError \/ DropOperation
    BY <2>1 DEF DlVersionExchange, DlDeviceReady, VersionExchange, SocketError, DropOperation,
       Fail
  <2>2. ASSUME \/ BackupFromPath \/ RestoreFromPath \/ UnbackFromPath
               \/ InfoFromPath \/ ListFromPath \/ ExtractFromPath
               \/ ChangePasswordFromPath \/ EraseDeviceFromPath
        PROVE  broken' = TRUE
    <3>1. Operation
      BY <2>2, Operations
    <3> QED BY <3>1 DEF Operation, EnterLoop, Refuse
  <2>3. CASE StartCall \/ ReceiveReply \/ Disconnect
    BY <2>3 DEF StartCall, ReceiveReply, Disconnect, Fail
  <2>4. CASE \/ AnswerOnly \/ MoveFiles \/ RemoveFiles \/ CopyItem \/ CopyDirectory
             \/ LoopReturns \/ LoopMisreads
    BY <2>4 DEF AnswerOnly, MoveFiles, RemoveFiles, CopyItem, CopyDirectory, LoopReturns,
       LoopMisreads, Fail
  <2>5. CASE UploadFiles \/ UploadDirName \/ UploadFileName
    BY <2>5 DEF UploadFiles, UploadDirName, UploadFileName, UploadString, UploadEnds, Fail
  <2>6. CASE UploadBlock \/ UploadFails
    BY <2>6 DEF UploadBlock, UploadFails, FileEnds, Fail
  <2>7. CASE DownloadFiles \/ SendName \/ SendBlock \/ SendTrailer \/ DownloadEnds
    BY <2>7 DEF DownloadFiles, SendName, SendBlock, SendTrailer, DownloadEnds
  <2> QED BY <1>1, <2>1, <2>2, <2>3, <2>4, <2>5, <2>6, <2>7 DEF HostNext
<1>2. CASE DeviceNext
  <2>1. UNCHANGED hostSide
    BY <1>2 DEF DeviceNext, DeviceGreets, DeviceHears, DeviceAsks, DeviceEndsLoop,
       DeviceUploads, DeviceDownloads, DeviceTakesStatus, DeviceMisreads
  <2> QED BY <2>1, HostKept
<1>3. CASE UNCHANGED vars
  BY <1>3 DEF vars
<1> QED BY <1>1, <1>2, <1>3 DEF Next

LEMMA StutterSteps ==
  ASSUME ~misread, Dialogue, UNCHANGED vars
  PROVE  InStep
<1>1. /\ h' = h /\ UNCHANGED backup /\ toHost' = toHost /\ toDevice' = toDevice /\ dev' = dev
      /\ ask' = ask /\ mirror' = mirror /\ doubt' = doubt /\ misread' = misread
  BY DEF vars
<1>2. Agree(mirror, doubt) => Agree(mirror, doubt)'
  BY <1>1 DEF Agree
<1>3. Connecting => Connecting'
  BY <1>1 DEF Connecting, At, Silent, HostMail, DeviceMail
<1>4. Resting \/ Looping => Resting' \/ Looping'
  BY <1>1 DEF Resting, Looping, At, Silent, HostMail, DeviceMail
<1>5. Requested => Requested'
  BY <1>1 DEF Requested, At, HostMail
<1>6. Answered => Answered'
  BY <1>1 DEF Answered, At, DeviceMail, Agree, Applied, Doubtful, Touched
<1>7. ASSUME Uploading PROVE Uploading'
  <2>1. PICK v : UploadPath(v)
    BY <1>7 DEF Uploading
  <2>2. HostSees(v[1])' /\ DeviceIs(v[Len(v)])'
    BY <1>1, <2>1 DEF UploadPath, HostSees, DeviceIs, Agree
  <2>3. UploadPath(v)'
    BY <1>1, <2>1, <2>2 DEF UploadPath
  <2> QED BY <1>1, <1>7, <2>3 DEF Uploading
<1>8. ASSUME Downloading PROVE Downloading'
  <2>1. ASSUME NEW v, DownloadPath(v) PROVE DownloadPath(v)'
    <3>1. HostIs(v[Len(v)])' /\ DeviceSees(v[1])'
      BY <1>1, <2>1 DEF DownloadPath, HostIs, DeviceSees
    <3>2. (\A i \in 1..Len(toDevice) : DownloadStep(v[i], toDevice[i], v[i + 1]))'
      BY <1>1, <2>1 DEF DownloadPath, DownloadStep
    <3> QED BY <1>1, <2>1, <3>1, <3>2 DEF DownloadPath
  <2> QED BY <1>1, <1>8, <2>1 DEF Downloading, At, HostMail
<1>9. Mismatched => Mismatched'
  BY <1>1 DEF Mismatched
<1>10. Dialogue'
  BY <1>2, <1>3, <1>4, <1>5, <1>6, <1>7, <1>8, <1>9 DEF Dialogue
<1> QED BY <1>1, <1>10 DEF InStep

(* As long as no operation has failed, the two ends are at places of the   *)
(* dialogue that belong together.                                          *)
THEOREM DialogueInvariant == Spec => []StepInv
<1>1. Init => StepInv
  <2> SUFFICES ASSUME Init PROVE ~misread /\ Dialogue
    BY DEF StepInv
  <2>1. h = Fresh("dl_version", "none")
    BY IdleForms DEF Init
  <2>2. h.pc = "dl_version"
    BY <2>1 DEF Fresh
  <2>3. Connecting
    BY <2>2 DEF Init, Connecting, At, Silent
  <2>4. Agree(mirror, doubt)
    BY DEF Init, Agree
  <2> QED BY <2>3, <2>4 DEF Init, Dialogue
<1>2. TypeInv /\ StepInv /\ [Next]_vars => StepInv'
  <2> SUFFICES ASSUME TypeInv, StepInv, [Next]_vars PROVE StepInv'
    OBVIOUS
  <2>1. CASE broken = TRUE
    BY <2>1, BrokenStays DEF StepInv
  <2>2. CASE broken = FALSE
    <3>1. ~misread /\ Dialogue
      BY <2>2 DEF StepInv
    <3> QED BY <3>1, NextSteps, StutterSteps DEF InStep, StepInv
  <2> QED BY <2>1, <2>2 DEF TypeInv
<1> QED BY <1>1, <1>2, ClientInvariant, PTL DEF Spec

(* Host and device stay in step: as long as no operation has failed or was *)
(* dropped on the connection, no step of either takes a piece of a stream  *)
(* for a message or for another piece, and a file reaches the device as it *)
(* is on disk; but for a call that takes a request for its answer.         *)
THEOREM StaysTogether == Spec => StaysInStep
<1>1. TypeInv /\ StepInv /\ [Next]_vars => [misread' => misread \/ broken \/ h.pc = "reply"]_vars
  <2> SUFFICES ASSUME TypeInv, StepInv, Next, misread', ~broken, h.pc # "reply"
               PROVE  FALSE
    OBVIOUS
  <2>1. ~misread /\ Dialogue
    BY DEF StepInv
  <2> QED BY <2>1, NextSteps DEF InStep
<1> QED BY <1>1, ClientInvariant, DialogueInvariant, PTL DEF Spec, StaysInStep

(* Between two requests the backup directory holds what the device         *)
(* believes, for every file whose last change was neither reported as      *)
(* failed nor passed over.                                                 *)
THEOREM DirectoryIsBelieved == Spec => []BackupIsWhatDeviceBelieves
<1>1. StepInv => BackupIsWhatDeviceBelieves
  <2> SUFFICES ASSUME StepInv, dev = "loop", ~broken
               PROVE  \A p \in Paths \ (doubt \cup passed) : store[p] = mirror[p]
    BY DEF BackupIsWhatDeviceBelieves
  <2>1. Agree(mirror, doubt)
    BY Speaks DEF StepInv
  <2> QED BY <2>1 DEF Agree
<1> QED BY <1>1, DialogueInvariant, PTL
============================================================================
