--------------------------- MODULE AfcResolvePath ---------------------------
(***************************************************************************)
(* AfcClient::resolve_path of afc/mod.rs: one step is one turn of its      *)
(* loop, with the get_file_info round trip of that turn. Paths are         *)
(* sequences of names, so "/" is <<>>; the file system belongs to the      *)
(* device and does not change meanwhile.                                   *)
(***************************************************************************)
EXTENDS Naturals, Sequences

CONSTANTS
    Names,          \* file names other than "." and ".."
    Up,             \* the component ".."
    Depth,          \* length of the longest path of the device
    Targets,        \* link targets: [absolute : BOOLEAN, path : Seq(Names \cup {Up})]
    Requests,       \* paths asked for, sequences over Names \cup {Up}
    MaxSymlinks,    \* MAX_SYMLINKS
    MaxSteps        \* steps after which the reference gives a path up as endless

ASSUME NamesAssumption == Up \notin Names
ASSUME BoundsAssumption == MaxSymlinks \in Nat /\ Depth \in Nat /\ MaxSteps \in Nat
ASSUME InputsAssumption ==
    /\ Requests \subseteq Seq(Names \cup {Up})
    /\ Targets \subseteq [absolute : BOOLEAN, path : Seq(Names \cup {Up})]

VARIABLES
    fs,             \* the device: path -> what is there
    pending,        \* components still to look at
    resolved,       \* components known not to be links
    visited_links,  \* links followed
    followed_links, \* how many
    request,        \* the path asked for
    result          \* "running", "ok", or the error returned

vars == <<fs, pending, resolved, visited_links, followed_links, request, result>>

Paths == UNION {[1..n -> Names] : n \in 1..Depth}
None  == [kind |-> "none"]
File  == [kind |-> "file"]
Dir   == [kind |-> "dir"]
Link(t) == [kind |-> "link", target |-> t]
BadLink == [kind |-> "badlink"]     \* a link reported without its target
Entries == {None, File, Dir, BadLink} \cup {Link(t) : t \in Targets}

Parent(p) == SubSeq(p, 1, Len(p) - 1)

\* What get_file_info reports: nothing exists below a path that is no directory.
Stat(f, p) == IF p \in DOMAIN f THEN f[p] ELSE None
FileSystems ==
    {f \in [Paths -> Entries] :
        \A p \in Paths : Len(p) > 1 /\ f[Parent(p)] # Dir => f[p] = None}

(***************************************************************************)
(* normalize_afc_path_components: a fold over the components that skips    *)
(* "" and "." (which have no counterpart here) and pops on "..", on an     *)
(* empty sequence to no effect.                                            *)
(***************************************************************************)
Push(cs, c) == IF c # Up THEN Append(cs, c)
               ELSE IF cs = <<>> THEN <<>> ELSE Parent(cs)

Normalize(base, path) ==
    LET after[n \in 0..Len(path)] ==
            IF n = 0 THEN base ELSE Push(after[n - 1], path[n])
    IN  after[Len(path)]

Expand(t) == Normalize(IF t.absolute THEN <<>> ELSE resolved, t.path)

-----------------------------------------------------------------------------
Init ==
    /\ fs \in FileSystems
    /\ request \in Requests
    /\ pending = Normalize(<<>>, request)
    /\ resolved = <<>> /\ visited_links = {} /\ followed_links = 0
    /\ result = "running"

Candidate == Append(resolved, Head(pending))
Turn == result = "running" /\ pending # <<>>
Return(r) == result' = r /\ UNCHANGED <<fs, pending, resolved, visited_links,
                                        followed_links, request>>

\* get_file_info fails.
NotFound == Turn /\ Stat(fs, Candidate) = None /\ Return("notfound")

\* Variant: a link in last place is not followed.
DescendLast ==
    /\ Turn /\ Stat(fs, Candidate) # None
    /\ Stat(fs, Candidate) \in {File, Dir} \/ Tail(pending) = <<>>
    /\ resolved' = Candidate
    /\ pending' = Tail(pending)
    /\ UNCHANGED <<fs, visited_links, followed_links, request, result>>

\* The component is no link.
Descend ==
    /\ Turn /\ Stat(fs, Candidate) \in {File, Dir}
    /\ resolved' = Candidate
    /\ pending' = Tail(pending)
    /\ UNCHANGED <<fs, visited_links, followed_links, request, result>>

IsLink == Turn /\ Stat(fs, Candidate).kind \in {"link", "badlink"}

TooMany == IsLink /\ followed_links >= MaxSymlinks /\ Return("toomany")

\* visited_links.insert finds the link there already.
Cycle ==
    /\ IsLink /\ followed_links < MaxSymlinks
    /\ Candidate \in visited_links
    /\ Return("cycle")

NoTarget ==
    /\ IsLink /\ followed_links < MaxSymlinks /\ Candidate \notin visited_links
    /\ Stat(fs, Candidate) = BadLink
    /\ Return("notarget")

\* Variant: what is resolved is kept in front of an expanded link.
FollowLinkKeepsPrefix ==
    /\ IsLink /\ followed_links < MaxSymlinks /\ Candidate \notin visited_links
    /\ Stat(fs, Candidate) # BadLink
    /\ followed_links' = followed_links + 1
    /\ visited_links' = visited_links \cup {Candidate}
    /\ pending' = Expand(Stat(fs, Candidate).target) \o Tail(pending)
    /\ UNCHANGED <<fs, resolved, request, result>>

\* Variant: nothing remembers the links that were followed.
FollowLinkForgets ==
    /\ IsLink /\ Stat(fs, Candidate) # BadLink
    /\ followed_links' = 0
    /\ pending' = Expand(Stat(fs, Candidate).target) \o Tail(pending)
    /\ resolved' = <<>>
    /\ UNCHANGED <<fs, visited_links, request, result>>

\* The target, made absolute, replaces the link; resolution starts again at "/".
FollowLink ==
    /\ IsLink /\ followed_links < MaxSymlinks /\ Candidate \notin visited_links
    /\ Stat(fs, Candidate) # BadLink
    /\ followed_links' = followed_links + 1
    /\ visited_links' = visited_links \cup {Candidate}
    /\ pending' = Expand(Stat(fs, Candidate).target) \o Tail(pending)
    /\ resolved' = <<>>
    /\ UNCHANGED <<fs, request, result>>

Finish == result = "running" /\ pending = <<>> /\ Return("ok")

Next == NotFound \/ Descend \/ TooMany \/ Cycle \/ NoTarget \/ FollowLink \/ Finish

Spec == Init /\ [][Next]_vars

\* The caller awaits resolve_path to the end, and the device answers.
FairSpec == Spec /\ WF_vars(Next)

-----------------------------------------------------------------------------
(***************************************************************************)
(* Reference: the walk of a path as a file system does it, from directory  *)
(* to directory, a link being replaced by its target on the way. The state *)
(* of the walk after n steps; a walk still going after MaxSteps is endless.*)
(***************************************************************************)
WalkStep(w) ==
    IF w.rest = <<>> THEN [w EXCEPT !.end = "ok"]
    ELSE LET c == Head(w.rest) p == Append(w.at, c) e == Stat(fs, p)
         IN  IF c = Up
             THEN [w EXCEPT !.at = IF @ = <<>> THEN @ ELSE Parent(@), !.rest = Tail(@)]
             ELSE IF e.kind \in {"file", "dir"} THEN [w EXCEPT !.at = p, !.rest = Tail(@)]
             ELSE IF e.kind = "link"
             THEN [w EXCEPT !.at = IF e.target.absolute THEN <<>> ELSE @,
                            !.rest = e.target.path \o Tail(@)]
             ELSE [w EXCEPT !.end = "error"]

Walk ==
    LET after[n \in 0..MaxSteps] ==
            IF n = 0 THEN [at |-> <<>>, rest |-> Normalize(<<>>, request), end |-> "no"]
            ELSE LET w == after[n - 1] IN IF w.end # "no" THEN w ELSE WalkStep(w)
    IN  after[MaxSteps]

Prefixes(p) == {SubSeq(p, 1, n) : n \in 1..Len(p)}

\* Type invariant of the loop's variables.
TypeOK ==
    /\ fs \in [Paths -> Entries]
    /\ pending \in Seq(Names) /\ resolved \in Paths \cup {<<>>}
    /\ visited_links \subseteq Paths /\ followed_links \in 0..MaxSymlinks
    /\ request \in Requests
    /\ result \in {"running", "ok", "notfound", "toomany", "cycle", "notarget"}

(***************************************************************************)
(* resolve_path: everything in resolved, and so every component of the     *)
(* path returned, exists on the device and is no link, though the loop     *)
(* throws resolved away at each link and starts again at the root.         *)
(***************************************************************************)
ResolvedIsReal == \A p \in Prefixes(resolved) : Stat(fs, p) \in {File, Dir}

(***************************************************************************)
(* resolve_path: a path that is returned is the one the walk through the   *)
(* links ends at, and a walk that ends nowhere is never returned.          *)
(***************************************************************************)
OkIsRight == result = "ok" => Walk.end = "ok" /\ Walk.at = resolved

(***************************************************************************)
(* resolve_path returns, however the links refer to each other.            *)
(***************************************************************************)
ResolveReturns == <>(result # "running")
=============================================================================
