------------------------ MODULE AfcResolvePathProofs ------------------------
(***************************************************************************)
(* What holds of resolve_path for every file system of the device, every   *)
(* request and every bound on the links it follows.                        *)
(*                                                                         *)
(* normalize_afc_path_components is a fold, written as a recursive         *)
(* function.  What it computes is proved by induction, in the form of a    *)
(* least counterexample (LeastNumber): the library's induction rules take  *)
(* a predicate as a parameter, which the provers cannot instantiate, while *)
(* a set of counterexamples is an ordinary value.                          *)
(***************************************************************************)
EXTENDS AfcResolvePath, WellFoundedInduction, SequenceTheorems, TLAPS

\* A set of numbers that is not empty has a least element.
LEMMA LeastNumber ==
    ASSUME NEW T, T \subseteq Nat, T # {}
    PROVE  \E n \in T : \A m \in T : ~(m < n)
<1> DEFINE R == {p \in Nat \X Nat : p[1] < p[2]}
<1>1. IsWellFoundedOn(R, Nat)
  <2>1. IsWellFoundedOn(OpToRel(<, Nat), Nat)
    BY NatLessThanWellFounded
  <2>2. OpToRel(<, Nat) = R
    BY DEF OpToRel
  <2> QED BY <2>1, <2>2
<1>2. \E n \in T : \A m \in T : ~ (<<m, n>> \in R)
  BY <1>1, WFMin
<1> QED BY <1>2

-----------------------------------------------------------------------------
(* normalize_afc_path_components. *)

Components == Names \cup {Up}

\* One component is a name, or takes a name away.
LEMMA PushType ==
    ASSUME NEW cs \in Seq(Names), NEW c \in Components
    PROVE  Push(cs, c) \in Seq(Names)
<1>1. CASE c # Up
  <2>1. c \in Names
    BY <1>1 DEF Components
  <2>2. Append(cs, c) \in Seq(Names)
    BY <2>1, AppendProperties
  <2> QED BY <2>2, <1>1 DEF Push
<1>2. CASE c = Up /\ cs = <<>>
  BY <1>2, EmptySeq DEF Push
<1>3. CASE c = Up /\ cs # <<>>
  <2>1. Len(cs) \in Nat \ {0} /\ \A i \in 1 .. Len(cs) : cs[i] \in Names
    BY <1>3, EmptySeq
  <2>2. 1 \in Int /\ Len(cs) - 1 \in Int /\ \A i \in 1 .. Len(cs) - 1 : cs[i] \in Names
    BY <2>1
  <2>3. SubSeq(cs, 1, Len(cs) - 1) \in Seq(Names)
    BY <2>2, SubSeqProperties
  <2> QED BY <2>3, <1>3 DEF Push, Parent
<1> QED BY <1>1, <1>2, <1>3

\* f holds the components after each step of the fold, up to step k.
IsFold(f, base, path, k) ==
    f = [n \in 0 .. k |-> IF n = 0 THEN base ELSE Push(f[n - 1], path[n])]

LEMMA FoldExists ==
    ASSUME NEW base, NEW path \in Seq(Components), NEW k \in 0 .. Len(path)
    PROVE  \E f : IsFold(f, base, path, k)
<1> DEFINE T == {i \in 0 .. Len(path) : ~ \E f : IsFold(f, base, path, i)}
<1>1. SUFFICES ASSUME T # {} PROVE FALSE
  OBVIOUS
<1>2. Len(path) \in Nat /\ T \subseteq Nat
  OBVIOUS
<1>3. PICK i \in T : \A m \in T : ~(m < i)
  BY <1>1, <1>2, LeastNumber
<1>4. CASE i = 0
  <2>1. IsFold([n \in 0 .. 0 |-> base], base, path, 0)
    BY DEF IsFold
  <2> QED BY <2>1, <1>3, <1>4
<1>5. CASE i # 0
  <2>1. i - 1 \in 0 .. Len(path) /\ i - 1 < i /\ i \in Nat \ {0}
    BY <1>2, <1>3, <1>5
  <2>2. PICK g : IsFold(g, base, path, i - 1)
    BY <2>1, <1>3
  <2> DEFINE f == [n \in 0 .. i |-> IF n = i THEN Push(g[i - 1], path[i]) ELSE g[n]]
  <2>3. \A n \in 0 .. i - 1 : f[n] = g[n]
    BY <2>1
  <2>4. \A n \in 0 .. i - 1 : g[n] = IF n = 0 THEN base ELSE Push(g[n - 1], path[n])
    BY <2>1, <2>2 DEF IsFold
  <2>5. \A n \in 0 .. i : f[n] = IF n = 0 THEN base ELSE Push(f[n - 1], path[n])
    <3> TAKE n \in 0 .. i
    <3>1. CASE n = i
      BY <3>1, <2>1, <2>3
    <3>2. CASE n # i
      <4>1. n \in 0 .. i - 1 /\ (n # 0 => n - 1 \in 0 .. i - 1)
        BY <3>2, <2>1
      <4> QED BY <4>1, <2>3, <2>4
    <3> QED BY <3>1, <3>2
  <2>6. f = [n \in 0 .. i |-> f[n]]
    OBVIOUS
  <2> HIDE DEF f
  <2>7. IsFold(f, base, path, i)
    BY <2>5, <2>6 DEF IsFold
  <2> QED BY <2>7, <1>3
<1> QED BY <1>4, <1>5

LEMMA FoldType ==
    ASSUME NEW base \in Seq(Names), NEW path \in Seq(Components), NEW k \in 0 .. Len(path),
           NEW f, IsFold(f, base, path, k)
    PROVE  \A n \in 0 .. k : f[n] \in Seq(Names)
<1> DEFINE T == {n \in 0 .. k : f[n] \notin Seq(Names)}
<1>1. SUFFICES ASSUME T # {} PROVE FALSE
  OBVIOUS
<1>2. Len(path) \in Nat /\ k \in Nat /\ k <= Len(path) /\ T \subseteq Nat
  OBVIOUS
<1>3. PICK n \in T : \A m \in T : ~(m < n)
  BY <1>1, <1>2, LeastNumber
<1>4. n \in 0 .. k /\ f[n] \notin Seq(Names)
  BY <1>3
<1>5. f[n] = IF n = 0 THEN base ELSE Push(f[n - 1], path[n])
  BY <1>4 DEF IsFold
<1>6. CASE n # 0
  <2>1. n - 1 \in 0 .. k /\ n - 1 < n /\ n \in 1 .. Len(path)
    BY <1>2, <1>4, <1>6
  <2>2. f[n - 1] \in Seq(Names) /\ path[n] \in Components
    BY <2>1, <1>3
  <2> QED BY <2>2, <1>4, <1>5, <1>6, PushType
<1> QED BY <1>4, <1>5, <1>6

\* Normalizing is that fold, over the whole path.
LEMMA NormalizeFold ==
    ASSUME NEW base, NEW path \in Seq(Components)
    PROVE  \E f : IsFold(f, base, path, Len(path)) /\ Normalize(base, path) = f[Len(path)]
<1> DEFINE after[n \in 0 .. Len(path)] ==
               IF n = 0 THEN base ELSE Push(after[n - 1], path[n])
<1>1. Normalize(base, path) = after[Len(path)]
  BY DEF Normalize
<1>2. Len(path) \in 0 .. Len(path)
  OBVIOUS
<1>3. \E f : IsFold(f, base, path, Len(path))
  BY <1>2, FoldExists
<1>4. after = CHOOSE f : IsFold(f, base, path, Len(path))
  BY DEF IsFold
<1>5. IsFold(after, base, path, Len(path))
  <2> HIDE DEF after
  <2> QED BY <1>3, <1>4
<1> HIDE DEF after
<1> QED BY <1>1, <1>5

\* The components of a normalized path are names: ".." is gone.
LEMMA NormalizeType ==
    ASSUME NEW base \in Seq(Names), NEW path \in Seq(Components)
    PROVE  Normalize(base, path) \in Seq(Names)
<1>1. PICK f : IsFold(f, base, path, Len(path)) /\ Normalize(base, path) = f[Len(path)]
  BY NormalizeFold
<1>2. Len(path) \in 0 .. Len(path)
  OBVIOUS
<1> QED BY <1>1, <1>2, FoldType

-----------------------------------------------------------------------------
(* The loop. *)

LEMMA PathsAreSequences ==
    ASSUME NEW p \in Paths \cup {<<>>}
    PROVE  p \in Seq(Names)
<1>1. CASE p = <<>>
  BY <1>1, EmptySeq
<1>2. CASE p \in Paths
  <2>1. PICK n \in 1 .. Depth : p \in [1 .. n -> Names]
    BY <1>2 DEF Paths
  <2>2. n \in Nat
    BY <2>1, BoundsAssumption
  <2> QED BY <2>1, <2>2
<1> QED BY <1>1, <1>2

\* What is there has a path the device knows, and is an entry.
LEMMA StatIs ==
    ASSUME TypeOK, NEW p
    PROVE  /\ Stat(fs, p) # None => p \in Paths /\ Stat(fs, p) \in Entries
           /\ Stat(fs, p).kind \in {"link", "badlink"} /\ Stat(fs, p) # BadLink
                => /\ p \in Paths
                   /\ Stat(fs, p).target \in Targets
<1>1. Stat(fs, p) # None => p \in Paths /\ Stat(fs, p) \in Entries
  BY DEF Stat, TypeOK
<1>2. ASSUME Stat(fs, p).kind \in {"link", "badlink"}, Stat(fs, p) # BadLink
      PROVE  p \in Paths /\ Stat(fs, p).target \in Targets
  <2>1. Stat(fs, p) # None
    BY <1>2 DEF None
  <2>2. Stat(fs, p) # File /\ Stat(fs, p) # Dir
    BY <1>2 DEF File, Dir
  <2>3. PICK t \in Targets : Stat(fs, p) = Link(t)
    BY <2>1, <2>2, <1>1, <1>2 DEF Entries
  <2> QED BY <2>1, <2>3, <1>1 DEF Link
<1> QED BY <1>1, <1>2

\* What takes the place of a link.
LEMMA ExpandType ==
    ASSUME TypeOK, NEW t \in Targets
    PROVE  Expand(t) \in Seq(Names)
<1>1. t.path \in Seq(Components)
  BY InputsAssumption DEF Components
<1>2. <<>> \in Seq(Names) /\ resolved \in Seq(Names)
  BY EmptySeq, PathsAreSequences DEF TypeOK
<1> QED BY <1>1, <1>2, NormalizeType DEF Expand

ResolveInv == TypeOK /\ ResolvedIsReal

LEMMA PrefixesOfNothing == Prefixes(<<>>) = {}
  BY DEF Prefixes

\* One component more is one prefix more.
LEMMA PrefixesGrow ==
    ASSUME NEW S, NEW s \in Seq(S), NEW c \in S
    PROVE  Prefixes(Append(s, c)) \subseteq Prefixes(s) \cup {Append(s, c)}
<1> DEFINE u == Append(s, c)
<1>1. /\ u \in Seq(S) /\ Len(u) = Len(s) + 1 /\ Len(s) \in Nat
      /\ \A i \in 1 .. Len(s) : u[i] = s[i]
  BY AppendProperties
<1> HIDE DEF u
<1>2. SUFFICES ASSUME NEW n \in 1 .. Len(u)
               PROVE  SubSeq(u, 1, n) \in Prefixes(s) \cup {u}
  BY DEF Prefixes, u
<1>3. CASE n = Len(u)
  BY <1>1, <1>3, SubSeqFull
<1>4. CASE n # Len(u)
  <2>1. n \in 1 .. Len(s) /\ n \in Int /\ 1 \in Int
    BY <1>1, <1>4
  <2>2. (\A i \in 1 .. n : u[i] \in S) /\ (\A i \in 1 .. n : s[i] \in S)
    BY <2>1, <1>1
  <2>3. /\ SubSeq(u, 1, n) \in Seq(S) /\ Len(SubSeq(u, 1, n)) = IF 1 <= n THEN n - 1 + 1 ELSE 0
        /\ \A i \in 1 .. n - 1 + 1 : SubSeq(u, 1, n)[i] = u[1 + i - 1]
    BY <2>1, <2>2, SubSeqProperties
  <2>4. /\ SubSeq(s, 1, n) \in Seq(S) /\ Len(SubSeq(s, 1, n)) = IF 1 <= n THEN n - 1 + 1 ELSE 0
        /\ \A i \in 1 .. n - 1 + 1 : SubSeq(s, 1, n)[i] = s[1 + i - 1]
    BY <2>1, <2>2, SubSeqProperties
  <2>5. Len(SubSeq(u, 1, n)) = n /\ Len(SubSeq(s, 1, n)) = n
    BY <2>1, <2>3, <2>4
  <2>6. \A i \in 1 .. n : SubSeq(u, 1, n)[i] = SubSeq(s, 1, n)[i]
    <3> TAKE i \in 1 .. n
    <3>1. i \in 1 .. n - 1 + 1 /\ 1 + i - 1 = i /\ i \in 1 .. Len(s)
      BY <2>1, <1>1
    <3> QED BY <3>1, <2>3, <2>4, <1>1
  <2>7. SubSeq(u, 1, n) = SubSeq(s, 1, n)
    BY <2>3, <2>4, <2>5, <2>6, SeqEqual
  <2>8. SubSeq(s, 1, n) \in Prefixes(s)
    BY <2>1 DEF Prefixes
  <2> QED BY <2>7, <2>8
<1> QED BY <1>3, <1>4

LEMMA ResolveInvInit == Init => ResolveInv
<1> SUFFICES ASSUME Init PROVE ResolveInv
  OBVIOUS
<1>1. request \in Seq(Components) /\ <<>> \in Seq(Names)
  BY InputsAssumption, EmptySeq DEF Init, Components
<1>2. pending \in Seq(Names)
  BY <1>1, NormalizeType DEF Init
<1>3. fs \in [Paths -> Entries] /\ 0 \in 0 .. MaxSymlinks
  BY BoundsAssumption DEF Init, FileSystems
<1>4. TypeOK
  BY <1>2, <1>3 DEF Init, TypeOK
<1>5. ResolvedIsReal
  BY PrefixesOfNothing DEF Init, ResolvedIsReal
<1> QED BY <1>4, <1>5 DEF ResolveInv

LEMMA ResolveInvStep == ResolveInv /\ [Next]_vars => ResolveInv'
<1> SUFFICES ASSUME ResolveInv, [Next]_vars PROVE ResolveInv'
  OBVIOUS
<1>1. /\ TypeOK /\ ResolvedIsReal /\ resolved \in Seq(Names)
  BY PathsAreSequences DEF ResolveInv, TypeOK
<1>2. ASSUME NEW r \in {"ok", "notfound", "toomany", "cycle", "notarget"}, Return(r)
      PROVE  ResolveInv'
  BY <1>1, <1>2 DEF Return, ResolveInv, TypeOK, ResolvedIsReal, Stat
<1>3. CASE NotFound \/ TooMany \/ Cycle \/ NoTarget \/ Finish
  BY <1>2, <1>3 DEF NotFound, TooMany, Cycle, NoTarget, Finish
<1>4. CASE Descend
  <2>1. /\ pending # <<>> /\ Stat(fs, Candidate) \in {File, Dir}
        /\ resolved' = Candidate /\ pending' = Tail(pending)
        /\ UNCHANGED <<fs, visited_links, followed_links, request, result>>
    BY <1>4 DEF Descend, Turn
  <2>2. Head(pending) \in Names /\ Tail(pending) \in Seq(Names)
    BY <2>1, <1>1, HeadTailProperties DEF TypeOK
  <2>3. Candidate \in Paths
    <3>1. Stat(fs, Candidate) # None
      BY <2>1 DEF None, File, Dir
    <3> QED BY <3>1, <1>1, StatIs
  <2>4. TypeOK'
    BY <2>1, <2>2, <2>3, <1>1 DEF TypeOK
  <2>5. Prefixes(Candidate) \subseteq Prefixes(resolved) \cup {Candidate}
    BY <2>2, <1>1, PrefixesGrow DEF Candidate
  <2>6. ResolvedIsReal'
    <3> SUFFICES ASSUME NEW p \in Prefixes(resolved')
                 PROVE  Stat(fs', p) \in {File, Dir}
      BY DEF ResolvedIsReal
    <3>1. p \in Prefixes(resolved) \cup {Candidate}
      BY <2>1, <2>5
    <3>2. Stat(fs, p) \in {File, Dir}
      BY <3>1, <2>1, <1>1 DEF ResolvedIsReal
    <3> QED BY <3>2, <2>1
  <2> QED BY <2>4, <2>6 DEF ResolveInv
<1>5. CASE FollowLink
  <2> DEFINE t == Stat(fs, Candidate).target
  <2>1. /\ pending # <<>> /\ followed_links < MaxSymlinks
        /\ Stat(fs, Candidate).kind \in {"link", "badlink"} /\ Stat(fs, Candidate) # BadLink
        /\ followed_links' = followed_links + 1
        /\ visited_links' = visited_links \cup {Candidate}
        /\ pending' = Expand(t) \o Tail(pending) /\ resolved' = <<>>
        /\ UNCHANGED <<fs, request, result>>
    BY <1>5 DEF FollowLink, IsLink, Turn
  <2>2. Candidate \in Paths /\ t \in Targets
    BY <2>1, <1>1, StatIs
  <2> HIDE DEF t
  <2>3. Expand(t) \in Seq(Names) /\ Tail(pending) \in Seq(Names)
    BY <2>1, <2>2, <1>1, ExpandType, HeadTailProperties DEF TypeOK
  <2>4. Expand(t) \o Tail(pending) \in Seq(Names)
    BY <2>3, ConcatProperties
  <2>5. followed_links' \in 0 .. MaxSymlinks
    BY <2>1, <1>1, BoundsAssumption DEF TypeOK
  <2>6. TypeOK'
    BY <2>1, <2>2, <2>4, <2>5, <1>1 DEF TypeOK
  <2>7. ResolvedIsReal'
    BY <2>1, PrefixesOfNothing DEF ResolvedIsReal
  <2> QED BY <2>6, <2>7 DEF ResolveInv
<1>6. CASE UNCHANGED vars
  BY <1>1, <1>6 DEF vars, ResolveInv, TypeOK, ResolvedIsReal, Stat
<1> QED BY <1>3, <1>4, <1>5, <1>6 DEF Next

(***************************************************************************)
(* The variables of resolve_path keep their types: what is pending holds   *)
(* no ".." however the targets of the links are written, and no more than  *)
(* MAX_SYMLINKS links are followed.                                        *)
(***************************************************************************)
THEOREM ResolveTypes == Spec => []TypeOK
<1>1. ResolveInv => TypeOK
  BY DEF ResolveInv
<1> QED BY <1>1, ResolveInvInit, ResolveInvStep, PTL DEF Spec

(***************************************************************************)
(* Every component of what resolve_path has resolved, and so of the path   *)
(* it returns, exists on the device and is no link, in every file system   *)
(* and for every request.                                                  *)
(***************************************************************************)
THEOREM ResolvedPathsAreReal == Spec => []ResolvedIsReal
<1>1. ResolveInv => ResolvedIsReal
  BY DEF ResolveInv
<1> QED BY <1>1, ResolveInvInit, ResolveInvStep, PTL DEF Spec

-----------------------------------------------------------------------------
(* Links whose ".." come first, as in ../../a/b. *)

LeadingUps(path) ==
    \A i, j \in 1 .. Len(path) : i < j /\ path[j] = Up => path[i] = Up

\* The directory i levels above s, "/" if there is none.
Above(s, i) == SubSeq(s, 1, IF i <= Len(s) THEN Len(s) - i ELSE 0)

\* What follows the first i components.
Rest(s, i) == SubSeq(s, i + 1, Len(s))

LEMMA AboveIs ==
    ASSUME NEW S, NEW s \in Seq(S), NEW i \in Nat
    PROVE  /\ Above(s, i) \in Seq(S)
           /\ Len(Above(s, i)) = IF i <= Len(s) THEN Len(s) - i ELSE 0
           /\ \A j \in 1 .. Len(Above(s, i)) : Above(s, i)[j] = s[j]
<1> DEFINE n == IF i <= Len(s) THEN Len(s) - i ELSE 0
<1>1. Len(s) \in Nat /\ n \in Nat /\ n <= Len(s)
  OBVIOUS
<1> HIDE DEF n
<1>2. /\ SubSeq(s, 1, n) \in Seq(S) /\ Len(SubSeq(s, 1, n)) = n
      /\ \A j \in 1 .. n : SubSeq(s, 1, n)[j] = s[j]
  BY <1>1
<1> QED BY <1>2 DEF Above, n

LEMMA AboveNext ==
    ASSUME NEW S, NEW s \in Seq(S), NEW i \in Nat
    PROVE  /\ Above(s, 0) = s
           /\ Above(s, i + 1) = IF Above(s, i) = <<>> THEN <<>> ELSE Parent(Above(s, i))
<1> DEFINE a == Above(s, i)  b == Above(s, i + 1)  z == Above(s, 0)
<1>1. /\ z \in Seq(S) /\ Len(z) = IF 0 <= Len(s) THEN Len(s) - 0 ELSE 0
      /\ \A j \in 1 .. Len(z) : z[j] = s[j]
  BY AboveIs
<1>2. /\ a \in Seq(S) /\ Len(a) = IF i <= Len(s) THEN Len(s) - i ELSE 0
      /\ \A j \in 1 .. Len(a) : a[j] = s[j]
  BY AboveIs
<1>3. /\ b \in Seq(S) /\ Len(b) = IF i + 1 <= Len(s) THEN Len(s) - (i + 1) ELSE 0
      /\ \A j \in 1 .. Len(b) : b[j] = s[j]
  <2>1. i + 1 \in Nat
    OBVIOUS
  <2> QED BY <2>1, AboveIs
<1> HIDE DEF a, b, z
<1>4. z = s
  <2>1. Len(z) = Len(s)
    BY <1>1
  <2> QED BY <1>1, <2>1, SeqEqual
<1>5. CASE a = <<>>
  <2>1. Len(a) = 0 /\ Len(b) = 0
    BY <1>2, <1>3, <1>5
  <2>2. b = <<>>
    BY <1>3, <2>1, EmptySeq
  <2> QED BY <1>4, <1>5, <2>2 DEF a, b, z
<1>6. CASE a # <<>>
  <2>1. Len(a) \in Nat \ {0}
    BY <1>2, <1>6, EmptySeq
  <2>2. Len(b) = Len(a) - 1
    BY <1>2, <1>3, <2>1
  <2>3. /\ Parent(a) \in Seq(S) /\ Len(Parent(a)) = Len(a) - 1
        /\ \A j \in 1 .. Len(a) - 1 : Parent(a)[j] = a[j]
    BY <1>2, <2>1 DEF Parent
  <2>4. \A j \in 1 .. Len(b) : b[j] = Parent(a)[j]
    BY <1>2, <1>3, <2>1, <2>2, <2>3
  <2>5. b = Parent(a)
    BY <1>3, <2>2, <2>3, <2>4, SeqEqual
  <2> QED BY <1>4, <1>6, <2>5 DEF a, b, z
<1> QED BY <1>5, <1>6

LEMMA RestIs ==
    ASSUME NEW S, NEW s \in Seq(S), NEW i \in 0 .. Len(s)
    PROVE  /\ Rest(s, i) \in Seq(S) /\ Len(Rest(s, i)) = Len(s) - i
           /\ \A j \in 1 .. Len(s) - i : Rest(s, i)[j] = s[i + j]
  BY DEF Rest

\* A sequence that starts with what follows i components: the next of them.
LEMMA RestNext ==
    ASSUME NEW S, NEW s \in Seq(S), NEW t \in Seq(S), NEW i \in 0 .. Len(s) - 1
    PROVE  /\ Rest(s, i) \o t \in Seq(S) /\ Rest(s, i) \o t # <<>>
           /\ Head(Rest(s, i) \o t) = s[i + 1]
           /\ Tail(Rest(s, i) \o t) = Rest(s, i + 1) \o t
<1> DEFINE a == Rest(s, i)  b == Rest(s, i + 1)  u == a \o t  v == b \o t
<1>1. Len(s) \in Nat /\ Len(t) \in Nat /\ i \in 0 .. Len(s) /\ i + 1 \in 0 .. Len(s) /\ i \in Nat
      /\ i < Len(s)
  OBVIOUS
<1>2. /\ a \in Seq(S) /\ Len(a) = Len(s) - i
      /\ \A j \in 1 .. Len(s) - i : a[j] = s[i + j]
  BY <1>1, RestIs
<1>3. /\ b \in Seq(S) /\ Len(b) = Len(s) - (i + 1)
      /\ \A j \in 1 .. Len(s) - (i + 1) : b[j] = s[(i + 1) + j]
  BY <1>1, RestIs
<1> HIDE DEF a, b
<1>4. /\ u \in Seq(S) /\ Len(u) = Len(a) + Len(t)
      /\ \A j \in 1 .. Len(a) + Len(t) : u[j] = IF j <= Len(a) THEN a[j] ELSE t[j - Len(a)]
  BY <1>2, ConcatProperties
<1>5. /\ v \in Seq(S) /\ Len(v) = Len(b) + Len(t)
      /\ \A j \in 1 .. Len(b) + Len(t) : v[j] = IF j <= Len(b) THEN b[j] ELSE t[j - Len(b)]
  BY <1>3, ConcatProperties
<1> HIDE DEF u, v
<1>6. Len(u) \in Nat \ {0} /\ u # <<>> /\ Len(a) = Len(b) + 1 /\ Len(b) \in Nat
  BY <1>1, <1>2, <1>3, <1>4, EmptySeq
<1>7. Head(u) = s[i + 1]
  <2>1. 1 \in 1 .. Len(a) + Len(t) /\ 1 <= Len(a) /\ 1 \in 1 .. Len(s) - i
    BY <1>1, <1>2, <1>6
  <2>2. u[1] = a[1] /\ a[1] = s[i + 1]
    BY <1>2, <1>4, <2>1
  <2> QED BY <1>4, <1>6, <2>2
<1>8. /\ Tail(u) \in Seq(S) /\ Len(Tail(u)) = Len(u) - 1
      /\ \A j \in 1 .. Len(Tail(u)) : Tail(u)[j] = u[j + 1]
  BY <1>4, <1>6, HeadTailProperties
<1>9. Len(Tail(u)) = Len(v) /\ Len(v) = Len(b) + Len(t)
  BY <1>1, <1>4, <1>5, <1>6, <1>8
<1>10. ASSUME NEW j \in 1 .. Len(v) PROVE Tail(u)[j] = v[j]
  <2>1. j \in 1 .. Len(b) + Len(t) /\ j + 1 \in 1 .. Len(a) + Len(t) /\ Tail(u)[j] = u[j + 1]
    BY <1>1, <1>6, <1>8, <1>9
  <2>2. CASE j <= Len(b)
    <3>1. j + 1 <= Len(a) /\ j \in 1 .. Len(s) - (i + 1) /\ j + 1 \in 1 .. Len(s) - i
          /\ i + (j + 1) = (i + 1) + j
      BY <1>1, <1>2, <1>3, <1>6, <2>1, <2>2
    <3>2. u[j + 1] = a[j + 1] /\ v[j] = b[j]
      BY <1>4, <1>5, <2>1, <2>2, <3>1
    <3>3. a[j + 1] = s[i + (j + 1)] /\ b[j] = s[(i + 1) + j]
      BY <1>2, <1>3, <3>1
    <3> QED BY <2>1, <3>1, <3>2, <3>3
  <2>3. CASE ~(j <= Len(b))
    <3>1. ~(j + 1 <= Len(a)) /\ (j + 1) - Len(a) = j - Len(b)
      BY <1>6, <2>1, <2>3
    <3>2. u[j + 1] = t[(j + 1) - Len(a)] /\ v[j] = t[j - Len(b)]
      BY <1>4, <1>5, <2>1, <2>3, <3>1
    <3> QED BY <2>1, <3>1, <3>2
  <2> QED BY <2>2, <2>3
<1>11. Tail(u) = v
  BY <1>5, <1>8, <1>9, <1>10, SeqEqual
<1> QED BY <1>4, <1>6, <1>7, <1>11 DEF u, v, a, b

\* The first u components are "..", and the others are names.
SplitAt(path, u) ==
    /\ u \in 0 .. Len(path)
    /\ \A i \in 1 .. u : path[i] = Up
    /\ \A i \in u + 1 .. Len(path) : path[i] \in Names

LEMMA UpsSplit ==
    ASSUME NEW path \in Seq(Components), LeadingUps(path)
    PROVE  \E u \in Nat : SplitAt(path, u)
<1> DEFINE T == {i \in 1 .. Len(path) + 1 : i <= Len(path) => path[i] # Up}
<1>1. Len(path) \in Nat /\ T \subseteq Nat /\ Len(path) + 1 \in T
  OBVIOUS
<1>2. PICK n \in T : \A m \in T : ~(m < n)
  BY <1>1, LeastNumber
<1>3. n \in 1 .. Len(path) + 1 /\ (n <= Len(path) => path[n] # Up)
  BY <1>2
<1>4. n - 1 \in Nat /\ n - 1 \in 0 .. Len(path) /\ (n - 1) + 1 = n
  BY <1>1, <1>3
<1>5. ASSUME NEW i \in 1 .. n - 1 PROVE path[i] = Up
  <2>1. i \in 1 .. Len(path) + 1 /\ i < n /\ i <= Len(path)
    BY <1>1, <1>3
  <2> QED BY <1>2, <2>1
<1>6. ASSUME NEW i \in n .. Len(path) PROVE path[i] \in Names
  <2>1. i \in 1 .. Len(path) /\ n \in 1 .. Len(path) /\ path[n] # Up
    BY <1>1, <1>3
  <2>2. path[i] # Up
    <3>1. CASE i = n
      BY <2>1, <3>1
    <3>2. CASE i # n
      <4>1. n < i
        BY <1>3, <2>1, <3>2
      <4> QED BY <2>1, <4>1 DEF LeadingUps
    <3> QED BY <3>1, <3>2
  <2>3. path[i] \in Components
    BY <2>1
  <2> QED BY <2>2, <2>3 DEF Components
<1>7. SplitAt(path, n - 1)
  BY <1>4, <1>5, <1>6 DEF SplitAt
<1> QED BY <1>4, <1>7

\* The fold goes up, a level for each "..".
LEMMA FoldUps ==
    ASSUME NEW base \in Seq(Names), NEW path \in Seq(Components), NEW u \in Nat,
           SplitAt(path, u), NEW f, IsFold(f, base, path, Len(path)), NEW n \in 0 .. u
    PROVE  f[n] = Above(base, n)
<1> DEFINE T == {i \in 0 .. u : f[i] # Above(base, i)}
<1> SUFFICES ASSUME T # {} PROVE FALSE
  OBVIOUS
<1>1. PICK i \in T : \A m \in T : ~(m < i)
  <2>1. T \subseteq Nat
    OBVIOUS
  <2> QED BY <2>1, LeastNumber
<1>2. i \in Nat /\ i \in 0 .. u /\ f[i] # Above(base, i)
  BY <1>1
<1>3. Len(path) \in Nat /\ u <= Len(path)
  BY DEF SplitAt
<1>4. f[i] = IF i = 0 THEN base ELSE Push(f[i - 1], path[i])
  <2>1. i \in 0 .. Len(path)
    BY <1>2, <1>3
  <2> QED BY <2>1 DEF IsFold
<1>5. CASE i = 0
  <2>1. Above(base, 0) = base
    BY AboveNext
  <2> QED BY <1>2, <1>4, <1>5, <2>1
<1>6. CASE i # 0
  <2>1. i - 1 \in 0 .. u /\ i - 1 < i /\ i - 1 \in Nat /\ i \in 1 .. u /\ (i - 1) + 1 = i
    BY <1>2, <1>6
  <2>2. f[i - 1] = Above(base, i - 1) /\ path[i] = Up
    BY <1>1, <2>1 DEF SplitAt
  <2>3. Above(base, (i - 1) + 1) =
            IF Above(base, i - 1) = <<>> THEN <<>> ELSE Parent(Above(base, i - 1))
    BY <2>1, AboveNext
  <2>4. Push(f[i - 1], path[i]) = Above(base, i)
    BY <2>1, <2>2, <2>3 DEF Push
  <2> QED BY <1>2, <1>4, <1>6, <2>4
<1> QED BY <1>5, <1>6

LEMMA ConcatAppend ==
    ASSUME NEW E, NEW s \in Seq(E), NEW t \in Seq(E), NEW e \in E
    PROVE  s \o Append(t, e) = Append(s \o t, e)
<1> DEFINE u == s \o t  v == Append(t, e)  a == s \o v  b == Append(u, e)
<1>1. /\ Len(s) \in Nat /\ Len(t) \in Nat /\ u \in Seq(E) /\ Len(u) = Len(s) + Len(t)
      /\ \A i \in 1 .. Len(s) + Len(t) : u[i] = IF i <= Len(s) THEN s[i] ELSE t[i - Len(s)]
  BY ConcatProperties, LenProperties
<1>2. /\ v \in Seq(E) /\ Len(v) = Len(t) + 1
      /\ \A i \in 1 .. Len(t) : v[i] = t[i]
      /\ v[Len(t) + 1] = e
  BY AppendProperties
<1> HIDE DEF u, v
<1>3. /\ a \in Seq(E) /\ Len(a) = Len(s) + Len(v)
      /\ \A i \in 1 .. Len(s) + Len(v) : a[i] = IF i <= Len(s) THEN s[i] ELSE v[i - Len(s)]
  BY <1>2, ConcatProperties
<1>4. /\ b \in Seq(E) /\ Len(b) = Len(u) + 1
      /\ \A i \in 1 .. Len(u) : b[i] = u[i]
      /\ b[Len(u) + 1] = e
  BY <1>1, AppendProperties
<1> HIDE DEF a, b
<1>5. Len(a) = Len(b) /\ Len(a) = Len(s) + Len(t) + 1
  BY <1>1, <1>2, <1>3, <1>4
<1>6. ASSUME NEW i \in 1 .. Len(a) PROVE a[i] = b[i]
  <2>1. CASE i <= Len(s)
    <3>1. i \in 1 .. Len(u) /\ i \in 1 .. Len(s) + Len(v) /\ i \in 1 .. Len(s) + Len(t)
      BY <1>1, <1>2, <2>1
    <3> QED BY <1>1, <1>3, <1>4, <2>1, <3>1
  <2>2. CASE i > Len(s) /\ i <= Len(s) + Len(t)
    <3>1. i - Len(s) \in 1 .. Len(t) /\ i \in 1 .. Len(u) /\ i \in 1 .. Len(s) + Len(v)
      BY <1>1, <1>2, <2>2
    <3>2. a[i] = v[i - Len(s)] /\ b[i] = u[i] /\ u[i] = t[i - Len(s)]
      BY <1>1, <1>3, <1>4, <2>2, <3>1
    <3> QED BY <1>2, <3>1, <3>2
  <2>3. CASE i = Len(s) + Len(t) + 1
    <3>1. i - Len(s) = Len(t) + 1 /\ i \in 1 .. Len(s) + Len(v) /\ ~(i <= Len(s)) /\ i = Len(u) + 1
      BY <1>1, <1>2, <2>3
    <3> QED BY <1>2, <1>3, <1>4, <3>1
  <2> QED BY <1>1, <1>5, <2>1, <2>2, <2>3
<1>7. a = b
  BY <1>3, <1>4, <1>5, <1>6, SeqEqual
<1> QED BY <1>7 DEF a, b, u, v

\* The names that follow are added at the end.
LEMMA FoldNames ==
    ASSUME NEW base \in Seq(Names), NEW path \in Seq(Components), NEW u \in Nat,
           SplitAt(path, u), NEW f, IsFold(f, base, path, Len(path)), NEW n \in u .. Len(path)
    PROVE  f[n] = Above(base, u) \o SubSeq(path, u + 1, n)
<1> DEFINE T == {i \in u .. Len(path) : f[i] # Above(base, u) \o SubSeq(path, u + 1, i)}
<1> SUFFICES ASSUME T # {} PROVE FALSE
  OBVIOUS
<1>1. Len(path) \in Nat /\ u <= Len(path) /\ Above(base, u) \in Seq(Names)
  BY AboveIs DEF SplitAt
<1>2. PICK i \in T : \A m \in T : ~(m < i)
  <2>1. T \subseteq Nat
    BY <1>1
  <2> QED BY <2>1, LeastNumber
<1>3. i \in u .. Len(path) /\ f[i] # Above(base, u) \o SubSeq(path, u + 1, i)
  BY <1>2
<1> HIDE DEF T
<1>4. CASE i = u
  <2>1. SubSeq(path, u + 1, u) = <<>>
    BY <1>1
  <2>2. f[u] = Above(base, u)
    <3>1. u \in 0 .. u
      OBVIOUS
    <3> QED BY <3>1, FoldUps
  <2> QED BY <1>1, <1>3, <1>4, <2>1, <2>2, ConcatEmptySeq
<1>5. CASE i # u
  <2>1. i - 1 \in u .. Len(path) /\ i - 1 < i /\ i - 1 \in Nat /\ i \in u + 1 .. Len(path)
        /\ (i - 1) + 1 = i /\ i \in 0 .. Len(path) /\ i # 0
    <3>1. i \in u .. Len(path)
      BY <1>3
    <3> QED BY <1>1, <1>5, <3>1
  <2>2. f[i - 1] = Above(base, u) \o SubSeq(path, u + 1, i - 1)
    BY <1>2, <2>1 DEF T
  <2>3. path[i] \in Names /\ path[i] # Up
    BY <2>1, NamesAssumption DEF SplitAt
  <2>4. f[i] = Append(f[i - 1], path[i])
    BY <2>1, <2>3 DEF IsFold, Push
  <2> DEFINE a == SubSeq(path, u + 1, i - 1)  b == SubSeq(path, u + 1, i)
  <2>5. /\ a \in Seq(Names) /\ Len(a) = (i - 1) - u
        /\ \A j \in 1 .. (i - 1) - u : a[j] = path[u + j]
    <3>1. u + 1 \in Int /\ i - 1 \in Int /\ u + 1 >= 1 /\ i - 1 <= Len(path)
      BY <2>1
    <3>2. \A j \in u + 1 .. i - 1 : path[j] \in Names
      BY <1>1, <2>1 DEF SplitAt
    <3>3. /\ a \in Seq(Names)
          /\ Len(a) = IF u + 1 <= i - 1 THEN (i - 1) - (u + 1) + 1 ELSE 0
          /\ \A j \in 1 .. (i - 1) - (u + 1) + 1 : a[j] = path[u + 1 + j - 1]
      BY <3>1, <3>2, SubSeqProperties
    <3> HIDE DEF a
    <3>4. Len(a) = (i - 1) - u
      BY <2>1, <3>3
    <3>5. ASSUME NEW j \in 1 .. (i - 1) - u PROVE a[j] = path[u + j]
      <4>1. j \in 1 .. (i - 1) - (u + 1) + 1 /\ u + 1 + j - 1 = u + j
        BY <2>1
      <4> QED BY <3>3, <4>1
    <3> QED BY <3>3, <3>4, <3>5
  <2>6. /\ b \in Seq(Names) /\ Len(b) = i - u
        /\ \A j \in 1 .. i - u : b[j] = path[u + j]
    <3>1. u + 1 \in Int /\ i \in Int /\ u + 1 >= 1 /\ i <= Len(path)
      BY <2>1
    <3>2. \A j \in u + 1 .. i : path[j] \in Names
      BY <1>1, <2>1 DEF SplitAt
    <3>3. /\ b \in Seq(Names)
          /\ Len(b) = IF u + 1 <= i THEN i - (u + 1) + 1 ELSE 0
          /\ \A j \in 1 .. i - (u + 1) + 1 : b[j] = path[u + 1 + j - 1]
      BY <3>1, <3>2, SubSeqProperties
    <3> HIDE DEF b
    <3>4. Len(b) = i - u
      BY <2>1, <3>3
    <3>5. ASSUME NEW j \in 1 .. i - u PROVE b[j] = path[u + j]
      <4>1. j \in 1 .. i - (u + 1) + 1 /\ u + 1 + j - 1 = u + j
        BY <2>1
      <4> QED BY <3>3, <4>1
    <3> QED BY <3>3, <3>4, <3>5
  <2> HIDE DEF a, b
  <2> DEFINE e == path[i]  c == Append(a, e)
  <2> HIDE DEF e
  <2>7. /\ c \in Seq(Names) /\ Len(c) = Len(a) + 1
        /\ \A j \in 1 .. Len(a) : c[j] = a[j]
        /\ c[Len(a) + 1] = e /\ e \in Names
    <3>1. e \in Names /\ a \in Seq(Names)
      BY <2>3, <2>5 DEF e
    <3> QED BY <3>1, AppendProperties
  <2> HIDE DEF c
  <2>8. c = b
    <3>1. Len(c) = Len(b) /\ Len(c) = i - u
      BY <2>1, <2>5, <2>6, <2>7
    <3>2. ASSUME NEW j \in 1 .. Len(b) PROVE c[j] = b[j]
      <4>1. CASE j = Len(a) + 1
        <5>1. u + j = i /\ j \in 1 .. i - u
          BY <2>1, <2>5, <3>1, <4>1
        <5> QED BY <2>6, <2>7, <4>1, <5>1 DEF e
      <4>2. CASE j # Len(a) + 1
        <5>1. j \in 1 .. Len(a) /\ j \in 1 .. (i - 1) - u /\ j \in 1 .. i - u
          BY <2>1, <2>5, <3>1, <4>2
        <5> QED BY <2>5, <2>6, <2>7, <5>1
      <4> QED BY <4>1, <4>2
    <3> QED BY <2>6, <2>7, <3>1, <3>2, SeqEqual
  <2>9. Above(base, u) \o c = Append(Above(base, u) \o a, e)
    <3>1. e \in Names /\ a \in Seq(Names) /\ Above(base, u) \in Seq(Names)
      BY <1>1, <2>5, <2>7
    <3>2. Above(base, u) \o Append(a, e) = Append(Above(base, u) \o a, e)
      BY <3>1, ConcatAppend
    <3> QED BY <3>2 DEF c
  <2> QED BY <1>3, <2>2, <2>4, <2>8, <2>9 DEF a, b, e
<1> QED BY <1>4, <1>5

\* What a link with leading ".." expands to.
LEMMA NormalizeUps ==
    ASSUME NEW base \in Seq(Names), NEW path \in Seq(Components), NEW u \in Nat, SplitAt(path, u)
    PROVE  /\ Normalize(base, path) = Above(base, u) \o Rest(path, u)
           /\ Above(base, u) \in Seq(Names) /\ Rest(path, u) \in Seq(Names)
           /\ Len(Rest(path, u)) = Len(path) - u
<1>1. PICK f : IsFold(f, base, path, Len(path)) /\ Normalize(base, path) = f[Len(path)]
  BY NormalizeFold
<1>2. Len(path) \in Nat /\ u <= Len(path) /\ Len(path) \in u .. Len(path) /\ u \in 0 .. Len(path)
  BY DEF SplitAt
<1>3. Normalize(base, path) = Above(base, u) \o Rest(path, u)
  BY <1>1, <1>2, FoldNames DEF Rest
<1>4. /\ Rest(path, u) \in Seq(Components) /\ Len(Rest(path, u)) = Len(path) - u
      /\ \A j \in 1 .. Len(path) - u : Rest(path, u)[j] = path[u + j]
  BY <1>2, RestIs
<1>5. \A j \in 1 .. Len(path) - u : Rest(path, u)[j] \in Names
  BY <1>2, <1>4 DEF SplitAt
<1>6. Rest(path, u) \in Seq(Names)
  BY <1>4, <1>5
<1> QED BY <1>3, <1>4, <1>6, AboveIs

\* Normalizing from "/" makes no path longer.
LEMMA NormalizeLen ==
    ASSUME NEW path \in Seq(Components)
    PROVE  Len(Normalize(<<>>, path)) <= Len(path)
<1>1. PICK f : IsFold(f, <<>>, path, Len(path)) /\ Normalize(<<>>, path) = f[Len(path)]
  BY NormalizeFold
<1>2. Len(path) \in Nat /\ <<>> \in Seq(Names) /\ Len(path) \in 0 .. Len(path)
  BY EmptySeq
<1>3. \A i \in 0 .. Len(path) : f[i] \in Seq(Names)
  BY <1>1, <1>2, FoldType
<1> DEFINE T == {i \in 0 .. Len(path) : ~(Len(f[i]) <= i)}
<1>4. ASSUME T # {} PROVE FALSE
  <2>1. PICK i \in T : \A m \in T : ~(m < i)
    <3>1. T \subseteq Nat
      BY <1>2
    <3> QED BY <1>4, <3>1, LeastNumber
  <2>2. i \in 0 .. Len(path) /\ ~(Len(f[i]) <= i) /\ Len(f[i]) \in Nat
    BY <1>3, <2>1
  <2>3. f[i] = IF i = 0 THEN <<>> ELSE Push(f[i - 1], path[i])
    BY <1>1, <2>2 DEF IsFold
  <2>4. CASE i = 0
    BY <2>2, <2>3, <2>4
  <2>5. CASE i # 0
    <3>1. i - 1 \in 0 .. Len(path) /\ i - 1 < i /\ i \in 1 .. Len(path)
      BY <2>2, <2>5
    <3>2. f[i - 1] \in Seq(Names) /\ Len(f[i - 1]) \in Nat /\ Len(f[i - 1]) <= i - 1
      BY <1>3, <2>1, <3>1
    <3>3. f[i] = Push(f[i - 1], path[i]) /\ path[i] \in Components
      BY <2>3, <2>5, <3>1
    <3>4. CASE path[i] # Up
      <4>1. Len(f[i]) = Len(f[i - 1]) + 1
        <5>1. path[i] \in Names
          BY <3>3, <3>4 DEF Components
        <5> QED BY <3>2, <3>3, <3>4, <5>1, AppendProperties DEF Push
      <4> QED BY <2>2, <3>1, <3>2, <4>1
    <3>5. CASE path[i] = Up /\ f[i - 1] = <<>>
      BY <2>2, <3>1, <3>3, <3>5 DEF Push
    <3>6. CASE path[i] = Up /\ f[i - 1] # <<>>
      <4>1. Len(f[i - 1]) # 0 /\ f[i] = Parent(f[i - 1])
        BY <3>2, <3>3, <3>6, EmptySeq DEF Push
      <4>2. Len(f[i]) = Len(f[i - 1]) - 1
        BY <3>2, <4>1 DEF Parent
      <4> QED BY <2>2, <3>1, <3>2, <4>2
    <3> QED BY <3>4, <3>5, <3>6
  <2> QED BY <2>4, <2>5
<1>5. Len(path) \notin T
  BY <1>4
<1> QED BY <1>1, <1>2, <1>5

-----------------------------------------------------------------------------
(* The reference walk. *)

On(a, r) == [at |-> a, rest |-> r, end |-> "no"]

WalkNext(w) == IF w.end # "no" THEN w ELSE WalkStep(w)

\* g holds the states of the walk up to step k.
IsWalk(g, k) ==
    g = [n \in 0 .. k |-> IF n = 0 THEN On(<<>>, Normalize(<<>>, request))
                          ELSE WalkNext(g[n - 1])]

LEMMA WalkExists ==
    ASSUME NEW k \in Nat
    PROVE  \E g : IsWalk(g, k)
<1> DEFINE w0 == On(<<>>, Normalize(<<>>, request))
           T == {i \in Nat : ~ \E g : IsWalk(g, i)}
<1>1. SUFFICES ASSUME T # {} PROVE FALSE
  OBVIOUS
<1>2. PICK i \in T : \A m \in T : ~(m < i)
  BY <1>1, LeastNumber
<1>3. CASE i = 0
  <2>1. IsWalk([n \in 0 .. 0 |-> w0], 0)
    BY DEF IsWalk
  <2> QED BY <2>1, <1>2, <1>3
<1>4. CASE i # 0
  <2>1. i - 1 \in Nat /\ i - 1 < i /\ i \in Nat \ {0}
    BY <1>2, <1>4
  <2>2. PICK g : IsWalk(g, i - 1)
    BY <2>1, <1>2
  <2> DEFINE f == [n \in 0 .. i |-> IF n = i THEN WalkNext(g[i - 1]) ELSE g[n]]
  <2>3. \A n \in 0 .. i - 1 : f[n] = g[n]
    BY <2>1
  <2>4. \A n \in 0 .. i - 1 : g[n] = IF n = 0 THEN w0 ELSE WalkNext(g[n - 1])
    BY <2>1, <2>2 DEF IsWalk
  <2>5. \A n \in 0 .. i : f[n] = IF n = 0 THEN w0 ELSE WalkNext(f[n - 1])
    <3> TAKE n \in 0 .. i
    <3>1. CASE n = i
      BY <3>1, <2>1, <2>3
    <3>2. CASE n # i
      <4>1. n \in 0 .. i - 1 /\ (n # 0 => n - 1 \in 0 .. i - 1)
        BY <3>2, <2>1
      <4> QED BY <4>1, <2>3, <2>4
    <3> QED BY <3>1, <3>2
  <2>6. f = [n \in 0 .. i |-> f[n]]
    OBVIOUS
  <2> HIDE DEF f
  <2>7. IsWalk(f, i)
    BY <2>5, <2>6 DEF IsWalk
  <2> QED BY <2>7, <1>2
<1> QED BY <1>3, <1>4

LEMMA WalkIs == \E g : IsWalk(g, MaxSteps) /\ Walk = g[MaxSteps]
<1> DEFINE after[n \in 0 .. MaxSteps] ==
               IF n = 0 THEN [at |-> <<>>, rest |-> Normalize(<<>>, request), end |-> "no"]
               ELSE LET w == after[n - 1] IN IF w.end # "no" THEN w ELSE WalkStep(w)
<1>1. Walk = after[MaxSteps]
  BY DEF Walk
<1>2. \E g : IsWalk(g, MaxSteps)
  BY BoundsAssumption, WalkExists
<1>3. after = CHOOSE g : IsWalk(g, MaxSteps)
  BY DEF IsWalk, WalkNext, On
<1>4. IsWalk(after, MaxSteps)
  <2> HIDE DEF after
  <2> QED BY <1>2, <1>3
<1> HIDE DEF after
<1> QED BY <1>1, <1>4

\* The file system and the request stay, and with them the walk.
LEMMA WalkSame ==
    ASSUME UNCHANGED <<fs, request>>, NEW g
    PROVE  IsWalk(g, MaxSteps)' = IsWalk(g, MaxSteps)
  BY DEF IsWalk, WalkNext, WalkStep, Stat

LEMMA WalkTurn ==
    ASSUME NEW g, IsWalk(g, MaxSteps), NEW n \in 0 .. MaxSteps - 1
    PROVE  n + 1 \in 0 .. MaxSteps /\ g[n + 1] = WalkNext(g[n])
<1>1. n + 1 \in 0 .. MaxSteps /\ n + 1 # 0 /\ (n + 1) - 1 = n
  BY BoundsAssumption
<1>2. g[n + 1] = IF n + 1 = 0 THEN On(<<>>, Normalize(<<>>, request)) ELSE WalkNext(g[(n + 1) - 1])
  BY <1>1 DEF IsWalk
<1> QED BY <1>1, <1>2

\* A walk that has ended stays where it is.
LEMMA WalkOver ==
    ASSUME NEW g, IsWalk(g, MaxSteps), NEW n \in 0 .. MaxSteps, g[n].end # "no"
    PROVE  g[MaxSteps] = g[n]
<1> DEFINE T == {i \in n .. MaxSteps : g[i] # g[n]}
<1>1. MaxSteps \in Nat /\ n \in Nat /\ MaxSteps \in n .. MaxSteps /\ T \subseteq Nat
  BY BoundsAssumption
<1>2. ASSUME T # {} PROVE FALSE
  <2>1. PICK i \in T : \A m \in T : ~(m < i)
    BY <1>1, <1>2, LeastNumber
  <2>2. i \in n .. MaxSteps /\ g[i] # g[n]
    BY <2>1
  <2>3. i # n
    BY <2>2
  <2>4. /\ i - 1 \in n .. MaxSteps /\ i - 1 < i /\ i - 1 \in 0 .. MaxSteps - 1
        /\ (i - 1) + 1 = i
    BY <1>1, <2>2, <2>3
  <2>5. g[i - 1] = g[n]
    BY <2>1, <2>4
  <2>6. g[(i - 1) + 1] = WalkNext(g[i - 1])
    BY <2>4, WalkTurn
  <2>7. WalkNext(g[n]) = g[n]
    BY DEF WalkNext
  <2> QED BY <2>2, <2>4, <2>5, <2>6, <2>7
<1> QED BY <1>1, <1>2

\* The turns of the walk.
LEMMA WalkEnds ==
    ASSUME NEW a
    PROVE  WalkNext(On(a, <<>>)) = [at |-> a, rest |-> <<>>, end |-> "ok"]
  BY DEF WalkNext, WalkStep, On

LEMMA WalkUp ==
    ASSUME NEW a, NEW r, r # <<>>, Head(r) = Up
    PROVE  WalkNext(On(a, r)) = On(IF a = <<>> THEN <<>> ELSE Parent(a), Tail(r))
  BY DEF WalkNext, WalkStep, On

LEMMA WalkDown ==
    ASSUME NEW a, NEW r, r # <<>>, Head(r) # Up, Stat(fs, Append(a, Head(r))) \in {File, Dir}
    PROVE  WalkNext(On(a, r)) = On(Append(a, Head(r)), Tail(r))
<1>1. Stat(fs, Append(a, Head(r))).kind \in {"file", "dir"}
  BY DEF File, Dir
<1> QED BY <1>1 DEF WalkNext, WalkStep, On

LEMMA WalkLink ==
    ASSUME NEW a, NEW r, r # <<>>, Head(r) # Up, NEW t, Stat(fs, Append(a, Head(r))) = Link(t)
    PROVE  WalkNext(On(a, r)) = On(IF t.absolute THEN <<>> ELSE a, t.path \o Tail(r))
<1> DEFINE e == Stat(fs, Append(a, Head(r)))
<1>1. e.kind = "link" /\ e.target = t /\ e.kind \notin {"file", "dir"}
  BY DEF Link
<1> HIDE DEF e
<1> QED BY <1>1 DEF WalkNext, WalkStep, On, e

\* The walk goes up, a level for each "..".
LEMMA WalkUps ==
    ASSUME NEW g, IsWalk(g, MaxSteps), NEW a \in Seq(Names), NEW path \in Seq(Components),
           NEW t \in Seq(Components), NEW u \in Nat, SplitAt(path, u), NEW k \in Nat,
           k + u <= MaxSteps, g[k] = On(a, path \o t)
    PROVE  g[k + u] = On(Above(a, u), Rest(path, u) \o t)
<1> DEFINE Is(i) == g[k + i] = On(Above(a, i), Rest(path, i) \o t)
           T == {i \in 0 .. u : ~Is(i)}
<1>1. MaxSteps \in Nat /\ Len(path) \in Nat /\ u <= Len(path) /\ u \in 0 .. u
  BY BoundsAssumption DEF SplitAt
<1>2. Is(0)
  <2>1. Above(a, 0) = a /\ Rest(path, 0) = path /\ k + 0 = k
    <3>1. Above(a, 0) = a
      BY AboveNext
    <3>2. SubSeq(path, 1, Len(path)) = path
      BY SubSeqFull
    <3> QED BY <3>1, <3>2 DEF Rest
  <2> QED BY <2>1
<1>3. ASSUME NEW i \in Nat, i < u, Is(i) PROVE Is(i + 1)
  <2>1. /\ i \in 0 .. Len(path) - 1 /\ k + i \in 0 .. MaxSteps - 1 /\ (k + i) + 1 = k + (i + 1)
        /\ i + 1 \in 1 .. u
    BY <1>1, <1>3
  <2>2. path[i + 1] = Up
    BY <2>1 DEF SplitAt
  <2> DEFINE r == Rest(path, i) \o t
  <2>3. r # <<>> /\ Head(r) = Up /\ Tail(r) = Rest(path, i + 1) \o t
    BY <2>1, <2>2, RestNext
  <2>4. Above(a, i + 1) = IF Above(a, i) = <<>> THEN <<>> ELSE Parent(Above(a, i))
    BY AboveNext
  <2>5. g[(k + i) + 1] = WalkNext(On(Above(a, i), r))
    BY <1>3, <2>1, WalkTurn
  <2> HIDE DEF r
  <2>6. WalkNext(On(Above(a, i), r)) = On(Above(a, i + 1), Tail(r))
    BY <2>3, <2>4, WalkUp
  <2> QED BY <2>1, <2>3, <2>5, <2>6
<1> HIDE DEF Is
<1>4. ASSUME T # {} PROVE FALSE
  <2>1. PICK i \in T : \A m \in T : ~(m < i)
    <3>1. T \subseteq Nat
      OBVIOUS
    <3> QED BY <1>4, <3>1, LeastNumber
  <2>2. i \in 0 .. u /\ ~Is(i) /\ i # 0
    BY <1>2, <2>1
  <2>3. i - 1 \in 0 .. u /\ i - 1 \in Nat /\ i - 1 < i /\ i - 1 < u /\ (i - 1) + 1 = i
    BY <1>1, <2>2
  <2>4. Is(i - 1)
    BY <2>1, <2>3
  <2>5. Is((i - 1) + 1)
    BY <1>3, <2>3, <2>4
  <2> QED BY <2>2, <2>3, <2>5
<1>5. Is(u)
  BY <1>1, <1>4
<1> QED BY <1>5 DEF Is

-----------------------------------------------------------------------------
(* The loop follows the walk. *)

\* The first component of x moves to the end of s.
LEMMA HeadMoves ==
    ASSUME NEW S, NEW s \in Seq(S), NEW x \in Seq(S), x # <<>>
    PROVE  /\ Append(s, Head(x)) \o Tail(x) = s \o x
           /\ Append(s, Head(x)) \in Prefixes(s \o x)
<1> DEFINE h == Head(x)  t == Tail(x)  a == Append(s, h)  u == a \o t  v == s \o x
<1>1. /\ h \in S /\ h = x[1] /\ t \in Seq(S) /\ Len(t) = Len(x) - 1
      /\ \A i \in 1 .. Len(t) : t[i] = x[i + 1]
  BY HeadTailProperties
<1>2. Len(s) \in Nat /\ Len(x) \in Nat \ {0} /\ Len(t) \in Nat
  BY <1>1, EmptySeq
<1> HIDE DEF h, t
<1>3. /\ a \in Seq(S) /\ Len(a) = Len(s) + 1
      /\ \A i \in 1 .. Len(s) : a[i] = s[i]
      /\ a[Len(s) + 1] = h
  BY <1>1, AppendProperties
<1> HIDE DEF a
<1>4. /\ u \in Seq(S) /\ Len(u) = Len(a) + Len(t)
      /\ \A i \in 1 .. Len(a) + Len(t) : u[i] = IF i <= Len(a) THEN a[i] ELSE t[i - Len(a)]
  BY <1>1, <1>3, ConcatProperties
<1>5. /\ v \in Seq(S) /\ Len(v) = Len(s) + Len(x)
      /\ \A i \in 1 .. Len(s) + Len(x) : v[i] = IF i <= Len(s) THEN s[i] ELSE x[i - Len(s)]
  BY ConcatProperties
<1> HIDE DEF u, v
<1>6. Len(u) = Len(v) /\ Len(u) = Len(s) + Len(x)
  BY <1>1, <1>2, <1>3, <1>4, <1>5
<1>7. ASSUME NEW i \in 1 .. Len(a) PROVE a[i] = v[i]
  <2>1. i \in 1 .. Len(s) + Len(x)
    BY <1>2, <1>3
  <2>2. CASE i <= Len(s)
    <3>1. i \in 1 .. Len(s)
      BY <1>2, <2>1, <2>2
    <3> QED BY <1>3, <1>5, <2>1, <2>2, <3>1
  <2>3. CASE i = Len(s) + 1
    <3>1. ~(i <= Len(s)) /\ i - Len(s) = 1
      BY <1>2, <2>3
    <3> QED BY <1>1, <1>3, <1>5, <2>1, <2>3, <3>1
  <2> QED BY <1>2, <1>3, <2>2, <2>3
<1>8. ASSUME NEW i \in 1 .. Len(u) PROVE u[i] = v[i]
  <2>1. i \in 1 .. Len(a) + Len(t) /\ i \in 1 .. Len(s) + Len(x)
    BY <1>4, <1>6
  <2>2. CASE i <= Len(a)
    <3>1. i \in 1 .. Len(a)
      BY <1>2, <1>3, <2>1, <2>2
    <3> QED BY <1>4, <1>7, <2>1, <2>2, <3>1
  <2>3. CASE ~(i <= Len(a))
    <3>1. /\ ~(i <= Len(s)) /\ i - Len(a) \in 1 .. Len(t) /\ (i - Len(a)) + 1 = i - Len(s)
      BY <1>2, <1>3, <2>1, <2>3
    <3>2. u[i] = t[i - Len(a)] /\ v[i] = x[i - Len(s)] /\ t[i - Len(a)] = x[(i - Len(a)) + 1]
      BY <1>1, <1>4, <1>5, <2>1, <2>3, <3>1
    <3> QED BY <3>1, <3>2
  <2> QED BY <2>2, <2>3
<1>9. u = v
  BY <1>4, <1>5, <1>6, <1>8, SeqEqual
<1>10. a \in Prefixes(v)
  <2> DEFINE p == SubSeq(v, 1, Len(a))
  <2>1. Len(a) \in Nat /\ Len(a) \in 1 .. Len(v)
    BY <1>2, <1>3, <1>5
  <2>2. /\ p \in Seq(S) /\ Len(p) = Len(a)
        /\ \A i \in 1 .. Len(a) : p[i] = v[i]
    BY <1>5, <2>1
  <2> HIDE DEF p
  <2>3. p = a
    BY <1>3, <1>7, <2>2, SeqEqual
  <2> QED BY <2>1, <2>3 DEF Prefixes, p
<1> QED BY <1>9, <1>10 DEF a, u, v, h, t

LEMMA Reassociate ==
    \A s, t, u \in Seq(Names) : (s \o t) \o u = s \o (t \o u)
<1> TAKE s, t, u \in Seq(Names)
<1> QED BY ConcatAssociative

\* The component in front is the first of x, or of r if x is empty.
LEMMA FrontIs ==
    ASSUME NEW S, NEW x \in Seq(S), NEW r \in Seq(S)
    PROVE  /\ x = <<>> => x \o r = r
           /\ x # <<>> => /\ x \o r # <<>> /\ Head(x \o r) = Head(x)
                          /\ Tail(x \o r) = Tail(x) \o r
<1>1. x = <<>> => x \o r = r
  BY ConcatEmptySeq
<1>2. ASSUME x # <<>>
      PROVE  x \o r # <<>> /\ Head(x \o r) = Head(x) /\ Tail(x \o r) = Tail(x) \o r
  <2>1. Len(x) \in Nat \ {0} /\ 0 \in 0 .. Len(x) - 1 /\ 0 + 1 = 1
    BY <1>2, EmptySeq
  <2>2. Rest(x, 0) = x /\ Rest(x, 1) = Tail(x) /\ x[1] = Head(x)
    <3>1. SubSeq(x, 1, Len(x)) = x
      BY SubSeqFull
    <3>2. Tail(x) = SubSeq(x, 2, Len(x)) /\ Head(x) = x[1]
      BY <1>2, HeadTailProperties
    <3> QED BY <2>1, <3>1, <3>2 DEF Rest
  <2>3. /\ Rest(x, 0) \o r # <<>> /\ Head(Rest(x, 0) \o r) = x[0 + 1]
        /\ Tail(Rest(x, 0) \o r) = Rest(x, 0 + 1) \o r
    BY <2>1, RestNext
  <2> QED BY <2>1, <2>2, <2>3
<1> QED BY <1>1, <1>2

LEMMA PrefixesAbove ==
    ASSUME NEW S, NEW s \in Seq(S), NEW i \in Nat
    PROVE  Prefixes(Above(s, i)) \subseteq Prefixes(s)
<1> DEFINE a == Above(s, i)
<1>1. /\ a \in Seq(S) /\ Len(a) \in Nat /\ Len(s) \in Nat /\ Len(a) <= Len(s)
      /\ \A j \in 1 .. Len(a) : a[j] = s[j]
  <2>1. /\ a \in Seq(S) /\ Len(a) = (IF i <= Len(s) THEN Len(s) - i ELSE 0) /\ Len(s) \in Nat
        /\ \A j \in 1 .. Len(a) : a[j] = s[j]
    BY AboveIs
  <2> HIDE DEF a
  <2> QED BY <2>1
<1> HIDE DEF a
<1>2. ASSUME NEW n \in 1 .. Len(a) PROVE SubSeq(a, 1, n) \in Prefixes(s)
  <2>1. n \in Nat /\ n <= Len(a) /\ n <= Len(s) /\ n \in 1 .. Len(s)
    BY <1>1
  <2> DEFINE p == SubSeq(a, 1, n)  q == SubSeq(s, 1, n)
  <2>2. p \in Seq(S) /\ Len(p) = n /\ \A j \in 1 .. n : p[j] = a[j]
    BY <1>1, <2>1
  <2>3. q \in Seq(S) /\ Len(q) = n /\ \A j \in 1 .. n : q[j] = s[j]
    BY <1>1, <2>1
  <2> HIDE DEF p, q
  <2>4. \A j \in 1 .. n : p[j] = q[j]
    <3> TAKE j \in 1 .. n
    <3>1. j \in 1 .. Len(a)
      BY <1>1, <2>1
    <3> QED BY <1>1, <2>2, <2>3, <3>1
  <2>5. p = q
    BY <2>2, <2>3, <2>4, SeqEqual
  <2> QED BY <2>1, <2>5 DEF p, q, Prefixes
<1> QED BY <1>2 DEF Prefixes, a

\* Of a link's target: its ".." come first. A file system goes up from where the
\* names before a ".." lead, normalize_afc_path_components from their parent.
PlainTargets == \A t \in Targets : LeadingUps(t.path)

\* The reference walks far enough for MAX_SYMLINKS links of at most L components.
StepsSuffice(L) ==
    /\ L \in Nat /\ \A t \in Targets : Len(t.path) <= L
    /\ \A r \in Requests : Len(r) + MaxSymlinks * L < MaxSteps

(***************************************************************************)
(* After k steps the walk has reached what is resolved and the x that      *)
(* resolve_path, which starts again at "/" after a link, will resolve      *)
(* again; the r that is left is the same for both.                         *)
(***************************************************************************)
Along(L, g, k, x, r) ==
    /\ k \in Nat /\ x \in Seq(Names) /\ r \in Seq(Names)
    /\ g[k] = On(resolved \o x, r) /\ pending = x \o r
    /\ \A p \in Prefixes(resolved \o x) : Stat(fs, p) \in {File, Dir}
    /\ k + Len(r) <= Len(Normalize(<<>>, request)) + followed_links * L

WalkInv(L) ==
    \A g : IsWalk(g, MaxSteps) =>
        /\ result = "running" => \E k, x, r : Along(L, g, k, x, r)
        /\ result = "ok" => g[MaxSteps] = [at |-> resolved, rest |-> <<>>, end |-> "ok"]

\* The walk is never at its end.
LEMMA StepsLeft ==
    ASSUME NEW q \in Requests, NEW f \in 0 .. MaxSymlinks, NEW L, StepsSuffice(L), NEW n \in Nat,
           n <= Len(Normalize(<<>>, q)) + f * L
    PROVE  n \in 0 .. MaxSteps - 1
<1>1. L \in Nat /\ MaxSymlinks \in Nat /\ MaxSteps \in Nat /\ f \in Nat
  BY BoundsAssumption DEF StepsSuffice
<1>2. q \in Seq(Components) /\ Len(q) \in Nat
  BY InputsAssumption, LenProperties DEF Components
<1>3. Normalize(<<>>, q) \in Seq(Names)
  BY <1>2, EmptySeq, NormalizeType
<1>4. Len(Normalize(<<>>, q)) <= Len(q) /\ Len(Normalize(<<>>, q)) \in Nat
  BY <1>2, <1>3, NormalizeLen, LenProperties
<1>5. f * L <= MaxSymlinks * L /\ f * L \in Nat /\ MaxSymlinks * L \in Nat
  <2>1. MaxSymlinks - f \in Nat
    BY <1>1
  <2>2. (MaxSymlinks - f) * L \in Nat /\ (MaxSymlinks - f) * L = MaxSymlinks * L - f * L
    BY <1>1, <2>1
  <2>3. f * L \in Nat /\ MaxSymlinks * L \in Nat
    BY <1>1
  <2> QED BY <2>2, <2>3
<1>6. Len(q) + MaxSymlinks * L < MaxSteps
  BY DEF StepsSuffice
<1> QED BY <1>1, <1>2, <1>4, <1>5, <1>6

LEMMA WalkInvInit ==
    ASSUME NEW L, StepsSuffice(L), Init PROVE WalkInv(L)
<1> SUFFICES ASSUME NEW g, IsWalk(g, MaxSteps)
             PROVE  Along(L, g, 0, <<>>, pending)
  BY DEF WalkInv, Init
<1>1. /\ pending = Normalize(<<>>, request) /\ resolved = <<>> /\ followed_links = 0
      /\ <<>> \in Seq(Names) /\ pending \in Seq(Names)
  BY ResolveInvInit, EmptySeq DEF Init, ResolveInv, TypeOK
<1>2. g[0] = On(<<>>, pending)
  <2>1. 0 \in 0 .. MaxSteps
    BY BoundsAssumption
  <2> QED BY <1>1, <2>1 DEF IsWalk
<1>3. resolved \o <<>> = <<>> /\ <<>> \o pending = pending
  BY <1>1, ConcatEmptySeq
<1>4. 0 + Len(pending) <= Len(Normalize(<<>>, request)) + followed_links * L
  BY <1>1, LenProperties DEF StepsSuffice
<1>5. \A p \in Prefixes(resolved \o <<>>) : Stat(fs, p) \in {File, Dir}
  BY <1>3, PrefixesOfNothing
<1> QED BY <1>1, <1>2, <1>3, <1>4, <1>5 DEF Along

\* The loop comes back to where the walk is.
LEMMA DescendAgain ==
    ASSUME ResolveInv, NEW L, NEW g, NEW k, NEW x, NEW r, Along(L, g, k, x, r), Descend, x # <<>>
    PROVE  Along(L, g, k, Tail(x), r)'
<1>1. /\ resolved' = Append(resolved, Head(pending)) /\ pending' = Tail(pending)
      /\ UNCHANGED <<fs, followed_links, request>>
  BY DEF Descend, Candidate
<1>2. /\ x \in Seq(Names) /\ r \in Seq(Names) /\ resolved \in Seq(Names) /\ pending = x \o r
      /\ Tail(x) \in Seq(Names)
  BY PathsAreSequences, HeadTailProperties DEF Along, ResolveInv, TypeOK
<1>3. Head(pending) = Head(x) /\ Tail(pending) = Tail(x) \o r
  BY <1>2, FrontIs
<1>4. Append(resolved, Head(x)) \o Tail(x) = resolved \o x
  BY <1>2, HeadMoves
<1>5. resolved' \o Tail(x) = resolved \o x
  BY <1>1, <1>3, <1>4
<1>6. \A p \in Prefixes(resolved \o x) : Stat(fs', p) \in {File, Dir}
  BY <1>1 DEF Along
<1>7. pending' = Tail(x) \o r
  BY <1>1, <1>3
<1>8. g[k] = On(resolved' \o Tail(x), r) /\ k \in Nat
  BY <1>5 DEF Along
<1>9. k + Len(r) <= Len(Normalize(<<>>, request')) + followed_links' * L
  BY <1>1 DEF Along
<1> QED BY <1>2, <1>5, <1>6, <1>7, <1>8, <1>9 DEF Along

\* Both go down.
LEMMA DescendFurther ==
    ASSUME ResolveInv, NEW L, StepsSuffice(L), NEW g, IsWalk(g, MaxSteps), NEW k, NEW r,
           Along(L, g, k, <<>>, r), Descend
    PROVE  Along(L, g, k + 1, <<>>, Tail(r))'
<1>1. /\ resolved' = Append(resolved, Head(pending)) /\ pending' = Tail(pending)
      /\ UNCHANGED <<fs, followed_links, request>> /\ pending # <<>>
      /\ Stat(fs, Append(resolved, Head(pending))) \in {File, Dir}
  BY DEF Descend, Candidate, Turn
<1>2. resolved \in Seq(Names) /\ r \in Seq(Names) /\ k \in Nat
  BY PathsAreSequences DEF Along, ResolveInv, TypeOK
<1>3. pending = r /\ resolved \o <<>> = resolved /\ r # <<>>
  BY <1>1, <1>2, ConcatEmptySeq DEF Along
<1>4. /\ Head(r) \in Names /\ Tail(r) \in Seq(Names) /\ Len(Tail(r)) = Len(r) - 1
      /\ Len(r) \in Nat \ {0} /\ Head(r) # Up
  BY <1>2, <1>3, HeadTailProperties, EmptySeq, LenProperties, NamesAssumption
<1>5. k \in 0 .. MaxSteps - 1
  <2>1. k + Len(r) <= Len(Normalize(<<>>, request)) + followed_links * L
    BY DEF Along
  <2>2. k + Len(r) \in Nat
    BY <1>2, <1>4
  <2>3. k + Len(r) \in 0 .. MaxSteps - 1
    BY <2>1, <2>2, StepsLeft DEF ResolveInv, TypeOK
  <2> QED BY <1>2, <1>4, <2>3, BoundsAssumption
<1>6. g[k + 1] = On(Append(resolved, Head(r)), Tail(r))
  <2>1. g[k] = On(resolved, r)
    BY <1>3 DEF Along
  <2>2. g[k + 1] = WalkNext(On(resolved, r))
    BY <1>5, <2>1, WalkTurn
  <2> QED BY <1>1, <1>3, <1>4, <2>2, WalkDown
<1>7. resolved' = Append(resolved, Head(r)) /\ pending' = Tail(r)
  BY <1>1, <1>3
<1>8. resolved' \in Seq(Names)
  BY <1>2, <1>4, <1>7, AppendProperties
<1>9. resolved' \o <<>> = resolved' /\ <<>> \o Tail(r) = Tail(r)
  BY <1>4, <1>8, ConcatEmptySeq
<1>10. \A p \in Prefixes(resolved') : Stat(fs', p) \in {File, Dir}
  <2>1. Prefixes(resolved') \subseteq Prefixes(resolved) \cup {resolved'}
    BY <1>2, <1>4, <1>7, PrefixesGrow
  <2>2. \A p \in Prefixes(resolved) : Stat(fs, p) \in {File, Dir}
    BY <1>3 DEF Along
  <2> QED BY <1>1, <2>1, <2>2
<1>11. (k + 1) + Len(Tail(r)) <= Len(Normalize(<<>>, request')) + followed_links' * L
  <2>1. (k + 1) + Len(Tail(r)) = k + Len(r)
    BY <1>2, <1>4
  <2>2. k + Len(r) <= Len(Normalize(<<>>, request)) + followed_links * L
    BY DEF Along
  <2> QED BY <1>1, <2>1, <2>2
<1>12. k + 1 \in Nat /\ <<>> \in Seq(Names)
  BY <1>2, EmptySeq
<1> QED BY <1>4, <1>6, <1>7, <1>9, <1>10, <1>11, <1>12 DEF Along

\* A link is new to the walk too: everything in x is known to be none.
LEMMA LinkIsNew ==
    ASSUME ResolveInv, NEW L, NEW g, NEW k, NEW x, NEW r, Along(L, g, k, x, r), FollowLink
    PROVE  x = <<>>
<1> SUFFICES ASSUME x # <<>> PROVE FALSE
  OBVIOUS
<1>1. x \in Seq(Names) /\ r \in Seq(Names) /\ resolved \in Seq(Names) /\ pending = x \o r
  BY PathsAreSequences DEF Along, ResolveInv, TypeOK
<1>2. Candidate = Append(resolved, Head(x))
  BY <1>1, FrontIs DEF Candidate
<1>3. Candidate \in Prefixes(resolved \o x)
  BY <1>1, <1>2, HeadMoves
<1>4. Stat(fs, Candidate) \in {File, Dir}
  BY <1>3 DEF Along
<1>5. Stat(fs, Candidate).kind \in {"link", "badlink"}
  BY DEF FollowLink, IsLink
<1> QED BY <1>4, <1>5 DEF File, Dir

\* Both take the target: the walk goes up its "..", the loop normalizes it.
LEMMA FollowAlong ==
    ASSUME ResolveInv, PlainTargets, NEW L, StepsSuffice(L), NEW g, IsWalk(g, MaxSteps),
           NEW k, NEW r, Along(L, g, k, <<>>, r), FollowLink
    PROVE  \E m, y, s : Along(L, g, m, y, s)'
<1>1. /\ pending # <<>> /\ resolved' = <<>> /\ followed_links' = followed_links + 1
      /\ pending' = Expand(Stat(fs, Candidate).target) \o Tail(pending)
      /\ UNCHANGED <<fs, request>>
      /\ Stat(fs, Candidate).kind \in {"link", "badlink"} /\ Stat(fs, Candidate) # BadLink
  BY DEF FollowLink, IsLink, Turn
<1>2. /\ resolved \in Seq(Names) /\ r \in Seq(Names) /\ k \in Nat /\ <<>> \in Seq(Names)
      /\ followed_links \in Nat
  BY PathsAreSequences, EmptySeq, BoundsAssumption DEF Along, ResolveInv, TypeOK
<1>3. pending = r /\ resolved \o <<>> = resolved /\ r # <<>>
  BY <1>1, <1>2, ConcatEmptySeq DEF Along
<1>4. /\ Head(r) \in Names /\ Tail(r) \in Seq(Names) /\ Len(Tail(r)) = Len(r) - 1
      /\ Len(r) \in Nat \ {0} /\ Head(r) # Up
  BY <1>2, <1>3, HeadTailProperties, EmptySeq, LenProperties, NamesAssumption
<1>5. PICK t \in Targets : Stat(fs, Append(resolved, Head(r))) = Link(t)
  <2>1. Candidate = Append(resolved, Head(r))
    BY <1>3 DEF Candidate
  <2>2. Stat(fs, Candidate) # None /\ Stat(fs, Candidate) \notin {File, Dir}
    BY <1>1 DEF None, File, Dir
  <2>3. Stat(fs, Candidate) \in Entries
    BY <2>2, StatIs DEF ResolveInv
  <2> QED BY <1>1, <2>1, <2>2, <2>3 DEF Entries
<1>6. Stat(fs, Candidate).target = t
  BY <1>3, <1>5 DEF Candidate, Link
<1>7. PICK path \in Seq(Components) : path = t.path
  BY InputsAssumption DEF Components
<1>8. Len(path) \in Nat /\ Len(path) <= L /\ L \in Nat /\ LeadingUps(path)
  BY <1>7, LenProperties DEF StepsSuffice, PlainTargets
<1>9. PICK u \in Nat : SplitAt(path, u)
  BY <1>8, UpsSplit
<1>10. PICK base \in Seq(Names) : base = IF t.absolute THEN <<>> ELSE resolved
  BY <1>2
<1>11. PICK w \in Seq(Names) : w = Tail(r)
  BY <1>4
<1>12. PICK y \in Seq(Names), q \in Seq(Names) : y = Above(base, u) /\ q = Rest(path, u)
  BY <1>9, NormalizeUps
<1>13. Normalize(base, path) = y \o q /\ Len(q) = Len(path) - u /\ u <= Len(path)
  <2>1. /\ Normalize(base, path) = Above(base, u) \o Rest(path, u)
        /\ Len(Rest(path, u)) = Len(path) - u
    BY <1>9, NormalizeUps
  <2>2. u <= Len(path)
    BY <1>8, <1>9 DEF SplitAt
  <2> QED BY <1>12, <2>1, <2>2
<1>14. PICK s \in Seq(Names) : s = q \o w /\ Len(s) = Len(q) + Len(w)
  BY ConcatProperties
<1>15. PICK m \in Nat : m = (k + 1) + u
  BY <1>2
<1>16. pending' = y \o s
  <2>1. pending' = Normalize(base, path) \o w
    BY <1>1, <1>3, <1>6, <1>7, <1>10, <1>11 DEF Expand
  <2>2. (y \o q) \o w = y \o (q \o w)
    <3>1. y \in Seq(Names) /\ q \in Seq(Names) /\ w \in Seq(Names)
      OBVIOUS
    <3> QED BY <3>1, Reassociate, Zenon
  <2> QED BY <1>13, <1>14, <2>1, <2>2
<1>17. m + Len(s) \in Nat /\ m + Len(s) = (k + Len(r)) + Len(path) /\ m <= m + Len(s)
  <2>1. Len(q) \in Nat /\ Len(w) = Len(r) - 1 /\ Len(s) \in Nat
    BY <1>4, <1>11, LenProperties
  <2>2. PICK a \in Nat, d \in Nat, e \in Nat : a = Len(s) /\ d = Len(r) /\ e = Len(path)
    BY <1>4, <1>8, <2>1
  <2>3. a = (e - u) + (d - 1) /\ u <= e
    BY <1>13, <1>14, <2>1, <2>2
  <2>4. m + a \in Nat /\ m + a = (k + d) + e /\ m <= m + a
    BY <1>2, <1>15, <2>2, <2>3
  <2> QED BY <2>2, <2>4
<1>18. m + Len(s) <= Len(Normalize(<<>>, request')) + followed_links' * L
  <2>1. k + Len(r) <= Len(Normalize(<<>>, request)) + followed_links * L
    BY DEF Along
  <2>2. followed_links' * L = followed_links * L + L /\ followed_links * L \in Nat
    BY <1>1, <1>2, <1>8
  <2>3. Len(Normalize(<<>>, request)) \in Nat
    <3>1. request \in Seq(Components)
      BY InputsAssumption DEF ResolveInv, TypeOK, Components
    <3> QED BY <1>2, <3>1, NormalizeType, LenProperties
  <2>4. PICK b \in Nat, c \in Nat : b = Len(Normalize(<<>>, request)) /\ c = followed_links * L
    BY <2>2, <2>3
  <2>5. m + Len(s) <= b + (c + L)
    BY <1>2, <1>4, <1>8, <1>17, <2>1, <2>4
  <2> QED BY <1>1, <2>2, <2>4, <2>5
<1>19. m <= MaxSteps /\ k \in 0 .. MaxSteps - 1
  <2>1. request' \in Requests /\ followed_links' \in 0 .. MaxSymlinks
    BY ResolveInvStep DEF Next, ResolveInv, TypeOK
  <2>2. m + Len(s) \in 0 .. MaxSteps - 1
    BY <1>17, <1>18, <2>1, StepsLeft
  <2> QED BY <1>2, <1>15, <1>17, <2>2, BoundsAssumption
<1>20. g[m] = On(y, s)
  <2>1. g[k] = On(resolved, r)
    BY <1>3 DEF Along
  <2>2. g[k + 1] = WalkNext(On(resolved, r)) /\ k + 1 \in Nat
    BY <1>2, <1>19, <2>1, WalkTurn
  <2>3. WalkNext(On(resolved, r)) = On(base, path \o w)
    BY <1>3, <1>4, <1>5, <1>7, <1>10, <1>11, WalkLink
  <2>4. PICK l \in Nat : l = k + 1
    BY <2>2
  <2>5. g[l] = On(base, path \o w) /\ l + u <= MaxSteps /\ l + u = m
    BY <1>15, <1>19, <2>2, <2>3, <2>4
  <2>6. w \in Seq(Components)
    BY DEF Components
  <2>7. g[l + u] = On(Above(base, u), Rest(path, u) \o w)
    BY <1>9, <2>5, <2>6, WalkUps
  <2> QED BY <1>12, <1>14, <2>5, <2>7
<1>21. \A p \in Prefixes(y) : Stat(fs', p) \in {File, Dir}
  <2>1. Prefixes(y) \subseteq Prefixes(base)
    BY <1>12, PrefixesAbove
  <2>2. \A p \in Prefixes(base) : Stat(fs, p) \in {File, Dir}
    <3>1. \A p \in Prefixes(resolved) : Stat(fs, p) \in {File, Dir}
      BY <1>3 DEF Along
    <3> QED BY <1>10, <3>1, PrefixesOfNothing
  <2> QED BY <1>1, <2>1, <2>2
<1>22. resolved' \o y = y
  BY <1>1, ConcatEmptySeq
<1>23. Along(L, g, m, y, s)'
  BY <1>16, <1>18, <1>20, <1>21, <1>22 DEF Along
<1> QED BY <1>23

\* resolve_path returns where the walk ends.
LEMMA FinishIsEnd ==
    ASSUME ResolveInv, NEW L, StepsSuffice(L), NEW g, IsWalk(g, MaxSteps), NEW k, NEW x, NEW r,
           Along(L, g, k, x, r), Finish
    PROVE  g[MaxSteps] = [at |-> resolved', rest |-> <<>>, end |-> "ok"]
<1>1. pending = <<>> /\ resolved' = resolved
  BY DEF Finish, Return
<1>2. /\ x \in Seq(Names) /\ r \in Seq(Names) /\ resolved \in Seq(Names) /\ pending = x \o r
      /\ k \in Nat
  BY PathsAreSequences DEF Along, ResolveInv, TypeOK
<1>3. x = <<>> /\ r = <<>>
  <2>1. x = <<>>
    BY <1>1, <1>2, FrontIs
  <2> QED BY <1>1, <1>2, <2>1, FrontIs
<1>4. g[k] = On(resolved, <<>>)
  BY <1>2, <1>3, ConcatEmptySeq DEF Along
<1>5. k \in 0 .. MaxSteps - 1
  <2>1. k <= Len(Normalize(<<>>, request)) + followed_links * L
    BY <1>2, <1>3 DEF Along
  <2> QED BY <1>2, <2>1, StepsLeft DEF ResolveInv, TypeOK
<1>6. k + 1 \in 0 .. MaxSteps /\ g[k + 1] = [at |-> resolved, rest |-> <<>>, end |-> "ok"]
  BY <1>4, <1>5, WalkTurn, WalkEnds
<1>7. g[k + 1].end # "no"
  BY <1>6
<1> QED BY <1>1, <1>6, <1>7, WalkOver

LEMMA WalkInvStep ==
    ASSUME PlainTargets, NEW L, StepsSuffice(L), ResolveInv, WalkInv(L), [Next]_vars
    PROVE  WalkInv(L)'
<1>1. UNCHANGED <<fs, request>>
  BY DEF Next, NotFound, Descend, TooMany, Cycle, NoTarget, FollowLink, Finish, Return, vars
<1>2. SUFFICES ASSUME NEW g, IsWalk(g, MaxSteps)
               PROVE  /\ result' = "running" => \E k, x, r : Along(L, g, k, x, r)'
                      /\ result' = "ok" =>
                             g[MaxSteps] = [at |-> resolved', rest |-> <<>>, end |-> "ok"]
  BY <1>1, WalkSame DEF WalkInv
<1>3. /\ result = "running" => \E k, x, r : Along(L, g, k, x, r)
      /\ result = "ok" => g[MaxSteps] = [at |-> resolved, rest |-> <<>>, end |-> "ok"]
  BY <1>2 DEF WalkInv
<1>4. CASE NotFound \/ TooMany \/ Cycle \/ NoTarget
  <2>1. result' \in {"notfound", "toomany", "cycle", "notarget"}
    BY <1>4 DEF NotFound, TooMany, Cycle, NoTarget, Return
  <2> QED BY <2>1
<1>5. CASE Descend
  <2>1. result = "running" /\ result' = result
    BY <1>5 DEF Descend, Turn
  <2>2. PICK k, x, r : Along(L, g, k, x, r)
    BY <1>3, <2>1
  <2>3. CASE x = <<>>
    <3>1. Along(L, g, k + 1, <<>>, Tail(r))'
      BY <1>2, <1>5, <2>2, <2>3, DescendFurther
    <3> QED BY <2>1, <3>1
  <2>4. CASE x # <<>>
    <3>1. Along(L, g, k, Tail(x), r)'
      BY <1>5, <2>2, <2>4, DescendAgain
    <3> QED BY <2>1, <3>1
  <2> QED BY <2>3, <2>4
<1>6. CASE FollowLink
  <2>1. result = "running" /\ result' = result
    BY <1>6 DEF FollowLink, IsLink, Turn
  <2>2. PICK k, x, r : Along(L, g, k, x, r)
    BY <1>3, <2>1
  <2>3. x = <<>>
    BY <1>6, <2>2, LinkIsNew
  <2>4. \E m, y, s : Along(L, g, m, y, s)'
    BY <1>2, <1>6, <2>2, <2>3, FollowAlong
  <2> QED BY <2>1, <2>4
<1>7. CASE Finish
  <2>1. result = "running" /\ result' = "ok"
    BY <1>7 DEF Finish, Return
  <2>2. PICK k, x, r : Along(L, g, k, x, r)
    BY <1>3, <2>1
  <2> QED BY <1>2, <1>7, <2>1, <2>2, FinishIsEnd
<1>8. CASE UNCHANGED vars
  <2>1. UNCHANGED <<fs, pending, resolved, followed_links, request, result>>
    BY <1>8 DEF vars
  <2> QED BY <1>3, <2>1 DEF Along
<1> QED BY <1>4, <1>5, <1>6, <1>7, <1>8 DEF Next

LEMMA WalkInvGivesOk ==
    ASSUME NEW L, WalkInv(L) PROVE OkIsRight
<1>1. PICK g : IsWalk(g, MaxSteps) /\ Walk = g[MaxSteps]
  BY WalkIs
<1>2. result = "ok" => g[MaxSteps] = [at |-> resolved, rest |-> <<>>, end |-> "ok"]
  BY <1>1 DEF WalkInv
<1> QED BY <1>1, <1>2 DEF OkIsRight

(***************************************************************************)
(* A path resolve_path returns is the one the walk through the links ends  *)
(* at, in every file system and for every request, if in the targets of    *)
(* the links ".." only comes first and the reference walks far enough to   *)
(* follow MAX_SYMLINKS of them.                                            *)
(***************************************************************************)
THEOREM ResolvedIsTheWalk ==
    ASSUME PlainTargets, NEW L, StepsSuffice(L)
    PROVE  Spec => []OkIsRight
<1>1. Init => ResolveInv /\ WalkInv(L)
  BY ResolveInvInit, WalkInvInit
<1>2. ResolveInv /\ WalkInv(L) /\ [Next]_vars => (ResolveInv /\ WalkInv(L))'
  BY ResolveInvStep, WalkInvStep
<1>3. WalkInv(L) => OkIsRight
  BY WalkInvGivesOk
<1> QED BY <1>1, <1>2, <1>3, PTL DEF Spec
=============================================================================
