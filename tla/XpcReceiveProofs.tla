------------------------- MODULE XpcReceiveProofs -------------------------
(***************************************************************************)
(* Proofs about receiving on a RemoteXPC connection, for any channels and  *)
(* messages, any windows, and every way of cutting messages into frames,   *)
(* frames into reads, and receives by dropping them.                       *)
(*                                                                         *)
(* The argument: the bytes of a channel between what its messages have     *)
(* used and what the device has sent lie, in order and without a gap, in   *)
(* partial, then in the payloads of cache, then in the channel's frames in *)
(* recv_buf and the socket.  Positions in the channel mark where one piece *)
(* ends and the next begins (Path); partial begins with a message.         *)
(***************************************************************************)
EXTENDS XpcReceive, WellFoundedInduction, SequenceTheorems, TLAPS

(* A sequence whose elements lead, each by the relation R, from x to y.    *)
Path(R, s, x, y) ==
    \E p \in [0 .. Len(s) -> Int] :
        /\ p[0] = x /\ p[Len(s)] = y
        /\ \A i \in 1 .. Len(s) : <<p[i - 1], s[i], p[i]>> \in R

Byte    == Nat \X Nat
Payload == Seq(Byte)
Frames  == [stream : Channels, bytes : Payload]
Coming  == recv_buf \o wire

(* From a to b on channel c; a frame of another channel moves nothing.     *)
Slice(c, a, b) == SubSeq(Bytes[c], a + 1, b)
Span(c) == {x \in (0 .. Len(Bytes[c])) \X (0 .. Len(Bytes[c])) : x[1] <= x[2]}
Pieces(c) == {<<x[1], Slice(c, x[1], x[2]), x[2]>> : x \in Span(c)}
Carried(c) ==
    {x \in Int \X Frames \X Int :
        IF x[2].stream = c THEN <<x[1], x[2].bytes, x[3]>> \in Pieces(c) ELSE x[1] = x[3]}

(* The frames of the channels in S add up.                                 *)
Sums(S) == {x \in Int \X Frames \X Int : x[3] = x[1] + Share(x[2], S)}

(* Where message m + 1 of a channel begins.                                *)
Begin(c, m) == Len(BytesUpTo(c)[m])

(* m messages have been taken; partial holds the bytes from there to x.    *)
Taken(c, m, x) ==
    /\ m \in 0 .. Len(Script[c]) /\ x \in Begin(c, m) .. Len(Bytes[c])
    /\ partial[c] = Slice(c, Begin(c, m), x)
    /\ returned[c] = Queues!BodiesUpTo(c)[m]

ChannelAt(c, m, x, y) ==
    /\ Taken(c, m, x)
    /\ Path(Pieces(c), cache[c], x, y)
    /\ Path(Carried(c), Coming, y, sent[c])

ChannelLine == \A c \in Channels : \E m, x, y \in Int : ChannelAt(c, m, x, y)

CreditLine ==
    /\ Path(Sums(Channels), Coming, 0, ConnWindow - rconn)
    /\ \A c \in Channels : Path(Sums({c}), Coming, 0, StreamWindow - rwin[c])

TypeOK ==
    /\ partial \in [Channels -> Payload] /\ cache \in [Channels -> Seq(Payload)]
    /\ recv_buf \in Seq(Frames) /\ wire \in Seq(Frames)
    /\ pc \in {"idle", "recv", "read", "send"} /\ op \in Seq(Channels) /\ at \in Nat \ {0}
    /\ pc \in {"idle", "send"} => op = <<>>
    /\ returned \in [Channels -> Seq(Nat)] /\ malformed = FALSE
    /\ sent \in [Channels -> Int] /\ rwin \in [Channels -> Int] /\ rconn \in Int
    /\ \A c \in Channels : sent[c] \in 0 .. Len(Bytes[c])

ReceiveInv == TypeOK /\ ChannelLine /\ CreditLine

-----------------------------------------------------------------------------
(* Paths                                                                   *)

LEMMA PathEmpty ==
    ASSUME NEW R, NEW x \in Int PROVE Path(R, <<>>, x, x)
<1> DEFINE p == [i \in 0 .. 0 |-> x]
<1>1. p \in [0 .. Len(<<>>) -> Int] /\ p[0] = x /\ p[Len(<<>>)] = x
  OBVIOUS
<1>2. \A i \in 1 .. Len(<<>>) : <<p[i - 1], <<>>[i], p[i]>> \in R
  OBVIOUS
<1> HIDE DEF p
<1> QED BY <1>1, <1>2 DEF Path

LEMMA PathAppend ==
    ASSUME NEW R, NEW E, NEW s \in Seq(E), NEW e \in E, NEW x \in Int, NEW y \in Int,
           NEW z \in Int, Path(R, s, x, y), <<y, e, z>> \in R
    PROVE  Path(R, Append(s, e), x, z)
<1>1. PICK p \in [0 .. Len(s) -> Int] :
        /\ p[0] = x /\ p[Len(s)] = y
        /\ \A i \in 1 .. Len(s) : <<p[i - 1], s[i], p[i]>> \in R
  BY DEF Path
<1> DEFINE t == Append(s, e)
           q == [i \in 0 .. Len(t) |-> IF i = Len(t) THEN z ELSE p[i]]
<1>2. /\ Len(s) \in Nat /\ Len(t) = Len(s) + 1
      /\ t[Len(s) + 1] = e /\ \A i \in 1 .. Len(s) : t[i] = s[i]
  BY AppendProperties
<1> HIDE DEF t
<1>3. q \in [0 .. Len(t) -> Int] /\ q[0] = x /\ q[Len(t)] = z
  BY <1>1, <1>2
<1>4. ASSUME NEW i \in 1 .. Len(t) PROVE <<q[i - 1], t[i], q[i]>> \in R
  <2>1. CASE i = Len(t)
    <3>1. q[i - 1] = y /\ q[i] = z /\ t[i] = e
      BY <1>1, <1>2, <2>1
    <3> QED BY <3>1
  <2>2. CASE i # Len(t)
    <3>1. i \in 1 .. Len(s) /\ q[i - 1] = p[i - 1] /\ q[i] = p[i] /\ t[i] = s[i]
      BY <1>2, <2>2
    <3> QED BY <1>1, <3>1
  <2> QED BY <2>1, <2>2
<1> HIDE DEF q
<1>5. Path(R, t, x, z)
  BY <1>3, <1>4 DEF Path
<1> QED BY <1>5 DEF t

LEMMA PathTail ==
    ASSUME NEW R, NEW E, NEW s \in Seq(E), s # <<>>, NEW x \in Int, NEW z \in Int,
           Path(R, s, x, z)
    PROVE  \E y \in Int : <<x, Head(s), y>> \in R /\ Path(R, Tail(s), y, z)
<1>1. PICK p \in [0 .. Len(s) -> Int] :
        /\ p[0] = x /\ p[Len(s)] = z
        /\ \A i \in 1 .. Len(s) : <<p[i - 1], s[i], p[i]>> \in R
  BY DEF Path
<1> DEFINE t == Tail(s)
           q == [i \in 0 .. Len(t) |-> p[i + 1]]
<1>2. /\ Len(s) \in Nat \ {0} /\ Len(t) = Len(s) - 1
      /\ Head(s) = s[1] /\ \A i \in 1 .. Len(t) : t[i] = s[i + 1]
  BY EmptySeq, HeadTailProperties
<1> HIDE DEF t
<1>3. p[1] \in Int /\ <<x, Head(s), p[1]>> \in R
  <2>1. 1 \in 1 .. Len(s) /\ 1 \in 0 .. Len(s) /\ 1 - 1 = 0
    BY <1>2
  <2>2. <<p[1 - 1], s[1], p[1]>> \in R
    BY <1>1, <2>1
  <2> QED BY <1>1, <1>2, <2>1, <2>2
<1>4. q \in [0 .. Len(t) -> Int] /\ q[0] = p[1] /\ q[Len(t)] = z
  BY <1>1, <1>2
<1>5. ASSUME NEW i \in 1 .. Len(t) PROVE <<q[i - 1], t[i], q[i]>> \in R
  <2>1. i + 1 \in 1 .. Len(s) /\ i - 1 \in 0 .. Len(t) /\ (i - 1) + 1 = (i + 1) - 1
    BY <1>2
  <2>2. q[i - 1] = p[(i + 1) - 1] /\ q[i] = p[i + 1] /\ t[i] = s[i + 1]
    BY <1>2, <2>1
  <2> QED BY <1>1, <2>1, <2>2
<1> HIDE DEF q
<1>6. Path(R, t, p[1], z)
  BY <1>4, <1>5 DEF Path
<1> QED BY <1>3, <1>6 DEF t

(* Sums may start anywhere.                                                *)
LEMMA SumsShift ==
    ASSUME NEW S, NEW s \in Seq(Frames), NEW x \in Int, NEW y \in Int, NEW d \in Int,
           Path(Sums(S), s, x, y)
    PROVE  Path(Sums(S), s, x + d, y + d)
<1>1. PICK p \in [0 .. Len(s) -> Int] :
        /\ p[0] = x /\ p[Len(s)] = y
        /\ \A i \in 1 .. Len(s) : <<p[i - 1], s[i], p[i]>> \in Sums(S)
  BY DEF Path
<1> DEFINE q == [i \in 0 .. Len(s) |-> p[i] + d]
<1>2. Len(s) \in Nat /\ q \in [0 .. Len(s) -> Int] /\ q[0] = x + d /\ q[Len(s)] = y + d
  BY <1>1
<1>3. ASSUME NEW i \in 1 .. Len(s) PROVE <<q[i - 1], s[i], q[i]>> \in Sums(S)
  <2>1. /\ p[i] \in Int /\ p[i - 1] \in Int /\ s[i] \in Frames
        /\ p[i] = p[i - 1] + Share(s[i], S)
    BY <1>1, <1>2 DEF Sums
  <2>2. Share(s[i], S) \in Int
    BY <2>1 DEF Share, Frames, Payload
  <2>3. q[i] = p[i] + d /\ q[i - 1] = p[i - 1] + d
    BY <1>2
  <2>4. q[i] = q[i - 1] + Share(s[i], S) /\ q[i] \in Int /\ q[i - 1] \in Int
    BY <2>1, <2>2, <2>3
  <2> QED BY <2>1, <2>4 DEF Sums
<1> HIDE DEF q
<1> QED BY <1>2, <1>3 DEF Path

-----------------------------------------------------------------------------
(* Recursive functions on an interval: they exist, and what they compute   *)
(* is proved by a least counterexample.                                    *)

LEMMA LeastNumber ==
    ASSUME NEW T, T \subseteq Nat, T # {}
    PROVE  \E n \in T : \A m \in T : ~(m < n)
<1> DEFINE R == {p \in Nat \X Nat : p[1] < p[2]}
<1>1. IsWellFoundedOn(R, Nat)
  <2>1. IsWellFoundedOn(OpToRel(<, Nat), Nat)
    BY NatLessThanWellFounded
  <2>2. OpToRel(<, Nat) = R
    BY DEF OpToRel
  <2> QED BY <2>1, <2>2
<1>2. \E n \in T : \A m \in T : ~ (<<m, n>> \in R)
  BY <1>1, WFMin
<1> QED BY <1>2

(* f starts with b and goes on by the functions of G.                      *)
Iterates(f, b, G, n) == f[0] = b /\ \A i \in 1 .. n : f[i] = G[i][f[i - 1]]

LEMMA Iteration ==
    ASSUME NEW S, NEW b \in S, NEW n \in Nat, NEW G \in [1 .. n -> [S -> S]]
    PROVE  \E f \in [0 .. n -> S] : Iterates(f, b, G, n)
<1> DEFINE Good(k) == \E f \in [0 .. k -> S] : Iterates(f, b, G, k)
           T == {k \in 0 .. n : ~Good(k)}
<1>1. SUFFICES ASSUME T # {} PROVE FALSE
  OBVIOUS
<1>2. PICK k \in T : \A m \in T : ~(m < k)
  <2>1. T \subseteq Nat
    OBVIOUS
  <2> HIDE DEF T
  <2> QED BY <1>1, <2>1, LeastNumber
<1>3. k \in 0 .. n /\ ~Good(k)
  BY <1>2
<1>4. CASE k = 0
  <2> DEFINE f == [i \in 0 .. 0 |-> b]
  <2>1. f \in [0 .. 0 -> S] /\ Iterates(f, b, G, 0)
    BY DEF Iterates
  <2> QED BY <1>3, <1>4, <2>1
<1>5. CASE k # 0
  <2>1. k - 1 \in 0 .. n /\ k - 1 < k /\ k \in 1 .. n
    BY <1>3, <1>5
  <2>2. Good(k - 1)
    BY <1>2, <2>1
  <2>3. PICK g \in [0 .. k - 1 -> S] : Iterates(g, b, G, k - 1)
    BY <2>2
  <2> DEFINE f == [i \in 0 .. k |-> IF i = k THEN G[k][g[k - 1]] ELSE g[i]]
  <2>4. g[k - 1] \in S /\ G[k][g[k - 1]] \in S
    BY <2>1, <2>3
  <2>5. f \in [0 .. k -> S] /\ f[0] = b
    BY <2>1, <2>3, <2>4 DEF Iterates
  <2>6. ASSUME NEW i \in 1 .. k PROVE f[i] = G[i][f[i - 1]]
    <3>1. i - 1 \in 0 .. k - 1 /\ i - 1 # k
      BY <2>1
    <3>2. f[i - 1] = g[i - 1]
      BY <2>1, <3>1
    <3>3. CASE i = k
      BY <3>2, <3>3
    <3>4. CASE i # k
      <4>1. i \in 1 .. k - 1
        BY <2>1, <3>4
      <4>2. f[i] = g[i] /\ g[i] = G[i][g[i - 1]]
        BY <2>3, <4>1, <3>4 DEF Iterates
      <4> QED BY <3>2, <4>2
    <3> QED BY <3>3, <3>4
  <2> HIDE DEF f
  <2>7. Iterates(f, b, G, k)
    BY <2>5, <2>6 DEF Iterates
  <2> QED BY <1>3, <2>5, <2>7
<1> QED BY <1>4, <1>5

LEMMA StaysIn ==
    ASSUME NEW S, NEW n \in Nat, NEW f, f[0] \in S,
           \A i \in 1 .. n : f[i - 1] \in S => f[i] \in S
    PROVE  \A i \in 0 .. n : f[i] \in S
<1> DEFINE T == {k \in 0 .. n : f[k] \notin S}
<1>1. SUFFICES ASSUME T # {} PROVE FALSE
  OBVIOUS
<1>2. PICK k \in T : \A m \in T : ~(m < k)
  <2>1. T \subseteq Nat
    OBVIOUS
  <2> HIDE DEF T
  <2> QED BY <1>1, <2>1, LeastNumber
<1>3. k \in 1 .. n /\ k - 1 \in 0 .. n /\ k - 1 < k /\ f[k] \notin S
  BY <1>2
<1>4. f[k - 1] \in S
  BY <1>2, <1>3
<1> QED BY <1>3, <1>4

(* Two sums with the same terms.                                           *)
LEMMA SumsAgree ==
    ASSUME NEW n \in Nat, NEW f \in [0 .. n -> Int], NEW g \in [0 .. n -> Int], f[0] = g[0],
           \A i \in 1 .. n : f[i] - f[i - 1] = g[i] - g[i - 1]
    PROVE  f[n] = g[n]
<1> DEFINE T == {k \in 0 .. n : f[k] # g[k]}
<1>1. SUFFICES ASSUME T # {} PROVE FALSE
  OBVIOUS
<1>2. PICK k \in T : \A m \in T : ~(m < k)
  <2>1. T \subseteq Nat
    OBVIOUS
  <2> HIDE DEF T
  <2> QED BY <1>1, <2>1, LeastNumber
<1>3. k \in 1 .. n /\ k - 1 \in 0 .. n /\ k - 1 < k /\ f[k] # g[k]
  BY <1>2
<1>4. f[k - 1] = g[k - 1]
  BY <1>2, <1>3
<1>5. f[k] \in Int /\ g[k] \in Int /\ g[k - 1] \in Int /\ f[k] - f[k - 1] = g[k] - g[k - 1]
  BY <1>3
<1> QED BY <1>3, <1>4, <1>5

(* Sequences of which each continues the one before.                       *)
Begins(s, t) == Len(s) <= Len(t) /\ \A j \in 1 .. Len(s) : t[j] = s[j]

LEMMA Grows ==
    ASSUME NEW n \in Nat, NEW E, NEW f \in [0 .. n -> Seq(E)],
           \A i \in 1 .. n : Begins(f[i - 1], f[i]), NEW m \in 0 .. n, NEW k \in m .. n
    PROVE  Begins(f[m], f[k])
<1> DEFINE T == {i \in m .. n : ~Begins(f[m], f[i])}
<1>1. SUFFICES ASSUME T # {} PROVE FALSE
  OBVIOUS
<1>2. T \subseteq Nat
  OBVIOUS
<1>3. PICK i \in T : \A j \in T : ~(j < i)
  BY <1>1, <1>2, LeastNumber
<1>4. i \in m .. n /\ ~Begins(f[m], f[i])
  BY <1>3
<1>5. f[m] \in Seq(E) /\ Len(f[m]) \in Nat
  OBVIOUS
<1>6. CASE i = m
  BY <1>4, <1>5, <1>6 DEF Begins
<1>7. CASE i # m
  <2>1. i \in 1 .. n /\ i - 1 \in m .. n /\ i - 1 < i
    BY <1>4, <1>7
  <2>2. Begins(f[m], f[i - 1]) /\ Begins(f[i - 1], f[i])
    BY <1>3, <2>1
  <2>3. f[i] \in Seq(E) /\ f[i - 1] \in Seq(E) /\ Len(f[i]) \in Nat /\ Len(f[i - 1]) \in Nat
    BY <2>1
  <2>4. Begins(f[m], f[i])
    BY <1>5, <2>2, <2>3 DEF Begins
  <2> QED BY <1>4, <2>4
<1> QED BY <1>6, <1>7

-----------------------------------------------------------------------------
(* What the model's recursive definitions compute                          *)

LEMMA ShareType ==
    ASSUME NEW f \in Frames, NEW S PROVE Share(f, S) \in Nat
  BY DEF Share, Frames, Payload

LEMMA TotalIs ==
    ASSUME NEW s \in Seq(Frames), NEW S
    PROVE  \E f \in [0 .. Len(s) -> Int] :
               /\ f[0] = 0 /\ Total(s, S) = f[Len(s)]
               /\ \A i \in 1 .. Len(s) : f[i] = f[i - 1] + Share(s[i], S)
<1> DEFINE upto[n \in 0 .. Len(s)] == IF n = 0 THEN 0 ELSE upto[n - 1] + Share(s[n], S)
           IsSum(f) == f = [n \in 0 .. Len(s) |-> IF n = 0 THEN 0
                                                  ELSE f[n - 1] + Share(s[n], S)]
           G == [i \in 1 .. Len(s) |-> [x \in Int |-> x + Share(s[i], S)]]
<1>1. Len(s) \in Nat /\ \A i \in 1 .. Len(s) : Share(s[i], S) \in Int
  BY ShareType
<1>2. G \in [1 .. Len(s) -> [Int -> Int]]
  BY <1>1
<1>3. PICK f \in [0 .. Len(s) -> Int] : Iterates(f, 0, G, Len(s))
  <2>1. 0 \in Int
    OBVIOUS
  <2> HIDE DEF G
  <2> QED BY <1>1, <1>2, <2>1, Iteration
<1>4. f[0] = 0 /\ \A i \in 1 .. Len(s) : f[i] = f[i - 1] + Share(s[i], S)
  <2>1. ASSUME NEW i \in 1 .. Len(s) PROVE f[i] = f[i - 1] + Share(s[i], S)
    <3>1. f[i - 1] \in Int
      BY <1>1
    <3>2. f[i] = G[i][f[i - 1]]
      <4> HIDE DEF G
      <4> QED BY <1>3 DEF Iterates
    <3> QED BY <3>1, <3>2
  <2> QED BY <1>3, <2>1 DEF Iterates
<1>5. IsSum(f)
  <2>1. \A n \in 0 .. Len(s) : f[n] = IF n = 0 THEN 0 ELSE f[n - 1] + Share(s[n], S)
    BY <1>1, <1>4
  <2>2. f = [n \in 0 .. Len(s) |-> f[n]]
    BY <1>3
  <2> QED BY <2>1, <2>2
<1>6. upto = CHOOSE g : IsSum(g)
  OBVIOUS
<1>7. IsSum(upto)
  <2> HIDE DEF upto, IsSum
  <2> QED BY <1>5, <1>6
<1>8. Total(s, S) = upto[Len(s)]
  BY DEF Total
<1> HIDE DEF upto
<1>9. upto[0] = 0 /\ \A i \in 1 .. Len(s) : upto[i] = upto[i - 1] + Share(s[i], S)
  BY <1>1, <1>7
<1>10. \A i \in 0 .. Len(s) : upto[i] \in Int
  <2>1. upto[0] \in Int /\ \A i \in 1 .. Len(s) : upto[i - 1] \in Int => upto[i] \in Int
    BY <1>1, <1>9
  <2> QED BY <1>1, <2>1, StaysIn
<1>11. upto \in [0 .. Len(s) -> Int]
  BY <1>7, <1>10
<1> QED BY <1>8, <1>9, <1>11

(* UnreadBytes is where the path of the sums ends.                         *)
LEMMA TotalOfPath ==
    ASSUME NEW s \in Seq(Frames), NEW S, NEW y \in Int, Path(Sums(S), s, 0, y)
    PROVE  Total(s, S) = y
<1>1. PICK p \in [0 .. Len(s) -> Int] :
        /\ p[0] = 0 /\ p[Len(s)] = y
        /\ \A i \in 1 .. Len(s) : <<p[i - 1], s[i], p[i]>> \in Sums(S)
  BY DEF Path
<1>2. PICK f \in [0 .. Len(s) -> Int] :
        /\ f[0] = 0 /\ Total(s, S) = f[Len(s)]
        /\ \A i \in 1 .. Len(s) : f[i] = f[i - 1] + Share(s[i], S)
  BY TotalIs
<1>3. Len(s) \in Nat
  OBVIOUS
<1>4. ASSUME NEW i \in 1 .. Len(s) PROVE f[i] - f[i - 1] = p[i] - p[i - 1]
  <2>1. p[i] = p[i - 1] + Share(s[i], S) /\ f[i] = f[i - 1] + Share(s[i], S)
    BY <1>1, <1>2 DEF Sums
  <2>2. p[i - 1] \in Int /\ f[i - 1] \in Int /\ Share(s[i], S) \in Nat
    BY <1>3, ShareType
  <2> QED BY <2>1, <2>2
<1>5. f[Len(s)] = p[Len(s)]
  BY <1>1, <1>2, <1>3, <1>4, SumsAgree
<1> QED BY <1>1, <1>2, <1>5

LEMMA ScriptType ==
    ASSUME NEW c \in Channels
    PROVE  /\ Len(Script[c]) \in Nat /\ DOMAIN Script[c] = 1 .. Len(Script[c])
           /\ \A k \in 1 .. Len(Script[c]) :
                  /\ Script[c][k].len \in Nat \ {0} /\ Script[c][k].len >= XPC_WRAPPER_LEN
                  /\ Script[c][k].body \in BOOLEAN
<1>1. Script[c] \in Seq([len : Nat, body : BOOLEAN])
  BY ScriptAssumption
<1>2. Len(Script[c]) \in Nat /\ DOMAIN Script[c] = 1 .. Len(Script[c])
  BY <1>1
<1>3. ASSUME NEW k \in 1 .. Len(Script[c])
      PROVE  /\ Script[c][k].len \in Nat \ {0} /\ Script[c][k].len >= XPC_WRAPPER_LEN
             /\ Script[c][k].body \in BOOLEAN
  <2>1. Script[c][k] \in [len : Nat, body : BOOLEAN]
    BY <1>1, ElementOfSeq
  <2>2. Script[c][k].len >= XPC_WRAPPER_LEN /\ XPC_WRAPPER_LEN \in Nat \ {0}
    BY <1>2, ScriptAssumption, WindowsAssumption
  <2> QED BY <2>1, <2>2
<1> QED BY <1>2, <1>3

LEMMA MessageType ==
    ASSUME NEW c \in Channels, NEW k \in 1 .. Len(Script[c])
    PROVE  /\ Message(c, k) \in Payload /\ Len(Message(c, k)) = Script[c][k].len
           /\ \A i \in 1 .. Script[c][k].len : Message(c, k)[i] = <<k, i>>
<1>1. Script[c][k].len \in Nat /\ k \in Nat
  BY ScriptType
<1>2. \A i \in 1 .. Script[c][k].len : <<k, i>> \in Byte
  BY <1>1 DEF Byte
<1>3. Message(c, k) \in [1 .. Script[c][k].len -> Byte]
  BY <1>2 DEF Message
<1>4. Message(c, k) \in Payload /\ Len(Message(c, k)) = Script[c][k].len
  <2>1. Message(c, k) \in UNION {[1 .. n -> Byte] : n \in Nat}
    BY <1>1, <1>3
  <2>2. Message(c, k) \in Seq(Byte)
    BY <2>1, SeqDef
  <2>3. DOMAIN Message(c, k) = 1 .. Script[c][k].len
    BY DEF Message
  <2>4. DOMAIN Message(c, k) = 1 .. Len(Message(c, k)) /\ Len(Message(c, k)) \in Nat
    BY <2>2, LenProperties
  <2>5. Len(Message(c, k)) = Script[c][k].len
    BY <1>1, <2>3, <2>4
  <2> QED BY <2>2, <2>5 DEF Payload
<1> QED BY <1>4 DEF Message

LEMMA BytesUpToIs ==
    ASSUME NEW c \in Channels
    PROVE  /\ BytesUpTo(c) \in [0 .. Len(Script[c]) -> Payload]
           /\ BytesUpTo(c)[0] = <<>>
           /\ \A k \in 1 .. Len(Script[c]) :
                  BytesUpTo(c)[k] = BytesUpTo(c)[k - 1] \o Message(c, k)
<1> DEFINE N == Len(Script[c])
           upto[k \in 0 .. N] == IF k = 0 THEN <<>> ELSE upto[k - 1] \o Message(c, k)
           Is(f) == f = [k \in 0 .. N |-> IF k = 0 THEN <<>> ELSE f[k - 1] \o Message(c, k)]
           G == [k \in 1 .. N |-> [x \in Payload |-> x \o Message(c, k)]]
<1>1. N \in Nat /\ <<>> \in Payload
  BY ScriptType, EmptySeq DEF Payload
<1>2. \A k \in 1 .. N : k \in 0 .. N /\ k - 1 \in 0 .. N /\ k # 0
  <2> HIDE DEF N
  <2> QED BY <1>1
<1>3. ASSUME NEW k \in 1 .. N, NEW x \in Payload PROVE x \o Message(c, k) \in Payload
  BY MessageType, ConcatProperties DEF Payload
<1>4. G \in [1 .. N -> [Payload -> Payload]]
  BY <1>3
<1>5. PICK f \in [0 .. N -> Payload] : Iterates(f, <<>>, G, N)
  <2> HIDE DEF G, N
  <2> QED BY <1>1, <1>4, Iteration
<1>6. Is(f)
  <2>1. ASSUME NEW k \in 1 .. N PROVE f[k] = f[k - 1] \o Message(c, k)
    <3>1. f[k - 1] \in Payload
      <4> HIDE DEF N
      <4> QED BY <1>2, <1>5
    <3>2. f[k] = G[k][f[k - 1]]
      <4> HIDE DEF G
      <4> QED BY <1>5 DEF Iterates
    <3> QED BY <3>1, <3>2
  <2>2. \A k \in 0 .. N : f[k] = IF k = 0 THEN <<>> ELSE f[k - 1] \o Message(c, k)
    <3>1. \A k \in 0 .. N : k # 0 => k \in 1 .. N
      <4> HIDE DEF N
      <4> QED BY <1>1
    <3> HIDE DEF N, G
    <3> QED BY <1>5, <2>1, <3>1 DEF Iterates
  <2>3. f = [k \in 0 .. N |-> f[k]]
    BY <1>5
  <2> QED BY <2>2, <2>3
<1>7. BytesUpTo(c) = upto /\ upto = CHOOSE g : Is(g)
  BY DEF BytesUpTo
<1>8. Is(upto)
  <2> HIDE DEF upto, Is
  <2> QED BY <1>6, <1>7
<1> HIDE DEF upto, G
<1>9. upto[0] = <<>> /\ \A k \in 1 .. N : upto[k] = upto[k - 1] \o Message(c, k)
  <2>1. 0 \in 0 .. N
    <3> HIDE DEF N
    <3> QED BY <1>1
  <2> HIDE DEF N
  <2> QED BY <1>2, <1>8, <2>1
<1>10. \A k \in 0 .. N : upto[k] \in Payload
  <2>1. upto[0] \in Payload /\ \A k \in 1 .. N : upto[k - 1] \in Payload => upto[k] \in Payload
    <3> HIDE DEF N
    <3> QED BY <1>1, <1>3, <1>9
  <2> HIDE DEF N
  <2> QED BY <1>1, <2>1, StaysIn
<1>11. upto \in [0 .. N -> Payload]
  BY <1>8, <1>10
<1> QED BY <1>7, <1>9, <1>11

LEMMA BodiesUpToIs ==
    ASSUME NEW c \in Channels
    PROVE  /\ Queues!BodiesUpTo(c) \in [0 .. Len(Script[c]) -> Seq(Nat)]
           /\ Queues!BodiesUpTo(c)[0] = <<>>
           /\ \A k \in 1 .. Len(Script[c]) :
                  Queues!BodiesUpTo(c)[k] =
                      IF Script[c][k].body THEN Append(Queues!BodiesUpTo(c)[k - 1], k)
                      ELSE Queues!BodiesUpTo(c)[k - 1]
<1> DEFINE N == Len(Script[c])
           More(k, x) == IF Script[c][k].body THEN Append(x, k) ELSE x
           upto[k \in 0 .. N] ==
               IF k = 0 THEN <<>>
               ELSE IF Script[c][k].body THEN Append(upto[k - 1], k) ELSE upto[k - 1]
           Is(f) == f = [k \in 0 .. N |->
                            IF k = 0 THEN <<>>
                            ELSE IF Script[c][k].body THEN Append(f[k - 1], k) ELSE f[k - 1]]
           G == [k \in 1 .. N |-> [x \in Seq(Nat) |-> More(k, x)]]
<1>1. N \in Nat /\ <<>> \in Seq(Nat)
  BY ScriptType, EmptySeq
<1>2. \A k \in 1 .. N : k \in 0 .. N /\ k - 1 \in 0 .. N /\ k # 0
  <2> HIDE DEF N
  <2> QED BY <1>1
<1>3. ASSUME NEW k \in 1 .. N, NEW x \in Seq(Nat) PROVE More(k, x) \in Seq(Nat)
  BY <1>1
<1>4. G \in [1 .. N -> [Seq(Nat) -> Seq(Nat)]]
  BY <1>3
<1>5. PICK f \in [0 .. N -> Seq(Nat)] : Iterates(f, <<>>, G, N)
  <2> HIDE DEF G, N
  <2> QED BY <1>1, <1>4, Iteration
<1>6. Is(f)
  <2>1. ASSUME NEW k \in 1 .. N PROVE f[k] = More(k, f[k - 1])
    <3>1. f[k - 1] \in Seq(Nat)
      <4> HIDE DEF N
      <4> QED BY <1>2, <1>5
    <3>2. f[k] = G[k][f[k - 1]]
      <4> HIDE DEF G
      <4> QED BY <1>5 DEF Iterates
    <3> QED BY <3>1, <3>2
  <2>2. \A k \in 0 .. N : f[k] = IF k = 0 THEN <<>> ELSE More(k, f[k - 1])
    <3>1. \A k \in 0 .. N : k # 0 => k \in 1 .. N
      <4> HIDE DEF N
      <4> QED BY <1>1
    <3> HIDE DEF N, G
    <3> QED BY <1>5, <2>1, <3>1 DEF Iterates
  <2>3. f = [k \in 0 .. N |-> f[k]]
    BY <1>5
  <2> QED BY <2>2, <2>3
<1>7. Queues!BodiesUpTo(c) = upto /\ upto = CHOOSE g : Is(g)
  BY DEF Queues!BodiesUpTo
<1>8. Is(upto)
  <2> HIDE DEF upto, Is
  <2> QED BY <1>6, <1>7
<1> HIDE DEF upto, G
<1>9. upto[0] = <<>> /\ \A k \in 1 .. N : upto[k] = More(k, upto[k - 1])
  <2>1. 0 \in 0 .. N
    <3> HIDE DEF N
    <3> QED BY <1>1
  <2> HIDE DEF N
  <2> QED BY <1>2, <1>8, <2>1
<1>10. \A k \in 0 .. N : upto[k] \in Seq(Nat)
  <2>1. upto[0] \in Seq(Nat) /\ \A k \in 1 .. N : upto[k - 1] \in Seq(Nat) => upto[k] \in Seq(Nat)
    <3> HIDE DEF N, More
    <3> QED BY <1>1, <1>3, <1>9
  <2> HIDE DEF N
  <2> QED BY <1>1, <2>1, StaysIn
<1>11. upto \in [0 .. N -> Seq(Nat)]
  BY <1>8, <1>10
<1> QED BY <1>7, <1>9, <1>11

(* Message m + 1 of a channel lies in its bytes from Begin(c, m) on.       *)
LEMMA BeginIs ==
    ASSUME NEW c \in Channels
    PROVE  /\ Bytes[c] \in Payload /\ Begin(c, 0) = 0 /\ Begin(c, Len(Script[c])) = Len(Bytes[c])
           /\ \A m \in 0 .. Len(Script[c]) : Begin(c, m) \in 0 .. Len(Bytes[c])
           /\ \A m \in 0 .. Len(Script[c]) - 1 :
                  /\ Begin(c, m + 1) = Begin(c, m) + Script[c][m + 1].len
                  /\ \A i \in 1 .. Script[c][m + 1].len :
                         Bytes[c][Begin(c, m) + i] = <<m + 1, i>>
<1> DEFINE N == Len(Script[c])
           f == BytesUpTo(c)
<1>1. N \in Nat
  BY ScriptType
<1>2. /\ f \in [0 .. N -> Seq(Byte)] /\ f[0] = <<>>
      /\ \A k \in 1 .. N : f[k] = f[k - 1] \o Message(c, k)
  BY BytesUpToIs DEF Payload
<1>3. \A k \in 1 .. N : /\ Message(c, k) \in Seq(Byte) /\ Len(Message(c, k)) = Script[c][k].len
                        /\ \A i \in 1 .. Script[c][k].len : Message(c, k)[i] = <<k, i>>
  BY MessageType DEF Payload
<1>4. Bytes[c] = f[N]
  BY DEF Bytes
<1>5. \A m \in 0 .. N : Begin(c, m) = Len(f[m])
  BY DEF Begin
<1> HIDE DEF N, f
<1>6. ASSUME NEW k \in 1 .. N
      PROVE  /\ k - 1 \in 0 .. N /\ Len(f[k]) = Len(f[k - 1]) + Script[c][k].len
             /\ Len(f[k - 1]) \in Nat /\ Script[c][k].len \in Nat
             /\ \A j \in 1 .. Len(f[k - 1]) : f[k][j] = f[k - 1][j]
             /\ \A i \in 1 .. Script[c][k].len : f[k][Len(f[k - 1]) + i] = <<k, i>>
  <2>1. k - 1 \in 0 .. N /\ k \in 0 .. N
    BY <1>1
  <2>2. f[k - 1] \in Seq(Byte) /\ f[k] = f[k - 1] \o Message(c, k)
    BY <1>2, <2>1
  <2> DEFINE a == Len(f[k - 1])  l == Script[c][k].len
  <2>3. /\ Len(f[k]) = a + l /\ a \in Nat /\ l \in Nat
        /\ \A j \in 1 .. a + l : f[k][j] = IF j <= a THEN f[k - 1][j] ELSE Message(c, k)[j - a]
    <3>1. Message(c, k) \in Seq(Byte) /\ Len(Message(c, k)) = l
      BY <1>3
    <3>2. Len(f[k - 1]) \in Nat /\ Len(Message(c, k)) \in Nat
      BY <2>2, <3>1, LenProperties
    <3> DEFINE u == f[k - 1]  w == Message(c, k)
    <3>3. u \in Seq(Byte) /\ w \in Seq(Byte) /\ Len(u) = a /\ Len(w) = l /\ f[k] = u \o w
      BY <2>2, <3>1
    <3>4. a \in Nat /\ l \in Nat
      BY <3>1, <3>2
    <3> HIDE DEF u, w, a, l
    <3>5. /\ Len(u \o w) = a + l
          /\ \A j \in 1 .. a + l : (u \o w)[j] = IF j <= a THEN u[j] ELSE w[j - a]
      BY <3>3, ConcatProperties
    <3> QED BY <3>3, <3>4, <3>5 DEF u, w
  <2> HIDE DEF a, l
  <2>4. \A j \in 1 .. a : f[k][j] = f[k - 1][j]
    BY <2>3
  <2>5. ASSUME NEW i \in 1 .. l PROVE f[k][a + i] = <<k, i>>
    <3>1. a + i \in 1 .. a + l /\ ~(a + i <= a) /\ (a + i) - a = i
      BY <2>3
    <3>2. f[k][a + i] = Message(c, k)[i]
      BY <2>3, <3>1
    <3> QED BY <1>3, <3>2 DEF l
  <2> QED BY <2>1, <2>3, <2>4, <2>5 DEF a, l
<1>7. ASSUME NEW m \in 0 .. N PROVE Begins(f[m], f[N]) /\ Len(f[m]) \in Nat
  <2>1. ASSUME NEW i \in 1 .. N PROVE Begins(f[i - 1], f[i])
    <3>1. Len(f[i - 1]) <= Len(f[i])
      <4>1. /\ Len(f[i]) = Len(f[i - 1]) + Script[c][i].len
            /\ Len(f[i - 1]) \in Nat /\ Script[c][i].len \in Nat
        BY <1>6
      <4> QED BY <4>1
    <3>2. \A j \in 1 .. Len(f[i - 1]) : f[i][j] = f[i - 1][j]
      BY <1>6
    <3> QED BY <3>1, <3>2 DEF Begins
  <2>2. N \in m .. N
    BY <1>1
  <2>3. Begins(f[m], f[N])
    BY <1>1, <1>2, <2>1, <2>2, Grows
  <2>4. Len(f[m]) \in Nat
    BY <1>2, LenProperties
  <2> QED BY <2>3, <2>4
<1>8. 0 \in 0 .. N /\ N \in 0 .. N
  BY <1>1
<1>9. Bytes[c] \in Payload /\ Begin(c, 0) = 0 /\ Begin(c, N) = Len(Bytes[c])
  <2>1. Len(f[0]) = 0
    BY <1>2
  <2> QED BY <1>2, <1>4, <1>5, <1>8, <2>1 DEF Payload
<1>10. \A m \in 0 .. N : Begin(c, m) \in 0 .. Len(Bytes[c])
  <2> TAKE m \in 0 .. N
  <2>1. Len(f[m]) \in Nat /\ Len(f[N]) \in Nat /\ Len(f[m]) <= Len(f[N])
    BY <1>7, <1>8 DEF Begins
  <2> QED BY <1>4, <1>5, <2>1
<1>11. ASSUME NEW m \in 0 .. N - 1
       PROVE  /\ Begin(c, m + 1) = Begin(c, m) + Script[c][m + 1].len
              /\ \A i \in 1 .. Script[c][m + 1].len :
                     Bytes[c][Begin(c, m) + i] = <<m + 1, i>>
  <2>1. m \in 0 .. N /\ m + 1 \in 0 .. N /\ m + 1 \in 1 .. N /\ (m + 1) - 1 = m
    BY <1>1
  <2>2. /\ Len(f[m + 1]) = Len(f[m]) + Script[c][m + 1].len
        /\ Len(f[m]) \in Nat /\ Script[c][m + 1].len \in Nat
        /\ \A i \in 1 .. Script[c][m + 1].len : f[m + 1][Len(f[m]) + i] = <<m + 1, i>>
    BY <1>6, <2>1
  <2>3. Begin(c, m + 1) = Len(f[m + 1]) /\ Begin(c, m) = Len(f[m])
    BY <1>5, <2>1
  <2>4. Begins(f[m + 1], f[N])
    BY <1>7, <2>1
  <2>5. ASSUME NEW i \in 1 .. Script[c][m + 1].len PROVE f[N][Len(f[m]) + i] = <<m + 1, i>>
    <3>1. Len(f[m]) + i \in 1 .. Len(f[m + 1])
      BY <2>2
    <3> QED BY <2>2, <2>4, <3>1 DEF Begins
  <2> QED BY <1>4, <2>2, <2>3, <2>5
<1> QED BY <1>9, <1>10, <1>11 DEF N

(* The body of message m + 1, if it has one, comes next in the queue.      *)
LEMMA BodyIsNext ==
    ASSUME NEW c \in Channels, NEW m \in 0 .. Len(Script[c]) - 1
    PROVE  LET B == Queues!BodiesUpTo(c)
           IN  /\ B[m] \in Seq(Nat) /\ m + 1 \in 0 .. Len(Script[c])
               /\ Script[c][m + 1].body =>
                      /\ B[m + 1] = Append(B[m], m + 1)
                      /\ Len(B[m]) < Len(Queues!Bodies(c))
                      /\ Queues!Bodies(c)[Len(B[m]) + 1] = m + 1
               /\ ~Script[c][m + 1].body => B[m + 1] = B[m]
<1> DEFINE N == Len(Script[c])
           B == Queues!BodiesUpTo(c)
<1>1. N \in Nat
  BY ScriptType
<1>2. /\ B \in [0 .. N -> Seq(Nat)]
      /\ \A k \in 1 .. N : B[k] = IF Script[c][k].body THEN Append(B[k - 1], k) ELSE B[k - 1]
  BY BodiesUpToIs
<1>3. Queues!Bodies(c) = B[N]
  BY DEF Queues!Bodies
<1>4. m \in 0 .. N - 1
  OBVIOUS
<1> HIDE DEF N, B
<1>5. m \in 0 .. N /\ m + 1 \in 1 .. N /\ m + 1 \in 0 .. N /\ (m + 1) - 1 = m /\ N \in m + 1 .. N
  BY <1>1, <1>4
<1>6. /\ B[m] \in Seq(Nat) /\ B[m + 1] \in Seq(Nat) /\ B[N] \in Seq(Nat) /\ m + 1 \in Nat
      /\ B[m + 1] = IF Script[c][m + 1].body THEN Append(B[m], m + 1) ELSE B[m]
  BY <1>1, <1>2, <1>5
<1>7. Begins(B[m + 1], B[N])
  <2>1. ASSUME NEW k \in 1 .. N PROVE Begins(B[k - 1], B[k])
    <3>1. k - 1 \in 0 .. N /\ k \in Nat
      BY <1>1
    <3>2. B[k - 1] \in Seq(Nat) /\ Len(B[k - 1]) \in Nat
      BY <1>2, <3>1, LenProperties
    <3>3. B[k] = Append(B[k - 1], k) \/ B[k] = B[k - 1]
      BY <1>2
    <3> QED BY <3>1, <3>2, <3>3, AppendProperties DEF Begins
  <2> QED BY <1>1, <1>2, <1>5, <2>1, Grows
<1>8. ASSUME Script[c][m + 1].body
      PROVE  /\ B[m + 1] = Append(B[m], m + 1) /\ Len(B[m]) < Len(B[N])
             /\ B[N][Len(B[m]) + 1] = m + 1
  <2>1. /\ B[m + 1] = Append(B[m], m + 1) /\ Len(B[m]) \in Nat /\ Len(B[N]) \in Nat
        /\ Len(B[m + 1]) = Len(B[m]) + 1 /\ B[m + 1][Len(B[m]) + 1] = m + 1
    BY <1>6, <1>8, AppendProperties, LenProperties
  <2> QED BY <1>7, <2>1 DEF Begins
<1> QED BY <1>3, <1>5, <1>6, <1>8 DEF N, B

-----------------------------------------------------------------------------
(* Slices of a channel, and decoding at the beginning of a message         *)

LEMMA SliceIs ==
    ASSUME NEW c \in Channels, NEW a \in 0 .. Len(Bytes[c]), NEW b \in a .. Len(Bytes[c])
    PROVE  /\ Slice(c, a, b) \in Payload /\ Len(Slice(c, a, b)) = b - a
           /\ \A i \in 1 .. b - a : Slice(c, a, b)[i] = Bytes[c][a + i]
<1> DEFINE B == Bytes[c]
<1>1. B \in Seq(Byte)
  BY BeginIs DEF Payload
<1>2. Len(B) \in Nat /\ a \in 0 .. Len(B) /\ b \in a .. Len(B)
  BY <1>1, LenProperties
<1> HIDE DEF B
<1>3. a \in Nat /\ b \in Nat /\ a <= b /\ a + 1 \in Int
  BY <1>2
<1>4. \A i \in a + 1 .. b : B[i] \in Byte
  <2> TAKE i \in a + 1 .. b
  <2>1. i \in 1 .. Len(B)
    BY <1>2, <1>3
  <2> QED BY <1>1, <2>1, ElementOfSeq
<1>5. /\ SubSeq(B, a + 1, b) \in Seq(Byte)
      /\ Len(SubSeq(B, a + 1, b)) = IF a + 1 <= b THEN b - (a + 1) + 1 ELSE 0
      /\ \A i \in 1 .. b - (a + 1) + 1 : SubSeq(B, a + 1, b)[i] = B[(a + 1) + i - 1]
  BY <1>3, <1>4, SubSeqProperties
<1>6. Len(SubSeq(B, a + 1, b)) = b - a
  BY <1>3, <1>5
<1>7. ASSUME NEW i \in 1 .. b - a PROVE SubSeq(B, a + 1, b)[i] = B[a + i]
  <2>1. i \in 1 .. b - (a + 1) + 1 /\ (a + 1) + i - 1 = a + i
    BY <1>3
  <2> QED BY <1>5, <2>1
<1> QED BY <1>5, <1>6, <1>7 DEF Slice, Payload, B

LEMMA SliceEmpty ==
    ASSUME NEW c \in Channels, NEW a \in 0 .. Len(Bytes[c]) PROVE Slice(c, a, a) = <<>>
<1>1. a \in Int /\ a + 1 \in Int /\ a < a + 1
  OBVIOUS
<1> QED BY <1>1, SubSeqEmpty DEF Slice

LEMMA SliceJoin ==
    ASSUME NEW c \in Channels, NEW a \in 0 .. Len(Bytes[c]), NEW b \in a .. Len(Bytes[c]),
           NEW d \in b .. Len(Bytes[c])
    PROVE  Slice(c, a, b) \o Slice(c, b, d) = Slice(c, a, d)
<1> DEFINE B == Bytes[c]
<1>1. B \in Seq(Byte)
  BY BeginIs DEF Payload
<1>2. Len(B) \in Nat
  BY <1>1, LenProperties
<1>3. a + 1 \in 1 .. Len(B) + 1 /\ b \in (a + 1) - 1 .. Len(B) /\ d \in b .. Len(B)
  BY <1>2
<1> HIDE DEF B
<1>4. SubSeq(B, a + 1, b) \o SubSeq(B, b + 1, d) = SubSeq(B, a + 1, d)
  BY <1>1, <1>3, ConcatAdjacentSubSeq
<1> QED BY <1>4 DEF Slice, B

LEMMA SliceDrop ==
    ASSUME NEW c \in Channels, NEW a \in 0 .. Len(Bytes[c]), NEW b \in a .. Len(Bytes[c]),
           NEW l \in 0 .. b - a
    PROVE  SubSeq(Slice(c, a, b), l + 1, Len(Slice(c, a, b))) = Slice(c, a + l, b)
<1> DEFINE s == Slice(c, a, b)
           t == Slice(c, a + l, b)
           u == SubSeq(s, l + 1, Len(s))
<1>1. Len(Bytes[c]) \in Nat /\ a \in Nat /\ b \in Nat /\ a <= b /\ l \in Nat /\ l <= b - a
  <2>1. Len(Bytes[c]) \in Nat
    BY BeginIs, LenProperties DEF Payload
  <2> QED BY <2>1
<1>2. a + l \in 0 .. Len(Bytes[c]) /\ b \in a + l .. Len(Bytes[c])
  BY <1>1
<1>3. s \in Seq(Byte) /\ Len(s) = b - a /\ \A i \in 1 .. b - a : s[i] = Bytes[c][a + i]
  BY SliceIs DEF Payload
<1>4. /\ t \in Seq(Byte) /\ Len(t) = b - (a + l)
      /\ \A i \in 1 .. b - (a + l) : t[i] = Bytes[c][(a + l) + i]
  BY <1>2, SliceIs DEF Payload
<1> HIDE DEF s, t
<1>5. \A i \in l + 1 .. Len(s) : s[i] \in Byte
  <2> TAKE i \in l + 1 .. Len(s)
  <2>1. i \in 1 .. Len(s)
    BY <1>1, <1>3
  <2> QED BY <1>3, <2>1, ElementOfSeq
<1>6. /\ u \in Seq(Byte)
      /\ Len(u) = IF l + 1 <= Len(s) THEN Len(s) - (l + 1) + 1 ELSE 0
      /\ \A i \in 1 .. Len(s) - (l + 1) + 1 : u[i] = s[(l + 1) + i - 1]
  <2>1. l + 1 \in Int /\ Len(s) \in Int
    BY <1>1, <1>3
  <2> QED BY <1>5, <2>1, SubSeqProperties
<1> HIDE DEF u
<1>7. Len(u) = Len(t)
  BY <1>1, <1>3, <1>4, <1>6
<1>8. ASSUME NEW i \in 1 .. Len(u) PROVE u[i] = t[i]
  <2>1. /\ i \in 1 .. Len(s) - (l + 1) + 1 /\ (l + 1) + i - 1 = l + i
        /\ l + i \in 1 .. b - a /\ i \in 1 .. b - (a + l) /\ a + (l + i) = (a + l) + i
    BY <1>1, <1>3, <1>4, <1>7
  <2>2. u[i] = s[l + i]
    BY <1>6, <2>1
  <2>3. s[l + i] = Bytes[c][a + (l + i)] /\ t[i] = Bytes[c][(a + l) + i]
    BY <1>3, <1>4, <2>1
  <2> QED BY <2>1, <2>2, <2>3
<1>9. u = t
  BY <1>3, <1>4, <1>6, <1>7, <1>8, SeqEqual
<1> QED BY <1>9 DEF u, s, t

(* take_buffered: what begins at a message and is long enough decodes.     *)
LEMMA TakenDecodes ==
    ASSUME NEW c \in Channels, NEW m \in Int, NEW x \in Int, Taken(c, m, x),
           Enough(c, partial[c])
    PROVE  /\ m \in 0 .. Len(Script[c]) - 1 /\ partial[c][1][1] = m + 1
           /\ IsMessage(c, partial[c])
           /\ x \in Begin(c, m + 1) .. Len(Bytes[c])
           /\ Drain(c, partial[c]) = Slice(c, Begin(c, m + 1), x)
<1> DEFINE a == Begin(c, m)  L == Len(Bytes[c])  N == Len(Script[c])
           buf == partial[c]
<1>1. /\ m \in 0 .. N /\ x \in a .. L /\ a \in 0 .. L /\ buf = Slice(c, a, x)
      /\ N \in Nat /\ L \in Nat
  <2>1. L \in Nat
    BY BeginIs, LenProperties DEF Payload
  <2> QED BY <2>1, BeginIs, ScriptType DEF Taken
<1>2. buf \in Payload /\ Len(buf) = x - a /\ \A i \in 1 .. x - a : buf[i] = Bytes[c][a + i]
  BY <1>1, SliceIs
<1>3. Len(buf) >= XPC_WRAPPER_LEN /\ XPC_WRAPPER_LEN \in Nat \ {0}
  BY WindowsAssumption DEF Enough
<1> HIDE DEF L, buf
<1>4. 1 \in 1 .. x - a /\ a < L
  BY <1>1, <1>2, <1>3
<1>5. m \in 0 .. N - 1
  <2>1. m # N
    BY <1>1, <1>4, BeginIs DEF L
  <2> QED BY <1>1, <2>1
<1> DEFINE l == Script[c][m + 1].len
<1>6. /\ Begin(c, m + 1) = a + l /\ \A i \in 1 .. l : Bytes[c][a + i] = <<m + 1, i>>
      /\ m + 1 \in 1 .. N
  <2>1. m + 1 \in 1 .. N
    BY <1>1, <1>5
  <2> QED BY <1>5, <2>1, BeginIs
<1>7. l \in Nat \ {0}
  BY <1>6, ScriptType
<1> HIDE DEF a
<1>8. buf[1] = <<m + 1, 1>>
  <2>1. 1 \in 1 .. l
    BY <1>7
  <2> QED BY <1>2, <1>4, <1>6, <2>1
<1>9. Len(buf) >= l
  BY <1>8 DEF Enough, buf
<1>10. l \in 0 .. x - a /\ a + l <= x
  BY <1>1, <1>2, <1>7, <1>9
<1>11. IsMessage(c, buf)
  <2> DEFINE s == Message(c, m + 1)
  <2>1. s \in Seq(Byte) /\ Len(s) = l /\ \A i \in 1 .. l : s[i] = <<m + 1, i>>
    BY <1>6, MessageType DEF Payload
  <2> HIDE DEF s, l
  <2>2. \A i \in 1 .. l : buf[i] \in Byte /\ s[i] \in Byte /\ buf[i] = s[i]
    <3> TAKE i \in 1 .. l
    <3>1. i \in 1 .. x - a /\ i \in 1 .. Len(s)
      BY <1>1, <1>7, <1>10, <2>1
    <3>2. buf[i] = s[i]
      BY <1>2, <1>6, <2>1, <3>1
    <3>3. s[i] \in Byte
      BY <2>1, <3>1, ElementOfSeq
    <3> QED BY <3>2, <3>3
  <2>3. 1 \in Int /\ l \in Int
    BY <1>7
  <2> DEFINE u == SubSeq(s, 1, l)  v == SubSeq(buf, 1, l)
  <2>4. /\ u \in Seq(Byte) /\ Len(u) = (IF 1 <= l THEN l - 1 + 1 ELSE 0)
        /\ \A i \in 1 .. l - 1 + 1 : u[i] = s[1 + i - 1]
    BY <2>2, <2>3, SubSeqProperties
  <2>5. /\ v \in Seq(Byte) /\ Len(v) = (IF 1 <= l THEN l - 1 + 1 ELSE 0)
        /\ \A i \in 1 .. l - 1 + 1 : v[i] = buf[1 + i - 1]
    BY <2>2, <2>3, SubSeqProperties
  <2> HIDE DEF u, v
  <2>6. ASSUME NEW i \in 1 .. Len(u) PROVE u[i] = v[i]
    <3>1. i \in 1 .. l - 1 + 1 /\ i \in 1 .. l /\ 1 + i - 1 = i
      BY <1>7, <2>4
    <3> QED BY <2>2, <2>4, <2>5, <3>1
  <2>7. u = v
    BY <2>4, <2>5, <2>6, SeqEqual
  <2>8. IsPrefix(s, buf)
    BY <1>9, <2>1, <2>7 DEF IsPrefix, u, v
  <2> QED BY <1>8, <2>8 DEF IsMessage, s
<1>12. Drain(c, buf) = Slice(c, a + l, x)
  <2>1. SubSeq(Slice(c, a, x), l + 1, Len(Slice(c, a, x))) = Slice(c, a + l, x)
    <3> HIDE DEF l
    <3> QED BY <1>1, <1>10, SliceDrop DEF L
  <2> QED BY <1>1, <1>8, <2>1 DEF Drain
<1>13. x \in a + l .. L
  BY <1>1, <1>7, <1>10
<1> QED BY <1>5, <1>6, <1>8, <1>11, <1>12, <1>13 DEF buf, L, a

-----------------------------------------------------------------------------
(* The invariant                                                           *)

LEMMA BytesLen == ASSUME NEW c \in Channels PROVE Len(Bytes[c]) \in Nat
  BY BeginIs, LenProperties DEF Payload

LEMMA ComingType ==
    ASSUME TypeOK
    PROVE  Coming \in Seq(Frames) /\ (recv_buf # <<>> => Coming # <<>>
                                        /\ Head(Coming) = Head(recv_buf)
                                        /\ Tail(Coming) = Tail(recv_buf) \o wire)
<1>1. recv_buf \in Seq(Frames) /\ wire \in Seq(Frames)
  BY DEF TypeOK
<1>2. Coming \in Seq(Frames)
  BY <1>1, ConcatProperties DEF Coming
<1>3. ASSUME recv_buf # <<>>
      PROVE  Coming # <<>> /\ Head(Coming) = Head(recv_buf) /\ Tail(Coming) = Tail(recv_buf) \o wire
  <2> DEFINE s == recv_buf  t == wire  u == Coming  a == Tail(recv_buf)  b == Tail(Coming)
  <2>1. /\ Len(s) \in Nat \ {0} /\ Len(t) \in Nat /\ Len(u) = Len(s) + Len(t)
        /\ \A i \in 1 .. Len(s) + Len(t) : u[i] = IF i <= Len(s) THEN s[i] ELSE t[i - Len(s)]
    BY <1>1, <1>3, EmptySeq, ConcatProperties, LenProperties DEF Coming
  <2>2. u # <<>>
    BY <2>1
  <2>3. /\ a \in Seq(Frames) /\ Len(a) = Len(s) - 1
        /\ \A i \in 1 .. Len(a) : a[i] = s[i + 1]
    BY <1>1, <1>3, HeadTailProperties
  <2>4. /\ b \in Seq(Frames) /\ Len(b) = Len(u) - 1
        /\ \A i \in 1 .. Len(b) : b[i] = u[i + 1]
    BY <1>2, <2>2, HeadTailProperties
  <2>5. Head(u) = u[1] /\ Head(s) = s[1] /\ u[1] = s[1]
    BY <1>1, <1>2, <1>3, <2>1, <2>2
  <2> HIDE DEF a, b, u, s, t
  <2>6. /\ a \o t \in Seq(Frames) /\ Len(a \o t) = Len(a) + Len(t)
        /\ \A i \in 1 .. Len(a) + Len(t) :
               (a \o t)[i] = IF i <= Len(a) THEN a[i] ELSE t[i - Len(a)]
    BY <1>1, <2>3, ConcatProperties DEF t
  <2>7. Len(b) = Len(a \o t) /\ Len(b) = Len(s) + Len(t) - 1
    BY <2>1, <2>3, <2>4, <2>6
  <2>8. ASSUME NEW i \in 1 .. Len(b) PROVE b[i] = (a \o t)[i]
    <3>1. i + 1 \in 1 .. Len(s) + Len(t) /\ i \in 1 .. Len(a) + Len(t)
      BY <2>1, <2>3, <2>7
    <3>2. b[i] = u[i + 1]
      BY <2>4
    <3>3. CASE i <= Len(a)
      <4>1. i \in 1 .. Len(a) /\ i + 1 <= Len(s)
        BY <2>1, <2>3, <3>3
      <4> QED BY <2>1, <2>3, <2>6, <3>1, <3>2, <3>3, <4>1
    <3>4. CASE ~(i <= Len(a))
      <4>1. ~(i + 1 <= Len(s)) /\ (i + 1) - Len(s) = i - Len(a)
        BY <2>1, <2>3, <3>4
      <4> QED BY <2>1, <2>6, <3>1, <3>2, <3>4, <4>1
    <3> QED BY <3>3, <3>4
  <2>9. b = a \o t
    BY <2>4, <2>6, <2>7, <2>8, SeqEqual
  <2> QED BY <2>2, <2>5, <2>9 DEF a, b, s, t, u
<1> QED BY <1>2, <1>3

LEMMA InvInit == Init => ReceiveInv
<1> SUFFICES ASSUME Init PROVE ReceiveInv
  OBVIOUS
<1>1. <<>> \in Payload /\ <<>> \in Seq(Payload) /\ <<>> \in Seq(Frames) /\ <<>> \in Seq(Nat)
      /\ <<>> \in Seq(Channels)
  BY EmptySeq DEF Payload
<1>2. TypeOK
  <2>1. StreamWindow \in Int /\ ConnWindow \in Int
    BY WindowsAssumption
  <2>2. \A c \in Channels : 0 \in 0 .. Len(Bytes[c])
    BY BytesLen
  <2> QED BY <1>1, <2>1, <2>2 DEF Init, TypeOK
<1>3. Coming = <<>>
  BY <1>1, ConcatEmptySeq DEF Init, Coming
<1>4. ASSUME NEW c \in Channels PROVE ChannelAt(c, 0, 0, 0)
  <2>1. Begin(c, 0) = 0 /\ 0 \in 0 .. Len(Script[c]) /\ 0 \in 0 .. Len(Bytes[c])
    BY BeginIs, BytesLen, ScriptType
  <2>2. Slice(c, 0, 0) = <<>> /\ Queues!BodiesUpTo(c)[0] = <<>>
    BY <2>1, SliceEmpty, BodiesUpToIs
  <2>3. Taken(c, 0, 0)
    BY <2>1, <2>2 DEF Taken, Init
  <2>4. Path(Pieces(c), cache[c], 0, 0) /\ Path(Carried(c), Coming, 0, sent[c])
    BY <1>3, PathEmpty DEF Init
  <2> QED BY <2>3, <2>4 DEF ChannelAt
<1>5. ChannelLine
  <2>1. 0 \in Int
    OBVIOUS
  <2> QED BY <1>4, <2>1 DEF ChannelLine
<1>6. CreditLine
  <2>1. ConnWindow - rconn = 0 /\ \A c \in Channels : StreamWindow - rwin[c] = 0
    BY WindowsAssumption DEF Init
  <2> QED BY <1>3, <2>1, PathEmpty DEF CreditLine
<1> QED BY <1>2, <1>5, <1>6 DEF ReceiveInv

(* Steps that move no byte.                                                *)
LEMMA LinesStay ==
    ASSUME ChannelLine, CreditLine, Coming' = Coming,
           UNCHANGED <<partial, returned, cache, sent, rwin, rconn>>
    PROVE  ChannelLine' /\ CreditLine'
<1>1. ASSUME NEW c \in Channels PROVE \E m, x, y \in Int : ChannelAt(c, m, x, y)'
  <2>1. PICK m \in Int, x \in Int, y \in Int : ChannelAt(c, m, x, y)
    BY DEF ChannelLine
  <2>2. ChannelAt(c, m, x, y)'
    BY <2>1 DEF ChannelAt, Taken
  <2> QED BY <2>2
<1>2. ChannelLine'
  BY <1>1 DEF ChannelLine
<1>3. CreditLine'
  BY DEF CreditLine
<1> QED BY <1>2, <1>3

(* take_buffered: the outcomes a buffer that begins at a message allows.   *)
Skips == ~Enough(op[at], partial[op[at]]) /\ at' = at + 1 /\ UNCHANGED <<decVars, pc, op>>

Takes(c, m, x) ==
    /\ m \in 0 .. Len(Script[c]) - 1 /\ x \in Begin(c, m + 1) .. Len(Bytes[c])
    /\ partial' = [partial EXCEPT ![c] = Slice(c, Begin(c, m + 1), x)]
    /\ UNCHANGED malformed
    /\ \/ /\ Script[c][m + 1].body /\ Return
          /\ returned' = [returned EXCEPT ![c] = Append(@, m + 1)]
       \/ /\ ~Script[c][m + 1].body /\ at' = AfterEmpty
          /\ UNCHANGED <<pc, op, returned>>

LEMMA TakeOutcomes ==
    ASSUME ReceiveInv, TakeBuffered
    PROVE  /\ op[at] \in Channels
           /\ \/ Skips
              \/ \E m, x, y \in Int : ChannelAt(op[at], m, x, y) /\ Takes(op[at], m, x)
<1> DEFINE c == op[at]
<1>1. c \in Channels
  <2>1. op \in Seq(Channels) /\ at \in Nat \ {0} /\ at <= Len(op)
    BY DEF ReceiveInv, TypeOK, TakeBuffered
  <2>2. at \in 1 .. Len(op)
    BY <2>1, LenProperties
  <2> QED BY <2>1, <2>2, ElementOfSeq
<1>2. PICK m \in Int, x \in Int, y \in Int : ChannelAt(c, m, x, y)
  BY <1>1 DEF ReceiveInv, ChannelLine
<1>3. CASE ~Enough(c, partial[c])
  BY <1>1, <1>3 DEF TakeBuffered, Skips
<1>4. CASE Enough(c, partial[c])
  <2>1. /\ m \in 0 .. Len(Script[c]) - 1 /\ partial[c][1][1] = m + 1
        /\ IsMessage(c, partial[c])
        /\ x \in Begin(c, m + 1) .. Len(Bytes[c])
        /\ Drain(c, partial[c]) = Slice(c, Begin(c, m + 1), x)
    BY <1>1, <1>2, <1>4, TakenDecodes DEF ChannelAt
  <2>2. Takes(c, m, x)
    BY <1>4, <2>1 DEF TakeBuffered, Takes
  <2> QED BY <1>1, <1>2, <2>2
<1> QED BY <1>3, <1>4

(* A step of one channel that takes nothing from what is coming.           *)
LEMMA OthersStay ==
    ASSUME ChannelLine, NEW c \in Channels, Coming' = Coming,
           NEW n \in Int, NEW v \in Int, NEW w \in Int, ChannelAt(c, n, v, w)',
           \A d \in Channels \ {c} : /\ partial'[d] = partial[d] /\ returned'[d] = returned[d]
                                    /\ cache'[d] = cache[d] /\ sent'[d] = sent[d]
    PROVE  ChannelLine'
<1>1. ASSUME NEW d \in Channels PROVE \E m, x, y \in Int : ChannelAt(d, m, x, y)'
  <2>1. CASE d = c
    BY <2>1
  <2>2. CASE d # c
    <3>1. PICK m \in Int, x \in Int, y \in Int : ChannelAt(d, m, x, y)
      BY DEF ChannelLine
    <3>2. /\ partial'[d] = partial[d] /\ returned'[d] = returned[d]
          /\ cache'[d] = cache[d] /\ sent'[d] = sent[d]
      BY <2>2
    <3>3. Taken(d, m, x)'
      BY <3>1, <3>2 DEF ChannelAt, Taken
    <3>4. ChannelAt(d, m, x, y)'
      BY <3>1, <3>2, <3>3 DEF ChannelAt
    <3> QED BY <3>4
  <2> QED BY <2>1, <2>2
<1> QED BY <1>1 DEF ChannelLine

(* A message is taken off the front of partial.                            *)
LEMMA TakesKeep ==
    ASSUME ReceiveInv, NEW c \in Channels, NEW m \in Int, NEW x \in Int, NEW y \in Int,
           ChannelAt(c, m, x, y), Takes(c, m, x), pc = "recv",
           UNCHANGED <<cache, recv_buf, wire, sent, rwin, rconn>>
    PROVE  ReceiveInv'
<1>1. /\ m + 1 \in 0 .. Len(Script[c]) /\ m + 1 \in Int /\ m + 1 \in Nat
      /\ x \in Begin(c, m + 1) .. Len(Bytes[c])
  BY BodyIsNext DEF Takes
<1>2. Begin(c, m + 1) \in 0 .. Len(Bytes[c])
  BY <1>1, BeginIs
<1>3. Slice(c, Begin(c, m + 1), x) \in Payload
  BY <1>1, <1>2, SliceIs
<1>4. /\ returned \in [Channels -> Seq(Nat)] /\ partial \in [Channels -> Payload]
      /\ op \in Seq(Channels) /\ at \in Nat \ {0}
  BY DEF ReceiveInv, TypeOK
<1>5. partial' \in [Channels -> Payload] /\ partial'[c] = Slice(c, Begin(c, m + 1), x)
  BY <1>3, <1>4 DEF Takes
<1>6. returned[c] = Queues!BodiesUpTo(c)[m]
  BY DEF ChannelAt, Taken
<1>7. returned' \in [Channels -> Seq(Nat)] /\ returned'[c] = Queues!BodiesUpTo(c)[m + 1]
  <2>1. CASE Script[c][m + 1].body
    <3>1. returned' = [returned EXCEPT ![c] = Append(returned[c], m + 1)]
      BY <2>1 DEF Takes
    <3>2. Append(returned[c], m + 1) \in Seq(Nat)
      BY <1>1, <1>4, AppendProperties
    <3>3. Queues!BodiesUpTo(c)[m + 1] = Append(Queues!BodiesUpTo(c)[m], m + 1)
      BY <2>1, <1>1, BodyIsNext DEF Takes
    <3> QED BY <1>4, <1>6, <3>1, <3>2, <3>3
  <2>2. CASE ~Script[c][m + 1].body
    <3>1. returned' = returned
      BY <2>2 DEF Takes
    <3>2. Queues!BodiesUpTo(c)[m + 1] = Queues!BodiesUpTo(c)[m]
      BY <2>2, BodyIsNext DEF Takes
    <3> QED BY <1>4, <1>6, <3>1, <3>2
  <2> QED BY <2>1, <2>2
<1>8. ASSUME NEW d \in Channels, d # c
      PROVE  partial'[d] = partial[d] /\ returned'[d] = returned[d]
  BY <1>4, <1>8 DEF Takes
<1>9. Coming' = Coming
  BY DEF Coming
<1>10. ChannelLine'
  <2>1. Taken(c, m + 1, x)'
    BY <1>1, <1>5, <1>7 DEF Taken
  <2>2. ChannelAt(c, m + 1, x, y)'
    BY <1>9, <2>1 DEF ChannelAt
  <2> QED BY <1>1, <1>8, <1>9, <2>2, OthersStay DEF ReceiveInv
<1>11. CreditLine'
  BY <1>9 DEF ReceiveInv, CreditLine
<1>12. /\ pc' \in {"idle", "recv", "read", "send"} /\ op' \in Seq(Channels)
       /\ at' \in Nat \ {0} /\ (pc' \in {"idle", "send"} => op' = <<>>)
  <2>1. <<>> \in Seq(Channels) /\ AfterEmpty \in Nat \ {0}
    BY <1>4, EmptySeq DEF AfterEmpty
  <2>2. CASE Script[c][m + 1].body
    <3>1. pc' = "idle" /\ op' = <<>> /\ at' = 1
      BY <2>2 DEF Takes, Return
    <3> QED BY <2>1, <3>1
  <2>3. CASE ~Script[c][m + 1].body
    <3>1. pc' = "recv" /\ op' = op /\ at' = AfterEmpty
      BY <2>3 DEF Takes
    <3> QED BY <1>4, <2>1, <3>1
  <2> QED BY <2>2, <2>3
<1>13. TypeOK'
  BY <1>5, <1>7, <1>12 DEF ReceiveInv, TypeOK, Takes
<1> QED BY <1>10, <1>11, <1>13 DEF ReceiveInv

LEMMA TakeKeeps == ASSUME ReceiveInv, TakeBuffered PROVE ReceiveInv'
<1>1. UNCHANGED <<cache, recv_buf, wire, sent, rwin, rconn>> /\ pc = "recv"
  BY DEF TakeBuffered, pumpVars, sentVars, winVars
<1>2. CASE Skips
  <2>1. Coming' = Coming /\ UNCHANGED <<partial, returned, malformed, pc, op>> /\ at' = at + 1
    BY <1>1, <1>2 DEF Coming, Skips, decVars
  <2>2. ChannelLine' /\ CreditLine'
    BY <1>1, <2>1, LinesStay DEF ReceiveInv
  <2>3. at' \in Nat \ {0}
    BY <2>1 DEF ReceiveInv, TypeOK
  <2>4. TypeOK'
    BY <1>1, <2>1, <2>3 DEF ReceiveInv, TypeOK
  <2> QED BY <2>2, <2>4 DEF ReceiveInv
<1>3. CASE ~Skips
  <2>1. PICK c \in Channels : c = op[at]
    BY TakeOutcomes
  <2>2. PICK m \in Int, x \in Int, y \in Int : ChannelAt(c, m, x, y) /\ Takes(c, m, x)
    BY <1>3, <2>1, TakeOutcomes
  <2> QED BY <1>1, <2>2, TakesKeep
<1> QED BY <1>2, <1>3

-----------------------------------------------------------------------------
(* The steps of the connection                                             *)

(* Every step that leaves the buffers, the device and the credit alone.    *)
LEMMA QuietKeeps ==
    ASSUME ReceiveInv, UNCHANGED <<decVars, pumpVars, wire, sent, winVars>>,
           pc' \in {"idle", "recv", "read", "send"}, op' \in Seq(Channels), at' \in Nat \ {0},
           pc' \in {"idle", "send"} => op' = <<>>
    PROVE  ReceiveInv'
<1>1. UNCHANGED <<partial, returned, malformed, cache, recv_buf, wire, sent, rwin, rconn>>
  BY DEF decVars, pumpVars, winVars
<1>2. Coming' = Coming
  BY <1>1 DEF Coming
<1>3. ChannelLine' /\ CreditLine'
  BY <1>1, <1>2, LinesStay DEF ReceiveInv
<1>4. TypeOK'
  BY <1>1 DEF ReceiveInv, TypeOK
<1> QED BY <1>3, <1>4 DEF ReceiveInv

LEMMA ControlKeeps ==
    ASSUME ReceiveInv,
           \/ \E o \in Receives : Start(o)
           \/ NeedMore \/ Flushed \/ ReadEof \/ Drop \/ StartSend \/ SendEnds
           \/ DeviceCloses \/ UNCHANGED vars
    PROVE  ReceiveInv'
<1>1. /\ pc \in {"idle", "recv", "read", "send"} /\ op \in Seq(Channels) /\ at \in Nat \ {0}
      /\ (pc \in {"idle", "send"} => op = <<>>)
  BY DEF ReceiveInv, TypeOK
<1>2. <<>> \in Seq(Channels) /\ 1 \in Nat \ {0}
  BY EmptySeq
<1>3. UNCHANGED <<decVars, pumpVars, wire, sent, winVars>>
  BY DEF Start, NeedMore, Flushed, ReadEof, Drop, StartSend, SendEnds, DeviceCloses, vars,
         sentVars
<1>4. /\ pc' \in {"idle", "recv", "read", "send"} /\ op' \in Seq(Channels)
      /\ at' \in Nat \ {0} /\ (pc' \in {"idle", "send"} => op' = <<>>)
  <2>1. ASSUME NEW o \in Receives, Start(o)
        PROVE  pc' = "recv" /\ op' \in Seq(Channels) /\ at' = 1
    BY <2>1, ScriptAssumption DEF Start
  <2>2. CASE ReadEof \/ Drop
    BY <1>2, <2>2 DEF ReadEof, Drop, Return
  <2>3. CASE NeedMore
    BY <1>1, <2>3 DEF NeedMore
  <2>4. CASE StartSend \/ SendEnds
    BY <1>1, <2>4 DEF StartSend, SendEnds
  <2>5. CASE Flushed \/ DeviceCloses \/ UNCHANGED vars
    BY <1>1, <2>5 DEF Flushed, DeviceCloses, vars, ctlVars
  <2> QED BY <1>2, <2>1, <2>2, <2>3, <2>4, <2>5
<1> QED BY <1>3, <1>4, QuietKeeps

(* next_frame: what is coming is what was coming.                          *)
LEMMA ReadSocketKeeps ==
    ASSUME ReceiveInv, NEW n \in 0 .. Len(wire), NEW t \in BOOLEAN, ReadSocket(n, t)
    PROVE  ReceiveInv'
<1>1. recv_buf = <<>> /\ wire \in Seq(Frames) /\ Len(wire) \in Nat /\ n \in Nat /\ n <= Len(wire)
  BY LenProperties DEF ReceiveInv, TypeOK, ReadSocket
<1>2. recv_buf' = SubSeq(wire, 1, n) /\ wire' = SubSeq(wire, n + 1, Len(wire))
  BY DEF ReadSocket
<1> DEFINE a == SubSeq(wire, 1, n)  b == SubSeq(wire, n + 1, Len(wire))
<1>3. /\ a \in Seq(Frames) /\ Len(a) = n /\ \A i \in 1 .. n : a[i] = wire[i]
  BY <1>1
<1>4. /\ b \in Seq(Frames) /\ Len(b) = Len(wire) - n
      /\ \A i \in 1 .. Len(wire) - n : b[i] = wire[n + i]
  BY <1>1
<1> HIDE DEF a, b
<1>5. /\ a \o b \in Seq(Frames) /\ Len(a \o b) = Len(a) + Len(b)
      /\ \A i \in 1 .. Len(a) + Len(b) : (a \o b)[i] = IF i <= Len(a) THEN a[i] ELSE b[i - Len(a)]
  BY <1>3, <1>4, ConcatProperties
<1>6. a \o b = wire
  <2>1. Len(a \o b) = Len(wire)
    BY <1>1, <1>3, <1>4, <1>5
  <2>2. ASSUME NEW i \in 1 .. Len(wire) PROVE (a \o b)[i] = wire[i]
    <3>1. CASE i <= n
      BY <1>1, <1>3, <1>4, <1>5, <3>1
    <3>2. CASE ~(i <= n)
      <4>1. i - n \in 1 .. Len(wire) - n /\ n + (i - n) = i /\ i \in 1 .. Len(a) + Len(b)
        BY <1>1, <1>3, <1>4, <3>2
      <4> QED BY <1>3, <1>4, <1>5, <3>2, <4>1
    <3> QED BY <3>1, <3>2
  <2> QED BY <1>1, <1>5, <2>1, <2>2, SeqEqual
<1>7. Coming = wire /\ Coming' = a \o b
  BY <1>1, <1>2, ConcatEmptySeq DEF Coming, a, b
<1>8. /\ UNCHANGED <<partial, returned, malformed, cache, sent, rwin, rconn, pc, op, at>>
  BY DEF ReadSocket, decVars, sentVars, winVars, ctlVars
<1>9. ChannelLine' /\ CreditLine'
  BY <1>6, <1>7, <1>8, LinesStay DEF ReceiveInv
<1>10. recv_buf' \in Seq(Frames) /\ wire' \in Seq(Frames)
  BY <1>2, <1>3, <1>4 DEF a, b
<1>11. TypeOK'
  BY <1>8, <1>10 DEF ReceiveInv, TypeOK
<1> QED BY <1>9, <1>11 DEF ReceiveInv

(* read, read_any: partial is extended by the payload that follows it.     *)
LEMMA PayloadJoins ==
    ASSUME ReceiveInv, NEW c \in Channels, cache[c] # <<>>,
           partial' = [partial EXCEPT ![c] = @ \o Head(cache[c])],
           cache' = [cache EXCEPT ![c] = Tail(@)],
           UNCHANGED <<op, returned, malformed, recv_buf, wire, sent, rwin, rconn>>,
           pc' = "recv", at' = 1
    PROVE  ReceiveInv'
<1>1. PICK m \in Int, x \in Int, y \in Int : ChannelAt(c, m, x, y)
  BY DEF ReceiveInv, ChannelLine
<1>2. /\ partial \in [Channels -> Payload] /\ cache \in [Channels -> Seq(Payload)]
      /\ cache[c] \in Seq(Payload)
  BY DEF ReceiveInv, TypeOK
<1>3. PICK z \in Int : /\ <<x, Head(cache[c]), z>> \in Pieces(c)
                        /\ Path(Pieces(c), Tail(cache[c]), z, y)
  BY <1>1, <1>2, PathTail DEF ChannelAt
<1>4. /\ x \in 0 .. Len(Bytes[c]) /\ z \in 0 .. Len(Bytes[c]) /\ x <= z
      /\ Head(cache[c]) = Slice(c, x, z)
  BY <1>3 DEF Pieces, Span
<1>5. /\ m \in 0 .. Len(Script[c]) /\ x \in Begin(c, m) .. Len(Bytes[c])
      /\ partial[c] = Slice(c, Begin(c, m), x) /\ returned[c] = Queues!BodiesUpTo(c)[m]
  BY <1>1 DEF ChannelAt, Taken
<1>6. Begin(c, m) \in 0 .. Len(Bytes[c]) /\ Len(Bytes[c]) \in Nat
  BY <1>5, BeginIs, BytesLen
<1>7. z \in x .. Len(Bytes[c]) /\ z \in Begin(c, m) .. Len(Bytes[c])
  BY <1>4, <1>5, <1>6
<1>8. partial[c] \o Head(cache[c]) = Slice(c, Begin(c, m), z)
  BY <1>4, <1>5, <1>6, <1>7, SliceJoin
<1>9. Slice(c, Begin(c, m), z) \in Payload /\ Tail(cache[c]) \in Seq(Payload)
  BY <1>2, <1>6, <1>7, SliceIs, HeadTailProperties
<1>10. /\ partial' \in [Channels -> Payload] /\ partial'[c] = Slice(c, Begin(c, m), z)
       /\ cache' \in [Channels -> Seq(Payload)] /\ cache'[c] = Tail(cache[c])
  BY <1>2, <1>8, <1>9
<1>11. \A d \in Channels \ {c} : partial'[d] = partial[d] /\ cache'[d] = cache[d]
  BY <1>2
<1>12. Coming' = Coming
  BY DEF Coming
<1>13. ChannelLine'
  <2>1. Taken(c, m, z)'
    BY <1>5, <1>7, <1>10 DEF Taken
  <2>2. ChannelAt(c, m, z, y)'
    BY <1>1, <1>3, <1>10, <1>12, <2>1 DEF ChannelAt
  <2> QED BY <1>11, <1>12, <2>2, OthersStay DEF ReceiveInv
<1>14. CreditLine'
  BY <1>12 DEF ReceiveInv, CreditLine
<1>15. TypeOK'
  <2>1. /\ pc' \in {"idle", "recv", "read", "send"} /\ at' \in Nat \ {0}
        /\ (pc' \in {"idle", "send"} => op' = <<>>)
    OBVIOUS
  <2> QED BY <1>10, <2>1 DEF ReceiveInv, TypeOK
<1> QED BY <1>13, <1>14, <1>15 DEF ReceiveInv

LEMMA ReadCachedKeeps == ASSUME ReceiveInv, ReadCached PROVE ReceiveInv'
<1> DEFINE Has(j)   == cache[op[j]] # <<>>
           First(j) == Has(j) /\ \A l \in 1 .. (j - 1) : cache[op[l]] = <<>>
           T == {j \in DOMAIN op : Has(j)}
<1>1. op \in Seq(Channels) /\ Len(op) \in Nat /\ DOMAIN op = 1 .. Len(op)
  BY LenProperties DEF ReceiveInv, TypeOK
<1>2. T # {} /\ T \subseteq Nat
  <2>1. PICK d \in Range(op) : cache[d] # <<>>
    BY DEF ReadCached, Cached
  <2>2. PICK k \in DOMAIN op : d = op[k]
    BY <2>1 DEF Range
  <2>3. k \in T
    BY <2>1, <2>2
  <2> QED BY <1>1, <2>3
<1>3. PICK i \in T : \A l \in T : ~(l < i)
  BY <1>2, LeastNumber
<1>4. i \in DOMAIN op /\ First(i)
  <2>1. ASSUME NEW l \in 1 .. (i - 1) PROVE cache[op[l]] = <<>>
    <3>1. l \in DOMAIN op /\ l < i
      BY <1>1, <1>3
    <3> QED BY <1>3, <3>1
  <2> QED BY <1>3, <2>1
<1> DEFINE j == CHOOSE k \in DOMAIN op : First(k)
<1>5. j \in DOMAIN op /\ Has(j)
  BY <1>4
<1>6. op[j] \in Channels
  BY <1>1, <1>5, ElementOfSeq
<1>7. /\ partial' = [partial EXCEPT ![op[j]] = @ \o Head(cache[op[j]])]
      /\ cache' = [cache EXCEPT ![op[j]] = Tail(@)]
  BY DEF ReadCached
<1>8. /\ UNCHANGED <<op, returned, malformed, recv_buf, wire, sent, rwin, rconn>>
      /\ pc' = "recv" /\ at' = 1
  BY DEF ReadCached, sentVars, winVars
<1>9. PICK c \in Channels : c = op[j]
  BY <1>6
<1> HIDE DEF j
<1>10. /\ cache[c] # <<>> /\ partial' = [partial EXCEPT ![c] = @ \o Head(cache[c])]
       /\ cache' = [cache EXCEPT ![c] = Tail(@)]
  BY <1>5, <1>7, <1>9
<1> QED BY <1>8, <1>10, PayloadJoins

(* Frames of other channels move nothing; a frame of the channel moves it  *)
(* to where its payload ends.                                              *)
LEMMA CarriedIs ==
    ASSUME NEW c \in Channels, NEW f \in Frames, NEW y \in Int, NEW z \in Int,
           <<y, f, z>> \in Carried(c)
    PROVE  /\ f.stream = c => <<y, f.bytes, z>> \in Pieces(c)
           /\ f.stream # c => y = z
  BY DEF Carried

(* pump: a payload moves from what is coming to the end of its cache, and  *)
(* the credit of its bytes goes back.                                      *)
LEMMA PumpKeeps == ASSUME ReceiveInv, PumpData PROVE ReceiveInv'
<1> DEFINE f == Head(recv_buf)
<1>1. /\ recv_buf \in Seq(Frames) /\ recv_buf # <<>> /\ wire \in Seq(Frames)
      /\ cache \in [Channels -> Seq(Payload)]
      /\ rwin \in [Channels -> Int] /\ rconn \in Int
  BY DEF ReceiveInv, TypeOK, PumpData
<1>2. f \in Frames /\ Tail(recv_buf) \in Seq(Frames)
  BY <1>1, HeadTailProperties
<1>3. /\ cache' = [cache EXCEPT ![f.stream] = Append(@, f.bytes)]
      /\ rwin' = [rwin EXCEPT ![f.stream] = @ + Len(f.bytes)]
      /\ rconn' = rconn + Len(f.bytes) /\ recv_buf' = Tail(recv_buf)
      /\ UNCHANGED <<partial, returned, malformed, pc, op, at, wire, sent>>
  BY DEF PumpData, ctlVars, decVars, sentVars
<1>4. /\ Coming \in Seq(Frames) /\ Coming # <<>> /\ Head(Coming) = f
      /\ Coming' = Tail(Coming) /\ Tail(Coming) \in Seq(Frames)
  <2>1. Coming' = Tail(recv_buf) \o wire
    BY <1>3 DEF Coming
  <2>2. /\ Coming \in Seq(Frames) /\ Coming # <<>> /\ Head(Coming) = f
        /\ Tail(Coming) = Tail(recv_buf) \o wire
    BY <1>1, ComingType DEF ReceiveInv
  <2> QED BY <2>1, <2>2, HeadTailProperties
<1>5. PICK g \in Frames : g = f
  BY <1>2
<1> HIDE DEF f
<1>6. g.stream \in Channels /\ g.bytes \in Payload /\ Len(g.bytes) \in Nat
  BY LenProperties DEF Frames, Payload
<1>7. cache' \in [Channels -> Seq(Payload)]
  <2>1. Append(cache[g.stream], g.bytes) \in Seq(Payload)
    BY <1>1, <1>6, AppendProperties
  <2> QED BY <1>1, <1>3, <1>5, <2>1
<1>8. rwin' \in [Channels -> Int] /\ rconn' \in Int
  BY <1>1, <1>3, <1>5, <1>6
<1>9. TypeOK'
  BY <1>1, <1>2, <1>3, <1>7, <1>8 DEF ReceiveInv, TypeOK
<1>10. ASSUME NEW c \in Channels PROVE \E m, x, y \in Int : ChannelAt(c, m, x, y)'
  <2>1. PICK m \in Int, x \in Int, y \in Int : ChannelAt(c, m, x, y)
    BY DEF ReceiveInv, ChannelLine
  <2>2. Taken(c, m, x)'
    BY <1>3, <2>1 DEF ChannelAt, Taken
  <2>3. sent[c] \in Int /\ cache[c] \in Seq(Payload)
    BY <1>1 DEF ReceiveInv, TypeOK
  <2>4. PICK z \in Int : <<y, g, z>> \in Carried(c) /\ Path(Carried(c), Tail(Coming), z, sent[c])
    BY <1>4, <1>5, <2>1, <2>3, PathTail DEF ChannelAt
  <2>5. Path(Carried(c), Coming, z, sent[c])'
    BY <1>3, <1>4, <2>4
  <2>6. Path(Pieces(c), cache'[c], x, z)
    <3>1. CASE g.stream = c
      <4>1. <<y, g.bytes, z>> \in Pieces(c)
        BY <2>4, <3>1, CarriedIs
      <4>2. cache'[c] = Append(cache[c], g.bytes)
        BY <1>1, <1>3, <1>5, <3>1
      <4>3. Path(Pieces(c), cache[c], x, y)
        BY <2>1 DEF ChannelAt
      <4>4. Path(Pieces(c), Append(cache[c], g.bytes), x, z)
        BY <1>6, <2>3, <4>1, <4>3, PathAppend
      <4> QED BY <4>2, <4>4
    <3>2. CASE g.stream # c
      <4>1. y = z
        BY <2>4, <3>2, CarriedIs
      <4>2. cache'[c] = cache[c]
        BY <1>1, <1>3, <1>5, <3>2
      <4>3. Path(Pieces(c), cache[c], x, y)
        BY <2>1 DEF ChannelAt
      <4> QED BY <4>1, <4>2, <4>3
    <3> QED BY <3>1, <3>2
  <2>7. ChannelAt(c, m, x, z)'
    BY <2>2, <2>5, <2>6 DEF ChannelAt
  <2> QED BY <2>7
<1>11. ASSUME NEW S, NEW w \in Int, Path(Sums(S), Coming, 0, w)
       PROVE  Path(Sums(S), Coming, 0, w - Share(g, S))'
  <2>1. PICK z \in Int : <<0, g, z>> \in Sums(S) /\ Path(Sums(S), Tail(Coming), z, w)
    <3>1. 0 \in Int /\ Head(Coming) = g
      BY <1>4, <1>5
    <3> QED BY <1>4, <1>11, <3>1, PathTail
  <2>2. Share(g, S) \in Nat /\ z = Share(g, S)
    BY <2>1, ShareType DEF Sums
  <2>3. -z \in Int
    BY <2>1
  <2>4. Path(Sums(S), Tail(Coming), z + (-z), w + (-z))
    BY <1>4, <2>1, <2>3, SumsShift
  <2>5. z + (-z) = 0 /\ w + (-z) = w - Share(g, S)
    BY <2>1, <2>2
  <2>6. Path(Sums(S), Tail(Coming), 0, w - Share(g, S))
    BY <2>4, <2>5
  <2> QED BY <1>4, <2>6
<1>12. CreditLine'
  <2>1. ConnWindow \in Int /\ StreamWindow \in Int
    BY WindowsAssumption
  <2>2. Share(g, Channels) = Len(g.bytes)
    BY <1>6 DEF Share
  <2>3. (ConnWindow - rconn)' = (ConnWindow - rconn) - Share(g, Channels)
    BY <1>1, <1>3, <1>5, <1>6, <2>1, <2>2
  <2>4. Path(Sums(Channels), Coming, 0, ConnWindow - rconn)'
    <3>1. Path(Sums(Channels), Coming, 0, ConnWindow - rconn) /\ ConnWindow - rconn \in Int
      BY <1>1, <2>1 DEF ReceiveInv, CreditLine
    <3>2. PICK w \in Int : w = ConnWindow - rconn
      BY <3>1
    <3>3. Path(Sums(Channels), Coming, 0, w - Share(g, Channels))'
      BY <1>11, <3>1, <3>2
    <3> QED BY <2>3, <3>2, <3>3
  <2>5. ASSUME NEW c \in Channels PROVE Path(Sums({c}), Coming, 0, StreamWindow - rwin[c])'
    <3>1. Path(Sums({c}), Coming, 0, StreamWindow - rwin[c]) /\ StreamWindow - rwin[c] \in Int
      BY <1>1, <2>1 DEF ReceiveInv, CreditLine
    <3>2. PICK w \in Int : w = StreamWindow - rwin[c]
      BY <3>1
    <3>3. StreamWindow - rwin'[c] = w - Share(g, {c})
      <4>1. CASE g.stream = c
        <5>1. Share(g, {c}) = Len(g.bytes) /\ rwin'[c] = rwin[c] + Len(g.bytes)
          BY <1>1, <1>3, <1>5, <4>1 DEF Share
        <5> QED BY <1>1, <1>6, <2>1, <3>2, <5>1
      <4>2. CASE g.stream # c
        <5>1. Share(g, {c}) = 0 /\ rwin'[c] = rwin[c]
          BY <1>1, <1>3, <1>5, <4>2 DEF Share
        <5> QED BY <1>1, <2>1, <3>2, <5>1
      <4> QED BY <4>1, <4>2
    <3>4. Path(Sums({c}), Coming, 0, w - Share(g, {c}))'
      BY <1>11, <3>1, <3>2
    <3> QED BY <3>3, <3>4
  <2> QED BY <2>4, <2>5 DEF CreditLine
<1> QED BY <1>9, <1>10, <1>12 DEF ReceiveInv, ChannelLine

LEMMA ConcatAppend ==
    ASSUME NEW E, NEW s \in Seq(E), NEW t \in Seq(E), NEW e \in E
    PROVE  s \o Append(t, e) = Append(s \o t, e)
<1> DEFINE u == s \o t  v == Append(t, e)  a == s \o v  b == Append(u, e)
<1>1. /\ Len(s) \in Nat /\ Len(t) \in Nat /\ u \in Seq(E) /\ Len(u) = Len(s) + Len(t)
      /\ \A i \in 1 .. Len(s) + Len(t) : u[i] = IF i <= Len(s) THEN s[i] ELSE t[i - Len(s)]
  BY ConcatProperties, LenProperties
<1>2. /\ v \in Seq(E) /\ Len(v) = Len(t) + 1
      /\ \A i \in 1 .. Len(t) : v[i] = t[i]
      /\ v[Len(t) + 1] = e
  BY AppendProperties
<1> HIDE DEF u, v
<1>3. /\ a \in Seq(E) /\ Len(a) = Len(s) + Len(v)
      /\ \A i \in 1 .. Len(s) + Len(v) : a[i] = IF i <= Len(s) THEN s[i] ELSE v[i - Len(s)]
  BY <1>2, ConcatProperties
<1>4. /\ b \in Seq(E) /\ Len(b) = Len(u) + 1
      /\ \A i \in 1 .. Len(u) : b[i] = u[i]
      /\ b[Len(u) + 1] = e
  BY <1>1, AppendProperties
<1> HIDE DEF a, b
<1>5. Len(a) = Len(b) /\ Len(a) = Len(s) + Len(t) + 1
  BY <1>1, <1>2, <1>3, <1>4
<1>6. ASSUME NEW i \in 1 .. Len(a) PROVE a[i] = b[i]
  <2>1. CASE i <= Len(s)
    <3>1. i \in 1 .. Len(u) /\ i \in 1 .. Len(s) + Len(v) /\ i \in 1 .. Len(s) + Len(t)
      BY <1>1, <1>2, <2>1
    <3> QED BY <1>1, <1>3, <1>4, <2>1, <3>1
  <2>2. CASE i > Len(s) /\ i <= Len(s) + Len(t)
    <3>1. i - Len(s) \in 1 .. Len(t) /\ i \in 1 .. Len(u) /\ i \in 1 .. Len(s) + Len(v)
      BY <1>1, <1>2, <2>2
    <3>2. a[i] = v[i - Len(s)] /\ b[i] = u[i] /\ u[i] = t[i - Len(s)]
      BY <1>1, <1>3, <1>4, <2>2, <3>1
    <3> QED BY <1>2, <3>1, <3>2
  <2>3. CASE i = Len(s) + Len(t) + 1
    <3>1. i - Len(s) = Len(t) + 1 /\ i \in 1 .. Len(s) + Len(v) /\ ~(i <= Len(s)) /\ i = Len(u) + 1
      BY <1>1, <1>2, <2>3
    <3> QED BY <1>2, <1>3, <1>4, <3>1
  <2> QED BY <1>1, <1>5, <2>1, <2>2, <2>3
<1>7. a = b
  BY <1>3, <1>4, <1>5, <1>6, SeqEqual
<1> QED BY <1>7 DEF a, b, u, v

(* The device's frame goes to the end of what is coming and takes credit.  *)
LEMMA SendsKeep ==
    ASSUME ReceiveInv, NEW c \in Channels, NEW n \in Nat, DeviceSends(c, n)
    PROVE  ReceiveInv'
<1>1. /\ recv_buf \in Seq(Frames) /\ wire \in Seq(Frames) /\ Coming \in Seq(Frames)
      /\ sent \in [Channels -> Int] /\ rwin \in [Channels -> Int] /\ rconn \in Int
      /\ \A d \in Channels : sent[d] \in 0 .. Len(Bytes[d])
  BY ComingType DEF ReceiveInv, TypeOK
<1>2. Len(Bytes[c]) \in Nat /\ sent[c] \in 0 .. Len(Bytes[c]) /\ sent[c] \in Nat
  BY <1>1, BytesLen
<1>3. sent[c] + n \in sent[c] .. Len(Bytes[c]) /\ sent[c] + n \in 0 .. Len(Bytes[c])
  BY <1>2 DEF DeviceSends
<1>4. PICK a \in Int : a = sent[c]
  BY <1>2
<1> DEFINE f == [stream |-> c, bytes |-> Slice(c, a, a + n)]
<1>5. /\ Slice(c, a, a + n) \in Payload /\ Len(Slice(c, a, a + n)) = n
  <2>1. (a + n) - a = n
    OBVIOUS
  <2> QED BY <1>2, <1>3, <1>4, <2>1, SliceIs
<1>6. f \in Frames /\ f.stream = c /\ f.bytes = Slice(c, a, a + n)
  BY <1>5 DEF Frames
<1>7. /\ wire' = Append(wire, f) /\ sent' = [sent EXCEPT ![c] = @ + n]
      /\ rwin' = [rwin EXCEPT ![c] = @ - n] /\ rconn' = rconn - n
      /\ UNCHANGED <<partial, returned, malformed, cache, recv_buf, pc, op, at>>
  BY <1>4 DEF DeviceSends, Slice, decVars, pumpVars, ctlVars
<1> HIDE DEF f
<1>8. Coming' = Append(Coming, f)
  <2>1. Coming' = recv_buf \o Append(wire, f)
    BY <1>7 DEF Coming
  <2>2. recv_buf \o Append(wire, f) = Append(recv_buf \o wire, f)
    BY <1>1, <1>6, ConcatAppend
  <2> QED BY <2>1, <2>2 DEF Coming
<1>9. TypeOK'
  <2>1. wire' \in Seq(Frames)
    BY <1>1, <1>6, <1>7, AppendProperties
  <2>2. sent' \in [Channels -> Int] /\ rwin' \in [Channels -> Int] /\ rconn' \in Int
    BY <1>1, <1>7
  <2>3. \A d \in Channels : sent'[d] \in 0 .. Len(Bytes[d])
    BY <1>1, <1>3, <1>7
  <2> QED BY <1>7, <2>1, <2>2, <2>3 DEF ReceiveInv, TypeOK
<1>10. ASSUME NEW d \in Channels PROVE \E m, x, y \in Int : ChannelAt(d, m, x, y)'
  <2>1. PICK m \in Int, x \in Int, y \in Int : ChannelAt(d, m, x, y)
    BY DEF ReceiveInv, ChannelLine
  <2>2. Taken(d, m, x)' /\ Path(Pieces(d), cache[d], x, y)'
    BY <1>7, <2>1 DEF ChannelAt, Taken
  <2>3. Path(Carried(d), Coming, y, sent[d]) /\ sent[d] \in Int /\ sent'[d] \in Int
    BY <1>1, <1>7, <2>1 DEF ChannelAt
  <2>4. <<sent[d], f, sent'[d]>> \in Carried(d)
    <3>1. CASE d = c
      <4>1. sent[d] = a /\ sent'[d] = a + n
        BY <1>1, <1>4, <1>7, <3>1
      <4>2. <<a, a + n>> \in Span(c)
        BY <1>2, <1>3, <1>4 DEF Span
      <4>3. <<a, Slice(c, a, a + n), a + n>> \in Pieces(c)
        BY <4>2 DEF Pieces
      <4> QED BY <1>6, <2>3, <3>1, <4>1, <4>3 DEF Carried
    <3>2. CASE d # c
      <4>1. sent'[d] = sent[d] /\ f.stream # d
        BY <1>1, <1>6, <1>7, <3>2
      <4> QED BY <1>6, <2>3, <4>1 DEF Carried
    <3> QED BY <3>1, <3>2
  <2>5. Path(Carried(d), Append(Coming, f), y, sent'[d])
    BY <1>1, <1>6, <2>3, <2>4, PathAppend
  <2>6. ChannelAt(d, m, x, y)'
    BY <1>8, <2>2, <2>5 DEF ChannelAt
  <2> QED BY <2>6
<1>11. ASSUME NEW S, NEW w \in Int, Path(Sums(S), Coming, 0, w)
       PROVE  Path(Sums(S), Coming', 0, w + Share(f, S))
  <2>1. 0 \in Int /\ w + Share(f, S) \in Int
    BY <1>6, ShareType
  <2>2. <<w, f, w + Share(f, S)>> \in Sums(S)
    BY <1>6, <2>1 DEF Sums
  <2> QED BY <1>1, <1>6, <1>8, <1>11, <2>1, <2>2, PathAppend
<1>12. CreditLine'
  <2>1. ConnWindow \in Int /\ StreamWindow \in Int
    BY WindowsAssumption
  <2>2. Path(Sums(Channels), Coming, 0, ConnWindow - rconn)'
    <3>1. PICK w \in Int : w = ConnWindow - rconn
      BY <1>1, <2>1
    <3>2. Share(f, Channels) = n
      BY <1>5, <1>6 DEF Share
    <3>3. Path(Sums(Channels), Coming', 0, w + Share(f, Channels))
      BY <1>11, <3>1 DEF ReceiveInv, CreditLine
    <3>4. ConnWindow - rconn' = w + Share(f, Channels)
      BY <1>1, <1>7, <2>1, <3>1, <3>2
    <3> QED BY <3>3, <3>4
  <2>3. ASSUME NEW d \in Channels PROVE Path(Sums({d}), Coming, 0, StreamWindow - rwin[d])'
    <3>1. PICK w \in Int : w = StreamWindow - rwin[d]
      BY <1>1, <2>1
    <3>2. Path(Sums({d}), Coming', 0, w + Share(f, {d}))
      BY <1>11, <3>1 DEF ReceiveInv, CreditLine
    <3>3. StreamWindow - rwin'[d] = w + Share(f, {d})
      <4>1. CASE d = c
        <5>1. Share(f, {d}) = n /\ rwin'[d] = rwin[d] - n
          BY <1>1, <1>5, <1>6, <1>7, <4>1 DEF Share
        <5> QED BY <1>1, <2>1, <3>1, <5>1
      <4>2. CASE d # c
        <5>1. Share(f, {d}) = 0 /\ rwin'[d] = rwin[d]
          BY <1>1, <1>6, <1>7, <4>2 DEF Share
        <5> QED BY <1>1, <2>1, <3>1, <5>1
      <4> QED BY <4>1, <4>2
    <3> QED BY <3>2, <3>3
  <2> QED BY <2>2, <2>3 DEF CreditLine
<1> QED BY <1>9, <1>10, <1>12 DEF ReceiveInv, ChannelLine

LEMMA InvStep == ReceiveInv /\ [Next]_vars => ReceiveInv'
<1> SUFFICES ASSUME ReceiveInv, [Next]_vars PROVE ReceiveInv'
  OBVIOUS
<1>1. CASE TakeBuffered
  BY <1>1, TakeKeeps
<1>2. CASE ReadCached
  BY <1>2, ReadCachedKeeps
<1>3. CASE PumpData
  BY <1>3, PumpKeeps
<1>4. CASE \E n \in 0 .. Len(wire), t \in BOOLEAN : ReadSocket(n, t)
  BY <1>4, ReadSocketKeeps
<1>5. CASE \E c \in Channels : DeviceSends(c, 0) \/ SendsMore(c)
  <2>1. PICK c \in Channels : DeviceSends(c, 0) \/ SendsMore(c)
    BY <1>5
  <2>2. PICK n \in Nat : DeviceSends(c, n)
    BY <2>1, WindowsAssumption DEF SendsMore
  <2> QED BY <2>2, SendsKeep
<1>6. CASE \/ \E o \in Receives : Start(o)
           \/ NeedMore \/ Flushed \/ ReadEof \/ Drop \/ StartSend \/ SendEnds
           \/ DeviceCloses \/ UNCHANGED vars
  BY <1>6, ControlKeeps
<1> QED BY <1>1, <1>2, <1>3, <1>4, <1>5, <1>6 DEF Next, Client

(* Where the bytes of every channel are, and what of the credit they hold: *)
(* the buffers of RemoteXpcClient at every point of every execution.       *)
THEOREM ReceiveInvariant == Spec => []ReceiveInv
  BY InvInit, InvStep, PTL DEF Spec

LEMMA InvGivesCredit == ReceiveInv => CreditIsReturned
<1> SUFFICES ASSUME ReceiveInv PROVE CreditIsReturned
  OBVIOUS
<1>1. Coming \in Seq(Frames) /\ rconn \in Int /\ rwin \in [Channels -> Int]
  BY ComingType DEF ReceiveInv, TypeOK
<1>2. ConnWindow \in Int /\ StreamWindow \in Int
  BY WindowsAssumption
<1>3. Total(Coming, Channels) = ConnWindow - rconn
  <2>1. ConnWindow - rconn \in Int
    BY <1>1, <1>2
  <2> QED BY <1>1, <2>1, TotalOfPath DEF ReceiveInv, CreditLine
<1>4. ASSUME NEW c \in Channels PROVE Total(Coming, {c}) = StreamWindow - rwin[c]
  <2>1. StreamWindow - rwin[c] \in Int
    BY <1>1, <1>2
  <2> QED BY <1>1, <2>1, TotalOfPath DEF ReceiveInv, CreditLine
<1>5. UnreadBytes(Channels) = ConnWindow - rconn
  BY <1>3 DEF UnreadBytes, Coming
<1>6. \A c \in Channels : UnreadBytes({c}) = StreamWindow - rwin[c]
  BY <1>4 DEF UnreadBytes, Coming
<1> QED BY <1>1, <1>2, <1>5, <1>6 DEF CreditIsReturned

(* pump ("never a torn or dropped update"): however frames arrive and      *)
(* wherever receives and sends are dropped, the device's windows are the   *)
(* initial ones less the bytes the client has not taken up.                *)
THEOREM CreditReturned == Spec => []CreditIsReturned
  BY ReceiveInvariant, InvGivesCredit, PTL

-----------------------------------------------------------------------------
(* The refinement                                                          *)

LEMMA QueuesInit == Init => Queues!Init
  BY DEF Init, Queues!Init

(* A receive that ends without a message.                                  *)
LEMMA EndIsGiveUp ==
    ASSUME Return, UNCHANGED <<returned, malformed>>
    PROVE  [Queues!Next]_(Queues!vars)
<1>1. CASE op = <<>>
  BY <1>1 DEF Return, Queues!vars
<1>2. CASE op # <<>>
  <2>1. Queues!GiveUp
    BY <1>2 DEF Return, Queues!GiveUp
  <2> QED BY <2>1 DEF Queues!Next
<1> QED BY <1>1, <1>2

(* take_buffered returns the next message of a channel that was asked for. *)
LEMMA TakeIsDeliver ==
    ASSUME ReceiveInv, TakeBuffered PROVE [Queues!Next]_(Queues!vars)
<1>1. CASE Skips
  <2>1. UNCHANGED <<op, returned, malformed>>
    BY <1>1 DEF Skips, decVars
  <2> QED BY <2>1 DEF Queues!vars
<1>2. CASE ~Skips
  <2>1. PICK c \in Channels : c = op[at]
    BY TakeOutcomes
  <2>2. PICK m \in Int, x \in Int, y \in Int : ChannelAt(c, m, x, y) /\ Takes(c, m, x)
    BY <1>2, <2>1, TakeOutcomes
  <2>3. m \in 0 .. Len(Script[c]) - 1 /\ returned[c] = Queues!BodiesUpTo(c)[m]
    BY <2>2 DEF Takes, ChannelAt, Taken
  <2>4. CASE Script[c][m + 1].body
    <3>1. /\ pc' = "idle" /\ op' = <<>> /\ UNCHANGED malformed
          /\ returned' = [returned EXCEPT ![c] = Append(@, m + 1)]
      BY <2>2, <2>4 DEF Takes, Return
    <3>2. Len(returned[c]) < Len(Queues!Bodies(c)) /\ Queues!Bodies(c)[Len(returned[c]) + 1] = m + 1
      <4>1. /\ Len(Queues!BodiesUpTo(c)[m]) < Len(Queues!Bodies(c))
            /\ Queues!Bodies(c)[Len(Queues!BodiesUpTo(c)[m]) + 1] = m + 1
        BY <2>3, <2>4, BodyIsNext
      <4> QED BY <2>3, <4>1
    <3>3. \E j \in DOMAIN op : op[j] = c
      <4>1. at \in Nat \ {0} /\ at <= Len(op) /\ op \in Seq(Channels)
        BY DEF ReceiveInv, TypeOK, TakeBuffered
      <4>2. at \in DOMAIN op
        BY <4>1, LenProperties
      <4> QED BY <2>1, <4>2
    <3>4. Queues!Deliver(c)
      BY <3>1, <3>2, <3>3 DEF Queues!Deliver
    <3> QED BY <3>4 DEF Queues!Next
  <2>5. CASE ~Script[c][m + 1].body
    <3>1. UNCHANGED <<op, returned, malformed>>
      BY <2>2, <2>5 DEF Takes
    <3> QED BY <3>1 DEF Queues!vars
  <2> QED BY <2>4, <2>5
<1> QED BY <1>1, <1>2

LEMMA QueuesStep ==
    ASSUME ReceiveInv, [Next]_vars PROVE [Queues!Next]_(Queues!vars)
<1>1. CASE TakeBuffered
  BY <1>1, TakeIsDeliver
<1>2. ASSUME NEW o \in Receives, Start(o) PROVE [Queues!Next]_(Queues!vars)
  <2>1. op = <<>>
    BY <1>2 DEF ReceiveInv, TypeOK, Start
  <2>2. Queues!Ask(o)
    BY <1>2, <2>1 DEF Start, decVars, Queues!Ask
  <2> QED BY <2>2 DEF Queues!Next
<1>3. CASE ReadEof \/ Drop
  <2>1. Return /\ UNCHANGED <<returned, malformed>>
    BY <1>3 DEF ReadEof, Drop, decVars
  <2> QED BY <2>1, EndIsGiveUp
<1>4. CASE NeedMore \/ ReadCached \/ StartSend \/ SendEnds
  <2>1. UNCHANGED <<op, returned, malformed>>
    BY <1>4 DEF NeedMore, ReadCached, StartSend, SendEnds, decVars
  <2> QED BY <2>1 DEF Queues!vars
<1>5. CASE PumpData \/ Flushed \/ (\E n \in 0 .. Len(wire), t \in BOOLEAN : ReadSocket(n, t))
  <2>1. UNCHANGED <<op, returned, malformed>>
    BY <1>5 DEF PumpData, Flushed, ReadSocket, decVars, ctlVars
  <2> QED BY <2>1 DEF Queues!vars
<1>6. CASE (\E c \in Channels : DeviceSends(c, 0) \/ SendsMore(c)) \/ DeviceCloses \/ UNCHANGED vars
  <2>1. UNCHANGED <<op, returned, malformed>>
    BY <1>6 DEF DeviceSends, SendsMore, DeviceCloses, vars, decVars, ctlVars
  <2> QED BY <2>1 DEF Queues!vars
<1> QED BY <1>1, <1>2, <1>3, <1>4, <1>5, <1>6 DEF Next, Client

(* recv_buf, cache and partial ("a partially-received message survives a   *)
(* cancelled read"): for its user RemoteXpcClient is the queues of         *)
(* XpcChannels, for any channels and messages, any cutting of messages     *)
(* into frames and reads, and receives and sends dropped at every await.   *)
THEOREM ReceivesAreQueues == Spec => ImplementsQueues
<1>1. Init => Queues!Init
  BY QueuesInit
<1>2. ReceiveInv /\ [Next]_vars => [Queues!Next]_(Queues!vars)
  BY QueuesStep
<1> QED BY <1>1, <1>2, ReceiveInvariant, PTL DEF Spec, ImplementsQueues, Queues!Spec
=============================================================================
