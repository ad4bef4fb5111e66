------------------------ MODULE RemotePairingProofs ------------------------
(***************************************************************************)
(* Proofs about remote pairing, for any number of connections and of       *)
(* requests per connection.                                                *)
(***************************************************************************)
EXTENDS RemotePairing, SequenceTheorems, TLAPS

Keys == {"zero", "setup", "verify"} \X Nat
FileType == [key : Nat, irk : BOOLEAN]
MineType == [seq : Nat, enc : Nat, key : Keys, cipher : Keys]
Wants ==
  {"idle", "handshake", "right", "user", "default", "m5", "paired", "refused",
   "h_handshake", "joined"}
DevType == [recorded : Nat, session : Keys, seq : Nat, enc : Nat, wants : Wants]

(***************************************************************************)
(* The types of everything but the two queues, whose contents Conversation *)
(* gives exactly.                                                          *)
(***************************************************************************)
TypeOK ==
  /\ role \in {"client", "host"} /\ up \in BOOLEAN
  /\ file \in FileType /\ disk \in FileType /\ made \in Nat /\ conns \in Nat
  /\ mine \in MineType /\ dev \in DevType

ClientPcs ==
  {"handshake", "verify2", "verify4", "consent", "m2", "m4", "m6", "encrypted"}
HostPcs == {"h_handshake", "h_m1", "h_m3", "h_m5"}

(* The line is silent; one message is under way to the device; or one of   *)
(* the answers T is under way back.                                        *)
Quiet == out = <<>> /\ in = <<>>
Asks(t, v) == up /\ out = <<[t |-> t, v |-> v, n |-> dev.seq]>> /\ in = <<>>
Says(t, v) == out = <<>> /\ in = <<[t |-> t, v |-> v]>>
Lost == ~up /\ Quiet

Waits(t, v, T) == Asks(t, v) \/ Lost \/ \E a \in T : Says(a, 0)

(***************************************************************************)
(* What can be under way while connect waits for a message.  The protocol  *)
(* is half-duplex but for two places: a refused verification is reported   *)
(* and followed by pair-setup at once, and awaitingUserConsent is followed *)
(* by the user's decision.                                                 *)
(***************************************************************************)
VerifyLine ==
  /\ pc \in {"handshake", "verify2", "verify4"} => dev.wants = "handshake"
  /\ pc = "handshake" => Waits("handshake", "verify", {"handshake"})
  /\ pc = "verify2" => Waits("verify1", 0, {"verify2", "error", "rejected"})
  /\ pc = "verify4" =>
       /\ mine.key = Verify
       /\ \/ Waits("verify3", file.key, {"error", "rejected"})
          \/ Says("verify4", 0) /\ dev.session = Verify /\ dev.recorded = file.key

Consent ==
  \/ /\ up /\ in = <<>> /\ dev.wants = "handshake"
     /\ out = <<[t |-> "verifyFailed", v |-> 0, n |-> dev.seq],
                [t |-> "m1", v |-> 0, n |-> dev.seq + 1]>>
  \/ Waits("m1", 0, {"rejected"}) /\ (up => dev.wants = "handshake")
  \/ Says("m2", 0) /\ dev.wants = "right"
  \/ Says("awaiting", 0) /\ dev.wants = "user"
  \/ /\ out = <<>> /\ dev.wants = "default"
     /\ \E t \in {"m2", "rejected"} :
          in = <<[t |-> "awaiting", v |-> 0], [t |-> t, v |-> 0]>>

PairLine ==
  /\ pc = "consent" => Consent
  /\ pc = "m2" =>
       \/ up /\ Quiet /\ dev.wants = "user"
       \/ Lost
       \/ dev.wants = "default" /\ \E t \in {"m2", "rejected"} : Says(t, 0)
  /\ pc = "m4" =>
       \/ Waits("m3", pin, {"error"})
       \/ Says("m4", 0) /\ dev.session = Setup /\ dev.wants = "m5"
  /\ pc = "m6" =>
       /\ mine.key = Setup /\ mine.cipher = Setup
       /\ \/ Asks("m5", file.key) /\ dev.session = Setup
          \/ Lost \/ Says("error", 0) \/ Says("m6incomplete", 0)
          \/ Says("m6", 0) /\ dev.session = Setup /\ dev.recorded = file.key

Agreed ==
  dev.recorded = file.key /\ mine.key = dev.session /\ mine.cipher = dev.session

SessionLine ==
  /\ pc = "ok" /\ role = "client" => Agreed /\ Quiet
  /\ pc = "encrypted" =>
       /\ Agreed
       /\ \/ Asks("encrypted", <<mine.cipher, mine.enc>>) /\ dev.enc = mine.enc
          \/ Lost
          \/ /\ dev.enc = mine.enc + 1
             /\ \E t \in {"encrypted", "rejected"} : Says(t, <<mine.cipher, mine.enc>>)

(* The same for accept; a host that has returned may have its last message *)
(* still under way.                                                        *)
HostLine ==
  /\ pc \in HostPcs => dev.wants = "h_handshake"
  /\ pc = "h_handshake" => Lost \/ \E v \in {"verify", "setup"} : Says("handshake", v)
  /\ pc = "h_m1" => Waits("handshake", 0, {"m1"})
  /\ pc = "h_m3" =>
       Waits("m2", 0, {"error"}) \/ \E v \in {"shown", "mistyped"} : Says("m3", v)
  /\ pc = "h_m5" =>
       \/ Waits("m4", 0, {"m5incomplete", "error"})
       \/ Says("m5", 0) /\ dev.session = Setup
  /\ pc = "ok" /\ role = "host" =>
       /\ file.irk /\ mine.key = Setup /\ dev.session = Setup
       /\ \/ Asks("m6", file.key) /\ dev.wants = "h_handshake"
          \/ Quiet /\ (dev.wants = "joined" => dev.recorded = file.key)

(* Nothing is on the line between connections, and at most the host's last *)
(* error after a failure.                                                  *)
IdleLine ==
  /\ pc = "idle" => Lost /\ dev.wants = "idle"
  /\ pc = "err" => Quiet \/ (role = "host" /\ Asks("error", 0))

(* Which positions a role passes through, and what the device can be at.   *)
Positions ==
  /\ pc \in ClientPcs \cup HostPcs \cup {"idle", "ok", "err"}
  /\ pc \in ClientPcs => role = "client"
  /\ pc \in HostPcs => role = "host"
  /\ dev.wants = "user" => role = "client" /\ (up => pc \in {"consent", "m2"})
  /\ dev.wants = "joined" => role = "host" /\ pc = "ok"

Counts ==
  /\ up => mine.seq = dev.seq + Len(out)
  /\ pc \notin {"idle", "err", "encrypted"} => mine.enc = dev.enc

PairingInv ==
  /\ TypeOK /\ Positions /\ Counts
  /\ VerifyLine /\ PairLine /\ SessionLine /\ HostLine /\ IdleLine

-----------------------------------------------------------------------------
(* The queues                                                              *)

LEMMA NoMessage == Len(<<>>) = 0
  OBVIOUS

LEMMA OneMessage ==
    ASSUME NEW m
    PROVE  Head(<<m>>) = m /\ Tail(<<m>>) = <<>> /\ <<m>> # <<>> /\ Len(<<m>>) = 1
  OBVIOUS

LEMMA TwoMessages ==
    ASSUME NEW m, NEW k
    PROVE  /\ Head(<<m, k>>) = m /\ Tail(<<m, k>>) = <<k>>
           /\ <<m, k>> # <<>> /\ Len(<<m, k>>) = 2
  OBVIOUS

LEMMA OneMore == ASSUME NEW m, NEW k PROVE Append(<<m>>, k) = <<m, k>>
<1> DEFINE S == {m, k}
<1>1. <<m>> \in Seq(S) /\ <<m, k>> \in Seq(S) /\ k \in S
  OBVIOUS
<1>2. Append(<<m>>, k) \in Seq(S)
  BY <1>1
<1>3. /\ Len(Append(<<m>>, k)) = 2
      /\ Append(<<m>>, k)[1] = m /\ Append(<<m>>, k)[2] = k
  BY <1>1
<1>4. Len(<<m, k>>) = 2 /\ <<m, k>>[1] = m /\ <<m, k>>[2] = k
  OBVIOUS
<1>5. \A i \in 1 .. Len(Append(<<m>>, k)) : Append(<<m>>, k)[i] = <<m, k>>[i]
  <2> TAKE i \in 1 .. Len(Append(<<m>>, k))
  <2>1. i = 1 \/ i = 2 BY <1>3
  <2> QED BY <1>3, <1>4, <2>1
<1> HIDE DEF S
<1> QED BY <1>1, <1>2, <1>3, <1>4, <1>5, SeqEqual

LEMMA NoneAnswered ==
    <<>> \o [i \in 1 .. Len(<<>>) |-> [t |-> <<>>[i][1], v |-> <<>>[i][2]]] = <<>>
  OBVIOUS

LEMMA OneAnswered ==
    ASSUME NEW t, NEW v
    PROVE  <<>> \o [i \in 1 .. Len(<<<<t, v>>>>) |->
                      [t |-> <<<<t, v>>>>[i][1], v |-> <<<<t, v>>>>[i][2]]]
             = <<[t |-> t, v |-> v]>>
  OBVIOUS
LEMMA NoneSent == <<>> \o Sent(<<>>) = <<>>
  BY DEF Sent

LEMMA OneSent ==
    ASSUME NEW t, NEW v, mine.seq \in Nat
    PROVE  <<>> \o Sent(<<<<t, v>>>>) = <<[t |-> t, v |-> v, n |-> mine.seq]>>
  BY DEF Sent

LEMMA TwoSent ==
    ASSUME NEW t, NEW v, NEW u, NEW w, mine.seq \in Nat
    PROVE  <<>> \o Sent(<<<<t, v>>, <<u, w>>>>)
             = <<[t |-> t, v |-> v, n |-> mine.seq], [t |-> u, v |-> w, n |-> mine.seq + 1]>>
  BY DEF Sent

-----------------------------------------------------------------------------
(* Receiving the one message under way leaves the line silent but for what *)
(* is sent in return, which bears the number the device counts to.         *)

LEMMA ReceiveAndSay ==
    ASSUME TypeOK, Counts, NEW a, NEW w, Says(a, w),
           NEW p, NEW t, NEW v, NEW m \in MineType, Step(p, <<<<t, v>>>>, m)
    PROVE  /\ pc' = p /\ in' = <<>>
           /\ out' = IF up THEN <<[t |-> t, v |-> v, n |-> dev.seq]>> ELSE <<>>
           /\ mine' = [m EXCEPT !.seq = mine.seq + 1]
           /\ mine' \in MineType
           /\ up' => mine'.seq = dev'.seq + Len(out')
           /\ UNCHANGED <<role, disk, up, dev, conns>>
<1>1. mine.seq \in Nat /\ dev.seq \in Nat
  BY DEF TypeOK, MineType, DevType
<1>2. Len(<<<<t, v>>>>) = 1 /\ in' = <<>> /\ out = <<>>
  BY OneMessage DEF Says, Step
<1>3. mine' = [m EXCEPT !.seq = mine.seq + 1] /\ mine' \in MineType /\ mine'.seq = mine.seq + 1
  BY <1>1, <1>2 DEF Step, Say, MineType
<1>4. out' = IF up THEN <<[t |-> t, v |-> v, n |-> mine.seq]>> ELSE <<>>
  BY <1>1, <1>2, OneSent DEF Step, Say
<1>5. up => mine.seq = dev.seq
  BY <1>1, <1>2, NoMessage DEF Counts
<1>6. up => out' = <<[t |-> t, v |-> v, n |-> dev.seq]>> /\ Len(out') = 1
  BY <1>4, <1>5, OneMessage
<1> QED BY <1>1, <1>2, <1>3, <1>4, <1>5, <1>6 DEF Step

LEMMA ReceiveOnly ==
    ASSUME TypeOK, Counts, out = <<>>,
           NEW p, NEW m \in MineType, Step(p, <<>>, m)
    PROVE  /\ pc' = p /\ in' = Tail(in) /\ out' = <<>>
           /\ mine' = [m EXCEPT !.seq = mine.seq] /\ mine' \in MineType
           /\ up' => mine'.seq = dev'.seq + Len(out')
           /\ UNCHANGED <<role, disk, up, dev, conns>>
<1>1. mine.seq \in Nat /\ dev.seq \in Nat
  BY DEF TypeOK, MineType, DevType
<1>2. mine' = [m EXCEPT !.seq = mine.seq] /\ mine' \in MineType /\ mine'.seq = mine.seq
  BY <1>1, NoMessage DEF Step, Say, MineType
<1>3. out' = <<>>
  BY NoneSent DEF Step, Say
<1>4. up' = up /\ dev' = dev /\ (up => mine.seq = dev.seq + Len(out))
  BY DEF Step, Counts
<1> QED BY <1>2, <1>3, <1>4 DEF Step

(* What a step of this side has to establish besides the line it leads to. *)
LEMMA Moves ==
    ASSUME PairingInv, mine' \in MineType, file' \in FileType, made' \in Nat,
           mine'.enc = mine.enc, up' => mine'.seq = dev'.seq + Len(out'),
           UNCHANGED <<role, disk, up, dev, conns>>,
           pc \notin {"idle", "ok", "err", "encrypted"},
           pc' \in (IF role = "client" THEN ClientPcs \ {"encrypted"} ELSE HostPcs)
                     \cup {"ok", "err"},
           up /\ dev.wants = "user" => pc' = "m2"
    PROVE  TypeOK' /\ Positions' /\ Counts'
<1>1. TypeOK' BY DEF PairingInv, TypeOK
<1>2. Counts' BY DEF PairingInv, Counts
<1>3. Positions' BY DEF PairingInv, TypeOK, Positions, ClientPcs, HostPcs
<1> QED BY <1>1, <1>2, <1>3

LEMMA RecvHandshakeKeeps == ASSUME PairingInv, RecvHandshake PROVE PairingInv'
<1> USE DEF PairingInv
<1>1. mine \in MineType /\ Says("handshake", 0)
  BY OneMessage DEF TypeOK, RecvHandshake, Got, VerifyLine, Waits, Asks, Lost, Quiet, Says
<1>2. Step("verify2", <<<<"verify1", 0>>>>, mine) /\ UNCHANGED <<file, pin, made>>
  BY DEF RecvHandshake
<1>3. /\ pc' = "verify2" /\ in' = <<>>
      /\ out' = IF up THEN <<[t |-> "verify1", v |-> 0, n |-> dev.seq]>> ELSE <<>>
      /\ mine' = [mine EXCEPT !.seq = mine.seq + 1] /\ mine' \in MineType
      /\ up' => mine'.seq = dev'.seq + Len(out')
      /\ UNCHANGED <<role, disk, up, dev, conns>>
  BY <1>1, <1>2, ReceiveAndSay
<1>4. mine'.enc = mine.enc BY <1>1, <1>3 DEF MineType
<1>5. TypeOK' /\ Positions' /\ Counts'
  BY <1>2, <1>3, <1>4, Moves DEF TypeOK, Positions, RecvHandshake, ClientPcs
<1>6. VerifyLine' BY <1>3 DEF RecvHandshake, VerifyLine, Waits, Asks, Lost, Quiet, TypeOK
<1> QED BY <1>3, <1>5, <1>6 DEF PairLine, SessionLine, HostLine, HostPcs, IdleLine

LEMMA RecvVerify2Keeps == ASSUME PairingInv, RecvVerify2 PROVE PairingInv'
<1> USE DEF PairingInv
<1> DEFINE m == [mine EXCEPT !.key = Verify]
<1>1. m \in MineType /\ m.enc = mine.enc /\ m.key = Verify
  BY DEF TypeOK, MineType, Keys, Verify
<1>2. Says("verify2", 0)
  BY OneMessage DEF RecvVerify2, Got, VerifyLine, Waits, Asks, Lost, Quiet, Says
<1>3. Step("verify4", <<<<"verify3", file.key>>>>, m) /\ UNCHANGED <<file, pin, made>>
  BY DEF RecvVerify2
<1>4. /\ pc' = "verify4" /\ in' = <<>>
      /\ out' = IF up THEN <<[t |-> "verify3", v |-> file.key, n |-> dev.seq]>> ELSE <<>>
      /\ mine' = [m EXCEPT !.seq = mine.seq + 1] /\ mine' \in MineType
      /\ up' => mine'.seq = dev'.seq + Len(out')
      /\ UNCHANGED <<role, disk, up, dev, conns>>
  BY <1>1, <1>2, <1>3, ReceiveAndSay
<1>5. mine'.enc = mine.enc /\ mine'.key = Verify BY <1>1, <1>4 DEF MineType
<1>6. TypeOK' /\ Positions' /\ Counts'
  BY <1>3, <1>4, <1>5, Moves DEF TypeOK, Positions, RecvVerify2, ClientPcs
<1>7. VerifyLine'
  BY <1>3, <1>4, <1>5 DEF RecvVerify2, VerifyLine, Waits, Asks, Lost, Quiet, TypeOK, Verify
<1> QED BY <1>4, <1>6, <1>7 DEF PairLine, SessionLine, HostLine, HostPcs, IdleLine

LEMMA RecvVerify4Keeps == ASSUME PairingInv, RecvVerify4 PROVE PairingInv'
<1> USE DEF PairingInv
<1> DEFINE m == [mine EXCEPT !.cipher = mine.key]
<1>1. m \in MineType /\ m.enc = mine.enc /\ m.key = mine.key /\ m.cipher = mine.key
  BY DEF TypeOK, MineType
<1>2. /\ Says("verify4", 0) /\ mine.key = Verify
      /\ dev.session = Verify /\ dev.recorded = file.key
  BY OneMessage DEF RecvVerify4, Got, VerifyLine, Waits, Asks, Lost, Quiet, Says
<1>3. Step("ok", <<>>, m) /\ UNCHANGED <<file, pin, made>>
  BY DEF RecvVerify4
<1>4. /\ pc' = "ok" /\ in' = <<>> /\ out' = <<>>
      /\ mine' = [m EXCEPT !.seq = mine.seq] /\ mine' \in MineType
      /\ up' => mine'.seq = dev'.seq + Len(out')
      /\ UNCHANGED <<role, disk, up, dev, conns>>
  BY <1>1, <1>2, <1>3, ReceiveOnly, OneMessage DEF Says
<1>5. mine'.enc = mine.enc /\ mine'.key = Verify /\ mine'.cipher = Verify
  BY <1>1, <1>2, <1>4 DEF MineType
<1>6. TypeOK' /\ Positions' /\ Counts'
  BY <1>3, <1>4, <1>5, Moves DEF TypeOK, Positions, RecvVerify4, ClientPcs
<1>7. SessionLine' /\ role' = "client"
  BY <1>2, <1>3, <1>4, <1>5 DEF SessionLine, Agreed, Quiet, Positions, RecvVerify4, ClientPcs
<1> QED BY <1>4, <1>6, <1>7 DEF VerifyLine, PairLine, HostLine, HostPcs, IdleLine

LEMMA VerifyFailsKeeps == ASSUME PairingInv, VerifyFails PROVE PairingInv'
<1> USE DEF PairingInv
<1>1. mine \in MineType /\ dev \in DevType BY DEF TypeOK
<1>2. Says("error", 0)
  BY OneMessage DEF VerifyFails, Got, VerifyLine, Waits, Asks, Lost, Quiet, Says
<1>3. /\ Step("consent", <<<<"verifyFailed", 0>>, <<"m1", 0>>>>, mine)
      /\ UNCHANGED <<file, pin, made>>
  BY DEF VerifyFails
<1>4. Len(<<<<"verifyFailed", 0>>, <<"m1", 0>>>>) = 2
  BY TwoMessages
<1>5. mine' = [mine EXCEPT !.seq = mine.seq + 2]
  BY <1>3, <1>4 DEF Step, Say
<1>6. mine' \in MineType /\ mine'.enc = mine.enc /\ mine'.seq = mine.seq + 2
  BY <1>1, <1>5 DEF MineType
<1>7. in' = <<>> /\ out = <<>> /\ pc' = "consent" /\ UNCHANGED <<role, disk, up, dev, conns>>
  BY <1>2, <1>3, OneMessage DEF Step, Says
<1>8. out' = IF up THEN <<[t |-> "verifyFailed", v |-> 0, n |-> mine.seq],
                          [t |-> "m1", v |-> 0, n |-> mine.seq + 1]>> ELSE <<>>
  BY <1>1, <1>3, <1>7, TwoSent DEF Step, Say, MineType
<1>9. up => mine.seq = dev.seq
  BY <1>1, <1>7, NoMessage DEF Counts, MineType, DevType
<1>10. up => Len(out') = 2
  BY <1>8, TwoMessages
<1>11. up' => mine'.seq = dev'.seq + Len(out')
  BY <1>6, <1>7, <1>9, <1>10
<1>12. TypeOK' /\ Positions' /\ Counts'
  BY <1>3, <1>6, <1>7, <1>11, Moves DEF TypeOK, Positions, VerifyFails, ClientPcs
<1>13. up => dev.wants = "handshake"
  BY DEF VerifyFails, VerifyLine
<1>14. Consent'
  BY <1>7, <1>8, <1>9, <1>13 DEF Consent, Waits, Asks, Lost, Quiet, TypeOK
<1> QED BY <1>7, <1>12, <1>14 DEF PairLine, VerifyLine, SessionLine, HostLine, HostPcs, IdleLine

LEMMA VerifyRejectedKeeps == ASSUME PairingInv, VerifyRejected PROVE PairingInv'
<1> USE DEF PairingInv
<1>1. mine \in MineType BY DEF TypeOK
<1>2. Says("rejected", 0)
  BY OneMessage DEF VerifyRejected, Got, VerifyLine, Waits, Asks, Lost, Quiet, Says
<1>3. Step("consent", <<<<"m1", 0>>>>, mine) /\ UNCHANGED <<file, pin, made>>
  BY DEF VerifyRejected
<1>4. /\ pc' = "consent" /\ in' = <<>>
      /\ out' = IF up THEN <<[t |-> "m1", v |-> 0, n |-> dev.seq]>> ELSE <<>>
      /\ mine' = [mine EXCEPT !.seq = mine.seq + 1] /\ mine' \in MineType
      /\ up' => mine'.seq = dev'.seq + Len(out')
      /\ UNCHANGED <<role, disk, up, dev, conns>>
  BY <1>1, <1>2, <1>3, ReceiveAndSay
<1>5. mine'.enc = mine.enc BY <1>1, <1>4 DEF MineType
<1>6. TypeOK' /\ Positions' /\ Counts'
  BY <1>3, <1>4, <1>5, Moves DEF TypeOK, Positions, VerifyRejected, ClientPcs
<1>7. up => dev.wants = "handshake"
  BY DEF VerifyRejected, VerifyLine
<1>8. Consent'
  BY <1>4, <1>7 DEF Consent, Waits, Asks, Lost, Quiet, TypeOK
<1> QED BY <1>4, <1>6, <1>8 DEF PairLine, VerifyLine, SessionLine, HostLine, HostPcs, IdleLine

LEMMA RecvAwaitingKeeps == ASSUME PairingInv, RecvAwaiting PROVE PairingInv'
<1> USE DEF PairingInv
<1>1. mine \in MineType BY DEF TypeOK
<1>2. out = <<>> /\ \/ Tail(in) = <<>> /\ dev.wants = "user"
                    \/ /\ dev.wants = "default"
                       /\ \E t \in {"m2", "rejected"} : Tail(in) = <<[t |-> t, v |-> 0]>>
  <2>1. Consent /\ in # <<>> /\ Head(in).t = "awaiting"
    BY DEF RecvAwaiting, Got, PairLine
  <2>2. in # <<>> /\ ~Waits("m1", 0, {"rejected"}) /\ ~Says("m2", 0)
    BY <2>1, OneMessage DEF Waits, Asks, Lost, Quiet, Says
  <2>4. CASE Says("awaiting", 0) /\ dev.wants = "user"
    BY <2>4, OneMessage DEF Says
  <2>3. ASSUME NEW t \in {"m2", "rejected"}, dev.wants = "default", out = <<>>,
               in = <<[t |-> "awaiting", v |-> 0], [t |-> t, v |-> 0]>>
        PROVE  out = <<>> /\ dev.wants = "default" /\ Tail(in) = <<[t |-> t, v |-> 0]>>
    BY <2>3, TwoMessages
  <2> QED BY <2>1, <2>2, <2>3, <2>4 DEF Consent
<1>3. Step("m2", <<>>, mine) /\ UNCHANGED <<file, made>>
  BY DEF RecvAwaiting
<1>4. /\ pc' = "m2" /\ in' = Tail(in) /\ out' = <<>>
      /\ mine' = [mine EXCEPT !.seq = mine.seq] /\ mine' \in MineType
      /\ up' => mine'.seq = dev'.seq + Len(out')
      /\ UNCHANGED <<role, disk, up, dev, conns>>
  BY <1>1, <1>2, <1>3, ReceiveOnly
<1>5. mine'.enc = mine.enc BY <1>1, <1>4 DEF MineType
<1>6. TypeOK' /\ Positions' /\ Counts'
  BY <1>3, <1>4, <1>5, Moves DEF TypeOK, Positions, RecvAwaiting, ClientPcs
<1>7. PairLine'
  BY <1>2, <1>4 DEF PairLine, Lost, Quiet, Says, TypeOK
<1> QED BY <1>4, <1>6, <1>7 DEF VerifyLine, SessionLine, HostLine, HostPcs, IdleLine

LEMMA RecvM2Keeps == ASSUME PairingInv, RecvM2 PROVE PairingInv'
<1> USE DEF PairingInv
<1>1. mine \in MineType BY DEF TypeOK
<1>2. Says("m2", 0) /\ dev.wants # "user"
  BY OneMessage, TwoMessages
     DEF RecvM2, Got, PairLine, Consent, Waits, Asks, Lost, Quiet, Says
<1>3. Step("m4", <<<<"m3", pin'>>>>, mine) /\ UNCHANGED <<file, made>>
  BY DEF RecvM2
<1>4. /\ pc' = "m4" /\ in' = <<>>
      /\ out' = IF up THEN <<[t |-> "m3", v |-> pin', n |-> dev.seq]>> ELSE <<>>
      /\ mine' = [mine EXCEPT !.seq = mine.seq + 1] /\ mine' \in MineType
      /\ up' => mine'.seq = dev'.seq + Len(out')
      /\ UNCHANGED <<role, disk, up, dev, conns>>
  BY <1>1, <1>2, <1>3, ReceiveAndSay
<1>5. mine'.enc = mine.enc BY <1>1, <1>4 DEF MineType
<1>6. TypeOK' /\ Positions' /\ Counts'
  BY <1>2, <1>3, <1>4, <1>5, Moves DEF TypeOK, Positions, RecvM2, ClientPcs
<1>7. PairLine'
  BY <1>4 DEF PairLine, Waits, Asks, Lost, Quiet, TypeOK
<1> QED BY <1>4, <1>6, <1>7 DEF VerifyLine, SessionLine, HostLine, HostPcs, IdleLine

(* What the device's proof has settled when it arrives. *)
LEMMA ProofAccepted ==
    ASSUME PairingInv, pc = "m4", Got("m4")
    PROVE  Says("m4", 0) /\ dev.session = Setup /\ dev.wants = "m5"
  BY OneMessage DEF PairingInv, Got, PairLine, Waits, Asks, Lost, Quiet, Says

LEMMA RecvM4Keeps == ASSUME PairingInv, RecvM4 PROVE PairingInv'
<1> USE DEF PairingInv
<1> DEFINE m == [mine EXCEPT !.key = Setup, !.cipher = Setup]
<1>1. m \in MineType /\ m.enc = mine.enc /\ m.key = Setup /\ m.cipher = Setup
  BY DEF TypeOK, MineType, Keys, Setup
<1>2. Says("m4", 0) /\ dev.session = Setup /\ dev.wants = "m5"
  BY ProofAccepted DEF RecvM4
<1> PICK k \in Nat : k = made + 1 BY DEF TypeOK
<1>3. /\ Step("m6", <<<<"m5", k>>>>, m)
      /\ made' \in Nat /\ file' \in FileType /\ file'.key = k
  BY DEF RecvM4, TypeOK, FileType
<1> HIDE DEF m
<1>4. /\ pc' = "m6" /\ in' = <<>>
      /\ out' = IF up THEN <<[t |-> "m5", v |-> k, n |-> dev.seq]>> ELSE <<>>
      /\ mine' = [m EXCEPT !.seq = mine.seq + 1] /\ mine' \in MineType
      /\ up' => mine'.seq = dev'.seq + Len(out')
      /\ UNCHANGED <<role, disk, up, dev, conns>>
  BY <1>1, <1>2, <1>3, ReceiveAndSay
<1>5. mine'.enc = mine.enc /\ mine'.key = Setup /\ mine'.cipher = Setup
  BY <1>1, <1>4 DEF MineType
<1>6. TypeOK' /\ Positions' /\ Counts'
  BY <1>2, <1>3, <1>4, <1>5, Moves DEF Positions, RecvM4, ClientPcs
<1>7. PairLine'
  BY <1>2, <1>3, <1>4, <1>5 DEF PairLine, Asks, Lost, Quiet, TypeOK, Setup
<1> QED BY <1>4, <1>6, <1>7 DEF VerifyLine, SessionLine, HostLine, HostPcs, IdleLine

LEMMA RecvM6Keeps == ASSUME PairingInv, RecvM6 PROVE PairingInv'
<1> USE DEF PairingInv
<1>1. mine \in MineType BY DEF TypeOK
<1>2. /\ Says("m6", 0) /\ mine.key = Setup /\ mine.cipher = Setup
      /\ dev.session = Setup /\ dev.recorded = file.key
  BY OneMessage DEF RecvM6, Got, PairLine, Asks, Lost, Quiet, Says
<1>3. /\ Step("ok", <<>>, mine) /\ UNCHANGED made
      /\ file' \in FileType /\ file'.key = file.key
  BY DEF RecvM6, TypeOK, FileType
<1>4. /\ pc' = "ok" /\ in' = <<>> /\ out' = <<>>
      /\ mine' = [mine EXCEPT !.seq = mine.seq] /\ mine' \in MineType
      /\ up' => mine'.seq = dev'.seq + Len(out')
      /\ UNCHANGED <<role, disk, up, dev, conns>>
  BY <1>1, <1>2, <1>3, ReceiveOnly, OneMessage DEF Says
<1>5. mine'.enc = mine.enc /\ mine'.key = Setup /\ mine'.cipher = Setup
  BY <1>1, <1>2, <1>4 DEF MineType
<1>6. TypeOK' /\ Positions' /\ Counts'
  BY <1>3, <1>4, <1>5, Moves DEF TypeOK, Positions, RecvM6, ClientPcs
<1>7. SessionLine' /\ role' = "client"
  BY <1>2, <1>3, <1>4, <1>5 DEF SessionLine, Agreed, Quiet, Positions, RecvM6, ClientPcs
<1> QED BY <1>4, <1>6, <1>7 DEF VerifyLine, PairLine, HostLine, HostPcs, IdleLine

(* Every early return with an error leaves a silent line. *)
LEMMA ReturnErrKeeps ==
    ASSUME PairingInv, NEW a, NEW w, Says(a, w), Return("err"), up => dev.wants # "user",
           pc \notin {"idle", "ok", "err"}
    PROVE  PairingInv'
<1> USE DEF PairingInv
<1>1. mine \in MineType BY DEF TypeOK
<1>2. Step("err", <<>>, mine) /\ UNCHANGED <<file, pin, made>> /\ out = <<>> /\ Tail(in) = <<>>
  BY OneMessage DEF Return, Says
<1>3. /\ pc' = "err" /\ in' = <<>> /\ out' = <<>>
      /\ mine' \in MineType
      /\ up' => mine'.seq = dev'.seq + Len(out')
      /\ UNCHANGED <<role, disk, up, dev, conns>>
  BY <1>1, <1>2, ReceiveOnly
<1>4. TypeOK' BY <1>2, <1>3 DEF TypeOK
<1>5. Positions' BY <1>3 DEF Positions, ClientPcs, HostPcs
<1>6. Counts' BY <1>3 DEF Counts
<1> QED
  BY <1>3, <1>4, <1>5, <1>6
     DEF VerifyLine, PairLine, SessionLine, HostLine, HostPcs, IdleLine, Quiet

LEMMA PairFailsKeeps == ASSUME PairingInv, PairFails PROVE PairingInv'
<1> USE DEF PairingInv
<1>1. Return("err") /\ pc \in {"consent", "m2", "m4", "m6"} /\ in # <<>>
  BY DEF PairFails, GotOne, Got
<1>2. CASE pc = "consent"
  <2>1. Says("rejected", 0) /\ (up => dev.wants = "handshake")
    <3>1. Consent /\ Head(in).t \in {"rejected", "error"}
      BY <1>2 DEF PairLine, PairFails, GotOne, Got
    <3>2. ~Says("m2", 0) /\ ~Says("awaiting", 0)
      BY <3>1, OneMessage DEF Says
    <3>3. \A t : in # <<[t |-> "awaiting", v |-> 0], [t |-> t, v |-> 0]>>
      BY <3>1, TwoMessages
    <3> QED BY <1>1, <3>1, <3>2, <3>3 DEF Consent, Waits, Asks, Lost, Quiet
  <2> QED BY <1>1, <2>1, ReturnErrKeeps
<1>3. CASE pc = "m2"
  <2>1. \E t \in {"m2", "rejected"} : Says(t, 0) /\ dev.wants = "default"
    BY <1>1, <1>3 DEF PairLine, Lost, Quiet
  <2> QED BY <1>1, <2>1, ReturnErrKeeps
<1>4. CASE pc = "m4"
  <2>1. \E t : Says(t, 0)
    BY <1>1, <1>4 DEF PairLine, Waits, Asks, Lost, Quiet
  <2>2. up => dev.wants # "user"
    BY <1>4 DEF Positions
  <2> QED BY <1>1, <2>1, <2>2, ReturnErrKeeps
<1>5. CASE pc = "m6"
  <2>1. \E t : Says(t, 0)
    BY <1>1, <1>5 DEF PairLine, Asks, Lost, Quiet
  <2>2. up => dev.wants # "user"
    BY <1>5 DEF Positions
  <2> QED BY <1>1, <2>1, <2>2, ReturnErrKeeps
<1> QED BY <1>1, <1>2, <1>3, <1>4, <1>5

LEMMA SendEncryptedKeeps == ASSUME PairingInv, SendEncrypted PROVE PairingInv'
<1> USE DEF PairingInv
<1>1. mine \in MineType /\ dev \in DevType BY DEF TypeOK
<1>2. Agreed /\ out = <<>> /\ in = <<>> /\ up /\ mine.seq = dev.seq /\ mine.enc = dev.enc
  BY <1>1, NoMessage DEF SendEncrypted, SessionLine, Quiet, Counts, MineType, DevType
<1> DEFINE w == <<mine.cipher, mine.enc>>
<1>3. /\ pc' = "encrypted" /\ Say(<<<<"encrypted", w>>>>, mine)
      /\ UNCHANGED <<role, file, disk, pin, up, in, dev, conns, made>>
  BY DEF SendEncrypted
<1> HIDE DEF w
<1>4. mine' = [mine EXCEPT !.seq = mine.seq + 1]
  BY <1>3, OneMessage DEF Say
<1>5. /\ mine' \in MineType /\ mine'.seq = mine.seq + 1 /\ mine'.enc = mine.enc
      /\ mine'.key = mine.key /\ mine'.cipher = mine.cipher
  BY <1>1, <1>4 DEF MineType
<1>6. out' = <<[t |-> "encrypted", v |-> w, n |-> mine.seq]>> /\ Len(out') = 1
  BY <1>1, <1>2, <1>3, OneSent, OneMessage DEF Say, MineType
<1>7. w = <<mine'.cipher, mine'.enc>>
  BY <1>5 DEF w
<1>8. TypeOK' BY <1>3, <1>5 DEF TypeOK
<1>9. Positions' BY <1>3 DEF Positions, SendEncrypted, ClientPcs, HostPcs
<1>10. Counts' BY <1>1, <1>2, <1>3, <1>5, <1>6 DEF Counts
<1>11. SessionLine'
  <2>1. Agreed' BY <1>2, <1>3, <1>5 DEF Agreed
  <2>2. out' = <<[t |-> "encrypted", v |-> <<mine'.cipher, mine'.enc>>, n |-> dev'.seq]>>
    BY <1>2, <1>3, <1>6, <1>7
  <2>3. Asks("encrypted", <<mine.cipher, mine.enc>>)' /\ dev'.enc = mine'.enc
    BY <1>2, <1>3, <1>5, <2>2 DEF Asks
  <2> QED BY <1>3, <2>1, <2>3 DEF SessionLine
<1> QED BY <1>3, <1>8, <1>9, <1>10, <1>11 DEF VerifyLine, PairLine, HostLine, HostPcs, IdleLine

(* The one message that can arrive while a request waits. *)
LEMMA EncryptedAnswer ==
    ASSUME PairingInv, pc = "encrypted", in # <<>>
    PROVE  /\ Agreed /\ dev.enc = mine.enc + 1
           /\ \E t, v : Says(t, v)
  BY DEF PairingInv, SessionLine, Asks, Lost, Quiet

LEMMA RecvEncryptedKeeps == ASSUME PairingInv, RecvEncrypted PROVE PairingInv'
<1> USE DEF PairingInv
<1> DEFINE m == [mine EXCEPT !.enc = mine.enc + 1]
<1>1. /\ m \in MineType /\ m.enc = mine.enc + 1
      /\ m.key = mine.key /\ m.cipher = mine.cipher
  BY DEF TypeOK, MineType
<1>2. /\ Agreed /\ dev.enc = mine.enc + 1 /\ out = <<>> /\ Tail(in) = <<>>
      /\ role = "client" /\ (up => dev.wants # "user") /\ dev.wants # "joined"
  BY EncryptedAnswer, OneMessage
     DEF RecvEncrypted, Readable, Got, Says, Positions, ClientPcs
<1>3. Step("ok", <<>>, m) /\ UNCHANGED <<file, pin, made>>
  BY DEF RecvEncrypted
<1> HIDE DEF m
<1>4. /\ pc' = "ok" /\ in' = <<>> /\ out' = <<>>
      /\ mine' = [m EXCEPT !.seq = mine.seq] /\ mine' \in MineType
      /\ up' => mine'.seq = dev'.seq + Len(out')
      /\ UNCHANGED <<role, disk, up, dev, conns>>
  BY <1>1, <1>2, <1>3, ReceiveOnly
<1>5. mine'.enc = dev'.enc /\ mine'.key = mine.key /\ mine'.cipher = mine.cipher
  BY <1>1, <1>2, <1>4 DEF MineType
<1>6. TypeOK' BY <1>3, <1>4 DEF TypeOK
<1>7. Positions' BY <1>2, <1>4 DEF Positions, ClientPcs, HostPcs
<1>8. Counts' BY <1>4, <1>5 DEF Counts
<1>9. SessionLine'
  BY <1>2, <1>3, <1>4, <1>5 DEF SessionLine, Agreed, Quiet
<1> QED BY <1>2, <1>4, <1>6, <1>7, <1>8, <1>9 DEF VerifyLine, PairLine, HostLine, HostPcs, IdleLine

LEMMA EncryptedFailsKeeps == ASSUME PairingInv, EncryptedFails PROVE PairingInv'
<1>1. pc = "encrypted" /\ in # <<>> /\ Return("err")
  BY DEF EncryptedFails
<1>2. PICK t, v : Says(t, v)
  BY <1>1, EncryptedAnswer
<1>3. up => dev.wants # "user"
  BY <1>1 DEF PairingInv, Positions
<1> QED BY <1>1, <1>2, <1>3, ReturnErrKeeps

LEMMA BrokenKeeps == ASSUME PairingInv, Broken PROVE PairingInv'
<1> USE DEF PairingInv
<1>1. /\ pc' = "err" /\ ~up
      /\ UNCHANGED <<role, file, disk, mine, pin, up, out, in, dev, conns, made>>
  BY DEF Broken
<1>2. out = <<>> /\ in = <<>> /\ pc \notin {"idle", "ok", "err"}
  BY DEF Broken, VerifyLine, PairLine, Consent, SessionLine, HostLine, Waits, Asks, Says,
         Lost, Quiet, Positions, ClientPcs, HostPcs
<1>3. TypeOK' BY <1>1 DEF TypeOK
<1>4. Positions' BY <1>1, <1>2 DEF Positions, ClientPcs, HostPcs
<1>5. Counts' BY <1>1 DEF Counts
<1> QED
  BY <1>1, <1>2, <1>3, <1>4, <1>5
     DEF VerifyLine, PairLine, SessionLine, HostLine, HostPcs, IdleLine, Quiet

LEMMA FinishKeeps == ASSUME PairingInv, Finish PROVE PairingInv'
<1> USE DEF PairingInv
<1>1. /\ pc' = "idle" /\ up' = FALSE /\ out' = <<>> /\ in' = <<>>
      /\ UNCHANGED <<role, file, mine, pin, conns, made>>
      /\ disk' \in FileType
  BY DEF Finish, TypeOK
<1>2. dev' \in DevType /\ dev'.wants = "idle"
  BY DEF Wants, Finish, TypeOK, DevType
<1>3. TypeOK' BY <1>1, <1>2 DEF TypeOK
<1>4. Positions' BY <1>1, <1>2 DEF Positions, ClientPcs, HostPcs
<1>5. Counts' BY <1>1 DEF Counts
<1> QED
  BY <1>1, <1>2, <1>3, <1>4, <1>5
     DEF VerifyLine, PairLine, SessionLine, HostLine, HostPcs, IdleLine, Lost, Quiet

LEMMA ReadFromFileKeeps == ASSUME PairingInv, ReadFromFile PROVE PairingInv'
<1> USE DEF PairingInv
<1>1. /\ pc = "idle" /\ file' \in FileType
      /\ UNCHANGED <<pc, role, disk, mine, pin, up, out, in, dev, conns, made>>
  BY DEF ReadFromFile, TypeOK
<1>2. TypeOK' BY <1>1 DEF TypeOK
<1>3. Positions' BY <1>1 DEF Positions
<1>4. Counts' BY <1>1 DEF Counts
<1> QED
  BY <1>1, <1>2, <1>3, <1>4
     DEF VerifyLine, PairLine, SessionLine, HostLine, HostPcs, IdleLine, Lost, Quiet

LEMMA ConnectKeeps == ASSUME PairingInv, Connect PROVE PairingInv'
<1> USE DEF PairingInv
<1>1. /\ pc' = "handshake" /\ role' = "client" /\ up' = TRUE /\ in' = <<>>
      /\ out' = <<[t |-> "handshake", v |-> "verify", n |-> 0]>>
      /\ UNCHANGED <<file, disk, made>> /\ conns' \in Nat
  BY DEF Connect, TypeOK
<1>2. mine' \in MineType /\ mine'.seq = 1 /\ mine'.enc = 0
  BY DEF Connect, NewClient, NoKey, MineType, Keys
<1>3. dev' \in DevType /\ dev'.wants = "handshake" /\ dev'.seq = 0 /\ dev'.enc = 0
  BY DEF Wants, Connect, TypeOK, DevType, NoKey, Keys
<1>4. Len(out') = 1 BY <1>1, OneMessage
<1>5. TypeOK' BY <1>1, <1>2, <1>3 DEF TypeOK
<1>6. Positions' BY <1>1, <1>3 DEF Positions, ClientPcs, HostPcs
<1>7. Counts' BY <1>1, <1>2, <1>3, <1>4 DEF Counts
<1>8. VerifyLine' BY <1>1, <1>3 DEF VerifyLine, Waits, Asks
<1> QED BY <1>1, <1>5, <1>6, <1>7, <1>8 DEF PairLine, SessionLine, HostLine, HostPcs, IdleLine

LEMMA AcceptKeeps == ASSUME PairingInv, Accept PROVE PairingInv'
<1> USE DEF PairingInv
<1>1. /\ pc' = "h_handshake" /\ role' = "host" /\ up' = TRUE /\ out' = <<>>
      /\ \E v \in {"verify", "setup"} : in' = <<[t |-> "handshake", v |-> v]>>
      /\ UNCHANGED <<file, disk, made>> /\ conns' \in Nat
  BY DEF Accept, TypeOK
<1>2. mine' \in MineType /\ mine'.seq = 0 /\ mine'.enc = 0
  BY DEF Accept, NewClient, NoKey, MineType, Keys
<1>3. dev' \in DevType /\ dev'.wants = "h_handshake" /\ dev'.seq = 0 /\ dev'.enc = 0
  BY DEF Wants, Accept, TypeOK, DevType, NoKey, Keys
<1>5. TypeOK' BY <1>1, <1>2, <1>3 DEF TypeOK
<1>6. Positions' BY <1>1, <1>3 DEF Positions, ClientPcs, HostPcs
<1>7. Counts' BY <1>1, <1>2, <1>3, NoMessage DEF Counts
<1>8. HostLine' BY <1>1, <1>3 DEF HostLine, Says
<1> QED BY <1>1, <1>5, <1>6, <1>7, <1>8 DEF PairLine, SessionLine, VerifyLine, IdleLine

-----------------------------------------------------------------------------
(* The host                                                                *)

LEMMA HostHandshakeKeeps == ASSUME PairingInv, HostHandshake PROVE PairingInv'
<1> USE DEF PairingInv
<1>1. mine \in MineType BY DEF TypeOK
<1>2. PICK w \in {"verify", "setup"} : Says("handshake", w)
  BY OneMessage DEF HostHandshake, Got, HostLine, Lost, Quiet, Says
<1>3. pc = "h_handshake" /\ role = "host" /\ (up => dev.wants # "user")
  BY DEF HostHandshake, Positions, HostPcs
<1>4. CASE Return("err")
  BY <1>2, <1>3, <1>4, ReturnErrKeeps
<1>5. CASE Step("h_m1", <<<<"handshake", 0>>>>, mine) /\ UNCHANGED <<file, pin, made>>
  <2>1. /\ pc' = "h_m1" /\ in' = <<>>
        /\ out' = IF up THEN <<[t |-> "handshake", v |-> 0, n |-> dev.seq]>> ELSE <<>>
        /\ mine' = [mine EXCEPT !.seq = mine.seq + 1] /\ mine' \in MineType
        /\ up' => mine'.seq = dev'.seq + Len(out')
        /\ UNCHANGED <<role, disk, up, dev, conns>>
    BY <1>1, <1>2, <1>5, ReceiveAndSay
  <2>2. mine'.enc = mine.enc BY <1>1, <2>1 DEF MineType
  <2>3. TypeOK' /\ Positions' /\ Counts'
    BY <1>3, <1>5, <2>1, <2>2, Moves DEF TypeOK, HostPcs
  <2>4. HostLine' BY <1>3, <2>1 DEF HostPcs, HostLine, Waits, Asks, Lost, Quiet, TypeOK
  <2> QED BY <2>1, <2>3, <2>4 DEF VerifyLine, PairLine, SessionLine, IdleLine
<1> QED BY <1>4, <1>5 DEF HostHandshake

LEMMA HostM1Keeps == ASSUME PairingInv, HostM1 PROVE PairingInv'
<1> USE DEF PairingInv
<1>1. mine \in MineType BY DEF TypeOK
<1>2. Says("m1", 0)
  BY OneMessage DEF HostM1, Got, HostLine, Waits, Asks, Lost, Quiet, Says
<1>3. pc = "h_m1" /\ role = "host" /\ (up => dev.wants # "user")
  BY DEF HostM1, Positions, HostPcs
<1>4. Step("h_m3", <<<<"m2", 0>>>>, mine) /\ UNCHANGED <<file, made>>
  BY DEF HostM1
<1>5. /\ pc' = "h_m3" /\ in' = <<>>
      /\ out' = IF up THEN <<[t |-> "m2", v |-> 0, n |-> dev.seq]>> ELSE <<>>
      /\ mine' = [mine EXCEPT !.seq = mine.seq + 1] /\ mine' \in MineType
      /\ up' => mine'.seq = dev'.seq + Len(out')
      /\ UNCHANGED <<role, disk, up, dev, conns>>
  BY <1>1, <1>2, <1>4, ReceiveAndSay
<1>6. mine'.enc = mine.enc BY <1>1, <1>5 DEF MineType
<1>7. TypeOK' /\ Positions' /\ Counts'
  BY <1>3, <1>4, <1>5, <1>6, Moves DEF TypeOK, HostPcs
<1>8. HostLine' BY <1>3, <1>5 DEF HostPcs, HostLine, Waits, Asks, Lost, Quiet, TypeOK
<1> QED BY <1>5, <1>7, <1>8 DEF VerifyLine, PairLine, SessionLine, IdleLine

LEMMA HostM3Keeps == ASSUME PairingInv, HostM3 PROVE PairingInv'
<1> USE DEF PairingInv
<1>1. mine \in MineType BY DEF TypeOK
<1>2. PICK w : Says("m3", w)
  BY OneMessage DEF HostM3, Got, HostLine, Waits, Asks, Lost, Quiet, Says
<1>3. /\ pc = "h_m3" /\ role = "host" /\ (up => dev.wants # "user")
      /\ UNCHANGED <<file, pin, made>>
  BY DEF HostM3, Positions, HostPcs
<1>4. CASE Step("h_m5", <<<<"m4", 0>>>>, mine)
  <2>1. /\ pc' = "h_m5" /\ in' = <<>>
        /\ out' = IF up THEN <<[t |-> "m4", v |-> 0, n |-> dev.seq]>> ELSE <<>>
        /\ mine' = [mine EXCEPT !.seq = mine.seq + 1] /\ mine' \in MineType
        /\ up' => mine'.seq = dev'.seq + Len(out')
        /\ UNCHANGED <<role, disk, up, dev, conns>>
    BY <1>1, <1>2, <1>4, ReceiveAndSay
  <2>2. mine'.enc = mine.enc BY <1>1, <2>1 DEF MineType
  <2>3. TypeOK' /\ Positions' /\ Counts'
    BY <1>3, <2>1, <2>2, Moves DEF TypeOK, HostPcs
  <2>4. HostLine' BY <1>3, <2>1 DEF HostPcs, HostLine, Waits, Asks, Lost, Quiet, TypeOK
  <2> QED BY <2>1, <2>3, <2>4 DEF VerifyLine, PairLine, SessionLine, IdleLine
<1>5. CASE Step("err", <<<<"error", 0>>>>, mine)
  <2>1. /\ pc' = "err" /\ in' = <<>>
        /\ out' = IF up THEN <<[t |-> "error", v |-> 0, n |-> dev.seq]>> ELSE <<>>
        /\ mine' = [mine EXCEPT !.seq = mine.seq + 1] /\ mine' \in MineType
        /\ up' => mine'.seq = dev'.seq + Len(out')
        /\ UNCHANGED <<role, disk, up, dev, conns>>
    BY <1>1, <1>2, <1>5, ReceiveAndSay
  <2>2. mine'.enc = mine.enc BY <1>1, <2>1 DEF MineType
  <2>3. TypeOK' /\ Positions' /\ Counts'
    BY <1>3, <2>1, <2>2, Moves DEF TypeOK, HostPcs
  <2>4. IdleLine' BY <1>3, <2>1 DEF IdleLine, Asks, Quiet, TypeOK
  <2> QED BY <2>1, <2>3, <2>4 DEF VerifyLine, PairLine, SessionLine, HostLine, HostPcs
<1> QED BY <1>4, <1>5 DEF HostM3

LEMMA HostM5Keeps == ASSUME PairingInv, HostM5 PROVE PairingInv'
<1> USE DEF PairingInv
<1> DEFINE m == [mine EXCEPT !.key = Setup]
<1>1. m \in MineType /\ m.enc = mine.enc /\ m.key = Setup
  BY DEF TypeOK, MineType, Keys, Setup
<1>2. Says("m5", 0) /\ dev.session = Setup
  BY OneMessage DEF HostM5, Got, HostLine, Waits, Asks, Lost, Quiet, Says
<1>3. /\ pc = "h_m5" /\ role = "host" /\ (up => dev.wants # "user") /\ dev.wants # "joined"
  BY DEF HostM5, Positions, HostPcs
<1>4. /\ Step("ok", <<<<"m6", file.key>>>>, m)
      /\ file' \in FileType /\ file'.key = file.key /\ file'.irk /\ made' = made
  BY DEF HostM5, TypeOK, FileType
<1> HIDE DEF m
<1>5. /\ pc' = "ok" /\ in' = <<>>
      /\ out' = IF up THEN <<[t |-> "m6", v |-> file.key, n |-> dev.seq]>> ELSE <<>>
      /\ mine' = [m EXCEPT !.seq = mine.seq + 1] /\ mine' \in MineType
      /\ up' => mine'.seq = dev'.seq + Len(out')
      /\ UNCHANGED <<role, disk, up, dev, conns>>
  BY <1>1, <1>2, <1>4, ReceiveAndSay
<1>6. mine'.enc = mine.enc /\ mine'.key = Setup BY <1>1, <1>5 DEF MineType
<1>7. TypeOK' /\ Positions' /\ Counts'
  BY <1>3, <1>4, <1>5, <1>6, Moves DEF TypeOK, HostPcs
<1>8. up => dev.wants = "h_handshake"
  BY <1>3 DEF HostLine, HostPcs
<1>9. HostLine'
  BY <1>2, <1>3, <1>4, <1>5, <1>6, <1>8 DEF HostLine, HostPcs, Asks, Quiet, TypeOK, Setup
<1> QED BY <1>3, <1>5, <1>7, <1>9 DEF VerifyLine, PairLine, SessionLine, IdleLine

LEMMA HostFailsKeeps == ASSUME PairingInv, HostFails PROVE PairingInv'
<1>1. pc \in {"h_m3", "h_m5"} /\ in # <<>> /\ Return("err") /\ (up => dev.wants # "user")
  BY DEF HostFails, Got, PairingInv, Positions
<1>2. PICK t, v : Says(t, v)
  BY <1>1 DEF PairingInv, HostLine, Waits, Asks, Lost, Quiet
<1> QED BY <1>1, <1>2, ReturnErrKeeps

-----------------------------------------------------------------------------
(* The device                                                              *)

(* Where this side stands when a message of its is under way. *)
LEMMA UnderWay ==
    ASSUME PairingInv, up, out # <<>>
    PROVE  \/ pc = "handshake" /\ Asks("handshake", "verify")
           \/ pc = "verify2" /\ Asks("verify1", 0)
           \/ pc = "verify4" /\ Asks("verify3", file.key)
           \/ /\ pc = "consent" /\ in = <<>> /\ dev.wants = "handshake"
              /\ out = <<[t |-> "verifyFailed", v |-> 0, n |-> dev.seq],
                         [t |-> "m1", v |-> 0, n |-> dev.seq + 1]>>
           \/ pc = "consent" /\ Asks("m1", 0) /\ dev.wants = "handshake"
           \/ pc = "m4" /\ Asks("m3", pin)
           \/ pc = "m6" /\ Asks("m5", file.key) /\ dev.session = Setup
           \/ pc = "encrypted" /\ Asks("encrypted", <<mine.cipher, mine.enc>>)
           \/ pc = "h_m1" /\ Asks("handshake", 0)
           \/ pc = "h_m3" /\ Asks("m2", 0)
           \/ pc = "h_m5" /\ Asks("m4", 0)
           \/ pc = "ok" /\ role = "host" /\ Asks("m6", file.key) /\ dev.wants = "h_handshake"
           \/ pc = "err" /\ role = "host" /\ Asks("error", 0)
<1> USE DEF PairingInv
<1>1. CASE pc \in {"handshake", "verify2", "verify4"}
  BY <1>1 DEF VerifyLine, Waits, Lost, Says, Quiet
<1>2. CASE pc \in {"consent", "m2", "m4", "m6"}
  BY <1>2 DEF PairLine, Consent, Waits, Lost, Says, Quiet
<1>3. CASE pc = "encrypted"
  BY <1>3 DEF SessionLine, Lost, Says, Quiet
<1>4. CASE pc \in HostPcs
  BY <1>4 DEF HostPcs, HostLine, Waits, Lost, Says, Quiet
<1>5. CASE pc = "ok"
  BY <1>5 DEF TypeOK, SessionLine, HostLine, Quiet
<1>6. CASE pc \in {"idle", "err"}
  BY <1>6 DEF IdleLine, Lost, Quiet
<1> QED BY <1>1, <1>2, <1>3, <1>4, <1>5, <1>6 DEF Positions, ClientPcs

(* The device takes the one message under way and answers it. *)
LEMMA DeviceAnswersOne ==
    ASSUME TypeOK, Counts, up, NEW q, NEW w, out = <<[t |-> q, v |-> w, n |-> dev.seq]>>,
           in = <<>>, NEW t, NEW v, NEW d \in DevType, d.seq = dev.seq,
           Answer(<<<<t, v>>>>, d)
    PROVE  /\ out' = <<>> /\ in' = <<[t |-> t, v |-> v]>>
           /\ dev' \in DevType /\ dev'.recorded = d.recorded /\ dev'.session = d.session
           /\ dev'.enc = d.enc /\ dev'.wants = d.wants
           /\ up' => mine'.seq = dev'.seq + Len(out')
           /\ UNCHANGED <<pc, role, file, disk, mine, pin, up, conns, made>>
<1>1. dev' = [d EXCEPT !.seq = d.seq + 1] /\ out' = <<>>
  BY OneMessage DEF Answer
<1>2. in' = <<[t |-> t, v |-> v]>>
  BY OneAnswered DEF Answer
<1>3. /\ dev' \in DevType /\ dev'.seq = dev.seq + 1
      /\ dev'.recorded = d.recorded /\ dev'.session = d.session
      /\ dev'.enc = d.enc /\ dev'.wants = d.wants
  BY <1>1 DEF DevType
<1>4. mine.seq = dev.seq + 1 /\ dev.seq \in Nat
  BY OneMessage DEF Counts, TypeOK, DevType
<1>5. mine' = mine /\ Len(out') = 0
  BY <1>1, NoMessage DEF Answer
<1> QED BY <1>1, <1>2, <1>3, <1>4, <1>5 DEF Answer

LEMMA DeviceTakesOne ==
    ASSUME TypeOK, Counts, up, NEW q, NEW w, out = <<[t |-> q, v |-> w, n |-> dev.seq]>>,
           in = <<>>, NEW d \in DevType, d.seq = dev.seq, Answer(<<>>, d)
    PROVE  /\ out' = <<>> /\ in' = <<>>
           /\ dev' \in DevType /\ dev'.recorded = d.recorded /\ dev'.session = d.session
           /\ dev'.enc = d.enc /\ dev'.wants = d.wants
           /\ up' => mine'.seq = dev'.seq + Len(out')
           /\ UNCHANGED <<pc, role, file, disk, mine, pin, up, conns, made>>
<1>1. dev' = [d EXCEPT !.seq = d.seq + 1] /\ out' = <<>>
  BY OneMessage DEF Answer
<1>2. in' = <<>>
  BY NoneAnswered DEF Answer
<1>3. /\ dev' \in DevType /\ dev'.seq = dev.seq + 1
      /\ dev'.recorded = d.recorded /\ dev'.session = d.session
      /\ dev'.enc = d.enc /\ dev'.wants = d.wants
  BY <1>1 DEF DevType
<1>4. mine.seq = dev.seq + 1 /\ dev.seq \in Nat
  BY OneMessage DEF Counts, TypeOK, DevType
<1>5. mine' = mine /\ Len(out') = 0
  BY <1>1, NoMessage DEF Answer
<1> QED BY <1>1, <1>2, <1>3, <1>4, <1>5 DEF Answer

(* Its answer leaves this side where it is. *)
LEMMA DeviceMoves ==
    ASSUME PairingInv, dev' \in DevType, dev'.enc = dev.enc \/ pc = "encrypted",
           up' => mine'.seq = dev'.seq + Len(out'),
           UNCHANGED <<pc, role, file, disk, mine, pin, up, conns, made>>,
           dev'.wants = "user" => pc = "consent" \/ dev.wants = "user",
           dev'.wants = "joined" => role = "host" /\ pc = "ok"
    PROVE  TypeOK' /\ Positions' /\ Counts'
<1>1. TypeOK' BY DEF PairingInv, TypeOK
<1>2. Counts' BY DEF PairingInv, Counts
<1>3. Positions' BY DEF PairingInv, Positions, ClientPcs
<1> QED BY <1>1, <1>2, <1>3

LEMMA DeviceVerifiesKeeps == ASSUME PairingInv, DeviceVerifies PROVE PairingInv'
<1> USE DEF PairingInv
<1>0. dev \in DevType BY DEF TypeOK
<1>1. CASE Hears("handshake") /\ role = "client" /\ Answer(One("handshake"), dev)
  <2>1. pc = "handshake" /\ Asks("handshake", "verify")
    BY <1>1, UnderWay, OneMessage, TwoMessages DEF Hears, Asks, Positions, HostPcs
  <2>2. Answer(<<<<"handshake", 0>>>>, dev) BY <1>1 DEF One
  <2>3. /\ out' = <<>> /\ in' = <<[t |-> "handshake", v |-> 0]>>
        /\ dev' \in DevType /\ dev'.recorded = dev.recorded /\ dev'.session = dev.session
        /\ dev'.enc = dev.enc /\ dev'.wants = dev.wants
        /\ up' => mine'.seq = dev'.seq + Len(out')
        /\ UNCHANGED <<pc, role, file, disk, mine, pin, up, conns, made>>
    BY <1>0, <2>1, <2>2, DeviceAnswersOne DEF Asks
  <2>4. TypeOK' /\ Positions' /\ Counts' BY <2>1, <2>3, DeviceMoves DEF Positions
  <2>5. VerifyLine' BY <2>1, <2>3 DEF VerifyLine, Waits, Says
  <2> QED BY <2>1, <2>3, <2>4, <2>5 DEF PairLine, SessionLine, HostLine, HostPcs, IdleLine
<1>2. ASSUME Hears("verify1"), NEW t \in {"verify2", "error", "rejected"}, Answer(One(t), dev)
      PROVE  PairingInv'
  <2>1. pc = "verify2" /\ Asks("verify1", 0)
    BY <1>2, UnderWay, OneMessage, TwoMessages DEF Hears, Asks
  <2>2. Answer(<<<<t, 0>>>>, dev) BY <1>2 DEF One
  <2>3. /\ out' = <<>> /\ in' = <<[t |-> t, v |-> 0]>>
        /\ dev' \in DevType /\ dev'.recorded = dev.recorded /\ dev'.session = dev.session
        /\ dev'.enc = dev.enc /\ dev'.wants = dev.wants
        /\ up' => mine'.seq = dev'.seq + Len(out')
        /\ UNCHANGED <<pc, role, file, disk, mine, pin, up, conns, made>>
    BY <1>0, <2>1, <2>2, DeviceAnswersOne DEF Asks
  <2>4. TypeOK' /\ Positions' /\ Counts' BY <2>1, <2>3, DeviceMoves DEF Positions
  <2>5. VerifyLine' BY <2>1, <2>3 DEF VerifyLine, Waits, Says
  <2> QED BY <2>1, <2>3, <2>4, <2>5 DEF PairLine, SessionLine, HostLine, HostPcs, IdleLine
<1>3. ASSUME Hears("verify3") PROVE pc = "verify4" /\ Asks("verify3", file.key)
  BY <1>3, UnderWay, OneMessage, TwoMessages DEF Hears, Asks
<1>4. CASE /\ Hears("verify3") /\ Head(out).v = dev.recorded
           /\ Answer(One("verify4"), [dev EXCEPT !.session = Verify])
  <2> DEFINE d == [dev EXCEPT !.session = Verify]
  <2>1. /\ d \in DevType /\ d.seq = dev.seq /\ d.enc = dev.enc /\ d.wants = dev.wants
        /\ d.session = Verify /\ d.recorded = dev.recorded
    BY <1>0 DEF DevType, Keys, Verify, TypeOK
  <2>2. pc = "verify4" /\ Asks("verify3", file.key) /\ dev.recorded = file.key
    BY <1>3, <1>4, OneMessage DEF Asks
  <2>3. Answer(<<<<"verify4", 0>>>>, d) BY <1>4 DEF One
  <2> HIDE DEF d
  <2>4. /\ out' = <<>> /\ in' = <<[t |-> "verify4", v |-> 0]>>
        /\ dev' \in DevType /\ dev'.recorded = d.recorded /\ dev'.session = d.session
        /\ dev'.enc = d.enc /\ dev'.wants = d.wants
        /\ up' => mine'.seq = dev'.seq + Len(out')
        /\ UNCHANGED <<pc, role, file, disk, mine, pin, up, conns, made>>
    BY <2>1, <2>2, <2>3, DeviceAnswersOne DEF Asks
  <2>5. TypeOK' /\ Positions' /\ Counts' BY <2>1, <2>2, <2>4, DeviceMoves DEF Positions
  <2>6. VerifyLine' BY <2>1, <2>2, <2>4 DEF VerifyLine, Says, Verify
  <2> QED BY <2>2, <2>4, <2>5, <2>6 DEF PairLine, SessionLine, HostLine, HostPcs, IdleLine
<1>5. ASSUME Hears("verify3"), NEW t \in {"error", "rejected"}, Answer(One(t), dev)
      PROVE  PairingInv'
  <2>1. pc = "verify4" /\ Asks("verify3", file.key) BY <1>3, <1>5
  <2>2. Answer(<<<<t, 0>>>>, dev) BY <1>5 DEF One
  <2>3. /\ out' = <<>> /\ in' = <<[t |-> t, v |-> 0]>>
        /\ dev' \in DevType /\ dev'.recorded = dev.recorded /\ dev'.session = dev.session
        /\ dev'.enc = dev.enc /\ dev'.wants = dev.wants
        /\ up' => mine'.seq = dev'.seq + Len(out')
        /\ UNCHANGED <<pc, role, file, disk, mine, pin, up, conns, made>>
    BY <1>0, <2>1, <2>2, DeviceAnswersOne DEF Asks
  <2>4. TypeOK' /\ Positions' /\ Counts' BY <2>1, <2>3, DeviceMoves DEF Positions
  <2>5. VerifyLine' BY <2>1, <2>3 DEF VerifyLine, Waits, Says, Verify
  <2> QED BY <2>1, <2>3, <2>4, <2>5 DEF PairLine, SessionLine, HostLine, HostPcs, IdleLine
<1>6. CASE Hears("verifyFailed") /\ Answer(<<>>, dev)
  <2>1. /\ pc = "consent" /\ in = <<>> /\ dev.wants = "handshake" /\ up
        /\ out = <<[t |-> "verifyFailed", v |-> 0, n |-> dev.seq],
                   [t |-> "m1", v |-> 0, n |-> dev.seq + 1]>>
    BY <1>6, UnderWay, OneMessage, TwoMessages DEF Hears, Asks
  <2>2. out' = <<[t |-> "m1", v |-> 0, n |-> dev.seq + 1]>> /\ in' = <<>>
    BY <1>6, <2>1, TwoMessages, NoneAnswered DEF Answer
  <2>3. dev' = [dev EXCEPT !.seq = dev.seq + 1]
        /\ UNCHANGED <<pc, role, file, disk, mine, pin, up, conns, made>>
    BY <1>6 DEF Answer
  <2>4. /\ dev' \in DevType /\ dev'.enc = dev.enc /\ dev'.wants = dev.wants
        /\ dev'.seq = dev.seq + 1
    BY <1>0, <2>3 DEF DevType
  <2>5. up' => mine'.seq = dev'.seq + Len(out')
    BY <1>0, <2>1, <2>2, <2>3, <2>4, OneMessage, TwoMessages DEF Counts, DevType
  <2>6. TypeOK' /\ Positions' /\ Counts' BY <2>1, <2>3, <2>4, <2>5, DeviceMoves
  <2>7. Consent' BY <2>1, <2>2, <2>3, <2>4 DEF Consent, Waits, Asks
  <2> QED BY <2>1, <2>3, <2>6, <2>7 DEF VerifyLine, PairLine, SessionLine, HostLine, HostPcs, IdleLine
<1> QED BY <1>1, <1>2, <1>4, <1>5, <1>6 DEF DeviceVerifies

LEMMA DevicePairsKeeps == ASSUME PairingInv, DevicePairs PROVE PairingInv'
<1> USE DEF PairingInv
<1>0. dev \in DevType BY DEF TypeOK
<1>1. ASSUME Hears("m1"), NEW t \in {"rejected", "m2", "awaiting"}, NEW d \in DevType,
             Answer(One(t), d), d.seq = dev.seq, d.enc = dev.enc,
             d.wants = IF t = "rejected" THEN dev.wants
                       ELSE IF t = "m2" THEN "right" ELSE "user"
      PROVE  PairingInv'
  <2>1. pc = "consent" /\ Asks("m1", 0) /\ dev.wants = "handshake" /\ role = "client"
    BY <1>1, UnderWay, OneMessage, TwoMessages DEF Hears, Asks, Positions, ClientPcs
  <2>2. Answer(<<<<t, 0>>>>, d) BY <1>1 DEF One
  <2>3. /\ out' = <<>> /\ in' = <<[t |-> t, v |-> 0]>>
        /\ dev' \in DevType /\ dev'.recorded = d.recorded /\ dev'.session = d.session
        /\ dev'.enc = d.enc /\ dev'.wants = d.wants
        /\ up' => mine'.seq = dev'.seq + Len(out')
        /\ UNCHANGED <<pc, role, file, disk, mine, pin, up, conns, made>>
    BY <1>1, <2>1, <2>2, DeviceAnswersOne DEF Asks
  <2>4. TypeOK' /\ Positions' /\ Counts' BY <1>1, <2>1, <2>3, DeviceMoves
  <2>5. Consent' BY <1>1, <2>1, <2>3 DEF Consent, Waits, Says
  <2> QED BY <2>1, <2>3, <2>4, <2>5 DEF VerifyLine, PairLine, SessionLine, HostLine, HostPcs, IdleLine
<1>2. CASE Hears("m1") /\ Answer(One("rejected"), dev)
  BY <1>0, <1>1, <1>2
<1>3. CASE Hears("m1") /\ Answer(One("m2"), [dev EXCEPT !.wants = "right"])
  <2> DEFINE d == [dev EXCEPT !.wants = "right"]
  <2>1. d \in DevType /\ d.seq = dev.seq /\ d.enc = dev.enc /\ d.wants = "right"
    BY <1>0 DEF DevType, Wants
  <2> HIDE DEF d
  <2> QED BY <1>1, <1>3, <2>1 DEF d
<1>4. CASE Hears("m1") /\ Answer(One("awaiting"), [dev EXCEPT !.wants = "user"])
  <2> DEFINE d == [dev EXCEPT !.wants = "user"]
  <2>1. d \in DevType /\ d.seq = dev.seq /\ d.enc = dev.enc /\ d.wants = "user"
    BY <1>0 DEF DevType, Wants
  <2> HIDE DEF d
  <2> QED BY <1>1, <1>4, <2>1 DEF d
<1>5. ASSUME Hears("m3"), NEW t \in {"m4", "error"}, NEW d \in DevType,
             Answer(One(t), d), d.seq = dev.seq, d.enc = dev.enc,
             d.wants = (IF t = "m4" THEN "m5" ELSE dev.wants),
             t = "m4" => d.session = Setup
      PROVE  PairingInv'
  <2>1. pc = "m4" /\ Asks("m3", pin)
    BY <1>5, UnderWay, OneMessage, TwoMessages DEF Hears, Asks
  <2>2. Answer(<<<<t, 0>>>>, d) BY <1>5 DEF One
  <2>3. /\ out' = <<>> /\ in' = <<[t |-> t, v |-> 0]>>
        /\ dev' \in DevType /\ dev'.recorded = d.recorded /\ dev'.session = d.session
        /\ dev'.enc = d.enc /\ dev'.wants = d.wants
        /\ up' => mine'.seq = dev'.seq + Len(out')
        /\ UNCHANGED <<pc, role, file, disk, mine, pin, up, conns, made>>
    BY <1>5, <2>1, <2>2, DeviceAnswersOne DEF Asks
  <2>4. TypeOK' /\ Positions' /\ Counts' BY <1>5, <2>1, <2>3, DeviceMoves DEF Positions
  <2>5. PairLine' BY <1>5, <2>1, <2>3 DEF PairLine, Waits, Says, Setup
  <2> QED BY <2>1, <2>3, <2>4, <2>5 DEF VerifyLine, SessionLine, HostLine, HostPcs, IdleLine
<1>6. CASE Hears("m3") /\ Answer(One("m4"), [dev EXCEPT !.wants = "m5", !.session = Setup])
  <2> DEFINE d == [dev EXCEPT !.wants = "m5", !.session = Setup]
  <2>1. /\ d \in DevType /\ d.seq = dev.seq /\ d.enc = dev.enc /\ d.wants = "m5"
        /\ d.session = Setup
    BY <1>0 DEF DevType, Wants, Keys, Setup, TypeOK
  <2> HIDE DEF d
  <2> QED BY <1>5, <1>6, <2>1 DEF d
<1>7. CASE Hears("m3") /\ Answer(One("error"), dev)
  BY <1>0, <1>5, <1>7
<1>8. ASSUME Hears("m5"), NEW t \in {"m6", "m6incomplete", "error"}, NEW d \in DevType,
             Answer(One(t), d), d.seq = dev.seq, d.enc = dev.enc,
             d.wants \in {"paired", "refused"},
             t = "m6" => d.recorded = Head(out).v /\ d.session = dev.session
      PROVE  PairingInv'
  <2>1. pc = "m6" /\ Asks("m5", file.key) /\ dev.session = Setup
    BY <1>8, UnderWay, OneMessage, TwoMessages DEF Hears, Asks
  <2>2. Answer(<<<<t, 0>>>>, d) BY <1>8 DEF One
  <2>3. /\ out' = <<>> /\ in' = <<[t |-> t, v |-> 0]>>
        /\ dev' \in DevType /\ dev'.recorded = d.recorded /\ dev'.session = d.session
        /\ dev'.enc = d.enc /\ dev'.wants = d.wants
        /\ up' => mine'.seq = dev'.seq + Len(out')
        /\ UNCHANGED <<pc, role, file, disk, mine, pin, up, conns, made>>
    BY <1>8, <2>1, <2>2, DeviceAnswersOne DEF Asks
  <2>4. TypeOK' /\ Positions' /\ Counts' BY <1>8, <2>1, <2>3, DeviceMoves
  <2>5. Head(out).v = file.key BY <2>1, OneMessage DEF Asks
  <2>6. PairLine' BY <1>8, <2>1, <2>3, <2>5 DEF PairLine, Says, Setup
  <2> QED BY <2>1, <2>3, <2>4, <2>6 DEF VerifyLine, SessionLine, HostLine, HostPcs, IdleLine
<1>9. ASSUME Hears("m5"), NEW t \in {"m6", "m6incomplete"},
             Answer(One(t), [dev EXCEPT !.recorded = Head(out).v, !.wants = "paired"])
      PROVE  PairingInv'
  <2> DEFINE d == [dev EXCEPT !.recorded = Head(out).v, !.wants = "paired"]
  <2>1. pc = "m6" /\ Asks("m5", file.key)
    BY <1>9, UnderWay, OneMessage, TwoMessages DEF Hears, Asks
  <2>2. Head(out).v \in Nat BY <2>1, OneMessage DEF Asks, TypeOK, FileType
  <2>3. /\ d \in DevType /\ d.seq = dev.seq /\ d.enc = dev.enc /\ d.wants = "paired"
        /\ d.session = dev.session /\ d.recorded = Head(out).v
    BY <1>0, <2>2 DEF DevType, Wants
  <2> HIDE DEF d
  <2> QED BY <1>8, <1>9, <2>3 DEF d
<1>10. CASE Hears("m5") /\ Answer(One("error"), [dev EXCEPT !.session = NoKey, !.wants = "refused"])
  <2> DEFINE d == [dev EXCEPT !.session = NoKey, !.wants = "refused"]
  <2>1. d \in DevType /\ d.seq = dev.seq /\ d.enc = dev.enc /\ d.wants = "refused"
    BY <1>0 DEF DevType, Wants, Keys, NoKey
  <2> HIDE DEF d
  <2> QED BY <1>8, <1>10, <2>1 DEF d
<1> QED BY <1>2, <1>3, <1>4, <1>6, <1>7, <1>9, <1>10 DEF DevicePairs

LEMMA UserDecidesKeeps == ASSUME PairingInv, UserDecides PROVE PairingInv'
<1> USE DEF PairingInv
<1>1. up /\ dev.wants = "user" /\ pc \in {"consent", "m2"} /\ role = "client"
  BY DEF UserDecides, Positions
<1>2. dev' \in DevType /\ dev'.wants = "default" /\ dev'.seq = dev.seq /\ dev'.enc = dev.enc
  BY DEF UserDecides, TypeOK, DevType, Wants
<1>3. PICK t \in {"m2", "rejected"} : in' = Append(in, [t |-> t, v |-> 0])
  BY DEF UserDecides
<1>4. UNCHANGED <<pc, role, file, disk, mine, pin, up, out, conns, made>>
  BY DEF UserDecides
<1>5. up' => mine'.seq = dev'.seq + Len(out')
  BY <1>1, <1>2, <1>4 DEF Counts
<1>6. TypeOK' /\ Positions' /\ Counts'
  BY <1>1, <1>2, <1>4, <1>5, DeviceMoves
<1>7. CASE pc = "consent"
  <2>1. out = <<>> /\ in = <<[t |-> "awaiting", v |-> 0]>>
    BY <1>1, <1>7 DEF PairLine, Consent, Says
  <2>2. in' = <<[t |-> "awaiting", v |-> 0], [t |-> t, v |-> 0]>>
    BY <1>3, <2>1, OneMore
  <2>3. Consent' BY <1>2, <1>4, <2>1, <2>2 DEF Consent
  <2> QED BY <1>4, <1>6, <1>7, <2>3 DEF VerifyLine, PairLine, SessionLine, HostLine, HostPcs, IdleLine
<1>8. CASE pc = "m2"
  <2>1. out = <<>> /\ in = <<>>
    BY <1>1, <1>8 DEF PairLine, Lost, Quiet
  <2>2. in' = <<[t |-> t, v |-> 0]>>
    BY <1>3, <2>1
  <2>3. PairLine' BY <1>2, <1>4, <1>8, <2>1, <2>2 DEF PairLine, Says
  <2> QED BY <1>4, <1>6, <1>8, <2>3 DEF VerifyLine, SessionLine, HostLine, HostPcs, IdleLine
<1> QED BY <1>1, <1>7, <1>8

LEMMA DeviceAnswersEncryptedKeeps == ASSUME PairingInv, DeviceAnswersEncrypted PROVE PairingInv'
<1> USE DEF PairingInv
<1> DEFINE d == [dev EXCEPT !.enc = dev.enc + 1]
<1>1. /\ d \in DevType /\ d.seq = dev.seq /\ d.enc = dev.enc + 1 /\ d.wants = dev.wants
      /\ d.session = dev.session /\ d.recorded = dev.recorded
  BY DEF TypeOK, DevType
<1>2. PICK t \in {"encrypted", "rejected"} : Answer(<<<<t, Head(out).v>>>>, d)
  BY DEF DeviceAnswersEncrypted
<1> HIDE DEF d
<1>3. pc = "encrypted" /\ Asks("encrypted", <<mine.cipher, mine.enc>>)
  BY UnderWay, OneMessage, TwoMessages DEF DeviceAnswersEncrypted, Hears, Asks
<1>4. Agreed /\ dev.enc = mine.enc
  BY <1>3, OneMessage DEF SessionLine, Asks, Lost, Quiet, Says
<1> PICK w : w = <<mine.cipher, mine.enc>> OBVIOUS
<1>5. out = <<[t |-> "encrypted", v |-> w, n |-> dev.seq]>> /\ in = <<>> /\ up /\ Head(out).v = w
  BY <1>3, OneMessage DEF Asks
<1>6. Answer(<<<<t, w>>>>, d) BY <1>2, <1>5
<1>7. /\ out' = <<>> /\ in' = <<[t |-> t, v |-> w]>>
      /\ dev' \in DevType /\ dev'.recorded = d.recorded /\ dev'.session = d.session
      /\ dev'.enc = d.enc /\ dev'.wants = d.wants
      /\ up' => mine'.seq = dev'.seq + Len(out')
      /\ UNCHANGED <<pc, role, file, disk, mine, pin, up, conns, made>>
  BY <1>1, <1>5, <1>6, DeviceAnswersOne
<1>8. TypeOK' /\ Positions' /\ Counts' BY <1>1, <1>3, <1>7, DeviceMoves DEF Positions
<1>9. SessionLine'
  <2>1. Agreed' BY <1>1, <1>4, <1>7 DEF Agreed
  <2>2. dev'.enc = mine'.enc + 1 /\ w = <<mine'.cipher, mine'.enc>>
    BY <1>1, <1>4, <1>7
  <2>3. out' = <<>> /\ in' = <<[t |-> t, v |-> <<mine'.cipher, mine'.enc>>]>>
    BY <1>7, <2>2
  <2>4. Says(t, <<mine.cipher, mine.enc>>)' BY <2>3 DEF Says
  <2> QED BY <1>3, <1>7, <2>1, <2>2, <2>4 DEF SessionLine
<1> QED BY <1>3, <1>7, <1>8, <1>9 DEF VerifyLine, PairLine, HostLine, HostPcs, IdleLine

LEMMA DeviceJoinsKeeps == ASSUME PairingInv, DeviceJoins PROVE PairingInv'
<1> USE DEF PairingInv
<1>0. dev \in DevType BY DEF TypeOK
<1>1. CASE Hears("handshake") /\ role = "host" /\ Answer(One("m1"), dev)
  <2>1. pc = "h_m1" /\ Asks("handshake", 0)
    BY <1>1, UnderWay, OneMessage, TwoMessages DEF Hears, Asks, Positions, ClientPcs
  <2>2. Answer(<<<<"m1", 0>>>>, dev) BY <1>1 DEF One
  <2>3. /\ out' = <<>> /\ in' = <<[t |-> "m1", v |-> 0]>>
        /\ dev' \in DevType /\ dev'.recorded = dev.recorded /\ dev'.session = dev.session
        /\ dev'.enc = dev.enc /\ dev'.wants = dev.wants
        /\ up' => mine'.seq = dev'.seq + Len(out')
        /\ UNCHANGED <<pc, role, file, disk, mine, pin, up, conns, made>>
    BY <1>0, <2>1, <2>2, DeviceAnswersOne DEF Asks
  <2>4. TypeOK' /\ Positions' /\ Counts' BY <2>1, <2>3, DeviceMoves DEF Positions
  <2>5. HostLine' BY <2>1, <2>3 DEF HostLine, HostPcs, Waits, Says
  <2> QED BY <2>1, <2>3, <2>4, <2>5 DEF VerifyLine, PairLine, SessionLine, IdleLine
<1>2. ASSUME Hears("m2"), NEW t, NEW v, Answer(<<<<t, v>>>>, dev),
             \/ t = "m3" /\ v \in {"shown", "mistyped"}
             \/ t = "error" /\ v = 0
      PROVE  PairingInv'
  <2>1. pc = "h_m3" /\ Asks("m2", 0)
    BY <1>2, UnderWay, OneMessage, TwoMessages DEF Hears, Asks
  <2>3. /\ out' = <<>> /\ in' = <<[t |-> t, v |-> v]>>
        /\ dev' \in DevType /\ dev'.recorded = dev.recorded /\ dev'.session = dev.session
        /\ dev'.enc = dev.enc /\ dev'.wants = dev.wants
        /\ up' => mine'.seq = dev'.seq + Len(out')
        /\ UNCHANGED <<pc, role, file, disk, mine, pin, up, conns, made>>
    BY <1>0, <1>2, <2>1, DeviceAnswersOne DEF Asks
  <2>4. TypeOK' /\ Positions' /\ Counts' BY <2>1, <2>3, DeviceMoves DEF Positions
  <2>5. HostLine' BY <1>2, <2>1, <2>3 DEF HostLine, HostPcs, Waits, Says
  <2> QED BY <2>1, <2>3, <2>4, <2>5 DEF VerifyLine, PairLine, SessionLine, IdleLine
<1>3. ASSUME Hears("m4"), NEW t \in {"m5", "m5incomplete", "error"},
             Answer(One(t), [dev EXCEPT !.session = Setup])
      PROVE  PairingInv'
  <2> DEFINE d == [dev EXCEPT !.session = Setup]
  <2>1. /\ d \in DevType /\ d.seq = dev.seq /\ d.enc = dev.enc /\ d.wants = dev.wants
        /\ d.session = Setup
    BY <1>0 DEF DevType, Keys, Setup, TypeOK
  <2>2. pc = "h_m5" /\ Asks("m4", 0)
    BY <1>3, UnderWay, OneMessage, TwoMessages DEF Hears, Asks
  <2>3. Answer(<<<<t, 0>>>>, d) BY <1>3 DEF One
  <2> HIDE DEF d
  <2>4. /\ out' = <<>> /\ in' = <<[t |-> t, v |-> 0]>>
        /\ dev' \in DevType /\ dev'.recorded = d.recorded /\ dev'.session = d.session
        /\ dev'.enc = d.enc /\ dev'.wants = d.wants
        /\ up' => mine'.seq = dev'.seq + Len(out')
        /\ UNCHANGED <<pc, role, file, disk, mine, pin, up, conns, made>>
    BY <2>1, <2>2, <2>3, DeviceAnswersOne DEF Asks
  <2>5. TypeOK' /\ Positions' /\ Counts' BY <2>1, <2>2, <2>4, DeviceMoves DEF Positions
  <2>6. HostLine' BY <2>1, <2>2, <2>4 DEF HostLine, HostPcs, Waits, Says, Setup
  <2> QED BY <2>2, <2>4, <2>5, <2>6 DEF VerifyLine, PairLine, SessionLine, IdleLine
<1>4. CASE Hears("error") /\ Answer(<<>>, dev)
  <2>1. pc = "err" /\ Asks("error", 0)
    BY <1>4, UnderWay, OneMessage, TwoMessages DEF Hears, Asks
  <2>2. /\ out' = <<>> /\ in' = <<>>
        /\ dev' \in DevType /\ dev'.recorded = dev.recorded /\ dev'.session = dev.session
        /\ dev'.enc = dev.enc /\ dev'.wants = dev.wants
        /\ up' => mine'.seq = dev'.seq + Len(out')
        /\ UNCHANGED <<pc, role, file, disk, mine, pin, up, conns, made>>
    BY <1>0, <1>4, <2>1, DeviceTakesOne DEF Asks
  <2>3. TypeOK' /\ Positions' /\ Counts' BY <2>1, <2>2, DeviceMoves DEF Positions
  <2>4. IdleLine' BY <2>1, <2>2 DEF IdleLine, Quiet
  <2> QED BY <2>1, <2>2, <2>3, <2>4 DEF VerifyLine, PairLine, SessionLine, HostLine, HostPcs
<1>5. CASE /\ Hears("m6")
           /\ Answer(<<>>, [dev EXCEPT !.recorded = Head(out).v, !.wants = "joined"])
  <2> DEFINE d == [dev EXCEPT !.recorded = Head(out).v, !.wants = "joined"]
  <2>1. pc = "ok" /\ role = "host" /\ Asks("m6", file.key)
    BY <1>5, UnderWay, OneMessage, TwoMessages DEF Hears, Asks
  <2>2. Head(out).v = file.key /\ file.key \in Nat
    BY <2>1, OneMessage DEF Asks, TypeOK, FileType
  <2>3. /\ d \in DevType /\ d.seq = dev.seq /\ d.enc = dev.enc /\ d.wants = "joined"
        /\ d.session = dev.session /\ d.recorded = file.key
    BY <1>0, <2>2 DEF DevType, Wants
  <2>4. Answer(<<>>, d) BY <1>5
  <2> HIDE DEF d
  <2>5. /\ out' = <<>> /\ in' = <<>>
        /\ dev' \in DevType /\ dev'.recorded = d.recorded /\ dev'.session = d.session
        /\ dev'.enc = d.enc /\ dev'.wants = d.wants
        /\ up' => mine'.seq = dev'.seq + Len(out')
        /\ UNCHANGED <<pc, role, file, disk, mine, pin, up, conns, made>>
    BY <2>1, <2>3, <2>4, DeviceTakesOne DEF Asks
  <2>6. TypeOK' /\ Positions' /\ Counts' BY <2>1, <2>3, <2>5, DeviceMoves
  <2>7. HostLine' BY <2>1, <2>3, <2>5 DEF HostLine, HostPcs, Quiet, Setup
  <2> QED BY <2>1, <2>5, <2>6, <2>7 DEF VerifyLine, PairLine, SessionLine, IdleLine
<1>6. ASSUME Hears("m2"), Answer(One("error"), dev) PROVE PairingInv'
  BY <1>2, <1>6 DEF One
<1> QED BY <1>1, <1>2, <1>3, <1>4, <1>5, <1>6 DEF DeviceJoins

LEMMA DeviceForgetsKeeps == ASSUME PairingInv, DeviceForgets PROVE PairingInv'
<1> USE DEF PairingInv
<1>1. /\ pc = "idle" /\ dev' \in DevType /\ dev'.wants = dev.wants
      /\ dev'.seq = dev.seq /\ dev'.enc = dev.enc
  BY DEF DeviceForgets, TypeOK, DevType
<1>2. UNCHANGED <<pc, role, file, disk, mine, pin, up, out, in, conns, made>>
  BY DEF DeviceForgets
<1>3. TypeOK' BY <1>1, <1>2 DEF TypeOK
<1>4. Positions' BY <1>1, <1>2 DEF Positions
<1>5. Counts' BY <1>1, <1>2 DEF Counts
<1> QED
  BY <1>1, <1>2, <1>3, <1>4, <1>5
     DEF VerifyLine, PairLine, SessionLine, HostLine, HostPcs, IdleLine, Lost, Quiet

(* A cut loses what is under way to the device, and perhaps what is under  *)
(* way from it.                                                            *)
LEMMA CutKeeps == ASSUME PairingInv, Cut PROVE PairingInv'
<1> USE DEF PairingInv
<1>1. /\ up' = FALSE /\ out' = <<>> /\ in' \in {in, <<>>} /\ up
      /\ UNCHANGED <<pc, role, file, disk, mine, pin, dev, conns, made>>
  BY DEF Cut
<1>2. TypeOK' BY <1>1 DEF TypeOK
<1>3. Positions' BY <1>1 DEF Positions
<1>4. Counts' BY <1>1 DEF Counts
<1>5. VerifyLine'
  BY <1>1 DEF VerifyLine, Waits, Asks, Says, Lost, Quiet, Verify
<1>6. PairLine'
  <2>1. pc = "consent" => Consent'
    BY <1>1 DEF PairLine, Consent, Waits, Asks, Says, Lost, Quiet
  <2> QED BY <1>1, <2>1 DEF PairLine, Waits, Asks, Says, Lost, Quiet, Setup
<1>7. SessionLine'
  BY <1>1 DEF SessionLine, Agreed, Asks, Says, Lost, Quiet
<1>8. HostLine'
  BY <1>1 DEF HostLine, Waits, Asks, Says, Lost, Quiet, Setup
<1>9. IdleLine'
  BY <1>1 DEF IdleLine, Asks, Says, Lost, Quiet
<1> QED BY <1>2, <1>3, <1>4, <1>5, <1>6, <1>7, <1>8, <1>9

LEMMA PairingInvInit == Init => PairingInv
<1> SUFFICES ASSUME Init PROVE PairingInv OBVIOUS
<1>1. TypeOK
  BY DEF Init, TypeOK, FileType, MineType, DevType, Wants, Keys, NewClient, NoKey
<1> QED
  BY <1>1 DEF Init, PairingInv, Positions, Counts, VerifyLine, PairLine, SessionLine,
              HostLine, IdleLine, Lost, Quiet, ClientPcs, HostPcs

LEMMA PairingInvNext == PairingInv /\ [Next]_vars => PairingInv'
<1> SUFFICES ASSUME PairingInv, [Next]_vars PROVE PairingInv' OBVIOUS
<1>1. CASE UNCHANGED vars
  BY <1>1 DEF vars, PairingInv, TypeOK, Positions, Counts, VerifyLine, PairLine, Consent,
              SessionLine, HostLine, IdleLine, Waits, Asks, Says, Lost, Quiet, Agreed,
              Setup, Verify
<1>2. CASE Client
  BY <1>2, RecvHandshakeKeeps, RecvVerify2Keeps, RecvVerify4Keeps, VerifyFailsKeeps,
     VerifyRejectedKeeps, RecvAwaitingKeeps, RecvM2Keeps, RecvM4Keeps, RecvM6Keeps,
     PairFailsKeeps, RecvEncryptedKeeps, EncryptedFailsKeeps, BrokenKeeps DEF Client
<1>3. CASE Host
  BY <1>3, HostHandshakeKeeps, HostM1Keeps, HostM3Keeps, HostM5Keeps, HostFailsKeeps DEF Host
<1>4. CASE Device
  BY <1>4, DeviceVerifiesKeeps, DevicePairsKeeps, UserDecidesKeeps,
     DeviceAnswersEncryptedKeeps, DeviceJoinsKeeps DEF Device
<1> QED
  BY <1>1, <1>2, <1>3, <1>4, ConnectKeeps, AcceptKeeps, SendEncryptedKeeps, FinishKeeps,
     ReadFromFileKeeps, DeviceForgetsKeeps, CutKeeps DEF Next, Finished

-----------------------------------------------------------------------------
(***************************************************************************)
(* At every moment of any number of connections, in either role, the line  *)
(* carries exactly what the position of connect or accept allows, each     *)
(* message with the number the device expects.                             *)
(***************************************************************************)
THEOREM PairingInvariant == Spec => []PairingInv
<1> QED BY PairingInvInit, PairingInvNext, PTL DEF Spec

(***************************************************************************)
(* connect returns Ok only when device and file agree on the signing key   *)
(* and both sides on the session key, and a device that has joined a host  *)
(* knows a host that kept its identity.                                    *)
(***************************************************************************)
THEOREM SidesAgree == Spec => []BothSidesAgree
<1>1. PairingInv => BothSidesAgree
  BY DEF PairingInv, Positions, SessionLine, HostLine, Agreed, Asks, Quiet, BothSidesAgree
<1> QED BY <1>1, PairingInvariant, PTL

(***************************************************************************)
(* Every message bears the number the device counts to, and between        *)
(* requests both sides use the same number for the next encrypted one.     *)
(***************************************************************************)
THEOREM NumbersStayInStep == Spec => []NumbersInStep
<1>1. PairingInv => NumbersInStep
  <2> SUFFICES ASSUME PairingInv, up PROVE NumbersInStep BY DEF NumbersInStep
  <2>1. mine.seq = dev.seq + Len(out) /\ (pc = "ok" => mine.enc = dev.enc)
    BY DEF PairingInv, Counts
  <2>2. dev.seq \in Nat BY DEF PairingInv, TypeOK, DevType
  <2>3. CASE out = <<>> BY <2>1, <2>3 DEF NumbersInStep
  <2>4. ASSUME NEW t, NEW v, Asks(t, v) PROVE \A i \in DOMAIN out : out[i].n = dev.seq + i - 1
    BY <2>2, <2>4 DEF Asks
  <2>5. CASE out = <<[t |-> "verifyFailed", v |-> 0, n |-> dev.seq],
                     [t |-> "m1", v |-> 0, n |-> dev.seq + 1]>>
    BY <2>1, <2>2, <2>5 DEF NumbersInStep
  <2>6. out # <<>> => \/ \E t, v : Asks(t, v)
                      \/ out = <<[t |-> "verifyFailed", v |-> 0, n |-> dev.seq],
                                 [t |-> "m1", v |-> 0, n |-> dev.seq + 1]>>
    BY UnderWay
  <2> QED BY <2>1, <2>3, <2>4, <2>5, <2>6 DEF NumbersInStep
<1> QED BY <1>1, PairingInvariant, PTL

(***************************************************************************)
(* A file's signing keys are replaced only by save_pair_record_on_peer,    *)
(* once the device has accepted this connection's proof of the pin.        *)
(***************************************************************************)
THEOREM KeysReplacedAfterProof == Spec => KeysReplacedOnlyAfterProof
<1> DEFINE Justified == file'.key # file.key /\ pc # "idle" => dev.session = Setup /\ dev.wants = "m5"
<1>1. PairingInv /\ [Next]_vars => [Justified]_vars
  <2> SUFFICES ASSUME PairingInv, Next, file'.key # file.key, pc # "idle"
               PROVE  dev.session = Setup /\ dev.wants = "m5"
    OBVIOUS
  <2>1. file \in FileType BY DEF PairingInv, TypeOK
  <2>2. ASSUME file' = [file EXCEPT !.irk = TRUE] PROVE FALSE
    BY <2>1, <2>2 DEF FileType
  <2>3. CASE RecvM4
    BY <2>3, ProofAccepted DEF RecvM4
  <2>4. RecvM4
    BY <2>2 DEF Next, Client, Host, Device, Connect, Accept, SendEncrypted, Finish,
       ReadFromFile, DeviceForgets, Cut, Finished, vars, RecvHandshake, RecvVerify2,
       RecvVerify4, VerifyFails, VerifyRejected, RecvAwaiting, RecvM2, RecvM6, PairFails,
       RecvEncrypted, EncryptedFails, Broken, Return, HostHandshake, HostM1, HostM3, HostM5,
       HostFails, DeviceVerifies, DevicePairs, UserDecides, DeviceAnswersEncrypted,
       DeviceJoins, Answer
  <2> QED BY <2>3, <2>4
<1> QED BY <1>1, PairingInvariant, PTL DEF Spec, KeysReplacedOnlyAfterProof

=============================================================================
