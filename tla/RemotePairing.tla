--------------------------- MODULE RemotePairing ---------------------------
(***************************************************************************)
(* Remote pairing (remote_pairing/): one pairing file used over several    *)
(* connections to one device, in either role.                              *)
(*                                                                         *)
(*  - RemotePairingClient (mod.rs) connects to the device: handshake,      *)
(*    pair-verify with the file's signing key, pair-setup when that fails, *)
(*    and encrypted requests afterwards.                                   *)
(*  - PairableHost (responder.rs) is connected to by the device and runs   *)
(*    pair-setup as the accessory.                                         *)
(*                                                                         *)
(* A step receives one message, does everything up to the next receive,    *)
(* and stops there: nothing else runs on the connection in between.        *)
(* Cryptography is ideal: a session key is named by the exchange that made *)
(* it, a proof holds iff both sides used the same pin, and a text can be   *)
(* read iff cipher and number match.  The device is external; it answers   *)
(* in order, may refuse at every point, and the connection may be cut.     *)
(***************************************************************************)
EXTENDS Integers, Sequences

CONSTANTS
  MaxConnections,   \* connections made in a behaviour
  MaxRequests       \* encrypted requests per connection

ASSUME BoundsAssumption == MaxConnections \in Nat /\ MaxRequests \in Nat

VARIABLES
  pc,      \* where connect / accept stands, by the message it waits for
  role,    \* "client" (RemotePairingClient) or "host" (PairableHost)
  file,    \* RpPairingFile in memory: signing key, and whether it has alt_irk
  disk,    \* the file last written out
  mine,    \* sequence_number, encrypted_sequence_number, encryption_key, ciphers
  pin,     \* the pin this side uses, "none" before there is one
  up, out, in,   \* the connection: messages to the device, and from it
  dev,     \* the device: recorded key, session, numbers, what it waits for
  conns,   \* connections made
  made     \* signing keys generated

vars == <<pc, role, file, disk, mine, pin, up, out, in, dev, conns, made>>

Setup == <<"setup", conns>>       \* the SRP session key of this connection
Verify == <<"verify", conns>>     \* its X25519 shared secret
NoKey == <<"zero", 0>>

NewClient == [seq |-> 0, enc |-> 0, key |-> NoKey, cipher |-> NoKey]

(***************************************************************************)
(* RpPairingFile::generate; the device has recorded no key (0).            *)
(***************************************************************************)
Init ==
  /\ pc = "idle" /\ role = "client" /\ pin = "none"
  /\ file = [key |-> 1, irk |-> FALSE] /\ disk = file /\ made = 1
  /\ mine = NewClient
  /\ up = FALSE /\ out = <<>> /\ in = <<>>
  /\ dev = [recorded |-> 0, session |-> NoKey, seq |-> 0, enc |-> 0, wants |-> "idle"]
  /\ conns = 0

-----------------------------------------------------------------------------
(* What this side sends and receives.                                      *)

Got(t) == in # <<>> /\ Head(in).t = t
GotOne(T) == \E t \in T : Got(t)

(* send_pairing_data, send_plain and send_pair_verified_failed number what *)
(* they send and count it; what is written to a cut connection is lost.    *)
Sent(ms) ==
  [i \in 1 .. Len(ms) |-> [t |-> ms[i][1], v |-> ms[i][2], n |-> mine.seq + i - 1]]

Say(ms, m) ==
  /\ mine' = [m EXCEPT !.seq = mine.seq + Len(ms)]
  /\ out' = IF up THEN out \o Sent(ms) ELSE out

(* Receive the first message, send ms, set the client to m, wait for p.    *)
Step(p, ms, m) ==
  /\ in' = Tail(in) /\ pc' = p
  /\ Say(ms, m)
  /\ UNCHANGED <<role, disk, up, dev, conns>>

(* Receive the first message and return r.                                 *)
Return(r) == Step(r, <<>>, mine) /\ UNCHANGED <<file, pin, made>>

-----------------------------------------------------------------------------
(* RemotePairingClient::connect                                            *)

(* A connection: new() and the first message of attempt_pair_verify.       *)
Connect ==
  /\ pc = "idle" /\ conns < MaxConnections
  /\ conns' = conns + 1 /\ role' = "client" /\ up' = TRUE /\ in' = <<>>
  /\ mine' = [NewClient EXCEPT !.seq = 1]
  /\ out' = <<[t |-> "handshake", v |-> "verify", n |-> 0]>>
  /\ pc' = "handshake" /\ pin' = "none"
  /\ dev' = [dev EXCEPT !.session = NoKey, !.seq = 0, !.enc = 0, !.wants = "handshake"]
  /\ UNCHANGED <<file, disk, made>>

(* The answer to the handshake starts validate_pairing.                    *)
RecvHandshake ==
  /\ pc = "handshake" /\ Got("handshake")
  /\ Step("verify2", <<<<"verify1", 0>>>>, mine) /\ UNCHANGED <<file, pin, made>>

(* The device's public key: the shared secret becomes encryption_key at    *)
(* once, the ciphers stay as they are, and the signature is sent.          *)
RecvVerify2 ==
  /\ pc = "verify2" /\ Got("verify2")
  /\ Step("verify4", <<<<"verify3", file.key>>>>, [mine EXCEPT !.key = Verify])
  /\ UNCHANGED <<file, pin, made>>

(* A variant: only pair-setup derives the ciphers.                         *)
RecvVerify4KeepsCiphers ==
  /\ pc = "verify4" /\ Got("verify4")
  /\ Step("ok", <<>>, mine)
  /\ UNCHANGED <<file, pin, made>>

(* The device accepts: the ciphers are derived and connect returns.        *)
RecvVerify4 ==
  /\ pc = "verify4" /\ Got("verify4")
  /\ Step("ok", <<>>, [mine EXCEPT !.cipher = mine.key])
  /\ UNCHANGED <<file, pin, made>>

(* A variant: the failure is reported without counting the message.        *)
VerifyFailsUncounted ==
  /\ pc \in {"verify2", "verify4"} /\ Got("error")
  /\ in' = Tail(in) /\ pc' = "consent" /\ mine' = [mine EXCEPT !.seq = @ + 1]
  /\ out' = IF up THEN out \o <<[t |-> "verifyFailed", v |-> 0, n |-> mine.seq],
                                [t |-> "m1", v |-> 0, n |-> mine.seq]>> ELSE out
  /\ UNCHANGED <<role, file, disk, pin, up, dev, conns, made>>

(* ErrorResponse: the device is told, and connect goes on with pair().     *)
VerifyFails ==
  /\ pc \in {"verify2", "verify4"} /\ Got("error")
  /\ Step("consent", <<<<"verifyFailed", 0>>, <<"m1", 0>>>>, mine)
  /\ UNCHANGED <<file, pin, made>>

(* Any other error of validate_pairing: pair() without telling the device. *)
VerifyRejected ==
  /\ pc \in {"verify2", "verify4"} /\ Got("rejected")
  /\ Step("consent", <<<<"m1", 0>>>>, mine)
  /\ UNCHANGED <<file, pin, made>>

(* request_pair_consent: awaitingUserConsent fixes the pin, and the salt   *)
(* comes with a later message.                                             *)
RecvAwaiting ==
  /\ pc = "consent" /\ Got("awaiting")
  /\ Step("m2", <<>>, mine) /\ pin' = "default" /\ UNCHANGED <<file, made>>

(* A variant: the new signing keys are made before the proofs are checked. *)
RecvM2RecreatesKeys ==
  /\ pc \in {"consent", "m2"} /\ Got("m2")
  /\ pin' \in IF pin = "none" THEN {"right", "wrong"} ELSE {pin}
  /\ made' = made + 1 /\ file' = [key |-> made + 1, irk |-> FALSE]
  /\ Step("m4", <<<<"m3", pin'>>>>, mine)

(* Salt and public key: the pin is the default or the callback's, and      *)
(* init_srp_context sends its proof.                                       *)
RecvM2 ==
  /\ pc \in {"consent", "m2"} /\ Got("m2")
  /\ pin' \in IF pin = "none" THEN {"right", "wrong"} ELSE {pin}
  /\ Step("m4", <<<<"m3", pin'>>>>, mine)
  /\ UNCHANGED <<file, made>>

(* The server's proof holds: save_pair_record_on_peer takes the session    *)
(* key, makes new signing keys (which clears alt_irk), derives the ciphers *)
(* and sends the new key, all before the device has confirmed anything.    *)
RecvM4 ==
  /\ pc = "m4" /\ Got("m4")
  /\ made' = made + 1
  /\ file' = [key |-> made + 1, irk |-> FALSE]
  /\ Step("m6", <<<<"m5", file'.key>>>>, [mine EXCEPT !.key = Setup, !.cipher = Setup])
  /\ UNCHANGED pin

(* The device's identity, complete: alt_irk is kept and pair() returns.    *)
RecvM6 ==
  /\ pc = "m6" /\ Got("m6")
  /\ file' = [file EXCEPT !.irk = TRUE]
  /\ Step("ok", <<>>, mine) /\ UNCHANGED <<pin, made>>

(* Errors after which connect returns: a rejection or an error in          *)
(* pair-setup, and an identity without a required field.                   *)
PairFails ==
  /\ \/ pc \in {"consent", "m2", "m4", "m6"} /\ GotOne({"rejected", "error"})
     \/ pc = "m6" /\ Got("m6incomplete")
  /\ Return("err")

-----------------------------------------------------------------------------
(* Encrypted requests (create_tcp_listener) and the end of a connection.   *)

SendEncrypted ==
  /\ pc = "ok" /\ role = "client" /\ up /\ mine.enc < MaxRequests
  /\ pc' = "encrypted"
  /\ Say(<<<<"encrypted", <<mine.cipher, mine.enc>>>>>>, mine)
  /\ UNCHANGED <<role, file, disk, pin, up, in, dev, conns, made>>

Readable == Got("encrypted") /\ Head(in).v = <<mine.cipher, mine.enc>>

(* The response is read with the request's number, which then advances.    *)
RecvEncrypted ==
  /\ pc = "encrypted" /\ Readable
  /\ Step("ok", <<>>, [mine EXCEPT !.enc = @ + 1])
  /\ UNCHANGED <<file, pin, made>>

(* A response that is not encrypted, or cannot be read, leaves the number  *)
(* alone; every caller gives the connection up.                            *)
EncryptedFails ==
  /\ pc = "encrypted" /\ in # <<>> /\ ~Readable
  /\ Return("err")

(* The connection is gone and what it delivered has been read.  In         *)
(* validate_pairing the error leads to pair(), which meets it again.       *)
Broken ==
  /\ pc \notin {"idle", "ok", "err"} /\ ~up /\ in = <<>>
  /\ pc' = "err"
  /\ UNCHANGED <<role, file, disk, mine, pin, up, out, in, dev, conns, made>>

(* The program ends the connection; it writes the file out only if the     *)
(* attempt succeeded, and may instead stop without writing it.             *)
Finish ==
  /\ pc \in {"ok", "err"}
  /\ disk' \in IF pc = "ok" THEN {disk, file} ELSE {disk}
  /\ pc' = "idle" /\ up' = FALSE /\ out' = <<>> /\ in' = <<>>
  /\ dev' = [dev EXCEPT !.wants = "idle"]
  /\ UNCHANGED <<role, file, mine, pin, conns, made>>

(* The program starts again: from the written file.                        *)
ReadFromFile ==
  /\ pc = "idle" /\ file # disk
  /\ file' = disk
  /\ UNCHANGED <<pc, role, disk, mine, pin, up, out, in, dev, conns, made>>

-----------------------------------------------------------------------------
(* PairableHost::accept                                                    *)

Accept ==
  /\ pc = "idle" /\ conns < MaxConnections
  /\ conns' = conns + 1 /\ role' = "host" /\ up' = TRUE /\ out' = <<>>
  /\ mine' = NewClient /\ pin' = "none" /\ pc' = "h_handshake"
  /\ \E v \in {"verify", "setup"} : in' = <<[t |-> "handshake", v |-> v]>>
  /\ dev' = [dev EXCEPT !.session = NoKey, !.seq = 0, !.enc = 0, !.wants = "h_handshake"]
  /\ UNCHANGED <<file, disk, made>>

(* A variant: the host waits for pair-setup without answering.             *)
HostHandshakeSilent ==
  /\ pc = "h_handshake" /\ Got("handshake")
  /\ IF Head(in).v = "verify" THEN Return("err") ELSE Return("h_m1")

(* handshake: a device that wants pair-verify is refused without an answer. *)
HostHandshake ==
  /\ pc = "h_handshake" /\ Got("handshake")
  /\ IF Head(in).v = "verify" THEN Return("err")
     ELSE Step("h_m1", <<<<"handshake", 0>>>>, mine) /\ UNCHANGED <<file, pin, made>>

(* pair_setup: the pin is chosen and shown, salt and B are sent.           *)
HostM1 ==
  /\ pc = "h_m1" /\ Got("m1")
  /\ pin' = "shown"
  /\ Step("h_m3", <<<<"m2", 0>>>>, mine) /\ UNCHANGED <<file, made>>

(* The client's proof: M4 is the host's own proof, or an error for a wrong *)
(* pin, after which accept returns.                                        *)
HostM3 ==
  /\ pc = "h_m3" /\ Got("m3")
  /\ IF Head(in).v = pin THEN Step("h_m5", <<<<"m4", 0>>>>, mine)
                         ELSE Step("err", <<<<"error", 0>>>>, mine)
  /\ UNCHANGED <<file, pin, made>>

(* The device's identity: M6 carries the file's present key, then alt_irk  *)
(* and the session key are kept and accept returns.                        *)
HostM5 ==
  /\ pc = "h_m5" /\ Got("m5")
  /\ file' = [file EXCEPT !.irk = TRUE]
  /\ Step("ok", <<<<"m6", file.key>>>>, [mine EXCEPT !.key = Setup])
  /\ UNCHANGED <<pin, made>>

(* ensure_no_error, and an identity without a required field.              *)
HostFails ==
  /\ \/ pc \in {"h_m3", "h_m5"} /\ Got("error")
     \/ pc = "h_m5" /\ Got("m5incomplete")
  /\ Return("err")

-----------------------------------------------------------------------------
(* The device (external), the user who answers its prompts, and the link.  *)

Hears(t) == up /\ out # <<>> /\ Head(out).t = t

Answer(ts, d) ==
  /\ out' = Tail(out) /\ dev' = [d EXCEPT !.seq = @ + 1]
  /\ in' = in \o [i \in 1 .. Len(ts) |-> [t |-> ts[i][1], v |-> ts[i][2]]]
  /\ UNCHANGED <<pc, role, file, disk, mine, pin, up, conns, made>>

One(t) == <<<<t, 0>>>>

DeviceVerifies ==
  \/ Hears("handshake") /\ role = "client" /\ Answer(One("handshake"), dev)
  \/ /\ Hears("verify1")
     /\ \E t \in {"verify2", "error", "rejected"} : Answer(One(t), dev)
  \/ /\ Hears("verify3")
     /\ IF Head(out).v = dev.recorded
          THEN Answer(One("verify4"), [dev EXCEPT !.session = Verify])
          ELSE \E t \in {"error", "rejected"} : Answer(One(t), dev)
  \/ Hears("verifyFailed") /\ Answer(<<>>, dev)

DevicePairs ==
  \/ /\ Hears("m1")
     /\ \/ Answer(One("rejected"), dev)
        \/ Answer(One("m2"), [dev EXCEPT !.wants = "right"])
        \/ Answer(One("awaiting"), [dev EXCEPT !.wants = "user"])
  \/ /\ Hears("m3")
     /\ IF Head(out).v = dev.wants
          THEN Answer(One("m4"), [dev EXCEPT !.wants = "m5", !.session = Setup])
          ELSE Answer(One("error"), dev)
  \/ /\ Hears("m5")
     /\ \/ \E t \in {"m6", "m6incomplete"} :
             Answer(One(t), [dev EXCEPT !.recorded = Head(out).v, !.wants = "paired"])
        \/ Answer(One("error"), [dev EXCEPT !.session = NoKey, !.wants = "refused"])

(* The user answers the Trust prompt.                                      *)
UserDecides ==
  /\ up /\ dev.wants = "user"
  /\ \E t \in {"m2", "rejected"} : in' = Append(in, [t |-> t, v |-> 0])
  /\ dev' = [dev EXCEPT !.wants = "default"]
  /\ UNCHANGED <<pc, role, file, disk, mine, pin, up, out, conns, made>>

DeviceAnswersEncrypted ==
  /\ Hears("encrypted") /\ Head(out).v = <<dev.session, dev.enc>>
  /\ \E t \in {"encrypted", "rejected"} :
       Answer(<<<<t, Head(out).v>>>>, [dev EXCEPT !.enc = @ + 1])

(* The device as the initiator of pair-setup; the user types the code.     *)
DeviceJoins ==
  \/ Hears("handshake") /\ role = "host" /\ Answer(One("m1"), dev)
  \/ /\ Hears("m2")
     /\ \/ \E v \in {"shown", "mistyped"} : Answer(<<<<"m3", v>>>>, dev)
        \/ Answer(One("error"), dev)
  \/ /\ Hears("m4")
     /\ \E t \in {"m5", "m5incomplete", "error"} :
          Answer(One(t), [dev EXCEPT !.session = Setup])
  \/ Hears("error") /\ Answer(<<>>, dev)
  \/ /\ Hears("m6")
     /\ Answer(<<>>, [dev EXCEPT !.recorded = Head(out).v, !.wants = "joined"])

(* The user removes this host from the device's list.                      *)
DeviceForgets ==
  /\ pc = "idle" /\ dev.recorded # 0
  /\ dev' = [dev EXCEPT !.recorded = 0]
  /\ UNCHANGED <<pc, role, file, disk, mine, pin, up, out, in, conns, made>>

(* The connection breaks; what was under way to us may be lost as well.    *)
Cut ==
  /\ up /\ up' = FALSE /\ out' = <<>> /\ in' \in {in, <<>>}
  /\ UNCHANGED <<pc, role, file, disk, mine, pin, dev, conns, made>>

-----------------------------------------------------------------------------
Client ==
  \/ RecvHandshake \/ RecvVerify2 \/ RecvVerify4 \/ VerifyFails \/ VerifyRejected
  \/ RecvAwaiting \/ RecvM2 \/ RecvM4 \/ RecvM6 \/ PairFails
  \/ RecvEncrypted \/ EncryptedFails \/ Broken

Host == HostHandshake \/ HostM1 \/ HostM3 \/ HostM5 \/ HostFails

Device ==
  DeviceVerifies \/ DevicePairs \/ UserDecides \/ DeviceAnswersEncrypted \/ DeviceJoins

(* All connections are made and the program has ended.                     *)
Finished == pc = "idle" /\ conns = MaxConnections /\ UNCHANGED vars

Next ==
  \/ Connect \/ Accept \/ Client \/ Host \/ SendEncrypted \/ Finish \/ ReadFromFile
  \/ Device \/ DeviceForgets \/ Cut \/ Finished

(* The runtime polls the task; the device, or its user, answers while the  *)
(* connection stands.                                                      *)
Fairness == WF_vars(Client \/ Host) /\ WF_vars(Device)

Spec == Init /\ [][Next]_vars /\ Fairness

-----------------------------------------------------------------------------
(* Properties                                                              *)

(***************************************************************************)
(* connect returns Ok (mod.rs 109-123) only when the device holds the      *)
(* signing key that is in the file now, and both sides hold the same       *)
(* session key, in encryption_key (the tunnel's PSK) and in the ciphers,   *)
(* whichever of verification, refused verification and pair-setup led      *)
(* there.  As a host, a device that has finished knows a host that has     *)
(* kept its identity, this key and this session.                           *)
(***************************************************************************)
BothSidesAgree ==
  /\ pc = "ok" /\ role = "client" =>
       /\ dev.recorded = file.key
       /\ mine.key = dev.session /\ mine.cipher = dev.session
  /\ dev.wants = "joined" =>
       /\ pc = "ok" /\ file.irk /\ dev.recorded = file.key
       /\ mine.key = dev.session

(***************************************************************************)
(* The signing keys of a pairing file are replaced (recreate_signing_keys, *)
(* mod.rs 611) only once the device has accepted this connection's proof   *)
(* of the pin: a refused verification, a rejection, a mistyped pin or a    *)
(* connection lost before that never costs the caller a working file.      *)
(***************************************************************************)
KeysReplacedOnlyAfterProof ==
  [][file'.key # file.key /\ pc # "idle"
       => dev.session = Setup /\ dev.wants = "m5"]_vars

(***************************************************************************)
(* Every message bears the number the device counts to, whichever sender   *)
(* wrote it (send_pairing_data, send_pair_verified_failed, send_encrypted, *)
(* PairableHost::send_plain), and between requests both sides use the same *)
(* number for the next encrypted one.                                      *)
(***************************************************************************)
NumbersInStep ==
  up => /\ mine.seq = dev.seq + Len(out)
        /\ \A i \in DOMAIN out : out[i].n = dev.seq + i - 1
        /\ pc = "ok" => mine.enc = dev.enc

(***************************************************************************)
(* Every connect, accept and encrypted request returns: the two sides      *)
(* never wait for each other, and a lost connection ends the wait.         *)
(***************************************************************************)
AttemptReturns == (pc \notin {"idle", "ok", "err"}) ~> (pc \in {"ok", "err"})

=============================================================================
