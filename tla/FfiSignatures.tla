--------------------------- MODULE FfiSignatures ---------------------------
(***************************************************************************)
(* What a call of the C interface (src/ffi) does to ownership.  A C caller *)
(* sees pointers only; which of them a call borrows, consumes or hands     *)
(* out, on success and on every error path, is what these records keep.    *)
(* The data behind the pointers is left out.                               *)
(*                                                                         *)
(*   uses   types of the handles the call borrows                          *)
(*   says   types of the handles its documentation says it consumes, on    *)
(*          success and on error, when no argument is null (the contract   *)
(*          is spelled out at house_arrest.rs:131)                         *)
(*   takes  types of the handles it does free or move (Box::from_raw)      *)
(*   gives  types of the objects a successful call allocates for the       *)
(*          caller                                                         *)
(*   ties   types of the borrowed handles its result keeps a pointer into  *)
(*   may    a successful call may leave its output null                    *)
(*   early  it validates strings before it takes ownership, and returns    *)
(*          from there                                                     *)
(*   errs   it reports failure by an IdeviceFfiError the caller must free  *)
(*   loses  types of the objects an error in the middle of its result      *)
(*          leaves allocated and hands to nobody                           *)
(***************************************************************************)

Signature(fn, uses, takes, gives) ==
    [fn |-> fn, uses |-> uses, says |-> takes, takes |-> takes,
     gives |-> gives, ties |-> {}, may |-> FALSE, early |-> FALSE,
     errs |-> TRUE, loses |-> {}]

Fns(uses, takes, gives, names) ==
    {Signature(fn, uses, takes, gives) : fn \in names}

---------------------------------------------------------------------------
(* The shapes most calls have. *)

FromSocketKeeps(client, names) ==
    {[s EXCEPT !.takes = {}] : s \in Fns({}, {"idevice"}, {client}, names)}

\* X_connect(provider, &x): the service's connect() over a borrowed provider.
Connect(client, names) == Fns({"provider"}, {}, {client}, names)

\* X_connect_rsd(adapter, handshake, &x)
ConnectRsd(client, names) == Fns({"adapter", "rsd"}, {}, {client}, names)

\* X_new(socket, &x): the boxed Idevice moves into the client.
FromSocket(client, names) == Fns({}, {"idevice"}, {client}, names)

\* X_new(socket, &x) over a ReadWriteOpaque.
FromStream(client, names) == Fns({}, {"stream"}, {client}, names)

\* A request whose answer is copied into caller memory, or is not an object.
Ask(client, names) == Fns({client}, {}, {}, names)

\* A request answered by an allocation.
Get(client, out, names) == Fns({client}, {}, {out}, names)

\* A call that consumes its handle and turns it into something else.
Into(client, outs, names) == Fns({}, {client}, outs, names)

\* A constructor without arguments the library owns.
Make(outs, names) == Fns({}, {}, outs, names)

\* X_free(x): null is accepted, nothing can fail.
Free(type, names) ==
    {[s EXCEPT !.errs = FALSE] : s \in Fns({}, {type}, {}, names)}

\* An instrument opened on a RemoteServerHandle<'static> it goes on using.
OnServer(client, names) ==
    {[s EXCEPT !.ties = {"server"}] :
        s \in Fns({"server"}, {}, {client}, names)}

---------------------------------------------------------------------------
(* What a call adds to its shape. *)

MayBeNull(calls) == {[s EXCEPT !.may = TRUE] : s \in calls}

ChecksFirst(calls) == {[s EXCEPT !.early = TRUE] : s \in calls}

\* The documentation says consumed, the code leaves the box allocated.
Keeps(calls) == {[s EXCEPT !.takes = {}] : s \in calls}

\* A release of an object with its parts that leaves one part allocated.
Leaves(calls, part) == {[s EXCEPT !.takes = @ \ {part}] : s \in calls}

\* An early return while the result is put together drops raw pointers.
Loses(calls, type) == {[s EXCEPT !.loses = {type}] : s \in calls}

NoError(calls) == {[s EXCEPT !.errs = FALSE] : s \in calls}

\* A release documented to free an array (application_listing.rs:63,
\* usbmuxd.rs:156) that frees the entries: the program gives up both.
FreesEntries(entries, names) ==
    NoError(Leaves(Fns({}, {entries, "outer"}, {}, names), "outer"))

Tied(calls, type) == {[s EXCEPT !.ties = {type}] : s \in calls}
============================================================================
