---------------------------- MODULE FfiOwnership ----------------------------
(***************************************************************************)
(* A C program using one file of the C interface (src/ffi).  It keeps the  *)
(* rules the headers document and nothing else; the library allocates and  *)
(* frees as the code does.  The two views should agree: what the program   *)
(* still holds is allocated, what it was told is consumed is freed, and    *)
(* whatever it ends up with it can give back.  Where they do not, the      *)
(* properties name the calls and the types.                                *)
(*                                                                         *)
(* A handle is <<type, n>>.  The program starts with one handle of every   *)
(* type its file needs and another file hands out (a provider, an adapter, *)
(* an RSD handshake, a socket).                                            *)
(***************************************************************************)
EXTENDS FfiDevice, FfiServices, FfiTools, Integers, FiniteSets, TLC

CONSTANTS Apis,         \* the source files the program may be written against
          MaxHandles    \* bound on the objects the file's calls have allocated

VARIABLES api,      \* the file the program is written against
          heap,     \* objects the library has allocated and not freed
          held,     \* objects the program believes it owns
          ties,     \* <<h, p>>: the library's object h points into p
          closing   \* the program only gives back what it holds

vars == <<api, heap, held, ties, closing>>

Calls == DeviceCalls @@ ServicesCalls @@ ToolsCalls
AllCalls == UNION {Calls[a] : a \in DOMAIN Calls}

\* plist_t objects go back to libplist.
plist_free == Free("plist", {"plist_free"})

\* Calls that consume one object and hand nothing out.
Releases == {s \in AllCalls : s.gives = {} /\ s.uses = {} /\ s.says # {}}
            \cup plist_free

\* What a program written against a file calls while it works.
Available == Calls[api] \cup
    {s \in Releases : s.says \subseteq
        {"error"} \cup UNION {c.gives : c \in Calls[api]}}
Needed(a) == (UNION {s.uses \cup s.says : s \in Calls[a]})
             \ UNION {s.gives : s \in Calls[a]}
Given == UNION {s.gives : s \in AllCalls}

ASSUME FfiAssumption == Apis \subseteq DOMAIN Calls /\ MaxHandles \in Nat
----------------------------------------------------------------------------
Type(h) == h[1]
Known == heap \cup held \cup {t[2] : t \in ties}
Fresh(type) == <<type, CHOOSE n \in 1..Cardinality(Known) + 1 :
                        /\ <<type, n>> \notin Known
                        /\ \A m \in 1..n - 1 : <<type, m>> \in Known>>
New(types) == {Fresh(t) : t \in types}
OfTypes(S, types) == {h \in S : Type(h) \in types}

\* The argument lists a call can be made with: one held handle per type.
Arguments(s) ==
    LET types == s.uses \cup s.says IN
    {A \in SUBSET OfTypes(held, types) :
        {Type(h) : h \in A} = types /\ Cardinality(A) = Cardinality(types)}

Dependants(S) == {t[1] : t \in {u \in ties : u[2] \in S}} \cap held

\* The parents the headers ask a program to keep for what depends on them
\* (afc.rs:575, mobileactivationd.rs:22).
Respected == {"afc", "provider"}

\* What they ask it to keep longer than its parent (usbmuxd.rs:354).
Outliving == {"usbmuxd_listener"}

\* A program frees or passes on a parent only after what is documented to
\* depend on it, and a listener only after its connection.
MayGiveUp(S) ==
    /\ Dependants(OfTypes(S, Respected)) \subseteq S
    /\ \A t \in ties : t[1] \in OfTypes(S, Outliving) => t[2] \notin held

Init == /\ api \in Apis
        /\ heap = {<<t, 1>> : t \in Needed(api) \cap Given}
        /\ held = heap
        /\ ties = {}
        /\ closing = FALSE

\* Bounds what is allocated besides the handles the program starts with.
Bounded(S) == Cardinality({h \in S : Type(h) \notin Needed(api)}) <= MaxHandles

\* The library frees `freed` of the objects in `taken`, which the program
\* gives up, and hands out `out`, which points into the arguments in A of the
\* types `on` where it is more than a string; `lost` it hands to nobody.
Transfer(taken, freed, out, lost, on, A) ==
    /\ Bounded((heap \ freed) \cup out \cup lost)
    /\ heap' = (heap \ freed) \cup out \cup lost
    /\ held' = (held \ taken) \cup out
    /\ ties' = {t \in ties : t[1] \notin freed}
               \cup {<<h, p>> : h \in {o \in out : Type(o) # "string"},
                             p \in OfTypes(A, on)}
    /\ UNCHANGED <<api, closing>>

\* The call succeeds: arguments it takes move into the result, or are dropped.
Succeed(s, A) ==
    \E out \in {New(s.gives)} \cup (IF s.may THEN {{}} ELSE {}) :
        Transfer(OfTypes(A, s.says), OfTypes(A, s.takes), out, {}, s.ties, A)

\* The device, the socket or an argument fails it once it owns what it takes,
\* or the conversion of the result does, half-way.
Fail(s, A) ==
    /\ s.errs
    /\ \E lost \in {{}, New(s.loses)} :
         Transfer(OfTypes(A, s.says), OfTypes(A, s.takes),
                  New({"error"}), lost, {}, A)

\* A string fails it before Box::from_raw: the program gave the handle up.
FailEarly(s, A) ==
    /\ s.early
    /\ Transfer(OfTypes(A, s.says), {}, New({"error"}), {}, {}, A)

\* An output pointer was null: nothing is consumed.
Refuse(s, A) == s.errs /\ Transfer({}, {}, New({"error"}), {}, {}, A)

\* A call with proper arguments, and any call.
ProperCall(s) == \E A \in Arguments(s) :
                    /\ MayGiveUp(OfTypes(A, s.says))
                    /\ Succeed(s, A) \/ Fail(s, A) \/ FailEarly(s, A)
Call(s) == ProperCall(s) \/ \E A \in Arguments(s) : Refuse(s, A)

Work == ~closing /\ \E s \in Available : Call(s)
GiveBack == closing /\ \E s \in Releases : ProperCall(s)
Close == ~closing /\ closing' = TRUE /\ UNCHANGED <<api, heap, held, ties>>
Finished == closing /\ (\A s \in Releases : Arguments(s) = {})
            /\ UNCHANGED vars

Next == Work \/ GiveBack \/ Close \/ Finished

\* A program that cleans up goes on until nothing it can release is left.
Spec == Init /\ [][Next]_vars /\ WF_vars(GiveBack)
----------------------------------------------------------------------------
(* Every object is one of the interface's types, and a dependency starts   *)
(* at an allocated object.                                                 *)
TypeOK ==
    /\ api \in Apis
    /\ \A h \in heap \cup held : Type(h) \in Given \cup {"error"}
    /\ \A t \in ties : t[1] \in heap
    /\ closing \in BOOLEAN

(* The types whose objects point into another one of which the headers say *)
(* nothing, or, for the listener, the opposite of what it takes.           *)
Unprotected == {"usbmuxd_listener", "sysdiagnose_stream",
                "application_listing", "condition_inducer", "device_info",
                "energy_monitor", "graphics", "location_simulation",
                "network_monitor", "notifications", "process_control",
                "screenshot", "sysmontap"}


(* Only these calls ever leave behind an object that nobody owns: the      *)
(* stream box remote_server_new empties but never frees; the handles of    *)
(* the calls that return on a bad string before taking ownership; the      *)
(* strings already made when a later one fails the call; the array and the *)
(* audit token that a release forgets.                                     *)
Leaky == {"remote_server_new",
          "idevice_tcp_provider_new", "usbmuxd_provider_new",
          "remote_pairing_lockdown_new", "cryptexd_uninstall",
          "cryptexd_install", "file_service_retrieve_file_with_stream",
          "rsd_get_services", "app_service_list_apps",
          "app_service_list_processes", "cryptexd_copy_installed",
          "idevice_usbmuxd_device_list_free", "idevice_plist_array_free",
          "app_service_free_launch_response"}
LeaksAreKnown ==
    [][heap' \ held' # heap \ held =>
        \A s \in Available \cup Releases : Call(s) => s.fn \in Leaky]_vars

(* A program that cleans up ends up owning nothing, except the two kinds   *)
(* of array for which the interface has no release function: the entries   *)
(* of afc_list_directory and crash_report_client_ls, and the boxed vector  *)
(* of os_trace_relay_get_pid_list.                                         *)
NoRelease == {"afc_entries", "pid_list"}
CallerCanFinish == closing ~> ({Type(h) : h \in held} \subseteq NoRelease)
============================================================================
