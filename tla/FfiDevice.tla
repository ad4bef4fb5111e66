-------------------------- MODULE FfiDevice --------------------------
(***************************************************************************)
(* The calls of the C interface that lead to a device: sockets, providers, *)
(* pairing records, usbmuxd, lockdown, tunnels, RSD.  One definition for   *)
(* every run of consecutive functions of a source file.                    *)
(***************************************************************************)
EXTENDS FfiSignatures

(* src/ffi/src/adapter.rs.  adapter_connect hands out a ReadWriteOpaque;   *)
(* what closes, sends and receives takes an AdapterStreamHandle, which no  *)
(* function hands out: a program never gets to call those three.           *)
AdapterStreams ==
    NoError(Get("adapter", "adapter", {"adapter_clone"}))
    \cup Get("adapter", "stream", {"adapter_connect"})
    \cup Ask("adapter", {"adapter_pcap"})
    \cup Ask("adapter_stream", {"adapter_stream_close"})

AdapterTransfers ==
    Ask("adapter", {"adapter_close"})
    \cup Ask("adapter_stream", {"adapter_send", "adapter_recv"})

(* src/ffi/src/core_device_proxy.rs *)
CoreDeviceProxyOpen ==
    Connect("core_device_proxy", {"core_device_proxy_connect"})
    \cup FromSocket("core_device_proxy", {"core_device_proxy_new"})
    \cup Ask("core_device_proxy", {"core_device_proxy_send"})

CoreDeviceProxyParameters ==
    Ask("core_device_proxy", {"core_device_proxy_recv"})
    \cup Fns({"core_device_proxy"}, {}, {"string"},
            {"core_device_proxy_get_client_parameters"})
    \cup Get("core_device_proxy", "string",
            {"core_device_proxy_get_server_address"})

CoreDeviceProxyAdapter ==
    Ask("core_device_proxy", {"core_device_proxy_get_server_rsd_port"})
    \cup Into("core_device_proxy", {"adapter"},
            {"core_device_proxy_create_tcp_adapter"})
    \cup Free("core_device_proxy", {"core_device_proxy_free"})
    \cup Free("adapter", {"adapter_free"})

(* src/ffi/src/errors.rs *)
ErrorRelease ==
    Free("error", {"idevice_error_free"})

(* src/ffi/src/heartbeat.rs *)
HeartbeatOpen ==
    Connect("heartbeat", {"heartbeat_connect"})
    \cup ConnectRsd("heartbeat", {"heartbeat_connect_rsd"})
    \cup FromSocket("heartbeat", {"heartbeat_new"})
    \cup Ask("heartbeat", {"heartbeat_send_polo"})

HeartbeatCalls ==
    Ask("heartbeat", {"heartbeat_get_marco"})
    \cup Free("heartbeat", {"heartbeat_client_free"})

(* src/ffi/src/lib.rs *)
IdeviceOpen ==
    Into("socket", {"idevice"}, {"idevice_new"})
    \cup Make({"idevice"}, {"idevice_from_fd", "idevice_new_tcp_socket"})

IdeviceCalls ==
    Get("idevice", "string", {"idevice_get_type"})
    \cup Ask("idevice", {"idevice_rsd_checkin"})
    \cup Fns({"idevice", "pairing_file"}, {}, {}, {"idevice_start_session"})
    \cup NoError(Fns({}, {}, {}, {"idevice_set_global_timeout"}))
    \cup Free("idevice", {"idevice_free"})
    \cup Free("stream", {"idevice_stream_free"})

\* Variant: nothing releases the outer array of a list.
ReleasesButOuter ==
    Free("string", {"idevice_string_free"})
    \cup Free("data", {"idevice_data_free"})
    \cup Free("plists", {"idevice_plist_array_free"})
    \cup FreesEntries("plists", {"idevice_plist_array_free"})

CommonReleases ==
    Free("string", {"idevice_string_free"})
    \cup Free("data", {"idevice_data_free"})
    \cup Free("plists", {"idevice_plist_array_free"})
    \cup FreesEntries("plists", {"idevice_plist_array_free"})
    \cup Free("outer", {"idevice_outer_slice_free"})

(* src/ffi/src/lockdown.rs *)
LockdowndOpen ==
    Connect("lockdownd", {"lockdownd_connect"})
    \cup ConnectRsd("lockdownd", {"lockdownd_connect_rsd"})
    \cup FromSocket("lockdownd", {"lockdownd_new"})
    \cup Fns({"lockdownd", "pairing_file"}, {}, {},
            {"lockdownd_start_session"})

LockdowndServices ==
    Ask("lockdownd", {"lockdownd_start_service"})
    \cup Get("lockdownd", "pairing_file", {"lockdownd_pair"})

LockdowndValues ==
    Get("lockdownd", "plist", {"lockdownd_get_value"})
    \cup Ask("lockdownd", {"lockdownd_enter_recovery", "lockdownd_set_value"})

LockdowndRelease ==
    Free("lockdownd", {"lockdownd_client_free"})

(* src/ffi/src/logging.rs *)
LoggerSetUp ==
    NoError(Fns({}, {}, {}, {"idevice_init_logger"}))

(* src/ffi/src/pairable_host.rs *)
PairableHostCancel ==
    NoError(Make({"pairable_host_cancel"}, {"pairable_host_cancel_new"}))
    \cup NoError(Ask("pairable_host_cancel", {"pairable_host_cancel_signal"}))
    \cup Free("pairable_host_cancel", {"pairable_host_cancel_free"})
    \cup Fns({"pairable_host_cancel"}, {}, {"peer_device", "rp_pairing_file"},
            {"pairable_host_accept"})

PairableHostAccept ==
    Fns({"pairable_host_cancel"}, {}, {"peer_device", "rp_pairing_file"},
            {"pairable_host_accept_with_options"})

(* src/ffi/src/pairing_file.rs *)
PairingFileCalls ==
    Make({"pairing_file"},
            {"idevice_pairing_file_read", "idevice_pairing_file_from_bytes"})
    \cup Get("pairing_file", "data", {"idevice_pairing_file_serialize"})
    \cup Free("pairing_file", {"idevice_pairing_file_free"})

(* src/ffi/src/pairing_host.rs *)
PairingHostOpen ==
    Make({"pairable_host", "string", "data"},
            {"pairable_host_prepare", "pairable_host_new"})

PairingHostCalls ==
    Fns({"pairable_host"}, {}, {"peer_device", "rp_pairing_file"},
            {"pairable_host_accept_fd"})
    \cup Get("pairable_host", "rp_pairing_file", {"pairable_host_handshake"})
    \cup Free("pairable_host", {"pairable_host_free"})

(* src/ffi/src/provider.rs *)
ProviderOpen ==
    ChecksFirst(Into("pairing_file", {"provider"},
            {"idevice_tcp_provider_new"}))
    \cup Free("provider", {"idevice_provider_free"})
    \cup ChecksFirst(Into("usbmuxd_addr", {"provider"},
            {"usbmuxd_provider_new"}))

ProviderPairing ==
    Get("provider", "pairing_file", {"idevice_provider_get_pairing_file"})

(* src/ffi/src/remote_pairing_lockdown.rs *)
RemotePairingOpen ==
    Connect("remote_pairing_lockdown", {"remote_pairing_lockdown_connect"})
    \cup ChecksFirst(FromSocket("remote_pairing_lockdown",
            {"remote_pairing_lockdown_new"}))
    \cup Get("remote_pairing_lockdown", "plist",
            {"remote_pairing_lockdown_attempt_pair_verify"})
    \cup Fns({"remote_pairing_lockdown", "rp_pairing_file"}, {}, {},
            {"remote_pairing_lockdown_validate_pairing"})

RemotePairingCalls ==
    Fns({"remote_pairing_lockdown", "rp_pairing_file"}, {}, {},
            {"remote_pairing_lockdown_pair",
             "remote_pairing_lockdown_connect_pairing"})
    \cup Get("remote_pairing_lockdown", "data",
            {"remote_pairing_lockdown_encryption_key"})
    \cup Free("remote_pairing_lockdown", {"remote_pairing_lockdown_free"})

(* src/ffi/src/rp_pairing_file.rs *)
RpPairingFileCalls ==
    Make({"rp_pairing_file"},
            {"rp_pairing_file_generate", "rp_pairing_file_from_bytes"})
    \cup Make({"rp_pairing_file"}, {"rp_pairing_file_read"})
    \cup Get("rp_pairing_file", "data", {"rp_pairing_file_to_bytes"})
    \cup Ask("rp_pairing_file", {"rp_pairing_file_write"})
    \cup Free("rp_pairing_file", {"rp_pairing_file_free"})

PeerDeviceRelease ==
    Free("peer_device", {"rppairing_peer_device_free"})

(* src/ffi/src/rsd.rs *)
RsdOpen ==
    FromStream("rsd", {"rsd_handshake_new"})
    \cup Ask("rsd", {"rsd_get_protocol_version"})
    \cup Get("rsd", "string", {"rsd_get_uuid"})

RsdServices ==
    Loses(Get("rsd", "c_rsd_service_array", {"rsd_get_services"}), "string")
    \cup Ask("rsd", {"rsd_service_available"})

RsdServiceInfo ==
    Get("rsd", "c_rsd_service", {"rsd_get_service_info"})
    \cup NoError(Get("rsd", "rsd", {"rsd_handshake_clone"}))
    \cup Free("string", {"rsd_free_string"})

RsdReleases ==
    Free("c_rsd_service", {"rsd_free_service"})
    \cup Free("c_rsd_service_array", {"rsd_free_services"})
    \cup Free("rsd", {"rsd_handshake_free"})

(* src/ffi/src/tcp_object_stack.rs *)
TcpStackOpen ==
    Make({"tcp_feed_object", "tcp_eat_object", "adapter"},
            {"idevice_tcp_stack_into_sync_objects"})
    \cup Ask("tcp_feed_object", {"idevice_tcp_feed_object_write"})

TcpStackObjects ==
    MayBeNull(Get("tcp_eat_object", "data", {"idevice_tcp_eat_object_read"}))
    \cup Free("tcp_feed_object", {"idevice_free_tcp_feed_object"})
    \cup Free("tcp_eat_object", {"idevice_free_tcp_eat_object"})

(* src/ffi/src/tunnel_provider.rs *)
TunnelUsb ==
    Fns({"provider"}, {}, {"adapter", "rsd"}, {"tunnel_create_usb"})
    \cup Get("provider", "rp_pairing_file", {"tunnel_pair_usb"})

TunnelNetwork ==
    Fns({"rp_pairing_file"}, {}, {"adapter", "rsd"},
            {"tunnel_create_remotexpc", "tunnel_create_rppairing"})

TunnelPairing ==
    Get("rp_pairing_file", "peer_device", {"rppairing_pair_network"})

(* src/ffi/src/usbmuxd.rs *)
UsbmuxdOpen ==
    Make({"usbmuxd_connection"},
            {"idevice_usbmuxd_new_tcp_connection",
             "idevice_usbmuxd_new_unix_socket_connection",
             "idevice_usbmuxd_new_default_connection"})

UsbmuxdDevices ==
    Fns({"usbmuxd_connection"}, {}, {"usbmuxd_device_list", "outer"},
            {"idevice_usbmuxd_get_devices"})
    \cup Into("usbmuxd_connection", {"idevice"},
            {"idevice_usbmuxd_connect_to_device"})
    \cup Get("usbmuxd_connection", "pairing_file",
            {"idevice_usbmuxd_get_pair_record"})

UsbmuxdListening ==
    Ask("usbmuxd_connection", {"idevice_usbmuxd_save_pair_record"})
    \cup Tied(Get("usbmuxd_connection", "usbmuxd_listener",
            {"idevice_usbmuxd_listen"}), "usbmuxd_connection")
    \cup Free("usbmuxd_listener", {"idevice_usbmuxd_listener_handle_free"})
    \cup MayBeNull(Get("usbmuxd_listener", "usbmuxd_device",
            {"idevice_usbmuxd_listener_next"}))

UsbmuxdAddresses ==
    Get("usbmuxd_connection", "string", {"idevice_usbmuxd_get_buid"})
    \cup Free("usbmuxd_connection", {"idevice_usbmuxd_connection_free"})
    \cup Make({"usbmuxd_addr"},
            {"idevice_usbmuxd_tcp_addr_new", "idevice_usbmuxd_unix_addr_new",
             "idevice_usbmuxd_default_addr_new"})

UsbmuxdReleases ==
    Free("usbmuxd_addr", {"idevice_usbmuxd_addr_free"})
    \cup Free("usbmuxd_device_list", {"idevice_usbmuxd_device_list_free"})
    \cup FreesEntries("usbmuxd_device_list",
            {"idevice_usbmuxd_device_list_free"})
    \cup Free("usbmuxd_device", {"idevice_usbmuxd_device_free"})
    \cup NoError(MayBeNull(Get("usbmuxd_device", "string",
            {"idevice_usbmuxd_device_get_udid"})))
    \cup NoError(Ask("usbmuxd_device",
            {"idevice_usbmuxd_device_get_device_id",
             "idevice_usbmuxd_device_get_connection_type"}))

(* The calls of each source file, by the name of the file. *)
DeviceCalls == [
    adapter |-> AdapterStreams \cup AdapterTransfers,
    core_device_proxy |->
        CoreDeviceProxyOpen \cup CoreDeviceProxyParameters
        \cup CoreDeviceProxyAdapter,
    errors |-> ErrorRelease,
    heartbeat |-> HeartbeatOpen \cup HeartbeatCalls,
    lib |-> IdeviceOpen \cup IdeviceCalls \cup CommonReleases,
    lockdown |->
        LockdowndOpen \cup LockdowndServices \cup LockdowndValues
        \cup LockdowndRelease,
    logging |-> LoggerSetUp,
    pairable_host |-> PairableHostCancel \cup PairableHostAccept,
    pairing_file |-> PairingFileCalls,
    pairing_host |-> PairingHostOpen \cup PairingHostCalls,
    provider |-> ProviderOpen \cup ProviderPairing,
    remote_pairing_lockdown |-> RemotePairingOpen \cup RemotePairingCalls,
    rp_pairing_file |-> RpPairingFileCalls \cup PeerDeviceRelease,
    rsd |-> RsdOpen \cup RsdServices \cup RsdServiceInfo \cup RsdReleases,
    tcp_object_stack |-> TcpStackOpen \cup TcpStackObjects,
    tunnel_provider |-> TunnelUsb \cup TunnelNetwork \cup TunnelPairing,
    usbmuxd |->
        UsbmuxdOpen \cup UsbmuxdDevices \cup UsbmuxdListening
        \cup UsbmuxdAddresses \cup UsbmuxdReleases]
=============================================================================
