-------------------------- MODULE FfiTools --------------------------
(***************************************************************************)
(* The calls of the C interface for developer, restore and automation      *)
(* services.  One definition for every run of consecutive functions of a   *)
(* source file.                                                            *)
(***************************************************************************)
EXTENDS FfiSignatures

(* src/ffi/src/core_device/app_service.rs *)
AppServiceOpen ==
    ConnectRsd("app_service", {"app_service_connect_rsd"})
    \cup FromStream("app_service", {"app_service_new"})
    \cup Free("app_service", {"app_service_free"})

AppServiceApps ==
    Loses(Get("app_service", "app_list", {"app_service_list_apps"}), "string")
    \cup Free("app_list", {"app_service_free_app_list"})

AppServiceLaunch ==
    Fns({"app_service"}, {}, {"launch_response", "audit_token"},
            {"app_service_launch_app"})
    \cup Leaves(NoError(Fns({}, {"launch_response", "audit_token"}, {},
            {"app_service_free_launch_response"})), "audit_token")

AppServiceProcesses ==
    Loses(Get("app_service", "process_list",
            {"app_service_list_processes"}), "string")
    \cup Free("process_list", {"app_service_free_process_list"})
    \cup Ask("app_service", {"app_service_uninstall_app"})

AppServiceSignals ==
    Get("app_service", "signal_response", {"app_service_send_signal"})
    \cup Free("signal_response", {"app_service_free_signal_response"})

(* src/ffi/src/core_device/configuration_service.rs *)
ConfigurationOpen ==
    ConnectRsd("configuration_service", {"configuration_service_connect_rsd"})
    \cup FromStream("configuration_service", {"configuration_service_new"})
    \cup Ask("configuration_service",
            {"configuration_service_get_user_interface_style",
             "configuration_service_set_user_interface_style"})

ConfigurationColor ==
    Ask("configuration_service",
            {"configuration_service_set_liquid_glass_opacity"})
    \cup Get("configuration_service", "string",
            {"configuration_service_get_color_filter"})
    \cup Ask("configuration_service",
            {"configuration_service_set_color_filter"})

ConfigurationText ==
    Get("configuration_service", "string",
            {"configuration_service_get_device_text_size"})
    \cup Ask("configuration_service",
            {"configuration_service_set_device_text_size"})
    \cup Ask("configuration_service",
            {"configuration_service_get_reduce_motion",
             "configuration_service_set_reduce_motion"})

ConfigurationDisplay ==
    Ask("configuration_service",
            {"configuration_service_get_reduce_transparency",
             "configuration_service_set_reduce_transparency",
             "configuration_service_get_show_borders",
             "configuration_service_set_show_borders",
             "configuration_service_set_increase_contrast"})

ConfigurationRelease ==
    Free("configuration_service", {"configuration_service_free"})

(* src/ffi/src/core_device/diagnosticsservice.rs *)
DiagnosticsServiceOpen ==
    ConnectRsd("diagnostics_service", {"diagnostics_service_connect_rsd"})
    \cup FromStream("diagnostics_service", {"diagnostics_service_new"})
    \cup Tied(Fns({"diagnostics_service"}, {},
            {"string", "sysdiagnose_stream"},
            {"diagnostics_service_capture_sysdiagnose"}),
            "diagnostics_service")

DiagnosticsServiceStream ==
    MayBeNull(Get("sysdiagnose_stream", "data", {"sysdiagnose_stream_next"}))
    \cup Free("diagnostics_service", {"diagnostics_service_free"})
    \cup Free("sysdiagnose_stream", {"sysdiagnose_stream_free"})

(* src/ffi/src/core_device/file_service.rs *)
FileServiceOpen ==
    ConnectRsd("file_service", {"file_service_connect_rsd"})
    \cup FromStream("file_service", {"file_service_new"})
    \cup Get("file_service", "string", {"file_service_create_session"})

FileServiceListing ==
    MayBeNull(Get("file_service", "string", {"file_service_session_id"}))
    \cup Get("file_service", "directory_list",
            {"file_service_retrieve_directory_list"})
    \cup Free("directory_list", {"file_service_free_directory_list"})

FileServiceRetrieval ==
    Fns({"file_service", "adapter"}, {}, {"data"},
            {"file_service_retrieve_file"})
    \cup ChecksFirst(Fns({"file_service"}, {"stream"}, {"data"},
            {"file_service_retrieve_file_with_stream"}))

FileServiceRest ==
    Ask("file_service", {"file_service_propose_empty_file"})
    \cup NoError(Fns({}, {}, {}, {"file_service_domain_from_name"}))
    \cup Free("file_service", {"file_service_free"})

(* src/ffi/src/core_device/icon_service.rs *)
IconServiceCalls ==
    ConnectRsd("icon_service", {"icon_service_connect_rsd"})
    \cup FromStream("icon_service", {"icon_service_new"})
    \cup Get("icon_service", "app_icon", {"icon_service_fetch_icon"})
    \cup Free("app_icon", {"icon_service_free_icon"})

IconServiceRelease ==
    Free("icon_service", {"icon_service_free"})

(* src/ffi/src/cryptexd.rs *)
CryptexdOpen ==
    ConnectRsd("cryptexd", {"cryptexd_connect_rsd"})
    \cup FromStream("cryptexd", {"cryptexd_new"})
    \cup Into("cryptexd", {"plist"},
            {"cryptexd_read_personalization_identifiers"})

CryptexdListing ==
    Loses(Into("cryptexd", {"installed_list"}, {"cryptexd_copy_installed"}),
            "string")
    \cup Free("installed_list", {"cryptexd_free_installed"})
    \cup Free("installed_cryptex", {"cryptexd_free_installed_cryptex"})
    \cup Into("cryptexd", {"data"}, {"cryptexd_get_nonce"})

CryptexdNonces ==
    Into("cryptexd", {"data"}, {"cryptexd_cryptex_nonce"})
    \cup Into("cryptexd", {}, {"cryptexd_roll_nonce"})
    \cup ChecksFirst(Into("cryptexd", {}, {"cryptexd_uninstall"}))

CryptexdInstall ==
    ChecksFirst(Into("cryptexd", {}, {"cryptexd_install"}))
    \cup Make({"data"}, {"cryptexd_unwrap_nonce"})
    \cup Make({"cryptex1_assets"}, {"cryptex1_assets_load"})

CryptexdAssets ==
    Make({"cryptex1_assets"}, {"cryptex1_assets_from_parts"})
    \cup Ask("cryptex1_assets", {"cryptex1_assets_nonce_domain"})
    \cup Free("cryptex1_assets", {"cryptex1_assets_free"})
    \cup MayBeNull(Fns({"adapter", "rsd", "cryptex1_assets"}, {},
            {"installed_cryptex"}, {"cryptexd_install_ddi"}))

CryptexdDdi ==
    MayBeNull(Fns({"adapter", "rsd"}, {}, {"installed_cryptex"},
            {"cryptexd_installed_ddi"}))
    \cup Free("cryptexd", {"cryptexd_free"})

(* src/ffi/src/debug_proxy.rs *)
DebugProxyOpen ==
    NoError(MayBeNull(Make({"debugserver_command"},
            {"debugserver_command_new"})))
    \cup Free("debugserver_command", {"debugserver_command_free"})
    \cup ConnectRsd("debug_proxy", {"debug_proxy_connect_rsd"})

DebugProxyCommands ==
    FromStream("debug_proxy", {"debug_proxy_new"})
    \cup Free("debug_proxy", {"debug_proxy_free"})
    \cup MayBeNull(Fns({"debug_proxy", "debugserver_command"}, {}, {"string"},
            {"debug_proxy_send_command"}))
    \cup MayBeNull(Get("debug_proxy", "string", {"debug_proxy_read_response"}))

DebugProxyRaw ==
    Ask("debug_proxy", {"debug_proxy_send_raw"})
    \cup MayBeNull(Get("debug_proxy", "string",
            {"debug_proxy_read", "debug_proxy_set_argv"}))

DebugProxyAcks ==
    Ask("debug_proxy", {"debug_proxy_send_ack", "debug_proxy_send_nack"})
    \cup NoError(Ask("debug_proxy", {"debug_proxy_set_ack_mode"}))

(* src/ffi/src/dvt/application_listing.rs *)
ApplicationListingCalls ==
    OnServer("application_listing", {"application_listing_new"})
    \cup Free("application_listing", {"application_listing_free"})
    \cup Fns({"application_listing"}, {}, {"plists", "outer"},
            {"application_listing_get_apps"})

(* src/ffi/src/dvt/condition_inducer.rs *)
ConditionInducerOpen ==
    OnServer("condition_inducer", {"condition_inducer_new"})
    \cup Free("condition_inducer", {"condition_inducer_free"})
    \cup Free("condition_group", {"condition_inducer_group_free"})
    \cup Free("condition_group_list", {"condition_inducer_groups_free"})
    \cup Get("condition_inducer", "condition_group_list",
            {"condition_inducer_available_conditions"})

ConditionInducerCalls ==
    Ask("condition_inducer",
            {"condition_inducer_enable", "condition_inducer_disable"})

(* src/ffi/src/dvt/device_info.rs *)
DeviceInfoOpen ==
    OnServer("device_info", {"device_info_new"})
    \cup Free("device_info", {"device_info_free"})
    \cup Free("running_process", {"device_info_running_process_free"})
    \cup Free("running_process_list", {"device_info_running_processes_free"})
    \cup Get("device_info", "running_process_list",
            {"device_info_running_processes"})

DeviceInfoQueries ==
    Get("device_info", "string",
            {"device_info_execname_for_pid", "device_info_mach_kernel_name"})
    \cup Ask("device_info", {"device_info_is_running_pid"})
    \cup Get("device_info", "plist",
            {"device_info_hardware_information",
             "device_info_network_information"})

DeviceInfoArrays ==
    Free("string_array", {"device_info_string_array_free"})
    \cup Get("device_info", "string_array",
            {"device_info_sysmon_process_attributes",
             "device_info_sysmon_system_attributes",
             "device_info_directory_listing"})

(* src/ffi/src/dvt/energy_monitor.rs *)
EnergyMonitorOpen ==
    OnServer("energy_monitor", {"energy_monitor_new"})
    \cup Free("energy_monitor", {"energy_monitor_free"})
    \cup Ask("energy_monitor",
            {"energy_monitor_start_sampling", "energy_monitor_stop_sampling"})

EnergyMonitorSamples ==
    Get("energy_monitor", "energy_samples",
            {"energy_monitor_sample_attributes"})
    \cup Free("energy_samples", {"energy_monitor_samples_free"})

(* src/ffi/src/dvt/graphics.rs *)
GraphicsCalls ==
    Free("graphics_sample", {"graphics_sample_free"})
    \cup OnServer("graphics", {"graphics_new"})
    \cup Free("graphics", {"graphics_free"})
    \cup Ask("graphics", {"graphics_start_sampling", "graphics_stop_sampling"})
    \cup Get("graphics", "graphics_sample", {"graphics_next_sample"})

(* src/ffi/src/dvt/location_simulation.rs *)
LocationSimulationCalls ==
    OnServer("location_simulation", {"location_simulation_new"})
    \cup Free("location_simulation", {"location_simulation_free"})
    \cup Ask("location_simulation",
            {"location_simulation_clear", "location_simulation_set"})

(* src/ffi/src/dvt/network_monitor.rs *)
NetworkMonitorOpen ==
    Free("network_event", {"network_monitor_event_free"})
    \cup OnServer("network_monitor", {"network_monitor_new"})
    \cup Free("network_monitor", {"network_monitor_free"})
    \cup Ask("network_monitor",
            {"network_monitor_start", "network_monitor_stop"})

NetworkMonitorEvents ==
    Get("network_monitor", "network_event", {"network_monitor_next_event"})

(* src/ffi/src/dvt/notifications.rs *)
NotificationsCalls ==
    Free("notification_info", {"notifications_info_free"})
    \cup OnServer("notifications", {"notifications_new"})
    \cup Free("notifications", {"notifications_free"})
    \cup Ask("notifications", {"notifications_start", "notifications_stop"})
    \cup Get("notifications", "notification_info", {"notifications_get_next"})

(* src/ffi/src/dvt/process_control.rs *)
ProcessControlOpen ==
    OnServer("process_control", {"process_control_new"})
    \cup Free("process_control", {"process_control_free"})
    \cup Ask("process_control", {"process_control_launch_app"})

ProcessControlCalls ==
    Ask("process_control",
            {"process_control_kill_app",
             "process_control_disable_memory_limit"})

(* src/ffi/src/dvt/remote_server.rs *)
RemoteServerCalls ==
    Keeps(FromStream("server", {"remote_server_new"}))
    \cup ConnectRsd("server", {"remote_server_connect_rsd"})
    \cup Free("server", {"remote_server_free"})

(* src/ffi/src/dvt/screenshot.rs *)
ScreenshotCalls ==
    OnServer("screenshot", {"screenshot_client_new"})
    \cup Free("screenshot", {"screenshot_client_free"})
    \cup Get("screenshot", "data", {"screenshot_client_take_screenshot"})

(* src/ffi/src/dvt/sysmontap.rs *)
SysmontapOpen ==
    OnServer("sysmontap", {"sysmontap_new"})
    \cup Free("sysmontap", {"sysmontap_free"})
    \cup Ask("sysmontap", {"sysmontap_set_config", "sysmontap_start"})

SysmontapSamples ==
    Ask("sysmontap", {"sysmontap_stop"})
    \cup MayBeNull(Get("sysmontap", "plist", {"sysmontap_next_sample"}))

(* src/ffi/src/restore.rs *)
RestoredOpen ==
    FromSocket("restored", {"idevice_restored_connect"})
    \cup Get("usbmuxd_addr", "restored", {"idevice_restored_connect_by_ecid"})
    \cup Ask("restored", {"idevice_restored_get_ecid"})
    \cup Ask("restored", {"idevice_restored_get_device_id"})
    \cup Free("restored", {"idevice_restored_free"})

RestoredPort ==
    Get("usbmuxd_addr", "idevice", {"idevice_restore_connect_usb_port"})

RestoreCancelling ==
    Make({"restore_cancel"}, {"idevice_restore_cancel_handle_new"})
    \cup NoError(Ask("restore_cancel", {"idevice_restore_cancel"}))
    \cup Free("restore_cancel", {"idevice_restore_cancel_handle_free"})
    \cup Make({"plist"}, {"idevice_restore_options_new"})

RestoreRun ==
    Fns({"restored", "restore_cancel"}, {}, {}, {"idevice_restore_run"})
    \cup Make({"ipsw"}, {"idevice_ipsw_open"})

IpswReading ==
    Get("ipsw", "plist", {"idevice_ipsw_build_manifest"})
    \cup Get("ipsw", "data",
            {"idevice_ipsw_read_component", "idevice_ipsw_read_file"})
    \cup Ask("ipsw", {"idevice_ipsw_extract_to_file"})
    \cup Free("ipsw", {"idevice_ipsw_free"})

RestorePlanning ==
    Make({"plist"}, {"idevice_restore_select_build_identity"})
    \cup Make({"string"}, {"idevice_restore_component_path"})
    \cup Make({"data"}, {"idevice_restore_fetch_ap_ticket"})

RestoreStitching ==
    Make({"data"},
            {"idevice_img4_stitch_component",
             "idevice_restore_build_preboard_manifest"})
    \cup NoError(Fns({}, {}, {}, {"idevice_img4_restore_fourcc_override"}))
    \cup Make({"string"}, {"idevice_restore_boot_component_names"})

RecoveryOpen ==
    Make({"recovery_device"}, {"idevice_recovery_device_new"})
    \cup Ask("recovery_device",
            {"idevice_recovery_send_command", "idevice_recovery_send_buffer",
             "idevice_recovery_setenv", "idevice_recovery_set_autoboot"})
    \cup Get("recovery_device", "data", {"idevice_recovery_getenv"})

RecoveryCalls ==
    Ask("recovery_device",
            {"idevice_recovery_finish_transfer", "idevice_recovery_reboot"})
    \cup Ask("recovery_device",
            {"idevice_recovery_get_mode", "idevice_recovery_get_info"})
    \cup NoError(MayBeNull(Get("recovery_device", "data",
            {"idevice_recovery_get_ap_nonce"})))
    \cup Free("recovery_device", {"idevice_recovery_device_free"})

FdrStart ==
    Fns({}, {}, {}, {"idevice_restore_fdr_start"})

(* src/ffi/src/restore_service.rs *)
RestoreServiceOpen ==
    FromStream("restore_service", {"restore_service_new"})
    \cup ConnectRsd("restore_service", {"restore_service_connect_rsd"})
    \cup Ask("restore_service",
            {"restore_service_enter_recovery", "restore_service_reboot"})

RestoreServiceQueries ==
    Get("restore_service", "plist",
            {"restore_service_get_preflightinfo", "restore_service_get_nonces",
             "restore_service_get_app_parameters"})
    \cup Ask("restore_service", {"restore_service_restore_lang"})

RestoreServiceRelease ==
    Free("restore_service", {"restore_service_client_free"})

(* src/ffi/src/wda.rs *)
WdaOpen ==
    Into("provider", {"wda"}, {"wda_client_new"})
    \cup Free("wda", {"wda_client_free"})
    \cup Ask("wda",
            {"wda_client_set_ports", "wda_client_set_timeout_ms",
             "wda_client_get_ports"})
    \cup MayBeNull(Get("wda", "string", {"wda_client_session_id"}))

WdaSession ==
    Get("wda", "string",
            {"wda_client_status", "wda_client_wait_until_ready",
             "wda_client_start_session", "wda_client_find_element"})
    \cup Ask("wda", {"wda_client_delete_session"})

WdaFinding ==
    Get("wda", "wda_array", {"wda_client_find_elements"})
    \cup Free("wda_array", {"wda_client_string_array_free"})
    \cup Get("wda", "string", {"wda_client_element_attribute"})

WdaElements ==
    Get("wda", "string",
            {"wda_client_element_text", "wda_client_element_rect"})
    \cup Ask("wda",
            {"wda_client_element_displayed", "wda_client_element_enabled"})

WdaKeys ==
    Ask("wda",
            {"wda_client_element_selected", "wda_client_click",
             "wda_client_send_keys", "wda_client_press_button",
             "wda_client_unlock"})

WdaGestures ==
    Ask("wda", {"wda_client_swipe", "wda_client_tap", "wda_client_double_tap"})

WdaHolding ==
    Ask("wda", {"wda_client_touch_and_hold", "wda_client_scroll"})
    \cup Get("wda", "string", {"wda_client_source"})

WdaScreen ==
    Get("wda", "data", {"wda_client_screenshot"})
    \cup Get("wda", "string",
            {"wda_client_window_size", "wda_client_viewport_rect",
             "wda_client_orientation"})

WdaApps ==
    Get("wda", "string", {"wda_client_launch_app", "wda_client_activate_app"})
    \cup Ask("wda", {"wda_client_terminate_app"})

WdaStates ==
    Ask("wda", {"wda_client_query_app_state", "wda_client_is_locked"})
    \cup Get("wda", "string", {"wda_client_background_app"})

(* src/ffi/src/wda_bridge.rs *)
WdaBridgeCalls ==
    Into("provider", {"wda_bridge"},
            {"wda_bridge_start", "wda_bridge_start_with_ports"})
    \cup Get("wda_bridge", "wda_bridge_endpoints", {"wda_bridge_endpoints"})
    \cup Free("wda_bridge_endpoints", {"wda_bridge_endpoints_free"})
    \cup Free("wda_bridge", {"wda_bridge_free"})

(* The calls of each source file, by the name of the file. *)
ToolsCalls == [
    core_device_app_service |->
        AppServiceOpen \cup AppServiceApps \cup AppServiceLaunch
        \cup AppServiceProcesses \cup AppServiceSignals,
    core_device_configuration_service |->
        ConfigurationOpen \cup ConfigurationColor \cup ConfigurationText
        \cup ConfigurationDisplay \cup ConfigurationRelease,
    core_device_diagnosticsservice |->
        DiagnosticsServiceOpen \cup DiagnosticsServiceStream,
    core_device_file_service |->
        FileServiceOpen \cup FileServiceListing \cup FileServiceRetrieval
        \cup FileServiceRest,
    core_device_icon_service |-> IconServiceCalls \cup IconServiceRelease,
    cryptexd |->
        CryptexdOpen \cup CryptexdListing \cup CryptexdNonces
        \cup CryptexdInstall \cup CryptexdAssets \cup CryptexdDdi,
    debug_proxy |->
        DebugProxyOpen \cup DebugProxyCommands \cup DebugProxyRaw
        \cup DebugProxyAcks,
    dvt_application_listing |-> ApplicationListingCalls,
    dvt_condition_inducer |-> ConditionInducerOpen \cup ConditionInducerCalls,
    dvt_device_info |->
        DeviceInfoOpen \cup DeviceInfoQueries \cup DeviceInfoArrays,
    dvt_energy_monitor |-> EnergyMonitorOpen \cup EnergyMonitorSamples,
    dvt_graphics |-> GraphicsCalls,
    dvt_location_simulation |-> LocationSimulationCalls,
    dvt_network_monitor |-> NetworkMonitorOpen \cup NetworkMonitorEvents,
    dvt_notifications |-> NotificationsCalls,
    dvt_process_control |-> ProcessControlOpen \cup ProcessControlCalls,
    dvt_remote_server |-> RemoteServerCalls,
    dvt_screenshot |-> ScreenshotCalls,
    dvt_sysmontap |-> SysmontapOpen \cup SysmontapSamples,
    restore |->
        RestoredOpen \cup RestoredPort \cup RestoreCancelling \cup RestoreRun
        \cup IpswReading \cup RestorePlanning \cup RestoreStitching
        \cup RecoveryOpen \cup RecoveryCalls \cup FdrStart,
    restore_service |->
        RestoreServiceOpen \cup RestoreServiceQueries
        \cup RestoreServiceRelease,
    wda |->
        WdaOpen \cup WdaSession \cup WdaFinding \cup WdaElements \cup WdaKeys
        \cup WdaGestures \cup WdaHolding \cup WdaScreen \cup WdaApps
        \cup WdaStates,
    wda_bridge |-> WdaBridgeCalls]
=============================================================================
