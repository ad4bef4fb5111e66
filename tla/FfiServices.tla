-------------------------- MODULE FfiServices --------------------------
(***************************************************************************)
(* The calls of the C interface for the services lockdown starts.  One     *)
(* definition for every run of consecutive functions of a source file.     *)
(***************************************************************************)
EXTENDS FfiSignatures

(* src/ffi/src/afc.rs *)
AfcOpen ==
    Connect("afc", {"afc_client_connect", "afc2_client_connect"})
    \cup ConnectRsd("afc", {"afc_client_connect_rsd"})
    \cup FromSocket("afc", {"afc_client_new"})

AfcDirectories ==
    Free("afc", {"afc_client_free"})
    \cup Get("afc", "afc_entries", {"afc_list_directory"})
    \cup Ask("afc", {"afc_make_directory"})

AfcInfo ==
    Get("afc", "afc_file_info", {"afc_get_file_info"})
    \cup Free("afc_file_info", {"afc_file_info_free"})
    \cup Get("afc", "afc_device_info", {"afc_get_device_info"})
    \cup Free("afc_device_info", {"afc_device_info_free"})

AfcRemoval ==
    Ask("afc", {"afc_remove_path", "afc_remove_path_and_contents"})

AfcFileOpening ==
    Tied(Get("afc", "afc_file", {"afc_file_open"}), "afc")
    \cup Into("afc_file", {}, {"afc_file_close"})
    \cup Get("afc_file", "data", {"afc_file_read"})

AfcFileReading ==
    Get("afc_file", "data", {"afc_file_read_entire"})
    \cup Ask("afc_file", {"afc_file_seek", "afc_file_tell"})

AfcFileWriting ==
    Ask("afc_file", {"afc_file_write"})
    \cup Ask("afc", {"afc_make_link", "afc_rename_path"})

AfcDataRelease ==
    Free("data", {"afc_file_read_data_free"})

(* src/ffi/src/amfi.rs *)
AmfiOpen ==
    Connect("amfi", {"amfi_connect"})
    \cup ConnectRsd("amfi", {"amfi_connect_rsd"})
    \cup FromSocket("amfi", {"amfi_new"})
    \cup Ask("amfi", {"amfi_reveal_developer_mode_option_in_ui"})

AmfiCalls ==
    Ask("amfi", {"amfi_enable_developer_mode", "amfi_accept_developer_mode"})
    \cup Free("amfi", {"amfi_client_free"})

(* src/ffi/src/bt_packet_logger.rs *)
BtPacketLoggerOpen ==
    Connect("bt_packet_logger", {"bt_packet_logger_connect"})
    \cup ConnectRsd("bt_packet_logger", {"bt_packet_logger_connect_rsd"})
    \cup FromSocket("bt_packet_logger", {"bt_packet_logger_new"})

BtPacketLoggerPackets ==
    MayBeNull(Get("bt_packet_logger", "bt_packet",
            {"bt_packet_logger_next_packet"}))
    \cup Free("bt_packet", {"bt_packet_free"})
    \cup Free("bt_packet_logger", {"bt_packet_logger_client_free"})

(* src/ffi/src/companion_proxy.rs *)
CompanionProxyOpen ==
    Connect("companion_proxy", {"companion_proxy_connect"})
    \cup ConnectRsd("companion_proxy", {"companion_proxy_connect_rsd"})
    \cup FromSocket("companion_proxy", {"companion_proxy_new"})

CompanionProxyCalls ==
    Fns({"companion_proxy"}, {}, {"string", "outer"},
            {"companion_proxy_get_device_registry"})
    \cup Ask("companion_proxy",
            {"companion_proxy_start_forwarding_service_port",
             "companion_proxy_stop_forwarding_service_port"})
    \cup Free("companion_proxy", {"companion_proxy_client_free"})

(* src/ffi/src/crashreportcopymobile.rs *)
CrashReportOpen ==
    Connect("crash_report_copy_mobile", {"crash_report_client_connect"})
    \cup ConnectRsd("crash_report_copy_mobile",
            {"crash_report_client_connect_rsd"})
    \cup FromSocket("crash_report_copy_mobile", {"crash_report_client_new"})

CrashReportReading ==
    Get("crash_report_copy_mobile", "afc_entries", {"crash_report_client_ls"})
    \cup Get("crash_report_copy_mobile", "data", {"crash_report_client_pull"})

CrashReportRest ==
    Ask("crash_report_copy_mobile", {"crash_report_client_remove"})
    \cup Into("crash_report_copy_mobile", {"afc"},
            {"crash_report_client_to_afc"})
    \cup Ask("provider", {"crash_report_flush"})
    \cup Free("crash_report_copy_mobile", {"crash_report_client_free"})

(* src/ffi/src/diagnostics_relay.rs *)
DiagnosticsRelayOpen ==
    Connect("diagnostics_relay", {"diagnostics_relay_client_connect"})
    \cup ConnectRsd("diagnostics_relay",
            {"diagnostics_relay_client_connect_rsd"})
    \cup FromSocket("diagnostics_relay", {"diagnostics_relay_client_new"})

DiagnosticsRelayRegistry ==
    Get("diagnostics_relay", "plist",
            {"diagnostics_relay_client_ioregistry",
             "diagnostics_relay_client_mobilegestalt"})

DiagnosticsRelayGauges ==
    Get("diagnostics_relay", "plist",
            {"diagnostics_relay_client_gasguage",
             "diagnostics_relay_client_nand", "diagnostics_relay_client_all"})

DiagnosticsRelayPower ==
    Ask("diagnostics_relay",
            {"diagnostics_relay_client_restart",
             "diagnostics_relay_client_shutdown",
             "diagnostics_relay_client_sleep"})
    \cup Get("diagnostics_relay", "plist", {"diagnostics_relay_client_wifi"})

DiagnosticsRelayRelease ==
    Ask("diagnostics_relay", {"diagnostics_relay_client_goodbye"})
    \cup Free("diagnostics_relay", {"diagnostics_relay_client_free"})

(* src/ffi/src/house_arrest.rs *)
HouseArrestOpen ==
    Connect("house_arrest", {"house_arrest_client_connect"})
    \cup ConnectRsd("house_arrest", {"house_arrest_client_connect_rsd"})
    \cup FromSocket("house_arrest", {"house_arrest_client_new"})
    \cup Into("house_arrest", {"afc"}, {"house_arrest_vend_container"})

HouseArrestRest ==
    Into("house_arrest", {"afc"}, {"house_arrest_vend_documents"})
    \cup Free("house_arrest", {"house_arrest_client_free"})

(* src/ffi/src/installation_proxy.rs *)
InstallationProxyOpen ==
    Connect("installation_proxy", {"installation_proxy_connect"})
    \cup ConnectRsd("installation_proxy", {"installation_proxy_connect_rsd"})
    \cup FromSocket("installation_proxy", {"installation_proxy_new"})

InstallationProxyApps ==
    Fns({"installation_proxy"}, {}, {"plists", "outer"},
            {"installation_proxy_get_apps"})
    \cup Free("installation_proxy", {"installation_proxy_client_free"})
    \cup Ask("installation_proxy", {"installation_proxy_install"})

InstallationProxyInstall ==
    Ask("installation_proxy",
            {"installation_proxy_install_with_callback",
             "installation_proxy_upgrade"})

InstallationProxyUpgrade ==
    Ask("installation_proxy",
            {"installation_proxy_upgrade_with_callback",
             "installation_proxy_uninstall"})

InstallationProxyUninstall ==
    Ask("installation_proxy",
            {"installation_proxy_uninstall_with_callback",
             "installation_proxy_check_capabilities_match"})

InstallationProxyBrowse ==
    Fns({"installation_proxy"}, {}, {"plists", "outer"},
            {"installation_proxy_browse"})

(* src/ffi/src/installcoordination_proxy.rs *)
InstallCoordinationOpen ==
    FromStream("installcoordination_proxy", {"installcoordination_proxy_new"})
    \cup ConnectRsd("installcoordination_proxy",
            {"installcoordination_proxy_connect_rsd"})
    \cup Ask("installcoordination_proxy",
            {"installcoordination_proxy_uninstall_app"})

InstallCoordinationCalls ==
    Get("installcoordination_proxy", "string",
            {"installcoordination_proxy_query_app_path"})
    \cup Free("installcoordination_proxy",
            {"installcoordination_proxy_client_free"})

(* src/ffi/src/location_simulation.rs *)
LockdownLocationCalls ==
    Connect("location_simulation_service",
            {"lockdown_location_simulation_connect"})
    \cup FromSocket("location_simulation_service",
            {"lockdown_location_simulation_new"})
    \cup Ask("location_simulation_service",
            {"lockdown_location_simulation_set",
             "lockdown_location_simulation_clear"})
    \cup Free("location_simulation_service",
            {"lockdown_location_simulation_free"})

(* src/ffi/src/misagent.rs *)
MisagentOpen ==
    Connect("misagent", {"misagent_connect"})
    \cup ConnectRsd("misagent", {"misagent_connect_rsd"})
    \cup Ask("misagent", {"misagent_install", "misagent_remove"})

MisagentProfiles ==
    Get("misagent", "profiles", {"misagent_copy_all"})
    \cup Free("profiles", {"misagent_free_profiles"})
    \cup Free("misagent", {"misagent_client_free"})

(* src/ffi/src/mobile_image_mounter.rs *)
ImageMounterOpen ==
    Connect("image_mounter", {"image_mounter_connect"})
    \cup ConnectRsd("image_mounter", {"image_mounter_connect_rsd"})
    \cup FromSocket("image_mounter", {"image_mounter_new"})
    \cup Free("image_mounter", {"image_mounter_free"})

ImageMounterImages ==
    Fns({"image_mounter"}, {}, {"plists", "outer"},
            {"image_mounter_copy_devices"})
    \cup Get("image_mounter", "data", {"image_mounter_lookup_image"})
    \cup Ask("image_mounter", {"image_mounter_upload_image"})

ImageMounterMounting ==
    Ask("image_mounter",
            {"image_mounter_mount_image", "image_mounter_unmount_image",
             "image_mounter_query_developer_mode_status"})

ImageMounterDeveloper ==
    Ask("image_mounter", {"image_mounter_mount_developer"})
    \cup Get("image_mounter", "data",
            {"image_mounter_query_personalization_manifest"})

ImageMounterNonces ==
    Get("image_mounter", "data", {"image_mounter_query_nonce"})
    \cup Get("image_mounter", "plist",
            {"image_mounter_query_personalization_identifiers"})
    \cup Ask("image_mounter", {"image_mounter_roll_personalization_nonce"})

ImageMounterPersonalized ==
    Ask("image_mounter", {"image_mounter_roll_cryptex_nonce"})
    \cup Fns({"image_mounter", "provider"}, {}, {},
            {"image_mounter_mount_personalized"})

ImageMounterPersonalizedRsd ==
    Fns({"image_mounter", "adapter", "rsd"}, {}, {},
            {"image_mounter_mount_personalized_rsd"})

ImageMounterCallbackRsd ==
    Fns({"image_mounter", "adapter", "rsd"}, {}, {},
            {"image_mounter_mount_personalized_with_callback_rsd"})

ImageMounterCallback ==
    Fns({"image_mounter", "provider"}, {}, {},
            {"image_mounter_mount_personalized_with_callback"})

(* src/ffi/src/mobileactivationd.rs *)
MobileactivationdCalls ==
    Tied(Get("provider", "mobile_activationd",
            {"mobileactivationd_connect"}), "provider")
    \cup Get("mobile_activationd", "string", {"mobileactivationd_get_state"})
    \cup Ask("mobile_activationd",
            {"mobileactivationd_is_activated", "mobileactivationd_deactivate"})
    \cup Free("mobile_activationd", {"mobileactivationd_client_free"})

(* src/ffi/src/mobilebackup2.rs *)
Mobilebackup2Open ==
    Connect("mobile_backup2", {"mobilebackup2_connect"})
    \cup ConnectRsd("mobile_backup2", {"mobilebackup2_connect_rsd"})
    \cup FromSocket("mobile_backup2", {"mobilebackup2_new"})
    \cup Free("mobile_backup2", {"mobilebackup2_client_free"})

Mobilebackup2Backup ==
    MayBeNull(Get("mobile_backup2", "plist", {"mobilebackup2_backup"}))

Mobilebackup2Restore ==
    MayBeNull(Get("mobile_backup2", "plist", {"mobilebackup2_restore"}))

Mobilebackup2Rest ==
    Ask("mobile_backup2",
            {"mobilebackup2_change_password", "mobilebackup2_disconnect"})

(* src/ffi/src/notification_proxy.rs *)
NotificationProxyOpen ==
    Connect("notification_proxy", {"notification_proxy_connect"})
    \cup ConnectRsd("notification_proxy", {"notification_proxy_connect_rsd"})
    \cup FromSocket("notification_proxy", {"notification_proxy_new"})
    \cup Ask("notification_proxy", {"notification_proxy_post"})

NotificationProxyObserving ==
    Ask("notification_proxy",
            {"notification_proxy_observe",
             "notification_proxy_observe_multiple"})
    \cup Get("notification_proxy", "string", {"notification_proxy_receive"})

NotificationProxyReceiving ==
    Get("notification_proxy", "string",
            {"notification_proxy_receive_with_timeout"})
    \cup Free("string", {"notification_proxy_free_string"})
    \cup Free("notification_proxy", {"notification_proxy_client_free"})
    \cup ConnectRsd("remote_notification_proxy",
            {"remote_notification_proxy_connect_rsd"})

RemoteNotificationProxyOpen ==
    FromStream("remote_notification_proxy", {"remote_notification_proxy_new"})
    \cup Ask("remote_notification_proxy",
            {"remote_notification_proxy_post",
             "remote_notification_proxy_observe",
             "remote_notification_proxy_observe_multiple"})

RemoteNotificationProxyRest ==
    Get("remote_notification_proxy", "string",
            {"remote_notification_proxy_receive"})
    \cup Free("remote_notification_proxy", {"remote_notification_proxy_free"})

(* src/ffi/src/os_trace_relay.rs *)
OsTraceOpen ==
    Connect("os_trace_relay", {"os_trace_relay_connect"})
    \cup ConnectRsd("os_trace_relay", {"os_trace_relay_connect_rsd"})
    \cup Free("os_trace_relay", {"os_trace_relay_free"})
    \cup Into("os_trace_relay", {"os_trace_relay_receiver"},
            {"os_trace_relay_start_trace"})

OsTraceLogs ==
    Free("os_trace_relay_receiver", {"os_trace_relay_receiver_free"})
    \cup Get("os_trace_relay", "pid_list", {"os_trace_relay_get_pid_list"})
    \cup Get("os_trace_relay_receiver", "os_trace_log",
            {"os_trace_relay_next"})
    \cup Free("os_trace_log", {"os_trace_relay_free_log"})

(* src/ffi/src/pcapd.rs *)
PcapdOpen ==
    Connect("pcapd", {"pcapd_connect"})
    \cup ConnectRsd("pcapd", {"pcapd_connect_rsd"})
    \cup FromSocket("pcapd", {"pcapd_new"})

PcapdPackets ==
    Get("pcapd", "device_packet", {"pcapd_next_packet"})
    \cup Free("device_packet", {"pcapd_device_packet_free"})
    \cup Free("pcapd", {"pcapd_client_free"})

(* src/ffi/src/preboard_service.rs *)
PreboardOpen ==
    Connect("preboard_service", {"preboard_service_connect"})
    \cup ConnectRsd("preboard_service", {"preboard_service_connect_rsd"})
    \cup FromSocket("preboard_service", {"preboard_service_new"})

PreboardCalls ==
    Ask("preboard_service",
            {"preboard_service_create_stashbag",
             "preboard_service_commit_stashbag"})
    \cup Free("preboard_service", {"preboard_service_client_free"})

(* src/ffi/src/screenshotr.rs *)
ScreenshotrCalls ==
    Connect("screenshotr", {"screenshotr_connect"})
    \cup ConnectRsd("screenshotr", {"screenshotr_connect_rsd"})
    \cup Get("screenshotr", "screenshot_data", {"screenshotr_take_screenshot"})
    \cup Free("screenshot_data", {"screenshotr_screenshot_free"})

ScreenshotrRelease ==
    Free("screenshotr", {"screenshotr_client_free"})

(* src/ffi/src/springboardservices.rs *)
SpringboardOpen ==
    Connect("spring_board_services", {"springboard_services_connect"})
    \cup ConnectRsd("spring_board_services",
            {"springboard_services_connect_rsd"})
    \cup FromSocket("spring_board_services", {"springboard_services_new"})

SpringboardPictures ==
    Get("spring_board_services", "data",
            {"springboard_services_get_icon",
             "springboard_services_get_home_screen_wallpaper_preview",
             "springboard_services_get_lock_screen_wallpaper_preview"})

SpringboardRest ==
    Ask("spring_board_services",
            {"springboard_services_get_interface_orientation"})
    \cup Get("spring_board_services", "plist",
            {"springboard_services_get_homescreen_icon_metrics"})
    \cup Free("spring_board_services", {"springboard_services_free"})

(* src/ffi/src/syslog_relay.rs *)
SyslogCalls ==
    Connect("syslog_relay", {"syslog_relay_connect_tcp"})
    \cup ConnectRsd("syslog_relay", {"syslog_relay_connect_rsd"})
    \cup Free("syslog_relay", {"syslog_relay_client_free"})
    \cup Get("syslog_relay", "string", {"syslog_relay_next"})

(* The calls of each source file, by the name of the file. *)
ServicesCalls == [
    afc |->
        AfcOpen \cup AfcDirectories \cup AfcInfo \cup AfcRemoval
        \cup AfcFileOpening \cup AfcFileReading \cup AfcFileWriting
        \cup AfcDataRelease,
    amfi |-> AmfiOpen \cup AmfiCalls,
    bt_packet_logger |-> BtPacketLoggerOpen \cup BtPacketLoggerPackets,
    companion_proxy |-> CompanionProxyOpen \cup CompanionProxyCalls,
    crashreportcopymobile |->
        CrashReportOpen \cup CrashReportReading \cup CrashReportRest,
    diagnostics_relay |->
        DiagnosticsRelayOpen \cup DiagnosticsRelayRegistry
        \cup DiagnosticsRelayGauges \cup DiagnosticsRelayPower
        \cup DiagnosticsRelayRelease,
    house_arrest |-> HouseArrestOpen \cup HouseArrestRest,
    installation_proxy |->
        InstallationProxyOpen \cup InstallationProxyApps
        \cup InstallationProxyInstall \cup InstallationProxyUpgrade
        \cup InstallationProxyUninstall \cup InstallationProxyBrowse,
    installcoordination_proxy |->
        InstallCoordinationOpen \cup InstallCoordinationCalls,
    location_simulation |-> LockdownLocationCalls,
    misagent |-> MisagentOpen \cup MisagentProfiles,
    mobile_image_mounter |->
        ImageMounterOpen \cup ImageMounterImages \cup ImageMounterMounting
        \cup ImageMounterDeveloper \cup ImageMounterNonces
        \cup ImageMounterPersonalized \cup ImageMounterPersonalizedRsd
        \cup ImageMounterCallbackRsd \cup ImageMounterCallback,
    mobileactivationd |-> MobileactivationdCalls,
    mobilebackup2 |->
        Mobilebackup2Open \cup Mobilebackup2Backup \cup Mobilebackup2Restore
        \cup Mobilebackup2Rest,
    notification_proxy |->
        NotificationProxyOpen \cup NotificationProxyObserving
        \cup NotificationProxyReceiving \cup RemoteNotificationProxyOpen
        \cup RemoteNotificationProxyRest,
    os_trace_relay |-> OsTraceOpen \cup OsTraceLogs,
    pcapd |-> PcapdOpen \cup PcapdPackets,
    preboard_service |-> PreboardOpen \cup PreboardCalls,
    screenshotr |-> ScreenshotrCalls \cup ScreenshotrRelease,
    springboardservices |->
        SpringboardOpen \cup SpringboardPictures \cup SpringboardRest,
    syslog_relay |-> SyslogCalls]
=============================================================================
