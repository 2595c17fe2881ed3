------------------------------- MODULE Routes -------------------------------
(***************************************************************************)
(* The routes of app/routers/se_hub.py and app/routers/se_server.py, one   *)
(* definition each, named as the function that serves it: the RPC it calls,*)
(* the fields it fills in itself, whether the client's body supplies the   *)
(* others, whether it follows the call up in the panel's own storage, what *)
(* it then writes to the audit trail, and the RPCs it reads the new state  *)
(* back with.                                                              *)
(***************************************************************************)
EXTENDS WireApi

Route(m, puts, body, action) ==
    [call |-> m, puts |-> puts, body |-> body, follows |-> FALSE,
     action |-> action, reads |-> {}]

\* Only shows something; changes something and says so; the same with the
\* client's body merged under the fields of the URL. A route may write what
\* came of the change to the panel's storage, or read the new state back.
Show(m, puts)                     == Route(m, puts, FALSE, "")
Change(m, puts, action)           == Route(m, puts, FALSE, action)
Forward(m, puts, action)          == Route(m, puts, TRUE, action)
FollowedUp(route)                 == [route EXCEPT !.follows = TRUE]
ReadBack(route, reads)            == [route EXCEPT !.reads = reads]

\* What the server takes and the client's method has no argument for: the
\* route hands its fields to the server as they are.
Unoffered == {"Offset_u32"}

(******************************** se_hub.py ********************************)

to_enum_hubs == Show(enum_hub, {})
to_create_hub == Forward(create_hub, {}, "hub.created")
to_get_hub == Show(get_hub, {"HubName_str"})
to_set_hub == Forward(set_hub, {"HubName_str"}, "hub.updated")
to_delete_hub ==
    FollowedUp(Change(delete_hub, {"HubName_str"}, "hub.deleted"))
to_set_hub_online ==
    ReadBack(Change(set_hub_online, {"HubName_str", "Online_bool"},
      "hub.online_toggled"), {get_hub_status})
to_hub_status == Show(get_hub_status, {"HubName_str"})
to_get_hub_log == Show(get_hub_log, {"HubName_str"})
to_set_hub_log ==
    Forward(set_hub_log, {"HubName_str"}, "hub.log_settings_updated")
to_get_radius == Show(get_hub_radius, {"HubName_str"})
to_set_radius == Forward(set_hub_radius, {"HubName_str"}, "hub.radius_updated")
to_get_hub_msg == Show(get_hub_msg, {"HubName_str"})
to_set_hub_msg ==
    Change(set_hub_msg, {"HubName_str", "Msg_bin"}, "hub.message_updated")
to_get_admin_options == Show(get_hub_admin_options, {"HubName_str"})
to_set_admin_options ==
    Forward(set_hub_admin_options, {"HubName_str"},
      "hub.admin_options_updated")
to_get_ext_options == Show(get_hub_ext_options, {"HubName_str"})
to_set_ext_options ==
    Forward(set_hub_ext_options, {"HubName_str"}, "hub.ext_options_updated")
to_enum_users == Show(enum_user, {"HubName_str"})
to_create_user ==
    FollowedUp(Forward(create_user, {"HubName_str"}, "user.created"))
to_get_user == Show(get_user, {"HubName_str", "Name_str"})
to_set_user ==
    FollowedUp(Forward(set_user, {"HubName_str", "Name_str"}, "user.updated"))
to_delete_user ==
    FollowedUp(Change(delete_user, {"HubName_str", "Name_str"}, "user.deleted"))
to_online_usernames == Show(enum_session, {"HubName_str"})
to_user_sessions == Show(enum_session, {"HubName_str"})
to_enum_groups == Show(enum_group, {"HubName_str"})
to_create_group == Forward(create_group, {"HubName_str"}, "group.created")
to_get_group == Show(get_group, {"HubName_str", "Name_str"})
to_set_group ==
    Forward(set_group, {"HubName_str", "Name_str"}, "group.updated")
to_delete_group ==
    Change(delete_group, {"HubName_str", "Name_str"}, "group.deleted")
to_enum_sessions == Show(enum_session, {"HubName_str"})
to_session_status == Show(get_session_status, {"HubName_str", "Name_str"})
to_delete_session ==
    Change(delete_session, {"HubName_str", "Name_str"}, "session.disconnected")
to_enum_access == Show(enum_access, {"HubName_str"})
to_add_access ==
    Change(add_access, {"HubName_str", "AccessListSingle"},
      "access.rule_added")
to_set_access_list ==
    Change(set_access_list, {"HubName_str", "AccessList"},
      "access.list_replaced")
to_delete_access ==
    Change(delete_access, {"HubName_str", "Id_u32"}, "access.rule_deleted")
to_get_ac_list == Show(get_ac_list, {"HubName_str"})
to_set_ac_list ==
    Change(set_ac_list, {"HubName_str", "ACList"}, "ac_list.replaced")
to_enum_ca == Show(enum_ca, {"HubName_str"})
to_add_ca == Change(add_ca, {"HubName_str", "Cert_bin"}, "ca.added")
to_get_ca == Show(get_ca, {"HubName_str", "Key_u32"})
to_delete_ca == Change(delete_ca, {"HubName_str", "Key_u32"}, "ca.deleted")
to_enum_crl == Show(enum_crl, {"HubName_str"})
to_add_crl == Forward(add_crl, {"HubName_str"}, "crl.added")
to_get_crl == Show(get_crl, {"HubName_str", "Key_u32"})
to_set_crl == Forward(set_crl, {"HubName_str", "Key_u32"}, "crl.updated")
to_del_crl == Change(del_crl, {"HubName_str", "Key_u32"}, "crl.deleted")
to_enable_securenat ==
    ReadBack(Change(enable_securenat, {"HubName_str"}, "securenat.enabled"),
      {get_hub_status, get_securenat_status, get_securenat_option})
to_disable_securenat ==
    ReadBack(Change(disable_securenat, {"HubName_str"}, "securenat.disabled"),
      {get_hub_status, get_securenat_status, get_securenat_option})
to_set_securenat_options ==
    Forward(set_securenat_option, {"RpcHubName_str"},
      "securenat.options_updated")
to_enum_nat == Show(enum_nat, {"HubName_str"})
to_enum_dhcp == Show(enum_dhcp, {"HubName_str"})
to_enum_links == Show(enum_link, {"HubName_str"})
to_create_link == Forward(create_link, {"HubName_Ex_str"}, "link.created")
to_get_link == Show(get_link, {"HubName_Ex_str", "AccountName_utf"})
to_set_link ==
    Forward(set_link, {"HubName_Ex_str", "AccountName_utf"}, "link.updated")
to_delete_link ==
    Change(delete_link, {"HubName_str", "AccountName_utf"}, "link.deleted")
to_link_status == Show(get_link_status, {"HubName_Ex_str", "AccountName_utf"})
to_rename_link ==
    Change(rename_link, {"HubName_str", "OldAccountName_utf",
      "NewAccountName_utf"}, "link.renamed")
to_enum_mac_table == Show(enum_mac_table, {"HubName_str"})
to_delete_mac_entry ==
    Change(delete_mac_table, {"HubName_str", "Key_u32"},
      "mac_table.entry_deleted")
to_enum_ip_table == Show(enum_ip_table, {"HubName_str"})
to_delete_ip_entry ==
    Change(delete_ip_table, {"HubName_str", "Key_u32"},
      "ip_table.entry_deleted")
(******************************* se_server.py ******************************)

to_server_info == Show(get_server_info, {})
to_server_status == Show(get_server_status, {})
to_server_caps == Show(get_caps, {})
to_admin_msg == Show(get_admin_msg, {})
to_enum_listeners == Show(enum_listener, {})
to_create_listener ==
    Change(create_listener, {"Port_u32", "Enable_bool"}, "listener.created")
to_enable_listener ==
    ReadBack(Change(enable_listener, {"Port_u32", "Enable_bool"},
      "listener.toggled"), {enum_listener})
to_delete_listener == Change(delete_listener, {"Port_u32"}, "listener.deleted")
to_get_special_listener == Show(get_special_listener, {})
to_set_special_listener ==
    ReadBack(Forward(set_special_listener, {}, "special_listener.updated"),
      {get_special_listener})
to_get_ipsec == Show(get_ipsec_services, {})
to_set_ipsec == Forward(set_ipsec_services, {}, "ipsec.updated")
to_get_openvpn == Show(get_openvpn_sstp_config, {})
to_set_openvpn == Forward(set_openvpn_sstp_config, {}, "openvpn.updated")
to_make_openvpn_config == Show(make_openvpn_config_file, {})
to_get_azure == Show(get_azure_status, {})
to_set_azure ==
    ReadBack(Forward(set_azure_status, {}, "azure.toggled"),
      {get_azure_status})
to_get_ddns == Show(get_ddns_client_status, {})
to_set_ddns_hostname ==
    Change(change_ddns_client_hostname, {"StrValue_str"},
      "ddns.hostname_changed")
to_get_ddns_proxy == Show(get_ddns_internet_settng, {})
to_set_ddns_proxy ==
    Forward(set_ddns_internet_settng, {}, "ddns.proxy_updated")
to_get_cipher == Show(get_server_cipher, {})
to_set_cipher == Change(set_server_cipher, {"String_str"}, "cipher.updated")
to_get_cert == Show(get_server_cert, {})
to_set_cert ==
    Change(set_server_cert, {"Cert_bin", "Key_bin"}, "cert.replaced")
to_regenerate_cert ==
    Change(regenerate_server_cert, {"StrValue_str"}, "cert.regenerated")
to_set_admin_password ==
    FollowedUp(Change(set_server_password, {"PlainTextPassword_str"},
      "server.admin_password_changed"))
to_enum_connections == Show(enum_connection, {})
to_connection_info == Show(get_connection_info, {"Name_str"})
to_disconnect_connection ==
    Change(disconnect_connection, {"Name_str"}, "connection.disconnected")
to_enum_bridges == Show(enum_local_bridge, {})
to_bridge_support == Show(get_bridge_support, {})
to_enum_ethernet == Show(enum_ethernet, {})
to_add_bridge ==
    Change(add_local_bridge, {"DeviceName_str", "HubNameLB_str"},
      "bridge.created")
to_delete_bridge ==
    Change(delete_local_bridge, {"DeviceName_str", "HubNameLB_str"},
      "bridge.deleted")
to_enum_l3 == Show(enum_l3_switch, {})
to_add_l3 == Change(add_l3_switch, {"Name_str"}, "l3.created")
to_del_l3 == Change(del_l3_switch, {"Name_str"}, "l3.deleted")
to_start_l3 ==
    ReadBack(Change(start_l3_switch, {"Name_str"}, "l3.started"),
      {enum_l3_switch})
to_stop_l3 ==
    ReadBack(Change(stop_l3_switch, {"Name_str"}, "l3.stopped"),
      {enum_l3_switch})
to_enum_l3_if == Show(enum_l3_if, {"Name_str"})
to_add_l3_if == Forward(add_l3_if, {"Name_str"}, "l3.interface_added")
to_del_l3_if == Forward(del_l3_if, {"Name_str"}, "l3.interface_deleted")
to_enum_l3_routes == Show(enum_l3_table, {"Name_str"})
to_add_l3_route == Forward(add_l3_table, {"Name_str"}, "l3.route_added")
to_del_l3_route == Forward(del_l3_table, {"Name_str"}, "l3.route_deleted")
to_get_farm == Show(get_farm_setting, {})
to_set_farm == Forward(set_farm_setting, {}, "farm.updated")
to_farm_status == Show(get_farm_connection_status, {})
to_farm_members == Show(enum_farm_member, {})
to_farm_member == Show(get_farm_info, {"Id_u32"})
to_get_keep == Show(get_keep, {})
to_set_keep == Forward(set_keep, {}, "keepalive.updated")
to_get_syslog == Show(get_sys_log, {})
to_set_syslog == Forward(set_sys_log, {}, "syslog.updated")
to_enum_etherip == Show(enum_ether_ip_id, {})
to_add_etherip == Forward(add_ether_ip_id, {}, "etherip.created")
to_get_etherip == Show(get_ether_ip_id, {"Id_str"})
to_delete_etherip == Change(delete_ether_ip_id, {"Id_str"}, "etherip.deleted")
to_enum_log_files == Show(enum_log_file, {})
to_get_config == Show(get_config, {})
to_set_config == Change(set_config, {"FileData_bin"}, "config.restored")
to_flush == Change(flush, {}, "server.flushed")
to_reboot == Change(reboot_server, {}, "server.rebooted")
to_crash == Change(crash, {}, "server.crashed")
to_default_hub_admin_options ==
    Show(get_default_hub_admin_options, {"HubName_str"})

\* The switch of a cascade: one RPC or the other, then the list.
to_set_link_online ==
    {ReadBack(Change(m, {"HubName_str", "AccountName_utf"},
                     "link.online_toggled"), {enum_link}) :
        m \in {set_link_online, set_link_offline}}

\* What the SecureNAT tab shows.
to_securenat_overview ==
    ReadBack(Show(get_hub_status, {"HubName_str"}),
             {get_securenat_status, get_securenat_option})
to_read_log_file ==
    {Show(read_log_file, {"FilePath_str"} \cup from) : from \in {{}, Unoffered}}

\* The console: any documented method, read or not, with the client's fields.
to_call_method == {Forward(m, {}, "rpc.called") : m \in Methods}

\* What is inside a hub.
HubRoutes ==
    {to_enum_hubs, to_create_hub, to_get_hub, to_set_hub, to_delete_hub,
     to_set_hub_online, to_hub_status, to_get_hub_log, to_set_hub_log,
     to_get_radius, to_set_radius, to_get_hub_msg, to_set_hub_msg,
     to_get_admin_options, to_set_admin_options, to_get_ext_options,
     to_set_ext_options, to_enum_users, to_create_user, to_get_user,
     to_set_user, to_delete_user, to_online_usernames, to_user_sessions,
     to_enum_groups, to_create_group, to_get_group, to_set_group,
     to_delete_group, to_enum_sessions, to_session_status, to_delete_session,
     to_enum_access, to_add_access, to_set_access_list, to_delete_access,
     to_get_ac_list, to_set_ac_list, to_enum_ca, to_add_ca, to_get_ca,
     to_delete_ca, to_enum_crl, to_add_crl, to_get_crl, to_set_crl, to_del_crl,
     to_enable_securenat, to_disable_securenat, to_set_securenat_options,
     to_enum_nat, to_enum_dhcp, to_enum_links, to_create_link, to_get_link,
     to_set_link, to_delete_link, to_link_status, to_rename_link,
     to_enum_mac_table, to_delete_mac_entry, to_enum_ip_table,
     to_delete_ip_entry, to_securenat_overview}

\* The server itself.
ServerRoutes ==
    {to_server_info, to_server_status, to_server_caps, to_admin_msg,
     to_enum_listeners, to_create_listener, to_enable_listener,
     to_delete_listener, to_get_special_listener, to_set_special_listener,
     to_get_ipsec, to_set_ipsec, to_get_openvpn, to_set_openvpn,
     to_make_openvpn_config, to_get_azure, to_set_azure, to_get_ddns,
     to_set_ddns_hostname, to_get_ddns_proxy, to_set_ddns_proxy, to_get_cipher,
     to_set_cipher, to_get_cert, to_set_cert, to_regenerate_cert,
     to_set_admin_password, to_enum_connections, to_connection_info,
     to_disconnect_connection, to_enum_bridges, to_bridge_support,
     to_enum_ethernet, to_add_bridge, to_delete_bridge, to_enum_l3, to_add_l3,
     to_del_l3, to_start_l3, to_stop_l3, to_enum_l3_if, to_add_l3_if,
     to_del_l3_if, to_enum_l3_routes, to_add_l3_route, to_del_l3_route,
     to_get_farm, to_set_farm, to_farm_status, to_farm_members, to_farm_member,
     to_get_keep, to_set_keep, to_get_syslog, to_set_syslog, to_enum_etherip,
     to_add_etherip, to_get_etherip, to_delete_etherip, to_enum_log_files,
     to_get_config, to_set_config, to_flush, to_reboot, to_crash,
     to_default_hub_admin_options}

Routes == HubRoutes \cup ServerRoutes \cup to_set_link_online
          \cup to_read_log_file \cup to_call_method
=============================================================================
