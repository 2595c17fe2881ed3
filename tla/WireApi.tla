------------------------------ MODULE WireApi ------------------------------
(***************************************************************************)
(* The typed methods of Library/softether.py, one definition each: which   *)
(* RPC a method sends, which wire fields its signature demands, and which  *)
(* it offers and leaves out when they are None. What the fields hold is a  *)
(* value that can be encoded or one that cannot.                           *)
(***************************************************************************)
EXTENDS Naturals, Sequences

CONSTANTS None, Unfit    \* an argument left out; one that is out of range

\* A method of the client class, and the fields of its one call of _invoke.
Method(rpc, demands, offers) ==
    [rpc |-> rpc, demands |-> demands, offers |-> offers]
Sends(m) == m.demands \cup m.offers

\* A method with arguments that name things only; with none at all.
Ask(rpc, names) == Method(rpc, names, {})
Plain(rpc)      == Method(rpc, {}, {})

\* _pack: what is None is dropped, and one value that does not encode - a
\* width, an enumeration, an address, a date - raises before anything is sent.
Encodes(values) == \A f \in DOMAIN values : values[f] # Unfit
Pack(values) ==
    [f \in {g \in DOMAIN values : values[g] # None} |-> values[f]]

\* _is_safe: the calls the client repeats freely.
SafePrefixes == {"Get", "Enum", "Test", "Read", "Make"}
IsSafe(rpc) ==
    \E p \in SafePrefixes : Len(p) <= Len(rpc) /\ SubSeq(rpc, 1, Len(p)) = p

(*************************** fields in common ******************************)

\* The security policy: what accounts, groups and cascades share.
SharedPolicy ==
    {"policy:DHCPFilter_bool", "policy:DHCPNoServer_bool",
      "policy:DHCPForce_bool", "policy:ArpDhcpOnly_bool",
      "policy:PrivacyFilter_bool", "policy:NoServer_bool",
      "policy:NoBroadcastLimiter_bool", "policy:MaxMac_u32",
      "policy:MaxIP_u32", "policy:MaxUpload_u32", "policy:MaxDownload_u32",
      "policy:RSandRAFilter_bool", "policy:DHCPv6Filter_bool",
      "policy:DHCPv6NoServer_bool", "policy:NoServerV6_bool",
      "policy:MaxIPv6_u32", "policy:FilterIPv4_bool", "policy:FilterIPv6_bool",
      "policy:FilterNonIP_bool", "policy:NoIPv6DefaultRouterInRA_bool",
      "policy:VLanId_u32", "policy:Ver3_bool"}

UserPolicy ==
    SharedPolicy \cup {"policy:Access_bool", "policy:NoBridge_bool",
      "policy:NoRouting_bool", "policy:CheckMac_bool", "policy:CheckIP_bool",
      "policy:MonitorPort_bool", "policy:MaxConnection_u32",
      "policy:TimeOut_u32", "policy:FixPassword_bool",
      "policy:MultiLogins_u32", "policy:NoQoS_bool", "policy:RAFilter_bool",
      "policy:NoRoutingV6_bool", "policy:CheckIPv6_bool",
      "policy:NoSavePassword_bool", "policy:AutoDisconnect_u32",
      "policy:NoIPv6DefaultRouterInRAWhenIPv6_bool"}

LinkPolicy ==
    SharedPolicy \cup {"SecPol_CheckMac_bool", "SecPol_CheckIP_bool",
      "SecPol_RAFilter_bool", "SecPol_CheckIPv6_bool"}

HubSettings == {"Online_bool", "MaxSession_u32", "NoEnum_bool", "HubType_u32"}

\* An account without its policy; a group without its own.
UserSettings ==
    {"Realname_utf", "Note_utf", "ExpireTime_dt", "AuthType_u32",
      "Auth_Password_str", "UserX_bin", "Serial_bin", "CommonName_utf",
      "RadiusUsername_utf", "NtUsername_utf", "UsePolicy_bool"}

GroupSettings == {"Realname_utf", "Note_utf", "UsePolicy_bool"}

LinkTarget ==
    {"HubName_Ex_str", "AccountName_utf", "Hostname_str", "Port_u32",
      "HubName_str"}

LinkSettings ==
    {"CheckServerCert_bool", "ProxyType_u32", "MaxConnection_u32",
      "UseEncrypt_bool", "UseCompress_bool", "HalfConnection_bool",
      "AdditionalConnectionInterval_u32", "ConnectionDisconnectSpan_u32",
      "AuthType_u32", "Username_str", "HashedPassword_bin",
      "PlainPassword_str", "ClientX_bin", "ClientK_bin"}

RevokedName ==
    {"CommonName_utf", "Organization_utf", "Unit_utf", "Country_utf",
      "State_utf", "Local_utf", "Serial_bin", "DigestMD5_bin",
      "DigestSHA1_bin"}

L3Route ==
    {"Name_str", "NetworkAddress_ip", "SubnetMask_ip", "GatewayAddress_ip"}

SecureNatOptions ==
    {"MacAddress_bin", "Ip_ip", "Mask_ip", "UseNat_bool", "Mtu_u32",
      "NatTcpTimeout_u32", "NatUdpTimeout_u32", "UseDhcp_bool",
      "DhcpLeaseIPStart_ip", "DhcpLeaseIPEnd_ip", "DhcpSubnetMask_ip",
      "DhcpExpireTimeSpan_u32", "DhcpGatewayAddress_ip",
      "DhcpDnsServerAddress_ip", "DhcpDnsServerAddress2_ip",
      "DhcpDomainName_str", "SaveLog_bool", "ApplyDhcpPushRoutes_bool",
      "DhcpPushRoutes_str"}

(***************************** the methods *********************************)

test == Ask("Test", {"IntValue_u32"})
get_server_info == Plain("GetServerInfo")
get_server_status == Plain("GetServerStatus")
create_listener == Method("CreateListener", {"Port_u32"}, {"Enable_bool"})
enum_listener == Plain("EnumListener")
delete_listener == Ask("DeleteListener", {"Port_u32"})
enable_listener == Method("EnableListener", {"Port_u32"}, {"Enable_bool"})
set_server_password == Ask("SetServerPassword", {"PlainTextPassword_str"})
set_farm_setting ==
    Method("SetFarmSetting", {}, {"ServerType_u32", "NumPort_u32", "Ports_u32",
      "PublicIp_ip", "ControllerName_str", "ControllerPort_u32",
      "MemberPasswordPlaintext_str", "Weight_u32", "ControllerOnly_bool"})
get_farm_setting == Plain("GetFarmSetting")
get_farm_info == Ask("GetFarmInfo", {"Id_u32"})
enum_farm_member == Plain("EnumFarmMember")
get_farm_connection_status == Plain("GetFarmConnectionStatus")
set_server_cert == Ask("SetServerCert", {"Cert_bin", "Key_bin"})
get_server_cert == Plain("GetServerCert")
get_server_cipher == Plain("GetServerCipher")
set_server_cipher == Ask("SetServerCipher", {"String_str"})
create_hub ==
    Method("CreateHub", {"HubName_str", "AdminPasswordPlainText_str"},
      HubSettings)
set_hub ==
    Method("SetHub", {"HubName_str"}, {"AdminPasswordPlainText_str"} \cup
      HubSettings)
get_hub == Ask("GetHub", {"HubName_str"})
enum_hub == Plain("EnumHub")
delete_hub == Ask("DeleteHub", {"HubName_str"})
get_hub_radius == Ask("GetHubRadius", {"HubName_str"})
set_hub_radius ==
    Method("SetHubRadius", {"HubName_str", "RadiusServerName_str",
      "RadiusPort_u32", "RadiusSecret_str"}, {"RadiusRetryInterval_u32"})
enum_connection == Plain("EnumConnection")
disconnect_connection == Ask("DisconnectConnection", {"Name_str"})
get_connection_info == Ask("GetConnectionInfo", {"Name_str"})
set_hub_online == Method("SetHubOnline", {"HubName_str"}, {"Online_bool"})
get_hub_status == Ask("GetHubStatus", {"HubName_str"})
set_hub_log ==
    Method("SetHubLog", {"HubName_str"}, {"SaveSecurityLog_bool",
      "SecurityLogSwitchType_u32", "SavePacketLog_bool",
      "PacketLogSwitchType_u32", "PacketLogConfig_u32"})
get_hub_log == Ask("GetHubLog", {"HubName_str"})
add_ca == Ask("AddCa", {"HubName_str", "Cert_bin"})
enum_ca == Ask("EnumCa", {"HubName_str"})
get_ca == Ask("GetCa", {"HubName_str", "Key_u32"})
delete_ca == Ask("DeleteCa", {"HubName_str", "Key_u32"})
create_link == Method("CreateLink", LinkTarget, LinkPolicy \cup LinkSettings)
get_link == Ask("GetLink", {"HubName_Ex_str", "AccountName_utf"})
set_link == Method("SetLink", LinkTarget, LinkPolicy \cup LinkSettings)
enum_link == Ask("EnumLink", {"HubName_str"})
set_link_online == Ask("SetLinkOnline", {"HubName_str", "AccountName_utf"})
set_link_offline == Ask("SetLinkOffline", {"HubName_str", "AccountName_utf"})
delete_link == Ask("DeleteLink", {"HubName_str", "AccountName_utf"})
rename_link ==
    Ask("RenameLink", {"HubName_str", "OldAccountName_utf",
      "NewAccountName_utf"})
get_link_status == Ask("GetLinkStatus", {"HubName_Ex_str", "AccountName_utf"})
add_access == Ask("AddAccess", {"HubName_str", "AccessListSingle"})
delete_access == Ask("DeleteAccess", {"HubName_str", "Id_u32"})
enum_access == Ask("EnumAccess", {"HubName_str"})
set_access_list == Ask("SetAccessList", {"HubName_str", "AccessList"})
create_user ==
    Method("CreateUser", {"HubName_str", "Name_str"}, UserPolicy \cup
      UserSettings)
set_user ==
    Method("SetUser", {"HubName_str", "Name_str"}, {"GroupName_str"} \cup
      UserPolicy \cup UserSettings)
get_user == Ask("GetUser", {"HubName_str", "Name_str"})
delete_user == Ask("DeleteUser", {"HubName_str", "Name_str"})
enum_user == Ask("EnumUser", {"HubName_str"})
create_group ==
    Method("CreateGroup", {"HubName_str", "Name_str"}, UserPolicy \cup
      GroupSettings)
set_group ==
    Method("SetGroup", {"HubName_str", "Name_str"}, UserPolicy \cup
      GroupSettings)
get_group == Ask("GetGroup", {"HubName_str", "Name_str"})
delete_group == Ask("DeleteGroup", {"HubName_str", "Name_str"})
enum_group == Ask("EnumGroup", {"HubName_str"})
enum_session == Ask("EnumSession", {"HubName_str"})
get_session_status == Ask("GetSessionStatus", {"HubName_str", "Name_str"})
delete_session == Ask("DeleteSession", {"HubName_str", "Name_str"})
enum_mac_table == Ask("EnumMacTable", {"HubName_str"})
delete_mac_table == Ask("DeleteMacTable", {"HubName_str", "Key_u32"})
enum_ip_table == Ask("EnumIpTable", {"HubName_str"})
delete_ip_table == Ask("DeleteIpTable", {"HubName_str", "Key_u32"})
set_keep ==
    Method("SetKeep", {}, {"UseKeepConnect_bool", "KeepConnectHost_str",
      "KeepConnectPort_u32", "KeepConnectProtocol_u32",
      "KeepConnectInterval_u32"})
get_keep == Plain("GetKeep")
enable_securenat == Ask("EnableSecureNAT", {"HubName_str"})
disable_securenat == Ask("DisableSecureNAT", {"HubName_str"})
set_securenat_option ==
    Method("SetSecureNATOption", {"RpcHubName_str"}, SecureNatOptions)
get_securenat_option == Ask("GetSecureNATOption", {"RpcHubName_str"})
enum_nat == Ask("EnumNAT", {"HubName_str"})
enum_dhcp == Ask("EnumDHCP", {"HubName_str"})
get_securenat_status == Ask("GetSecureNATStatus", {"HubName_str"})
enum_ethernet == Plain("EnumEthernet")
add_local_bridge == Ask("AddLocalBridge", {"DeviceName_str", "HubNameLB_str"})
delete_local_bridge ==
    Ask("DeleteLocalBridge", {"DeviceName_str", "HubNameLB_str"})
enum_local_bridge == Plain("EnumLocalBridge")
get_bridge_support == Plain("GetBridgeSupport")
reboot_server == Plain("RebootServer")
get_caps == Plain("GetCaps")
get_config == Plain("GetConfig")
set_config == Ask("SetConfig", {"FileData_bin"})
get_default_hub_admin_options ==
    Ask("GetDefaultHubAdminOptions", {"HubName_str"})
get_hub_admin_options == Ask("GetHubAdminOptions", {"HubName_str"})
set_hub_admin_options ==
    Ask("SetHubAdminOptions", {"HubName_str", "AdminOptionList"})
get_hub_ext_options == Ask("GetHubExtOptions", {"HubName_str"})
set_hub_ext_options ==
    Ask("SetHubExtOptions", {"HubName_str", "AdminOptionList"})
add_l3_switch == Ask("AddL3Switch", {"Name_str"})
del_l3_switch == Ask("DelL3Switch", {"Name_str"})
enum_l3_switch == Plain("EnumL3Switch")
start_l3_switch == Ask("StartL3Switch", {"Name_str"})
stop_l3_switch == Ask("StopL3Switch", {"Name_str"})
add_l3_if ==
    Ask("AddL3If", {"Name_str", "HubName_str", "IpAddress_ip",
      "SubnetMask_ip"})
del_l3_if == Ask("DelL3If", {"Name_str", "HubName_str"})
enum_l3_if == Ask("EnumL3If", {"Name_str"})
add_l3_table == Method("AddL3Table", L3Route, {"Metric_u32"})
del_l3_table == Method("DelL3Table", L3Route, {"Metric_u32"})
enum_l3_table == Ask("EnumL3Table", {"Name_str"})
enum_crl == Ask("EnumCrl", {"HubName_str"})
add_crl == Method("AddCrl", {"HubName_str"}, RevokedName)
del_crl == Ask("DelCrl", {"HubName_str", "Key_u32"})
get_crl == Ask("GetCrl", {"HubName_str", "Key_u32"})
set_crl == Method("SetCrl", {"HubName_str", "Key_u32"}, RevokedName)
set_ac_list == Ask("SetAcList", {"HubName_str", "ACList"})
get_ac_list == Ask("GetAcList", {"HubName_str"})
enum_log_file == Plain("EnumLogFile")
read_log_file == Ask("ReadLogFile", {"FilePath_str"})
set_sys_log ==
    Method("SetSysLog", {"Port_u32"}, {"SaveType_u32", "Hostname_str"})
get_sys_log == Plain("GetSysLog")
set_hub_msg == Ask("SetHubMsg", {"HubName_str", "Msg_bin"})
get_hub_msg == Ask("GetHubMsg", {"HubName_str"})
crash == Plain("Crash")
get_admin_msg == Plain("GetAdminMsg")
flush == Plain("Flush")
set_ipsec_services ==
    Method("SetIPsecServices", {}, {"L2TP_Raw_bool", "L2TP_IPsec_bool",
      "EtherIP_IPsec_bool", "IPsec_Secret_str", "L2TP_DefaultHub_str"})
get_ipsec_services == Plain("GetIPsecServices")
add_ether_ip_id ==
    Ask("AddEtherIpId", {"Id_str", "HubName_str", "UserName_str",
      "Password_str"})
get_ether_ip_id == Ask("GetEtherIpId", {"Id_str"})
delete_ether_ip_id == Ask("DeleteEtherIpId", {"Id_str"})
enum_ether_ip_id == Plain("EnumEtherIpId")
set_openvpn_sstp_config ==
    Method("SetOpenVpnSstpConfig", {}, {"EnableOpenVPN_bool",
      "OpenVPNPortList_str", "EnableSSTP_bool"})
get_openvpn_sstp_config == Plain("GetOpenVpnSstpConfig")
get_ddns_client_status == Plain("GetDDnsClientStatus")
change_ddns_client_hostname ==
    Ask("ChangeDDnsClientHostname", {"StrValue_str"})
regenerate_server_cert == Ask("RegenerateServerCert", {"StrValue_str"})
make_openvpn_config_file == Plain("MakeOpenVpnConfigFile")
set_special_listener ==
    Method("SetSpecialListener", {}, {"VpnOverIcmpListener_bool",
      "VpnOverDnsListener_bool"})
get_special_listener == Plain("GetSpecialListener")
get_azure_status == Plain("GetAzureStatus")
set_azure_status == Method("SetAzureStatus", {}, {"IsEnabled_bool"})
get_ddns_internet_settng == Plain("GetDDnsInternetSettng")
set_ddns_internet_settng ==
    Method("SetDDnsInternetSettng", {}, {"ProxyType_u32", "ProxyHostName_str",
      "ProxyPort_u32", "ProxyUsername_str", "ProxyPassword_str"})
get_vgs_config == Plain("GetVgsConfig")
set_vgs_config == Plain("SetVgsConfig")

\* _RPC_TO_PYTHON, in two halves: every RPC by the method that wraps it.
Methods1 ==
    {test, get_server_info, get_server_status, create_listener, enum_listener,
     delete_listener, enable_listener, set_server_password, set_farm_setting,
     get_farm_setting, get_farm_info, enum_farm_member,
     get_farm_connection_status, set_server_cert, get_server_cert,
     get_server_cipher, set_server_cipher, create_hub, set_hub, get_hub,
     enum_hub, delete_hub, get_hub_radius, set_hub_radius, enum_connection,
     disconnect_connection, get_connection_info, set_hub_online,
     get_hub_status, set_hub_log, get_hub_log, add_ca, enum_ca, get_ca,
     delete_ca, create_link, get_link, set_link, enum_link, set_link_online,
     set_link_offline, delete_link, rename_link, get_link_status, add_access,
     delete_access, enum_access, set_access_list, create_user, set_user,
     get_user, delete_user, enum_user, create_group, set_group, get_group,
     delete_group, enum_group, enum_session, get_session_status,
     delete_session, enum_mac_table, delete_mac_table, enum_ip_table,
     delete_ip_table, set_keep, get_keep}

\* The second half.
Methods2 ==
    {enable_securenat, disable_securenat, set_securenat_option,
     get_securenat_option, enum_nat, enum_dhcp, get_securenat_status,
     enum_ethernet, add_local_bridge, delete_local_bridge, enum_local_bridge,
     get_bridge_support, reboot_server, get_caps, get_config, set_config,
     get_default_hub_admin_options, get_hub_admin_options,
     set_hub_admin_options, get_hub_ext_options, set_hub_ext_options,
     add_l3_switch, del_l3_switch, enum_l3_switch, start_l3_switch,
     stop_l3_switch, add_l3_if, del_l3_if, enum_l3_if, add_l3_table,
     del_l3_table, enum_l3_table, enum_crl, add_crl, del_crl, get_crl, set_crl,
     set_ac_list, get_ac_list, enum_log_file, read_log_file, set_sys_log,
     get_sys_log, set_hub_msg, get_hub_msg, crash, get_admin_msg, flush,
     set_ipsec_services, get_ipsec_services, add_ether_ip_id, get_ether_ip_id,
     delete_ether_ip_id, enum_ether_ip_id, set_openvpn_sstp_config,
     get_openvpn_sstp_config, get_ddns_client_status,
     change_ddns_client_hostname, regenerate_server_cert,
     make_openvpn_config_file, set_special_listener, get_special_listener,
     get_azure_status, set_azure_status, get_ddns_internet_settng,
     set_ddns_internet_settng, get_vgs_config, set_vgs_config}

Methods == Methods1 \cup Methods2
=============================================================================
