------------------------------- MODULE Edits -------------------------------
(***************************************************************************)
(* Changing one setting of an object of the VPN server, whose Set RPCs     *)
(* replace the whole record: a script on the typed methods of              *)
(* Library/softether.py reads the record and passes it back with one field *)
(* changed; the panel's screens pass the wire record back; and the panel's *)
(* SecureNAT route reads the record itself and merges the body into it.    *)
(***************************************************************************)
EXTENDS WireApi

CONSTANTS EditKinds      \* the kinds of object that are edited

\* The fields the server answers a Get with, apart from times, counters
\* and states.
HubRecord    == {"HubName_str", "AdminPasswordPlainText_str"} \cup HubSettings
UserRecord   == {"HubName_str", "Name_str", "GroupName_str"}
                    \cup UserSettings \cup UserPolicy
GroupRecord  == {"HubName_str", "Name_str"} \cup GroupSettings \cup UserPolicy
LinkRecord   == {"ServerCert_bin", "ProxyName_str",
                 "ProxyPort_u32", "ProxyUsername_str", "ProxyPassword_str",
                 "DisableQoS_bool", "NoTls1_bool", "NoUdpAcceleration_bool"}
                    \cup LinkTarget \cup LinkSettings \cup LinkPolicy
CrlRecord    == {"HubName_str", "Key_u32"} \cup RevokedName
NatRecord    == {"RpcHubName_str"} \cup SecureNatOptions
RadiusRecord == {"HubName_str", "RadiusServerName_str", "RadiusPort_u32",
                 "RadiusSecret_str", "RadiusRetryInterval_u32"}
LogRecord    == {"HubName_str", "SaveSecurityLog_bool",
                 "SecurityLogSwitchType_u32", "SavePacketLog_bool",
                 "PacketLogSwitchType_u32", "PacketLogConfig_u32"}
KeepRecord   == {"UseKeepConnect_bool", "KeepConnectHost_str",
                 "KeepConnectPort_u32", "KeepConnectProtocol_u32",
                 "KeepConnectInterval_u32"}
IPsecRecord  == {"L2TP_Raw_bool", "L2TP_IPsec_bool", "EtherIP_IPsec_bool",
                 "IPsec_Secret_str", "L2TP_DefaultHub_str"}

Kind(get, set, record) == [get |-> get, set |-> set, record |-> record]
KindOf ==
    [hub    |-> Kind(get_hub, set_hub, HubRecord),
     user   |-> Kind(get_user, set_user, UserRecord),
     group  |-> Kind(get_group, set_group, GroupRecord),
     link   |-> Kind(get_link, set_link, LinkRecord),
     crl    |-> Kind(get_crl, set_crl, CrlRecord),
     nat    |-> Kind(get_securenat_option, set_securenat_option, NatRecord),
     radius |-> Kind(get_hub_radius, set_hub_radius, RadiusRecord),
     log    |-> Kind(get_hub_log, set_hub_log, LogRecord),
     keep   |-> Kind(get_keep, set_keep, KeepRecord),
     ipsec  |-> Kind(get_ipsec_services, set_ipsec_services, IPsecRecord)]

\* What stands in a field: as it was, what the edit or another administrator
\* put there, or the server's default.
Contents == {"was", "new", "theirs", "default"}

ASSUME EditAssumption ==
    EditKinds \subseteq DOMAIN KindOf /\ {None, Unfit} \cap Contents = {}

VARIABLES
    kind,      \* what is edited
    record,    \* the server's record of it
    edit       \* how far the edit is: what was read, what is to change

editVars == <<kind, record, edit>>

Fields(k)     == KindOf[k].record
Changeable(k) == Fields(k) \cap KindOf[k].set.offers

EditInit ==
    /\ kind \in EditKinds
    /\ record = [f \in Fields(kind) |-> "was"]
    /\ edit = [at |-> "idle"]

\* A Set RPC: what it does not carry falls back to the server's default.
Replace(params) ==
    record' = [f \in Fields(kind) |->
                  IF f \in DOMAIN params THEN params[f] ELSE "default"]

\* The record is read, by whoever writes it back.
ReadRecord(f, means) ==
    /\ edit.at = "idle" /\ f \in Changeable(kind)
    /\ means = "merged" => kind = "nat"
    /\ edit' = [at |-> "read", field |-> f, means |-> means, read |-> record]
    /\ UNCHANGED <<kind, record>>

\* Another administrator changes another field meanwhile.
Meanwhile(f) ==
    /\ edit.at = "read" /\ f \in Fields(kind) \ {edit.field}
    /\ \A g \in Fields(kind) : record[g] # "theirs"
    /\ record' = [record EXCEPT ![f] = "theirs"]
    /\ UNCHANGED <<kind, edit>>

\* A typed Set: every argument it has, taken from the record that was read.
Arguments(value) ==
    [f \in Sends(KindOf[kind].set) |->
        IF f = edit.field THEN value
        ELSE IF f \in DOMAIN edit.read THEN edit.read[f] ELSE None]

WriteTyped(value) ==
    /\ edit.at = "read" /\ edit.means = "typed"
    /\ IF Encodes(Arguments(value))
       THEN /\ Replace(Pack(Arguments(value)))
            /\ edit' = [edit EXCEPT !.at = "written"]
       ELSE /\ edit' = [edit EXCEPT !.at = "raised"]
            /\ UNCHANGED record
    /\ UNCHANGED kind

\* Mutant of WriteWire: the body goes out by itself.
WriteWireBodyOnly ==
    /\ edit.at = "read" /\ edit.means \in {"screen", "merged"}
    /\ Replace(IF edit.means = "screen"
               THEN [edit.read EXCEPT ![edit.field] = "new"]
               ELSE [f \in {edit.field} |-> "new"])
    /\ edit' = [edit EXCEPT !.at = "written"]
    /\ UNCHANGED kind

\* The panel's routes hand the body on as it is: the record the screen read;
\* SecureNAT's merges a body of one field into the record it read itself.
WriteWire ==
    /\ edit.at = "read" /\ edit.means \in {"screen", "merged"}
    /\ LET body == IF edit.means = "screen" THEN edit.read
                   ELSE [f \in {edit.field} |-> "new"]
           current == IF edit.means = "merged" THEN edit.read ELSE body
       IN Replace([f \in DOMAIN current \cup DOMAIN body |->
                      IF f = edit.field THEN "new" ELSE current[f]])
    /\ edit' = [edit EXCEPT !.at = "written"]
    /\ UNCHANGED kind

EditEnd ==
    /\ edit.at \in {"written", "raised"}
    /\ edit' = [at |-> "idle"]
    /\ record' = [f \in Fields(kind) |-> "was"]    \* the next object
    /\ UNCHANGED kind

EditNext ==
    \/ \E f \in Fields(kind) :
           \/ \E means \in {"typed", "screen", "merged"} : ReadRecord(f, means)
           \/ Meanwhile(f)
    \/ \E value \in {"new", None, Unfit} : WriteTyped(value)
    \/ WriteWire \/ EditEnd

EditTypeOK ==
    /\ kind \in EditKinds
    /\ record \in [Fields(kind) -> Contents]
    /\ edit.at \in {"idle", "read", "written", "raised"}

\* Editing one field leaves every other field as it was read, although the
\* server replaces the whole record: whatever the record holds, the method
\* that writes it can pass back (softether.py: the warning at every set_*).
EditKeepsRest ==
    edit.at = "written" =>
        \A f \in Fields(kind) \ {edit.field} : record[f] = edit.read[f]
=============================================================================
