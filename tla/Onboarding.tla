---------------------------- MODULE Onboarding ----------------------------
(***************************************************************************)
(* How the device gets onto a Wi-Fi network and remembers it:              *)
(* Wifi/wifi_conn.c, System/nl6621_drv.c, the soft AP configuration of     *)
(* User/lan.c, the reset button of System/agent_core.c, and under them the *)
(* system management task of Sys/sys_mgmt.c with LwIP/port/lwIP.c.         *)
(*                                                                         *)
(*   Boot   nl6621_main_entry, which ends by creating the other tasks      *)
(*   Udp    UdpServerThread, running lan_softap_config                     *)
(*   Reset  SysResetThread                                                 *)
(*   mgmt   SysMgmtMain, handling the messages of the Wi-Fi driver         *)
(*                                                                         *)
(* Scheduling.  The driver's task outranks mgmt and mgmt the other three:  *)
(* a command to the driver takes effect at once, and a task runs only when *)
(* mgmt has no message or sleeps in its wait for an address.  The delays   *)
(* of a task are the borders between its steps.                            *)
(*                                                                         *)
(* The NOR flash holds one record.  Its network field may also be erased   *)
(* (all ones), cleared (all zeros), part (the fields before it are written *)
(* but it is not) or mixed (two networks written over each other).         *)
(***************************************************************************)
EXTENDS Integers, Sequences

CONSTANTS
  Nets,       \* networks: SSID and key
  Hard,       \* the one compiled into Agent_network_init
  NoNet,      \* no network given: use the one in SysParam
  First32,    \* what the first 32 bytes of an SSID and of a key say
  MaxQueue,   \* bound: driver events waiting for mgmt
  MaxLosses   \* bound: number of times the link is lost

ASSUME OnboardingAssumption ==
  /\ Hard \in Nets
  /\ NoNet \notin Nets
  /\ First32 \in [Nets -> Nets]
  /\ {"erased", "cleared", "part", "mixed"} \cap (Nets \cup {NoNet}) = {}
  /\ MaxQueue \in Nat \ {0}
  /\ MaxLosses \in Nat

Tasks == {"Boot", "Udp", "Reset"}

Record  == [flag : {0, 1}, net : Nets \cup {NoNet, "erased", "cleared", "part", "mixed"}]
Erased  == [flag |-> 1, net |-> "erased"]   \* all ones: XPG_CFG_FLAG_CONNECTED is set
Cleared == [flag |-> 0, net |-> "cleared"]

Events == {"LINK_UP", "LINK_DOWN", "JOIN_FAIL", "DIRECT_CFG_DONE"}

VARIABLES
  status,         \* sys_status.status
  onboarding,     \* sys_status.onboarding
  connect_flag,   \* wifi_sta_connect_ap_flag
  DirectCfgFlag,
  reset_armed,    \* system_reset_flag = 0x12345678
  Protocol,       \* SysParam.WiFiCfg.Protocol
  Ssid,           \* SysParam.WiFiCfg.Ssid and PSK
  config,         \* Agent_config_data
  flash,          \* the record at AGENT_CONFIG_DATA_ADDR
  driver,         \* the Wi-Fi driver; LinkReady is driver = "up"
  queue,          \* gpSysMngTskMsgQ
  mgmt,           \* idle, or waiting for an address: first (20 ticks), dhcp
  ip,             \* netif.ip_addr.addr # 0
  dhcps,          \* the DHCP server is enabled
  pc,             \* control point of every task
  want,           \* the network a task passes to DRV_WiFi_StaModeConnStart
  linked,         \* history: the networks the driver has been linked to
  losses          \* history: number of lost links

sysVars  == <<status, onboarding>>
flagVars == <<connect_flag, DirectCfgFlag, reset_armed>>
parVars  == <<Protocol, Ssid>>
mgmtVars == <<mgmt, ip, dhcps>>
histVars == <<linked, losses>>
vars == <<sysVars, flagVars, parVars, config, flash, driver, queue, mgmtVars, pc, want,
          histVars>>

(* Control points: those of DRV_WiFi_StaModeConnStart, of WriteFlash, and  *)
(* the others.                                                             *)
StaPcs   == {"start", "settle", "poll"}
WritePcs == {"read", "erase", "program", "program2"}
Pcs == StaPcs \cup WritePcs \cup
       {"button", "directcfg", "apstart", "respond", "done", "idle", "reboot"}

TypeOK ==
  /\ status \in {"STOP", "SOFTAP", "DIRECTCONFIG", "STA_CONNECTED"}
  /\ onboarding \in {"FAILED", "ONBOARDING", "SUCCESS"}
  /\ connect_flag \in {0, 1, 2}
  /\ DirectCfgFlag \in {0, 1}
  /\ reset_armed \in BOOLEAN
  /\ Protocol \in {"STA", "SOFTAP"}
  /\ Ssid \in Nets \cup {NoNet}
  /\ config \in Record
  /\ flash \in Record
  /\ driver \in {"stopped", "directcfg", "joining", "up"}
  /\ queue \in Seq(Events)
  /\ mgmt \in {"idle", "first", "dhcp"}
  /\ ip \in BOOLEAN
  /\ dhcps \in BOOLEAN
  /\ pc \in [Tasks -> Pcs]
  /\ want \in [Tasks -> Nets \cup {NoNet}]
  /\ linked \in SUBSET (Nets \cup {NoNet})
  /\ losses \in Nat

Goto(t, l) == pc' = [pc EXCEPT ![t] = l]

(* Power-on: everything volatile, after Agent_wifi_init; NoNet stands for  *)
(* the access point's own name in the default parameters.                  *)
FirstPc == [t \in Tasks |-> IF t = "Boot" THEN "button" ELSE "idle"]

Init ==
  /\ status = "STOP" /\ onboarding = "FAILED"
  /\ connect_flag = 0 /\ DirectCfgFlag = 0 /\ reset_armed = FALSE
  /\ Protocol = "SOFTAP" /\ Ssid = NoNet
  /\ config = Cleared
  /\ driver = "stopped" /\ queue = <<>>
  /\ mgmt = "idle" /\ ip = FALSE /\ dhcps = FALSE
  /\ pc = FirstPc /\ want = [t \in Tasks |-> NoNet]
  /\ flash = Erased
  /\ linked = {} /\ losses = 0

(* BSP_ChipReset: as at power-on, but the flash survives.                  *)
ChipReset ==
  /\ status' = "STOP" /\ onboarding' = "FAILED"
  /\ connect_flag' = 0 /\ DirectCfgFlag' = 0 /\ reset_armed' = FALSE
  /\ Protocol' = "SOFTAP" /\ Ssid' = NoNet
  /\ config' = Cleared
  /\ driver' = "stopped" /\ queue' = <<>>
  /\ mgmt' = "idle" /\ ip' = FALSE /\ dhcps' = FALSE
  /\ pc' = FirstPc /\ want' = [t \in Tasks |-> NoNet]
  /\ UNCHANGED <<flash, histVars>>

(* mgmt leaves the processor to the tasks.                                 *)
MgmtBlocked == queue = <<>> \/ mgmt # "idle"

-----------------------------------------------------------------------------
(* Commands to the driver.                                                 *)

(* InfWiFiStop: a link that was up goes down.                              *)
InfWiFiStop ==
  /\ driver' = "stopped"
  /\ queue' = IF driver = "up" THEN Append(queue, "LINK_DOWN") ELSE queue

-----------------------------------------------------------------------------
(* WriteFlash.                                                             *)

(* Programming can only clear bits: what a field holds after net was       *)
(* written over old.                                                       *)
Over(old, net) ==
  CASE old \in {"erased", "part"} -> net
    [] old = net -> net
    [] "cleared" \in {old, net} -> "cleared"
    [] OTHER -> "mixed"

(* The record a task writes: Agent_config_data, or SysResetThread's copy   *)
(* of it without flag, SSID and key.                                       *)
Data(t) == IF t = "Reset" THEN Cleared ELSE config

(* Variant: the sector is never erased.                                    *)
FlashReadNoErase(t) ==
  /\ MgmtBlocked
  /\ pc[t] = "read"
  /\ Goto(t, "program")
  /\ UNCHANGED <<sysVars, flagVars, parVars, config, flash, driver, queue, mgmtVars,
                 want, histVars>>

(* Read the sector; erase it unless the target range is all ones.          *)
FlashRead(t) ==
  /\ MgmtBlocked
  /\ pc[t] = "read"
  /\ Goto(t, IF flash = Erased THEN "program" ELSE "erase")
  /\ UNCHANGED <<sysVars, flagVars, parVars, config, flash, driver, queue, mgmtVars,
                 want, histVars>>

(* QSpiFlashEraseSector, then OSTimeDly(2).                                *)
FlashErase(t) ==
  /\ MgmtBlocked
  /\ pc[t] = "erase"
  /\ flash' = Erased
  /\ Goto(t, "program")
  /\ UNCHANGED <<sysVars, flagVars, parVars, config, driver, queue, mgmtVars, want,
                 histVars>>

(* QSpiWriteAny sends the page byte by byte: the flag first ...            *)
FlashProgram(t) ==
  /\ MgmtBlocked
  /\ pc[t] = "program"
  /\ flash' = [flag |-> IF Data(t).flag = 0 THEN 0 ELSE flash.flag,
               net |-> IF flash.net = "erased" THEN "part" ELSE flash.net]
  /\ Goto(t, "program2")
  /\ UNCHANGED <<sysVars, flagVars, parVars, config, driver, queue, mgmtVars, want,
                 histVars>>

(* ... then SSID and key.  Nothing keeps SysResetThread, which outranks    *)
(* Udp, from using the flash controller in between; the rest of Udp's page *)
(* may then be lost.                                                       *)
FlashProgram2(t) ==
  /\ MgmtBlocked
  /\ pc[t] = "program2"
  /\ \/ flash' = [flash EXCEPT !.net = Over(@, Data(t).net)]
     \/ t = "Udp" /\ pc["Reset"] # "idle" /\ UNCHANGED flash
  /\ Goto(t, IF t = "Reset" THEN "reboot" ELSE "respond")
  /\ UNCHANGED <<sysVars, flagVars, parVars, config, driver, queue, mgmtVars, want,
                 histVars>>

(* The record has 32 bytes for the SSID and 32 for the key, which in       *)
(* SysParam and in lan_softap_config may have 64: the rest is cut off.     *)
Kept(net) == IF net = NoNet THEN NoNet ELSE First32[net]

(* Agent_SaveSSIDAndKey, up to WriteFlash.                                 *)
Agent_SaveSSIDAndKey(t, net) ==
  /\ config' = [flag |-> 1, net |-> Kept(net)]
  /\ Goto(t, "read")

-----------------------------------------------------------------------------
(* DRV_WiFi_StaModeConnStart.                                              *)

(* Variant: the parameters are changed without stopping the driver.        *)
StaModeConnStartNoStop(t, net) ==
  /\ want' = [want EXCEPT ![t] = net]
  /\ UNCHANGED <<driver, queue>>
  /\ Goto(t, "start")

(* InfWiFiStop, then OSTimeDly(10).                                        *)
StaModeConnStart(t, net) ==
  /\ want' = [want EXCEPT ![t] = net]
  /\ InfWiFiStop
  /\ Goto(t, "start")

(* The parameters are set and the driver starts to join.                   *)
StaStart(t) ==
  /\ MgmtBlocked
  /\ pc[t] = "start"
  /\ Protocol' = "STA"
  /\ Ssid' = IF want[t] = NoNet THEN Ssid ELSE want[t]
  /\ driver' = "joining"
  /\ Goto(t, "settle")
  /\ UNCHANGED <<sysVars, flagVars, config, flash, queue, mgmtVars, want, histVars>>

(* After OSTimeDly(10) the flag that is polled is prepared.  It is shorter *)
(* than the first sleep of mgmt's wait for an address.                     *)
StaSettle(t) ==
  /\ MgmtBlocked
  /\ pc[t] = "settle"
  /\ connect_flag' = 2
  /\ mgmt' = IF mgmt = "first" THEN "dhcp" ELSE mgmt
  /\ Goto(t, "poll")
  /\ UNCHANGED <<sysVars, DirectCfgFlag, reset_armed, parVars, config, flash, driver,
                 queue, ip, dhcps, want, histVars>>

(* The polling loop ends.                                                  *)
Polled(t, result) == MgmtBlocked /\ pc[t] = "poll" /\ connect_flag = result

-----------------------------------------------------------------------------
(* Boot: Agent_network_init.                                               *)

(* No direct configuration, or it has failed: the stored record is read,   *)
(* then the compiled-in network replaces it and the flag is set.           *)
StationFromBoot ==
  /\ reset_armed' = TRUE
  /\ config' = [flag |-> 1, net |-> Hard]
  /\ status' = "DIRECTCONFIG"
  /\ StaModeConnStart("Boot", Hard)

(* The button decides at power-on.                                         *)
BootButton ==
  /\ MgmtBlocked
  /\ pc["Boot"] = "button"
  /\ \/ /\ StationFromBoot
        /\ UNCHANGED <<DirectCfgFlag, Ssid>>
     \/ /\ status' = "DIRECTCONFIG"
        /\ Ssid' = NoNet
        /\ DirectCfgFlag' = 0
        /\ driver' = "directcfg"
        /\ Goto("Boot", "directcfg")
        /\ UNCHANGED <<reset_armed, config, queue, want>>
  /\ UNCHANGED <<onboarding, connect_flag, Protocol, flash, mgmtVars, histVars>>

(* StartDirectConfigConn: the settings have arrived.                       *)
DirectConfigured ==
  /\ MgmtBlocked
  /\ pc["Boot"] = "directcfg"
  /\ DirectCfgFlag = 1
  /\ DirectCfgFlag' = 0
  /\ StaModeConnStart("Boot", NoNet)
  /\ UNCHANGED <<sysVars, connect_flag, reset_armed, parVars, config, flash, mgmtVars,
                 histVars>>

(* Connected with the settings received: they are saved.                   *)
DirectConnected ==
  /\ Polled("Boot", 1)
  /\ want["Boot"] = NoNet
  /\ Agent_SaveSSIDAndKey("Boot", Ssid)
  /\ UNCHANGED <<sysVars, flagVars, parVars, flash, driver, queue, mgmtVars, want,
                 histVars>>

DirectFailed ==
  /\ Polled("Boot", 0)
  /\ want["Boot"] = NoNet
  /\ StationFromBoot
  /\ UNCHANGED <<onboarding, connect_flag, DirectCfgFlag, parVars, flash, mgmtVars,
                 histVars>>

(* After RespondConnBroadcast direct configuration is complete.            *)
DirectDone ==
  /\ MgmtBlocked
  /\ pc["Boot"] = "respond"
  /\ status' = "STA_CONNECTED"
  /\ reset_armed' = TRUE
  /\ Goto("Boot", "done")
  /\ UNCHANGED <<onboarding, connect_flag, DirectCfgFlag, parVars, config, flash,
                 driver, queue, mgmtVars, want, histVars>>

StationConnected ==
  /\ Polled("Boot", 1)
  /\ want["Boot"] = Hard
  /\ status' = "STA_CONNECTED"
  /\ Goto("Boot", "done")
  /\ UNCHANGED <<onboarding, flagVars, parVars, config, flash, driver, queue, mgmtVars,
                 want, histVars>>

(* DRV_WiFi_SoftAPModeStart: InfWiFiStop, then OSTimeDly(10) ...           *)
StationFailed ==
  /\ Polled("Boot", 0)
  /\ want["Boot"] = Hard
  /\ InfWiFiStop
  /\ Goto("Boot", "apstart")
  /\ UNCHANGED <<sysVars, flagVars, parVars, config, flash, mgmtVars, want, histVars>>

(* ... then the access point is started.                                   *)
SoftAPModeStart ==
  /\ MgmtBlocked
  /\ pc["Boot"] = "apstart"
  /\ Protocol' = "SOFTAP"
  /\ Ssid' = NoNet
  /\ driver' = "joining"
  /\ status' = "SOFTAP"
  /\ Goto("Boot", "done")
  /\ UNCHANGED <<onboarding, flagVars, config, flash, queue, mgmtVars, want, histVars>>

BootStep ==
  \/ BootButton \/ DirectConfigured \/ DirectConnected \/ DirectFailed \/ DirectDone
  \/ StationConnected \/ StationFailed \/ SoftAPModeStart

-----------------------------------------------------------------------------
(* Udp: lan_softap_config, whichever mode the device is in.                *)

lan_softap_config(n) ==
  /\ MgmtBlocked
  /\ pc["Boot"] = "done" /\ pc["Udp"] = "idle"
  /\ ip
  /\ onboarding' = "ONBOARDING"
  /\ StaModeConnStart("Udp", n)
  /\ UNCHANGED <<status, flagVars, parVars, config, flash, mgmtVars, histVars>>

(* Variant: the result of DRV_WiFi_StaModeConnStart is not looked at.      *)
UdpConnectedAny ==
  /\ MgmtBlocked
  /\ pc["Udp"] = "poll" /\ connect_flag # 2
  /\ onboarding' = "SUCCESS"
  /\ Agent_SaveSSIDAndKey("Udp", want["Udp"])
  /\ UNCHANGED <<status, flagVars, parVars, flash, driver, queue, mgmtVars, want,
                 histVars>>

UdpConnected ==
  /\ Polled("Udp", 1)
  /\ onboarding' = "SUCCESS"
  /\ Agent_SaveSSIDAndKey("Udp", want["Udp"])
  /\ UNCHANGED <<status, flagVars, parVars, flash, driver, queue, mgmtVars, want,
                 histVars>>

UdpFailed ==
  /\ Polled("Udp", 0)
  /\ Goto("Udp", "idle")
  /\ UNCHANGED <<sysVars, flagVars, parVars, config, flash, driver, queue, mgmtVars,
                 want, histVars>>

(* After RespondConnBroadcast the device restarts.                         *)
UdpDone == MgmtBlocked /\ pc["Udp"] = "respond" /\ ChipReset

UdpStep == (\E n \in Nets : lan_softap_config(n)) \/ UdpConnected \/ UdpFailed \/ UdpDone

-----------------------------------------------------------------------------
(* Reset: SysResetThread, when the button is held for seven samples.       *)

ResetPressed ==
  /\ MgmtBlocked
  /\ reset_armed
  /\ pc["Reset"] = "idle"
  /\ Goto("Reset", "read")
  /\ UNCHANGED <<sysVars, flagVars, parVars, config, flash, driver, queue, mgmtVars,
                 want, histVars>>

(* OSTimeDly(100) after the record is saved, then nl6621_Reset.            *)
ResetDone == MgmtBlocked /\ pc["Reset"] = "reboot" /\ ChipReset

(* One step of a routine every task may be in.                             *)
CallStep(t) ==
  \/ StaStart(t) \/ StaSettle(t)
  \/ FlashRead(t) \/ FlashErase(t) \/ FlashProgram(t) \/ FlashProgram2(t)

-----------------------------------------------------------------------------
(* mgmt: DefaultProc, L2LinkUp, L2LinkDown and AppEvtCallBack.             *)

Receive(e) ==
  /\ mgmt = "idle"
  /\ queue # <<>> /\ Head(queue) = e
  /\ queue' = Tail(queue)

(* Variant: the event is counted.                                          *)
EvtLinkUpCounts == DirectCfgFlag' = 1 /\ connect_flag' = connect_flag + 1

EvtLinkUp == DirectCfgFlag' = 1 /\ connect_flag' = 1

(* In station mode an address is needed first: ifUpWhenDhcp.               *)
LinkUpSta ==
  /\ Receive("LINK_UP")
  /\ Protocol = "STA"
  /\ IF ip
     THEN EvtLinkUp /\ UNCHANGED mgmt
     ELSE /\ mgmt' = IF \E t \in Tasks : pc[t] = "settle" THEN "first" ELSE "dhcp"
          /\ UNCHANGED <<DirectCfgFlag, connect_flag>>
  /\ UNCHANGED <<sysVars, reset_armed, parVars, config, flash, driver, ip, dhcps, pc,
                 want, histVars>>

(* The access point has a static address and starts the DHCP server; its   *)
(* failure is hidden by the result of DNSS_Start, which may fail as well.  *)
LinkUpSoftAP ==
  /\ Receive("LINK_UP")
  /\ Protocol = "SOFTAP"
  /\ ip' = TRUE
  /\ dhcps' \in BOOLEAN
  /\ EvtLinkUp \/ UNCHANGED <<DirectCfgFlag, connect_flag>>
  /\ UNCHANGED <<sysVars, reset_armed, parVars, config, flash, driver, mgmt, pc, want,
                 histVars>>

(* The wait polls LinkReady before it looks at the address again.          *)
DhcpDone ==
  /\ mgmt = "dhcp"
  /\ driver = "up" /\ ip
  /\ mgmt' = "idle"
  /\ EvtLinkUp
  /\ UNCHANGED <<sysVars, reset_armed, parVars, config, flash, driver, queue, ip, dhcps,
                 pc, want, histVars>>

DhcpFail ==
  /\ mgmt = "dhcp"
  /\ driver # "up"
  /\ mgmt' = "idle"
  /\ UNCHANGED <<sysVars, flagVars, parVars, config, flash, driver, queue, ip, dhcps,
                 pc, want, histVars>>

LinkDown ==
  /\ Receive("LINK_DOWN")
  /\ ip' = FALSE
  /\ dhcps' = IF Protocol = "SOFTAP" THEN FALSE ELSE dhcps
  /\ UNCHANGED <<sysVars, flagVars, parVars, config, flash, driver, mgmt, pc, want,
                 histVars>>

(* Variant: the device does not restart.                                   *)
JoinFailNoReset ==
  /\ Receive("JOIN_FAIL")
  /\ connect_flag' = 0
  /\ UNCHANGED <<sysVars, DirectCfgFlag, reset_armed, parVars, config, flash, driver,
                 mgmtVars, pc, want, histVars>>

(* Variant: the flag that is polled keeps its value.                       *)
JoinFailKeepsFlag ==
  /\ mgmt = "idle" /\ queue # <<>> /\ Head(queue) = "JOIN_FAIL"
  /\ \/ status = "SOFTAP" /\ ChipReset
     \/ /\ status # "SOFTAP"
        /\ queue' = Tail(queue)
        /\ UNCHANGED <<sysVars, flagVars, parVars, config, flash, driver, mgmtVars, pc,
                       want, histVars>>

(* In soft AP mode the device restarts, also when it was trying to join a  *)
(* network it was just given.                                              *)
JoinFail ==
  /\ mgmt = "idle" /\ queue # <<>> /\ Head(queue) = "JOIN_FAIL"
  /\ \/ status = "SOFTAP" /\ ChipReset
     \/ /\ status # "SOFTAP"
        /\ queue' = Tail(queue)
        /\ connect_flag' = 0
        /\ UNCHANGED <<sysVars, DirectCfgFlag, reset_armed, parVars, config, flash,
                       driver, mgmtVars, pc, want, histVars>>

DirectCfgDone ==
  /\ Receive("DIRECT_CFG_DONE")
  /\ DirectCfgFlag' = 1
  /\ UNCHANGED <<sysVars, connect_flag, reset_armed, parVars, config, flash, driver,
                 mgmtVars, pc, want, histVars>>

MgmtStep ==
  \/ LinkUpSta \/ LinkUpSoftAP \/ DhcpDone \/ DhcpFail \/ LinkDown \/ JoinFail
  \/ DirectCfgDone

-----------------------------------------------------------------------------
(* The Wi-Fi driver, the networks and the power supply.                    *)

Post(e) == Len(queue) < MaxQueue /\ queue' = Append(queue, e)

DriverUp ==
  /\ driver = "joining"
  /\ driver' = "up"
  /\ Post("LINK_UP")
  /\ linked' = IF Protocol = "STA" THEN linked \cup {Ssid} ELSE linked
  /\ UNCHANGED <<sysVars, flagVars, parVars, config, flash, mgmtVars, pc, want, losses>>

(* The attempts of a join last longer than OSTimeDly(10).                  *)
DriverFails ==
  /\ driver = "joining"
  /\ \A t \in Tasks : pc[t] # "settle"
  /\ driver' = "stopped"
  /\ Post("JOIN_FAIL")
  /\ UNCHANGED <<sysVars, flagVars, parVars, config, flash, mgmtVars, pc, want, histVars>>

(* A station's link is lost; the driver tries to join again.               *)
DriverLosesLink ==
  /\ driver = "up" /\ Protocol = "STA"
  /\ losses < MaxLosses
  /\ losses' = losses + 1
  /\ driver' = "joining"
  /\ Post("LINK_DOWN")
  /\ UNCHANGED <<sysVars, flagVars, parVars, config, flash, mgmtVars, pc, want, linked>>

(* A phone sends the settings.                                             *)
PhoneConfigures ==
  /\ driver = "directcfg" /\ Ssid = NoNet
  /\ Ssid' \in Nets
  /\ Post("DIRECT_CFG_DONE")
  /\ UNCHANGED <<sysVars, flagVars, Protocol, config, flash, driver, mgmtVars, pc, want,
                 histVars>>

(* The network's DHCP server answers.                                      *)
AddressAssigned ==
  /\ mgmt \in {"first", "dhcp"}
  /\ driver = "up" /\ ~ip
  /\ ip' = TRUE
  /\ UNCHANGED <<sysVars, flagVars, parVars, config, flash, driver, queue, mgmt, dhcps,
                 pc, want, histVars>>

(* The power fails, at any moment.                                         *)
PowerLoss == ChipReset

Environment ==
  \/ DriverUp \/ DriverFails \/ DriverLosesLink \/ PhoneConfigures \/ AddressAssigned
  \/ PowerLoss

Next ==
  \/ \E t \in Tasks : CallStep(t)
  \/ BootStep \/ UdpStep \/ ResetPressed \/ ResetDone \/ MgmtStep \/ Environment

Spec == Init /\ [][Next]_vars

(* Fairness: a ready task runs; the driver ends every join with success or *)
(* failure.  Nothing is assumed of the phone, the button or the power.     *)
FairSpec ==
  /\ Spec
  /\ \A t \in Tasks : WF_vars(CallStep(t))
  /\ WF_vars(BootStep) /\ WF_vars(MgmtStep)
  /\ WF_vars(UdpConnected \/ UdpFailed \/ UdpDone) /\ WF_vars(ResetDone)
  /\ WF_vars(DriverUp \/ DriverFails)

(* Besides, every network's DHCP server answers.                           *)
FairNetSpec == FairSpec /\ WF_vars(AddressAssigned)

-----------------------------------------------------------------------------
(* Properties.                                                             *)

(* sys_status.status tells the mode of the radio: STA_CONNECTED is never   *)
(* shown by an access point, and SOFTAP by a station only while            *)
(* lan_softap_config is at work, which in that state always ends in a      *)
(* restart: the device is not left without a network nor a way to get one. *)
ModeMatches ==
  /\ status = "STA_CONNECTED" => Protocol = "STA"
  /\ status = "SOFTAP" => Protocol = "SOFTAP" \/ pc["Udp"] # "idle"

(* The DHCP server of the access point never runs while the device is a    *)
(* station in somebody else's network: L2LinkDown, which looks at the      *)
(* present Protocol to decide whether to stop it, comes before the change. *)
NoRogueDhcp == dhcps => Protocol = "SOFTAP"

(* What is in the flash is what fits of settings the device has been       *)
(* linked with, over lost links, late events, restarts and failed attempts *)
(* (the settings themselves when SSID and key have at most 32 bytes).      *)
CredentialsProven == flash.net \in Nets => \E n \in linked : flash.net = Kept(n)

(* The two tasks that write the record without a lock never leave the bits *)
(* of two networks over each other.                                        *)
StoreNotMixed == flash.net # "mixed"

(* When SysResetThread is about to restart the device its record is in the *)
(* flash, even if lan_softap_config was writing at the same time -- unless *)
(* that task has erased the sector once more since.                        *)
FactoryReset ==
  pc["Reset"] = "reboot" /\ pc["Udp"] \notin {"program", "program2", "respond"}
    => flash = Cleared

(* The record two tasks write without a lock is one that one of them wrote.*)
StoreSound == StoreNotMixed /\ FactoryReset

(* DRV_WiFi_StaModeConnStart returns: the event it polls for is neither    *)
(* lost in the window before the flag is prepared nor swallowed by a link  *)
(* that goes up and down.                                                  *)
ConnectReturns == \A t \in Tasks : pc[t] = "poll" ~> pc[t] # "poll"

=============================================================================
