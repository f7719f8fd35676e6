-------------------------- MODULE OnboardingProofs --------------------------
(***************************************************************************)
(* Proofs about Onboarding for any set of networks and any bounds.  The    *)
(* inductive invariant is built in layers; the proof of each uses the ones *)
(* before it.                                                              *)
(***************************************************************************)
EXTENDS Onboarding, TLAPS

-----------------------------------------------------------------------------
(* First layer: types, and which task can be where.                        *)

(* The tasks start one after the other: Udp works only when Boot is done,  *)
(* and Reset only once Boot has armed it, which Boot does before it tries  *)
(* the compiled-in network or after it has saved the one it was given.     *)
ControlOK ==
  /\ pc["Boot"] \in StaPcs \cup WritePcs
                    \cup {"button", "directcfg", "apstart", "respond", "done"}
  /\ pc["Udp"] \in StaPcs \cup WritePcs \cup {"respond", "idle"}
  /\ pc["Reset"] \in WritePcs \cup {"idle", "reboot"}
  /\ pc["Udp"] # "idle" => pc["Boot"] = "done"
  /\ pc["Reset"] # "idle" => reset_armed
  /\ reset_armed => pc["Boot"] \in StaPcs \cup {"apstart", "done"}
  /\ reset_armed /\ pc["Boot"] \in StaPcs => want["Boot"] = Hard
  /\ pc["Udp"] \in StaPcs => want["Udp"] \in Nets

Inv1 == TypeOK /\ ControlOK

(* Where the tasks are after a start.                                      *)
LEMMA FirstPcs ==
  /\ FirstPc \in [Tasks -> Pcs]
  /\ FirstPc["Boot"] = "button" /\ FirstPc["Udp"] = "idle" /\ FirstPc["Reset"] = "idle"
  BY DEF FirstPc, Tasks, Pcs

(* What fits of a network in the record is a network.                      *)
LEMMA KeptType ==
  ASSUME NEW n \in Nets \cup {NoNet}
  PROVE  Kept(n) \in Nets \cup {NoNet}
  BY OnboardingAssumption DEF Kept

(* What saving a network leaves to show.                                   *)
LEMMA SavedType ==
  ASSUME NEW t, NEW n \in Nets \cup {NoNet}, Agent_SaveSSIDAndKey(t, n)
  PROVE  /\ config' \in Record
         /\ config'.net \in Nets \cup {NoNet}
         /\ config'.net = Kept(n)
         /\ Goto(t, "read")
  BY KeptType DEF Agent_SaveSSIDAndKey, Record

LEMMA InitInv1 == Init => Inv1
<1> SUFFICES ASSUME Init PROVE Inv1
  OBVIOUS
<1>1. ControlOK
  BY FirstPcs DEF Init, ControlOK, StaPcs, WritePcs
<1>2. flash \in Record /\ config \in Record
  BY DEF Init, Record, Erased, Cleared
<1>3. /\ queue \in Seq(Events) /\ want \in [Tasks -> Nets \cup {NoNet}]
      /\ pc \in [Tasks -> Pcs]
  BY FirstPcs DEF Init
<1>4. TypeOK
  BY <1>2, <1>3 DEF Init, TypeOK
<1> QED
  BY <1>1, <1>4 DEF Inv1

LEMMA ResetInv1 ==
  ASSUME Inv1, ChipReset
  PROVE  Inv1'
<1>1. ControlOK'
  BY FirstPcs DEF ChipReset, ControlOK, StaPcs, WritePcs
<1>2. config' \in Record
  BY DEF ChipReset, Record, Cleared
<1>3. /\ queue' \in Seq(Events) /\ want' \in [Tasks -> Nets \cup {NoNet}]
      /\ pc' \in [Tasks -> Pcs]
  BY FirstPcs DEF ChipReset
<1>4. TypeOK'
  BY <1>2, <1>3 DEF ChipReset, Inv1, TypeOK, histVars
<1> QED
  BY <1>1, <1>4 DEF Inv1

(* DRV_WiFi_StaModeConnStart and the routines every task may be in.        *)
LEMMA CallInv1 ==
  ASSUME Inv1, NEW t \in Tasks, CallStep(t)
  PROVE  Inv1'
<1> USE DEF Inv1, TypeOK, ControlOK, Tasks, Pcs, StaPcs, WritePcs, Goto, sysVars, flagVars,
            parVars, mgmtVars, histVars
<1>1. CASE StaStart(t)
  BY <1>1 DEF StaStart
<1>2. CASE StaSettle(t)
  BY <1>2 DEF StaSettle
<1>3. CASE FlashRead(t)
  BY <1>3 DEF FlashRead
<1>4. CASE FlashErase(t)
  BY <1>4 DEF FlashErase, Erased, Record
<1>5. CASE FlashProgram(t)
  BY <1>5 DEF FlashProgram, Data, Cleared, Record
<1>6. CASE FlashProgram2(t)
  BY <1>6 DEF FlashProgram2, Data, Cleared, Record, Over
<1> QED
  BY <1>1, <1>2, <1>3, <1>4, <1>5, <1>6 DEF CallStep

(* The second alternative of BootButton.                                   *)
BootConfigures ==
  /\ status' = "DIRECTCONFIG" /\ Ssid' = NoNet /\ DirectCfgFlag' = 0
  /\ driver' = "directcfg"
  /\ Goto("Boot", "directcfg")
  /\ UNCHANGED <<reset_armed, config, queue, want>>

LEMMA BootInv1 ==
  ASSUME Inv1, BootStep
  PROVE  Inv1'
<1> USE OnboardingAssumption
    DEF Inv1, TypeOK, ControlOK, Tasks, Pcs, StaPcs, WritePcs, Goto, sysVars, flagVars,
        parVars, mgmtVars, histVars, Polled, StaModeConnStart, InfWiFiStop, Events
<1>1. CASE BootButton
  <2>1. CASE StationFromBoot /\ UNCHANGED <<DirectCfgFlag, Ssid>>
    BY <1>1, <2>1 DEF BootButton, StationFromBoot, Record
  <2>2. CASE BootConfigures
    BY <1>1, <2>2 DEF BootButton, BootConfigures
  <2> QED
    BY <1>1, <2>1, <2>2 DEF BootButton, BootConfigures
<1>2. CASE DirectConfigured
  BY <1>2 DEF DirectConfigured
<1>3. CASE DirectConnected
  <2>1. Agent_SaveSSIDAndKey("Boot", Ssid) /\ Ssid \in Nets \cup {NoNet}
    BY <1>3 DEF DirectConnected
  <2>2. config' \in Record /\ Goto("Boot", "read")
    BY <2>1, SavedType
  <2> QED
    BY <1>3, <2>2 DEF DirectConnected
<1>4. CASE DirectFailed
  BY <1>4 DEF DirectFailed, StationFromBoot, Record
<1>5. CASE DirectDone
  BY <1>5 DEF DirectDone
<1>6. CASE StationConnected
  BY <1>6 DEF StationConnected
<1>7. CASE StationFailed
  BY <1>7 DEF StationFailed
<1>8. CASE SoftAPModeStart
  BY <1>8 DEF SoftAPModeStart
<1> QED
  BY <1>1, <1>2, <1>3, <1>4, <1>5, <1>6, <1>7, <1>8 DEF BootStep

LEMMA UdpResetInv1 ==
  ASSUME Inv1, UdpStep \/ ResetPressed \/ ResetDone
  PROVE  Inv1'
<1> USE OnboardingAssumption
    DEF Inv1, TypeOK, ControlOK, Tasks, Pcs, StaPcs, WritePcs, Goto, sysVars, flagVars,
        parVars, mgmtVars, histVars, Polled, StaModeConnStart, InfWiFiStop, Events
<1>1. ASSUME NEW n \in Nets, lan_softap_config(n) PROVE Inv1'
  BY <1>1 DEF lan_softap_config
<1>2. CASE UdpConnected
  <2>1. Agent_SaveSSIDAndKey("Udp", want["Udp"]) /\ want["Udp"] \in Nets \cup {NoNet}
    BY <1>2 DEF UdpConnected
  <2>2. config' \in Record /\ Goto("Udp", "read")
    BY <2>1, SavedType
  <2> QED
    BY <1>2, <2>2 DEF UdpConnected
<1>3. CASE UdpFailed
  BY <1>3 DEF UdpFailed
<1>4. CASE UdpDone \/ ResetDone
  BY <1>4, ResetInv1 DEF UdpDone, ResetDone
<1>5. CASE ResetPressed
  BY <1>5 DEF ResetPressed
<1> QED
  BY <1>1, <1>2, <1>3, <1>4, <1>5 DEF UdpStep

LEMMA MgmtInv1 ==
  ASSUME Inv1, MgmtStep
  PROVE  Inv1'
<1>1. ASSUME NEW e, Receive(e) PROVE queue' \in Seq(Events)
  BY <1>1 DEF Receive, Inv1, TypeOK
<1> USE DEF Inv1, TypeOK, ControlOK, sysVars, flagVars, parVars, mgmtVars, histVars, EvtLinkUp
<1>2. CASE LinkUpSta
  BY <1>1, <1>2 DEF LinkUpSta
<1>3. CASE LinkUpSoftAP
  BY <1>1, <1>3 DEF LinkUpSoftAP
<1>4. CASE DhcpDone
  BY <1>4 DEF DhcpDone
<1>5. CASE DhcpFail
  BY <1>5 DEF DhcpFail
<1>6. CASE LinkDown
  <2>1. dhcps' \in BOOLEAN
    BY <1>6, Zenon DEF LinkDown
  <2>2. /\ ip' \in BOOLEAN /\ queue' \in Seq(Events)
        /\ UNCHANGED <<sysVars, flagVars, parVars, config, flash, driver, mgmt, pc, want,
                       histVars>>
    BY <1>1, <1>6 DEF LinkDown
  <2>3. TypeOK'
    BY <2>1, <2>2
  <2>4. ControlOK'
    BY <2>2
  <2> QED
    BY <2>3, <2>4
<1>7. CASE JoinFail
  <2>1. CASE ChipReset
    BY <2>1, ResetInv1
  <2>2. CASE status # "SOFTAP"
    <3>1. Receive("JOIN_FAIL")
      BY <1>7, <2>2 DEF JoinFail, Receive
    <3>2. queue' \in Seq(Events)
      BY <1>1, <3>1
    <3> QED
      BY <1>7, <2>2, <3>2 DEF JoinFail
  <2> QED
    BY <1>7, <2>1, <2>2 DEF JoinFail
<1>8. CASE DirectCfgDone
  BY <1>1, <1>8 DEF DirectCfgDone
<1> QED
  BY <1>2, <1>3, <1>4, <1>5, <1>6, <1>7, <1>8 DEF MgmtStep

LEMMA EnvironmentInv1 ==
  ASSUME Inv1, Environment
  PROVE  Inv1'
<1>1. ASSUME NEW e \in Events, Post(e) PROVE queue' \in Seq(Events)
  BY <1>1 DEF Post, Inv1, TypeOK
<1> USE DEF Inv1, TypeOK, ControlOK, sysVars, flagVars, parVars, mgmtVars, histVars, Events
<1>2. CASE DriverUp
  BY <1>1, <1>2 DEF DriverUp
<1>3. CASE DriverFails
  BY <1>1, <1>3 DEF DriverFails
<1>4. CASE DriverLosesLink
  BY <1>1, <1>4 DEF DriverLosesLink
<1>5. CASE PhoneConfigures
  BY <1>1, <1>5 DEF PhoneConfigures
<1>6. CASE AddressAssigned
  BY <1>6 DEF AddressAssigned
<1>7. CASE PowerLoss
  BY <1>7, ResetInv1 DEF PowerLoss
<1> QED
  BY <1>2, <1>3, <1>4, <1>5, <1>6, <1>7 DEF Environment

LEMMA StepInv1 == Inv1 /\ [Next]_vars => Inv1'
<1> SUFFICES ASSUME Inv1, [Next]_vars PROVE Inv1'
  OBVIOUS
<1>1. CASE UNCHANGED vars
  BY <1>1 DEF Inv1, TypeOK, ControlOK, vars, sysVars, flagVars, parVars, mgmtVars, histVars
<1> QED
  BY <1>1, CallInv1, BootInv1, UdpResetInv1, MgmtInv1, EnvironmentInv1 DEF Next

-----------------------------------------------------------------------------
(* Second layer: sys_status.status against the mode of the radio.          *)

(* A task that has set up the station mode keeps it until it is done; in   *)
(* soft AP mode a failed join restarts the device and never reaches the    *)
(* flag lan_softap_config polls.                                           *)
ModeOK ==
  /\ pc["Boot"] \in {"settle", "poll", "apstart", "respond"} \cup WritePcs => Protocol = "STA"
  /\ pc["Udp"] \in {"settle", "poll", "respond"} \cup WritePcs => Protocol = "STA"
  /\ pc["Boot"] \in {"button", "directcfg"} => Protocol = "SOFTAP"
  /\ status \in {"SOFTAP", "STA_CONNECTED"} => pc["Boot"] = "done"
  /\ status = "SOFTAP" /\ pc["Udp"] = "poll" => connect_flag # 0
  /\ ModeMatches

LEMMA InitModeOK == Init => ModeOK
  BY FirstPcs DEF Init, ModeOK, ModeMatches, WritePcs

LEMMA ResetModeOK == ChipReset => ModeOK'
  BY FirstPcs DEF ChipReset, ModeOK, ModeMatches, WritePcs

LEMMA StepModeOK == Inv1 /\ ModeOK /\ [Next]_vars => ModeOK'
<1> SUFFICES ASSUME Inv1, ModeOK, [Next]_vars PROVE ModeOK'
  OBVIOUS
<1>0. /\ ControlOK /\ pc \in [Tasks -> Pcs]
      /\ Protocol \in {"STA", "SOFTAP"}
  BY DEF Inv1, TypeOK
<1>r. CASE ChipReset
  BY <1>r, ResetModeOK
<1> USE <1>0
    DEF ModeOK, ModeMatches, ControlOK, Tasks, StaPcs, WritePcs, Goto, sysVars,
        flagVars, parVars, mgmtVars, histVars, Polled, StaModeConnStart, EvtLinkUp
<1>1. ASSUME NEW t \in Tasks, CallStep(t) PROVE ModeOK'
  <2>1. CASE StaStart(t)
    BY <2>1 DEF StaStart
  <2>2. CASE StaSettle(t)
    BY <2>2 DEF StaSettle
  <2>3. CASE FlashRead(t)
    BY <2>3 DEF FlashRead
  <2>4. CASE FlashErase(t)
    BY <2>4 DEF FlashErase
  <2>5. CASE FlashProgram(t)
    BY <2>5 DEF FlashProgram
  <2>6. CASE FlashProgram2(t)
    BY <2>6 DEF FlashProgram2
  <2> QED
    BY <1>1, <2>1, <2>2, <2>3, <2>4, <2>5, <2>6 DEF CallStep
<1>2. CASE BootStep
  <2>1. CASE BootButton
    BY <2>1 DEF BootButton, StationFromBoot
  <2>2. CASE DirectConfigured
    BY <2>2 DEF DirectConfigured
  <2>3. CASE DirectConnected
    BY <2>3 DEF DirectConnected, Agent_SaveSSIDAndKey
  <2>4. CASE DirectFailed
    BY <2>4 DEF DirectFailed, StationFromBoot
  <2>5. CASE DirectDone
    BY <2>5 DEF DirectDone
  <2>6. CASE StationConnected
    BY <2>6 DEF StationConnected
  <2>7. CASE StationFailed
    BY <2>7 DEF StationFailed
  <2>8. CASE SoftAPModeStart
    BY <2>8 DEF SoftAPModeStart
  <2> QED
    BY <1>2, <2>1, <2>2, <2>3, <2>4, <2>5, <2>6, <2>7, <2>8 DEF BootStep
<1>3. CASE UdpStep
  <2>1. ASSUME NEW n \in Nets, lan_softap_config(n) PROVE ModeOK'
    BY <2>1 DEF lan_softap_config
  <2>2. CASE UdpConnected
    BY <2>2 DEF UdpConnected, Agent_SaveSSIDAndKey
  <2>3. CASE UdpFailed
    BY <2>3 DEF UdpFailed
  <2> QED
    BY <1>3, <1>r, <2>1, <2>2, <2>3 DEF UdpStep, UdpDone
<1>4. CASE ResetPressed
  BY <1>4 DEF ResetPressed
<1>5. CASE MgmtStep
  <2>1. CASE LinkUpSta
    BY <2>1 DEF LinkUpSta
  <2>2. CASE LinkUpSoftAP
    BY <2>2 DEF LinkUpSoftAP
  <2>3. CASE DhcpDone
    BY <2>3 DEF DhcpDone
  <2>4. CASE DhcpFail
    BY <2>4 DEF DhcpFail
  <2>5. CASE LinkDown
    BY <2>5 DEF LinkDown
  <2>6. CASE JoinFail
    BY <1>r, <2>6 DEF JoinFail
  <2>7. CASE DirectCfgDone
    BY <2>7 DEF DirectCfgDone
  <2> QED
    BY <1>5, <2>1, <2>2, <2>3, <2>4, <2>5, <2>6, <2>7 DEF MgmtStep
<1>6. CASE Environment
  BY <1>6, <1>r DEF Environment, DriverUp, DriverFails, DriverLosesLink, PhoneConfigures,
                    AddressAssigned, PowerLoss
<1>7. CASE UNCHANGED vars
  BY <1>7 DEF vars
<1> QED
  BY <1>r, <1>1, <1>2, <1>3, <1>4, <1>5, <1>6, <1>7 DEF Next, ResetDone

-----------------------------------------------------------------------------
(* Third layer: the driver stands still where a task has stopped it.       *)

DriverOK ==
  /\ \A t \in Tasks : pc[t] = "start" => driver = "stopped"
  /\ pc["Boot"] \in {"button", "apstart"} => driver = "stopped"
  /\ driver = "directcfg" <=> pc["Boot"] = "directcfg"

LEMMA InitDriverOK == Init => DriverOK
  BY FirstPcs DEF Init, DriverOK, Tasks

LEMMA ResetDriverOK == ChipReset => DriverOK'
  BY FirstPcs DEF ChipReset, DriverOK, Tasks

LEMMA StepDriverOK == Inv1 /\ DriverOK /\ [Next]_vars => DriverOK'
<1> SUFFICES ASSUME Inv1, DriverOK, [Next]_vars PROVE DriverOK'
  OBVIOUS
<1>0. ControlOK /\ pc \in [Tasks -> Pcs]
  BY DEF Inv1, TypeOK
<1>r. CASE ChipReset
  BY <1>r, ResetDriverOK
<1> USE <1>0
    DEF DriverOK, ControlOK, Tasks, StaPcs, WritePcs, Goto, Polled, StaModeConnStart,
        InfWiFiStop
<1>1. ASSUME NEW t \in Tasks, CallStep(t) PROVE DriverOK'
  <2>1. CASE StaStart(t)
    BY <2>1 DEF StaStart
  <2>2. CASE StaSettle(t)
    BY <2>2 DEF StaSettle
  <2>3. CASE FlashRead(t) \/ FlashErase(t)
    BY <2>3 DEF FlashRead, FlashErase
  <2>4. CASE FlashProgram(t) \/ FlashProgram2(t)
    BY <2>4 DEF FlashProgram, FlashProgram2
  <2> QED
    BY <1>1, <2>1, <2>2, <2>3, <2>4 DEF CallStep
<1>2. CASE BootStep
  <2>1. CASE BootButton
    BY <2>1 DEF BootButton, StationFromBoot
  <2>2. CASE DirectConfigured \/ DirectFailed
    BY <2>2 DEF DirectConfigured, DirectFailed, StationFromBoot
  <2>3. CASE DirectConnected \/ DirectDone
    BY <2>3 DEF DirectConnected, Agent_SaveSSIDAndKey, DirectDone
  <2>4. CASE StationConnected \/ StationFailed
    BY <2>4 DEF StationConnected, StationFailed
  <2>5. CASE SoftAPModeStart
    BY <2>5 DEF SoftAPModeStart
  <2> QED
    BY <1>2, <2>1, <2>2, <2>3, <2>4, <2>5 DEF BootStep
<1>3. CASE UdpStep
  <2>1. ASSUME NEW n \in Nets, lan_softap_config(n) PROVE DriverOK'
    BY <2>1 DEF lan_softap_config
  <2>2. CASE UdpConnected \/ UdpFailed
    BY <2>2 DEF UdpConnected, Agent_SaveSSIDAndKey, UdpFailed
  <2> QED
    BY <1>3, <1>r, <2>1, <2>2 DEF UdpStep, UdpDone
<1>4. CASE ResetPressed
  BY <1>4 DEF ResetPressed
<1>5. CASE MgmtStep
  BY <1>5, <1>r DEF MgmtStep, LinkUpSta, LinkUpSoftAP, DhcpDone, DhcpFail, LinkDown, JoinFail,
                    DirectCfgDone
<1>6. CASE Environment
  BY <1>6, <1>r DEF Environment, DriverUp, DriverFails, DriverLosesLink, PhoneConfigures,
                    AddressAssigned, PowerLoss
<1>7. CASE UNCHANGED vars
  BY <1>7 DEF vars
<1> QED
  BY <1>r, <1>1, <1>2, <1>3, <1>4, <1>5, <1>6, <1>7 DEF Next, ResetDone

-----------------------------------------------------------------------------
(* Fourth layer: the radio in soft AP mode, and failed joins.              *)

(* While the device is an access point mgmt never waits, at most one kind  *)
(* of event is pending, and when the DHCP server runs the driver is up or  *)
(* a LINK_DOWN that will stop it is on its way.                            *)
AccessPoint ==
  Protocol = "SOFTAP" =>
    /\ mgmt = "idle"
    /\ \/ driver = "directcfg" /\ ~dhcps /\ queue \in Seq({"DIRECT_CFG_DONE"})
       \/ driver = "joining" /\ ~dhcps /\ queue = <<>>
       \/ driver = "stopped" /\ ~dhcps /\ queue \in {<<>>, <<"JOIN_FAIL">>}
       \/ driver = "stopped" /\ queue = <<"LINK_DOWN">>
       \/ driver = "up" /\ ~dhcps /\ queue = <<"LINK_UP">>
       \/ driver = "up" /\ queue = <<>>

(* The failure Boot polls for is the last event of its attempt: nothing is *)
(* under way when Boot goes on to start the access point.                  *)
JoinOK ==
  /\ pc["Boot"] \in {"start", "settle", "poll"} =>
       \A i \in 1 .. Len(queue) :
         queue[i] = "JOIN_FAIL" => i = Len(queue) /\ driver = "stopped" /\ pc["Boot"] = "poll"
  /\ pc["Boot"] = "apstart" \/ (pc["Boot"] = "poll" /\ connect_flag = 0)
       => driver = "stopped" /\ mgmt = "idle" /\ queue = <<>>

RadioOK == NoRogueDhcp /\ AccessPoint /\ JoinOK

LEMMA InitRadioOK == Init => RadioOK
  BY FirstPcs DEF Init, RadioOK, NoRogueDhcp, AccessPoint, JoinOK

LEMMA ResetRadioOK == ChipReset => RadioOK'
  BY FirstPcs DEF ChipReset, RadioOK, NoRogueDhcp, AccessPoint, JoinOK

LEMMA FirstEvent ==
  ASSUME NEW e \in Events
  PROVE  Append(<<>>, e) = <<e>>
  OBVIOUS

LEMMA CallRadioOK ==
  ASSUME Inv1, ModeOK, DriverOK, RadioOK, NEW t \in Tasks, CallStep(t)
  PROVE  RadioOK'
<1>0. /\ ControlOK /\ pc \in [Tasks -> Pcs] /\ queue \in Seq(Events)
      /\ Protocol \in {"STA", "SOFTAP"}
  BY DEF Inv1, TypeOK
<1> USE <1>0 DEF RadioOK, NoRogueDhcp, AccessPoint, JoinOK, ControlOK, ModeOK, DriverOK,
                 Tasks, StaPcs, WritePcs, Goto, flagVars, parVars, mgmtVars, MgmtBlocked
<1>1. CASE StaStart(t)
  <2>1. NoRogueDhcp'
    BY <1>1 DEF StaStart
  <2>2. AccessPoint'
    BY <1>1 DEF StaStart
  <2>3. JoinOK'
    BY <1>1 DEF StaStart
  <2> QED
    BY <2>1, <2>2, <2>3
<1>2. CASE StaSettle(t)
  BY <1>2 DEF StaSettle
<1>3. CASE FlashRead(t) \/ FlashErase(t)
  BY <1>3 DEF FlashRead, FlashErase
<1>4. CASE FlashProgram(t) \/ FlashProgram2(t)
  BY <1>4 DEF FlashProgram, FlashProgram2
<1> QED
  BY <1>1, <1>2, <1>3, <1>4 DEF CallStep

LEMMA BootRadioOK ==
  ASSUME Inv1, ModeOK, DriverOK, RadioOK, BootStep
  PROVE  RadioOK'
<1>0. /\ ControlOK /\ pc \in [Tasks -> Pcs] /\ queue \in Seq(Events)
      /\ Protocol \in {"STA", "SOFTAP"}
  BY DEF Inv1, TypeOK
<1> USE <1>0 DEF RadioOK, NoRogueDhcp, AccessPoint, JoinOK, ControlOK, ModeOK, DriverOK,
                 Tasks, StaPcs, WritePcs, Goto, flagVars, parVars, mgmtVars, MgmtBlocked,
                 Polled, StaModeConnStart, InfWiFiStop
<1>1. CASE BootButton
  <2>1. /\ pc["Boot"] = "button" /\ Protocol = "SOFTAP" /\ driver = "stopped"
        /\ queue = <<>> /\ mgmt = "idle" /\ ~dhcps
    BY <1>1 DEF BootButton
  <2>2. <<>> \in Seq({"DIRECT_CFG_DONE"})
    OBVIOUS
  <2>3. UNCHANGED <<Protocol, mgmt, dhcps>>
    BY <1>1 DEF BootButton
  <2>4. CASE StationFromBoot
    <3>1. driver' = "stopped" /\ pc'["Boot"] = "start" /\ queue' = <<>>
      BY <2>1, <2>4 DEF StationFromBoot
    <3> QED
      BY <2>1, <2>3, <3>1
  <2>5. CASE BootConfigures
    <3>1. driver' = "directcfg" /\ pc'["Boot"] = "directcfg" /\ queue' = <<>>
      BY <2>1, <2>5 DEF BootConfigures
    <3> QED
      BY <2>1, <2>2, <2>3, <3>1
  <2> QED
    BY <1>1, <2>4, <2>5 DEF BootButton, BootConfigures
<1>2. CASE DirectConfigured
  BY <1>2 DEF DirectConfigured
<1>3. CASE DirectConnected \/ DirectDone
  BY <1>3 DEF DirectConnected, Agent_SaveSSIDAndKey, DirectDone
<1>4. CASE DirectFailed
  BY <1>4 DEF DirectFailed, StationFromBoot
<1>5. CASE StationConnected
  BY <1>5 DEF StationConnected
<1>6. CASE StationFailed
  BY <1>6 DEF StationFailed
<1>7. CASE SoftAPModeStart
  BY <1>7 DEF SoftAPModeStart
<1> QED
  BY <1>1, <1>2, <1>3, <1>4, <1>5, <1>6, <1>7 DEF BootStep

LEMMA UdpRadioOK ==
  ASSUME Inv1, ModeOK, DriverOK, RadioOK, UdpStep \/ ResetPressed
  PROVE  RadioOK'
<1>0. /\ ControlOK /\ pc \in [Tasks -> Pcs] /\ queue \in Seq(Events)
      /\ Protocol \in {"STA", "SOFTAP"}
  BY DEF Inv1, TypeOK
<1> USE <1>0 DEF RadioOK, NoRogueDhcp, AccessPoint, JoinOK, ControlOK, ModeOK, DriverOK,
                 Tasks, StaPcs, WritePcs, Goto, flagVars, parVars, mgmtVars, MgmtBlocked,
                 Polled, StaModeConnStart, InfWiFiStop
<1>1. ASSUME NEW n \in Nets, lan_softap_config(n) PROVE RadioOK'
  <2>1. /\ pc["Boot"] = "done" /\ MgmtBlocked /\ InfWiFiStop
        /\ pc'["Boot"] = "done" /\ UNCHANGED <<Protocol, mgmt, dhcps>>
    BY <1>1 DEF lan_softap_config
  <2>2. CASE Protocol = "SOFTAP"
    <3>1. queue = <<>> /\ mgmt = "idle" /\ driver # "directcfg" /\ (dhcps => driver = "up")
      BY <2>1, <2>2
    <3>2. "LINK_DOWN" \in Events
      BY DEF Events
    <3>3. queue' = IF driver = "up" THEN <<"LINK_DOWN">> ELSE <<>>
      BY <2>1, <3>1, <3>2, FirstEvent
    <3> QED
      BY <2>1, <2>2, <3>1, <3>3
  <2> QED
    BY <2>1, <2>2
<1>2. CASE UdpConnected \/ UdpFailed
  BY <1>2 DEF UdpConnected, UdpFailed, Agent_SaveSSIDAndKey
<1>3. CASE ResetPressed
  BY <1>3 DEF ResetPressed
<1> QED
  BY <1>1, <1>2, <1>3, ResetRadioOK DEF UdpStep, UdpDone

LEMMA MgmtRadioOK ==
  ASSUME Inv1, ModeOK, DriverOK, RadioOK, MgmtStep
  PROVE  RadioOK'
<1>0. /\ ControlOK /\ pc \in [Tasks -> Pcs] /\ queue \in Seq(Events)
      /\ Protocol \in {"STA", "SOFTAP"}
  BY DEF Inv1, TypeOK
<1> USE <1>0 DEF RadioOK, NoRogueDhcp, AccessPoint, JoinOK, ModeOK, DriverOK,
                 flagVars, parVars, mgmtVars, Receive, EvtLinkUp
<1>1. CASE LinkUpSta
  BY <1>1 DEF LinkUpSta
<1>2. CASE LinkUpSoftAP
  BY <1>2 DEF LinkUpSoftAP
<1>3. CASE DhcpDone \/ DhcpFail
  BY <1>3 DEF DhcpDone, DhcpFail
<1>4. CASE LinkDown
  BY <1>4 DEF LinkDown
<1>5. CASE JoinFail
  BY <1>5, ResetRadioOK DEF JoinFail
<1>6. CASE DirectCfgDone
  BY <1>6 DEF DirectCfgDone
<1> QED
  BY <1>1, <1>2, <1>3, <1>4, <1>5, <1>6 DEF MgmtStep

LEMMA EnvironmentRadioOK ==
  ASSUME Inv1, ModeOK, DriverOK, RadioOK, Environment
  PROVE  RadioOK'
<1>0. /\ ControlOK /\ pc \in [Tasks -> Pcs] /\ queue \in Seq(Events)
      /\ Protocol \in {"STA", "SOFTAP"}
  BY DEF Inv1, TypeOK
<1> USE <1>0 DEF RadioOK, NoRogueDhcp, AccessPoint, JoinOK, ModeOK, DriverOK, Tasks,
                 flagVars, parVars, mgmtVars, Post
<1>e. {"LINK_UP", "JOIN_FAIL"} \subseteq Events
  BY DEF Events
<1>1. CASE DriverUp
  <2>1. /\ driver = "joining" /\ driver' = "up" /\ queue' = Append(queue, "LINK_UP")
        /\ UNCHANGED <<Protocol, mgmt, dhcps, pc, connect_flag>>
    BY <1>1 DEF DriverUp
  <2>2. AccessPoint'
    BY <1>e, <2>1, FirstEvent
  <2>3. JoinOK'
    BY <2>1
  <2> QED
    BY <2>1, <2>2, <2>3
<1>2. CASE DriverFails
  <2>1. /\ driver = "joining" /\ driver' = "stopped" /\ queue' = Append(queue, "JOIN_FAIL")
        /\ UNCHANGED <<Protocol, mgmt, dhcps, pc, connect_flag>>
        /\ pc["Boot"] # "settle"
    BY <1>2 DEF DriverFails
  <2>2. AccessPoint'
    BY <1>e, <2>1, FirstEvent
  <2>3. JoinOK'
    BY <2>1
  <2> QED
    BY <2>1, <2>2, <2>3
<1>3. CASE DriverLosesLink
  BY <1>3 DEF DriverLosesLink
<1>4. CASE PhoneConfigures
  BY <1>4 DEF PhoneConfigures
<1>5. CASE AddressAssigned
  BY <1>5 DEF AddressAssigned
<1> QED
  BY <1>1, <1>2, <1>3, <1>4, <1>5, ResetRadioOK DEF Environment, PowerLoss

LEMMA StepRadioOK ==
  Inv1 /\ ModeOK /\ DriverOK /\ RadioOK /\ [Next]_vars => RadioOK'
<1> SUFFICES ASSUME Inv1, ModeOK, DriverOK, RadioOK, [Next]_vars PROVE RadioOK'
  OBVIOUS
<1>1. CASE UNCHANGED vars
  BY <1>1 DEF RadioOK, NoRogueDhcp, AccessPoint, JoinOK, vars, flagVars, parVars, mgmtVars
<1> QED
  BY <1>1, CallRadioOK, BootRadioOK, UdpRadioOK, MgmtRadioOK, EnvironmentRadioOK, ResetRadioOK
  DEF Next, ResetDone

-----------------------------------------------------------------------------
(* Fifth layer: between two LINK_UPs that mgmt receives there is a         *)
(* LINK_DOWN, which clears the address.                                    *)

(* After the first i - 1 events of q no session is open, if c says that    *)
(* none is open now.                                                       *)
Closed(q, c, i) ==
  \/ \E j \in 1 .. i - 1 : q[j] = "LINK_DOWN" /\ \A k \in j + 1 .. i - 1 : q[k] # "LINK_UP"
  \/ c /\ \A k \in 1 .. i - 1 : q[k] # "LINK_UP"

NoSession == ~ip /\ mgmt = "idle"

(* Every LINK_UP in the queue finds no session open, and so would one that *)
(* a driver that is not up posts now.                                      *)
EventsOK ==
  /\ \A i \in 1 .. Len(queue) : queue[i] = "LINK_UP" => Closed(queue, NoSession, i)
  /\ driver # "up" => Closed(queue, NoSession, Len(queue) + 1)

LEMMA ClosedAppend ==
  ASSUME NEW q \in Seq(Events), NEW e \in Events, NEW c, NEW i \in 1 .. Len(q) + 1,
         Closed(q, c, i)
  PROVE  Closed(Append(q, e), c, i)
<1>1. /\ Append(q, e) \in Seq(Events) /\ Len(q) \in Nat
      /\ \A k \in 1 .. Len(q) : Append(q, e)[k] = q[k]
  OBVIOUS
<1>2. \A k \in 1 .. i - 1 : Append(q, e)[k] = q[k]
  BY <1>1
<1> QED
  BY <1>1, <1>2 DEF Closed

LEMMA ClosedAfterDown ==
  ASSUME NEW q \in Seq(Events), NEW c
  PROVE  Closed(Append(q, "LINK_DOWN"), c, Len(q) + 2)
<1> DEFINE j == Len(q) + 1
<1>1. Append(q, "LINK_DOWN")[j] = "LINK_DOWN" /\ j \in 1 .. (Len(q) + 2) - 1
  OBVIOUS
<1>2. j + 1 .. (Len(q) + 2) - 1 = {}
  OBVIOUS
<1> QED
  BY <1>1, <1>2 DEF Closed

LEMMA ClosedAfterOther ==
  ASSUME NEW q \in Seq(Events), NEW e \in Events, e # "LINK_UP", NEW c,
         Closed(q, c, Len(q) + 1)
  PROVE  Closed(Append(q, e), c, Len(q) + 2)
<1>1. /\ Len(q) \in Nat /\ Append(q, e)[Len(q) + 1] = e
      /\ \A k \in 1 .. Len(q) : Append(q, e)[k] = q[k]
  OBVIOUS
<1> QED
  BY <1>1 DEF Closed

(* Receiving the first event.                                              *)
LEMMA ClosedTail ==
  ASSUME NEW q \in Seq(Events), q # <<>>, NEW c, NEW c2, NEW i \in 1 .. Len(q),
         Closed(q, c, i + 1),
         \/ Head(q) = "LINK_UP"
         \/ Head(q) = "LINK_DOWN" /\ c2
         \/ Head(q) # "LINK_DOWN" /\ (c => c2)
  PROVE  Closed(Tail(q), c2, i)
<1>1. /\ Len(q) \in Nat \ {0} /\ Len(Tail(q)) = Len(q) - 1
      /\ \A k \in 1 .. Len(q) - 1 : Tail(q)[k] = q[k + 1]
      /\ q[1] = Head(q)
  OBVIOUS
<1>2. ASSUME NEW j \in 1 .. i, q[j] = "LINK_DOWN", \A k \in j + 1 .. i : q[k] # "LINK_UP"
      PROVE  Closed(Tail(q), c2, i)
  <2>1. CASE j = 1
    <3>1. c2
      BY <1>1, <1>2, <2>1
    <3>2. \A k \in 1 .. i - 1 : k + 1 \in j + 1 .. i /\ k \in 1 .. Len(q) - 1
      BY <1>1, <2>1
    <3>3. \A k \in 1 .. i - 1 : Tail(q)[k] # "LINK_UP"
      BY <1>1, <1>2, <3>2
    <3> QED
      BY <3>1, <3>3 DEF Closed
  <2>2. CASE j > 1
    <3> DEFINE m == j - 1
    <3>1. m \in 1 .. i - 1 /\ m \in 1 .. Len(q) - 1 /\ m + 1 = j
      BY <1>1, <2>2
    <3>2. \A k \in m + 1 .. i - 1 : k + 1 \in j + 1 .. i /\ k \in 1 .. Len(q) - 1
      BY <1>1, <3>1
    <3> HIDE DEF m
    <3>3. Tail(q)[m] = "LINK_DOWN" /\ \A k \in m + 1 .. i - 1 : Tail(q)[k] # "LINK_UP"
      BY <1>1, <1>2, <3>1, <3>2
    <3> QED
      BY <3>1, <3>3 DEF Closed
  <2> QED
    BY <1>1, <2>1, <2>2
<1>3. ASSUME c, \A k \in 1 .. i : q[k] # "LINK_UP"
      PROVE  Closed(Tail(q), c2, i)
  <2>1. c2
    BY <1>1, <1>3
  <2>2. \A k \in 1 .. i - 1 : k + 1 \in 1 .. i /\ k \in 1 .. Len(q) - 1
    BY <1>1
  <2>3. \A k \in 1 .. i - 1 : Tail(q)[k] # "LINK_UP"
    BY <1>1, <1>3, <2>2
  <2> QED
    BY <2>1, <2>3 DEF Closed
<1>4. (i + 1) - 1 = i
  BY <1>1
<1> QED
  BY <1>2, <1>3, <1>4 DEF Closed

(* What the steps do to the events and to the session.                     *)
LEMMA EventsSame ==
  ASSUME TypeOK, EventsOK, queue' = queue, NoSession => NoSession',
         driver' # "up" => driver # "up"
  PROVE  EventsOK'
  BY DEF EventsOK, Closed

LEMMA EventsPosted ==
  ASSUME TypeOK, EventsOK, NEW e \in Events, queue' = Append(queue, e),
         UNCHANGED <<ip, mgmt>>,
         \/ e = "LINK_DOWN"
         \/ e = "LINK_UP" /\ driver # "up" /\ driver' = "up"
         \/ e \notin {"LINK_UP", "LINK_DOWN"} /\ driver # "up"
  PROVE  EventsOK'
<1> DEFINE q == queue
           c == NoSession
           r == Append(q, e)
<1>1. q \in Seq(Events) /\ Len(q) \in Nat
  BY DEF TypeOK
<1>2. /\ r \in Seq(Events) /\ Len(r) = Len(q) + 1 /\ r[Len(q) + 1] = e
      /\ \A k \in 1 .. Len(q) : r[k] = q[k]
  BY <1>1
<1>3. NoSession' = c
  BY DEF NoSession
<1>4. \A i \in 1 .. Len(q) : r[i] = "LINK_UP" => Closed(r, c, i)
  <2> TAKE i \in 1 .. Len(q)
  <2> HAVE r[i] = "LINK_UP"
  <2>1. Closed(q, c, i) /\ i \in 1 .. Len(q) + 1
    BY <1>1, <1>2 DEF EventsOK
  <2> HIDE DEF q, c
  <2> QED
    BY <1>1, <2>1, ClosedAppend
<1>5. e = "LINK_UP" => Closed(r, c, Len(q) + 1)
  <2> HAVE e = "LINK_UP"
  <2>1. Closed(q, c, Len(q) + 1) /\ Len(q) + 1 \in 1 .. Len(q) + 1
    BY <1>1 DEF EventsOK
  <2> HIDE DEF q, c
  <2> QED
    BY <1>1, <2>1, ClosedAppend
<1>6. driver' # "up" => Closed(r, c, Len(q) + 2)
  <2> HAVE driver' # "up"
  <2>1. CASE e = "LINK_DOWN"
    BY <1>1, <2>1, ClosedAfterDown
  <2>2. CASE e # "LINK_DOWN"
    <3>1. Closed(q, c, Len(q) + 1) /\ e # "LINK_UP"
      BY <2>2 DEF EventsOK
    <3> HIDE DEF q, c
    <3> QED
      BY <1>1, <3>1, ClosedAfterOther
  <2> QED
    BY <2>1, <2>2
<1>7. Len(r) + 1 = Len(q) + 2 /\ \A i \in 1 .. Len(r) : i \in 1 .. Len(q) \/ i = Len(q) + 1
  BY <1>1, <1>2
<1>8. /\ \A i \in 1 .. Len(r) : r[i] = "LINK_UP" => Closed(r, c, i)
      /\ driver' # "up" => Closed(r, c, Len(r) + 1)
  <2> HIDE DEF q, r, c
  <2> QED
    BY <1>2, <1>4, <1>5, <1>6, <1>7
<1>9. queue' = r
  OBVIOUS
<1> HIDE DEF q, r, c
<1> QED
  BY <1>3, <1>8, <1>9 DEF EventsOK

LEMMA EventsReceived ==
  ASSUME TypeOK, EventsOK, NEW e, Receive(e), driver' = driver,
         \/ e = "LINK_UP"
         \/ e = "LINK_DOWN" /\ NoSession'
         \/ e # "LINK_DOWN" /\ (NoSession => NoSession')
  PROVE  EventsOK'
<1> DEFINE q == queue
<1>1. /\ q \in Seq(Events) /\ q # <<>> /\ Head(q) = e /\ queue' = Tail(q)
      /\ Len(q) \in Nat \ {0} /\ Len(Tail(q)) = Len(q) - 1
      /\ \A k \in 1 .. Len(q) - 1 : Tail(q)[k] = q[k + 1]
  BY DEF TypeOK, Receive
<1>2. ASSUME NEW i \in 1 .. Len(q), Closed(q, NoSession, i + 1)
      PROVE  Closed(Tail(q), NoSession', i)
  BY <1>1, <1>2, ClosedTail
<1>3. \A i \in 1 .. Len(Tail(q)) : Tail(q)[i] = "LINK_UP" => Closed(Tail(q), NoSession', i)
  <2> TAKE i \in 1 .. Len(Tail(q))
  <2> HAVE Tail(q)[i] = "LINK_UP"
  <2>1. i \in 1 .. Len(q) /\ i + 1 \in 1 .. Len(q) /\ q[i + 1] = "LINK_UP"
    BY <1>1
  <2>2. Closed(q, NoSession, i + 1)
    BY <2>1 DEF EventsOK
  <2> QED
    BY <1>2, <2>1, <2>2
<1>4. driver # "up" => Closed(Tail(q), NoSession', Len(Tail(q)) + 1)
  <2> HAVE driver # "up"
  <2>1. Closed(q, NoSession, Len(q) + 1) /\ Len(q) \in 1 .. Len(q)
    BY <1>1 DEF EventsOK
  <2>2. Len(Tail(q)) + 1 = Len(q)
    BY <1>1
  <2>3. Closed(Tail(q), NoSession', Len(q))
    BY <1>2, <2>1
  <2> QED
    BY <2>2, <2>3
<1>5. queue' = Tail(q)
  BY <1>1
<1> HIDE DEF q
<1> QED
  BY <1>3, <1>4, <1>5 DEF EventsOK

LEMMA EventsNone == \A c : c => Closed(<<>>, c, 1)
  BY DEF Closed

LEMMA InitEventsOK == Init => EventsOK
<1> SUFFICES ASSUME Init PROVE EventsOK
  OBVIOUS
<1>1. queue = <<>> /\ NoSession
  BY DEF Init, NoSession
<1>2. Closed(queue, NoSession, 1)
  BY <1>1, EventsNone
<1>3. 1 .. Len(queue) = {} /\ Len(queue) + 1 = 1
  BY <1>1
<1> QED
  BY <1>2, <1>3 DEF EventsOK

LEMMA ResetEventsOK == ChipReset => EventsOK'
<1> SUFFICES ASSUME ChipReset PROVE EventsOK'
  OBVIOUS
<1>1. queue' = <<>> /\ NoSession'
  BY DEF ChipReset, NoSession
<1>2. Closed(queue', NoSession', 1)
  BY <1>1, EventsNone
<1>3. 1 .. Len(queue') = {} /\ Len(queue') + 1 = 1
  BY <1>1
<1> QED
  BY <1>2, <1>3 DEF EventsOK

LEMMA StepEventsOK == Inv1 /\ DriverOK /\ EventsOK /\ [Next]_vars => EventsOK'
<1> SUFFICES ASSUME Inv1, DriverOK, EventsOK, [Next]_vars PROVE EventsOK'
  OBVIOUS
<1>0. TypeOK
  BY DEF Inv1
<1>e. {"LINK_UP", "LINK_DOWN", "JOIN_FAIL", "DIRECT_CFG_DONE"} \subseteq Events
  BY DEF Events
<1>r. CASE ChipReset
  BY <1>r, ResetEventsOK
<1>s. ASSUME InfWiFiStop, UNCHANGED <<ip, mgmt>> PROVE EventsOK'
  <2>1. CASE driver = "up"
    BY <1>0, <1>e, <1>s, <2>1, EventsPosted DEF InfWiFiStop
  <2>2. CASE driver # "up"
    BY <1>0, <1>s, <2>2, EventsSame DEF InfWiFiStop, NoSession
  <2> QED
    BY <2>1, <2>2
<1>u. ASSUME UNCHANGED <<queue, driver, ip, mgmt>> PROVE EventsOK'
  BY <1>0, <1>u, EventsSame DEF NoSession
<1>1. ASSUME NEW t \in Tasks, CallStep(t) PROVE EventsOK'
  <2>1. CASE StaStart(t)
    BY <1>0, <2>1, EventsSame DEF StaStart, DriverOK, NoSession, mgmtVars
  <2>2. CASE StaSettle(t)
    BY <1>0, <2>2, EventsSame DEF StaSettle, NoSession
  <2>3. CASE FlashRead(t) \/ FlashErase(t) \/ FlashProgram(t) \/ FlashProgram2(t)
    BY <1>u, <2>3 DEF FlashRead, FlashErase, FlashProgram, FlashProgram2, mgmtVars
  <2> QED
    BY <1>1, <2>1, <2>2, <2>3 DEF CallStep
<1>2. CASE BootStep
  <2>1. CASE BootButton
    <3>1. CASE StationFromBoot
      BY <1>s, <2>1, <3>1 DEF BootButton, StationFromBoot, StaModeConnStart, mgmtVars
    <3>2. CASE BootConfigures
      BY <1>0, <2>1, <3>2, EventsSame
      DEF BootButton, BootConfigures, DriverOK, NoSession, mgmtVars
    <3> QED
      BY <2>1, <3>1, <3>2 DEF BootButton, BootConfigures
  <2>2. CASE DirectConfigured \/ DirectFailed \/ StationFailed
    BY <1>s, <2>2
    DEF DirectConfigured, DirectFailed, StationFailed, StationFromBoot, StaModeConnStart,
        mgmtVars
  <2>3. CASE DirectConnected \/ DirectDone \/ StationConnected
    BY <1>u, <2>3 DEF DirectConnected, DirectDone, StationConnected, mgmtVars
  <2>4. CASE SoftAPModeStart
    BY <1>0, <2>4, EventsSame DEF SoftAPModeStart, DriverOK, NoSession, mgmtVars
  <2> QED
    BY <1>2, <2>1, <2>2, <2>3, <2>4 DEF BootStep
<1>3. CASE UdpStep
  BY <1>3, <1>r, <1>s, <1>u
  DEF UdpStep, lan_softap_config, UdpConnected, UdpFailed, UdpDone, StaModeConnStart, mgmtVars
<1>4. CASE ResetPressed
  BY <1>4, <1>u DEF ResetPressed, mgmtVars
<1>5. CASE MgmtStep
  <2>1. CASE LinkUpSta \/ LinkUpSoftAP
    BY <1>0, <2>1, EventsReceived DEF LinkUpSta, LinkUpSoftAP
  <2>2. CASE DhcpDone \/ DhcpFail
    BY <1>0, <2>2, EventsSame DEF DhcpDone, DhcpFail, NoSession
  <2>3. CASE LinkDown
    BY <1>0, <2>3, EventsReceived DEF LinkDown, NoSession, Receive
  <2>4. CASE JoinFail
    <3>1. CASE ~ ChipReset
      <4>1. Receive("JOIN_FAIL") /\ UNCHANGED <<driver, ip, mgmt>>
        BY <2>4, <3>1 DEF JoinFail, Receive, mgmtVars
      <4> QED
        BY <1>0, <4>1, EventsReceived DEF NoSession
    <3> QED
      BY <1>r, <3>1
  <2>5. CASE DirectCfgDone
    BY <1>0, <2>5, EventsReceived DEF DirectCfgDone, NoSession, mgmtVars
  <2> QED
    BY <1>5, <2>1, <2>2, <2>3, <2>4, <2>5 DEF MgmtStep
<1>6. CASE Environment
  <2>1. CASE DriverUp \/ DriverFails
    BY <1>0, <1>e, <2>1, EventsPosted DEF DriverUp, DriverFails, Post, mgmtVars
  <2>2. CASE DriverLosesLink \/ PhoneConfigures
    BY <1>0, <1>e, <2>2, EventsPosted DEF DriverLosesLink, PhoneConfigures, Post, mgmtVars
  <2>3. CASE AddressAssigned
    BY <1>0, <2>3, EventsSame DEF AddressAssigned, NoSession
  <2> QED
    BY <1>6, <1>r, <2>1, <2>2, <2>3 DEF Environment, PowerLoss
<1>7. CASE UNCHANGED vars
  BY <1>7, <1>u DEF vars, mgmtVars
<1> QED
  BY <1>r, <1>1, <1>2, <1>3, <1>4, <1>5, <1>6, <1>7 DEF Next, ResetDone

(* In station mode L2LinkUp never finds an address left over from before.  *)
LEMMA NoStaleAddress ==
  ASSUME TypeOK, EventsOK, Receive("LINK_UP")
  PROVE  ~ip
<1>1. 1 \in 1 .. Len(queue) /\ queue[1] = "LINK_UP"
  BY DEF TypeOK, Receive
<1>2. Closed(queue, NoSession, 1)
  BY <1>1 DEF EventsOK
<1> QED
  BY <1>2 DEF Closed, NoSession

-----------------------------------------------------------------------------
(* Sixth layer: the settings that are saved.                               *)

(* The flag a task polls says connected only for the present settings, so  *)
(* those it then saves are proven.                                         *)
LinkedOK ==
  /\ driver = "up" /\ Protocol = "STA" => Ssid \in linked
  /\ \A t \in Tasks : pc[t] = "poll" /\ connect_flag = 1 => Ssid \in linked
  /\ pc["Udp"] \in {"settle", "poll"} => Ssid = want["Udp"]
  /\ \A t \in {"Boot", "Udp"} : pc[t] \in WritePcs =>
                                  \E n \in linked : config.net = Kept(n)
  /\ CredentialsProven

LEMMA InitLinkedOK == Init => LinkedOK
  BY FirstPcs, OnboardingAssumption
  DEF Init, LinkedOK, CredentialsProven, WritePcs, Tasks, Erased

LEMMA ResetLinkedOK == LinkedOK /\ ChipReset => LinkedOK'
  BY FirstPcs DEF ChipReset, LinkedOK, CredentialsProven, WritePcs, Tasks, histVars

LEMMA CallLinkedOK ==
  ASSUME Inv1, LinkedOK, NEW t \in Tasks, CallStep(t)
  PROVE  LinkedOK'
<1>0. ControlOK /\ pc \in [Tasks -> Pcs] /\ flash \in Record
  BY DEF Inv1, TypeOK
<1> USE <1>0, OnboardingAssumption
    DEF LinkedOK, CredentialsProven, ControlOK, Tasks, StaPcs, WritePcs, Goto, flagVars,
        parVars, histVars
<1>1. CASE StaStart(t)
  BY <1>1 DEF StaStart
<1>2. CASE StaSettle(t)
  BY <1>2 DEF StaSettle
<1>3. CASE FlashRead(t)
  BY <1>3 DEF FlashRead
<1>4. CASE FlashErase(t)
  BY <1>4 DEF FlashErase, Erased
<1>5. CASE FlashProgram(t)
  BY <1>5 DEF FlashProgram, Record
<1>6. CASE FlashProgram2(t)
  BY <1>6 DEF FlashProgram2, Over, Data, Cleared, Record
<1> QED
  BY <1>1, <1>2, <1>3, <1>4, <1>5, <1>6 DEF CallStep

LEMMA BootLinkedOK ==
  ASSUME Inv1, ModeOK, DriverOK, LinkedOK, BootStep \/ UdpStep \/ ResetPressed
  PROVE  LinkedOK'
<1>0. ControlOK /\ pc \in [Tasks -> Pcs]
  BY DEF Inv1, TypeOK
<1> USE <1>0, OnboardingAssumption
    DEF LinkedOK, CredentialsProven, ControlOK, ModeOK, DriverOK, Tasks, StaPcs, WritePcs,
        Goto, flagVars, parVars, histVars, Polled, StaModeConnStart, InfWiFiStop,
        Agent_SaveSSIDAndKey
<1>1. CASE BootButton
  <2>1. CASE StationFromBoot /\ UNCHANGED Ssid
    BY <1>1, <2>1 DEF BootButton, StationFromBoot
  <2>2. CASE BootConfigures
    BY <1>1, <2>2 DEF BootButton, BootConfigures
  <2> QED
    BY <1>1, <2>1, <2>2 DEF BootButton, BootConfigures
<1>2. CASE DirectConfigured
  BY <1>2 DEF DirectConfigured
<1>3. CASE DirectConnected
  BY <1>3 DEF DirectConnected
<1>4. CASE DirectFailed
  BY <1>4 DEF DirectFailed, StationFromBoot
<1>5. CASE DirectDone \/ StationConnected
  BY <1>5 DEF DirectDone, StationConnected
<1>6. CASE StationFailed
  BY <1>6 DEF StationFailed
<1>7. CASE SoftAPModeStart
  BY <1>7 DEF SoftAPModeStart
<1>8. ASSUME NEW n \in Nets, lan_softap_config(n) PROVE LinkedOK'
  BY <1>8 DEF lan_softap_config
<1>9. CASE UdpConnected
  BY <1>9 DEF UdpConnected
<1>10. CASE UdpFailed
  BY <1>10 DEF UdpFailed
<1>11. CASE ResetPressed
  BY <1>11 DEF ResetPressed
<1> QED
  BY <1>1, <1>2, <1>3, <1>4, <1>5, <1>6, <1>7, <1>8, <1>9, <1>10, <1>11, ResetLinkedOK
  DEF BootStep, UdpStep, UdpDone

LEMMA MgmtLinkedOK ==
  ASSUME Inv1, ModeOK, RadioOK, EventsOK, LinkedOK, MgmtStep
  PROVE  LinkedOK'
<1>0. TypeOK /\ Protocol \in {"STA", "SOFTAP"}
  BY DEF Inv1, TypeOK
<1> USE DEF LinkedOK, CredentialsProven, flagVars, parVars, histVars, EvtLinkUp
<1>1. CASE LinkUpSta
  <2>1. ~ip
    BY <1>0, <1>1, NoStaleAddress DEF LinkUpSta
  <2> QED
    BY <1>1, <2>1 DEF LinkUpSta
<1>2. CASE LinkUpSoftAP
  <2>1. \A t \in Tasks : pc[t] # "poll"
    BY <1>2 DEF LinkUpSoftAP, ModeOK, Tasks, Inv1, ControlOK, WritePcs
  <2> QED
    BY <1>2, <2>1 DEF LinkUpSoftAP
<1>3. CASE DhcpDone
  <2>1. Protocol = "STA"
    BY <1>0, <1>3 DEF DhcpDone, RadioOK, AccessPoint
  <2> QED
    BY <1>3, <2>1 DEF DhcpDone
<1>4. CASE DhcpFail
  BY <1>4 DEF DhcpFail
<1>5. CASE LinkDown
  BY <1>5 DEF LinkDown
<1>6. CASE JoinFail
  BY <1>6, ResetLinkedOK DEF JoinFail
<1>7. CASE DirectCfgDone
  BY <1>7 DEF DirectCfgDone
<1> QED
  BY <1>1, <1>2, <1>3, <1>4, <1>5, <1>6, <1>7 DEF MgmtStep

LEMMA EnvironmentLinkedOK ==
  ASSUME Inv1, ModeOK, DriverOK, LinkedOK, Environment
  PROVE  LinkedOK'
<1>0. ControlOK
  BY DEF Inv1
<1> USE <1>0 DEF LinkedOK, CredentialsProven, flagVars, parVars, histVars
<1>1. CASE DriverUp
  BY <1>1 DEF DriverUp
<1>2. CASE DriverFails \/ DriverLosesLink
  BY <1>2 DEF DriverFails, DriverLosesLink
<1>3. CASE PhoneConfigures
  BY <1>3 DEF PhoneConfigures, DriverOK, ControlOK, Tasks, WritePcs
<1>4. CASE AddressAssigned
  BY <1>4 DEF AddressAssigned
<1> QED
  BY <1>1, <1>2, <1>3, <1>4, ResetLinkedOK DEF Environment, PowerLoss

LEMMA StepLinkedOK ==
  Inv1 /\ ModeOK /\ DriverOK /\ RadioOK /\ EventsOK /\ LinkedOK /\ [Next]_vars => LinkedOK'
<1> SUFFICES ASSUME Inv1, ModeOK, DriverOK, RadioOK, EventsOK, LinkedOK, [Next]_vars
             PROVE  LinkedOK'
  OBVIOUS
<1>1. CASE UNCHANGED vars
  BY <1>1 DEF LinkedOK, CredentialsProven, vars, flagVars, parVars, histVars
<1> QED
  BY <1>1, CallLinkedOK, BootLinkedOK, MgmtLinkedOK, EnvironmentLinkedOK, ResetLinkedOK
  DEF Next, ResetDone

-----------------------------------------------------------------------------
(* Seventh layer: two tasks write one record.                              *)

(* From its erase to its last byte, Boot or Udp finds at most traces of    *)
(* SysResetThread's record, whose network field is all zeros; and unless   *)
(* Udp has erased the sector since, that record's flag is in place.        *)
FlashOK ==
  /\ config.net \in Nets \cup {NoNet, "cleared"}
  /\ \A t \in {"Boot", "Udp"} :
       pc[t] \in {"program", "program2"} => flash.net \in {"erased", "part", "cleared"}
  /\ pc["Reset"] = "program2" /\ pc["Udp"] \notin {"program", "program2", "respond"}
       => flash.flag = 0
  /\ StoreSound

LEMMA InitFlashOK == Init => FlashOK
  BY FirstPcs DEF Init, FlashOK, StoreSound, StoreNotMixed, FactoryReset, Erased, Cleared

LEMMA ResetFlashOK == FlashOK /\ ChipReset => FlashOK'
  BY FirstPcs DEF ChipReset, FlashOK, StoreSound, StoreNotMixed, FactoryReset, Cleared

LEMMA CallFlashOK ==
  ASSUME Inv1, FlashOK, NEW t \in Tasks, CallStep(t)
  PROVE  FlashOK'
<1>0. ControlOK /\ pc \in [Tasks -> Pcs] /\ flash \in Record
  BY DEF Inv1, TypeOK
<1> USE <1>0, OnboardingAssumption
    DEF FlashOK, StoreSound, StoreNotMixed, FactoryReset, ControlOK, Tasks, StaPcs, WritePcs,
        Goto, Erased, Cleared
<1>1. CASE StaStart(t)
  BY <1>1 DEF StaStart
<1>2. CASE StaSettle(t)
  BY <1>2 DEF StaSettle
<1>3. CASE FlashRead(t)
  BY <1>3 DEF FlashRead
<1>4. CASE FlashErase(t)
  BY <1>4 DEF FlashErase
<1>5. CASE FlashProgram(t)
  BY <1>5 DEF FlashProgram, Data, Record
<1>6. CASE FlashProgram2(t)
  <2>1. /\ pc[t] = "program2"
        /\ pc' = [pc EXCEPT ![t] = IF t = "Reset" THEN "reboot" ELSE "respond"]
        /\ config' = config
    BY <1>6 DEF FlashProgram2
  <2>2. CASE flash' = flash /\ t = "Udp"
    BY <2>1, <2>2
  <2>3. CASE flash' = [flash EXCEPT !.net = Over(@, Data(t).net)]
    <3>1. flash'.flag = flash.flag /\ flash'.net = Over(flash.net, Data(t).net)
      BY <2>3 DEF Record
    <3>2. CASE t = "Reset"
      <4>1. Data(t).net = "cleared"
        BY <3>2 DEF Data
      <4>2. Over(flash.net, "cleared") = "cleared"
        BY DEF Over
      <4>3. flash' = [flag |-> flash.flag, net |-> "cleared"]
        BY <2>3, <4>1, <4>2 DEF Record
      <4> QED
        BY <2>1, <3>2, <4>3
    <3>3. CASE t # "Reset"
      <4>1. Data(t).net \in Nets \cup {NoNet, "cleared"} /\ Data(t).net # "mixed"
        BY <3>3 DEF Data
      <4>2. Over(flash.net, Data(t).net) # "mixed"
        BY <2>1, <3>3, <4>1 DEF Over
      <4> QED
        BY <2>1, <3>1, <3>3, <4>2
    <3> QED
      BY <3>2, <3>3
  <2> QED
    BY <1>6, <2>2, <2>3 DEF FlashProgram2
<1> QED
  BY <1>1, <1>2, <1>3, <1>4, <1>5, <1>6 DEF CallStep

LEMMA OtherFlashOK ==
  ASSUME Inv1, FlashOK, BootStep \/ UdpStep \/ ResetPressed \/ MgmtStep \/ Environment
  PROVE  FlashOK'
<1>0. /\ ControlOK /\ pc \in [Tasks -> Pcs] /\ Ssid \in Nets \cup {NoNet}
      /\ want \in [Tasks -> Nets \cup {NoNet}]
  BY DEF Inv1, TypeOK
<1> USE <1>0, OnboardingAssumption
    DEF FlashOK, StoreSound, StoreNotMixed, FactoryReset, ControlOK, Tasks, StaPcs, WritePcs,
        Goto, Polled, StaModeConnStart
<1>1. CASE BootButton
  BY <1>1 DEF BootButton, StationFromBoot
<1>2. CASE DirectConfigured
  BY <1>2 DEF DirectConfigured
<1>2a. CASE DirectConnected
  <2>1. Agent_SaveSSIDAndKey("Boot", Ssid) /\ Ssid \in Nets \cup {NoNet}
    BY <1>2a DEF DirectConnected
  <2>2. config'.net \in Nets \cup {NoNet} /\ Goto("Boot", "read")
    BY <2>1, SavedType
  <2> QED
    BY <1>2a, <2>2 DEF DirectConnected
<1>3. CASE DirectFailed \/ DirectDone
  BY <1>3 DEF DirectFailed, StationFromBoot, DirectDone
<1>4. CASE StationConnected \/ StationFailed \/ SoftAPModeStart
  BY <1>4 DEF StationConnected, StationFailed, SoftAPModeStart
<1>5. ASSUME NEW n \in Nets, lan_softap_config(n) PROVE FlashOK'
  BY <1>5 DEF lan_softap_config
<1>6. CASE UdpConnected
  <2>1. Agent_SaveSSIDAndKey("Udp", want["Udp"]) /\ want["Udp"] \in Nets \cup {NoNet}
    BY <1>6 DEF UdpConnected
  <2>2. config'.net \in Nets \cup {NoNet} /\ Goto("Udp", "read")
    BY <2>1, SavedType
  <2> QED
    BY <1>6, <2>2 DEF UdpConnected
<1>7. CASE UdpFailed \/ ResetPressed
  BY <1>7 DEF UdpFailed, ResetPressed
<1>8. CASE MgmtStep
  BY <1>8, ResetFlashOK DEF MgmtStep, LinkUpSta, LinkUpSoftAP, DhcpDone, DhcpFail, LinkDown,
                            JoinFail, DirectCfgDone
<1>9. CASE Environment
  BY <1>9, ResetFlashOK DEF Environment, DriverUp, DriverFails, DriverLosesLink,
                            PhoneConfigures, AddressAssigned, PowerLoss
<1> QED
  BY <1>1, <1>2, <1>2a, <1>3, <1>4, <1>5, <1>6, <1>7, <1>8, <1>9, ResetFlashOK
  DEF BootStep, UdpStep, UdpDone

LEMMA StepFlashOK == Inv1 /\ FlashOK /\ [Next]_vars => FlashOK'
<1> SUFFICES ASSUME Inv1, FlashOK, [Next]_vars PROVE FlashOK'
  OBVIOUS
<1>1. CASE UNCHANGED vars
  BY <1>1 DEF FlashOK, StoreSound, StoreNotMixed, FactoryReset, vars
<1> QED
  BY <1>1, CallFlashOK, OtherFlashOK, ResetFlashOK DEF Next, ResetDone

-----------------------------------------------------------------------------
(* The theorems.                                                           *)

IInv == Inv1 /\ ModeOK /\ DriverOK /\ RadioOK /\ EventsOK /\ LinkedOK /\ FlashOK

LEMMA Invariance == Spec => []IInv
<1>1. Init => IInv
  BY InitInv1, InitModeOK, InitDriverOK, InitRadioOK, InitEventsOK, InitLinkedOK, InitFlashOK
  DEF IInv
<1>2. IInv /\ [Next]_vars => IInv'
  BY StepInv1, StepModeOK, StepDriverOK, StepRadioOK, StepEventsOK, StepLinkedOK, StepFlashOK
  DEF IInv
<1> QED
  BY <1>1, <1>2, PTL DEF Spec

(* Every reachable state is well typed, for any set of networks and any    *)
(* number of events and lost links.                                        *)
THEOREM OnboardingTypeCorrect == Spec => []TypeOK
<1>1. IInv => TypeOK
  BY DEF IInv, Inv1
<1> QED
  BY <1>1, Invariance, PTL

(* sys_status.status tells the mode of the radio, over all interleavings   *)
(* of Boot, lan_softap_config, SysResetThread and mgmt and with power      *)
(* losses at any moment.                                                   *)
THEOREM ModeCorrect == Spec => []ModeMatches
<1>1. IInv => ModeMatches
  BY DEF IInv, ModeOK
<1> QED
  BY <1>1, Invariance, PTL

(* The DHCP server of the access point is off whenever the device is a     *)
(* station: the LINK_DOWN that stops it is handled before                  *)
(* DRV_WiFi_StaModeConnStart changes the mode.                             *)
THEOREM NoRogueDhcpCorrect == Spec => []NoRogueDhcp
<1>1. IInv => NoRogueDhcp
  BY DEF IInv, RadioOK
<1> QED
  BY <1>1, Invariance, PTL

(* What the flash holds of a network is what fits of settings the device   *)
(* has been linked with, whatever links are lost, events are late and      *)
(* restarts intervene, and whichever keys are longer than their field.     *)
THEOREM CredentialsCorrect == Spec => []CredentialsProven
<1>1. IInv => CredentialsProven
  BY DEF IInv, LinkedOK
<1> QED
  BY <1>1, Invariance, PTL

(* The record that lan_softap_config and SysResetThread write without a    *)
(* lock never mixes two networks, and a factory reset is in place when the *)
(* device restarts.                                                        *)
THEOREM StoreCorrect == Spec => []StoreSound
<1>1. IInv => StoreSound
  BY DEF IInv, FlashOK
<1> QED
  BY <1>1, Invariance, PTL

=============================================================================
