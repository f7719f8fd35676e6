---------------------------- MODULE NetworkParts ----------------------------
(***************************************************************************)
(* How the device gets into a network and how, as an access point, it lets *)
(* phones into its own: the onboarding and the table of the DHCP server,   *)
(* checked side by side.  The first state chooses one of them, which then  *)
(* runs by itself.                                                         *)
(***************************************************************************)
EXTENDS Onboarding, DhcpServer

VARIABLE side

networkVars == <<side, vars, dhcpsVars>>

NetworkInit == side \in {"onboarding", "dhcps"} /\ Init /\ DhcpsInit

OnboardingSide == side = "onboarding" /\ Next /\ UNCHANGED <<side, dhcpsVars>>
DhcpsSide == side = "dhcps" /\ DhcpsNext /\ UNCHANGED <<side, vars>>

NetworkNext == OnboardingSide \/ DhcpsSide

(* The fairness of FairNetSpec and of FairDhcpsSpec, each for the          *)
(* behaviours in which its side runs.                                      *)
NetworkFairness ==
  /\ \A t \in Tasks : WF_vars(side = "onboarding" /\ CallStep(t))
  /\ WF_vars(side = "onboarding" /\ BootStep) /\ WF_vars(side = "onboarding" /\ MgmtStep)
  /\ WF_vars(side = "onboarding" /\ (UdpConnected \/ UdpFailed \/ UdpDone))
  /\ WF_vars(side = "onboarding" /\ ResetDone)
  /\ WF_vars(side = "onboarding" /\ (DriverUp \/ DriverFails))
  /\ WF_vars(side = "onboarding" /\ AddressAssigned)
  /\ WF_dhcpsVars(side = "dhcps" /\ DhcpTickHandle)

NetworkSpec == NetworkInit /\ [][NetworkNext]_networkVars /\ NetworkFairness

(* The variables of the onboarding and the table of the DHCP server have   *)
(* their types.                                                            *)
NetworkTypeOK == side \in {"onboarding", "dhcps"} /\ TypeOK /\ DhcpsTypeOK
=============================================================================
