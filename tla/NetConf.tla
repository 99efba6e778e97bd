-------------------------------- MODULE NetConf --------------------------------
(***************************************************************************)
(* Bringing the Ethernet up and getting an address                         *)
(* (Ethernet/src/netconf.c).  EthernetMain, called by the running loop, is *)
(* a state machine: wait for the PHY and its link, then set up lwIP, then  *)
(* serve it.  The address is the one the user has set, or comes from a     *)
(* DHCP server: every half second dhcp_fine_tmr drives lwIP's client       *)
(* (external: lwip_v1.3.2/src/core/dhcp.c) and LwIP_DHCP_Process_Handle    *)
(* looks at what it has done.  Meanwhile commands change the mode and the  *)
(* user's address, and the unit is switched off and on again.              *)
(* The power option is SS_QUICK, the only one that lets commands switch    *)
(* the unit off; while MAIN_POWER_INITIAL nothing here runs, so that phase *)
(* is passed over.  Netmask, gateway and DNS go with the address.          *)
(***************************************************************************)
EXTENDS Naturals

CONSTANTS
  Address,         \* addresses users set and servers offer
  NoAddress,       \* 0.0.0.0
  PHY_RESET_TO,    \* calls the PHY is given to reset (1000)
  PHY_READ_TO,     \* calls a link or a negotiation is waited for (16#4FFFF)
  MAX_DHCP_TRIES,  \* 4
  TicksPerSecond,  \* of dhcp_fine_tmr (2)
  TriesAtNull,     \* what netif.dhcp->tries reads when netif.dhcp is NULL: a byte
                   \* of the boot area's vector table, which the chip has at 0
  MaxRefusals      \* bound: refusals by server or network after each power on

ASSUME NetAssumption ==
  /\ NoAddress \notin Address
  /\ PHY_RESET_TO \in Nat \ {0}
  /\ PHY_READ_TO \in Nat \ {0}
  /\ MAX_DHCP_TRIES \in 0 .. 5   \* else dhcp_timeout releases before the handler stops
  /\ TicksPerSecond \in Nat \ {0}
  /\ TriesAtNull \in 0 .. 255
  /\ MaxRefusals \in Nat

VARIABLES
  power_on,           \* pwr_status = MAIN_POWER_ON
  EthInitStatus,      \* 2: PHY, 3: its interrupt, 4: lwIP, 5: serving, 6: standby
  PHY_initial_status, \* where ETH_Init_no_loop goes on
  timeout,            \* calls it has waited
  mode_dhcp_enable,   \* 1: DHCP, 0: static
  manual_ip_addr,     \* the user's address
  DHCP_state, STATIC_state,
  dhcp_ip_addr,       \* what a command is told in DHCP mode
  netif,              \* lwIP: [added: times in its list, up: flag, ip: address]
  dhcp,               \* lwIP: its client
  linked,             \* the cable
  refusals            \* bound

settings == <<mode_dhcp_enable, manual_ip_addr>>
phy      == <<PHY_initial_status, timeout>>
address  == <<DHCP_state, STATIC_state, dhcp_ip_addr, netif, dhcp, refusals>>
netVars     == <<power_on, EthInitStatus, phy, settings, address, linked>>

PHY_STATUS == {"PHY_RESET", "PHY_RESET_DELAY_CHECK", "PHY_LINK_STATUS_CHECKING",
               "PHY_ATUO_NEG_CHECKING", "PHY_MAC_SETTING"}
PhyWaiting == {"PHY_LINK_STATUS_CHECKING", "PHY_ATUO_NEG_CHECKING"}
DHCP_STATE == {"DHCP_START", "DHCP_WAIT_ADDRESS", "DHCP_ADDRESS_ASSIGNED",
               "DHCP_TIMEOUT"}
STATIC_STATE == {"STATIC_WAIT_ETH_CONFIG", "STATIC_IP_CONFIGURED"}
\* netif.dhcp is NULL in the first two: never started, or removed; and (told apart
\* for the properties only) started by a dhcp_start that returned ERR_MEM.
ClientState == {"none", "failed", "SELECTING", "REQUESTING", "CHECKING", "BACKING_OFF"}
HasClient(d) == d.state \notin {"none", "failed"}

NoClient ==
  [state |-> "none", tries |-> 0, request_timeout |-> 0, offered |-> NoAddress]
FailedClient == [NoClient EXCEPT !.state = "failed"]

\* The back-off of dhcp_discover and dhcp_select, in ticks.
BackOff(tries) ==
  (IF tries < 6 THEN <<2, 4, 8, 16, 32>>[tries] ELSE 60) * TicksPerSecond
DeclineTicks == 10 * TicksPerSecond
CheckTicks == (TicksPerSecond + 1) \div 2

MaxTries == MAX_DHCP_TRIES + 1

NetTypeOK ==
  /\ power_on \in BOOLEAN
  /\ EthInitStatus \in 2 .. 6
  /\ PHY_initial_status \in PHY_STATUS
  /\ timeout \in Nat
  /\ PHY_initial_status = "PHY_RESET_DELAY_CHECK" => timeout < PHY_RESET_TO
  /\ PHY_initial_status \in PhyWaiting => timeout < PHY_READ_TO
  /\ mode_dhcp_enable \in {0, 1}
  /\ manual_ip_addr \in Address
  /\ DHCP_state \in DHCP_STATE
  /\ STATIC_state \in STATIC_STATE
  /\ dhcp_ip_addr \in Address \cup {NoAddress}
  /\ netif \in [added : Nat, up : BOOLEAN, ip : Address \cup {NoAddress}]
  /\ dhcp \in [state : ClientState, tries : 0 .. MaxTries,
               request_timeout : Nat, offered : Address \cup {NoAddress}]
  /\ linked \in BOOLEAN
  /\ refusals \in 0 .. MaxRefusals

\* After boot's mode_power_on, with the settings found in the EEPROM.
NetInit ==
  /\ power_on = TRUE
  /\ EthInitStatus = 2
  /\ PHY_initial_status = "PHY_RESET" /\ timeout = 0
  /\ mode_dhcp_enable \in {0, 1} /\ manual_ip_addr \in Address
  /\ DHCP_state = "DHCP_START" /\ STATIC_state = "STATIC_WAIT_ETH_CONFIG"
  /\ dhcp_ip_addr = NoAddress
  /\ netif = [added |-> 0, up |-> FALSE, ip |-> NoAddress]
  /\ dhcp = NoClient
  /\ linked \in BOOLEAN
  /\ refusals = 0

-----------------------------------------------------------------------------
\* EthInitStatus 2: ETH_Init_no_loop, one case per pass of the loop.

PhyAt(status) ==
  /\ power_on /\ EthInitStatus = 2 /\ PHY_initial_status = status
  /\ UNCHANGED <<power_on, settings, address, linked>>

\* A register write that times out leaves the state as it is: a stutter here.
PhyReset ==
  /\ PhyAt("PHY_RESET")
  /\ PHY_initial_status' = "PHY_RESET_DELAY_CHECK" /\ timeout' = 0
  /\ UNCHANGED EthInitStatus

PhyDelay ==
  /\ PhyAt("PHY_RESET_DELAY_CHECK")
  /\ IF timeout + 1 = PHY_RESET_TO
     THEN PHY_initial_status' = "PHY_LINK_STATUS_CHECKING" /\ timeout' = 0
     ELSE timeout' = timeout + 1 /\ UNCHANGED PHY_initial_status
  /\ UNCHANGED EthInitStatus

TooLateOnly(t) == t > PHY_READ_TO   \* mutant: the comparison turned round
InTime(t) == t < PHY_READ_TO

\* The link is there and the register written.
PhyLinked ==
  /\ PhyAt("PHY_LINK_STATUS_CHECKING")
  /\ linked /\ InTime(timeout + 1)
  /\ PHY_initial_status' = "PHY_ATUO_NEG_CHECKING" /\ timeout' = 0
  /\ UNCHANGED EthInitStatus

PhyNegotiated ==
  /\ PhyAt("PHY_ATUO_NEG_CHECKING")
  /\ linked /\ InTime(timeout + 1)
  /\ PHY_initial_status' = "PHY_MAC_SETTING" /\ timeout' = 0
  /\ UNCHANGED EthInitStatus

\* No link, not negotiated, or the write failed; in the end the PHY is reset.
PhyWaits ==
  /\ \E status \in PhyWaiting : PhyAt(status)
  /\ timeout' = timeout + 1
  /\ PHY_initial_status' =
       IF timeout' = PHY_READ_TO THEN "PHY_RESET" ELSE PHY_initial_status
  /\ UNCHANGED EthInitStatus

PhyDone ==
  /\ PhyAt("PHY_MAC_SETTING")
  /\ EthInitStatus' = 3
  /\ UNCHANGED phy

-----------------------------------------------------------------------------
\* EthInitStatus 3 and 4.

LinkInterrupt ==
  /\ power_on /\ EthInitStatus = 3
  /\ EthInitStatus' = 4
  /\ UNCHANGED <<power_on, phy, settings, address, linked>>

\* LwIP_Init, with netif_add and netif_set_up; the servers are TcpServer's.
LwIPInit ==
  /\ power_on /\ EthInitStatus = 4
  /\ EthInitStatus' = 5
  /\ netif' = [added |-> netif.added + 1, up |-> TRUE,
               ip |-> IF mode_dhcp_enable = 1 THEN NoAddress ELSE manual_ip_addr]
  /\ STATIC_state' =
       IF mode_dhcp_enable = 1 THEN STATIC_state ELSE "STATIC_IP_CONFIGURED"
  /\ dhcp' = NoClient
  /\ refusals' = 0
  /\ UNCHANGED <<power_on, phy, settings, DHCP_state, dhcp_ip_addr, linked>>

-----------------------------------------------------------------------------
\* lwIP's client, as functions of its record.

Enter(d, state) ==
  IF d.state = state THEN d ELSE [d EXCEPT !.state = state, !.tries = 0]

Tried(d, ticks) == [d EXCEPT !.tries = @ + 1, !.request_timeout = ticks]

Send(d, state) ==
  LET e == Enter(d, state) IN Tried(e, BackOff(e.tries + 1))

Discover(d) == Send([d EXCEPT !.offered = NoAddress], "SELECTING")
Select(d)   == Send(d, "REQUESTING")
Check(d)    == Tried(Enter(d, "CHECKING"), CheckTicks)
Decline(d)  == Tried(Enter(d, "BACKING_OFF"), DeclineTicks)

\* dhcp_timeout finds the check answered by nobody for the second time: dhcp_bind.
Binds(d) == d.state = "CHECKING" /\ d.tries > 1

TimeoutSelecting(d) ==   \* mutant: a client that has declined is forgotten
  CASE d.state = "SELECTING" -> Discover(d)
    [] d.state = "REQUESTING" -> Select(d)
    [] d.state = "CHECKING" -> Check(d)
    [] OTHER -> d

\* Releasing after the sixth request is left out: MAX_DHCP_TRIES comes before.
Timeout(d) ==
  CASE d.state \in {"SELECTING", "BACKING_OFF"} -> Discover(d)
    [] d.state = "REQUESTING" -> Select(d)
    [] d.state = "CHECKING" -> Check(d)
    [] OTHER -> d

\* dhcp_fine_tmr, but for the binding.
Fine(d) ==
  IF d.request_timeout = 1 THEN Timeout([d EXCEPT !.request_timeout = 0])
  ELSE IF d.request_timeout > 1 THEN [d EXCEPT !.request_timeout = @ - 1]
  ELSE d

-----------------------------------------------------------------------------
\* EthInitStatus 5: the half-second tick, dhcp_fine_tmr and then
\* LwIP_DHCP_Process_Handle.  Once assigned or given up there is no client and
\* neither does anything.  Without a client the first does nothing at all, and the
\* second reads what is at address 0.

Serving == power_on /\ EthInitStatus = 5
Tick ==
  /\ Serving /\ mode_dhcp_enable = 1
  /\ UNCHANGED <<power_on, EthInitStatus, phy, settings, STATIC_state, linked,
                 refusals>>

\* dhcp_start, which may find no memory for the client, its control block or its
\* message; the handler does not look at the result.
StartClient ==
  /\ Tick
  /\ DHCP_state = "DHCP_START"
  /\ DHCP_state' = "DHCP_WAIT_ADDRESS"
  /\ dhcp' \in {Discover(NoClient), FailedClient}
  /\ UNCHANGED <<dhcp_ip_addr, netif>>

\* The interface has an address, just bound or had before: it is taken.
TakeAddress ==
  /\ Tick
  /\ DHCP_state = "DHCP_WAIT_ADDRESS"
  /\ LET bound == dhcp.request_timeout = 1 /\ Binds(dhcp)
     IN  netif' = IF bound THEN [netif EXCEPT !.up = TRUE, !.ip = dhcp.offered]
                  ELSE netif
  /\ netif'.ip # NoAddress
  /\ DHCP_state' = "DHCP_ADDRESS_ASSIGNED"
  /\ dhcp_ip_addr' = netif'.ip
  /\ dhcp' = NoClient

TriesRead(d) == IF HasClient(d) THEN d.tries ELSE TriesAtNull
GivesUp(d) == TriesRead(d) > MAX_DHCP_TRIES

StillWaits ==
  /\ Tick
  /\ DHCP_state = "DHCP_WAIT_ADDRESS"
  /\ netif.ip = NoAddress
  /\ ~(dhcp.request_timeout = 1 /\ Binds(dhcp))
  /\ LET d == Fine(dhcp) IN
       IF GivesUp(d)
       THEN DHCP_state' = "DHCP_TIMEOUT" /\ dhcp' = NoClient
       ELSE dhcp' = d /\ UNCHANGED DHCP_state
  /\ UNCHANGED <<dhcp_ip_addr, netif>>

FineTick == StartClient \/ TakeAddress \/ StillWaits

-----------------------------------------------------------------------------
\* What the network sends, at any time (external).  Late and repeated answers
\* are told by their transaction and the client's state, and change nothing.

Received ==
  /\ Serving
  /\ UNCHANGED <<power_on, EthInitStatus, phy, settings, DHCP_state, STATIC_state,
                 dhcp_ip_addr, linked>>

DhcpOffer(a) ==
  /\ Received /\ dhcp.state = "SELECTING"
  /\ dhcp' = Select([dhcp EXCEPT !.offered = a])
  /\ UNCHANGED <<netif, refusals>>

DhcpAck(a) ==
  /\ Received /\ dhcp.state = "REQUESTING"
  /\ dhcp' = Check([dhcp EXCEPT !.offered = a])
  /\ UNCHANGED <<netif, refusals>>

Refused == refusals < MaxRefusals /\ refusals' = refusals + 1

\* dhcp_handle_nak: takes the address away, whoever gave it.
DhcpNak ==
  /\ Received /\ dhcp.state = "REQUESTING" /\ Refused
  /\ netif' = [netif EXCEPT !.up = FALSE, !.ip = NoAddress]
  /\ dhcp' = Discover(Enter(dhcp, "BACKING_OFF"))

\* dhcp_arp_reply: another host has the address.
ArpReply ==
  /\ Received /\ dhcp.state = "CHECKING" /\ Refused
  /\ dhcp' = Decline(dhcp)
  /\ UNCHANGED netif

CableChanges ==
  /\ linked' = ~linked
  /\ UNCHANGED <<power_on, EthInitStatus, phy, settings, address>>

-----------------------------------------------------------------------------
\* Commands.

ExecIpModeConfig(val) ==
  /\ mode_dhcp_enable' = val
  /\ UNCHANGED <<power_on, EthInitStatus, phy, manual_ip_addr, address, linked>>

ExecStaticIpSet(a) ==
  /\ manual_ip_addr' = a
  /\ UNCHANGED <<power_on, EthInitStatus, phy, mode_dhcp_enable, address, linked>>

NotRemoved == netif.added   \* mutant: the interface stays in lwIP's list
Removed == netif.added - 1

\* mode_power_off: EthernetStandy, power_off.
PowerOff ==
  /\ power_on
  /\ power_on' = FALSE
  /\ netif' = IF EthInitStatus = 5 THEN [netif EXCEPT !.added = Removed] ELSE netif
  /\ EthInitStatus' = 6
  /\ UNCHANGED <<phy, settings, DHCP_state, STATIC_state, dhcp_ip_addr, dhcp, linked,
                 refusals>>

KeepsDhcp ==      \* mutant: the state of DHCP survives a power cycle
  UNCHANGED DHCP_state /\ STATIC_state' = "STATIC_WAIT_ETH_CONFIG"
KeepsStatic ==    \* mutant: so does that of the static address
  DHCP_state' = "DHCP_START" /\ UNCHANGED STATIC_state
\* The states of ethernet_configuration.
Forgotten == DHCP_state' = "DHCP_START" /\ STATIC_state' = "STATIC_WAIT_ETH_CONFIG"

\* mode_power_on: ethernet_configuration, ethernet_dma_reset.
PowerOn ==
  /\ ~power_on
  /\ power_on' = TRUE
  /\ EthInitStatus' = 2
  /\ PHY_initial_status' = "PHY_RESET"
  /\ Forgotten
  /\ dhcp_ip_addr' = IF mode_dhcp_enable = 1 THEN NoAddress ELSE dhcp_ip_addr
  /\ UNCHANGED <<timeout, settings, netif, dhcp, linked, refusals>>

-----------------------------------------------------------------------------
EthernetMain ==
  \/ PhyReset \/ PhyDelay \/ PhyLinked \/ PhyNegotiated \/ PhyWaits \/ PhyDone
  \/ LinkInterrupt \/ LwIPInit \/ FineTick

Network ==
  \/ \E a \in Address : DhcpOffer(a) \/ DhcpAck(a)
  \/ DhcpNak \/ ArpReply \/ CableChanges

Command ==
  \/ \E val \in {0, 1} : ExecIpModeConfig(val)
  \/ \E a \in Address : ExecStaticIpSet(a)
  \/ PowerOff \/ PowerOn

NetNext == EthernetMain \/ Network \/ Command

\* The loop goes on.  A link that is tried again and again is found, its
\* negotiation ends in one of the waits for it.
NetFairness ==
  /\ WF_netVars(PhyReset \/ PhyDelay \/ PhyWaits \/ PhyDone)
  /\ WF_netVars(LinkInterrupt \/ LwIPInit)
  /\ WF_netVars(FineTick)
  /\ SF_netVars(PhyLinked) /\ SF_netVars(PhyNegotiated)

NetSpec == NetInit /\ [][NetNext]_netVars
NetFairSpec == NetSpec /\ NetFairness

-----------------------------------------------------------------------------
\* What reply_network_status tells.
Connected ==
  IF mode_dhcp_enable = 1 THEN DHCP_state = "DHCP_ADDRESS_ASSIGNED"
  ELSE STATIC_state = "STATIC_IP_CONFIGURED"

\* However often the unit is switched off and on, and however far it had come,
\* lwIP's list holds its one interface at most once, and holds it while served.
\* (netif_add of a listed one would make the list a ring the timers never leave.)
AddedOnce ==
  /\ netif.added <= 1
  /\ Serving => netif.added = 1

\* LwIP_DHCP_Process_Handle reads through netif.dhcp without a look.  While it waits
\* for an address there is a client, unless its dhcp_start failed: no change of mode
\* to and fro, refusal or power cycle while waiting takes it away.  And whatever
\* ends the wait, no client is left behind.  (After a dhcp_start that failed the
\* handler does read through NULL: netconf.c ignores ERR_MEM.)
WaitHasClient ==
  Serving =>
    /\ DHCP_state = "DHCP_WAIT_ADDRESS" => HasClient(dhcp) \/ dhcp.state = "failed"
    /\ HasClient(dhcp) => DHCP_state = "DHCP_WAIT_ADDRESS"

\* A served unit that calls itself connected has an interface that is up and has
\* an address, the one it tells in DHCP mode.  (In static mode this ends with a
\* change to DHCP that is taken back before it has got an address.)
StatusIsTrue ==
  /\ Serving /\ Connected
  /\ mode_dhcp_enable = 1 \/ DHCP_state \in {"DHCP_START", "DHCP_ADDRESS_ASSIGNED"}
  => /\ netif.up /\ netif.ip # NoAddress
     /\ mode_dhcp_enable = 1 => dhcp_ip_addr = netif.ip

\* Served in DHCP mode the unit gets an address or gives up, offers and lost
\* answers in any order, if it is refused finitely often and the mode stays; after a
\* dhcp_start that failed, thanks only to TriesAtNull > MAX_DHCP_TRIES.
Settles ==
  Serving /\ mode_dhcp_enable = 1 ~>
    \/ DHCP_state \in {"DHCP_ADDRESS_ASSIGNED", "DHCP_TIMEOUT"}
    \/ mode_dhcp_enable = 0 \/ ~Serving

\* With a link that stays, the unit gets from the PHY to serving.
ComesUp == <>[]linked => (EthInitStatus = 2 ~> EthInitStatus \in {5, 6})

\* What the theorems about Settles and ComesUp take for granted: the loop's turns
\* can be taken whenever their guards hold.
LoopEnabled ==
  /\ power_on /\ EthInitStatus = 2
       => ENABLED <<PhyReset \/ PhyDelay \/ PhyWaits \/ PhyDone>>_netVars
  /\ power_on /\ EthInitStatus \in {3, 4}
       => ENABLED <<LinkInterrupt \/ LwIPInit>>_netVars
  /\ Serving /\ mode_dhcp_enable = 1 /\ DHCP_state \in {"DHCP_START", "DHCP_WAIT_ADDRESS"}
       => ENABLED <<FineTick>>_netVars
  /\ power_on /\ EthInitStatus = 2 /\ linked /\ InTime(timeout + 1)
       => /\ PHY_initial_status = "PHY_LINK_STATUS_CHECKING" => ENABLED <<PhyLinked>>_netVars
          /\ PHY_initial_status = "PHY_ATUO_NEG_CHECKING" => ENABLED <<PhyNegotiated>>_netVars
=============================================================================
