-------------------------------- MODULE Lan9118 --------------------------------
(* The initialisation of the LAN9118 Ethernet controller: registers of the MAC *)
(* behind a command register, registers of the PHY behind two of the MAC, each *)
(* transfer of which takes its time, and time-outs that may end a call before  *)
(* it is over.  A register is the set of what is set in it.                     *)
EXTENDS Naturals, Sequences

CONSTANTS PollBound  \* polls of a busy bit before a time-out, 50 in the code

VARIABLES mac,      \* mac_csr_cmd and mac_csr_data
          cr, acc, data,  \* MAC registers: control, MII access and MII data
          phy,      \* the registers of the PHY
          macCall, phyCall,  \* lan9118_mac_reg{read,write} and _phy_reg{read,write}
          pc,       \* the step of lan9118_init
          value,    \* what it read last
          state,    \* dev->data->state, or that it returned an error
          ignored   \* whether a function that returns nothing had an error

vars == <<mac, cr, acc, data, phy, macCall, phyCall, pc, value, state, ignored>>

Bits == {"TXEN", "RXEN", "RESET", "ANEG_EN", "CAPS", "ID"}
MacReg == {"CR", "ADDRH", "ADDRL", "MII_ACC", "MII_DATA"}
PhyReg == {"BCTRL", "ID1", "ID2", "ANEG_ADV"}
NoCommand == [busy |-> FALSE, write |-> FALSE, reg |-> "BCTRL", meant |-> {}]
Idle == [at |-> "idle", write |-> FALSE, reg |-> "none", data |-> {},
         command |-> NoCommand, left |-> 0, error |-> FALSE]

LanFits == PollBound \in Nat \ {0}

TypeOK ==
  /\ cr \subseteq Bits /\ data \subseteq Bits /\ value \subseteq Bits
  /\ mac.busy \in BOOLEAN /\ acc.busy \in BOOLEAN
  /\ phy \in [PhyReg -> SUBSET Bits]
  /\ macCall.at \in {"idle", "start", "command", "poll", "done"}
  /\ phyCall.at \in {"idle", "asks", "data", "command", "poll", "reads", "done"}
  /\ state \in {"down", "up", "error"} /\ ignored \in BOOLEAN

NoTransfer == [busy |-> FALSE, write |-> FALSE, reg |-> "CR", data |-> {},
               command |-> NoCommand]
PhyWith(id) == [r \in PhyReg |-> IF r \in {"ID1", "ID2"} THEN id ELSE {}]

\* The command of the MII access register has what its transfer is meant to write.
\* A PHY that does not answer is seen by its identifiers.
Init ==
  /\ mac = NoTransfer
  /\ cr = {} /\ data = {}
  /\ acc = NoCommand
  /\ phy \in {PhyWith({}), PhyWith({"ID"})}
  /\ macCall = Idle /\ phyCall = Idle
  /\ pc = 1 /\ value = {} /\ state = "down" /\ ignored = FALSE

--------------------
(* The controller: the transfers that were started complete at some time.     *)

calls == <<macCall, phyCall, pc, value, state, ignored>>

MacCompletes ==
  /\ mac.busy
  /\ IF mac.write
       THEN /\ cr' = IF mac.reg = "CR" THEN mac.data ELSE cr
            /\ data' = IF mac.reg = "MII_DATA" THEN mac.data ELSE data
            /\ acc' = IF mac.reg = "MII_ACC" THEN mac.command ELSE acc
            /\ mac' = [mac EXCEPT !.busy = FALSE]
       ELSE /\ mac' = [mac EXCEPT !.busy = FALSE, !.command = acc,
                         !.data = CASE mac.reg = "CR" -> cr [] mac.reg = "MII_DATA" -> data
                                    [] OTHER -> {}]
            /\ UNCHANGED <<cr, acc, data>>
  /\ UNCHANGED <<phy, calls>>

MiiCompletes ==
  /\ acc.busy /\ acc' = [acc EXCEPT !.busy = FALSE]
  /\ IF acc.write THEN phy' = [phy EXCEPT ![acc.reg] = data] /\ UNCHANGED data
     ELSE data' = phy[acc.reg] /\ UNCHANGED phy
  /\ UNCHANGED <<mac, cr, calls>>

PhyResetEnds ==
  /\ "RESET" \in phy["BCTRL"] /\ phy' = [phy EXCEPT !["BCTRL"] = {}]
  /\ UNCHANGED <<mac, cr, acc, data, calls>>

--------------------
(* lan9118_mac_regread and lan9118_mac_regwrite.                              *)

registers == <<cr, acc, data, phy>>
script == <<pc, value, state, ignored>>

MacCalls(write, reg, d, command) ==
  macCall' = [at |-> "start", write |-> write, reg |-> reg, data |-> d,
              command |-> command, left |-> PollBound, error |-> FALSE]

MacRefused ==
  /\ macCall.at = "start" /\ mac.busy
  /\ macCall' = [macCall EXCEPT !.at = "done", !.error = TRUE]
  /\ UNCHANGED <<mac, registers, phyCall, script>>

lan9118_mac_regread ==
  /\ macCall.at = "start" /\ ~macCall.write /\ ~mac.busy
  /\ mac' = [mac EXCEPT !.busy = TRUE, !.write = FALSE, !.reg = macCall.reg]
  /\ macCall' = [macCall EXCEPT !.at = "poll"]
  /\ UNCHANGED <<registers, phyCall, script>>

\* The data goes first, then the command.
lan9118_mac_regwrite ==
  /\ macCall.at = "start" /\ macCall.write /\ ~mac.busy
  /\ mac' = [mac EXCEPT !.data = macCall.data, !.command = macCall.command]
  /\ macCall' = [macCall EXCEPT !.at = "command"]
  /\ UNCHANGED <<registers, phyCall, script>>

WriteCommand ==
  /\ macCall.at = "command"
  /\ mac' = [mac EXCEPT !.busy = TRUE, !.write = TRUE, !.reg = macCall.reg]
  /\ macCall' = [macCall EXCEPT !.at = "poll"]
  /\ UNCHANGED <<registers, phyCall, script>>

\* Of a write bit 0 of the command is looked at, which is that of the register.
Awaited(call) == mac.busy /\ (call.write => call.reg \in {"CR", "ADDRL", "MII_DATA"})

\* A transfer seen complete at the last poll counts as timed out.
MacPolls ==
  LET left == macCall.left - 1 IN
  /\ macCall.at = "poll"
  /\ macCall' =
       IF left > 0 /\ Awaited(macCall) THEN [macCall EXCEPT !.left = left]
       ELSE [macCall EXCEPT !.at = "done", !.left = 0, !.error = (left = 0),
                            !.data = mac.data, !.command = mac.command]
  /\ UNCHANGED <<mac, registers, phyCall, script>>

--------------------
(* lan9118_phy_regread and lan9118_phy_regwrite, which call those.            *)

MacDone(at) == phyCall.at = at /\ macCall.at = "done"
Asks == MacCalls(FALSE, "MII_ACC", {}, NoCommand)
Starts == MacCalls(TRUE, "MII_ACC", {},
                   [busy |-> TRUE, write |-> phyCall.write, reg |-> phyCall.reg,
                    meant |-> IF phyCall.write THEN phyCall.data ELSE {}])
PhyDone(error, d) ==
  /\ phyCall' = [phyCall EXCEPT !.at = "done", !.error = error, !.data = d]
  /\ macCall' = Idle

\* Mutant: a transfer in progress is not looked for.
AskedOnly ==
  /\ MacDone("asks") /\ UNCHANGED <<mac, registers, script>>
  /\ IF macCall.error THEN PhyDone(TRUE, {})
     ELSE IF phyCall.write
       THEN /\ MacCalls(TRUE, "MII_DATA", phyCall.data, NoCommand)
            /\ phyCall' = [phyCall EXCEPT !.at = "data"]
       ELSE Starts /\ phyCall' = [phyCall EXCEPT !.at = "command"]

PhyAsked ==
  /\ MacDone("asks") /\ UNCHANGED <<mac, registers, script>>
  /\ IF macCall.error \/ macCall.command.busy THEN PhyDone(TRUE, {})
     ELSE IF phyCall.write
       THEN /\ MacCalls(TRUE, "MII_DATA", phyCall.data, NoCommand)
            /\ phyCall' = [phyCall EXCEPT !.at = "data"]
       ELSE Starts /\ phyCall' = [phyCall EXCEPT !.at = "command"]

PhyDataWritten ==
  /\ MacDone("data") /\ UNCHANGED <<mac, registers, script>>
  /\ IF macCall.error THEN PhyDone(TRUE, {})
     ELSE Starts /\ phyCall' = [phyCall EXCEPT !.at = "command"]

PhyStarted ==
  /\ MacDone("command") /\ UNCHANGED <<mac, registers, script>>
  /\ IF macCall.error THEN PhyDone(TRUE, {})
     ELSE Asks /\ phyCall' = [phyCall EXCEPT !.at = "poll"]

PhyPolled ==
  LET left == phyCall.left - 1 IN
  /\ MacDone("poll") /\ UNCHANGED <<mac, registers, script>>
  /\ IF macCall.error THEN PhyDone(TRUE, {})
     ELSE IF left > 0 /\ macCall.command.busy
       THEN Asks /\ phyCall' = [phyCall EXCEPT !.left = left]
     ELSE IF left = 0 \/ phyCall.write THEN PhyDone(left = 0, {})
     ELSE /\ MacCalls(FALSE, "MII_DATA", {}, NoCommand)
          /\ phyCall' = [phyCall EXCEPT !.at = "reads"]

PhyRead ==
  /\ MacDone("reads") /\ UNCHANGED <<mac, registers, script>>
  /\ PhyDone(macCall.error, IF macCall.error THEN {} ELSE macCall.data)

--------------------
(* lan9118_init, and the reading of the address that follows it.              *)

Reads(on, reg) == [on |-> on, write |-> FALSE, reg |-> reg, adds |-> {}]
Writes(on, reg, bits) == [on |-> on, write |-> TRUE, reg |-> reg, adds |-> bits]

lan9118_check_phy == <<Reads("phy", "ID1"), Reads("phy", "ID2")>>
lan9118_reset_phy == <<Reads("phy", "BCTRL"), Writes("phy", "BCTRL", {"RESET"})>>
CheckReset == <<Reads("phy", "BCTRL")>>
lan9118_advertise_cap == <<Reads("phy", "ANEG_ADV"), Writes("phy", "ANEG_ADV", {"CAPS"})>>
lan9118_establish_link == <<Reads("phy", "BCTRL"), Writes("phy", "BCTRL", {"ANEG_EN"})>>
lan9118_enable_mac_xmit == <<Reads("mac", "CR"), Writes("mac", "CR", {"TXEN"})>>
\* Mutant: what was enabled is not read before.
RecvOnly == <<Writes("mac", "CR", {"RXEN"})>>
lan9118_enable_mac_recv == <<Reads("mac", "CR"), Writes("mac", "CR", {"RXEN"})>>
lan9118_read_mac_address == <<Reads("mac", "ADDRH"), Reads("mac", "ADDRL")>>

lan9118_init ==
  lan9118_check_phy \o lan9118_reset_phy \o CheckReset \o lan9118_advertise_cap
    \o lan9118_establish_link \o lan9118_enable_mac_xmit \o lan9118_enable_mac_recv
LowLevelInit == lan9118_init \o lan9118_read_mac_address

Over == state = "error" \/ pc > Len(LowLevelInit)
Step == LowLevelInit[pc]
Returns == IF Step.on = "phy" THEN phyCall ELSE macCall

StepBegins ==
  /\ ~Over /\ phyCall = Idle /\ macCall = Idle
  /\ IF Step.on = "phy"
       THEN /\ phyCall' = [Idle EXCEPT !.at = "asks", !.write = Step.write,
                             !.reg = Step.reg, !.left = PollBound,
                             !.data = IF Step.write THEN value \cup Step.adds ELSE {}]
            /\ Asks
       ELSE /\ MacCalls(Step.write, Step.reg,
                        IF Step.write THEN value \cup Step.adds ELSE {}, NoCommand)
            /\ UNCHANGED phyCall
  /\ UNCHANGED <<mac, registers, script>>

\* The functions that advertise, establish and enable return nothing.
MayFail == pc \in 6..Len(lan9118_init)

\* No PHY, or one still in reset.
Refuses(read) == (pc = 2 /\ read = {}) \/ (pc = 5 /\ "RESET" \in read)

StepReturns ==
  LET read == IF Step.write \/ Returns.error THEN {} ELSE Returns.data
      fails == Returns.error /\ ~MayFail IN
  /\ ~Over /\ Returns.at = "done"
  /\ phyCall' = Idle /\ macCall' = Idle
  /\ pc' = pc + 1 /\ value' = read
  /\ ignored' = (ignored \/ (Returns.error /\ MayFail))
  /\ state' = CASE fails \/ Refuses(read) -> "error"
                [] pc = Len(lan9118_init) -> "up"
                [] OTHER -> state
  /\ UNCHANGED <<mac, registers>>

\* The board, and with it the controller, is switched off and on again.
PowerCycle ==
  /\ Over
  /\ mac' = NoTransfer /\ cr' = {} /\ data' = {} /\ acc' = NoCommand
  /\ phy' \in {PhyWith({}), PhyWith({"ID"})}
  /\ macCall' = Idle /\ phyCall' = Idle
  /\ pc' = 1 /\ value' = {} /\ state' = "down" /\ ignored' = FALSE

Next ==
  \/ MacCompletes \/ MiiCompletes \/ PhyResetEnds
  \/ MacRefused \/ lan9118_mac_regread \/ lan9118_mac_regwrite \/ WriteCommand \/ MacPolls
  \/ PhyAsked \/ PhyDataWritten \/ PhyStarted \/ PhyPolled \/ PhyRead
  \/ StepBegins \/ StepReturns \/ PowerCycle

Spec == Init /\ [][Next]_vars

--------------------

\* What a transfer to the PHY is to write stays in the data register until it is
\* over, also when the call that started it timed out and others were made:
\* lan9118_eth_drv.c:584-609.
NoTornTransfer == acc.busy /\ acc.write => data = acc.meant

\* A controller that is said to be up is configured, unless an error was ignored:
\* capabilities advertised, auto-negotiation on, its PHY out of reset, and both
\* directions enabled, each by a read and a write of the same register.
UpMeansConfigured ==
  state = "up" /\ ~ignored =>
    /\ cr = {"TXEN", "RXEN"} /\ "CAPS" \in phy["ANEG_ADV"]
    /\ "ANEG_EN" \in phy["BCTRL"] /\ "RESET" \notin phy["BCTRL"]
=============================================================================
