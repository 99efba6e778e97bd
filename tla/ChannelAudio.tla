---------------------------- MODULE ChannelAudio ----------------------------
(***************************************************************************)
(* Volume and balance of one channel, in three places: the program's       *)
(* memory, the attenuation registers of the NJW1194 and the cells of the   *)
(* EEPROM (njw1194.c, with the commands of command_key.c and               *)
(* proc_function.c mode_status_initial).  The four channels are alike, and *)
(* a command for all of them does for each what it does for one.           *)
(*                                                                         *)
(* A side's register counts attenuation: 64 is the loudest volume, 96; 254 *)
(* is volume 1; 255 is mute.  A write to the EEPROM is a step of its own:  *)
(* it may fail unnoticed, and the power may fail before it.  Which power   *)
(* option is set, and so whether a power on or off does anything, is the   *)
(* business of AmpSupervisor: here both outcomes are possible.  Routing,   *)
(* tone and mute share no state with this part.                            *)
(***************************************************************************)
EXTENDS Integers, Sequences

CONSTANTS
  VolumeValue,    \* volumes explored, and arguments of the volume commands
  BalanceValue,   \* balances explored
  BalanceArg,     \* arguments of the balance commands
  StoredBalance,  \* the cell of the balance, which no command writes
  StrayByte       \* what may lie behind a row of balanceLevelTable

Byte == 0 .. 255
MaxVolume == 96

ASSUME AudioAssumption ==
  /\ VolumeValue \subseteq Byte
  /\ BalanceValue \subseteq Byte
  /\ BalanceArg \subseteq Byte
  /\ StoredBalance \in 0 .. 30
  /\ StrayByte \subseteq Byte

VARIABLES
  volume,      \* [Side -> volume]: vol_left and vol_right
  vol,         \* vol: the volume of both, when they are equal
  balance,     \* 15 is the centre; more turns the left side down, less the right
  chip,        \* [Side -> the register's value]
  cell,        \* [Side -> the volume's cell in the EEPROM]
  writes,      \* cells the running function has still to write, <<side, value>>
  lost,        \* sides whose cell missed its last write
  power,       \* power_status.pwr_status
  programmed   \* history: has mode_status_initial run since the power came?

levels == <<volume, vol, balance, chip>>
stored == <<cell, lost>>
vars   == <<levels, stored, writes, power, programmed>>

Side == {"left", "right"}
BALANCE_MAX == 30

IsVolume(v) == v <= MaxVolume

TypeOK ==
  /\ volume \in [Side -> 0 .. MaxVolume]
  /\ vol \in 0 .. MaxVolume
  /\ balance \in Byte
  /\ chip \in [Side -> Byte]
  /\ cell \in [Side -> 0 .. MaxVolume]
  /\ writes \in Seq(Side \X (0 .. MaxVolume))
  /\ lost \subseteq Side
  /\ power \in {"initial", "on", "off"}
  /\ programmed \in BOOLEAN

-----------------------------------------------------------------------------
\* What a volume means to the chip.

\* The expressions (VOLUME_MAX_VAL - 2 * x) + 1, on unsigned chars.
Register(x) == (256 - 2 * x) % 256
Plain(v) == IF v = 0 THEN 255 ELSE Register(v)

\* balanceLevelTable: its row for volumes below 10, and all its other rows.
FirstRow  == <<1, 2, 3, 4, 5, 6, 7, 8, 9, 10, 11, 12, 14, 16, 0>>
OtherRows == <<1, 2, 3, 4, 5, 6, 8, 10, 12, 16, 20, 24, 28, 32, 0>>

\* GET_BALANCE_LEFT_INX and GET_BALANCE_RIGHT_INX, counted from 1.
Inx(b) == IF b > 15 THEN b - 15 ELSE 15 - b

\* vol_adjust_by_balance: beyond BALANCE_MAX the row is left, and what is read
\* there is up to the compiler's layout.
Adjustment(v, b) ==
  IF b > BALANCE_MAX THEN StrayByte
  ELSE IF v < 10 THEN {FirstRow[Inx(b)]} ELSE {OtherRows[Inx(b)]}

\* 0 stands for a side that is turned down altogether.  The test is on twice the
\* volume, the subtraction, on an unsigned char, on the volume itself.
AdjustedUntested(v, adj) ==   \* mutant: without the test
  IF adj > 0 THEN (v - adj) % 256 ELSE 0
Adjusted(v, adj) ==
  IF adj > 0 /\ 2 * v > adj THEN (v - adj) % 256 ELSE 0

TurnedDown(side, b) ==
  \/ side = "left" /\ b > 15
  \/ side = "right" /\ b < 15

\* The values njw1194_vol_ctrl may write to a side's register.
Balanced(side, v, b) ==
  IF v # 0 /\ TurnedDown(side, b)
  THEN {Register(Adjusted(v, adj)) : adj \in Adjustment(v, b)}
  ELSE {Plain(v)}

-----------------------------------------------------------------------------
\* The three functions that set the volume.

\* njw1194_vol_ctrl, with the balance to be applied.
VolCtrlOneCell(v, b) ==   \* mutant: the right side's cell forgotten
  IF IsVolume(v)
  THEN /\ vol' = v
       /\ volume' = [s \in Side |-> v]
       /\ \E l \in Balanced("left", v, b), r \in Balanced("right", v, b) :
            chip' = [s \in Side |-> IF s = "left" THEN l ELSE r]
       /\ writes' = <<<<"left", v>>>>
  ELSE UNCHANGED <<vol, volume, chip, writes>>
VolCtrl(v, b) ==
  IF IsVolume(v)
  THEN /\ vol' = v
       /\ volume' = [s \in Side |-> v]
       /\ \E l \in Balanced("left", v, b), r \in Balanced("right", v, b) :
            chip' = [s \in Side |-> IF s = "left" THEN l ELSE r]
       /\ writes' = <<<<"left", v>>, <<"right", v>>>>
  ELSE UNCHANGED <<vol, volume, chip, writes>>

\* vol after a side has been set; equal sides update it.
NewVolKept(new) == vol   \* mutant: the main volume not updated
NewVol(new) == IF new["left"] = new["right"] THEN new["left"] ELSE vol

\* njw1194_vol_ctrl_l and njw1194_vol_ctrl_r: the balance is left out.
SideCtrl(side, v) ==
  IF IsVolume(v)
  THEN LET new == [volume EXCEPT ![side] = v]
       IN  /\ volume' = new
           /\ vol' = NewVol(new)
           /\ chip' = [chip EXCEPT ![side] = Plain(v)]
           /\ writes' = <<<<side, v>>>>
  ELSE UNCHANGED <<vol, volume, chip, writes>>

\* njw1194_balance_ctrl: only with equal sides, and always with the new balance.
BalanceCtrlAlways(b) ==   \* mutant: also with unequal sides, keeping the chip
  /\ balance' = b
  /\ IF volume["left"] = volume["right"]
     THEN VolCtrl(vol, b)
     ELSE UNCHANGED <<volume, vol, chip, writes>>
BalanceCtrl(b) ==
  IF volume["left"] = volume["right"]
  THEN balance' = b /\ VolCtrl(vol, b)
  ELSE UNCHANGED <<levels, writes>>

-----------------------------------------------------------------------------
\* A boot has loaded the cells: Check_Backup, backup_range_check.
Init ==
  /\ cell \in [Side -> VolumeValue \cap (0 .. MaxVolume)]
  /\ volume = cell
  /\ vol = 0
  /\ balance = StoredBalance
  /\ chip = [s \in Side |-> 0]
  /\ writes = <<>> /\ lost = {}
  /\ power \in {"initial", "off"}
  /\ programmed = FALSE

\* Commands: key_input_check runs in the main loop, but for the two seconds of
\* MAIN_POWER_INITIAL.
Command ==
  /\ writes = <<>> /\ power # "initial"
  /\ UNCHANGED <<stored, power, programmed>>

\* Bound: steps up and down are followed within the explored values.
Explored == vol' \in VolumeValue /\ volume' \in [Side -> VolumeValue]
ExploredBalance == balance' \in BalanceValue

\* exec_volume_set, exec_volume_up, exec_volume_down: on an unsigned char.
VolumeSet(v) == Command /\ VolCtrl(v, balance) /\ UNCHANGED balance
VolumeUp ==
  Command /\ VolCtrl((vol + 1) % 256, balance) /\ UNCHANGED balance /\ Explored
VolumeDown ==
  Command /\ VolCtrl((vol - 1) % 256, balance) /\ UNCHANGED balance /\ Explored

\* exec_volume_left_set, ..._up, ..._down, and the same of the right side.
SideSet(side, v) == Command /\ SideCtrl(side, v) /\ UNCHANGED balance
SideUp(side) ==
  Command /\ SideCtrl(side, (volume[side] + 1) % 256) /\ UNCHANGED balance /\ Explored
SideDown(side) ==
  Command /\ SideCtrl(side, (volume[side] - 1) % 256) /\ UNCHANGED balance /\ Explored

\* exec_balance_left_set, exec_balance_right_set: 15 - data or 15 + data on an
\* unsigned char.  DIR_DIRECT tests the balance there was, not the new one.
BalanceSet(data) ==
  /\ Command
  /\ \E b \in {(15 - data) % 256, (15 + data) % 256} :
       BalanceCtrl(IF balance <= BALANCE_MAX THEN b ELSE balance)
  /\ ExploredBalance

\* exec_balance_right, exec_balance_left.  At the end of the range nothing is
\* written; beyond it DIR_UP goes on.
BalanceRight ==
  /\ Command
  /\ IF balance = BALANCE_MAX THEN UNCHANGED <<levels, writes>>
                              ELSE BalanceCtrl((balance + 1) % 256)
  /\ ExploredBalance
BalanceLeft ==
  /\ Command
  /\ IF balance = 0 THEN UNCHANGED <<levels, writes>> ELSE BalanceCtrl(balance - 1)
  /\ ExploredBalance

\* nvr_xPutData of the next cell; after five addresses without an answer it
\* gives up and tells nobody.
Store ==
  /\ writes # <<>>
  /\ LET side == Head(writes)[1]
     IN  \/ cell' = [cell EXCEPT ![side] = Head(writes)[2]] /\ lost' = lost \ {side}
         \/ lost' = lost \cup {side} /\ UNCHANGED cell
  /\ writes' = Tail(writes)
  /\ UNCHANGED <<levels, power, programmed>>

\* mode_power_on by command, or exec_amp_ch_on on a unit that is off or on.
PowerOn ==
  /\ writes = <<>> /\ power # "initial"
  /\ power' = "initial"
  /\ UNCHANGED <<levels, stored, writes, programmed>>

PowerOff ==
  /\ writes = <<>> /\ power = "on"
  /\ power' = "off"
  /\ UNCHANGED <<levels, stored, writes, programmed>>

\* mode_status_initial, for this channel: the chip is set up from memory.
ModeStatusInitial ==
  /\ power = "initial" /\ writes = <<>>
  /\ IF volume["left"] = volume["right"]
     THEN VolCtrl(volume["left"], balance)
     ELSE /\ chip' = [s \in Side |-> Plain(volume[s])]
          /\ writes' = <<<<"left", volume["left"]>>, <<"right", volume["right"]>>>>
          /\ UNCHANGED <<volume, vol>>
  /\ power' = "on"
  /\ programmed' = TRUE
  /\ UNCHANGED <<balance, stored>>

\* The power fails at any point and comes back; the boot loads the cells.
PowerCut ==
  /\ volume' = cell
  /\ vol' = 0
  /\ balance' = StoredBalance
  /\ chip' = [s \in Side |-> 0]
  /\ writes' = <<>> /\ lost' = {}
  /\ power' \in {"initial", "off"}
  /\ programmed' = FALSE
  /\ UNCHANGED cell

Next ==
  \/ \E v \in VolumeValue : VolumeSet(v)
  \/ VolumeUp \/ VolumeDown
  \/ \E side \in Side : SideUp(side) \/ SideDown(side)
  \/ \E side \in Side, v \in VolumeValue : SideSet(side, v)
  \/ \E data \in BalanceArg : BalanceSet(data)
  \/ BalanceRight \/ BalanceLeft
  \/ Store
  \/ PowerOn \/ PowerOff \/ ModeStatusInitial \/ PowerCut

Spec == Init /\ [][Next]_vars

-----------------------------------------------------------------------------
(***************************************************************************)
(* Properties.                                                             *)
(***************************************************************************)

\* Once set up, the chip plays what the memory says: each side's register stands
\* for that side's volume, either plain or turned down by the balance there is
\* now, never by an earlier one (njw1194_balance_ctrl leaves the balance alone
\* while the sides differ, and sets both registers when it changes it).
ChipFollows ==
  programmed =>
    \A s \in Side : chip[s] \in {Plain(volume[s])} \cup Balanced(s, volume[s], balance)

\* njw1194_vol_ctrl subtracts past 0: from a volume less than the table's value that
\* its test, on twice the volume, lets pass.
PassesZero(side, v, b) ==
  TurnedDown(side, b) /\ \E adj \in Adjustment(v, b) : v < adj /\ adj < 2 * v

\* Within its range balance never makes a side louder than its volume, whatever set
\* volumes and balance before, but for a volume from which it is subtracted past 0
\* (that side is loud); register 0 is what a side turned down altogether gets.
TurnsDownOnly ==
  programmed /\ balance <= BALANCE_MAX =>
    \A s \in Side :
      \/ PassesZero(s, volume[s], balance)
      \/ chip[s] = 0 \/ chip[s] >= Plain(volume[s])

\* No volume is forgotten: with nothing left to write, each cell holds what a
\* restart should find, but for a cell whose last write failed.
CellsHoldVolumes ==
  writes = <<>> => \A s \in Side \ lost : cell[s] = volume[s]

\* A balance command leaves the volumes as they are: njw1194_balance_ctrl sets
\* both sides to vol, which equals them then, whatever set them before.
BalanceKeepsVolume ==
  [][programmed /\ programmed' /\ balance' # balance => UNCHANGED volume]_vars

\* A step up or down of equal sides is one step, at the ends of the range none:
\* vol, which the step starts from, is not left over from an earlier volume.
StepsByOne ==
  [][programmed /\ volume["left"] = volume["right"] /\ (VolumeUp \/ VolumeDown)
     => \A s \in Side : volume'[s] - volume[s] \in {-1, 0, 1}]_vars
=============================================================================
