------------------------------ MODULE Settings ------------------------------
(***************************************************************************)
(* The settings and their copy in the EEPROM: how they are loaded, checked *)
(* and repaired at boot (Check_Backup, backup_range_check), reset to       *)
(* factory defaults (exec_factory_default, mode_reset) and changed by      *)
(* commands.  Every EEPROM write is a step, and the power may fail between *)
(* any two of them.  The source is proc_function.c, main.c up to its loop, *)
(* and the commands of command_key.c and njw1194.c that change a setting.  *)
(*                                                                         *)
(* The four channels' settings are read, checked and written alike: one    *)
(* row, the left volume of channel A, stands for them.  An IP address is   *)
(* one value: the byte in which the defaults of the two addresses differ.  *)
(***************************************************************************)
EXTENDS Integers, Sequences

CONSTANTS
  Stored,          \* what the settings' cells may hold before the first boot
  StoredAddress,   \* the same for a cell of an address
  ThresholdValue,  \* the arguments of the commands that set a temperature
  VolumeValue,     \* the arguments of the volume commands
  AddressValue     \* the arguments of the commands that set an address

Byte == 0 .. 255

\* proc_function.c reconstruct_Table, in the order of backup_range_check: the
\* range of a cell and its factory default.
Entry(low, high, initial) == [low |-> low, high |-> high, initial |-> initial]

reconstruct_Table == <<
  Entry(30, 85, 60),    \* fan_hs_on_temp
  Entry(28, 85, 50),    \* fan_hs_off_temp
  Entry(31, 86, 80),    \* shutdown_temp
  Entry(31, 99, 95),    \* SMPS_shutdown_temp
  Entry(30, 85, 50),    \* smps_fan_on_temp: SMPS_FAN_OFF_TEMP_INITIAL
  Entry(28, 85, 60),    \* smps_fan_off_temp: SMPS_FAN_ON_TEMP_INITIAL
  Entry(30, 85, 45),    \* fan_ls_on_temp
  Entry(28, 85, 40),    \* fan_ls_off_temp
  Entry(0, 96, 0),      \* volume_Lch[0]
  Entry(0, 2, 1) >>     \* power option

FAN_HS_ON   == 1
FAN_HS_OFF  == 2
SHUTDOWN    == 3
SMPS_SHUTDOWN == 4
SMPS_FAN_ON == 5
SMPS_FAN_OFF == 6
FAN_LS_ON   == 7
FAN_LS_OFF  == 8
VOLUME      == 9
Row == 1 .. 10

MAX_TEMP == 100
MAX_MASTER_VOLUME == 96

\* ethernet_backup_default: 192.168.3.2 and 192.168.3.1.
DefaultAddress == [ip |-> 2, gateway |-> 1]
AddressField == <<"ip", "gateway">>

ASSUME SettingsAssumption ==
  /\ Stored \subseteq [Row -> Byte]
  /\ StoredAddress \subseteq Byte
  /\ ThresholdValue \subseteq Byte
  /\ VolumeValue \subseteq Byte
  /\ AddressValue \subseteq Byte

VARIABLES
  eeprom,          \* [Row -> Byte], the settings' cells
  stored_address,  \* the addresses' cells
  check_ram,       \* does ADDR_CHECKRAM hold its mark, 0xA5?
  reset,           \* is ADDR_RESET on?
  ram,             \* [Row -> Byte], the settings the program runs on
  address,         \* manual_ip_addr and manual_gateway_addr
  stage,           \* where the program is: the parts of the boot, or running
  row,             \* the next row, pair or field of that part
  asked,           \* history: must the next run start from the factory defaults?
  fresh,           \* history: no command since the boot
  clean            \* history: the last boot loaded cells that were all in range

cells  == <<eeprom, stored_address, check_ram, reset>>
memory == <<ram, address>>
vars   == <<cells, memory, stage, row, asked, fresh, clean>>

Stage == {"boot", "repair", "check", "reload", "address", "mark", "clear", "running"}

Initial(r) == reconstruct_Table[r].initial
InRange(r, value) ==
  reconstruct_Table[r].low <= value /\ value <= reconstruct_Table[r].high

\* The on and off temperatures of a fan, in the order Check_Backup repairs them.
Pair == << [on |-> FAN_HS_ON,   off |-> FAN_HS_OFF],
           [on |-> FAN_LS_ON,   off |-> FAN_LS_OFF],
           [on |-> SMPS_FAN_ON, off |-> SMPS_FAN_OFF] >>

Larger(a, b) == IF a >= b THEN a ELSE b

TypeOK ==
  /\ eeprom \in [Row -> Byte]
  /\ stored_address \in [ip : Byte, gateway : Byte]
  /\ check_ram \in BOOLEAN /\ reset \in BOOLEAN
  /\ ram \in [Row -> Byte]
  /\ address \in [ip : Byte, gateway : Byte]
  /\ stage \in Stage
  /\ row \in Row
  /\ asked \in BOOLEAN /\ fresh \in BOOLEAN /\ clean \in BOOLEAN

-----------------------------------------------------------------------------
\* After the startup code's zeroing of the RAM.
NoSettings == [r \in Row |-> 0]
NoAddress == [ip |-> 0, gateway |-> 0]

\* Any content: an EEPROM never written by this program has no mark; one that
\* has it may have cells out of range, which is what backup_range_check is for.
Init ==
  /\ eeprom \in Stored
  /\ stored_address \in [ip : StoredAddress, gateway : StoredAddress]
  /\ check_ram \in BOOLEAN
  /\ reset \in BOOLEAN
  /\ ram = NoSettings /\ address = NoAddress
  /\ stage = "boot" /\ row = 1
  /\ asked = (reset \/ ~check_ram)
  /\ fresh = TRUE
  /\ clean = FALSE

-----------------------------------------------------------------------------
\* Boot: main.c main, from the read of ADDR_RESET to its loop.

\* Check_Backup's reads: the settings as stored, both addresses from the cells
\* of the IP address.
Load ==
  /\ ram' = eeprom
  /\ address' = [ip |-> stored_address.ip, gateway |-> stored_address.ip]
  /\ clean' = (\A r \in Row : InRange(r, eeprom[r]))
  /\ stage' = "repair"

\* Mutant of Boot: mode_reset clears ADDR_RESET first and not last.
BootClearingReset ==
  /\ stage = "boot"
  /\ IF ~reset /\ check_ram
     THEN Load /\ UNCHANGED cells
     ELSE /\ stage' = "reload" /\ clean' = FALSE /\ UNCHANGED memory
          /\ reset' = FALSE /\ UNCHANGED <<eeprom, stored_address, check_ram>>
  /\ row' = 1
  /\ fresh' = TRUE
  /\ UNCHANGED asked

Boot ==
  /\ stage = "boot"
  /\ IF ~reset /\ check_ram
     THEN Load
     ELSE stage' = "reload" /\ clean' = FALSE /\ UNCHANGED memory
  /\ row' = 1
  /\ fresh' = TRUE
  /\ UNCHANGED <<cells, asked>>

\* A setting and its cell get a value, in one nvr_xPutData.
PutInRam(r, value) ==   \* mutant: the write to the EEPROM forgotten
  /\ ram' = [ram EXCEPT ![r] = value]
  /\ UNCHANGED eeprom
Put(r, value) ==
  /\ ram' = [ram EXCEPT ![r] = value]
  /\ eeprom' = [eeprom EXCEPT ![r] = value]

\* The off temperature is kept 2 degrees below the on temperature; the
\* subtraction is on an unsigned char.
RepairPairByOne(on, off) ==   \* mutant: off by one
  IF ram[on] < ram[off] + 1
  THEN Put(off, (ram[on] - 2) % 256)
  ELSE UNCHANGED <<ram, eeprom>>
RepairPairFromOff(on, off) ==   \* mutant: the wrong one of the two lowered
  IF ram[on] < ram[off] + 2
  THEN Put(off, (ram[off] - 2) % 256)
  ELSE UNCHANGED <<ram, eeprom>>
RepairPair(on, off) ==
  IF ram[on] < ram[off] + 2
  THEN Put(off, (ram[on] - 2) % 256)
  ELSE UNCHANGED <<ram, eeprom>>

\* The shutdown temperature is kept above the fans' on temperatures.
RepairShutdown ==
  LET temp == Larger(ram[FAN_HS_ON], ram[SMPS_FAN_ON])
  IN  IF ram[SHUTDOWN] <= temp
      THEN Put(SHUTDOWN, (temp + 1) % 256)
      ELSE UNCHANGED <<ram, eeprom>>

\* The repairs of Check_Backup, one after the other.
Repair ==
  /\ stage = "repair"
  /\ \/ /\ row \in DOMAIN Pair
        /\ RepairPair(Pair[row].on, Pair[row].off)
        /\ row' = row + 1
        /\ UNCHANGED stage
     \/ /\ row \notin DOMAIN Pair
        /\ RepairShutdown
        /\ row' = 1
        /\ stage' = "check"
  /\ UNCHANGED <<stored_address, check_ram, reset, address, asked, fresh, clean>>

\* The next row, or the next part of the boot after the last one.
NextRowEarly(part) ==   \* mutant: the last row left out
  IF row = 9 THEN row' = 1 /\ stage' = part
             ELSE row' = row + 1 /\ UNCHANGED stage
NextRow(part) ==
  IF row = 10 THEN row' = 1 /\ stage' = part
              ELSE row' = row + 1 /\ UNCHANGED stage

\* backup_range_check(1), then mode_power_on and main's loop.
RangeCheck ==
  /\ stage = "check"
  /\ IF InRange(row, ram[row]) THEN UNCHANGED <<ram, eeprom>>
                               ELSE Put(row, Initial(row))
  /\ NextRow("running")
  /\ UNCHANGED <<stored_address, check_ram, reset, address, asked, fresh, clean>>

\* reload_default_configuration: backup_range_check(0), ...
Reload ==
  /\ stage = "reload"
  /\ Put(row, Initial(row))
  /\ NextRow("address")
  /\ UNCHANGED <<stored_address, check_ram, reset, address, asked, fresh, clean>>

\* ... ethernet_backup_default, ...
ReloadAddress ==
  /\ stage = "address"
  /\ address' = DefaultAddress
  /\ stored_address' =
       [stored_address EXCEPT ![AddressField[row]] = DefaultAddress[AddressField[row]]]
  /\ IF row = 2 THEN row' = 1 /\ stage' = "mark"
                ELSE row' = row + 1 /\ UNCHANGED stage
  /\ UNCHANGED <<eeprom, check_ram, reset, ram, asked, fresh, clean>>

\* ... and the mark in ADDR_CHECKRAM.
Mark ==
  /\ stage = "mark"
  /\ check_ram' = TRUE
  /\ stage' = "clear"
  /\ UNCHANGED <<eeprom, stored_address, reset, memory, row, asked, fresh, clean>>

\* The end of mode_reset.
ClearReset ==
  /\ stage = "clear"
  /\ reset' = FALSE
  /\ stage' = "running"
  /\ UNCHANGED <<eeprom, stored_address, check_ram, memory, row, asked, fresh, clean>>

-----------------------------------------------------------------------------
\* Commands, in main's loop.

Commanded == asked' = FALSE /\ fresh' = FALSE

\* The set_fan_... functions take any byte, set_amp_shutdown_temp and
\* set_smps_shutdown_temp refuse MAX_TEMP and more; none writes the EEPROM, and
\* no command sets fan_ls_on_amp_temp.
SetThreshold(r, value) ==
  /\ stage = "running"
  /\ r \in {SHUTDOWN, SMPS_SHUTDOWN} => value < MAX_TEMP
  /\ ram' = [ram EXCEPT ![r] = value]
  /\ Commanded
  /\ UNCHANGED <<cells, address, stage, row, clean>>

\* exec_volume_left_set, njw1194_vol_ctrl_l.
SetVolume(value) ==
  /\ stage = "running"
  /\ value <= MAX_MASTER_VOLUME
  /\ Put(VOLUME, value)
  /\ Commanded
  /\ UNCHANGED <<stored_address, check_ram, reset, address, stage, row, clean>>

\* exec_static_ip_set and exec_static_gateway_set.
SetAddress(field, value) ==
  /\ stage = "running"
  /\ address' = [address EXCEPT ![field] = value]
  /\ stored_address' = [stored_address EXCEPT ![field] = value]
  /\ Commanded
  /\ UNCHANGED <<eeprom, check_ram, reset, ram, stage, row, clean>>

\* The program starts over with its RAM zeroed.
Restart ==
  /\ ram' = NoSettings /\ address' = NoAddress
  /\ stage' = "boot" /\ row' = 1
  /\ UNCHANGED <<eeprom, stored_address, check_ram, fresh, clean>>

\* exec_factory_default.
ExecFactoryDefault ==
  /\ stage = "running"
  /\ reset' = TRUE
  /\ asked' = TRUE
  /\ Restart

\* Nothing is left to do of the reset asked for but for clearing a flag that is
\* already clear: an EEPROM without its mark has been given defaults and mark.
ResetDone == stage = "running" \/ (stage = "clear" /\ ~reset)

\* The power fails and comes back, at any point.
PowerCut ==
  /\ asked' = (asked /\ ~ResetDone)
  /\ Restart
  /\ UNCHANGED reset

Command ==
  \/ \E r \in (FAN_HS_ON .. FAN_LS_OFF) \ {FAN_LS_ON}, value \in ThresholdValue :
       SetThreshold(r, value)
  \/ \E value \in VolumeValue : SetVolume(value)
  \/ \E field \in {"ip", "gateway"}, value \in AddressValue : SetAddress(field, value)
  \/ ExecFactoryDefault

BootStep ==
  Boot \/ Repair \/ RangeCheck \/ Reload \/ ReloadAddress \/ Mark \/ ClearReset

Next == BootStep \/ Command \/ PowerCut

Spec == Init /\ [][Next]_vars

-----------------------------------------------------------------------------
(***************************************************************************)
(* Properties.                                                             *)
(***************************************************************************)

\* A factory reset is all or nothing (exec_factory_default, mode_reset): once it
\* is asked for, or the EEPROM is found unmarked, the unit next runs with every
\* setting and address at its default, in memory and in the EEPROM, however
\* often and wherever the power fails in between.
ResetIsComplete ==
  stage = "running" /\ asked =>
    /\ \A r \in Row : eeprom[r] = Initial(r) /\ ram[r] = Initial(r)
    /\ stored_address = DefaultAddress /\ address = DefaultAddress
    /\ check_ram /\ ~reset

\* The unit never runs with a setting out of its range in the EEPROM, whatever
\* the cells held before: the repairs of Check_Backup, done first and on
\* unsigned chars, may produce such values (backup_range_check).
CellsInRange ==
  stage = "running" => \A r \in Row : InRange(r, eeprom[r])

\* Until the first command the unit runs on what the EEPROM holds: no repair or
\* range check is done in one place only (Check_Backup, backup_reconstruct).
RamMatchesEeprom ==
  stage = "running" /\ fresh => ram = eeprom

\* A boot from cells in range leaves each fan its 2 degrees of hysteresis and
\* the shutdown above the fans' temperatures: no later repair or range check
\* undoes an earlier repair (Check_Backup).
HysteresisAfterBoot ==
  stage = "running" /\ fresh /\ clean =>
    /\ \A k \in DOMAIN Pair : ram[Pair[k].on] >= ram[Pair[k].off] + 2
    /\ ram[SHUTDOWN] > ram[FAN_HS_ON] /\ ram[SHUTDOWN] > ram[SMPS_FAN_ON]

\* What Check_Backup is to make of cells that are in range.
OffRepaired(c, on, off) == IF c[on] < c[off] + 2 THEN c[on] - 2 ELSE c[off]
Outcome(c) ==
  [c EXCEPT ![FAN_HS_OFF]   = OffRepaired(c, FAN_HS_ON, FAN_HS_OFF),
            ![FAN_LS_OFF]   = OffRepaired(c, FAN_LS_ON, FAN_LS_OFF),
            ![SMPS_FAN_OFF] = OffRepaired(c, SMPS_FAN_ON, SMPS_FAN_OFF),
            ![SHUTDOWN]     = Larger(@, Larger(c[FAN_HS_ON], c[SMPS_FAN_ON]) + 1)]

\* The boot will load the cells, and they are in range.
Restorable == check_ram /\ ~reset /\ \A r \in Row : InRange(r, eeprom[r])

\* A boot from cells in range ends in the same settings however often, and
\* between whichever two writes, the power fails on the way: the cells a failure
\* leaves half repaired lead to the outcome the first ones had (Check_Backup).
BootIsRepeatable ==
  [][Restorable /\ (BootStep \/ PowerCut) =>
       /\ Restorable' /\ Outcome(eeprom') = Outcome(eeprom)
       /\ clean /\ stage = "check" /\ stage' = "running" => ram' = Outcome(eeprom)]_vars

\* proc_function.c:361: the default gateway is 192.168.3.1.  (Check_Backup loads
\* the gateway from the cells of the IP address: from the next boot on it is the
\* unit's own address.)
GatewayIsKept ==
  stage = "running" => address.gateway = stored_address.gateway
=============================================================================
