--------------------------- MODULE SettingsProofs ---------------------------
(***************************************************************************)
(* Proofs about Settings: whatever the EEPROM holds at first, whatever the *)
(* commands' arguments, and however often the power fails.                 *)
(***************************************************************************)
EXTENDS Settings, TLAPS

(***************************************************************************)
(* The rows of reconstruct_Table: every default is a byte in its range,    *)
(* and the ranges the repairs of Check_Backup rely on.                     *)
(***************************************************************************)
LEMMA TableEntries ==
  /\ \A r \in Row : Initial(r) \in Byte /\ InRange(r, Initial(r))
  /\ \A v \in Byte :
       /\ InRange(FAN_HS_ON, v)    <=> 30 <= v /\ v <= 85
       /\ InRange(FAN_HS_OFF, v)   <=> 28 <= v /\ v <= 85
       /\ InRange(SHUTDOWN, v)     <=> 31 <= v /\ v <= 86
       /\ InRange(SMPS_FAN_ON, v)  <=> 30 <= v /\ v <= 85
       /\ InRange(SMPS_FAN_OFF, v) <=> 28 <= v /\ v <= 85
       /\ InRange(FAN_LS_ON, v)    <=> 30 <= v /\ v <= 85
       /\ InRange(FAN_LS_OFF, v)   <=> 28 <= v /\ v <= 85
       /\ InRange(VOLUME, v)       <=> v <= MAX_MASTER_VOLUME
<1>1. ASSUME NEW r \in Row PROVE Initial(r) \in Byte /\ InRange(r, Initial(r))
  BY SMTT(60) DEF Row, Initial, InRange, Byte, reconstruct_Table, Entry
<1>2. ASSUME NEW v \in Byte
      PROVE  /\ InRange(FAN_HS_ON, v)    <=> 30 <= v /\ v <= 85
             /\ InRange(FAN_HS_OFF, v)   <=> 28 <= v /\ v <= 85
             /\ InRange(SHUTDOWN, v)     <=> 31 <= v /\ v <= 86
             /\ InRange(SMPS_FAN_ON, v)  <=> 30 <= v /\ v <= 85
             /\ InRange(SMPS_FAN_OFF, v) <=> 28 <= v /\ v <= 85
             /\ InRange(FAN_LS_ON, v)    <=> 30 <= v /\ v <= 85
             /\ InRange(FAN_LS_OFF, v)   <=> 28 <= v /\ v <= 85
             /\ InRange(VOLUME, v)       <=> v <= MAX_MASTER_VOLUME
  BY SMTT(60) DEF InRange, Byte, reconstruct_Table, Entry, FAN_HS_ON, FAN_HS_OFF, SHUTDOWN,
         SMPS_FAN_ON, SMPS_FAN_OFF, FAN_LS_ON, FAN_LS_OFF, VOLUME, MAX_MASTER_VOLUME
<1> QED
  BY <1>1, <1>2

LEMMA RowNumbers ==
  /\ {FAN_HS_ON, FAN_HS_OFF, SHUTDOWN, SMPS_SHUTDOWN, SMPS_FAN_ON, SMPS_FAN_OFF,
      FAN_LS_ON, FAN_LS_OFF, VOLUME} \subseteq Row
  /\ DOMAIN Pair = 1 .. 3
  /\ Pair[1] = [on |-> FAN_HS_ON,   off |-> FAN_HS_OFF]
  /\ Pair[2] = [on |-> FAN_LS_ON,   off |-> FAN_LS_OFF]
  /\ Pair[3] = [on |-> SMPS_FAN_ON, off |-> SMPS_FAN_OFF]
BY DEF Row, Pair, FAN_HS_ON, FAN_HS_OFF, SHUTDOWN, SMPS_SHUTDOWN, SMPS_FAN_ON,
       SMPS_FAN_OFF, FAN_LS_ON, FAN_LS_OFF, VOLUME

(***************************************************************************)
(* Type correctness.  TypeOK is inductive together with the bound on row   *)
(* while the two addresses are written.                                    *)
(***************************************************************************)
TypeInv == TypeOK /\ (stage = "address" => row \in {1, 2})

LEMMA PutType ==
  ASSUME TypeInv, NEW r \in Row, NEW value \in Byte, Put(r, value)
  PROVE  ram' \in [Row -> Byte] /\ eeprom' \in [Row -> Byte]
BY DEF TypeInv, TypeOK, Put

LEMMA NextRowType ==
  ASSUME TypeInv, NEW part \in Stage, NextRow(part)
  PROVE  /\ row' \in Row /\ stage' \in Stage
         /\ stage' = stage \/ (stage' = part /\ row' = 1)
<1>1. CASE row = 10
  BY <1>1 DEF NextRow, Row
<1>2. CASE row # 10
  <2>1. row + 1 \in Row
    BY <1>2 DEF TypeInv, TypeOK, Row
  <2> QED
    BY <1>2, <2>1 DEF TypeInv, TypeOK, NextRow
<1> QED
  BY <1>1, <1>2

LEMMA TypeInit == Init => TypeInv
<1> SUFFICES ASSUME Init PROVE TypeInv
  OBVIOUS
<1>1. asked \in BOOLEAN
  BY Zenon DEF Init
<1>2. ram \in [Row -> Byte] /\ address \in [ip : Byte, gateway : Byte]
  BY DEF Init, NoSettings, NoAddress, Byte
<1>3. eeprom \in [Row -> Byte] /\ stored_address \in [ip : Byte, gateway : Byte]
  BY SettingsAssumption DEF Init
<1>4. /\ check_ram \in BOOLEAN /\ reset \in BOOLEAN
      /\ stage = "boot" /\ row = 1 /\ fresh \in BOOLEAN /\ clean \in BOOLEAN
  BY Zenon DEF Init
<1> QED
  BY <1>1, <1>2, <1>3, <1>4 DEF TypeInv, TypeOK, Row, Stage

LEMMA RepairType ==
  ASSUME TypeInv, Repair
  PROVE  TypeInv'
<1> USE DEF TypeInv, TypeOK
<1>1. /\ UNCHANGED <<stored_address, check_ram, reset, address, asked, fresh, clean>>
      /\ stage = "repair"
  BY DEF Repair
<1>2. CASE /\ row \in DOMAIN Pair /\ RepairPair(Pair[row].on, Pair[row].off)
           /\ row' = row + 1 /\ UNCHANGED stage
  <2>1. Pair[row].on \in Row /\ Pair[row].off \in Row /\ row \in 1 .. 3
    BY <1>2, RowNumbers
  <2>2. ram[Pair[row].on] \in Byte
    BY <2>1
  <2>3. (ram[Pair[row].on] - 2) % 256 \in Byte
    BY <2>2, SMTT(60) DEF Byte
  <2>4. ram' \in [Row -> Byte] /\ eeprom' \in [Row -> Byte]
    BY <1>2, <2>1, <2>3, PutType DEF RepairPair
  <2>5. row' \in Row
    BY <1>2, <2>1 DEF Row
  <2> QED
    BY <1>1, <1>2, <2>4, <2>5
<1>3. CASE /\ RepairShutdown /\ row' = 1 /\ stage' = "check"
  <2> DEFINE temp == Larger(ram[FAN_HS_ON], ram[SMPS_FAN_ON])
  <2>1. temp \in Byte
    BY RowNumbers DEF Larger
  <2> HIDE DEF temp
  <2>2. (temp + 1) % 256 \in Byte
    BY <2>1 DEF Byte
  <2>3. CASE Put(SHUTDOWN, (temp + 1) % 256)
    BY <1>1, <1>3, <2>2, <2>3, PutType, RowNumbers DEF Row, Stage
  <2>4. CASE UNCHANGED <<ram, eeprom>>
    BY <1>1, <1>3, <2>4 DEF Row, Stage
  <2>5. \/ Put(SHUTDOWN, (temp + 1) % 256)
        \/ UNCHANGED <<ram, eeprom>>
    BY <1>3 DEF RepairShutdown, temp
  <2> QED
    BY <2>3, <2>4, <2>5
<1> QED
  BY <1>2, <1>3 DEF Repair

LEMMA TypeStep == TypeInv /\ [Next]_vars => TypeInv'
<1> SUFFICES ASSUME TypeInv, [Next]_vars PROVE TypeInv'
  OBVIOUS
<1> USE DEF TypeInv, TypeOK
<1>1. CASE Boot
  <2>1. clean' \in BOOLEAN
    BY <1>1, Zenon DEF Boot, Load
  <2>2. /\ stage' \in {"repair", "reload"} /\ row' = 1 /\ fresh' \in BOOLEAN
        /\ UNCHANGED <<eeprom, stored_address, check_ram, reset, asked>>
    BY <1>1, Zenon DEF Boot, Load, cells
  <2>3. \/ ram' = eeprom /\ address' = [ip |-> stored_address.ip, gateway |-> stored_address.ip]
        \/ UNCHANGED <<ram, address>>
    BY <1>1, Zenon DEF Boot, Load, memory
  <2>4. ram' \in [Row -> Byte] /\ address' \in [ip : Byte, gateway : Byte]
    BY <2>3
  <2> QED
    BY <2>1, <2>2, <2>4 DEF Stage, Row
<1>2. CASE Repair
  BY <1>2, RepairType
<1>3. CASE RangeCheck
  <2>1. ram' \in [Row -> Byte] /\ eeprom' \in [Row -> Byte]
    BY <1>3, PutType, TableEntries DEF RangeCheck
  <2>2. row' \in Row /\ stage' \in Stage /\ stage' # "address"
    BY <1>3, NextRowType DEF RangeCheck, Stage
  <2> QED
    BY <1>3, <2>1, <2>2 DEF RangeCheck
<1>4. CASE Reload
  <2>1. ram' \in [Row -> Byte] /\ eeprom' \in [Row -> Byte]
    BY <1>4, PutType, TableEntries DEF Reload
  <2>2. row' \in Row /\ stage' \in Stage /\ (stage' = "address" => row' = 1)
    BY <1>4, NextRowType DEF Reload, Stage
  <2> QED
    BY <1>4, <2>1, <2>2 DEF Reload
<1>5. CASE ReloadAddress
  <2>1. /\ DefaultAddress \in [ip : Byte, gateway : Byte]
        /\ row \in {1, 2} /\ AddressField[row] \in {"ip", "gateway"}
    BY <1>5 DEF ReloadAddress, DefaultAddress, AddressField, Byte
  <2>2. stored_address' \in [ip : Byte, gateway : Byte]
    BY <1>5, <2>1 DEF ReloadAddress
  <2>3. row' \in Row /\ stage' \in Stage /\ (stage' = "address" => row' \in {1, 2})
    BY <1>5, <2>1 DEF ReloadAddress, Row, Stage
  <2> QED
    BY <1>5, <2>1, <2>2, <2>3 DEF ReloadAddress
<1>6. CASE Mark
  BY <1>6 DEF Mark, memory, Stage
<1>7. CASE ClearReset
  BY <1>7 DEF ClearReset, memory, Stage
<1>8. ASSUME NEW r \in Row, NEW value \in ThresholdValue, SetThreshold(r, value)
      PROVE  TypeInv'
  BY <1>8, SettingsAssumption DEF SetThreshold, Commanded, cells
<1>9. ASSUME NEW value \in VolumeValue, SetVolume(value)
      PROVE  TypeInv'
  <2>1. ram' \in [Row -> Byte] /\ eeprom' \in [Row -> Byte]
    BY <1>9, PutType, RowNumbers, SettingsAssumption DEF SetVolume
  <2> QED
    BY <1>9, <2>1 DEF SetVolume, Commanded
<1>10. ASSUME NEW field \in {"ip", "gateway"}, NEW value \in AddressValue,
              SetAddress(field, value)
       PROVE  TypeInv'
  BY <1>10, SettingsAssumption DEF SetAddress, Commanded
<1>11. ASSUME Restart, reset' \in BOOLEAN, asked' \in BOOLEAN
       PROVE  TypeInv'
  BY <1>11, SMTT(60) DEF Restart, NoSettings, NoAddress, Byte, Stage, Row
<1>12. CASE ExecFactoryDefault
  BY <1>11, <1>12 DEF ExecFactoryDefault
<1>13. CASE PowerCut
  <2>1. asked' \in BOOLEAN
    BY <1>13, Zenon DEF PowerCut
  <2> QED
    BY <1>11, <1>13, <2>1 DEF PowerCut
<1>14. CASE UNCHANGED vars
  BY <1>14 DEF vars, cells, memory
<1>15. CASE Command
  <2>1. (FAN_HS_ON .. FAN_LS_OFF) \ {FAN_LS_ON} \subseteq Row
    BY DEF Row, FAN_HS_ON, FAN_LS_OFF
  <2> QED
    BY <1>8, <1>9, <1>10, <1>12, <1>15, <2>1 DEF Command
<1> QED
  BY <1>1, <1>2, <1>3, <1>4, <1>5, <1>6, <1>7, <1>13, <1>14, <1>15 DEF Next, BootStep

(***************************************************************************)
(* The settings stay bytes: Check_Backup's arithmetic on unsigned chars    *)
(* and every command's.                                                    *)
(***************************************************************************)
THEOREM TypeCorrect == Spec => []TypeOK
<1>1. Spec => []TypeInv
  BY TypeInit, TypeStep, PTL DEF Spec
<1> QED
  BY <1>1, PTL DEF TypeInv

(***************************************************************************)
(* How far each part of the boot has got.                                  *)
(***************************************************************************)
IsDefault(r) == eeprom[r] = Initial(r) /\ ram[r] = Initial(r)

Loaded ==
  /\ stage \in {"repair", "check"} => ram = eeprom
  /\ stage = "check" => \A r \in Row : r < row => InRange(r, eeprom[r])
  /\ stage = "reload" => \A r \in Row : r < row => IsDefault(r)
  /\ stage \in {"address", "mark", "clear"} => \A r \in Row : IsDefault(r)
  /\ CellsInRange
  /\ RamMatchesEeprom

\* While a reset is pending one of its two flags says so, until everything it
\* writes has been written.
ResetPending ==
  /\ asked => stage \notin {"repair", "check"}
  /\ asked /\ stage \in {"boot", "reload", "address", "mark"} => reset \/ ~check_ram
  /\ stage = "address" /\ row = 2 =>
       stored_address.ip = DefaultAddress.ip /\ address = DefaultAddress
  /\ stage \in {"mark", "clear"} =>
       stored_address = DefaultAddress /\ address = DefaultAddress
  /\ stage = "clear" => check_ram
  /\ ResetIsComplete

LEMMA PutEffect ==
  ASSUME TypeInv, NEW r \in Row, NEW value \in Byte, Put(r, value)
  PROVE  /\ ram'[r] = value /\ eeprom'[r] = value
         /\ \A q \in Row : q # r => ram'[q] = ram[q] /\ eeprom'[q] = eeprom[q]
         /\ ram = eeprom => ram' = eeprom'
BY DEF TypeInv, TypeOK, Put

\* Two copies that agree on every row are the same.
LEMMA SameRows ==
  ASSUME TypeOK, \A r \in Row : ram[r] = eeprom[r]
  PROVE  ram = eeprom
BY DEF TypeOK

LEMMA LoadedInit == Init => Loaded /\ ResetPending
<1> SUFFICES ASSUME Init PROVE Loaded /\ ResetPending
  OBVIOUS
<1>1. stage = "boot" /\ (asked => reset \/ ~check_ram)
  BY Zenon DEF Init
<1> QED
  BY <1>1 DEF Loaded, ResetPending, CellsInRange, RamMatchesEeprom, ResetIsComplete

LEMMA RepairLoaded ==
  ASSUME TypeInv, Loaded, Repair
  PROVE  Loaded'
<1>1. ram = eeprom /\ stage = "repair" /\ stage' \in {"repair", "check"}
      /\ (stage' = "check" => row' = 1)
  BY DEF Repair, Loaded
<1>2. ram' = eeprom'
  <2>1. CASE \E r, value : Put(r, value)
    BY <1>1, <2>1 DEF Put
  <2>2. CASE UNCHANGED <<ram, eeprom>>
    BY <1>1, <2>2
  <2> QED
    BY <2>1, <2>2 DEF Repair, RepairPair, RepairShutdown
<1> QED
  BY <1>1, <1>2 DEF Loaded, CellsInRange, RamMatchesEeprom, Row

LEMMA RangeCheckLoaded ==
  ASSUME TypeInv, TypeInv', Loaded, RangeCheck
  PROVE  Loaded'
<1> USE DEF TypeInv, TypeOK
<1>1. /\ stage = "check" /\ ram = eeprom
      /\ \A r \in Row : r < row => InRange(r, eeprom[r])
  BY DEF RangeCheck, Loaded
<1>2. ram' = eeprom' /\ \A r \in Row : r <= row => InRange(r, eeprom'[r])
  <2>1. CASE InRange(row, ram[row]) /\ UNCHANGED <<ram, eeprom>>
    BY <1>1, <2>1 DEF Row
  <2>2. CASE Put(row, Initial(row))
    <3>1. Initial(row) \in Byte /\ InRange(row, Initial(row))
      BY TableEntries
    <3> QED
      BY <1>1, <2>2, <3>1, PutEffect DEF Row
  <2> QED
    BY <2>1, <2>2 DEF RangeCheck
<1>3. CASE row = 10 /\ row' = 1 /\ stage' = "running"
  <2>1. \A r \in Row : InRange(r, eeprom'[r])
    BY <1>2, <1>3 DEF Row
  <2> QED
    BY <1>2, <1>3, <2>1 DEF Loaded, CellsInRange, RamMatchesEeprom
<1>4. CASE row' = row + 1 /\ UNCHANGED stage
  <2>1. \A r \in Row : r < row' => InRange(r, eeprom'[r])
    BY <1>2, <1>4 DEF Row
  <2> QED
    BY <1>1, <1>2, <1>4, <2>1 DEF Loaded, CellsInRange, RamMatchesEeprom
<1> QED
  BY <1>3, <1>4 DEF RangeCheck, NextRow

LEMMA ReloadLoaded ==
  ASSUME TypeInv, TypeInv', Loaded, Reload
  PROVE  Loaded'
<1> USE DEF TypeInv, TypeOK
<1>1. stage = "reload" /\ \A r \in Row : r < row => IsDefault(r)
  BY DEF Reload, Loaded
<1>2. \A r \in Row : r <= row => IsDefault(r)'
  <2>1. Initial(row) \in Byte /\ Put(row, Initial(row))
    BY TableEntries DEF Reload
  <2>2. /\ ram'[row] = Initial(row) /\ eeprom'[row] = Initial(row)
        /\ \A q \in Row : q # row => ram'[q] = ram[q] /\ eeprom'[q] = eeprom[q]
    BY <2>1, PutEffect
  <2>3. ASSUME NEW r \in Row, r <= row PROVE IsDefault(r)'
    <3>1. CASE r = row
      BY <2>2, <3>1 DEF IsDefault, Initial
    <3>2. CASE r # row
      <4>1. r < row
        BY <2>3, <3>2 DEF Row
      <4> QED
        BY <1>1, <2>2, <3>2, <4>1 DEF IsDefault, Initial
    <3> QED
      BY <3>1, <3>2
  <2> QED
    BY <2>3
<1>3. CASE row = 10 /\ row' = 1 /\ stage' = "address"
  <2>1. \A r \in Row : IsDefault(r)'
    BY <1>2, <1>3 DEF Row
  <2> QED
    BY <1>3, <2>1 DEF Loaded, CellsInRange, RamMatchesEeprom
<1>4. CASE row' = row + 1 /\ UNCHANGED stage
  <2>1. \A r \in Row : r < row' => IsDefault(r)'
    BY <1>2, <1>4 DEF Row
  <2> QED
    BY <1>1, <1>4, <2>1 DEF Loaded, CellsInRange, RamMatchesEeprom
<1> QED
  BY <1>3, <1>4 DEF Reload, NextRow

LEMMA LoadedStep ==
  TypeInv /\ Loaded /\ ResetPending /\ [Next]_vars => Loaded'
<1> SUFFICES ASSUME TypeInv, Loaded, ResetPending, [Next]_vars
             PROVE  Loaded'
  OBVIOUS
<1>0. TypeInv'
  BY TypeStep
<1>1. CASE Boot
  <2>1. /\ (stage' = "repair" /\ ram' = eeprom) \/ stage' = "reload"
        /\ eeprom' = eeprom /\ row' = 1
    BY <1>1, Zenon DEF Boot, Load, cells
  <2> QED
    BY <2>1 DEF Loaded, CellsInRange, RamMatchesEeprom, Row
<1>2. CASE Repair
  BY <1>2, RepairLoaded
<1>3. CASE RangeCheck
  BY <1>0, <1>3, RangeCheckLoaded
<1>4. CASE Reload
  BY <1>0, <1>4, ReloadLoaded
<1>5. CASE ReloadAddress
  BY <1>5 DEF ReloadAddress, Loaded, IsDefault, Initial, CellsInRange, RamMatchesEeprom
<1>6. CASE Mark
  BY <1>6 DEF Mark, memory, Loaded, IsDefault, Initial, CellsInRange, RamMatchesEeprom
<1>7. CASE ClearReset
  <2>1. /\ \A r \in Row : IsDefault(r)
        /\ stage' = "running" /\ UNCHANGED <<eeprom, ram>>
    BY <1>7 DEF ClearReset, memory, Loaded
  <2>2. \A r \in Row : InRange(r, eeprom'[r]) /\ ram'[r] = eeprom'[r]
    BY <2>1, TableEntries DEF IsDefault
  <2>3. ram' = eeprom'
    BY <2>1, <2>2, SameRows DEF TypeInv
  <2> QED
    BY <2>1, <2>2, <2>3 DEF Loaded, CellsInRange, RamMatchesEeprom
<1>8. ASSUME NEW r \in Row, NEW value \in ThresholdValue, SetThreshold(r, value)
      PROVE  Loaded'
  BY <1>8 DEF SetThreshold, Commanded, cells, Loaded, CellsInRange, RamMatchesEeprom
<1>9. ASSUME NEW value \in VolumeValue, SetVolume(value)
      PROVE  Loaded'
  <2>1. /\ stage = "running" /\ UNCHANGED stage /\ fresh' = FALSE
        /\ value \in Byte /\ value <= MAX_MASTER_VOLUME /\ Put(VOLUME, value)
        /\ \A r \in Row : InRange(r, eeprom[r])
    BY <1>9, SettingsAssumption DEF SetVolume, Commanded, Loaded, CellsInRange
  <2>2. /\ VOLUME \in Row /\ eeprom'[VOLUME] = value
        /\ \A q \in Row : q # VOLUME => eeprom'[q] = eeprom[q]
    BY <2>1, PutEffect, RowNumbers
  <2>3. InRange(VOLUME, value)
    BY <2>1, TableEntries
  <2>4. \A r \in Row : InRange(r, eeprom'[r])
    BY <2>1, <2>2, <2>3
  <2> QED
    BY <2>1, <2>4 DEF Loaded, CellsInRange, RamMatchesEeprom
<1>10. ASSUME NEW field \in {"ip", "gateway"}, NEW value \in AddressValue,
              SetAddress(field, value)
       PROVE  Loaded'
  BY <1>10 DEF SetAddress, Commanded, Loaded, CellsInRange, RamMatchesEeprom
<1>11. CASE Restart
  BY <1>11 DEF Restart, Loaded, CellsInRange, RamMatchesEeprom
<1>12. CASE UNCHANGED vars
  BY <1>12 DEF vars, cells, memory, Loaded, IsDefault, Initial, CellsInRange, RamMatchesEeprom
<1>13. CASE Command
  <2>1. (FAN_HS_ON .. FAN_LS_OFF) \ {FAN_LS_ON} \subseteq Row
    BY DEF Row, FAN_HS_ON, FAN_LS_OFF
  <2> QED
    BY <1>8, <1>9, <1>10, <1>11, <1>13, <2>1 DEF Command, ExecFactoryDefault
<1> QED
  BY <1>1, <1>2, <1>3, <1>4, <1>5, <1>6, <1>7, <1>11, <1>12, <1>13
     DEF Next, BootStep, PowerCut

LEMMA ResetPendingStep ==
  TypeInv /\ Loaded /\ ResetPending /\ [Next]_vars => ResetPending'
<1> SUFFICES ASSUME TypeInv, Loaded, ResetPending, [Next]_vars
             PROVE  ResetPending'
  OBVIOUS
<1> USE DEF ResetPending, ResetIsComplete
<1>1. CASE Boot
  BY <1>1, Zenon DEF Boot, Load, cells
<1>2. CASE Repair
  BY <1>2 DEF Repair
<1>3. CASE RangeCheck
  BY <1>3 DEF RangeCheck, NextRow
<1>4. CASE Reload
  BY <1>4 DEF Reload, NextRow
<1>5. CASE ReloadAddress
  <2>1. /\ address' = DefaultAddress
        /\ UNCHANGED <<check_ram, reset, asked>>
        /\ row \in {1, 2}
    BY <1>5 DEF ReloadAddress, TypeInv
  <2>2. CASE row = 1
    <3>1. /\ stage' = "address" /\ stored_address'.ip = DefaultAddress.ip
      BY <1>5, <2>2 DEF ReloadAddress, AddressField, TypeInv, TypeOK
    <3> QED
      BY <1>5, <2>1, <3>1 DEF ReloadAddress
  <2>3. CASE row = 2
    <3>1. stored_address' = DefaultAddress
      BY <1>5, <2>3 DEF ReloadAddress, AddressField, DefaultAddress, TypeInv, TypeOK
    <3> QED
      BY <1>5, <2>1, <2>3, <3>1 DEF ReloadAddress
  <2> QED
    BY <2>1, <2>2, <2>3
<1>6. CASE Mark
  BY <1>6 DEF Mark, memory
<1>7. CASE ClearReset
  BY <1>7 DEF ClearReset, memory, Loaded, IsDefault, Initial
<1>8. CASE Command
  <2>1. CASE ExecFactoryDefault
    BY <2>1 DEF ExecFactoryDefault, Restart
  <2>2. CASE Commanded /\ stage = "running" /\ UNCHANGED stage
    BY <2>2 DEF Commanded
  <2> QED
    BY <1>8, <2>1, <2>2 DEF Command, SetThreshold, SetVolume, SetAddress
<1>9. CASE PowerCut
  <2>1. /\ stage' = "boot" /\ UNCHANGED <<check_ram, reset>>
        /\ asked' => asked /\ ~ResetDone
    BY <1>9, Zenon DEF PowerCut, Restart
  <2>2. asked' => reset \/ ~check_ram
    BY <2>1 DEF ResetDone, TypeInv, TypeOK, Stage
  <2> QED
    BY <2>1, <2>2
<1>10. CASE UNCHANGED vars
  BY <1>10 DEF vars, cells, memory
<1> QED
  BY <1>1, <1>2, <1>3, <1>4, <1>5, <1>6, <1>7, <1>8, <1>9, <1>10 DEF Next, BootStep

LEMMA InductiveInvariant == Spec => [](TypeInv /\ Loaded /\ ResetPending)
<1>1. Init => TypeInv /\ Loaded /\ ResetPending
  BY TypeInit, LoadedInit
<1>2. TypeInv /\ Loaded /\ ResetPending /\ [Next]_vars
        => (TypeInv /\ Loaded /\ ResetPending)'
  BY TypeStep, LoadedStep, ResetPendingStep
<1> QED
  BY <1>1, <1>2, PTL DEF Spec

(***************************************************************************)
(* A factory reset is all or nothing, wherever the power fails: see        *)
(* ResetIsComplete (exec_factory_default, mode_reset).                     *)
(***************************************************************************)
THEOREM ResetCompletes == Spec => []ResetIsComplete
<1>1. ResetPending => ResetIsComplete
  BY DEF ResetPending
<1> QED
  BY <1>1, InductiveInvariant, PTL

(***************************************************************************)
(* The unit runs with every setting's cell in its range, whatever the      *)
(* EEPROM held: see CellsInRange (backup_range_check).                     *)
(***************************************************************************)
THEOREM RunsInRange == Spec => []CellsInRange
<1>1. Loaded => CellsInRange
  BY DEF Loaded
<1> QED
  BY <1>1, InductiveInvariant, PTL

(***************************************************************************)
(* The unit starts with memory and EEPROM in agreement: see                *)
(* RamMatchesEeprom (Check_Backup, backup_reconstruct).                    *)
(***************************************************************************)
THEOREM StartsInAgreement == Spec => []RamMatchesEeprom
<1>1. Loaded => RamMatchesEeprom
  BY DEF Loaded
<1> QED
  BY <1>1, InductiveInvariant, PTL

(***************************************************************************)
(* The repairs of Check_Backup on cells in range.                          *)
(***************************************************************************)
PairKept(k) == ram[Pair[k].on] >= ram[Pair[k].off] + 2
ShutdownAbove == ram[SHUTDOWN] > ram[FAN_HS_ON] /\ ram[SHUTDOWN] > ram[SMPS_FAN_ON]
AllInRange == \A r \in Row : InRange(r, ram[r])

Repaired ==
  clean =>
    /\ stage \notin {"reload", "address", "mark", "clear"}
    /\ stage = "repair" => AllInRange /\ \A k \in DOMAIN Pair : k < row => PairKept(k)
    /\ stage = "check" \/ (stage = "running" /\ fresh) =>
         AllInRange /\ (\A k \in DOMAIN Pair : PairKept(k)) /\ ShutdownAbove

\* What the repair of a pair does to cells in range: the subtraction does not
\* wrap around and stays in the range.
LEMMA RepairPairEffect ==
  ASSUME TypeInv, AllInRange, NEW k \in DOMAIN Pair,
         RepairPair(Pair[k].on, Pair[k].off)
  PROVE  \/ /\ ram[Pair[k].on] < ram[Pair[k].off] + 2
            /\ ram[Pair[k].on] - 2 \in Byte
            /\ InRange(Pair[k].off, ram[Pair[k].on] - 2)
            /\ Put(Pair[k].off, ram[Pair[k].on] - 2)
         \/ PairKept(k) /\ UNCHANGED <<ram, eeprom>>
<1> DEFINE on == Pair[k].on
           off == Pair[k].off
<1>1. /\ on \in {FAN_HS_ON, FAN_LS_ON, SMPS_FAN_ON}
      /\ off \in {FAN_HS_OFF, FAN_LS_OFF, SMPS_FAN_OFF}
      /\ on \in Row /\ off \in Row
  BY RowNumbers
<1>2. /\ ram[on] \in Byte /\ ram[off] \in Byte
      /\ InRange(on, ram[on])
  BY <1>1 DEF AllInRange, TypeInv, TypeOK
<1>3. 30 <= ram[on] /\ ram[on] <= 85
  BY <1>1, <1>2, TableEntries
<1>4. (ram[on] - 2) % 256 = ram[on] - 2 /\ ram[on] - 2 \in Byte
  BY <1>2, <1>3 DEF Byte
<1>5. InRange(off, ram[on] - 2)
  <2>1. 28 <= ram[on] - 2 /\ ram[on] - 2 <= 85
    BY <1>2, <1>3 DEF Byte
  <2> QED
    BY <1>1, <1>4, <2>1, TableEntries
<1>6. IF ram[on] < ram[off] + 2 THEN Put(off, ram[on] - 2) ELSE UNCHANGED <<ram, eeprom>>
  BY <1>4 DEF RepairPair
<1>7. CASE ram[on] < ram[off] + 2
  BY <1>4, <1>5, <1>6, <1>7
<1>8. CASE ~(ram[on] < ram[off] + 2)
  <2>1. ram[on] \in Int /\ ram[off] \in Int
    BY <1>2 DEF Byte
  <2>2. ram[on] >= ram[off] + 2
    BY <1>8, <2>1
  <2> QED
    BY <1>6, <1>8, <2>2 DEF PairKept
<1> QED
  BY <1>7, <1>8

\* And the repair of the shutdown temperature.
LEMMA RepairShutdownEffect ==
  ASSUME TypeInv, AllInRange, RepairShutdown,
         NEW temp, temp = Larger(ram[FAN_HS_ON], ram[SMPS_FAN_ON])
  PROVE  /\ temp \in 30 .. 85 /\ temp >= ram[FAN_HS_ON] /\ temp >= ram[SMPS_FAN_ON]
         /\ \/ /\ ram[SHUTDOWN] <= temp
               /\ temp + 1 \in Byte /\ InRange(SHUTDOWN, temp + 1)
               /\ Put(SHUTDOWN, temp + 1)
            \/ ram[SHUTDOWN] > temp /\ UNCHANGED <<ram, eeprom>>
<1>1. /\ ram[FAN_HS_ON] \in 30 .. 85 /\ ram[SMPS_FAN_ON] \in 30 .. 85
      /\ ram[SHUTDOWN] \in Byte
  <2>1. /\ ram[FAN_HS_ON] \in Byte /\ InRange(FAN_HS_ON, ram[FAN_HS_ON])
        /\ ram[SMPS_FAN_ON] \in Byte /\ InRange(SMPS_FAN_ON, ram[SMPS_FAN_ON])
        /\ ram[SHUTDOWN] \in Byte
    BY RowNumbers DEF AllInRange, TypeInv, TypeOK
  <2>2. /\ 30 <= ram[FAN_HS_ON] /\ ram[FAN_HS_ON] <= 85
        /\ 30 <= ram[SMPS_FAN_ON] /\ ram[SMPS_FAN_ON] <= 85
    BY <2>1, TableEntries
  <2> QED
    BY <2>1, <2>2 DEF Byte
<1>2. /\ temp \in 30 .. 85 /\ temp >= ram[FAN_HS_ON] /\ temp >= ram[SMPS_FAN_ON]
  BY <1>1 DEF Larger
<1>3. (temp + 1) % 256 = temp + 1 /\ temp + 1 \in Byte /\ InRange(SHUTDOWN, temp + 1)
  <2>1. (temp + 1) % 256 = temp + 1 /\ temp + 1 \in Byte /\ 31 <= temp + 1 /\ temp + 1 <= 86
    BY <1>2 DEF Byte
  <2> QED
    BY <2>1, TableEntries
<1>4. IF ram[SHUTDOWN] <= temp THEN Put(SHUTDOWN, temp + 1) ELSE UNCHANGED <<ram, eeprom>>
  BY <1>3 DEF RepairShutdown
<1>5. ram[SHUTDOWN] <= temp \/ ram[SHUTDOWN] > temp
  BY <1>1, <1>2 DEF Byte
<1>6. ram[SHUTDOWN] > temp => ~(ram[SHUTDOWN] <= temp)
  BY <1>1, <1>2 DEF Byte
<1> QED
  BY <1>2, <1>3, <1>4, <1>5, <1>6

\* One repair of a pair keeps the ranges and the pairs repaired before.
LEMMA RepairPairKeeps ==
  ASSUME TypeInv, AllInRange, NEW k \in DOMAIN Pair,
         \A j \in DOMAIN Pair : j < k => PairKept(j),
         RepairPair(Pair[k].on, Pair[k].off)
  PROVE  AllInRange' /\ \A j \in DOMAIN Pair : j <= k => PairKept(j)'
<1> DEFINE on == Pair[k].on
           off == Pair[k].off
<1>1. /\ on \in Row /\ off \in Row /\ on # off
      /\ DOMAIN Pair = 1 .. 3
      /\ \A j \in DOMAIN Pair : /\ Pair[j].on \in Row /\ Pair[j].off \in Row
                                /\ Pair[j].on # off
                                /\ j # k => Pair[j].off # off
  BY RowNumbers DEF FAN_HS_ON, FAN_LS_ON, SMPS_FAN_ON, FAN_HS_OFF, FAN_LS_OFF, SMPS_FAN_OFF
<1>2. CASE /\ ram[on] - 2 \in Byte /\ InRange(off, ram[on] - 2)
           /\ Put(off, ram[on] - 2)
  <2>1. /\ ram'[off] = ram[on] - 2
        /\ \A q \in Row : q # off => ram'[q] = ram[q]
    BY <1>1, <1>2, PutEffect
  <2>2. AllInRange'
    <3>1. ASSUME NEW r \in Row PROVE InRange(r, ram'[r])
      BY <1>2, <2>1 DEF AllInRange
    <3> QED
      BY <3>1 DEF AllInRange
  <2>3. PairKept(k)'
    <3>1. ram'[on] = ram[on] /\ ram'[off] = ram[on] - 2
      BY <1>1, <2>1
    <3>2. ram[on] \in Byte
      BY <1>1 DEF TypeInv, TypeOK
    <3>3. ram[on] >= (ram[on] - 2) + 2
      BY <3>2 DEF Byte
    <3>4. ram'[on] >= ram'[off] + 2
      BY <3>1, <3>3
    <3> QED
      BY <3>4 DEF PairKept
  <2>4. ASSUME NEW j \in DOMAIN Pair, j < k PROVE PairKept(j)'
    <3>1. j # k
      BY <1>1, <2>4
    <3>2. ram'[Pair[j].on] = ram[Pair[j].on] /\ ram'[Pair[j].off] = ram[Pair[j].off]
      BY <1>1, <2>1, <3>1
    <3> QED
      BY <2>4, <3>2 DEF PairKept
  <2> QED
    BY <1>1, <2>2, <2>3, <2>4
<1>3. CASE PairKept(k) /\ UNCHANGED <<ram, eeprom>>
  BY <1>1, <1>3 DEF AllInRange, PairKept
<1> QED
  BY <1>2, <1>3, RepairPairEffect

\* The repair of the shutdown temperature keeps the ranges and the pairs.
LEMMA RepairShutdownKeeps ==
  ASSUME TypeInv, AllInRange, \A k \in DOMAIN Pair : PairKept(k), RepairShutdown
  PROVE  AllInRange' /\ (\A k \in DOMAIN Pair : PairKept(k)') /\ ShutdownAbove'
<1> DEFINE temp == Larger(ram[FAN_HS_ON], ram[SMPS_FAN_ON])
<1>1. /\ {SHUTDOWN, FAN_HS_ON, SMPS_FAN_ON} \subseteq Row
      /\ SHUTDOWN # FAN_HS_ON /\ SHUTDOWN # SMPS_FAN_ON
      /\ \A k \in DOMAIN Pair : /\ Pair[k].on \in Row /\ Pair[k].off \in Row
                                /\ Pair[k].on # SHUTDOWN /\ Pair[k].off # SHUTDOWN
  BY RowNumbers DEF SHUTDOWN, FAN_HS_ON, FAN_LS_ON, SMPS_FAN_ON,
                    FAN_HS_OFF, FAN_LS_OFF, SMPS_FAN_OFF
<1>2. /\ temp \in 30 .. 85 /\ temp >= ram[FAN_HS_ON] /\ temp >= ram[SMPS_FAN_ON]
      /\ \/ /\ temp + 1 \in Byte /\ InRange(SHUTDOWN, temp + 1)
            /\ Put(SHUTDOWN, temp + 1)
         \/ ram[SHUTDOWN] > temp /\ UNCHANGED <<ram, eeprom>>
  BY RepairShutdownEffect
<1>3. ram[SHUTDOWN] \in Int /\ ram[FAN_HS_ON] \in Int /\ ram[SMPS_FAN_ON] \in Int
  <2>1. \A r \in Row : ram[r] \in Byte
    BY DEF TypeInv, TypeOK
  <2> QED
    BY <1>1, <2>1 DEF Byte
<1> HIDE DEF temp
<1>4. CASE temp + 1 \in Byte /\ InRange(SHUTDOWN, temp + 1) /\ Put(SHUTDOWN, temp + 1)
  <2>1. /\ ram'[SHUTDOWN] = temp + 1
        /\ \A q \in Row : q # SHUTDOWN => ram'[q] = ram[q]
    BY <1>1, <1>4, PutEffect
  <2>2. ShutdownAbove'
    BY <1>1, <1>2, <1>3, <2>1 DEF ShutdownAbove
  <2>3. AllInRange' /\ (\A k \in DOMAIN Pair : PairKept(k)')
    BY <1>1, <1>4, <2>1 DEF AllInRange, PairKept
  <2> QED
    BY <2>2, <2>3
<1>5. CASE ram[SHUTDOWN] > temp /\ UNCHANGED <<ram, eeprom>>
  <2>1. ShutdownAbove
    BY <1>2, <1>3, <1>5 DEF ShutdownAbove
  <2> QED
    BY <1>5, <2>1 DEF AllInRange, PairKept, ShutdownAbove
<1> QED
  BY <1>2, <1>4, <1>5

LEMMA RepairedStep ==
  TypeInv /\ Loaded /\ Repaired /\ [Next]_vars => Repaired'
<1> SUFFICES ASSUME TypeInv, Loaded, Repaired, [Next]_vars, clean'
             PROVE  /\ stage' \notin {"reload", "address", "mark", "clear"}
                    /\ stage' = "repair" =>
                         AllInRange' /\ \A k \in DOMAIN Pair : k < row' => PairKept(k)'
                    /\ stage' = "check" \/ (stage' = "running" /\ fresh') =>
                         AllInRange' /\ (\A k \in DOMAIN Pair : PairKept(k)') /\ ShutdownAbove'
  BY DEF Repaired
<1>1. CASE Boot
  <2>1. stage' = "repair" /\ row' = 1 /\ ram' = eeprom /\ \A r \in Row : InRange(r, eeprom[r])
    BY <1>1, Zenon DEF Boot, Load
  <2>2. AllInRange'
    BY <2>1 DEF AllInRange
  <2> QED
    BY <2>1, <2>2, RowNumbers
<1>2. CASE Repair
  <2>1. /\ clean /\ stage = "repair" /\ AllInRange
        /\ \A k \in DOMAIN Pair : k < row => PairKept(k)
    BY <1>2 DEF Repair, Repaired
  <2>2. CASE /\ row \in DOMAIN Pair /\ RepairPair(Pair[row].on, Pair[row].off)
             /\ row' = row + 1 /\ UNCHANGED stage
    <3>1. AllInRange' /\ \A k \in DOMAIN Pair : k <= row => PairKept(k)'
      BY <2>1, <2>2, RepairPairKeeps
    <3>2. \A k \in DOMAIN Pair : k < row' => k <= row
      BY <2>2, RowNumbers
    <3> QED
      BY <2>1, <2>2, <3>1, <3>2
  <2>3. CASE row \notin DOMAIN Pair /\ RepairShutdown /\ row' = 1 /\ stage' = "check"
    <3>1. \A k \in DOMAIN Pair : k < row
      BY <2>3, RowNumbers DEF TypeInv, TypeOK, Row
    <3>2. AllInRange' /\ (\A k \in DOMAIN Pair : PairKept(k)') /\ ShutdownAbove'
      BY <2>1, <2>3, <3>1, RepairShutdownKeeps
    <3> QED
      BY <2>3, <3>2
  <2> QED
    BY <1>2, <2>2, <2>3 DEF Repair
<1>3. CASE RangeCheck
  <2>1. /\ AllInRange /\ (\A k \in DOMAIN Pair : PairKept(k)) /\ ShutdownAbove
        /\ stage' \in {"check", "running"}
    BY <1>3 DEF RangeCheck, Repaired, NextRow
  <2>2. UNCHANGED ram
    BY <1>3, <2>1 DEF RangeCheck, AllInRange, TypeInv, TypeOK
  <2> QED
    BY <2>1, <2>2 DEF AllInRange, PairKept, ShutdownAbove
<1>4. CASE Reload \/ ReloadAddress \/ Mark \/ ClearReset
  BY <1>4 DEF Reload, ReloadAddress, Mark, ClearReset, Repaired
<1>5. CASE Command
  BY <1>5 DEF Command, SetThreshold, SetVolume, SetAddress, Commanded, ExecFactoryDefault, Restart
<1>6. CASE PowerCut
  BY <1>6 DEF PowerCut, Restart
<1>7. CASE UNCHANGED vars
  BY <1>7 DEF vars, memory, Repaired, AllInRange, PairKept, ShutdownAbove
<1> QED
  BY <1>1, <1>2, <1>3, <1>4, <1>5, <1>6, <1>7 DEF Next, BootStep

(***************************************************************************)
(* A boot from cells in range leaves every fan its hysteresis and the      *)
(* shutdown above the fans: see HysteresisAfterBoot (Check_Backup).        *)
(***************************************************************************)
THEOREM BootKeepsHysteresis == Spec => []HysteresisAfterBoot
<1>1. Init => Repaired
  BY DEF Init, Repaired
<1>2. Repaired => HysteresisAfterBoot
  BY DEF Repaired, PairKept, ShutdownAbove, HysteresisAfterBoot
<1> QED
  BY <1>1, <1>2, RepairedStep, InductiveInvariant, PTL DEF Spec

(***************************************************************************)
(* The outcome of a boot from cells in range.                              *)
(***************************************************************************)

LEMMA OutcomeRows ==
  ASSUME NEW c \in [Row -> Byte]
  PROVE  /\ DOMAIN Outcome(c) = Row
         /\ \A k \in DOMAIN Pair :
              Outcome(c)[Pair[k].off] = OffRepaired(c, Pair[k].on, Pair[k].off)
         /\ Outcome(c)[SHUTDOWN] =
              Larger(c[SHUTDOWN], Larger(c[FAN_HS_ON], c[SMPS_FAN_ON]) + 1)
         /\ \A r \in Row \ {FAN_HS_OFF, FAN_LS_OFF, SMPS_FAN_OFF, SHUTDOWN} :
              Outcome(c)[r] = c[r]
<1>1. /\ {FAN_HS_OFF, FAN_LS_OFF, SMPS_FAN_OFF, SHUTDOWN} \subseteq Row
      /\ SHUTDOWN \notin {FAN_HS_OFF, FAN_LS_OFF, SMPS_FAN_OFF}
      /\ FAN_HS_OFF # FAN_LS_OFF /\ FAN_HS_OFF # SMPS_FAN_OFF /\ FAN_LS_OFF # SMPS_FAN_OFF
  BY RowNumbers DEF FAN_HS_OFF, FAN_LS_OFF, SMPS_FAN_OFF, SHUTDOWN
<1>2. /\ DOMAIN Outcome(c) = Row
      /\ Outcome(c)[FAN_HS_OFF] = OffRepaired(c, FAN_HS_ON, FAN_HS_OFF)
      /\ Outcome(c)[FAN_LS_OFF] = OffRepaired(c, FAN_LS_ON, FAN_LS_OFF)
      /\ Outcome(c)[SMPS_FAN_OFF] = OffRepaired(c, SMPS_FAN_ON, SMPS_FAN_OFF)
      /\ Outcome(c)[SHUTDOWN] =
           Larger(c[SHUTDOWN], Larger(c[FAN_HS_ON], c[SMPS_FAN_ON]) + 1)
      /\ \A r \in Row \ {FAN_HS_OFF, FAN_LS_OFF, SMPS_FAN_OFF, SHUTDOWN} :
           Outcome(c)[r] = c[r]
  BY <1>1 DEF Outcome
<1> QED
  BY <1>2, RowNumbers

\* The rows that are repaired, one function of the others each.
LEMMA SameOutcome ==
  ASSUME NEW c \in [Row -> Byte], NEW d \in [Row -> Byte],
         \A r \in Row \ {FAN_HS_OFF, FAN_LS_OFF, SMPS_FAN_OFF, SHUTDOWN} : d[r] = c[r],
         \A k \in DOMAIN Pair :
           OffRepaired(d, Pair[k].on, Pair[k].off) = OffRepaired(c, Pair[k].on, Pair[k].off),
         Larger(d[SHUTDOWN], Larger(c[FAN_HS_ON], c[SMPS_FAN_ON]) + 1)
           = Larger(c[SHUTDOWN], Larger(c[FAN_HS_ON], c[SMPS_FAN_ON]) + 1)
  PROVE  Outcome(d) = Outcome(c)
<1>1. /\ d[FAN_HS_ON] = c[FAN_HS_ON] /\ d[SMPS_FAN_ON] = c[SMPS_FAN_ON]
  BY RowNumbers DEF FAN_HS_ON, SMPS_FAN_ON, FAN_HS_OFF, FAN_LS_OFF, SMPS_FAN_OFF, SHUTDOWN
<1>2. ASSUME NEW r \in Row PROVE Outcome(d)[r] = Outcome(c)[r]
  <2>1. CASE r \in Row \ {FAN_HS_OFF, FAN_LS_OFF, SMPS_FAN_OFF, SHUTDOWN}
    BY <2>1, OutcomeRows
  <2>2. CASE r = SHUTDOWN
    BY <1>1, <2>2, OutcomeRows
  <2>3. CASE \E k \in DOMAIN Pair : r = Pair[k].off
    BY <2>3, OutcomeRows
  <2>4. \A q \in {FAN_HS_OFF, FAN_LS_OFF, SMPS_FAN_OFF} : \E k \in DOMAIN Pair : q = Pair[k].off
    BY RowNumbers
  <2> QED
    BY <2>1, <2>2, <2>3, <2>4
<1>3. Outcome(c) = [r \in Row |-> Outcome(c)[r]] /\ Outcome(d) = [r \in Row |-> Outcome(d)[r]]
  BY DEF Outcome
<1> QED
  BY <1>2, <1>3

\* A pair repaired, the power failing then or not.
LEMMA PairOutcome ==
  ASSUME NEW c \in [Row -> Byte], NEW k \in DOMAIN Pair,
         c[Pair[k].on] < c[Pair[k].off] + 2, c[Pair[k].on] - 2 \in Byte
  PROVE  Outcome([c EXCEPT ![Pair[k].off] = c[Pair[k].on] - 2]) = Outcome(c)
<1> DEFINE on == Pair[k].on
           off == Pair[k].off
           d == [c EXCEPT ![off] = c[on] - 2]
<1>1. /\ off \in {FAN_HS_OFF, FAN_LS_OFF, SMPS_FAN_OFF}
      /\ on \in Row /\ off \in Row /\ on # off /\ off # SHUTDOWN
      /\ \A j \in DOMAIN Pair : /\ Pair[j].on \in Row /\ Pair[j].off \in Row
                                /\ Pair[j].on # off
                                /\ j # k => Pair[j].off # off
      /\ SHUTDOWN \in Row
  BY RowNumbers DEF FAN_HS_ON, FAN_LS_ON, SMPS_FAN_ON, FAN_HS_OFF, FAN_LS_OFF,
                    SMPS_FAN_OFF, SHUTDOWN
<1>2. /\ d \in [Row -> Byte] /\ d[off] = c[on] - 2
      /\ \A r \in Row : r # off => d[r] = c[r]
  BY <1>1
<1>3. ASSUME NEW j \in DOMAIN Pair
      PROVE  OffRepaired(d, Pair[j].on, Pair[j].off) = OffRepaired(c, Pair[j].on, Pair[j].off)
  <2>1. CASE j = k
    <3>1. d[on] = c[on] /\ d[off] = c[on] - 2 /\ c[on] \in Int
      BY <1>1, <1>2 DEF Byte
    <3>2. ~ (d[on] < d[off] + 2)
      BY <3>1
    <3>3. OffRepaired(d, on, off) = c[on] - 2
      BY <3>1, <3>2 DEF OffRepaired
    <3> QED
      BY <2>1, <3>3 DEF OffRepaired
  <2>2. CASE j # k
    BY <1>1, <1>2, <2>2 DEF OffRepaired
  <2> QED
    BY <2>1, <2>2
<1> HIDE DEF d
<1>4. Outcome(d) = Outcome(c)
  BY <1>1, <1>2, <1>3, SameOutcome
<1> QED
  BY <1>4 DEF d

\* The shutdown temperature repaired.
LEMMA ShutdownOutcome ==
  ASSUME NEW c \in [Row -> Byte], NEW t \in Byte,
         t = Larger(c[FAN_HS_ON], c[SMPS_FAN_ON]),
         c[SHUTDOWN] <= t, t + 1 \in Byte
  PROVE  Outcome([c EXCEPT ![SHUTDOWN] = t + 1]) = Outcome(c)
<1> DEFINE d == [c EXCEPT ![SHUTDOWN] = t + 1]
<1>1. /\ SHUTDOWN \in Row /\ SHUTDOWN \notin {FAN_HS_OFF, FAN_LS_OFF, SMPS_FAN_OFF}
      /\ \A j \in DOMAIN Pair : /\ Pair[j].on \in Row /\ Pair[j].off \in Row
                                /\ Pair[j].on # SHUTDOWN /\ Pair[j].off # SHUTDOWN
  BY RowNumbers DEF FAN_HS_ON, FAN_LS_ON, SMPS_FAN_ON, FAN_HS_OFF, FAN_LS_OFF,
                    SMPS_FAN_OFF, SHUTDOWN
<1>2. /\ d \in [Row -> Byte] /\ d[SHUTDOWN] = t + 1
      /\ \A r \in Row : r # SHUTDOWN => d[r] = c[r]
  BY <1>1
<1>3. \A j \in DOMAIN Pair :
        OffRepaired(d, Pair[j].on, Pair[j].off) = OffRepaired(c, Pair[j].on, Pair[j].off)
  BY <1>1, <1>2 DEF OffRepaired
<1>4. Larger(d[SHUTDOWN], t + 1) = Larger(c[SHUTDOWN], t + 1)
  <2>1. c[SHUTDOWN] \in Int /\ t \in Int
    BY <1>1 DEF Byte
  <2>2. Larger(t + 1, t + 1) = t + 1 /\ Larger(c[SHUTDOWN], t + 1) = t + 1
    BY <2>1 DEF Larger
  <2> QED
    BY <1>2, <2>2
<1> HIDE DEF d
<1>5. Outcome(d) = Outcome(c)
  BY <1>1, <1>2, <1>3, <1>4, SameOutcome
<1> QED
  BY <1>5 DEF d

\* A part of the boot that writes defaults runs only while one of the two flags
\* asks for it.
Asking == stage \in {"reload", "address", "mark"} => reset \/ ~check_ram

LEMMA AskingStep == Asking /\ [Next]_vars => Asking'
<1> SUFFICES ASSUME Asking, [Next]_vars PROVE Asking'
  OBVIOUS
<1>1. CASE Boot
  BY <1>1, Zenon DEF Boot, Load, cells, Asking
<1>2. CASE Repair \/ RangeCheck
  BY <1>2 DEF Repair, RangeCheck, NextRow, Asking
<1>3. CASE Reload \/ ReloadAddress
  BY <1>3 DEF Reload, ReloadAddress, NextRow, Asking
<1>4. CASE Mark \/ ClearReset
  BY <1>4 DEF Mark, ClearReset, Asking
<1>5. CASE Command
  BY <1>5 DEF Command, SetThreshold, SetVolume, SetAddress, ExecFactoryDefault, Restart, Asking
<1>6. CASE PowerCut
  BY <1>6 DEF PowerCut, Restart, Asking
<1>7. CASE UNCHANGED vars
  BY <1>7 DEF vars, cells, Asking
<1> QED
  BY <1>1, <1>2, <1>3, <1>4, <1>5, <1>6, <1>7 DEF Next, BootStep

\* Each repair keeps the cells in range and their outcome.
LEMMA RepairOutcome ==
  ASSUME TypeInv, Loaded, Restorable, Repair
  PROVE  (\A r \in Row : InRange(r, eeprom'[r])) /\ Outcome(eeprom') = Outcome(eeprom)
<1>1. ram = eeprom /\ eeprom \in [Row -> Byte]
  BY DEF Repair, Loaded, TypeInv, TypeOK
<1>2. AllInRange
  BY <1>1 DEF Restorable, AllInRange
<1>3. ASSUME UNCHANGED <<ram, eeprom>>
      PROVE  (\A r \in Row : InRange(r, eeprom'[r])) /\ Outcome(eeprom') = Outcome(eeprom)
  BY <1>3 DEF Restorable
<1>4. CASE row \in DOMAIN Pair /\ RepairPair(Pair[row].on, Pair[row].off)
  <2> DEFINE on == Pair[row].on
             off == Pair[row].off
  <2>1. CASE /\ ram[on] < ram[off] + 2 /\ ram[on] - 2 \in Byte
             /\ InRange(off, ram[on] - 2) /\ Put(off, ram[on] - 2)
    <3>1. eeprom' = [eeprom EXCEPT ![off] = eeprom[on] - 2]
      BY <1>1, <2>1 DEF Put
    <3>2. Outcome(eeprom') = Outcome(eeprom)
      BY <1>1, <1>4, <2>1, <3>1, PairOutcome
    <3>3. \A r \in Row : InRange(r, eeprom'[r])
      BY <1>1, <2>1, <3>1 DEF Restorable
    <3> QED
      BY <3>2, <3>3
  <2> QED
    BY <1>2, <1>3, <1>4, <2>1, RepairPairEffect
<1>5. CASE RepairShutdown
  <2> DEFINE temp == Larger(ram[FAN_HS_ON], ram[SMPS_FAN_ON])
  <2>1. CASE /\ ram[SHUTDOWN] <= temp /\ temp + 1 \in Byte
             /\ InRange(SHUTDOWN, temp + 1) /\ Put(SHUTDOWN, temp + 1)
    <3>1. eeprom' = [eeprom EXCEPT ![SHUTDOWN] = temp + 1] /\ temp \in Byte
      BY <1>1, <2>1, RowNumbers DEF Put, Larger
    <3>2. Outcome(eeprom') = Outcome(eeprom)
      BY <1>1, <2>1, <3>1, ShutdownOutcome
    <3>3. \A r \in Row : InRange(r, eeprom'[r])
      BY <1>1, <2>1, <3>1 DEF Restorable
    <3> QED
      BY <3>2, <3>3
  <2> QED
    BY <1>2, <1>3, <1>5, <2>1, RepairShutdownEffect
<1> QED
  BY <1>4, <1>5 DEF Repair

\* After the repairs the cells are their own outcome.
LEMMA RepairedOutcome ==
  ASSUME TypeInv, ram = eeprom, \A k \in DOMAIN Pair : PairKept(k), ShutdownAbove
  PROVE  ram = Outcome(eeprom)
<1>1. eeprom \in [Row -> Byte] /\ \A r \in Row : eeprom[r] \in Int
  <2>1. eeprom \in [Row -> Byte] /\ \A r \in Row : eeprom[r] \in Byte
    BY DEF TypeInv, TypeOK
  <2> QED
    BY <2>1 DEF Byte
<1>2. ASSUME NEW k \in DOMAIN Pair
      PROVE  OffRepaired(eeprom, Pair[k].on, Pair[k].off) = eeprom[Pair[k].off]
  <2>1. Pair[k].on \in Row /\ Pair[k].off \in Row
    BY RowNumbers
  <2>2. eeprom[Pair[k].on] >= eeprom[Pair[k].off] + 2
    BY DEF PairKept
  <2>3. ~(eeprom[Pair[k].on] < eeprom[Pair[k].off] + 2)
    BY <1>1, <2>1, <2>2
  <2> QED
    BY <2>3 DEF OffRepaired
<1>3. Larger(eeprom[SHUTDOWN], Larger(eeprom[FAN_HS_ON], eeprom[SMPS_FAN_ON]) + 1)
        = eeprom[SHUTDOWN]
  BY <1>1, RowNumbers DEF ShutdownAbove, Larger
<1>4. ASSUME NEW r \in Row PROVE Outcome(eeprom)[r] = eeprom[r]
  <2>1. \A q \in {FAN_HS_OFF, FAN_LS_OFF, SMPS_FAN_OFF} : \E k \in DOMAIN Pair : q = Pair[k].off
    BY RowNumbers
  <2>2. CASE r \in {FAN_HS_OFF, FAN_LS_OFF, SMPS_FAN_OFF}
    BY <1>1, <1>2, <2>1, <2>2, OutcomeRows
  <2>3. CASE r = SHUTDOWN
    BY <1>1, <1>3, <2>3, OutcomeRows
  <2>4. CASE r \in Row \ {FAN_HS_OFF, FAN_LS_OFF, SMPS_FAN_OFF, SHUTDOWN}
    BY <1>1, <2>4, OutcomeRows
  <2> QED
    BY <2>2, <2>3, <2>4
<1>5. Outcome(eeprom) = [r \in Row |-> Outcome(eeprom)[r]] /\ eeprom = [r \in Row |-> eeprom[r]]
  BY <1>1 DEF Outcome
<1> QED
  BY <1>4, <1>5

LEMMA RestorableStep ==
  ASSUME TypeInv, Loaded, Repaired, Asking, Restorable, BootStep \/ PowerCut
  PROVE  /\ Restorable' /\ Outcome(eeprom') = Outcome(eeprom)
         /\ clean /\ stage = "check" /\ stage' = "running" => ram' = Outcome(eeprom)
<1>1. CASE Boot
  <2>1. UNCHANGED <<eeprom, check_ram, reset>> /\ stage = "boot"
    BY <1>1, Zenon DEF Boot, Load, cells
  <2> QED
    BY <2>1 DEF Restorable
<1>2. CASE Repair
  <2>1. UNCHANGED <<check_ram, reset>> /\ stage = "repair"
    BY <1>2 DEF Repair
  <2> QED
    BY <1>2, <2>1, RepairOutcome DEF Restorable
<1>3. CASE RangeCheck
  <2>1. ram = eeprom /\ stage = "check" /\ row \in Row
    BY <1>3 DEF RangeCheck, Loaded, TypeInv, TypeOK
  <2>2. UNCHANGED <<ram, eeprom, check_ram, reset>>
    BY <1>3, <2>1 DEF RangeCheck, Restorable
  <2>3. clean => (\A k \in DOMAIN Pair : PairKept(k)) /\ ShutdownAbove
    BY <2>1 DEF Repaired
  <2>4. clean => ram = Outcome(eeprom)
    BY <2>1, <2>3, RepairedOutcome
  <2> QED
    BY <2>2, <2>4 DEF Restorable
<1>4. CASE Reload \/ ReloadAddress \/ Mark
  BY <1>4 DEF Reload, ReloadAddress, Mark, Asking, Restorable
<1>5. CASE ClearReset
  BY <1>5 DEF ClearReset, Restorable
<1>6. CASE PowerCut
  BY <1>6 DEF PowerCut, Restart, Restorable
<1> QED
  BY <1>1, <1>2, <1>3, <1>4, <1>5, <1>6 DEF BootStep

(***************************************************************************)
(* A boot from cells in range ends in the same settings wherever the power *)
(* fails: see BootIsRepeatable (Check_Backup).                             *)
(***************************************************************************)
THEOREM BootOutcomeIsFixed == Spec => BootIsRepeatable
<1>1. Init => Repaired /\ Asking
  BY DEF Init, Repaired, Asking
<1>2. TypeInv /\ Loaded /\ Repaired /\ Asking =>
        [Restorable /\ (BootStep \/ PowerCut) =>
           /\ Restorable' /\ Outcome(eeprom') = Outcome(eeprom)
           /\ clean /\ stage = "check" /\ stage' = "running" => ram' = Outcome(eeprom)]_vars
  BY RestorableStep
<1> QED
  BY <1>1, <1>2, RepairedStep, AskingStep, InductiveInvariant, PTL DEF Spec, BootIsRepeatable
=============================================================================
