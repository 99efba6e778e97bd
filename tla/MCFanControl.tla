---------------------------- MODULE MCFanControl ----------------------------
(* Two sets of thresholds for FanControl, for TLC. *)
EXTENDS FanControl

Thresholds(hsOn, hsOff, lsOn, lsOff, smpsOn, smpsOff) ==
  [t \in Threshold |->
     CASE t = "fan_hs_on_amp_temp"  -> hsOn  [] t = "fan_hs_off_amp_temp" -> hsOff
       [] t = "fan_ls_on_amp_temp"  -> lsOn  [] t = "fan_ls_off_amp_temp" -> lsOff
       [] t = "fan_on_smps_temp"    -> smpsOn [] t = "fan_off_smps_temp"  -> smpsOff]

\* Hysteretic, with a temperature for each mode; and the factory defaults'
\* order, the power supply's fan on below off.
MCLimits == {Thresholds(3, 2, 1, 0, 3, 2), Thresholds(3, 2, 1, 0, 2, 3)}
=============================================================================
