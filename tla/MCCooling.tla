------------------------------ MODULE MCCooling ------------------------------
(* Instances of Cooling for TLC.  The limits are those of the README's      *)
(* example, the temperatures lie on both sides of each of them; one         *)
(* automatic level is even, one odd, as the steps of the fan are 2 and 10.  *)
EXTENDS Cooling

MCTemps == {55, 60, 66}
MCAutoLevels == {0, 35}
MCOneAutoLevel == {35}
MCAutomatic == {0}
MCAllFanLevels == {-1, 0, 40}
=============================================================================
