------------------------------ MODULE MCBringUp -----------------------------
EXTENDS BringUp

CONSTANTS s1, s2, blank, custom

MCSerials == {s1, s2}
(* An I2C sensor with a switch, and a soil probe alone; where the sensor   *)
(* is not heard, the switch alone.                                         *)
MCHardware == {[sensor |-> "i2c", pins |-> {1}], [sensor |-> "soil", pins |-> {}]}
=============================================================================
