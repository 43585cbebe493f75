------------------------------- MODULE MCLldp --------------------------------
(***************************************************************************)
(* Instances of LldpListen for TLC: two interfaces, a switch port for      *)
(* each, two ticks to listen, which make a microsecond.                    *)
(***************************************************************************)
EXTENDS LldpListen

CONSTANTS eth0, eth1, tor1, tor2, nobody

MCInterfaces == {eth0, eth1}
MCSwitches == {tor1, tor2}
=============================================================================
