------------------------- MODULE MCCapabilityProbe -------------------------
(* Three capabilities: a required one with test data, an optional one with *)
(* test data and an optional one without; two devices.                     *)
EXTENDS CapabilityProbe

CONSTANTS rq, opt, untested, dev0, dev1

MCCaps == <<rq, opt, untested>>
MCRequired == {rq}
MCTested == {rq, opt}
MCDevices == <<dev0, dev1>>
=============================================================================
