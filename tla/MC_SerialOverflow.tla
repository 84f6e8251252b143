-------------------------- MODULE MC_SerialOverflow --------------------------
(* A line of ten fields for a buffer of six: the end of it is a command.     *)
EXTENDS Routing

Pad == <<"padding", "">>
MCLines == {<<Pad, Pad, Pad, Pad, Pad, Pad, Pad, <<"capability_name", "lamp">>,
              <<"device_id", "any">>, <<"value", "on">>>>}

\* The behaviours in which the transports are started and the port stays open.
PortOpen ==
  /\ channels = <<"uart", "mqtt">> /\ listening = TRUE
  /\ line = <<>> /\ wire = <<>> /\ rx = <<>>
  /\ routed = NothingRouted
  /\ linesLeft = MaxLines

OpenPortSpec == PortOpen /\ [][PeerSends \/ Pump]_routingVars
=============================================================================
