------------------------------- MODULE Routing -------------------------------
(* Commands on their way in: the serial channel cuts the bytes of the UART   *)
(* into lines, the hub hands each message to the dispatcher, which parses it *)
(* and runs it on a capability or on the system, and what it refuses is      *)
(* forwarded to the other channels. A byte stands for a whole JSON field: a  *)
(* line is a sequence of <<key, value>> pairs and a cut loses whole fields.  *)
EXTENDS Naturals, Sequences

CONSTANTS
  RxBytes,        \* sizeof(rxEnc_)
  RawBytes,       \* sizeof(raw_)
  Lines,          \* what the peer on the UART may send as a line
  CommandNames,   \* capabilities of this device that take commands
  MaxLines        \* bound on the lines of a behaviour

LineFeed == <<"\n", "">>
Return == <<"\r", "">>
Fields == (STRING \X STRING) \ {Return, LineFeed}

\* JSON escapes the ends of lines.
ASSUME RoutingAssumption ==
  /\ RxBytes \in Nat /\ RawBytes \in Nat /\ RawBytes <= RxBytes /\ MaxLines \in Nat
  /\ Lines \subseteq Seq(Fields)

SystemValues == {"REBOOT", "FACTORY_RESET", "UPDATE_FIRMWARE"}

VARIABLES
  channels,  \* the channels of the hub, in their order
  listening, \* started_ of the serial channel
  line,      \* the line on the wire
  wire,      \* what of it has not been read
  rx,        \* the bytes held in rxEnc_
  routed,    \* the last message the hub received and what became of it
  linesLeft

routingVars == <<channels, listening, line, wire, rx, routed, linesLeft>>

NothingRouted == [origin |-> "none", payload |-> <<>>, outcome |-> "none", to |-> {}]

RoutingInit ==
  /\ channels = <<>> /\ listening = FALSE
  /\ line = <<>> /\ wire = <<>> /\ rx = <<>>
  /\ routed = NothingRouted
  /\ linesLeft = MaxLines

-----------------------------------------------------------------------------
(* Parsing: the first field of that name counts, however deep it is.         *)

Keys(payload) == {payload[i][1] : i \in DOMAIN payload}
FieldOf(payload, key) ==
  LET at == CHOOSE i \in DOMAIN payload :
              /\ payload[i][1] = key
              /\ \A j \in DOMAIN payload : payload[j][1] = key => i <= j
  IN  payload[at][2]

Parses(payload) == {"capability_name", "device_id", "value"} \subseteq Keys(payload)

\* A value that is a system command makes one of any command but one whose
\* type already says so.
TypeOf(payload) ==
  LET type == IF "type" \in Keys(payload) THEN FieldOf(payload, "type") ELSE "CAPABILITY"
  IN  IF FieldOf(payload, "value") \in SystemValues THEN "SYSTEM" ELSE type

CapabilityOutcome(payload) ==
  IF FieldOf(payload, "capability_name") \in CommandNames THEN "applied" ELSE "refused"

\* FACTORY_RESET and UPDATE_FIRMWARE are accepted and do nothing.
SystemOutcome(payload) ==
  CASE FieldOf(payload, "value") = "REBOOT" -> "restart"
    [] FieldOf(payload, "value") \in SystemValues \ {"REBOOT"} -> "nothing"
    [] OTHER -> "refused"

DispatchMessage(payload) ==
  IF ~Parses(payload) THEN "refused"
  ELSE CASE TypeOf(payload) = "CAPABILITY" -> CapabilityOutcome(payload)
         [] TypeOf(payload) = "SYSTEM"     -> SystemOutcome(payload)
         [] OTHER                          -> "refused"

\* Both kinds of channel forward raw messages; the one it came from is skipped.
ForwardChannels(origin) == {channels[i] : i \in DOMAIN channels} \ {origin}

OnMessageReceived(origin, payload) ==
  LET outcome == DispatchMessage(payload)
  IN  routed' = [origin |-> origin, payload |-> payload, outcome |-> outcome,
                 to |-> IF outcome = "refused" THEN ForwardChannels(origin) ELSE {}]

-----------------------------------------------------------------------------
(* The serial channel *)

DecodeAndDispatch(frame) ==
  IF Len(frame) >= RawBytes THEN UNCHANGED routed ELSE OnMessageReceived("uart", frame)

\* One turn of the loop of pump(). A full buffer is emptied and the reading
\* goes on, in the middle of the same line.
PumpWithoutCut ==
  /\ listening /\ wire # <<>>
  /\ wire' = Tail(wire)
  /\ LET b == Head(wire) IN
       CASE b = Return -> UNCHANGED <<rx, routed>>
         [] b = LineFeed ->
              /\ rx' = IF rx # <<>> /\ ~Parses(rx) THEN rx ELSE <<>>
              /\ IF rx # <<>> THEN DecodeAndDispatch(rx) ELSE UNCHANGED routed
         [] OTHER ->
              /\ rx' = IF Len(rx) < RxBytes THEN Append(rx, b) ELSE <<>>
              /\ UNCHANGED routed
  /\ UNCHANGED <<channels, listening, line, linesLeft>>

Pump ==
  /\ listening /\ wire # <<>>
  /\ wire' = Tail(wire)
  /\ LET b == Head(wire) IN
       CASE b = Return -> UNCHANGED <<rx, routed>>
         [] b = LineFeed ->
              /\ rx' = <<>>
              /\ IF rx # <<>> THEN DecodeAndDispatch(rx) ELSE UNCHANGED routed
         [] OTHER ->
              /\ rx' = IF Len(rx) < RxBytes THEN Append(rx, b) ELSE <<>>
              /\ UNCHANGED routed
  /\ UNCHANGED <<channels, listening, line, linesLeft>>

\* A name that is taken is refused.
HasChannel(name) == \E i \in DOMAIN channels : channels[i] = name
AddChannel(name) == ~HasChannel(name) /\ channels' = Append(channels, name)

\* configureSerialTransport, which the application calls before setup().
ConfigureSerial ==
  /\ channels = <<>>
  /\ AddChannel("uart")
  /\ UNCHANGED <<listening, line, wire, rx, routed, linesLeft>>

\* TransportController::start adds MQTT and starts every channel.
StartTransports ==
  /\ AddChannel("mqtt")
  /\ listening' = (channels # <<>>)
  /\ rx' = <<>>
  /\ UNCHANGED <<line, wire, routed, linesLeft>>

\* The REBOOT command: what was read is lost, the peer keeps sending.
Restart ==
  /\ routed.outcome = "restart"
  /\ channels' = <<>> /\ listening' = FALSE /\ rx' = <<>>
  /\ routed' = NothingRouted
  /\ UNCHANGED <<line, wire, linesLeft>>

\* The peer sends its next line when the wire is free. What it sends while
\* the port is closed is lost, the beginning of a line too.
PeerSends ==
  /\ wire = <<>>
  /\ linesLeft > 0
  /\ linesLeft' = linesLeft - 1
  /\ \E l \in Lines : line' = l /\ wire' = l \o <<Return, LineFeed>>
  /\ UNCHANGED <<channels, listening, rx, routed>>

PortClosed ==
  /\ ~listening /\ wire # <<>>
  /\ wire' = Tail(wire)
  /\ UNCHANGED <<channels, listening, line, rx, routed, linesLeft>>

MqttMessage ==
  /\ HasChannel("mqtt")
  /\ \E payload \in Lines : OnMessageReceived("mqtt", payload)
  /\ UNCHANGED <<channels, listening, line, wire, rx, linesLeft>>

RoutingNext ==
  \/ ConfigureSerial \/ StartTransports \/ Restart
  \/ PeerSends \/ PortClosed \/ Pump \/ MqttMessage

RoutingSpec == RoutingInit /\ [][RoutingNext]_routingVars

-----------------------------------------------------------------------------
(* Properties *)

RoutingTypeOK ==
  /\ channels \in {<<>>, <<"uart">>, <<"mqtt">>, <<"uart", "mqtt">>}
  /\ listening \in BOOLEAN
  /\ Len(rx) <= RxBytes
  /\ linesLeft \in 0..MaxLines
  /\ routed.outcome \in {"none", "applied", "restart", "nothing", "refused"}

EndOf(l, frame) ==
  Len(frame) <= Len(l) /\ frame = SubSeq(l, Len(l) - Len(frame) + 1, Len(l))

\* What the serial channel hands on is the end of one line: a line that is cut,
\* dropped for its size or begun before a restart never lends its bytes to the
\* line after it. The end of a line that did not fit is handed on, too.
NeverSpliced ==
  [][(routed' # routed /\ routed'.origin = "uart")
        => EndOf(line, routed'.payload)]_routingVars

\* "Overflow: discard current line": with the port open throughout, a message
\* is a whole line the peer sent. It is not so: what comes after the overflow is
\* collected and, at the end of the line, dispatched as a message of its own.
WholeLines == routed.origin = "uart" => routed.payload \in Lines
=============================================================================
