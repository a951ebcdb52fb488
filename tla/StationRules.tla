---------------------------- MODULE StationRules ----------------------------
(***************************************************************************)
(* The status rules of consumer/app/services/station_status.py (the        *)
(* backend holds a copy).  Two dimensions, operational and connectivity;   *)
(* each rule returns the decision that _apply writes.                      *)
(***************************************************************************)
EXTENDS Naturals

CONSTANT None   \* a field that is absent, a column left as it is

Operational  == {"OPEN", "CLOSED", "OPENING", "CLOSING", "UNKNOWN"}
Connectivity == {"ONLINE", "OFFLINE", "DEGRADED", "UNKNOWN"}
Sources      == {"REPORTED", "SCHEDULED", "MANUAL", "INFERRED"}
PumpStates   == {"IDLE", "POWERED_OFF", "OFFLINE", "UNKNOWN"}

Decisions == [op : Operational, conn : Connectivity, source : Sources,
              alert : BOOLEAN, pump : PumpStates \cup {None}]

Decide(op, conn, source, alert, pump) ==
  [op |-> op, conn |-> conn, source |-> source, alert |-> alert, pump |-> pump]

-----------------------------------------------------------------------------
\* The link as the message describes it; a dead serial line degrades it unless
\* the station says it is closed.
ReportedLink(op, device, mqtt, serial) ==
  LET said == IF device = None THEN "UNKNOWN" ELSE device
      conn == IF mqtt = FALSE THEN "OFFLINE"
              ELSE IF mqtt = TRUE /\ said = "UNKNOWN" THEN "ONLINE"
              ELSE said
  IN  IF mqtt # FALSE /\ serial = FALSE /\ op # "CLOSED" /\ conn # "OFFLINE"
      THEN "DEGRADED" ELSE conn

ReportedPump(op, conn, power) ==
  IF op = "CLOSED" \/ power = FALSE THEN "POWERED_OFF"
  ELSE IF op = "OPEN" /\ power = TRUE /\ conn = "ONLINE" THEN "IDLE"
  ELSE None

FromStatusMessage(op, device, mqtt, serial, power) ==
  LET conn == ReportedLink(op, device, mqtt, serial)
  IN  Decide(op, conn, "REPORTED", FALSE, ReportedPump(op, conn, power))

\* alive: the last heartbeat is within the timeout; within: operating hours.
HeartbeatTimeout(alive, within, reported) ==
  IF alive THEN Decide(reported, "ONLINE", "INFERRED", FALSE, None)
  ELSE IF reported = "CLOSED"
  THEN Decide("CLOSED", "OFFLINE", "REPORTED", FALSE, "POWERED_OFF")
  ELSE IF ~within
  THEN Decide("CLOSED", "OFFLINE", "SCHEDULED", FALSE, "POWERED_OFF")
  ELSE Decide("OPEN", "OFFLINE", "INFERRED", TRUE, "OFFLINE")

\* Mutant: a source of its own for the last will.
FromLastWill(device, within, current) ==
  IF device = "OFFLINE"
  THEN [HeartbeatTimeout(FALSE, within, current) EXCEPT !.source = "LWT"]
  ELSE Decide(current, "ONLINE", "REPORTED", FALSE, None)

\* A last will or a retained message; anything but OFFLINE counts as ONLINE.
FromConnectivity(device, within, current) ==
  IF device = "OFFLINE"
  THEN [HeartbeatTimeout(FALSE, within, current) EXCEPT !.source = "REPORTED"]
  ELSE Decide(current, "ONLINE", "REPORTED", FALSE, None)

\* connectivity UNKNOWN stands for "leave the column alone".
ManualClose == Decide("CLOSED", "UNKNOWN", "MANUAL", FALSE, "POWERED_OFF")
=============================================================================
