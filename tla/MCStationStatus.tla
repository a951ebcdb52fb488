-------------------------- MODULE MCStationStatus --------------------------
(***************************************************************************)
(* StationStatus on one station, with messages a Pi sends: a heartbeat     *)
(* that states everything, one that leaves the station status out (it then *)
(* keeps the stored one), and the last will of the connectivity topic.     *)
(* The station form is saved once, out of hours.                          *)
(***************************************************************************)
EXTENDS StationStatus

CONSTANTS s1, p1

Msg(kind, op, conn, mqtt, serial, power) ==
  [kind |-> kind, op |-> op, conn |-> conn, mqtt |-> mqtt, serial |-> serial,
   power |-> power]

Beat     == Msg("heartbeat", "OPEN", "ONLINE", TRUE, TRUE, TRUE)
BareBeat == Msg("heartbeat", None, None, None, None, None)
LinkDown == Msg("connectivity", None, "OFFLINE", None, None, None)

MCStations    == {s1}
MCPumps       == {p1}
MCForms       == {[op |-> "CLOSED", conn |-> "ONLINE"]}
MCMessages    == {BareBeat, LinkDown}
MCLoud        == {Beat, LinkDown}
MCNeverClosed == {Beat, BareBeat}
=============================================================================
