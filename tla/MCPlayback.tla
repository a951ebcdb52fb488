------------------------------ MODULE MCPlayback ------------------------------
(***************************************************************************)
(* Model checking DispensingPlayback: two sales, each with its own         *)
(* spelling of the one pump; rows for both; a duplicate filter that        *)
(* forgets one of them.                                                    *)
(***************************************************************************)
EXTENDS DispensingPlayback, TLC

CONSTANTS s1, s2, p1

MCSales    == {s1, s2}
MCPumpIds  == {"PUMP-01", "PUMP/01"}
MCPumpIdOf == (s1 :> "PUMP-01") @@ (s2 :> "PUMP/01")
MCPumps    == {p1}
MCPumpMatching == [id \in MCPumpIds |-> p1]
=============================================================================
