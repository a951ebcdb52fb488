---------------------------- MODULE MCTankReadings ----------------------------
(***************************************************************************)
(* Model checking TankReadings.                                            *)
(***************************************************************************)
EXTENDS TankReadings, TLC

CONSTANTS t1, t2, w1, w2

MCTanks   == {t1, t2}
MCTank    == {t1}
MCWorkers == {w1, w2}
MCWorker  == {w1}
MCDay     == {1}
MCDays    == {1, 2}
MCVolumes == {0, 5}

\* A list of all tanks, and the closing of one.
MCItems == {(t1 :> 5) @@ (t2 :> 5), (t1 :> 0), (t1 :> None)}
MCItem  == {(t1 :> 5), (t1 :> 0)}
MCOne   == {(t1 :> 5)}

MCSymmetry == Permutations(Workers)
=============================================================================
