------------------------------ MODULE MCIngest ------------------------------
(***************************************************************************)
(* Ingest on a small instance: two contents under one id (a re-upload that *)
(* differs), a second sale that names no device, a message that does not   *)
(* validate, and one the callback skips.                                   *)
(***************************************************************************)
EXTENDS Ingest

CONSTANTS t1, t2, d1, b1, b2

Sale(i, d, b) ==
  [id |-> i, dev |-> d, body |-> b, valid |-> TRUE, skipped |-> FALSE]

MCIds      == {t1, t2}
MCDevices  == {d1}
MCBodies   == {b1, b2}
Malformed  == [Sale(t2, None, b2) EXCEPT !.valid = FALSE]
Unclaimed  == [Malformed EXCEPT !.skipped = TRUE]
MCMessages ==
  {Sale(t1, d1, b1), Sale(t1, d1, b2), Sale(t2, None, b1), Malformed, Unclaimed}
=============================================================================
