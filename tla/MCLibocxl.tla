----------------------------- MODULE MCLibocxl -----------------------------
(***************************************************************************)
(* Instances of Libocxl for TLC: a main thread, and one for the events and *)
(* the wake-ups.                                                           *)
(***************************************************************************)
EXTENDS Libocxl, TLC

CONSTANTS main, other

MainAndOther ==
  (main :> (Calls \ {"event", "wait"})) @@ (other :> {"event", "wait"})

\* Three bytes take an access of two bytes and one of one byte.
ThreeBytes == {[off |-> 0, size |-> 3]}

=============================================================================
