------------------------------- MODULE MCMmio -------------------------------
(***************************************************************************)
(* Instances of Mmio for TLC: the accesses of the runs.                    *)
(***************************************************************************)
EXTENDS Mmio

MmioRead == [mem |-> FALSE, rnw |-> TRUE, n |-> 0]
LpcRead(n) == [mem |-> TRUE, rnw |-> TRUE, n |-> n]
LpcWrite(n) == [mem |-> TRUE, rnw |-> FALSE, n |-> n]

AccessMix == {MmioRead, LpcRead(2), LpcWrite(1)}

ReadWriteRead == <<TRUE, FALSE, TRUE>>
=============================================================================
