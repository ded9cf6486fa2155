------------------------------- MODULE MCCmd -------------------------------
(***************************************************************************)
(* Instances of Cmd for TLC: the command mixes of the runs.                *)
(***************************************************************************)
EXTENDS Cmd, TLC

Good(op, n) == [op |-> op, n |-> n, ok |-> TRUE]
Bad(op, n) == [op |-> op, n |-> n, ok |-> FALSE]

\* One actag per context, none of them the 0 of a new client struct.
OwnActags == [c \in Ctx |-> {c + 1}]

WithData == WriteOps \cup AmoOps \cup {"INTRP_REQ_D"}

\* Every kind of memory access, split and not, and the commands without one.
MemoryMix == {Good("RD", 4), Good("PR_RD", 1), Good("DMA_W", 4), Good("DMA_W", 2), Good("PR_W", 1),
              Good("W_BE", 1), Good("AMO_RD", 1), Good("AMO_RD_N", 1), Good("AMO_RW", 1),
              Good("AMO_W", 1), Good("XLATE_TOUCH", 1), Good("NOP", 1), Bad("UNKNOWN", 1), Bad("XLATE_TOUCH", 1),
              Bad("RD", 1), Bad("DMA_W", 2), Bad("AMO_RD", 1)}

ClientMix == {Good("RD", 1), Good("DMA_W", 1), Good("INTRP_REQ_D", 1), Good("WAKE_HOST_THRD", 1)}

\* One kind for each turn at mem_access.
LiveMix == {Good("RD", 4), Good("DMA_W", 1), Good("AMO_RW", 1)}

TagSymmetry == Permutations(Tags)
=============================================================================
