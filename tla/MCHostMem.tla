----------------------------- MODULE MCHostMem -----------------------------
(* Two-byte words; a spread of memories and lines; every command that ocse
   can pass on. *)
EXTENDS HostMem

CONSTANTS NMems, NLines  \* bounds: how many memories and lines of data

Spread(n, mult, l) == {Bytes((v * mult) % 2 ^ l, l) : v \in 1 .. n}

SomeMems == Spread(NMems, 40503, Size)
SomeLines == Spread(NLines, 157, Line)

Least == [k |-> "read", at |-> 0, n |-> 1, data |-> [i \in 1 .. Line |-> 0], en |-> {},
          f |-> "none", be |-> FALSE, bad |-> FALSE]

Places == {<<at, n>> \in (0 .. 3) \X {1, 2, 4} : at % n = 0}
Small == {p \in Places : p[2] # 4}

\* Reads and touches, writes, and writes of some bytes of a line.
PlainCmds ==
  {[Least EXCEPT !.k = k, !.at = p[1], !.n = p[2], !.bad = b] :
     k \in {"read", "touch"}, p \in Places, b \in BOOLEAN}
  \cup {[Least EXCEPT !.k = "write", !.at = p[1], !.n = p[2], !.data = d, !.bad = b] :
          p \in Places, d \in SomeLines, b \in BOOLEAN}
BeCmds ==
  {[Least EXCEPT !.k = "write_be", !.n = 4, !.data = d, !.en = e] :
     d \in SomeLines, e \in SUBSET (0 .. Line - 1)}

\* Atomic operations; an AMO_RD has no data.
AmoCmds ==
  {[Least EXCEPT !.k = k, !.at = p[1], !.n = p[2], !.f = f, !.be = b, !.data = d] :
     k \in {"amo_rw", "amo_wr"}, p \in Small, f \in Codes, b \in BOOLEAN, d \in SomeLines}
  \cup {[Least EXCEPT !.k = "amo_rd", !.at = p[1], !.n = p[2], !.f = f, !.be = b] :
          p \in Small, f \in Codes, b \in BOOLEAN}

\* AMOs to an address that the process has not got.
BadAmos == {[c EXCEPT !.bad = TRUE] : c \in {d \in AmoCmds : d.n = 1}}

\* Every command with a code that its kind may have.
ValidCmds == PlainCmds \cup BeCmds \cup {c \in AmoCmds \cup BadAmos : Valid(c)}
=============================================================================
