------------------------------ MODULE HostMem ------------------------------
(***************************************************************************)
(* What a command of the AFU does to the memory of the application: the    *)
(* handlers of libocxl that _psl_loop calls for reads, writes, writes with *)
(* byte enables, touches and atomic memory operations (AMO).  The thread   *)
(* runs one handler at a time and the handlers keep no state but the       *)
(* memory, so a behaviour is one command and its answer.                   *)
(*                                                                         *)
(* A byte is cut down to one bit and a 4-byte operand to Word of them;     *)
(* byte order, overflow, sign and the place of an operand all still show.  *)
(* The memory is two such words, a line of four (16 bytes) and two more.   *)
(***************************************************************************)
EXTENDS Integers, Sequences, SequencesExt, FiniteSetsExt

CONSTANTS
  Word,  \* bytes of a 4-byte operand
  Mems,  \* contents of the memory
  Cmds   \* the commands ocse passes on

Line == 4 * Word
Size == 8 * Word
Byte == {0, 1}

Plain == {"read", "write", "write_be", "touch"}
Amos == {"amo_rd", "amo_rw", "amo_wr"}

\* Function codes 0x00 - 0x07, 0x08 - 0x0a and the others.  0x0c is a store
\* twin (AMO_W_CAS_T) in an AMO_WR and INC_B in an AMO_RD.
Fetching == {"ADD", "XOR", "OR", "AND", "MAX_U", "MAX_S", "MIN_U", "MIN_S"}
Swapping == {"CAS_U", "CAS_E", "CAS_NE"}
Codes == Fetching \cup Swapping \cup {"INC_B", "INC_E", "DEC_B", "none"}

\* A command: at is its first word in the line, n its size in words (ocse lets
\* only aligned commands through), data the line that came with it, en its byte
\* enables, f its function code, be its endian bit (the AFU is big endian), bad: the
\* process has not got the address.
Commands == [k : Plain \cup Amos, at : 0 .. 3, n : {1, 2, 4}, data : Seq(Byte),
             en : SUBSET (0 .. Line - 1), f : Codes, be : BOOLEAN, bad : BOOLEAN]

ASSUME HostMemAssumption ==
  /\ Word \in Nat \ {0}
  /\ \A m \in Mems : Len(m) = Size /\ Range(m) \subseteq Byte
  /\ \A c \in Cmds : c \in Commands /\ Len(c.data) = Line /\ c.at % c.n = 0

VARIABLES mem, cmd, reply

vars == <<mem, cmd, reply>>

NoCmd == [k |-> "none"]
NoReply == [code |-> "none", data |-> <<>>]
Says(code, data) == reply' = [code |-> code, data |-> data]

-----------------------------------------------------------------------------
(***************************************************************************)
(* Bytes.                                                                  *)
(***************************************************************************)
\* A little-endian integer of l bytes, and its value.
Value(s) == MapThenSumSet(LAMBDA i : s[i] * 2 ^ (i - 1), DOMAIN s)
Bytes(v, l) == [i \in 1 .. l |-> (v \div 2 ^ (i - 1)) % 2]

\* memcpy from and to address a.
Copied(s, a, l) == SubSeq(s, a + 1, a + l)
Stored(s, a, b) == [i \in DOMAIN s |-> IF i > a /\ i <= a + Len(b) THEN b[i - a] ELSE s[i]]

addr(c) == (2 + c.at) * Word
size(c) == c.n * Word
Modulus(c) == 2 ^ size(c)

Init == mem \in Mems /\ cmd = NoCmd /\ reply = NoReply

\* A command comes from ocse.
Ask ==
  /\ cmd = NoCmd /\ reply = NoReply
  /\ cmd' \in Cmds
  /\ UNCHANGED <<mem, reply>>

Serves(K) == cmd.k \in K /\ cmd' = NoCmd

-----------------------------------------------------------------------------
(***************************************************************************)
(* Reads, writes and touches.                                              *)
(***************************************************************************)
\* _testmemaddr fails: the fault is an event for the application, and ocse is
\* told, but for an AMO.
BadAddress ==
  /\ Serves(Plain \cup Amos) /\ cmd.bad
  /\ IF cmd.k \in Amos THEN UNCHANGED reply ELSE Says("FAILURE", <<>>)
  /\ UNCHANGED mem

_handle_read ==
  /\ Serves({"read"}) /\ ~cmd.bad
  /\ Says("SUCCESS", Copied(mem, addr(cmd), size(cmd)))
  /\ UNCHANGED mem

_handle_write ==
  /\ Serves({"write"}) /\ ~cmd.bad
  /\ mem' = Stored(mem, addr(cmd), SubSeq(cmd.data, 1, size(cmd)))
  /\ Says("SUCCESS", <<>>)

\* The test of a bit is (be >> i) && 1: it holds up to the last byte enabled.
Enabled(c, i) == \E j \in c.en : j >= i

_handle_write_be ==
  /\ Serves({"write_be"}) /\ ~cmd.bad
  /\ LET old == Copied(mem, addr(cmd), Line)
     IN  mem' = Stored(mem, addr(cmd),
                       [i \in 1 .. Line |-> IF Enabled(cmd, i - 1) THEN cmd.data[i] ELSE old[i]])
  /\ Says("SUCCESS", <<>>)

_handle_touch ==
  /\ Serves({"touch"}) /\ ~cmd.bad
  /\ Says("SUCCESS", <<>>)
  /\ UNCHANGED mem

-----------------------------------------------------------------------------
(***************************************************************************)
(* Atomic memory operations.                                               *)
(***************************************************************************)
\* Mutant: an 8-byte operand is taken from the same half at both addresses.
op_lanes_Same(c) ==
  IF c.n = 1 THEN <<<<0, 2>>, <<1, 3>>, <<0, 2>>, <<3, 1>>>>[c.at + 1] ELSE <<0, 2>>

\* The words of the line in which op_1 and op_2 are, by op_ptr.
op_lanes(c) ==
  IF c.n = 1 THEN <<<<0, 2>>, <<1, 3>>, <<0, 2>>, <<3, 1>>>>[c.at + 1]
  ELSE IF c.at = 0 THEN <<0, 2>> ELSE <<2, 0>>

\* ntohl and ntohll on the way in, htonl and htonll on the way out.
Swapped(c, s) == IF c.be THEN Reverse(s) ELSE s

\* The values op_1, op_2 may have: an AMO_RD does not set them.
Operand(c, i) ==
  IF c.k = "amo_rd" THEN 0 .. Modulus(c) - 1
  ELSE {Value(Swapped(c, Copied(c.data, op_lanes(c)[i] * Word, size(c))))}

Signed(c, v) == IF 2 * v >= Modulus(c) THEN v - Modulus(c) ELSE v
MIN_INT(c) == Modulus(c) \div 2

Bitwise(c, op(_, _), v, w) ==
  LET x == Bytes(v, size(c))  y == Bytes(w, size(c))
  IN  Value([i \in 1 .. size(c) |-> IF op(x[i] = 1, y[i] = 1) THEN 1 ELSE 0])

Combined(c, a, o) ==
  CASE c.f = "ADD" -> (a + o) % Modulus(c)
    [] c.f = "XOR" -> Bitwise(c, LAMBDA p, q : p # q, a, o)
    [] c.f = "OR" -> Bitwise(c, \/, a, o)
    [] c.f = "AND" -> Bitwise(c, /\, a, o)
    [] c.f = "MAX_U" -> IF a > o THEN a ELSE o
    [] c.f = "MAX_S" -> IF Signed(c, a) > Signed(c, o) THEN a ELSE o
    [] c.f = "MIN_U" -> IF a < o THEN a ELSE o
    [] c.f = "MIN_S" -> IF Signed(c, a) < Signed(c, o) THEN a ELSE o

CompareSwap(c, a, o1, o2) ==
  CASE c.f = "CAS_U" -> o2
    [] c.f = "CAS_E" -> IF a = o1 THEN o2 ELSE a
    [] c.f = "CAS_NE" -> IF a # o1 THEN o2 ELSE a

\* What a case of the switch leaves in op_1, op_2, op_A and wb: "ack" when ocse
\* gets one byte (wb = 0), "data" when op_A follows it, "none" for no answer.
Result(o1, o2, a, wb) == [op_1 |-> o1, op_2 |-> o2, op_A |-> a, wb |-> wb]

\* Mutant: an AMO_WR is answered with data like an AMO_RW.
Fetches_All(c, new, o2, a) == Result(new, o2, a, "data")

Fetches(c, new, o2, a) == Result(new, o2, a, IF c.k = "amo_wr" THEN "ack" ELSE "data")

\* Compare and increment or decrement: the bound is reached unless go.
Steps(c, go, new, o2, a) == IF go THEN Result(new, o2, a, "data") ELSE Result(a, o2, MIN_INT(c), "data")

\* The switch.  up and down are the operands after and before the address in
\* memory; junk is the uninitialised op_A of an 8-byte INC_E, of 32 bits.  A code
\* that is not valid for the command stores op_1 all the same.
Operates(c, a, o1, o2, up, down, junk) ==
  LET nop == Result(o1, o2, a, "ack")
      rd == c.k = "amo_rd"
  IN CASE c.f \in Fetching -> Fetches(c, Combined(c, a, o1), o2, a)
       [] c.f \in Swapping ->
            IF c.k = "amo_rw" THEN Fetches(c, CompareSwap(c, a, o1, o2), o2, a) ELSE nop
       [] c.f = "INC_B" ->
            IF c.k = "amo_rw" THEN nop
            ELSE IF rd THEN Steps(c, a # up, (a + 1) % Modulus(c), o2, a)
            ELSE IF a = up THEN Result(o1, o1, a, "ack") ELSE Result(a, up, a, "ack")
       [] c.f = "INC_E" ->
            IF rd THEN Steps(c, a = up,
                             IF c.n = 1 THEN (a + 1) % Modulus(c) ELSE (junk + 1) % 2 ^ Word, o2, a)
            ELSE nop
       [] c.f = "DEC_B" ->
            IF rd THEN Steps(c, a # down, (a + Modulus(c) - 1) % Modulus(c), o2, a) ELSE nop
       [] OTHER -> Result(o1, o2, a, "none")

\* The result is stored, op_2 after it when the code is 0x0c.
Written(c, r) ==
  LET one == Stored(mem, addr(c), Bytes(r.op_1, size(c)))
  IN  CASE r.wb = "none" -> mem
        [] r.wb # "none" /\ c.f = "INC_B" -> Stored(one, addr(c) + size(c), Bytes(r.op_2, size(c)))
        [] OTHER -> one

_handle_DMO_OPs ==
  /\ Serves(Amos) /\ ~cmd.bad
  /\ \E o1 \in Operand(cmd, 1), o2 \in Operand(cmd, 2), junk \in 0 .. 2 ^ Word - 1 :
       LET at(a) == Value(Copied(mem, a, size(cmd)))
           r == Operates(cmd, at(addr(cmd)), o1, o2, at(addr(cmd) + size(cmd)),
                         at(addr(cmd) - size(cmd)), junk)
       IN  /\ mem' = Written(cmd, r)
           /\ CASE r.wb = "none" -> UNCHANGED reply
                [] r.wb = "ack" -> Says("SUCCESS", <<>>)
                [] OTHER -> Says("SUCCESS", Swapped(cmd, Bytes(r.op_A, size(cmd))))

-----------------------------------------------------------------------------
Next == \/ Ask \/ BadAddress \/ _handle_read \/ _handle_write \/ _handle_write_be \/ _handle_touch
        \/ _handle_DMO_OPs

Spec == Init /\ [][Next]_vars

-----------------------------------------------------------------------------
(***************************************************************************)
(* What the library promises, in the integers that the AFU and the         *)
(* application see.                                                        *)
(***************************************************************************)
Of(c, s) == Value(Swapped(c, s))

\* The codes each kind of AMO may have.
Valid(c) ==
  CASE c.k = "amo_rw" -> c.f \in Fetching \cup Swapping
    [] c.k = "amo_wr" -> c.f \in Fetching \cup {"INC_B"}
    [] c.k = "amo_rd" -> c.f \in {"INC_B", "INC_E", "DEC_B"}
    [] OTHER -> TRUE

\* The first operand is where the address says, the second opposite to it.
FirstOp(c) == Of(c, Copied(c.data, c.at * Word, size(c)))
SecondOp(c) == Of(c, Copied(c.data, ((c.at + 2) % 4) * Word, size(c)))

Here(c) == Value(Copied(mem, addr(c), size(c)))
Above(c) == Value(Copied(mem, addr(c) + size(c), size(c)))
Below(c) == Value(Copied(mem, addr(c) - size(c), size(c)))

\* The bytes in which both, one or some of two integers have a one.
Ones(c, v) == {i \in 0 .. size(c) - 1 : (v \div 2 ^ i) % 2 = 1}
OfOnes(S) == MapThenSumSet(LAMBDA i : 2 ^ i, S)

\* A compare and increment or decrement that is not carried out.
Refused(c) ==
  /\ c.k = "amo_rd"
  /\ CASE c.f = "INC_B" -> Here(c) = Above(c)
       [] c.f = "INC_E" -> Here(c) # Above(c)
       [] OTHER -> Here(c) = Below(c)

\* The integer at the address after the operation.
NewValue(c) ==
  LET a == Here(c)  o == FirstOp(c)
      S == Ones(c, a)  T == Ones(c, o)
  IN CASE Refused(c) -> a
       [] c.k = "amo_rd" /\ ~Refused(c) ->
            CHOOSE v \in 0 .. Modulus(c) - 1 : (v - a) % Modulus(c) = (IF c.f = "DEC_B" THEN -1 ELSE 1) % Modulus(c)
       [] c.f = "ADD" -> CHOOSE v \in 0 .. Modulus(c) - 1 : (v - a) % Modulus(c) = o
       [] c.f = "XOR" -> OfOnes((S \ T) \cup (T \ S))
       [] c.f = "OR" -> OfOnes(S \cup T)
       [] c.f = "AND" -> OfOnes(S \cap T)
       [] c.f = "MAX_U" -> Max({a, o})
       [] c.f = "MIN_U" -> Min({a, o})
       [] c.f = "MAX_S" -> CHOOSE v \in {a, o} : \A w \in {a, o} : Signed(c, w) <= Signed(c, v)
       [] c.f = "MIN_S" -> CHOOSE v \in {a, o} : \A w \in {a, o} : Signed(c, w) >= Signed(c, v)
       [] c.f = "CAS_U" \/ (c.f = "CAS_E" /\ a = o) \/ (c.f = "CAS_NE" /\ a # o) -> SecondOp(c)
       [] c.k = "amo_wr" /\ c.f = "INC_B" /\ a = Above(c) -> o
       [] OTHER -> a

\* The bytes a command may change, from address a on, to what.
Extent(c) ==
  CASE c.bad \/ c.k \in {"read", "touch"} -> {}
    [] c.k = "write_be" -> c.en
    [] c.k = "amo_wr" /\ c.f = "INC_B" /\ Here(c) = Above(c) -> 0 .. 2 * size(c) - 1
    [] OTHER -> 0 .. size(c) - 1
NewByte(c, i) == IF c.k \in Plain THEN c.data[i + 1] ELSE Bytes(NewValue(c), size(c))[(i % size(c)) + 1]

\* The commands the library does not carry out as it should: enables with gaps, as
\* it honours them up to the last one; operands of one word at the third word; AMO_RD
\* increments, which store or use an uninitialised value.
Mishandled(c) ==
  \/ c.k = "write_be" /\ \E i, j \in 0 .. Line - 1 : i < j /\ j \in c.en /\ i \notin c.en
  \/ c.k \in {"amo_rw", "amo_wr"} /\ c.n = 1 /\ c.at = 2
  \/ c.k = "amo_rd" /\ c.f # "DEC_B" /\ ~(c.f = "INC_E" /\ c.n = 1)

\* Any other command leaves the memory as it should: the bytes it names have what
\* the data or the operation give, for operands in the byte order of the AFU and
\* of either size, and no other byte is touched, none at all by a command to a
\* bad address; a read or an AMO that fetches gives the AFU what was there before,
\* or the least integer when a compare and increment or decrement was refused.
\* (libocxl.c:566 _handle_DMO_OPs and the handlers at 378 - 510.)
Served ==
  [][cmd # NoCmd /\ ~Mishandled(cmd) =>
       /\ \A i \in DOMAIN mem :
            LET off == i - 1 - addr(cmd)
            IN  mem'[i] = IF off \in Extent(cmd) THEN NewByte(cmd, off) ELSE mem[i]
       /\ ~cmd.bad /\ cmd.k = "read" => reply'.data = Copied(mem, addr(cmd), size(cmd))
       /\ ~cmd.bad /\ cmd.k \in {"amo_rd", "amo_rw"} =>
            Of(cmd, reply'.data) = IF Refused(cmd) THEN MIN_INT(cmd) ELSE Here(cmd)]_vars

\* What _handle_mem_read of ocse takes from the socket after the first byte.
_handle_mem_read(c) == IF c.k \in {"read", "amo_rd", "amo_rw"} THEN size(c) ELSE 0

\* A command is answered with success if it was carried out and only then, a failed
\* one that is not an AMO with a failure (ocse is told nothing of a failed AMO), and
\* the answer has the length that ocse reads for it (cmd.c:1788): one byte less, and
\* ocse waits or takes the next message for data; one more, and it takes data for a
\* message.
ReplyFits ==
  [][cmd # NoCmd =>
       /\ reply'.code = "SUCCESS" <=> ~cmd.bad
       /\ cmd.bad /\ cmd.k \in Plain => reply'.code = "FAILURE"
       /\ Len(reply'.data) = IF cmd.bad THEN 0 ELSE _handle_mem_read(cmd)]_vars
=============================================================================
