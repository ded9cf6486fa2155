----------------------------- MODULE LinkProofs -----------------------------
(***************************************************************************)
(* Proofs about Link, for any credits, numbers of messages and lines of    *)
(* data, and any number of short reads on either side.                     *)
(*                                                                         *)
(* What is on a line is followed from the event of the sender, over the    *)
(* packets of the socket, to the event of the receiver.  The events are    *)
(* overwritten at every packet, so nothing is lost only because they have  *)
(* been emptied in time (Emptied): by the clock edge in the driver, and by *)
(* the handlers in ocse, which read a response only for the access in hand *)
(* (CmdAccess, CfgAccess).                                                 *)
(***************************************************************************)
EXTENDS Link, ListLemmas, FiniteSetTheorems

-----------------------------------------------------------------------------
(***************************************************************************)
(* Types.                                                                  *)
(***************************************************************************)
HostPlaces == {"init_signal", "init_get", "init_read", "signal", "get", "handle", "send"}
Starting == {"init_signal", "init_get", "init_read"}
Rbps == {"none", "head", "tail"}
Accesses == {"none", "cfg", "read", "write", "data"}

HostT == [pc : HostPlaces, clock : 0 .. 1, out : [HostLines -> Msgs], in : [Lines -> Nat],
          cv : BOOLEAN, ret : [Returns -> 0 .. 1], req : BOOLEAN, avail : [HostLines -> Nat],
          ready : BOOLEAN, rbp : Rbps]
DrvT == [pc : {"low", "high"}, out : [Lines -> Nat], in : [HostLines -> Msgs],
         cv : BOOLEAN, ret : [Returns -> 0 .. 1], req : BOOLEAN, aret : [HostLines -> 0 .. 1],
         avail : [AfuLines -> Nat], offered : BOOLEAN, ready : BOOLEAN, rbp : Rbps,
         ackPending : BOOLEAN, clk : [DataLines -> 0 .. 2], top : [HostLines -> Nat],
         fifo : [DataLines -> Seq(Nat)], rdCnt : [DataLines -> Nat]]
AfuT == [known : BOOLEAN, cr : [AfuLines -> Nat], got : [HostLines -> Nat],
         owed : [HostLines -> Nat], asked : Nat, cfg : Nat, job : Nat, beats : Nat, rbeats : Nat,
         want : [DataLines -> Nat], line : [DataLines -> Nat]]
EngineT == [access : Accesses, left : Nat, todo : Nat, got : [Lines -> Nat],
            flits : [DataLines -> Nat], shorts : Nat]
HostPackets == [msg : [HostLines -> Msgs], cv : BOOLEAN, ret : [Returns -> 0 .. 1]]
DrvPackets == [msg : [Lines -> Nat], cv : BOOLEAN, ret : [HostLines -> 0 .. 1]]

\* A packet without the credit group brings no credits.
Grouped ==
  /\ \A i \in DOMAIN toDrv : toDrv[i].cv \/ toDrv[i].ret = None(Returns)
  /\ \A i \in DOMAIN toHost : toHost[i].cv \/ toHost[i].ret = None(HostLines)

Types ==
  /\ host \in HostT /\ drv \in DrvT /\ afu \in AfuT /\ engine \in EngineT
  /\ toDrv \in Seq(HostPackets) /\ toHost \in Seq(DrvPackets)
  /\ sent \in [HostLines -> Nat] /\ asent \in [Lines -> Nat]
  /\ link \in {"up", "closed", "garbled", "crashed"}

-----------------------------------------------------------------------------
(***************************************************************************)
(* The invariant.                                                          *)
(***************************************************************************)
\* What the packets of a socket bring on a line, oldest first.
IdsDown(l) == [i \in DOMAIN toDrv |-> toDrv[i].msg[l].id]
RetsDown(k) == [i \in DOMAIN toDrv |-> toDrv[i].ret[k]]
IdsUp(l) == [i \in DOMAIN toHost |-> toHost[i].msg[l]]
RetsUp(l) == [i \in DOMAIN toHost |-> toHost[i].ret[l]]

\* The events are empty when the next packet is decoded into them, and credit
\* bits are never left out of a packet.
Emptied ==
  /\ host.pc # "handle" => host.in = None(Lines)
  /\ host.pc \in {"init_get", "get"} => host.ret = None(Returns)
  /\ host.pc = "handle" => host.ret["resp"] = 0 /\ host.ret["rdata"] = 0
  /\ host.cv \/ host.ret = None(Returns)
  /\ drv.pc = "low" => drv.out = None(Lines) /\ drv.aret = None(HostLines)
  /\ drv.pc = "high" => drv.in = NoHostMsgs /\ drv.ret = None(Returns)
  /\ drv.req \/ drv.aret = None(HostLines)

\* Until ocse has the initial credits of the AFU it does nothing else, and the AFU has
\* not been told its own.
Booting ==
  /\ host.ready <=> host.pc \notin Starting
  /\ ~host.ready =>
       /\ engine.access = "none" /\ ~afu.known
       /\ Len(toDrv) + Bit(drv.cv) + Bit(drv.ready) = Bit(host.pc # "init_signal")
       /\ \A i \in DOMAIN toDrv : toDrv[i].cv
       /\ host.pc = "init_signal" => host.cv

\* Messages and credits under way to the AFU.
Downward(l) == Carries(<<drv.in[l].id>> \o IdsDown(l) \o <<host.out[l].id>>, afu.got[l], sent[l])

HostOut(l) ==
  Bit(host.out[l].id # 0) + NonZeros(IdsDown(l)) + Bit(drv.in[l].id # 0)
    + afu.owed[l] + drv.aret[l] + NonZeros(RetsUp(l))

HostCredit(l) == host.avail[l] + HostOut(l) = IF host.ready THEN AfuGrants[l] ELSE 0

\* Messages and credits under way to ocse.
Upward(l) == Carries(<<host.in[l]>> \o IdsUp(l) \o <<drv.out[l]>>, engine.got[l], asent[l])

AfuOut(l) ==
  Bit(drv.out[l] # 0) + NonZeros(IdsUp(l)) + Bit(l \in {"resp", "rdata"} /\ host.in[l] # 0)
    + host.ret[l] + NonZeros(RetsDown(l))

AfuCredit(l) ==
  /\ drv.avail[l] + AfuOut(l) = IF drv.ready THEN HostGrants[l] ELSE 0
  /\ IF afu.known THEN afu.cr[l] + drv.ret[l] = drv.avail[l]
     ELSE afu.cr[l] = 0 /\ drv.ret[l] = 0 /\ AfuOut(l) = 0

\* The AFU is told its credits after the driver has them.
Told == afu.known => drv.ready

\* The valid wires: one that is up has its counter at 1, and while one of those that
\* share a counter is up, ocse waits for the answer.
Wires ==
  /\ \A l \in HostLines : drv.top[l] # 0 => drv.clk[Clock(l)] = 1 /\ drv.top[l] = afu.got[l]
  /\ drv.top["cmd"] # 0 => afu.job # 0
  /\ drv.top["cfg"] # 0 => afu.asked # 0

\* Lines of data: those of the messages under way follow the ones in the fifo without
\* a gap.  Place 0 is the driver's event, the last one that of ocse.
DownAt(i, k) ==
  IF i = 0 THEN drv.in[k] ELSE IF i = Len(toDrv) + 1 THEN host.out[k] ELSE toDrv[i].msg[k]

Queued(k) == afu.line[k] + Len(drv.fifo[k])

DataUnderWay(k) ==
  LET Stops == 0 .. Len(toDrv) + 1 IN
  /\ \A i \in Stops : DownAt(i, k).id = 0 => DownAt(i, k).n = 0
  /\ \A i \in Stops : DownAt(i, k).n > 0 =>
       /\ Queued(k) < DownAt(i, k).first
       /\ DownAt(i, k).first + DownAt(i, k).n <= engine.flits[k] + 1
  /\ \A i, j \in Stops : i < j /\ DownAt(i, k).n > 0 /\ DownAt(j, k).n > 0 =>
       DownAt(i, k).first + DownAt(i, k).n <= DownAt(j, k).first
  /\ Queued(k) <= engine.flits[k]
  /\ \A x \in Queued(k) + 1 .. engine.flits[k] :
       \E i \in Stops : DownAt(i, k).first <= x /\ x < DownAt(i, k).first + DownAt(i, k).n

Fifo(k) ==
  /\ drv.fifo[k] = Upto(afu.line[k], Queued(k))
  /\ drv.rdCnt[k] + afu.want[k] = Len(drv.fifo[k])

\* The access to the AFU in hand: its command is under way, with the AFU, or its
\* response is under way; then the rest of the data of a read.
CmdAccess ==
  LET down == sent["cmd"] - afu.got["cmd"]
      resp == asent["resp"] - engine.got["resp"]
      data == asent["rdata"] - engine.got["rdata"]
  IN /\ down + Bit(afu.job # 0) + resp = Bit(engine.access \in {"read", "write"})
     /\ engine.access \in {"read", "data"} => engine.left > 0
     /\ data + afu.rbeats =
          IF engine.access = "data" \/ (engine.access = "read" /\ down = 0) THEN engine.left ELSE 0
     /\ engine.access = "read" /\ resp = 0 => data = 0

\* A command that is under way has data unless it is a read.
CmdData ==
  \A i \in 0 .. Len(toDrv) + 1 :
    DownAt(i, "cmd").id # 0 => (DownAt(i, "cmd").n = 0 <=> engine.access = "read")

\* A response comes no later than its data, and no sooner than the credit of its
\* command.
CmdReturned == afu.owed["cmd"] = 0 /\ drv.aret["cmd"] = 0

RespOrder ==
  /\ afu.owed["cmd"] <= 1
  /\ (afu.job = 0 /\ asent["resp"] = engine.got["resp"]) \/ host.in["resp"] # 0 =>
       CmdReturned /\ \A i \in DOMAIN toHost : toHost[i].ret["cmd"] = 0
  /\ \A j \in DOMAIN toHost : toHost[j].msg["resp"] # 0 =>
       /\ host.in["rdata"] = 0 /\ \A i \in 1 .. j - 1 : toHost[i].msg["rdata"] = 0
       /\ CmdReturned /\ \A i \in j + 1 .. Len(toHost) : toHost[i].ret["cmd"] = 0
  /\ drv.out["resp"] # 0 =>
       /\ afu.owed["cmd"] = 0
       /\ host.in["rdata"] = 0 /\ \A i \in DOMAIN toHost : toHost[i].msg["rdata"] = 0

\* A configuration access: its command is under way, with the AFU, held by it as a
\* response that the driver has not taken, or its response is under way; then the
\* acknowledgement is.
CfgAccess ==
  LET down == sent["cfg"] - afu.got["cfg"]
      up == asent["cfg"] - engine.got["cfg"]
  IN /\ sent["cfg"] = engine.got["cfg"] + Bit(engine.access = "cfg")
     /\ down + Bit(afu.asked # 0) + Bit(afu.cfg # 0 /\ ~drv.ackPending) + up = Bit(engine.access = "cfg")
     /\ afu.asked # 0 => afu.asked = sent["cfg"]
     /\ afu.cfg # 0 /\ ~drv.ackPending => afu.cfg = sent["cfg"]
     /\ up + host.ret["ack"] + NonZeros(RetsDown("ack")) + drv.ret["ack"]
          = Bit(afu.cfg # 0 /\ drv.ackPending)

\* The inductive invariant.
IInv ==
  /\ Types /\ Grouped /\ Emptied /\ Booting /\ Told
  /\ \A l \in HostLines : Downward(l) /\ HostCredit(l)
  /\ \A l \in Lines : Upward(l)
  /\ \A l \in AfuLines : AfuCredit(l)
  /\ Wires /\ \A k \in DataLines : DataUnderWay(k) /\ Fifo(k)
  /\ CmdAccess /\ CmdData /\ RespOrder /\ CfgAccess

-----------------------------------------------------------------------------
(***************************************************************************)
(* Lemmas about sequences: what a line carries between its two ends.       *)
(***************************************************************************)
\* The places of a line: its receiving end, the packets, its sending end.
LEMMA LineShape ==
  ASSUME NEW S, NEW x \in S, NEW q \in Seq(S), NEW y \in S
  PROVE  LET s == <<x>> \o q \o <<y>> IN
         /\ s \in Seq(S) /\ Len(s) = Len(q) + 2 /\ DOMAIN s = 1 .. Len(q) + 2
         /\ s[1] = x /\ s[Len(q) + 2] = y
         /\ \A i \in 2 .. Len(q) + 1 : s[i] = q[i - 1]
         /\ \A i \in 1 .. Len(q) : s[i + 1] = q[i]
<1>. DEFINE r == <<x>> \o q
            s == r \o <<y>>
<1>1. /\ r \in Seq(S) /\ Len(r) = Len(q) + 1 /\ Len(q) \in Nat
      /\ r[1] = x /\ \A i \in 2 .. Len(q) + 1 : r[i] = q[i - 1]
  BY ConsShape
<1>. HIDE DEF r
<1>2. /\ s \in Seq(S) /\ Len(s) = Len(r) + 1 /\ DOMAIN s = 1 .. Len(r) + 1 /\ s[Len(r) + 1] = y
      /\ \A i \in 1 .. Len(r) : s[i] = r[i]
  BY <1>1
<1>. HIDE DEF s
<1>3. s[1] = x /\ s[Len(q) + 2] = y /\ Len(s) = Len(q) + 2 /\ DOMAIN s = 1 .. Len(q) + 2 BY <1>1, <1>2
<1>4. \A i \in 2 .. Len(q) + 1 : s[i] = q[i - 1] BY <1>1, <1>2
<1>5. ASSUME NEW i \in 1 .. Len(q) PROVE s[i + 1] = q[i]
  <2>1. i + 1 \in 2 .. Len(q) + 1 /\ (i + 1) - 1 = i BY <1>1
  <2>. QED BY <2>1, <1>4
<1>. QED BY <1>2, <1>3, <1>4, <1>5 DEF s, r

\* What Carries says of the places.
Place(x, q, y, i) == IF i = 0 THEN x ELSE IF i = Len(q) + 1 THEN y ELSE q[i]

Along(x, q, y, a, b) ==
  LET P == 0 .. Len(q) + 1 IN
  /\ a <= b
  /\ \A i \in P : Place(x, q, y, i) # 0 => Place(x, q, y, i) \in (a + 1) .. b
  /\ \A v \in (a + 1) .. b : \E i \in P : Place(x, q, y, i) = v
  /\ \A i, j \in P : i < j /\ Place(x, q, y, i) # 0 /\ Place(x, q, y, j) # 0 =>
       Place(x, q, y, i) < Place(x, q, y, j)

\* Carries, place by place.
LEMMA CarriesAlong ==
  ASSUME NEW x \in Nat, NEW q \in Seq(Nat), NEW y \in Nat, NEW a \in Nat, NEW b \in Nat
  PROVE  Carries(<<x>> \o q \o <<y>>, a, b) <=> Along(x, q, y, a, b)
<1>. DEFINE s == <<x>> \o q \o <<y>>
            P == 0 .. Len(q) + 1
            p(i) == Place(x, q, y, i)
<1>1. /\ DOMAIN s = 1 .. Len(q) + 2 /\ Len(q) \in Nat
      /\ s[1] = x /\ s[Len(q) + 2] = y /\ \A i \in 2 .. Len(q) + 1 : s[i] = q[i - 1]
  BY LineShape
<1>2. \A i \in P : i + 1 \in DOMAIN s /\ s[i + 1] = p(i) /\ p(i) \in Nat
  <2>. SUFFICES ASSUME NEW i \in P PROVE i + 1 \in DOMAIN s /\ s[i + 1] = p(i) /\ p(i) \in Nat OBVIOUS
  <2>1. CASE i = 0 BY <2>1, <1>1 DEF Place
  <2>2. CASE i = Len(q) + 1 BY <2>2, <1>1 DEF Place
  <2>3. CASE i \in 1 .. Len(q)
    <3>1. i + 1 \in 2 .. Len(q) + 1 /\ (i + 1) - 1 = i /\ i # 0 /\ i # Len(q) + 1 BY <2>3, <1>1
    <3>2. q[i] \in Nat BY <2>3
    <3>. QED BY <3>1, <3>2, <1>1 DEF Place
  <2>. QED BY <2>1, <2>2, <2>3, <1>1
<1>3. \A i \in DOMAIN s : i - 1 \in P /\ s[i] = p(i - 1)
  <2>. SUFFICES ASSUME NEW i \in DOMAIN s PROVE i - 1 \in P /\ s[i] = p(i - 1) OBVIOUS
  <2>1. i - 1 \in P /\ (i - 1) + 1 = i BY <1>1
  <2>. QED BY <2>1, <1>2
<1>. HIDE DEF s, p
<1>4. ToSet(s) = {s[i] : i \in DOMAIN s} BY DEF ToSet
<1>5. ToSet(s) \ {0} = (a + 1) .. b <=>
        /\ \A i \in P : p(i) # 0 => p(i) \in (a + 1) .. b
        /\ \A v \in (a + 1) .. b : \E i \in P : p(i) = v
  <2>1. ToSet(s) = {p(i) : i \in P}
    <3>1. ASSUME NEW i \in DOMAIN s PROVE s[i] \in {p(j) : j \in P} BY <1>3
    <3>2. ASSUME NEW i \in P PROVE p(i) \in {s[j] : j \in DOMAIN s} BY <1>2
    <3>. QED BY <3>1, <3>2, <1>4
  <2>2. 0 \notin (a + 1) .. b OBVIOUS
  <2>. HIDE DEF P
  <2>. QED BY <2>1, <2>2
<1>6. (\A i, j \in DOMAIN s : i < j /\ s[i] # 0 /\ s[j] # 0 => s[i] < s[j]) <=>
        \A i, j \in P : i < j /\ p(i) # 0 /\ p(j) # 0 => p(i) < p(j)
  <2>1. ASSUME \A i, j \in DOMAIN s : i < j /\ s[i] # 0 /\ s[j] # 0 => s[i] < s[j],
               NEW i \in P, NEW j \in P, i < j, p(i) # 0, p(j) # 0
        PROVE  p(i) < p(j)
    <3>1. i + 1 \in DOMAIN s /\ j + 1 \in DOMAIN s /\ i + 1 < j + 1 BY <2>1, <1>2, <1>1
    <3>. QED BY <3>1, <2>1, <1>2
  <2>2. ASSUME \A i, j \in P : i < j /\ p(i) # 0 /\ p(j) # 0 => p(i) < p(j),
               NEW i \in DOMAIN s, NEW j \in DOMAIN s, i < j, s[i] # 0, s[j] # 0
        PROVE  s[i] < s[j]
    <3>1. i - 1 \in P /\ j - 1 \in P /\ i - 1 < j - 1 BY <2>2, <1>3, <1>1
    <3>. QED BY <3>1, <2>2, <1>3
  <2>. QED BY <2>1, <2>2
<1>. QED BY <1>5, <1>6 DEF Carries, Along, s, p

\* A packet takes what is at the sending end.
LEMMA AlongPacket ==
  ASSUME NEW x \in Nat, NEW q \in Seq(Nat), NEW y \in Nat, NEW a \in Nat, NEW b \in Nat,
         Along(x, q, y, a, b)
  PROVE  Along(x, Append(q, y), 0, a, b)
<1>. DEFINE P == 0 .. Len(q) + 1
            R == 0 .. Len(q) + 2
            p(i) == Place(x, q, y, i)
            r(i) == Place(x, Append(q, y), 0, i)
<1>1. Len(q) \in Nat /\ Len(Append(q, y)) = Len(q) + 1 OBVIOUS
<1>2. \A i \in P : i \in R /\ r(i) = p(i)
  <2>. SUFFICES ASSUME NEW i \in P PROVE i \in R /\ r(i) = p(i) OBVIOUS
  <2>1. CASE i = 0 BY <2>1, <1>1 DEF Place
  <2>2. CASE i \in 1 .. Len(q) BY <2>2, <1>1 DEF Place
  <2>3. CASE i = Len(q) + 1 BY <2>3, <1>1 DEF Place
  <2>. QED BY <2>1, <2>2, <2>3, <1>1
<1>3. r(Len(q) + 2) = 0 /\ \A i \in R : i \in P \/ i = Len(q) + 2 BY <1>1 DEF Place
<1>. HIDE DEF p, r
<1>4. /\ a <= b
      /\ \A i \in P : p(i) # 0 => p(i) \in (a + 1) .. b
      /\ \A v \in (a + 1) .. b : \E i \in P : p(i) = v
      /\ \A i, j \in P : i < j /\ p(i) # 0 /\ p(j) # 0 => p(i) < p(j)
  BY DEF Along, p
<1>5. /\ \A i \in R : r(i) # 0 => r(i) \in (a + 1) .. b
      /\ \A v \in (a + 1) .. b : \E i \in R : r(i) = v
      /\ \A i, j \in R : i < j /\ r(i) # 0 /\ r(j) # 0 => r(i) < r(j)
  BY <1>2, <1>3, <1>4
<1>6. R = 0 .. Len(Append(q, y)) + 1 BY <1>1
<1>. QED BY <1>4, <1>5, <1>6 DEF Along, r

\* The receiving end, empty so far, takes the oldest packet.
LEMMA AlongDecode ==
  ASSUME NEW q \in Seq(Nat), NEW y \in Nat, NEW a \in Nat, NEW b \in Nat, q # <<>>,
         Along(0, q, y, a, b)
  PROVE  Along(Head(q), Tail(q), y, a, b)
<1>. DEFINE P == 0 .. Len(q) + 1
            R == 0 .. Len(q)
            p(i) == Place(0, q, y, i)
            r(i) == Place(Head(q), Tail(q), y, i)
<1>1. /\ Len(q) \in Nat \ {0} /\ Len(Tail(q)) = Len(q) - 1 /\ Head(q) = q[1]
      /\ \A i \in 1 .. Len(q) - 1 : Tail(q)[i] = q[i + 1]
  OBVIOUS
<1>2. \A i \in R : i + 1 \in P /\ r(i) = p(i + 1)
  <2>. SUFFICES ASSUME NEW i \in R PROVE i + 1 \in P /\ r(i) = p(i + 1) OBVIOUS
  <2>. DEFINE m == Len(q)
              t == Len(Tail(q))
  <2>a. m \in Nat \ {0} /\ t = m - 1 BY <1>1
  <2>0. m \in Nat \ {0} /\ Len(q) + 1 = m + 1 /\ Len(Tail(q)) + 1 = m
    <3>. HIDE DEF m, t
    <3>1. m \in Nat \ {0} /\ t + 1 = m BY <2>a
    <3>. QED BY <3>1 DEF m, t
  <2>1. CASE i = 0
    <3>1. r(0) = q[1] BY <1>1 DEF Place
    <3>2. 1 # 0 /\ 1 # m + 1 BY <2>0
    <3>3. p(1) = q[1] BY <3>2, <2>0 DEF Place
    <3>. QED BY <3>1, <3>3, <2>1, <1>1
  <2>2. CASE i \in 1 .. m - 1
    <3>0. P = 0 .. m + 1 OBVIOUS
    <3>1. i # 0 /\ i # m /\ i + 1 # 0 /\ i + 1 # m + 1 /\ i + 1 \in P
      <4>. HIDE DEF m, P, R
      <4>. QED BY <2>2, <2>a, <3>0
    <3>2. r(i) = Tail(q)[i] BY <3>1, <2>0 DEF Place
    <3>3. p(i + 1) = q[i + 1] BY <3>1, <2>0 DEF Place
    <3>. QED BY <3>1, <3>2, <3>3, <2>2, <1>1
  <2>3. CASE i = m
    <3>1. m # 0 /\ m + 1 # 0 /\ m + 1 \in P BY <2>0
    <3>2. r(m) = y
      <4>1. r(m) = IF m = 0 THEN Head(q) ELSE IF m = t + 1 THEN y ELSE Tail(q)[m] BY Zenon DEF Place
      <4>. HIDE DEF r
      <4>. QED BY <4>1, <3>1, <2>0
    <3>3. p(m + 1) = y BY <3>1, <2>0 DEF Place
    <3>. QED BY <3>1, <3>2, <3>3, <2>3
  <2>4. i \in 0 .. m OBVIOUS
  <2>5. i = 0 \/ i \in 1 .. m - 1 \/ i = m
    <3>. HIDE DEF m
    <3>. QED BY <2>4, <2>a
  <2>. HIDE DEF p, r, m, P
  <2>. QED BY <2>5, <2>1, <2>2, <2>3
<1>3. p(0) = 0 /\ \A i \in P : i = 0 \/ (i - 1 \in R /\ r(i - 1) = p(i))
  <2>1. \A i \in P : i = 0 \/ (i - 1 \in R /\ (i - 1) + 1 = i) BY <1>1
  <2>2. p(0) = 0 BY DEF Place
  <2>. HIDE DEF p, r
  <2>. QED BY <2>1, <2>2, <1>2
<1>. HIDE DEF p, r
<1>4. /\ a <= b
      /\ \A i \in P : p(i) # 0 => p(i) \in (a + 1) .. b
      /\ \A v \in (a + 1) .. b : \E i \in P : p(i) = v
      /\ \A i, j \in P : i < j /\ p(i) # 0 /\ p(j) # 0 => p(i) < p(j)
  BY DEF Along, p
<1>5. \A i \in R : r(i) # 0 => r(i) \in (a + 1) .. b BY <1>2, <1>4
<1>6. ASSUME NEW v \in (a + 1) .. b PROVE \E i \in R : r(i) = v
  <2>1. PICK i \in P : p(i) = v BY <1>4
  <2>2. i # 0 BY <2>1, <1>3
  <2>. QED BY <2>1, <2>2, <1>3
<1>7. ASSUME NEW i \in R, NEW j \in R, i < j, r(i) # 0, r(j) # 0 PROVE r(i) < r(j)
  <2>1. i + 1 < j + 1 BY <1>7
  <2>. QED BY <2>1, <1>2, <1>4, <1>7
<1>8. R = 0 .. Len(Tail(q)) + 1 BY <1>1
<1>. QED BY <1>4, <1>5, <1>6, <1>7, <1>8 DEF Along, r

\* A message is put into the sending end.
LEMMA AlongSend ==
  ASSUME NEW x \in Nat, NEW q \in Seq(Nat), NEW a \in Nat, NEW b \in Nat, Along(x, q, 0, a, b)
  PROVE  Along(x, q, b + 1, a, b + 1)
<1>. DEFINE n == Len(q) + 1
            P == 0 .. n
            p(i) == Place(x, q, 0, i)
            r(i) == Place(x, q, b + 1, i)
<1>1. n \in Nat /\ n # 0 /\ \A i \in P : i # n => r(i) = p(i) BY DEF Place
<1>2. r(n) = b + 1 /\ p(n) = 0 BY <1>1 DEF Place
<1>. HIDE DEF p, r
<1>4. /\ a <= b
      /\ \A i \in P : p(i) # 0 => p(i) \in (a + 1) .. b
      /\ \A v \in (a + 1) .. b : \E i \in P : p(i) = v
      /\ \A i, j \in P : i < j /\ p(i) # 0 /\ p(j) # 0 => p(i) < p(j)
  BY DEF Along, p
<1>. HIDE DEF n
<1>5. \A i \in P : r(i) # 0 => r(i) \in (a + 1) .. (b + 1) BY <1>1, <1>2, <1>4
<1>6. ASSUME NEW v \in (a + 1) .. (b + 1) PROVE \E i \in P : r(i) = v
  <2>1. CASE v = b + 1 BY <2>1, <1>1, <1>2
  <2>2. CASE v # b + 1
    <3>1. v \in (a + 1) .. b /\ v # 0 BY <2>2
    <3>2. PICK i \in P : p(i) = v BY <3>1, <1>4
    <3>. QED BY <3>1, <3>2, <1>1, <1>2
  <2>. QED BY <2>1, <2>2
<1>7. ASSUME NEW i \in P, NEW j \in P, i < j, r(i) # 0, r(j) # 0 PROVE r(i) < r(j)
  <2>1. i # n BY <1>7, <1>1
  <2>2. CASE j = n BY <2>1, <2>2, <1>1, <1>2, <1>4, <1>7
  <2>3. CASE j # n BY <2>1, <2>3, <1>1, <1>4, <1>7
  <2>. QED BY <2>2, <2>3
<1>. QED BY <1>4, <1>5, <1>6, <1>7 DEF Along, r, n

\* The receiving end gives its message away: it was the oldest one.
LEMMA AlongTake ==
  ASSUME NEW x \in Nat, NEW q \in Seq(Nat), NEW y \in Nat, NEW a \in Nat, NEW b \in Nat,
         Along(x, q, y, a, b), x # 0
  PROVE  x = a + 1 /\ a + 1 <= b /\ Along(0, q, y, a + 1, b)
<1>. DEFINE P == 0 .. Len(q) + 1
            p(i) == Place(x, q, y, i)
            r(i) == Place(0, q, y, i)
<1>1. Len(q) \in Nat /\ 0 \in P /\ p(0) = x /\ r(0) = 0 /\ \A i \in P : i # 0 => r(i) = p(i) BY DEF Place
<1>. HIDE DEF p, r
<1>4. /\ a <= b
      /\ \A i \in P : p(i) # 0 => p(i) \in (a + 1) .. b
      /\ \A v \in (a + 1) .. b : \E i \in P : p(i) = v
      /\ \A i, j \in P : i < j /\ p(i) # 0 /\ p(j) # 0 => p(i) < p(j)
  BY DEF Along, p
<1>5. x = a + 1 /\ a + 1 <= b
  <2>1. x \in (a + 1) .. b BY <1>1, <1>4
  <2>2. a + 1 \in (a + 1) .. b BY <2>1
  <2>3. PICK i \in P : p(i) = a + 1 BY <2>2, <1>4
  <2>4. CASE i = 0 BY <2>1, <2>3, <2>4, <1>1
  <2>5. CASE i # 0
    <3>1. 0 < i /\ p(0) # 0 /\ p(i) # 0 BY <2>3, <2>5, <1>1
    <3>2. p(0) < p(i) BY <3>1, <1>1, <1>4
    <3>. QED BY <2>1, <2>3, <3>2, <1>1
  <2>. QED BY <2>4, <2>5
<1>6. ASSUME NEW i \in P, r(i) # 0 PROVE r(i) \in (a + 2) .. b
  <2>1. i # 0 /\ r(i) = p(i) /\ 0 < i BY <1>1, <1>6
  <2>2. p(0) < p(i) BY <2>1, <1>1, <1>4, <1>6
  <2>3. p(i) \in (a + 1) .. b BY <2>1, <1>4, <1>6
  <2>. QED BY <2>1, <2>2, <2>3, <1>1, <1>5
<1>7. ASSUME NEW v \in (a + 2) .. b PROVE \E i \in P : r(i) = v
  <2>1. v \in (a + 1) .. b BY <1>7
  <2>2. PICK i \in P : p(i) = v BY <2>1, <1>4
  <2>3. i # 0 BY <2>2, <1>1, <1>5
  <2>. QED BY <2>2, <2>3, <1>1
<1>8. \A i, j \in P : i < j /\ r(i) # 0 /\ r(j) # 0 => r(i) < r(j) BY <1>1, <1>4
<1>9. (a + 1) + 1 = a + 2 OBVIOUS
<1>. QED BY <1>5, <1>6, <1>7, <1>8, <1>9 DEF Along, r

\* Nothing is under way on a line whose numbers agree, and else something is.
LEMMA AlongEmpty ==
  ASSUME NEW x \in Nat, NEW q \in Seq(Nat), NEW y \in Nat, NEW a \in Nat, NEW b \in Nat,
         Along(x, q, y, a, b)
  PROVE  /\ a <= b
         /\ a = b => x = 0 /\ y = 0 /\ \A i \in DOMAIN q : q[i] = 0
         /\ a # b => x # 0 \/ y # 0 \/ \E i \in DOMAIN q : q[i] # 0
<1>. DEFINE P == 0 .. Len(q) + 1
            p(i) == Place(x, q, y, i)
<1>1. /\ Len(q) \in Nat /\ 0 \in P /\ p(0) = x /\ Len(q) + 1 \in P /\ p(Len(q) + 1) = y
      /\ DOMAIN q = 1 .. Len(q) /\ \A i \in DOMAIN q : i \in P /\ p(i) = q[i]
  BY DEF Place
<1>2. \A i \in P : i = 0 \/ i = Len(q) + 1 \/ i \in DOMAIN q BY <1>1
<1>. HIDE DEF p
<1>3. /\ a <= b
      /\ \A i \in P : p(i) # 0 => p(i) \in (a + 1) .. b
      /\ \A v \in (a + 1) .. b : \E i \in P : p(i) = v
  BY DEF Along, p
<1>4. a = b => \A i \in P : p(i) = 0 BY <1>3
<1>5. ASSUME a # b PROVE \E i \in P : p(i) # 0
  <2>1. a + 1 \in (a + 1) .. b /\ a + 1 # 0 BY <1>3, <1>5
  <2>. QED BY <2>1, <1>3
<1>6. a = b => x = 0 /\ y = 0 /\ \A i \in DOMAIN q : q[i] = 0 BY <1>1, <1>4
<1>7. a # b => x # 0 \/ y # 0 \/ \E i \in DOMAIN q : q[i] # 0 BY <1>1, <1>2, <1>5
<1>. QED BY <1>3, <1>6, <1>7

-----------------------------------------------------------------------------
(***************************************************************************)
(* Lemmas about sequences: how many places of a line are taken.            *)
(***************************************************************************)
\* The number of places is a natural number, 0 when all of them are free.
LEMMA NonZerosNat ==
  ASSUME NEW s \in Seq(Nat)
  PROVE  /\ NonZeros(s) \in Nat
         /\ NonZeros(s) = 0 <=> \A i \in DOMAIN s : s[i] = 0
         /\ IsFiniteSet({i \in DOMAIN s : s[i] # 0})
<1>. DEFINE T == {i \in DOMAIN s : s[i] # 0}
<1>1. IsFiniteSet(1 .. Len(s)) BY FS_Interval
<1>2. T \in SUBSET (1 .. Len(s)) OBVIOUS
<1>3. IsFiniteSet(T) BY <1>1, <1>2, FS_Subset
<1>4. T = {} <=> \A i \in DOMAIN s : s[i] = 0 OBVIOUS
<1>. HIDE DEF T
<1>5. Cardinality(T) \in Nat /\ (Cardinality(T) = 0 <=> T = {}) BY <1>3, FS_CardinalityType, FS_EmptySet
<1>. QED BY <1>3, <1>4, <1>5 DEF NonZeros, T

\* A packet more.
LEMMA NonZerosAppend ==
  ASSUME NEW s \in Seq(Nat), NEW x \in Nat
  PROVE  NonZeros(Append(s, x)) = NonZeros(s) + Bit(x # 0)
<1>. DEFINE T == {i \in DOMAIN s : s[i] # 0}
            U == {i \in DOMAIN Append(s, x) : Append(s, x)[i] # 0}
            m == Len(s) + 1
<1>1. IsFiniteSet(T) BY NonZerosNat
<1>2. m \notin T OBVIOUS
<1>3. CASE x = 0
  <2>1. U = T BY <1>3
  <2>2. NonZeros(s) \in Nat /\ NonZeros(Append(s, x)) = NonZeros(s) BY <2>1, NonZerosNat DEF NonZeros
  <2>. QED BY <2>2, <1>3 DEF Bit
<1>4. CASE x # 0
  <2>1. U = T \cup {m} BY <1>4
  <2>. HIDE DEF T, U, m
  <2>2. Cardinality(T \cup {m}) = Cardinality(T) + 1 BY <1>1, <1>2, FS_AddElement
  <2>3. Cardinality(U) = Cardinality(T) + 1 BY <2>1, <2>2
  <2>. QED BY <2>3, <1>4 DEF NonZeros, Bit, T, U
<1>. QED BY <1>3, <1>4

\* The oldest packet taken away.
LEMMA NonZerosTail ==
  ASSUME NEW s \in Seq(Nat), s # <<>>
  PROVE  NonZeros(s) = Bit(Head(s) # 0) + NonZeros(Tail(s))
<1>. DEFINE T == {i \in DOMAIN s : s[i] # 0}
            U == {i \in DOMAIN Tail(s) : Tail(s)[i] # 0}
            m == Len(s)
            f == [i \in U |-> i + 1]
<1>1. /\ m \in Nat \ {0} /\ DOMAIN s = 1 .. m /\ DOMAIN Tail(s) = 1 .. m - 1 /\ Head(s) = s[1]
      /\ \A i \in 1 .. m - 1 : Tail(s)[i] = s[i + 1]
      /\ Tail(s) \in Seq(Nat)
  OBVIOUS
<1>2. IsFiniteSet(U) /\ NonZeros(Tail(s)) = Cardinality(U) /\ Cardinality(U) \in Nat
  BY <1>1, NonZerosNat DEF NonZeros
<1>3. IsFiniteSet(T) /\ NonZeros(s) = Cardinality(T) /\ Cardinality(T) \in Nat
  BY NonZerosNat DEF NonZeros
<1>4. U \subseteq 1 .. m - 1 /\ (\A i \in 1 .. m - 1 : i \in U <=> i + 1 \in T)
      /\ T \subseteq 1 .. m
  BY <1>1
<1>5. 1 \in T <=> Head(s) # 0 BY <1>1
<1>. HIDE DEF T, U, m
<1>6. f \in Bijection(U, T \ {1})
  <2>1. \A i \in U : i + 1 \in T \ {1} BY <1>1, <1>4
  <2>2. f \in Injection(U, T \ {1})
    <3>1. f \in [U -> T \ {1}] BY <2>1
    <3>2. IsInjective(f) BY <1>1, <1>4 DEF IsInjective
    <3>. QED BY <3>1, <3>2 DEF Injection
  <2>3. ASSUME NEW j \in T \ {1} PROVE \E i \in U : f[i] = j
    <3>1. j - 1 \in 1 .. m - 1 /\ (j - 1) + 1 = j BY <2>3, <1>4, <1>1
    <3>2. j - 1 \in U BY <3>1, <1>4
    <3>. QED BY <3>1, <3>2
  <2>4. f \in Surjection(U, T \ {1}) BY <2>1, <2>3 DEF Surjection
  <2>. QED BY <2>2, <2>4 DEF Bijection
<1>7. Cardinality(T \ {1}) = Cardinality(U)
  BY <1>2, <1>6, FS_Bijection DEF ExistsBijection
<1>8. Cardinality(T \ {1}) = IF 1 \in T THEN Cardinality(T) - 1 ELSE Cardinality(T)
  BY <1>3, FS_RemoveElement
<1>. QED BY <1>2, <1>3, <1>5, <1>7, <1>8 DEF Bit

-----------------------------------------------------------------------------
(***************************************************************************)
(* What a packet more or less does to what the socket brings on a line.    *)
(***************************************************************************)
\* A sequence with one element more, and one with its first element taken away.
LEMMA AppendIs ==
  ASSUME NEW s \in Seq(Nat), NEW x \in Nat, NEW r \in Seq(Nat), Len(r) = Len(s) + 1,
         \A i \in 1 .. Len(s) : r[i] = s[i], r[Len(s) + 1] = x
  PROVE  r = Append(s, x)
<1>1. /\ Append(s, x) \in Seq(Nat) /\ Len(Append(s, x)) = Len(s) + 1 /\ Append(s, x)[Len(s) + 1] = x
      /\ \A i \in 1 .. Len(s) : Append(s, x)[i] = s[i]
  OBVIOUS
<1>2. ASSUME NEW i \in 1 .. Len(r) PROVE r[i] = Append(s, x)[i] BY <1>1
<1>. QED BY <1>1, <1>2, SeqEqual

\* The tail of a sequence, place by place.
LEMMA TailIs ==
  ASSUME NEW s \in Seq(Nat), NEW m \in Nat \ {0}, Len(s) = m, NEW r \in Seq(Nat), Len(r) = m - 1,
         \A i \in 1 .. m - 1 : r[i] = s[i + 1]
  PROVE  s # <<>> /\ Head(s) = s[1] /\ r = Tail(s)
<1>1. s # <<>> /\ Head(s) = s[1] OBVIOUS
<1>2. Tail(s) \in Seq(Nat) /\ Len(Tail(s)) = m - 1 /\ \A i \in 1 .. Len(Tail(s)) : Tail(s)[i] = s[i + 1]
  BY <1>1, HeadTailProperties
<1>3. \A i \in 1 .. Len(r) : r[i] = Tail(s)[i] BY <1>2
<1>4. r = Tail(s) BY <1>2, <1>3, SeqEqual
<1>. QED BY <1>1, <1>4

\* A function on 1 .. n is a sequence.
LEMMA FunctionIsSeq == ASSUME NEW n \in Nat, NEW f \in [1 .. n -> Nat] PROVE f \in Seq(Nat) /\ Len(f) = n
OBVIOUS

\* What a packet has on each line.
LEMMA PacketFields ==
  /\ \A p \in HostPackets : \A l \in HostLines : p.msg[l] \in Msgs /\ p.msg[l].id \in Nat
  /\ \A p \in HostPackets : \A l \in Returns : p.ret[l] \in 0 .. 1 /\ p.ret[l] \in Nat
  /\ \A p \in DrvPackets : \A l \in Lines : p.msg[l] \in Nat
  /\ \A p \in DrvPackets : \A l \in HostLines : p.ret[l] \in 0 .. 1 /\ p.ret[l] \in Nat
<1>1. ASSUME NEW p \in HostPackets, NEW l \in HostLines PROVE p.msg[l] \in Msgs /\ p.msg[l].id \in Nat
  <2>1. p.msg \in [HostLines -> Msgs] BY DEF HostPackets
  <2>. QED BY <2>1 DEF Msgs
<1>2. ASSUME NEW p \in HostPackets, NEW l \in Returns PROVE p.ret[l] \in 0 .. 1 /\ p.ret[l] \in Nat
  <2>1. p.ret \in [Returns -> 0 .. 1] BY DEF HostPackets
  <2>. QED BY <2>1
<1>3. ASSUME NEW p \in DrvPackets, NEW l \in Lines PROVE p.msg[l] \in Nat
  <2>1. p.msg \in [Lines -> Nat] BY DEF DrvPackets
  <2>. QED BY <2>1
<1>4. ASSUME NEW p \in DrvPackets, NEW l \in HostLines PROVE p.ret[l] \in 0 .. 1 /\ p.ret[l] \in Nat
  <2>1. p.ret \in [HostLines -> 0 .. 1] BY DEF DrvPackets
  <2>. QED BY <2>1
<1>. QED BY <1>1, <1>2, <1>3, <1>4

\* Each line has a place in each packet.
LEMMA LineTypes ==
  ASSUME Types
  PROVE  /\ \A l \in HostLines : IdsDown(l) \in Seq(Nat) /\ Len(IdsDown(l)) = Len(toDrv)
                                  /\ DOMAIN IdsDown(l) = DOMAIN toDrv
         /\ \A k \in Returns : RetsDown(k) \in Seq(Nat) /\ Len(RetsDown(k)) = Len(toDrv)
                                /\ DOMAIN RetsDown(k) = DOMAIN toDrv
         /\ \A l \in Lines : IdsUp(l) \in Seq(Nat) /\ Len(IdsUp(l)) = Len(toHost)
                              /\ DOMAIN IdsUp(l) = DOMAIN toHost
         /\ \A l \in HostLines : RetsUp(l) \in Seq(Nat) /\ Len(RetsUp(l)) = Len(toHost)
                                  /\ DOMAIN RetsUp(l) = DOMAIN toHost
<1>1. toDrv \in Seq(HostPackets) /\ toHost \in Seq(DrvPackets) BY DEF Types
<1>2. \A i \in 1 .. Len(toDrv) : \A l \in HostLines : toDrv[i].msg[l].id \in Nat
  <2>1. \A i \in 1 .. Len(toDrv) : toDrv[i] \in HostPackets BY <1>1
  <2>. QED BY <2>1 DEF HostPackets, Msgs
<1>3. \A i \in 1 .. Len(toDrv) : \A k \in Returns : toDrv[i].ret[k] \in Nat
  <2>1. \A i \in 1 .. Len(toDrv) : toDrv[i] \in HostPackets BY <1>1
  <2>. QED BY <2>1 DEF HostPackets
<1>4. \A i \in 1 .. Len(toHost) : \A l \in Lines : toHost[i].msg[l] \in Nat
  <2>1. \A i \in 1 .. Len(toHost) : toHost[i] \in DrvPackets BY <1>1
  <2>. QED BY <2>1 DEF DrvPackets
<1>5. \A i \in 1 .. Len(toHost) : \A l \in HostLines : toHost[i].ret[l] \in Nat
  <2>1. \A i \in 1 .. Len(toHost) : toHost[i] \in DrvPackets BY <1>1
  <2>. QED BY <2>1 DEF DrvPackets
<1>6. DOMAIN toDrv = 1 .. Len(toDrv) /\ DOMAIN toHost = 1 .. Len(toHost)
      /\ Len(toDrv) \in Nat /\ Len(toHost) \in Nat BY <1>1
<1>7. ASSUME NEW l \in HostLines
      PROVE  IdsDown(l) \in Seq(Nat) /\ Len(IdsDown(l)) = Len(toDrv) /\ DOMAIN IdsDown(l) = DOMAIN toDrv
  BY <1>2, <1>6 DEF IdsDown
<1>8. ASSUME NEW l \in Returns
      PROVE  RetsDown(l) \in Seq(Nat) /\ Len(RetsDown(l)) = Len(toDrv) /\ DOMAIN RetsDown(l) = DOMAIN toDrv
  BY <1>3, <1>6 DEF RetsDown
<1>9. ASSUME NEW l \in Lines
      PROVE  IdsUp(l) \in Seq(Nat) /\ Len(IdsUp(l)) = Len(toHost) /\ DOMAIN IdsUp(l) = DOMAIN toHost
  BY <1>4, <1>6 DEF IdsUp
<1>10. ASSUME NEW l \in HostLines
       PROVE  RetsUp(l) \in Seq(Nat) /\ Len(RetsUp(l)) = Len(toHost) /\ DOMAIN RetsUp(l) = DOMAIN toHost
  BY <1>5, <1>6 DEF RetsUp
<1>. QED BY <1>7, <1>8, <1>9, <1>10

\* A packet of ocse more.
LEMMA DownAppend ==
  ASSUME Types, NEW p \in HostPackets, toDrv' = Append(toDrv, p)
  PROVE  /\ \A l \in HostLines : IdsDown(l)' = Append(IdsDown(l), p.msg[l].id)
         /\ \A l \in Returns : RetsDown(l)' = Append(RetsDown(l), p.ret[l])
<1>1. toDrv \in Seq(HostPackets) BY DEF Types
<1>2. /\ Len(toDrv) \in Nat /\ DOMAIN toDrv = 1 .. Len(toDrv) /\ DOMAIN toDrv' = 1 .. Len(toDrv) + 1
      /\ toDrv'[Len(toDrv) + 1] = p /\ \A i \in 1 .. Len(toDrv) : toDrv'[i] = toDrv[i]
      /\ \A i \in 1 .. Len(toDrv) : toDrv[i] \in HostPackets
  BY <1>1
<1>3. ASSUME NEW l \in HostLines PROVE IdsDown(l)' = Append(IdsDown(l), p.msg[l].id)
  <2>. DEFINE s == IdsDown(l)
              m == Len(toDrv)
              r == [i \in 1 .. m + 1 |-> toDrv'[i].msg[l].id]
  <2>1. s \in Seq(Nat) /\ Len(s) = m BY LineTypes
  <2>2. s = [i \in 1 .. m |-> toDrv[i].msg[l].id] /\ IdsDown(l)' = r BY <1>2 DEF IdsDown
  <2>3. \A q \in HostPackets : q.msg[l].id \in Nat BY PacketFields
  <2>4. r \in Seq(Nat) /\ Len(r) = m + 1 BY <1>2, <2>3
  <2>5. r[m + 1] = p.msg[l].id /\ \A i \in 1 .. m : r[i] = s[i] BY <1>2, <2>2
  <2>. HIDE DEF s, m, r
  <2>6. r = Append(s, p.msg[l].id) BY <2>1, <2>3, <2>4, <2>5, AppendIs
  <2>. QED BY <2>2, <2>6 DEF s
<1>4. ASSUME NEW l \in Returns PROVE RetsDown(l)' = Append(RetsDown(l), p.ret[l])
  <2>. DEFINE s == RetsDown(l)
              m == Len(toDrv)
              r == [i \in 1 .. m + 1 |-> toDrv'[i].ret[l]]
  <2>1. s \in Seq(Nat) /\ Len(s) = m BY LineTypes
  <2>2. s = [i \in 1 .. m |-> toDrv[i].ret[l]] /\ RetsDown(l)' = r BY <1>2 DEF RetsDown
  <2>3. \A q \in HostPackets : q.ret[l] \in Nat BY PacketFields
  <2>4. r \in Seq(Nat) /\ Len(r) = m + 1 BY <1>2, <2>3
  <2>5. r[m + 1] = p.ret[l] /\ \A i \in 1 .. m : r[i] = s[i] BY <1>2, <2>2
  <2>. HIDE DEF s, m, r
  <2>6. r = Append(s, p.ret[l]) BY <2>1, <2>3, <2>4, <2>5, AppendIs
  <2>. QED BY <2>2, <2>6 DEF s
<1>. QED BY <1>3, <1>4

\* A packet of the driver more.
LEMMA UpAppend ==
  ASSUME Types, NEW p \in DrvPackets, toHost' = Append(toHost, p)
  PROVE  /\ \A l \in Lines : IdsUp(l)' = Append(IdsUp(l), p.msg[l])
         /\ \A l \in HostLines : RetsUp(l)' = Append(RetsUp(l), p.ret[l])
<1>1. toHost \in Seq(DrvPackets) BY DEF Types
<1>2. /\ Len(toHost) \in Nat /\ DOMAIN toHost = 1 .. Len(toHost) /\ DOMAIN toHost' = 1 .. Len(toHost) + 1
      /\ toHost'[Len(toHost) + 1] = p /\ \A i \in 1 .. Len(toHost) : toHost'[i] = toHost[i]
      /\ \A i \in 1 .. Len(toHost) : toHost[i] \in DrvPackets
  BY <1>1
<1>3. ASSUME NEW l \in Lines PROVE IdsUp(l)' = Append(IdsUp(l), p.msg[l])
  <2>. DEFINE s == IdsUp(l)
              m == Len(toHost)
              r == [i \in 1 .. m + 1 |-> toHost'[i].msg[l]]
  <2>1. s \in Seq(Nat) /\ Len(s) = m BY LineTypes
  <2>2. s = [i \in 1 .. m |-> toHost[i].msg[l]] /\ IdsUp(l)' = r BY <1>2 DEF IdsUp
  <2>3. \A q \in DrvPackets : q.msg[l] \in Nat BY PacketFields
  <2>4. r \in Seq(Nat) /\ Len(r) = m + 1 BY <1>2, <2>3
  <2>5. r[m + 1] = p.msg[l] /\ \A i \in 1 .. m : r[i] = s[i] BY <1>2, <2>2
  <2>. HIDE DEF s, m, r
  <2>6. r = Append(s, p.msg[l]) BY <2>1, <2>3, <2>4, <2>5, AppendIs
  <2>. QED BY <2>2, <2>6 DEF s
<1>4. ASSUME NEW l \in HostLines PROVE RetsUp(l)' = Append(RetsUp(l), p.ret[l])
  <2>. DEFINE s == RetsUp(l)
              m == Len(toHost)
              r == [i \in 1 .. m + 1 |-> toHost'[i].ret[l]]
  <2>1. s \in Seq(Nat) /\ Len(s) = m BY LineTypes
  <2>2. s = [i \in 1 .. m |-> toHost[i].ret[l]] /\ RetsUp(l)' = r BY <1>2 DEF RetsUp
  <2>3. \A q \in DrvPackets : q.ret[l] \in Nat BY PacketFields
  <2>4. r \in Seq(Nat) /\ Len(r) = m + 1 BY <1>2, <2>3
  <2>5. r[m + 1] = p.ret[l] /\ \A i \in 1 .. m : r[i] = s[i] BY <1>2, <2>2
  <2>. HIDE DEF s, m, r
  <2>6. r = Append(s, p.ret[l]) BY <2>1, <2>3, <2>4, <2>5, AppendIs
  <2>. QED BY <2>2, <2>6 DEF s
<1>. QED BY <1>3, <1>4

\* The oldest packet of ocse taken away.
LEMMA DownTail ==
  ASSUME Types, toDrv # <<>>, toDrv' = Tail(toDrv)
  PROVE  /\ Head(toDrv) \in HostPackets
         /\ \A l \in HostLines : IdsDown(l) # <<>> /\ Head(IdsDown(l)) = Head(toDrv).msg[l].id /\ IdsDown(l)' = Tail(IdsDown(l))
         /\ \A l \in Returns : RetsDown(l) # <<>> /\ Head(RetsDown(l)) = Head(toDrv).ret[l] /\ RetsDown(l)' = Tail(RetsDown(l))
<1>1. toDrv \in Seq(HostPackets) BY DEF Types
<1>. DEFINE m == Len(toDrv)
<1>2. /\ m \in Nat \ {0} /\ DOMAIN toDrv = 1 .. m /\ DOMAIN toDrv' = 1 .. m - 1
      /\ Head(toDrv) = toDrv[1]
      /\ \A i \in 1 .. m - 1 : toDrv'[i] = toDrv[i + 1]
      /\ \A i \in 1 .. m : toDrv[i] \in HostPackets
  BY <1>1
<1>3. ASSUME NEW l \in HostLines
      PROVE  IdsDown(l) # <<>> /\ Head(IdsDown(l)) = Head(toDrv).msg[l].id /\ IdsDown(l)' = Tail(IdsDown(l))
  <2>. DEFINE s == IdsDown(l)
              r == [i \in 1 .. m - 1 |-> toDrv'[i].msg[l].id]
  <2>1. s \in Seq(Nat) /\ Len(s) = m BY LineTypes
  <2>2. s = [i \in 1 .. m |-> toDrv[i].msg[l].id] /\ IdsDown(l)' = r BY <1>2 DEF IdsDown
  <2>3. \A q \in HostPackets : q.msg[l].id \in Nat BY PacketFields
  <2>. HIDE DEF s, m
  <2>4. r \in Seq(Nat) /\ Len(r) = m - 1
    <3>. DEFINE n == m - 1
    <3>1. n \in Nat /\ \A i \in 1 .. n : toDrv'[i].msg[l].id \in Nat BY <1>2, <2>3
    <3>. HIDE DEF n
    <3>2. [i \in 1 .. n |-> toDrv'[i].msg[l].id] \in [1 .. n -> Nat] BY <3>1
    <3>. QED BY <3>1, <3>2, FunctionIsSeq DEF n
  <2>5. s[1] = toDrv[1].msg[l].id /\ \A i \in 1 .. m - 1 : r[i] = s[i + 1] BY <1>2, <2>2
  <2>. HIDE DEF r
  <2>6. s # <<>> /\ Head(s) = s[1] /\ r = Tail(s) BY <2>1, <2>4, <2>5, <1>2, TailIs
  <2>. QED BY <2>2, <2>5, <2>6, <1>2 DEF s
<1>4. ASSUME NEW l \in Returns
      PROVE  RetsDown(l) # <<>> /\ Head(RetsDown(l)) = Head(toDrv).ret[l] /\ RetsDown(l)' = Tail(RetsDown(l))
  <2>. DEFINE s == RetsDown(l)
              r == [i \in 1 .. m - 1 |-> toDrv'[i].ret[l]]
  <2>1. s \in Seq(Nat) /\ Len(s) = m BY LineTypes
  <2>2. s = [i \in 1 .. m |-> toDrv[i].ret[l]] /\ RetsDown(l)' = r BY <1>2 DEF RetsDown
  <2>3. \A q \in HostPackets : q.ret[l] \in Nat BY PacketFields
  <2>. HIDE DEF s, m
  <2>4. r \in Seq(Nat) /\ Len(r) = m - 1
    <3>. DEFINE n == m - 1
    <3>1. n \in Nat /\ \A i \in 1 .. n : toDrv'[i].ret[l] \in Nat BY <1>2, <2>3
    <3>. HIDE DEF n
    <3>2. [i \in 1 .. n |-> toDrv'[i].ret[l]] \in [1 .. n -> Nat] BY <3>1
    <3>. QED BY <3>1, <3>2, FunctionIsSeq DEF n
  <2>5. s[1] = toDrv[1].ret[l] /\ \A i \in 1 .. m - 1 : r[i] = s[i + 1] BY <1>2, <2>2
  <2>. HIDE DEF r
  <2>6. s # <<>> /\ Head(s) = s[1] /\ r = Tail(s) BY <2>1, <2>4, <2>5, <1>2, TailIs
  <2>. QED BY <2>2, <2>5, <2>6, <1>2 DEF s
<1>5. Head(toDrv) \in HostPackets BY <1>2
<1>. QED BY <1>3, <1>4, <1>5

\* The oldest packet of the driver taken away.
LEMMA UpTail ==
  ASSUME Types, toHost # <<>>, toHost' = Tail(toHost)
  PROVE  /\ Head(toHost) \in DrvPackets
         /\ \A l \in Lines : IdsUp(l) # <<>> /\ Head(IdsUp(l)) = Head(toHost).msg[l] /\ IdsUp(l)' = Tail(IdsUp(l))
         /\ \A l \in HostLines : RetsUp(l) # <<>> /\ Head(RetsUp(l)) = Head(toHost).ret[l] /\ RetsUp(l)' = Tail(RetsUp(l))
<1>1. toHost \in Seq(DrvPackets) BY DEF Types
<1>. DEFINE m == Len(toHost)
<1>2. /\ m \in Nat \ {0} /\ DOMAIN toHost = 1 .. m /\ DOMAIN toHost' = 1 .. m - 1
      /\ Head(toHost) = toHost[1]
      /\ \A i \in 1 .. m - 1 : toHost'[i] = toHost[i + 1]
      /\ \A i \in 1 .. m : toHost[i] \in DrvPackets
  BY <1>1
<1>3. ASSUME NEW l \in Lines
      PROVE  IdsUp(l) # <<>> /\ Head(IdsUp(l)) = Head(toHost).msg[l] /\ IdsUp(l)' = Tail(IdsUp(l))
  <2>. DEFINE s == IdsUp(l)
              r == [i \in 1 .. m - 1 |-> toHost'[i].msg[l]]
  <2>1. s \in Seq(Nat) /\ Len(s) = m BY LineTypes
  <2>2. s = [i \in 1 .. m |-> toHost[i].msg[l]] /\ IdsUp(l)' = r BY <1>2 DEF IdsUp
  <2>3. \A q \in DrvPackets : q.msg[l] \in Nat BY PacketFields
  <2>. HIDE DEF s, m
  <2>4. r \in Seq(Nat) /\ Len(r) = m - 1
    <3>. DEFINE n == m - 1
    <3>1. n \in Nat /\ \A i \in 1 .. n : toHost'[i].msg[l] \in Nat BY <1>2, <2>3
    <3>. HIDE DEF n
    <3>2. [i \in 1 .. n |-> toHost'[i].msg[l]] \in [1 .. n -> Nat] BY <3>1
    <3>. QED BY <3>1, <3>2, FunctionIsSeq DEF n
  <2>5. s[1] = toHost[1].msg[l] /\ \A i \in 1 .. m - 1 : r[i] = s[i + 1] BY <1>2, <2>2
  <2>. HIDE DEF r
  <2>6. s # <<>> /\ Head(s) = s[1] /\ r = Tail(s) BY <2>1, <2>4, <2>5, <1>2, TailIs
  <2>. QED BY <2>2, <2>5, <2>6, <1>2 DEF s
<1>4. ASSUME NEW l \in HostLines
      PROVE  RetsUp(l) # <<>> /\ Head(RetsUp(l)) = Head(toHost).ret[l] /\ RetsUp(l)' = Tail(RetsUp(l))
  <2>. DEFINE s == RetsUp(l)
              r == [i \in 1 .. m - 1 |-> toHost'[i].ret[l]]
  <2>1. s \in Seq(Nat) /\ Len(s) = m BY LineTypes
  <2>2. s = [i \in 1 .. m |-> toHost[i].ret[l]] /\ RetsUp(l)' = r BY <1>2 DEF RetsUp
  <2>3. \A q \in DrvPackets : q.ret[l] \in Nat BY PacketFields
  <2>. HIDE DEF s, m
  <2>4. r \in Seq(Nat) /\ Len(r) = m - 1
    <3>. DEFINE n == m - 1
    <3>1. n \in Nat /\ \A i \in 1 .. n : toHost'[i].ret[l] \in Nat BY <1>2, <2>3
    <3>. HIDE DEF n
    <3>2. [i \in 1 .. n |-> toHost'[i].ret[l]] \in [1 .. n -> Nat] BY <3>1
    <3>. QED BY <3>1, <3>2, FunctionIsSeq DEF n
  <2>5. s[1] = toHost[1].ret[l] /\ \A i \in 1 .. m - 1 : r[i] = s[i + 1] BY <1>2, <2>2
  <2>. HIDE DEF r
  <2>6. s # <<>> /\ Head(s) = s[1] /\ r = Tail(s) BY <2>1, <2>4, <2>5, <1>2, TailIs
  <2>. QED BY <2>2, <2>5, <2>6, <1>2 DEF s
<1>5. Head(toHost) \in DrvPackets BY <1>2
<1>. QED BY <1>3, <1>4, <1>5

-----------------------------------------------------------------------------
(***************************************************************************)
(* What the actions of ocse do, field by field.                            *)
(***************************************************************************)
\* The constant functions and messages have their types.
LEMMA NoneTypes ==
  /\ NoMsg \in Msgs /\ NoMsg.id = 0 /\ NoMsg.n = 0
  /\ NoHostMsgs \in [HostLines -> Msgs] /\ \A l \in HostLines : NoHostMsgs[l].id = 0 /\ NoHostMsgs[l].n = 0
  /\ None(Lines) \in [Lines -> Nat] /\ \A l \in Lines : None(Lines)[l] = 0
  /\ None(Returns) \in [Returns -> 0 .. 1] /\ \A l \in Returns : None(Returns)[l] = 0
  /\ None(HostLines) \in [HostLines -> 0 .. 1] /\ None(HostLines) \in [HostLines -> Nat]
  /\ \A l \in HostLines : None(HostLines)[l] = 0
<1>1. NoMsg \in Msgs /\ NoMsg.id = 0 /\ NoMsg.n = 0 BY LinkAssumption DEF NoMsg, Msgs
<1>2. NoHostMsgs \in [HostLines -> Msgs] /\ \A l \in HostLines : NoHostMsgs[l].id = 0 /\ NoHostMsgs[l].n = 0
  BY <1>1 DEF NoHostMsgs
<1>3. None(Lines) \in [Lines -> Nat] /\ \A l \in Lines : None(Lines)[l] = 0 BY DEF None
<1>4. None(Returns) \in [Returns -> 0 .. 1] /\ \A l \in Returns : None(Returns)[l] = 0 BY DEF None
<1>5. /\ None(HostLines) \in [HostLines -> 0 .. 1] /\ None(HostLines) \in [HostLines -> Nat]
      /\ \A l \in HostLines : None(HostLines)[l] = 0
  BY DEF None
<1>. QED BY <1>1, <1>2, <1>3, <1>4, <1>5

\* The fields of the event of ocse.
LEMMA HostFields ==
  ASSUME NEW h \in HostT
  PROVE  /\ h.pc \in HostPlaces /\ h.clock \in 0 .. 1 /\ h.out \in [HostLines -> Msgs]
         /\ h.in \in [Lines -> Nat] /\ h.cv \in BOOLEAN /\ h.ret \in [Returns -> 0 .. 1]
         /\ h.req \in BOOLEAN /\ h.avail \in [HostLines -> Nat] /\ h.ready \in BOOLEAN /\ h.rbp \in Rbps
BY DEF HostT

\* The packet of ocse has everything that is in the event.
LEMMA SignalFields ==
  ASSUME Types, Emptied, HostSignal
  PROVE  /\ host' \in HostT
         /\ host.pc \in {"init_signal", "signal"}
         /\ host'.pc = IF host.pc = "signal" THEN "get" ELSE "init_get"
         /\ host'.out = NoHostMsgs /\ host'.ret = None(Returns)
         /\ host'.in = host.in /\ host'.avail = host.avail /\ host'.ready = host.ready
         /\ \E p \in HostPackets : /\ toDrv' = Append(toDrv, p)
                                   /\ p.msg = host.out /\ p.ret = host.ret /\ p.cv = host.cv
                                   /\ p.cv \/ p.ret = None(Returns)
         /\ UNCHANGED <<drv, toHost, engine, afu, sent, asent, link>>
<1>. DEFINE p == HostPacket(host)
<1>1. host \in HostT BY DEF Types
<1>2. host.pc \in {"init_signal", "signal"} /\ toDrv' = Append(toDrv, p)
      /\ UNCHANGED <<drv, toHost, engine, afu, sent, asent, link>>
  BY DEF HostSignal
<1>3. host.cv \/ host.ret = None(Returns) BY DEF Emptied
<1>4. p.msg = host.out /\ p.cv = host.cv /\ p.ret = host.ret BY <1>1, <1>3, HostFields DEF HostPacket
<1>5. p \in HostPackets
  <2>1. p = [msg |-> host.out, cv |-> host.cv, ret |-> host.ret] BY <1>1, <1>3, HostFields DEF HostPacket
  <2>2. host.out \in [HostLines -> Msgs] /\ host.cv \in BOOLEAN /\ host.ret \in [Returns -> 0 .. 1]
    BY <1>1, HostFields
  <2>. HIDE DEF p
  <2>. QED BY <2>1, <2>2 DEF HostPackets
<1>. DEFINE r == IF host.cv THEN None(Returns) ELSE host.ret
            c == IF host.pc = "signal" THEN "get" ELSE "init_get"
<1>6. r = None(Returns) /\ c \in HostPlaces BY <1>3 DEF HostPlaces
<1>7. host' = [host EXCEPT !.clock = 1, !.out = NoHostMsgs, !.cv = FALSE, !.ret = r, !.pc = c]
  BY <1>1, HostFields DEF HostSignal, tlx_signal_afu_model, HostT
<1>. HIDE DEF p, r, c
<1>8. host' \in HostT
  <2>1. 1 \in 0 .. 1 /\ NoHostMsgs \in [HostLines -> Msgs] /\ r \in [Returns -> 0 .. 1] BY <1>6, NoneTypes
  <2>. QED BY <1>1, <1>6, <1>7, <2>1 DEF HostT
<1>9. /\ host'.pc = c /\ host'.out = NoHostMsgs /\ host'.ret = None(Returns)
      /\ host'.in = host.in /\ host'.avail = host.avail /\ host'.ready = host.ready
  BY <1>1, <1>6, <1>7 DEF HostT
<1>. QED BY <1>2, <1>3, <1>4, <1>5, <1>8, <1>9 DEF c

\* A packet of the driver that is only a clock is an empty one.
LEMMA UpClock ==
  ASSUME NEW p \in DrvPackets, JustClock(p), p.cv \/ p.ret = None(HostLines)
  PROVE  p.msg = None(Lines) /\ p.ret = None(HostLines) /\ p.cv = FALSE
<1>1. p.msg \in [Lines -> Nat] /\ p.cv \in BOOLEAN BY DEF DrvPackets
<1>2. ~p.cv /\ p.msg \in {None(Lines), NoHostMsgs} BY DEF JustClock
<1>3. p.msg # NoHostMsgs
  <2>1. "cdata" \in Lines /\ "cdata" \notin HostLines BY DEF Lines, AfuLines, HostLines
  <2>. QED BY <1>1, <2>1 DEF NoHostMsgs
<1>. QED BY <1>1, <1>2, <1>3

\* A packet of ocse that is only a clock is an empty one.
LEMMA DownClock ==
  ASSUME NEW p \in HostPackets, JustClock(p), p.cv \/ p.ret = None(Returns)
  PROVE  p.msg = NoHostMsgs /\ p.ret = None(Returns) /\ p.cv = FALSE
<1>1. p.msg \in [HostLines -> Msgs] /\ p.cv \in BOOLEAN BY DEF HostPackets
<1>2. ~p.cv /\ p.msg \in {None(Lines), NoHostMsgs} BY DEF JustClock
<1>3. p.msg # None(Lines)
  <2>1. "cdata" \in Lines /\ "cdata" \notin HostLines BY DEF Lines, AfuLines, HostLines
  <2>. QED BY <1>1, <2>1 DEF None
<1>. QED BY <1>1, <1>2, <1>3

\* A packet is decoded into an event without messages and credits: what it brings is
\* in the event afterwards.
LEMMA GetFields ==
  ASSUME Types, Grouped, Emptied, HostGet
  PROVE  LET p == Head(toHost) IN
         /\ host' \in HostT
         /\ host.pc \in {"init_get", "get"} /\ toHost # <<>> /\ toHost' = Tail(toHost)
         /\ host'.pc = IF host.pc = "get" THEN "handle" ELSE "init_read"
         /\ p \in DrvPackets /\ host'.in = p.msg
         /\ \A k \in Returns : host'.ret[k] = Bit(k \in {"cmd", "cdata"} /\ p.msg[k] # 0)
         /\ host'.cv \/ host'.ret = None(Returns)
         /\ \A l \in HostLines : host'.avail[l] = host.avail[l] + p.ret[l]
         /\ host.ret = None(Returns) /\ host.in = None(Lines)
         /\ host'.out = host.out /\ host'.ready = host.ready
         /\ UNCHANGED <<drv, toDrv, engine, afu, sent, asent, link>>
<1>. DEFINE p == Head(toHost)
            c == IF host.pc = "get" THEN "handle" ELSE "init_read"
            g == tlx_get_afu_events(host, p)
<1>1. host \in HostT BY DEF Types
<1>2. /\ host.pc \in {"init_get", "get"} /\ toHost # <<>> /\ toHost' = Tail(toHost)
      /\ host' = [g EXCEPT !.pc = c]
      /\ UNCHANGED <<drv, toDrv, engine, afu, sent, asent, link>>
  BY DEF HostGet
<1>3. host.ret = None(Returns) /\ host.in = None(Lines) BY <1>2 DEF Emptied
<1>4. p \in DrvPackets /\ (p.cv \/ p.ret = None(HostLines))
  <2>1. toHost \in Seq(DrvPackets) BY DEF Types
  <2>2. p = toHost[1] /\ 1 \in DOMAIN toHost BY <2>1, <1>2
  <2>. QED BY <2>1, <2>2 DEF Grouped
<1>5. c \in HostPlaces BY DEF HostPlaces
<1>. HIDE DEF p, c
<1>6. CASE JustClock(p)
  <2>1. p.msg = None(Lines) /\ p.ret = None(HostLines) BY <1>4, <1>6, UpClock
  <2>2. g = [host EXCEPT !.clock = 0, !.rbp = "none"] BY <1>6 DEF tlx_get_afu_events
  <2>3. host' = [host EXCEPT !.clock = 0, !.rbp = "none", !.pc = c] BY <1>1, <1>2, <2>2 DEF HostT
  <2>0. 0 \in 0 .. 1 /\ "none" \in Rbps BY DEF Rbps
  <2>a. host' \in HostT BY <1>1, <1>5, <2>0, <2>3 DEF HostT
  <2>4. /\ host' \in HostT /\ host'.pc = c /\ host'.in = host.in /\ host'.ret = host.ret
        /\ host'.avail = host.avail /\ host'.out = host.out /\ host'.ready = host.ready
    BY <1>1, <2>a, <2>3 DEF HostT
  <2>5. \A l \in HostLines : host'.avail[l] = host.avail[l] + p.ret[l]
    BY <1>1, <2>1, <2>4, NoneTypes, HostFields
  <2>6. \A k \in Returns : host'.ret[k] = Bit(k \in {"cmd", "cdata"} /\ p.msg[k] # 0)
    <3>1. {"cmd", "cdata"} \subseteq Lines BY DEF Lines, AfuLines
    <3>. QED BY <3>1, <1>3, <2>1, <2>4, NoneTypes DEF Bit
  <2>. QED BY <1>2, <1>3, <1>4, <2>1, <2>4, <2>5, <2>6 DEF p, c
<1>7. CASE ~JustClock(p)
  <2>. DEFINE r == [k \in Returns |->
                      CASE k \in {"cmd", "cdata"} -> Bit(p.msg[k] # 0)
                        [] k \in {"resp", "rdata"} -> IF p.msg[k] # 0 THEN host.ret[k] ELSE 0
                        [] OTHER -> host.ret[k]]
              v == host.cv \/ p.msg["cmd"] # 0 \/ p.msg["cdata"] # 0
              a == Add(host.avail, p.ret)
  <2>1. g = [host EXCEPT !.clock = 0, !.rbp = "none", !.in = p.msg, !.ret = r, !.cv = v,
                         !.avail = a, !.req = p.cv]
    BY <1>7 DEF tlx_get_afu_events
  <2>2. \A k \in Returns : r[k] = Bit(k \in {"cmd", "cdata"} /\ p.msg[k] # 0)
    BY <1>3, NoneTypes DEF Bit
  <2>3. r \in [Returns -> 0 .. 1]
    <3>1. DOMAIN r = Returns /\ r = [k \in Returns |-> r[k]] OBVIOUS
    <3>. HIDE DEF r
    <3>2. \A k \in Returns : r[k] \in 0 .. 1 BY <2>2 DEF Bit
    <3>. QED BY <3>1, <3>2
  <2>4. v \in BOOLEAN /\ (v \/ r = None(Returns))
    <3>1. ASSUME ~v PROVE r = None(Returns)
      <4>1. p.msg["cmd"] = 0 /\ p.msg["cdata"] = 0 BY <3>1
      <4>2. DOMAIN r = Returns /\ r = [k \in Returns |-> r[k]] OBVIOUS
      <4>. HIDE DEF r
      <4>3. \A k \in Returns : r[k] = 0 BY <2>2, <4>1 DEF Bit
      <4>. QED BY <4>2, <4>3 DEF None
    <3>. QED BY <3>1, <1>1, HostFields
  <2>5. a \in [HostLines -> Nat] /\ \A l \in HostLines : a[l] = host.avail[l] + p.ret[l]
    <3>1. host.avail \in [HostLines -> Nat] /\ p.ret \in [HostLines -> 0 .. 1]
      BY <1>1, <1>4, HostFields DEF DrvPackets
    <3>. QED BY <3>1 DEF Add
  <2>6. p.msg \in [Lines -> Nat] /\ p.cv \in BOOLEAN BY <1>4 DEF DrvPackets
  <2>. HIDE DEF g, r, v, a
  <2>7. host' = [host EXCEPT !.clock = 0, !.rbp = "none", !.in = p.msg, !.ret = r, !.cv = v,
                             !.avail = a, !.req = p.cv, !.pc = c]
    BY <1>1, <1>2, <2>1 DEF HostT
  <2>0. 0 \in 0 .. 1 /\ "none" \in Rbps BY DEF Rbps
  <2>8. host' \in HostT BY <1>1, <1>5, <2>0, <2>3, <2>4, <2>5, <2>6, <2>7 DEF HostT
  <2>9. /\ host'.pc = c /\ host'.in = p.msg /\ host'.ret = r /\ host'.cv = v
        /\ host'.avail = a /\ host'.out = host.out /\ host'.ready = host.ready
    BY <1>1, <2>7 DEF HostT
  <2>. QED BY <1>2, <1>3, <1>4, <2>2, <2>4, <2>5, <2>8, <2>9 DEF p, c
<1>. QED BY <1>6, <1>7

\* ocse takes the initial credits of the AFU.
LEMMA ReadCreditsFields ==
  ASSUME Types, afu_tlx_read_initial_credits
  PROVE  /\ host' \in HostT
         /\ host.pc = "init_read" /\ host'.pc = "signal" /\ host'.ready = TRUE /\ host'.avail = AfuGrants
         /\ host'.in = host.in /\ host'.out = host.out /\ host'.ret = host.ret /\ host'.cv = host.cv
         /\ UNCHANGED <<drv, toDrv, toHost, engine, afu, sent, asent, link>>
<1>1. host \in HostT BY DEF Types
<1>2. /\ host' = [host EXCEPT !.avail = AfuGrants, !.req = FALSE, !.ready = TRUE, !.pc = "signal"]
      /\ host.pc = "init_read" /\ UNCHANGED <<drv, toDrv, toHost, engine, afu, sent, asent, link>>
  BY DEF afu_tlx_read_initial_credits
<1>3. AfuGrants \in [HostLines -> Nat] /\ "signal" \in HostPlaces BY LinkAssumption DEF HostPlaces
<1>4. host' \in HostT BY <1>1, <1>2, <1>3 DEF HostT
<1>. QED BY <1>1, <1>2, <1>4 DEF HostT

\* The steps of ocse that move nothing: a short read, the end of the link, a new turn.
LEMMA IdleFields ==
  ASSUME Types, HostShort \/ HostReenter \/ HostNext
  PROVE  /\ host' \in HostT /\ engine' \in EngineT /\ link' \in {"up", "closed", "garbled", "crashed"}
         /\ host'.pc \notin {"handle", "init_get"} \cup Starting /\ host.pc \notin {"handle"} \cup Starting
         /\ host'.pc = "get" => host.pc = "get"
         /\ host'.in = host.in /\ host'.out = host.out /\ host'.ret = host.ret /\ host'.cv = host.cv
         /\ host'.avail = host.avail /\ host'.ready = host.ready
         /\ engine'.access = engine.access /\ engine'.left = engine.left /\ engine'.got = engine.got
         /\ engine'.flits = engine.flits
         /\ UNCHANGED <<drv, toDrv, toHost, afu, sent, asent>>
<1>1. host \in HostT /\ engine \in EngineT /\ link \in {"up", "closed", "garbled", "crashed"} BY DEF Types
<1>2. CASE HostShort
  <2>1. PICK at \in ShortAt : host' = [host EXCEPT !.clock = 0, !.rbp = at, !.pc = "send"]
    BY <1>2, Zenon DEF HostShort
  <2>2. engine' = [engine EXCEPT !.shorts = @ + 1] /\ host.pc = "get"
        /\ UNCHANGED <<drv, toDrv, toHost, afu, sent, asent, link>>
    BY <1>2 DEF HostShort
  <2>3. at \in Rbps /\ "send" \in HostPlaces /\ 0 \in 0 .. 1 BY LinkAssumption DEF HostPlaces, Rbps
  <2>4. host' \in HostT BY <1>1, <2>1, <2>3 DEF HostT
  <2>5. engine' \in EngineT BY <1>1, <2>2 DEF EngineT
  <2>6. /\ host'.pc = "send" /\ host'.in = host.in /\ host'.out = host.out /\ host'.ret = host.ret
        /\ host'.cv = host.cv /\ host'.avail = host.avail /\ host'.ready = host.ready
    BY <1>1, <2>1 DEF HostT
  <2>7. /\ engine'.access = engine.access /\ engine'.left = engine.left /\ engine'.got = engine.got
        /\ engine'.flits = engine.flits
    BY <1>1, <2>2 DEF EngineT
  <2>. QED BY <1>1, <2>2, <2>4, <2>5, <2>6, <2>7 DEF Starting
<1>3. CASE HostReenter
  BY <1>1, <1>3 DEF HostReenter, ReenterTail, Starting
<1>4. CASE HostNext
  <2>1. /\ host.pc = "send" /\ host' = [host EXCEPT !.pc = "signal"]
        /\ UNCHANGED <<drv, toDrv, toHost, engine, afu, sent, asent, link>>
    BY <1>4 DEF HostNext
  <2>2. "signal" \in HostPlaces BY DEF HostPlaces
  <2>3. host' \in HostT BY <1>1, <2>1, <2>2 DEF HostT
  <2>4. /\ host'.pc = "signal" /\ host'.in = host.in /\ host'.out = host.out /\ host'.ret = host.ret
        /\ host'.cv = host.cv /\ host'.avail = host.avail /\ host'.ready = host.ready
    BY <1>1, <2>1 DEF HostT
  <2>. QED BY <1>1, <2>1, <2>3, <2>4 DEF Starting
<1>. QED BY <1>2, <1>3, <1>4

\* What the handlers of ocse do when they read the lines rd.
LEMMA HandleFields ==
  ASSUME Types, HostHandle, LinesRead = {l \in Lines : host.in[l] # 0},
         host.in["rdata"] # 0 => engine.left > 0
  PROVE  /\ host' \in HostT /\ engine' \in EngineT
         /\ host.pc = "handle" /\ host'.pc = "send" /\ host'.in = None(Lines)
         /\ \A k \in AfuLines : host'.ret[k] = IF k \in {"resp", "rdata"} /\ host.in[k] # 0 THEN 1 ELSE host.ret[k]
         /\ host'.ret["ack"] = IF host.in["cfg"] # 0 THEN 1 ELSE host.ret["ack"]
         /\ host.cv \/ host.ret = None(Returns) => host'.cv \/ host'.ret = None(Returns)
         /\ host'.out = host.out /\ host'.avail = host.avail /\ host'.ready = host.ready
         /\ \A l \in Lines : engine'.got[l] = engine.got[l] + Bit(host.in[l] # 0)
         /\ engine'.left = engine.left - Bit(host.in["rdata"] # 0)
         /\ engine'.access = AccessNext(LinesRead) /\ engine'.flits = engine.flits
         /\ UNCHANGED <<drv, toDrv, toHost, afu, sent, asent, link>>
<1>. DEFINE rd == LinesRead
            i1 == [l \in Lines |-> IF l \in rd THEN 0 ELSE host.in[l]]
            r1 == [k \in Returns |-> IF (k \in {"resp", "rdata"} /\ k \in rd) \/ (k = "ack" /\ "cfg" \in rd)
                                     THEN 1 ELSE host.ret[k]]
            v1 == host.cv \/ rd \cap {"resp", "rdata", "cfg"} # {}
            g1 == [l \in Lines |-> engine.got[l] + Bit(l \in rd)]
            t1 == engine.todo + Bit("cmd" \in rd)
            l1 == engine.left - Bit("rdata" \in rd)
            a1 == AccessNext(rd)
<1>1. host \in HostT /\ engine \in EngineT BY DEF Types
<1>2. /\ host.pc = "handle" /\ UNCHANGED <<drv, toDrv, toHost, afu, sent, asent, link>>
      /\ host' = [afu_tlx_read(host, rd) EXCEPT !.pc = "send"]
      /\ engine' = [engine EXCEPT !.got = g1, !.todo = t1, !.left = l1, !.access = a1]
  BY DEF HostHandle
<1>3. host' = [host EXCEPT !.in = i1, !.ret = r1, !.cv = v1, !.pc = "send"]
  BY <1>1, <1>2 DEF HostT, afu_tlx_read
<1>4. /\ {"cmd", "cdata", "resp", "rdata", "cfg"} = Lines /\ AfuLines \subseteq Lines /\ "ack" \in Returns
      /\ AfuLines \subseteq Returns /\ "ack" \notin AfuLines /\ Returns = AfuLines \cup {"ack"}
  BY DEF Lines, AfuLines, Returns
<1>5. \A l \in Lines : l \in rd <=> host.in[l] # 0 OBVIOUS
<1>. HIDE DEF rd
<1>6. i1 = None(Lines) BY <1>5 DEF None
<1>7. r1 \in [Returns -> 0 .. 1] BY <1>1, HostFields
<1>8. \A k \in AfuLines : r1[k] = IF k \in {"resp", "rdata"} /\ host.in[k] # 0 THEN 1 ELSE host.ret[k]
  BY <1>4, <1>5
<1>9. r1["ack"] = IF host.in["cfg"] # 0 THEN 1 ELSE host.ret["ack"] BY <1>4, <1>5
<1>10. ASSUME host.cv \/ host.ret = None(Returns) PROVE v1 \/ r1 = None(Returns)
  <2>1. ASSUME ~v1 PROVE r1 = None(Returns)
    <3>1. host.ret = None(Returns) /\ "resp" \notin rd /\ "rdata" \notin rd /\ "cfg" \notin rd BY <1>10, <2>1
    <3>2. \A k \in Returns : r1[k] = 0 BY <3>1, NoneTypes
    <3>. QED BY <3>2 DEF None
  <2>. QED BY <2>1
<1>11. v1 \in BOOLEAN BY <1>1, HostFields
<1>12. engine.got \in [Lines -> Nat] /\ engine.todo \in Nat /\ engine.left \in Nat /\ engine.access \in Accesses
  BY <1>1 DEF EngineT
<1>13. g1 \in [Lines -> Nat] /\ \A l \in Lines : g1[l] = engine.got[l] + Bit(host.in[l] # 0)
  BY <1>5, <1>12 DEF Bit
<1>14. t1 \in Nat BY <1>12 DEF Bit
<1>15. l1 \in Nat /\ l1 = engine.left - Bit(host.in["rdata"] # 0)
  <2>1. "rdata" \in rd <=> host.in["rdata"] # 0 BY <1>4, <1>5
  <2>. QED BY <2>1, <1>12 DEF Bit
<1>16. a1 \in Accesses BY <1>12 DEF AccessNext, Accesses
<1>. HIDE DEF i1, r1, v1, g1, t1, l1, a1
<1>17. host' \in HostT
  <2>1. "send" \in HostPlaces /\ i1 \in [Lines -> Nat] BY <1>6, NoneTypes DEF HostPlaces
  <2>. QED BY <1>1, <1>3, <1>7, <1>11, <2>1 DEF HostT
<1>18. engine' \in EngineT BY <1>1, <1>2, <1>13, <1>14, <1>15, <1>16 DEF EngineT
<1>19. /\ host'.pc = "send" /\ host'.in = i1 /\ host'.ret = r1 /\ host'.cv = v1
       /\ host'.out = host.out /\ host'.avail = host.avail /\ host'.ready = host.ready
  BY <1>1, <1>3 DEF HostT
<1>20. engine'.got = g1 /\ engine'.left = l1 /\ engine'.access = a1 /\ engine'.flits = engine.flits
  BY <1>1, <1>2 DEF EngineT
<1>. QED BY <1>2, <1>6, <1>8, <1>9, <1>10, <1>13, <1>15, <1>17, <1>18, <1>19, <1>20 DEF a1, rd

\* A send on line l takes one of its credits; the counter does not wrap.
LEMMA SendOn ==
  ASSUME Types, NEW l \in HostLines, NEW n \in 0 .. Flits, tlx_afu_send(l, n),
         host.avail[l] \in 1 .. 255, l = "cfg" => n = 0
  PROVE  /\ host' \in HostT /\ host.out[l].id = 0
         /\ host'.pc = host.pc /\ host'.in = host.in /\ host'.ret = host.ret /\ host'.cv = host.cv
         /\ host'.ready = host.ready
         /\ \A k \in HostLines : host'.avail[k] = host.avail[k] - Bit(k = l)
         /\ \A k \in HostLines : k # l => host'.out[k] = host.out[k]
         /\ host'.out[l].id = sent[l] + 1 /\ host'.out[l].n = n
         /\ n > 0 => host'.out[l].first = engine.flits[l] + 1
         /\ sent' \in [HostLines -> Nat] /\ \A k \in HostLines : sent'[k] = sent[k] + Bit(k = l)
<1>. DEFINE m == [id |-> sent[l] + 1, n |-> n, first |-> IF n = 0 THEN 0 ELSE engine.flits[l] + 1]
            a == (host.avail[l] + 255) % 256
<1>1. host \in HostT /\ sent \in [HostLines -> Nat] /\ engine \in EngineT BY DEF Types
<1>2. /\ host.out[l].id = 0
      /\ host' = [host EXCEPT !.avail[l] = a, !.out[l] = m]
      /\ sent' = [sent EXCEPT ![l] = @ + 1]
  BY DEF tlx_afu_send, CanSend
<1>3. m \in Msgs /\ m.id = sent[l] + 1 /\ m.n = n /\ (n > 0 => m.first = engine.flits[l] + 1)
  <2>1. engine.flits \in [DataLines -> Nat] BY <1>1 DEF EngineT
  <2>2. n # 0 => engine.flits[l] \in Nat
    <3>1. n # 0 => l \in DataLines BY DEF HostLines, DataLines
    <3>. QED BY <2>1, <3>1
  <2>3. (IF n = 0 THEN 0 ELSE engine.flits[l] + 1) \in Nat BY <2>2
  <2>4. sent[l] + 1 \in Nat BY <1>1
  <2>. QED BY <2>3, <2>4 DEF Msgs
<1>4. a = host.avail[l] - 1 /\ a \in Nat
  <2>. DEFINE v == host.avail[l]
  <2>1. v \in 1 .. 255 OBVIOUS
  <2>. HIDE DEF v
  <2>2. (v + 255) % 256 = v - 1 /\ v - 1 \in Nat BY <2>1
  <2>. QED BY <2>2 DEF v
<1>. HIDE DEF m, a
<1>5. host.avail \in [HostLines -> Nat] /\ host.out \in [HostLines -> Msgs] BY <1>1, HostFields
<1>6. [host.avail EXCEPT ![l] = a] \in [HostLines -> Nat] /\ [host.out EXCEPT ![l] = m] \in [HostLines -> Msgs]
  BY <1>3, <1>4, <1>5
<1>7. /\ host' = [host EXCEPT !.avail = [host.avail EXCEPT ![l] = a], !.out = [host.out EXCEPT ![l] = m]]
  BY <1>1, <1>2 DEF HostT
<1>8. host' \in HostT BY <1>1, <1>6, <1>7 DEF HostT
<1>9. /\ host'.pc = host.pc /\ host'.in = host.in /\ host'.ret = host.ret /\ host'.cv = host.cv
      /\ host'.ready = host.ready
      /\ host'.avail = [host.avail EXCEPT ![l] = a] /\ host'.out = [host.out EXCEPT ![l] = m]
  BY <1>1, <1>7 DEF HostT
<1>10. \A k \in HostLines : host'.avail[k] = host.avail[k] - Bit(k = l)
  BY <1>4, <1>5, <1>9 DEF Bit
<1>11. \A k \in HostLines : k # l => host'.out[k] = host.out[k] BY <1>5, <1>9
<1>12. host'.out[l] = m BY <1>5, <1>9
<1>13. sent' \in [HostLines -> Nat] /\ \A k \in HostLines : sent'[k] = sent[k] + Bit(k = l)
  BY <1>1, <1>2 DEF Bit
<1>. QED BY <1>2, <1>3, <1>8, <1>9, <1>10, <1>11, <1>12, <1>13

\* The sends of ocse: on one line, with n lines of data.  A command without data is a
\* read.
SendEffect(l, n) ==
  /\ host' \in HostT /\ engine' \in EngineT /\ host.out[l].id = 0
  /\ host.pc = "send" /\ host'.pc = "send"
  /\ host'.in = host.in /\ host'.ret = host.ret /\ host'.cv = host.cv /\ host'.ready = host.ready
  /\ \A k \in HostLines : host'.avail[k] = host.avail[k] - Bit(k = l)
  /\ \A k \in HostLines : k # l => host'.out[k] = host.out[k]
  /\ host'.out[l].id = sent[l] + 1 /\ host'.out[l].n = n
  /\ n > 0 => host'.out[l].first = engine.flits[l] + 1
  /\ sent' \in [HostLines -> Nat] /\ \A k \in HostLines : sent'[k] = sent[k] + Bit(k = l)
  /\ engine'.got = engine.got
  /\ \A k \in DataLines : engine'.flits[k] = engine.flits[k] + IF k = l THEN n ELSE 0
  /\ l = "resp" => engine'.access = engine.access /\ engine'.left = engine.left
  /\ l = "cfg" => engine.access = "none" /\ engine'.access = "cfg"
  /\ l = "cmd" => /\ engine.access = "none"
                  /\ IF n = 0 THEN engine'.access = "read" /\ engine'.left > 0 ELSE engine'.access = "write"
  /\ UNCHANGED <<drv, toDrv, toHost, afu, asent, link>>

\* Each of the three actions sends on its line.
LEMMA SendFields ==
  ASSUME Types, SendResp \/ SendCmd \/ SendCfg, \A l \in HostLines : host.avail[l] <= 255,
         engine.access = "none" => host.avail["cmd"] > 0
  PROVE  \E l \in HostLines, n \in 0 .. Flits : SendEffect(l, n)
<1>0. {"cmd", "resp", "cfg"} = HostLines /\ {"cmd", "resp"} = DataLines BY DEF HostLines, DataLines
<1>1. host \in HostT /\ engine \in EngineT /\ Flits \in Nat \ {0} BY LinkAssumption DEF Types
<1>2. host.avail \in [HostLines -> Nat] BY <1>1, HostFields
<1>3. /\ engine.access \in Accesses /\ engine.left \in Nat /\ engine.todo \in Nat
      /\ engine.flits \in [DataLines -> Nat]
  BY <1>1 DEF EngineT
<1>4. CASE SendResp
  <2>1. PICK n \in 0 .. Flits, last \in BOOLEAN :
           /\ tlx_afu_send("resp", n)
           /\ engine' = [engine EXCEPT !.flits["resp"] = @ + n, !.todo = @ - Bit(last)]
    BY <1>4, Zenon DEF SendResp
  <2>2. host.pc = "send" /\ engine.todo > 0 /\ UNCHANGED <<drv, toDrv, toHost, afu, asent, link>>
    BY <1>4, Zenon DEF SendResp
  <2>3. host.avail["resp"] \in 1 .. 255 BY <1>0, <1>2, <2>1 DEF tlx_afu_send, CanSend
  <2>. DEFINE f == [engine.flits EXCEPT !["resp"] = @ + n]
              t == engine.todo - Bit(last)
  <2>4. f \in [DataLines -> Nat] /\ \A k \in DataLines : f[k] = engine.flits[k] + IF k = "resp" THEN n ELSE 0
    BY <1>0, <1>3
  <2>5. t \in Nat BY <1>3, <2>2 DEF Bit
  <2>6. engine' = [engine EXCEPT !.flits = f, !.todo = t] BY <1>1, <2>1 DEF EngineT
  <2>. HIDE DEF f, t
  <2>7. engine' \in EngineT BY <1>1, <2>4, <2>5, <2>6 DEF EngineT
  <2>8. engine'.access = engine.access /\ engine'.left = engine.left /\ engine'.got = engine.got
        /\ engine'.flits = f
    BY <1>1, <2>6 DEF EngineT
  <2>9. "resp" \in HostLines BY <1>0
  <2>. DEFINE r == "resp"
  <2>10. r \in HostLines /\ tlx_afu_send(r, n) /\ host.avail[r] \in 1 .. 255 /\ r # "cfg" /\ r # "cmd"
    BY <2>1, <2>3, <2>9
  <2>11. SendEffect(r, n)
    <3>1. \A k \in DataLines : engine'.flits[k] = engine.flits[k] + IF k = r THEN n ELSE 0 BY <2>4, <2>8
    <3>. HIDE DEF r
    <3>. QED BY <2>2, <2>7, <2>8, <2>10, <3>1, SendOn DEF SendEffect
  <2>. QED BY <2>10, <2>11
<1>5. CASE SendCmd
  <2>1. host.pc = "send" /\ engine.access = "none" /\ UNCHANGED <<drv, toDrv, toHost, afu, asent, link>>
    BY <1>5, Zenon DEF SendCmd
  <2>. DEFINE r == "cmd"
  <2>2. r \in HostLines /\ host.avail[r] \in 1 .. 255 /\ r # "cfg" /\ r # "resp" BY <1>0, <1>2, <2>1
  <2>3. CASE \E beats \in 1 .. 2 : /\ tlx_afu_send("cmd", 0)
                                   /\ engine' = [engine EXCEPT !.access = "read", !.left = beats]
    <3>1. PICK beats \in 1 .. 2 : /\ tlx_afu_send("cmd", 0)
                                  /\ engine' = [engine EXCEPT !.access = "read", !.left = beats]
      BY <2>3
    <3>2. "read" \in Accesses /\ beats \in Nat /\ beats > 0 /\ 0 \in 0 .. Flits BY <1>1 DEF Accesses
    <3>3. engine' \in EngineT BY <1>1, <3>1, <3>2 DEF EngineT
    <3>4. engine'.access = "read" /\ engine'.left = beats /\ engine'.got = engine.got
          /\ engine'.flits = engine.flits
      BY <1>1, <3>1 DEF EngineT
    <3>5. \A k \in DataLines : engine'.flits[k] = engine.flits[k] + IF k = r THEN 0 ELSE 0 BY <1>3, <3>4
    <3>6. tlx_afu_send(r, 0) BY <3>1
    <3>. HIDE DEF r
    <3>7. SendEffect(r, 0) BY <2>1, <2>2, <3>2, <3>3, <3>4, <3>5, <3>6, SendOn DEF SendEffect
    <3>. QED BY <2>2, <3>2, <3>7
  <2>4. CASE \E n \in 1 .. Flits : /\ tlx_afu_send("cmd", n)
                                   /\ engine' = [engine EXCEPT !.access = "write", !.flits["cmd"] = @ + n]
    <3>1. PICK n \in 1 .. Flits : /\ tlx_afu_send("cmd", n)
                                  /\ engine' = [engine EXCEPT !.access = "write", !.flits["cmd"] = @ + n]
      BY <2>4
    <3>2. "write" \in Accesses /\ n \in Nat /\ n # 0 /\ n \in 0 .. Flits BY <1>1 DEF Accesses
    <3>. DEFINE f == [engine.flits EXCEPT !["cmd"] = @ + n]
    <3>3. f \in [DataLines -> Nat] /\ \A k \in DataLines : f[k] = engine.flits[k] + IF k = r THEN n ELSE 0
      BY <1>0, <1>3, <3>2
    <3>4. engine' = [engine EXCEPT !.access = "write", !.flits = f] BY <1>1, <3>1 DEF EngineT
    <3>. HIDE DEF f
    <3>5. engine' \in EngineT BY <1>1, <3>2, <3>3, <3>4 DEF EngineT
    <3>6. engine'.access = "write" /\ engine'.got = engine.got /\ engine'.flits = f
      BY <1>1, <3>4 DEF EngineT
    <3>7. tlx_afu_send(r, n) BY <3>1
    <3>. HIDE DEF r
    <3>8. SendEffect(r, n) BY <2>1, <2>2, <3>2, <3>3, <3>5, <3>6, <3>7, SendOn DEF SendEffect
    <3>. QED BY <2>2, <3>2, <3>8
  <2>. QED BY <1>5, <2>3, <2>4 DEF SendCmd
<1>6. CASE SendCfg
  <2>1. /\ host.pc = "send" /\ engine.access = "none" /\ tlx_afu_send("cfg", 0)
        /\ engine' = [engine EXCEPT !.access = "cfg"] /\ UNCHANGED <<drv, toDrv, toHost, afu, asent, link>>
    BY <1>6, Zenon DEF SendCfg
  <2>. DEFINE r == "cfg"
  <2>2. r \in HostLines /\ host.avail[r] \in 1 .. 255 /\ r # "cmd" /\ r # "resp"
    BY <1>0, <1>2, <2>1 DEF tlx_afu_send, CanSend
  <2>3. "cfg" \in Accesses /\ 0 \in 0 .. Flits BY <1>1 DEF Accesses
  <2>4. engine' \in EngineT BY <1>1, <2>1, <2>3 DEF EngineT
  <2>5. engine'.access = "cfg" /\ engine'.got = engine.got /\ engine'.flits = engine.flits
    BY <1>1, <2>1 DEF EngineT
  <2>6. \A k \in DataLines : engine'.flits[k] = engine.flits[k] + IF k = r THEN 0 ELSE 0 BY <1>3, <2>5
  <2>7. tlx_afu_send(r, 0) BY <2>1
  <2>. HIDE DEF r
  <2>8. SendEffect(r, 0) BY <2>1, <2>2, <2>3, <2>4, <2>5, <2>6, <2>7, SendOn DEF SendEffect
  <2>. QED BY <2>2, <2>3, <2>8
<1>. QED BY <1>4, <1>5, <1>6

-----------------------------------------------------------------------------
(***************************************************************************)
(* What the actions of the driver do, field by field.                      *)
(***************************************************************************)
\* The fields of the event of the driver.
LEMMA DrvFields ==
  ASSUME NEW d \in DrvT
  PROVE  /\ d.pc \in {"low", "high"} /\ d.out \in [Lines -> Nat] /\ d.in \in [HostLines -> Msgs]
         /\ d.cv \in BOOLEAN /\ d.ret \in [Returns -> 0 .. 1] /\ d.req \in BOOLEAN
         /\ d.aret \in [HostLines -> 0 .. 1] /\ d.avail \in [AfuLines -> Nat] /\ d.offered \in BOOLEAN
         /\ d.ready \in BOOLEAN /\ d.rbp \in Rbps /\ d.ackPending \in BOOLEAN
         /\ d.clk \in [DataLines -> 0 .. 2] /\ d.top \in [HostLines -> Nat]
         /\ d.fifo \in [DataLines -> Seq(Nat)] /\ d.rdCnt \in [DataLines -> Nat]
BY DEF DrvT

\* The fields of the AFU.
LEMMA AfuFields ==
  ASSUME NEW a \in AfuT
  PROVE  /\ a.known \in BOOLEAN /\ a.cr \in [AfuLines -> Nat] /\ a.got \in [HostLines -> Nat]
         /\ a.owed \in [HostLines -> Nat] /\ a.asked \in Nat /\ a.cfg \in Nat /\ a.job \in Nat
         /\ a.beats \in Nat /\ a.rbeats \in Nat /\ a.want \in [DataLines -> Nat]
         /\ a.line \in [DataLines -> Nat]
BY DEF AfuT

\* The packet of the driver has everything that is in the event, and empties it.
LEMMA DrvSignalFields ==
  ASSUME Types, Emptied
  PROVE  LET p == DrvPacket(drv)
             d == tlx_signal_tlx_model(drv)
         IN /\ p \in DrvPackets /\ p.msg = drv.out /\ p.ret = drv.aret
            /\ p.cv \/ p.ret = None(HostLines)
            /\ d = [drv EXCEPT !.out = None(Lines), !.req = FALSE, !.aret = None(HostLines)]
            /\ d \in DrvT
<1>. DEFINE p == DrvPacket(drv)
            d == tlx_signal_tlx_model(drv)
<1>1. drv \in DrvT BY DEF Types
<1>2. drv.req \/ drv.aret = None(HostLines) BY DEF Emptied
<1>3. p = [msg |-> drv.out, cv |-> drv.req, ret |-> drv.aret] BY <1>2 DEF DrvPacket
<1>4. drv.out \in [Lines -> Nat] /\ drv.req \in BOOLEAN /\ drv.aret \in [HostLines -> 0 .. 1]
  BY <1>1, DrvFields
<1>5. p \in DrvPackets
  <2>. HIDE DEF p
  <2>. QED BY <1>3, <1>4 DEF DrvPackets
<1>6. d = [drv EXCEPT !.out = None(Lines), !.req = FALSE, !.aret = None(HostLines)]
  <2>1. (IF drv.req THEN None(HostLines) ELSE drv.aret) = None(HostLines) BY <1>2
  <2>. QED BY <2>1 DEF tlx_signal_tlx_model
<1>7. d \in DrvT
  <2>1. None(Lines) \in [Lines -> Nat] /\ None(HostLines) \in [HostLines -> 0 .. 1] BY NoneTypes
  <2>. HIDE DEF d
  <2>. QED BY <1>1, <1>6, <2>1 DEF DrvT
<1>. QED BY <1>2, <1>3, <1>5, <1>6, <1>7

\* At clock 1 the packet of ocse is decoded into an event without messages and
\* credits.
LEMMA HighFields ==
  ASSUME Types, Grouped, Emptied, DriverHigh
  PROVE  LET p == Head(toDrv) IN
         /\ drv' \in DrvT /\ drv.pc = "high" /\ drv'.pc = "low"
         /\ toDrv # <<>> /\ toDrv' = Tail(toDrv) /\ p \in HostPackets
         /\ \E q \in DrvPackets : /\ toHost' = Append(toHost, q) /\ q.msg = drv.out /\ q.ret = drv.aret
                                  /\ q.cv \/ q.ret = None(HostLines)
         /\ drv'.out = None(Lines) /\ drv'.aret = None(HostLines) /\ drv'.in = p.msg /\ drv'.ret = p.ret
         /\ \A l \in AfuLines : drv'.avail[l] = drv.avail[l] + p.ret[l]
         /\ p.cv => drv'.cv
         /\ drv.in = NoHostMsgs /\ drv.ret = None(Returns)
         /\ drv'.ready = drv.ready /\ drv'.ackPending = drv.ackPending /\ drv'.clk = drv.clk
         /\ drv'.top = drv.top /\ drv'.fifo = drv.fifo /\ drv'.rdCnt = drv.rdCnt
         /\ UNCHANGED <<host, engine, afu, sent, asent, link>>
<1>. DEFINE p == Head(toDrv)
            d == tlx_signal_tlx_model(drv)
            q == DrvPacket(drv)
            e == tlx_get_tlx_events(d, p)
<1>1. drv \in DrvT BY DEF Types
<1>2. /\ drv.pc = "high" /\ toDrv # <<>> /\ toDrv' = Tail(toDrv) /\ toHost' = Append(toHost, q)
      /\ drv' = [e EXCEPT !.pc = "low"]
      /\ UNCHANGED <<host, engine, afu, sent, asent, link>>
  BY DEF DriverHigh
<1>3. drv.in = NoHostMsgs /\ drv.ret = None(Returns) BY <1>2 DEF Emptied
<1>4. p \in HostPackets /\ (p.cv \/ p.ret = None(Returns))
  <2>1. toDrv \in Seq(HostPackets) BY DEF Types
  <2>2. p = toDrv[1] /\ 1 \in DOMAIN toDrv BY <2>1, <1>2
  <2>. QED BY <2>1, <2>2 DEF Grouped
<1>5. /\ q \in DrvPackets /\ q.msg = drv.out /\ q.ret = drv.aret /\ (q.cv \/ q.ret = None(HostLines))
      /\ d = [drv EXCEPT !.out = None(Lines), !.req = FALSE, !.aret = None(HostLines)] /\ d \in DrvT
  BY DrvSignalFields
<1>6. /\ p.msg \in [HostLines -> Msgs] /\ p.cv \in BOOLEAN /\ p.ret \in [Returns -> 0 .. 1]
      /\ drv.avail \in [AfuLines -> Nat] /\ AfuLines \subseteq Returns
  BY <1>1, <1>4, DrvFields DEF HostPackets, Returns
<1>7. /\ d.avail = drv.avail /\ d.ret = drv.ret /\ d.in = drv.in /\ d.cv = drv.cv
      /\ d.aret = None(HostLines)
  <2>. HIDE DEF d
  <2>. QED BY <1>1, <1>5 DEF DrvT
<1>. HIDE DEF p, d, q
<1>8. "none" \in Rbps BY DEF Rbps
<1>9. CASE JustClock(p)
  <2>1. p.msg = NoHostMsgs /\ p.ret = None(Returns) /\ p.cv = FALSE BY <1>4, <1>9, DownClock
  <2>2. e = [d EXCEPT !.rbp = "none"] BY <1>9 DEF tlx_get_tlx_events
  <2>3. drv' = [drv EXCEPT !.out = None(Lines), !.req = FALSE, !.aret = None(HostLines),
                           !.rbp = "none", !.pc = "low"]
    BY <1>1, <1>2, <1>5, <2>2 DEF DrvT
  <2>4. drv' \in DrvT
    <3>1. drv' = [d EXCEPT !.rbp = "none", !.pc = "low"] BY <1>2, <1>5, <2>2 DEF DrvT
    <3>. QED BY <1>5, <1>8, <3>1 DEF DrvT
  <2>5. /\ drv'.pc = "low" /\ drv'.out = None(Lines) /\ drv'.aret = None(HostLines)
        /\ drv'.in = drv.in /\ drv'.ret = drv.ret /\ drv'.avail = drv.avail
        /\ drv'.ready = drv.ready /\ drv'.ackPending = drv.ackPending /\ drv'.clk = drv.clk
        /\ drv'.top = drv.top /\ drv'.fifo = drv.fifo /\ drv'.rdCnt = drv.rdCnt
    BY <1>1, <2>3 DEF DrvT
  <2>6. \A l \in AfuLines : drv'.avail[l] = drv.avail[l] + p.ret[l]
    <3>1. \A l \in AfuLines : p.ret[l] = 0 BY <1>6, <2>1, NoneTypes
    <3>. QED BY <3>1, <1>6, <2>5
  <2>7. drv'.in = p.msg /\ drv'.ret = p.ret /\ (p.cv => drv'.cv) BY <1>3, <2>1, <2>5
  <2>. QED BY <1>2, <1>3, <1>4, <1>5, <2>4, <2>5, <2>6, <2>7 DEF p
<1>10. CASE ~JustClock(p)
  <2>. DEFINE r == [k \in Returns |-> IF p.cv THEN p.ret[k] ELSE IF k = "ack" THEN d.ret[k] ELSE 0]
              b == [k \in HostLines |-> IF p.msg[k].id # 0 THEN d.aret[k] ELSE 0]
              a == Add(d.avail, p.ret)
  <2>1. e = [d EXCEPT !.rbp = "none", !.in = p.msg, !.aret = b, !.cv = p.cv, !.ret = r, !.avail = a]
    BY <1>10 DEF tlx_get_tlx_events
  <2>2. r = p.ret
    <3>1. \A k \in Returns : r[k] = p.ret[k]
      <4>1. CASE p.cv BY <4>1
      <4>2. CASE ~p.cv
        <5>1. p.ret = None(Returns) BY <4>2, <1>4
        <5>. QED BY <4>2, <5>1, <1>3, <1>7, NoneTypes
      <4>. QED BY <4>1, <4>2
    <3>. QED BY <3>1, <1>6
  <2>3. b = None(HostLines) BY <1>7, NoneTypes DEF None
  <2>4. a \in [AfuLines -> Nat] /\ \A l \in AfuLines : a[l] = drv.avail[l] + p.ret[l]
    BY <1>6, <1>7 DEF Add
  <2>. HIDE DEF e, r, b, a
  <2>5. drv' = [d EXCEPT !.rbp = "none", !.in = p.msg, !.aret = b, !.cv = p.cv, !.ret = r, !.avail = a,
                         !.pc = "low"]
    BY <1>2, <1>5, <2>1 DEF DrvT
  <2>6. drv' \in DrvT
    <3>1. r \in [Returns -> 0 .. 1] /\ b \in [HostLines -> 0 .. 1] BY <1>6, <2>2, <2>3, NoneTypes
    <3>2. p.msg \in [HostLines -> Msgs] /\ p.cv \in BOOLEAN /\ a \in [AfuLines -> Nat] BY <1>6, <2>4
    <3>. DEFINE f == [d EXCEPT !.rbp = "none", !.in = p.msg, !.aret = b, !.cv = p.cv]
    <3>3. f \in DrvT BY <1>5, <1>8, <3>1, <3>2 DEF DrvT
    <3>4. drv' = [f EXCEPT !.ret = r, !.avail = a, !.pc = "low"] BY <1>5, <2>5 DEF DrvT
    <3>. HIDE DEF f
    <3>. QED BY <3>1, <3>2, <3>3, <3>4 DEF DrvT
  <2>7. /\ drv'.pc = "low" /\ drv'.out = d.out /\ drv'.aret = b
        /\ drv'.in = p.msg /\ drv'.ret = r /\ drv'.avail = a /\ drv'.cv = p.cv
        /\ drv'.ready = d.ready /\ drv'.ackPending = d.ackPending /\ drv'.clk = d.clk
        /\ drv'.top = d.top /\ drv'.fifo = d.fifo /\ drv'.rdCnt = d.rdCnt
    BY <1>5, <2>5 DEF DrvT
  <2>8. /\ d.out = None(Lines) /\ d.ready = drv.ready /\ d.ackPending = drv.ackPending /\ d.clk = drv.clk
        /\ d.top = drv.top /\ d.fifo = drv.fifo /\ d.rdCnt = drv.rdCnt
    BY <1>1, <1>5 DEF DrvT
  <2>. QED BY <1>2, <1>3, <1>4, <1>5, <2>2, <2>3, <2>4, <2>6, <2>7, <2>8 DEF p
<1>. QED BY <1>9, <1>10

\* A short read of the driver: its packet has gone out.
LEMMA ShortFields ==
  ASSUME Types, Emptied, DriverShort
  PROVE  /\ drv' \in DrvT /\ engine' \in EngineT /\ drv.pc = "high" /\ drv'.pc = "high"
         /\ \E q \in DrvPackets : /\ toHost' = Append(toHost, q) /\ q.msg = drv.out /\ q.ret = drv.aret
                                  /\ q.cv \/ q.ret = None(HostLines)
         /\ drv'.out = None(Lines) /\ drv'.aret = None(HostLines)
         /\ drv'.in = drv.in /\ drv'.ret = drv.ret /\ drv'.avail = drv.avail /\ drv'.cv = drv.cv
         /\ drv'.ready = drv.ready /\ drv'.ackPending = drv.ackPending /\ drv'.clk = drv.clk
         /\ drv'.top = drv.top /\ drv'.fifo = drv.fifo /\ drv'.rdCnt = drv.rdCnt
         /\ engine'.access = engine.access /\ engine'.left = engine.left /\ engine'.got = engine.got
         /\ engine'.flits = engine.flits
         /\ UNCHANGED <<host, toDrv, afu, sent, asent, link>>
<1>. DEFINE d == tlx_signal_tlx_model(drv)
            q == DrvPacket(drv)
<1>1. drv \in DrvT /\ engine \in EngineT BY DEF Types
<1>2. PICK at \in ShortAt : drv' = [d EXCEPT !.rbp = at] BY Zenon DEF DriverShort
<1>3. /\ drv.pc = "high" /\ toHost' = Append(toHost, q) /\ engine' = [engine EXCEPT !.shorts = @ + 1]
      /\ UNCHANGED <<host, toDrv, afu, sent, asent, link>>
  BY DEF DriverShort
<1>4. /\ q \in DrvPackets /\ q.msg = drv.out /\ q.ret = drv.aret /\ (q.cv \/ q.ret = None(HostLines))
      /\ d = [drv EXCEPT !.out = None(Lines), !.req = FALSE, !.aret = None(HostLines)] /\ d \in DrvT
  BY DrvSignalFields
<1>5. at \in Rbps BY LinkAssumption DEF Rbps
<1>. HIDE DEF d, q
<1>6. drv' \in DrvT BY <1>2, <1>4, <1>5 DEF DrvT
<1>7. /\ drv'.pc = d.pc /\ drv'.out = d.out /\ drv'.aret = d.aret
      /\ drv'.in = d.in /\ drv'.ret = d.ret /\ drv'.avail = d.avail /\ drv'.cv = d.cv
      /\ drv'.ready = d.ready /\ drv'.ackPending = d.ackPending /\ drv'.clk = d.clk
      /\ drv'.top = d.top /\ drv'.fifo = d.fifo /\ drv'.rdCnt = d.rdCnt
  BY <1>2, <1>4 DEF DrvT
<1>8. /\ d.pc = drv.pc /\ d.out = None(Lines) /\ d.aret = None(HostLines)
      /\ d.in = drv.in /\ d.ret = drv.ret /\ d.avail = drv.avail /\ d.cv = drv.cv
      /\ d.ready = drv.ready /\ d.ackPending = drv.ackPending /\ d.clk = drv.clk
      /\ d.top = drv.top /\ d.fifo = drv.fifo /\ d.rdCnt = drv.rdCnt
  BY <1>1, <1>4 DEF DrvT
<1>9. engine' \in EngineT
  <2>1. engine.shorts \in Nat BY <1>1 DEF EngineT
  <2>2. engine' = [engine EXCEPT !.shorts = engine.shorts + 1] /\ engine.shorts + 1 \in Nat BY <1>3, <2>1
  <2>. QED BY <1>1, <2>2 DEF EngineT
<1>10. /\ engine'.access = engine.access /\ engine'.left = engine.left /\ engine'.got = engine.got
       /\ engine'.flits = engine.flits
  BY <1>1, <1>3 DEF EngineT
<1>. QED BY <1>3, <1>4, <1>6, <1>7, <1>8, <1>9, <1>10

-----------------------------------------------------------------------------
(***************************************************************************)
(* The driver at clock 0, one part after the other.                        *)
(***************************************************************************)
\* The outputs of the AFU are ones it can have.
LEMMA OutputFacts ==
  ASSUME NEW o \in Outputs
  PROVE  /\ o.cdata => afu.beats > 0
         /\ o.cfg => afu.asked # 0 /\ afu.cfg = 0
         /\ o.resp => afu.job # 0
         /\ o.rdata => afu.rbeats > 0 /\ afu.job = 0
         /\ \A k \in o.ret : k \in DOMAIN afu.owed /\ afu.owed[k] > 0
         /\ \A k \in o.rd : k \in DOMAIN afu.want /\ afu.want[k] > 0
         /\ "rdata" \in Raised(o) => afu.rbeats > 0
         /\ "resp" \in Raised(o) <=> o.resp
<1>1. /\ o.cdata \in May(afu.beats > 0) /\ o.cfg \in May(afu.asked # 0 /\ afu.cfg = 0)
      /\ o.resp \in May(afu.job # 0) /\ o.rdata \in May(afu.rbeats > 0 /\ afu.job = 0)
      /\ o.ret \in SUBSET Holding(afu.owed) /\ o.rd \in SUBSET Holding(afu.want)
  BY DEF Outputs
<1>2. "resp" \in AfuLines /\ "rdata" \in AfuLines BY DEF AfuLines
<1>3. /\ o.cdata => afu.beats > 0
      /\ o.cfg => afu.asked # 0 /\ afu.cfg = 0
      /\ o.resp => afu.job # 0
      /\ o.rdata => afu.rbeats > 0 /\ afu.job = 0
  BY <1>1 DEF May
<1>4. "resp" \in Raised(o) <=> o.resp BY <1>2 DEF Raised
<1>5. "rdata" \in Raised(o) => afu.rbeats > 0
  <2>1. "rdata" \in Raised(o) => (o.resp /\ afu.rbeats > 0) \/ o.rdata BY <1>2 DEF Raised
  <2>. QED BY <2>1, <1>3
<1>6. /\ \A k \in o.ret : k \in DOMAIN afu.owed /\ afu.owed[k] > 0
      /\ \A k \in o.rd : k \in DOMAIN afu.want /\ afu.want[k] > 0
  BY <1>1 DEF Holding
<1>. QED BY <1>3, <1>4, <1>5, <1>6

\* InitialCredits and CreditReturns.
LEMMA LowCredits ==
  ASSUME NEW d \in DrvT, NEW o
  PROVE  LET e == CreditReturns(InitialCredits(d), o) IN
         /\ e \in DrvT
         /\ e.cv = (d.cv /\ d.ready) /\ e.ready = (d.ready \/ d.cv)
         /\ e.avail = IF ~d.ready /\ d.cv THEN HostGrants ELSE d.avail
         /\ \A k \in HostLines : e.aret[k] = Bit(k \in o.ret)
         /\ e.req \/ e.aret = None(HostLines)
         /\ e.out = d.out /\ e.in = d.in /\ e.ret = d.ret /\ e.ackPending = d.ackPending
         /\ e.clk = d.clk /\ e.top = d.top /\ e.fifo = d.fifo /\ e.rdCnt = d.rdCnt
<1>. DEFINE first == ~d.ready /\ d.cv
            a == IF first THEN HostGrants ELSE d.avail
            q == d.req \/ ~d.offered
            v == d.cv /\ ~first
            y == d.ready \/ first
            i == InitialCredits(d)
            b == [k \in HostLines |-> Bit(k \in o.ret)]
            z == i.req \/ o.ret # {}
            e == CreditReturns(i, o)
<1>1. d.cv \in BOOLEAN /\ d.ready \in BOOLEAN /\ d.avail \in [AfuLines -> Nat] /\ d.req \in BOOLEAN BY DrvFields
<1>2. a \in [AfuLines -> Nat] BY <1>1, LinkAssumption
<1>3. v = (d.cv /\ d.ready) /\ y = (d.ready \/ d.cv) /\ v \in BOOLEAN /\ y \in BOOLEAN /\ q \in BOOLEAN BY <1>1
<1>4. i = [d EXCEPT !.offered = TRUE, !.req = q, !.avail = a, !.cv = v, !.ready = y]
  BY DEF InitialCredits
<1>5. b \in [HostLines -> 0 .. 1] /\ (o.ret = {} => b = None(HostLines)) BY DEF Bit, None
<1>6. e = [i EXCEPT !.aret = b, !.req = z] BY DEF CreditReturns
<1>7. a = IF ~d.ready /\ d.cv THEN HostGrants ELSE d.avail OBVIOUS
<1>8. z \in BOOLEAN /\ (z \/ b = None(HostLines))
  <2>1. ~z => o.ret = {} OBVIOUS
  <2>2. i.req = q
    <3>. HIDE DEF i, q, a, v, y
    <3>. QED BY <1>4 DEF DrvT
  <2>3. z \in BOOLEAN BY <2>2, <1>3
  <2>. HIDE DEF z, b
  <2>. QED BY <2>1, <2>3, <1>5
<1>9. \A k \in HostLines : b[k] = Bit(k \in o.ret) OBVIOUS
<1>. HIDE DEF a, q, v, y, i, b, z, e
<1>10. i \in DrvT BY <1>2, <1>3, <1>4 DEF DrvT
<1>11. /\ i.cv = v /\ i.ready = y /\ i.avail = a
       /\ i.out = d.out /\ i.in = d.in /\ i.ret = d.ret /\ i.ackPending = d.ackPending
       /\ i.clk = d.clk /\ i.top = d.top /\ i.fifo = d.fifo /\ i.rdCnt = d.rdCnt
  BY <1>4 DEF DrvT
<1>12. e \in DrvT BY <1>5, <1>6, <1>8, <1>10 DEF DrvT
<1>13. /\ e.cv = i.cv /\ e.ready = i.ready /\ e.avail = i.avail /\ e.aret = b /\ e.req = z
       /\ e.out = i.out /\ e.in = i.in /\ e.ret = i.ret /\ e.ackPending = i.ackPending
       /\ e.clk = i.clk /\ e.top = i.top /\ e.fifo = i.fifo /\ e.rdCnt = i.rdCnt
  BY <1>6, <1>10 DEF DrvT
<1>. QED BY <1>3, <1>7, <1>8, <1>9, <1>11, <1>12, <1>13 DEF e, i

\* The sends of the AFU, all of them accepted.
LEMMA LowSends ==
  ASSUME NEW d \in DrvT, NEW S \in SUBSET AfuLines, d.out = None(Lines),
         \A l \in S : d.avail[l] > 0, asent \in [Lines -> Nat], afu.cfg \in Nat
  PROVE  LET e == afu_cfg_send_resp_and_data(afu_tlx_send(d, S), S)
             T == TakesCfg(d, S)
         IN /\ e \in DrvT
            /\ \A l \in AfuLines : e.out[l] = IF l \in S THEN asent[l] + 1 ELSE 0
            /\ e.out["cfg"] = IF T THEN afu.cfg ELSE 0
            /\ \A l \in AfuLines : e.avail[l] = d.avail[l] - Bit(l \in S)
            /\ e.ackPending = IF afu.cfg = 0 THEN FALSE ELSE d.ackPending \/ T
            /\ e.cv = d.cv /\ e.ready = d.ready /\ e.aret = d.aret /\ e.req = d.req
            /\ e.in = d.in /\ e.ret = d.ret
            /\ e.clk = d.clk /\ e.top = d.top /\ e.fifo = d.fifo /\ e.rdCnt = d.rdCnt
<1>. DEFINE s == afu_tlx_send(d, S)
            e == afu_cfg_send_resp_and_data(s, S)
            T == TakesCfg(d, S)
            w == [l \in Lines |-> IF l \in S THEN asent[l] + 1 ELSE d.out[l]]
            a == [l \in AfuLines |-> d.avail[l] - Bit(l \in S)]
            c == IF T /\ w["cfg"] = 0 THEN afu.cfg ELSE w["cfg"]
            p == IF afu.cfg = 0 THEN FALSE ELSE d.ackPending \/ T
<1>0. /\ AfuLines \subseteq Lines /\ "cfg" \in Lines /\ "cfg" \notin AfuLines
      /\ d.avail \in [AfuLines -> Nat] /\ d.ackPending \in BOOLEAN
  BY DrvFields DEF Lines, AfuLines
<1>1. Accepted(d, S) = S
  <2>1. \A l \in S : d.avail[l] > 0 /\ d.out[l] = 0 BY <1>0, NoneTypes
  <2>2. ASSUME NEW l \in S PROVE l \in Accepted(d, S)
    <3>1. CASE {"resp", "rdata"} \subseteq S BY <2>1, <3>1 DEF Accepted
    <3>2. CASE ~({"resp", "rdata"} \subseteq S) BY <2>1, <3>2 DEF Accepted
    <3>. QED BY <3>1, <3>2
  <2>3. Accepted(d, S) \subseteq S BY DEF Accepted
  <2>. QED BY <2>2, <2>3
<1>2. s = [d EXCEPT !.out = w, !.avail = a] BY <1>1 DEF afu_tlx_send
<1>3. w \in [Lines -> Nat] /\ w["cfg"] = 0 /\ \A l \in AfuLines : w[l] = IF l \in S THEN asent[l] + 1 ELSE 0
  BY <1>0, NoneTypes
<1>4. a \in [AfuLines -> Nat] BY <1>0 DEF Bit
<1>5. p \in BOOLEAN /\ c = IF T THEN afu.cfg ELSE 0 BY <1>0, <1>3 DEF TakesCfg
<1>6. c \in Nat BY <1>5
<1>7. \A l \in AfuLines : a[l] = d.avail[l] - Bit(l \in S) OBVIOUS
<1>. HIDE DEF w, a
<1>8. /\ s \in DrvT
  <2>. HIDE DEF s
  <2>. QED BY <1>2, <1>3, <1>4 DEF DrvT
<1>9. /\ s.out = w /\ s.avail = a /\ s.ackPending = d.ackPending
      /\ s.cv = d.cv /\ s.ready = d.ready /\ s.aret = d.aret /\ s.req = d.req
      /\ s.in = d.in /\ s.ret = d.ret
      /\ s.clk = d.clk /\ s.top = d.top /\ s.fifo = d.fifo /\ s.rdCnt = d.rdCnt
  <2>. HIDE DEF s
  <2>. QED BY <1>2 DEF DrvT
<1>10. TakesCfg(s, S) = T
  <2>. HIDE DEF s
  <2>. QED BY <1>9 DEF TakesCfg
<1>11. e = [s EXCEPT !.out["cfg"] = c, !.ackPending = p]
  <2>. HIDE DEF s
  <2>. QED BY <1>8, <1>9, <1>10 DEF afu_cfg_send_resp_and_data, DrvT
<1>. HIDE DEF s, e, T, c, p
<1>. DEFINE x == [w EXCEPT !["cfg"] = c]
<1>12. x \in [Lines -> Nat] /\ x["cfg"] = c /\ \A l \in AfuLines : x[l] = w[l] BY <1>0, <1>3, <1>6
<1>13. e = [s EXCEPT !.out = x, !.ackPending = p] BY <1>8, <1>9, <1>11 DEF DrvT
<1>. HIDE DEF x
<1>14. e \in DrvT BY <1>5, <1>8, <1>12, <1>13 DEF DrvT
<1>15. /\ e.out = x /\ e.avail = s.avail /\ e.ackPending = p
       /\ e.cv = s.cv /\ e.ready = s.ready /\ e.aret = s.aret /\ e.req = s.req
       /\ e.in = s.in /\ e.ret = s.ret
       /\ e.clk = s.clk /\ e.top = s.top /\ e.fifo = s.fifo /\ e.rdCnt = s.rdCnt
  BY <1>8, <1>13 DEF DrvT
<1>. QED BY <1>3, <1>5, <1>7, <1>9, <1>12, <1>14, <1>15 DEF e, s, T, p

\* The wires.  A valid is up for one clock if those that share a counter are not up
\* together.
LEMMA LowWires ==
  ASSUME NEW d \in DrvT,
         \A l \in HostLines : d.top[l] # 0 /\ d.in[l].id = 0 => d.clk[Clock(l)] = 1 /\ ~Started(d, Clock(l))
  PROVE  LET e == DriveValid(d) IN
         /\ e \in DrvT
         /\ \A l \in HostLines : e.top[l] = d.in[l].id
         /\ \A l \in HostLines : d.in[l].id # 0 => e.clk[Clock(l)] = 1
         /\ e.out = d.out /\ e.avail = d.avail /\ e.ackPending = d.ackPending
         /\ e.cv = d.cv /\ e.ready = d.ready /\ e.aret = d.aret /\ e.req = d.req
         /\ e.in = d.in /\ e.ret = d.ret /\ e.fifo = d.fifo /\ e.rdCnt = d.rdCnt
<1>. DEFINE e == DriveValid(d)
            g(k) == IF Started(d, k) THEN 2 ELSE d.clk[k]
            c == [k \in DataLines |-> IF g(k) > 0 THEN g(k) - 1 ELSE 0]
            t == [l \in HostLines |-> IF d.in[l].id # 0 THEN d.in[l].id
                                      ELSE IF g(Clock(l)) = 1 THEN 0 ELSE d.top[l]]
<1>1. d.clk \in [DataLines -> 0 .. 2] /\ d.top \in [HostLines -> Nat] /\ d.in \in [HostLines -> Msgs] BY DrvFields
<1>2. \A l \in HostLines : Clock(l) \in DataLines /\ d.in[l].id \in Nat BY <1>1 DEF HostLines, DataLines, Clock, Msgs
<1>3. e = [d EXCEPT !.clk = c, !.top = t] BY DEF DriveValid
<1>4. \A k \in DataLines : g(k) \in 0 .. 2 BY <1>1
<1>5. \A l \in HostLines : d.in[l].id # 0 => g(Clock(l)) = 2 BY DEF Started
<1>6. \A l \in HostLines : d.top[l] # 0 /\ d.in[l].id = 0 => g(Clock(l)) = 1 OBVIOUS
<1>. HIDE DEF g
<1>7. c \in [DataLines -> 0 .. 2] BY <1>4
<1>8. \A l \in HostLines : d.in[l].id # 0 => c[Clock(l)] = 1 BY <1>2, <1>5
<1>9. \A l \in HostLines : t[l] = d.in[l].id BY <1>1, <1>2, <1>6
<1>10. t \in [HostLines -> Nat]
  <2>1. \A l \in HostLines : t[l] \in Nat BY <1>2, <1>9
  <2>2. t = [l \in HostLines |-> t[l]] OBVIOUS
  <2>. HIDE DEF t
  <2>. QED BY <2>1, <2>2
<1>. HIDE DEF c, t, e
<1>11. e \in DrvT BY <1>3, <1>7, <1>10 DEF DrvT
<1>12. /\ e.clk = c /\ e.top = t /\ e.out = d.out /\ e.avail = d.avail /\ e.ackPending = d.ackPending
       /\ e.cv = d.cv /\ e.ready = d.ready /\ e.aret = d.aret /\ e.req = d.req
       /\ e.in = d.in /\ e.ret = d.ret /\ e.fifo = d.fifo /\ e.rdCnt = d.rdCnt
  BY <1>3 DEF DrvT
<1>. QED BY <1>8, <1>9, <1>11, <1>12 DEF e

\* The lines of a message are put behind those that wait.
LEMMA QueueShape ==
  ASSUME NEW d \in DrvT, NEW k \in DataLines
  PROVE  LET n == d.in[k].n
             m == Len(d.fifo[k])
         IN /\ n \in Nat /\ m \in Nat /\ d.fifo[k] \in Seq(Nat) /\ d.in[k].first \in Nat
            /\ Queue(d, k) \in Seq(Nat) /\ Len(Queue(d, k)) = m + n
            /\ \A i \in 1 .. m : Queue(d, k)[i] = d.fifo[k][i]
            /\ \A i \in m + 1 .. m + n : Queue(d, k)[i] = d.in[k].first + (i - m - 1)
<1>. DEFINE n == d.in[k].n
            f == d.fifo[k]
            m == Len(f)
            a == d.in[k].first
            g == [i \in 1 .. n |-> a + (i - 1)]
<1>1. d.in[k] \in Msgs /\ f \in Seq(Nat)
  <2>1. d.in \in [HostLines -> Msgs] /\ d.fifo \in [DataLines -> Seq(Nat)] BY DrvFields
  <2>2. k \in HostLines BY DEF DataLines, HostLines
  <2>. QED BY <2>1, <2>2
<1>2. n \in Nat /\ a \in Nat /\ m \in Nat
  <2>1. n \in 0 .. Flits /\ a \in Nat BY <1>1 DEF Msgs
  <2>2. Flits \in Nat BY LinkAssumption
  <2>. QED BY <2>1, <2>2, <1>1
<1>3. Queue(d, k) = f \o g BY DEF Queue
<1>. HIDE DEF n, f, a
<1>4. g \in [1 .. n -> Nat] BY <1>2
<1>5. g \in Seq(Nat) /\ Len(g) = n BY <1>2, <1>4, FunctionIsSeq
<1>6. \A i \in 1 .. n : g[i] = a + (i - 1) OBVIOUS
<1>. HIDE DEF g
<1>7. /\ f \o g \in Seq(Nat) /\ Len(f \o g) = m + n
      /\ \A i \in 1 .. m + n : (f \o g)[i] = IF i <= m THEN f[i] ELSE g[i - m]
  BY <1>1, <1>5, ConcatProperties
<1>. HIDE DEF m
<1>8. \A i \in 1 .. m : (f \o g)[i] = f[i] BY <1>2, <1>7
<1>9. ASSUME NEW i \in m + 1 .. m + n PROVE (f \o g)[i] = a + (i - m - 1)
  <2>1. i \in 1 .. m + n /\ ~(i <= m) /\ i - m \in 1 .. n BY <1>2
  <2>. QED BY <2>1, <1>6, <1>7
<1>10. /\ n \in Nat /\ m \in Nat /\ f \in Seq(Nat) /\ a \in Nat
       /\ Queue(d, k) \in Seq(Nat) /\ Len(Queue(d, k)) = m + n
       /\ \A i \in 1 .. m : Queue(d, k)[i] = f[i]
       /\ \A i \in m + 1 .. m + n : Queue(d, k)[i] = a + (i - m - 1)
  BY <1>1, <1>2, <1>3, <1>7, <1>8, <1>9
<1>. QED BY <1>10 DEF n, m, f, a

\* A line goes out when one is asked for, and the fifo is not empty then.
Pops(d, rd, k) == d.rdCnt[k] > 0 \/ k \in rd

\* DriveData: the data of a message is queued, and a line goes out when one is asked for.
LEMMA LowData ==
  ASSUME Types, NEW d \in DrvT, NEW rd \in SUBSET DataLines, \A k \in rd : afu.want[k] > 0,
         \A k \in DataLines : d.rdCnt[k] + afu.want[k] = Len(d.fifo[k])
  PROVE  LET e == DriveCredits(DriveData(d, rd)) IN
         /\ e \in DrvT /\ e.in = NoHostMsgs /\ e.ret = None(Returns)
         /\ \A k \in DataLines :
              /\ Pops(d, rd, k) => Queue(d, k) # <<>>
              /\ e.fifo[k] = IF Pops(d, rd, k) THEN Tail(Queue(d, k)) ELSE Queue(d, k)
              /\ e.rdCnt[k] = (d.rdCnt[k] + (IF k \in rd THEN afu.want[k] ELSE 0)) - Bit(Pops(d, rd, k))
         /\ ~Crashes(d, rd)
         /\ e.out = d.out /\ e.avail = d.avail /\ e.ackPending = d.ackPending
         /\ e.cv = d.cv /\ e.ready = d.ready /\ e.aret = d.aret /\ e.req = d.req
         /\ e.clk = d.clk /\ e.top = d.top
<1>. DEFINE w == DriveData(d, rd)
            e == DriveCredits(w)
            cnt(k) == d.rdCnt[k] + (IF k \in rd THEN afu.want[k] ELSE 0)
            f == [k \in DataLines |->
                   IF cnt(k) > 0 /\ Queue(d, k) # <<>> THEN Tail(Queue(d, k)) ELSE Queue(d, k)]
            r == [k \in DataLines |-> IF cnt(k) > 0 THEN cnt(k) - 1 ELSE 0]
<1>1. d.rdCnt \in [DataLines -> Nat] /\ afu.want \in [DataLines -> Nat]
  BY DrvFields, AfuFields DEF Types
<1>2. \A k \in DataLines : cnt(k) \in Nat /\ (Pops(d, rd, k) <=> cnt(k) > 0) /\ cnt(k) <= Len(d.fifo[k])
  <2>. SUFFICES ASSUME NEW k \in DataLines
                PROVE  cnt(k) \in Nat /\ (Pops(d, rd, k) <=> cnt(k) > 0) /\ cnt(k) <= Len(d.fifo[k])
    OBVIOUS
  <2>1. d.rdCnt[k] \in Nat /\ afu.want[k] \in Nat /\ d.rdCnt[k] + afu.want[k] = Len(d.fifo[k]) BY <1>1
  <2>2. CASE k \in rd BY <2>1, <2>2 DEF Pops
  <2>3. CASE k \notin rd BY <2>1, <2>3 DEF Pops
  <2>. QED BY <2>2, <2>3
<1>3. w = [d EXCEPT !.fifo = f, !.rdCnt = r, !.in = NoHostMsgs] BY DEF DriveData
<1>4. e = [w EXCEPT !.ret = None(Returns)] BY DEF DriveCredits
<1>. HIDE DEF cnt
<1>5. \A k \in DataLines : Pops(d, rd, k) => Queue(d, k) # <<>>
  <2>. SUFFICES ASSUME NEW k \in DataLines, Pops(d, rd, k) PROVE Queue(d, k) # <<>> OBVIOUS
  <2>1. Len(Queue(d, k)) >= Len(d.fifo[k]) /\ Len(d.fifo[k]) \in Nat
    <3>. DEFINE n == d.in[k].n
                m == Len(d.fifo[k])
                q == Len(Queue(d, k))
    <3>1. n \in Nat /\ m \in Nat /\ q = m + n BY QueueShape
    <3>. HIDE DEF n, m, q
    <3>2. q >= m /\ m \in Nat BY <3>1
    <3>. QED BY <3>2 DEF q, m
  <2>2. Len(Queue(d, k)) > 0 BY <2>1, <1>2
  <2>. QED BY <2>2
<1>6. \A k \in DataLines : f[k] = IF Pops(d, rd, k) THEN Tail(Queue(d, k)) ELSE Queue(d, k) BY <1>2, <1>5
<1>7. \A k \in DataLines : r[k] = cnt(k) - Bit(Pops(d, rd, k)) /\ r[k] \in Nat BY <1>2 DEF Bit
<1>8. f \in [DataLines -> Seq(Nat)]
  <2>1. \A k \in DataLines : Queue(d, k) \in Seq(Nat) BY QueueShape
  <2>2. \A k \in DataLines : f[k] \in Seq(Nat) BY <2>1, <1>5, <1>6
  <2>3. f = [k \in DataLines |-> f[k]] OBVIOUS
  <2>. HIDE DEF f
  <2>. QED BY <2>2, <2>3
<1>9. r \in [DataLines -> Nat] BY <1>2
<1>10. ~Crashes(d, rd)
  <2>1. \A k \in Popped(d, rd) : k \in DataLines /\ Pops(d, rd, k) BY DEF Popped, Pops
  <2>. QED BY <2>1, <1>5 DEF Crashes
<1>. HIDE DEF w, e, f, r
<1>11. NoHostMsgs \in [HostLines -> Msgs] /\ None(Returns) \in [Returns -> 0 .. 1] BY NoneTypes
<1>12. w \in DrvT BY <1>3, <1>8, <1>9, <1>11 DEF DrvT
<1>13. e \in DrvT BY <1>4, <1>11, <1>12 DEF DrvT
<1>14. /\ w.fifo = f /\ w.rdCnt = r /\ w.in = NoHostMsgs
       /\ w.out = d.out /\ w.avail = d.avail /\ w.ackPending = d.ackPending
       /\ w.cv = d.cv /\ w.ready = d.ready /\ w.aret = d.aret /\ w.req = d.req
       /\ w.clk = d.clk /\ w.top = d.top
  BY <1>3 DEF DrvT
<1>15. /\ e.fifo = w.fifo /\ e.rdCnt = w.rdCnt /\ e.in = w.in /\ e.ret = None(Returns)
       /\ e.out = w.out /\ e.avail = w.avail /\ e.ackPending = w.ackPending
       /\ e.cv = w.cv /\ e.ready = w.ready /\ e.aret = w.aret /\ e.req = w.req
       /\ e.clk = w.clk /\ e.top = w.top
  BY <1>4, <1>12 DEF DrvT
<1>16. \A k \in DataLines :
         /\ Pops(d, rd, k) => Queue(d, k) # <<>>
         /\ e.fifo[k] = IF Pops(d, rd, k) THEN Tail(Queue(d, k)) ELSE Queue(d, k)
         /\ e.rdCnt[k] = (d.rdCnt[k] + (IF k \in rd THEN afu.want[k] ELSE 0)) - Bit(Pops(d, rd, k))
  <2>. SUFFICES ASSUME NEW k \in DataLines
                PROVE  /\ Pops(d, rd, k) => Queue(d, k) # <<>>
                       /\ e.fifo[k] = IF Pops(d, rd, k) THEN Tail(Queue(d, k)) ELSE Queue(d, k)
                       /\ e.rdCnt[k] = (d.rdCnt[k] + (IF k \in rd THEN afu.want[k] ELSE 0)) - Bit(Pops(d, rd, k))
    OBVIOUS
  <2>1. Pops(d, rd, k) => Queue(d, k) # <<>> BY <1>5
  <2>2. e.fifo[k] = IF Pops(d, rd, k) THEN Tail(Queue(d, k)) ELSE Queue(d, k) BY <1>6, <1>14, <1>15, Zenon
  <2>3. e.rdCnt[k] = cnt(k) - Bit(Pops(d, rd, k)) BY <1>7, <1>14, <1>15
  <2>4. e.rdCnt[k] = (d.rdCnt[k] + (IF k \in rd THEN afu.want[k] ELSE 0)) - Bit(Pops(d, rd, k)) BY <2>3 DEF cnt
  <2>. QED BY <2>1, <2>2, <2>4, Zenon
<1>. QED BY <1>10, <1>13, <1>14, <1>15, <1>16 DEF e, w

\* The AFU after its outputs have been taken.
LEMMA LowOutputs ==
  ASSUME Types, NEW o \in Outputs, Allowed(o)
  PROVE  LET a == AfterOutputs(o)
             S == Raised(o)
         IN /\ a \in AfuT /\ a.known = afu.known /\ a.got = afu.got /\ a.line = afu.line
            /\ \A l \in AfuLines : a.cr[l] = afu.cr[l] - Bit(l \in S)
            /\ \A k \in HostLines : a.owed[k] = afu.owed[k] - Bit(k \in o.ret)
            /\ a.cfg = (IF o.cfg THEN afu.asked ELSE afu.cfg)
            /\ a.asked = (IF o.cfg THEN 0 ELSE afu.asked)
            /\ a.job = (IF o.resp THEN 0 ELSE afu.job)
            /\ a.rbeats = afu.rbeats - Bit("rdata" \in S)
            /\ \A k \in DataLines : a.want[k] = IF k \in o.rd THEN 0 ELSE afu.want[k]
<1>. DEFINE S == Raised(o)
            a == AfterOutputs(o)
            c == [l \in AfuLines |-> afu.cr[l] - Bit(l \in S)]
            w == [k \in HostLines |-> afu.owed[k] - Bit(k \in o.ret)]
            b == (afu.beats + (IF o.cmd = "data2" THEN 1 ELSE 0)) - Bit(o.cdata)
            g == IF o.cfg THEN afu.asked ELSE afu.cfg
            k1 == IF o.cfg THEN 0 ELSE afu.asked
            j == IF o.resp THEN 0 ELSE afu.job
            r == afu.rbeats - Bit("rdata" \in S)
            n == [k \in DataLines |-> IF k \in o.rd THEN 0 ELSE afu.want[k]]
<1>1. afu \in AfuT BY DEF Types
<1>2. a = [afu EXCEPT !.cr = c, !.owed = w, !.beats = b, !.cfg = g, !.asked = k1, !.job = j,
                      !.rbeats = r, !.want = n]
  BY DEF AfterOutputs
<1>3. c \in [AfuLines -> Nat]
  <2>1. \A l \in S : afu.cr[l] > 0 BY DEF Allowed
  <2>2. afu.cr \in [AfuLines -> Nat] BY <1>1, AfuFields
  <2>. HIDE DEF S
  <2>. QED BY <2>1, <2>2 DEF Bit
<1>4. w \in [HostLines -> Nat]
  <2>1. \A k \in o.ret : afu.owed[k] > 0 BY OutputFacts
  <2>2. afu.owed \in [HostLines -> Nat] BY <1>1, AfuFields
  <2>. QED BY <2>1, <2>2 DEF Bit
<1>5. b \in Nat
  <2>1. o.cdata => afu.beats > 0 BY OutputFacts
  <2>2. afu.beats \in Nat BY <1>1, AfuFields
  <2>. QED BY <2>1, <2>2 DEF Bit
<1>6. g \in Nat /\ k1 \in Nat /\ j \in Nat BY <1>1, AfuFields
<1>7. r \in Nat
  <2>1. "rdata" \in S => afu.rbeats > 0 BY OutputFacts
  <2>2. afu.rbeats \in Nat BY <1>1, AfuFields
  <2>. HIDE DEF S
  <2>. QED BY <2>1, <2>2 DEF Bit
<1>8. n \in [DataLines -> Nat]
  <2>1. afu.want \in [DataLines -> Nat] BY <1>1, AfuFields
  <2>. QED BY <2>1
<1>9. /\ \A l \in AfuLines : c[l] = afu.cr[l] - Bit(l \in S)
      /\ \A k \in HostLines : w[k] = afu.owed[k] - Bit(k \in o.ret)
      /\ \A k \in DataLines : n[k] = IF k \in o.rd THEN 0 ELSE afu.want[k]
  OBVIOUS
<1>. HIDE DEF a, S, c, w, b, g, k1, j, r, n
<1>10. a \in AfuT
  <2>. DEFINE h == [afu EXCEPT !.cr = c, !.owed = w, !.beats = b, !.cfg = g]
  <2>1. h \in AfuT BY <1>1, <1>3, <1>4, <1>5, <1>6 DEF AfuT
  <2>2. a = [h EXCEPT !.asked = k1, !.job = j, !.rbeats = r, !.want = n] BY <1>1, <1>2 DEF AfuT
  <2>. HIDE DEF h
  <2>. QED BY <2>1, <2>2, <1>6, <1>7, <1>8 DEF AfuT
<1>11. /\ a.known = afu.known /\ a.got = afu.got /\ a.line = afu.line /\ a.cr = c /\ a.owed = w
       /\ a.cfg = g /\ a.asked = k1 /\ a.job = j /\ a.rbeats = r /\ a.want = n
  BY <1>1, <1>2 DEF AfuT
<1>. QED BY <1>9, <1>10, <1>11 DEF a, S, g, k1, j, r

\* The AFU when it has seen the wires.
LEMMA LowSees ==
  ASSUME Types, NEW a \in AfuT, NEW d \in DrvT, NEW e \in DrvT, NEW rd,
         \A l \in HostLines : e.top[l] = d.in[l].id,
         \A k \in DataLines : Pops(d, rd, k) => Queue(d, k) # <<>>
  PROVE  LET b == AfuSees(a, d, e, rd) IN
         /\ b \in AfuT
         /\ b.known = (a.known \/ d.cv)
         /\ \A l \in AfuLines : b.cr[l] = IF a.known THEN a.cr[l] + d.ret[l]
                                          ELSE IF d.cv THEN HostGrants[l] + d.ret[l] ELSE a.cr[l]
         /\ \A l \in HostLines : b.got[l] = a.got[l] + Bit(d.in[l].id # 0)
         /\ \A l \in HostLines : b.owed[l] = a.owed[l] + Bit(d.in[l].id # 0)
         /\ b.cfg = (IF d.ret["ack"] = 1 THEN 0 ELSE a.cfg)
         /\ b.asked = (IF d.in["cfg"].id # 0 THEN d.in["cfg"].id ELSE a.asked)
         /\ b.job = (IF d.in["cmd"].id # 0 THEN d.in["cmd"].id ELSE a.job)
         /\ b.rbeats = (IF d.in["cmd"].id # 0 /\ d.in["cmd"].n = 0 THEN engine.left ELSE a.rbeats)
         /\ \A k \in DataLines : b.want[k] = a.want[k] + d.in[k].n
         /\ \A k \in DataLines : b.line[k] = IF Pops(d, rd, k) THEN Head(Queue(d, k)) ELSE a.line[k]
<1>. DEFINE b == AfuSees(a, d, e, rd)
            kn == a.known \/ d.cv
            cr == [l \in AfuLines |-> d.ret[l]]
            c == IF a.known THEN Add(a.cr, cr) ELSE IF d.cv THEN Add(HostGrants, cr) ELSE a.cr
            g == [l \in HostLines |-> a.got[l] + Bit(e.top[l] # 0)]
            w == [l \in HostLines |-> a.owed[l] + Bit(e.top[l] # 0)]
            f == IF d.ret["ack"] = 1 THEN 0 ELSE a.cfg
            k1 == IF e.top["cfg"] # 0 THEN e.top["cfg"] ELSE a.asked
            j == IF e.top["cmd"] # 0 THEN e.top["cmd"] ELSE a.job
            r == IF e.top["cmd"] # 0 /\ d.in["cmd"].n = 0 THEN engine.left ELSE a.rbeats
            n == [k \in DataLines |-> a.want[k] + d.in[k].n]
            y == [k \in DataLines |-> IF k \in Popped(d, rd) /\ Queue(d, k) # <<>>
                                      THEN Head(Queue(d, k)) ELSE a.line[k]]
<1>0. /\ "cmd" \in HostLines /\ "cfg" \in HostLines /\ DataLines \subseteq HostLines
      /\ AfuLines \subseteq Returns
  BY DEF HostLines, DataLines, Returns
<1>1. b = [a EXCEPT !.known = kn, !.cr = c, !.got = g, !.owed = w, !.cfg = f, !.asked = k1, !.job = j,
                    !.rbeats = r, !.want = n, !.line = y]
  BY DEF AfuSees
<1>2. /\ a.known \in BOOLEAN /\ a.cr \in [AfuLines -> Nat] /\ a.got \in [HostLines -> Nat]
      /\ a.owed \in [HostLines -> Nat] /\ a.asked \in Nat /\ a.cfg \in Nat /\ a.job \in Nat
      /\ a.rbeats \in Nat /\ a.want \in [DataLines -> Nat] /\ a.line \in [DataLines -> Nat]
  BY AfuFields
<1>3. /\ d.cv \in BOOLEAN /\ d.ret \in [Returns -> 0 .. 1] /\ d.in \in [HostLines -> Msgs]
      /\ HostGrants \in [AfuLines -> Nat] /\ engine.left \in Nat /\ e.top \in [HostLines -> Nat]
  BY DrvFields, LinkAssumption DEF Types, EngineT
<1>4. kn \in BOOLEAN BY <1>2, <1>3
<1>5. /\ c \in [AfuLines -> Nat]
      /\ \A l \in AfuLines : c[l] = IF a.known THEN a.cr[l] + d.ret[l]
                                    ELSE IF d.cv THEN HostGrants[l] + d.ret[l] ELSE a.cr[l]
  <2>1. cr \in [AfuLines -> Nat] /\ \A l \in AfuLines : cr[l] = d.ret[l] BY <1>0, <1>3
  <2>. HIDE DEF cr
  <2>2. /\ Add(a.cr, cr) \in [AfuLines -> Nat] /\ Add(HostGrants, cr) \in [AfuLines -> Nat]
        /\ \A l \in AfuLines : Add(a.cr, cr)[l] = a.cr[l] + cr[l]
        /\ \A l \in AfuLines : Add(HostGrants, cr)[l] = HostGrants[l] + cr[l]
    BY <2>1, <1>2, <1>3 DEF Add
  <2>3. CASE a.known BY <2>1, <2>2, <2>3
  <2>4. CASE ~a.known /\ d.cv BY <2>1, <2>2, <2>4
  <2>5. CASE ~a.known /\ ~d.cv BY <1>2, <2>5
  <2>. QED BY <2>3, <2>4, <2>5, <1>2, <1>3
<1>6. /\ g \in [HostLines -> Nat] /\ w \in [HostLines -> Nat]
      /\ \A l \in HostLines : g[l] = a.got[l] + Bit(d.in[l].id # 0)
      /\ \A l \in HostLines : w[l] = a.owed[l] + Bit(d.in[l].id # 0)
  BY <1>2 DEF Bit
<1>7. /\ f \in Nat /\ k1 \in Nat /\ j \in Nat /\ r \in Nat
      /\ k1 = (IF d.in["cfg"].id # 0 THEN d.in["cfg"].id ELSE a.asked)
      /\ j = (IF d.in["cmd"].id # 0 THEN d.in["cmd"].id ELSE a.job)
      /\ r = (IF d.in["cmd"].id # 0 /\ d.in["cmd"].n = 0 THEN engine.left ELSE a.rbeats)
  <2>1. /\ e.top["cfg"] = d.in["cfg"].id /\ e.top["cmd"] = d.in["cmd"].id
        /\ e.top["cfg"] \in Nat /\ e.top["cmd"] \in Nat
    BY <1>0, <1>3
  <2>. QED BY <2>1, <1>2, <1>3
<1>8. n \in [DataLines -> Nat] /\ \A k \in DataLines : n[k] = a.want[k] + d.in[k].n
  <2>1. \A k \in DataLines : d.in[k].n \in Nat BY QueueShape
  <2>. QED BY <2>1, <1>2
<1>9. /\ y \in [DataLines -> Nat]
      /\ \A k \in DataLines : y[k] = IF Pops(d, rd, k) THEN Head(Queue(d, k)) ELSE a.line[k]
  <2>1. \A k \in DataLines : k \in Popped(d, rd) <=> Pops(d, rd, k) BY DEF Popped, Pops
  <2>2. \A k \in DataLines : y[k] = IF Pops(d, rd, k) THEN Head(Queue(d, k)) ELSE a.line[k] BY <2>1
  <2>3. \A k \in DataLines : Pops(d, rd, k) => Head(Queue(d, k)) \in Nat
    <3>1. \A k \in DataLines : Queue(d, k) \in Seq(Nat) BY QueueShape
    <3>. QED BY <3>1
  <2>4. y = [k \in DataLines |-> y[k]] OBVIOUS
  <2>. HIDE DEF y
  <2>5. \A k \in DataLines : y[k] \in Nat BY <2>2, <2>3, <1>2
  <2>. QED BY <2>2, <2>4, <2>5
<1>. HIDE DEF b, kn, c, g, w, f, k1, j, r, n, y
<1>10. b \in AfuT
  <2>. DEFINE h == [a EXCEPT !.known = kn, !.cr = c, !.got = g, !.owed = w]
              i == [h EXCEPT !.cfg = f, !.asked = k1, !.job = j]
  <2>1. h \in AfuT BY <1>4, <1>5, <1>6 DEF AfuT
  <2>2. b = [i EXCEPT !.rbeats = r, !.want = n, !.line = y] BY <1>1 DEF AfuT
  <2>. HIDE DEF h
  <2>3. i \in AfuT BY <2>1, <1>7 DEF AfuT
  <2>. HIDE DEF i
  <2>. QED BY <2>2, <2>3, <1>7, <1>8, <1>9 DEF AfuT
<1>11. /\ b.known = kn /\ b.cr = c /\ b.got = g /\ b.owed = w /\ b.cfg = f /\ b.asked = k1 /\ b.job = j
       /\ b.rbeats = r /\ b.want = n /\ b.line = y
  BY <1>1 DEF AfuT
<1>. QED BY <1>5, <1>6, <1>7, <1>8, <1>9, <1>10, <1>11 DEF b, kn, f

\* What the driver at clock 0 does with the outputs o, when every line that the AFU
\* raises is accepted and every wire that was up goes down.
LowEffect(o) ==
  LET S == Raised(o)
      T == TakesCfg(drv, S)
  IN
  /\ drv' \in DrvT /\ afu' \in AfuT /\ asent' \in [Lines -> Nat]
  /\ drv.pc = "low" /\ drv'.pc = "high" /\ drv'.in = NoHostMsgs /\ drv'.ret = None(Returns)
  /\ drv.out = None(Lines) /\ drv.aret = None(HostLines)
  /\ o \in Outputs /\ Allowed(o) /\ S \subseteq AfuLines
  /\ drv'.ready = (drv.ready \/ drv.cv) /\ drv'.cv = (drv.cv /\ drv.ready)
  /\ \A l \in AfuLines : drv'.avail[l] = (IF ~drv.ready /\ drv.cv THEN HostGrants[l] ELSE drv.avail[l]) - Bit(l \in S)
  /\ \A k \in HostLines : drv'.aret[k] = Bit(k \in o.ret)
  /\ drv'.req \/ drv'.aret = None(HostLines)
  /\ \A l \in AfuLines : drv'.out[l] = IF l \in S THEN asent[l] + 1 ELSE 0
  /\ drv'.out["cfg"] = IF T THEN afu.cfg ELSE 0
  /\ drv'.ackPending = IF afu.cfg = 0 THEN FALSE ELSE drv.ackPending \/ T
  /\ \A l \in HostLines : drv'.top[l] = drv.in[l].id /\ (drv.in[l].id # 0 => drv'.clk[Clock(l)] = 1)
  /\ \A l \in AfuLines : asent'[l] = asent[l] + Bit(l \in S)
  /\ asent'["cfg"] = asent["cfg"] + Bit(T)
  /\ afu'.known = (afu.known \/ (drv.cv /\ drv.ready))
  /\ \A l \in AfuLines : afu'.cr[l] = IF afu.known THEN (afu.cr[l] - Bit(l \in S)) + drv.ret[l]
                                      ELSE IF drv.cv /\ drv.ready THEN HostGrants[l] + drv.ret[l]
                                      ELSE afu.cr[l] - Bit(l \in S)
  /\ \A l \in HostLines : afu'.got[l] = afu.got[l] + Bit(drv.in[l].id # 0)
  /\ \A l \in HostLines : afu'.owed[l] = (afu.owed[l] - Bit(l \in o.ret)) + Bit(drv.in[l].id # 0)
  /\ afu'.cfg = (IF drv.ret["ack"] = 1 THEN 0 ELSE IF o.cfg THEN afu.asked ELSE afu.cfg)
  /\ afu'.asked = (IF drv.in["cfg"].id # 0 THEN drv.in["cfg"].id ELSE IF o.cfg THEN 0 ELSE afu.asked)
  /\ afu'.job = (IF drv.in["cmd"].id # 0 THEN drv.in["cmd"].id ELSE IF o.resp THEN 0 ELSE afu.job)
  /\ afu'.rbeats = (IF drv.in["cmd"].id # 0 /\ drv.in["cmd"].n = 0 THEN engine.left
                    ELSE afu.rbeats - Bit("rdata" \in S))
  /\ \A k \in DataLines :
       /\ afu'.want[k] = (IF k \in o.rd THEN 0 ELSE afu.want[k]) + drv.in[k].n
       /\ afu'.line[k] = IF Pops(drv, o.rd, k) THEN Head(Queue(drv, k)) ELSE afu.line[k]
       /\ Pops(drv, o.rd, k) => Queue(drv, k) # <<>>
       /\ drv'.fifo[k] = IF Pops(drv, o.rd, k) THEN Tail(Queue(drv, k)) ELSE Queue(drv, k)
       /\ drv'.rdCnt[k] = (drv.rdCnt[k] + (IF k \in o.rd THEN afu.want[k] ELSE 0)) - Bit(Pops(drv, o.rd, k))
  /\ UNCHANGED <<host, toDrv, toHost, engine, sent, link>>

\* No message of the AFU is refused and no fifo is found empty, so the step has these effects.
LEMMA LowFields ==
  ASSUME Types, Emptied, DriverLow, \A l \in AfuLines : AfuCredit(l),
         \A l \in HostLines : drv.top[l] # 0 /\ drv.in[l].id = 0 =>
                                drv.clk[Clock(l)] = 1 /\ ~Started(drv, Clock(l)),
         \A k \in DataLines : drv.rdCnt[k] + afu.want[k] = Len(drv.fifo[k])
  PROVE  \E o \in Outputs : LowEffect(o)
<1>1. PICK o \in Outputs :
        LET S == Raised(o)
            d1 == CreditReturns(InitialCredits(drv), o)
            d2 == afu_cfg_send_resp_and_data(afu_tlx_send(d1, S), S)
            d3 == DriveCredits(DriveData(DriveValid(d2), o.rd))
        IN /\ Allowed(o)
           /\ drv' = [d3 EXCEPT !.pc = "high"]
           /\ afu' = AfuSees(AfterOutputs(o), d2, d3, o.rd)
           /\ asent' = [l \in Lines |-> asent[l] + IF l = "cfg" THEN Bit(TakesCfg(d1, S)) ELSE Bit(l \in S)]
           /\ link' = IF Crashes(d2, o.rd) THEN "crashed" ELSE link
  BY Zenon DEF DriverLow
<1>2. drv.pc = "low" /\ UNCHANGED <<host, toDrv, toHost, engine, sent>> BY Zenon DEF DriverLow
<1>. DEFINE S == Raised(o)
            d1 == CreditReturns(InitialCredits(drv), o)
            d2 == afu_cfg_send_resp_and_data(afu_tlx_send(d1, S), S)
            v == DriveValid(d2)
            d3 == DriveCredits(DriveData(v, o.rd))
            a == AfterOutputs(o)
            b == AfuSees(a, d2, d3, o.rd)
            T == TakesCfg(drv, S)
<1>3. drv \in DrvT /\ afu \in AfuT /\ asent \in [Lines -> Nat] /\ engine \in EngineT BY DEF Types
<1>4. drv.out = None(Lines) /\ drv.aret = None(HostLines) BY <1>2 DEF Emptied
<1>5. S \in SUBSET AfuLines BY DEF Raised
<1>6. o.rd \in SUBSET DataLines /\ \A k \in o.rd : afu.want[k] > 0
  <2>1. afu.want \in [DataLines -> Nat] BY <1>3, AfuFields
  <2>. QED BY <2>1, OutputFacts
<1>7. /\ d1 \in DrvT
      /\ d1.cv = (drv.cv /\ drv.ready) /\ d1.ready = (drv.ready \/ drv.cv)
      /\ d1.avail = (IF ~drv.ready /\ drv.cv THEN HostGrants ELSE drv.avail)
      /\ \A k \in HostLines : d1.aret[k] = Bit(k \in o.ret)
      /\ d1.req \/ d1.aret = None(HostLines)
      /\ d1.out = drv.out /\ d1.in = drv.in /\ d1.ret = drv.ret /\ d1.ackPending = drv.ackPending
      /\ d1.clk = drv.clk /\ d1.top = drv.top /\ d1.fifo = drv.fifo /\ d1.rdCnt = drv.rdCnt
  BY <1>3, LowCredits
<1>8. \A l \in S : d1.avail[l] > 0
  <2>. SUFFICES ASSUME NEW l \in S PROVE d1.avail[l] > 0 OBVIOUS
  <2>1. afu.cr[l] > 0 /\ l \in AfuLines BY <1>1, <1>5 DEF Allowed
  <2>2. AfuCredit(l) BY <2>1
  <2>3. HostGrants[l] > 0 BY <2>1, LinkAssumption
  <2>4. afu.cr[l] \in Nat /\ drv.ret[l] \in 0 .. 1
    <3>1. afu.cr \in [AfuLines -> Nat] /\ drv.ret \in [Returns -> 0 .. 1] /\ l \in Returns
      BY <1>3, <2>1, AfuFields, DrvFields DEF Returns
    <3>. QED BY <3>1, <2>1
  <2>5. drv.avail[l] > 0 BY <2>1, <2>2, <2>4 DEF AfuCredit
  <2>. QED BY <1>7, <2>3, <2>5
<1>9. TakesCfg(d1, S) = T BY <1>7 DEF TakesCfg
<1>10. afu.cfg \in Nat BY <1>3, AfuFields
<1>. HIDE DEF d1, S
<1>. HIDE DEF T
<1>11. /\ d2 \in DrvT
       /\ \A l \in AfuLines : d2.out[l] = IF l \in S THEN asent[l] + 1 ELSE 0
       /\ d2.out["cfg"] = IF T THEN afu.cfg ELSE 0
       /\ \A l \in AfuLines : d2.avail[l] = d1.avail[l] - Bit(l \in S)
       /\ d2.ackPending = IF afu.cfg = 0 THEN FALSE ELSE drv.ackPending \/ T
       /\ d2.cv = d1.cv /\ d2.ready = d1.ready /\ d2.aret = d1.aret /\ d2.req = d1.req
       /\ d2.in = d1.in /\ d2.ret = d1.ret
       /\ d2.clk = d1.clk /\ d2.top = d1.top /\ d2.fifo = d1.fifo /\ d2.rdCnt = d1.rdCnt
  <2>1. d1.out = None(Lines) /\ d1 \in DrvT /\ asent \in [Lines -> Nat] BY <1>3, <1>4, <1>7
  <2>2. /\ d2 \in DrvT
        /\ \A l \in AfuLines : d2.out[l] = IF l \in S THEN asent[l] + 1 ELSE 0
        /\ d2.out["cfg"] = IF TakesCfg(d1, S) THEN afu.cfg ELSE 0
        /\ \A l \in AfuLines : d2.avail[l] = d1.avail[l] - Bit(l \in S)
        /\ d2.ackPending = IF afu.cfg = 0 THEN FALSE ELSE d1.ackPending \/ TakesCfg(d1, S)
        /\ d2.cv = d1.cv /\ d2.ready = d1.ready /\ d2.aret = d1.aret /\ d2.req = d1.req
        /\ d2.in = d1.in /\ d2.ret = d1.ret
        /\ d2.clk = d1.clk /\ d2.top = d1.top /\ d2.fifo = d1.fifo /\ d2.rdCnt = d1.rdCnt
    BY <1>5, <1>8, <1>10, <2>1, LowSends
  <2>. HIDE DEF d2
  <2>3. d2.out["cfg"] = IF T THEN afu.cfg ELSE 0 BY <2>2, <1>9, Zenon
  <2>4. d2.ackPending = IF afu.cfg = 0 THEN FALSE ELSE drv.ackPending \/ T
    <3>1. d1.ackPending = drv.ackPending BY <1>7
    <3>. QED BY <2>2, <3>1, <1>9, Zenon
  <2>. QED BY <2>2, <2>3, <2>4, Zenon
<1>. HIDE DEF d2
<1>12. \A l \in HostLines : d2.top[l] # 0 /\ d2.in[l].id = 0 =>
                              d2.clk[Clock(l)] = 1 /\ ~Started(d2, Clock(l))
  BY <1>7, <1>11 DEF Started
<1>13. /\ v \in DrvT
       /\ \A l \in HostLines : v.top[l] = d2.in[l].id
       /\ \A l \in HostLines : d2.in[l].id # 0 => v.clk[Clock(l)] = 1
       /\ v.out = d2.out /\ v.avail = d2.avail /\ v.ackPending = d2.ackPending
       /\ v.cv = d2.cv /\ v.ready = d2.ready /\ v.aret = d2.aret /\ v.req = d2.req
       /\ v.in = d2.in /\ v.ret = d2.ret /\ v.fifo = d2.fifo /\ v.rdCnt = d2.rdCnt
  BY <1>11, <1>12, LowWires
<1>. HIDE DEF v
<1>14. \A k \in DataLines : v.rdCnt[k] + afu.want[k] = Len(v.fifo[k]) BY <1>7, <1>11, <1>13
<1>15. /\ d3 \in DrvT /\ d3.in = NoHostMsgs /\ d3.ret = None(Returns)
       /\ \A k \in DataLines :
            /\ Pops(v, o.rd, k) => Queue(v, k) # <<>>
            /\ d3.fifo[k] = IF Pops(v, o.rd, k) THEN Tail(Queue(v, k)) ELSE Queue(v, k)
            /\ d3.rdCnt[k] = (v.rdCnt[k] + (IF k \in o.rd THEN afu.want[k] ELSE 0)) - Bit(Pops(v, o.rd, k))
       /\ ~Crashes(v, o.rd)
       /\ d3.out = v.out /\ d3.avail = v.avail /\ d3.ackPending = v.ackPending
       /\ d3.cv = v.cv /\ d3.ready = v.ready /\ d3.aret = v.aret /\ d3.req = v.req
       /\ d3.clk = v.clk /\ d3.top = v.top
  BY <1>6, <1>13, <1>14, LowData
<1>. HIDE DEF d3
<1>16. \A k \in DataLines : /\ Queue(v, k) = Queue(drv, k) /\ Queue(d2, k) = Queue(drv, k)
                            /\ Pops(v, o.rd, k) <=> Pops(drv, o.rd, k)
                            /\ Pops(d2, o.rd, k) <=> Pops(drv, o.rd, k)
  <2>1. v.fifo = drv.fifo /\ v.in = drv.in /\ v.rdCnt = drv.rdCnt BY <1>7, <1>11, <1>13
  <2>2. d2.fifo = drv.fifo /\ d2.in = drv.in /\ d2.rdCnt = drv.rdCnt BY <1>7, <1>11
  <2>. QED BY <2>1, <2>2, Zenon DEF Queue, Pops
<1>17. ~Crashes(d2, o.rd)
  <2>1. Popped(d2, o.rd) = Popped(v, o.rd) BY <1>13 DEF Popped
  <2>2. Popped(d2, o.rd) \subseteq DataLines BY DEF Popped
  <2>. QED BY <2>1, <2>2, <1>15, <1>16, Zenon DEF Crashes
<1>18. /\ a \in AfuT /\ a.known = afu.known /\ a.got = afu.got /\ a.line = afu.line
       /\ \A l \in AfuLines : a.cr[l] = afu.cr[l] - Bit(l \in S)
       /\ \A k \in HostLines : a.owed[k] = afu.owed[k] - Bit(k \in o.ret)
       /\ a.cfg = (IF o.cfg THEN afu.asked ELSE afu.cfg)
       /\ a.asked = (IF o.cfg THEN 0 ELSE afu.asked)
       /\ a.job = (IF o.resp THEN 0 ELSE afu.job)
       /\ a.rbeats = afu.rbeats - Bit("rdata" \in S)
       /\ \A k \in DataLines : a.want[k] = IF k \in o.rd THEN 0 ELSE afu.want[k]
  BY <1>1, LowOutputs DEF S
<1>. HIDE DEF a
<1>19. \A l \in HostLines : d3.top[l] = d2.in[l].id BY <1>13, <1>15
<1>20. \A k \in DataLines : Pops(d2, o.rd, k) => Queue(d2, k) # <<>> BY <1>15, <1>16, Zenon
<1>21. /\ b \in AfuT
       /\ b.known = (a.known \/ d2.cv)
       /\ \A l \in AfuLines : b.cr[l] = IF a.known THEN a.cr[l] + d2.ret[l]
                                        ELSE IF d2.cv THEN HostGrants[l] + d2.ret[l] ELSE a.cr[l]
       /\ \A l \in HostLines : b.got[l] = a.got[l] + Bit(d2.in[l].id # 0)
       /\ \A l \in HostLines : b.owed[l] = a.owed[l] + Bit(d2.in[l].id # 0)
       /\ b.cfg = (IF d2.ret["ack"] = 1 THEN 0 ELSE a.cfg)
       /\ b.asked = (IF d2.in["cfg"].id # 0 THEN d2.in["cfg"].id ELSE a.asked)
       /\ b.job = (IF d2.in["cmd"].id # 0 THEN d2.in["cmd"].id ELSE a.job)
       /\ b.rbeats = (IF d2.in["cmd"].id # 0 /\ d2.in["cmd"].n = 0 THEN engine.left ELSE a.rbeats)
       /\ \A k \in DataLines : b.want[k] = a.want[k] + d2.in[k].n
       /\ \A k \in DataLines : b.line[k] = IF Pops(d2, o.rd, k) THEN Head(Queue(d2, k)) ELSE a.line[k]
  BY <1>11, <1>15, <1>18, <1>19, <1>20, LowSees
<1>. HIDE DEF b
<1>22. drv' = [d3 EXCEPT !.pc = "high"] /\ afu' = b /\ link' = link
  BY <1>1, <1>17, Zenon DEF d3, v, d2, d1, S, a, b
<1>23. drv' \in DrvT BY <1>15, <1>22 DEF DrvT
<1>24. /\ drv'.pc = "high" /\ drv'.out = d3.out /\ drv'.in = d3.in /\ drv'.cv = d3.cv /\ drv'.ret = d3.ret
       /\ drv'.req = d3.req /\ drv'.aret = d3.aret /\ drv'.avail = d3.avail /\ drv'.ready = d3.ready
       /\ drv'.ackPending = d3.ackPending /\ drv'.clk = d3.clk /\ drv'.top = d3.top
       /\ drv'.fifo = d3.fifo /\ drv'.rdCnt = d3.rdCnt
  BY <1>15, <1>22 DEF DrvT
<1>25. asent' = [l \in Lines |-> asent[l] + IF l = "cfg" THEN Bit(T) ELSE Bit(l \in S)]
  BY <1>1, <1>9, Zenon DEF S, d1
<1>26. /\ asent' \in [Lines -> Nat] /\ asent'["cfg"] = asent["cfg"] + Bit(T)
       /\ \A l \in AfuLines : asent'[l] = asent[l] + Bit(l \in S)
  <2>1. AfuLines \subseteq Lines /\ "cfg" \in Lines /\ "cfg" \notin AfuLines BY DEF Lines, AfuLines
  <2>. QED BY <1>3, <1>25, <2>1 DEF Bit
<1>27. LowEffect(o)
  <2>1. /\ drv'.pc = "high" /\ drv'.in = NoHostMsgs /\ drv'.ret = None(Returns) BY <1>15, <1>24
  <2>2. drv'.ready = (drv.ready \/ drv.cv) /\ drv'.cv = (drv.cv /\ drv.ready)
    BY <1>7, <1>11, <1>13, <1>15, <1>24
  <2>3. \A l \in AfuLines :
          drv'.avail[l] = (IF ~drv.ready /\ drv.cv THEN HostGrants[l] ELSE drv.avail[l]) - Bit(l \in S)
    BY <1>7, <1>11, <1>13, <1>15, <1>24
  <2>4. (\A k \in HostLines : drv'.aret[k] = Bit(k \in o.ret)) /\ (drv'.req \/ drv'.aret = None(HostLines))
    BY <1>7, <1>11, <1>13, <1>15, <1>24
  <2>5. /\ \A l \in AfuLines : drv'.out[l] = IF l \in S THEN asent[l] + 1 ELSE 0
        /\ drv'.out["cfg"] = IF T THEN afu.cfg ELSE 0
        /\ drv'.ackPending = IF afu.cfg = 0 THEN FALSE ELSE drv.ackPending \/ T
    BY <1>11, <1>13, <1>15, <1>24
  <2>6. \A l \in HostLines : drv'.top[l] = drv.in[l].id /\ (drv.in[l].id # 0 => drv'.clk[Clock(l)] = 1)
    BY <1>7, <1>11, <1>13, <1>15, <1>24
  <2>7. afu'.known = (afu.known \/ (drv.cv /\ drv.ready)) BY <1>7, <1>11, <1>18, <1>21, <1>22
  <2>8. \A l \in AfuLines : afu'.cr[l] = IF afu.known THEN (afu.cr[l] - Bit(l \in S)) + drv.ret[l]
                                         ELSE IF drv.cv /\ drv.ready THEN HostGrants[l] + drv.ret[l]
                                         ELSE afu.cr[l] - Bit(l \in S)
    <3>1. d2.ret = drv.ret /\ d2.cv = (drv.cv /\ drv.ready) /\ a.known = afu.known BY <1>7, <1>11, <1>18
    <3>2. ASSUME NEW l \in AfuLines
          PROVE  afu'.cr[l] = IF afu.known THEN (afu.cr[l] - Bit(l \in S)) + drv.ret[l]
                              ELSE IF drv.cv /\ drv.ready THEN HostGrants[l] + drv.ret[l]
                              ELSE afu.cr[l] - Bit(l \in S)
      <4>1. b.cr[l] = IF a.known THEN a.cr[l] + d2.ret[l]
                      ELSE IF d2.cv THEN HostGrants[l] + d2.ret[l] ELSE a.cr[l]
        BY <1>21
      <4>2. a.cr[l] = afu.cr[l] - Bit(l \in S) BY <1>18
      <4>3. CASE afu.known BY <4>1, <4>2, <4>3, <3>1, <1>22
      <4>4. CASE ~afu.known /\ drv.cv /\ drv.ready BY <4>1, <4>2, <4>4, <3>1, <1>22
      <4>5. CASE ~afu.known /\ ~(drv.cv /\ drv.ready) BY <4>1, <4>2, <4>5, <3>1, <1>22
      <4>. QED BY <4>3, <4>4, <4>5
    <3>. QED BY <3>2
  <2>9. /\ \A l \in HostLines : afu'.got[l] = afu.got[l] + Bit(drv.in[l].id # 0)
        /\ \A l \in HostLines : afu'.owed[l] = (afu.owed[l] - Bit(l \in o.ret)) + Bit(drv.in[l].id # 0)
    BY <1>7, <1>11, <1>18, <1>21, <1>22
  <2>10. /\ afu'.cfg = (IF drv.ret["ack"] = 1 THEN 0 ELSE IF o.cfg THEN afu.asked ELSE afu.cfg)
         /\ afu'.asked = (IF drv.in["cfg"].id # 0 THEN drv.in["cfg"].id ELSE IF o.cfg THEN 0 ELSE afu.asked)
         /\ afu'.job = (IF drv.in["cmd"].id # 0 THEN drv.in["cmd"].id ELSE IF o.resp THEN 0 ELSE afu.job)
         /\ afu'.rbeats = (IF drv.in["cmd"].id # 0 /\ drv.in["cmd"].n = 0 THEN engine.left
                           ELSE afu.rbeats - Bit("rdata" \in S))
    BY <1>7, <1>11, <1>18, <1>21, <1>22
  <2>11. ASSUME NEW k \in DataLines
         PROVE  /\ afu'.want[k] = (IF k \in o.rd THEN 0 ELSE afu.want[k]) + drv.in[k].n
                /\ afu'.line[k] = IF Pops(drv, o.rd, k) THEN Head(Queue(drv, k)) ELSE afu.line[k]
                /\ Pops(drv, o.rd, k) => Queue(drv, k) # <<>>
                /\ drv'.fifo[k] = IF Pops(drv, o.rd, k) THEN Tail(Queue(drv, k)) ELSE Queue(drv, k)
                /\ drv'.rdCnt[k] = (drv.rdCnt[k] + (IF k \in o.rd THEN afu.want[k] ELSE 0))
                                     - Bit(Pops(drv, o.rd, k))
    <3>1. afu'.want[k] = (IF k \in o.rd THEN 0 ELSE afu.want[k]) + drv.in[k].n
      BY <1>7, <1>11, <1>18, <1>21, <1>22
    <3>2. afu'.line[k] = IF Pops(drv, o.rd, k) THEN Head(Queue(drv, k)) ELSE afu.line[k]
      BY <1>16, <1>18, <1>21, <1>22, Zenon
    <3>3. Pops(drv, o.rd, k) => Queue(drv, k) # <<>> BY <1>16, <1>20, Zenon
    <3>4. drv'.fifo[k] = IF Pops(drv, o.rd, k) THEN Tail(Queue(drv, k)) ELSE Queue(drv, k)
      BY <1>15, <1>16, <1>24, Zenon
    <3>5. drv'.rdCnt[k] = (drv.rdCnt[k] + (IF k \in o.rd THEN afu.want[k] ELSE 0)) - Bit(Pops(drv, o.rd, k))
      <4>1. v.rdCnt = drv.rdCnt /\ drv'.rdCnt = d3.rdCnt BY <1>7, <1>11, <1>13, <1>24
      <4>2. d3.rdCnt[k] = (v.rdCnt[k] + (IF k \in o.rd THEN afu.want[k] ELSE 0)) - Bit(Pops(v, o.rd, k))
        BY <1>15, Zenon
      <4>3. Bit(Pops(v, o.rd, k)) = Bit(Pops(drv, o.rd, k)) BY <1>16, Zenon DEF Bit
      <4>. QED BY <4>1, <4>2, <4>3
    <3>. QED BY <3>1, <3>2, <3>3, <3>4, <3>5, Zenon
  <2>12. afu' \in AfuT BY <1>21, <1>22
  <2>. QED BY <1>1, <1>2, <1>4, <1>5, <1>22, <1>23, <1>26, <2>1, <2>2, <2>3, <2>4, <2>5, <2>6, <2>7, <2>8,
              <2>9, <2>10, <2>11, <2>12, Zenon DEF LowEffect, S, T
<1>. QED BY <1>27

-----------------------------------------------------------------------------
(***************************************************************************)
(* The two ends of a line and what is between them.                        *)
(***************************************************************************)
EndTypes ==
  /\ \A l \in HostLines :
       /\ drv.in[l].id \in Nat /\ host.out[l].id \in Nat /\ afu.got[l] \in Nat /\ sent[l] \in Nat
       /\ afu.owed[l] \in Nat /\ host.avail[l] \in Nat /\ drv.aret[l] \in 0 .. 1
       /\ IdsDown(l) \in Seq(Nat) /\ NonZeros(IdsDown(l)) \in Nat
       /\ RetsUp(l) \in Seq(Nat) /\ NonZeros(RetsUp(l)) \in Nat
  /\ \A l \in Lines :
       /\ host.in[l] \in Nat /\ drv.out[l] \in Nat /\ engine.got[l] \in Nat /\ asent[l] \in Nat
       /\ IdsUp(l) \in Seq(Nat) /\ NonZeros(IdsUp(l)) \in Nat
  /\ \A k \in Returns :
       /\ host.ret[k] \in 0 .. 1 /\ drv.ret[k] \in 0 .. 1
       /\ RetsDown(k) \in Seq(Nat) /\ NonZeros(RetsDown(k)) \in Nat
  /\ \A l \in AfuLines : drv.avail[l] \in Nat /\ afu.cr[l] \in Nat

DownAlong(l) == Along(drv.in[l].id, IdsDown(l), host.out[l].id, afu.got[l], sent[l])
UpAlong(l) == Along(host.in[l], IdsUp(l), drv.out[l], engine.got[l], asent[l])

\* The types of the ends of a line and of what is between them.
LEMMA Ends == Types => EndTypes
<1>. SUFFICES ASSUME Types PROVE EndTypes OBVIOUS
<1>1. host \in HostT /\ drv \in DrvT /\ afu \in AfuT /\ engine \in EngineT
      /\ sent \in [HostLines -> Nat] /\ asent \in [Lines -> Nat]
  BY DEF Types
<1>2. ASSUME NEW l \in HostLines
      PROVE  /\ drv.in[l].id \in Nat /\ host.out[l].id \in Nat /\ afu.got[l] \in Nat /\ sent[l] \in Nat
             /\ afu.owed[l] \in Nat /\ host.avail[l] \in Nat /\ drv.aret[l] \in 0 .. 1
             /\ IdsDown(l) \in Seq(Nat) /\ NonZeros(IdsDown(l)) \in Nat
             /\ RetsUp(l) \in Seq(Nat) /\ NonZeros(RetsUp(l)) \in Nat
  <2>1. drv.in[l] \in Msgs /\ host.out[l] \in Msgs BY <1>1, HostFields, DrvFields
  <2>2. drv.in[l].id \in Nat /\ host.out[l].id \in Nat BY <2>1 DEF Msgs
  <2>3. /\ afu.got[l] \in Nat /\ sent[l] \in Nat
        /\ afu.owed[l] \in Nat /\ host.avail[l] \in Nat /\ drv.aret[l] \in 0 .. 1
    BY <1>1, HostFields, DrvFields, AfuFields
  <2>4. IdsDown(l) \in Seq(Nat) /\ RetsUp(l) \in Seq(Nat) BY LineTypes
  <2>5. NonZeros(IdsDown(l)) \in Nat /\ NonZeros(RetsUp(l)) \in Nat BY <2>4, NonZerosNat
  <2>. QED BY <2>2, <2>3, <2>4, <2>5
<1>3. ASSUME NEW l \in Lines
      PROVE  /\ host.in[l] \in Nat /\ drv.out[l] \in Nat /\ engine.got[l] \in Nat /\ asent[l] \in Nat
             /\ IdsUp(l) \in Seq(Nat) /\ NonZeros(IdsUp(l)) \in Nat
  <2>1. engine.got \in [Lines -> Nat] BY <1>1 DEF EngineT
  <2>2. /\ host.in[l] \in Nat /\ drv.out[l] \in Nat /\ engine.got[l] \in Nat /\ asent[l] \in Nat
    BY <1>1, <2>1, HostFields, DrvFields
  <2>3. IdsUp(l) \in Seq(Nat) BY LineTypes
  <2>. QED BY <2>2, <2>3, NonZerosNat
<1>4. ASSUME NEW k \in Returns
      PROVE  /\ host.ret[k] \in 0 .. 1 /\ drv.ret[k] \in 0 .. 1
             /\ RetsDown(k) \in Seq(Nat) /\ NonZeros(RetsDown(k)) \in Nat
  <2>1. host.ret[k] \in 0 .. 1 /\ drv.ret[k] \in 0 .. 1 BY <1>1, HostFields, DrvFields
  <2>2. RetsDown(k) \in Seq(Nat) BY LineTypes
  <2>. QED BY <2>1, <2>2, NonZerosNat
<1>5. \A l \in AfuLines : drv.avail[l] \in Nat /\ afu.cr[l] \in Nat BY <1>1, DrvFields, AfuFields
<1>. QED BY <1>2, <1>3, <1>4, <1>5 DEF EndTypes

\* What a line carries, in terms of its places.
LEMMA Alongs == Types => /\ \A l \in HostLines : Downward(l) <=> DownAlong(l)
                         /\ \A l \in Lines : Upward(l) <=> UpAlong(l)
<1>. SUFFICES ASSUME Types
              PROVE  /\ \A l \in HostLines : Downward(l) <=> DownAlong(l)
                     /\ \A l \in Lines : Upward(l) <=> UpAlong(l)
  OBVIOUS
<1>1. EndTypes BY Ends
<1>2. ASSUME NEW l \in HostLines PROVE Downward(l) <=> DownAlong(l)
  <2>1. /\ drv.in[l].id \in Nat /\ host.out[l].id \in Nat /\ afu.got[l] \in Nat /\ sent[l] \in Nat
        /\ IdsDown(l) \in Seq(Nat)
    BY <1>1 DEF EndTypes
  <2>. QED BY <2>1, CarriesAlong DEF Downward, DownAlong
<1>3. ASSUME NEW l \in Lines PROVE Upward(l) <=> UpAlong(l)
  <2>1. /\ host.in[l] \in Nat /\ drv.out[l] \in Nat /\ engine.got[l] \in Nat /\ asent[l] \in Nat
        /\ IdsUp(l) \in Seq(Nat)
    BY <1>1 DEF EndTypes
  <2>. QED BY <2>1, CarriesAlong DEF Upward, UpAlong
<1>. QED BY <1>2, <1>3

\* The same of the next state.
LEMMA EndsNext == Types' => EndTypes'
BY Ends, PTL

\* The lines of the next state, place by place.
LEMMA AlongsNext == Types' => (/\ \A l \in HostLines : Downward(l) <=> DownAlong(l)
                               /\ \A l \in Lines : Upward(l) <=> UpAlong(l))'
BY Alongs, PTL

\* A line to the AFU whose numbers agree has nothing on it, and else something.
LEMMA DownCount ==
  ASSUME Types, NEW l \in HostLines, Downward(l)
  PROVE  /\ afu.got[l] <= sent[l]
         /\ afu.got[l] = sent[l] => /\ drv.in[l].id = 0 /\ host.out[l].id = 0 /\ NonZeros(IdsDown(l)) = 0
                                    /\ \A i \in DOMAIN toDrv : toDrv[i].msg[l].id = 0
         /\ drv.in[l].id # 0 => drv.in[l].id = afu.got[l] + 1 /\ afu.got[l] < sent[l]
<1>1. DownAlong(l) BY Alongs
<1>2. /\ drv.in[l].id \in Nat /\ host.out[l].id \in Nat /\ afu.got[l] \in Nat /\ sent[l] \in Nat
      /\ IdsDown(l) \in Seq(Nat)
  BY Ends DEF EndTypes
<1>3. /\ afu.got[l] <= sent[l]
      /\ afu.got[l] = sent[l] => /\ drv.in[l].id = 0 /\ host.out[l].id = 0
                                 /\ \A i \in DOMAIN IdsDown(l) : IdsDown(l)[i] = 0
  BY <1>1, <1>2, AlongEmpty DEF DownAlong
<1>4. drv.in[l].id # 0 => drv.in[l].id = afu.got[l] + 1 /\ afu.got[l] + 1 <= sent[l]
  BY <1>1, <1>2, AlongTake DEF DownAlong
<1>5. NonZeros(IdsDown(l)) = 0 <=> \A i \in DOMAIN IdsDown(l) : IdsDown(l)[i] = 0 BY <1>2, NonZerosNat
<1>6. (\A i \in DOMAIN IdsDown(l) : IdsDown(l)[i] = 0) => \A i \in DOMAIN toDrv : toDrv[i].msg[l].id = 0
  BY DEF IdsDown
<1>. QED BY <1>2, <1>3, <1>4, <1>5, <1>6

\* The same for a line to ocse.
LEMMA UpCount ==
  ASSUME Types, NEW l \in Lines, Upward(l)
  PROVE  /\ engine.got[l] <= asent[l]
         /\ engine.got[l] = asent[l] => /\ host.in[l] = 0 /\ drv.out[l] = 0 /\ NonZeros(IdsUp(l)) = 0
                                        /\ \A i \in DOMAIN toHost : toHost[i].msg[l] = 0
         /\ engine.got[l] # asent[l] => host.in[l] # 0 \/ drv.out[l] # 0 \/ \E i \in DOMAIN toHost : toHost[i].msg[l] # 0
         /\ host.in[l] # 0 => host.in[l] = engine.got[l] + 1 /\ engine.got[l] < asent[l]
<1>1. UpAlong(l) BY Alongs
<1>2. /\ host.in[l] \in Nat /\ drv.out[l] \in Nat /\ engine.got[l] \in Nat /\ asent[l] \in Nat
      /\ IdsUp(l) \in Seq(Nat)
  BY Ends DEF EndTypes
<1>3. /\ engine.got[l] <= asent[l]
      /\ engine.got[l] = asent[l] => /\ host.in[l] = 0 /\ drv.out[l] = 0
                                     /\ \A i \in DOMAIN IdsUp(l) : IdsUp(l)[i] = 0
      /\ engine.got[l] # asent[l] => host.in[l] # 0 \/ drv.out[l] # 0 \/ \E i \in DOMAIN IdsUp(l) : IdsUp(l)[i] # 0
  <2>. DEFINE q == IdsUp(l)
              x == host.in[l]
              y == drv.out[l]
              a == engine.got[l]
              b == asent[l]
  <2>1. Along(x, q, y, a, b) /\ x \in Nat /\ q \in Seq(Nat) /\ y \in Nat /\ a \in Nat /\ b \in Nat
    BY <1>1, <1>2 DEF UpAlong
  <2>. HIDE DEF q, x, y, a, b
  <2>2. /\ a <= b
        /\ a = b => x = 0 /\ y = 0 /\ \A i \in DOMAIN q : q[i] = 0
        /\ a # b => x # 0 \/ y # 0 \/ \E i \in DOMAIN q : q[i] # 0
    BY <2>1, AlongEmpty
  <2>. QED BY <2>2, Zenon DEF q, x, y, a, b
<1>4. host.in[l] # 0 => host.in[l] = engine.got[l] + 1 /\ engine.got[l] + 1 <= asent[l]
  BY <1>1, <1>2, AlongTake DEF UpAlong
<1>5. NonZeros(IdsUp(l)) = 0 <=> \A i \in DOMAIN IdsUp(l) : IdsUp(l)[i] = 0 BY <1>2, NonZerosNat
<1>6. /\ (\A i \in DOMAIN IdsUp(l) : IdsUp(l)[i] = 0) => \A i \in DOMAIN toHost : toHost[i].msg[l] = 0
      /\ (\E i \in DOMAIN IdsUp(l) : IdsUp(l)[i] # 0) => \E i \in DOMAIN toHost : toHost[i].msg[l] # 0
  BY DEF IdsUp
<1>. QED BY <1>2, <1>3, <1>4, <1>5, <1>6

-----------------------------------------------------------------------------
(***************************************************************************)
(* Lines of data under way, in terms of the places of their line.          *)
(***************************************************************************)
\* The messages of a line: place 0 is the driver's event, the last that of ocse.
Trail(k) == [i \in 0 .. Len(toDrv) + 1 |-> DownAt(i, k)]

\* t: the messages at places 0 to n.  c: lines queued so far, f: lines sent.
Follow(t, n, c, f) ==
  /\ \A i \in 0 .. n : t[i].id = 0 => t[i].n = 0
  /\ \A i \in 0 .. n : t[i].n > 0 => c < t[i].first /\ t[i].first + t[i].n <= f + 1
  /\ \A i, j \in 0 .. n : i < j /\ t[i].n > 0 /\ t[j].n > 0 => t[i].first + t[i].n <= t[j].first
  /\ c <= f
  /\ \A x \in c + 1 .. f : \E i \in 0 .. n : t[i].first <= x /\ x < t[i].first + t[i].n

Marked(t, n, b) == \A i \in 0 .. n : t[i].id # 0 => (t[i].n = 0 <=> b)

\* The fields of a message.
LEMMA MsgFields == ASSUME NEW m \in Msgs PROVE m.id \in Nat /\ m.first \in Nat /\ m.n \in Nat
BY LinkAssumption DEF Msgs

\* A packet takes the last message and leaves none.
LEMMA FollowPacket ==
  ASSUME NEW n \in Nat, NEW t \in [0 .. n -> Msgs], NEW c \in Nat, NEW f \in Nat, NEW b \in BOOLEAN,
         NEW u \in [0 .. n + 1 -> Msgs], \A i \in 0 .. n : u[i] = t[i], u[n + 1].id = 0, u[n + 1].n = 0
  PROVE  /\ Follow(t, n, c, f) => Follow(u, n + 1, c, f)
         /\ Marked(t, n, b) => Marked(u, n + 1, b)
<1>1. \A i \in 0 .. n + 1 : i \in 0 .. n \/ i = n + 1 OBVIOUS
<1>2. \A i \in 0 .. n : i \in 0 .. n + 1 OBVIOUS
<1>3. ASSUME Follow(t, n, c, f) PROVE Follow(u, n + 1, c, f)
  <2>1. \A i \in 0 .. n + 1 : u[i].id = 0 => u[i].n = 0 BY <1>1, <1>3 DEF Follow
  <2>2. \A i \in 0 .. n + 1 : u[i].n > 0 => c < u[i].first /\ u[i].first + u[i].n <= f + 1
    BY <1>1, <1>3 DEF Follow
  <2>3. \A i, j \in 0 .. n + 1 : i < j /\ u[i].n > 0 /\ u[j].n > 0 => u[i].first + u[i].n <= u[j].first
    BY <1>1, <1>3 DEF Follow
  <2>4. \A x \in c + 1 .. f : \E i \in 0 .. n + 1 : u[i].first <= x /\ x < u[i].first + u[i].n
    BY <1>2, <1>3 DEF Follow
  <2>. QED BY <1>3, <2>1, <2>2, <2>3, <2>4 DEF Follow
<1>4. ASSUME Marked(t, n, b) PROVE Marked(u, n + 1, b) BY <1>1, <1>4 DEF Marked
<1>. QED BY <1>3, <1>4

\* The first place, empty so far, takes the oldest packet.
LEMMA FollowDecode ==
  ASSUME NEW n \in Nat, NEW t \in [0 .. n + 1 -> Msgs], NEW c \in Nat, NEW f \in Nat, NEW b \in BOOLEAN,
         NEW u \in [0 .. n -> Msgs], \A i \in 0 .. n : u[i] = t[i + 1], t[0].id = 0
  PROVE  /\ Follow(t, n + 1, c, f) => Follow(u, n, c, f)
         /\ Marked(t, n + 1, b) => Marked(u, n, b)
<1>1. \A i \in 0 .. n : i + 1 \in 0 .. n + 1 OBVIOUS
<1>3. ASSUME Follow(t, n + 1, c, f) PROVE Follow(u, n, c, f)
  <2>0. t[0].n = 0 /\ t[0].first \in Nat
    <3>1. 0 \in 0 .. n + 1 OBVIOUS
    <3>. QED BY <3>1, <1>3, MsgFields DEF Follow
  <2>1. \A i \in 0 .. n : u[i].id = 0 => u[i].n = 0 BY <1>1, <1>3 DEF Follow
  <2>2. \A i \in 0 .. n : u[i].n > 0 => c < u[i].first /\ u[i].first + u[i].n <= f + 1
    BY <1>1, <1>3 DEF Follow
  <2>3. ASSUME NEW i \in 0 .. n, NEW j \in 0 .. n, i < j, u[i].n > 0, u[j].n > 0
        PROVE  u[i].first + u[i].n <= u[j].first
    <3>1. i + 1 < j + 1 /\ i + 1 \in 0 .. n + 1 /\ j + 1 \in 0 .. n + 1 BY <2>3
    <3>. QED BY <3>1, <2>3, <1>3 DEF Follow
  <2>4. ASSUME NEW x \in c + 1 .. f PROVE \E i \in 0 .. n : u[i].first <= x /\ x < u[i].first + u[i].n
    <3>1. PICK i \in 0 .. n + 1 : t[i].first <= x /\ x < t[i].first + t[i].n BY <1>3 DEF Follow
    <3>2. i # 0 BY <3>1, <2>0
    <3>3. i - 1 \in 0 .. n /\ (i - 1) + 1 = i BY <3>2
    <3>4. u[i - 1] = t[i] BY <3>3
    <3>. QED BY <3>1, <3>3, <3>4
  <2>5. c <= f BY <1>3 DEF Follow
  <2>. QED BY <2>1, <2>2, <2>3, <2>4, <2>5 DEF Follow
<1>4. ASSUME Marked(t, n + 1, b) PROVE Marked(u, n, b) BY <1>1, <1>4 DEF Marked
<1>. QED BY <1>3, <1>4

\* A message with m lines goes into the last place, which is empty.
LEMMA FollowSend ==
  ASSUME NEW n \in Nat, NEW t \in [0 .. n -> Msgs], NEW c \in Nat, NEW f \in Nat,
         NEW u \in [0 .. n -> Msgs], \A i \in 0 .. n : i # n => u[i] = t[i],
         t[n].id = 0, u[n].id # 0, u[n].n > 0 => u[n].first = f + 1, Follow(t, n, c, f)
  PROVE  Follow(u, n, c, f + u[n].n)
<1>. DEFINE m == u[n].n
<1>1. n \in 0 .. n /\ m \in Nat /\ u[n].first \in Nat /\ t[n].first \in Nat BY MsgFields
<1>2. t[n].n = 0 BY <1>1 DEF Follow
<1>3. \A i \in 0 .. n : t[i].n \in Nat /\ t[i].first \in Nat BY MsgFields
<1>. HIDE DEF m
<1>4. \A i \in 0 .. n : u[i].id = 0 => u[i].n = 0 BY DEF Follow
<1>5. ASSUME NEW i \in 0 .. n, u[i].n > 0 PROVE c < u[i].first /\ u[i].first + u[i].n <= (f + m) + 1
  <2>0. c <= f BY DEF Follow
  <2>1. CASE i = n BY <2>1, <2>0, <1>1, <1>5 DEF m
  <2>2. CASE i # n
    <3>1. c < t[i].first /\ t[i].first + t[i].n <= f + 1 BY <2>2, <1>5 DEF Follow
    <3>. QED BY <3>1, <2>2, <1>1, <1>3
  <2>. QED BY <2>1, <2>2
<1>6. ASSUME NEW i \in 0 .. n, NEW j \in 0 .. n, i < j, u[i].n > 0, u[j].n > 0
      PROVE  u[i].first + u[i].n <= u[j].first
  <2>0. i # n /\ u[i] = t[i] BY <1>6
  <2>1. CASE j = n
    <3>1. t[i].first + t[i].n <= f + 1 BY <2>0, <1>6 DEF Follow
    <3>. QED BY <3>1, <2>0, <2>1, <1>6
  <2>2. CASE j # n BY <2>0, <2>2, <1>6 DEF Follow
  <2>. QED BY <2>1, <2>2
<1>7. ASSUME NEW x \in c + 1 .. f + m PROVE \E i \in 0 .. n : u[i].first <= x /\ x < u[i].first + u[i].n
  <2>1. CASE x <= f
    <3>1. x \in c + 1 .. f BY <2>1
    <3>2. PICK i \in 0 .. n : t[i].first <= x /\ x < t[i].first + t[i].n BY <3>1 DEF Follow
    <3>3. i # n BY <3>2, <1>1, <1>2
    <3>. QED BY <3>2, <3>3
  <2>2. CASE x > f
    <3>1. u[n].n > 0 /\ u[n].first = f + 1 BY <2>2, <1>1 DEF m
    <3>. QED BY <3>1, <2>2, <1>1 DEF m
  <2>. QED BY <2>1, <2>2
<1>8. c <= f + m BY <1>1 DEF Follow
<1>. QED BY <1>4, <1>5, <1>6, <1>7, <1>8 DEF Follow, m

\* The lines of the message at the first place are the next; when they are queued the
\* place is empty.
LEMMA FollowLand ==
  ASSUME NEW n \in Nat, NEW t \in [0 .. n -> Msgs], NEW c \in Nat, NEW f \in Nat, NEW b \in BOOLEAN,
         NEW u \in [0 .. n -> Msgs], \A i \in 1 .. n : u[i] = t[i], u[0].id = 0, u[0].n = 0,
         Follow(t, n, c, f)
  PROVE  /\ Follow(u, n, c + t[0].n, f)
         /\ t[0].n > 0 => t[0].first = c + 1
         /\ Marked(t, n, b) => Marked(u, n, b)
<1>. DEFINE m == t[0].n
<1>1. 0 \in 0 .. n /\ m \in Nat /\ t[0].first \in Nat /\ u[0].first \in Nat BY MsgFields
<1>2. \A i \in 0 .. n : i = 0 \/ (i \in 1 .. n /\ u[i] = t[i]) OBVIOUS
<1>3. \A i \in 0 .. n : t[i].n \in Nat /\ t[i].first \in Nat BY MsgFields
<1>4. ASSUME t[0].n > 0 PROVE t[0].first = c + 1
  <2>1. c < t[0].first /\ t[0].first + t[0].n <= f + 1 BY <1>1, <1>4 DEF Follow
  <2>2. c + 1 \in c + 1 .. f BY <2>1, <1>1, <1>4
  <2>3. PICK i \in 0 .. n : t[i].first <= c + 1 /\ c + 1 < t[i].first + t[i].n BY <2>2 DEF Follow
  <2>4. t[i].n > 0 BY <2>3, <1>3
  <2>5. c < t[i].first BY <2>4 DEF Follow
  <2>6. t[i].first = c + 1 BY <2>3, <2>5, <1>3
  <2>7. CASE i = 0 BY <2>6, <2>7
  <2>8. CASE i # 0
    <3>1. 0 < i BY <2>8
    <3>2. t[0].first + t[0].n <= t[i].first BY <3>1, <1>1, <1>4, <2>4 DEF Follow
    <3>. QED BY <3>2, <2>1, <2>6, <1>1, <1>4
  <2>. QED BY <2>7, <2>8
<1>. HIDE DEF m
<1>5. \A i \in 0 .. n : u[i].id = 0 => u[i].n = 0 BY <1>2 DEF Follow
<1>6. ASSUME NEW i \in 0 .. n, u[i].n > 0 PROVE c + m < u[i].first /\ u[i].first + u[i].n <= f + 1
  <2>1. i \in 1 .. n /\ u[i] = t[i] /\ 0 < i BY <1>2, <1>6
  <2>2. c < t[i].first /\ t[i].first + t[i].n <= f + 1 BY <2>1, <1>6 DEF Follow
  <2>3. CASE m = 0 BY <2>1, <2>2, <2>3
  <2>4. CASE m > 0
    <3>1. t[0].first + t[0].n <= t[i].first BY <2>1, <2>4, <1>1, <1>6 DEF Follow, m
    <3>. QED BY <3>1, <2>1, <2>2, <2>4, <1>1, <1>3, <1>4 DEF m
  <2>. QED BY <2>3, <2>4, <1>1
<1>7. ASSUME NEW i \in 0 .. n, NEW j \in 0 .. n, i < j, u[i].n > 0, u[j].n > 0
      PROVE  u[i].first + u[i].n <= u[j].first
  <2>1. u[i] = t[i] /\ u[j] = t[j] BY <1>2, <1>7
  <2>. QED BY <2>1, <1>7 DEF Follow
<1>8. c + m <= f
  <2>1. CASE m = 0 BY <2>1 DEF Follow
  <2>2. CASE m > 0
    <3>1. t[0].first + t[0].n <= f + 1 BY <2>2, <1>1 DEF Follow, m
    <3>. QED BY <3>1, <2>2, <1>1, <1>4 DEF m
  <2>. QED BY <2>1, <2>2, <1>1
<1>9. ASSUME NEW x \in (c + m) + 1 .. f PROVE \E i \in 0 .. n : u[i].first <= x /\ x < u[i].first + u[i].n
  <2>1. x \in c + 1 .. f BY <1>1
  <2>2. PICK i \in 0 .. n : t[i].first <= x /\ x < t[i].first + t[i].n BY <2>1 DEF Follow
  <2>3. i # 0
    <3>1. ASSUME i = 0 PROVE FALSE
      <4>1. m > 0 BY <3>1, <2>2, <1>1 DEF m
      <4>. QED BY <4>1, <3>1, <2>2, <1>1, <1>4 DEF m
    <3>. QED BY <3>1
  <2>. QED BY <2>2, <2>3, <1>2
<1>10. Follow(u, n, c + m, f) BY <1>5, <1>6, <1>7, <1>8, <1>9 DEF Follow
<1>11. Marked(t, n, b) => Marked(u, n, b) BY <1>2 DEF Marked
<1>. QED BY <1>4, <1>10, <1>11 DEF m

\* Lines of data under way, as messages that follow each other.
TrailFacts ==
  /\ Len(toDrv) \in Nat
  /\ \A k \in DataLines :
       /\ Trail(k) \in [0 .. Len(toDrv) + 1 -> Msgs]
       /\ Queued(k) \in Nat /\ engine.flits[k] \in Nat
       /\ DataUnderWay(k) <=> Follow(Trail(k), Len(toDrv) + 1, Queued(k), engine.flits[k])
  /\ CmdData <=> Marked(Trail("cmd"), Len(toDrv) + 1, engine.access = "read")

\* The messages under way have their types.
LEMMA Trails == Types => TrailFacts
<1>. SUFFICES ASSUME Types PROVE TrailFacts OBVIOUS
<1>1. host \in HostT /\ drv \in DrvT /\ afu \in AfuT /\ engine \in EngineT /\ toDrv \in Seq(HostPackets)
  BY DEF Types
<1>2. Len(toDrv) \in Nat /\ \A i \in 1 .. Len(toDrv) : toDrv[i] \in HostPackets BY <1>1
<1>3. ASSUME NEW k \in DataLines
      PROVE  /\ Trail(k) \in [0 .. Len(toDrv) + 1 -> Msgs]
             /\ Queued(k) \in Nat /\ engine.flits[k] \in Nat
             /\ DataUnderWay(k) <=> Follow(Trail(k), Len(toDrv) + 1, Queued(k), engine.flits[k])
  <2>0. k \in HostLines BY DEF DataLines, HostLines
  <2>1. ASSUME NEW i \in 0 .. Len(toDrv) + 1 PROVE DownAt(i, k) \in Msgs
    <3>1. drv.in[k] \in Msgs /\ host.out[k] \in Msgs BY <1>1, <2>0, HostFields, DrvFields
    <3>2. CASE i = 0 BY <3>1, <3>2 DEF DownAt
    <3>3. CASE i = Len(toDrv) + 1 BY <3>1, <3>3, <1>2 DEF DownAt
    <3>4. CASE i \in 1 .. Len(toDrv)
      <4>1. toDrv[i].msg[k] \in Msgs BY <3>4, <1>2, <2>0, PacketFields
      <4>. QED BY <4>1, <3>4, <1>2 DEF DownAt
    <3>. QED BY <3>2, <3>3, <3>4, <1>2
  <2>2. Trail(k) \in [0 .. Len(toDrv) + 1 -> Msgs] BY <2>1 DEF Trail
  <2>3. Queued(k) \in Nat /\ engine.flits[k] \in Nat
    <3>1. afu.line[k] \in Nat /\ drv.fifo[k] \in Seq(Nat) BY <1>1, AfuFields, DrvFields
    <3>2. Len(drv.fifo[k]) \in Nat BY <3>1
    <3>3. engine.flits[k] \in Nat BY <1>1 DEF EngineT
    <3>. QED BY <3>1, <3>2, <3>3 DEF Queued
  <2>4. \A i \in 0 .. Len(toDrv) + 1 : Trail(k)[i] = DownAt(i, k) BY DEF Trail
  <2>. DEFINE c == Queued(k)
              f == engine.flits[k]
              t == Trail(k)
              D(i) == DownAt(i, k)
              N == 0 .. Len(toDrv) + 1
  <2>5. \A i \in N : t[i] = D(i) BY <2>4
  <2>. HIDE DEF c, f, t, D, N
  <2>6. (/\ \A i \in N : D(i).id = 0 => D(i).n = 0
         /\ \A i \in N : D(i).n > 0 => /\ c < D(i).first
                                       /\ D(i).first + D(i).n <= f + 1
         /\ \A i, j \in N : i < j /\ D(i).n > 0 /\ D(j).n > 0 => D(i).first + D(i).n <= D(j).first
         /\ c <= f
         /\ \A x \in c + 1 .. f : \E i \in N : D(i).first <= x /\ x < D(i).first + D(i).n)
        <=> (/\ \A i \in N : t[i].id = 0 => t[i].n = 0
             /\ \A i \in N : t[i].n > 0 => c < t[i].first /\ t[i].first + t[i].n <= f + 1
             /\ \A i, j \in N : i < j /\ t[i].n > 0 /\ t[j].n > 0 => t[i].first + t[i].n <= t[j].first
             /\ c <= f
             /\ \A x \in c + 1 .. f : \E i \in N : t[i].first <= x /\ x < t[i].first + t[i].n)
    <3>1. ASSUME NEW x PROVE (\E i \in N : D(i).first <= x /\ x < D(i).first + D(i).n)
                           <=> (\E i \in N : t[i].first <= x /\ x < t[i].first + t[i].n)
      BY <2>5
    <3>2. (\A i \in N : D(i).id = 0 => D(i).n = 0) <=> \A i \in N : t[i].id = 0 => t[i].n = 0 BY <2>5
    <3>3. (\A i \in N : D(i).n > 0 => /\ c < D(i).first
                                      /\ D(i).first + D(i).n <= f + 1)
            <=> \A i \in N : t[i].n > 0 => c < t[i].first /\ t[i].first + t[i].n <= f + 1
      BY <2>5
    <3>4. (\A i, j \in N : i < j /\ D(i).n > 0 /\ D(j).n > 0 => D(i).first + D(i).n <= D(j).first)
            <=> \A i, j \in N : i < j /\ t[i].n > 0 /\ t[j].n > 0 => t[i].first + t[i].n <= t[j].first
      BY <2>5
    <3>5. (\A x \in c + 1 .. f : \E i \in N : D(i).first <= x /\ x < D(i).first + D(i).n)
            <=> \A x \in c + 1 .. f : \E i \in N : t[i].first <= x /\ x < t[i].first + t[i].n
      BY <3>1, Zenon
    <3>. QED BY <3>2, <3>3, <3>4, <3>5, Zenon
  <2>7. DataUnderWay(k) <=> Follow(t, Len(toDrv) + 1, c, f)
    BY <2>6, Zenon DEF DataUnderWay, Follow, c, f, D, N
  <2>. QED BY <2>2, <2>3, <2>7 DEF c, f, t
<1>4. CmdData <=> Marked(Trail("cmd"), Len(toDrv) + 1, engine.access = "read")
  <2>1. \A i \in 0 .. Len(toDrv) + 1 : Trail("cmd")[i] = DownAt(i, "cmd") BY DEF Trail
  <2>. QED BY <2>1, Zenon DEF CmdData, Marked
<1>. QED BY <1>2, <1>3, <1>4 DEF TrailFacts

\* The same of the next state.
LEMMA TrailsNext == Types' => TrailFacts'
BY Trails, PTL

\* Data and the packets: ocse sends one.
LEMMA DataPacket ==
  ASSUME Types, Types', NEW k \in DataLines, NEW p \in HostPackets, toDrv' = Append(toDrv, p),
         p.msg = host.out, host'.out = NoHostMsgs, drv'.in = drv.in
  PROVE  LET n == Len(toDrv) + 1 IN
         /\ Len(toDrv') = n /\ \A i \in 0 .. n : Trail(k)'[i] = Trail(k)[i]
         /\ Trail(k)'[n + 1].id = 0 /\ Trail(k)'[n + 1].n = 0
<1>. DEFINE n == Len(toDrv) + 1
<1>1. toDrv \in Seq(HostPackets) /\ Len(toDrv) \in Nat BY Trails DEF Types, TrailFacts
<1>2. Len(toDrv') = n /\ toDrv'[n] = p /\ \A i \in 1 .. Len(toDrv) : toDrv'[i] = toDrv[i] BY <1>1
<1>3. k \in HostLines BY DEF DataLines, HostLines
<1>4. \A i \in 0 .. n : Trail(k)[i] = DownAt(i, k) BY DEF Trail
<1>5. \A i \in 0 .. n + 1 : Trail(k)'[i] = DownAt(i, k)' BY <1>2 DEF Trail
<1>6. ASSUME NEW i \in 0 .. n PROVE DownAt(i, k)' = DownAt(i, k)
  <2>1. CASE i = 0 BY <2>1 DEF DownAt
  <2>2. CASE i = n BY <2>2, <1>1, <1>2 DEF DownAt
  <2>3. CASE i \in 1 .. Len(toDrv) BY <2>3, <1>1, <1>2 DEF DownAt
  <2>. QED BY <2>1, <2>2, <2>3, <1>1
<1>7. ASSUME NEW j, j = n + 1 PROVE DownAt(j, k)' = NoHostMsgs[k]
  <2>1. \A i : DownAt(i, k)' = IF i = 0 THEN drv'.in[k] ELSE IF i = Len(toDrv') + 1 THEN host'.out[k]
                              ELSE toDrv'[i].msg[k]
    BY Zenon DEF DownAt
  <2>2. j # 0 /\ j = Len(toDrv') + 1 BY <1>1, <1>2, <1>7
  <2>. QED BY <2>1, <2>2
<1>8. \A i \in 0 .. n : i \in 0 .. n + 1 BY <1>1
<1>9. n + 1 \in 0 .. n + 1 BY <1>1
<1>10. NoHostMsgs[k].id = 0 /\ NoHostMsgs[k].n = 0 BY <1>3, NoneTypes
<1>. HIDE DEF n
<1>11. ASSUME NEW i \in 0 .. n PROVE Trail(k)'[i] = Trail(k)[i] BY <1>4, <1>5, <1>6, <1>8
<1>12. Trail(k)'[n + 1] = NoHostMsgs[k]
  <2>1. PICK j : j = n + 1 OBVIOUS
  <2>2. DownAt(j, k)' = NoHostMsgs[k] BY <2>1, <1>7
  <2>3. Trail(k)'[j] = DownAt(j, k)' BY <2>1, <1>5, <1>9
  <2>. QED BY <2>1, <2>2, <2>3
<1>. QED BY <1>2, <1>10, <1>11, <1>12 DEF n

\* The driver takes one into its event.
LEMMA DataDecode ==
  ASSUME Types, Types', NEW k \in DataLines, toDrv # <<>>, toDrv' = Tail(toDrv),
         drv'.in = Head(toDrv).msg, host'.out = host.out
  PROVE  LET n == Len(toDrv) IN
         n \in Nat /\ Len(toDrv') + 1 = n /\ \A i \in 0 .. n : Trail(k)'[i] = Trail(k)[i + 1]
<1>. DEFINE n == Len(toDrv)
            m == Len(toDrv')
<1>1. toDrv \in Seq(HostPackets) /\ n \in Nat BY Trails DEF Types, TrailFacts
<1>2. n \in Nat \ {0} /\ m = n - 1 /\ Head(toDrv) = toDrv[1] /\ \A i \in 1 .. n - 1 : toDrv'[i] = toDrv[i + 1]
  BY <1>1
<1>4. \A i \in 0 .. n + 1 : Trail(k)[i] = DownAt(i, k) BY DEF Trail
<1>5. \A i \in 0 .. m + 1 : Trail(k)'[i] = DownAt(i, k)' BY DEF Trail
<1>6. \A i : DownAt(i, k) = IF i = 0 THEN drv.in[k] ELSE IF i = n + 1 THEN host.out[k] ELSE toDrv[i].msg[k]
  BY Zenon DEF DownAt
<1>7. \A i : DownAt(i, k)' = IF i = 0 THEN drv'.in[k] ELSE IF i = m + 1 THEN host'.out[k] ELSE toDrv'[i].msg[k]
  BY Zenon DEF DownAt
<1>. DEFINE h == Head(toDrv)
<1>8. h = toDrv[1] /\ drv'.in = h.msg BY <1>2
<1>. HIDE DEF n, m, h
<1>9. n \in Nat \ {0} /\ m + 1 = n BY <1>2
<1>10. ASSUME NEW i \in 0 .. n PROVE DownAt(i, k)' = DownAt(i + 1, k)
  <2>1. CASE i = 0
    <3>1. DownAt(i, k)' = toDrv[1].msg[k] BY <2>1, <1>7, <1>8
    <3>2. i + 1 = 1 /\ 1 # n + 1 /\ 1 # 0 BY <2>1, <1>9
    <3>3. DownAt(1, k) = toDrv[1].msg[k] BY <3>2, <1>6
    <3>. QED BY <3>1, <3>2, <3>3
  <2>2. CASE i = n
    <3>1. i # 0 /\ i + 1 # 0 /\ i = m + 1 /\ i + 1 = n + 1 BY <2>2, <1>9
    <3>. QED BY <3>1, <1>6, <1>7
  <2>3. CASE i \in 1 .. n - 1
    <3>1. i # 0 /\ i # m + 1 /\ i + 1 # 0 /\ i + 1 # n + 1 BY <2>3, <1>9
    <3>2. toDrv'[i] = toDrv[i + 1] BY <2>3, <1>2
    <3>. QED BY <3>1, <3>2, <1>6, <1>7
  <2>. QED BY <2>1, <2>2, <2>3, <1>9
<1>11. ASSUME NEW i \in 0 .. n PROVE Trail(k)'[i] = Trail(k)[i + 1]
  <2>1. i \in 0 .. m + 1 /\ i + 1 \in 0 .. n + 1 BY <1>9
  <2>. QED BY <2>1, <1>4, <1>5, <1>10
<1>. QED BY <1>9, <1>11 DEF n, m

\* The events change and the packets do not.
LEMMA DataEvents ==
  ASSUME Types, Types', NEW k \in DataLines, toDrv' = toDrv
  PROVE  LET n == Len(toDrv) + 1 IN
         /\ Len(toDrv') + 1 = n /\ n \in Nat \ {0}
         /\ Trail(k)[0] = drv.in[k] /\ Trail(k)'[0] = drv'.in[k]
         /\ Trail(k)[n] = host.out[k] /\ Trail(k)'[n] = host'.out[k]
         /\ \A i \in 1 .. n - 1 : Trail(k)'[i] = Trail(k)[i]
<1>. DEFINE n == Len(toDrv) + 1
<1>1. Len(toDrv) \in Nat BY Trails DEF TrailFacts
<1>2. \A i \in 0 .. n : Trail(k)[i] = DownAt(i, k) BY DEF Trail
<1>3. \A i \in 0 .. n : Trail(k)'[i] = DownAt(i, k)' BY DEF Trail
<1>4. \A i : DownAt(i, k) = IF i = 0 THEN drv.in[k] ELSE IF i = n THEN host.out[k] ELSE toDrv[i].msg[k]
  BY Zenon DEF DownAt
<1>5. \A i : DownAt(i, k)' = IF i = 0 THEN drv'.in[k] ELSE IF i = n THEN host'.out[k] ELSE toDrv[i].msg[k]
  BY Zenon DEF DownAt
<1>6. n \in Nat \ {0} BY <1>1
<1>. HIDE DEF n
<1>7. 0 \in 0 .. n /\ n \in 0 .. n BY <1>6
<1>8. ASSUME NEW i \in 1 .. n - 1 PROVE Trail(k)'[i] = Trail(k)[i]
  <2>1. i \in 0 .. n /\ i # 0 /\ i # n BY <1>6
  <2>. QED BY <2>1, <1>2, <1>3, <1>4, <1>5
<1>9. Trail(k)[0] = drv.in[k] /\ Trail(k)'[0] = drv'.in[k] BY <1>2, <1>3, <1>4, <1>5, <1>7
<1>10. Trail(k)[n] = host.out[k] /\ Trail(k)'[n] = host'.out[k] BY <1>2, <1>3, <1>4, <1>5, <1>6, <1>7
<1>. QED BY <1>6, <1>8, <1>9, <1>10 DEF n

-----------------------------------------------------------------------------
(***************************************************************************)
(* What a step does to the lines of data.                                  *)
(***************************************************************************)
DataParts == (\A k \in DataLines : DataUnderWay(k)) /\ CmdData

\* A bit is 0 or 1.
LEMMA BitType == \A b \in BOOLEAN : Bit(b) \in 0 .. 1 /\ (Bit(b) = 1 <=> b) /\ (Bit(b) = 0 <=> ~b)
BY DEF Bit

\* The numbers the lines are counted by do not change.
LEMMA QueuedSame ==
  ASSUME NEW k \in DataLines, afu'.line = afu.line, drv'.fifo = drv.fifo
  PROVE  Queued(k)' = Queued(k)
BY Zenon DEF Queued

\* ocse sends a packet: the data under way is the same.
LEMMA DataOfPacket ==
  ASSUME Types, Types', DataParts, NEW p \in HostPackets, toDrv' = Append(toDrv, p),
         p.msg = host.out, host'.out = NoHostMsgs, drv' = drv, engine' = engine, afu' = afu
  PROVE  DataParts'
<1>. DEFINE n == Len(toDrv) + 1
            b == engine.access = "read"
<1>1. TrailFacts /\ TrailFacts' BY Trails, TrailsNext
<1>2. n \in Nat /\ b \in BOOLEAN BY <1>1 DEF TrailFacts
<1>3. ASSUME NEW k \in DataLines
      PROVE  /\ DataUnderWay(k)'
             /\ Marked(Trail(k), n, b) => Marked(Trail(k)', n + 1, b)
  <2>1. /\ Len(toDrv') = n /\ \A i \in 0 .. n : Trail(k)'[i] = Trail(k)[i]
        /\ Trail(k)'[n + 1].id = 0 /\ Trail(k)'[n + 1].n = 0
    BY DataPacket
  <2>2. /\ Trail(k) \in [0 .. n -> Msgs] /\ Trail(k)' \in [0 .. n + 1 -> Msgs]
        /\ Queued(k) \in Nat /\ engine.flits[k] \in Nat
        /\ Follow(Trail(k), n, Queued(k), engine.flits[k])
        /\ DataUnderWay(k)' <=> Follow(Trail(k)', n + 1, Queued(k)', engine'.flits[k])
    BY <1>1, <2>1, Zenon DEF TrailFacts, DataParts
  <2>3. Queued(k)' = Queued(k) BY QueuedSame
  <2>. DEFINE t == Trail(k)
              u == Trail(k)'
              c == Queued(k)
              f == engine.flits[k]
  <2>. HIDE DEF n, t, u, c, f, b
  <2>4. t \in [0 .. n -> Msgs] /\ u \in [0 .. n + 1 -> Msgs] /\ c \in Nat /\ f \in Nat
    BY <2>2 DEF t, u, c, f
  <2>5. (\A i \in 0 .. n : u[i] = t[i]) /\ u[n + 1].id = 0 /\ u[n + 1].n = 0 BY <2>1 DEF t, u
  <2>6. /\ Follow(t, n, c, f) => Follow(u, n + 1, c, f)
        /\ Marked(t, n, b) => Marked(u, n + 1, b)
    BY <1>2, <2>4, <2>5, FollowPacket
  <2>. QED BY <2>2, <2>3, <2>6 DEF t, u, c, f
<1>4. CmdData'
  <2>1. "cmd" \in DataLines BY DEF DataLines
  <2>2. Len(toDrv') = n BY <2>1, DataPacket
  <2>3. Marked(Trail("cmd"), n, b) BY <1>1 DEF TrailFacts, DataParts
  <2>4. Marked(Trail("cmd")', n + 1, b) BY <1>3, <2>1, <2>3
  <2>. QED BY <1>1, <2>2, <2>4 DEF TrailFacts
<1>. QED BY <1>3, <1>4 DEF DataParts

\* The driver decodes a packet: the data under way is the same.
LEMMA DataOfDecode ==
  ASSUME Types, Types', DataParts, toDrv # <<>>, toDrv' = Tail(toDrv), drv.in = NoHostMsgs,
         drv'.in = Head(toDrv).msg, drv'.fifo = drv.fifo, host' = host, engine' = engine, afu' = afu
  PROVE  DataParts'
<1>. DEFINE n == Len(toDrv)
            b == engine.access = "read"
<1>1. TrailFacts /\ TrailFacts' BY Trails, TrailsNext
<1>2. n \in Nat /\ b \in BOOLEAN BY <1>1 DEF TrailFacts
<1>3. ASSUME NEW k \in DataLines
      PROVE  /\ DataUnderWay(k)'
             /\ Marked(Trail(k), n + 1, b) => Marked(Trail(k)', n, b)
  <2>1. Len(toDrv') + 1 = n /\ \A i \in 0 .. n : Trail(k)'[i] = Trail(k)[i + 1]
    BY DataDecode
  <2>2. /\ Trail(k) \in [0 .. n + 1 -> Msgs] /\ Trail(k)' \in [0 .. n -> Msgs]
        /\ Queued(k) \in Nat /\ engine.flits[k] \in Nat
        /\ Follow(Trail(k), n + 1, Queued(k), engine.flits[k])
        /\ DataUnderWay(k)' <=> Follow(Trail(k)', n, Queued(k)', engine'.flits[k])
    BY <1>1, <2>1, Zenon DEF TrailFacts, DataParts
  <2>3. Queued(k)' = Queued(k) BY QueuedSame
  <2>4. Trail(k)[0].id = 0
    <3>1. k \in HostLines /\ 0 \in 0 .. n + 1 BY <1>2 DEF DataLines, HostLines
    <3>2. Trail(k)[0] = drv.in[k] BY <3>1 DEF Trail, DownAt
    <3>. QED BY <3>1, <3>2, NoneTypes
  <2>. DEFINE t == Trail(k)
              u == Trail(k)'
              c == Queued(k)
              f == engine.flits[k]
  <2>. HIDE DEF n, t, u, c, f, b
  <2>5. t \in [0 .. n + 1 -> Msgs] /\ u \in [0 .. n -> Msgs] /\ c \in Nat /\ f \in Nat
    BY <2>2 DEF t, u, c, f
  <2>6. (\A i \in 0 .. n : u[i] = t[i + 1]) /\ t[0].id = 0 BY <2>1, <2>4 DEF t, u
  <2>7. /\ Follow(t, n + 1, c, f) => Follow(u, n, c, f)
        /\ Marked(t, n + 1, b) => Marked(u, n, b)
    BY <1>2, <2>5, <2>6, FollowDecode
  <2>. QED BY <2>2, <2>3, <2>7 DEF t, u, c, f
<1>4. CmdData'
  <2>1. "cmd" \in DataLines BY DEF DataLines
  <2>2. Len(toDrv') + 1 = n BY <2>1, DataDecode
  <2>3. Marked(Trail("cmd"), n + 1, b) BY <1>1 DEF TrailFacts, DataParts
  <2>4. Marked(Trail("cmd")', n, b) BY <1>3, <2>1, <2>3
  <2>. QED BY <1>1, <2>2, <2>4 DEF TrailFacts
<1>. QED BY <1>3, <1>4 DEF DataParts

\* Nothing happens to the lines of data.
LEMMA DataSame ==
  ASSUME Types, Types', \A k \in DataLines : DataUnderWay(k), toDrv' = toDrv, host'.out = host.out,
         drv'.in = drv.in, drv'.fifo = drv.fifo, afu'.line = afu.line, engine'.flits = engine.flits
  PROVE  /\ \A k \in DataLines : DataUnderWay(k)'
         /\ \A k \in DataLines : Trail(k)' = Trail(k)
<1>1. TrailFacts /\ TrailFacts' BY Trails, TrailsNext
<1>2. ASSUME NEW k \in DataLines PROVE DataUnderWay(k)' /\ Trail(k)' = Trail(k)
  <2>1. Trail(k)' = Trail(k) BY Zenon DEF Trail, DownAt
  <2>2. Queued(k)' = Queued(k) BY QueuedSame
  <2>3. Follow(Trail(k), Len(toDrv) + 1, Queued(k), engine.flits[k]) BY <1>1 DEF TrailFacts
  <2>4. DataUnderWay(k)' <=> Follow(Trail(k)', Len(toDrv') + 1, Queued(k)', engine'.flits[k])
    BY <1>1 DEF TrailFacts
  <2>. QED BY <2>1, <2>2, <2>3, <2>4
<1>. QED BY <1>2

\* A step that leaves the messages and the fifos alone.
LEMMA DataOfIdle ==
  ASSUME Types, Types', DataParts, toDrv' = toDrv, host'.out = host.out,
         drv'.in = drv.in, drv'.fifo = drv.fifo, afu'.line = afu.line, engine'.flits = engine.flits,
         engine'.access = engine.access
  PROVE  DataParts'
<1>1. TrailFacts /\ TrailFacts' BY Trails, TrailsNext
<1>2. "cmd" \in DataLines BY DEF DataLines
<1>3. /\ \A k \in DataLines : DataUnderWay(k)'
      /\ Trail("cmd")' = Trail("cmd")
  BY <1>2, DataSame DEF DataParts
<1>4. CmdData' BY <1>1, <1>3 DEF TrailFacts, DataParts
<1>. QED BY <1>3, <1>4 DEF DataParts

\* A command that is the only one on its line, or none: CmdData by its last place.
LastOnly ==
  /\ Types /\ drv.in["cmd"].id = 0 /\ \A i \in DOMAIN toDrv : toDrv[i].msg["cmd"].id = 0
  /\ host.out["cmd"].id # 0 => (host.out["cmd"].n = 0 <=> engine.access = "read")

\* When only the event of ocse has a command, what is said of commands is about that one.
LEMMA CmdDataLast == LastOnly => CmdData
<1>. SUFFICES ASSUME LastOnly PROVE CmdData OBVIOUS
<1>1. Len(toDrv) \in Nat /\ DOMAIN toDrv = 1 .. Len(toDrv) BY Trails DEF LastOnly, TrailFacts, Types
<1>2. ASSUME NEW i \in 0 .. Len(toDrv) + 1, DownAt(i, "cmd").id # 0
      PROVE  DownAt(i, "cmd").n = 0 <=> engine.access = "read"
  <2>1. i # 0 BY <1>2 DEF DownAt, LastOnly
  <2>2. ~(i \in 1 .. Len(toDrv)) BY <1>1, <1>2 DEF DownAt, LastOnly
  <2>3. i = Len(toDrv) + 1 BY <2>1, <2>2, <1>1
  <2>. QED BY <2>1, <2>3, <1>2 DEF DownAt, LastOnly
<1>. QED BY <1>2 DEF CmdData

\* The same of the next state.
LEMMA CmdDataLastNext == LastOnly' => CmdData'
BY CmdDataLast, PTL

\* A send puts the lines of its message behind those under way.
LEMMA DataOfSend ==
  ASSUME Types, Types', DataParts, NEW l \in HostLines, NEW n \in 0 .. Flits, SendEffect(l, n)
  PROVE  \A k \in DataLines : DataUnderWay(k)'
<1>. SUFFICES ASSUME NEW k \in DataLines PROVE DataUnderWay(k)' OBVIOUS
<1>. DEFINE m == Len(toDrv) + 1
            t == Trail(k)
            u == Trail(k)'
            c == Queued(k)
            f == engine.flits[k]
<1>1. TrailFacts /\ TrailFacts' BY Trails, TrailsNext
<1>2. toDrv' = toDrv /\ drv' = drv /\ afu' = afu BY DEF SendEffect
<1>3. Queued(k)' = c BY <1>2, QueuedSame
<1>4. /\ t[m] = host.out[k] /\ u[m] = host'.out[k] /\ m \in Nat \ {0} /\ t[0] = drv.in[k] /\ u[0] = drv'.in[k]
      /\ \A i \in 1 .. m - 1 : u[i] = t[i]
  BY <1>2, DataEvents
<1>5. /\ t \in [0 .. m -> Msgs] /\ u \in [0 .. m -> Msgs] /\ c \in Nat /\ f \in Nat
      /\ Follow(t, m, c, f)
      /\ DataUnderWay(k)' <=> Follow(u, m, c, engine'.flits[k])
  BY <1>1, <1>2, <1>3 DEF TrailFacts, DataParts
<1>6. CASE k = l
  <2>1. /\ host.out[k].id = 0 /\ host'.out[k].id # 0
        /\ host'.out[k].n > 0 => host'.out[k].first = f + 1
        /\ engine'.flits[k] = f + host'.out[k].n
    <3>1. host'.out[l].id = sent[l] + 1 /\ sent[l] \in Nat BY Ends DEF SendEffect, EndTypes
    <3>2. host'.out[l].n = n /\ (n > 0 => host'.out[l].first = engine.flits[l] + 1) /\ host.out[l].id = 0
      BY DEF SendEffect
    <3>3. engine'.flits[k] = engine.flits[k] + n BY <1>6 DEF SendEffect
    <3>. QED BY <3>1, <3>2, <3>3, <1>6
  <2>. HIDE DEF m, t, u, c, f
  <2>2. \A i \in 0 .. m : i # m => u[i] = t[i]
    <3>. SUFFICES ASSUME NEW i \in 0 .. m, i # m PROVE u[i] = t[i] OBVIOUS
    <3>1. i = 0 \/ i \in 1 .. m - 1 BY <1>4
    <3>. QED BY <3>1, <1>2, <1>4
  <2>3. t[m].id = 0 /\ u[m].id # 0 /\ (u[m].n > 0 => u[m].first = f + 1) BY <2>1, <1>4
  <2>4. Follow(u, m, c, f + u[m].n) BY <1>4, <1>5, <2>2, <2>3, FollowSend
  <2>. QED BY <2>1, <2>4, <1>4, <1>5
<1>7. CASE k # l
  <2>1. k \in HostLines BY DEF HostLines, DataLines
  <2>2. host'.out[k] = host.out[k] /\ engine'.flits[k] = f + 0 BY <1>7, <2>1 DEF SendEffect
  <2>3. engine'.flits[k] = f BY <2>2, <1>5
  <2>. HIDE DEF m, t, u, c, f
  <2>4. ASSUME NEW i \in 0 .. m PROVE u[i] = t[i]
    <3>1. i = 0 \/ i \in 1 .. m - 1 \/ i = m BY <1>4
    <3>. QED BY <3>1, <1>2, <1>4, <2>2
  <2>5. u = t
    <3>1. t = [i \in 0 .. m |-> t[i]] /\ u = [i \in 0 .. m |-> u[i]] BY <1>5
    <3>2. [i \in 0 .. m |-> t[i]] = [i \in 0 .. m |-> u[i]] BY <2>4
    <3>. QED BY <3>1, <3>2
  <2>. QED BY <2>3, <2>5, <1>5
<1>. QED BY <1>6, <1>7

\* The driver queues the lines of the message in its event, and hands one out when
\* one is asked for.
LEMMA FifoLand ==
  ASSUME Types, Types', NEW o, LowEffect(o), NEW k \in DataLines, Fifo(k),
         drv.in[k].n > 0 => drv.in[k].first = Queued(k) + 1
  PROVE  Fifo(k)' /\ Queued(k)' = Queued(k) + drv.in[k].n
<1>. DEFINE n == drv.in[k].n
            m == Len(drv.fifo[k])
            a == afu.line[k]
            F == drv.fifo[k]
            Q == Queue(drv, k)
            pop == Pops(drv, o.rd, k)
<1>1. drv \in DrvT /\ afu \in AfuT /\ drv' \in DrvT /\ afu' \in AfuT BY DEF Types
<1>2. /\ n \in Nat /\ m \in Nat /\ F \in Seq(Nat) /\ drv.in[k].first \in Nat
      /\ Q \in Seq(Nat) /\ Len(Q) = m + n
      /\ \A i \in 1 .. m : Q[i] = F[i]
      /\ \A i \in m + 1 .. m + n : Q[i] = drv.in[k].first + (i - m - 1)
  BY <1>1, QueueShape
<1>3. a \in Nat /\ afu.want[k] \in Nat /\ drv.rdCnt[k] \in Nat BY <1>1, AfuFields, DrvFields
<1>4. /\ F = Upto(a, a + m) /\ drv.rdCnt[k] + afu.want[k] = m
      /\ n > 0 => drv.in[k].first = (a + m) + 1
  BY DEF Fifo, Queued
<1>5. /\ afu'.want[k] = (IF k \in o.rd THEN 0 ELSE afu.want[k]) + n
      /\ afu'.line[k] = (IF pop THEN Head(Q) ELSE a)
      /\ pop => Q # <<>>
      /\ drv'.fifo[k] = (IF pop THEN Tail(Q) ELSE Q)
      /\ drv'.rdCnt[k] = (drv.rdCnt[k] + (IF k \in o.rd THEN afu.want[k] ELSE 0)) - Bit(pop)
  BY Zenon DEF LowEffect
<1>6. \A i \in 1 .. m : F[i] = a + i
  <2>1. \A i \in 1 .. (a + m) - a : Upto(a, a + m)[i] = a + i BY DEF Upto
  <2>2. (a + m) - a = m BY <1>2, <1>3
  <2>. QED BY <2>1, <2>2, <1>4, Zenon
<1>. HIDE DEF n, m, a, F, Q, pop
<1>7. ASSUME NEW i \in 1 .. m + n PROVE Q[i] = a + i
  <2>1. CASE i <= m
    <3>1. i \in 1 .. m BY <2>1, <1>2
    <3>. QED BY <3>1, <1>2, <1>6
  <2>2. CASE i > m
    <3>1. i \in m + 1 .. m + n /\ n > 0 BY <2>2, <1>2
    <3>2. Q[i] = drv.in[k].first + (i - m - 1) BY <3>1, <1>2
    <3>. QED BY <3>1, <3>2, <1>2, <1>3, <1>4
  <2>. QED BY <2>1, <2>2, <1>2
<1>8. pop \in BOOLEAN BY DEF pop, Pops
<1>9. ASSUME NEW q \in Seq(Nat), NEW b \in Nat, NEW s \in Nat, Len(q) = s, \A i \in 1 .. s : q[i] = b + i
      PROVE  q = Upto(b, b + s)
  <2>. DEFINE r == Upto(b, b + s)
  <2>1. (b + s) - b = s BY <1>9
  <2>2. r = [i \in 1 .. s |-> b + i] BY <2>1, Zenon DEF Upto
  <2>. HIDE DEF r
  <2>3. r \in [1 .. s -> Nat] BY <2>2
  <2>4. r \in Seq(Nat) /\ Len(r) = s BY <2>3, FunctionIsSeq
  <2>5. \A i \in 1 .. s : r[i] = q[i] BY <2>2, <1>9
  <2>6. q = r BY <2>4, <2>5, <1>9, SeqEqual
  <2>. QED BY <2>6 DEF r
<1>10. drv'.rdCnt[k] + afu'.want[k] = (m + n) - Bit(pop)
  <2>1. Bit(pop) \in 0 .. 1 BY <1>8, BitType
  <2>. DEFINE w == afu.want[k]
              r == drv.rdCnt[k]
              in == k \in o.rd
  <2>2. /\ w \in Nat /\ r \in Nat /\ r + w = m /\ afu'.want[k] = (IF in THEN 0 ELSE w) + n
        /\ drv'.rdCnt[k] = (r + (IF in THEN w ELSE 0)) - Bit(pop)
    BY <1>3, <1>4, <1>5
  <2>. HIDE DEF w, r, in
  <2>. QED BY <2>1, <2>2, <1>2
<1>11. CASE ~pop
  <2>1. drv'.fifo[k] = Q /\ afu'.line[k] = a /\ Bit(pop) = 0 BY <1>5, <1>11 DEF Bit
  <2>2. Q = Upto(a, a + (m + n))
    <3>1. m + n \in Nat BY <1>2
    <3>. QED BY <3>1, <1>2, <1>3, <1>7, <1>9
  <2>3. Queued(k)' = a + (m + n) BY <2>1, <1>2 DEF Queued
  <2>4. Queued(k) = a + m BY DEF Queued, a, m
  <2>. DEFINE z == Queued(k)'
  <2>5. z = a + (m + n) BY <2>3
  <2>. HIDE DEF z
  <2>6. drv'.fifo[k] = Upto(afu'.line[k], z) BY <2>1, <2>2, <2>5
  <2>7. drv'.rdCnt[k] + afu'.want[k] = Len(drv'.fifo[k]) BY <2>1, <1>2, <1>10
  <2>8. Fifo(k)' BY <2>6, <2>7 DEF Fifo, z
  <2>. QED BY <2>3, <2>4, <2>8, <1>2, <1>3 DEF n
<1>12. CASE pop
  <2>1. drv'.fifo[k] = Tail(Q) /\ afu'.line[k] = Head(Q) /\ Bit(pop) = 1 /\ Q # <<>> BY <1>5, <1>12 DEF Bit
  <2>2. Len(Q) # 0 BY <2>1, <1>2
  <2>3. 1 \in 1 .. m + n /\ m + n \in Nat \ {0} BY <2>2, <1>2
  <2>4. Head(Q) = Q[1] BY <2>1, <1>2
  <2>5. Head(Q) = a + 1 BY <2>3, <2>4, <1>7
  <2>. DEFINE T == Tail(Q)
              s == (m + n) - 1
  <2>6. T \in Seq(Nat) /\ Len(T) = Len(Q) - 1 /\ \A i \in 1 .. Len(Q) - 1 : T[i] = Q[i + 1] BY <2>1, <1>2
  <2>. HIDE DEF T
  <2>7. Len(T) = s /\ s \in Nat BY <2>3, <2>6, <1>2
  <2>8. ASSUME NEW i \in 1 .. s PROVE T[i] = (a + 1) + i
    <3>1. i + 1 \in 1 .. m + n /\ i \in 1 .. Len(Q) - 1 BY <2>3, <1>2
    <3>2. T[i] = Q[i + 1] BY <3>1, <2>6
    <3>3. Q[i + 1] = a + (i + 1) BY <3>1, <1>7
    <3>. QED BY <3>2, <3>3, <1>3
  <2>. HIDE DEF s
  <2>9. T = Upto(a + 1, (a + 1) + s) BY <2>6, <2>7, <2>8, <1>3, <1>9
  <2>10. Queued(k)' = (a + 1) + s BY <2>1, <2>5, <2>7 DEF Queued, T
  <2>11. Queued(k) = a + m BY DEF Queued, a, m
  <2>. DEFINE z == Queued(k)'
  <2>12. z = (a + 1) + s BY <2>10
  <2>. HIDE DEF z
  <2>13. drv'.fifo[k] = Upto(afu'.line[k], z) BY <2>1, <2>5, <2>9, <2>12 DEF T
  <2>14. drv'.rdCnt[k] + afu'.want[k] = s BY <2>1, <1>10 DEF s
  <2>15. drv'.rdCnt[k] + afu'.want[k] = Len(drv'.fifo[k]) BY <2>1, <2>7, <2>14 DEF T
  <2>16. Fifo(k)' BY <2>13, <2>15 DEF Fifo, z
  <2>17. (a + 1) + s = (a + m) + n BY <2>3, <1>2, <1>3 DEF s
  <2>. QED BY <2>10, <2>11, <2>16, <2>17 DEF n
<1>. QED BY <1>8, <1>11, <1>12

\* The driver queues the data of a message and hands a line to the AFU.
LEMMA DataOfLand ==
  ASSUME Types, Types', DataParts, \A k \in DataLines : Fifo(k), NEW o, LowEffect(o)
  PROVE  DataParts' /\ \A k \in DataLines : Fifo(k)'
<1>. DEFINE m == Len(toDrv) + 1
            b == engine.access = "read"
<1>1. TrailFacts /\ TrailFacts' BY Trails, TrailsNext
<1>2. toDrv' = toDrv /\ host' = host /\ engine' = engine /\ drv'.in = NoHostMsgs BY DEF LowEffect
<1>3. m \in Nat /\ b \in BOOLEAN BY <1>1 DEF TrailFacts
<1>4. ASSUME NEW k \in DataLines
      PROVE  DataUnderWay(k)' /\ Fifo(k)' /\ (Marked(Trail(k), m, b) => Marked(Trail(k)', m, b))
  <2>. DEFINE t == Trail(k)
              u == Trail(k)'
              c == Queued(k)
              f == engine.flits[k]
  <2>0. k \in HostLines BY DEF HostLines, DataLines
  <2>1. /\ t[m] = host.out[k] /\ u[m] = host'.out[k] /\ m \in Nat \ {0} /\ t[0] = drv.in[k] /\ u[0] = drv'.in[k]
        /\ \A i \in 1 .. m - 1 : u[i] = t[i]
    BY <1>2, DataEvents
  <2>2. /\ t \in [0 .. m -> Msgs] /\ u \in [0 .. m -> Msgs] /\ c \in Nat /\ f \in Nat
        /\ Follow(t, m, c, f)
        /\ DataUnderWay(k)' <=> Follow(u, m, Queued(k)', f)
    BY <1>1, <1>2 DEF TrailFacts, DataParts
  <2>3. u[0].id = 0 /\ u[0].n = 0 BY <1>2, <2>0, <2>1, NoneTypes
  <2>. HIDE DEF m, t, u, c, f, b
  <2>4. ASSUME NEW i \in 1 .. m PROVE u[i] = t[i]
    <3>1. i \in 1 .. m - 1 \/ i = m BY <2>1
    <3>. QED BY <3>1, <2>1, <1>2
  <2>5. /\ Follow(u, m, c + t[0].n, f)
        /\ t[0].n > 0 => t[0].first = c + 1
        /\ Marked(t, m, b) => Marked(u, m, b)
    <3>1. m \in Nat /\ b \in BOOLEAN BY <1>3
    <3>2. t \in [0 .. m -> Msgs] /\ u \in [0 .. m -> Msgs] /\ c \in Nat /\ f \in Nat /\ Follow(t, m, c, f)
      BY <2>2
    <3>3. \A i \in 1 .. m : u[i] = t[i] BY <2>4
    <3>. QED BY <3>1, <3>2, <3>3, <2>3, FollowLand
  <2>6. drv.in[k].n > 0 => drv.in[k].first = Queued(k) + 1 BY <2>1, <2>5 DEF c
  <2>7. Fifo(k)' /\ Queued(k)' = Queued(k) + drv.in[k].n BY <2>6, FifoLand
  <2>8. Follow(u, m, Queued(k)', f) BY <2>1, <2>5, <2>7 DEF c
  <2>. QED BY <2>2, <2>5, <2>7, <2>8 DEF t, u
<1>5. CmdData'
  <2>1. "cmd" \in DataLines BY DEF DataLines
  <2>2. Marked(Trail("cmd"), m, b) BY <1>1 DEF TrailFacts, DataParts
  <2>3. Marked(Trail("cmd")', m, b) BY <1>4, <2>1, <2>2
  <2>. QED BY <1>1, <1>2, <2>3 DEF TrailFacts
<1>. QED BY <1>4, <1>5 DEF DataParts

-----------------------------------------------------------------------------
(***************************************************************************)
(* What a step leaves alone.                                               *)
(***************************************************************************)
LEMMA UpSame ==
  ASSUME host'.in = host.in, toHost' = toHost, drv'.out = drv.out, engine'.got = engine.got,
         asent' = asent
  PROVE  \A l \in Lines : Upward(l)' <=> Upward(l)
BY Zenon DEF Upward, IdsUp

\* The lines to the AFU.
LEMMA DownSame ==
  ASSUME host'.out = host.out, toDrv' = toDrv, drv'.in = drv.in, afu'.got = afu.got, sent' = sent
  PROVE  \A l \in HostLines : Downward(l)' <=> Downward(l)
BY Zenon DEF Downward, IdsDown

\* The credits ocse has used.
LEMMA HostOutSame ==
  ASSUME host'.out = host.out, toDrv' = toDrv, drv'.in = drv.in, afu'.owed = afu.owed,
         drv'.aret = drv.aret, toHost' = toHost
  PROVE  \A l \in HostLines : HostOut(l)' = HostOut(l)
BY Zenon DEF HostOut, IdsDown, RetsUp

\* The credits the AFU has used.
LEMMA AfuOutSame ==
  ASSUME drv'.out = drv.out, toHost' = toHost, host'.in = host.in, host'.ret = host.ret, toDrv' = toDrv
  PROVE  \A l \in AfuLines : AfuOut(l)' = AfuOut(l)
BY Zenon DEF AfuOut, IdsUp, RetsDown

\* The credits of the AFU.
LEMMA AfuCreditSame ==
  ASSUME drv'.out = drv.out, toHost' = toHost, host'.in = host.in, host'.ret = host.ret, toDrv' = toDrv,
         drv'.avail = drv.avail, drv'.ready = drv.ready, drv'.ret = drv.ret, afu' = afu,
         NEW l \in AfuLines, AfuCredit(l)
  PROVE  AfuCredit(l)'
BY AfuOutSame DEF AfuCredit

\* The valid wires.
LEMMA WiresSame ==
  ASSUME Wires, drv'.top = drv.top, drv'.clk = drv.clk, afu' = afu
  PROVE  Wires'
BY DEF Wires

\* The fifos.
LEMMA FifoSame ==
  ASSUME drv'.fifo = drv.fifo, drv'.rdCnt = drv.rdCnt, afu' = afu
  PROVE  \A k \in DataLines : Fifo(k)' <=> Fifo(k)
BY Zenon DEF Fifo, Queued

\* The access to the AFU.
LEMMA CmdAccessSame ==
  ASSUME CmdAccess, sent'["cmd"] = sent["cmd"], afu' = afu, asent' = asent, engine'.got = engine.got,
         engine'.access = engine.access, engine'.left = engine.left
  PROVE  CmdAccess'
BY Zenon DEF CmdAccess

\* The configuration access.
LEMMA CfgAccessSame ==
  ASSUME CfgAccess, sent'["cfg"] = sent["cfg"], afu' = afu, asent' = asent, engine'.got = engine.got,
         engine'.access = engine.access, drv'.ackPending = drv.ackPending, drv'.ret = drv.ret,
         host'.ret = host.ret, toDrv' = toDrv
  PROVE  CfgAccess'
BY Zenon DEF CfgAccess, RetsDown

\* The order of responses.
LEMMA RespOrderSame ==
  ASSUME RespOrder, afu' = afu, asent' = asent, engine'.got = engine.got, host'.in = host.in,
         toHost' = toHost, drv'.aret = drv.aret, drv'.out = drv.out
  PROVE  RespOrder'
BY Zenon DEF RespOrder, CmdReturned

\* The ends of the configuration line and of its acknowledgement, and of the lines of
\* an access.
AckTypes ==
  /\ host.ret["ack"] \in 0 .. 1 /\ drv.ret["ack"] \in 0 .. 1 /\ NonZeros(RetsDown("ack")) \in Nat
  /\ asent["cfg"] \in Nat /\ engine.got["cfg"] \in Nat /\ sent["cfg"] \in Nat /\ afu.got["cfg"] \in Nat
  /\ asent["resp"] \in Nat /\ engine.got["resp"] \in Nat /\ asent["rdata"] \in Nat /\ engine.got["rdata"] \in Nat
  /\ sent["cmd"] \in Nat /\ afu.got["cmd"] \in Nat /\ afu.rbeats \in Nat /\ engine.left \in Nat
  /\ afu.job \in Nat /\ afu.asked \in Nat /\ afu.cfg \in Nat /\ afu.owed["cmd"] \in Nat
  /\ host.in["cfg"] \in Nat /\ host.in["resp"] \in Nat /\ host.in["rdata"] \in Nat
  /\ drv.in["cmd"].id \in Nat /\ drv.in["cfg"].id \in Nat /\ drv.in["cmd"].n \in Nat
  /\ engine.access \in Accesses

\* The numbers that the accesses are counted with are natural numbers.
LEMMA Acks == Types => AckTypes
<1>. SUFFICES ASSUME Types PROVE AckTypes OBVIOUS
<1>1. EndTypes BY Ends
<1>2. /\ "ack" \in Returns /\ "cfg" \in Lines /\ "resp" \in Lines /\ "rdata" \in Lines
      /\ "cmd" \in HostLines /\ "cfg" \in HostLines
  BY DEF Returns, Lines, AfuLines, HostLines
<1>3. host.ret["ack"] \in 0 .. 1 /\ drv.ret["ack"] \in 0 .. 1 /\ NonZeros(RetsDown("ack")) \in Nat
  BY <1>1, <1>2, Zenon DEF EndTypes
<1>4. /\ asent["cfg"] \in Nat /\ engine.got["cfg"] \in Nat /\ host.in["cfg"] \in Nat
      /\ asent["resp"] \in Nat /\ engine.got["resp"] \in Nat /\ host.in["resp"] \in Nat
      /\ asent["rdata"] \in Nat /\ engine.got["rdata"] \in Nat /\ host.in["rdata"] \in Nat
  BY <1>1, <1>2, Zenon DEF EndTypes
<1>5. /\ sent["cfg"] \in Nat /\ afu.got["cfg"] \in Nat /\ drv.in["cfg"].id \in Nat
      /\ sent["cmd"] \in Nat /\ afu.got["cmd"] \in Nat /\ afu.owed["cmd"] \in Nat /\ drv.in["cmd"].id \in Nat
  BY <1>1, <1>2, Zenon DEF EndTypes
<1>6. /\ afu.rbeats \in Nat /\ afu.job \in Nat /\ afu.asked \in Nat /\ afu.cfg \in Nat
      /\ engine.left \in Nat /\ engine.access \in Accesses
  BY AfuFields DEF Types, EngineT
<1>7. drv.in["cmd"].n \in Nat
  <2>1. drv.in \in [HostLines -> Msgs] BY DrvFields DEF Types
  <2>2. drv.in["cmd"] \in Msgs BY <2>1, <1>2
  <2>. QED BY <2>2, MsgFields
<1>. QED BY <1>3, <1>4, <1>5, <1>6, <1>7 DEF AckTypes

-----------------------------------------------------------------------------
(***************************************************************************)
(* Every step keeps the invariant: ocse signals.                           *)
(***************************************************************************)
LEMMA SignalStep == ASSUME IInv, HostSignal PROVE IInv'
<1>1. /\ Types /\ Grouped /\ Emptied /\ Booting /\ Told /\ Wires /\ DataParts /\ CmdAccess
      /\ RespOrder /\ CfgAccess /\ \A k \in DataLines : Fifo(k)
      /\ \A l \in HostLines : Downward(l) /\ HostCredit(l)
      /\ \A l \in Lines : Upward(l)
      /\ \A l \in AfuLines : AfuCredit(l)
  BY DEF IInv, DataParts
<1>2. /\ host' \in HostT
      /\ host.pc \in {"init_signal", "signal"}
      /\ host'.pc = IF host.pc = "signal" THEN "get" ELSE "init_get"
      /\ host'.out = NoHostMsgs /\ host'.ret = None(Returns)
      /\ host'.in = host.in /\ host'.avail = host.avail /\ host'.ready = host.ready
      /\ UNCHANGED <<drv, toHost, engine, afu, sent, asent, link>>
  BY <1>1, SignalFields
<1>3. PICK p \in HostPackets : /\ toDrv' = Append(toDrv, p)
                               /\ p.msg = host.out /\ p.ret = host.ret /\ p.cv = host.cv
                               /\ p.cv \/ p.ret = None(Returns)
  BY <1>1, SignalFields, Zenon
<1>4. toDrv \in Seq(HostPackets) /\ toDrv' \in Seq(HostPackets) /\ Len(toDrv) \in Nat
      /\ Len(toDrv') = Len(toDrv) + 1 /\ toDrv'[Len(toDrv) + 1] = p
      /\ \A i \in 1 .. Len(toDrv) : toDrv'[i] = toDrv[i]
  BY <1>1, <1>3 DEF Types
<1>5. DOMAIN toDrv = 1 .. Len(toDrv) /\ DOMAIN toDrv' = 1 .. Len(toDrv) + 1 BY <1>4
<1>6. ASSUME NEW i \in DOMAIN toDrv' PROVE (i \in DOMAIN toDrv /\ toDrv'[i] = toDrv[i]) \/ toDrv'[i] = p
  <2>1. i \in 1 .. Len(toDrv) \/ i = Len(toDrv) + 1 BY <1>4, <1>5
  <2>. QED BY <2>1, <1>4, <1>5
<1>7. Types' BY <1>1, <1>2, <1>4 DEF Types
<1>8. Grouped' BY <1>1, <1>2, <1>3, <1>6 DEF Grouped
<1>9. Emptied' BY <1>1, <1>2 DEF Emptied
<1>10. Booting'
  <2>1. host'.ready <=> host'.pc \notin Starting BY <1>1, <1>2 DEF Booting, Starting
  <2>2. ASSUME ~host'.ready
        PROVE  /\ engine'.access = "none" /\ ~afu'.known
               /\ Len(toDrv') + Bit(drv'.cv) + Bit(drv'.ready) = Bit(host'.pc # "init_signal")
               /\ \A i \in DOMAIN toDrv' : toDrv'[i].cv
               /\ host'.pc = "init_signal" => host'.cv
    <3>1. host.pc = "init_signal" /\ host'.pc = "init_get" BY <1>1, <1>2, <2>2 DEF Booting, Starting
    <3>2. /\ engine.access = "none" /\ ~afu.known /\ host.cv
          /\ Len(toDrv) + Bit(drv.cv) + Bit(drv.ready) = Bit(host.pc # "init_signal")
          /\ \A i \in DOMAIN toDrv : toDrv[i].cv
      BY <1>1, <1>2, <2>2, <3>1 DEF Booting
    <3>3. \A i \in DOMAIN toDrv' : toDrv'[i].cv BY <1>3, <1>6, <3>2
    <3>4. Bit(drv.cv) \in Nat /\ Bit(drv.ready) \in Nat BY DEF Bit
    <3>5. Len(toDrv) + Bit(drv.cv) + Bit(drv.ready) = 0 BY <3>1, <3>2 DEF Bit
    <3>6. Len(toDrv') + Bit(drv'.cv) + Bit(drv'.ready) = 1 BY <1>2, <1>4, <3>4, <3>5
    <3>. QED BY <1>2, <3>1, <3>2, <3>3, <3>6 DEF Bit
  <2>. QED BY <2>1, <2>2 DEF Booting
<1>11. Told' BY <1>1, <1>2 DEF Told
<1>12. EndTypes /\ EndTypes' BY <1>1, <1>7, Ends, EndsNext
<1>13. ASSUME NEW l \in HostLines PROVE Downward(l)' /\ HostCredit(l)'
  <2>. DEFINE q == IdsDown(l)
              y == host.out[l].id
  <2>1. IdsDown(l)' = Append(q, y) BY <1>1, <1>3, DownAppend
  <2>2. host'.out[l].id = 0 BY <1>2, NoneTypes
  <2>3. /\ drv.in[l].id \in Nat /\ q \in Seq(Nat) /\ y \in Nat /\ afu.got[l] \in Nat /\ sent[l] \in Nat
        /\ NonZeros(q) \in Nat
    BY <1>12 DEF EndTypes
  <2>4. Along(drv.in[l].id, q, y, afu.got[l], sent[l]) BY <1>1, Alongs DEF DownAlong
  <2>. HIDE DEF q, y
  <2>5. Along(drv.in[l].id, Append(q, y), 0, afu.got[l], sent[l]) BY <2>3, <2>4, AlongPacket
  <2>6. DownAlong(l)' BY <1>2, <2>1, <2>2, <2>5 DEF DownAlong
  <2>7. Downward(l)' BY <1>7, <2>6, AlongsNext
  <2>8. NonZeros(IdsDown(l)') = NonZeros(q) + Bit(y # 0) BY <2>1, <2>3, NonZerosAppend
  <2>9. RetsUp(l)' = RetsUp(l) BY <1>2, Zenon DEF RetsUp
  <2>10. Bit(host'.out[l].id # 0) = 0 /\ Bit(y # 0) \in 0 .. 1 BY <2>2 DEF Bit
  <2>11. HostOut(l)' = HostOut(l)
    <3>. DEFINE i == Bit(drv.in[l].id # 0)
    <3>1. afu.owed[l] \in Nat /\ drv.aret[l] \in 0 .. 1 /\ NonZeros(RetsUp(l)) \in Nat /\ i \in 0 .. 1
      BY <1>12 DEF EndTypes, Bit
    <3>2. HostOut(l) = Bit(y # 0) + NonZeros(q) + i + afu.owed[l] + drv.aret[l] + NonZeros(RetsUp(l))
      BY DEF HostOut, y, q
    <3>3. HostOut(l)' = 0 + (NonZeros(q) + Bit(y # 0)) + i + afu.owed[l] + drv.aret[l] + NonZeros(RetsUp(l))
      BY <1>2, <2>8, <2>9, <2>10 DEF HostOut
    <3>. HIDE DEF i
    <3>. QED BY <3>1, <3>2, <3>3, <2>3, <2>10
  <2>12. HostCredit(l)' BY <1>1, <1>2, <2>11 DEF HostCredit
  <2>. QED BY <2>7, <2>12
<1>14. \A l \in Lines : Upward(l)' BY <1>1, <1>2, UpSame
<1>15. ASSUME NEW l \in Returns PROVE NonZeros(RetsDown(l)') + host'.ret[l] = NonZeros(RetsDown(l)) + host.ret[l]
                                      /\ NonZeros(RetsDown(l)') \in Nat /\ host'.ret[l] = 0
  <2>1. RetsDown(l)' = Append(RetsDown(l), p.ret[l]) BY <1>1, <1>3, DownAppend
  <2>2. RetsDown(l) \in Seq(Nat) /\ NonZeros(RetsDown(l)) \in Nat /\ host.ret[l] \in 0 .. 1 BY <1>12 DEF EndTypes
  <2>3. NonZeros(RetsDown(l)') = NonZeros(RetsDown(l)) + Bit(host.ret[l] # 0)
    BY <1>3, <2>1, <2>2, NonZerosAppend
  <2>4. Bit(host.ret[l] # 0) = host.ret[l] BY <2>2 DEF Bit
  <2>5. host'.ret[l] = 0 BY <1>2, NoneTypes
  <2>. QED BY <2>2, <2>3, <2>4, <2>5
<1>16. ASSUME NEW l \in AfuLines PROVE AfuCredit(l)'
  <2>0. l \in Lines /\ l \in Returns BY DEF Lines, Returns
  <2>. DEFINE x == Bit(drv.out[l] # 0)
              y == NonZeros(IdsUp(l))
              z == Bit(l \in {"resp", "rdata"} /\ host.in[l] # 0)
              r == NonZeros(RetsDown(l)')
              s == NonZeros(RetsDown(l))
  <2>1. AfuOut(l) = x + y + z + host.ret[l] + s BY DEF AfuOut
  <2>2. AfuOut(l)' = x + y + z + host'.ret[l] + r BY <1>2 DEF AfuOut, IdsUp
  <2>3. x \in Nat /\ y \in Nat /\ z \in Nat /\ s \in Nat /\ host.ret[l] \in Nat
    BY <1>12, <2>0 DEF EndTypes, Bit
  <2>4. r + host'.ret[l] = s + host.ret[l] /\ r \in Nat /\ host'.ret[l] \in Nat BY <1>15, <2>0
  <2>. HIDE DEF x, y, z, r, s
  <2>5. AfuOut(l)' = AfuOut(l) BY <2>1, <2>2, <2>3, <2>4
  <2>. QED BY <1>1, <1>2, <2>5 DEF AfuCredit
<1>17. Wires' BY <1>1, <1>2, WiresSame
<1>18. DataParts' BY <1>1, <1>2, <1>3, <1>7, DataOfPacket
<1>19. \A k \in DataLines : Fifo(k)' BY <1>1, <1>2, FifoSame
<1>20. CmdAccess' BY <1>1, <1>2, CmdAccessSame
<1>21. RespOrder' BY <1>1, <1>2, RespOrderSame
<1>22. CfgAccess'
  <2>0. "ack" \in Returns /\ "cfg" \in Lines BY DEF Lines, Returns
  <2>. DEFINE r == NonZeros(RetsDown("ack")')
              s == NonZeros(RetsDown("ack"))
              up == asent["cfg"] - engine.got["cfg"]
              a == drv.ret["ack"]
  <2>1. r + host'.ret["ack"] = s + host.ret["ack"] /\ r \in Nat /\ host'.ret["ack"] \in Nat /\ s \in Nat
        /\ host.ret["ack"] \in Nat
    <3>1. r + host'.ret["ack"] = s + host.ret["ack"] /\ r \in Nat /\ host'.ret["ack"] = 0
      BY <1>15, <2>0
    <3>. QED BY <3>1, <1>1, Acks DEF AckTypes
  <2>2. up \in Int /\ a \in Nat BY <1>1, Acks DEF AckTypes
  <2>3. up + host.ret["ack"] + s + a = Bit(afu.cfg # 0 /\ drv.ackPending) BY <1>1 DEF CfgAccess
  <2>. HIDE DEF r, s, up, a
  <2>4. up + host'.ret["ack"] + r + a = Bit(afu.cfg # 0 /\ drv.ackPending) BY <2>1, <2>2, <2>3
  <2>. QED BY <1>1, <1>2, <2>4 DEF CfgAccess, r, up, a
<1>. QED BY <1>7, <1>8, <1>9, <1>10, <1>11, <1>13, <1>14, <1>16, <1>17, <1>18, <1>19, <1>20, <1>21, <1>22
         DEF IInv, DataParts

\* ocse decodes a packet.
LEMMA GetStep == ASSUME IInv, HostGet PROVE IInv'
<1>. DEFINE p == Head(toHost)
            N == Len(toHost)
<1>1. /\ Types /\ Grouped /\ Emptied /\ Booting /\ Told /\ Wires /\ DataParts /\ CmdAccess
      /\ RespOrder /\ CfgAccess /\ \A k \in DataLines : Fifo(k)
      /\ \A l \in HostLines : Downward(l) /\ HostCredit(l)
      /\ \A l \in Lines : Upward(l)
      /\ \A l \in AfuLines : AfuCredit(l)
  BY DEF IInv, DataParts
<1>2. /\ host' \in HostT
      /\ host.pc \in {"init_get", "get"} /\ toHost # <<>> /\ toHost' = Tail(toHost)
      /\ host'.pc = IF host.pc = "get" THEN "handle" ELSE "init_read"
      /\ p \in DrvPackets /\ host'.in = p.msg
      /\ \A k \in Returns : host'.ret[k] = Bit(k \in {"cmd", "cdata"} /\ p.msg[k] # 0)
      /\ host'.cv \/ host'.ret = None(Returns)
      /\ \A l \in HostLines : host'.avail[l] = host.avail[l] + p.ret[l]
      /\ host.ret = None(Returns) /\ host.in = None(Lines)
      /\ host'.out = host.out /\ host'.ready = host.ready
      /\ UNCHANGED <<drv, toDrv, engine, afu, sent, asent, link>>
  BY <1>1, GetFields
<1>3. toHost \in Seq(DrvPackets) BY <1>1 DEF Types
<1>4. /\ N \in Nat \ {0} /\ p = toHost[1] /\ toHost' \in Seq(DrvPackets) /\ Len(toHost') = N - 1
      /\ \A i \in 1 .. N - 1 : toHost'[i] = toHost[i + 1]
  BY <1>2, <1>3
<1>5. DOMAIN toHost = 1 .. N /\ DOMAIN toHost' = 1 .. N - 1 BY <1>3, <1>4
<1>. HIDE DEF p, N
<1>6. 1 \in DOMAIN toHost /\ \A i \in DOMAIN toHost' : i + 1 \in DOMAIN toHost /\ toHost'[i] = toHost[i + 1]
  BY <1>4, <1>5
<1>7. Types' BY <1>1, <1>2, <1>4 DEF Types
<1>8. Grouped' BY <1>1, <1>2, <1>6 DEF Grouped
<1>9. EndTypes /\ EndTypes' /\ AckTypes BY <1>1, <1>7, Ends, EndsNext, Acks
<1>10. ASSUME ~host.ready PROVE p.msg = None(Lines)
  <2>1. ASSUME NEW l \in AfuLines PROVE p.msg[l] = 0
    <3>0. l \in Lines /\ l \in Returns BY DEF Lines, Returns
    <3>1. AfuOut(l) = 0 BY <1>1, <1>10 DEF AfuCredit, Booting
    <3>2. /\ Bit(drv.out[l] # 0) \in Nat /\ Bit(l \in {"resp", "rdata"} /\ host.in[l] # 0) \in Nat
          /\ NonZeros(IdsUp(l)) \in Nat /\ host.ret[l] \in Nat /\ NonZeros(RetsDown(l)) \in Nat
      <4>1. NonZeros(IdsUp(l)) \in Nat /\ host.ret[l] \in Nat /\ NonZeros(RetsDown(l)) \in Nat
        <5>1. NonZeros(IdsUp(l)) \in Nat /\ host.ret[l] \in 0 .. 1 /\ NonZeros(RetsDown(l)) \in Nat
          BY <1>9, <3>0, Zenon DEF EndTypes
        <5>. QED BY <5>1
      <4>2. Bit(drv.out[l] # 0) \in Nat /\ Bit(l \in {"resp", "rdata"} /\ host.in[l] # 0) \in Nat BY DEF Bit
      <4>. QED BY <4>1, <4>2
    <3>3. NonZeros(IdsUp(l)) = 0
      <4>. DEFINE a == Bit(drv.out[l] # 0)
                  b == Bit(l \in {"resp", "rdata"} /\ host.in[l] # 0)
                  c == NonZeros(IdsUp(l))
                  d == NonZeros(RetsDown(l))
                  e == host.ret[l]
      <4>1. a + c + b + e + d = 0 BY <3>1 DEF AfuOut
      <4>2. a \in Nat /\ b \in Nat /\ c \in Nat /\ d \in Nat /\ e \in Nat BY <3>2
      <4>. HIDE DEF a, b, c, d, e
      <4>3. c = 0 BY <4>1, <4>2
      <4>. QED BY <4>3 DEF c
    <3>4. IdsUp(l) \in Seq(Nat) BY <1>9, <3>0 DEF EndTypes
    <3>5. \A i \in DOMAIN IdsUp(l) : IdsUp(l)[i] = 0 BY <3>3, <3>4, NonZerosNat
    <3>6. IdsUp(l)[1] = toHost[1].msg[l] /\ 1 \in DOMAIN IdsUp(l) BY <1>6 DEF IdsUp
    <3>. QED BY <3>5, <3>6, <1>4
  <2>2. p.msg["cfg"] = 0
    <3>0. "cfg" \in Lines /\ "cfg" \in HostLines BY DEF Lines, HostLines
    <3>. DEFINE down == sent["cfg"] - afu.got["cfg"]
                up == asent["cfg"] - engine.got["cfg"]
    <3>1. engine.access = "none" BY <1>1, <1>10 DEF Booting
    <3>2. down + Bit(afu.asked # 0) + Bit(afu.cfg # 0 /\ ~drv.ackPending) + up = 0
      BY <1>1, <3>1 DEF CfgAccess, Bit
    <3>3. afu.got["cfg"] <= sent["cfg"] BY <1>1, <3>0, DownCount
    <3>4. engine.got["cfg"] <= asent["cfg"] BY <1>1, <3>0, UpCount
    <3>5. down \in Nat /\ up \in Nat BY <1>9, <3>3, <3>4 DEF AckTypes
    <3>6. Bit(afu.asked # 0) \in Nat /\ Bit(afu.cfg # 0 /\ ~drv.ackPending) \in Nat BY DEF Bit
    <3>7. up = 0
      <4>. HIDE DEF down, up
      <4>. QED BY <3>2, <3>5, <3>6
    <3>8. engine.got["cfg"] = asent["cfg"] BY <1>9, <3>7 DEF AckTypes
    <3>9. \A i \in DOMAIN toHost : toHost[i].msg["cfg"] = 0 BY <1>1, <3>0, <3>8, UpCount
    <3>. QED BY <3>9, <1>4, <1>6
  <2>3. \A l \in Lines : p.msg[l] = 0 BY <2>1, <2>2 DEF Lines
  <2>4. p.msg \in [Lines -> Nat] BY <1>2 DEF DrvPackets
  <2>. QED BY <2>3, <2>4 DEF None
<1>11. Emptied'
  <2>1. host'.pc # "handle" => host'.in = None(Lines)
    <3>1. host'.pc # "handle" => ~host.ready BY <1>1, <1>2 DEF Booting, Starting
    <3>. QED BY <3>1, <1>2, <1>10
  <2>2. host'.ret["resp"] = 0 /\ host'.ret["rdata"] = 0
    BY <1>2 DEF Returns, AfuLines, Bit
  <2>3. host'.pc \notin {"init_get", "get"} BY <1>2
  <2>. QED BY <2>1, <2>2, <2>3, <1>1, <1>2 DEF Emptied
<1>12. Booting' BY <1>1, <1>2 DEF Booting, Starting, Bit
<1>13. Told' BY <1>1, <1>2 DEF Told
<1>14. ASSUME NEW l \in HostLines PROVE HostCredit(l)'
  <2>1. /\ RetsUp(l) # <<>> /\ Head(RetsUp(l)) = p.ret[l] /\ RetsUp(l)' = Tail(RetsUp(l))
    BY <1>1, <1>2, UpTail DEF p
  <2>2. RetsUp(l) \in Seq(Nat) BY <1>9 DEF EndTypes
  <2>3. NonZeros(RetsUp(l)) = Bit(p.ret[l] # 0) + NonZeros(RetsUp(l)') BY <2>1, <2>2, NonZerosTail
  <2>4. p.ret[l] \in 0 .. 1 BY <1>2, PacketFields
  <2>5. Bit(p.ret[l] # 0) = p.ret[l] BY <2>4 DEF Bit
  <2>. DEFINE a == Bit(host.out[l].id # 0) + NonZeros(IdsDown(l)) + Bit(drv.in[l].id # 0)
                     + afu.owed[l] + drv.aret[l]
              r == NonZeros(RetsUp(l))
              s == NonZeros(RetsUp(l)')
  <2>6. a \in Nat /\ r \in Nat /\ s \in Nat /\ host.avail[l] \in Nat
    <3>1. Bit(host.out[l].id # 0) \in Nat /\ Bit(drv.in[l].id # 0) \in Nat BY DEF Bit
    <3>2. NonZeros(IdsDown(l)) \in Nat /\ afu.owed[l] \in Nat /\ drv.aret[l] \in Nat /\ r \in Nat /\ s \in Nat
          /\ host.avail[l] \in Nat
      BY <1>9 DEF EndTypes
    <3>. QED BY <3>1, <3>2
  <2>7. HostOut(l) = a + r /\ HostOut(l)' = a + s BY <1>2 DEF HostOut, IdsDown
  <2>8. r = p.ret[l] + s BY <2>3, <2>5
  <2>9. host'.avail[l] = host.avail[l] + p.ret[l] BY <1>2
  <2>. HIDE DEF a, r, s
  <2>10. host'.avail[l] + HostOut(l)' = host.avail[l] + HostOut(l) BY <2>4, <2>6, <2>7, <2>8, <2>9
  <2>. QED BY <1>1, <1>2, <2>10 DEF HostCredit
<1>15. \A l \in HostLines : Downward(l)' BY <1>1, <1>2, DownSame
<1>16. ASSUME NEW l \in Lines
       PROVE  /\ Upward(l)' /\ NonZeros(IdsUp(l)) = Bit(p.msg[l] # 0) + NonZeros(IdsUp(l)')
              /\ host.in[l] = 0
  <2>. DEFINE q == IdsUp(l)
              r == IdsUp(l)'
  <2>1. q # <<>> /\ Head(q) = p.msg[l] /\ r = Tail(q) BY <1>1, <1>2, UpTail DEF p
  <2>2. q \in Seq(Nat) /\ drv.out[l] \in Nat /\ engine.got[l] \in Nat /\ asent[l] \in Nat BY <1>9 DEF EndTypes
  <2>3. host.in[l] = 0 BY <1>2, NoneTypes
  <2>4. UpAlong(l) BY <1>1, Alongs
  <2>5. Along(0, q, drv.out[l], engine.got[l], asent[l]) BY <2>3, <2>4 DEF UpAlong
  <2>. HIDE DEF q, r
  <2>6. Along(Head(q), Tail(q), drv.out[l], engine.got[l], asent[l]) BY <2>1, <2>2, <2>5, AlongDecode
  <2>7. Along(p.msg[l], r, drv.out[l], engine.got[l], asent[l]) BY <2>1, <2>6
  <2>8. UpAlong(l)' BY <1>2, <2>7 DEF UpAlong, r
  <2>9. Upward(l)' BY <1>7, <2>8, AlongsNext
  <2>10. NonZeros(q) = Bit(Head(q) # 0) + NonZeros(Tail(q)) BY <2>1, <2>2, NonZerosTail
  <2>. QED BY <2>1, <2>3, <2>9, <2>10 DEF q, r
<1>17. ASSUME NEW l \in AfuLines PROVE AfuCredit(l)'
  <2>0. l \in Lines /\ l \in Returns BY DEF Lines, Returns
  <2>. DEFINE a == Bit(drv.out[l] # 0)
              b == NonZeros(IdsUp(l))
              c == NonZeros(IdsUp(l)')
              d == NonZeros(RetsDown(l))
              m == Bit(p.msg[l] # 0)
              e == Bit(l \in {"resp", "rdata"} /\ p.msg[l] # 0)
              f == Bit(l \in {"cmd", "cdata"} /\ p.msg[l] # 0)
  <2>1. a \in Nat /\ b \in Nat /\ c \in Nat /\ d \in Nat /\ m \in Nat BY <1>9, <2>0 DEF EndTypes, Bit
  <2>2. b = m + c BY <1>16, <2>0
  <2>3. e + f = m /\ e \in Nat /\ f \in Nat BY DEF Bit, AfuLines
  <2>4. host.ret[l] = 0 /\ host.in[l] = 0 BY <1>2, <2>0, NoneTypes
  <2>5. AfuOut(l) = a + b + 0 + 0 + d
    <3>1. Bit(l \in {"resp", "rdata"} /\ host.in[l] # 0) = 0 BY <2>4 DEF Bit
    <3>. QED BY <2>4, <3>1 DEF AfuOut
  <2>6. AfuOut(l)' = a + c + e + f + d
    <3>1. host'.ret[l] = f /\ host'.in = p.msg BY <1>2, <2>0
    <3>. QED BY <1>2, <3>1 DEF AfuOut, RetsDown
  <2>. HIDE DEF a, b, c, d, e, f, m
  <2>7. AfuOut(l)' = AfuOut(l) BY <2>1, <2>2, <2>3, <2>5, <2>6
  <2>. QED BY <1>1, <1>2, <2>7 DEF AfuCredit
<1>18. Wires' BY <1>1, <1>2, WiresSame
<1>19. DataParts' BY <1>1, <1>2, <1>7, DataOfIdle
<1>20. \A k \in DataLines : Fifo(k)' BY <1>1, <1>2, FifoSame
<1>21. CmdAccess' BY <1>1, <1>2, CmdAccessSame
<1>22. CfgAccess'
  <2>1. host'.ret["ack"] = 0 /\ host.ret["ack"] = 0
    <3>1. "ack" \in Returns /\ "ack" \notin {"cmd", "cdata"} BY DEF Returns
    <3>. QED BY <3>1, <1>2, NoneTypes DEF Bit
  <2>2. RetsDown("ack")' = RetsDown("ack") BY <1>2, Zenon DEF RetsDown
  <2>. QED BY <1>1, <1>2, <2>1, <2>2 DEF CfgAccess
<1>23. RespOrder'
  <2>0. "resp" \in Lines /\ "rdata" \in Lines BY DEF Lines, AfuLines
  <2>1. /\ afu.owed["cmd"] <= 1
        /\ (afu.job = 0 /\ asent["resp"] = engine.got["resp"]) \/ host.in["resp"] # 0 =>
             CmdReturned /\ \A i \in DOMAIN toHost : toHost[i].ret["cmd"] = 0
        /\ \A j \in DOMAIN toHost : toHost[j].msg["resp"] # 0 =>
             /\ host.in["rdata"] = 0 /\ \A i \in 1 .. j - 1 : toHost[i].msg["rdata"] = 0
             /\ CmdReturned /\ \A i \in j + 1 .. N : toHost[i].ret["cmd"] = 0
        /\ drv.out["resp"] # 0 =>
             /\ afu.owed["cmd"] = 0
             /\ host.in["rdata"] = 0 /\ \A i \in DOMAIN toHost : toHost[i].msg["rdata"] = 0
    BY <1>1 DEF RespOrder, N
  <2>2. CmdReturned' = CmdReturned BY <1>2 DEF CmdReturned
  <2>3. host'.in["rdata"] = toHost[1].msg["rdata"] /\ host'.in["resp"] = toHost[1].msg["resp"] BY <1>2, <1>4
  <2>4. ASSUME (afu.job = 0 /\ asent["resp"] = engine.got["resp"]) \/ host'.in["resp"] # 0
        PROVE  CmdReturned /\ \A i \in DOMAIN toHost' : toHost'[i].ret["cmd"] = 0
    <3>1. CASE afu.job = 0 /\ asent["resp"] = engine.got["resp"] BY <3>1, <2>1, <1>6
    <3>2. CASE host'.in["resp"] # 0
      <4>1. CmdReturned /\ \A i \in 2 .. N : toHost[i].ret["cmd"] = 0 BY <3>2, <2>1, <2>3, <1>6
      <4>2. \A i \in DOMAIN toHost' : i + 1 \in 2 .. N BY <1>4, <1>5
      <4>. QED BY <4>1, <4>2, <1>6
    <3>. QED BY <2>4, <3>1, <3>2
  <2>5. ASSUME NEW j \in DOMAIN toHost', toHost'[j].msg["resp"] # 0
        PROVE  /\ host'.in["rdata"] = 0 /\ \A i \in 1 .. j - 1 : toHost'[i].msg["rdata"] = 0
               /\ CmdReturned /\ \A i \in j + 1 .. N - 1 : toHost'[i].ret["cmd"] = 0
    <3>1. j + 1 \in DOMAIN toHost /\ toHost[j + 1].msg["resp"] # 0 /\ (j + 1) - 1 = j /\ j \in 1 .. N - 1
      BY <2>5, <1>4, <1>5, <1>6
    <3>2. /\ \A i \in 1 .. j : toHost[i].msg["rdata"] = 0
          /\ CmdReturned /\ \A i \in (j + 1) + 1 .. N : toHost[i].ret["cmd"] = 0
      BY <3>1, <2>1
    <3>3. 1 \in 1 .. j BY <3>1
    <3>4. ASSUME NEW i \in 1 .. j - 1 PROVE toHost'[i].msg["rdata"] = 0
      <4>1. i \in 1 .. N - 1 /\ i + 1 \in 1 .. j BY <3>1, <1>4
      <4>. QED BY <4>1, <3>2, <1>4
    <3>5. ASSUME NEW i \in j + 1 .. N - 1 PROVE toHost'[i].ret["cmd"] = 0
      <4>1. i \in 1 .. N - 1 /\ i + 1 \in (j + 1) + 1 .. N BY <3>1, <1>4
      <4>. QED BY <4>1, <3>2, <1>4
    <3>. QED BY <3>2, <3>3, <3>4, <3>5, <2>3
  <2>6. ASSUME drv.out["resp"] # 0
        PROVE  host'.in["rdata"] = 0 /\ \A i \in DOMAIN toHost' : toHost'[i].msg["rdata"] = 0
    BY <2>1, <2>3, <2>6, <1>6
  <2>. QED BY <1>2, <1>4, <2>1, <2>2, <2>4, <2>5, <2>6, Zenon DEF RespOrder
<1>. QED BY <1>7, <1>8, <1>11, <1>12, <1>13, <1>14, <1>15, <1>16, <1>17, <1>18, <1>19, <1>20, <1>21, <1>22, <1>23
         DEF IInv, DataParts

\* The sums of the credits are natural numbers.
LEMMA HostOutNat ==
  ASSUME Types, NEW l \in HostLines
  PROVE  HostOut(l) \in Nat /\ host.avail[l] \in Nat /\ afu.owed[l] <= HostOut(l)
<1>1. EndTypes BY Ends
<1>. DEFINE a == Bit(host.out[l].id # 0)
            b == NonZeros(IdsDown(l))
            c == Bit(drv.in[l].id # 0)
            d == afu.owed[l]
            e == drv.aret[l]
            f == NonZeros(RetsUp(l))
<1>2. a \in 0 .. 1 /\ c \in 0 .. 1 BY DEF Bit
<1>3. b \in Nat /\ d \in Nat /\ e \in 0 .. 1 /\ f \in Nat /\ host.avail[l] \in Nat BY <1>1, Zenon DEF EndTypes
<1>4. HostOut(l) = a + b + c + d + e + f BY DEF HostOut
<1>. HIDE DEF a, b, c, d, e, f
<1>5. HostOut(l) \in Nat /\ d <= HostOut(l) BY <1>2, <1>3, <1>4
<1>. QED BY <1>3, <1>5 DEF d

\* ocse takes the initial credits of the AFU.
LEMMA ReadCreditsStep == ASSUME IInv, afu_tlx_read_initial_credits PROVE IInv'
<1>1. /\ Types /\ Grouped /\ Emptied /\ Booting /\ Told /\ Wires /\ DataParts /\ CmdAccess
      /\ RespOrder /\ CfgAccess /\ \A k \in DataLines : Fifo(k)
      /\ \A l \in HostLines : Downward(l) /\ HostCredit(l)
      /\ \A l \in Lines : Upward(l)
      /\ \A l \in AfuLines : AfuCredit(l)
  BY DEF IInv, DataParts
<1>2. /\ host' \in HostT
      /\ host.pc = "init_read" /\ host'.pc = "signal" /\ host'.ready = TRUE /\ host'.avail = AfuGrants
      /\ host'.in = host.in /\ host'.out = host.out /\ host'.ret = host.ret /\ host'.cv = host.cv
      /\ UNCHANGED <<drv, toDrv, toHost, engine, afu, sent, asent, link>>
  BY <1>1, ReadCreditsFields
<1>3. Types' BY <1>1, <1>2 DEF Types
<1>4. Grouped' BY <1>1, <1>2 DEF Grouped
<1>5. Emptied' BY <1>1, <1>2 DEF Emptied
<1>6. Booting' BY <1>1, <1>2 DEF Booting, Starting
<1>7. Told' BY <1>1, <1>2 DEF Told
<1>8. ASSUME NEW l \in HostLines PROVE HostCredit(l)'
  <2>1. ~host.ready BY <1>1, <1>2 DEF Booting, Starting
  <2>2. host.avail[l] + HostOut(l) = 0 BY <1>1, <2>1 DEF HostCredit
  <2>3. HostOut(l) = 0 BY <1>1, <2>2, HostOutNat
  <2>4. HostOut(l)' = 0 BY <1>2, <2>3, HostOutSame
  <2>5. AfuGrants[l] \in Nat BY LinkAssumption
  <2>. QED BY <1>2, <2>4, <2>5 DEF HostCredit
<1>9. \A l \in HostLines : Downward(l)' BY <1>1, <1>2, DownSame
<1>10. \A l \in Lines : Upward(l)' BY <1>1, <1>2, UpSame
<1>11. \A l \in AfuLines : AfuCredit(l)' BY <1>1, <1>2, AfuCreditSame
<1>12. Wires' /\ CmdAccess' BY <1>1, <1>2, WiresSame, CmdAccessSame
<1>13. DataParts' BY <1>1, <1>2, <1>3, DataOfIdle
<1>14. \A k \in DataLines : Fifo(k)' BY <1>1, <1>2, FifoSame
<1>15. CfgAccess' BY <1>1, <1>2, CfgAccessSame
<1>16. RespOrder' BY <1>1, <1>2, RespOrderSame
<1>. QED BY <1>3, <1>4, <1>5, <1>6, <1>7, <1>8, <1>9, <1>10, <1>11, <1>12, <1>13, <1>14, <1>15, <1>16
         DEF IInv, DataParts

\* A short read, the next turn of the loop, and a call of either side that fails.
LEMMA IdleStep == ASSUME IInv, HostShort \/ HostReenter \/ HostNext \/ DriverReenter PROVE IInv'
<1>1. /\ Types /\ Grouped /\ Emptied /\ Booting /\ Told /\ Wires /\ DataParts /\ CmdAccess
      /\ RespOrder /\ CfgAccess /\ \A k \in DataLines : Fifo(k)
      /\ \A l \in HostLines : Downward(l) /\ HostCredit(l)
      /\ \A l \in Lines : Upward(l)
      /\ \A l \in AfuLines : AfuCredit(l)
  BY DEF IInv, DataParts
<1>2. /\ host' \in HostT /\ engine' \in EngineT /\ link' \in {"up", "closed", "garbled", "crashed"}
      /\ host'.pc = host.pc \/ (/\ host'.pc \notin {"handle", "init_get"} \cup Starting
                                /\ host.pc \notin {"handle"} \cup Starting
                                /\ host'.pc = "get" => host.pc = "get")
      /\ host'.in = host.in /\ host'.out = host.out /\ host'.ret = host.ret /\ host'.cv = host.cv
      /\ host'.avail = host.avail /\ host'.ready = host.ready
      /\ engine'.access = engine.access /\ engine'.left = engine.left /\ engine'.got = engine.got
      /\ engine'.flits = engine.flits
      /\ UNCHANGED <<drv, toDrv, toHost, afu, sent, asent>>
  <2>1. CASE HostShort \/ HostReenter \/ HostNext BY <2>1, <1>1, IdleFields
  <2>2. CASE DriverReenter
    <3>1. UNCHANGED <<host, drv, toDrv, toHost, engine, afu, sent, asent>> BY <2>2 DEF DriverReenter
    <3>2. link' \in {"closed", "garbled"} BY <2>2 DEF DriverReenter, ReenterTail
    <3>3. host \in HostT /\ engine \in EngineT BY <1>1 DEF Types
    <3>. QED BY <3>1, <3>2, <3>3
  <2>. QED BY <2>1, <2>2
<1>3. Types' BY <1>1, <1>2 DEF Types
<1>4. Grouped' BY <1>1, <1>2 DEF Grouped
<1>5. Emptied' BY <1>1, <1>2 DEF Emptied
<1>6. Booting' BY <1>1, <1>2 DEF Booting, Starting
<1>7. Told' BY <1>1, <1>2 DEF Told
<1>8. \A l \in HostLines : HostCredit(l)' BY <1>1, <1>2, HostOutSame DEF HostCredit
<1>9. \A l \in HostLines : Downward(l)' BY <1>1, <1>2, DownSame
<1>10. \A l \in Lines : Upward(l)' BY <1>1, <1>2, UpSame
<1>11. \A l \in AfuLines : AfuCredit(l)' BY <1>1, <1>2, AfuCreditSame
<1>12. Wires' /\ CmdAccess' BY <1>1, <1>2, WiresSame, CmdAccessSame
<1>13. DataParts' BY <1>1, <1>2, <1>3, DataOfIdle
<1>14. \A k \in DataLines : Fifo(k)' BY <1>1, <1>2, FifoSame
<1>15. CfgAccess' BY <1>1, <1>2, CfgAccessSame
<1>16. RespOrder' BY <1>1, <1>2, RespOrderSame
<1>. QED BY <1>3, <1>4, <1>5, <1>6, <1>7, <1>8, <1>9, <1>10, <1>11, <1>12, <1>13, <1>14, <1>15, <1>16
         DEF IInv, DataParts

\* Where the access in hand stands, in numbers.
LEMMA AccessFacts ==
  ASSUME IInv
  PROVE  LET down == sent["cmd"] - afu.got["cmd"]
             resp == asent["resp"] - engine.got["resp"]
             data == asent["rdata"] - engine.got["rdata"]
             cdown == sent["cfg"] - afu.got["cfg"]
             up == asent["cfg"] - engine.got["cfg"]
         IN /\ down \in Nat /\ resp \in Nat /\ data \in Nat /\ cdown \in Nat /\ up \in Nat
            /\ host.in["resp"] # 0 => resp > 0
            /\ host.in["rdata"] # 0 => data > 0
            /\ host.in["cfg"] # 0 => up > 0
            /\ drv.in["cmd"].id # 0 => down > 0 /\ drv.in["cmd"].id = afu.got["cmd"] + 1
            /\ drv.in["cfg"].id # 0 => cdown > 0 /\ drv.in["cfg"].id = afu.got["cfg"] + 1
<1>1. Types /\ (\A l \in HostLines : Downward(l)) /\ (\A l \in Lines : Upward(l)) BY DEF IInv
<1>2. AckTypes BY <1>1, Acks
<1>3. /\ "cfg" \in Lines /\ "resp" \in Lines /\ "rdata" \in Lines
      /\ "cmd" \in HostLines /\ "cfg" \in HostLines
  BY DEF Lines, AfuLines, HostLines
<1>4. /\ engine.got["cfg"] <= asent["cfg"] /\ (host.in["cfg"] # 0 => engine.got["cfg"] < asent["cfg"])
      /\ engine.got["resp"] <= asent["resp"] /\ (host.in["resp"] # 0 => engine.got["resp"] < asent["resp"])
      /\ engine.got["rdata"] <= asent["rdata"] /\ (host.in["rdata"] # 0 => engine.got["rdata"] < asent["rdata"])
  BY <1>1, <1>3, UpCount
<1>5. /\ afu.got["cmd"] <= sent["cmd"]
      /\ drv.in["cmd"].id # 0 => drv.in["cmd"].id = afu.got["cmd"] + 1 /\ afu.got["cmd"] < sent["cmd"]
      /\ afu.got["cfg"] <= sent["cfg"]
      /\ drv.in["cfg"].id # 0 => drv.in["cfg"].id = afu.got["cfg"] + 1 /\ afu.got["cfg"] < sent["cfg"]
  BY <1>1, <1>3, DownCount
<1>. QED BY <1>2, <1>4, <1>5 DEF AckTypes

\* What is in the event of ocse is read: a response is one for the access in hand, and
\* response data has come no sooner than its response.
LEMMA AllRead ==
  ASSUME IInv
  PROVE  /\ LinesRead = {l \in Lines : host.in[l] # 0}
         /\ host.in["rdata"] # 0 => engine.left > 0
         /\ host.in["rdata"] # 0 /\ engine.access = "read" => host.in["resp"] # 0
<1>. DEFINE down == sent["cmd"] - afu.got["cmd"]
            resp == asent["resp"] - engine.got["resp"]
            data == asent["rdata"] - engine.got["rdata"]
            cdown == sent["cfg"] - afu.got["cfg"]
            up == asent["cfg"] - engine.got["cfg"]
<1>1. Types /\ CmdAccess /\ CfgAccess /\ RespOrder /\ (\A l \in Lines : Upward(l)) BY DEF IInv
<1>2. AckTypes BY <1>1, Acks
<1>3. /\ down \in Nat /\ resp \in Nat /\ data \in Nat /\ cdown \in Nat /\ up \in Nat
      /\ host.in["resp"] # 0 => resp > 0
      /\ host.in["rdata"] # 0 => data > 0
      /\ host.in["cfg"] # 0 => up > 0
  BY AccessFacts
<1>4. /\ down + Bit(afu.job # 0) + resp = Bit(engine.access \in {"read", "write"})
      /\ data + afu.rbeats =
           IF engine.access = "data" \/ (engine.access = "read" /\ down = 0) THEN engine.left ELSE 0
      /\ engine.access = "read" /\ resp = 0 => data = 0
  BY <1>1 DEF CmdAccess
<1>5. cdown + Bit(afu.asked # 0) + Bit(afu.cfg # 0 /\ ~drv.ackPending) + up = Bit(engine.access = "cfg")
  BY <1>1 DEF CfgAccess
<1>6. /\ Bit(afu.job # 0) \in Nat /\ Bit(afu.asked # 0) \in Nat /\ Bit(afu.cfg # 0 /\ ~drv.ackPending) \in Nat
      /\ Bit(engine.access = "cfg") = 0 \/ engine.access = "cfg"
      /\ Bit(engine.access \in {"read", "write"}) = 0 \/ engine.access \in {"read", "write"}
  BY DEF Bit
<1>7. afu.rbeats \in Nat /\ engine.left \in Nat /\ resp = asent["resp"] - engine.got["resp"]
      /\ asent["resp"] \in Nat /\ engine.got["resp"] \in Nat
  BY <1>2 DEF AckTypes
<1>. HIDE DEF down, resp, data, cdown, up
<1>8. host.in["cfg"] # 0 => engine.access = "cfg" BY <1>3, <1>5, <1>6
<1>9. host.in["resp"] # 0 => engine.access \in {"read", "write"} BY <1>3, <1>4, <1>6
<1>10. host.in["rdata"] # 0 => engine.access \in {"read", "data"} /\ engine.left > 0 BY <1>3, <1>4, <1>7
<1>11. ASSUME host.in["rdata"] # 0, engine.access = "read" PROVE host.in["resp"] # 0
  <2>1. resp # 0 BY <1>3, <1>4, <1>11
  <2>2. engine.got["resp"] # asent["resp"] BY <2>1, <1>7
  <2>3. "resp" \in Lines BY DEF Lines, AfuLines
  <2>4. host.in["resp"] # 0 \/ drv.out["resp"] # 0 \/ \E i \in DOMAIN toHost : toHost[i].msg["resp"] # 0
    BY <1>1, <2>2, <2>3, UpCount
  <2>5. ~(drv.out["resp"] # 0) /\ ~\E i \in DOMAIN toHost : toHost[i].msg["resp"] # 0 BY <1>1, <1>11 DEF RespOrder
  <2>. QED BY <2>4, <2>5
<1>12. ASSUME NEW l \in Lines, host.in[l] # 0 PROVE l \in LinesRead
  <2>1. CASE l = "cfg" BY <2>1, <1>8, <1>12 DEF LinesRead
  <2>2. CASE l = "resp" BY <2>2, <1>9, <1>12 DEF LinesRead
  <2>3. CASE l = "rdata" BY <2>3, <1>10, <1>11, <1>12 DEF LinesRead
  <2>4. CASE l \in {"cmd", "cdata"} BY <2>4, <1>12 DEF LinesRead
  <2>. QED BY <2>1, <2>2, <2>3, <2>4 DEF Lines, AfuLines
<1>13. ASSUME NEW l \in LinesRead PROVE l \in Lines /\ host.in[l] # 0 BY DEF LinesRead
<1>. QED BY <1>10, <1>11, <1>12, <1>13

\* ocse handles what it has decoded.
LEMMA HandleStep == ASSUME IInv, HostHandle PROVE IInv'
<1>. DEFINE down == sent["cmd"] - afu.got["cmd"]
            resp == asent["resp"] - engine.got["resp"]
            data == asent["rdata"] - engine.got["rdata"]
            cdown == sent["cfg"] - afu.got["cfg"]
            up == asent["cfg"] - engine.got["cfg"]
            rs == host.in["resp"] # 0
            rd == host.in["rdata"] # 0
            cf == host.in["cfg"] # 0
<1>1. /\ Types /\ Grouped /\ Emptied /\ Booting /\ Told /\ Wires /\ DataParts /\ CmdAccess
      /\ RespOrder /\ CfgAccess /\ \A k \in DataLines : Fifo(k)
      /\ \A l \in HostLines : Downward(l) /\ HostCredit(l)
      /\ \A l \in Lines : Upward(l)
      /\ \A l \in AfuLines : AfuCredit(l)
  BY DEF IInv, DataParts
<1>2. LinesRead = {l \in Lines : host.in[l] # 0} /\ (rd => engine.left > 0) /\ (rd /\ engine.access = "read" => rs)
  BY AllRead
<1>3. /\ host' \in HostT /\ engine' \in EngineT
      /\ host.pc = "handle" /\ host'.pc = "send" /\ host'.in = None(Lines)
      /\ \A k \in AfuLines : host'.ret[k] = IF k \in {"resp", "rdata"} /\ host.in[k] # 0 THEN 1 ELSE host.ret[k]
      /\ host'.ret["ack"] = IF host.in["cfg"] # 0 THEN 1 ELSE host.ret["ack"]
      /\ host.cv \/ host.ret = None(Returns) => host'.cv \/ host'.ret = None(Returns)
      /\ host'.out = host.out /\ host'.avail = host.avail /\ host'.ready = host.ready
      /\ \A l \in Lines : engine'.got[l] = engine.got[l] + Bit(host.in[l] # 0)
      /\ engine'.left = engine.left - Bit(host.in["rdata"] # 0)
      /\ engine'.access = AccessNext(LinesRead) /\ engine'.flits = engine.flits
      /\ UNCHANGED <<drv, toDrv, toHost, afu, sent, asent, link>>
  BY <1>1, <1>2, HandleFields
<1>4. Types' BY <1>1, <1>3 DEF Types
<1>5. Grouped' BY <1>1, <1>3 DEF Grouped
<1>6. Emptied' BY <1>1, <1>3 DEF Emptied
<1>7. Booting' BY <1>1, <1>3 DEF Booting, Starting
<1>8. Told' BY <1>1, <1>3 DEF Told
<1>9. EndTypes /\ EndTypes' /\ AckTypes BY <1>1, <1>4, Ends, EndsNext, Acks
<1>10. \A l \in HostLines : HostCredit(l)' BY <1>1, <1>3, HostOutSame DEF HostCredit
<1>11. \A l \in HostLines : Downward(l)' BY <1>1, <1>3, DownSame
<1>12. ASSUME NEW l \in Lines PROVE Upward(l)'
  <2>. DEFINE x == host.in[l]
              q == IdsUp(l)
              y == drv.out[l]
              a == engine.got[l]
              b == asent[l]
  <2>1. x \in Nat /\ q \in Seq(Nat) /\ y \in Nat /\ a \in Nat /\ b \in Nat BY <1>9 DEF EndTypes
  <2>2. Along(x, q, y, a, b) BY <1>1, Alongs DEF UpAlong
  <2>3. host'.in[l] = 0 /\ engine'.got[l] = a + Bit(x # 0) BY <1>3, NoneTypes
  <2>4. IdsUp(l)' = q BY <1>3, Zenon DEF IdsUp
  <2>. HIDE DEF x, q, y, a, b
  <2>5. Along(0, q, y, a + Bit(x # 0), b)
    <3>1. CASE x = 0
      <4>1. a + Bit(x # 0) = a BY <3>1, <2>1 DEF Bit
      <4>. QED BY <4>1, <3>1, <2>2
    <3>2. CASE x # 0
      <4>1. Bit(x # 0) = 1 BY <3>2 DEF Bit
      <4>2. Along(0, q, y, a + 1, b) BY <3>2, <2>1, <2>2, AlongTake
      <4>. QED BY <4>1, <4>2
    <3>. QED BY <3>1, <3>2
  <2>6. UpAlong(l)' BY <1>3, <2>3, <2>4, <2>5, Zenon DEF UpAlong, y, b
  <2>. QED BY <1>4, <2>6, AlongsNext
<1>13. ASSUME NEW l \in AfuLines PROVE AfuCredit(l)'
  <2>0. l \in Lines /\ l \in Returns BY DEF Lines, Returns
  <2>. DEFINE a == Bit(drv.out[l] # 0)
              b == NonZeros(IdsUp(l))
              d == NonZeros(RetsDown(l))
              e == Bit(l \in {"resp", "rdata"} /\ host.in[l] # 0)
              r == host.ret[l]
  <2>1. b \in Nat /\ d \in Nat /\ r \in 0 .. 1 BY <1>9, <2>0, Zenon DEF EndTypes
  <2>2. a \in Nat /\ e \in Nat BY DEF Bit
  <2>3. host'.in[l] = 0 BY <1>3, <2>0, NoneTypes
  <2>4. host'.ret[l] = e + r
    <3>1. host'.ret[l] = IF l \in {"resp", "rdata"} /\ host.in[l] # 0 THEN 1 ELSE r BY <1>3
    <3>2. l \in {"resp", "rdata"} => r = 0 BY <1>1, <1>3 DEF Emptied
    <3>. QED BY <2>1, <3>1, <3>2 DEF Bit
  <2>5. AfuOut(l) = a + b + e + r + d BY DEF AfuOut
  <2>6. AfuOut(l)' = a + b + 0 + host'.ret[l] + d
    <3>1. Bit(l \in {"resp", "rdata"} /\ host'.in[l] # 0) = 0 BY <2>3 DEF Bit
    <3>. QED BY <1>3, <3>1 DEF AfuOut, RetsDown, IdsUp
  <2>. HIDE DEF a, b, d, e, r
  <2>7. AfuOut(l)' = AfuOut(l) BY <2>1, <2>2, <2>4, <2>5, <2>6
  <2>. QED BY <1>1, <1>3, <2>7 DEF AfuCredit
<1>14. Wires' BY <1>1, <1>3, WiresSame
<1>15. \A k \in DataLines : Fifo(k)' BY <1>1, <1>3, FifoSame
<1>16. /\ down \in Nat /\ resp \in Nat /\ data \in Nat /\ cdown \in Nat /\ up \in Nat
       /\ rs => resp > 0
       /\ rd => data > 0
       /\ cf => up > 0
  BY AccessFacts
<1>17. /\ down + Bit(afu.job # 0) + resp = Bit(engine.access \in {"read", "write"})
       /\ engine.access \in {"read", "data"} => engine.left > 0
       /\ data + afu.rbeats =
            IF engine.access = "data" \/ (engine.access = "read" /\ down = 0) THEN engine.left ELSE 0
       /\ engine.access = "read" /\ resp = 0 => data = 0
  BY <1>1 DEF CmdAccess
<1>18. /\ sent["cfg"] = engine.got["cfg"] + Bit(engine.access = "cfg")
       /\ cdown + Bit(afu.asked # 0) + Bit(afu.cfg # 0 /\ ~drv.ackPending) + up = Bit(engine.access = "cfg")
       /\ up + host.ret["ack"] + NonZeros(RetsDown("ack")) + drv.ret["ack"]
            = Bit(afu.cfg # 0 /\ drv.ackPending)
  BY <1>1 DEF CfgAccess
<1>19. engine'.access = CASE engine.access = "cfg" /\ cf -> "none"
                          [] engine.access = "write" /\ rs -> "none"
                          [] engine.access = "read" /\ rs -> IF engine'.left = 0 THEN "none" ELSE "data"
                          [] engine.access = "data" /\ engine'.left = 0 -> "none"
                          [] OTHER -> engine.access
  <2>1. ("cfg" \in LinesRead <=> cf) /\ ("resp" \in LinesRead <=> rs) /\ ("rdata" \in LinesRead <=> rd)
    BY <1>2 DEF Lines, AfuLines
  <2>2. engine'.left = engine.left - Bit("rdata" \in LinesRead) BY <1>3, <2>1 DEF Bit
  <2>. QED BY <1>3, <2>1, <2>2 DEF AccessNext
<1>20. /\ engine'.left = engine.left - Bit(rd)
       /\ engine'.got["resp"] = engine.got["resp"] + Bit(rs)
       /\ engine'.got["rdata"] = engine.got["rdata"] + Bit(rd)
       /\ engine'.got["cfg"] = engine.got["cfg"] + Bit(cf)
  BY <1>3 DEF Lines, AfuLines
<1>21. /\ Bit(afu.job # 0) \in 0 .. 1 /\ Bit(afu.asked # 0) \in 0 .. 1
       /\ Bit(afu.cfg # 0 /\ ~drv.ackPending) \in 0 .. 1 /\ Bit(afu.cfg # 0 /\ drv.ackPending) \in 0 .. 1
       /\ rs \in BOOLEAN /\ rd \in BOOLEAN /\ cf \in BOOLEAN
  BY DEF Bit
<1>22. /\ afu.rbeats \in Nat /\ engine.left \in Nat /\ engine.access \in {"none", "cfg", "read", "write", "data"}
       /\ host.ret["ack"] \in 0 .. 1 /\ drv.ret["ack"] \in 0 .. 1 /\ NonZeros(RetsDown("ack")) \in Nat
       /\ engine.got["cfg"] \in Nat /\ asent["cfg"] \in Nat /\ engine.got["resp"] \in Nat /\ asent["resp"] \in Nat
       /\ engine.got["rdata"] \in Nat /\ asent["rdata"] \in Nat /\ sent["cfg"] \in Nat
  BY <1>9 DEF AckTypes, Accesses
<1>23. DataParts'
  <2>1. \A k \in DataLines : DataUnderWay(k)' BY <1>1, <1>3, <1>4, DataSame DEF DataParts
  <2>2. CASE down = 0
    <3>1. "cmd" \in HostLines BY DEF HostLines
    <3>2. afu.got["cmd"] = sent["cmd"] BY <2>2, <1>9 DEF AckTypes
    <3>3. drv.in["cmd"].id = 0 /\ host.out["cmd"].id = 0 /\ \A i \in DOMAIN toDrv : toDrv[i].msg["cmd"].id = 0
      BY <1>1, <3>1, <3>2, DownCount
    <3>4. LastOnly' BY <1>3, <1>4, <3>3 DEF LastOnly
    <3>. QED BY <2>1, <3>4, CmdDataLastNext DEF DataParts
  <2>3. CASE down # 0
    <3>1. resp = 0 /\ engine.access \in {"read", "write"}
      <4>. HIDE DEF down, resp, data
      <4>. QED BY <2>3, <1>16, <1>17, <1>21 DEF Bit
    <3>2. ~rs BY <3>1, <1>16
    <3>3. engine'.access = engine.access
      <4>. HIDE DEF rs, rd, cf
      <4>. QED BY <3>1, <3>2, <1>19
    <3>. QED BY <1>1, <1>3, <1>4, <3>3, DataOfIdle
  <2>. QED BY <2>2, <2>3
<1>24. RespOrder'
  <2>1. host'.in["resp"] = 0 /\ host'.in["rdata"] = 0 BY <1>3, NoneTypes DEF Lines, AfuLines
  <2>2. asent["resp"] = engine'.got["resp"] => rs \/ asent["resp"] = engine.got["resp"]
    BY <1>20, <1>22 DEF Bit
  <2>3. CmdReturned' = CmdReturned BY <1>3 DEF CmdReturned
  <2>. QED BY <1>1, <1>3, <2>1, <2>2, <2>3 DEF RespOrder
<1>. DEFINE resp2 == asent["resp"] - engine'.got["resp"]
            data2 == asent["rdata"] - engine'.got["rdata"]
            up2 == asent["cfg"] - engine'.got["cfg"]
<1>25. resp2 = resp - Bit(rs) /\ data2 = data - Bit(rd) /\ up2 = up - Bit(cf)
  <2>1. Bit(rs) \in 0 .. 1 /\ Bit(rd) \in 0 .. 1 /\ Bit(cf) \in 0 .. 1 BY DEF Bit
  <2>. QED BY <2>1, <1>20, <1>22
<1>26. CmdAccess'
  <2>1. /\ down + Bit(afu.job # 0) + resp2 = Bit(engine'.access \in {"read", "write"})
        /\ engine'.access \in {"read", "data"} => engine'.left > 0
        /\ data2 + afu.rbeats =
             IF engine'.access = "data" \/ (engine'.access = "read" /\ down = 0) THEN engine'.left ELSE 0
        /\ engine'.access = "read" /\ resp2 = 0 => data2 = 0
    <3>. DEFINE j == Bit(afu.job # 0)
                a == engine.access
                a2 == engine'.access
                n == engine.left
                n2 == engine'.left
                rb == afu.rbeats
    <3>1. /\ j \in 0 .. 1 /\ n \in Nat /\ rb \in Nat /\ n2 = n - Bit(rd)
          /\ a \in {"none", "cfg", "read", "write", "data"}
          /\ down + j + resp = Bit(a \in {"read", "write"})
          /\ a \in {"read", "data"} => n > 0
          /\ data + rb = IF a = "data" \/ (a = "read" /\ down = 0) THEN n ELSE 0
          /\ a = "read" /\ resp = 0 => data = 0
          /\ (rd => n > 0) /\ (rd /\ a = "read" => rs)
      BY <1>2, <1>17, <1>20, <1>21, <1>22
    <3>2. a2 = CASE a = "cfg" /\ cf -> "none"
                 [] a = "write" /\ rs -> "none"
                 [] a = "read" /\ rs -> IF n2 = 0 THEN "none" ELSE "data"
                 [] a = "data" /\ n2 = 0 -> "none"
                 [] OTHER -> a
      BY <1>19
    <3>. HIDE DEF down, resp, data, cdown, up, resp2, data2, up2, j, a, a2, n, n2, rb, rs, rd, cf
    <3>3. /\ down + j + resp2 = Bit(a2 \in {"read", "write"})
          /\ a2 \in {"read", "data"} => n2 > 0
          /\ data2 + rb = IF a2 = "data" \/ (a2 = "read" /\ down = 0) THEN n2 ELSE 0
          /\ a2 = "read" /\ resp2 = 0 => data2 = 0
      <4>3. ASSUME a \in {"none", "cfg"}
            PROVE  resp = 0 /\ data = 0 /\ ~rs /\ ~rd /\ resp2 = 0 /\ data2 = 0 /\ down = 0 /\ j = 0 /\ rb = 0
        BY <3>1, <4>3, <1>16, <1>25 DEF Bit
      <4>4. CASE a \in {"none", "cfg"}
        <5>1. a2 \in {"none", "cfg"} BY <3>2, <4>4
        <5>. QED BY <5>1, <4>3, <4>4 DEF Bit
      <4>5. CASE a = "write"
        <5>1. data = 0 /\ rb = 0 /\ ~rd /\ data2 = 0 BY <3>1, <4>5, <1>16, <1>25 DEF Bit
        <5>2. CASE rs
          <6>1. a2 = "none" BY <3>2, <4>5, <5>2
          <6>2. resp = 1 /\ down = 0 /\ j = 0 /\ resp2 = 0 BY <5>2, <3>1, <4>5, <1>16, <1>25 DEF Bit
          <6>. QED BY <5>1, <6>1, <6>2 DEF Bit
        <5>3. CASE ~rs
          <6>1. a2 = "write" /\ resp2 = resp BY <3>2, <4>5, <5>3, <1>16, <1>25 DEF Bit
          <6>. QED BY <5>1, <6>1, <3>1, <4>5
        <5>. QED BY <5>2, <5>3, <1>21
      <4>6. CASE a = "read"
        <5>1. CASE rs
          <6>1. resp = 1 /\ down = 0 /\ j = 0 /\ resp2 = 0 BY <5>1, <3>1, <4>6, <1>16, <1>25 DEF Bit
          <6>2. data2 + rb = n2 /\ n2 \in Nat BY <6>1, <3>1, <4>6, <1>16, <1>25 DEF Bit
          <6>3. a2 = IF n2 = 0 THEN "none" ELSE "data" BY <3>2, <4>6, <5>1
          <6>. QED BY <6>1, <6>2, <6>3 DEF Bit
        <5>2. CASE ~rs
          <6>1. ~rd /\ a2 = "read" BY <3>1, <3>2, <4>6, <5>2
          <6>2. resp2 = resp /\ data2 = data /\ n2 = n BY <6>1, <5>2, <3>1, <1>16, <1>25 DEF Bit
          <6>. QED BY <6>1, <6>2, <3>1, <4>6
        <5>. QED BY <5>1, <5>2, <1>21
      <4>7. CASE a = "data"
        <5>1. down = 0 /\ j = 0 /\ resp = 0 /\ ~rs /\ resp2 = 0 BY <3>1, <4>7, <1>16, <1>25 DEF Bit
        <5>2. data2 + rb = n2 /\ n2 \in Nat BY <3>1, <4>7, <1>16, <1>25 DEF Bit
        <5>3. a2 = IF n2 = 0 THEN "none" ELSE "data" BY <3>2, <4>7
        <5>. QED BY <5>1, <5>2, <5>3 DEF Bit
      <4>. QED BY <3>1, <4>4, <4>5, <4>6, <4>7
    <3>. QED BY <3>3 DEF a2, n2, j, rb
  <2>. QED BY <1>3, <2>1 DEF CmdAccess
<1>27. CfgAccess'
  <2>. DEFINE s == Bit(afu.asked # 0) + Bit(afu.cfg # 0 /\ ~drv.ackPending)
              t == NonZeros(RetsDown("ack")) + drv.ret["ack"]
              b == Bit(afu.cfg # 0 /\ drv.ackPending)
              r == host.ret["ack"]
              r2 == host'.ret["ack"]
              g == engine.got["cfg"]
              g2 == engine'.got["cfg"]
  <2>1. s \in Nat /\ t \in Nat /\ r \in 0 .. 1 /\ b \in 0 .. 1 /\ g \in Nat /\ sent["cfg"] \in Nat BY <1>21, <1>22
  <2>2. cdown + s + up = Bit(engine.access = "cfg") /\ up + r + t = b /\ sent["cfg"] = g + Bit(engine.access = "cfg")
    <3>1. NonZeros(RetsDown("ack")) \in Nat /\ drv.ret["ack"] \in Nat BY <1>22
    <3>2. Bit(afu.asked # 0) \in Nat /\ Bit(afu.cfg # 0 /\ ~drv.ackPending) \in Nat BY <1>21
    <3>. HIDE DEF up, cdown, r, g, b
    <3>. QED BY <3>1, <3>2, <1>16, <1>18, <2>1 DEF r, g, b
  <2>3. r2 = (IF cf THEN 1 ELSE r) /\ g2 = g + Bit(cf) BY <1>3, <1>20
  <2>4. engine'.access = "cfg" <=> engine.access = "cfg" /\ ~cf
    <3>. HIDE DEF cf, rs, rd
    <3>. QED BY <1>19
  <2>5. RetsDown("ack")' = RetsDown("ack") BY <1>3, Zenon DEF RetsDown
  <2>. HIDE DEF s, t, b, r, r2, g, g2, up, cdown, up2, cf, rs, rd
  <2>6. cf => engine.access = "cfg" /\ up = 1 /\ cdown = 0 /\ s = 0 /\ r = 0 /\ t = 0 /\ b = 1
    BY <1>16, <2>1, <2>2 DEF Bit
  <2>7. /\ sent["cfg"] = g2 + Bit(engine'.access = "cfg")
        /\ cdown + s + up2 = Bit(engine'.access = "cfg")
        /\ up2 + r2 + t = b
    <3>1. CASE cf BY <3>1, <1>25, <2>1, <2>2, <2>3, <2>4, <2>6 DEF Bit
    <3>2. CASE ~cf BY <3>2, <1>16, <1>25, <2>1, <2>2, <2>3, <2>4 DEF Bit
    <3>. QED BY <3>1, <3>2, <1>21
  <2>8. /\ cdown + Bit(afu.asked # 0) + Bit(afu.cfg # 0 /\ ~drv.ackPending) + up2 = Bit(engine'.access = "cfg")
        /\ up2 + r2 + NonZeros(RetsDown("ack")) + drv.ret["ack"] = b
    <3>1. NonZeros(RetsDown("ack")) \in Nat /\ drv.ret["ack"] \in Nat BY <1>22
    <3>2. Bit(afu.asked # 0) \in Nat /\ Bit(afu.cfg # 0 /\ ~drv.ackPending) \in Nat BY <1>21
    <3>3. up2 \in Int /\ r2 \in Int BY <1>16, <1>25, <2>1, <2>3 DEF Bit
    <3>. QED BY <3>1, <3>2, <3>3, <2>7, <1>16 DEF s, t
  <2>9. (afu.asked # 0 => afu.asked = sent["cfg"]) /\ (afu.cfg # 0 /\ ~drv.ackPending => afu.cfg = sent["cfg"])
    BY <1>1 DEF CfgAccess
  <2>. QED BY <1>3, <2>5, <2>7, <2>8, <2>9 DEF CfgAccess, up2, cdown, g2, r2, b
<1>. QED BY <1>4, <1>5, <1>6, <1>7, <1>8, <1>10, <1>11, <1>12, <1>13, <1>14, <1>15, <1>23, <1>24, <1>26, <1>27
         DEF IInv, DataParts

\* Without an access in hand no credit of a command is out, so that the send of a
\* command, which does not look, finds one.
LEMMA CommandCredit ==
  ASSUME IInv, host.ready, engine.access = "none"
  PROVE  host.avail["cmd"] > 0 /\ sent["cmd"] = afu.got["cmd"]
<1>. DEFINE down == sent["cmd"] - afu.got["cmd"]
            resp == asent["resp"] - engine.got["resp"]
<1>1. Types /\ CmdAccess /\ RespOrder /\ Downward("cmd") /\ HostCredit("cmd")
  BY DEF IInv, HostLines
<1>2. AckTypes /\ EndTypes BY <1>1, Acks, Ends
<1>3. down + Bit(afu.job # 0) + resp = 0 BY <1>1 DEF CmdAccess, Bit
<1>4. down \in Nat /\ resp \in Nat /\ Bit(afu.job # 0) \in Nat BY AccessFacts DEF Bit
<1>5. down = 0 /\ resp = 0 /\ Bit(afu.job # 0) = 0
  <2>. HIDE DEF down, resp
  <2>. QED BY <1>3, <1>4
<1>6. afu.got["cmd"] = sent["cmd"] /\ asent["resp"] = engine.got["resp"] /\ afu.job = 0
  BY <1>2, <1>5 DEF AckTypes, Bit
<1>7. "cmd" \in HostLines BY DEF HostLines
<1>8. drv.in["cmd"].id = 0 /\ host.out["cmd"].id = 0 /\ NonZeros(IdsDown("cmd")) = 0
  BY <1>1, <1>6, <1>7, DownCount
<1>9. afu.owed["cmd"] = 0 /\ drv.aret["cmd"] = 0 /\ \A i \in DOMAIN toHost : toHost[i].ret["cmd"] = 0
  BY <1>1, <1>6 DEF RespOrder, CmdReturned
<1>10. NonZeros(RetsUp("cmd")) = 0
  <2>1. RetsUp("cmd") \in Seq(Nat) BY <1>2, <1>7, Zenon DEF EndTypes
  <2>2. \A i \in DOMAIN RetsUp("cmd") : RetsUp("cmd")[i] = 0 BY <1>9 DEF RetsUp
  <2>. QED BY <2>1, <2>2, NonZerosNat
<1>11. HostOut("cmd") = 0 BY <1>8, <1>9, <1>10 DEF HostOut, Bit
<1>12. host.avail["cmd"] \in Nat BY <1>1, <1>7, HostOutNat
<1>13. AfuGrants["cmd"] \in 1 .. 255 BY <1>7, LinkAssumption
<1>14. host.avail["cmd"] = AfuGrants["cmd"] BY <1>1, <1>11, <1>12 DEF HostCredit
<1>. QED BY <1>6, <1>13, <1>14

\* ocse sends a response or a command.
LEMMA SendStep == ASSUME IInv, SendResp \/ SendCmd \/ SendCfg PROVE IInv'
<1>1. /\ Types /\ Grouped /\ Emptied /\ Booting /\ Told /\ Wires /\ DataParts /\ CmdAccess
      /\ RespOrder /\ CfgAccess /\ \A k \in DataLines : Fifo(k)
      /\ \A l \in HostLines : Downward(l) /\ HostCredit(l)
      /\ \A l \in Lines : Upward(l)
      /\ \A l \in AfuLines : AfuCredit(l)
  BY DEF IInv, DataParts
<1>2. host.ready
  <2>1. host.pc = "send" BY DEF SendResp, SendCmd, SendCfg
  <2>. QED BY <1>1, <2>1 DEF Booting, Starting
<1>3. ASSUME NEW k \in HostLines PROVE host.avail[k] <= 255
  <2>1. host.avail[k] + HostOut(k) = AfuGrants[k] BY <1>1, <1>2 DEF HostCredit
  <2>2. HostOut(k) \in Nat /\ host.avail[k] \in Nat BY <1>1, HostOutNat
  <2>3. AfuGrants[k] \in 1 .. 255 BY LinkAssumption
  <2>. QED BY <2>1, <2>2, <2>3
<1>4. engine.access = "none" => host.avail["cmd"] > 0 /\ sent["cmd"] = afu.got["cmd"] BY <1>2, CommandCredit
<1>5. PICK l \in HostLines, n \in 0 .. Flits : SendEffect(l, n) BY <1>1, <1>3, <1>4, SendFields
<1>6. /\ host' \in HostT /\ engine' \in EngineT /\ host.out[l].id = 0
      /\ host.pc = "send" /\ host'.pc = "send"
      /\ host'.in = host.in /\ host'.ret = host.ret /\ host'.cv = host.cv /\ host'.ready = host.ready
      /\ \A k \in HostLines : host'.avail[k] = host.avail[k] - Bit(k = l)
      /\ \A k \in HostLines : k # l => host'.out[k] = host.out[k]
      /\ host'.out[l].id = sent[l] + 1 /\ host'.out[l].n = n
      /\ sent' \in [HostLines -> Nat] /\ \A k \in HostLines : sent'[k] = sent[k] + Bit(k = l)
      /\ engine'.got = engine.got
      /\ l = "resp" => engine'.access = engine.access /\ engine'.left = engine.left
      /\ l = "cfg" => engine.access = "none" /\ engine'.access = "cfg"
      /\ l = "cmd" => /\ engine.access = "none"
                      /\ IF n = 0 THEN engine'.access = "read" /\ engine'.left > 0 ELSE engine'.access = "write"
      /\ UNCHANGED <<drv, toDrv, toHost, afu, asent, link>>
  BY <1>5 DEF SendEffect
<1>7. Types' BY <1>1, <1>6 DEF Types
<1>8. Grouped' BY <1>1, <1>6 DEF Grouped
<1>9. Emptied' BY <1>1, <1>6 DEF Emptied
<1>10. Booting' BY <1>1, <1>6 DEF Booting, Starting
<1>11. Told' BY <1>1, <1>6 DEF Told
<1>12. EndTypes /\ EndTypes' /\ AckTypes BY <1>1, <1>7, Ends, EndsNext, Acks
<1>13. l \in {"cmd", "resp", "cfg"} /\ "cmd" \in HostLines /\ "cfg" \in HostLines BY DEF HostLines
<1>14. ASSUME NEW k \in HostLines PROVE sent'[k] = IF k = l THEN sent[k] + 1 ELSE sent[k]
  <2>1. sent[k] \in Nat /\ sent'[k] = sent[k] + Bit(k = l) BY <1>6, <1>12 DEF EndTypes
  <2>. QED BY <2>1 DEF Bit
<1>15. ASSUME NEW k \in HostLines PROVE Downward(k)' /\ HostCredit(k)'
  <2>. DEFINE q == IdsDown(k)
              r == RetsUp(k)
  <2>1. IdsDown(k)' = q /\ RetsUp(k)' = r BY <1>6, Zenon DEF IdsDown, RetsUp
  <2>2. /\ drv.in[k].id \in Nat /\ q \in Seq(Nat) /\ host.out[k].id \in Nat /\ afu.got[k] \in Nat /\ sent[k] \in Nat
        /\ NonZeros(q) \in Nat /\ NonZeros(r) \in Nat /\ afu.owed[k] \in Nat /\ drv.aret[k] \in 0 .. 1
        /\ host.avail[k] \in Nat
    BY <1>12, Zenon DEF EndTypes
  <2>3. Along(drv.in[k].id, q, host.out[k].id, afu.got[k], sent[k]) BY <1>1, Alongs DEF DownAlong
  <2>. HIDE DEF q, r
  <2>4. DownAlong(k)'
    <3>1. CASE k = l
      <4>1. Along(drv.in[k].id, q, sent[k] + 1, afu.got[k], sent[k] + 1) BY <3>1, <1>6, <2>2, <2>3, AlongSend
      <4>2. host'.out[k].id = sent[k] + 1 /\ sent'[k] = sent[k] + 1 BY <3>1, <1>6, <1>14
      <4>. QED BY <4>1, <4>2, <1>6, <2>1 DEF DownAlong
    <3>2. CASE k # l
      <4>1. host'.out[k] = host.out[k] /\ sent'[k] = sent[k] BY <3>2, <1>6, <1>14
      <4>. QED BY <4>1, <1>6, <2>1, <2>3 DEF DownAlong
    <3>. QED BY <3>1, <3>2
  <2>5. Downward(k)' BY <1>7, <2>4, AlongsNext
  <2>. DEFINE a == Bit(host.out[k].id # 0)
              b == NonZeros(q)
              c == Bit(drv.in[k].id # 0)
              d == afu.owed[k]
              f == drv.aret[k]
              g == NonZeros(r)
              e == Bit(host'.out[k].id # 0)
              v == host.avail[k]
              v2 == host'.avail[k]
              h == HostOut(k)
              h2 == HostOut(k)'
  <2>6. h = a + b + c + d + f + g BY DEF HostOut, q, r
  <2>7. h2 = e + b + c + d + f + g BY <1>6, <2>1 DEF HostOut
  <2>8. v2 + e = v + a
    <3>1. CASE k = l
      <4>1. a = 0 /\ e = 1 /\ v2 = v - 1 BY <3>1, <1>6, <2>2 DEF Bit
      <4>2. v \in Nat BY <2>2
      <4>. HIDE DEF a, e, v, v2
      <4>. QED BY <4>1, <4>2
    <3>2. CASE k # l
      <4>1. host'.out[k] = host.out[k] /\ v2 = v - 0 BY <3>2, <1>6 DEF Bit
      <4>2. v \in Nat BY <2>2
      <4>3. v2 = v BY <4>1, <4>2
      <4>. QED BY <4>1, <4>3
    <3>. QED BY <3>1, <3>2
  <2>9. /\ a \in Nat /\ b \in Nat /\ c \in Nat /\ d \in Nat /\ e \in Nat /\ f \in Nat /\ g \in Nat
        /\ v \in Nat /\ v2 \in Nat
    <3>1. a \in Nat /\ c \in Nat /\ e \in Nat BY DEF Bit
    <3>2. v2 \in Nat BY <1>12, Zenon DEF EndTypes
    <3>. QED BY <3>1, <3>2, <2>2
  <2>. HIDE DEF a, b, c, d, e, f, g, v, v2, h, h2
  <2>10. v2 + h2 = v + h BY <2>6, <2>7, <2>8, <2>9
  <2>11. HostCredit(k)' BY <1>1, <1>6, <2>10 DEF HostCredit, v, v2, h, h2
  <2>. QED BY <2>5, <2>11
<1>16. \A k \in Lines : Upward(k)' BY <1>1, <1>6, UpSame
<1>17. \A k \in AfuLines : AfuCredit(k)' BY <1>1, <1>6, AfuCreditSame
<1>18. Wires' BY <1>1, <1>6, WiresSame
<1>19. \A k \in DataLines : Fifo(k)' BY <1>1, <1>6, FifoSame
<1>20. \A k \in DataLines : DataUnderWay(k)' BY <1>1, <1>5, <1>7, DataOfSend
<1>21. CmdData'
  <2>1. CASE l = "cmd"
    <3>1. afu.got["cmd"] = sent["cmd"] BY <2>1, <1>4, <1>6
    <3>2. drv.in["cmd"].id = 0 /\ \A i \in DOMAIN toDrv : toDrv[i].msg["cmd"].id = 0
      BY <1>1, <1>13, <3>1, DownCount
    <3>3. host'.out["cmd"].n = 0 <=> engine'.access = "read" BY <2>1, <1>6
    <3>4. LastOnly' BY <1>6, <1>7, <3>2, <3>3 DEF LastOnly
    <3>. QED BY <3>4, CmdDataLastNext
  <2>2. CASE l # "cmd"
    <3>1. host'.out["cmd"] = host.out["cmd"] BY <2>2, <1>6, <1>13
    <3>2. engine'.access = "read" <=> engine.access = "read" BY <2>2, <1>6, <1>13
    <3>3. CmdData BY <1>1 DEF DataParts
    <3>. QED BY <1>6, <3>1, <3>2, <3>3 DEF CmdData, DownAt
  <2>. QED BY <2>1, <2>2
<1>22. RespOrder' BY <1>1, <1>6, RespOrderSame
<1>. DEFINE down == sent["cmd"] - afu.got["cmd"]
            resp == asent["resp"] - engine.got["resp"]
            data == asent["rdata"] - engine.got["rdata"]
            cdown == sent["cfg"] - afu.got["cfg"]
            up == asent["cfg"] - engine.got["cfg"]
<1>23. down \in Nat /\ resp \in Nat /\ data \in Nat /\ cdown \in Nat /\ up \in Nat BY AccessFacts
<1>24. CmdAccess'
  <2>1. /\ down + Bit(afu.job # 0) + resp = Bit(engine.access \in {"read", "write"})
        /\ engine.access \in {"read", "data"} => engine.left > 0
        /\ data + afu.rbeats =
             IF engine.access = "data" \/ (engine.access = "read" /\ down = 0) THEN engine.left ELSE 0
        /\ engine.access = "read" /\ resp = 0 => data = 0
    BY <1>1 DEF CmdAccess
  <2>. DEFINE down2 == sent'["cmd"] - afu.got["cmd"]
              j == Bit(afu.job # 0)
              rb == afu.rbeats
  <2>2. down2 = IF l = "cmd" THEN down + 1 ELSE down BY <1>12, <1>13, <1>14 DEF AckTypes
  <2>3. j \in 0 .. 1 /\ rb \in Nat BY <1>12 DEF AckTypes, Bit
  <2>4. /\ down2 + j + resp = Bit(engine'.access \in {"read", "write"})
        /\ engine'.access \in {"read", "data"} => engine'.left > 0
        /\ data + rb =
             IF engine'.access = "data" \/ (engine'.access = "read" /\ down2 = 0) THEN engine'.left ELSE 0
        /\ engine'.access = "read" /\ resp = 0 => data = 0
    <3>1. /\ down + j + resp = Bit(engine.access \in {"read", "write"})
          /\ data + rb =
              IF engine.access = "data" \/ (engine.access = "read" /\ down = 0) THEN engine.left ELSE 0
      BY <2>1
    <3>. HIDE DEF down, resp, data, down2, j, rb
    <3>2. ASSUME engine.access = "none" PROVE down = 0 /\ j = 0 /\ resp = 0 /\ data = 0 /\ rb = 0
      <4>1. down + j + resp = 0 /\ data + rb = 0 BY <3>1, <3>2 DEF Bit
      <4>. QED BY <4>1, <2>3, <1>23
    <3>3. CASE l = "resp" BY <3>3, <3>1, <2>1, <2>2, <1>6
    <3>4. CASE l = "cfg" BY <3>4, <3>2, <2>2, <1>6 DEF Bit
    <3>5. CASE l = "cmd"
      <4>1. engine.access = "none" /\ engine'.access \in {"read", "write"}
            /\ (engine'.access = "read" => engine'.left > 0)
        BY <3>5, <1>6
      <4>2. down2 = 1 /\ j = 0 /\ resp = 0 /\ data = 0 /\ rb = 0 BY <3>2, <3>5, <4>1, <2>2
      <4>. QED BY <4>1, <4>2 DEF Bit
    <3>. QED BY <3>3, <3>4, <3>5, <1>13
  <2>. QED BY <1>6, <2>4 DEF CmdAccess
<1>25. CfgAccess'
  <2>. DEFINE down2 == sent'["cfg"] - afu.got["cfg"]
              a == Bit(afu.asked # 0)
              b == Bit(afu.cfg # 0 /\ ~drv.ackPending)
              g == engine.got["cfg"]
              s == sent["cfg"]
              s2 == sent'["cfg"]
  <2>1. /\ s = g + Bit(engine.access = "cfg")
        /\ cdown + a + b + up = Bit(engine.access = "cfg")
        /\ afu.asked # 0 => afu.asked = s
        /\ afu.cfg # 0 /\ ~drv.ackPending => afu.cfg = s
        /\ up + host.ret["ack"] + NonZeros(RetsDown("ack")) + drv.ret["ack"]
             = Bit(afu.cfg # 0 /\ drv.ackPending)
    BY <1>1 DEF CfgAccess
  <2>2. RetsDown("ack")' = RetsDown("ack") BY <1>6, Zenon DEF RetsDown
  <2>3. (s2 = IF l = "cfg" THEN s + 1 ELSE s) /\ (down2 = IF l = "cfg" THEN cdown + 1 ELSE cdown)
        /\ s \in Nat /\ g \in Nat
    BY <1>12, <1>13, <1>14 DEF AckTypes
  <2>4. a \in 0 .. 1 /\ b \in 0 .. 1 /\ (a = 0 => afu.asked = 0) /\ (b = 0 => ~(afu.cfg # 0 /\ ~drv.ackPending))
    BY DEF Bit
  <2>5. engine'.access = "cfg" <=> l = "cfg" \/ engine.access = "cfg" BY <1>6, <1>13
  <2>6. /\ s2 = g + Bit(engine'.access = "cfg")
        /\ down2 + a + b + up = Bit(engine'.access = "cfg")
        /\ afu.asked # 0 => afu.asked = s2
        /\ afu.cfg # 0 /\ ~drv.ackPending => afu.cfg = s2
    <3>. HIDE DEF cdown, up, down2, a, b, g, s, s2
    <3>1. CASE l # "cfg" BY <3>1, <2>1, <2>3, <2>5 DEF Bit
    <3>2. CASE l = "cfg"
      <4>1. engine.access = "none" /\ Bit(engine.access = "cfg") = 0 /\ Bit(engine'.access = "cfg") = 1
        BY <3>2, <1>6 DEF Bit
      <4>2. cdown = 0 /\ a = 0 /\ b = 0 /\ up = 0 BY <4>1, <1>23, <2>1, <2>4
      <4>3. s2 = g + 1 /\ down2 = 1 BY <4>1, <4>2, <3>2, <2>1, <2>3
      <4>. QED BY <4>1, <4>2, <4>3, <2>4
    <3>. QED BY <3>1, <3>2
  <2>. QED BY <1>6, <2>1, <2>2, <2>6 DEF CfgAccess
<1>. QED BY <1>7, <1>8, <1>9, <1>10, <1>11, <1>15, <1>16, <1>17, <1>18, <1>19, <1>20, <1>21, <1>22, <1>24, <1>25
         DEF IInv, DataParts

\* The packet of the driver takes what is in its event.
LEMMA DriverPacket ==
  ASSUME IInv, Types', NEW q \in DrvPackets, toHost' = Append(toHost, q), q.msg = drv.out, q.ret = drv.aret,
         q.cv \/ q.ret = None(HostLines), drv'.out = None(Lines), drv'.aret = None(HostLines),
         host' = host, engine'.got = engine.got, afu' = afu, asent' = asent
  PROVE  /\ \A i \in DOMAIN toHost' : toHost'[i].cv \/ toHost'[i].ret = None(HostLines)
         /\ \A l \in Lines : /\ Upward(l)' /\ Bit(drv'.out[l] # 0) = 0
                             /\ NonZeros(IdsUp(l)') = NonZeros(IdsUp(l)) + Bit(drv.out[l] # 0)
         /\ \A l \in HostLines : drv'.aret[l] = 0 /\ NonZeros(RetsUp(l)') = NonZeros(RetsUp(l)) + drv.aret[l]
         /\ RespOrder'
<1>. DEFINE N == Len(toHost)
<1>1. Types /\ Grouped /\ RespOrder /\ (\A l \in Lines : Upward(l)) BY DEF IInv
<1>2. EndTypes BY <1>1, Ends
<1>3. toHost \in Seq(DrvPackets) BY <1>1 DEF Types
<1>4. /\ N \in Nat /\ DOMAIN toHost = 1 .. N /\ DOMAIN toHost' = 1 .. N + 1 /\ Len(toHost') = N + 1
      /\ toHost'[N + 1] = q /\ \A i \in 1 .. N : toHost'[i] = toHost[i]
  BY <1>3
<1>. HIDE DEF N
<1>5. \A i \in DOMAIN toHost' : i \in DOMAIN toHost \/ i = N + 1 BY <1>4
<1>6. \A i \in DOMAIN toHost' : toHost'[i].cv \/ toHost'[i].ret = None(HostLines)
  BY <1>1, <1>4, <1>5 DEF Grouped
<1>7. ASSUME NEW l \in Lines
      PROVE  /\ Upward(l)' /\ Bit(drv'.out[l] # 0) = 0
             /\ NonZeros(IdsUp(l)') = NonZeros(IdsUp(l)) + Bit(drv.out[l] # 0)
  <2>. DEFINE s == IdsUp(l)
              y == drv.out[l]
  <2>1. IdsUp(l)' = Append(s, y) BY <1>1, UpAppend
  <2>2. host.in[l] \in Nat /\ s \in Seq(Nat) /\ y \in Nat /\ engine.got[l] \in Nat /\ asent[l] \in Nat
    BY <1>2 DEF EndTypes
  <2>3. Along(host.in[l], s, y, engine.got[l], asent[l]) BY <1>1, Alongs DEF UpAlong
  <2>4. drv'.out[l] = 0 BY NoneTypes
  <2>. HIDE DEF s, y
  <2>5. Along(host.in[l], Append(s, y), 0, engine.got[l], asent[l]) BY <2>2, <2>3, AlongPacket
  <2>6. UpAlong(l)' BY <2>1, <2>4, <2>5 DEF UpAlong
  <2>7. Upward(l)' BY <2>6, AlongsNext
  <2>8. NonZeros(Append(s, y)) = NonZeros(s) + Bit(y # 0) BY <2>2, NonZerosAppend
  <2>. QED BY <2>1, <2>4, <2>7, <2>8 DEF Bit, s, y
<1>8. ASSUME NEW l \in HostLines
      PROVE  drv'.aret[l] = 0 /\ NonZeros(RetsUp(l)') = NonZeros(RetsUp(l)) + drv.aret[l]
  <2>1. RetsUp(l)' = Append(RetsUp(l), drv.aret[l]) BY <1>1, UpAppend
  <2>2. RetsUp(l) \in Seq(Nat) /\ drv.aret[l] \in 0 .. 1 BY <1>2, Zenon DEF EndTypes
  <2>3. NonZeros(RetsUp(l)') = NonZeros(RetsUp(l)) + Bit(drv.aret[l] # 0) BY <2>1, <2>2, NonZerosAppend
  <2>4. Bit(drv.aret[l] # 0) = drv.aret[l] BY <2>2 DEF Bit
  <2>. QED BY <2>3, <2>4, NoneTypes
<1>9. RespOrder'
  <2>1. /\ afu.owed["cmd"] <= 1
        /\ (afu.job = 0 /\ asent["resp"] = engine.got["resp"]) \/ host.in["resp"] # 0 =>
             CmdReturned /\ \A i \in DOMAIN toHost : toHost[i].ret["cmd"] = 0
        /\ \A j \in DOMAIN toHost : toHost[j].msg["resp"] # 0 =>
             /\ host.in["rdata"] = 0 /\ \A i \in 1 .. j - 1 : toHost[i].msg["rdata"] = 0
             /\ CmdReturned /\ \A i \in j + 1 .. N : toHost[i].ret["cmd"] = 0
        /\ drv.out["resp"] # 0 =>
             /\ afu.owed["cmd"] = 0
             /\ host.in["rdata"] = 0 /\ \A i \in DOMAIN toHost : toHost[i].msg["rdata"] = 0
    BY <1>1 DEF RespOrder, N
  <2>2. drv'.aret["cmd"] = 0 /\ drv'.out["resp"] = 0 BY NoneTypes DEF HostLines, Lines, AfuLines
  <2>3. CmdReturned' <=> afu.owed["cmd"] = 0 BY <2>2 DEF CmdReturned
  <2>4. CmdReturned => afu.owed["cmd"] = 0 /\ q.ret["cmd"] = 0 BY DEF CmdReturned
  <2>5. ASSUME (afu.job = 0 /\ asent["resp"] = engine.got["resp"]) \/ host.in["resp"] # 0
        PROVE  CmdReturned' /\ \A i \in DOMAIN toHost' : toHost'[i].ret["cmd"] = 0
    BY <2>1, <2>3, <2>4, <2>5, <1>4, <1>5
  <2>6. ASSUME NEW j \in DOMAIN toHost', toHost'[j].msg["resp"] # 0
        PROVE  /\ host.in["rdata"] = 0 /\ \A i \in 1 .. j - 1 : toHost'[i].msg["rdata"] = 0
               /\ CmdReturned' /\ \A i \in j + 1 .. N + 1 : toHost'[i].ret["cmd"] = 0
    <3>1. CASE j \in 1 .. N
      <4>1. /\ host.in["rdata"] = 0 /\ \A i \in 1 .. j - 1 : toHost[i].msg["rdata"] = 0
            /\ CmdReturned /\ \A i \in j + 1 .. N : toHost[i].ret["cmd"] = 0
        BY <3>1, <2>1, <2>6, <1>4
      <4>2. \A i \in 1 .. j - 1 : i \in 1 .. N BY <3>1, <1>4
      <4>3. \A i \in j + 1 .. N + 1 : i = N + 1 \/ (i \in j + 1 .. N /\ i \in 1 .. N) BY <3>1, <1>4
      <4>. QED BY <4>1, <4>2, <4>3, <2>3, <2>4, <1>4
    <3>2. CASE j = N + 1
      <4>1. drv.out["resp"] # 0 BY <3>2, <2>6, <1>4
      <4>2. \A i \in 1 .. j - 1 : i \in 1 .. N BY <3>2, <1>4
      <4>3. ~\E i \in j + 1 .. N + 1 : TRUE BY <3>2, <1>4
      <4>. QED BY <4>1, <4>2, <4>3, <2>1, <2>3, <1>4
    <3>. QED BY <3>1, <3>2, <1>4
  <2>. QED BY <1>4, <2>1, <2>2, <2>5, <2>6, Zenon DEF RespOrder
<1>. QED BY <1>6, <1>7, <1>8, <1>9

\* The driver has too little of a packet.
LEMMA ShortStep == ASSUME IInv, DriverShort PROVE IInv'
<1>1. /\ Types /\ Grouped /\ Emptied /\ Booting /\ Told /\ Wires /\ DataParts /\ CmdAccess
      /\ RespOrder /\ CfgAccess /\ \A k \in DataLines : Fifo(k)
      /\ \A l \in HostLines : Downward(l) /\ HostCredit(l)
      /\ \A l \in Lines : Upward(l)
      /\ \A l \in AfuLines : AfuCredit(l)
  BY DEF IInv, DataParts
<1>2. /\ drv' \in DrvT /\ engine' \in EngineT /\ drv.pc = "high" /\ drv'.pc = "high"
      /\ drv'.out = None(Lines) /\ drv'.aret = None(HostLines)
      /\ drv'.in = drv.in /\ drv'.ret = drv.ret /\ drv'.avail = drv.avail /\ drv'.cv = drv.cv
      /\ drv'.ready = drv.ready /\ drv'.ackPending = drv.ackPending /\ drv'.clk = drv.clk
      /\ drv'.top = drv.top /\ drv'.fifo = drv.fifo /\ drv'.rdCnt = drv.rdCnt
      /\ engine'.access = engine.access /\ engine'.left = engine.left /\ engine'.got = engine.got
      /\ engine'.flits = engine.flits
      /\ UNCHANGED <<host, toDrv, afu, sent, asent, link>>
  BY <1>1, ShortFields
<1>3. PICK q \in DrvPackets : /\ toHost' = Append(toHost, q) /\ q.msg = drv.out /\ q.ret = drv.aret
                              /\ q.cv \/ q.ret = None(HostLines)
  BY <1>1, ShortFields
<1>4. toHost' \in Seq(DrvPackets) BY <1>1, <1>3 DEF Types
<1>5. Types' BY <1>1, <1>2, <1>4 DEF Types
<1>6. /\ \A i \in DOMAIN toHost' : toHost'[i].cv \/ toHost'[i].ret = None(HostLines)
      /\ \A l \in Lines : /\ Upward(l)' /\ Bit(drv'.out[l] # 0) = 0
                          /\ NonZeros(IdsUp(l)') = NonZeros(IdsUp(l)) + Bit(drv.out[l] # 0)
      /\ \A l \in HostLines : drv'.aret[l] = 0 /\ NonZeros(RetsUp(l)') = NonZeros(RetsUp(l)) + drv.aret[l]
      /\ RespOrder'
  BY <1>2, <1>3, <1>5, DriverPacket
<1>7. EndTypes BY <1>1, Ends
<1>8. Grouped' BY <1>1, <1>2, <1>6 DEF Grouped
<1>9. Emptied' BY <1>1, <1>2 DEF Emptied
<1>10. Booting' /\ Told' BY <1>1, <1>2 DEF Booting, Starting, Told
<1>11. \A l \in HostLines : Downward(l)' BY <1>1, <1>2, DownSame
<1>12. ASSUME NEW l \in HostLines PROVE HostCredit(l)'
  <2>. DEFINE a == Bit(host.out[l].id # 0)
              b == NonZeros(IdsDown(l))
              c == Bit(drv.in[l].id # 0)
              d == afu.owed[l]
              f == drv.aret[l]
              g == NonZeros(RetsUp(l))
              h == NonZeros(RetsUp(l)')
  <2>1. HostOut(l) = a + b + c + d + f + g BY DEF HostOut
  <2>2. HostOut(l)' = a + b + c + d + 0 + h BY <1>2, <1>6 DEF HostOut, IdsDown
  <2>3. b \in Nat /\ d \in Nat /\ f \in 0 .. 1 /\ g \in Nat BY <1>7, Zenon DEF EndTypes
  <2>4. a \in Nat /\ c \in Nat BY DEF Bit
  <2>5. h = g + f BY <1>6
  <2>. HIDE DEF a, b, c, d, f, g, h
  <2>6. HostOut(l)' = HostOut(l) BY <2>1, <2>2, <2>3, <2>4, <2>5
  <2>. QED BY <1>1, <1>2, <2>6 DEF HostCredit
<1>13. ASSUME NEW l \in AfuLines PROVE AfuCredit(l)'
  <2>0. l \in Lines /\ l \in Returns BY DEF Lines, Returns
  <2>. DEFINE a == Bit(drv.out[l] # 0)
              b == NonZeros(IdsUp(l))
              h == NonZeros(IdsUp(l)')
              c == Bit(l \in {"resp", "rdata"} /\ host.in[l] # 0)
              d == host.ret[l]
              e == NonZeros(RetsDown(l))
  <2>1. AfuOut(l) = a + b + c + d + e BY DEF AfuOut
  <2>2. AfuOut(l)' = 0 + h + c + d + e BY <1>2, <1>6, <2>0 DEF AfuOut, RetsDown
  <2>3. b \in Nat /\ d \in 0 .. 1 /\ e \in Nat BY <1>7, <2>0, Zenon DEF EndTypes
  <2>4. a \in Nat /\ c \in Nat BY DEF Bit
  <2>5. h = b + a BY <1>6, <2>0
  <2>. HIDE DEF a, b, c, d, e, h
  <2>6. AfuOut(l)' = AfuOut(l) BY <2>1, <2>2, <2>3, <2>4, <2>5
  <2>. QED BY <1>1, <1>2, <2>6 DEF AfuCredit
<1>14. Wires' BY <1>1, <1>2, WiresSame
<1>15. \A k \in DataLines : Fifo(k)' BY <1>1, <1>2, FifoSame
<1>16. DataParts' BY <1>1, <1>2, <1>5, DataOfIdle
<1>17. CmdAccess' BY <1>1, <1>2, CmdAccessSame
<1>18. CfgAccess' BY <1>1, <1>2, CfgAccessSame
<1>. QED BY <1>5, <1>6, <1>8, <1>9, <1>10, <1>11, <1>12, <1>13, <1>14, <1>15, <1>16, <1>17, <1>18
         DEF IInv, DataParts

\* The driver answers a packet with its own and decodes it.
LEMMA HighStep == ASSUME IInv, DriverHigh PROVE IInv'
<1>. DEFINE p == Head(toDrv)
            N == Len(toDrv)
<1>1. /\ Types /\ Grouped /\ Emptied /\ Booting /\ Told /\ Wires /\ DataParts /\ CmdAccess
      /\ RespOrder /\ CfgAccess /\ \A k \in DataLines : Fifo(k)
      /\ \A l \in HostLines : Downward(l) /\ HostCredit(l)
      /\ \A l \in Lines : Upward(l)
      /\ \A l \in AfuLines : AfuCredit(l)
  BY DEF IInv, DataParts
<1>2. /\ drv' \in DrvT /\ drv.pc = "high" /\ drv'.pc = "low"
      /\ toDrv # <<>> /\ toDrv' = Tail(toDrv) /\ p \in HostPackets
      /\ drv'.out = None(Lines) /\ drv'.aret = None(HostLines) /\ drv'.in = p.msg /\ drv'.ret = p.ret
      /\ \A l \in AfuLines : drv'.avail[l] = drv.avail[l] + p.ret[l]
      /\ p.cv => drv'.cv
      /\ drv.in = NoHostMsgs /\ drv.ret = None(Returns)
      /\ drv'.ready = drv.ready /\ drv'.ackPending = drv.ackPending /\ drv'.clk = drv.clk
      /\ drv'.top = drv.top /\ drv'.fifo = drv.fifo /\ drv'.rdCnt = drv.rdCnt
      /\ UNCHANGED <<host, engine, afu, sent, asent, link>>
  BY <1>1, HighFields
<1>3. PICK q \in DrvPackets : /\ toHost' = Append(toHost, q) /\ q.msg = drv.out /\ q.ret = drv.aret
                              /\ q.cv \/ q.ret = None(HostLines)
  BY <1>1, HighFields
<1>4. toHost' \in Seq(DrvPackets) BY <1>1, <1>3 DEF Types
<1>5. toDrv \in Seq(HostPackets) BY <1>1 DEF Types
<1>6. /\ N \in Nat \ {0} /\ p = toDrv[1] /\ toDrv' \in Seq(HostPackets) /\ Len(toDrv') = N - 1
      /\ \A i \in 1 .. N - 1 : toDrv'[i] = toDrv[i + 1]
      /\ DOMAIN toDrv = 1 .. N
  BY <1>2, <1>5
<1>7. DOMAIN toDrv' = 1 .. N - 1 BY <1>6
<1>8. 1 \in DOMAIN toDrv /\ \A i \in DOMAIN toDrv' : i + 1 \in DOMAIN toDrv /\ toDrv'[i] = toDrv[i + 1]
  <2>. HIDE DEF N
  <2>. QED BY <1>6, <1>7
<1>9. Types' BY <1>1, <1>2, <1>4, <1>6 DEF Types
<1>10. /\ \A i \in DOMAIN toHost' : toHost'[i].cv \/ toHost'[i].ret = None(HostLines)
       /\ \A l \in Lines : /\ Upward(l)' /\ Bit(drv'.out[l] # 0) = 0
                           /\ NonZeros(IdsUp(l)') = NonZeros(IdsUp(l)) + Bit(drv.out[l] # 0)
       /\ \A l \in HostLines : drv'.aret[l] = 0 /\ NonZeros(RetsUp(l)') = NonZeros(RetsUp(l)) + drv.aret[l]
       /\ RespOrder'
  BY <1>2, <1>3, <1>9, DriverPacket
<1>11. EndTypes /\ EndTypes' BY <1>1, <1>9, Ends, EndsNext
<1>12. DataParts' BY <1>1, <1>2, <1>9, DataOfDecode
<1>. HIDE DEF p, N
<1>13. Grouped' BY <1>1, <1>8, <1>10 DEF Grouped
<1>14. Emptied' BY <1>1, <1>2 DEF Emptied
<1>15. Booting'
  <2>1. host'.ready <=> host'.pc \notin Starting BY <1>1, <1>2 DEF Booting, Starting
  <2>2. ASSUME ~host'.ready
        PROVE  /\ engine'.access = "none" /\ ~afu'.known
               /\ Len(toDrv') + Bit(drv'.cv) + Bit(drv'.ready) = Bit(host'.pc # "init_signal")
               /\ \A i \in DOMAIN toDrv' : toDrv'[i].cv
               /\ host'.pc = "init_signal" => host'.cv
    <3>1. /\ engine.access = "none" /\ ~afu.known
          /\ N + Bit(drv.cv) + Bit(drv.ready) = Bit(host.pc # "init_signal")
          /\ \A i \in DOMAIN toDrv : toDrv[i].cv
          /\ host.pc = "init_signal" => host.cv
      BY <1>1, <1>2, <2>2 DEF Booting, N
    <3>2. drv'.cv = TRUE
      <4>1. p.cv BY <1>6, <1>8, <3>1
      <4>2. drv'.cv \in BOOLEAN BY <1>2, DrvFields
      <4>. QED BY <1>2, <4>1, <4>2
    <3>3. Bit(drv.cv) \in 0 .. 1 /\ Bit(drv.ready) \in 0 .. 1 /\ Bit(host.pc # "init_signal") \in 0 .. 1 BY DEF Bit
    <3>4. N = 1 /\ Bit(drv.cv) = 0 /\ Bit(drv.ready) = 0 /\ Bit(host.pc # "init_signal") = 1
      BY <1>6, <3>1, <3>3
    <3>5. Len(toDrv') = 0 /\ Bit(drv'.cv) = 1 BY <1>6, <3>2, <3>4 DEF Bit
    <3>6. Len(toDrv') + Bit(drv'.cv) + Bit(drv'.ready) = Bit(host'.pc # "init_signal") BY <1>2, <3>4, <3>5
    <3>. QED BY <1>2, <1>8, <3>1, <3>6
  <2>. QED BY <2>1, <2>2 DEF Booting
<1>16. Told' BY <1>1, <1>2 DEF Told
<1>17. ASSUME NEW l \in HostLines PROVE Downward(l)' /\ HostCredit(l)'
  <2>. DEFINE s == IdsDown(l)
              t == IdsDown(l)'
              y == host.out[l].id
              m == p.msg[l].id
  <2>1. s # <<>> /\ Head(s) = m /\ t = Tail(s) BY <1>1, <1>2, DownTail DEF p
  <2>2. s \in Seq(Nat) /\ y \in Nat /\ afu.got[l] \in Nat /\ sent[l] \in Nat BY <1>11 DEF EndTypes
  <2>3. drv.in[l].id = 0 BY <1>2, NoneTypes
  <2>4. Along(0, s, y, afu.got[l], sent[l])
    <3>1. DownAlong(l) BY <1>1, Alongs
    <3>. QED BY <2>3, <3>1 DEF DownAlong
  <2>. HIDE DEF s, t, y, m
  <2>5. Along(Head(s), Tail(s), y, afu.got[l], sent[l]) BY <2>1, <2>2, <2>4, AlongDecode
  <2>6. Along(m, t, y, afu.got[l], sent[l]) BY <2>1, <2>5
  <2>7. DownAlong(l)' BY <1>2, <2>6 DEF DownAlong, m, t, y
  <2>8. Downward(l)' BY <1>9, <2>7, AlongsNext
  <2>9. NonZeros(s) = Bit(Head(s) # 0) + NonZeros(Tail(s)) BY <2>1, <2>2, NonZerosTail
  <2>10. NonZeros(s) = Bit(m # 0) + NonZeros(t) BY <2>1, <2>9
  <2>. DEFINE a == Bit(y # 0)
              b == NonZeros(s)
              b2 == NonZeros(t)
              c == Bit(m # 0)
              d == afu.owed[l]
              f == drv.aret[l]
              g == NonZeros(RetsUp(l))
              h == NonZeros(RetsUp(l)')
  <2>11. HostOut(l) = a + b + 0 + d + f + g
    <3>1. Bit(drv.in[l].id # 0) = 0 BY <2>3 DEF Bit
    <3>. QED BY <3>1 DEF HostOut, s, y
  <2>12. HostOut(l)' = a + b2 + c + d + 0 + h BY <1>2, <1>10 DEF HostOut, y, t, m
  <2>13. b2 \in Nat /\ d \in Nat /\ f \in 0 .. 1 /\ g \in Nat BY <1>11, Zenon DEF EndTypes, t
  <2>14. a \in Nat /\ c \in Nat BY DEF Bit
  <2>15. h = g + f BY <1>10
  <2>16. b = c + b2 BY <2>10
  <2>. HIDE DEF a, b, b2, c, d, f, g, h
  <2>17. HostOut(l)' = HostOut(l) BY <2>11, <2>12, <2>13, <2>14, <2>15, <2>16
  <2>18. HostCredit(l)' BY <1>1, <1>2, <2>17 DEF HostCredit
  <2>. QED BY <2>8, <2>18
<1>18. ASSUME NEW l \in Returns
       PROVE  /\ NonZeros(RetsDown(l)) = p.ret[l] + NonZeros(RetsDown(l)') /\ p.ret[l] \in 0 .. 1
              /\ NonZeros(RetsDown(l)') \in Nat /\ drv'.ret[l] = p.ret[l] /\ drv.ret[l] = 0
  <2>1. RetsDown(l) # <<>> /\ Head(RetsDown(l)) = p.ret[l] /\ RetsDown(l)' = Tail(RetsDown(l))
    BY <1>1, <1>2, DownTail DEF p
  <2>2. RetsDown(l) \in Seq(Nat) /\ NonZeros(RetsDown(l)') \in Nat BY <1>11, Zenon DEF EndTypes
  <2>3. NonZeros(RetsDown(l)) = Bit(Head(RetsDown(l)) # 0) + NonZeros(Tail(RetsDown(l))) BY <2>1, <2>2, NonZerosTail
  <2>4. p.ret[l] \in 0 .. 1 BY <1>2, PacketFields
  <2>5. Bit(p.ret[l] # 0) = p.ret[l] BY <2>4 DEF Bit
  <2>6. NonZeros(RetsDown(l)) = p.ret[l] + NonZeros(RetsDown(l)') BY <2>1, <2>3, <2>5
  <2>7. drv'.ret[l] = p.ret[l] /\ drv.ret[l] = 0 BY <1>2, NoneTypes
  <2>. QED BY <2>2, <2>4, <2>6, <2>7
<1>19. ASSUME NEW l \in AfuLines PROVE AfuCredit(l)'
  <2>0. l \in Lines /\ l \in Returns BY DEF Lines, Returns
  <2>. DEFINE a == Bit(drv.out[l] # 0)
              b == NonZeros(IdsUp(l))
              h == NonZeros(IdsUp(l)')
              c == Bit(l \in {"resp", "rdata"} /\ host.in[l] # 0)
              d == host.ret[l]
              e == NonZeros(RetsDown(l))
              e2 == NonZeros(RetsDown(l)')
              r == p.ret[l]
              v == drv.avail[l]
              v2 == drv'.avail[l]
              w == AfuOut(l)
              w2 == AfuOut(l)'
  <2>1. w = a + b + c + d + e BY DEF AfuOut
  <2>2. w2 = 0 + h + c + d + e2 BY <1>2, <1>10, <2>0 DEF AfuOut
  <2>3. b \in Nat /\ d \in 0 .. 1 /\ v \in Nat /\ afu.cr[l] \in Nat BY <1>11, <2>0, Zenon DEF EndTypes
  <2>4. a \in Nat /\ c \in Nat BY DEF Bit
  <2>5. h = b + a BY <1>10, <2>0
  <2>6. e = r + e2 /\ r \in 0 .. 1 /\ e2 \in Nat /\ drv'.ret[l] = r /\ drv.ret[l] = 0 BY <1>18, <2>0
  <2>7. v2 = v + r BY <1>2
  <2>8. v + w = (IF drv.ready THEN HostGrants[l] ELSE 0)
        /\ IF afu.known THEN afu.cr[l] + drv.ret[l] = v ELSE afu.cr[l] = 0 /\ w = 0
    BY <1>1 DEF AfuCredit
  <2>. HIDE DEF a, b, h, c, d, e, e2, r, v, v2, w, w2
  <2>9. v2 + w2 = v + w BY <2>1, <2>2, <2>3, <2>4, <2>5, <2>6, <2>7
  <2>10. w = 0 => r = 0 /\ w2 = 0 BY <2>1, <2>2, <2>3, <2>4, <2>5, <2>6
  <2>11. IF afu.known THEN afu.cr[l] + drv'.ret[l] = v2 ELSE afu.cr[l] = 0 /\ drv'.ret[l] = 0 /\ w2 = 0
    BY <2>3, <2>6, <2>7, <2>8, <2>10
  <2>12. v2 + w2 = (IF drv.ready THEN HostGrants[l] ELSE 0) BY <2>8, <2>9
  <2>. QED BY <1>2, <2>11, <2>12 DEF AfuCredit, v2, w2
<1>20. Wires' BY <1>1, <1>2, WiresSame
<1>21. \A k \in DataLines : Fifo(k)' BY <1>1, <1>2, FifoSame
<1>22. CmdAccess' BY <1>1, <1>2, CmdAccessSame
<1>23. CfgAccess'
  <2>. DEFINE up == asent["cfg"] - engine.got["cfg"]
              a == host.ret["ack"]
              e == NonZeros(RetsDown("ack"))
              e2 == NonZeros(RetsDown("ack")')
              r == drv.ret["ack"]
              r2 == drv'.ret["ack"]
  <2>1. "ack" \in Returns BY DEF Returns
  <2>2. e = r2 + e2 /\ r = 0 /\ r2 \in 0 .. 1 /\ e2 \in Nat BY <1>18, <2>1
  <2>3. up + a + e + r = Bit(afu.cfg # 0 /\ drv.ackPending) BY <1>1 DEF CfgAccess
  <2>4. up \in Int /\ a \in 0 .. 1 BY <1>1, Acks DEF AckTypes
  <2>. HIDE DEF up, a, e, e2, r, r2
  <2>5. up + a + e2 + r2 = Bit(afu.cfg # 0 /\ drv.ackPending) BY <2>2, <2>3, <2>4
  <2>. QED BY <1>1, <1>2, <2>5 DEF CfgAccess, up, a, e2, r2
<1>. QED BY <1>9, <1>10, <1>12, <1>13, <1>14, <1>15, <1>16, <1>17, <1>19, <1>20, <1>21, <1>22, <1>23
         DEF IInv, DataParts

\* A valid wire that is up goes down: no other wire that shares its counter is driven.
LEMMA WiresGoDown ==
  ASSUME IInv, NEW l \in HostLines, drv.top[l] # 0, drv.in[l].id = 0
  PROVE  drv.clk[Clock(l)] = 1 /\ ~Started(drv, Clock(l))
<1>. DEFINE down == sent["cmd"] - afu.got["cmd"]
            resp == asent["resp"] - engine.got["resp"]
            cdown == sent["cfg"] - afu.got["cfg"]
            up == asent["cfg"] - engine.got["cfg"]
<1>1. Wires /\ CmdAccess /\ CfgAccess BY DEF IInv
<1>2. /\ down \in Nat /\ resp \in Nat /\ cdown \in Nat /\ up \in Nat
      /\ drv.in["cmd"].id # 0 => down > 0
      /\ drv.in["cfg"].id # 0 => cdown > 0
  BY AccessFacts
<1>3. down + Bit(afu.job # 0) + resp = Bit(engine.access \in {"read", "write"}) BY <1>1 DEF CmdAccess
<1>4. cdown + Bit(afu.asked # 0) + Bit(afu.cfg # 0 /\ ~drv.ackPending) + up = Bit(engine.access = "cfg")
  BY <1>1 DEF CfgAccess
<1>5. Bit(afu.cfg # 0 /\ ~drv.ackPending) \in Nat BY DEF Bit
<1>. HIDE DEF down, resp, cdown, up
<1>6. afu.job # 0 \/ drv.in["cmd"].id # 0 => engine.access \in {"read", "write"} BY <1>2, <1>3 DEF Bit
<1>7. afu.asked # 0 \/ drv.in["cfg"].id # 0 => engine.access = "cfg"
  <2>1. ASSUME afu.asked # 0 \/ drv.in["cfg"].id # 0 PROVE cdown + Bit(afu.asked # 0) > 0 BY <2>1, <1>2 DEF Bit
  <2>2. cdown + Bit(afu.asked # 0) \in Nat BY <1>2 DEF Bit
  <2>3. Bit(engine.access = "cfg") > 0 => engine.access = "cfg" BY DEF Bit
  <2>. QED BY <1>2, <1>4, <1>5, <2>1, <2>2, <2>3
<1>8. ASSUME NEW k \in HostLines, Clock(k) = Clock(l), drv.in[k].id # 0 PROVE FALSE
  <2>1. CASE l = "resp" BY <2>1, <1>8 DEF Clock, HostLines
  <2>2. CASE l = "cmd"
    <3>1. k = "cfg" BY <2>2, <1>8 DEF Clock, HostLines
    <3>2. afu.job # 0 BY <1>1, <2>2 DEF Wires
    <3>. QED BY <3>1, <3>2, <1>6, <1>7, <1>8
  <2>3. CASE l = "cfg"
    <3>1. k = "cmd" BY <2>3, <1>8 DEF Clock, HostLines
    <3>2. afu.asked # 0 BY <1>1, <2>3 DEF Wires
    <3>. QED BY <3>1, <3>2, <1>6, <1>7, <1>8
  <2>. QED BY <2>1, <2>2, <2>3 DEF HostLines
<1>. QED BY <1>1, <1>8 DEF Wires, Started

\* What the driver does at clock 0, with what the AFU does.
LEMMA LowEffects == ASSUME IInv, DriverLow PROVE \E o \in Outputs : LowEffect(o)
<1>1. Types /\ Emptied /\ (\A l \in AfuLines : AfuCredit(l)) BY DEF IInv
<1>2. \A k \in DataLines : drv.rdCnt[k] + afu.want[k] = Len(drv.fifo[k]) BY DEF IInv, Fifo
<1>3. \A l \in HostLines : drv.top[l] # 0 /\ drv.in[l].id = 0 =>
                             drv.clk[Clock(l)] = 1 /\ ~Started(drv, Clock(l))
  BY WiresGoDown
<1>. QED BY <1>1, <1>2, <1>3, LowFields

\* Its parts: the messages to the AFU and their credits.
LEMMA LowDownward ==
  ASSUME IInv, Types', NEW o, LowEffect(o), NEW l \in HostLines
  PROVE  Downward(l)' /\ HostCredit(l)'
<1>1. Types /\ Downward(l) /\ HostCredit(l) BY DEF IInv
<1>2. EndTypes /\ EndTypes' BY <1>1, Ends, EndsNext
<1>3. /\ drv.aret = None(HostLines) /\ drv'.in = NoHostMsgs /\ drv'.aret[l] = Bit(l \in o.ret)
      /\ afu'.got[l] = afu.got[l] + Bit(drv.in[l].id # 0)
      /\ afu'.owed[l] = (afu.owed[l] - Bit(l \in o.ret)) + Bit(drv.in[l].id # 0)
      /\ UNCHANGED <<host, toDrv, toHost, engine, sent, link>>
  BY DEF LowEffect
<1>. DEFINE x == drv.in[l].id
            q == IdsDown(l)
            y == host.out[l].id
            a == afu.got[l]
            b == sent[l]
<1>4. x \in Nat /\ q \in Seq(Nat) /\ y \in Nat /\ a \in Nat /\ b \in Nat BY <1>2 DEF EndTypes
<1>5. Along(x, q, y, a, b) BY <1>1, Alongs DEF DownAlong
<1>6. IdsDown(l)' = q /\ RetsUp(l)' = RetsUp(l) BY <1>3, Zenon DEF IdsDown, RetsUp
<1>7. drv'.in[l].id = 0 /\ drv.aret[l] = 0 BY <1>3, NoneTypes
<1>. HIDE DEF x, q, y, a, b
<1>8. Along(0, q, y, a + Bit(x # 0), b)
  <2>1. CASE x = 0
    <3>1. a + Bit(x # 0) = a BY <2>1, <1>4 DEF Bit
    <3>. QED BY <3>1, <2>1, <1>5
  <2>2. CASE x # 0
    <3>1. Bit(x # 0) = 1 BY <2>2 DEF Bit
    <3>2. Along(0, q, y, a + 1, b) BY <2>2, <1>4, <1>5, AlongTake
    <3>. QED BY <3>1, <3>2
  <2>. QED BY <2>1, <2>2
<1>9. DownAlong(l)' BY <1>3, <1>6, <1>7, <1>8, Zenon DEF DownAlong, x, y, a, b
<1>10. Downward(l)' BY <1>9, AlongsNext
<1>. DEFINE e == Bit(y # 0)
            f == NonZeros(q)
            c == Bit(x # 0)
            d == afu.owed[l]
            d2 == afu'.owed[l]
            r == Bit(l \in o.ret)
            g == NonZeros(RetsUp(l))
<1>11. HostOut(l) = e + f + c + d + 0 + g BY <1>7 DEF HostOut, x, y, q
<1>12. HostOut(l)' = e + f + 0 + d2 + r + g
  <2>1. Bit(drv'.in[l].id # 0) = 0 BY <1>7 DEF Bit
  <2>. QED BY <1>3, <1>6, <2>1 DEF HostOut, y, q
<1>13. f \in Nat /\ d \in Nat /\ g \in Nat /\ d2 = (d - r) + c BY <1>2, <1>3 DEF EndTypes, q, x
<1>14. e \in Nat /\ c \in Nat /\ r \in Nat BY DEF Bit
<1>. HIDE DEF e, f, c, d, d2, r, g
<1>15. HostOut(l)' = HostOut(l) BY <1>11, <1>12, <1>13, <1>14
<1>16. HostCredit(l)' BY <1>1, <1>3, <1>15 DEF HostCredit
<1>. QED BY <1>10, <1>16

\* The messages of the AFU.
LEMMA LowUpward ==
  ASSUME IInv, Types', NEW o, LowEffect(o), NEW l \in Lines
  PROVE  Upward(l)'
<1>. DEFINE S == Raised(o)
            T == TakesCfg(drv, S)
            x == host.in[l]
            q == IdsUp(l)
            a == engine.got[l]
            b == asent[l]
<1>1. Types /\ Upward(l) /\ CfgAccess BY DEF IInv
<1>2. EndTypes /\ AckTypes BY <1>1, Ends, Acks
<1>3. /\ drv.out = None(Lines)
      /\ \A k \in AfuLines : drv'.out[k] = IF k \in S THEN asent[k] + 1 ELSE 0
      /\ drv'.out["cfg"] = IF T THEN afu.cfg ELSE 0
      /\ \A k \in AfuLines : asent'[k] = asent[k] + Bit(k \in S)
      /\ asent'["cfg"] = asent["cfg"] + Bit(T)
      /\ UNCHANGED <<host, toDrv, toHost, engine, sent, link>>
  BY DEF LowEffect
<1>4. x \in Nat /\ q \in Seq(Nat) /\ a \in Nat /\ b \in Nat BY <1>2 DEF EndTypes
<1>5. drv.out[l] = 0 BY <1>3, NoneTypes
<1>6. Along(x, q, 0, a, b)
  <2>1. UpAlong(l) BY <1>1, Alongs
  <2>. QED BY <2>1, <1>5 DEF UpAlong
<1>7. IdsUp(l)' = q BY <1>3, Zenon DEF IdsUp
<1>8. T => afu.cfg = asent["cfg"] + 1
  <2>. DEFINE cdown == sent["cfg"] - afu.got["cfg"]
              up == asent["cfg"] - engine.got["cfg"]
              g == engine.got["cfg"]
              s == sent["cfg"]
              as == asent["cfg"]
  <2>1. ASSUME T PROVE afu.cfg # 0 /\ ~drv.ackPending BY <2>1 DEF TakesCfg
  <2>2. /\ s = g + Bit(engine.access = "cfg")
        /\ cdown + Bit(afu.asked # 0) + Bit(afu.cfg # 0 /\ ~drv.ackPending) + up = Bit(engine.access = "cfg")
        /\ afu.cfg # 0 /\ ~drv.ackPending => afu.cfg = s
    BY <1>1 DEF CfgAccess
  <2>3. cdown \in Nat /\ up \in Nat /\ Bit(afu.asked # 0) \in Nat /\ Bit(engine.access = "cfg") \in 0 .. 1
        /\ g \in Nat /\ as \in Nat /\ up = as - g
    BY <1>2, AccessFacts DEF AckTypes, Bit
  <2>. DEFINE p == Bit(afu.cfg # 0 /\ ~drv.ackPending)
              e == Bit(engine.access = "cfg")
              k == Bit(afu.asked # 0)
              c == afu.cfg
  <2>4. T => p = 1 BY <2>1 DEF Bit
  <2>5. /\ s = g + e
        /\ cdown + k + p + up = e
        /\ T => c = s
    BY <2>1, <2>2
  <2>6. cdown \in Nat /\ up \in Nat /\ k \in Nat /\ e \in 0 .. 1
        /\ g \in Nat /\ as \in Nat /\ up = as - g
    BY <2>3
  <2>7. T => c = as + 1
    <3>. HIDE DEF cdown, up, g, s, as, T, p, e, k, c
    <3>1. ASSUME T PROVE c = as + 1
      <4>1. p = 1 /\ c = s BY <3>1, <2>4, <2>5
      <4>3. cdown + k + 1 + up = e BY <4>1, <2>5
      <4>4. e \in Nat /\ e =< 1 BY <2>6
      <4>5. cdown \in Nat /\ k \in Nat /\ up \in Nat BY <2>6
      <4>2. up = 0 /\ e = 1 BY ONLY <4>3, <4>4, <4>5
      <4>. QED BY <4>1, <4>2, <2>5, <2>6
    <3>. QED BY <3>1
  <2>. QED BY <2>7
<1>. HIDE DEF x, q, a, b, S, T
<1>9. Along(x, q, b + 1, a, b + 1) BY <1>4, <1>6, AlongSend
<1>10. (drv'.out[l] = 0 /\ asent'[l] = b) \/ (drv'.out[l] = b + 1 /\ asent'[l] = b + 1)
  <2>1. CASE l = "cfg"
    <3>1. CASE T
      <4>1. Bit(T) = 1 BY <3>1 DEF Bit
      <4>2. asent'[l] = b + 1 BY <4>1, <2>1, <1>3, Zenon DEF b
      <4>3. drv'.out[l] = b + 1 BY <3>1, <2>1, <1>3, <1>8, Zenon DEF b
      <4>. QED BY <4>2, <4>3, Zenon
    <3>2. CASE ~T BY <3>2, <2>1, <1>3, <1>4 DEF Bit, b
    <3>. QED BY <3>1, <3>2
  <2>2. CASE l \in AfuLines
    <3>1. CASE l \in S
      <4>1. Bit(l \in S) = 1 BY <3>1 DEF Bit
      <4>2. asent'[l] = b + 1 BY <4>1, <2>2, <1>3, Zenon DEF b
      <4>3. drv'.out[l] = b + 1 BY <3>1, <2>2, <1>3, Zenon DEF b
      <4>. QED BY <4>2, <4>3, Zenon
    <3>2. CASE l \notin S BY <3>2, <2>2, <1>3, <1>4 DEF Bit, b
    <3>. QED BY <3>1, <3>2
  <2>. QED BY <2>1, <2>2 DEF Lines
<1>11. UpAlong(l)'
  <2>1. CASE drv'.out[l] = 0 /\ asent'[l] = b BY <2>1, <1>3, <1>6, <1>7, Zenon DEF UpAlong, x, a
  <2>2. CASE drv'.out[l] = b + 1 /\ asent'[l] = b + 1 BY <2>2, <1>3, <1>7, <1>9, Zenon DEF UpAlong, x, a
  <2>. QED BY <2>1, <2>2, <1>10
<1>. QED BY <1>11, AlongsNext

\* The credits of the AFU.
LEMMA LowAfuCredit ==
  ASSUME IInv, Types', NEW o, LowEffect(o), NEW l \in AfuLines
  PROVE  AfuCredit(l)'
<1>. DEFINE S == Raised(o)
            v == drv.avail[l]
            v2 == drv'.avail[l]
            w == AfuOut(l)
            w2 == AfuOut(l)'
            c == afu.cr[l]
            c2 == afu'.cr[l]
            z == Bit(l \in S)
            r == drv.ret[l]
            G == HostGrants[l]
<1>1. Types /\ AfuCredit(l) /\ Told BY DEF IInv
<1>2. EndTypes BY <1>1, Ends
<1>3. l \in Lines /\ l \in Returns BY DEF Lines, Returns
<1>4. /\ drv.out = None(Lines) /\ drv'.ret = None(Returns) /\ Allowed(o)
      /\ drv'.ready = (drv.ready \/ drv.cv)
      /\ v2 = (IF ~drv.ready /\ drv.cv THEN G ELSE v) - z
      /\ drv'.out[l] = IF l \in S THEN asent[l] + 1 ELSE 0
      /\ afu'.known = (afu.known \/ (drv.cv /\ drv.ready))
      /\ c2 = IF afu.known THEN (c - z) + r ELSE IF drv.cv /\ drv.ready THEN G + r ELSE c - z
      /\ UNCHANGED <<host, toDrv, toHost, engine, sent, link>>
  BY DEF LowEffect
<1>5. /\ v + w = IF drv.ready THEN G ELSE 0
      /\ IF afu.known THEN c + r = v ELSE c = 0 /\ r = 0 /\ w = 0
  BY <1>1 DEF AfuCredit
<1>6. v \in Nat /\ c \in Nat /\ r \in 0 .. 1 /\ asent[l] \in Nat BY <1>2, <1>3, Zenon DEF EndTypes
<1>7. z \in 0 .. 1 /\ (z = 1 <=> l \in S) BY DEF Bit
<1>8. l \in S => c > 0 BY <1>4 DEF Allowed
<1>9. w2 = w + z
  <2>. DEFINE a == Bit(drv.out[l] # 0)
              a2 == Bit(drv'.out[l] # 0)
              i == NonZeros(IdsUp(l))
              j == Bit(l \in {"resp", "rdata"} /\ host.in[l] # 0)
              h == host.ret[l]
              d == NonZeros(RetsDown(l))
  <2>1. w = a + i + j + h + d BY DEF AfuOut
  <2>2. w2 = a2 + i + j + h + d BY <1>4 DEF AfuOut, IdsUp, RetsDown
  <2>3. a = 0
    <3>1. drv.out[l] = 0 BY <1>3, <1>4, NoneTypes
    <3>. QED BY <3>1 DEF Bit
  <2>4. a2 = z
    <3>1. drv'.out[l] # 0 <=> l \in S BY <1>4, <1>6
    <3>. QED BY <3>1 DEF Bit
  <2>5. i \in Nat /\ h \in 0 .. 1 /\ d \in Nat BY <1>2, <1>3, Zenon DEF EndTypes
  <2>6. j \in Nat BY DEF Bit
  <2>. HIDE DEF a, a2, i, j, h, d, w, w2, z
  <2>. QED BY <2>1, <2>2, <2>3, <2>4, <2>5, <2>6, <1>7
<1>10. w \in Nat
  <2>. DEFINE a == Bit(drv.out[l] # 0)
              i == NonZeros(IdsUp(l))
              j == Bit(l \in {"resp", "rdata"} /\ host.in[l] # 0)
              h == host.ret[l]
              d == NonZeros(RetsDown(l))
  <2>1. w = a + i + j + h + d BY DEF AfuOut
  <2>2. i \in Nat /\ h \in 0 .. 1 /\ d \in Nat BY <1>2, <1>3, Zenon DEF EndTypes
  <2>3. a \in Nat /\ j \in Nat BY DEF Bit
  <2>. HIDE DEF a, i, j, h, d, w
  <2>. QED BY <2>1, <2>2, <2>3
<1>11. G \in Nat BY LinkAssumption
<1>12. drv'.ret[l] = 0 BY <1>3, <1>4, NoneTypes
<1>13. drv.ready \in BOOLEAN /\ drv.cv \in BOOLEAN /\ afu.known \in BOOLEAN BY <1>1, DrvFields, AfuFields DEF Types
<1>14. afu.known => drv.ready BY <1>1 DEF Told
<1>. DEFINE ready == drv.ready
            cv == drv.cv
            known == afu.known
<1>. HIDE DEF v, v2, w, w2, c, c2, z, r, G, S, ready, cv, known
<1>15. /\ v2 = (IF ~ready /\ cv THEN G ELSE v) - z
       /\ c2 = IF known THEN (c - z) + r ELSE IF cv /\ ready THEN G + r ELSE c - z
       /\ v + w = (IF ready THEN G ELSE 0)
       /\ IF known THEN c + r = v ELSE c = 0 /\ r = 0 /\ w = 0
       /\ (known => ready) /\ (z = 1 => c > 0)
  BY <1>4, <1>5, <1>7, <1>8, <1>14 DEF ready, cv, known
<1>16. ready \in BOOLEAN /\ cv \in BOOLEAN /\ known \in BOOLEAN BY <1>13 DEF ready, cv, known
<1>17. /\ v2 + w2 = IF ready \/ cv THEN G ELSE 0
       /\ IF known \/ (cv /\ ready) THEN c2 + 0 = v2 ELSE c2 = 0 /\ w2 = 0
  <2>1. CASE known BY <2>1, <1>6, <1>7, <1>9, <1>10, <1>11, <1>15
  <2>2. CASE ~known
    <3>1. z = 0 /\ c = 0 /\ r = 0 /\ w = 0 /\ w2 = 0 BY <2>2, <1>6, <1>7, <1>9, <1>10, <1>15
    <3>. QED BY <2>2, <3>1, <1>6, <1>11, <1>15, <1>16
  <2>. QED BY <2>1, <2>2, <1>16
<1>. QED BY <1>4, <1>12, <1>17 DEF AfuCredit, v2, w2, c2, G, ready, cv, known

\* The access in hand: its command is seen by the AFU, or its response or data is sent.
LEMMA LowCmdAccess == ASSUME IInv, NEW o, LowEffect(o) PROVE CmdAccess'
<1>. DEFINE down == sent["cmd"] - afu.got["cmd"]
            resp == asent["resp"] - engine.got["resp"]
            data == asent["rdata"] - engine.got["rdata"]
            down2 == sent["cmd"] - afu'.got["cmd"]
            resp2 == asent'["resp"] - engine.got["resp"]
            data2 == asent'["rdata"] - engine.got["rdata"]
            I == Bit(drv.in["cmd"].id # 0)
            P == Bit("resp" \in Raised(o))
            D == Bit("rdata" \in Raised(o))
            J == Bit(afu.job # 0)
            J2 == Bit(afu'.job # 0)
            W == Bit(engine.access \in {"read", "write"})
            R == afu.rbeats
            R2 == afu'.rbeats
            L == engine.left
            rd == engine.access = "read"
            da == engine.access = "data"
<1>1. Types /\ CmdAccess /\ CmdData BY DEF IInv
<1>2. AckTypes BY <1>1, Acks
<1>3. /\ down \in Nat /\ resp \in Nat /\ data \in Nat
      /\ drv.in["cmd"].id # 0 => down > 0
  BY AccessFacts
<1>4. /\ "cmd" \in HostLines /\ "resp" \in AfuLines /\ "rdata" \in AfuLines BY DEF HostLines, AfuLines
<1>5. /\ afu'.got["cmd"] = afu.got["cmd"] + I /\ asent'["resp"] = asent["resp"] + P
      /\ asent'["rdata"] = asent["rdata"] + D
  BY <1>4, Zenon DEF LowEffect
<1>6. /\ I \in 0 .. 1 /\ P \in 0 .. 1 /\ D \in 0 .. 1 /\ J \in 0 .. 1 /\ J2 \in 0 .. 1 /\ W \in 0 .. 1
      /\ (I = 1 <=> drv.in["cmd"].id # 0) /\ (J = 1 <=> afu.job # 0) /\ (J2 = 1 <=> afu'.job # 0)
      /\ (P = 1 <=> "resp" \in Raised(o)) /\ (D = 1 <=> "rdata" \in Raised(o))
      /\ (W = 1 <=> engine.access \in {"read", "write"})
  BY DEF Bit
<1>7. down2 = down - I /\ resp2 = resp + P /\ data2 = data + D
  <2>1. /\ sent["cmd"] \in Nat /\ afu.got["cmd"] \in Nat /\ asent["resp"] \in Nat /\ engine.got["resp"] \in Nat
        /\ asent["rdata"] \in Nat /\ engine.got["rdata"] \in Nat
    BY <1>2 DEF AckTypes
  <2>. HIDE DEF I, P, D
  <2>. QED BY <1>5, <1>6, <2>1
<1>8. o \in Outputs BY DEF LowEffect
<1>9. /\ P = 1 => J = 1
      /\ D = 1 => R > 0
      /\ D = 1 /\ P = 0 => J = 0
  <2>1. /\ "resp" \in Raised(o) => afu.job # 0
        /\ "rdata" \in Raised(o) => afu.rbeats > 0
        /\ "rdata" \in Raised(o) => o.resp \/ o.rdata
        /\ o.rdata => afu.job = 0
        /\ "resp" \in Raised(o) <=> o.resp
    BY <1>4, <1>8, OutputFacts DEF Raised
  <2>. QED BY <2>1, <1>6
<1>10. J2 = IF I = 1 THEN 1 ELSE J - P
  <2>1. afu'.job = (IF drv.in["cmd"].id # 0 THEN drv.in["cmd"].id ELSE IF o.resp THEN 0 ELSE afu.job)
    BY DEF LowEffect
  <2>2. "resp" \in Raised(o) <=> o.resp BY <1>8, OutputFacts
  <2>. QED BY <2>1, <2>2, <1>6, <1>9
<1>11. R2 = IF I = 1 /\ rd THEN L ELSE R - D
  <2>1. R2 = (IF drv.in["cmd"].id # 0 /\ drv.in["cmd"].n = 0 THEN L ELSE R - D) BY DEF LowEffect
  <2>2. drv.in["cmd"].id # 0 => (drv.in["cmd"].n = 0 <=> rd)
    <3>1. Len(toDrv) \in Nat BY <1>1 DEF Types
    <3>2. 0 \in 0 .. Len(toDrv) + 1 BY <3>1
    <3>3. DownAt(0, "cmd") = drv.in["cmd"] BY DEF DownAt
    <3>. QED BY <1>1, <3>2, <3>3 DEF CmdData
  <2>. QED BY <2>1, <2>2, <1>6
<1>12. /\ down + J + resp = W
       /\ rd \/ da => L > 0
       /\ data + R = IF da \/ (rd /\ down = 0) THEN L ELSE 0
       /\ rd /\ resp = 0 => data = 0
  BY <1>1 DEF CmdAccess
<1>13. R \in Nat /\ L \in Nat BY <1>2 DEF AckTypes
<1>14. (rd => W = 1) /\ (da => W = 0) /\ (I = 1 => down > 0) BY <1>3, <1>6
<1>15. /\ rd \in BOOLEAN /\ da \in BOOLEAN OBVIOUS
<1>16. /\ down2 + J2 + resp2 = W
       /\ data2 + R2 = IF da \/ (rd /\ down2 = 0) THEN L ELSE 0
       /\ rd /\ resp2 = 0 => data2 = 0
  <2>1. I \in 0 .. 1 /\ P \in 0 .. 1 /\ D \in 0 .. 1 /\ J \in 0 .. 1 /\ W \in 0 .. 1 BY <1>6
  <2>. HIDE DEF down, resp, data, down2, resp2, data2, I, P, D, J, J2, W, R, R2, L, rd, da
  <2>2. CASE I = 1
    <3>1. down = 1 /\ J = 0 /\ resp = 0 /\ W = 1 /\ P = 0 /\ ~da
      BY <2>1, <2>2, <1>3, <1>9, <1>12, <1>14
    <3>2. data + R = 0 BY <3>1, <1>12
    <3>3. data = 0 /\ R = 0 /\ D = 0 BY <3>2, <1>3, <1>9, <1>13, <2>1
    <3>. QED BY <2>2, <3>1, <3>3, <1>7, <1>10, <1>11, <1>13, <1>15
  <2>3. CASE I = 0
    <3>1. down2 = down /\ J2 + P = J /\ resp2 = resp + P /\ data2 + R2 = data + R
      BY <2>1, <2>3, <1>3, <1>7, <1>10, <1>11, <1>13
    <3>2. down2 + J2 + resp2 = W
      <4>1. J2 \in Int BY <1>10, <2>1, <2>3
      <4>. QED BY <3>1, <4>1, <2>1, <1>3, <1>12
    <3>3. ASSUME rd, resp2 = 0 PROVE data2 = 0
      <4>1. P = 0 /\ resp = 0 /\ data = 0 BY <3>3, <1>3, <1>7, <1>12, <2>1
      <4>2. CASE D = 1
        <5>1. J = 0 /\ R > 0 BY <4>1, <4>2, <1>9
        <5>2. down = 1 BY <3>3, <4>1, <5>1, <1>3, <1>12, <1>14
        <5>3. data + R = 0
          <6>1. ~da BY <3>3, <1>14
          <6>. QED BY <6>1, <5>2, <1>12
        <5>. QED BY <4>1, <5>1, <5>3, <1>13
      <4>3. CASE D = 0 BY <4>1, <4>3, <1>7
      <4>. QED BY <4>2, <4>3, <2>1
    <3>. QED BY <3>1, <3>2, <3>3, <1>12
  <2>. QED BY <2>1, <2>2, <2>3
<1>17. engine' = engine /\ sent' = sent BY DEF LowEffect
<1>. QED BY <1>12, <1>16, <1>17 DEF CmdAccess

\* A response goes into the event of the driver after the credit of its command.
LEMMA LowRespOrder == ASSUME IInv, NEW o, LowEffect(o) PROVE RespOrder'
<1>. DEFINE down == sent["cmd"] - afu.got["cmd"]
            resp == asent["resp"] - engine.got["resp"]
            data == asent["rdata"] - engine.got["rdata"]
            I == Bit(drv.in["cmd"].id # 0)
            P == Bit("resp" \in Raised(o))
            Q == Bit("cmd" \in o.ret)
            J == Bit(afu.job # 0)
            W == Bit(engine.access \in {"read", "write"})
            w == afu.owed["cmd"]
            w2 == afu'.owed["cmd"]
            NoRets == \A i \in DOMAIN toHost : toHost[i].ret["cmd"] = 0
            NoData == host.in["rdata"] = 0 /\ \A i \in DOMAIN toHost : toHost[i].msg["rdata"] = 0
<1>1. Types /\ CmdAccess /\ RespOrder /\ (\A l \in Lines : Upward(l)) BY DEF IInv
<1>2. AckTypes BY <1>1, Acks
<1>3. /\ down \in Nat /\ resp \in Nat /\ data \in Nat
      /\ host.in["resp"] # 0 => resp > 0
      /\ drv.in["cmd"].id # 0 => down > 0
  BY AccessFacts
<1>4. /\ "cmd" \in HostLines /\ "resp" \in AfuLines /\ "resp" \in Lines /\ "rdata" \in Lines
  BY DEF HostLines, AfuLines, Lines
<1>5. /\ w2 = (w - Q) + I /\ drv'.aret["cmd"] = Q /\ drv.aret = None(HostLines)
      /\ asent'["resp"] = asent["resp"] + P
      /\ drv'.out["resp"] = (IF "resp" \in Raised(o) THEN asent["resp"] + 1 ELSE 0)
      /\ afu'.job = (IF drv.in["cmd"].id # 0 THEN drv.in["cmd"].id ELSE IF o.resp THEN 0 ELSE afu.job)
      /\ host' = host /\ toHost' = toHost /\ engine' = engine
      /\ o \in Outputs /\ Allowed(o)
  BY <1>4, Zenon DEF LowEffect
<1>6. /\ I \in 0 .. 1 /\ P \in 0 .. 1 /\ J \in 0 .. 1 /\ W \in 0 .. 1 /\ Q \in 0 .. 1
      /\ (I = 1 <=> drv.in["cmd"].id # 0) /\ (J = 1 <=> afu.job # 0)
      /\ (P = 1 <=> "resp" \in Raised(o)) /\ (Q = 1 <=> "cmd" \in o.ret)
  BY DEF Bit
<1>7. /\ "resp" \in Raised(o) <=> o.resp
      /\ o.resp => afu.job # 0
      /\ "cmd" \in o.ret => w > 0
      /\ o.resp => w = 0 \/ "cmd" \in o.ret
  BY <1>5, OutputFacts DEF Allowed
<1>8. drv.aret["cmd"] = 0 BY <1>4, <1>5, NoneTypes
<1>9. /\ CmdReturned <=> w = 0
      /\ CmdReturned' <=> w2 = 0 /\ Q = 0
  BY <1>5, <1>8 DEF CmdReturned
<1>10. /\ w <= 1
       /\ (afu.job = 0 /\ asent["resp"] = engine.got["resp"]) \/ host.in["resp"] # 0 => w = 0 /\ NoRets
       /\ \A j \in DOMAIN toHost : toHost[j].msg["resp"] # 0 =>
            /\ host.in["rdata"] = 0 /\ \A i \in 1 .. j - 1 : toHost[i].msg["rdata"] = 0
            /\ w = 0 /\ \A i \in j + 1 .. Len(toHost) : toHost[i].ret["cmd"] = 0
  BY <1>1, <1>9 DEF RespOrder
<1>11. /\ down + J + resp = W
       /\ data + afu.rbeats =
            IF engine.access = "data" \/ (engine.access = "read" /\ down = 0) THEN engine.left ELSE 0
       /\ engine.access = "read" /\ resp = 0 => data = 0
  BY <1>1 DEF CmdAccess
<1>12. /\ w \in Nat /\ asent["resp"] \in Nat /\ engine.got["resp"] \in Nat /\ afu.rbeats \in Nat
       /\ resp = asent["resp"] - engine.got["resp"]
  BY <1>2 DEF AckTypes
<1>13. W = 1 => engine.access \in {"read", "write"} BY DEF Bit
<1>14. data = 0 => NoData
  <2>1. asent["rdata"] \in Nat /\ engine.got["rdata"] \in Nat BY <1>2 DEF AckTypes
  <2>2. data = 0 => engine.got["rdata"] = asent["rdata"] BY <2>1
  <2>3. engine.got["rdata"] = asent["rdata"] =>
          host.in["rdata"] = 0 /\ \A i \in DOMAIN toHost : toHost[i].msg["rdata"] = 0
    BY <1>1, <1>4, UpCount
  <2>. QED BY <2>2, <2>3
<1>15. ASSUME NEW j \in DOMAIN toHost, toHost[j].msg["resp"] # 0 PROVE resp > 0
  <2>1. engine.got["resp"] # asent["resp"] BY <1>1, <1>4, <1>15, UpCount
  <2>. HIDE DEF resp
  <2>. QED BY <2>1, <1>3, <1>12
<1>. HIDE DEF down, resp, data, I, P, Q, J, W, w, w2, NoRets, NoData
<1>16. Q = 1 => w > 0 BY <1>6, <1>7
<1>17. w = 0 /\ I = 0 => w2 = 0 /\ Q = 0 BY <1>5, <1>6, <1>12, <1>16
<1>18. I = 1 => down > 0 BY <1>3, <1>6
<1>19. I = 1 => J = 0 /\ resp = 0 BY <1>18, <1>3, <1>6, <1>11
<1>20. resp > 0 => I = 0 BY <1>19, <1>6
<1>21. w2 <= 1
  <2>1. CASE I = 1
    <3>1. afu.job = 0 /\ asent["resp"] = engine.got["resp"] BY <2>1, <1>19, <1>6, <1>12
    <3>2. w = 0 BY <3>1, <1>10
    <3>. QED BY <2>1, <3>2, <1>5, <1>6, <1>16
  <2>2. CASE I = 0 BY <2>2, <1>5, <1>6, <1>10, <1>12
  <2>. QED BY <2>1, <2>2, <1>6
<1>22. ASSUME (afu'.job = 0 /\ asent'["resp"] = engine.got["resp"]) \/ host.in["resp"] # 0
       PROVE  w2 = 0 /\ Q = 0 /\ NoRets
  <2>1. CASE host.in["resp"] # 0 BY <2>1, <1>3, <1>10, <1>17, <1>20
  <2>2. CASE afu'.job = 0 /\ asent'["resp"] = engine.got["resp"]
    <3>1. I = 0 BY <2>2, <1>5, <1>6
    <3>2. P = 0 /\ asent["resp"] = engine.got["resp"]
      <4>. DEFINE a == asent["resp"]
                  b == engine.got["resp"]
      <4>1. a + P = b /\ P \in 0 .. 1 /\ a \in Nat /\ b \in Nat BY <2>2, <1>5, <1>6, <1>12
      <4>2. resp = a - b /\ resp \in Nat BY <1>3, <1>12
      <4>. HIDE DEF a, b
      <4>3. P = 0 /\ a = b BY <4>1, <4>2
      <4>. QED BY <4>3 DEF a, b
    <3>3. afu.job = 0 BY <2>2, <3>1, <3>2, <1>5, <1>6, <1>7
    <3>. QED BY <3>1, <3>2, <3>3, <1>10, <1>17
  <2>. QED BY <1>22, <2>1, <2>2
<1>23. ASSUME NEW j \in DOMAIN toHost, toHost[j].msg["resp"] # 0 PROVE w2 = 0 /\ Q = 0
  BY <1>10, <1>15, <1>17, <1>20, <1>23
<1>24. ASSUME drv'.out["resp"] # 0 PROVE w2 = 0 /\ NoData
  <2>1. P = 1 /\ J = 1 BY <1>5, <1>6, <1>7, <1>24
  <2>2. I = 0 BY <2>1, <1>19, <1>6
  <2>3. w2 = 0 BY <2>1, <2>2, <1>5, <1>6, <1>7, <1>10, <1>12
  <2>4. resp = 0 /\ W = 1 BY <2>1, <1>3, <1>6, <1>11
  <2>5. data = 0
    <3>1. CASE engine.access = "read" BY <3>1, <2>4, <1>11
    <3>2. CASE engine.access = "write"
      <4>1. data + afu.rbeats = 0 BY <3>2, <1>11
      <4>. QED BY <4>1, <1>3, <1>12
    <3>. QED BY <3>1, <3>2, <2>4, <1>13
  <2>. QED BY <2>3, <2>5, <1>14
<1>. QED BY <1>5, <1>9, <1>10, <1>21, <1>22, <1>23, <1>24, Zenon DEF RespOrder, w2, NoRets, NoData

\* The configuration access.
LEMMA LowCfgAccess == ASSUME IInv, NEW o, LowEffect(o) PROVE CfgAccess'
<1>. DEFINE S == Raised(o)
            cd == sent["cfg"] - afu.got["cfg"]
            up == asent["cfg"] - engine.got["cfg"]
            cd2 == sent["cfg"] - afu'.got["cfg"]
            up2 == asent'["cfg"] - engine.got["cfg"]
            s == sent["cfg"]
            g == afu.got["cfg"]
            id == drv.in["cfg"].id
            ask == afu.asked
            ask2 == afu'.asked
            cf == afu.cfg
            cf2 == afu'.cfg
            ack == drv.ackPending
            ack2 == drv'.ackPending
            T == TakesCfg(drv, S)
            E == Bit(engine.access = "cfg")
            h == host.ret["ack"]
            e == NonZeros(RetsDown("ack"))
            r == drv.ret["ack"]
<1>1. Types /\ CfgAccess BY DEF IInv
<1>2. AckTypes BY <1>1, Acks
<1>3. /\ cd \in Nat /\ up \in Nat
      /\ id # 0 => cd > 0 /\ id = g + 1
  BY AccessFacts
<1>4. "cfg" \in HostLines /\ "ack" \in Returns BY DEF HostLines, Returns
<1>5. /\ afu'.got["cfg"] = g + Bit(id # 0) /\ asent'["cfg"] = asent["cfg"] + Bit(T)
      /\ cf2 = (IF r = 1 THEN 0 ELSE IF o.cfg THEN ask ELSE cf)
      /\ ask2 = (IF id # 0 THEN id ELSE IF o.cfg THEN 0 ELSE ask)
      /\ ack2 = (IF cf = 0 THEN FALSE ELSE ack \/ T)
      /\ drv'.ret = None(Returns)
      /\ o \in Outputs
      /\ UNCHANGED <<host, toDrv, toHost, engine, sent, link>>
  BY <1>4, Zenon DEF LowEffect
<1>6. T => cf # 0 /\ ~ack BY DEF TakesCfg
<1>7. o.cfg => ask # 0 /\ cf = 0 BY <1>5, OutputFacts
<1>8. /\ s \in Nat /\ g \in Nat /\ ask \in Nat /\ cf \in Nat /\ h \in 0 .. 1 /\ e \in Nat /\ r \in 0 .. 1
      /\ asent["cfg"] \in Nat /\ engine.got["cfg"] \in Nat /\ id \in Nat
  BY <1>2 DEF AckTypes
<1>9. ack \in BOOLEAN BY <1>1, DrvFields DEF Types
<1>10. T \in BOOLEAN BY DEF TakesCfg
<1>11. cd2 = cd - Bit(id # 0) /\ up2 = up + Bit(T) /\ cd = s - g
  <2>1. Bit(id # 0) \in Int /\ Bit(T) \in Int BY DEF Bit
  <2>2. cd2 = s - (g + Bit(id # 0)) /\ up2 = (asent["cfg"] + Bit(T)) - engine.got["cfg"] BY <1>5, Zenon
  <2>. HIDE DEF cd2, up2, T
  <2>. QED BY <1>8, <2>1, <2>2
<1>12. /\ s = engine.got["cfg"] + E
       /\ cd + Bit(ask # 0) + Bit(cf # 0 /\ ~ack) + up = E
       /\ ask # 0 => ask = s
       /\ cf # 0 /\ ~ack => cf = s
       /\ up + h + e + r = Bit(cf # 0 /\ ack)
  BY <1>1 DEF CfgAccess
<1>13. E \in 0 .. 1 BY DEF Bit
<1>14. drv'.ret["ack"] = 0 BY <1>4, <1>5, NoneTypes
<1>15. RetsDown("ack")' = RetsDown("ack") BY <1>5, Zenon DEF RetsDown
<1>16. /\ cd2 + Bit(ask2 # 0) + Bit(cf2 # 0 /\ ~ack2) + up2 = E
       /\ ask2 # 0 => ask2 = s
       /\ cf2 # 0 /\ ~ack2 => cf2 = s
       /\ up2 + h + e + 0 = Bit(cf2 # 0 /\ ack2)
  <2>. DEFINE oc == o.cfg
  <2>1. /\ cf2 = (IF r = 1 THEN 0 ELSE IF oc THEN ask ELSE cf)
        /\ ask2 = (IF id # 0 THEN id ELSE IF oc THEN 0 ELSE ask)
        /\ ack2 = (IF cf = 0 THEN FALSE ELSE ack \/ T)
        /\ oc => ask # 0 /\ cf = 0
    BY <1>5, <1>7
  <2>. HIDE DEF cd, up, cd2, up2, s, g, id, ask, ask2, cf, cf2, ack, ack2, T, E, h, e, r, oc
  <2>2. ASSUME id # 0 PROVE cd = 1 /\ ask = 0 /\ ask2 = s /\ ask2 # 0 /\ ~(cf # 0 /\ ~ack) /\ up = 0 /\ E = 1
    <3>1. cd > 0 /\ ask2 = g + 1 /\ cd = s - g BY <2>1, <2>2, <1>3, <1>11
    <3>2. Bit(ask # 0) \in 0 .. 1 /\ Bit(cf # 0 /\ ~ack) \in 0 .. 1 BY DEF Bit
    <3>3. cd = 1 /\ Bit(ask # 0) = 0 /\ Bit(cf # 0 /\ ~ack) = 0 /\ up = 0 /\ E = 1
      <4>. DEFINE x == Bit(ask # 0)
                  y == Bit(cf # 0 /\ ~ack)
      <4>1. x \in 0 .. 1 /\ y \in 0 .. 1 /\ cd + x + y + up = E BY <3>2, <1>12
      <4>. HIDE DEF x, y
      <4>2. cd = 1 /\ x = 0 /\ y = 0 /\ up = 0 /\ E = 1 BY <3>1, <4>1, <1>3, <1>13
      <4>. QED BY <4>2 DEF x, y
    <3>4. ask = 0 /\ ~(cf # 0 /\ ~ack) BY <3>3 DEF Bit
    <3>. QED BY <3>1, <3>3, <3>4, <1>8
  <2>3. r = 1 => cf # 0 /\ ack = TRUE /\ up = 0 /\ h = 0 /\ e = 0
    <3>1. Bit(cf # 0 /\ ack) \in 0 .. 1 /\ (Bit(cf # 0 /\ ack) = 1 => cf # 0 /\ ack) BY DEF Bit
    <3>. DEFINE x == Bit(cf # 0 /\ ack)
    <3>2. up + h + e + r = x BY <1>12
    <3>. HIDE DEF x
    <3>3. r = 1 => x = 1 /\ up = 0 /\ h = 0 /\ e = 0 BY <3>1, <3>2, <1>3, <1>8 DEF x
    <3>. QED BY <3>1, <3>3, <1>9 DEF x
  <2>4. CASE r = 1
    <3>1. cf # 0 /\ ack = TRUE /\ up = 0 /\ h = 0 /\ e = 0 /\ cf2 = 0 /\ ~T /\ ~oc BY <2>1, <2>3, <2>4, <1>6
    <3>2. up2 = 0 /\ cd + Bit(ask # 0) = E
      <4>1. Bit(T) = 0 /\ Bit(cf # 0 /\ ~ack) = 0 /\ Bit(ask # 0) \in 0 .. 1 BY <3>1 DEF Bit
      <4>. QED BY <3>1, <4>1, <1>3, <1>11, <1>12
    <3>3. Bit(cf2 # 0 /\ ~ack2) = 0 /\ Bit(cf2 # 0 /\ ack2) = 0 BY <3>1 DEF Bit
    <3>4. CASE id # 0
      <4>1. Bit(id # 0) = 1 /\ Bit(ask2 # 0) = 1 BY <3>4, <2>2 DEF Bit
      <4>. QED BY <3>1, <3>2, <3>3, <3>4, <4>1, <2>2, <1>11
    <3>5. CASE id = 0
      <4>1. Bit(id # 0) = 0 /\ ask2 = ask /\ Bit(ask # 0) \in 0 .. 1 BY <3>1, <3>5, <2>1 DEF Bit
      <4>. QED BY <3>1, <3>2, <3>3, <4>1, <1>3, <1>11, <1>12
    <3>. QED BY <3>4, <3>5
  <2>5. CASE r = 0 /\ cf = 0
    <3>1. ~T /\ ack2 = FALSE /\ Bit(cf # 0 /\ ack) = 0 /\ Bit(cf # 0 /\ ~ack) = 0 /\ Bit(T) = 0
      BY <2>1, <2>5, <1>6 DEF Bit
    <3>2. up = 0 /\ h = 0 /\ e = 0 /\ up2 = 0 BY <2>5, <3>1, <1>3, <1>8, <1>11, <1>12
    <3>3. Bit(cf2 # 0 /\ ack2) = 0 BY <3>1 DEF Bit
    <3>4. cd + Bit(ask # 0) = E
      <4>1. Bit(ask # 0) \in 0 .. 1 BY DEF Bit
      <4>. QED BY <4>1, <3>1, <3>2, <1>3, <1>12
    <3>5. CASE oc
      <4>1. id = 0 /\ ask # 0 /\ ask2 = 0 /\ cf2 = ask /\ ask = s BY <3>5, <2>1, <2>2, <2>5, <1>12
      <4>2. Bit(id # 0) = 0 /\ Bit(ask2 # 0) = 0 /\ Bit(cf2 # 0 /\ ~ack2) = 1 /\ Bit(ask # 0) = 1
        BY <4>1, <3>1 DEF Bit
      <4>. QED BY <3>2, <3>3, <3>4, <4>1, <4>2, <1>3, <1>11
    <3>6. CASE ~oc
      <4>1. cf2 = 0 BY <3>6, <2>1, <2>5
      <4>2. Bit(cf2 # 0 /\ ~ack2) = 0 BY <4>1 DEF Bit
      <4>3. CASE id # 0
        <5>1. Bit(id # 0) = 1 /\ Bit(ask2 # 0) = 1 BY <4>3, <2>2 DEF Bit
        <5>. QED BY <3>2, <3>3, <4>1, <4>2, <4>3, <5>1, <2>2, <1>11
      <4>4. CASE id = 0
        <5>1. Bit(id # 0) = 0 /\ ask2 = ask /\ Bit(ask # 0) \in 0 .. 1 BY <4>4, <3>6, <2>1 DEF Bit
        <5>. QED BY <3>2, <3>3, <3>4, <4>1, <4>2, <5>1, <1>3, <1>11, <1>12
      <4>. QED BY <4>3, <4>4
    <3>. QED BY <3>5, <3>6
  <2>6. CASE r = 0 /\ cf # 0
    <3>1. ~oc /\ cf2 = cf BY <2>1, <2>6
    <3>2. CASE ack
      <4>1. ~T /\ ack2 = TRUE BY <3>2, <2>1, <2>6, <1>6, <1>9
      <4>2. /\ Bit(T) = 0 /\ Bit(cf2 # 0 /\ ~ack2) = 0 /\ Bit(cf2 # 0 /\ ack2) = 1
            /\ Bit(cf # 0 /\ ~ack) = 0 /\ Bit(cf # 0 /\ ack) = 1 /\ Bit(ask # 0) \in 0 .. 1
        BY <3>1, <3>2, <4>1, <2>6 DEF Bit
      <4>3. up2 = up /\ up + h + e = 1 /\ cd + Bit(ask # 0) + up = E
        BY <4>2, <2>6, <1>3, <1>8, <1>11, <1>12
      <4>4. CASE id # 0
        <5>1. Bit(id # 0) = 1 /\ Bit(ask2 # 0) = 1 BY <4>4, <2>2 DEF Bit
        <5>. QED BY <4>1, <4>2, <4>3, <4>4, <5>1, <2>2, <1>3, <1>8, <1>11
      <4>5. CASE id = 0
        <5>1. Bit(id # 0) = 0 /\ ask2 = ask BY <4>5, <3>1, <2>1 DEF Bit
        <5>. QED BY <4>1, <4>2, <4>3, <5>1, <1>3, <1>8, <1>11, <1>12
      <4>. QED BY <4>4, <4>5
    <3>3. CASE ~ack
      <4>1. id = 0 BY <2>2, <2>6, <3>3
      <4>2. /\ Bit(cf # 0 /\ ~ack) = 1 /\ Bit(cf # 0 /\ ack) = 0 /\ Bit(ask # 0) \in 0 .. 1
            /\ Bit(id # 0) = 0 /\ ask2 = ask
        BY <3>1, <3>3, <4>1, <2>1, <2>6 DEF Bit
      <4>3. up = 0 /\ h = 0 /\ e = 0 /\ cd2 = cd BY <4>2, <2>6, <1>3, <1>8, <1>11, <1>12
      <4>4. cd + Bit(ask # 0) + 1 = E BY <4>2, <4>3, <1>3, <1>12
      <4>5. CASE T
        <5>1. ack2 = TRUE BY <4>5, <2>1, <2>6, <1>9, <1>10
        <5>2. Bit(T) = 1 /\ Bit(cf2 # 0 /\ ~ack2) = 0 /\ Bit(cf2 # 0 /\ ack2) = 1 BY <4>5, <5>1, <3>1, <2>6 DEF Bit
        <5>. QED BY <5>1, <5>2, <4>2, <4>3, <4>4, <1>3, <1>11, <1>12
      <4>6. CASE ~T
        <5>1. ~ack2 BY <4>6, <2>1, <2>6, <3>3
        <5>2. Bit(T) = 0 /\ Bit(cf2 # 0 /\ ~ack2) = 1 /\ Bit(cf2 # 0 /\ ack2) = 0 BY <4>6, <5>1, <3>1, <2>6 DEF Bit
        <5>. QED BY <5>1, <5>2, <3>1, <3>3, <2>6, <4>2, <4>3, <4>4, <1>3, <1>11, <1>12
      <4>. QED BY <4>5, <4>6
    <3>. QED BY <3>2, <3>3
  <2>. QED BY <2>4, <2>5, <2>6, <1>8
<1>. QED BY <1>5, <1>12, <1>14, <1>15, <1>16 DEF CfgAccess

\* The driver at clock 0.
LEMMA LowStep == ASSUME IInv, DriverLow PROVE IInv'
<1>1. /\ Types /\ Grouped /\ Emptied /\ Booting /\ Told /\ Wires /\ DataParts
      /\ \A k \in DataLines : Fifo(k)
      /\ \A l \in HostLines : Downward(l)
  BY DEF IInv, DataParts
<1>2. PICK o \in Outputs : LowEffect(o) BY LowEffects
<1>3. /\ drv' \in DrvT /\ afu' \in AfuT /\ asent' \in [Lines -> Nat]
      /\ drv.pc = "low" /\ drv'.pc = "high" /\ drv'.in = NoHostMsgs /\ drv'.ret = None(Returns)
      /\ drv'.ready = (drv.ready \/ drv.cv) /\ drv'.cv = (drv.cv /\ drv.ready)
      /\ drv'.req \/ drv'.aret = None(HostLines)
      /\ \A l \in HostLines : drv'.top[l] = drv.in[l].id /\ (drv.in[l].id # 0 => drv'.clk[Clock(l)] = 1)
      /\ \A l \in HostLines : afu'.got[l] = afu.got[l] + Bit(drv.in[l].id # 0)
      /\ afu'.known = (afu.known \/ (drv.cv /\ drv.ready))
      /\ drv.in["cmd"].id # 0 => afu'.job = drv.in["cmd"].id
      /\ drv.in["cfg"].id # 0 => afu'.asked = drv.in["cfg"].id
      /\ UNCHANGED <<host, toDrv, toHost, engine, sent, link>>
  BY <1>2 DEF LowEffect
<1>4. Types' BY <1>1, <1>3 DEF Types
<1>5. Grouped' BY <1>1, <1>3 DEF Grouped
<1>6. Emptied' BY <1>1, <1>3 DEF Emptied
<1>7. drv.cv \in BOOLEAN /\ drv.ready \in BOOLEAN BY <1>1, DrvFields DEF Types
<1>8. Booting'
  <2>1. host'.ready <=> host'.pc \notin Starting BY <1>1, <1>3 DEF Booting, Starting
  <2>2. ASSUME ~host'.ready
        PROVE  /\ engine'.access = "none" /\ ~afu'.known
               /\ Len(toDrv') + Bit(drv'.cv) + Bit(drv'.ready) = Bit(host'.pc # "init_signal")
               /\ \A i \in DOMAIN toDrv' : toDrv'[i].cv
               /\ host'.pc = "init_signal" => host'.cv
    <3>. DEFINE n == Len(toDrv)
                a == Bit(drv.cv)
                b == Bit(drv.ready)
                c == Bit(host.pc # "init_signal")
    <3>1. /\ engine.access = "none" /\ ~afu.known /\ n + a + b = c
          /\ \A i \in DOMAIN toDrv : toDrv[i].cv
          /\ host.pc = "init_signal" => host.cv
      BY <1>1, <1>3, <2>2 DEF Booting
    <3>2. n \in Nat BY <1>1 DEF Types
    <3>3. a \in 0 .. 1 /\ b \in 0 .. 1 /\ c \in 0 .. 1 /\ (drv.cv => a = 1) /\ (drv.ready => b = 1) BY DEF Bit
    <3>. HIDE DEF n, a, b, c
    <3>4. ~(drv.cv /\ drv.ready) BY <3>1, <3>2, <3>3
    <3>5. Bit(drv'.cv) = 0 BY <1>3, <3>4 DEF Bit
    <3>6. Bit(drv'.ready) = a + b BY <1>3, <1>7, <3>4 DEF Bit, a, b
    <3>7. n + 0 + (a + b) = c BY <3>1, <3>2, <3>3
    <3>8. Len(toDrv') + Bit(drv'.cv) + Bit(drv'.ready) = Bit(host'.pc # "init_signal")
      BY <1>3, <3>5, <3>6, <3>7 DEF n, c
    <3>. QED BY <1>3, <3>1, <3>4, <3>8
  <2>. QED BY <2>1, <2>2 DEF Booting
<1>9. Told' BY <1>1, <1>3 DEF Told
<1>10. \A l \in HostLines : Downward(l)' /\ HostCredit(l)' BY <1>2, <1>4, LowDownward
<1>11. \A l \in Lines : Upward(l)' BY <1>2, <1>4, LowUpward
<1>12. \A l \in AfuLines : AfuCredit(l)' BY <1>2, <1>4, LowAfuCredit
<1>13. Wires'
  <2>1. ASSUME NEW l \in HostLines, drv'.top[l] # 0 PROVE drv'.clk[Clock(l)] = 1 /\ drv'.top[l] = afu'.got[l]
    <3>1. drv.in[l].id # 0 BY <1>3, <2>1
    <3>2. drv.in[l].id = afu.got[l] + 1 BY <1>1, <3>1, DownCount
    <3>3. Bit(drv.in[l].id # 0) = 1 BY <3>1 DEF Bit
    <3>. QED BY <1>3, <3>1, <3>2, <3>3
  <2>2. "cmd" \in HostLines /\ "cfg" \in HostLines BY DEF HostLines
  <2>3. drv'.top["cmd"] # 0 => afu'.job # 0 BY <1>3, <2>2
  <2>4. drv'.top["cfg"] # 0 => afu'.asked # 0 BY <1>3, <2>2
  <2>. QED BY <2>1, <2>3, <2>4 DEF Wires
<1>14. DataParts' /\ \A k \in DataLines : Fifo(k)' BY <1>1, <1>2, <1>4, DataOfLand
<1>15. CmdAccess' BY <1>2, LowCmdAccess
<1>16. RespOrder' BY <1>2, LowRespOrder
<1>17. CfgAccess' BY <1>2, LowCfgAccess
<1>. QED BY <1>4, <1>5, <1>6, <1>8, <1>9, <1>10, <1>11, <1>12, <1>13, <1>14, <1>15, <1>16, <1>17
         DEF IInv, DataParts

-----------------------------------------------------------------------------
(***************************************************************************)
(* The invariant holds at the start and is kept by every step.             *)
(***************************************************************************)
\* The state at the start has its types.
LEMMA InitTypes == ASSUME Init PROVE Types
<1>1. /\ NoHostMsgs \in [HostLines -> Msgs] /\ None(Lines) \in [Lines -> Nat]
      /\ None(Returns) \in [Returns -> 0 .. 1]
      /\ None(HostLines) \in [HostLines -> 0 .. 1] /\ None(HostLines) \in [HostLines -> Nat]
  BY NoneTypes
<1>2. /\ None(AfuLines) \in [AfuLines -> Nat] /\ None(DataLines) \in [DataLines -> Nat]
      /\ None(DataLines) \in [DataLines -> 0 .. 2] BY DEF None
<1>3. [k \in DataLines |-> <<>>] \in [DataLines -> Seq(Nat)] OBVIOUS
<1>4. host \in HostT BY <1>1 DEF Init, HostInit, HostT, HostPlaces, Rbps
<1>5. drv \in DrvT BY <1>1, <1>2, <1>3 DEF Init, DrvInit, DrvT, Rbps
<1>6. afu \in AfuT BY <1>1, <1>2 DEF Init, AfuInit, AfuT
<1>7. engine \in EngineT BY <1>1, <1>2 DEF Init, EngineInit, EngineT, Accesses
<1>8. toDrv \in Seq(HostPackets) /\ toHost \in Seq(DrvPackets) BY DEF Init
<1>9. sent \in [HostLines -> Nat] /\ asent \in [Lines -> Nat] /\ link = "up" BY <1>1 DEF Init
<1>. QED BY <1>4, <1>5, <1>6, <1>7, <1>8, <1>9 DEF Types

\* Nothing is under way at the start.
LEMMA InitIInv == Init => IInv
<1>. SUFFICES ASSUME Init PROVE IInv OBVIOUS
<1>1. Types BY InitTypes
<1>2. /\ host.pc = "init_signal" /\ host.out = NoHostMsgs /\ host.in = None(Lines) /\ host.cv = TRUE
      /\ host.ret = None(Returns) /\ host.avail = None(HostLines) /\ host.ready = FALSE
  BY DEF Init, HostInit
<1>3. /\ drv.pc = "low" /\ drv.out = None(Lines) /\ drv.in = NoHostMsgs /\ drv.cv = FALSE
      /\ drv.ret = None(Returns) /\ drv.req = FALSE /\ drv.aret = None(HostLines)
      /\ drv.avail = None(AfuLines) /\ drv.ready = FALSE /\ drv.ackPending = FALSE
      /\ drv.top = None(HostLines) /\ drv.fifo = [k \in DataLines |-> <<>>] /\ drv.rdCnt = None(DataLines)
  BY DEF Init, DrvInit
<1>4. /\ afu.known = FALSE /\ afu.cr = None(AfuLines) /\ afu.got = None(HostLines)
      /\ afu.owed = None(HostLines) /\ afu.asked = 0 /\ afu.cfg = 0 /\ afu.job = 0 /\ afu.rbeats = 0
      /\ afu.want = None(DataLines) /\ afu.line = None(DataLines)
  BY DEF Init, AfuInit
<1>5. /\ engine.access = "none" /\ engine.left = 0 /\ engine.got = None(Lines) /\ engine.flits = None(DataLines)
  BY DEF Init, EngineInit
<1>6. /\ toDrv = <<>> /\ toHost = <<>> /\ sent = None(HostLines) /\ asent = None(Lines)
      /\ Len(toDrv) = 0 /\ DOMAIN toDrv = {} /\ DOMAIN toHost = {} /\ Len(toHost) = 0
  BY DEF Init
<1>7. /\ \A l \in Lines : None(Lines)[l] = 0
      /\ \A l \in HostLines : None(HostLines)[l] = 0 /\ NoHostMsgs[l].id = 0 /\ NoHostMsgs[l].n = 0
      /\ \A l \in Returns : None(Returns)[l] = 0
      /\ \A l \in AfuLines : None(AfuLines)[l] = 0
      /\ \A k \in DataLines : None(DataLines)[k] = 0
  BY NoneTypes DEF None
<1>8. EndTypes BY <1>1, Ends
<1>9. Grouped /\ Emptied /\ Told BY <1>2, <1>3, <1>4, <1>6 DEF Grouped, Emptied, Told
<1>10. Booting BY <1>2, <1>3, <1>4, <1>5, <1>6 DEF Booting, Starting, Bit
<1>11. Along(0, <<>>, 0, 0, 0)
  <2>1. Len(<<>>) = 0 OBVIOUS
  <2>2. \A i \in 0 .. 0 + 1 : Place(0, <<>>, 0, i) = 0
    <3>. SUFFICES ASSUME NEW i \in 0 .. 1 PROVE Place(0, <<>>, 0, i) = 0 OBVIOUS
    <3>1. i = 0 \/ i = 1 OBVIOUS
    <3>. QED BY <3>1, <2>1 DEF Place
  <2>3. (0 + 1) .. 0 = {} OBVIOUS
  <2>. QED BY <2>1, <2>2, <2>3 DEF Along
<1>12. ASSUME NEW l \in HostLines PROVE Downward(l) /\ HostCredit(l)
  <2>1. /\ drv.in[l].id = 0 /\ host.out[l].id = 0 /\ afu.got[l] = 0 /\ sent[l] = 0 /\ afu.owed[l] = 0
        /\ drv.aret[l] = 0 /\ host.avail[l] = 0
    BY <1>2, <1>3, <1>4, <1>6, <1>7
  <2>2. IdsDown(l) = <<>> BY <1>6 DEF IdsDown
  <2>3. DownAlong(l) BY <2>1, <2>2, <1>11 DEF DownAlong
  <2>4. NonZeros(IdsDown(l)) = 0 /\ NonZeros(RetsUp(l)) = 0
    <3>1. IdsDown(l) \in Seq(Nat) /\ RetsUp(l) \in Seq(Nat) BY <1>8, Zenon DEF EndTypes
    <3>2. DOMAIN IdsDown(l) = {} /\ DOMAIN RetsUp(l) = {} BY <1>6 DEF IdsDown, RetsUp
    <3>. QED BY <3>1, <3>2, NonZerosNat
  <2>5. HostOut(l) = 0
    <3>1. Bit(host.out[l].id # 0) = 0 /\ Bit(drv.in[l].id # 0) = 0 BY <2>1 DEF Bit
    <3>. QED BY <2>1, <2>4, <3>1 DEF HostOut
  <2>. QED BY <1>1, <1>2, <2>1, <2>3, <2>5, Alongs DEF HostCredit
<1>13. ASSUME NEW l \in Lines PROVE Upward(l) /\ NonZeros(IdsUp(l)) = 0 /\ drv.out[l] = 0 /\ host.in[l] = 0
  <2>1. host.in[l] = 0 /\ drv.out[l] = 0 /\ engine.got[l] = 0 /\ asent[l] = 0 BY <1>2, <1>3, <1>5, <1>6, <1>7
  <2>2. IdsUp(l) = <<>> BY <1>6 DEF IdsUp
  <2>3. UpAlong(l) BY <2>1, <2>2, <1>11 DEF UpAlong
  <2>4. IdsUp(l) \in Seq(Nat) /\ DOMAIN IdsUp(l) = {} BY <2>2
  <2>. QED BY <1>1, <2>1, <2>3, <2>4, Alongs, NonZerosNat
<1>14. ASSUME NEW k \in Returns PROVE NonZeros(RetsDown(k)) = 0 /\ host.ret[k] = 0 /\ drv.ret[k] = 0
  <2>1. RetsDown(k) \in Seq(Nat) BY <1>8, Zenon DEF EndTypes
  <2>2. DOMAIN RetsDown(k) = {} BY <1>6 DEF RetsDown
  <2>. QED BY <2>1, <2>2, <1>2, <1>3, <1>7, NonZerosNat
<1>15. ASSUME NEW l \in AfuLines PROVE AfuCredit(l)
  <2>0. l \in Lines /\ l \in Returns BY DEF Lines, Returns
  <2>1. Bit(drv.out[l] # 0) = 0 /\ Bit(l \in {"resp", "rdata"} /\ host.in[l] # 0) = 0 BY <1>13, <2>0 DEF Bit
  <2>2. AfuOut(l) = 0 BY <2>0, <2>1, <1>13, <1>14 DEF AfuOut
  <2>3. drv.avail[l] = 0 /\ afu.cr[l] = 0 /\ drv.ret[l] = 0 BY <1>3, <1>4, <1>7, <1>14, <2>0
  <2>. QED BY <1>3, <1>4, <2>2, <2>3 DEF AfuCredit
<1>16. Wires BY <1>3, <1>7 DEF Wires, HostLines
<1>17. ASSUME NEW k \in DataLines
       PROVE  /\ afu.line[k] = 0 /\ drv.fifo[k] = <<>> /\ Queued(k) = 0 /\ engine.flits[k] = 0
              /\ \A i \in 0 .. 1 : DownAt(i, k).id = 0 /\ DownAt(i, k).n = 0
  <2>1. k \in HostLines BY DEF DataLines, HostLines
  <2>2. afu.line[k] = 0 /\ drv.fifo[k] = <<>> /\ engine.flits[k] = 0 BY <1>3, <1>4, <1>5, <1>7
  <2>3. Queued(k) = 0 BY <2>2 DEF Queued
  <2>4. ASSUME NEW i \in 0 .. 1 PROVE DownAt(i, k).id = 0 /\ DownAt(i, k).n = 0
    <3>1. i = 0 \/ i = 1 OBVIOUS
    <3>. QED BY <3>1, <2>1, <1>2, <1>3, <1>6, <1>7 DEF DownAt
  <2>. QED BY <2>2, <2>3, <2>4
<1>18. 0 .. Len(toDrv) + 1 = 0 .. 1 BY <1>6
<1>19. ASSUME NEW k \in DataLines PROVE DataUnderWay(k) /\ Fifo(k)
  <2>1. DataUnderWay(k)
    <3>1. 0 + 1 .. 0 = {} OBVIOUS
    <3>. QED BY <1>17, <1>18, <3>1 DEF DataUnderWay
  <2>2. Upto(0, 0) = <<>> BY DEF Upto
  <2>3. drv.rdCnt[k] = 0 /\ afu.want[k] = 0 BY <1>3, <1>4, <1>7
  <2>. QED BY <1>17, <2>1, <2>2, <2>3 DEF Fifo
<1>20. CmdData
  <2>1. "cmd" \in DataLines BY DEF DataLines
  <2>. QED BY <1>17, <1>18, <2>1 DEF CmdData
<1>21. /\ "cmd" \in HostLines /\ "cfg" \in HostLines /\ "resp" \in Lines /\ "rdata" \in Lines /\ "cfg" \in Lines
       /\ "ack" \in Returns
  BY DEF HostLines, Lines, AfuLines, Returns
<1>22. /\ sent["cmd"] = 0 /\ afu.got["cmd"] = 0 /\ sent["cfg"] = 0 /\ afu.got["cfg"] = 0
       /\ asent["resp"] = 0 /\ engine.got["resp"] = 0 /\ asent["rdata"] = 0 /\ engine.got["rdata"] = 0
       /\ asent["cfg"] = 0 /\ engine.got["cfg"] = 0 /\ afu.owed["cmd"] = 0 /\ drv.aret["cmd"] = 0
       /\ drv.out["resp"] = 0
  BY <1>3, <1>4, <1>5, <1>6, <1>7, <1>21
<1>23. CmdAccess BY <1>4, <1>5, <1>22 DEF CmdAccess, Bit
<1>24. RespOrder BY <1>6, <1>22 DEF RespOrder, CmdReturned
<1>25. CfgAccess BY <1>4, <1>5, <1>14, <1>21, <1>22 DEF CfgAccess, Bit
<1>. QED BY <1>1, <1>9, <1>10, <1>12, <1>13, <1>15, <1>16, <1>19, <1>20, <1>23, <1>24, <1>25 DEF IInv

\* A step that changes nothing.
LEMMA StutterStep == ASSUME IInv, UNCHANGED vars PROVE IInv'
<1>1. /\ Types /\ Grouped /\ Emptied /\ Booting /\ Told /\ Wires /\ DataParts /\ CmdAccess
      /\ RespOrder /\ CfgAccess /\ \A k \in DataLines : Fifo(k)
      /\ \A l \in HostLines : Downward(l) /\ HostCredit(l)
      /\ \A l \in Lines : Upward(l)
      /\ \A l \in AfuLines : AfuCredit(l)
  BY DEF IInv, DataParts
<1>2. UNCHANGED <<host, drv, toDrv, toHost, engine, afu, sent, asent, link>> BY DEF vars
<1>3. Types' BY <1>1, <1>2 DEF Types
<1>4. Grouped' BY <1>1, <1>2 DEF Grouped
<1>5. Emptied' BY <1>1, <1>2 DEF Emptied
<1>6. Booting' BY <1>1, <1>2 DEF Booting, Starting
<1>7. Told' BY <1>1, <1>2 DEF Told
<1>8. \A l \in HostLines : HostCredit(l)' BY <1>1, <1>2, HostOutSame DEF HostCredit
<1>9. \A l \in HostLines : Downward(l)' BY <1>1, <1>2, DownSame
<1>10. \A l \in Lines : Upward(l)' BY <1>1, <1>2, UpSame
<1>11. \A l \in AfuLines : AfuCredit(l)' BY <1>1, <1>2, AfuCreditSame
<1>12. Wires' /\ CmdAccess' BY <1>1, <1>2, WiresSame, CmdAccessSame
<1>13. DataParts' BY <1>1, <1>2, <1>3, DataOfIdle
<1>14. \A k \in DataLines : Fifo(k)' BY <1>1, <1>2, FifoSame
<1>15. CfgAccess' BY <1>1, <1>2, CfgAccessSame
<1>16. RespOrder' BY <1>1, <1>2, RespOrderSame
<1>. QED BY <1>3, <1>4, <1>5, <1>6, <1>7, <1>8, <1>9, <1>10, <1>11, <1>12, <1>13, <1>14, <1>15, <1>16
         DEF IInv, DataParts

\* Every step keeps the invariant.
LEMMA NextIInv == IInv /\ [Next]_vars => IInv'
<1>. SUFFICES ASSUME IInv, [Next]_vars PROVE IInv' OBVIOUS
<1>1. CASE HostSignal BY <1>1, SignalStep
<1>2. CASE HostGet BY <1>2, GetStep
<1>3. CASE HostShort \/ HostReenter \/ HostNext \/ DriverReenter BY <1>3, IdleStep
<1>4. CASE afu_tlx_read_initial_credits BY <1>4, ReadCreditsStep
<1>5. CASE HostHandle BY <1>5, HandleStep
<1>6. CASE SendResp \/ SendCmd \/ SendCfg BY <1>6, SendStep
<1>7. CASE DriverLow BY <1>7, LowStep
<1>8. CASE DriverHigh BY <1>8, HighStep
<1>9. CASE DriverShort BY <1>9, ShortStep
<1>10. CASE UNCHANGED vars BY <1>10, StutterStep
<1>. QED BY <1>1, <1>2, <1>3, <1>4, <1>5, <1>6, <1>7, <1>8, <1>9, <1>10 DEF Next, Host, Driver

-----------------------------------------------------------------------------
(***************************************************************************)
(* The theorems.                                                           *)
(***************************************************************************)
\* The invariant holds of every behaviour of the two sides and any AFU that keeps to
\* the rules.
THEOREM Invariant == Spec => []IInv
BY InitIInv, NextIInv, PTL DEF Spec

\* Every variable keeps its type; in particular the credit counters of ocse, eight bits
\* each (tlx_interface_t.h:303), never leave 0 to 255.
THEOREM TypeCorrect == Spec => []TypeOK
<1>1. IInv => TypeOK
  <2>. SUFFICES ASSUME IInv PROVE TypeOK OBVIOUS
  <2>1. Types /\ \A l \in HostLines : HostCredit(l) BY DEF IInv
  <2>2. host \in HostT /\ drv \in DrvT /\ afu \in AfuT /\ engine \in EngineT BY <2>1 DEF Types
  <2>3. ASSUME NEW l \in HostLines PROVE host.avail[l] \in 0 .. 255
    <3>1. HostOut(l) \in Nat /\ host.avail[l] \in Nat BY <2>1, HostOutNat
    <3>2. host.avail[l] + HostOut(l) = IF host.ready THEN AfuGrants[l] ELSE 0 BY <2>1 DEF HostCredit
    <3>3. AfuGrants[l] \in 1 .. 255 BY LinkAssumption
    <3>. DEFINE v == host.avail[l]
                w == HostOut(l)
                G == IF host.ready THEN AfuGrants[l] ELSE 0
    <3>4. G \in Nat /\ G <= 255 BY <3>3
    <3>5. v \in Nat /\ w \in Nat /\ v + w = G BY <3>1, <3>2
    <3>. HIDE DEF v, w, G
    <3>6. v \in 0 .. 255 BY <3>4, <3>5
    <3>. QED BY <3>6 DEF v
  <2>4. host.avail \in [HostLines -> Nat] BY <2>2, HostFields
  <2>5. host.avail \in [HostLines -> 0 .. 255] BY <2>3, <2>4
  <2>6. /\ host.pc \in HostPlaces /\ host.clock \in 0 .. 1 /\ host.out \in [HostLines -> Msgs]
        /\ host.in \in [Lines -> Nat] /\ host.cv \in BOOLEAN /\ host.ret \in [Returns -> 0 .. 1]
        /\ host.req \in BOOLEAN /\ host.ready \in BOOLEAN /\ host.rbp \in Rbps
    BY <2>2, HostFields
  <2>7. /\ drv.pc \in {"low", "high"} /\ drv.out \in [Lines -> Nat] /\ drv.in \in [HostLines -> Msgs]
        /\ drv.ret \in [Returns -> 0 .. 1] /\ drv.aret \in [HostLines -> 0 .. 1]
        /\ drv.avail \in [AfuLines -> Nat] /\ drv.clk \in [DataLines -> 0 .. 2]
        /\ drv.top \in [HostLines -> Nat] /\ drv.rdCnt \in [DataLines -> Nat]
        /\ drv.fifo \in [DataLines -> Seq(Nat)] /\ drv.rbp \in Rbps
        /\ drv.cv \in BOOLEAN /\ drv.req \in BOOLEAN /\ drv.offered \in BOOLEAN
        /\ drv.ready \in BOOLEAN /\ drv.ackPending \in BOOLEAN
    BY <2>2 DEF DrvT
  <2>8. /\ afu.cr \in [AfuLines -> Nat] /\ afu.owed \in [HostLines -> Nat] /\ afu.got \in [HostLines -> Nat]
        /\ afu.rbeats \in Nat /\ afu.beats \in Nat
    BY <2>2 DEF AfuT
  <2>9. engine.access \in Accesses /\ engine.left \in Nat /\ engine.todo \in Nat BY <2>2 DEF EngineT
  <2>. QED BY <2>1, <2>5, <2>6, <2>7, <2>8, <2>9 DEF TypeOK, Types, HostPlaces, Rbps, Accesses
<1>. QED BY <1>1, Invariant, PTL

\* Whatever ocse sends reaches the AFU once and in order, on every line.
THEOREM MessagesToAfu == Spec => []HostToAfu
<1>1. IInv => HostToAfu BY DEF IInv, HostToAfu, Downward, IdsDown, Wires
<1>. QED BY <1>1, Invariant, PTL

\* Whatever the AFU sends is read by ocse once and in order, on every line: no event is
\* overwritten before it is read, and no message is refused.
THEOREM MessagesToHost == Spec => []AfuToHost
<1>1. IInv => AfuToHost BY DEF IInv, AfuToHost, Upward, IdsUp
<1>. QED BY <1>1, Invariant, PTL

\* Every credit is somewhere, in both directions.
THEOREM CreditsCorrect == Spec => []CreditsKept
<1>1. IInv => CreditsKept
  <2>. SUFFICES ASSUME IInv PROVE HostCredits /\ AfuCredits BY DEF CreditsKept
  <2>1. Types /\ (\A l \in HostLines : HostCredit(l)) /\ (\A l \in AfuLines : AfuCredit(l)) BY DEF IInv
  <2>2. EndTypes BY <2>1, Ends
  <2>3. ASSUME host.ready, NEW l \in HostLines
        PROVE  host.avail[l] + Bit(host.out[l].id # 0) + NonZeros(IdsDown(l)) + Bit(drv.in[l].id # 0)
                 + afu.owed[l] + drv.aret[l] + NonZeros(RetsUp(l)) = AfuGrants[l]
    <3>. DEFINE v == host.avail[l]
                a == Bit(host.out[l].id # 0)
                b == NonZeros(IdsDown(l))
                c == Bit(drv.in[l].id # 0)
                d == afu.owed[l]
                e == drv.aret[l]
                f == NonZeros(RetsUp(l))
                G == AfuGrants[l]
    <3>1. a \in Nat /\ c \in Nat BY DEF Bit
    <3>2. b \in Nat /\ d \in Nat /\ e \in 0 .. 1 /\ f \in Nat /\ v \in Nat BY <2>2, Zenon DEF EndTypes
    <3>3. v + (a + b + c + d + e + f) = G BY <2>1, <2>3 DEF HostCredit, HostOut
    <3>. HIDE DEF v, a, b, c, d, e, f, G
    <3>4. v + a + b + c + d + e + f = G BY <3>1, <3>2, <3>3
    <3>. QED BY <3>4 DEF v, a, b, c, d, e, f, G
  <2>4. ASSUME drv.ready, NEW l \in AfuLines
        PROVE  /\ drv.avail[l] + Bit(drv.out[l] # 0) + NonZeros(IdsUp(l))
                    + Bit(l \in {"resp", "rdata"} /\ host.in[l] # 0) + host.ret[l] + NonZeros(RetsDown(l))
                  = HostGrants[l]
               /\ afu.known => afu.cr[l] + drv.ret[l] = drv.avail[l]
    <3>. DEFINE v == drv.avail[l]
                a == Bit(drv.out[l] # 0)
                b == NonZeros(IdsUp(l))
                c == Bit(l \in {"resp", "rdata"} /\ host.in[l] # 0)
                d == host.ret[l]
                e == NonZeros(RetsDown(l))
                G == HostGrants[l]
    <3>0. l \in Lines /\ l \in Returns BY DEF Lines, Returns
    <3>1. a \in Nat /\ c \in Nat BY DEF Bit
    <3>2. b \in Nat /\ d \in 0 .. 1 /\ e \in Nat /\ v \in Nat BY <2>2, <3>0, Zenon DEF EndTypes
    <3>3. v + (a + b + c + d + e) = G BY <2>1, <2>4 DEF AfuCredit, AfuOut
    <3>. HIDE DEF v, a, b, c, d, e, G
    <3>4. v + a + b + c + d + e = G BY <3>1, <3>2, <3>3
    <3>5. afu.known => afu.cr[l] + drv.ret[l] = drv.avail[l] BY <2>1 DEF AfuCredit
    <3>. QED BY <3>4, <3>5 DEF v, a, b, c, d, e, G
  <2>5. HostCredits BY <2>3, Zenon DEF HostCredits, IdsDown, RetsUp
  <2>6. AfuCredits BY <2>4, Zenon DEF AfuCredits, IdsUp, RetsDown
  <2>. QED BY <2>5, <2>6
<1>. QED BY <1>1, Invariant, PTL

\* The lines of data reach the AFU in order and without a gap, and the fifo is never
\* empty when a line is taken from it.
THEOREM DataCorrect == Spec => []DataInOrder
<1>1. IInv => DataInOrder
  <2>. SUFFICES ASSUME IInv, NEW k \in DataLines
                PROVE  /\ drv.fifo[k] = Upto(afu.line[k], afu.line[k] + Len(drv.fifo[k]))
                       /\ drv.rdCnt[k] + afu.want[k] = Len(drv.fifo[k])
                       /\ drv.in[k].n > 0 => drv.in[k].first = afu.line[k] + Len(drv.fifo[k]) + 1
    BY DEF DataInOrder
  <2>1. Types /\ DataUnderWay(k) /\ Fifo(k) BY DEF IInv
  <2>2. TrailFacts BY <2>1, Trails
  <2>. DEFINE m == Len(toDrv) + 1
              t == Trail(k)
              c == Queued(k)
              f == engine.flits[k]
  <2>3. /\ m \in Nat \ {0} /\ t \in [0 .. m -> Msgs] /\ c \in Nat /\ f \in Nat /\ Follow(t, m, c, f)
    BY <2>1, <2>2 DEF TrailFacts
  <2>4. t[0] = drv.in[k] BY <2>3 DEF Trail, DownAt
  <2>. HIDE DEF m, t, c, f
  <2>5. ASSUME t[0].n > 0 PROVE t[0].first = c + 1
    <3>1. 0 \in 0 .. m /\ \A i \in 0 .. m : t[i].first \in Nat /\ t[i].n \in Nat
      <4>1. \A i \in 0 .. m : t[i] \in Msgs BY <2>3
      <4>. QED BY <2>3, <4>1, MsgFields
    <3>2. c < t[0].first /\ t[0].first + t[0].n <= f + 1 BY <2>3, <2>5, <3>1 DEF Follow
    <3>3. c + 1 \in c + 1 .. f BY <2>3, <2>5, <3>1, <3>2
    <3>4. PICK i \in 0 .. m : t[i].first <= c + 1 /\ c + 1 < t[i].first + t[i].n BY <2>3, <3>3 DEF Follow
    <3>5. t[i].n > 0 BY <2>3, <3>1, <3>4
    <3>6. c < t[i].first BY <2>3, <3>5 DEF Follow
    <3>7. CASE i = 0 BY <3>7, <3>1, <3>4, <3>6, <2>3
    <3>8. CASE i # 0
      <4>1. 0 < i BY <3>8
      <4>2. t[0].first + t[0].n <= t[i].first BY <4>1, <2>3, <2>5, <3>1, <3>5 DEF Follow
      <4>. QED BY <4>2, <2>3, <2>5, <3>1, <3>2, <3>4
    <3>. QED BY <3>7, <3>8
  <2>6. drv.in[k].n > 0 => drv.in[k].first = Queued(k) + 1 BY <2>4, <2>5 DEF c
  <2>7. drv.fifo[k] = Upto(afu.line[k], Queued(k)) /\ drv.rdCnt[k] + afu.want[k] = Len(drv.fifo[k]) BY <2>1 DEF Fifo
  <2>. QED BY <2>6, <2>7, Zenon DEF Queued
<1>. QED BY <1>1, Invariant, PTL

=============================================================================
