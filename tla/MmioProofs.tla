----------------------------- MODULE MmioProofs -----------------------------
(***************************************************************************)
(* Proofs about Mmio, for any number of clients and accesses, whatever the *)
(* AFU answers (Answers), however applications leave (Leaves) and however  *)
(* many threads they use (Threads).                                        *)
(*                                                                         *)
(* ocse gives a response to the head of the list without looking at its    *)
(* tag.  That this is right rests on a count: the AFU has as many packets  *)
(* left to send as the head still waits for (Coming), so the head leaves   *)
(* the list no sooner than the AFU is done with it.  The invariant follows *)
(* a packet from the AFU's script (Wire) over the ports to the event, and  *)
(* the event through its states (Stages).                                  *)
(***************************************************************************)
EXTENDS Mmio, ListLemmas, FiniteSetTheorems

Packets == [resp : Resp, beat : Beats]

IsRead(e) == e.rnw /\ ~e.cfg

Size(e) == IF e.n = 0 THEN 1 ELSE e.n

\* The packets of s each bring a beat of event i; a response among them is not
\* one of the configuration.
BeatsOf(i, s) ==
  \A k \in DOMAIN s : s[k].beat.v /\ s[k].beat.id = i /\ ~s[k].resp.cfg

\* Packet p and then those of s are what event i waits for, to the last one.  A
\* read whose response comes first may be left without data (mem_rd_fail).
Coming(i, p, s) ==
  LET e == ev[i] IN
  /\ p \in Packets /\ s \in Seq(Packets)
  /\ p.beat.v => p.beat.id = i
  /\ \/ /\ e.st = "OCSE_PENDING" /\ ~IsRead(e) /\ Len(s) = 0
        /\ p.resp.v /\ p.resp.cfg = e.cfg /\ p.resp.rnw = e.rnw /\ ~p.beat.v
     \/ /\ e.st = "OCSE_PENDING" /\ IsRead(e) /\ BeatsOf(i, s)
        /\ p.resp.v /\ ~p.resp.cfg /\ _resp_dldp_is_legal(e.dl, p.resp.dl, p.resp.dp)
        /\ IF p.beat.v THEN Len(s) + 1 = Size(e) ELSE Len(s) \in {0, Size(e)}
     \/ /\ e.st = "OCSE_BUFFER" /\ IsRead(e) /\ BeatsOf(i, s)
        /\ p.beat.v /\ ~p.resp.cfg
        /\ Len(s) + 1 = Size(e) - e.recv

\* What the AFU still sends.
Script == IF jobs = <<>> THEN <<>> ELSE jobs[1].script

Quiescent == ~rport.v /\ ~dport.v

\* The command at the port or with the AFU is that of the head; the packet at the
\* response ports and the AFU's script are the answer to it.
Wire ==
  /\ Len(jobs) <= 1 /\ (port # Nil => jobs = <<>>)
  /\ port # Nil => list # <<>> /\ port = list[1] /\ ev[port].st = "OCSE_PENDING"
  /\ jobs # <<>> => list # <<>> /\ jobs[1].id = list[1] /\ Len(jobs[1].script) > 0
  /\ pc \in {"resp", "data"} => list # <<>>
  /\ rport.v => pc = "resp"
  /\ dport.v => pc \in {"resp", "data"}
  /\ Quiescent /\ jobs # <<>> => Coming(list[1], Head(Script), Tail(Script))
  /\ pc = "resp" /\ ~Quiescent => port = Nil /\ Coming(list[1], [resp |-> rport, beat |-> dport], Script)
  /\ pc = "data" /\ dport.v =>
       LET e == ev[list[1]] IN
       /\ e.st = "OCSE_BUFFER" /\ IsRead(e) /\ dport.id = list[1] /\ port = Nil
       /\ Script \in Seq(Packets) /\ BeatsOf(list[1], Script) /\ Len(Script) + 1 = Size(e) - e.recv

\* What the state of an event says of it.
Stages ==
  \A i \in Ids :
    LET e == ev[i] IN
    /\ e.st \in {"OCSE_IDLE", "FREE"} => e.runs = 0 /\ e.recv = 0
    /\ e.st = "OCSE_PENDING" => /\ e.recv = 0 /\ e.dl = Encoded(e.n)
                                /\ e.runs = IF port = i THEN 0 ELSE 1
    /\ e.st = "OCSE_BUFFER" => /\ e.runs = 1 /\ e.idx = e.recv /\ e.recv < Size(e)
                               /\ IsRead(e) /\ _resp_dldp_is_legal(e.dl, e.rdl, e.rdp)
    /\ e.st = "OCSE_DONE" => e.runs = 1

\* The list: no event twice, only the head is not idle, and it is done only
\* between the two handlers of a packet.
ListOK ==
  /\ IsInjective(list)
  /\ \A k \in DOMAIN list : k # 1 => ev[list[k]].st = "OCSE_IDLE"
  /\ list # <<>> => /\ ev[list[1]].st # "FREE"
                    /\ ev[list[1]].st = "OCSE_DONE" => pc = "data" /\ jobs = <<>>

\* Who points to an event is alone in it, and it is not free.
Pointers ==
  /\ boot.id # Nil => ev[boot.id].st # "FREE" /\ boot.done < Len(CfgOps)
  /\ \A c \in Ctx : client[c].acc # Nil =>
       /\ ev[client[c].acc].st # "FREE" /\ client[c].acc # boot.id
       /\ ev[client[c].acc].own = client[c].id /\ ~ev[client[c].acc].cfg
       /\ \A d \in Ctx : client[d].acc = client[c].acc => d = c

Credits ==
  LET with(k) == IF \/ port # Nil /\ ev[port].cfg = k
                    \/ jobs # <<>> /\ jobs[1].owed /\ ev[jobs[1].id].cfg = k
                 THEN 1 ELSE 0
  IN  credits.cmd + with(FALSE) = CmdCredits /\ credits.cfg + with(TRUE) = CfgCredits

\* The clock is not counted below zero.
Clocked == pc \in {"resp", "data", "send"} => ocl.idle > 0

AccessOf(e) == [t |-> "access", q |-> [mem |-> e.mem, rnw |-> e.rnw, n |-> e.n]]

\* An application waits for what it has asked for, for one request of each class;
\* x is its mmio_access and w the access there, which ocse has read.
Asked(a, x, w) ==
  /\ \A m \in a.wait, n \in a.wait : ClassOf(m) = ClassOf(n) => m = n
  /\ \A j \in DOMAIN a.out : a.out[j] \in a.wait
  /\ IsInjective(a.out)
  /\ x # Nil => w \in a.wait /\ \A j \in DOMAIN a.out : a.out[j] # w

Requests ==
  \A c \in Ctx : app[c].st = "up" =>
    Asked(app[c], client[c].acc, AccessOf(ev[client[c].acc]))

\* The inductive invariant.
IInv == TypeOK /\ Wire /\ Stages /\ ListOK /\ Pointers /\ Credits /\ Clocked /\ Requests

-----------------------------------------------------------------------------
(***************************************************************************)
(* Events.                                                                 *)
(***************************************************************************)
ReqT == [mem : BOOLEAN, rnw : BOOLEAN, n : {0, 1, 2, 4}]

\* The values that stand for nothing have the types of what they stand for.
LEMMA EventTypes == NoEvent \in Event /\ NoBeat \in Beats /\ NoResp \in Resp /\ ~NoBeat.v /\ ~NoResp.v
<1>1. NoBeat \in Beats /\ ~NoBeat.v BY DEF Beats, NoBeat
<1>2. NoResp \in Resp /\ ~NoResp.v BY DEF Resp, NoResp
<1>3. 0 \in 0 .. MaxOpens BY MmioAssumption DEF MmioAssumption
<1>4. [p \in Places |-> NoBeat] \in [Places -> Beats] BY <1>1
<1>5. NoEvent \in Event BY <1>3, <1>4 DEF NoEvent, Event, EvStates
<1>. QED BY <1>1, <1>2, <1>5

\* What _add_event puts into an event.
LEMMA NewEventType ==
  ASSUME NEW b \in BOOLEAN, NEW q \in ReqT, NEW o \in 0 .. MaxOpens
  PROVE  LET e == NewEvent(b, q, o) IN
         /\ e \in Event /\ e.st = "OCSE_IDLE" /\ e.cfg = b /\ e.own = o /\ e.runs = 0 /\ e.recv = 0
         /\ e.mem = q.mem /\ e.rnw = q.rnw /\ e.n = q.n /\ e.data = [p \in Places |-> NoBeat]
<1>1. NewEvent(b, q, o) \in Event BY EventTypes DEF NewEvent, Event, EvStates, ReqT
<1>2. /\ NoEvent.runs = 0 /\ NoEvent.recv = 0 /\ NoEvent.data = [p \in Places |-> NoBeat] BY DEF NoEvent
<1>. QED BY EventTypes, <1>1, <1>2 DEF NewEvent, Event

\* send_mmio: what it makes of the head.
LEMMA SentType ==
  ASSUME NEW e \in Event
  PROVE  LET f == Sent(e) IN
         /\ f \in Event /\ f.st = "OCSE_PENDING" /\ f.dl = Encoded(e.n)
         /\ f.cfg = e.cfg /\ f.own = e.own /\ f.runs = e.runs /\ f.recv = e.recv
         /\ f.mem = e.mem /\ f.rnw = e.rnw /\ f.n = e.n /\ f.data = e.data
<1>1. Encoded(e.n) \in 0 .. 3 BY DEF Event, Encoded
<1>2. Sent(e) \in Event BY <1>1 DEF Sent, Event, EvStates
<1>. QED BY <1>2 DEF Sent, Event

\* handle_ap_resp: what a response makes of the head.
LEMMA RespondedType ==
  ASSUME NEW e \in Event, rport \in Resp
  PROVE  LET f == Responded(e) IN
         /\ f \in Event /\ f.st = IF IsRead(e) THEN "OCSE_BUFFER" ELSE "OCSE_DONE"
         /\ f.cfg = e.cfg /\ f.own = e.own /\ f.runs = e.runs /\ f.recv = e.recv
         /\ f.mem = e.mem /\ f.rnw = e.rnw /\ f.n = e.n /\ f.data = e.data /\ f.dl = e.dl
         /\ f.fail = rport.fail
         /\ IsRead(e) => f.idx = 0 /\ f.rdl = rport.dl /\ f.rdp = rport.dp
<1>. DEFINE bad == rport.fail
<1>1. bad \in BOOLEAN /\ rport.dl \in 0 .. 3 /\ rport.dp \in 0 .. 3 BY DEF Resp
<1>. HIDE DEF bad
<1>2. CASE IsRead(e)
  <2>1. Responded(e) = [e EXCEPT !.fail = bad, !.rdl = rport.dl, !.rdp = rport.dp, !.idx = 0,
                                 !.st = "OCSE_BUFFER"]
    BY <1>2 DEF Responded, IsRead, bad
  <2>3. [e EXCEPT !.fail = bad, !.rdl = rport.dl, !.rdp = rport.dp] \in Event BY <1>1 DEF Event
  <2>4. \A g \in Event, z \in 0 .. 4 : [g EXCEPT !.idx = z, !.st = "OCSE_BUFFER"] \in Event
    BY DEF Event, EvStates
  <2>5. 0 \in 0 .. 4 OBVIOUS
  <2>2. Responded(e) \in Event BY <2>1, <2>3, <2>4, <2>5
  <2>. QED BY <1>2, <2>1, <2>2 DEF Event, bad
<1>3. CASE ~IsRead(e)
  <2>1. Responded(e) = [e EXCEPT !.fail = bad, !.st = "OCSE_DONE"]
    BY <1>3 DEF Responded, IsRead, bad
  <2>2. Responded(e) \in Event BY <1>1, <2>1 DEF Event, EvStates
  <2>. QED BY <1>3, <2>1, <2>2 DEF Event, bad
<1>. QED BY <1>2, <1>3

\* A legal response puts every beat inside the buffer.
LEMMA OffsetInside ==
  ASSUME NEW e \in Event, _resp_dldp_is_legal(e.dl, e.rdl, e.rdp), e.idx < 4
  PROVE  Offset(e) \in Places
<1>1. /\ e.dl \in {0, 1, 2, 3} /\ e.rdl \in 0 .. 3 /\ e.rdp \in 0 .. 3 /\ e.idx \in 0 .. 4 BY DEF Event
<1>2. e.rdl = 2 => e.rdp \in {0, 1}
  BY <1>1 DEF _resp_dldp_is_legal
<1>3. \/ Offset(e) = 0
      \/ Offset(e) = e.rdp
      \/ e.rdl = 2 /\ Offset(e) = e.rdp * 2 + e.idx
      \/ Offset(e) = e.idx
  BY DEF Offset
<1>4. e.rdl = 2 => e.rdp * 2 + e.idx \in 0 .. 5 BY <1>1, <1>2
<1>. QED BY <1>1, <1>3, <1>4 DEF Places

\* handle_ap_resp_data: what a beat makes of the head.
LEMMA GatheredType ==
  ASSUME NEW e \in Event, e.st = "OCSE_BUFFER", _resp_dldp_is_legal(e.dl, e.rdl, e.rdp),
         e.idx = e.recv, e.recv < Size(e), dport \in Beats
  PROVE  LET f == Gathered(e) IN
         /\ f \in Event
         /\ f.st = IF e.recv + 1 = Size(e) THEN "OCSE_DONE" ELSE "OCSE_BUFFER"
         /\ f.cfg = e.cfg /\ f.own = e.own /\ f.runs = e.runs
         /\ f.mem = e.mem /\ f.rnw = e.rnw /\ f.n = e.n /\ f.dl = e.dl /\ f.rdl = e.rdl /\ f.rdp = e.rdp
         /\ f.fail = e.fail /\ f.data = [e.data EXCEPT ![Offset(e)] = dport]
         /\ f.st = "OCSE_BUFFER" => f.recv = e.recv + 1 /\ f.idx = f.recv
<1>0. e.n \in {0, 1, 2, 4} /\ e.recv \in 0 .. 4 /\ e.data \in [Places -> Beats] BY DEF Event
<1>1. Offset(e) \in Places BY <1>0, OffsetInside DEF Size
<1>2. [e.data EXCEPT ![Offset(e)] = dport] \in [Places -> Beats] BY <1>0, <1>1
<1>. DEFINE d == [e.data EXCEPT ![Offset(e)] = dport]
<1>. HIDE DEF d
<1>3. CASE e.n = 0
  <2>1. Gathered(e) = [[e EXCEPT !.data = d] EXCEPT !.st = "OCSE_DONE"] BY <1>3 DEF Gathered, d
  <2>2. e.recv = 0 BY <1>0, <1>3 DEF Size
  <2>3. Gathered(e) \in Event BY <1>2, <2>1 DEF Event, EvStates, d
  <2>. QED BY <1>3, <2>1, <2>2, <2>3 DEF Event, Size, d
<1>4. CASE e.n # 0
  <2>0. e.recv + 1 \in 0 .. 4 /\ e.n = Size(e) BY <1>0, <1>4 DEF Size
  <2>1. Gathered(e) = [e EXCEPT !.data = d, !.idx = e.recv + 1, !.recv = e.recv + 1,
                                !.st = IF e.recv + 1 = e.n THEN "OCSE_DONE" ELSE "OCSE_BUFFER"]
    BY <1>4 DEF Gathered, d, Event
  <2>2. Gathered(e) \in Event BY <1>2, <2>0, <2>1 DEF Event, EvStates, d
  <2>. QED BY <2>0, <2>1, <2>2 DEF Event, d
<1>. QED BY <1>3, <1>4

-----------------------------------------------------------------------------
(***************************************************************************)
(* The AFU's scripts.                                                      *)
(***************************************************************************)
IsRespTo(r, e, dl, dp) ==
  r \in Resp /\ r.v /\ r.cfg = e.cfg /\ r.rnw = e.rnw /\ r.dl = dl /\ r.dp = dp

\* The response of the AFU to an access belongs to that access.
LEMMA RespToType ==
  ASSUME NEW e \in Event, NEW f \in BOOLEAN, NEW dl \in 0 .. 3, NEW dp \in 0 .. 3
  PROVE  IsRespTo(RespTo(e, f, dl, dp), e, dl, dp)
<1>1. e.cfg \in BOOLEAN /\ e.rnw \in BOOLEAN BY DEF Event
<1>. QED BY <1>1 DEF RespTo, Resp, IsRespTo

\* Part of the data of a read: a response and as many beats as it announces, the
\* first with the response unless that is early.
IsPart(s, i, r, first, dl, a) ==
  /\ s \in Seq(Packets) /\ Len(s) = Flits(dl) + a
  /\ s[1].resp = r /\ (s[1].beat.v <=> a = 0)
  /\ \A k \in DOMAIN s : k # 1 => s[k].beat.v /\ s[k].resp = NoResp
  /\ \A k \in DOMAIN s : s[k].beat.v => s[k].beat.id = i /\ s[k].beat.flit = first + k - 1 - a

\* A response with its beats is a script that delivers exactly these beats.
LEMMA PartShape ==
  ASSUME NEW i \in Ids, NEW e \in Event, NEW dl \in 1 .. 3, NEW dp \in 0 .. 1, NEW early \in BOOLEAN,
         dp * Flits(dl) + Flits(dl) <= 4
  PROVE  IsPart(Part(i, e, dl, dp, early), i, RespTo(e, FALSE, dl, dp), dp * Flits(dl), dl,
                IF early THEN 1 ELSE 0)
<1>. DEFINE n == Flits(dl)
            base == dp * n
            r == RespTo(e, FALSE, dl, dp)
            beat(k) == [v |-> TRUE, id |-> i, flit |-> base + k]
            rest(k) == [j \in 1 .. (n - k) |-> Packet(NoResp, beat(j + k - 1))]
<1>1. n \in {1, 2, 4} /\ base \in Nat /\ base + n <= 4 BY DEF Flits
<1>2. r \in Resp
  <2>1. FALSE \in BOOLEAN /\ dl \in 0 .. 3 /\ dp \in 0 .. 3 OBVIOUS
  <2>2. IsRespTo(RespTo(e, FALSE, dl, dp), e, dl, dp) BY Zenon, <2>1, RespToType
  <2>. QED BY <2>2 DEF IsRespTo
<1>. HIDE DEF n, base, r
<1>3. \A k \in 0 .. n - 1 : beat(k) \in Beats BY <1>1 DEF Beats
<1>4. \A b \in Beats, q \in Resp : Packet(q, b) \in Packets /\ Packet(q, b).resp = q /\ Packet(q, b).beat = b
  BY DEF Packet, Packets
<1>7. \A k \in 0 .. n - 1 : beat(k).v /\ beat(k).id = i /\ beat(k).flit = base + k OBVIOUS
<1>. HIDE DEF beat
<1>5. CASE early
  <2>. DEFINE u == <<Packet(r, NoBeat)>>
              t == rest(0)
  <2>1. t \in Seq(Packets) /\ Len(t) = n /\ \A k \in 1 .. n : t[k] = Packet(NoResp, beat(k - 1))
    BY <1>1, <1>3, <1>4, EventTypes
  <2>2. u \in Seq(Packets) /\ Len(u) = 1 /\ u[1] = Packet(r, NoBeat) BY <1>2, <1>4, EventTypes
  <2>3. Part(i, e, dl, dp, early) = u \o t BY <1>5 DEF Part, Only, n, base, r, beat
  <2>. HIDE DEF u, t
  <2>4. /\ u \o t \in Seq(Packets) /\ Len(u \o t) = n + 1 /\ (u \o t)[1] = Packet(r, NoBeat)
        /\ \A k \in 2 .. n + 1 : (u \o t)[k] = t[k - 1]
    BY <2>1, <1>1, <1>2, <1>4, EventTypes, ConsShape DEF u
  <2>5. \A k \in 2 .. n + 1 : (u \o t)[k] = Packet(NoResp, beat(k - 2)) /\ k - 2 \in 0 .. n - 1
    <3>. TAKE k \in 2 .. n + 1
    <3>1. k - 1 \in 1 .. n /\ (k - 1) - 1 = k - 2 /\ k - 2 \in 0 .. n - 1 BY <1>1
    <3>. QED BY <3>1, <2>1, <2>4
  <2>6. \A k \in 2 .. n + 1 : /\ (u \o t)[k].beat.v /\ (u \o t)[k].resp = NoResp
                              /\ (u \o t)[k].beat.id = i /\ (u \o t)[k].beat.flit = base + k - 2
    <3>. TAKE k \in 2 .. n + 1
    <3>0. (u \o t)[k] = Packet(NoResp, beat(k - 2)) /\ beat(k - 2) \in Beats BY <2>5, <1>3
    <3>1. (u \o t)[k].beat = beat(k - 2) /\ (u \o t)[k].resp = NoResp BY <3>0, <1>4, EventTypes
    <3>. QED BY <2>5, <3>1, <1>1, <1>7
  <2>7. (u \o t)[1].resp = r /\ ~(u \o t)[1].beat.v BY <2>4, <1>2, <1>4, EventTypes
  <2>8. DOMAIN (u \o t) = 1 .. n + 1 BY <2>4, <1>1
  <2>. DEFINE w == u \o t
  <2>9. /\ \A k \in DOMAIN w : k # 1 => w[k].beat.v /\ w[k].resp = NoResp
        /\ \A k \in DOMAIN w : w[k].beat.v => w[k].beat.id = i /\ w[k].beat.flit = base + k - 1 - 1
    <3>. SUFFICES ASSUME NEW k \in 1 .. n + 1
                  PROVE  /\ k # 1 => w[k].beat.v /\ w[k].resp = NoResp
                         /\ w[k].beat.v => w[k].beat.id = i /\ w[k].beat.flit = base + k - 1 - 1
      BY <2>8
    <3>1. CASE k = 1 BY <3>1, <2>7, <1>1
    <3>2. CASE k # 1
      <4>1. k \in 2 .. n + 1 /\ base + k - 2 = base + k - 1 - 1 BY <3>2, <1>1
      <4>2. w[k].beat.v /\ w[k].resp = NoResp /\ w[k].beat.id = i /\ w[k].beat.flit = base + k - 2
        BY <4>1, <2>6
      <4>. QED BY <4>1, <4>2
    <3>. QED BY <3>1, <3>2
  <2>10. w \in Seq(Packets) /\ Len(w) = n + 1 /\ w[1].resp = r /\ (w[1].beat.v <=> ~early)
    BY <1>5, <2>4, <2>7, <1>1
  <2>. HIDE DEF w
  <2>11. Part(i, e, dl, dp, early) = w BY <2>3 DEF w
  <2>12. IsPart(w, i, r, base, dl, 1) BY <1>5, <2>9, <2>10 DEF n, IsPart
  <2>. QED BY <1>5, <2>11, <2>12 DEF n, base, r
<1>6. CASE ~early
  <2>. DEFINE u == <<Packet(r, beat(0))>>
              t == rest(1)
  <2>1. t \in Seq(Packets) /\ Len(t) = n - 1 /\ \A k \in 1 .. n - 1 : t[k] = Packet(NoResp, beat(k))
    BY <1>1, <1>3, <1>4, EventTypes
  <2>2. u \in Seq(Packets) /\ Len(u) = 1 /\ u[1] = Packet(r, beat(0)) BY <1>1, <1>2, <1>3, <1>4, EventTypes
  <2>3. Part(i, e, dl, dp, early) = u \o t BY <1>6 DEF Part, Only, n, base, r, beat
  <2>. HIDE DEF u, t
  <2>4. /\ u \o t \in Seq(Packets) /\ Len(u \o t) = n /\ (u \o t)[1] = Packet(r, beat(0))
        /\ \A k \in 2 .. n : (u \o t)[k] = t[k - 1]
    <3>1. beat(0) \in Beats BY <1>1, <1>3
    <3>2. Packet(r, beat(0)) \in Packets BY <1>2, <1>4, <3>1
    <3>. QED BY <2>1, <1>1, <3>2, ConsShape DEF u
  <2>5. \A k \in 2 .. n : (u \o t)[k] = Packet(NoResp, beat(k - 1)) /\ k - 1 \in 0 .. n - 1
    BY <2>1, <2>4, <1>1
  <2>6. \A k \in 2 .. n : /\ (u \o t)[k].beat.v /\ (u \o t)[k].resp = NoResp
                          /\ (u \o t)[k].beat.id = i /\ (u \o t)[k].beat.flit = base + k - 1
    <3>. TAKE k \in 2 .. n
    <3>0. (u \o t)[k] = Packet(NoResp, beat(k - 1)) /\ beat(k - 1) \in Beats BY <2>5, <1>3
    <3>1. (u \o t)[k].beat = beat(k - 1) /\ (u \o t)[k].resp = NoResp BY <3>0, <1>4, EventTypes
    <3>. QED BY <2>5, <3>1, <1>1, <1>7
  <2>7. /\ (u \o t)[1].resp = r /\ (u \o t)[1].beat.v
        /\ (u \o t)[1].beat.id = i /\ (u \o t)[1].beat.flit = base
    BY <2>4, <1>1, <1>2, <1>3, <1>4, <1>7
  <2>8. DOMAIN (u \o t) = 1 .. n BY <2>4, <1>1
  <2>. DEFINE w == u \o t
  <2>9. /\ \A k \in DOMAIN w : k # 1 => w[k].beat.v /\ w[k].resp = NoResp
        /\ \A k \in DOMAIN w : w[k].beat.v => w[k].beat.id = i /\ w[k].beat.flit = base + k - 1 - 0
    <3>. SUFFICES ASSUME NEW k \in 1 .. n
                  PROVE  /\ k # 1 => w[k].beat.v /\ w[k].resp = NoResp
                         /\ w[k].beat.v => w[k].beat.id = i /\ w[k].beat.flit = base + k - 1 - 0
      BY <2>8
    <3>1. CASE k = 1 BY <3>1, <2>7, <1>1
    <3>2. CASE k # 1
      <4>1. k \in 2 .. n /\ base + k - 1 = base + k - 1 - 0 BY <3>2, <1>1
      <4>2. w[k].beat.v /\ w[k].resp = NoResp /\ w[k].beat.id = i /\ w[k].beat.flit = base + k - 1
        BY <4>1, <2>6
      <4>. QED BY <4>1, <4>2
    <3>. QED BY <3>1, <3>2
  <2>10. w \in Seq(Packets) /\ Len(w) = n + 0 /\ w[1].resp = r /\ (w[1].beat.v <=> ~early)
    BY <1>6, <2>4, <2>7, <1>1
  <2>. HIDE DEF w
  <2>11. Part(i, e, dl, dp, early) = w BY <2>3 DEF w
  <2>12. IsPart(w, i, r, base, dl, 0) BY <1>6, <2>9, <2>10 DEF n, IsPart
  <2>. QED BY <1>6, <2>11, <2>12 DEF n, base, r
<1>. QED BY <1>5, <1>6

\* What is left of a script when its first packet is sent.
LEMMA TailShape ==
  ASSUME NEW S, NEW s \in Seq(S), Len(s) > 0
  PROVE  /\ Head(s) = s[1] /\ Head(s) \in S /\ Tail(s) \in Seq(S) /\ Len(Tail(s)) = Len(s) - 1
         /\ \A k \in DOMAIN Tail(s) : k + 1 \in DOMAIN s /\ Tail(s)[k] = s[k + 1]
<1>1. s # <<>> OBVIOUS
<1>2. Tail(s) \in Seq(S) /\ Len(Tail(s)) = Len(s) - 1 /\ Head(s) = s[1] BY <1>1
<1>3. \A k \in 1 .. Len(s) - 1 : Tail(s)[k] = s[k + 1] BY <1>1
<1>. QED BY <1>1, <1>2, <1>3

\* A script of a read that comes in one piece.
WholeDl(e) == IF e.dl = 0 THEN 1 ELSE e.dl

InPlace(e, s) == \A k \in DOMAIN s : s[k].beat.v => s[k].beat.flit = Size(e) - Len(s) + k - 1

\* A script that begins with the response to a read brings as many beats as the read waits for.
LEMMA ReadScript ==
  ASSUME NEW i \in Ids, NEW s \in Seq(Packets), Len(s) > 0,
         ev[i].st = "OCSE_PENDING", IsRead(ev[i]), Size(ev[i]) \in Nat,
         s[1].resp.v, ~s[1].resp.cfg, _resp_dldp_is_legal(ev[i].dl, s[1].resp.dl, s[1].resp.dp),
         \A k \in DOMAIN s : s[k].beat.v => s[k].beat.id = i,
         \A k \in DOMAIN s : k # 1 => s[k].beat.v /\ ~s[k].resp.cfg,
         IF s[1].beat.v THEN Len(s) = Size(ev[i]) ELSE Len(s) \in {1, Size(ev[i]) + 1}
  PROVE  Coming(i, Head(s), Tail(s))
<1>1. /\ Head(s) = s[1] /\ Head(s) \in Packets /\ Tail(s) \in Seq(Packets) /\ Len(Tail(s)) = Len(s) - 1
      /\ \A k \in DOMAIN Tail(s) : k + 1 \in DOMAIN s /\ Tail(s)[k] = s[k + 1]
  BY TailShape
<1>2. BeatsOf(i, Tail(s))
  <2>. SUFFICES ASSUME NEW k \in DOMAIN Tail(s)
                PROVE  Tail(s)[k].beat.v /\ Tail(s)[k].beat.id = i /\ ~Tail(s)[k].resp.cfg
    BY DEF BeatsOf
  <2>1. k + 1 # 1 BY <1>1
  <2>. QED BY <2>1, <1>1
<1>3. 1 \in DOMAIN s OBVIOUS
<1>4. IF s[1].beat.v THEN Len(Tail(s)) + 1 = Size(ev[i]) ELSE Len(Tail(s)) \in {0, Size(ev[i])} BY <1>1
<1>. HIDE DEF IsRead, Size, _resp_dldp_is_legal
<1>. QED BY <1>1, <1>2, <1>3, <1>4 DEF Coming

\* Whatever script the AFU follows, it is an answer to the command.
LEMMA ScriptsFit ==
  ASSUME NEW i \in Ids, ev[i] \in Event, ev[i].st = "OCSE_PENDING", ev[i].dl = Encoded(ev[i].n),
         NEW s \in Scripts(i)
  PROVE  /\ s \in Seq(Packets) /\ Len(s) > 0 /\ Coming(i, Head(s), Tail(s))
         /\ IsRead(ev[i]) /\ "split" \notin Answers =>
              InPlace(ev[i], s) /\ s[1].resp.dl = WholeDl(ev[i]) /\ s[1].resp.dp = 0
<1>. DEFINE e == ev[i]
            n == Size(e)
            w == WholeDl(e)
<1>1. /\ e \in Event /\ e.n \in {0, 1, 2, 4} /\ e.dl \in 0 .. 3 /\ n \in {1, 2, 4} /\ w \in 1 .. 3
      /\ Flits(w) = n /\ _resp_dldp_is_legal(e.dl, w, 0)
  BY DEF Event, Encoded, Size, WholeDl, Flits, _resp_dldp_is_legal
<1>2. e.dl >= 2 => /\ e.dl - 1 \in {1, 2} /\ n = 2 * Flits(e.dl - 1) /\ Flits(e.dl - 1) \in {1, 2}
                   /\ \A d \in {0, 1} : _resp_dldp_is_legal(e.dl, e.dl - 1, d)
  BY DEF Event, Encoded, Size, Flits, _resp_dldp_is_legal
<1>3. \A r \in Resp : /\ Only(r) \in Seq(Packets) /\ Len(Only(r)) = 1 /\ DOMAIN Only(r) = {1}
                      /\ Only(r)[1].resp = r /\ ~Only(r)[1].beat.v
  <2>. TAKE r \in Resp
  <2>1. Packet(r, NoBeat) \in Packets /\ Packet(r, NoBeat).resp = r /\ ~Packet(r, NoBeat).beat.v
    BY EventTypes DEF Packet, Packets
  <2>. QED BY <2>1 DEF Only
<1>. HIDE DEF n, w
<1>4. CASE ~IsRead(e)
  <2>1. PICK f \in BOOLEAN : s = Only(RespTo(e, f, 0, 0)) BY <1>4 DEF Scripts, IsRead
  <2>. DEFINE r == RespTo(e, f, 0, 0)
  <2>2. r \in Resp /\ r.v /\ r.cfg = e.cfg /\ r.rnw = e.rnw
    <3>1. 0 \in 0 .. 3 OBVIOUS
    <3>2. IsRespTo(RespTo(e, f, 0, 0), e, 0, 0) BY Zenon, <3>1, <1>1, RespToType
    <3>. QED BY <3>2 DEF IsRespTo
  <2>. HIDE DEF r
  <2>3. s \in Seq(Packets) /\ Len(s) = 1 /\ s[1].resp = r /\ ~s[1].beat.v BY <1>3, <2>1, <2>2 DEF r
  <2>4. Head(s) = s[1] /\ Head(s) \in Packets /\ Tail(s) \in Seq(Packets) /\ Len(Tail(s)) = 0
    <3>1. Len(s) > 0 BY <2>3
    <3>2. /\ Head(s) = s[1] /\ Head(s) \in Packets /\ Tail(s) \in Seq(Packets) /\ Len(Tail(s)) = Len(s) - 1
      BY Zenon, <2>3, <3>1, TailShape
    <3>. QED BY <2>3, <3>2
  <2>5. Coming(i, Head(s), Tail(s)) BY <1>4, <2>2, <2>3, <2>4 DEF Coming
  <2>. QED BY <1>4, <2>3, <2>5
<1>5. CASE IsRead(e)
  <2>0. e.rnw /\ ~e.cfg BY <1>5 DEF IsRead
  <2>1. CASE s \in Whole(i, e)
    <3>1. PICK early \in BOOLEAN : s = Part(i, e, w, 0, early) BY <2>1 DEF Whole, w, WholeDl
    <3>2. 0 \in 0 .. 1 /\ 0 * Flits(w) + Flits(w) <= 4 /\ w \in 0 .. 3 /\ 0 \in 0 .. 3 BY <1>1
    <3>. DEFINE a == IF early THEN 1 ELSE 0
    <3>a. IsPart(Part(i, e, w, 0, early), i, RespTo(e, FALSE, w, 0), 0 * Flits(w), w, a)
      BY Zenon, <1>1, <3>2, PartShape
    <3>3. /\ s \in Seq(Packets) /\ Len(s) = Flits(w) + a
          /\ s[1].resp = RespTo(e, FALSE, w, 0) /\ (s[1].beat.v <=> ~early)
          /\ \A k \in DOMAIN s : k # 1 => s[k].beat.v /\ s[k].resp = NoResp
          /\ \A k \in DOMAIN s : s[k].beat.v =>
               s[k].beat.id = i /\ s[k].beat.flit = 0 * Flits(w) + k - 1 - a
      <4>1. a = 0 <=> ~early OBVIOUS
      <4>. HIDE DEF a
      <4>. QED BY <3>1, <3>a, <4>1 DEF IsPart
    <3>4. s[1].resp.v /\ s[1].resp.cfg = e.cfg /\ s[1].resp.dl = w /\ s[1].resp.dp = 0
      <4>1. IsRespTo(RespTo(e, FALSE, w, 0), e, w, 0) BY Zenon, <1>1, <3>2, RespToType
      <4>. QED BY <3>3, <4>1 DEF IsRespTo
    <3>5. Len(s) = n + a /\ Len(s) > 0 BY <1>1, <3>3
    <3>6. Coming(i, Head(s), Tail(s))
      <4>1. \A k \in DOMAIN s : k # 1 => s[k].beat.v /\ ~s[k].resp.cfg BY <3>3 DEF NoResp
      <4>2. IF s[1].beat.v THEN Len(s) = n ELSE Len(s) \in {1, n + 1} BY <1>1, <3>3, <3>5
      <4>3. /\ s[1].resp.v /\ ~s[1].resp.cfg /\ n \in Nat
            /\ _resp_dldp_is_legal(e.dl, s[1].resp.dl, s[1].resp.dp)
        BY <1>1, <2>0, <3>4
      <4>4. \A k \in DOMAIN s : s[k].beat.v => s[k].beat.id = i BY <3>3
      <4>. QED BY Zenon, <1>5, <3>3, <3>5, <4>1, <4>2, <4>3, <4>4, ReadScript DEF n
    <3>7. InPlace(e, s)
      <4>. SUFFICES ASSUME NEW k \in DOMAIN s, s[k].beat.v PROVE s[k].beat.flit = n - Len(s) + k - 1
        BY DEF InPlace, n
      <4>1. s[k].beat.flit = 0 * Flits(w) + k - 1 - a /\ k \in Int BY <3>3
      <4>. QED BY <4>1, <3>5, <1>1
    <3>. QED BY <3>3, <3>4, <3>5, <3>6, <3>7 DEF w
  <2>2. CASE "split" \in Answers /\ e.dl >= 2 /\ s \in Halves(i, e)
    <3>. DEFINE h == e.dl - 1
                m == Flits(h)
    <3>1. PICK d \in {0, 1} : s = Part(i, e, h, d, FALSE) \o Part(i, e, h, 1 - d, FALSE)
      BY <2>2 DEF Halves
    <3>2. /\ h \in 1 .. 3 /\ m \in {1, 2} /\ n = 2 * m /\ d \in 0 .. 1 /\ 1 - d \in 0 .. 1
          /\ d * m + m <= 4 /\ (1 - d) * m + m <= 4 /\ _resp_dldp_is_legal(e.dl, h, d)
          /\ h \in 0 .. 3 /\ d \in 0 .. 3 /\ 1 - d \in 0 .. 3
      BY <1>2, <2>2
    <3>. HIDE DEF h, m
    <3>. DEFINE A == Part(i, e, h, d, FALSE)
                B == Part(i, e, h, 1 - d, FALSE)
    <3>3. /\ A \in Seq(Packets) /\ Len(A) = m /\ A[1].resp = RespTo(e, FALSE, h, d) /\ A[1].beat.v
          /\ \A k \in DOMAIN A : k # 1 => A[k].beat.v /\ A[k].resp = NoResp
          /\ \A k \in DOMAIN A : A[k].beat.v => A[k].beat.id = i
      <4>1. h \in 1 .. 3 /\ d \in 0 .. 1 /\ (d) * Flits(h) + Flits(h) <= 4 /\ FALSE \in BOOLEAN
        BY <3>2 DEF m
      <4>2. IsPart(A, i, RespTo(e, FALSE, h, d), (d) * Flits(h), h, IF FALSE THEN 1 ELSE 0)
        BY Zenon, <1>1, <4>1, PartShape
      <4>3. Flits(h) + 0 = m BY <3>2 DEF m
      <4>. QED BY <4>2, <4>3 DEF IsPart
    <3>4. /\ B \in Seq(Packets) /\ Len(B) = m /\ B[1].resp = RespTo(e, FALSE, h, 1 - d) /\ B[1].beat.v
          /\ \A k \in DOMAIN B : k # 1 => B[k].beat.v /\ B[k].resp = NoResp
          /\ \A k \in DOMAIN B : B[k].beat.v => B[k].beat.id = i
      <4>1. h \in 1 .. 3 /\ 1 - d \in 0 .. 1 /\ (1 - d) * Flits(h) + Flits(h) <= 4 /\ FALSE \in BOOLEAN
        BY <3>2 DEF m
      <4>2. IsPart(B, i, RespTo(e, FALSE, h, 1 - d), (1 - d) * Flits(h), h, IF FALSE THEN 1 ELSE 0)
        BY Zenon, <1>1, <4>1, PartShape
      <4>3. Flits(h) + 0 = m BY <3>2 DEF m
      <4>. QED BY <4>2, <4>3 DEF IsPart
    <3>5. /\ A[1].resp.v /\ A[1].resp.cfg = e.cfg /\ A[1].resp.dl = h /\ A[1].resp.dp = d
          /\ B[1].resp.cfg = e.cfg
      <4>1. IsRespTo(RespTo(e, FALSE, h, d), e, h, d) BY Zenon, <1>1, <3>2, RespToType
      <4>2. IsRespTo(RespTo(e, FALSE, h, 1 - d), e, h, 1 - d) BY Zenon, <1>1, <3>2, RespToType
      <4>. QED BY <3>3, <3>4, <4>1, <4>2 DEF IsRespTo
    <3>. HIDE DEF A, B
    <3>6. \A k \in DOMAIN A : A[k].beat.v /\ A[k].beat.id = i /\ ~A[k].resp.cfg
      <4>1. ~NoResp.cfg BY DEF NoResp
      <4>. QED BY <2>0, <3>3, <3>5, <4>1
    <3>7. \A k \in DOMAIN B : B[k].beat.v /\ B[k].beat.id = i /\ ~B[k].resp.cfg
      <4>1. ~NoResp.cfg BY DEF NoResp
      <4>. QED BY <2>0, <3>4, <3>5, <4>1
    <3>8. /\ s \in Seq(Packets) /\ Len(s) = 2 * m /\ s[1] = A[1]
          /\ \A k \in DOMAIN s : \/ k \in DOMAIN A /\ s[k] = A[k]
                                 \/ k - m \in DOMAIN B /\ s[k] = B[k - m]
      <4>1. s = A \o B BY <3>1 DEF A, B
      <4>. QED BY <4>1, <3>2, <3>3, <3>4
    <3>9. \A k \in DOMAIN s : s[k].beat.v /\ s[k].beat.id = i /\ ~s[k].resp.cfg BY <3>6, <3>7, <3>8
    <3>10. Coming(i, Head(s), Tail(s))
      <4>1. 1 \in DOMAIN s /\ Len(s) > 0 /\ Len(s) = n BY <3>2, <3>8
      <4>2. s[1].resp.v /\ ~s[1].resp.cfg /\ _resp_dldp_is_legal(e.dl, s[1].resp.dl, s[1].resp.dp)
        BY <2>0, <3>2, <3>5, <3>8
      <4>. QED BY <1>1, <1>5, <3>8, <3>9, <4>1, <4>2, ReadScript DEF n
    <3>. QED BY <2>2, <3>2, <3>8, <3>10
  <2>3. CASE s = Only(RespTo(e, TRUE, w, 0))
    <3>. DEFINE r == RespTo(e, TRUE, w, 0)
    <3>1. r \in Resp /\ r.v /\ r.cfg = e.cfg /\ r.dl = w /\ r.dp = 0
      <4>1. w \in 0 .. 3 /\ 0 \in 0 .. 3 BY <1>1
      <4>2. IsRespTo(RespTo(e, TRUE, w, 0), e, w, 0) BY Zenon, <4>1, <1>1, RespToType
      <4>. QED BY <4>2 DEF IsRespTo
    <3>. HIDE DEF r
    <3>2. s \in Seq(Packets) /\ Len(s) = 1 /\ DOMAIN s = {1} /\ s[1].resp = r /\ ~s[1].beat.v
      BY <1>3, <2>3, <3>1 DEF r
    <3>3. Coming(i, Head(s), Tail(s)) BY <1>1, <1>5, <2>0, <3>1, <3>2, ReadScript DEF n
    <3>4. InPlace(e, s) BY <3>2 DEF InPlace
    <3>. QED BY <3>1, <3>2, <3>3, <3>4 DEF w
  <2>. QED BY <2>0, <2>1, <2>2, <2>3 DEF Scripts, w, WholeDl
<1>. QED BY <1>4, <1>5

-----------------------------------------------------------------------------
(***************************************************************************)
(* What most steps share.                                                  *)
(***************************************************************************)
\* A step that changes an event, but not what it was made for, leaves those who
\* point to it with what they had.
LEMMA OwnersKept ==
  ASSUME IInv, NEW i \in Ids, NEW f \in Event, ev' = [ev EXCEPT ![i] = f], f.st # "FREE",
         f.own = ev[i].own, f.cfg = ev[i].cfg, f.mem = ev[i].mem, f.rnw = ev[i].rnw, f.n = ev[i].n,
         client' = client, boot' = boot, app' = app
  PROVE  ev' \in [Ids -> Event] /\ Pointers' /\ Requests'
<1>. TypeOK /\ Pointers /\ Requests BY DEF IInv
<1>1. ev' \in [Ids -> Event] /\ \A k \in Ids : ev'[k] = IF k = i THEN f ELSE ev[k] BY DEF TypeOK
<1>2. \A k \in Ids : /\ ev'[k].own = ev[k].own /\ ev'[k].cfg = ev[k].cfg
                     /\ (ev[k].st # "FREE" => ev'[k].st # "FREE")
                     /\ AccessOf(ev'[k]) = AccessOf(ev[k])
  BY <1>1 DEF AccessOf
<1>3. /\ boot.id \in Ids \cup {Nil} /\ \A c \in Ctx : client[c].acc \in Ids \cup {Nil}
  BY DEF TypeOK, Client
<1>4. Pointers' BY <1>2, <1>3 DEF Pointers
<1>5. Requests'
  <2>. SUFFICES ASSUME NEW c \in Ctx, app[c].st = "up"
                PROVE  Asked(app[c], client[c].acc, AccessOf(ev'[client[c].acc]))
    BY DEF Requests
  <2>1. Asked(app[c], client[c].acc, AccessOf(ev[client[c].acc])) BY DEF Requests
  <2>2. CASE client[c].acc = Nil BY Zenon, <2>1, <2>2 DEF Asked
  <2>3. CASE client[c].acc # Nil
    <3>1. AccessOf(ev'[client[c].acc]) = AccessOf(ev[client[c].acc]) BY <1>2, <1>3, <2>3
    <3>. QED BY <2>1, <3>1
  <2>. QED BY <2>2, <2>3
<1>. QED BY <1>1, <1>4, <1>5

\* The AFU has one job, or none.
LEMMA JobsShape ==
  ASSUME IInv, jobs # <<>>
  PROVE  /\ jobs[1] \in Jobs /\ Head(jobs) = jobs[1] /\ Tail(jobs) = <<>> /\ Script = jobs[1].script
         /\ Script \in Seq(Packets) /\ Len(Script) > 0 /\ port = Nil
         /\ list # <<>> /\ jobs[1].id = list[1] /\ list[1] \in Ids
<1>. TypeOK /\ Wire BY DEF IInv
<1>0. jobs \in Seq(Jobs) /\ Len(jobs) <= 1 BY DEF TypeOK, Wire
<1>1. jobs \in Seq(Jobs) /\ Len(jobs) = 1
  <2>1. Len(jobs) # 0 BY <1>0, EmptySeq, Zenon
  <2>2. Len(jobs) \in Nat BY <1>0, LenProperties, Zenon
  <2>0. Len(jobs) <= 1 BY <1>0
  <2>. DEFINE n == Len(jobs)
  <2>3. n \in Nat /\ n # 0 /\ n <= 1 BY <2>0, <2>1, <2>2
  <2>. HIDE DEF n
  <2>4. n = 1 BY <2>3
  <2>. QED BY <1>0, <2>4 DEF n
<1>2. jobs[1] \in Jobs /\ Head(jobs) = jobs[1] BY <1>1
<1>3. Tail(jobs) = <<>>
  <2>1. Tail(jobs) \in Seq(Jobs) /\ Len(Tail(jobs)) = 0 BY <1>1
  <2>. QED BY <2>1, EmptySeq, Zenon
<1>4. jobs[1].script \in Seq(Packets) BY <1>2 DEF Jobs, Packets
<1>5. list # <<>> /\ jobs[1].id = list[1] /\ list[1] \in Ids BY DEF TypeOK, Wire
<1>. QED BY <1>2, <1>3, <1>4, <1>5 DEF Wire, Script

\* Nothing happens to the list, the events, the ports and the AFU, and the ocl
\* thread is not between the clock and send_mmio.
LEMMA AfuKept ==
  ASSUME IInv, UNCHANGED <<list, ev, port, rport, dport, credits, jobs>>,
         pc \notin {"resp", "data"}, pc' \notin {"resp", "data"}
  PROVE  Wire' /\ Stages' /\ ListOK' /\ Credits'
<1>. Wire /\ Stages /\ ListOK /\ Credits BY DEF IInv
<1>1. Wire' BY DEF Wire, Quiescent, Script, Coming
<1>2. Stages' BY DEF Stages
<1>3. ListOK' BY DEF ListOK
<1>4. Credits' BY DEF Credits
<1>. QED BY <1>1, <1>2, <1>3, <1>4

OclT == [st : {"OCSE_DESC", "OCSE_IDLE", "OCSE_RUNNING"}, attached : Int,
         idle : 0 .. IdleCycles, ready : BOOLEAN]

\* There is a first slot.
LEMMA FirstSlot == 0 \in Ctx
BY MmioAssumption DEF MmioAssumption, Ctx

-----------------------------------------------------------------------------
(***************************************************************************)
(* The clock.                                                              *)
(***************************************************************************)
\* The AFU takes the command that ocse drives.
LEMMA ClockTakes ==
  ASSUME IInv, NEW say \in BOOLEAN, NEW cr \in BOOLEAN, Clock(say, cr), port # Nil
  PROVE  Wire' /\ Stages' /\ ListOK' /\ Pointers' /\ Credits' /\ Requests'
         /\ ev' \in [Ids -> Event] /\ jobs' \in Seq(Jobs) /\ credits' = credits
         /\ rport' \in Resp /\ dport' \in Beats /\ pc' = "resp"
<1>. TypeOK /\ Wire /\ Stages /\ ListOK /\ Credits BY DEF IInv
<1>1. /\ jobs = <<>> /\ list # <<>> /\ port = list[1] /\ port \in Ids /\ ev[port].st = "OCSE_PENDING"
      /\ ev[port] \in Event /\ ev[port].runs = 0 /\ ev[port].recv = 0 /\ ev[port].dl = Encoded(ev[port].n)
  BY DEF Wire, Stages, TypeOK
<1>2. ~say /\ ~cr BY <1>1 DEF Clock, CanSay
<1>3. /\ pc = "clock" /\ pc' = "resp" /\ port' = Nil /\ credits' = credits
      /\ UNCHANGED <<list, boot, client, app>>
  BY <1>1, <1>2 DEF Clock, Returned
<1>4. rport' \in Resp /\ dport' \in Beats /\ ~rport'.v /\ ~dport'.v
  BY <1>2, <1>3, EventTypes DEF Clock, Wire, TypeOK
<1>. DEFINE f == [ev[port] EXCEPT !.runs = 1]
<1>5. /\ f \in Event /\ f.runs = 1 /\ f.st = "OCSE_PENDING" /\ f.recv = 0 /\ f.dl = Encoded(f.n)
      /\ f.own = ev[port].own /\ f.cfg = ev[port].cfg /\ f.mem = ev[port].mem
      /\ f.rnw = ev[port].rnw /\ f.n = ev[port].n /\ f.dl = ev[port].dl
  BY <1>1 DEF Event
<1>6. ev' = [ev EXCEPT ![port] = f] BY <1>1 DEF Clock
<1>. HIDE DEF f
<1>7. ev' \in [Ids -> Event] /\ Pointers' /\ Requests' BY <1>1, <1>3, <1>5, <1>6, OwnersKept
<1>8. \A k \in Ids : ev'[k] = IF k = port THEN f ELSE ev[k] BY <1>6 DEF TypeOK
<1>9. PICK sc \in Scripts(port) : jobs' = <<[id |-> port, script |-> sc, owed |-> TRUE]>>
  <2>1. PICK t \in Taken : jobs' = Remaining(say, cr) \o t BY DEF Clock
  <2>2. PICK sc \in Scripts(port) : t = <<[id |-> port, script |-> sc, owed |-> TRUE]>>
    BY <1>1, <2>1 DEF Taken
  <2>3. Remaining(say, cr) = <<>> BY <1>1 DEF Remaining
  <2>4. \A x : <<>> \o <<x>> = <<x>> OBVIOUS
  <2>5. jobs' = <<[id |-> port, script |-> sc, owed |-> TRUE]>> BY <2>1, <2>2, <2>3, <2>4, Zenon
  <2>. QED BY <2>5
<1>10. sc \in Seq(Packets) /\ Len(sc) > 0 /\ Coming(port, Head(sc), Tail(sc)) BY <1>1, ScriptsFit
<1>. DEFINE j == [id |-> port, script |-> sc, owed |-> TRUE]
<1>11. j \in Jobs /\ j.id = port /\ j.script = sc /\ j.owed BY <1>1, <1>10 DEF Jobs, Packets
<1>. HIDE DEF j
<1>12. jobs' \in Seq(Jobs) /\ Len(jobs') = 1 /\ jobs'[1] = j /\ jobs' # <<>> BY <1>9, <1>11 DEF j
<1>13. Script' = sc BY <1>11, <1>12 DEF Script
<1>14. Coming(list[1], Head(sc), Tail(sc))'
  <2>1. /\ ev'[port].st = ev[port].st /\ ev'[port].cfg = ev[port].cfg /\ ev'[port].rnw = ev[port].rnw
        /\ ev'[port].n = ev[port].n /\ ev'[port].dl = ev[port].dl /\ ev'[port].recv = ev[port].recv
    BY <1>1, <1>5, <1>8
  <2>2. list'[1] = port BY <1>1, <1>3
  <2>. QED BY Zenon, <1>10, <2>1, <2>2 DEF Coming, BeatsOf, IsRead, Size
<1>15. Wire'
  <2>1. Len(jobs') <= 1 /\ list' # <<>> /\ jobs'[1].id = list'[1] /\ Len(jobs'[1].script) > 0
    BY <1>1, <1>3, <1>10, <1>11, <1>12
  <2>2. Coming(list[1], Head(Script), Tail(Script))'
    BY Zenon, <1>13, <1>14
  <2>. QED BY Zenon, <1>3, <1>4, <2>1, <2>2 DEF Wire, Quiescent
<1>16. Stages'
  <2>. SUFFICES ASSUME NEW i \in Ids
                PROVE  LET e == ev'[i] IN
                  /\ e.st \in {"OCSE_IDLE", "FREE"} => e.runs = 0 /\ e.recv = 0
                  /\ e.st = "OCSE_PENDING" => e.recv = 0 /\ e.dl = Encoded(e.n) /\ e.runs = 1
                  /\ e.st = "OCSE_BUFFER" => /\ e.runs = 1 /\ e.idx = e.recv /\ e.recv < Size(e)
                                             /\ IsRead(e) /\ _resp_dldp_is_legal(e.dl, e.rdl, e.rdp)
                  /\ e.st = "OCSE_DONE" => e.runs = 1
    BY <1>1, <1>3 DEF Stages, Nil, Ids
  <2>. QED BY <1>1, <1>5, <1>8 DEF Stages
<1>17. ListOK'
  <2>1. list \in Seq(Ids) BY DEF TypeOK
  <2>2. \A k \in DOMAIN list : k # 1 => list[k] # port BY <1>1, <2>1 DEF ListOK, IsInjective
  <2>. QED BY <1>1, <1>3, <1>5, <1>8, <2>1, <2>2 DEF ListOK
<1>18. Credits'
  <2>1. ev'[port].cfg = ev[port].cfg BY <1>1, <1>5, <1>8
  <2>. QED BY <1>1, <1>3, <1>11, <1>12, <2>1 DEF Credits
<1>. QED BY <1>3, <1>4, <1>7, <1>12, <1>15, <1>16, <1>17, <1>18

\* The counters of credits: an update of one leaves the other alone, and neither
\* wraps around as long as it stays below 256.
CreditsT == [cfg : 0 .. 255, cmd : 0 .. 255]

\* Setting one credit counter leaves the other.
LEMMA CreditFields ==
  ASSUME NEW g \in CreditsT, NEW n \in 0 .. 255
  PROVE  /\ g.cfg \in 0 .. 255 /\ g.cmd \in 0 .. 255
         /\ [g EXCEPT !.cfg = n] \in CreditsT
         /\ [g EXCEPT !.cfg = n].cfg = n /\ [g EXCEPT !.cfg = n].cmd = g.cmd
         /\ [g EXCEPT !.cmd = n] \in CreditsT
         /\ [g EXCEPT !.cmd = n].cmd = n /\ [g EXCEPT !.cmd = n].cfg = g.cfg
BY DEF CreditsT

\* A counter below 255 does not wrap when it is incremented.
LEMMA NoWrap ==
  ASSUME NEW n \in 0 .. 254
  PROVE  n + 1 \in 0 .. 255 /\ (n + 1) % 256 = n + 1 /\ n % 256 = n /\ n \in 0 .. 255
OBVIOUS

\* A credit that comes back does not make the counter wrap around.
LEMMA CreditBack ==
  ASSUME IInv, jobs # <<>>, NEW cr \in BOOLEAN, cr => jobs[1].owed
  PROVE  LET r == Returned(cr)
             b == ev[jobs[1].id].cfg
         IN  /\ r \in CreditsT
             /\ cr /\ ~b => r.cmd = credits.cmd + 1 /\ r.cfg = credits.cfg
             /\ cr /\ b => r.cfg = credits.cfg + 1 /\ r.cmd = credits.cmd
             /\ ~cr => r = credits
<1>. TypeOK /\ Credits BY DEF IInv
<1>1. Head(jobs) = jobs[1] /\ port = Nil /\ jobs[1].id \in Ids BY JobsShape
<1>2. ev[jobs[1].id].cfg \in BOOLEAN BY <1>1 DEF TypeOK, Event
<1>3. credits \in CreditsT BY DEF TypeOK, CreditsT
<1>4. CmdCredits \in 1 .. 255 /\ CfgCredits \in 1 .. 255 BY MmioAssumption DEF MmioAssumption
<1>. DEFINE x == credits.cfg
            y == credits.cmd
<1>9. x \in 0 .. 255 /\ y \in 0 .. 255 BY <1>3 DEF CreditsT
<1>5. CASE ~cr
  <2>1. Returned(cr) = credits BY <1>5 DEF Returned
  <2>. QED BY <1>3, <1>5, <2>1
<1>6. CASE cr /\ ev[jobs[1].id].cfg
  <2>1. x + 1 = CfgCredits BY <1>6, <1>1 DEF Credits
  <2>. HIDE DEF x, y
  <2>2. x \in 0 .. 254 BY <1>4, <1>9, <2>1
  <2>3. (x + 1) % 256 = x + 1 /\ x + 1 \in 0 .. 255 BY <2>2, NoWrap
  <2>4. Returned(cr) = [credits EXCEPT !.cfg = x + 1] BY <1>1, <1>6, <2>3 DEF Returned, x
  <2>5. /\ [credits EXCEPT !.cfg = x + 1] \in CreditsT
        /\ [credits EXCEPT !.cfg = x + 1].cfg = x + 1 /\ [credits EXCEPT !.cfg = x + 1].cmd = credits.cmd
    <3>. DEFINE m == x + 1
    <3>1. m \in 0 .. 255 BY <2>3
    <3>. HIDE DEF m
    <3>2. /\ [credits EXCEPT !.cfg = m] \in CreditsT
          /\ [credits EXCEPT !.cfg = m].cfg = m /\ [credits EXCEPT !.cfg = m].cmd = credits.cmd
      BY <3>1, <1>3, CreditFields
    <3>. QED BY <3>2 DEF m
  <2>. QED BY <1>6, <2>4, <2>5 DEF x
<1>7. CASE cr /\ ~ev[jobs[1].id].cfg
  <2>1. y + 1 = CmdCredits BY <1>2, <1>7, <1>1 DEF Credits
  <2>. HIDE DEF x, y
  <2>2. y \in 0 .. 254 BY <1>4, <1>9, <2>1
  <2>3. (y + 1) % 256 = y + 1 /\ y + 1 \in 0 .. 255 BY <2>2, NoWrap
  <2>4. Returned(cr) = [credits EXCEPT !.cmd = y + 1] BY <1>1, <1>7, <2>3 DEF Returned, y
  <2>5. /\ [credits EXCEPT !.cmd = y + 1] \in CreditsT
        /\ [credits EXCEPT !.cmd = y + 1].cmd = y + 1 /\ [credits EXCEPT !.cmd = y + 1].cfg = credits.cfg
    <3>. DEFINE m == y + 1
    <3>1. m \in 0 .. 255 BY <2>3
    <3>. HIDE DEF m
    <3>2. /\ [credits EXCEPT !.cmd = m] \in CreditsT
          /\ [credits EXCEPT !.cmd = m].cmd = m /\ [credits EXCEPT !.cmd = m].cfg = credits.cfg
      BY <3>1, <1>3, CreditFields
    <3>. QED BY <3>2 DEF m
  <2>. QED BY <1>7, <2>4, <2>5 DEF y
<1>. QED BY <1>2, <1>5, <1>6, <1>7

\* The clock when ocse drives no command: the AFU may send a packet or a credit.
LEMMA ClockPlain ==
  ASSUME IInv, NEW say \in BOOLEAN, NEW cr \in BOOLEAN, Clock(say, cr), port = Nil
  PROVE  Wire' /\ Stages' /\ ListOK' /\ Credits'
         /\ ev' = ev /\ jobs' \in Seq(Jobs) /\ credits' \in CreditsT
         /\ rport' \in Resp /\ dport' \in Beats
<1>. TypeOK /\ Wire /\ Stages /\ ListOK /\ Credits BY DEF IInv
<1>1. /\ pc = "clock" /\ pc' = (IF list # <<>> THEN "resp" ELSE "send") /\ port' = Nil /\ ev' = ev
      /\ UNCHANGED <<list, boot, client, app>> /\ credits' = Returned(cr) /\ CanSay(say, cr)
  BY DEF Clock
<1>2. ~rport.v /\ ~dport.v BY <1>1 DEF Wire
<1>3. Stages' BY <1>1 DEF Stages
<1>4. jobs' = Remaining(say, cr) \o <<>>
  <2>1. PICK t \in Taken : jobs' = Remaining(say, cr) \o t BY DEF Clock
  <2>2. t = <<>> BY <2>1 DEF Taken
  <2>. QED BY <2>1, <2>2
<1>5. CASE jobs = <<>>
  <2>1. ~say /\ ~cr BY <1>1, <1>5 DEF CanSay
  <2>2. jobs' = <<>> BY <1>4, <1>5 DEF Remaining
  <2>3. rport' \in Resp /\ dport' \in Beats /\ ~rport'.v /\ ~dport'.v
    BY <1>2, <2>1, EventTypes DEF Clock, TypeOK
  <2>4. credits' = credits BY <1>1, <2>1 DEF Returned
  <2>5. Wire' BY <1>1, <1>5, <2>2, <2>3 DEF Wire, Quiescent
  <2>6. ListOK' BY <1>1, <2>2 DEF ListOK
  <2>7. Credits' BY <1>1, <1>5, <2>2, <2>4 DEF Credits
  <2>8. credits' \in CreditsT /\ jobs' \in Seq(Jobs) BY <2>2, <2>4 DEF TypeOK, CreditsT
  <2>. QED BY <1>1, <1>3, <2>3, <2>5, <2>6, <2>7, <2>8
<1>6. CASE jobs # <<>>
  <2>. DEFINE j == jobs[1]
              s == j.script
  <2>1. /\ j \in Jobs /\ Head(jobs) = j /\ Tail(jobs) = <<>> /\ Script = s /\ s \in Seq(Packets)
        /\ Len(s) > 0 /\ list # <<>> /\ j.id = list[1] /\ list[1] \in Ids
    BY <1>6, JobsShape
  <2>2. (cr => j.owed) /\ (say => (j.owed => cr)) BY <1>1, <1>6, <2>1 DEF CanSay
  <2>3. /\ credits' \in CreditsT
        /\ cr /\ ~ev[j.id].cfg => credits'.cmd = credits.cmd + 1 /\ credits'.cfg = credits.cfg
        /\ cr /\ ev[j.id].cfg => credits'.cfg = credits.cfg + 1 /\ credits'.cmd = credits.cmd
        /\ ~cr => credits' = credits
    BY <1>1, <1>6, <2>2, CreditBack
  <2>4. Coming(list[1], Head(s), Tail(s)) BY Zenon, <1>2, <1>6, <2>1 DEF Wire, Quiescent
  <2>5. /\ Head(s) = s[1] /\ Head(s) \in Packets /\ Tail(s) \in Seq(Packets) /\ Len(Tail(s)) = Len(s) - 1
    BY Zenon, <2>1, TailShape
  <2>. DEFINE o == j.owed /\ ~cr
              q == IF say THEN Tail(s) ELSE s
              k == [j EXCEPT !.owed = o, !.script = q]
  <2>6. /\ q \in Seq(Packets) /\ o \in BOOLEAN /\ j.id \in Ids
        /\ k \in Jobs /\ k.id = j.id /\ k.script = q /\ k.owed = o
    BY <2>1, <2>5 DEF Jobs, Packets
  <2>7. jobs' = (IF say /\ Len(s) = 1 THEN <<>> ELSE <<k>>)
    <3>1. Remaining(say, cr) = (IF say /\ Len(s) = 1 THEN <<>> ELSE <<k>> \o <<>>)
      BY <1>6, <2>1 DEF Remaining
    <3>2. <<k>> \o <<>> = <<k>> /\ <<>> \o <<>> = <<>> OBVIOUS
    <3>. HIDE DEF k
    <3>3. (<<k>> \o <<>>) \o <<>> = <<k>> BY Zenon, <3>2
    <3>. QED BY Zenon, <1>4, <3>1, <3>2, <3>3
  <2>. HIDE DEF k, q, o
  <2>8. <<k>> \in Seq(Jobs) /\ Len(<<k>>) = 1 /\ <<k>>[1] = k /\ <<k>> # <<>> /\ <<>> \in Seq(Jobs) BY <2>6
  <2>9. jobs' \in Seq(Jobs) /\ Len(jobs') <= 1 /\ (jobs' # <<>> => jobs'[1] = k) BY <2>7, <2>8
  <2>10. ListOK' BY <1>1, <1>6 DEF ListOK
  <2>11. Credits'
    <3>1. ev[j.id].cfg \in BOOLEAN BY <2>1 DEF TypeOK, Event
    <3>2. o => j.owed /\ ~cr /\ ~say BY <2>2 DEF o
    <3>3. ~o => cr \/ ~j.owed BY DEF o
    <3>4. jobs' # <<>> \/ ~o BY <2>7, <2>8, <3>2
    <3>5. port = Nil /\ port' = Nil /\ j.owed \in BOOLEAN BY <1>1, <2>1 DEF Jobs
    <3>6. \A g \in BOOLEAN : (jobs' # <<>> /\ jobs'[1].owed /\ ev'[jobs'[1].id].cfg = g)
                               <=> (o /\ ev[j.id].cfg = g)
      BY <1>1, <2>6, <2>9, <3>4
    <3>7. credits.cmd \in Nat /\ credits.cfg \in Nat
      <4>1. credits \in CreditsT BY DEF TypeOK, CreditsT
      <4>. QED BY <4>1 DEF CreditsT
    <3>8. CASE o
      <4>1. credits'.cmd = credits.cmd /\ credits'.cfg = credits.cfg BY <2>3, <3>2, <3>7, <3>8
      <4>. QED BY <1>6, <3>2, <3>5, <3>6, <3>8, <4>1 DEF Credits
    <3>9. CASE ~o
      <4>1. credits'.cmd = CmdCredits /\ credits'.cfg = CfgCredits
        <5>1. cr <=> j.owed BY <2>2, <3>3, <3>9
        <5>. QED BY <1>6, <2>3, <3>1, <3>5, <3>7, <5>1 DEF Credits
      <4>2. CmdCredits \in Nat /\ CfgCredits \in Nat BY MmioAssumption DEF MmioAssumption
      <4>3. /\ ~(jobs' # <<>> /\ jobs'[1].owed /\ ev'[jobs'[1].id].cfg = TRUE)
            /\ ~(jobs' # <<>> /\ jobs'[1].owed /\ ev'[jobs'[1].id].cfg = FALSE)
        BY <3>6, <3>9
      <4>4. credits'.cmd + 0 = CmdCredits /\ credits'.cfg + 0 = CfgCredits BY <4>1, <4>2
      <4>. QED BY Zenon, <3>5, <4>3, <4>4 DEF Credits
    <3>. QED BY <3>8, <3>9
  <2>12. CASE ~say
    <3>1. rport' \in Resp /\ dport' \in Beats /\ ~rport'.v /\ ~dport'.v
      BY <1>2, <2>12, EventTypes DEF Clock, TypeOK
    <3>2. jobs' = <<k>> /\ q = s BY <2>7, <2>12 DEF q
    <3>3. Script' = s /\ jobs'[1].id = list[1] /\ Len(jobs'[1].script) > 0
      BY <2>1, <2>6, <2>8, <3>2 DEF Script
    <3>4. Coming(list[1], Head(Script), Tail(Script))'
      BY Zenon, <1>1, <2>4, <3>3 DEF Coming
    <3>5. Wire' BY Zenon, <1>1, <2>1, <2>9, <3>1, <3>3, <3>4 DEF Wire, Quiescent
    <3>. QED BY <1>1, <1>3, <2>3, <2>9, <2>10, <2>11, <3>1, <3>5
  <2>13. CASE say
    <3>1. rport' = s[1].resp /\ dport' = s[1].beat BY <2>1, <2>5, <2>13 DEF Clock
    <3>2. rport' \in Resp /\ dport' \in Beats /\ s[1] = [resp |-> rport', beat |-> dport']
      BY <2>5, <3>1 DEF Packets
    <3>3. rport'.v \/ dport'.v BY <2>4, <2>5, <3>1 DEF Coming
    <3>4. Script' = Tail(s)
      <4>1. CASE Len(s) = 1
        <5>1. Tail(s) = <<>>
          <6>1. Tail(s) \in Seq(Packets) /\ Len(Tail(s)) = 0 BY <4>1, <2>5
          <6>. QED BY <6>1, EmptySeq, Zenon
        <5>. QED BY <2>7, <2>13, <4>1, <5>1 DEF Script
      <4>2. CASE Len(s) # 1 BY <2>6, <2>7, <2>8, <2>13, <4>2 DEF Script, q
      <4>. QED BY <4>1, <4>2
    <3>5. Coming(list[1], [resp |-> rport, beat |-> dport], Script)'
      BY Zenon, <1>1, <2>4, <2>5, <3>2, <3>4 DEF Coming
    <3>6. jobs' # <<>> => jobs'[1].id = list[1] /\ Len(jobs'[1].script) > 0
      <4>1. jobs' # <<>> => Len(s) # 1 /\ jobs'[1] = k BY <2>7, <2>13, <2>9
      <4>. DEFINE n == Len(s)
      <4>3. n \in Nat /\ n > 0 /\ Len(q) = n - 1 BY <2>1, <2>5, <2>13 DEF q
      <4>. HIDE DEF n
      <4>2. n # 1 => Len(q) > 0 BY <4>3
      <4>. QED BY <4>1, <4>2, <2>1, <2>6 DEF n
    <3>7. Wire' BY Zenon, <1>1, <2>1, <2>9, <3>3, <3>5, <3>6 DEF Wire, Quiescent
    <3>. QED BY <1>1, <1>3, <2>3, <2>9, <2>10, <2>11, <3>2, <3>7
  <2>. QED BY <2>12, <2>13
<1>. QED BY <1>5, <1>6

\* The thread drives the clock.
LEMMA ClockStep ==
  ASSUME IInv, NEW say \in BOOLEAN, NEW cr \in BOOLEAN, Clock(say, cr)
  PROVE  IInv'
<1>. TypeOK /\ Pointers /\ Requests BY DEF IInv
<1>1. /\ pc' \in {"resp", "send"} /\ port' = Nil /\ Refreshed > 0
      /\ ocl' = [ocl EXCEPT !.idle = Refreshed] /\ UNCHANGED <<cur, list, boot, client, app, opens>>
  BY DEF Clock
<1>2. ocl' \in OclT /\ ocl'.idle > 0
  <2>1. Refreshed \in 0 .. IdleCycles BY MmioAssumption DEF MmioAssumption, Refreshed, TypeOK
  <2>2. ocl \in OclT BY DEF TypeOK, OclT
  <2>. QED BY <1>1, <2>1, <2>2 DEF OclT
<1>3. /\ Wire' /\ Stages' /\ ListOK' /\ Pointers' /\ Credits' /\ Requests'
      /\ ev' \in [Ids -> Event] /\ jobs' \in Seq(Jobs) /\ credits' \in CreditsT
      /\ rport' \in Resp /\ dport' \in Beats
  <2>1. CASE port # Nil
    <3>1. credits \in CreditsT BY DEF TypeOK, CreditsT
    <3>. QED BY <2>1, <3>1, ClockTakes
  <2>2. CASE port = Nil
    <3>1. /\ Wire' /\ Stages' /\ ListOK' /\ Credits' /\ ev' = ev /\ jobs' \in Seq(Jobs)
          /\ credits' \in CreditsT /\ rport' \in Resp /\ dport' \in Beats
      BY <2>2, ClockPlain
    <3>2. Pointers' BY <1>1, <3>1 DEF Pointers
    <3>3. Requests' BY <1>1, <3>1 DEF Requests
    <3>4. ev' \in [Ids -> Event] BY <3>1 DEF TypeOK
    <3>. QED BY <3>1, <3>2, <3>3, <3>4
  <2>. QED BY <2>1, <2>2
<1>4. Clocked' BY <1>2 DEF Clocked
<1>5. TypeOK'
  <2>1. pc' \in {"clock", "resp", "data", "send", "slot", "msg"} BY <1>1
  <2>. QED BY <1>1, <1>2, <1>3, <2>1 DEF TypeOK, CreditsT, OclT
<1>. QED BY <1>3, <1>4, <1>5 DEF IInv

\* There is no clock.
LEMMA StoppedStep ==
  ASSUME IInv, Stopped
  PROVE  IInv'
<1>. TypeOK /\ Pointers /\ Requests BY DEF IInv
<1>1. pc = "clock" /\ pc' \in {"slot", "clock"} /\ cur' = 0 BY DEF Stopped, Slots
<1>2. Wire' /\ Stages' /\ ListOK' /\ Credits' BY <1>1, AfuKept DEF Stopped
<1>3. Pointers' BY DEF Stopped, Pointers
<1>4. Requests' BY DEF Stopped, Requests
<1>5. Clocked' BY <1>1 DEF Clocked
<1>6. cur' \in Ctx BY <1>1, FirstSlot
<1>7. TypeOK' BY <1>1, <1>6 DEF Stopped, TypeOK
<1>. QED BY <1>2, <1>3, <1>4, <1>5, <1>7 DEF IInv

-----------------------------------------------------------------------------
(***************************************************************************)
(* The head of the list and its answer.                                    *)
(***************************************************************************)
\* The response at the port is one the head reads, and is legal if it waits for it.
LEMMA RespFits ==
  ASSUME IInv, pc = "resp", rport.v \/ dport.v
  PROVE  LET e == ev[list[1]] IN
         /\ rport.v => ReadsResp(e)
         /\ e.st \in {"OCSE_PENDING", "OCSE_BUFFER"} /\ (e.st = "OCSE_PENDING" => rport.v)
         /\ e.st = "OCSE_PENDING" => e.cfg \/ ~e.rnw \/ _resp_dldp_is_legal(e.dl, rport.dl, rport.dp)
         /\ e.st = "OCSE_BUFFER" => dport.v
<1>. DEFINE p == [resp |-> rport, beat |-> dport]
<1>1. Coming(list[1], p, Script) BY Zenon DEF IInv, Wire, Quiescent
<1>2. p.resp = rport /\ p.beat = dport OBVIOUS
<1>. HIDE DEF p
<1>. DEFINE e == ev[list[1]]
<1>3. /\ e.st \in {"OCSE_PENDING", "OCSE_BUFFER"} /\ (e.st = "OCSE_PENDING" => rport.v)
      /\ e.st = "OCSE_PENDING" => e.cfg \/ ~e.rnw \/ _resp_dldp_is_legal(e.dl, rport.dl, rport.dp)
      /\ e.st = "OCSE_BUFFER" => dport.v
  BY Zenon, <1>1, <1>2 DEF Coming, IsRead
<1>4. (rport.cfg = e.cfg /\ rport.rnw = e.rnw) \/ (~rport.cfg /\ ~e.cfg)
  BY Zenon, <1>1, <1>2 DEF Coming, IsRead
<1>5. e.cfg \in BOOLEAN /\ rport.cfg \in BOOLEAN
  <2>1. list[1] \in Ids BY DEF IInv, TypeOK, Wire
  <2>. QED BY <2>1 DEF IInv, TypeOK, Event, Resp
<1>. HIDE DEF e
<1>6. rport.cfg = e.cfg /\ (e.cfg => rport.rnw = e.rnw)
  <2>1. CASE rport.cfg = e.cfg /\ rport.rnw = e.rnw BY <2>1
  <2>2. CASE ~rport.cfg /\ ~e.cfg BY <1>5, <2>2
  <2>. QED BY <1>4, <2>1, <2>2
<1>. QED BY Zenon, <1>3, <1>6 DEF ReadsResp, e

\* An empty script is that of no job.
LEMMA NoScript ==
  ASSUME IInv, Len(Script) = 0
  PROVE  jobs = <<>>
<1>. SUFFICES ASSUME jobs # <<>> PROVE FALSE OBVIOUS
<1>. DEFINE n == Len(Script)
<1>1. n > 0 /\ n = 0 BY JobsShape
<1>. HIDE DEF n
<1>. QED BY <1>1

\* The packets after the first one, when only beats are left.
LEMMA BeatsNext ==
  ASSUME NEW i \in Ids, NEW s \in Seq(Packets), Len(s) > 0, BeatsOf(i, s)
  PROVE  /\ Head(s) \in Packets /\ Tail(s) \in Seq(Packets) /\ BeatsOf(i, Tail(s))
         /\ Head(s).beat.v /\ Head(s).beat.id = i /\ ~Head(s).resp.cfg
         /\ Len(s) \in Nat /\ Len(Tail(s)) \in Nat /\ Len(Tail(s)) + 1 = Len(s)
<1>1. /\ Head(s) = s[1] /\ Head(s) \in Packets /\ Tail(s) \in Seq(Packets)
      /\ Len(Tail(s)) = Len(s) - 1 /\ \A k \in DOMAIN Tail(s) : k + 1 \in DOMAIN s /\ Tail(s)[k] = s[k + 1]
  OBVIOUS
<1>2. 1 \in DOMAIN s OBVIOUS
<1>3. BeatsOf(i, Tail(s)) BY <1>1 DEF BeatsOf
<1>4. Len(s) \in Nat /\ Len(Tail(s)) \in Nat BY <1>1
<1>5. Len(Tail(s)) + 1 = Len(s) BY <1>1, <1>4
<1>. QED BY <1>1, <1>2, <1>3, <1>4, <1>5 DEF BeatsOf

\* While a response is being handled the list has a head, which occurs once.
LEMMA HeadOfList ==
  ASSUME IInv, pc \in {"resp", "data"}
  PROVE  /\ list # <<>> /\ Head(list) = list[1] /\ list[1] \in Ids /\ ev[list[1]] \in Event
         /\ \A k \in DOMAIN list : k # 1 => list[k] # list[1] /\ list[k] \in Ids
<1>. TypeOK /\ Wire /\ ListOK BY DEF IInv
<1>1. list \in Seq(Ids) /\ list # <<>> /\ ev \in [Ids -> Event] BY DEF TypeOK, Wire
<1>. QED BY <1>1 DEF ListOK, IsInjective

\* The head changes, and nothing else does for the other events.
LEMMA OthersStay ==
  ASSUME IInv, pc \in {"resp", "data"}, NEW f \in Event, ev' = [ev EXCEPT ![list[1]] = f],
         port = Nil, port' = port,
         /\ f.st \in {"OCSE_PENDING", "OCSE_BUFFER", "OCSE_DONE"}
         /\ f.st = "OCSE_PENDING" => f.recv = 0 /\ f.dl = Encoded(f.n) /\ f.runs = 1
         /\ f.st = "OCSE_BUFFER" => /\ f.runs = 1 /\ f.idx = f.recv /\ f.recv < Size(f)
                                    /\ IsRead(f) /\ _resp_dldp_is_legal(f.dl, f.rdl, f.rdp)
         /\ f.st = "OCSE_DONE" => f.runs = 1
  PROVE  /\ Stages' /\ ev'[list[1]] = f /\ \A k \in Ids : k # list[1] => ev'[k] = ev[k]
<1>. TypeOK /\ Stages BY DEF IInv
<1>1. list[1] \in Ids BY HeadOfList
<1>2. \A k \in Ids : ev'[k] = IF k = list[1] THEN f ELSE ev[k] BY <1>1 DEF TypeOK
<1>3. \A k \in Ids : port' # k BY DEF Nil, Ids
<1>4. \A k \in Ids : port # k BY DEF Nil, Ids
<1>5. Stages'
  <2>. SUFFICES ASSUME NEW i \in Ids
                PROVE  LET e == ev'[i] IN
                  /\ e.st \in {"OCSE_IDLE", "FREE"} => e.runs = 0 /\ e.recv = 0
                  /\ e.st = "OCSE_PENDING" => e.recv = 0 /\ e.dl = Encoded(e.n) /\ e.runs = 1
                  /\ e.st = "OCSE_BUFFER" => /\ e.runs = 1 /\ e.idx = e.recv /\ e.recv < Size(e)
                                             /\ IsRead(e) /\ _resp_dldp_is_legal(e.dl, e.rdl, e.rdp)
                  /\ e.st = "OCSE_DONE" => e.runs = 1
    BY <1>3 DEF Stages
  <2>1. CASE i = list[1] BY <1>2, <2>1
  <2>2. CASE i # list[1] BY <1>2, <1>4, <2>2 DEF Stages
  <2>. QED BY <2>1, <2>2
<1>. QED BY <1>1, <1>2, <1>5

\* The response of the AFU reaches the head.
LEMMA RespStep ==
  ASSUME IInv, handle_ap_resp
  PROVE  IInv'
<1>. TypeOK /\ Wire /\ Stages /\ ListOK /\ Pointers /\ Credits /\ Clocked /\ Requests BY DEF IInv
<1>. DEFINE i == list[1]
            e == ev[i]
<1>0. pc = "resp" BY DEF handle_ap_resp
<1>1. /\ list # <<>> /\ Head(list) = i /\ i \in Ids /\ e \in Event
      /\ \A k \in DOMAIN list : k # 1 => list[k] # i /\ list[k] \in Ids
  BY <1>0, HeadOfList
<1>2. UNCHANGED <<cur, list, boot, ocl, client, app, opens, port, dport, credits, jobs>>
  BY DEF handle_ap_resp
<1>3. Script' = Script /\ list'[1] = i BY <1>2 DEF Script
<1>4. rport' \in Resp /\ ~rport'.v /\ (rport'.cfg => rport'.cfg)
  <2>1. CASE rport.v
    <3>1. rport' = NoResp BY <1>0, <1>1, <2>1, RespFits DEF handle_ap_resp
    <3>. QED BY <3>1, EventTypes
  <2>2. CASE ~rport.v
    <3>1. rport' = rport BY <1>1, <2>2 DEF handle_ap_resp, ReadsResp
    <3>. QED BY <2>2, <3>1 DEF TypeOK
  <2>. QED BY <2>1, <2>2
<1>5. pc' = "data"
  <2>1. rport.v /\ e.st = "OCSE_PENDING" => e.cfg \/ ~e.rnw \/ _resp_dldp_is_legal(e.dl, rport.dl, rport.dp)
    BY <1>0, RespFits
  <2>. QED BY <1>1, <2>1 DEF handle_ap_resp, ReadsResp
<1>6. TypeOK' /\ Clocked' /\ ListOK' /\ Credits' /\ Wire' /\ Stages' /\ Pointers' /\ Requests'
  <2>1. CASE rport.v /\ e.st = "OCSE_PENDING"
    <3>. DEFINE f == Responded(e)
    <3>1. ev' = [ev EXCEPT ![i] = f]
      BY <1>0, <1>1, <2>1, RespFits DEF handle_ap_resp
    <3>2. /\ f \in Event /\ f.st = (IF IsRead(e) THEN "OCSE_BUFFER" ELSE "OCSE_DONE")
          /\ f.cfg = e.cfg /\ f.own = e.own /\ f.runs = e.runs /\ f.recv = e.recv
          /\ f.mem = e.mem /\ f.rnw = e.rnw /\ f.n = e.n /\ f.data = e.data /\ f.dl = e.dl
          /\ f.fail = rport.fail
          /\ IsRead(e) => f.idx = 0 /\ f.rdl = rport.dl /\ f.rdp = rport.dp
      BY <1>1, RespondedType DEF TypeOK
    <3>. HIDE DEF f
    <3>3. IsRead(f) = IsRead(e) /\ Size(f) = Size(e) BY <3>2 DEF IsRead, Size
    <3>4. Coming(i, [resp |-> rport, beat |-> dport], Script) /\ port = Nil
      BY Zenon, <1>0, <2>1 DEF Wire, Quiescent
    <3>5. e.recv = 0 /\ e.runs = 1 BY <1>1, <2>1, <3>4 DEF Stages, Nil, Ids
    <3>6. Size(e) \in {1, 2, 4} BY <1>1 DEF Size, Event
    <3>7. IsRead(e) => _resp_dldp_is_legal(e.dl, rport.dl, rport.dp)
      BY <1>0, <2>1, RespFits DEF IsRead
    <3>8. /\ f.st \in {"OCSE_BUFFER", "OCSE_DONE"} /\ f.runs = 1
          /\ f.st = "OCSE_BUFFER" => /\ f.idx = f.recv /\ f.recv < Size(f)
                                     /\ IsRead(f) /\ _resp_dldp_is_legal(f.dl, f.rdl, f.rdp)
      <4>1. CASE IsRead(e) BY <4>1, <3>2, <3>3, <3>5, <3>6, <3>7
      <4>2. CASE ~IsRead(e) BY <4>2, <3>2, <3>5
      <4>. QED BY <4>1, <4>2
    <3>9. /\ Stages' /\ ev'[i] = f /\ \A k \in Ids : k # i => ev'[k] = ev[k]
      BY <1>0, <1>2, <3>1, <3>2, <3>4, <3>8, OthersStay
    <3>10. ev' \in [Ids -> Event] /\ Pointers' /\ Requests'
      <4>1. f.st # "FREE" BY <3>8
      <4>. QED BY <1>1, <1>2, <3>1, <3>2, <4>1, OwnersKept
    <3>. DEFINE p == [resp |-> rport, beat |-> dport]
    <3>11. p.resp = rport /\ p.beat = dport OBVIOUS
    <3>. HIDE DEF p
    <3>12. Coming(i, p, Script) BY <3>4 DEF p
    <3>13. ~IsRead(e) => jobs = <<>> /\ ~dport.v
      <4>1. ~IsRead(e) => Len(Script) = 0 /\ ~dport.v BY Zenon, <2>1, <3>11, <3>12 DEF Coming
      <4>. QED BY <4>1, NoScript
    <3>14. IsRead(e) => /\ BeatsOf(i, Script) /\ Script \in Seq(Packets)
                        /\ IF dport.v THEN Len(Script) + 1 = Size(e) ELSE Len(Script) \in {0, Size(e)}
      BY Zenon, <2>1, <3>11, <3>12 DEF Coming
    <3>15. dport.v => dport.id = i BY Zenon, <3>11, <3>12 DEF Coming
    <3>16. ListOK'
      <4>1. f.st = "OCSE_DONE" => jobs = <<>> BY <3>2, <3>13
      <4>. QED BY <1>1, <1>2, <1>5, <3>8, <3>9, <4>1 DEF ListOK
    <3>17. Credits'
      <4>1. \A k \in Ids : ev'[k].cfg = ev[k].cfg BY <3>2, <3>9
      <4>2. jobs # <<>> => jobs[1].id \in Ids BY JobsShape
      <4>. QED BY <1>2, <3>4, <4>1, <4>2 DEF Credits
    <3>18. ~dport.v /\ jobs # <<>> => Coming(list[1], Head(Script), Tail(Script))'
      <4>. SUFFICES ASSUME ~dport.v, jobs # <<>> PROVE Coming(list[1], Head(Script), Tail(Script))' OBVIOUS
      <4>1. IsRead(e) /\ Len(Script) > 0 BY <3>13, JobsShape
      <4>2. Len(Script) = Size(e) /\ Script \in Seq(Packets) /\ BeatsOf(i, Script)
        <5>. DEFINE n == Len(Script)
        <5>1. n > 0 /\ n \in {0, Size(e)} BY <4>1, <3>14
        <5>. HIDE DEF n
        <5>2. n = Size(e) BY <5>1
        <5>. QED BY <4>1, <3>14, <5>2 DEF n
      <4>3. /\ Head(Script) \in Packets /\ Tail(Script) \in Seq(Packets) /\ BeatsOf(i, Tail(Script))
            /\ Head(Script).beat.v /\ Head(Script).beat.id = i /\ ~Head(Script).resp.cfg
            /\ Len(Tail(Script)) + 1 = Len(Script)
        BY <1>1, <4>1, <4>2, BeatsNext
      <4>4. f.st = "OCSE_BUFFER" /\ IsRead(f) /\ Len(Tail(Script)) + 1 = Size(f) - f.recv
        BY <4>1, <4>2, <4>3, <3>2, <3>3, <3>5, <3>6
      <4>. QED BY Zenon, <1>3, <3>9, <4>3, <4>4 DEF Coming, BeatsOf
    <3>19. dport.v => /\ f.st = "OCSE_BUFFER" /\ IsRead(f) /\ BeatsOf(i, Script) /\ Script \in Seq(Packets)
                      /\ Len(Script) + 1 = Size(f) - f.recv
      <4>. SUFFICES ASSUME dport.v
                    PROVE  /\ f.st = "OCSE_BUFFER" /\ IsRead(f) /\ BeatsOf(i, Script) /\ Script \in Seq(Packets)
                           /\ Len(Script) + 1 = Size(f) - f.recv
        OBVIOUS
      <4>1. IsRead(e) BY <3>13
      <4>. QED BY <4>1, <3>2, <3>3, <3>5, <3>6, <3>14
    <3>20. Wire'
      <4>1. (Quiescent /\ jobs # <<>> => Coming(list[1], Head(Script), Tail(Script)))'
        BY Zenon, <1>2, <3>18 DEF Quiescent
      <4>2. (pc = "data" /\ dport.v =>
              LET g == ev[list[1]] IN
              /\ g.st = "OCSE_BUFFER" /\ IsRead(g) /\ dport.id = list[1] /\ port = Nil
              /\ Script \in Seq(Packets) /\ BeatsOf(list[1], Script) /\ Len(Script) + 1 = Size(g) - g.recv)'
        BY Zenon, <1>2, <1>3, <3>4, <3>9, <3>15, <3>19 DEF IsRead, Size, BeatsOf
      <4>. QED BY Zenon, <1>1, <1>2, <1>4, <1>5, <3>4, <4>1, <4>2 DEF Wire
    <3>21. TypeOK' BY <1>2, <1>4, <1>5, <3>10 DEF TypeOK
    <3>22. Clocked' BY <1>0, <1>2 DEF Clocked
    <3>. QED BY <3>9, <3>10, <3>16, <3>17, <3>20, <3>21, <3>22
  <2>2. CASE ~(rport.v /\ e.st = "OCSE_PENDING")
    <3>1. ev' = ev BY <1>1, <2>2 DEF handle_ap_resp, ReadsResp
    <3>2. Stages' BY <1>2, <3>1 DEF Stages
    <3>3. Pointers' BY <1>2, <3>1 DEF Pointers
    <3>4. Requests' BY <1>2, <3>1 DEF Requests
    <3>5. ListOK' BY <1>0, <1>2, <1>5, <3>1 DEF ListOK
    <3>6. Credits' BY <1>2, <3>1 DEF Credits
    <3>7. dport.v => /\ e.st = "OCSE_BUFFER" /\ IsRead(e) /\ dport.id = i /\ port = Nil
                     /\ BeatsOf(i, Script) /\ Script \in Seq(Packets)
                     /\ Len(Script) + 1 = Size(e) - e.recv
      <4>. SUFFICES ASSUME dport.v
                    PROVE  /\ e.st = "OCSE_BUFFER" /\ IsRead(e) /\ dport.id = i /\ port = Nil
                           /\ BeatsOf(i, Script) /\ Script \in Seq(Packets)
                           /\ Len(Script) + 1 = Size(e) - e.recv
        OBVIOUS
      <4>. DEFINE p == [resp |-> rport, beat |-> dport]
      <4>1. p.resp = rport /\ p.beat = dport OBVIOUS
      <4>2. Coming(i, p, Script) /\ port = Nil BY Zenon, <1>0 DEF Wire, Quiescent
      <4>. HIDE DEF p
      <4>. QED BY Zenon, <2>2, <4>1, <4>2 DEF Coming
    <3>8. ~rport.v \/ dport.v
      <4>1. rport.v => e.st = "OCSE_BUFFER" /\ dport.v BY <1>0, <2>2, RespFits
      <4>. QED BY <4>1
    <3>9. Quiescent' /\ jobs' # <<>> => Coming(list[1], Head(Script), Tail(Script))'
      <4>1. Quiescent' => Quiescent BY <1>2, <3>8 DEF Quiescent
      <4>2. Quiescent /\ jobs # <<>> => Coming(list[1], Head(Script), Tail(Script)) BY Zenon DEF Wire
      <4>. QED BY Zenon, <1>2, <1>3, <3>1, <4>1, <4>2 DEF Coming
    <3>10. (pc = "data" /\ dport.v =>
              LET g == ev[list[1]] IN
              /\ g.st = "OCSE_BUFFER" /\ IsRead(g) /\ dport.id = list[1] /\ port = Nil
              /\ Script \in Seq(Packets) /\ BeatsOf(list[1], Script) /\ Len(Script) + 1 = Size(g) - g.recv)'
      BY Zenon, <1>2, <1>3, <3>1, <3>7 DEF IsRead, Size, BeatsOf
    <3>11. Wire' BY Zenon, <1>1, <1>2, <1>4, <1>5, <3>1, <3>9, <3>10 DEF Wire
    <3>12. TypeOK' BY <1>2, <1>4, <1>5, <3>1 DEF TypeOK
    <3>13. Clocked' BY <1>0, <1>2 DEF Clocked
    <3>. QED BY <3>2, <3>3, <3>4, <3>5, <3>6, <3>11, <3>12, <3>13
  <2>. QED BY <2>1, <2>2
<1>. QED BY <1>6 DEF IInv

\* The list moves on: its new head, if any, is idle, and the AFU has nothing left.
LEMMA MovesOn ==
  ASSUME IInv, pc = "data", pc' = "send", list' = Tail(list), port = Nil, jobs = <<>>,
         UNCHANGED <<port, jobs, rport>>, ~dport'.v,
         \A k \in Ids : k # list[1] => ev'[k] = ev[k]
  PROVE  Wire' /\ ListOK' /\ list' \in Seq(Ids)
<1>. TypeOK /\ Wire /\ ListOK BY DEF IInv
<1>1. list \in Seq(Ids) /\ list # <<>> BY HeadOfList DEF TypeOK
<1>2. /\ list' \in Seq(Ids)
      /\ \A k \in DOMAIN list' : k + 1 \in DOMAIN list /\ list'[k] = list[k + 1] /\ k + 1 # 1
  BY <1>1
<1>3. \A k \in DOMAIN list' : ev'[list'[k]].st = "OCSE_IDLE"
  <2>. TAKE k \in DOMAIN list'
  <2>1. ev[list'[k]].st = "OCSE_IDLE" /\ list'[k] # list[1] /\ list'[k] \in Ids
    BY <1>2, HeadOfList DEF ListOK
  <2>. QED BY <2>1
<1>4. list' # <<>> => 1 \in DOMAIN list' BY <1>2
<1>5. IsInjective(list')
  <2>. SUFFICES ASSUME NEW j \in DOMAIN list', NEW k \in DOMAIN list', list'[j] = list'[k]
                PROVE  j = k
    BY DEF IsInjective
  <2>1. j + 1 = k + 1 BY <1>2 DEF ListOK, IsInjective
  <2>. QED BY <1>2, <2>1
<1>6. ListOK' BY <1>3, <1>4, <1>5 DEF ListOK
<1>7. Wire' BY DEF Wire, Nil
<1>. QED BY <1>2, <1>6, <1>7

\* The data of the AFU reaches the head.
LEMMA DataStep ==
  ASSUME IInv, handle_ap_resp_data
  PROVE  IInv'
<1>. TypeOK /\ Wire /\ Stages /\ ListOK /\ Pointers /\ Credits /\ Clocked /\ Requests BY DEF IInv
<1>. DEFINE i == list[1]
            e == ev[i]
<1>0. pc = "data" /\ pc' = "send" BY DEF handle_ap_resp_data
<1>1. /\ list # <<>> /\ Head(list) = i /\ i \in Ids /\ e \in Event
      /\ \A k \in DOMAIN list : k # 1 => list[k] # i /\ list[k] \in Ids
  BY <1>0, HeadOfList
<1>2. UNCHANGED <<cur, boot, ocl, client, app, opens, port, rport, credits, jobs>>
  BY DEF handle_ap_resp_data
<1>3. ~rport.v BY <1>0 DEF Wire
<1>4. dport' \in Beats /\ ~dport'.v
  <2>1. dport.v => e.rnw /\ ~e.cfg BY <1>0 DEF Wire, IsRead
  <2>. QED BY <1>1, <2>1, EventTypes DEF handle_ap_resp_data, TypeOK
<1>5. Clocked' BY <1>0, <1>2 DEF Clocked
<1>6. CASE dport.v
  <2>1. /\ e.st = "OCSE_BUFFER" /\ IsRead(e) /\ dport.id = i /\ port = Nil
        /\ Script \in Seq(Packets) /\ BeatsOf(i, Script) /\ Len(Script) + 1 = Size(e) - e.recv
    BY Zenon, <1>0, <1>6 DEF Wire
  <2>2. e.runs = 1 /\ e.idx = e.recv /\ e.recv < Size(e) /\ _resp_dldp_is_legal(e.dl, e.rdl, e.rdp)
    BY <1>1, <2>1 DEF Stages
  <2>3. Size(e) \in {1, 2, 4} /\ e.recv \in 0 .. 4 BY <1>1 DEF Size, Event
  <2>. DEFINE f == Gathered(e)
  <2>4. /\ f \in Event
        /\ f.st = (IF e.recv + 1 = Size(e) THEN "OCSE_DONE" ELSE "OCSE_BUFFER")
        /\ f.cfg = e.cfg /\ f.own = e.own /\ f.runs = e.runs
        /\ f.mem = e.mem /\ f.rnw = e.rnw /\ f.n = e.n /\ f.dl = e.dl /\ f.rdl = e.rdl /\ f.rdp = e.rdp
        /\ f.st = "OCSE_BUFFER" => f.recv = e.recv + 1 /\ f.idx = f.recv
    BY <1>1, <2>1, <2>2, GatheredType DEF TypeOK
  <2>5. /\ ev' = [ev EXCEPT ![i] = f] /\ list' = IF f.st = "OCSE_DONE" THEN Tail(list) ELSE list
    BY <1>1, <1>6, <2>1 DEF handle_ap_resp_data, HeadAfterData, IsRead, Finished
  <2>. HIDE DEF f
  <2>6. IsRead(f) = IsRead(e) /\ Size(f) = Size(e) BY <2>4 DEF IsRead, Size
  <2>7. f.st = "OCSE_BUFFER" => f.recv < Size(f) BY <2>2, <2>3, <2>4, <2>6
  <2>8. /\ Stages' /\ ev'[i] = f /\ \A k \in Ids : k # i => ev'[k] = ev[k]
    BY <1>0, <1>2, <2>1, <2>2, <2>4, <2>5, <2>6, <2>7, OthersStay
  <2>9. ev' \in [Ids -> Event] /\ Pointers' /\ Requests'
    <3>1. f.st # "FREE" BY <2>4
    <3>. QED BY <1>1, <1>2, <2>4, <2>5, <3>1, OwnersKept
  <2>10. Credits'
    <3>1. \A k \in Ids : ev'[k].cfg = ev[k].cfg BY <2>4, <2>8
    <3>2. jobs # <<>> => jobs[1].id \in Ids BY JobsShape
    <3>. QED BY <1>2, <2>1, <3>1, <3>2 DEF Credits
  <2>. DEFINE n == Len(Script)
  <2>11. n \in Nat BY <2>1
  <2>12. CASE f.st = "OCSE_DONE"
    <3>1. n = 0
      <4>1. e.recv + 1 = Size(e) /\ n + 1 = Size(e) - e.recv BY <2>1, <2>4, <2>12
      <4>. HIDE DEF n
      <4>. QED BY <2>3, <2>11, <4>1
    <3>2. jobs = <<>> BY <3>1, NoScript
    <3>3. Wire' /\ ListOK' /\ list' \in Seq(Ids)
      BY <1>0, <1>2, <1>4, <2>1, <2>5, <2>8, <2>12, <3>2, MovesOn
    <3>4. TypeOK' BY <1>0, <1>2, <1>4, <2>9, <3>3 DEF TypeOK
    <3>. QED BY <1>5, <2>8, <2>9, <2>10, <3>3, <3>4 DEF IInv
  <2>13. CASE f.st # "OCSE_DONE"
    <3>0. f.st = "OCSE_BUFFER" /\ list' = list BY <2>4, <2>5, <2>13
    <3>1. n > 0 /\ n = Size(f) - f.recv
      <4>1. e.recv + 1 # Size(e) /\ n + 1 = Size(e) - e.recv /\ f.recv = e.recv + 1
        BY <2>1, <2>4, <2>13
      <4>. HIDE DEF n
      <4>. QED BY <2>2, <2>3, <2>6, <2>11, <4>1
    <3>2. /\ Head(Script) \in Packets /\ Tail(Script) \in Seq(Packets) /\ BeatsOf(i, Tail(Script))
          /\ Head(Script).beat.v /\ Head(Script).beat.id = i /\ ~Head(Script).resp.cfg
          /\ Len(Tail(Script)) + 1 = Len(Script)
      BY <1>1, <2>1, <3>1, BeatsNext
    <3>3. Script' = Script /\ list'[1] = i BY <1>2, <3>0 DEF Script
    <3>4. Len(Tail(Script)) + 1 = Size(f) - f.recv BY <3>1, <3>2
    <3>5. Coming(list[1], Head(Script), Tail(Script))'
      BY Zenon, <2>1, <2>6, <2>8, <3>0, <3>2, <3>3, <3>4 DEF Coming, BeatsOf
    <3>6. Wire' BY Zenon, <1>0, <1>1, <1>2, <1>3, <1>4, <2>1, <3>0, <3>5 DEF Wire, Quiescent
    <3>7. ListOK' BY <1>1, <2>8, <3>0 DEF ListOK
    <3>8. TypeOK' BY <1>0, <1>2, <1>4, <2>9, <3>0 DEF TypeOK
    <3>. QED BY <1>5, <2>8, <2>9, <2>10, <3>6, <3>7, <3>8 DEF IInv
  <2>. QED BY <2>12, <2>13
<1>7. CASE ~dport.v
  <2>1. ev' = ev /\ list' = IF e.st = "OCSE_DONE" THEN Tail(list) ELSE list
    BY <1>1, <1>7 DEF handle_ap_resp_data, HeadAfterData, Finished, TypeOK
  <2>2. Stages' BY <1>2, <2>1 DEF Stages
  <2>3. Pointers' BY <1>2, <2>1 DEF Pointers
  <2>4. Requests' BY <1>2, <2>1 DEF Requests
  <2>5. Credits' BY <1>2, <2>1 DEF Credits
  <2>6. CASE e.st = "OCSE_DONE"
    <3>1. jobs = <<>> /\ port = Nil BY <1>1, <2>6 DEF ListOK, Wire
    <3>2. Wire' /\ ListOK' /\ list' \in Seq(Ids) BY <1>0, <1>2, <1>4, <2>1, <2>6, <3>1, MovesOn
    <3>3. TypeOK' BY <1>0, <1>2, <1>4, <2>1, <3>2 DEF TypeOK
    <3>. QED BY <1>5, <2>2, <2>3, <2>4, <2>5, <3>2, <3>3 DEF IInv
  <2>7. CASE e.st # "OCSE_DONE"
    <3>1. list' = list BY <2>1, <2>7
    <3>2. ListOK' BY <2>1, <2>7, <3>1 DEF ListOK
    <3>3. Script' = Script BY <1>2 DEF Script
    <3>4. jobs # <<>> => Coming(list[1], Head(Script), Tail(Script))'
      <4>1. jobs # <<>> => Coming(list[1], Head(Script), Tail(Script))
        BY Zenon, <1>3, <1>7 DEF Wire, Quiescent
      <4>. QED BY Zenon, <2>1, <3>1, <3>3, <4>1 DEF Coming
    <3>5. Wire' BY Zenon, <1>0, <1>1, <1>2, <1>3, <1>4, <2>1, <3>1, <3>4 DEF Wire
    <3>6. TypeOK' BY <1>0, <1>2, <1>4, <2>1, <3>1 DEF TypeOK
    <3>. QED BY <1>5, <2>2, <2>3, <2>4, <2>5, <3>2, <3>5, <3>6 DEF IInv
  <2>. QED BY <2>6, <2>7
<1>. QED BY <1>6, <1>7

\* A credit that is spent: the counter does not wrap around.
LEMMA CreditSpent ==
  ASSUME IInv, port = Nil, jobs = <<>>, NEW i \in Ids
  PROVE  LET r == Spent(ev[i])
             b == ev[i].cfg
         IN  /\ r \in CreditsT /\ b \in BOOLEAN
             /\ ~b => r.cmd + 1 = CmdCredits /\ r.cfg = CfgCredits
             /\ b => r.cfg + 1 = CfgCredits /\ r.cmd = CmdCredits
<1>. TypeOK /\ Credits BY DEF IInv
<1>1. credits \in CreditsT /\ ev[i].cfg \in BOOLEAN BY DEF TypeOK, CreditsT, Event
<1>2. CmdCredits \in 1 .. 255 /\ CfgCredits \in 1 .. 255 BY MmioAssumption DEF MmioAssumption
<1>. DEFINE x == credits.cfg
            y == credits.cmd
<1>3. x \in 0 .. 255 /\ y \in 0 .. 255 BY <1>1 DEF CreditsT
<1>4. y + 0 = CmdCredits /\ x + 0 = CfgCredits BY Zenon DEF Credits
<1>. HIDE DEF x, y
<1>5. x = CfgCredits /\ y = CmdCredits BY <1>3, <1>4
<1>6. CASE ev[i].cfg
  <2>. DEFINE m == x - 1
  <2>1. m \in 0 .. 255 /\ m + 1 = CfgCredits BY <1>2, <1>5
  <2>2. Spent(ev[i]) = [credits EXCEPT !.cfg = m] BY <1>6 DEF Spent, x
  <2>. HIDE DEF m
  <2>3. /\ [credits EXCEPT !.cfg = m] \in CreditsT
        /\ [credits EXCEPT !.cfg = m].cfg = m /\ [credits EXCEPT !.cfg = m].cmd = credits.cmd
    <3>1. m \in 0 .. 255 BY <2>1
    <3>. QED BY <1>1, <3>1 DEF CreditsT
  <2>. QED BY <1>1, <1>5, <1>6, <2>1, <2>2, <2>3 DEF y
<1>7. CASE ~ev[i].cfg
  <2>. DEFINE m == y - 1
  <2>1. m \in 0 .. 254 /\ m + 1 = CmdCredits BY <1>2, <1>5
  <2>. HIDE DEF m
  <2>2. m % 256 = m /\ m \in 0 .. 255 BY <2>1, NoWrap
  <2>3. Spent(ev[i]) = [credits EXCEPT !.cmd = m] BY <1>7, <2>2 DEF Spent, y, m
  <2>4. /\ [credits EXCEPT !.cmd = m] \in CreditsT
        /\ [credits EXCEPT !.cmd = m].cmd = m /\ [credits EXCEPT !.cmd = m].cfg = credits.cfg
    <3>1. m \in 0 .. 255 BY <2>2
    <3>. QED BY <1>1, <3>1 DEF CreditsT
  <2>. QED BY <1>1, <1>5, <1>7, <2>1, <2>3, <2>4 DEF x
<1>. QED BY <1>1, <1>6, <1>7

\* The head is sent, or not; the idle cycle is counted.
LEMMA SendStep ==
  ASSUME IInv, send_mmio
  PROVE  IInv'
<1>. TypeOK /\ Wire /\ Stages /\ ListOK /\ Pointers /\ Credits /\ Clocked /\ Requests BY DEF IInv
<1>1. /\ pc = "send" /\ pc' \in {"slot", "clock"} /\ cur' = 0
      /\ UNCHANGED <<list, boot, client, app, opens, rport, dport, jobs>>
  BY DEF send_mmio, Slots
<1>2. ~rport.v /\ ~dport.v BY <1>1 DEF Wire
<1>3. Clocked' BY <1>1 DEF Clocked
<1>4. cur' \in Ctx BY <1>1, FirstSlot
<1>5. ocl' \in OclT
  <2>0. ocl \in OclT BY DEF TypeOK, OclT
  <2>. DEFINE n == ocl.idle
  <2>1. n > 0 /\ n \in 0 .. IdleCycles BY <1>1, <2>0 DEF Clocked, OclT
  <2>2. ocl' = ocl \/ ocl' = [ocl EXCEPT !.idle = n - 1] BY DEF send_mmio
  <2>. HIDE DEF n
  <2>3. n - 1 \in 0 .. IdleCycles BY <2>1, MmioAssumption DEF MmioAssumption
  <2>. QED BY <2>0, <2>2, <2>3 DEF OclT
<1>6. CASE list # <<>> /\ CanSend(ev[Head(list)])
  <2>. DEFINE i == list[1]
              e == ev[i]
              f == Sent(e)
  <2>0. list \in Seq(Ids) BY DEF TypeOK
  <2>1. /\ Head(list) = i /\ i \in Ids /\ e \in Event /\ i # Nil
        /\ \A k \in DOMAIN list : k # 1 => list[k] # i /\ list[k] \in Ids
    <3>1. ev \in [Ids -> Event] BY DEF TypeOK
    <3>2. /\ Head(list) = i /\ i \in Ids
          /\ \A k \in DOMAIN list : k # 1 => list[k] # i /\ list[k] \in Ids
      BY <1>6, <2>0 DEF ListOK, IsInjective
    <3>. QED BY <3>1, <3>2 DEF Nil, Ids
  <2>2. e.st = "OCSE_IDLE" /\ port = Nil BY <1>6, <2>1 DEF CanSend
  <2>3. jobs = <<>>
    <3>. SUFFICES ASSUME jobs # <<>> PROVE FALSE OBVIOUS
    <3>1. Coming(i, Head(Script), Tail(Script)) BY Zenon, <1>2 DEF Wire, Quiescent
    <3>. QED BY Zenon, <2>2, <3>1 DEF Coming
  <2>4. port' = i /\ ev' = [ev EXCEPT ![i] = f] /\ credits' = Spent(e)
    BY <1>6, <2>1 DEF send_mmio
  <2>5. /\ f \in Event /\ f.st = "OCSE_PENDING" /\ f.dl = Encoded(f.n)
        /\ f.cfg = e.cfg /\ f.own = e.own /\ f.runs = e.runs /\ f.recv = e.recv
        /\ f.mem = e.mem /\ f.rnw = e.rnw /\ f.n = e.n
    BY <2>1, SentType
  <2>. HIDE DEF f
  <2>6. ev' \in [Ids -> Event] /\ Pointers' /\ Requests'
    <3>1. f.st # "FREE" BY <2>5
    <3>. QED BY <1>1, <2>1, <2>4, <2>5, <3>1, OwnersKept
  <2>7. ev'[i] = f /\ \A k \in Ids : k # i => ev'[k] = ev[k] BY <2>1, <2>4 DEF TypeOK
  <2>8. Stages'
    <3>. SUFFICES ASSUME NEW k \in Ids
                  PROVE  LET g == ev'[k] IN
                    /\ g.st \in {"OCSE_IDLE", "FREE"} => g.runs = 0 /\ g.recv = 0
                    /\ g.st = "OCSE_PENDING" => /\ g.recv = 0 /\ g.dl = Encoded(g.n)
                                                /\ g.runs = IF k = i THEN 0 ELSE 1
                    /\ g.st = "OCSE_BUFFER" => /\ g.runs = 1 /\ g.idx = g.recv /\ g.recv < Size(g)
                                               /\ IsRead(g) /\ _resp_dldp_is_legal(g.dl, g.rdl, g.rdp)
                    /\ g.st = "OCSE_DONE" => g.runs = 1
      BY <2>4 DEF Stages
    <3>0. port # k BY <2>2 DEF Nil, Ids
    <3>1. CASE k = i BY <2>1, <2>2, <2>5, <2>7, <3>1 DEF Stages
    <3>2. CASE k # i BY <2>7, <3>0, <3>2 DEF Stages
    <3>. QED BY <3>1, <3>2
  <2>9. ListOK' BY <1>1, <2>1, <2>3, <2>5, <2>7 DEF ListOK
  <2>10. Wire'
    <3>1. ev'[port'].st = "OCSE_PENDING" /\ Len(jobs') <= 1 BY <1>1, <2>3, <2>4, <2>5, <2>7
    <3>. QED BY <1>1, <1>2, <1>6, <2>3, <2>4, <3>1 DEF Wire
  <2>11. /\ credits' \in CreditsT /\ e.cfg \in BOOLEAN
         /\ ~e.cfg => credits'.cmd + 1 = CmdCredits /\ credits'.cfg = CfgCredits
         /\ e.cfg => credits'.cfg + 1 = CfgCredits /\ credits'.cmd = CmdCredits
    BY <2>1, <2>2, <2>3, <2>4, CreditSpent
  <2>12. Credits'
    <3>1. port' # Nil /\ ev'[port'].cfg = e.cfg /\ jobs' = <<>> BY <1>1, <2>1, <2>3, <2>4, <2>5, <2>7
    <3>2. CmdCredits + 0 = CmdCredits /\ CfgCredits + 0 = CfgCredits BY MmioAssumption DEF MmioAssumption
    <3>3. CASE e.cfg = TRUE BY Zenon, <2>11, <3>1, <3>2, <3>3 DEF Credits
    <3>4. CASE e.cfg = FALSE BY Zenon, <2>11, <3>1, <3>2, <3>4 DEF Credits
    <3>. QED BY <2>11, <3>3, <3>4
  <2>13. TypeOK'
    <3>1. port' \in Ids \cup {Nil} BY <2>1, <2>4
    <3>. QED BY <1>1, <1>4, <1>5, <2>6, <2>11, <3>1 DEF TypeOK, OclT, CreditsT
  <2>. QED BY <1>3, <2>6, <2>8, <2>9, <2>10, <2>12, <2>13 DEF IInv
<1>7. CASE ~(list # <<>> /\ CanSend(ev[Head(list)]))
  <2>1. UNCHANGED <<port, ev, credits>> BY <1>7 DEF send_mmio
  <2>2. Wire' /\ Stages' /\ ListOK' /\ Credits' BY <1>1, <2>1, AfuKept
  <2>3. Pointers' BY <1>1, <2>1 DEF Pointers
  <2>4. Requests' BY <1>1, <2>1 DEF Requests
  <2>5. TypeOK' BY <1>1, <1>4, <1>5, <2>1 DEF TypeOK, OclT
  <2>. QED BY <1>3, <2>2, <2>3, <2>4, <2>5 DEF IInv
<1>. QED BY <1>6, <1>7

-----------------------------------------------------------------------------
(***************************************************************************)
(* The clients.                                                            *)
(***************************************************************************)
LEMMA ClientTypes ==
  /\ NoClient \in Client /\ NoClient.acc = Nil
  /\ NoApp \in App /\ NoApp.st = "none" /\ NoApp.wait = {} /\ NoApp.out = <<>>
<1>1. 0 \in 0 .. MaxOpens BY MmioAssumption DEF MmioAssumption
<1>2. NoClient \in Client /\ NoClient.acc = Nil BY <1>1 DEF NoClient, Client
<1>3. NoApp \in App BY DEF NoApp, App
<1>. QED BY <1>2, <1>3 DEF NoApp

\* A client that is dropped keeps what it points to.
LEMMA DropType ==
  ASSUME TypeOK, NEW c \in Ctx
  PROVE  client_drop(c) \in Client /\ client_drop(c).acc = client[c].acc /\ client_drop(c).id = client[c].id
<1>1. client[c] \in Client BY DEF TypeOK
<1>. QED BY <1>1 DEF client_drop, Client

\* A client drops what it points to, or keeps it.
LEMMA ClientKept ==
  ASSUME IInv, NEW c \in Ctx, NEW k \in Client, client' = [client EXCEPT ![c] = k],
         k.acc = Nil \/ (k.acc = client[c].acc /\ k.id = client[c].id), UNCHANGED <<ev, boot>>
  PROVE  /\ client' \in [Ctx -> Client] /\ Pointers' /\ client'[c] = k
         /\ \A d \in Ctx : d # c => client'[d] = client[d]
<1>. TypeOK /\ Pointers BY DEF IInv
<1>1. /\ client' \in [Ctx -> Client] /\ client'[c] = k /\ \A d \in Ctx : d # c => client'[d] = client[d]
  BY DEF TypeOK
<1>2. \A d \in Ctx : client'[d].acc # Nil => client'[d].acc = client[d].acc /\ client'[d].id = client[d].id
  BY <1>1
<1>3. Pointers' BY <1>2 DEF Pointers
<1>. QED BY <1>1, <1>3

\* Only one application and its client change.
LEMMA RequestsKept ==
  ASSUME IInv, NEW c \in Ctx, NEW a \in App, app' = [app EXCEPT ![c] = a],
         \A d \in Ctx : d # c => client'[d] = client[d],
         \A d \in Ctx : d # c /\ client[d].acc # Nil => ev'[client[d].acc] = ev[client[d].acc],
         a.st = "up" => Asked(a, client'[c].acc, AccessOf(ev'[client'[c].acc]))
  PROVE  Requests' /\ app' \in [Ctx -> App]
<1>. TypeOK /\ Requests BY DEF IInv
<1>1. app' \in [Ctx -> App] /\ app'[c] = a /\ \A d \in Ctx : d # c => app'[d] = app[d] BY DEF TypeOK
<1>2. Requests'
  <2>. SUFFICES ASSUME NEW d \in Ctx, app'[d].st = "up"
                PROVE  Asked(app'[d], client'[d].acc, AccessOf(ev'[client'[d].acc]))
    BY DEF Requests
  <2>1. CASE d = c BY <1>1, <2>1
  <2>2. CASE d # c
    <3>1. Asked(app[d], client[d].acc, AccessOf(ev[client[d].acc])) BY <1>1, <2>2 DEF Requests
    <3>2. app'[d] = app[d] /\ client'[d] = client[d] BY <1>1, <2>2
    <3>3. CASE client[d].acc = Nil BY Zenon, <3>1, <3>2, <3>3 DEF Asked
    <3>4. CASE client[d].acc # Nil
      <4>1. ev'[client[d].acc] = ev[client[d].acc] BY <2>2, <3>4
      <4>. QED BY <3>1, <3>2, <4>1
    <3>. QED BY <3>3, <3>4
  <2>. QED BY <2>1, <2>2
<1>. QED BY <1>1, <1>2

\* What the end of a slot's turn changes.
LEMMA NextSlotShape ==
  ASSUME TypeOK, NEW k \in Client, NextSlot(k)
  PROVE  LET h == [k EXCEPT !.idle = FALSE] IN
         /\ h \in Client /\ h.acc = k.acc /\ h.id = k.id /\ client' = [client EXCEPT ![cur] = h]
         /\ pc' \in {"slot", "clock"} /\ cur' \in Ctx
<1>1. /\ [k EXCEPT !.idle = FALSE] \in Client
      /\ [k EXCEPT !.idle = FALSE].acc = k.acc /\ [k EXCEPT !.idle = FALSE].id = k.id
  BY DEF Client
<1>2. cur' \in Ctx /\ pc' \in {"slot", "clock"} BY FirstSlot DEF NextSlot
<1>. QED BY <1>1, <1>2 DEF NextSlot

\* The thread is done with a slot and has left the events alone.
LEMMA SlotLeft ==
  ASSUME IInv, pc \in {"slot", "msg"}, NEW k \in Client, NextSlot(k),
         k.acc = Nil \/ (k.acc = client[cur].acc /\ k.id = client[cur].id),
         UNCHANGED <<list, ev, boot, opens, port, rport, dport, credits, jobs>>, ocl' \in OclT,
         NEW a \in App, app' = [app EXCEPT ![cur] = a],
         a.st = "up" => Asked(a, k.acc, AccessOf(ev[k.acc]))
  PROVE  IInv'
<1>. TypeOK BY DEF IInv
<1>. DEFINE h == [k EXCEPT !.idle = FALSE]
<1>0. cur \in Ctx BY DEF TypeOK
<1>1. /\ h \in Client /\ h.acc = k.acc /\ h.id = k.id /\ client' = [client EXCEPT ![cur] = h]
      /\ pc' \in {"slot", "clock"} /\ cur' \in Ctx
  BY NextSlotShape
<1>. HIDE DEF h
<1>2. Wire' /\ Stages' /\ ListOK' /\ Credits' BY <1>1, AfuKept
<1>3. /\ client' \in [Ctx -> Client] /\ Pointers' /\ client'[cur] = h
      /\ \A d \in Ctx : d # cur => client'[d] = client[d]
  BY <1>0, <1>1, ClientKept
<1>4. Requests' /\ app' \in [Ctx -> App]
  <2>1. a.st = "up" => Asked(a, client'[cur].acc, AccessOf(ev'[client'[cur].acc])) BY <1>1, <1>3
  <2>. QED BY <1>0, <1>3, <2>1, RequestsKept
<1>5. Clocked' BY <1>1 DEF Clocked
<1>6. TypeOK' BY <1>1, <1>3, <1>4 DEF TypeOK, OclT
<1>. QED BY <1>2, <1>3, <1>4, <1>5, <1>6 DEF IInv

\* An application that waits has asked for the access its slot points to.
LEMMA SameApp ==
  ASSUME IInv, NEW c \in Ctx
  PROVE  /\ app[c] \in App /\ app = [app EXCEPT ![c] = app[c]] /\ client[c] \in Client
         /\ app[c].st = "up" => Asked(app[c], client[c].acc, AccessOf(ev[client[c].acc]))
BY DEF IInv, TypeOK, Requests

\* The turns of a slot that handle no message keep IInv.
LEMMA SlotSteps ==
  ASSUME IInv, EmptySlot \/ ReleaseSlot \/ NoMessage \/ Lost
  PROVE  IInv'
<1>. TypeOK BY DEF IInv
<1>0. cur \in Ctx BY DEF TypeOK
<1>1. ocl \in OclT BY DEF TypeOK, OclT
<1>2. /\ app[cur] \in App /\ app = [app EXCEPT ![cur] = app[cur]] /\ client[cur] \in Client
      /\ app[cur].st = "up" => Asked(app[cur], client[cur].acc, AccessOf(ev[client[cur].acc]))
  BY <1>0, SameApp
<1>3. app[cur].st = "up" => Asked(app[cur], Nil, AccessOf(ev[Nil])) BY Zenon, <1>2 DEF Asked
<1>4. UNCHANGED <<list, ev, boot, ocl, app, opens, port, rport, dport, credits, jobs>>
  BY DEF EmptySlot, ReleaseSlot, NoMessage, Lost
<1>5. CASE EmptySlot \/ ReleaseSlot
  <2>1. pc = "slot" /\ NextSlot(NoClient) BY <1>5 DEF EmptySlot, ReleaseSlot
  <2>. QED BY <1>1, <1>2, <1>3, <1>4, <2>1, ClientTypes, SlotLeft
<1>6. CASE NoMessage
  <2>1. pc = "msg" /\ NextSlot(client[cur]) BY <1>6 DEF NoMessage
  <2>. QED BY <1>1, <1>2, <1>4, <2>1, SlotLeft
<1>7. CASE Lost
  <2>1. pc = "msg" /\ NextSlot(client_drop(cur)) BY <1>7 DEF Lost
  <2>. DEFINE k == client_drop(cur)
  <2>2. k \in Client /\ k.acc = client[cur].acc /\ k.id = client[cur].id BY <1>0, DropType
  <2>. HIDE DEF k
  <2>. QED BY <1>1, <1>2, <1>4, <2>1, <2>2, SlotLeft DEF k
<1>. QED BY <1>5, <1>6, <1>7

\* So does the command engine's dropping a client.
LEMMA CmdDropStep ==
  ASSUME IInv, NEW c \in Ctx, CmdDrop(c)
  PROVE  IInv'
<1>. TypeOK /\ Clocked BY DEF IInv
<1>. DEFINE k == client_drop(c)
<1>1. /\ pc = "send" /\ client' = [client EXCEPT ![c] = k]
      /\ UNCHANGED <<pc, cur, list, ev, boot, ocl, app, opens, port, rport, dport, credits, jobs>>
  BY DEF CmdDrop
<1>2. k \in Client /\ k.acc = client[c].acc /\ k.id = client[c].id BY DropType
<1>. HIDE DEF k
<1>3. Wire' /\ Stages' /\ ListOK' /\ Credits' BY <1>1, AfuKept
<1>4. /\ client' \in [Ctx -> Client] /\ Pointers' /\ client'[c] = k
      /\ \A d \in Ctx : d # c => client'[d] = client[d]
  BY <1>1, <1>2, ClientKept
<1>5. /\ app[c] \in App /\ app = [app EXCEPT ![c] = app[c]]
      /\ app[c].st = "up" => Asked(app[c], client[c].acc, AccessOf(ev[client[c].acc]))
  BY SameApp
<1>6. Requests'
  <2>1. app[c].st = "up" => Asked(app[c], client'[c].acc, AccessOf(ev'[client'[c].acc]))
    BY <1>1, <1>2, <1>4, <1>5
  <2>. QED BY <1>1, <1>4, <1>5, <2>1, RequestsKept
<1>7. Clocked' BY <1>1 DEF Clocked
<1>8. TypeOK' BY <1>1, <1>4 DEF TypeOK
<1>. QED BY <1>3, <1>4, <1>6, <1>7, <1>8 DEF IInv

-----------------------------------------------------------------------------
(***************************************************************************)
(* The requests of an application.                                         *)
(***************************************************************************)
\* The application after an answer to a request of a class.
LEMMA AnsweredType ==
  ASSUME TypeOK, NEW c \in Ctx, NEW class
  PROVE  LET b == Answered(c, class) IN
         /\ b \in App /\ b.out = app[c].out /\ b.st = app[c].st
         /\ app[c].st # "dead" => b.wait = {m \in app[c].wait : ClassOf(m) # class}
<1>. DEFINE a == app[c]
            w == {m \in a.wait : a.st = "dead" \/ ClassOf(m) # class}
            t == a.att \/ (class = "attach" /\ a.st # "dead")
<1>1. a \in App BY DEF TypeOK
<1>2. w \in SUBSET Msgs /\ t \in BOOLEAN BY <1>1 DEF App
<1>3. a.st # "dead" => w = {m \in a.wait : ClassOf(m) # class} BY Zenon
<1>4. Answered(c, class) = [a EXCEPT !.wait = w, !.att = t] BY DEF Answered
<1>. HIDE DEF w, t, a
<1>5. [a EXCEPT !.wait = w, !.att = t] \in App BY <1>1, <1>2 DEF App
<1>6. LET b == [a EXCEPT !.wait = w, !.att = t] IN b.out = a.out /\ b.st = a.st /\ b.wait = w
  BY <1>1 DEF App
<1>. QED BY <1>3, <1>4, <1>5, <1>6 DEF a

\* Changing what an application has sent keeps its type.
LEMMA OutType ==
  ASSUME NEW a \in App, NEW t \in Seq(Msgs)
  PROVE  LET b == [a EXCEPT !.out = t] IN b \in App /\ b.out = t /\ b.st = a.st /\ b.wait = a.wait
BY DEF App

\* ocse reads a message: what is left is of other requests.
LEMMA HeadRead ==
  ASSUME NEW a \in App, NEW x, NEW w, Asked(a, x, w), a.out # <<>>
  PROVE  LET m == Head(a.out)
             t == Tail(a.out)
         IN  /\ m \in a.wait /\ m \in Msgs /\ t \in Seq(Msgs) /\ IsInjective(t)
             /\ \A j \in DOMAIN t : t[j] \in a.wait /\ t[j] # m /\ ClassOf(t[j]) # ClassOf(m)
             /\ x # Nil => /\ w \in a.wait /\ ClassOf(w) # ClassOf(m)
                           /\ \A j \in DOMAIN t : t[j] # w
<1>. DEFINE s == a.out
            m == Head(s)
            t == Tail(s)
<1>1. s \in Seq(Msgs) /\ s # <<>> BY DEF App
<1>2. /\ \A j \in a.wait, n \in a.wait : ClassOf(j) = ClassOf(n) => j = n
      /\ \A j \in DOMAIN s : s[j] \in a.wait
      /\ IsInjective(s)
      /\ x # Nil => w \in a.wait /\ \A j \in DOMAIN s : s[j] # w
  BY Zenon DEF Asked
<1>. HIDE DEF s
<1>3. /\ 1 \in DOMAIN s /\ m = s[1] /\ m \in Msgs /\ t \in Seq(Msgs)
      /\ \A j \in DOMAIN t : j + 1 \in DOMAIN s /\ t[j] = s[j + 1] /\ j + 1 # 1 /\ j \in Nat
  BY <1>1
<1>. HIDE DEF m, t
<1>4. m \in a.wait BY <1>2, <1>3
<1>5. \A j \in DOMAIN t : t[j] \in a.wait /\ t[j] # m BY <1>2, <1>3 DEF IsInjective
<1>6. \A j \in DOMAIN t : ClassOf(t[j]) # ClassOf(m) BY Zenon, <1>2, <1>4, <1>5
<1>7. IsInjective(t)
  <2>. SUFFICES ASSUME NEW j \in DOMAIN t, NEW k \in DOMAIN t, t[j] = t[k] PROVE j = k BY DEF IsInjective
  <2>1. j + 1 = k + 1 BY <1>2, <1>3 DEF IsInjective
  <2>. QED BY <1>3, <2>1
<1>8. x # Nil => /\ w \in a.wait /\ ClassOf(w) # ClassOf(m) /\ \A j \in DOMAIN t : t[j] # w
  <2>. SUFFICES ASSUME x # Nil
                PROVE  w \in a.wait /\ ClassOf(w) # ClassOf(m) /\ \A j \in DOMAIN t : t[j] # w
    OBVIOUS
  <2>1. w \in a.wait /\ w # m BY <1>2, <1>3
  <2>2. \A j \in DOMAIN t : t[j] # w BY <1>2, <1>3
  <2>. QED BY Zenon, <1>2, <1>4, <2>1, <2>2
<1>. QED BY <1>3, <1>4, <1>5, <1>6, <1>7, <1>8 DEF m, t, s

\* The message is answered at once, or not at all.
LEMMA AskedAfter ==
  ASSUME NEW a \in App, NEW x, NEW w, Asked(a, x, w), a.out # <<>>,
         NEW b, b.out = Tail(a.out),
         \/ b.wait = a.wait
         \/ b.wait = {n \in a.wait : ClassOf(n) # ClassOf(Head(a.out))}
  PROVE  Asked(b, x, w)
<1>. DEFINE m == Head(a.out)
            t == Tail(a.out)
<1>1. /\ IsInjective(t)
      /\ \A j \in DOMAIN t : t[j] \in a.wait /\ ClassOf(t[j]) # ClassOf(m)
      /\ x # Nil => /\ w \in a.wait /\ ClassOf(w) # ClassOf(m) /\ \A j \in DOMAIN t : t[j] # w
  BY HeadRead
<1>2. \A j \in a.wait, n \in a.wait : ClassOf(j) = ClassOf(n) => j = n BY Zenon DEF Asked
<1>3. b.out = t OBVIOUS
<1>. HIDE DEF t, m
<1>4. \A n \in b.wait : n \in a.wait OBVIOUS
<1>5. \A n \in a.wait : ClassOf(n) # ClassOf(m) => n \in b.wait BY Zenon DEF m
<1>. QED BY Zenon, <1>1, <1>2, <1>3, <1>4, <1>5 DEF Asked

\* The access the client points to is answered.
LEMMA AskedDone ==
  ASSUME NEW a, NEW x, NEW w, Asked(a, x, w), x # Nil,
         NEW b, b.out = a.out, b.wait = {n \in a.wait : ClassOf(n) # ClassOf(w)}, NEW y
  PROVE  Asked(b, Nil, y)
<1>1. /\ \A j \in a.wait, n \in a.wait : ClassOf(j) = ClassOf(n) => j = n
      /\ \A j \in DOMAIN a.out : a.out[j] \in a.wait
      /\ IsInjective(a.out)
      /\ w \in a.wait /\ \A j \in DOMAIN a.out : a.out[j] # w
  BY Zenon DEF Asked
<1>2. \A j \in DOMAIN b.out : b.out[j] \in b.wait BY Zenon, <1>1
<1>3. \A j \in b.wait : j \in a.wait OBVIOUS
<1>. QED BY Zenon, <1>1, <1>2, <1>3 DEF Asked

-----------------------------------------------------------------------------
(***************************************************************************)
(* Events come and go.                                                     *)
(***************************************************************************)
\* While the thread is not between the clock and send_mmio, a done event is not
\* on the list and not with the AFU, so it may be freed.
LEMMA EventFreed ==
  ASSUME IInv, NEW i \in Ids, ev[i].st = "OCSE_DONE", ev' = [ev EXCEPT ![i] = NoEvent],
         pc \notin {"resp", "data"}, pc' \notin {"resp", "data"},
         UNCHANGED <<list, port, rport, dport, credits, jobs>>
  PROVE  /\ Wire' /\ Stages' /\ ListOK' /\ Credits' /\ ev' \in [Ids -> Event]
         /\ \A k \in Ids : k # i => ev'[k] = ev[k]
<1>. TypeOK /\ Wire /\ Stages /\ ListOK /\ Credits BY DEF IInv
<1>1. ev' \in [Ids -> Event] /\ ev'[i] = NoEvent /\ \A k \in Ids : k # i => ev'[k] = ev[k]
  BY EventTypes DEF TypeOK
<1>2. list \in Seq(Ids) BY DEF TypeOK
<1>3. \A k \in DOMAIN list : list[k] # i /\ list[k] \in Ids
  <2>. TAKE k \in DOMAIN list
  <2>1. list # <<>> /\ list[k] \in Ids BY <1>2
  <2>. QED BY <2>1 DEF ListOK
<1>4. \A k \in DOMAIN list : ev'[list[k]] = ev[list[k]] BY <1>1, <1>3
<1>5. list # <<>> => 1 \in DOMAIN list BY <1>2
<1>6. ListOK' BY <1>4, <1>5 DEF ListOK
<1>7. port # Nil => ev'[port] = ev[port] BY <1>4, <1>5 DEF Wire
<1>8. jobs # <<>> => ev'[jobs[1].id] = ev[jobs[1].id] BY <1>4, <1>5 DEF Wire
<1>9. Credits' BY <1>7, <1>8 DEF Credits
<1>10. Script' = Script BY DEF Script
<1>11. jobs # <<>> => Coming(list[1], Head(Script), Tail(Script))'
  <2>1. ~rport.v /\ ~dport.v BY DEF Wire
  <2>2. jobs # <<>> => Coming(list[1], Head(Script), Tail(Script)) /\ list # <<>>
    BY Zenon, <2>1 DEF Wire, Quiescent
  <2>. QED BY Zenon, <1>4, <1>5, <1>10, <2>2 DEF Coming
<1>12. Wire' BY Zenon, <1>7, <1>11 DEF Wire
<1>13. Stages'
  <2>1. NoEvent.st = "FREE" /\ NoEvent.runs = 0 /\ NoEvent.recv = 0 BY DEF NoEvent
  <2>. SUFFICES ASSUME NEW k \in Ids
                PROVE  LET e == ev'[k] IN
                  /\ e.st \in {"OCSE_IDLE", "FREE"} => e.runs = 0 /\ e.recv = 0
                  /\ e.st = "OCSE_PENDING" => /\ e.recv = 0 /\ e.dl = Encoded(e.n)
                                              /\ e.runs = IF port = k THEN 0 ELSE 1
                  /\ e.st = "OCSE_BUFFER" => /\ e.runs = 1 /\ e.idx = e.recv /\ e.recv < Size(e)
                                             /\ IsRead(e) /\ _resp_dldp_is_legal(e.dl, e.rdl, e.rdp)
                  /\ e.st = "OCSE_DONE" => e.runs = 1
    BY DEF Stages
  <2>2. CASE k = i BY <1>1, <2>1, <2>2
  <2>3. CASE k # i BY <1>1, <2>3 DEF Stages
  <2>. QED BY <2>2, <2>3
<1>. QED BY <1>1, <1>6, <1>9, <1>12, <1>13

\* What malloc returns, nobody points to.
LEMMA FreshId ==
  ASSUME IInv, NEW i \in FreeIds
  PROVE  /\ i \in Ids /\ i # boot.id /\ \A k \in DOMAIN list : list[k] # i
         /\ \A c \in Ctx : client[c].acc # i
<1>. TypeOK /\ ListOK /\ Pointers BY DEF IInv
<1>1. i \in Ids /\ i # Nil BY DEF FreeIds, Ids, Nil
<1>2. list \in Seq(Ids) /\ (list # <<>> => 1 \in DOMAIN list) BY DEF TypeOK
<1>3. CASE ev[i].st = "FREE"
  <2>1. \A k \in DOMAIN list : list[k] # i
    <3>. TAKE k \in DOMAIN list
    <3>1. list # <<>> BY <1>2
    <3>. QED BY <1>2, <1>3, <3>1 DEF ListOK
  <2>. QED BY <1>1, <1>3, <2>1 DEF Pointers
<1>4. CASE i \notin Reachable
  <2>1. \A k \in DOMAIN list : k \in 1 .. Len(list) BY <1>2
  <2>. QED BY <1>1, <1>4, <2>1 DEF Reachable
<1>. QED BY <1>3, <1>4 DEF FreeIds

\* A new event is added to the end of the list.
LEMMA EventAdded ==
  ASSUME IInv, NEW i \in Ids, NEW e \in Event, _add_event(i, e), e.st = "OCSE_IDLE", e.runs = 0, e.recv = 0,
         pc \notin {"resp", "data"}, pc' \notin {"resp", "data"},
         UNCHANGED <<port, rport, dport, credits, jobs>>
  PROVE  /\ Wire' /\ Stages' /\ ListOK' /\ Credits' /\ ev' \in [Ids -> Event] /\ list' \in Seq(Ids)
         /\ ev'[i] = e /\ \A k \in Ids : k # i => ev'[k] = ev[k]
         /\ i # boot.id /\ \A c \in Ctx : client[c].acc # i
<1>. TypeOK /\ Wire /\ Stages /\ ListOK /\ Credits BY DEF IInv
<1>0. i \in FreeIds /\ ev' = [ev EXCEPT ![i] = e] /\ list' = Append(list, i) BY DEF _add_event
<1>1. ev' \in [Ids -> Event] /\ ev'[i] = e /\ \A k \in Ids : k # i => ev'[k] = ev[k]
  BY <1>0 DEF TypeOK
<1>2. list \in Seq(Ids) BY DEF TypeOK
<1>3. /\ i # boot.id /\ \A k \in DOMAIN list : list[k] # i
      /\ \A c \in Ctx : client[c].acc # i
  BY <1>0, FreshId
<1>. DEFINE n == Len(list)
<1>4. /\ n \in Nat /\ DOMAIN list = 1 .. n /\ list' \in Seq(Ids) /\ DOMAIN list' = 1 .. n + 1
      /\ list'[n + 1] = i /\ (list = <<>> <=> n = 0) /\ list' # <<>>
      /\ \A k \in 1 .. n : list'[k] = list[k] /\ list[k] \in Ids
  BY <1>0, <1>2
<1>. HIDE DEF n
<1>5. \A k \in 1 .. n : ev'[list[k]] = ev[list[k]] BY <1>1, <1>3, <1>4
<1>6. list # <<>> => 1 \in 1 .. n /\ list'[1] = list[1] BY <1>4
<1>7. list = <<>> => list'[1] = i BY <1>4
<1>8. ListOK'
  <2>1. \A k \in DOMAIN list' : k \in 1 .. n \/ (k = n + 1 /\ list'[k] = i) BY <1>4
  <2>2. IsInjective(list')
    <3>. SUFFICES ASSUME NEW j \in DOMAIN list', NEW k \in DOMAIN list', list'[j] = list'[k]
                  PROVE  j = k
      BY DEF IsInjective
    <3>. QED BY <1>3, <1>4, <2>1 DEF ListOK, IsInjective
  <2>3. \A k \in DOMAIN list' : k # 1 => ev'[list'[k]].st = "OCSE_IDLE"
    <3>. SUFFICES ASSUME NEW k \in DOMAIN list', k # 1 PROVE ev'[list'[k]].st = "OCSE_IDLE" OBVIOUS
    <3>1. CASE k \in 1 .. n BY <1>4, <1>5, <3>1 DEF ListOK
    <3>2. CASE list'[k] = i BY <1>1, <3>2
    <3>. QED BY <2>1, <3>1, <3>2
  <2>4. ev'[list'[1]].st \notin {"FREE", "OCSE_DONE"}
    <3>1. CASE list = <<>> BY <1>1, <1>7, <3>1
    <3>2. CASE list # <<>> BY <1>5, <1>6, <3>2 DEF ListOK
    <3>. QED BY <3>1, <3>2
  <2>. QED BY <2>2, <2>3, <2>4 DEF ListOK
<1>9. port # Nil => ev'[port] = ev[port] BY <1>5, <1>6 DEF Wire
<1>10. jobs # <<>> => ev'[jobs[1].id] = ev[jobs[1].id] BY <1>5, <1>6 DEF Wire
<1>11. Credits' BY <1>9, <1>10 DEF Credits
<1>12. Script' = Script BY DEF Script
<1>13. jobs # <<>> => Coming(list[1], Head(Script), Tail(Script))'
  <2>1. ~rport.v /\ ~dport.v BY DEF Wire
  <2>2. jobs # <<>> => Coming(list[1], Head(Script), Tail(Script)) /\ list # <<>>
    BY Zenon, <2>1 DEF Wire, Quiescent
  <2>. QED BY Zenon, <1>5, <1>6, <1>12, <2>2 DEF Coming
<1>14. Wire'
  <2>1. /\ port # Nil => port = list'[1] /\ ev'[port].st = "OCSE_PENDING"
        /\ jobs # <<>> => jobs[1].id = list'[1]
    BY <1>6, <1>9 DEF Wire
  <2>. QED BY Zenon, <1>4, <1>13, <2>1 DEF Wire
<1>15. Stages'
  <2>. SUFFICES ASSUME NEW k \in Ids
                PROVE  LET g == ev'[k] IN
                  /\ g.st \in {"OCSE_IDLE", "FREE"} => g.runs = 0 /\ g.recv = 0
                  /\ g.st = "OCSE_PENDING" => /\ g.recv = 0 /\ g.dl = Encoded(g.n)
                                              /\ g.runs = IF port = k THEN 0 ELSE 1
                  /\ g.st = "OCSE_BUFFER" => /\ g.runs = 1 /\ g.idx = g.recv /\ g.recv < Size(g)
                                             /\ IsRead(g) /\ _resp_dldp_is_legal(g.dl, g.rdl, g.rdp)
                  /\ g.st = "OCSE_DONE" => g.runs = 1
    BY DEF Stages
  <2>1. CASE k = i BY <1>1, <2>1
  <2>2. CASE k # i BY <1>1, <2>2 DEF Stages
  <2>. QED BY <2>1, <2>2
<1>. QED BY <1>1, <1>3, <1>4, <1>8, <1>11, <1>14, <1>15

-----------------------------------------------------------------------------
(***************************************************************************)
(* The steps of the clients and of the configuration.                      *)
(***************************************************************************)
LEMMA AccessClass ==
  ASSUME NEW e \in Event
  PROVE  ClassOf(AccessOf(e)) = IF e.mem THEN "mem" ELSE "mmio"
<1>1. AccessOf(e).t = "access" /\ AccessOf(e).q.mem = e.mem BY DEF AccessOf
<1>2. e.mem \in BOOLEAN BY DEF Event
<1>3. "access" # "attach" OBVIOUS
<1>. HIDE DEF AccessOf
<1>4. CASE e.mem BY <1>1, <1>3, <1>4 DEF ClassOf
<1>5. CASE ~e.mem BY <1>1, <1>2, <1>3, <1>5 DEF ClassOf
<1>. QED BY <1>4, <1>5

\* A client whose access is done is given its result.
LEMMA DoneStep ==
  ASSUME IInv, handle_mmio_done
  PROVE  IInv'
<1>. TypeOK /\ Pointers /\ Requests BY DEF IInv
<1>. DEFINE k == client[cur]
<1>0. cur \in Ctx /\ k \in Client /\ k.acc \in Ids \cup {Nil} BY DEF TypeOK, Client
<1>1. /\ pc = "slot" /\ pc' = "msg"
      /\ UNCHANGED <<cur, list, boot, ocl, opens, port, rport, dport, credits, jobs>>
  BY DEF handle_mmio_done
<1>2. Clocked' BY <1>1 DEF Clocked
<1>3. /\ app[cur] \in App /\ app = [app EXCEPT ![cur] = app[cur]]
      /\ app[cur].st = "up" => Asked(app[cur], k.acc, AccessOf(ev[k.acc]))
  BY <1>0, SameApp
<1>4. CASE k.acc = Nil
  <2>1. UNCHANGED <<client, ev, app>> BY <1>4 DEF handle_mmio_done
  <2>2. Wire' /\ Stages' /\ ListOK' /\ Credits' BY <1>1, <2>1, AfuKept
  <2>3. Pointers' BY <1>1, <2>1 DEF Pointers
  <2>4. Requests' BY <2>1 DEF Requests
  <2>5. TypeOK' BY <1>1, <2>1 DEF TypeOK
  <2>. QED BY <1>2, <2>2, <2>3, <2>4, <2>5 DEF IInv
<1>5. CASE k.acc # Nil /\ ev[k.acc].st # "OCSE_DONE"
  <2>. DEFINE h == [k EXCEPT !.idle = TRUE]
  <2>1. client' = [client EXCEPT ![cur] = h] /\ UNCHANGED <<ev, app>> BY <1>5 DEF handle_mmio_done
  <2>2. h \in Client /\ h.acc = k.acc /\ h.id = k.id BY <1>0 DEF Client
  <2>. HIDE DEF h
  <2>3. Wire' /\ Stages' /\ ListOK' /\ Credits' BY <1>1, <2>1, AfuKept
  <2>4. /\ client' \in [Ctx -> Client] /\ Pointers' /\ client'[cur] = h
        /\ \A d \in Ctx : d # cur => client'[d] = client[d]
    BY <1>0, <1>1, <2>1, <2>2, ClientKept
  <2>5. Requests'
    <3>1. app[cur].st = "up" => Asked(app[cur], client'[cur].acc, AccessOf(ev'[client'[cur].acc]))
      BY <1>3, <2>1, <2>2, <2>4
    <3>. QED BY <1>0, <1>3, <2>1, <2>4, <3>1, RequestsKept
  <2>6. TypeOK' BY <1>1, <2>1, <2>4 DEF TypeOK
  <2>. QED BY <1>2, <2>3, <2>4, <2>5, <2>6 DEF IInv
<1>6. CASE k.acc # Nil /\ ev[k.acc].st = "OCSE_DONE"
  <2>. DEFINE i == k.acc
              class == IF ev[i].mem THEN "mem" ELSE "mmio"
  <2>1. i \in Ids /\ ev[i] \in Event /\ ev[i].st = "OCSE_DONE" BY <1>0, <1>6 DEF TypeOK
  <2>2. PICK ok \in put_bytes(cur) :
          /\ ev' = [ev EXCEPT ![i] = NoEvent]
          /\ client' = [client EXCEPT ![cur] = [(IF ok THEN k ELSE client_drop(cur))
                                                 EXCEPT !.acc = Nil, !.idle = TRUE]]
          /\ app' = IF ok THEN [app EXCEPT ![cur] = Answered(cur, class)] ELSE app
    BY <1>6 DEF handle_mmio_done
  <2>3. /\ Wire' /\ Stages' /\ ListOK' /\ Credits' /\ ev' \in [Ids -> Event]
        /\ \A j \in Ids : j # i => ev'[j] = ev[j]
    BY <1>1, <2>1, <2>2, EventFreed
  <2>. DEFINE g == IF ok THEN k ELSE client_drop(cur)
              h == [g EXCEPT !.acc = Nil, !.idle = TRUE]
  <2>4. g \in Client BY <1>0, DropType
  <2>. HIDE DEF g
  <2>5. h \in Client /\ h.acc = Nil /\ client' = [client EXCEPT ![cur] = h]
    <3>1. h \in Client /\ h.acc = Nil BY <2>4 DEF Client
    <3>. QED BY <2>2, <3>1 DEF g
  <2>. HIDE DEF h
  <2>6. /\ client' \in [Ctx -> Client] /\ client'[cur] = h
        /\ \A d \in Ctx : d # cur => client'[d] = client[d]
    BY <1>0, <2>5 DEF TypeOK
  <2>7. \A d \in Ctx : client'[d].acc # Nil =>
          /\ d # cur /\ client'[d] = client[d] /\ client[d].acc \in Ids /\ client[d].acc # i
          /\ ev'[client[d].acc] = ev[client[d].acc]
    <3>. SUFFICES ASSUME NEW d \in Ctx, client'[d].acc # Nil
                  PROVE  /\ d # cur /\ client'[d] = client[d] /\ client[d].acc \in Ids /\ client[d].acc # i
                         /\ ev'[client[d].acc] = ev[client[d].acc]
      OBVIOUS
    <3>1. d # cur /\ client'[d] = client[d] BY <2>5, <2>6
    <3>2. client[d] \in Client /\ client[d].acc # Nil BY <3>1 DEF TypeOK
    <3>3. client[d].acc \in Ids BY <3>2 DEF Client
    <3>4. client[d].acc # i BY <1>0, <3>1, <3>2, <1>6 DEF Pointers
    <3>. QED BY <2>3, <3>1, <3>3, <3>4
  <2>8. boot.id # Nil => ev'[boot.id] = ev[boot.id]
    <3>1. boot.id \in Ids \cup {Nil} BY DEF TypeOK
    <3>2. boot.id # i BY <1>0, <1>6 DEF Pointers
    <3>. QED BY <2>3, <3>1, <3>2
  <2>9. Pointers'
    <3>1. boot'.id # Nil => ev'[boot'.id].st # "FREE" /\ boot'.done < Len(CfgOps) BY <1>1, <2>8 DEF Pointers
    <3>2. ASSUME NEW c \in Ctx, client'[c].acc # Nil
          PROVE  /\ ev'[client'[c].acc].st # "FREE" /\ client'[c].acc # boot'.id
                 /\ ev'[client'[c].acc].own = client'[c].id /\ ~ev'[client'[c].acc].cfg
                 /\ \A d \in Ctx : client'[d].acc = client'[c].acc => d = c
      <4>1. /\ client'[c] = client[c] /\ ev'[client[c].acc] = ev[client[c].acc] /\ client[c].acc # Nil
        BY <3>2, <2>7
      <4>2. \A d \in Ctx : client'[d].acc = client'[c].acc => d = c BY <2>7, <3>2, <4>1 DEF Pointers
      <4>. QED BY <1>1, <4>1, <4>2 DEF Pointers
    <3>. QED BY <3>1, <3>2 DEF Pointers
  <2>. DEFINE b == IF ok THEN Answered(cur, class) ELSE app[cur]
  <2>10. b \in App /\ app' = [app EXCEPT ![cur] = b] BY <1>0, <1>3, <2>2, AnsweredType
  <2>11. b.st = "up" => Asked(b, Nil, AccessOf(ev'[Nil]))
    <3>. SUFFICES ASSUME b.st = "up" PROVE Asked(b, Nil, AccessOf(ev'[Nil])) OBVIOUS
    <3>1. app[cur].st = "up" BY <1>0, AnsweredType
    <3>2. ok BY <2>2, <3>1 DEF put_bytes
    <3>3. b.out = app[cur].out /\ b.wait = {m \in app[cur].wait : ClassOf(m) # class}
      BY <1>0, <3>1, <3>2, AnsweredType
    <3>4. class = ClassOf(AccessOf(ev[i])) BY <2>1, AccessClass
    <3>5. Asked(app[cur], i, AccessOf(ev[i])) BY <1>3, <3>1
    <3>. HIDE DEF b, class
    <3>6. i # Nil BY <1>6
    <3>. QED BY Zenon, <3>3, <3>4, <3>5, <3>6, AskedDone
  <2>. HIDE DEF b
  <2>12. Requests' /\ app' \in [Ctx -> App]
    <3>1. \A d \in Ctx : d # cur /\ client[d].acc # Nil => ev'[client[d].acc] = ev[client[d].acc]
      BY <2>6, <2>7
    <3>2. b.st = "up" => Asked(b, client'[cur].acc, AccessOf(ev'[client'[cur].acc]))
      BY <2>5, <2>6, <2>11
    <3>. QED BY <1>0, <2>6, <2>10, <3>1, <3>2, RequestsKept
  <2>13. TypeOK' BY <1>1, <2>3, <2>6, <2>12 DEF TypeOK
  <2>. QED BY <1>2, <2>3, <2>9, <2>12, <2>13 DEF IInv
<1>. QED BY <1>4, <1>5, <1>6

\* A client or the configuration thread points to a new event; the others keep
\* what they have.
LEMMA NewPointer ==
  ASSUME IInv, NEW i \in Ids, i # boot.id, \A c \in Ctx : client[c].acc # i,
         \A k \in Ids : k # i => ev'[k] = ev[k]
  PROVE  /\ boot.id # Nil => ev'[boot.id] = ev[boot.id]
         /\ \A c \in Ctx : client[c].acc # Nil => ev'[client[c].acc] = ev[client[c].acc]
<1>. TypeOK BY DEF IInv
<1>1. boot.id \in Ids \cup {Nil} BY DEF TypeOK
<1>2. \A c \in Ctx : client[c].acc \in Ids \cup {Nil} BY DEF TypeOK, Client
<1>. QED BY <1>1, <1>2

\* The class of a message of each type.
LEMMA MsgFields ==
  ASSUME NEW m \in Msgs
  PROVE  /\ m.t = "attach" => ClassOf(m) = "attach"
         /\ m.t = "map" => ClassOf(m) = "mmio"
         /\ m.t = "access" => m.q \in Reqs /\ m = [t |-> "access", q |-> m.q]
<1>1. m.t = "attach" => ClassOf(m) = "attach" BY DEF ClassOf
<1>2. m.t = "map" => ClassOf(m) = "mmio" BY DEF ClassOf
<1>3. m.t = "access" => m.q \in Reqs /\ m = [t |-> "access", q |-> m.q]
  <2>1. CASE m \in {Plain(t) : t \in {"attach", "map", "detach"}} BY <2>1 DEF Plain
  <2>2. CASE m \in [t : {"access"}, q : Reqs] BY <2>2
  <2>. QED BY <2>1, <2>2 DEF Msgs
<1>. QED BY <1>1, <1>2, <1>3

\* ocse answers the attachment or the mapping at once.
LEMMA AnswerStep ==
  ASSUME IInv, NEW class, pc = "msg", app[cur].out # <<>>, ClassOf(Head(app[cur].out)) = class,
         NEW ok \in put_bytes(cur), NEW ack \in BOOLEAN,
         NextSlot(IF ok THEN client[cur] ELSE client_drop(cur)),
         app' = [app EXCEPT ![cur] = [(IF ok /\ ack THEN Answered(cur, class) ELSE app[cur])
                                       EXCEPT !.out = Tail(app[cur].out)]],
         UNCHANGED <<list, ev, boot, opens, port, rport, dport, credits, jobs>>, ocl' \in OclT
  PROVE  IInv'
<1>. TypeOK BY DEF IInv
<1>0. cur \in Ctx BY DEF TypeOK
<1>1. /\ app[cur] \in App /\ client[cur] \in Client
      /\ app[cur].st = "up" => Asked(app[cur], client[cur].acc, AccessOf(ev[client[cur].acc]))
  BY <1>0, SameApp
<1>. DEFINE k == IF ok THEN client[cur] ELSE client_drop(cur)
            d == IF ok /\ ack THEN Answered(cur, class) ELSE app[cur]
            t == Tail(app[cur].out)
            b == [d EXCEPT !.out = t]
<1>2. k \in Client /\ k.acc = client[cur].acc /\ k.id = client[cur].id BY <1>0, <1>1, DropType
<1>3. /\ d \in App /\ d.st = app[cur].st
      /\ app[cur].st = "up" => d.wait \in {app[cur].wait, {n \in app[cur].wait : ClassOf(n) # class}}
  BY <1>0, <1>1, AnsweredType
<1>4. t \in Seq(Msgs)
  <2>1. app[cur].out \in Seq(Msgs) BY <1>1 DEF App
  <2>. QED BY <2>1
<1>. HIDE DEF d, t, k
<1>5. b \in App /\ b.out = t /\ b.st = d.st /\ b.wait = d.wait BY <1>3, <1>4, OutType
<1>. HIDE DEF b
<1>6. b.st = "up" => Asked(b, client[cur].acc, AccessOf(ev[client[cur].acc]))
  <2>. SUFFICES ASSUME b.st = "up"
                PROVE  Asked(b, client[cur].acc, AccessOf(ev[client[cur].acc]))
    OBVIOUS
  <2>1. /\ Asked(app[cur], client[cur].acc, AccessOf(ev[client[cur].acc])) /\ b.out = Tail(app[cur].out)
        /\ \/ b.wait = app[cur].wait
           \/ b.wait = {n \in app[cur].wait : ClassOf(n) # ClassOf(Head(app[cur].out))}
    BY <1>1, <1>3, <1>5 DEF t
  <2>. QED BY Zenon, <1>1, <2>1, AskedAfter
<1>7. app' = [app EXCEPT ![cur] = b] /\ NextSlot(k) BY DEF b, d, t, k
<1>. QED BY <1>2, <1>5, <1>6, <1>7, SlotLeft

\* An access is queued.
LEMMA QueuedStep ==
  ASSUME IInv, pc = "msg", app[cur].out # <<>>, Head(app[cur].out).t = "access",
         Queued(client[cur], Head(app[cur].out).q, Tail(app[cur].out)),
         UNCHANGED <<boot, opens, port, rport, dport, credits, jobs>>
  PROVE  IInv'
<1>. TypeOK /\ Pointers BY DEF IInv
<1>. DEFINE k == client[cur]
            m == Head(app[cur].out)
            t == Tail(app[cur].out)
            e == NewEvent(FALSE, m.q, k.id)
<1>0. cur \in Ctx BY DEF TypeOK
<1>1. /\ app[cur] \in App /\ k \in Client
      /\ app[cur].st = "up" => Asked(app[cur], k.acc, AccessOf(ev[k.acc]))
  BY <1>0, SameApp
<1>2. m \in Msgs /\ t \in Seq(Msgs) /\ k.id \in 0 .. MaxOpens
  <2>1. app[cur].out \in Seq(Msgs) BY <1>1 DEF App
  <2>. QED BY <1>1, <2>1 DEF Client
<1>3. m.q \in Reqs /\ m = [t |-> "access", q |-> m.q] BY <1>2, MsgFields
<1>4. m.q \in ReqT BY <1>3, MmioAssumption DEF MmioAssumption, ReqT
<1>5. /\ e \in Event /\ e.st = "OCSE_IDLE" /\ e.cfg = FALSE /\ e.own = k.id /\ e.runs = 0 /\ e.recv = 0
      /\ e.mem = m.q.mem /\ e.rnw = m.q.rnw /\ e.n = m.q.n
  <2>. DEFINE q == m.q
              o == k.id
  <2>1. q \in ReqT /\ o \in 0 .. MaxOpens BY <1>2, <1>4
  <2>. HIDE DEF q, o
  <2>2. /\ NewEvent(FALSE, q, o) \in Event /\ NewEvent(FALSE, q, o).st = "OCSE_IDLE"
        /\ NewEvent(FALSE, q, o).cfg = FALSE /\ NewEvent(FALSE, q, o).own = o
        /\ NewEvent(FALSE, q, o).runs = 0 /\ NewEvent(FALSE, q, o).recv = 0
        /\ NewEvent(FALSE, q, o).mem = q.mem /\ NewEvent(FALSE, q, o).rnw = q.rnw
        /\ NewEvent(FALSE, q, o).n = q.n
    BY <2>1, NewEventType
  <2>. QED BY <2>2 DEF q, o
<1>6. AccessOf(e) = m
  <2>1. m.q = [mem |-> m.q.mem, rnw |-> m.q.rnw, n |-> m.q.n] BY <1>4 DEF ReqT
  <2>. QED BY <1>3, <1>5, <2>1, Zenon DEF AccessOf
<1>. HIDE DEF e
<1>7. PICK i \in Ids : _add_event(i, e) /\ NextSlot([k EXCEPT !.acc = i]) BY DEF Queued, e
<1>8. app' = [app EXCEPT ![cur] = [app[cur] EXCEPT !.out = t]] /\ ocl' = ocl BY DEF Queued
<1>. DEFINE k2 == [k EXCEPT !.acc = i]
            h == [k2 EXCEPT !.idle = FALSE]
<1>9. k2 \in Client /\ k2.acc = i /\ k2.id = k.id BY <1>1 DEF Client
<1>. HIDE DEF k2
<1>10. /\ h \in Client /\ h.acc = i /\ h.id = k.id /\ client' = [client EXCEPT ![cur] = h]
       /\ pc' \in {"slot", "clock"} /\ cur' \in Ctx
  <2>1. NextSlot(k2) BY <1>7 DEF k2
  <2>. QED BY <1>9, <2>1, NextSlotShape
<1>. HIDE DEF h
<1>11. /\ Wire' /\ Stages' /\ ListOK' /\ Credits' /\ ev' \in [Ids -> Event] /\ list' \in Seq(Ids)
       /\ ev'[i] = e /\ \A j \in Ids : j # i => ev'[j] = ev[j]
       /\ i # boot.id /\ \A c \in Ctx : client[c].acc # i
  BY <1>5, <1>7, <1>10, EventAdded
<1>12. /\ boot.id # Nil => ev'[boot.id] = ev[boot.id]
       /\ \A c \in Ctx : client[c].acc # Nil => ev'[client[c].acc] = ev[client[c].acc]
  BY <1>11, NewPointer
<1>13. /\ client' \in [Ctx -> Client] /\ client'[cur] = h /\ \A d \in Ctx : d # cur => client'[d] = client[d]
  BY <1>0, <1>10 DEF TypeOK
<1>14. Pointers'
  <2>1. boot'.id # Nil => ev'[boot'.id].st # "FREE" /\ boot'.done < Len(CfgOps) BY <1>12 DEF Pointers
  <2>2. ASSUME NEW c \in Ctx, client'[c].acc # Nil
        PROVE  /\ ev'[client'[c].acc].st # "FREE" /\ client'[c].acc # boot'.id
               /\ ev'[client'[c].acc].own = client'[c].id /\ ~ev'[client'[c].acc].cfg
               /\ \A d \in Ctx : client'[d].acc = client'[c].acc => d = c
    <3>1. CASE c = cur
      <4>1. client'[c].acc = i /\ client'[c].id = k.id BY <1>10, <1>13, <3>1
      <4>2. \A d \in Ctx : client'[d].acc = i => d = c BY <1>11, <1>13, <3>1
      <4>. QED BY <1>5, <1>11, <4>1, <4>2
    <3>2. CASE c # cur
      <4>1. client'[c] = client[c] /\ ev'[client[c].acc] = ev[client[c].acc] /\ client[c].acc # Nil
        BY <1>12, <1>13, <2>2, <3>2
      <4>2. \A d \in Ctx : client'[d].acc = client'[c].acc => d = c
        BY <1>10, <1>11, <1>13, <4>1 DEF Pointers
      <4>. QED BY <4>1, <4>2 DEF Pointers
    <3>. QED BY <3>1, <3>2
  <2>. QED BY <2>1, <2>2 DEF Pointers
<1>. DEFINE b == [app[cur] EXCEPT !.out = t]
<1>15. b \in App /\ b.out = t /\ b.st = app[cur].st /\ b.wait = app[cur].wait BY <1>1, <1>2, OutType
<1>. HIDE DEF b
<1>16. b.st = "up" => Asked(b, i, m)
  <2>. SUFFICES ASSUME b.st = "up" PROVE Asked(b, i, m) OBVIOUS
  <2>1. Asked(app[cur], k.acc, AccessOf(ev[k.acc])) BY <1>1, <1>15
  <2>2. /\ m \in app[cur].wait /\ IsInjective(t)
        /\ \A j \in DOMAIN t : t[j] \in app[cur].wait /\ t[j] # m
    BY <1>1, <2>1, HeadRead
  <2>3. \A j \in app[cur].wait, n \in app[cur].wait : ClassOf(j) = ClassOf(n) => j = n
    BY Zenon, <2>1 DEF Asked
  <2>. QED BY Zenon, <1>15, <2>2, <2>3 DEF Asked
<1>17. Requests' /\ app' \in [Ctx -> App]
  <2>1. b.st = "up" => Asked(b, client'[cur].acc, AccessOf(ev'[client'[cur].acc]))
    BY <1>6, <1>10, <1>11, <1>13, <1>16
  <2>2. app' = [app EXCEPT ![cur] = b] BY <1>8 DEF b
  <2>. QED BY <1>0, <1>12, <1>13, <1>15, <2>1, <2>2, RequestsKept
<1>18. Clocked' BY <1>10 DEF Clocked
<1>19. TypeOK' BY <1>8, <1>10, <1>11, <1>13, <1>17 DEF TypeOK
<1>. QED BY <1>11, <1>14, <1>17, <1>18, <1>19 DEF IInv

\* One message of an application.
LEMMA MessageStep ==
  ASSUME IInv, Message
  PROVE  IInv'
<1>. TypeOK BY DEF IInv
<1>. DEFINE k == client[cur]
            m == Head(app[cur].out)
            a == Tail(app[cur].out)
<1>1. /\ pc = "msg" /\ app[cur].out # <<>> /\ cur \in Ctx
      /\ UNCHANGED <<boot, opens, port, rport, dport, credits, jobs>>
  BY DEF Message, TypeOK
<1>2. /\ app[cur] \in App /\ k \in Client /\ ocl \in OclT BY <1>1, SameApp DEF TypeOK, OclT
<1>3. m \in Msgs
  <2>1. app[cur].out \in Seq(Msgs) BY <1>2 DEF App
  <2>. QED BY <1>1, <2>1
<1>4. CASE m.t = "attach" /\ _attach(k, a)
  <2>1. PICK ok \in put_bytes(cur), ack \in BOOLEAN :
          /\ ocl' = [ocl EXCEPT !.attached = @ + 1, !.st = "OCSE_RUNNING",
                                !.idle = IF ocl.attached < MaxClients THEN IdleCycles ELSE @]
          /\ NextSlot(IF ok THEN k ELSE client_drop(cur))
          /\ app' = [app EXCEPT ![cur] = [(IF ok /\ ack THEN Answered(cur, "attach") ELSE app[cur])
                                           EXCEPT !.out = a]]
          /\ UNCHANGED <<ev, list>>
    BY <1>4 DEF _attach
  <2>2. ocl' \in OclT
    <3>. DEFINE x == ocl.attached + 1
                y == IF ocl.attached < MaxClients THEN IdleCycles ELSE ocl.idle
    <3>1. IdleCycles \in 0 .. IdleCycles BY MmioAssumption DEF MmioAssumption
    <3>2. x \in Int /\ y \in 0 .. IdleCycles BY <1>2, <3>1 DEF OclT
    <3>3. ocl' = [ocl EXCEPT !.attached = x, !.st = "OCSE_RUNNING", !.idle = y] BY <2>1
    <3>. HIDE DEF x, y
    <3>. QED BY <1>2, <3>2, <3>3 DEF OclT
  <2>3. ClassOf(m) = "attach" BY <1>3, <1>4, MsgFields
  <2>. QED BY <1>1, <2>1, <2>2, <2>3, AnswerStep
<1>5. CASE m.t = "detach" /\ _detach(k)
  <2>. DEFINE h == [k EXCEPT !.st = "CLIENT_NONE", !.acc = Nil]
              b == IF app[cur].st = "dead" THEN app[cur] ELSE NoApp
  <2>1. /\ NextSlot(h) /\ app' = [app EXCEPT ![cur] = b] /\ UNCHANGED <<ev, list>>
        /\ ocl' = [ocl EXCEPT !.attached = @ - 1,
                              !.st = IF ocl.attached = 1 THEN "OCSE_IDLE" ELSE @]
    BY <1>5 DEF _detach
  <2>2. ocl' \in OclT
    <3>. DEFINE x == ocl.attached - 1
                y == IF ocl.attached = 1 THEN "OCSE_IDLE" ELSE ocl.st
    <3>1. x \in Int /\ y \in {"OCSE_DESC", "OCSE_IDLE", "OCSE_RUNNING"} BY <1>2 DEF OclT
    <3>2. ocl' = [ocl EXCEPT !.attached = x, !.st = y] BY <2>1
    <3>. HIDE DEF x, y
    <3>. QED BY <1>2, <3>1, <3>2 DEF OclT
  <2>3. h \in Client /\ h.acc = Nil BY <1>2 DEF Client
  <2>4. b \in App /\ b.st # "up" BY <1>2, ClientTypes
  <2>. HIDE DEF h, b
  <2>. QED BY <1>1, <2>1, <2>2, <2>3, <2>4, SlotLeft
<1>6. CASE m.t = "map" /\ handle_mmio_map(k, a)
  <2>1. PICK ok \in put_bytes(cur) :
          /\ NextSlot(IF ok THEN k ELSE client_drop(cur))
          /\ app' = [app EXCEPT ![cur] = [(IF ok THEN Answered(cur, "mmio") ELSE app[cur]) EXCEPT !.out = a]]
    BY <1>6 DEF handle_mmio_map
  <2>2. UNCHANGED <<ev, list, ocl>> BY <1>6 DEF handle_mmio_map
  <2>3. ClassOf(m) = "mmio" BY <1>3, <1>6, MsgFields
  <2>. DEFINE ack == TRUE
  <2>4. ack \in BOOLEAN
        /\ app' = [app EXCEPT ![cur] = [(IF ok /\ ack THEN Answered(cur, "mmio") ELSE app[cur]) EXCEPT !.out = a]]
    BY <2>1
  <2>. HIDE DEF ack
  <2>. QED BY <1>1, <1>2, <2>1, <2>2, <2>3, <2>4, AnswerStep
<1>7. CASE m.t = "access" /\ Queued(k, m.q, a) BY <1>1, <1>7, QueuedStep
<1>. QED BY <1>4, <1>5, <1>6, <1>7 DEF Message, handle_mmio, handle_mem

\* The configuration thread and the threads that open clients change nothing
\* the AFU sees, nor do applications.
LEMMA AppSteps ==
  ASSUME IInv, NEW c \in Ctx,
         \/ Open(c) \/ Close(c) \/ Die(c)
         \/ \E m \in Msgs \ {Plain("detach")} : Write(c, m)
  PROVE  IInv'
<1>. TypeOK /\ Pointers /\ Clocked BY DEF IInv
<1>1. UNCHANGED <<pc, cur, list, ev, boot, ocl, port, rport, dport, credits, jobs>>
  BY DEF Open, Close, Die, Write, loopVars, ocseVars, afuVars
<1>2. /\ app[c] \in App /\ client[c] \in Client
      /\ app[c].st = "up" => Asked(app[c], client[c].acc, AccessOf(ev[client[c].acc]))
  BY SameApp
<1>3. Wire' /\ Stages' /\ ListOK' /\ Credits'
  <2>2. Wire' BY <1>1 DEF IInv, Wire, Quiescent, Script, Coming
  <2>3. Stages' BY <1>1 DEF IInv, Stages
  <2>4. ListOK' BY <1>1 DEF IInv, ListOK
  <2>5. Credits' BY <1>1 DEF IInv, Credits
  <2>. QED BY <2>2, <2>3, <2>4, <2>5
<1>4. Clocked' BY <1>1 DEF Clocked
<1>5. CASE Open(c)
  <2>. DEFINE k == [NoClient EXCEPT !.st = "CLIENT_VALID", !.id = opens + 1]
              a == [NoApp EXCEPT !.st = "up"]
  <2>1. /\ client' = [client EXCEPT ![c] = k] /\ app' = [app EXCEPT ![c] = a] /\ opens' = opens + 1
        /\ opens < MaxOpens
    BY <1>5 DEF Open
  <2>2. opens' \in 0 .. MaxOpens BY <2>1, MmioAssumption DEF TypeOK, MmioAssumption
  <2>3. k \in Client /\ k.acc = Nil BY <2>1, <2>2, ClientTypes DEF Client
  <2>4. a \in App /\ a.wait = {} /\ a.out = <<>> BY ClientTypes DEF App
  <2>. HIDE DEF k, a
  <2>5. /\ client' \in [Ctx -> Client] /\ Pointers' /\ client'[c] = k
        /\ \A d \in Ctx : d # c => client'[d] = client[d]
    BY <1>1, <2>1, <2>3, ClientKept
  <2>6. Requests' /\ app' \in [Ctx -> App]
    <3>1. \A w : Asked(a, Nil, w) BY <2>4 DEF Asked, IsInjective
    <3>. QED BY <1>1, <2>1, <2>3, <2>4, <2>5, <3>1, RequestsKept
  <2>7. TypeOK' BY <1>1, <2>2, <2>5, <2>6 DEF TypeOK
  <2>. QED BY <1>3, <1>4, <2>5, <2>6, <2>7 DEF IInv
<1>6. CASE Close(c) \/ Die(c) \/ \E m \in Msgs \ {Plain("detach")} : Write(c, m)
  <2>1. client' = client /\ opens' = opens BY <1>6 DEF Close, Die, Write, ocseVars
  <2>2. Pointers' BY <1>1, <2>1 DEF Pointers
  <2>0. app[c].out \in Seq(Msgs) /\ app[c].wait \in SUBSET Msgs BY <1>2 DEF App
  <2>3. PICK a \in App : /\ app' = [app EXCEPT ![c] = a]
                         /\ a.st = "up" => Asked(a, client[c].acc, AccessOf(ev[client[c].acc]))
    <3>1. CASE Close(c)
      <4>. DEFINE t == Append(app[c].out, Plain("detach"))
                  a == [app[c] EXCEPT !.out = t, !.st = "closing"]
      <4>1. Plain("detach") \in Msgs BY DEF Msgs
      <4>2. t \in Seq(Msgs) BY <2>0, <4>1
      <4>3. app' = [app EXCEPT ![c] = a] BY <3>1 DEF Close
      <4>. HIDE DEF t
      <4>4. a \in App /\ a.st = "closing" BY <1>2, <4>2 DEF App
      <4>. QED BY <4>3, <4>4
    <3>2. CASE Die(c)
      <4>. DEFINE a == [app[c] EXCEPT !.st = "dead"]
      <4>1. app' = [app EXCEPT ![c] = a] BY <3>2 DEF Die
      <4>2. a \in App /\ a.st = "dead" BY <1>2 DEF App
      <4>. QED BY <4>1, <4>2
    <3>3. ASSUME NEW m \in Msgs \ {Plain("detach")}, Write(c, m)
          PROVE  \E a \in App : /\ app' = [app EXCEPT ![c] = a]
                                /\ a.st = "up" => Asked(a, client[c].acc, AccessOf(ev[client[c].acc]))
      <4>. DEFINE s == app[c].out
                  t == Append(s, m)
                  w == app[c].wait \cup {m}
                  a == [app[c] EXCEPT !.out = t, !.wait = w]
                  n == Len(s)
                  x == client[c].acc
                  y == AccessOf(ev[x])
      <4>1. app' = [app EXCEPT ![c] = a] BY <3>3 DEF Write
      <4>2. /\ t \in Seq(Msgs) /\ w \in SUBSET Msgs /\ n \in Nat /\ DOMAIN s = 1 .. n
            /\ DOMAIN t = 1 .. n + 1 /\ t[n + 1] = m /\ \A j \in 1 .. n : t[j] = s[j]
        BY <2>0
      <4>3. app[c].st = "up" /\ \A v \in app[c].wait : ClassOf(v) # ClassOf(m) BY <3>3 DEF Write
      <4>4. Asked(app[c], x, y) BY <1>2, <4>3
      <4>5. /\ \A j \in app[c].wait, k \in app[c].wait : ClassOf(j) = ClassOf(k) => j = k
            /\ \A j \in 1 .. n : s[j] \in app[c].wait
            /\ \A j, k \in 1 .. n : s[j] = s[k] => j = k
            /\ x # Nil => y \in app[c].wait /\ \A j \in 1 .. n : s[j] # y
        BY <4>2, <4>4 DEF Asked, IsInjective
      <4>6. m \notin app[c].wait BY <4>3
      <4>7. \A j, k \in w : ClassOf(j) = ClassOf(k) => j = k BY <4>3, <4>5
      <4>. HIDE DEF t, w, n, s, x, y
      <4>8. a \in App /\ a.st = "up" /\ a.out = t /\ a.wait = w BY <1>2, <4>2, <4>3 DEF App
      <4>. HIDE DEF a
      <4>9. \A j \in 1 .. n + 1 : j \in 1 .. n \/ j = n + 1 BY <4>2
      <4>10. \A j \in DOMAIN t : t[j] \in w BY <4>2, <4>5, <4>9 DEF w
      <4>11. IsInjective(t)
        <5>. SUFFICES ASSUME NEW j \in DOMAIN t, NEW k \in DOMAIN t, t[j] = t[k] PROVE j = k
          BY DEF IsInjective
        <5>. QED BY <4>2, <4>5, <4>6, <4>9
      <4>12. x # Nil => y \in w /\ \A j \in DOMAIN t : t[j] # y BY <4>2, <4>5, <4>6, <4>9 DEF w
      <4>13. Asked(a, x, y) BY Zenon, <4>7, <4>8, <4>10, <4>11, <4>12 DEF Asked
      <4>. QED BY <4>1, <4>8, <4>13 DEF x, y
    <3>. QED BY <1>6, <3>1, <3>2, <3>3
  <2>4. Requests' /\ app' \in [Ctx -> App] BY <1>1, <2>1, <2>3, RequestsKept
  <2>5. TypeOK' BY <1>1, <2>1, <2>4 DEF TypeOK
  <2>. QED BY <1>3, <1>4, <2>2, <2>4, <2>5 DEF IInv
<1>. QED BY <1>5, <1>6

\* The events clients point to are left alone.
LEMMA EventsKept ==
  ASSUME IInv, UNCHANGED <<client, app>>,
         \A c \in Ctx : client[c].acc # Nil => ev'[client[c].acc] = ev[client[c].acc]
  PROVE  Requests'
<1>. SUFFICES ASSUME NEW c \in Ctx, app[c].st = "up"
              PROVE  Asked(app[c], client[c].acc, AccessOf(ev'[client[c].acc]))
  BY DEF Requests
<1>1. Asked(app[c], client[c].acc, AccessOf(ev[client[c].acc])) BY DEF IInv, Requests
<1>2. CASE client[c].acc = Nil BY Zenon, <1>1, <1>2 DEF Asked
<1>3. CASE client[c].acc # Nil BY <1>1, <1>3
<1>. QED BY <1>2, <1>3

\* The configuration thread.
LEMMA ConfigSteps ==
  ASSUME IInv, Config
  PROVE  IInv'
<1>. TypeOK /\ Pointers /\ Requests BY DEF IInv
<1>1. /\ pc = "clock" /\ UNCHANGED <<pc, cur, client, app, opens, port, rport, dport, credits, jobs>>
  BY DEF Config, AddCfg, _wait_for_done, Configured
<1>2. boot \in [done : 0 .. Len(CfgOps), id : Ids \cup {Nil}] BY DEF TypeOK
<1>3. CfgOps \in Seq(BOOLEAN) /\ Len(CfgOps) \in Nat BY MmioAssumption DEF MmioAssumption
<1>4. Clocked' BY <1>1 DEF Clocked
<1>5. CASE AddCfg
  <2>. DEFINE q == [NoReq EXCEPT !.rnw = CfgOps[boot.done + 1]]
              z == 0
              b == TRUE
              e == NewEvent(b, q, z)
  <2>1. boot.id = Nil /\ boot.done < Len(CfgOps) /\ list \in Seq(Ids) BY <1>5 DEF AddCfg, TypeOK
  <2>2. q \in ReqT
    <3>1. CfgOps[boot.done + 1] \in BOOLEAN
      <4>. DEFINE n == boot.done
      <4>1. n \in Nat /\ n < Len(CfgOps) BY <1>2, <2>1
      <4>. HIDE DEF n
      <4>2. CfgOps[n + 1] \in BOOLEAN BY <1>3, <4>1
      <4>. QED BY <4>2 DEF n
    <3>. QED BY <3>1 DEF NoReq, ReqT
  <2>3. z \in 0 .. MaxOpens /\ b \in BOOLEAN BY MmioAssumption DEF MmioAssumption
  <2>. HIDE DEF q, z, b
  <2>4. e \in Event /\ e.st = "OCSE_IDLE" /\ e.runs = 0 /\ e.recv = 0 BY <2>2, <2>3, NewEventType
  <2>. HIDE DEF e
  <2>5. PICK i \in Ids : _add_event(i, e) /\ boot' = [boot EXCEPT !.id = i]
    BY <1>5 DEF AddCfg, e, q, z, b
  <2>6. /\ Wire' /\ Stages' /\ ListOK' /\ Credits' /\ ev' \in [Ids -> Event] /\ list' \in Seq(Ids)
        /\ ev'[i] = e /\ \A k \in Ids : k # i => ev'[k] = ev[k]
        /\ i # boot.id /\ \A c \in Ctx : client[c].acc # i
    BY <1>1, <2>4, <2>5, EventAdded
  <2>7. \A c \in Ctx : client[c].acc # Nil => ev'[client[c].acc] = ev[client[c].acc]
    BY <2>6, NewPointer
  <2>8. boot' \in [done : 0 .. Len(CfgOps), id : Ids \cup {Nil}] /\ boot'.id = i /\ boot'.done = boot.done
    BY <1>2, <2>5
  <2>9. Pointers' BY <1>1, <2>1, <2>4, <2>6, <2>7, <2>8 DEF Pointers
  <2>10. Requests' BY <1>1, <2>7, EventsKept
  <2>11. ocl' = ocl BY <1>5 DEF AddCfg
  <2>12. TypeOK' BY <1>1, <2>6, <2>8, <2>11 DEF TypeOK
  <2>. QED BY <1>4, <2>6, <2>9, <2>10, <2>12 DEF IInv
<1>6. CASE _wait_for_done
  <2>. DEFINE i == boot.id
  <2>1. /\ i # Nil /\ ev[i].st = "OCSE_DONE" /\ ev' = [ev EXCEPT ![i] = NoEvent]
        /\ boot' = [done |-> boot.done + 1, id |-> Nil] /\ UNCHANGED <<list, ocl>>
    BY <1>6 DEF _wait_for_done
  <2>2. i \in Ids BY <1>2, <2>1
  <2>3. /\ Wire' /\ Stages' /\ ListOK' /\ Credits' /\ ev' \in [Ids -> Event]
        /\ \A k \in Ids : k # i => ev'[k] = ev[k]
    BY <1>1, <2>1, <2>2, EventFreed
  <2>4. \A c \in Ctx : client[c].acc # Nil => ev'[client[c].acc] = ev[client[c].acc]
    <3>1. \A c \in Ctx : client[c].acc \in Ids \cup {Nil} BY DEF TypeOK, Client
    <3>. QED BY <2>3, <3>1 DEF Pointers
  <2>5. boot' \in [done : 0 .. Len(CfgOps), id : Ids \cup {Nil}] /\ boot'.id = Nil
    <3>. DEFINE n == boot.done
    <3>1. n \in Nat /\ n < Len(CfgOps) BY <1>2, <2>1 DEF Pointers
    <3>. HIDE DEF n
    <3>2. n + 1 \in 0 .. Len(CfgOps) BY <1>3, <3>1
    <3>. QED BY <2>1, <3>2 DEF n
  <2>6. Pointers'
    <3>1. \A c \in Ctx : client[c].acc # Nil => client[c].acc # Nil /\ client[c].acc # boot'.id BY <2>5
    <3>. QED BY <1>1, <2>4, <2>5, <3>1 DEF Pointers
  <2>7. Requests' BY <1>1, <2>4, EventsKept
  <2>8. TypeOK' BY <1>1, <2>1, <2>3, <2>5 DEF TypeOK
  <2>. QED BY <1>4, <2>3, <2>6, <2>7, <2>8 DEF IInv
<1>7. CASE Configured
  <2>1. UNCHANGED <<list, ev, boot>> /\ ocl' = [ocl EXCEPT !.st = "OCSE_IDLE", !.ready = TRUE]
    BY <1>7 DEF Configured
  <2>2. Wire' /\ Stages' /\ ListOK' /\ Credits' BY <1>1, <2>1, AfuKept
  <2>3. Pointers' BY <1>1, <2>1 DEF Pointers
  <2>4. Requests' BY <1>1, <2>1 DEF Requests
  <2>5. ocl' \in OclT
    <3>1. ocl \in OclT BY DEF TypeOK, OclT
    <3>. QED BY <2>1, <3>1 DEF OclT
  <2>6. TypeOK' BY <1>1, <2>1, <2>5 DEF TypeOK, OclT
  <2>. QED BY <1>4, <2>2, <2>3, <2>4, <2>6 DEF IInv
<1>. QED BY <1>5, <1>6, <1>7 DEF Config

-----------------------------------------------------------------------------
(***************************************************************************)
(* The theorems.                                                           *)
(***************************************************************************)
LEMMA InitIInv == Init => IInv
<1>. SUFFICES ASSUME Init PROVE IInv OBVIOUS
<1>1. \A i \in Ids : ev[i] = NoEvent BY DEF Init
<1>2. \A c \in Ctx : client[c] = NoClient /\ app[c] = NoApp BY DEF Init
<1>3. Clocked BY DEF Init, Clocked
<1>4. Wire BY EventTypes DEF Init, Wire, Quiescent
<1>5. NoEvent.st = "FREE" /\ NoEvent.runs = 0 /\ NoEvent.recv = 0 BY DEF NoEvent
<1>6. Stages BY <1>1, <1>5 DEF Stages
<1>7. ListOK BY DEF Init, ListOK, IsInjective
<1>8. Pointers BY <1>2, ClientTypes DEF Init, Pointers
<1>9. Requests BY <1>2, ClientTypes DEF Requests
<1>10. CmdCredits \in 1 .. 255 /\ CfgCredits \in 1 .. 255 /\ IdleCycles \in Nat /\ MaxOpens \in Nat
  BY MmioAssumption DEF MmioAssumption
<1>11. Credits
  <2>1. credits.cmd + 0 = CmdCredits /\ credits.cfg + 0 = CfgCredits BY <1>10 DEF Init
  <2>. QED BY Zenon, <2>1 DEF Init, Credits
<1>12. TypeOK
  <2>1. cur \in Ctx BY FirstSlot DEF Init
  <2>2. ev \in [Ids -> Event] BY EventTypes DEF Init
  <2>3. client \in [Ctx -> Client] /\ app \in [Ctx -> App] BY ClientTypes DEF Init
  <2>4. list \in Seq(Ids) /\ jobs \in Seq(Jobs) BY DEF Init
  <2>5. credits \in [cfg : 0 .. 255, cmd : 0 .. 255] BY <1>10 DEF Init
  <2>6. ocl \in OclT BY <1>10 DEF Init, OclT
  <2>7. boot \in [done : 0 .. Len(CfgOps), id : Ids \cup {Nil}]
    <3>1. Len(CfgOps) \in Nat BY MmioAssumption DEF MmioAssumption
    <3>. QED BY <3>1 DEF Init
  <2>8. rport \in Resp /\ dport \in Beats /\ port \in Ids \cup {Nil} BY EventTypes DEF Init
  <2>9. opens \in 0 .. MaxOpens BY <1>10 DEF Init
  <2>10. pc = "clock" BY DEF Init
  <2>. QED BY <2>1, <2>2, <2>3, <2>4, <2>5, <2>6, <2>7, <2>8, <2>9, <2>10 DEF TypeOK, OclT
<1>. QED BY <1>3, <1>4, <1>6, <1>7, <1>8, <1>9, <1>11, <1>12 DEF IInv

\* IInv is inductive.
LEMMA NextIInv == IInv /\ [Next]_vars => IInv'
<1>. SUFFICES ASSUME IInv, [Next]_vars PROVE IInv' OBVIOUS
<1>1. ASSUME NEW say \in BOOLEAN, NEW cr \in BOOLEAN, Clock(say, cr) PROVE IInv' BY <1>1, ClockStep
<1>2. CASE Loop
  BY <1>1, <1>2, StoppedStep, RespStep, DataStep, SendStep, SlotSteps, DoneStep, MessageStep DEF Loop
<1>3. CASE Config BY <1>3, ConfigSteps
<1>4. ASSUME NEW c \in Ctx, CmdDrop(c) PROVE IInv' BY <1>4, CmdDropStep
<1>5. ASSUME NEW c \in Ctx, Open(c) \/ Close(c) \/ Die(c) PROVE IInv' BY <1>5, AppSteps
<1>6. ASSUME NEW c \in Ctx, NEW m \in Msgs \ {Plain("detach")}, Write(c, m) PROVE IInv'
  BY <1>6, AppSteps
<1>7. CASE UNCHANGED vars
  <2>1. TypeOK' BY <1>7 DEF IInv, TypeOK, vars
  <2>2. Wire' BY <1>7 DEF IInv, Wire, Quiescent, Script, Coming, vars
  <2>3. Stages' BY <1>7 DEF IInv, Stages, vars
  <2>4. ListOK' BY <1>7 DEF IInv, ListOK, vars
  <2>5. Pointers' BY <1>7 DEF IInv, Pointers, vars
  <2>6. Credits' BY <1>7 DEF IInv, Credits, vars
  <2>7. Clocked' BY <1>7 DEF IInv, Clocked, vars
  <2>8. Requests' BY <1>7 DEF IInv, Requests, vars
  <2>. QED BY <2>1, <2>2, <2>3, <2>4, <2>5, <2>6, <2>7, <2>8 DEF IInv
<1>. QED BY <1>2, <1>3, <1>4, <1>5, <1>6, <1>7 DEF Next

\* The inductive invariant holds: what the AFU still sends is what the head of
\* the list still waits for.
THEOREM Invariant == Spec => []IInv
BY InitIInv, NextIInv, PTL DEF Spec

\* Every variable keeps its type; in particular the thread is never ended by a
\* response it takes for an illegal one (the exit of handle_ap_resp), and the
\* idle counter never goes below zero.
THEOREM TypeCorrect == Spec => []TypeOK
<1>1. IInv => TypeOK BY DEF IInv
<1>. QED BY <1>1, Invariant, PTL

\* What the AFU holds is nothing, or the head of the list.
LEMMA HeldShape ==
  ASSUME IInv
  PROVE  LET held == (IF port = Nil THEN <<>> ELSE <<port>>) \o [k \in 1 .. Len(jobs) |-> jobs[k].id] IN
         \/ held = <<>>
         \/ list # <<>> /\ held = <<list[1]>>
<1>. TypeOK /\ Wire BY DEF IInv
<1>. DEFINE sent == IF port = Nil THEN <<>> ELSE <<port>>
            ids == [k \in 1 .. Len(jobs) |-> jobs[k].id]
<1>0. jobs \in Seq(Jobs) BY DEF TypeOK
<1>1. CASE jobs = <<>>
  <2>1. ids = <<>> BY <1>1
  <2>2. port # Nil => list # <<>> /\ port = list[1] BY DEF Wire
  <2>3. <<>> \o <<>> = <<>> /\ \A x : <<x>> \o <<>> = <<x>> OBVIOUS
  <2>. HIDE DEF ids
  <2>4. CASE port = Nil BY Zenon, <2>1, <2>3, <2>4 DEF ids
  <2>5. CASE port # Nil
    <3>1. sent \o ids = <<port>> BY Zenon, <2>1, <2>3, <2>5
    <3>. QED BY <2>2, <2>5, <3>1 DEF ids
  <2>. QED BY <2>4, <2>5
<1>2. CASE jobs # <<>>
  <2>1. port = Nil /\ list # <<>> /\ jobs[1].id = list[1] BY <1>2, JobsShape
  <2>2. Len(jobs) = 1
    <3>. DEFINE n == Len(jobs)
    <3>1. n \in Nat /\ n <= 1 BY <1>0 DEF Wire
    <3>2. n # 0 BY <1>0, <1>2, EmptySeq, Zenon
    <3>. HIDE DEF n
    <3>3. n = 1 BY <3>1, <3>2
    <3>. QED BY <3>3 DEF n
  <2>3. ids = <<jobs[1].id>> BY <2>2
  <2>4. \A x : <<>> \o <<x>> = <<x>> OBVIOUS
  <2>5. sent \o ids = <<list[1]>> BY Zenon, <2>1, <2>3, <2>4
  <2>. QED BY <2>1, <2>5
<1>. QED BY <1>1, <1>2

\* Every response and every beat of data is given to the access it belongs to,
\* though handle_ap_resp and handle_ap_resp_data do not look at the capptag:
\* the AFU holds at most one command, that of the head of the list.
THEOREM ResponseRouted == Spec => []ResponseIsHeads
<1>1. IInv => ResponseIsHeads
  <2>. SUFFICES ASSUME IInv PROVE ResponseIsHeads OBVIOUS
  <2>. TypeOK /\ Wire BY DEF IInv
  <2>. DEFINE held == (IF port = Nil THEN <<>> ELSE <<port>>) \o [k \in 1 .. Len(jobs) |-> jobs[k].id]
  <2>1. held = <<>> \/ (list # <<>> /\ held = <<list[1]>>) BY HeldShape
  <2>2. list # <<>> => Head(list) = list[1] BY DEF TypeOK
  <2>. HIDE DEF held
  <2>3. Len(held) <= 1 /\ (held # <<>> => list # <<>> /\ held[1] = Head(list))
    <3>1. CASE held = <<>> BY <3>1
    <3>2. CASE list # <<>> /\ held = <<list[1]>> BY <2>2, <3>2
    <3>. QED BY <2>1, <3>1, <3>2
  <2>4. dport.v => list # <<>> /\ dport.id = list[1]
    <3>. SUFFICES ASSUME dport.v PROVE list # <<>> /\ dport.id = list[1] OBVIOUS
    <3>1. pc \in {"resp", "data"} /\ list # <<>> BY DEF Wire
    <3>2. CASE pc = "data" BY Zenon, <3>1, <3>2 DEF Wire
    <3>3. CASE pc = "resp"
      <4>. DEFINE p == [resp |-> rport, beat |-> dport]
      <4>1. Coming(list[1], p, Script) BY Zenon, <3>3 DEF Wire, Quiescent
      <4>2. p.beat = dport OBVIOUS
      <4>. HIDE DEF p
      <4>. QED BY Zenon, <3>1, <4>1, <4>2 DEF Coming
    <3>. QED BY <3>1, <3>2, <3>3
  <2>. QED BY <2>2, <2>3, <2>4 DEF ResponseIsHeads, held
<1>. QED BY <1>1, Invariant, PTL

\* The AFU performs every access exactly once: send_mmio repeats no command, and
\* no access is done that the AFU has not performed.
THEOREM AccessOnce == Spec => []PerformedOnce
<1>1. IInv => PerformedOnce
  <2>. SUFFICES ASSUME IInv, NEW i \in Ids
                PROVE  ev[i].runs <= 1 /\ (ev[i].st = "OCSE_DONE" => ev[i].runs = 1)
    BY DEF PerformedOnce
  <2>1. ev[i].st \in EvStates BY DEF IInv, TypeOK, Event
  <2>2. ev[i].runs \in {0, 1} /\ (ev[i].st = "OCSE_DONE" => ev[i].runs = 1)
    BY <2>1 DEF IInv, Stages, EvStates
  <2>. QED BY <2>2
<1>. QED BY <1>1, Invariant, PTL

\* Neither the list, nor a client, nor the configuration thread is ever left with
\* a pointer to an event that was freed, and the list holds no event twice.
THEOREM PointersSafe == Spec => []NoDangling
<1>1. IInv => NoDangling
  <2>. SUFFICES ASSUME IInv PROVE NoDangling OBVIOUS
  <2>. TypeOK /\ ListOK /\ Pointers BY DEF IInv
  <2>1. list \in Seq(Ids) /\ DOMAIN list = 1 .. Len(list) BY DEF TypeOK
  <2>2. \A k \in 1 .. Len(list) : ev[list[k]].st # "FREE"
    <3>. TAKE k \in 1 .. Len(list)
    <3>1. list # <<>> BY <2>1
    <3>. QED BY <2>1, <3>1 DEF ListOK
  <2>3. \A j, k \in 1 .. Len(list) : list[j] = list[k] => j = k BY <2>1 DEF ListOK, IsInjective
  <2>4. \A i \in Reachable \ {Nil} : ev[i].st # "FREE" BY <2>2 DEF Reachable, Pointers
  <2>. QED BY <2>3, <2>4 DEF NoDangling
<1>. QED BY <1>1, Invariant, PTL

\* A client that waits for an access points to the event of that access, however
\* many threads of its application use it, so that handle_mmio_done answers each
\* client with its own result.
THEOREM AccessRouted == Spec => []AccessIsOwn
<1>1. IInv => AccessIsOwn
  <2>. SUFFICES ASSUME IInv, NEW c \in Ctx, client[c].acc # Nil
                PROVE  LET e == ev[client[c].acc] IN
                       /\ e.own = client[c].id /\ ~e.cfg
                       /\ app[c].st = "up" =>
                            [t |-> "access", q |-> [mem |-> e.mem, rnw |-> e.rnw, n |-> e.n]] \in app[c].wait
    BY DEF AccessIsOwn
  <2>1. ev[client[c].acc].own = client[c].id /\ ~ev[client[c].acc].cfg BY DEF IInv, Pointers
  <2>2. app[c].st = "up" => AccessOf(ev[client[c].acc]) \in app[c].wait BY Zenon DEF IInv, Requests, Asked
  <2>. QED BY <2>1, <2>2 DEF AccessOf
<1>. QED BY <1>1, Invariant, PTL

\* The credits ocse counts are those it has: what it counts, what it has spent on
\* the command at the port and what the AFU still owes add up, so the counters
\* do not wrap around though tlx_afu_send_cmd does not look at them.
THEOREM CreditsCorrect == Spec => []CreditsHeld
<1>1. IInv => CreditsHeld
  <2>. SUFFICES ASSUME IInv PROVE CreditsHeld OBVIOUS
  <2>. TypeOK /\ Wire /\ Credits BY DEF IInv
  <2>. DEFINE S(k) == {j \in 1 .. Len(jobs) : jobs[j].owed /\ (ev[jobs[j].id].cfg = k)}
              owed(k) == Cardinality(S(k))
              sent(k) == IF port # Nil /\ ev[port].cfg = k THEN 1 ELSE 0
              with(k) == IF \/ port # Nil /\ ev[port].cfg = k
                            \/ jobs # <<>> /\ jobs[1].owed /\ ev[jobs[1].id].cfg = k
                         THEN 1 ELSE 0
  <2>0. jobs \in Seq(Jobs) BY DEF TypeOK
  <2>1. \A k \in BOOLEAN : owed(k) + sent(k) = with(k) /\ owed(k) \in Nat /\ sent(k) \in Nat
    <3>. TAKE k \in BOOLEAN
    <3>1. CASE jobs = <<>>
      <4>1. S(k) = {} BY <3>1
      <4>2. owed(k) = 0 BY <4>1, FS_EmptySet
      <4>. HIDE DEF owed
      <4>. QED BY <3>1, <4>2
    <3>2. CASE jobs # <<>>
      <4>. DEFINE n == Len(jobs)
      <4>1. n \in Nat /\ n <= 1 /\ port = Nil BY <2>0, <3>2 DEF Wire
      <4>2. n # 0 BY <2>0, <3>2, EmptySeq, Zenon
      <4>. HIDE DEF n
      <4>3. n = 1 BY <4>1, <4>2
      <4>4. S(k) = IF jobs[1].owed /\ ev[jobs[1].id].cfg = k THEN {1} ELSE {} BY <4>3 DEF n
      <4>5. owed(k) = IF jobs[1].owed /\ ev[jobs[1].id].cfg = k THEN 1 ELSE 0
        BY <4>4, FS_EmptySet, FS_Singleton
      <4>6. sent(k) = 0 /\ with(k) = IF jobs[1].owed /\ ev[jobs[1].id].cfg = k THEN 1 ELSE 0
        BY <3>2, <4>1
      <4>. HIDE DEF owed, sent, with
      <4>. QED BY <4>5, <4>6
    <3>. QED BY <3>1, <3>2
  <2>2. credits.cmd + with(FALSE) = CmdCredits /\ credits.cfg + with(TRUE) = CfgCredits BY Zenon DEF Credits
  <2>3. credits.cmd \in Nat /\ credits.cfg \in Nat
    <3>1. credits \in CreditsT BY DEF TypeOK, CreditsT
    <3>. QED BY <3>1 DEF CreditsT
  <2>. HIDE DEF owed, sent, with
  <2>5. /\ owed(TRUE) + sent(TRUE) = with(TRUE) /\ owed(TRUE) \in Nat /\ sent(TRUE) \in Nat
        /\ owed(FALSE) + sent(FALSE) = with(FALSE) /\ owed(FALSE) \in Nat /\ sent(FALSE) \in Nat
    BY Zenon, <2>1
  <2>. DEFINE o0 == owed(FALSE)  s0 == sent(FALSE)  w0 == with(FALSE)
              o1 == owed(TRUE)   s1 == sent(TRUE)   w1 == with(TRUE)
              x == credits.cmd   y == credits.cfg
  <2>6. /\ o0 + s0 = w0 /\ o0 \in Nat /\ s0 \in Nat /\ o1 + s1 = w1 /\ o1 \in Nat /\ s1 \in Nat
        /\ x + w0 = CmdCredits /\ y + w1 = CfgCredits /\ x \in Nat /\ y \in Nat
    BY Zenon, <2>2, <2>3, <2>5
  <2>. HIDE DEF o0, s0, w0, o1, s1, w1, x, y
  <2>7. x + o0 + s0 = CmdCredits /\ y + o1 + s1 = CfgCredits BY <2>6
  <2>4. /\ credits.cmd + owed(FALSE) + sent(FALSE) = CmdCredits
        /\ credits.cfg + owed(TRUE) + sent(TRUE) = CfgCredits
    BY Zenon, <2>7 DEF o0, s0, o1, s1, x, y
  <2>. QED BY Zenon, <2>4 DEF CreditsHeld, owed, sent, with
<1>. QED BY <1>1, Invariant, PTL

-----------------------------------------------------------------------------
(***************************************************************************)
(* The data of reads, when the AFU answers a read in one piece.  (It goes  *)
(* wrong otherwise: see the README.)  The flits of the data come in order, *)
(* so the one at the response data bus is the one the head waits for.      *)
(***************************************************************************)
\* The data of event i is that of its first n flits.
Holds(i, n) ==
  \A p \in Places : /\ ev[i].data[p].v <=> p < n
                    /\ ev[i].data[p].v => ev[i].data[p].id = i /\ ev[i].data[p].flit = p

\* What an event has of its data.
DataOf ==
  \A i \in Ids :
    LET e == ev[i] IN
    /\ e.st \in {"FREE", "OCSE_IDLE", "OCSE_PENDING"} => Holds(i, 0)
    /\ e.st = "OCSE_BUFFER" => /\ e.dl = Encoded(e.n) /\ e.rdl = WholeDl(e) /\ e.rdp = 0
                               /\ Holds(i, e.recv)
    /\ e.st = "OCSE_DONE" /\ IsRead(e) => Holds(i, Size(e))

\* The answer to the head, on its way.
WireData ==
  LET e == ev[list[1]] IN
  list # <<>> /\ IsRead(e) =>
    /\ jobs # <<>> => InPlace(e, Script)
    /\ dport.v => dport.flit = Size(e) - Len(Script) - 1
    /\ rport.v /\ e.st = "OCSE_PENDING" => rport.dl = WholeDl(e) /\ rport.dp = 0
    /\ Quiescent /\ jobs # <<>> /\ e.st = "OCSE_PENDING" =>
         Script[1].resp.dl = WholeDl(e) /\ Script[1].resp.dp = 0

DInv == DataOf /\ WireData

\* Nothing is on its way.
LEMMA NoneComing ==
  ASSUME ~rport'.v, ~dport'.v, jobs' = <<>>
  PROVE  WireData'
BY DEF WireData

\* The answer to the head and the head stay.
LEMMA SameComing ==
  ASSUME WireData, UNCHANGED <<jobs, rport, dport>>, list # <<>>, list'[1] = list[1],
         ev'[list[1]] = ev[list[1]]
  PROVE  WireData'
<1>1. Script' = Script /\ Quiescent' = Quiescent BY DEF Script, Quiescent
<1>. QED BY Zenon, <1>1 DEF WireData, InPlace, IsRead, Size, WholeDl

\* An event that does not change holds the same data.
LEMMA SameData ==
  ASSUME NEW k, ev'[k] = ev[k]
  PROVE  /\ Holds(k, 0)' = Holds(k, 0) /\ Holds(k, ev[k].recv)' = Holds(k, ev[k].recv)
         /\ Holds(k, Size(ev[k]))' = Holds(k, Size(ev[k]))
BY Zenon DEF Holds, Size

\* An event changes and has no data, before and after.
LEMMA DataKept ==
  ASSUME IInv, DataOf, NEW i \in Ids, NEW f \in Event, ev' = [ev EXCEPT ![i] = f],
         f.st \in {"FREE", "OCSE_IDLE", "OCSE_PENDING"}, \A p \in Places : ~f.data[p].v
  PROVE  DataOf'
<1>1. ev'[i] = f /\ \A k \in Ids : k # i => ev'[k] = ev[k] BY DEF IInv, TypeOK
<1>2. \A p \in Places : ~(p < 0) BY DEF Places
<1>. SUFFICES ASSUME NEW k \in Ids
              PROVE  LET e == ev'[k] IN
                /\ e.st \in {"FREE", "OCSE_IDLE", "OCSE_PENDING"} => Holds(k, 0)'
                /\ e.st = "OCSE_BUFFER" => /\ e.dl = Encoded(e.n) /\ e.rdl = WholeDl(e) /\ e.rdp = 0
                                           /\ Holds(k, ev[k].recv)'
                /\ e.st = "OCSE_DONE" /\ IsRead(e) => Holds(k, Size(ev[k]))'
  BY DEF DataOf
<1>3. CASE k = i
  <2>1. Holds(k, 0)' BY <1>1, <1>2, <1>3 DEF Holds
  <2>. QED BY <1>1, <1>3, <2>1
<1>4. CASE k # i
  <2>1. ev'[k] = ev[k] BY <1>1, <1>4
  <2>2. Holds(k, 0)' = Holds(k, 0) /\ Holds(k, ev[k].recv)' = Holds(k, ev[k].recv)
        /\ Holds(k, Size(ev[k]))' = Holds(k, Size(ev[k]))
    BY <2>1, SameData
  <2>. QED BY Zenon, <2>1, <2>2 DEF DataOf
<1>. QED BY <1>3, <1>4

\* An event that is added or freed: it has no data, and is not the head.
LEMMA EventData ==
  ASSUME IInv, DInv, NEW i \in Ids, NEW f \in Event, ev' = [ev EXCEPT ![i] = f],
         f.st \in {"FREE", "OCSE_IDLE"}, \A p \in Places : ~f.data[p].v,
         pc \notin {"resp", "data"}, UNCHANGED <<jobs, rport, dport>>,
         list # <<>> => list'[1] = list[1] /\ list[1] # i
  PROVE  DInv'
<1>. DataOf /\ WireData /\ TypeOK /\ Wire BY DEF DInv, IInv
<1>1. DataOf' BY DataKept
<1>2. WireData'
  <2>1. CASE list = <<>>
    <3>1. ~rport.v /\ ~dport.v /\ jobs = <<>> BY <2>1 DEF Wire
    <3>. QED BY <3>1, NoneComing
  <2>2. CASE list # <<>>
    <3>1. list[1] \in Ids BY <2>2 DEF TypeOK
    <3>2. ev'[list[1]] = ev[list[1]] BY <2>2, <3>1 DEF TypeOK
    <3>. QED BY <2>2, <3>2, SameComing
  <2>. QED BY <2>1, <2>2
<1>. QED BY <1>1, <1>2 DEF DInv

\* Nothing that concerns the data changes.
LEMMA DataStays ==
  ASSUME DInv, UNCHANGED <<list, ev, jobs, rport, dport>>
  PROVE  DInv'
<1>1. DataOf'
  <2>1. \A i, n : Holds(i, n)' <=> Holds(i, n) BY Zenon DEF Holds
  <2>. QED BY DEF DInv, DataOf, Holds
<1>2. WireData'
  <2>1. Script' = Script /\ Quiescent' = Quiescent BY DEF Script, Quiescent
  <2>. QED BY Zenon, <2>1 DEF DInv, WireData, InPlace, IsRead, Size, WholeDl
<1>. QED BY <1>1, <1>2 DEF DInv

\* The clock.
LEMMA ClockData ==
  ASSUME "split" \notin Answers, IInv, DInv, NEW say \in BOOLEAN, NEW cr \in BOOLEAN, Clock(say, cr)
  PROVE  DInv'
<1>. TypeOK /\ Wire /\ Stages /\ DataOf /\ WireData BY DEF IInv, DInv
<1>1. CanSay(say, cr) /\ list' = list /\ pc = "clock" BY DEF Clock
<1>2. ~rport.v /\ ~dport.v BY <1>1 DEF Wire
<1>3. CASE port # Nil
  <2>1. /\ jobs = <<>> /\ list # <<>> /\ port = list[1] /\ port \in Ids /\ ev[port].st = "OCSE_PENDING"
        /\ ev[port] \in Event /\ ev[port].runs = 0 /\ ev[port].dl = Encoded(ev[port].n)
    BY <1>3 DEF Wire, Stages, TypeOK
  <2>2. ~say BY <1>1, <2>1 DEF CanSay
  <2>3. ~rport'.v /\ ~dport'.v BY <1>2, <2>2, EventTypes DEF Clock
  <2>. DEFINE f == [ev[port] EXCEPT !.runs = 1]
  <2>4. /\ f \in Event /\ f.st = "OCSE_PENDING" /\ f.data = ev[port].data
        /\ f.cfg = ev[port].cfg /\ f.rnw = ev[port].rnw /\ f.n = ev[port].n /\ f.dl = ev[port].dl
    BY <2>1 DEF Event
  <2>5. ev' = [ev EXCEPT ![port] = f] BY <1>3, <2>1 DEF Clock
  <2>. HIDE DEF f
  <2>6. DataOf'
    <3>1. Holds(port, 0) BY <2>1 DEF DataOf
    <3>2. \A p \in Places : ~f.data[p].v BY <2>4, <3>1 DEF Holds, Places
    <3>. QED BY <2>1, <2>4, <2>5, <3>2, DataKept
  <2>7. PICK sc \in Scripts(port) : jobs' = <<[id |-> port, script |-> sc, owed |-> TRUE]>>
    <3>1. PICK t \in Taken : jobs' = Remaining(say, cr) \o t BY DEF Clock
    <3>2. PICK sc \in Scripts(port) : t = <<[id |-> port, script |-> sc, owed |-> TRUE]>>
      BY <1>3, <3>1 DEF Taken
    <3>3. Remaining(say, cr) = <<>> BY <2>1 DEF Remaining
    <3>4. \A x : <<>> \o <<x>> = <<x>> OBVIOUS
    <3>5. jobs' = <<[id |-> port, script |-> sc, owed |-> TRUE]>> BY <3>1, <3>2, <3>3, <3>4, Zenon
    <3>. QED BY <3>5
  <2>8. IsRead(ev[port]) =>
          InPlace(ev[port], sc) /\ sc[1].resp.dl = WholeDl(ev[port]) /\ sc[1].resp.dp = 0
    BY <2>1, ScriptsFit
  <2>9. Script' = sc BY <2>7 DEF Script
  <2>10. ev'[list'[1]] = f BY <1>1, <2>1, <2>5 DEF TypeOK
  <2>11. WireData'
    <3>1. IsRead(f) = IsRead(ev[port]) /\ Size(f) = Size(ev[port]) /\ WholeDl(f) = WholeDl(ev[port])
      BY <2>4 DEF IsRead, Size, WholeDl
    <3>2. IsRead(f) => InPlace(f, sc) /\ sc[1].resp.dl = WholeDl(f) /\ sc[1].resp.dp = 0
      BY Zenon, <2>8, <3>1 DEF InPlace
    <3>. QED BY Zenon, <2>3, <2>9, <2>10, <3>2 DEF WireData, InPlace, IsRead, Size, WholeDl
  <2>. QED BY <2>6, <2>11 DEF DInv
<1>4. CASE port = Nil
  <2>0. ev' = ev BY <1>4 DEF Clock
  <2>1. DataOf'
    <3>1. \A i, n : Holds(i, n)' <=> Holds(i, n) BY Zenon, <2>0 DEF Holds
    <3>. QED BY <2>0 DEF DataOf, Holds
  <2>2. jobs' = Remaining(say, cr) \o <<>>
    <3>1. PICK t \in Taken : jobs' = Remaining(say, cr) \o t BY DEF Clock
    <3>2. t = <<>> BY <1>4, <3>1 DEF Taken
    <3>. QED BY <3>1, <3>2
  <2>3. CASE jobs = <<>>
    <3>1. ~say BY <1>1, <2>3 DEF CanSay
    <3>2. jobs' = <<>> BY <2>2, <2>3 DEF Remaining
    <3>3. ~rport'.v /\ ~dport'.v BY <1>2, <3>1, EventTypes DEF Clock
    <3>. QED BY <2>1, <3>2, <3>3, NoneComing DEF DInv
  <2>4. CASE jobs # <<>>
    <3>. DEFINE j == jobs[1]
                s == j.script
                e == ev[list[1]]
    <3>1. /\ j \in Jobs /\ Head(jobs) = j /\ Tail(jobs) = <<>> /\ Script = s /\ s \in Seq(Packets)
          /\ Len(s) > 0 /\ list # <<>> /\ list[1] \in Ids
      BY <2>4, JobsShape
    <3>2. /\ Head(s) = s[1] /\ Tail(s) \in Seq(Packets) /\ Len(Tail(s)) = Len(s) - 1
          /\ \A k \in DOMAIN Tail(s) : k + 1 \in DOMAIN s /\ Tail(s)[k] = s[k + 1]
      BY Zenon, <3>1, TailShape
    <3>3. e \in Event /\ Size(e) \in {1, 2, 4} BY <3>1 DEF TypeOK, Event, Size
    <3>. DEFINE o == j.owed /\ ~cr
                q == IF say THEN Tail(s) ELSE s
                k == [j EXCEPT !.owed = o, !.script = q]
    <3>4. k.script = q BY <3>1 DEF Jobs
    <3>5. jobs' = (IF say /\ Len(s) = 1 THEN <<>> ELSE <<k>>)
      <4>1. Remaining(say, cr) = (IF say /\ Len(s) = 1 THEN <<>> ELSE <<k>> \o <<>>)
        BY <2>4, <3>1 DEF Remaining
      <4>2. <<k>> \o <<>> = <<k>> /\ <<>> \o <<>> = <<>> OBVIOUS
      <4>. HIDE DEF k
      <4>3. (<<k>> \o <<>>) \o <<>> = <<k>> BY Zenon, <4>2
      <4>. QED BY Zenon, <2>2, <4>1, <4>2, <4>3
    <3>. HIDE DEF k, o
    <3>6. IsRead(e) => /\ InPlace(e, s)
                       /\ e.st = "OCSE_PENDING" => s[1].resp.dl = WholeDl(e) /\ s[1].resp.dp = 0
      BY Zenon, <1>2, <2>4, <3>1 DEF WireData, Quiescent
    <3>7. CASE ~say
      <4>1. ~rport'.v /\ ~dport'.v BY <1>2, <3>7, EventTypes DEF Clock
      <4>2. jobs' = <<k>> /\ q = s BY <3>5, <3>7
      <4>3. Script' = s BY <3>4, <4>2 DEF Script
      <4>4. WireData' BY Zenon, <1>1, <2>0, <3>6, <4>1, <4>3 DEF WireData, InPlace, IsRead, Size, WholeDl
      <4>. QED BY <2>1, <4>4 DEF DInv
    <3>8. CASE say
      <4>1. rport' = s[1].resp /\ dport' = s[1].beat BY <3>1, <3>2, <3>8 DEF Clock
      <4>2. Script' = Tail(s)
        <5>1. CASE Len(s) = 1
          <6>1. Tail(s) = <<>>
            <7>1. Tail(s) \in Seq(Packets) /\ Len(Tail(s)) = 0 BY <5>1, <3>2
            <7>. QED BY <7>1, EmptySeq, Zenon
          <6>. QED BY <3>5, <3>8, <5>1, <6>1 DEF Script
        <5>2. CASE Len(s) # 1
          <6>1. jobs' = <<k>> /\ q = Tail(s) BY <3>5, <3>8, <5>2
          <6>. QED BY <3>4, <6>1 DEF Script
        <5>. QED BY <5>1, <5>2
      <4>. DEFINE n == Len(s)
                  z == Size(e)
      <4>3. n \in Nat /\ Len(Tail(s)) = n - 1 /\ z \in Nat /\ 1 \in DOMAIN s /\ DOMAIN Tail(s) \subseteq Nat
        BY <3>1, <3>2, <3>3
      <4>4. IsRead(e) => \A p \in DOMAIN s : s[p].beat.v => s[p].beat.flit = z - n + p - 1
        BY Zenon, <3>6 DEF InPlace
      <4>. HIDE DEF n, z
      <4>5. IsRead(e) /\ dport'.v => dport'.flit = z - Len(Tail(s)) - 1
        BY <4>1, <4>3, <4>4
      <4>6. IsRead(e) => \A p \in DOMAIN Tail(s) : Tail(s)[p].beat.v =>
                              Tail(s)[p].beat.flit = z - Len(Tail(s)) + p - 1
        <5>. SUFFICES ASSUME IsRead(e), NEW p \in DOMAIN Tail(s), Tail(s)[p].beat.v
                      PROVE  Tail(s)[p].beat.flit = z - Len(Tail(s)) + p - 1
          OBVIOUS
        <5>1. p + 1 \in DOMAIN s /\ Tail(s)[p] = s[p + 1] /\ p \in Nat BY <3>2, <4>3
        <5>2. Tail(s)[p].beat.flit = z - n + (p + 1) - 1 BY <4>4, <5>1
        <5>3. n \in Nat /\ z \in Nat /\ p \in Nat BY <4>3, <5>1
        <5>4. z - n + (p + 1) - 1 = z - (n - 1) + p - 1 BY <5>3
        <5>. QED BY Zenon, <4>3, <5>2, <5>4
      <4>7. Quiescent' => jobs' = <<>> \/ e.st # "OCSE_PENDING"
        <5>1. Coming(list[1], Head(s), Tail(s)) BY Zenon, <1>2, <2>4, <3>1 DEF Wire, Quiescent
        <5>2. s[1].resp.v \/ s[1].beat.v BY <3>2, <5>1 DEF Coming
        <5>. QED BY <4>1, <5>2 DEF Quiescent
      <4>8. ev'[list'[1]] = e /\ list' = list BY <1>1, <2>0
      <4>9. InPlace(e, Tail(s)) \/ ~IsRead(e) BY Zenon, <4>6 DEF InPlace, z
      <4>10. WireData'
        BY Zenon, <2>0, <3>6, <4>1, <4>2, <4>5, <4>7, <4>8, <4>9 DEF WireData, InPlace, IsRead, Size, WholeDl, z
      <4>. QED BY <2>1, <4>10 DEF DInv
    <3>. QED BY <3>7, <3>8
  <2>. QED BY <2>3, <2>4
<1>. QED BY <1>3, <1>4

\* A beat goes to the place of its flit.
LEMMA InOrder ==
  ASSUME NEW e \in Event, e.dl = Encoded(e.n), e.rdl = WholeDl(e), e.rdp = 0, e.idx = e.recv, e.recv < Size(e)
  PROVE  Offset(e) = e.recv
<1>1. e.n \in {0, 1, 2, 4} /\ e.recv \in 0 .. 4 BY DEF Event
<1>2. e.n = 0 => e.recv = 0 /\ Offset(e) = 0 BY <1>1 DEF Size, Offset
<1>3. e.n = 1 => e.recv = 0 /\ e.rdl = 1 BY <1>1 DEF Size, WholeDl, Encoded
<1>4. e.n = 2 => e.rdl = 2 BY <1>1 DEF WholeDl, Encoded
<1>5. e.n = 4 => e.rdl = 3 BY <1>1 DEF WholeDl, Encoded
<1>6. CASE e.n = 1 BY <1>3, <1>6 DEF Offset
<1>7. CASE e.n = 2
  <2>1. Offset(e) = 0 * 2 + e.recv BY <1>4, <1>7 DEF Offset
  <2>. QED BY <1>1, <2>1
<1>8. CASE e.n = 4 BY <1>5, <1>8 DEF Offset
<1>. QED BY <1>1, <1>2, <1>6, <1>7, <1>8

\* The head changes and so does its data; the others keep theirs.
LEMMA HeadData ==
  ASSUME IInv, DataOf, NEW i \in Ids, NEW f \in Event, ev' = [ev EXCEPT ![i] = f],
         f.st \in {"OCSE_BUFFER", "OCSE_DONE"},
         f.st = "OCSE_BUFFER" => /\ f.dl = Encoded(f.n) /\ f.rdl = WholeDl(f) /\ f.rdp = 0,
         NEW n, f.st = "OCSE_BUFFER" => n = f.recv, f.st = "OCSE_DONE" /\ IsRead(f) => n = Size(f),
         f.st = "OCSE_BUFFER" \/ IsRead(f) =>
           \A p \in Places : /\ f.data[p].v <=> p < n
                             /\ f.data[p].v => f.data[p].id = i /\ f.data[p].flit = p
  PROVE  DataOf'
<1>1. ev'[i] = f /\ \A k \in Ids : k # i => ev'[k] = ev[k] BY DEF IInv, TypeOK
<1>. SUFFICES ASSUME NEW k \in Ids
              PROVE  LET e == ev'[k] IN
                /\ e.st \in {"FREE", "OCSE_IDLE", "OCSE_PENDING"} => Holds(k, 0)'
                /\ e.st = "OCSE_BUFFER" => /\ e.dl = Encoded(e.n) /\ e.rdl = WholeDl(e) /\ e.rdp = 0
                                           /\ Holds(k, ev[k].recv)'
                /\ e.st = "OCSE_DONE" /\ IsRead(e) => Holds(k, Size(ev[k]))'
  BY DEF DataOf
<1>2. CASE k = i
  <2>0. ev'[k] = f BY <1>1, <1>2
  <2>1. ASSUME f.st = "OCSE_BUFFER" PROVE Holds(k, ev[k].recv)'
    <3>1. ev'[k].recv = n BY <2>0, <2>1
    <3>2. \A p \in Places : /\ ev'[k].data[p].v <=> p < n
                            /\ ev'[k].data[p].v => ev'[k].data[p].id = k /\ ev'[k].data[p].flit = p
      BY Zenon, <1>2, <2>0, <2>1
    <3>. QED BY Zenon, <3>1, <3>2 DEF Holds
  <2>2. ASSUME f.st = "OCSE_DONE", IsRead(f) PROVE Holds(k, Size(ev[k]))'
    <3>1. Size(ev[k])' = n BY <2>0, <2>2 DEF Size
    <3>2. \A p \in Places : /\ ev'[k].data[p].v <=> p < n
                            /\ ev'[k].data[p].v => ev'[k].data[p].id = k /\ ev'[k].data[p].flit = p
      BY Zenon, <1>2, <2>0, <2>2
    <3>. HIDE DEF Size
    <3>. QED BY Zenon, <3>1, <3>2 DEF Holds
  <2>. QED BY <1>1, <1>2, <2>1, <2>2
<1>3. CASE k # i
  <2>1. ev'[k] = ev[k] BY <1>1, <1>3
  <2>2. Holds(k, 0)' = Holds(k, 0) /\ Holds(k, ev[k].recv)' = Holds(k, ev[k].recv)
        /\ Holds(k, Size(ev[k]))' = Holds(k, Size(ev[k]))
    BY <2>1, SameData
  <2>. QED BY Zenon, <2>1, <2>2 DEF DataOf
<1>. QED BY <1>2, <1>3

\* The response.
LEMMA RespData ==
  ASSUME IInv, DInv, handle_ap_resp
  PROVE  DInv'
<1>. TypeOK /\ Wire /\ Stages /\ DataOf /\ WireData BY DEF IInv, DInv
<1>. DEFINE i == list[1]
            e == ev[i]
<1>0. pc = "resp" /\ UNCHANGED <<list, dport, jobs>> BY DEF handle_ap_resp
<1>1. list # <<>> /\ Head(list) = i /\ i \in Ids /\ e \in Event BY <1>0, HeadOfList
<1>2. Script' = Script BY <1>0 DEF Script
<1>3. ~rport'.v
  <2>1. rport.v => ReadsResp(e) BY <1>0, RespFits
  <2>2. rport' = IF ReadsResp(e) THEN NoResp ELSE rport BY <1>1 DEF handle_ap_resp
  <2>. QED BY <2>1, <2>2, EventTypes
<1>4. CASE rport.v /\ e.st = "OCSE_PENDING"
  <2>. DEFINE f == Responded(e)
  <2>1. ev' = [ev EXCEPT ![i] = f]
    BY <1>0, <1>1, <1>4, RespFits DEF handle_ap_resp
  <2>2. /\ f \in Event /\ f.st = (IF IsRead(e) THEN "OCSE_BUFFER" ELSE "OCSE_DONE")
        /\ f.cfg = e.cfg /\ f.recv = e.recv
        /\ f.rnw = e.rnw /\ f.n = e.n /\ f.data = e.data /\ f.dl = e.dl
        /\ IsRead(e) => f.rdl = rport.dl /\ f.rdp = rport.dp
    BY <1>1, RespondedType DEF TypeOK
  <2>. HIDE DEF f
  <2>3. e.recv = 0 /\ e.dl = Encoded(e.n) /\ Holds(i, 0) BY <1>1, <1>4 DEF Stages, DataOf
  <2>4. IsRead(f) = IsRead(e) /\ Size(f) = Size(e) /\ WholeDl(f) = WholeDl(e) BY <2>2 DEF IsRead, Size, WholeDl
  <2>5. IsRead(e) => rport.dl = WholeDl(e) /\ rport.dp = 0 BY <1>1, <1>4 DEF WireData
  <2>6. DataOf'
    <3>1. f.st \in {"OCSE_BUFFER", "OCSE_DONE"} /\ (f.st = "OCSE_DONE" => ~IsRead(f)) BY <2>2, <2>4
    <3>2. f.st = "OCSE_BUFFER" => /\ f.dl = Encoded(f.n) /\ f.rdl = WholeDl(f) /\ f.rdp = 0
      BY <2>2, <2>3, <2>4, <2>5
    <3>3. \A p \in Places : /\ f.data[p].v <=> p < 0
                            /\ f.data[p].v => f.data[p].id = i /\ f.data[p].flit = p
      BY <2>2, <2>3 DEF Holds
    <3>4. f.recv = 0 BY <2>2, <2>3
    <3>. QED BY <1>1, <2>1, <2>2, <3>1, <3>2, <3>3, <3>4, HeadData
  <2>7. ev'[list'[1]] = f BY <1>0, <1>1, <2>1 DEF TypeOK
  <2>8. IsRead(e) => (jobs # <<>> => InPlace(e, Script)) /\ (dport.v => dport.flit = Size(e) - Len(Script) - 1)
    BY Zenon, <1>1 DEF WireData
  <2>9. IsRead(f) => f.st = "OCSE_BUFFER" BY <2>2, <2>4
  <2>10. InPlace(f, Script) <=> InPlace(e, Script) BY Zenon, <2>4 DEF InPlace
  <2>11. WireData'
    BY Zenon, <1>0, <1>2, <1>3, <2>4, <2>7, <2>8, <2>9, <2>10 DEF WireData, InPlace, IsRead, Size, WholeDl
  <2>. QED BY <2>6, <2>11 DEF DInv
<1>5. CASE ~(rport.v /\ e.st = "OCSE_PENDING")
  <2>1. ev' = ev BY <1>1, <1>5 DEF handle_ap_resp, ReadsResp
  <2>2. DataOf'
    <3>1. \A k, n : Holds(k, n)' <=> Holds(k, n) BY Zenon, <2>1 DEF Holds
    <3>. QED BY <2>1 DEF DataOf, Holds
  <2>3. Quiescent' => Quiescent \/ e.st # "OCSE_PENDING" BY <1>0, <1>5 DEF Quiescent
  <2>4. WireData'
    BY Zenon, <1>0, <1>2, <1>3, <2>1, <2>3 DEF WireData, InPlace, IsRead, Size, WholeDl
  <2>. QED BY <2>2, <2>4 DEF DInv
<1>. QED BY <1>4, <1>5

\* The data.
LEMMA DataData ==
  ASSUME IInv, DInv, handle_ap_resp_data
  PROVE  DInv'
<1>. TypeOK /\ Wire /\ Stages /\ ListOK /\ DataOf /\ WireData BY DEF IInv, DInv
<1>. DEFINE i == list[1]
            e == ev[i]
<1>0. pc = "data" /\ UNCHANGED <<rport, jobs>> BY DEF handle_ap_resp_data
<1>1. list # <<>> /\ Head(list) = i /\ i \in Ids /\ e \in Event BY <1>0, HeadOfList
<1>2. Script' = Script BY <1>0 DEF Script
<1>3. ~rport'.v BY <1>0 DEF Wire
<1>4. ~dport'.v
  <2>1. dport.v => e.rnw /\ ~e.cfg BY <1>0 DEF Wire, IsRead
  <2>. QED BY <1>1, <2>1, EventTypes DEF handle_ap_resp_data
<1>5. CASE dport.v
  <2>1. /\ e.st = "OCSE_BUFFER" /\ IsRead(e) /\ dport.id = i
        /\ Script \in Seq(Packets) /\ Len(Script) + 1 = Size(e) - e.recv
    BY Zenon, <1>0, <1>5 DEF Wire
  <2>2. /\ e.idx = e.recv /\ e.recv < Size(e) /\ _resp_dldp_is_legal(e.dl, e.rdl, e.rdp)
        /\ e.dl = Encoded(e.n) /\ e.rdl = WholeDl(e) /\ e.rdp = 0 /\ Holds(i, e.recv)
    BY <1>1, <2>1 DEF Stages, DataOf
  <2>3. Size(e) \in {1, 2, 4} /\ e.recv \in 0 .. 4 /\ e.data \in [Places -> Beats] BY <1>1 DEF Size, Event
  <2>4. dport.flit = e.recv
    <3>. DEFINE n == Len(Script)
    <3>1. n \in Nat /\ n + 1 = Size(e) - e.recv /\ dport.flit = Size(e) - n - 1
      BY <1>1, <1>5, <2>1 DEF WireData
    <3>. HIDE DEF n
    <3>. QED BY <2>3, <3>1
  <2>5. Offset(e) = e.recv /\ e.recv \in Places
    <3>1. Offset(e) = e.recv BY <1>1, <2>2, InOrder
    <3>. QED BY <2>3, <3>1 DEF Places
  <2>. DEFINE f == Gathered(e)
  <2>6. /\ f \in Event
        /\ f.st = (IF e.recv + 1 = Size(e) THEN "OCSE_DONE" ELSE "OCSE_BUFFER")
        /\ f.cfg = e.cfg /\ f.rnw = e.rnw /\ f.n = e.n /\ f.dl = e.dl /\ f.rdl = e.rdl /\ f.rdp = e.rdp
        /\ f.data = [e.data EXCEPT ![Offset(e)] = dport]
        /\ f.st = "OCSE_BUFFER" => f.recv = e.recv + 1
    BY <1>1, <2>1, <2>2, GatheredType DEF TypeOK
  <2>7. /\ ev' = [ev EXCEPT ![i] = f] /\ list' = IF f.st = "OCSE_DONE" THEN Tail(list) ELSE list
    BY <1>1, <1>5, <2>1 DEF handle_ap_resp_data, HeadAfterData, IsRead, Finished
  <2>. HIDE DEF f
  <2>8. IsRead(f) = IsRead(e) /\ Size(f) = Size(e) /\ WholeDl(f) = WholeDl(e) BY <2>6 DEF IsRead, Size, WholeDl
  <2>. DEFINE n == e.recv + 1
  <2>9. \A p \in Places : /\ f.data[p].v <=> p < n
                          /\ f.data[p].v => f.data[p].id = i /\ f.data[p].flit = p
    <3>. TAKE p \in Places
    <3>0. p \in Nat BY DEF Places
    <3>1. CASE p = e.recv
      <4>1. f.data[p] = dport BY <2>3, <2>5, <2>6, <3>1
      <4>2. p < n BY <2>3, <3>1
      <4>. QED BY <1>5, <2>1, <2>4, <3>1, <4>1, <4>2
    <3>2. CASE p # e.recv
      <4>1. f.data[p] = e.data[p] BY <2>3, <2>5, <2>6, <3>2
      <4>2. p < n <=> p < e.recv BY <2>3, <3>0, <3>2
      <4>. QED BY <2>2, <4>1, <4>2 DEF Holds
    <3>. QED BY <3>1, <3>2
  <2>10. DataOf'
    <3>1. f.st \in {"OCSE_BUFFER", "OCSE_DONE"} BY <2>6
    <3>2. f.st = "OCSE_BUFFER" => f.dl = Encoded(f.n) /\ f.rdl = WholeDl(f) /\ f.rdp = 0 BY <2>2, <2>6, <2>8
    <3>3. (f.st = "OCSE_BUFFER" => n = f.recv) /\ (f.st = "OCSE_DONE" => n = Size(f)) BY <2>6, <2>8
    <3>. HIDE DEF n
    <3>. QED BY <1>1, <2>6, <2>7, <2>9, <3>1, <3>2, <3>3, HeadData
  <2>11. WireData'
    <3>1. CASE f.st = "OCSE_DONE"
      <4>1. jobs = <<>>
        <5>. DEFINE m == Len(Script)
        <5>1. m \in Nat /\ m + 1 = Size(e) - e.recv /\ e.recv + 1 = Size(e) BY <2>1, <2>6, <3>1
        <5>. HIDE DEF m
        <5>2. m = 0 BY <2>3, <5>1
        <5>. QED BY <5>2, NoScript DEF m
      <4>. QED BY <1>0, <1>3, <1>4, <4>1, NoneComing
    <3>2. CASE f.st # "OCSE_DONE"
      <4>1. list' = list /\ ev'[i] = f /\ f.st # "OCSE_PENDING" BY <1>1, <2>6, <2>7, <3>2 DEF TypeOK
      <4>2. jobs # <<>> => InPlace(e, Script) BY Zenon, <1>1, <2>1 DEF WireData
      <4>3. InPlace(f, Script) <=> InPlace(e, Script) BY Zenon, <2>8 DEF InPlace
      <4>. QED BY Zenon, <1>0, <1>2, <1>3, <1>4, <4>1, <4>2, <4>3 DEF WireData, InPlace, IsRead, Size, WholeDl
    <3>. QED BY <3>1, <3>2
  <2>. QED BY <2>10, <2>11 DEF DInv
<1>6. CASE ~dport.v
  <2>1. ev' = ev /\ list' = IF e.st = "OCSE_DONE" THEN Tail(list) ELSE list
    BY <1>1, <1>6 DEF handle_ap_resp_data, HeadAfterData, Finished, TypeOK
  <2>2. DataOf'
    <3>1. \A k, n : Holds(k, n)' <=> Holds(k, n) BY Zenon, <2>1 DEF Holds
    <3>. QED BY <2>1 DEF DataOf, Holds
  <2>3. WireData'
    <3>1. CASE e.st = "OCSE_DONE"
      <4>1. jobs = <<>> BY <1>1, <3>1 DEF ListOK
      <4>. QED BY <1>0, <1>3, <1>4, <4>1, NoneComing
    <3>2. CASE e.st # "OCSE_DONE"
      <4>1. list' = list BY <2>1, <3>2
      <4>2. Quiescent BY <1>0, <1>6 DEF Quiescent, Wire
      <4>. QED BY Zenon, <1>0, <1>2, <1>3, <1>4, <2>1, <4>1, <4>2 DEF WireData, InPlace, IsRead, Size, WholeDl
    <3>. QED BY <3>1, <3>2
  <2>. QED BY <2>2, <2>3 DEF DInv
<1>. QED BY <1>5, <1>6

\* The command.
LEMMA SendData ==
  ASSUME IInv, DInv, send_mmio
  PROVE  DInv'
<1>. TypeOK /\ Wire /\ DataOf /\ WireData BY DEF IInv, DInv
<1>1. pc = "send" /\ UNCHANGED <<list, rport, dport, jobs>> BY DEF send_mmio
<1>2. ~rport.v /\ ~dport.v BY <1>1 DEF Wire
<1>3. CASE list # <<>> /\ CanSend(ev[Head(list)])
  <2>. DEFINE i == list[1]
              e == ev[i]
              f == Sent(e)
  <2>1. Head(list) = i /\ i \in Ids /\ e \in Event BY <1>3 DEF TypeOK
  <2>2. e.st = "OCSE_IDLE" BY <1>3, <2>1 DEF CanSend
  <2>3. jobs = <<>>
    <3>. SUFFICES ASSUME jobs # <<>> PROVE FALSE OBVIOUS
    <3>1. Coming(i, Head(Script), Tail(Script)) BY Zenon, <1>2 DEF Wire, Quiescent
    <3>. QED BY Zenon, <2>2, <3>1 DEF Coming
  <2>4. ev' = [ev EXCEPT ![i] = f] BY <1>3, <2>1 DEF send_mmio
  <2>5. f \in Event /\ f.st = "OCSE_PENDING" /\ f.data = e.data BY <2>1, SentType
  <2>. HIDE DEF f
  <2>6. Holds(i, 0) BY <2>1, <2>2 DEF DataOf
  <2>7. \A p \in Places : ~f.data[p].v BY <2>5, <2>6 DEF Holds, Places
  <2>8. DataOf' BY <2>1, <2>4, <2>5, <2>7, DataKept
  <2>9. WireData' BY <1>1, <1>2, <2>3, NoneComing
  <2>. QED BY <2>8, <2>9 DEF DInv
<1>4. CASE ~(list # <<>> /\ CanSend(ev[Head(list)]))
  <2>1. ev' = ev BY <1>4 DEF send_mmio
  <2>. QED BY <1>1, <2>1, DataStays
<1>. QED BY <1>3, <1>4

\* A done event is freed, by its client or by the configuration thread.
LEMMA FreeData ==
  ASSUME IInv, DInv, NEW i \in Ids, ev[i].st = "OCSE_DONE", ev' = [ev EXCEPT ![i] = NoEvent],
         pc \notin {"resp", "data"}, UNCHANGED <<list, rport, dport, jobs>>
  PROVE  DInv'
<1>1. NoEvent \in Event /\ NoEvent.st = "FREE" /\ \A p \in Places : ~NoEvent.data[p].v
  BY EventTypes DEF NoEvent
<1>2. list # <<>> => list[1] # i BY DEF IInv, ListOK
<1>. QED BY <1>1, <1>2, EventData

\* A new event is added.
LEMMA AddData ==
  ASSUME IInv, DInv, NEW i \in Ids, NEW b \in BOOLEAN, NEW q \in ReqT, NEW o \in 0 .. MaxOpens,
         _add_event(i, NewEvent(b, q, o)), pc \notin {"resp", "data"}, UNCHANGED <<rport, dport, jobs>>
  PROVE  DInv'
<1>. DEFINE e == NewEvent(b, q, o)
<1>1. e \in Event /\ e.st = "OCSE_IDLE" /\ e.data = [p \in Places |-> NoBeat] BY NewEventType
<1>2. i \in FreeIds /\ ev' = [ev EXCEPT ![i] = e] /\ list' = Append(list, i) BY DEF _add_event
<1>. HIDE DEF e
<1>3. \A p \in Places : ~e.data[p].v BY <1>1, EventTypes
<1>4. list # <<>> => list'[1] = list[1] /\ list[1] # i
  <2>1. list \in Seq(Ids) BY DEF IInv, TypeOK
  <2>2. list # <<>> => 1 \in DOMAIN list /\ list'[1] = list[1] BY <1>2, <2>1
  <2>. QED BY <1>2, <2>2, FreshId
<1>. QED BY <1>1, <1>2, <1>3, <1>4, EventData

\* A message of a client keeps the data of the events.
LEMMA MessageData ==
  ASSUME IInv, DInv, Message
  PROVE  DInv'
<1>. TypeOK BY DEF IInv
<1>. DEFINE k == client[cur]
            m == Head(app[cur].out)
            a == Tail(app[cur].out)
<1>1. pc = "msg" /\ app[cur].out # <<>> /\ cur \in Ctx /\ UNCHANGED <<rport, dport, jobs>>
  BY DEF Message, TypeOK
<1>2. CASE UNCHANGED <<ev, list>> BY <1>1, <1>2, DataStays
<1>3. CASE m.t = "access" /\ Queued(k, m.q, a)
  <2>1. app[cur] \in App /\ k \in Client BY <1>1, SameApp
  <2>2. m \in Msgs /\ k.id \in 0 .. MaxOpens
    <3>1. app[cur].out \in Seq(Msgs) BY <2>1 DEF App
    <3>. QED BY <1>1, <2>1, <3>1 DEF Client
  <2>3. m.q \in Reqs BY <1>3, <2>2, MsgFields
  <2>. DEFINE q == m.q
              o == k.id
              b == FALSE
  <2>4. q \in ReqT /\ o \in 0 .. MaxOpens /\ b \in BOOLEAN
    BY <2>2, <2>3, MmioAssumption DEF MmioAssumption, ReqT
  <2>5. PICK i \in Ids : _add_event(i, NewEvent(b, q, o)) BY <1>3 DEF Queued
  <2>. HIDE DEF q, o, b
  <2>. QED BY <1>1, <2>4, <2>5, AddData
<1>. QED BY <1>2, <1>3 DEF Message, _attach, _detach, handle_mmio_map, handle_mmio, handle_mem

\* So does a step of the configuration thread.
LEMMA ConfigData ==
  ASSUME IInv, DInv, Config
  PROVE  DInv'
<1>. TypeOK BY DEF IInv
<1>1. pc = "clock" /\ UNCHANGED <<rport, dport, jobs>> BY DEF Config, AddCfg, _wait_for_done, Configured
<1>2. boot \in [done : 0 .. Len(CfgOps), id : Ids \cup {Nil}] BY DEF TypeOK
<1>3. CfgOps \in Seq(BOOLEAN) /\ Len(CfgOps) \in Nat BY MmioAssumption DEF MmioAssumption
<1>4. CASE AddCfg
  <2>. DEFINE q == [NoReq EXCEPT !.rnw = CfgOps[boot.done + 1]]
              z == 0
              b == TRUE
  <2>1. boot.done < Len(CfgOps) BY <1>4 DEF AddCfg
  <2>2. q \in ReqT
    <3>1. CfgOps[boot.done + 1] \in BOOLEAN
      <4>. DEFINE n == boot.done
      <4>1. n \in Nat /\ n < Len(CfgOps) BY <1>2, <2>1
      <4>. HIDE DEF n
      <4>2. CfgOps[n + 1] \in BOOLEAN BY <1>3, <4>1
      <4>. QED BY <4>2 DEF n
    <3>. QED BY <3>1 DEF NoReq, ReqT
  <2>3. z \in 0 .. MaxOpens /\ b \in BOOLEAN BY MmioAssumption DEF MmioAssumption
  <2>4. PICK i \in Ids : _add_event(i, NewEvent(b, q, z)) BY <1>4 DEF AddCfg
  <2>. HIDE DEF q, z, b
  <2>. QED BY <1>1, <2>2, <2>3, <2>4, AddData
<1>5. CASE _wait_for_done
  <2>1. /\ boot.id # Nil /\ ev[boot.id].st = "OCSE_DONE" /\ ev' = [ev EXCEPT ![boot.id] = NoEvent]
        /\ list' = list
    BY <1>5 DEF _wait_for_done
  <2>2. boot.id \in Ids BY <1>2, <2>1
  <2>. QED BY <1>1, <2>1, <2>2, FreeData
<1>6. CASE Configured BY <1>6, DataStays DEF Configured
<1>. QED BY <1>4, <1>5, <1>6 DEF Config

\* So does the completion of an access.
LEMMA DoneData ==
  ASSUME IInv, DInv, handle_mmio_done
  PROVE  DInv'
<1>. TypeOK BY DEF IInv
<1>. DEFINE i == client[cur].acc
<1>1. pc = "slot" /\ UNCHANGED <<list, rport, dport, jobs>> BY DEF handle_mmio_done
<1>2. CASE ev' = ev BY <1>1, <1>2, DataStays
<1>3. CASE i # Nil /\ ev[i].st = "OCSE_DONE" /\ ev' = [ev EXCEPT ![i] = NoEvent]
  <2>1. i \in Ids \cup {Nil} BY DEF TypeOK, Client
  <2>. QED BY <1>1, <1>3, <2>1, FreeData
<1>. QED BY <1>2, <1>3 DEF handle_mmio_done

\* Every read has its own data, each flit at its place in the buffer and nothing past
\* its end, and all of it when the read is done.
EveryFlitInPlace ==
  \A i \in Ids : ev[i].st \in {"OCSE_BUFFER", "OCSE_DONE"} /\ IsRead(ev[i]) =>
    \A p \in Places :
      /\ ev[i].data[p].v => p < Size(ev[i]) /\ ev[i].data[p].id = i /\ ev[i].data[p].flit = p
      /\ ev[i].st = "OCSE_DONE" /\ p < Size(ev[i]) => ev[i].data[p].v

\* Unless the AFU splits its answer, every read that is done has each flit of its
\* data at its place in the buffer, and nothing is written past its end.
THEOREM DataIntact ==
  ASSUME "split" \notin Answers
  PROVE  Spec => []ReadDataIntact /\ []EveryFlitInPlace
<1>1. Init => DInv
  <2>. SUFFICES ASSUME Init PROVE DInv OBVIOUS
  <2>1. list = <<>> /\ \A i \in Ids : ev[i] = NoEvent BY DEF Init
  <2>2. NoEvent.st = "FREE" /\ \A p \in Places : ~NoEvent.data[p].v /\ ~(p < 0)
    BY EventTypes DEF NoEvent, Places
  <2>3. \A i \in Ids : ev[i].st = "FREE" /\ Holds(i, 0) BY <2>1, <2>2 DEF Holds
  <2>4. DataOf BY <2>3 DEF DataOf
  <2>5. WireData BY <2>1 DEF WireData
  <2>. QED BY <2>4, <2>5 DEF DInv
<1>2. IInv /\ DInv /\ [Next]_vars => DInv'
  <2>. SUFFICES ASSUME IInv, DInv, [Next]_vars PROVE DInv' OBVIOUS
  <2>1. ASSUME NEW say \in BOOLEAN, NEW cr \in BOOLEAN, Clock(say, cr) PROVE DInv' BY <2>1, ClockData
  <2>2. CASE Stopped \/ EmptySlot \/ ReleaseSlot \/ NoMessage \/ Lost
    BY <2>2, DataStays DEF Stopped, EmptySlot, ReleaseSlot, NoMessage, Lost
  <2>3. CASE Loop
    BY <2>1, <2>2, <2>3, RespData, DataData, SendData, DoneData, MessageData DEF Loop
  <2>4. CASE Config BY <2>4, ConfigData
  <2>5. ASSUME NEW c \in Ctx, CmdDrop(c) \/ Open(c) \/ Close(c) \/ Die(c) PROVE DInv'
    BY <2>5, DataStays DEF CmdDrop, Open, Close, Die, ocseVars, afuVars
  <2>6. ASSUME NEW c \in Ctx, NEW m \in Msgs \ {Plain("detach")}, Write(c, m) PROVE DInv'
    BY <2>6, DataStays DEF Write, ocseVars, afuVars
  <2>7. CASE UNCHANGED vars BY <2>7, DataStays DEF vars
  <2>. QED BY <2>3, <2>4, <2>5, <2>6, <2>7 DEF Next
<1>3. IInv /\ DInv => EveryFlitInPlace
  <2>. SUFFICES ASSUME IInv, DInv, NEW i \in Ids, ev[i].st \in {"OCSE_BUFFER", "OCSE_DONE"}, IsRead(ev[i]),
                       NEW p \in Places
                PROVE  /\ ev[i].data[p].v => p < Size(ev[i]) /\ ev[i].data[p].id = i /\ ev[i].data[p].flit = p
                       /\ ev[i].st = "OCSE_DONE" /\ p < Size(ev[i]) => ev[i].data[p].v
    BY DEF EveryFlitInPlace
  <2>1. ev[i] \in Event BY DEF IInv, TypeOK
  <2>2. Size(ev[i]) \in Nat /\ ev[i].recv \in Nat /\ p \in Nat BY <2>1 DEF Event, Size, Places
  <2>3. CASE ev[i].st = "OCSE_BUFFER"
    <3>1. ev[i].recv < Size(ev[i]) BY <2>3 DEF IInv, Stages
    <3>2. Holds(i, ev[i].recv) BY <2>3 DEF DInv, DataOf
    <3>3. p < ev[i].recv => p < Size(ev[i]) BY <2>2, <3>1
    <3>. QED BY <2>3, <3>2, <3>3 DEF Holds
  <2>4. CASE ev[i].st = "OCSE_DONE"
    <3>1. Holds(i, Size(ev[i])) BY <2>4 DEF DInv, DataOf
    <3>. HIDE DEF Size
    <3>. QED BY <3>1 DEF Holds
  <2>. QED BY <2>3, <2>4
<1>4. EveryFlitInPlace => ReadDataIntact
  BY DEF EveryFlitInPlace, ReadDataIntact, IsRead, Size
<1>. QED BY <1>1, <1>2, <1>3, <1>4, Invariant, PTL DEF Spec
=============================================================================
