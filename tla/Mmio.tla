-------------------------------- MODULE Mmio --------------------------------
(***************************************************************************)
(* Accesses from the host to the AFU: mmio.c, with the parts of ocl.c that *)
(* clock the AFU and serve the clients.  Configuration accesses of the     *)
(* thread that runs read_afu_config, MMIO accesses and LPC memory accesses *)
(* of the applications are queued on one list; its head is sent to the     *)
(* AFU, its answer is gathered, and the client that points to the event is *)
(* given the result and frees it.                                          *)
(*                                                                         *)
(* The ocl thread holds the ocse lock except in lock_delay, where it is at *)
(* pc = "clock"; there the configuration thread and the threads that open  *)
(* clients get their turns.  Applications write to their sockets at any    *)
(* time.  Sizes are in 64-byte flits; n = 0 is an access below 64 bytes,   *)
(* whose answer is one beat.  Writes send their data with the command, in  *)
(* one packet, so only the data of reads is modelled.                      *)
(***************************************************************************)
EXTENDS Integers, Sequences, FiniteSets

CONSTANTS
  MaxClients,   \* ocl->max_clients
  MaxEvents,    \* bound on the events that are reachable at a time
  Reqs,         \* accesses of the applications, a subset of [mem, rnw, n]
  CfgOps,       \* the accesses of read_afu_config: TRUE for a read
  IdleCycles,   \* TLX_IDLE_CYCLES
  CmdCredits,   \* command credits the AFU gives to ocse
  CfgCredits,   \* configuration credits the AFU gives to ocse
  Answers,      \* what else the AFU may do: "split", "rd_fail", "wr_fail"
  Leaves,       \* how an application may leave: "detach", "early" (without attach), "die"
  Threads,      \* TRUE iff an application uses MMIO, LPC memory and close concurrently
  MaxOpens      \* bound on the number of clients that ever open a slot

ASSUME MmioAssumption ==
  /\ MaxClients \in Nat \ {0} /\ MaxEvents \in Nat \ {0} /\ MaxOpens \in Nat
  /\ Reqs \subseteq [mem : BOOLEAN, rnw : BOOLEAN, n : {0, 1, 2, 4}]
  /\ \A q \in Reqs : q.mem \/ q.n = 0
  /\ CfgOps \in Seq(BOOLEAN)
  /\ IdleCycles \in Nat \ {0}
  /\ CmdCredits \in 1 .. 255 /\ CfgCredits \in 1 .. 255
  /\ Answers \subseteq {"split", "rd_fail", "wr_fail"}
  /\ Leaves \subseteq {"detach", "early", "die"}
  /\ Threads \in BOOLEAN

Ctx == 0 .. (MaxClients - 1)
Ids == 1 .. MaxEvents
Nil == 0                            \* the NULL pointer to an event
Places == 0 .. 5                    \* flits of event->data, and past its end

VARIABLES
  pc,      \* what the ocl thread does next
  cur,     \* i, the client slot _ocl_loop looks at
  list,    \* mmio->list, from the head
  ev,      \* the events, by their place in memory
  boot,    \* the thread in read_afu_config: accesses done, and the one it waits for
  ocl,     \* state, attached_clients, idle_cycles, and whether ocl->client exists
  client,  \* ocl->client[]
  app,     \* the application of each slot
  opens,   \* clients opened so far
  port,    \* the command ports to the AFU (tlx_cfg_*, tlx_afu_cmd_*)
  rport,   \* the response ports of the AFU (cfg_tlx_resp_*, afu_tlx_resp_*)
  dport,   \* the response data bus of the AFU (afu_tlx_rdata_*)
  credits, \* cfg_tlx_credits_available, afu_tlx_cmd_credits_available
  jobs     \* the AFU: commands it has taken and not answered in full

vars == <<pc, cur, list, ev, boot, ocl, client, app, opens, port, rport, dport, credits, jobs>>

ocseVars == <<list, ev, boot, ocl, client, credits>>
afuVars == <<port, rport, dport, jobs>>
loopVars == <<pc, cur>>

-----------------------------------------------------------------------------
(***************************************************************************)
(* Events.                                                                 *)
(***************************************************************************)
EvStates == {"FREE", "OCSE_IDLE", "OCSE_PENDING", "OCSE_BUFFER", "OCSE_DONE"}

NoBeat == [v |-> FALSE, id |-> Nil, flit |-> 0]
Beats == {NoBeat} \cup [v : {TRUE}, id : Ids, flit : 0 .. 3]

\* dl is cmd_dL, rdl and rdp are resp_dL and resp_dP, idx and recv are
\* partial_index and size_received in flits.  fail: the response was mem_rd_fail
\* or mem_wr_fail.  Two fields are not the code's: own, the client the event was
\* made for (0: the configuration thread), and runs, how often the AFU has taken
\* its command.
Event == [st : EvStates, cfg : BOOLEAN, mem : BOOLEAN, rnw : BOOLEAN, n : {0, 1, 2, 4},
          dl : 0 .. 3, rdl : 0 .. 3, rdp : 0 .. 3, idx : 0 .. 4, recv : 0 .. 4,
          data : [Places -> Beats], fail : BOOLEAN, own : 0 .. MaxOpens, runs : 0 .. 2]

NoEvent == [st |-> "FREE", cfg |-> FALSE, mem |-> FALSE, rnw |-> FALSE, n |-> 0,
            dl |-> 0, rdl |-> 0, rdp |-> 0, idx |-> 0, recv |-> 0,
            data |-> [p \in Places |-> NoBeat], fail |-> FALSE, own |-> 0, runs |-> 0]

\* dl_to_size, in flits, and its inverse; dL is 0 for a partial access.
Flits(dl) == CASE dl = 2 -> 2 [] dl = 3 -> 4 [] OTHER -> 1
Encoded(n) == CASE n = 1 -> 1 [] n = 2 -> 2 [] n = 4 -> 3 [] OTHER -> 0

Reachable == {list[k] : k \in 1 .. Len(list)} \cup {client[c].acc : c \in Ctx} \cup {boot.id}

\* Memory malloc may return: freed, or leaked and out of everyone's reach.
FreeIds == {i \in Ids : ev[i].st = "FREE" \/ i \notin Reachable}

NewEvent(cfg, q, own) ==
  [NoEvent EXCEPT !.st = "OCSE_IDLE", !.cfg = cfg, !.mem = q.mem, !.rnw = q.rnw, !.n = q.n,
                  !.own = own]

\* _add_event and _add_mem_event: to the end of the list.
_add_event(i, e) ==
  /\ i \in FreeIds /\ \A j \in FreeIds : i <= j
  /\ ev' = [ev EXCEPT ![i] = e]
  /\ list' = Append(list, i)

-----------------------------------------------------------------------------
(***************************************************************************)
(* Clients and their applications.                                         *)
(***************************************************************************)
\* idle: idle_cycles is not 0.  acc is mmio_access, id numbers the clients.
Client == [st : {"FREE", "CLIENT_NONE", "CLIENT_VALID"}, idle : BOOLEAN,
           acc : Ids \cup {Nil}, id : 0 .. MaxOpens]

NoClient == [st |-> "FREE", idle |-> FALSE, acc |-> Nil, id |-> 0]

\* A message of an application: t is "attach", "map", "access" or "detach", q
\* the access.
NoReq == [mem |-> FALSE, rnw |-> FALSE, n |-> 0]
Plain(t) == [t |-> t, q |-> NoReq]
Msgs == {Plain(t) : t \in {"attach", "map", "detach"}} \cup [t : {"access"}, q : Reqs]

\* The request structs of libocxl: afu->attach, afu->mmio and afu->mem.
ClassOf(m) == CASE m.t = "attach" -> "attach" [] m.t = "access" /\ m.q.mem -> "mem"
                [] OTHER -> "mmio"

\* out: bytes ocse has not read yet; wait: requests without an answer.
App == [st : {"none", "up", "closing", "dead"}, att : BOOLEAN, wait : SUBSET Msgs,
        out : Seq(Msgs)]

NoApp == [st |-> "none", att |-> FALSE, wait |-> {}, out |-> <<>>]

client_drop(c) == [client[c] EXCEPT !.idle = TRUE, !.st = "CLIENT_NONE"]

\* put_bytes fails only when the peer is gone, and the first writes after that
\* may still succeed.
put_bytes(c) == IF app[c].st \in {"up", "closing"} THEN {TRUE} ELSE {TRUE, FALSE}

\* The application takes an answer: the request of that class is over.
Answered(c, class) ==
  [app[c] EXCEPT !.wait = {m \in @ : app[c].st = "dead" \/ ClassOf(m) # class},
                 !.att = @ \/ (class = "attach" /\ app[c].st # "dead")]

-----------------------------------------------------------------------------
(***************************************************************************)
(* The AFU.  The packets it answers a command with form a script: each may *)
(* hold a response, a beat of data, or both.                               *)
(***************************************************************************)
NoResp == [v |-> FALSE, cfg |-> FALSE, rnw |-> FALSE, fail |-> FALSE, dl |-> 0, dp |-> 0]
Resp == [v : BOOLEAN, cfg : BOOLEAN, rnw : BOOLEAN, fail : BOOLEAN, dl : 0 .. 3, dp : 0 .. 3]

RespTo(e, fail, dl, dp) ==
  [v |-> TRUE, cfg |-> e.cfg, rnw |-> e.rnw, fail |-> fail, dl |-> dl, dp |-> dp]

Packet(r, b) == [resp |-> r, beat |-> b]

Only(r) == <<Packet(r, NoBeat)>>

\* Part dp of the data of a read: the response, with its first beat or ahead of
\* it, and the other beats.
Part(i, e, dl, dp, early) ==
  LET r == RespTo(e, FALSE, dl, dp)
      beat(k) == [v |-> TRUE, id |-> i, flit |-> dp * Flits(dl) + k]
      rest(k) == [j \in 1 .. (Flits(dl) - k) |-> Packet(NoResp, beat(j + k - 1))]
  IN  IF early THEN Only(r) \o rest(0) ELSE <<Packet(r, beat(0))>> \o rest(1)

Whole(i, e) == {Part(i, e, IF e.dl = 0 THEN 1 ELSE e.dl, 0, early) : early \in BOOLEAN}

\* A read of 128 or 256 bytes in two parts, in either order.
Halves(i, e) ==
  {Part(i, e, e.dl - 1, d, FALSE) \o Part(i, e, e.dl - 1, 1 - d, FALSE) : d \in {0, 1}}

Scripts(i) ==
  LET e == ev[i] IN
  IF e.cfg \/ ~e.rnw
  THEN {Only(RespTo(e, f, 0, 0)) : f \in IF "wr_fail" \in Answers /\ ~e.cfg THEN BOOLEAN ELSE {FALSE}}
  ELSE Whole(i, e)
       \cup (IF "split" \in Answers /\ e.dl >= 2 THEN Halves(i, e) ELSE {})
       \cup (IF "rd_fail" \in Answers
             THEN {Only(RespTo(e, TRUE, IF e.dl = 0 THEN 1 ELSE e.dl, 0))} ELSE {})

\* The AFU takes the command ocse drives; its credit is owed to ocse.
Taken ==
  IF port = Nil THEN {<<>>} ELSE {<<[id |-> port, script |-> s, owed |-> TRUE]>> : s \in Scripts(port)}

\* The AFU sends the next packet of its script, or returns a credit, or does
\* neither.  A credit is returned no later than with the response.
CanSay(say, cr) ==
  /\ say => jobs # <<>> /\ (Head(jobs).owed => cr)
  /\ cr => jobs # <<>> /\ Head(jobs).owed

Remaining(say, cr) ==
  IF jobs = <<>> THEN jobs
  ELSE LET s == Head(jobs).script
           j == [Head(jobs) EXCEPT !.owed = @ /\ ~cr, !.script = IF say THEN Tail(@) ELSE @]
       IN  IF say /\ Len(s) = 1 THEN Tail(jobs) ELSE <<j>> \o Tail(jobs)

Returned(cr) ==
  IF ~cr THEN credits
  ELSE IF ev[Head(jobs).id].cfg THEN [credits EXCEPT !.cfg = (@ + 1) % 256]
  ELSE [credits EXCEPT !.cmd = (@ + 1) % 256]

Init ==
  /\ pc = "clock" /\ cur = 0
  /\ list = <<>>
  /\ ev = [i \in Ids |-> NoEvent]
  /\ boot = [done |-> 0, id |-> Nil]
  /\ ocl = [st |-> "OCSE_DESC", attached |-> 0, idle |-> IdleCycles, ready |-> FALSE]
  /\ client = [c \in Ctx |-> NoClient]
  /\ app = [c \in Ctx |-> NoApp]
  /\ opens = 0
  /\ port = Nil /\ rport = NoResp /\ dport = NoBeat
  /\ credits = [cfg |-> CfgCredits, cmd |-> CmdCredits]
  /\ jobs = <<>>

-----------------------------------------------------------------------------
(***************************************************************************)
(* The ocl thread: the clock and the AFU's packet.                         *)
(***************************************************************************)
\* Mutant: OCSE_DESC does not keep the clock running.
Refreshed_Attached ==
  IF ocl.st # "OCSE_IDLE" /\ ocl.attached > 0 THEN IdleCycles ELSE ocl.idle

\* idle_cycles is refreshed while there are clients or the AFU is configured.
Refreshed ==
  IF ocl.st = "OCSE_DESC" \/ (ocl.st # "OCSE_IDLE" /\ ocl.attached > 0)
  THEN IdleCycles ELSE ocl.idle

Slots == IF ocl.ready THEN "slot" ELSE "clock"

\* No clock for an idle AFU.
Stopped ==
  /\ pc = "clock" /\ Refreshed = 0
  /\ pc' = Slots /\ cur' = 0
  /\ UNCHANGED <<list, ev, boot, ocl, client, app, opens, port, rport, dport, credits, jobs>>

\* tlx_signal_afu_model and tlx_get_afu_events.  A packet that is just a clock
\* leaves the ports alone; one with something else in it, which may be a command
\* (see Cmd), sets or clears them all.
Clock(say, cr) ==
  /\ pc = "clock" /\ Refreshed > 0
  /\ CanSay(say, cr)
  /\ ocl' = [ocl EXCEPT !.idle = Refreshed]
  /\ \E t \in Taken : jobs' = Remaining(say, cr) \o t
  /\ ev' = IF port = Nil THEN ev
           ELSE [ev EXCEPT ![port].runs = IF @ < 2 THEN @ + 1 ELSE @]
  /\ port' = Nil
  /\ credits' = Returned(cr)
  /\ IF say
     THEN /\ rport' = Head(Head(jobs).script).resp
          /\ dport' = Head(Head(jobs).script).beat
     ELSE \/ rport' = NoResp /\ dport' = NoBeat
          \/ ~cr /\ UNCHANGED <<rport, dport>>
  /\ pc' = IF list # <<>> THEN "resp" ELSE "send"
  /\ UNCHANGED <<cur, list, boot, client, app, opens>>

-----------------------------------------------------------------------------
(***************************************************************************)
(* The head of the list and its answer.                                    *)
(***************************************************************************)
\* Mutant: only parts are legal, never the whole.
_resp_dldp_is_legal_SplitOnly(cmd_dl, dl, dp) ==
  \/ cmd_dl \in {0, 1, 2} /\ dl = 1
  \/ cmd_dl = 3 /\ dl \in {1, 2}

_resp_dldp_is_legal(cmd_dl, dl, dp) ==
  \/ cmd_dl \in {0, 1} /\ dl = 1
  \/ cmd_dl = 2 /\ ((dl = 1 /\ dp \in {0, 1}) \/ (dl = 2 /\ dp = 0))
  \/ cmd_dl = 3 /\ (dl = 1 \/ (dl = 2 /\ dp \in {0, 1}) \/ (dl = 3 /\ dp = 0))

\* A configuration response is read only by the access whose capptag it has.
ReadsResp(e) == rport.v /\ rport.cfg = e.cfg /\ (e.cfg => rport.rnw = e.rnw)

\* What a response does to the event it is for.
Responded(e) ==
  IF e.rnw /\ ~e.cfg
  THEN [e EXCEPT !.fail = rport.fail, !.rdl = rport.dl, !.rdp = rport.dp, !.idx = 0,
                 !.st = "OCSE_BUFFER"]
  ELSE [e EXCEPT !.fail = rport.fail, !.st = "OCSE_DONE"]

\* A response that finds the head in another state than PENDING is dropped; one
\* with the wrong dL or dP ends ocse.
handle_ap_resp ==
  /\ pc = "resp"
  /\ LET i == Head(list)
         e == ev[i]
         expected == ReadsResp(e) /\ e.st = "OCSE_PENDING"
         legal == e.cfg \/ ~e.rnw \/ _resp_dldp_is_legal(e.dl, rport.dl, rport.dp)
     IN  /\ rport' = IF ReadsResp(e) THEN NoResp ELSE rport
         /\ ev' = IF expected /\ legal THEN [ev EXCEPT ![i] = Responded(e)] ELSE ev
         /\ pc' = IF expected /\ ~legal THEN "exit" ELSE "data"
  /\ UNCHANGED <<cur, list, boot, ocl, client, app, opens, port, dport, credits, jobs>>

\* Mutant: partial_index is not added in a 128-byte response.
Offset_NoIndex(e) ==
  CASE e.n = 0 -> 0
    [] e.rdl = 1 -> e.rdp
    [] e.rdl = 2 -> e.rdp * 2
    [] OTHER -> e.idx

\* Where a beat goes in event->data.
Offset(e) ==
  CASE e.n = 0 -> 0
    [] e.rdl = 1 -> e.rdp
    [] e.rdl = 2 -> e.rdp * 2 + e.idx
    [] OTHER -> e.idx

\* The head takes a beat: the only one of a partial read, or one of n.
Gathered(e) ==
  LET got == [e EXCEPT !.data[Offset(e)] = dport]
  IN  IF e.n = 0 THEN [got EXCEPT !.st = "OCSE_DONE"]
      ELSE [got EXCEPT !.idx = @ + 1, !.recv = @ + 1,
                       !.st = IF e.recv + 1 = e.n THEN "OCSE_DONE" ELSE @]

\* The head after the handler has looked for data; writes and configuration
\* accesses have none, and a beat no read waits for is dropped.
HeadAfterData(e) ==
  IF e.rnw /\ ~e.cfg /\ dport.v /\ e.st = "OCSE_BUFFER" THEN Gathered(e) ELSE e

\* Mutants: the head is unlinked when its response comes; writes are not unlinked.
Finished_AtResponse(e) == e.st \in {"OCSE_BUFFER", "OCSE_DONE"}
Finished_ReadsOnly(e) == e.st = "OCSE_DONE" /\ e.rnw
Finished(e) == e.st = "OCSE_DONE"

\* The list moves on when its head is done.
handle_ap_resp_data ==
  /\ pc = "data"
  /\ LET i == Head(list)
         e == ev[i]
     IN  /\ ev' = [ev EXCEPT ![i] = HeadAfterData(e)]
         /\ list' = IF Finished(HeadAfterData(e)) THEN Tail(list) ELSE list
         /\ dport' = IF e.rnw /\ ~e.cfg THEN NoBeat ELSE dport
  /\ pc' = "send"
  /\ UNCHANGED <<cur, boot, ocl, client, app, opens, port, rport, credits, jobs>>

\* Mutant: the state of the head is not looked at.
CanSend_AnyState(e) == port = Nil /\ (e.cfg => credits.cfg > 0)

\* Configuration accesses need a credit, the others take one unseen.
CanSend(e) == e.st = "OCSE_IDLE" /\ port = Nil /\ (e.cfg => credits.cfg > 0)

Spent(e) ==
  IF e.cfg THEN [credits EXCEPT !.cfg = @ - 1] ELSE [credits EXCEPT !.cmd = (@ - 1) % 256]

\* Mutant: the event does not become PENDING.
Sent_StaysIdle(e) == [e EXCEPT !.dl = Encoded(e.n)]
Sent(e) == [e EXCEPT !.dl = Encoded(e.n), !.st = "OCSE_PENDING"]

\* send_mmio, and the idle cycle counted when the list is empty.
send_mmio ==
  /\ pc = "send"
  /\ IF list # <<>> /\ CanSend(ev[Head(list)])
     THEN /\ port' = Head(list)
          /\ ev' = [ev EXCEPT ![Head(list)] = Sent(@)]
          /\ credits' = Spent(ev[Head(list)])
     ELSE UNCHANGED <<port, ev, credits>>
  /\ ocl' = IF list = <<>> THEN [ocl EXCEPT !.idle = @ - 1] ELSE ocl
  /\ pc' = Slots /\ cur' = 0
  /\ UNCHANGED <<list, boot, client, app, opens, rport, dport, jobs>>

\* A command handler of the same thread finds a client's socket dead (see Cmd).
CmdDrop(c) ==
  /\ pc = "send"
  /\ client[c].st = "CLIENT_VALID" /\ app[c].st = "dead"
  /\ client' = [client EXCEPT ![c] = client_drop(c)]
  /\ UNCHANGED <<pc, cur, list, ev, boot, ocl, app, opens, port, rport, dport, credits, jobs>>

-----------------------------------------------------------------------------
(***************************************************************************)
(* The ocl thread: the clients.                                            *)
(***************************************************************************)
\* The loop runs idle_cycles of the client down to zero and goes on.
NextSlot(k) ==
  /\ client' = [client EXCEPT ![cur] = [k EXCEPT !.idle = FALSE]]
  /\ pc' = IF cur + 1 \in Ctx THEN "slot" ELSE "clock"
  /\ cur' = IF cur + 1 \in Ctx THEN cur + 1 ELSE 0

Releasable(k) == k.st = "CLIENT_NONE" /\ ~k.idle

\* A slot without a client, or whose client has left.
EmptySlot ==
  /\ pc = "slot" /\ client[cur].st = "FREE"
  /\ NextSlot(NoClient)
  /\ UNCHANGED <<list, ev, boot, ocl, app, opens, port, rport, dport, credits, jobs>>

ReleaseSlot ==
  /\ pc = "slot" /\ Releasable(client[cur])
  /\ NextSlot(NoClient)
  /\ UNCHANGED <<list, ev, boot, ocl, app, opens, port, rport, dport, credits, jobs>>

\* handle_mmio_done: a done access is answered, with the data of a read, and
\* freed.
handle_mmio_done ==
  /\ pc = "slot" /\ client[cur].st # "FREE" /\ ~Releasable(client[cur])
  /\ pc' = "msg"
  /\ LET k == client[cur] IN
     IF k.acc = Nil THEN UNCHANGED <<client, ev, app>>
     ELSE IF ev[k.acc].st # "OCSE_DONE"
     THEN client' = [client EXCEPT ![cur].idle = TRUE] /\ UNCHANGED <<ev, app>>
     ELSE /\ ev' = [ev EXCEPT ![k.acc] = NoEvent]
          /\ \E ok \in put_bytes(cur) :
               /\ client' = [client EXCEPT ![cur] = [(IF ok THEN k ELSE client_drop(cur))
                                                      EXCEPT !.acc = Nil, !.idle = TRUE]]
               /\ app' = IF ok
                         THEN [app EXCEPT ![cur] = Answered(cur, IF ev[k.acc].mem THEN "mem" ELSE "mmio")]
                         ELSE app
  /\ UNCHANGED <<cur, list, boot, ocl, opens, port, rport, dport, credits, jobs>>

\* _attach: with as many clients attached as there are slots the byte that is
\* sent is not initialised.
_attach(k, a) ==
  \E ok \in put_bytes(cur), ack \in (IF ocl.attached < MaxClients THEN {TRUE} ELSE BOOLEAN) :
    /\ ocl' = [ocl EXCEPT !.attached = @ + 1, !.st = "OCSE_RUNNING",
                          !.idle = IF ocl.attached < MaxClients THEN IdleCycles ELSE @]
    /\ NextSlot(IF ok THEN k ELSE client_drop(cur))
    /\ app' = [app EXCEPT ![cur] = [(IF ok /\ ack THEN Answered(cur, "attach") ELSE app[cur])
                                     EXCEPT !.out = a]]
    /\ UNCHANGED <<ev, list>>

\* Mutant: the AFU is idle even though other clients are attached.
_detach_Idles(k) ==
  /\ ocl' = [ocl EXCEPT !.attached = @ - 1, !.st = "OCSE_IDLE"]
  /\ NextSlot([k EXCEPT !.st = "CLIENT_NONE", !.acc = Nil])
  /\ app' = [app EXCEPT ![cur] = IF app[cur].st = "dead" THEN app[cur] ELSE NoApp]
  /\ UNCHANGED <<ev, list>>

_detach(k) ==
  /\ ocl' = [ocl EXCEPT !.attached = @ - 1,
                        !.st = IF ocl.attached = 1 THEN "OCSE_IDLE" ELSE @]
  /\ NextSlot([k EXCEPT !.st = "CLIENT_NONE", !.acc = Nil])
  /\ app' = [app EXCEPT ![cur] = IF app[cur].st = "dead" THEN app[cur] ELSE NoApp]
  /\ UNCHANGED <<ev, list>>

handle_mmio_map(k, a) ==
  /\ \E ok \in put_bytes(cur) :
       /\ NextSlot(IF ok THEN k ELSE client_drop(cur))
       /\ app' = [app EXCEPT ![cur] = [(IF ok THEN Answered(cur, "mmio") ELSE app[cur]) EXCEPT !.out = a]]
  /\ UNCHANGED <<ev, list, ocl>>

\* The access is queued and the client points to it; it replaces the one the
\* client pointed to.
Queued(k, q, a) ==
  /\ \E i \in Ids : /\ _add_event(i, NewEvent(FALSE, q, k.id))
                    /\ NextSlot([k EXCEPT !.acc = i])
  /\ app' = [app EXCEPT ![cur].out = a]
  /\ UNCHANGED ocl

\* Mutant: the client points to the head instead of the new event.
handle_mmio_Head(k, q, a) ==
  /\ ~q.mem
  /\ \E i \in Ids : /\ _add_event(i, NewEvent(FALSE, q, k.id))
                    /\ NextSlot([k EXCEPT !.acc = Head(list')])
  /\ app' = [app EXCEPT ![cur].out = a]
  /\ UNCHANGED ocl

handle_mmio(k, q, a) == ~q.mem /\ Queued(k, q, a)

handle_mem(k, q, a) == q.mem /\ Queued(k, q, a)

\* One message of the application, if there is one.
Message ==
  /\ pc = "msg" /\ client[cur].st = "CLIENT_VALID" /\ app[cur].out # <<>>
  /\ LET k == client[cur]
         m == Head(app[cur].out)
         a == Tail(app[cur].out)
     IN  \/ m.t = "attach" /\ _attach(k, a)
         \/ m.t = "detach" /\ _detach(k)
         \/ m.t = "map" /\ handle_mmio_map(k, a)
         \/ m.t = "access" /\ (handle_mmio(k, m.q, a) \/ handle_mem(k, m.q, a))
  /\ UNCHANGED <<boot, opens, port, rport, dport, credits, jobs>>

NoMessage ==
  /\ pc = "msg"
  /\ \/ client[cur].st = "CLIENT_NONE"
     \/ app[cur].st \in {"up", "closing"} /\ app[cur].out = <<>>
  /\ NextSlot(client[cur])
  /\ UNCHANGED <<list, ev, boot, ocl, app, opens, port, rport, dport, credits, jobs>>

\* The connection is lost.  attached_clients and mmio_access stay.
Lost ==
  /\ pc = "msg" /\ client[cur].st = "CLIENT_VALID"
  /\ app[cur].st = "dead" /\ app[cur].out = <<>>
  /\ NextSlot(client_drop(cur))
  /\ UNCHANGED <<list, ev, boot, ocl, app, opens, port, rport, dport, credits, jobs>>

-----------------------------------------------------------------------------
(***************************************************************************)
(* The other threads of ocse, while the ocl thread has released the lock.  *)
(***************************************************************************)
\* read_afu_config adds an access and waits until it is done.
AddCfg ==
  /\ pc = "clock" /\ boot.id = Nil /\ boot.done < Len(CfgOps)
  /\ \E i \in Ids : /\ _add_event(i, NewEvent(TRUE, [NoReq EXCEPT !.rnw = CfgOps[boot.done + 1]], 0))
                    /\ boot' = [boot EXCEPT !.id = i]
  /\ UNCHANGED <<pc, cur, ocl, client, app, opens, port, rport, dport, credits, jobs>>

_wait_for_done ==
  /\ pc = "clock" /\ boot.id # Nil /\ ev[boot.id].st = "OCSE_DONE"
  /\ ev' = [ev EXCEPT ![boot.id] = NoEvent]
  /\ boot' = [done |-> boot.done + 1, id |-> Nil]
  /\ UNCHANGED <<pc, cur, list, ocl, client, app, opens, port, rport, dport, credits, jobs>>

\* The end of ocl_init: clients are served from now on.
Configured ==
  /\ pc = "clock" /\ ~ocl.ready /\ boot.id = Nil /\ boot.done = Len(CfgOps)
  /\ ocl' = [ocl EXCEPT !.st = "OCSE_IDLE", !.ready = TRUE]
  /\ UNCHANGED <<pc, cur, list, ev, boot, client, app, opens, port, rport, dport, credits, jobs>>

\* _client_associate gives the client the first empty slot.
Open(c) ==
  /\ pc = "clock" /\ ocl.ready /\ opens < MaxOpens
  /\ client[c].st = "FREE" /\ \A d \in Ctx : d < c => client[d].st # "FREE"
  /\ opens' = opens + 1
  /\ client' = [client EXCEPT ![c] = [NoClient EXCEPT !.st = "CLIENT_VALID", !.id = opens + 1]]
  /\ app' = [app EXCEPT ![c] = [NoApp EXCEPT !.st = "up"]]
  /\ UNCHANGED <<pc, cur, list, ev, boot, ocl, port, rport, dport, credits, jobs>>

-----------------------------------------------------------------------------
(***************************************************************************)
(* The applications, through libocxl: one request of a kind at a time.     *)
(***************************************************************************)
Write(c, m) ==
  /\ app[c].st = "up"
  /\ \A w \in app[c].wait : Threads /\ ClassOf(w) # ClassOf(m)
  /\ m.t = "attach" => ~app[c].att
  /\ app' = [app EXCEPT ![c].out = Append(@, m), ![c].wait = @ \cup {m}]
  /\ UNCHANGED <<loopVars, ocseVars, afuVars, opens>>

\* ocxl_afu_close.
Close(c) ==
  /\ app[c].st = "up" /\ (IF app[c].att THEN "detach" ELSE "early") \in Leaves
  /\ app[c].wait = {} \/ Threads
  /\ app' = [app EXCEPT ![c].out = Append(@, Plain("detach")), ![c].st = "closing"]
  /\ UNCHANGED <<loopVars, ocseVars, afuVars, opens>>

Die(c) ==
  /\ app[c].st = "up" /\ "die" \in Leaves
  /\ app' = [app EXCEPT ![c].st = "dead"]
  /\ UNCHANGED <<loopVars, ocseVars, afuVars, opens>>

Loop ==
  \/ Stopped \/ \E say, cr \in BOOLEAN : Clock(say, cr)
  \/ handle_ap_resp \/ handle_ap_resp_data \/ send_mmio
  \/ EmptySlot \/ ReleaseSlot \/ handle_mmio_done \/ Message \/ NoMessage \/ Lost

Config == AddCfg \/ _wait_for_done \/ Configured

Next ==
  \/ Loop \/ Config
  \/ \E c \in Ctx : CmdDrop(c) \/ Open(c) \/ Close(c) \/ Die(c)
  \/ \E c \in Ctx, m \in Msgs \ {Plain("detach")} : Write(c, m)

Spec == Init /\ [][Next]_vars

\* The ocl thread keeps running, lock_delay lets the configuration thread in,
\* and the AFU, again and again, sends the next packet of its answer and returns
\* the credit it owes.
FairSpec ==
  /\ Spec
  /\ WF_vars(Loop)
  /\ SF_vars(Config)
  /\ SF_vars(\E cr \in BOOLEAN : Clock(TRUE, cr))

-----------------------------------------------------------------------------
(***************************************************************************)
(* Properties.                                                             *)
(***************************************************************************)
Jobs == [id : Ids, script : Seq([resp : Resp, beat : Beats]), owed : BOOLEAN]

\* Every variable has its type; the thread has not ended at a response it takes
\* for an illegal one.
TypeOK ==
  /\ pc \in {"clock", "resp", "data", "send", "slot", "msg"} /\ cur \in Ctx
  /\ list \in Seq(Ids)
  /\ ev \in [Ids -> Event]
  /\ boot \in [done : 0 .. Len(CfgOps), id : Ids \cup {Nil}]
  /\ ocl \in [st : {"OCSE_DESC", "OCSE_IDLE", "OCSE_RUNNING"}, attached : Int,
              idle : 0 .. IdleCycles, ready : BOOLEAN]
  /\ client \in [Ctx -> Client]
  /\ app \in [Ctx -> App]
  /\ opens \in 0 .. MaxOpens
  /\ port \in Ids \cup {Nil} /\ rport \in Resp /\ dport \in Beats
  /\ credits \in [cfg : 0 .. 255, cmd : 0 .. 255]
  /\ jobs \in Seq(Jobs)

\* The AFU works on one access at a time, the one at the head of the list, so a
\* response, which handle_ap_resp and handle_ap_resp_data attribute to the head
\* without looking at its capptag, belongs to it.
ResponseIsHeads ==
  LET sent == (IF port = Nil THEN <<>> ELSE <<port>>)
      held == sent \o [k \in 1 .. Len(jobs) |-> jobs[k].id]
  IN  /\ Len(held) <= 1
      /\ held # <<>> => list # <<>> /\ held[1] = Head(list)
      /\ dport.v => list # <<>> /\ dport.id = Head(list)

\* The AFU performs an access exactly once before it is answered: send_mmio does
\* not repeat a command, and no response is taken for a command not performed.
PerformedOnce ==
  \A i \in Ids : /\ ev[i].runs <= 1
                 /\ ev[i].st = "OCSE_DONE" => ev[i].runs = 1

\* Nobody is left with a pointer to an event that has been freed, neither the
\* list, nor a client (handle_mmio_done frees what mmio_access points to), nor
\* the thread that reads the configuration; and the list does not hold an event
\* twice.
NoDangling ==
  /\ \A i \in Reachable \ {Nil} : ev[i].st # "FREE"
  /\ \A j, k \in 1 .. Len(list) : list[j] = list[k] => j = k

\* A client that waits for an access points to the event of that very access,
\* so handle_mmio_done answers each client with its own result.
AccessIsOwn ==
  \A c \in Ctx : client[c].acc # Nil =>
    LET e == ev[client[c].acc] IN
    /\ e.own = client[c].id /\ ~e.cfg
    /\ app[c].st = "up" =>
         [t |-> "access", q |-> [mem |-> e.mem, rnw |-> e.rnw, n |-> e.n]] \in app[c].wait

\* The buffer of a read has no data of another access.  If the answer came in one
\* part, every flit is at its own place, where handle_ap_resp_data puts it by dL, dP
\* and a running index, nothing is past the end, and a read that is done and did not
\* fail has all of its data.  (The second part of a split answer is misplaced.)
ReadDataIntact ==
  \A i \in Ids :
    LET e == ev[i]
        size == IF e.n = 0 THEN 1 ELSE e.n
    IN  e.st \in {"OCSE_BUFFER", "OCSE_DONE"} /\ e.rnw /\ ~e.cfg =>
          \A p \in Places :
            /\ e.data[p].v => e.data[p].id = i
            /\ e.data[p].v /\ Flits(e.rdl) = size => p < size /\ e.data[p].flit = p
            /\ e.st = "OCSE_DONE" /\ ~e.fail /\ Flits(e.rdl) = size /\ p < size => e.data[p].v

\* ocse never spends a command credit it does not have.  tlx_afu_send_cmd does
\* not look at the counter, which would wrap around; it is the one access at a
\* time of send_mmio that keeps it from doing so.
CreditsHeld ==
  LET owed(k) == Cardinality({j \in 1 .. Len(jobs) : jobs[j].owed /\ (ev[jobs[j].id].cfg = k)})
      sent(k) == IF port # Nil /\ ev[port].cfg = k THEN 1 ELSE 0
  IN  /\ credits.cmd + owed(FALSE) + sent(FALSE) = CmdCredits
      /\ credits.cfg + owed(TRUE) + sent(TRUE) = CfgCredits

\* Every access of an application that is attached is answered, unless it
\* leaves: no other client, coming, leaving or dying with an access in flight,
\* can block the list or stop the clock.
RequestAnswered ==
  \A c \in Ctx : (app[c].st = "up" /\ app[c].att /\ app[c].wait # {})
                   ~> (app[c].st # "up" \/ app[c].wait = {})

\* The configuration of the AFU is read to its end.
ConfigurationRead == <>(ocl.ready)
=============================================================================
