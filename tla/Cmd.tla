-------------------------------- MODULE Cmd --------------------------------
(***************************************************************************)
(* The command engine of ocse: cmd.c, driven by one iteration after the    *)
(* other of _ocl_loop (ocl.c).  The AFU issues commands and data beats in  *)
(* the packet it returns on every clock; ocse keeps a list of events, asks *)
(* the client applications for memory accesses over their sockets, and     *)
(* answers the AFU on the TLX response port, one response per clock, as    *)
(* long as it has response credits.                                        *)
(*                                                                         *)
(* The loop runs with the ocse lock held and every handler of _handle_afu  *)
(* is one action here; pc is the place of the thread in the loop.  The     *)
(* lock is released (lock_delay) only where pc = "clock", which is where   *)
(* clients may be opened.  An event is named by its afutag: handle_cmd     *)
(* ends ocse when two live events would have the same one.                 *)
(*                                                                         *)
(* Sizes are counted in 64-byte flits; a partial read or write is a        *)
(* command of one flit.  idle_cycles of a client is a Boolean, because     *)
(* _ocl_loop runs it down to zero whenever it looks at the client.         *)
(***************************************************************************)
EXTENDS Naturals, Sequences, FiniteSets, SequencesExt

CONSTANTS
  Tags,           \* afutags the AFU uses
  MaxClients,     \* ocl->max_clients, the number of client slots
  Actags,         \* actag values; 0, the one a new client struct holds, is one
  ActagsFor,      \* ActagsFor[c]: the actags the AFU assigns to context c
  Cmds,           \* commands the AFU issues, a subset of [op, n, ok]
  HostCL,         \* HOST_CL_SIZE, the longest response, in flits
  MaxRespCredits, \* response credits the AFU gives to ocse
  DataOps,        \* operations the AFU sends data with, one beat per flit
  Faults,         \* error responses that ocse.parms and the applications give
  Reorder,        \* TRUE iff REORDER_PERCENT is not 0
  Leaves,         \* ways an application may leave: "detach", "die"
  MaxOpens,       \* bound on the number of clients that ever open a slot
  Overlap,        \* TRUE iff the AFU may mix the beats of a command with any other
  NoTag           \* NULL

Ctx == 0 .. (MaxClients - 1)

ReadOps == {"RD", "PR_RD"}
WriteOps == {"DMA_W", "PR_W", "W_BE"}
AmoOps == {"AMO_RD", "AMO_RD_N", "AMO_RW", "AMO_W"}
IntOps == {"INTRP_REQ", "INTRP_REQ_D", "WAKE_HOST_THRD"}
Ops == ReadOps \cup WriteOps \cup AmoOps \cup IntOps \cup 
       {"XLATE_TOUCH", "NOP", "ASSIGN_ACTAG", "UNKNOWN"}

\* allow_retry and its likes, for memory accesses and for interrupts; "aerror"
\* is an OCSE_MEM_FAILURE of the application.
MemFaults == {"retry", "failed", "derror", "pending"}
IntFaults == {"int_retry", "int_failed", "int_derror", "int_pending"}

ASSUME ConstantsAssumption ==
  /\ MaxClients \in Nat \ {0}
  /\ NoTag \notin Tags
  /\ Actags \subseteq Nat /\ 0 \in Actags
  /\ ActagsFor \in [Ctx -> SUBSET Actags]
  /\ Cmds \subseteq [op : Ops, n : {1, 2, 4}, ok : BOOLEAN]
  /\ HostCL \in {1, 2, 4}
  /\ MaxRespCredits \in Nat \ {0}
  /\ DataOps \subseteq WriteOps \cup AmoOps \cup {"INTRP_REQ_D"}
  /\ Faults \subseteq MemFaults \cup IntFaults \cup {"aerror"}
  /\ Reorder \in BOOLEAN /\ Overlap \in BOOLEAN
  /\ Leaves \subseteq {"detach", "die"}
  /\ MaxOpens \in Nat

VARIABLES
  pc,       \* the handler the ocl thread runs next
  cur,      \* i, the client slot _ocl_loop looks at
  list,     \* cmd->list, from the head
  ev,       \* the events, by afutag
  client,   \* ocl->client[], the slots and the structs they point to
  inbox,    \* requests sent to each client's application and not answered
  port,     \* the TLX response port (tlx_afu_resp_*)
  credits,  \* afu_tlx_resp_credits_available
  cmdport,  \* the AFU's command port (afu_tlx_cmd_*)
  cdata,    \* the AFU's command data bus (afu_tlx_cdata_*)
  afu,      \* the AFU: what it knows about each of its afutags
  dq,       \* the AFU: data beats it still has to send, in order
  amap      \* the AFU: the context it assigned each actag to

vars == <<pc, cur, list, ev, client, inbox, port, credits, cmdport, cdata, afu, dq, amap>>

-----------------------------------------------------------------------------
(***************************************************************************)
(* Events.                                                                 *)
(***************************************************************************)
Types == {"CMD_READ", "CMD_WRITE", "CMD_WR_BE", "CMD_AMO_RD", "CMD_AMO_RW", "CMD_AMO_WR",
          "CMD_INTERRUPT", "CMD_WAKE_HOST_THRD", "CMD_TOUCH", "CMD_FAILED"}

\* "FREE" is the state of a tag that has no event in the list.
States == {"FREE", "MEM_IDLE", "MEM_XLATE_PENDING", "MEM_INT_PENDING", "MEM_PENDING_SENT",
           "MEM_BUFFER", "MEM_REQUEST", "MEM_RECEIVED", "DMA_MEM_RESP", "MEM_DONE"}

Opcodes == {"READ_RESP", "READ_FAILED", "WRITE_RESP", "WRITE_FAILED", "TOUCH_RESP",
            "INTRP_RESP", "WAKE_HOST_RESP", "FAILED", "XLATE_DONE", "INTRP_RDY"}

\* Response codes: 0x0, 0x2, 0x4, 0x8, 0xe, {0x9, 0xb}, TLX_RESPONSE_FAILED (0xf).
Codes == {"ok", "retry", "pending", "derror", "failed", "bad", "dropped"}

\* Sizes (n, dl, sent, dpart) are in flits and dp is resp_dp & 3, the bits that
\* select the data and reach the AFU.  good: every beat gathered so far is the
\* one the AFU sent for this place of this command.  ret: the application
\* returned the data of a read.  own: the client, among those that had the
\* slot, that the command was accepted for.
Event == [ctx : Ctx, op : Ops, type : Types, st : States, ropc : Opcodes, resp : Codes,
          n : {1, 2, 4}, dl : {1, 2, 4}, dp : 0 .. 3, sent : Nat, dpart : Nat,
          good : BOOLEAN, ret : BOOLEAN, own : Nat]

NoEvent == [ctx |-> 0, op |-> "NOP", type |-> "CMD_FAILED", st |-> "FREE", ropc |-> "FAILED",
            resp |-> "ok", n |-> 1, dl |-> 1, dp |-> 0, sent |-> 0, dpart |-> 0,
            good |-> TRUE, ret |-> FALSE, own |-> 0]

TypeOf(op) ==
  CASE op \in ReadOps -> "CMD_READ"
    [] op \in {"DMA_W", "PR_W"} -> "CMD_WRITE"
    [] op = "W_BE" -> "CMD_WR_BE"
    [] op \in {"AMO_RD", "AMO_RD_N"} -> "CMD_AMO_RD"
    [] op = "AMO_RW" -> "CMD_AMO_RW"
    [] op = "AMO_W" -> "CMD_AMO_WR"
    [] op \in {"INTRP_REQ", "INTRP_REQ_D"} -> "CMD_INTERRUPT"
    [] op = "WAKE_HOST_THRD" -> "CMD_WAKE_HOST_THRD"
    [] op = "XLATE_TOUCH" -> "CMD_TOUCH"
    [] OTHER -> "CMD_FAILED"

\* The opcode of a good response, set when the event is added.  AMO_RD_N is
\* not among those that get that of a read.
RespOpcode(op) ==
  CASE op \in ReadOps \cup {"AMO_RD", "AMO_RW"} -> "READ_RESP"
    [] op \in WriteOps \cup {"AMO_RD_N", "AMO_W"} -> "WRITE_RESP"
    [] op \in {"INTRP_REQ", "INTRP_REQ_D"} -> "INTRP_RESP"
    [] op = "WAKE_HOST_THRD" -> "WAKE_HOST_RESP"
    [] op = "XLATE_TOUCH" -> "TOUCH_RESP"
    [] OTHER -> "FAILED"

\* The opcodes _add_fail may be given when the size or the address is bad: an
\* AMO_RD of an unsupported size gets that of a write, an AMO_RD_N always.
BadOpcodes(op) ==
  CASE op \in ReadOps \cup {"AMO_RW"} -> {"READ_FAILED"}
    [] op = "AMO_RD" -> {"READ_FAILED", "WRITE_FAILED"}
    [] op \in WriteOps \cup {"AMO_RD_N", "AMO_W"} -> {"WRITE_FAILED"}
    [] op = "XLATE_TOUCH" -> {"TOUCH_RESP"}
    [] OTHER -> {"FAILED"}

\* The index of the first event of the list that passes a test, if any.
First(Test(_)) ==
  {i \in DOMAIN list : /\ Test(ev[list[i]])
                       /\ \A j \in DOMAIN list : j < i => ~Test(ev[list[j]])}

Live(t) == ev[t].st # "FREE"

-----------------------------------------------------------------------------
(***************************************************************************)
(* Clients.  sock is the state of the socket: "dead" once the application  *)
(* is gone (a write may still be accepted), "closed" once ocse closed it.  *)
(***************************************************************************)
Client == [st : {"NULL", "CLIENT_VALID", "CLIENT_NONE"}, mem : Tags \cup {NoTag},
           actag : Actags, sock : {"open", "dead", "closed"}, idle : BOOLEAN, gen : Nat]

NoClient(g) == [st |-> "NULL", mem |-> NoTag, actag |-> 0, sock |-> "closed",
                idle |-> FALSE, gen |-> g]

\* Mutant: the search stops at the first client.
_find_client_by_actag_AnyTag(a) ==
  {c \in Ctx : /\ client[c].st # "NULL" /\ a \in Actags
               /\ \A d \in Ctx : d < c => client[d].st = "NULL"}

_find_client_by_actag(a) ==
  {c \in Ctx : /\ client[c].st # "NULL" /\ client[c].actag = a
               /\ \A d \in Ctx : d < c => client[d].st = "NULL" \/ client[d].actag # a}

client_drop(cl) == [cl EXCEPT !.st = "CLIENT_NONE", !.mem = NoTag, !.idle = TRUE]

\* Outcomes of put_bytes on the client's socket.
put_bytes(c) ==
  CASE client[c].sock = "open" -> {TRUE}
    [] client[c].sock = "dead" -> BOOLEAN
    [] client[c].sock = "closed" -> {FALSE}

\* Send event t to its client: a failed write drops the client, and
\* mem_access is set to the event in either case.
SendRequest(c, t, ok) ==
  /\ client' = [client EXCEPT ![c] =
                  [(IF ok THEN @ ELSE client_drop(@)) EXCEPT !.mem = t]]
  /\ inbox' = IF client[c].sock = "open" THEN [inbox EXCEPT ![c] = Append(@, t)] ELSE inbox

-----------------------------------------------------------------------------
Goto(next) == pc' = next /\ UNCHANGED cur

NoResp == [tag |-> NoTag, ropc |-> "FAILED", code |-> "ok", dl |-> 1, dp |-> 0, ret |-> FALSE]
NoCmd == [tag |-> NoTag, op |-> "NOP", n |-> 1, ok |-> TRUE, actag |-> 0, pasid |-> 0]
NoBeat == <<NoTag, 0>>

AfuIdle == [st |-> "free", op |-> "NOP", n |-> 1, got |-> {}, cnt |-> 0, pasid |-> 0]

Init ==
  /\ pc = "clock" /\ cur = 0
  /\ list = <<>>
  /\ ev = [t \in Tags |-> NoEvent]
  /\ client = [c \in Ctx |-> NoClient(0)]
  /\ inbox = [c \in Ctx |-> <<>>]
  /\ port = NoResp /\ credits = MaxRespCredits
  /\ cmdport = NoCmd /\ cdata = NoBeat
  /\ afu = [t \in Tags |-> AfuIdle]
  /\ dq = <<>>
  /\ amap = [a \in Actags |-> MaxClients]

-----------------------------------------------------------------------------
(***************************************************************************)
(* The AFU, from how ocse uses it.  A tag is free until it is used in a    *)
(* command, and again once the AFU has all of the answer: as many flits as *)
(* it asked for, or one failure, or after a "pending" the posted command   *)
(* that follows it.  The AFU assigns actags to the contexts of open        *)
(* clients, and issues commands under assigned actags only.                *)
(***************************************************************************)
\* What the AFU knows about a tag after response r for it.
Receive(a, r) ==
  CASE r.ropc \in {"XLATE_DONE", "INTRP_RDY"} -> AfuIdle
    [] r.ropc \notin {"XLATE_DONE", "INTRP_RDY"} /\ r.code = "pending" -> [a EXCEPT !.st = "pend"]
    [] /\ r.ropc \in {"READ_RESP", "WRITE_RESP"} /\ r.code # "pending"
       /\ a.cnt + r.dl < a.n -> [a EXCEPT !.got = @ \cup (r.dp .. (r.dp + r.dl - 1)),
                                           !.cnt = @ + r.dl]
    [] OTHER -> AfuIdle

Received == IF port.tag = NoTag THEN afu ELSE [afu EXCEPT ![port.tag] = Receive(@, port)]

\* Without Overlap, only the commands whose handlers put a foreign beat back
\* on the bus are issued while beats are owed, and data comes with its command.
MayIssue(k) == \/ Overlap \/ dq = <<>>
               \/ k.op \in {"RD", "PR_RD", "XLATE_TOUCH"} /\ k.ok

Commands(free) ==
  {[tag |-> t, op |-> k.op, n |-> k.n, ok |-> k.ok, actag |-> a, pasid |-> amap[a]] :
     t \in free, k \in {x \in Cmds : MayIssue(x)}, a \in {x \in Actags : amap[x] # MaxClients}}

Assignments(free) ==
  {[tag |-> t, op |-> "ASSIGN_ACTAG", n |-> 1, ok |-> TRUE, actag |-> p[2], pasid |-> p[1]] :
     t \in free,
     p \in {x \in Ctx \X Actags : client[x[1]].st # "NULL" /\ x[2] \in ActagsFor[x[1]]}}

Beats(m) == IF m.tag # NoTag /\ m.op \in DataOps THEN [k \in 1 .. m.n |-> <<m.tag, k - 1>>] ELSE <<>>

Issued(a, m) ==
  IF m.tag = NoTag \/ m.op \in {"NOP", "ASSIGN_ACTAG"} THEN a
  ELSE [a EXCEPT ![m.tag] = [st |-> "sent", op |-> m.op, n |-> m.n, got |-> {}, cnt |-> 0,
                             pasid |-> m.pasid]]

\* tlx_signal_afu_model and tlx_get_afu_events: the AFU takes the response and
\* sends a packet, which may hold a command, a data beat and a credit.  A beat
\* of the packet before that nobody read is overwritten.
Clock ==
  /\ pc = "clock" /\ Goto("response")
  /\ port' = NoResp
  /\ \/ credits' = credits
     \/ credits < MaxRespCredits /\ credits' = credits + 1
  /\ \E m \in LET free == {t \in Tags : afu[t].st = "free"}
              IN  {NoCmd} \cup Commands(free) \cup Assignments(free) :
       /\ cmdport' = m
       /\ afu' = Issued(Received, m)
       /\ amap' = IF m.op = "ASSIGN_ACTAG" THEN [amap EXCEPT ![m.actag] = m.pasid] ELSE amap
       /\ LET owed == dq \o Beats(m) IN
            \/ cdata' = NoBeat /\ dq' = owed
            \/ owed # <<>> /\ cdata' = Head(owed) /\ dq' = Tail(owed)
       /\ ~Overlap /\ Beats(m) # <<>> => dq = <<>> /\ cdata' # NoBeat
  /\ UNCHANGED <<list, ev, client, inbox>>

-----------------------------------------------------------------------------
(***************************************************************************)
(* Responses.                                                              *)
(***************************************************************************)
Update(t, e) == ev' = [ev EXCEPT ![t] = e] /\ UNCHANGED list

\* Mutant: the event is freed but stays linked.
Unlink_FreeOnly(i) == ev' = [ev EXCEPT ![list[i]] = NoEvent] /\ UNCHANGED list

\* Unlink and free the event at place i of the list.
Unlink(i) == /\ list' = RemoveAt(list, i)
             /\ ev' = [ev EXCEPT ![list[i]] = NoEvent]

\* The events a handler may go on with: their client slot is not NULL.
Present(S) == {i \in S : client[ev[list[i]].ctx].st # "NULL"}

CanSend == credits > 0 /\ port.tag = NoTag

Send(t, ropc, code, dl, dp, ret) ==
  /\ port' = [tag |-> t, ropc |-> ropc, code |-> code, dl |-> dl, dp |-> dp, ret |-> ret]
  /\ credits' = credits - 1

\* Mutant: the failed type is not looked at first.
ReturnsData_AnyType(e) == e.op \in ReadOps \cup (AmoOps \ {"AMO_W"})

ReturnsData(e) == e.type # "CMD_FAILED" /\ e.op \in ReadOps \cup (AmoOps \ {"AMO_W"})

\* The event with the fields of the next part of a split response set.
Chunk(e) ==
  IF e.type # "CMD_FAILED" /\ e.op \in {"RD", "DMA_W"} /\ e.n > HostCL
  THEN [e EXCEPT !.dp = CASE e.sent = 0 -> @
                          [] e.sent # 0 /\ HostCL = 2 -> 2
                          [] e.sent # 0 /\ HostCL # 2 -> (@ + 1) % 4,
                 !.dl = HostCL,
                 !.sent = @ + HostCL]
  ELSE e

\* Mutant: the byte count is not backed up.
BackUp_Not(e) == e

\* After a response that could not be sent: the byte count is backed up.
BackUp(e) == [e EXCEPT !.sent = IF @ # 0 THEN @ - HostCL ELSE @]

IsPending(e) == e.st \in {"MEM_XLATE_PENDING", "MEM_INT_PENDING"}
IsReady(e) == e.st = "MEM_DONE" \/ IsPending(e)

\* Mutant: a pending response leaves the event in its state.
Responded_PendingAgain(i, e) ==
  \/ IsPending(e) /\ Update(list[i], e)
  \/ ~IsPending(e) /\ e.sent > 0 /\ e.sent # e.n /\ Update(list[i], e)
  \/ ~IsPending(e) /\ (e.sent = 0 \/ e.sent = e.n) /\ Unlink(i)

\* Mutant: a pending response ends the event.
Responded_PendingEnds(i, e) ==
  \/ e.sent > 0 /\ e.sent # e.n /\ Update(list[i], e)
  \/ (e.sent = 0 \/ e.sent = e.n) /\ Unlink(i)

\* What becomes of the event at place i once its response e has been sent.
Responded(i, e) ==
  \/ IsPending(e) /\ Update(list[i], [e EXCEPT !.st = "MEM_PENDING_SENT"])
  \/ ~IsPending(e) /\ e.sent > 0 /\ e.sent # e.n /\ Update(list[i], e)
  \/ ~IsPending(e) /\ (e.sent = 0 \/ e.sent = e.n) /\ Unlink(i)

handle_response ==
  /\ pc = "response" /\ Goto("buffer_write")
  /\ LET found == Present(First(IsReady)) IN
       \/ found = {} /\ UNCHANGED <<list, ev, port, credits>>
       \/ \E i \in found : LET e == Chunk(ev[list[i]]) IN
            \/ /\ ~CanSend
               /\ Update(list[i], BackUp(e))
               /\ UNCHANGED <<port, credits>>
            \/ /\ CanSend
               /\ Send(list[i], e.ropc, IF ReturnsData(e) THEN "ok" ELSE e.resp,
                       e.dl, e.dp, ReturnsData(e) /\ e.ret)
               /\ Responded(i, e)
  /\ UNCHANGED <<client, inbox, cmdport, cdata, afu, dq, amap>>

-----------------------------------------------------------------------------
(***************************************************************************)
(* Memory accesses: at most one is outstanding with each client.           *)
(***************************************************************************)
FailOpcode(e) == IF e.type \in {"CMD_READ", "CMD_AMO_RD", "CMD_AMO_RW"}
                 THEN "READ_FAILED" ELSE "WRITE_FAILED"

\* allow_retry, allow_failed, allow_derror, allow_pending.
MemFault(t) ==
  \E f \in Faults \cap MemFaults :
    /\ Update(t, [ev[t] EXCEPT !.st = IF f = "pending" THEN "MEM_XLATE_PENDING" ELSE "MEM_DONE",
                               !.type = "CMD_FAILED", !.ropc = FailOpcode(ev[t]), !.resp = f])
    /\ UNCHANGED <<client, inbox>>

\* Mutant: mem_access is not checked.
Free_Unchecked(c) == c \in Ctx

Free(c) == client[c].mem = NoTag

\* Give event t a fault, or send it to its client and let it wait in state st.
Access(t, st) ==
  \/ MemFault(t)
  \/ /\ \E ok \in put_bytes(ev[t].ctx) : SendRequest(ev[t].ctx, t, ok)
     /\ Update(t, [ev[t] EXCEPT !.st = st])

IsPendingRead(e) == e.type = "CMD_READ" /\ e.st # "MEM_DONE"

handle_buffer_write ==
  /\ pc = "buffer_write" /\ Goto("pending_sent")
  /\ LET found == {i \in Present(First(IsPendingRead)) :
                     ev[list[i]].st = "MEM_IDLE" /\ Free(ev[list[i]].ctx)} IN
       \/ found = {} /\ UNCHANGED <<list, ev, client, inbox>>
       \/ \E i \in found : Access(list[i], "MEM_REQUEST")
  /\ UNCHANGED <<port, credits, cmdport, cdata, afu, dq, amap>>

IsPendingSent(e) == e.st = "MEM_PENDING_SENT"

handle_xlate_intrp_pending_sent ==
  /\ pc = "pending_sent" /\ Goto("cmd")
  /\ \/ /\ Reorder \/ Present(First(IsPendingSent)) = {}
        /\ UNCHANGED <<list, ev, port, credits>>
     \/ \E i \in Present(IF Reorder THEN {j \in DOMAIN list : IsPendingSent(ev[list[j]])}
                                    ELSE First(IsPendingSent)) :
          \/ /\ "failed" \in Faults
             /\ Update(list[i], [ev[list[i]] EXCEPT !.resp = "dropped"])
             /\ UNCHANGED <<port, credits>>
          \/ \E code \in {"ok"} \cup (Faults \cap {"retry"}) :
               \/ /\ ~CanSend
                  /\ Update(list[i], [ev[list[i]] EXCEPT !.resp = code])
                  /\ UNCHANGED <<port, credits>>
               \/ /\ CanSend
                  /\ Send(list[i], IF ev[list[i]].op \in IntOps THEN "INTRP_RDY" ELSE "XLATE_DONE",
                          code, 0, 0, FALSE)
                  /\ Unlink(i)
  /\ UNCHANGED <<client, inbox, cmdport, cdata, afu, dq, amap>>

-----------------------------------------------------------------------------
(***************************************************************************)
(* Commands.                                                               *)
(***************************************************************************)
\* The event of command m of context c; ropc is its response opcode.
NewEvent(c, m, ropc) ==
  [NoEvent EXCEPT !.ctx = c, !.op = m.op, !.own = client[c].gen, !.ropc = ropc,
                  !.type = IF m.ok THEN TypeOf(m.op) ELSE "CMD_FAILED",
                  !.st = IF m.ok /\ m.op # "XLATE_TOUCH" THEN "MEM_IDLE" ELSE "MEM_DONE",
                  !.resp = IF m.ok THEN "ok" ELSE IF m.op = "UNKNOWN" THEN "dropped" ELSE "bad",
                  !.n = IF m.ok THEN m.n ELSE 1,
                  !.dl = IF m.ok THEN m.n ELSE 1]

IsGathering(e) == e.type = "CMD_WRITE" /\ e.st = "MEM_BUFFER"

_incoming_data_expected == \E i \in DOMAIN list : IsGathering(ev[list[i]])

\* The event of tag t after it took the beat that came with its command.
FirstBeat(t, e) ==
  IF e.type = "CMD_INTERRUPT" THEN [e EXCEPT !.good = (cdata = <<t, 0>>)]
  ELSE [e EXCEPT !.good = (cdata = <<t, 0>>),
                 !.dpart = IF e.n > 1 THEN 1 ELSE 0,
                 !.st = IF e.n > 1 THEN "MEM_BUFFER" ELSE "MEM_RECEIVED"]

\* Mutant: afu_tlx_cdata_valid is not set again for reads and touches.
PutsBack_Not(m) == m.op = "ASSIGN_ACTAG"

\* _parse_cmd puts the beat back on the bus for the commands that have no
\* data, whether they are accepted or not.
PutsBack(m) == m.op \in ReadOps \cup {"XLATE_TOUCH", "ASSIGN_ACTAG"}

\* _parse_cmd hands the beat to _add_cmd.
OffersBeat(m) == cdata # NoBeat /\ m.ok /\ m.op \in WriteOps \cup AmoOps \cup IntOps

_add_cmd(m, e) ==
  /\ \E i \in IF Reorder THEN 1 .. Len(list) + 1 ELSE {Len(list) + 1} :
       list' = InsertAt(list, i, m.tag)
  /\ ev' = [ev EXCEPT ![m.tag] = IF OffersBeat(m) /\ ~_incoming_data_expected
                                 THEN FirstBeat(m.tag, e) ELSE e]
  /\ cdata' = IF PutsBack(m) \/ (OffersBeat(m) /\ _incoming_data_expected)
              THEN cdata ELSE NoBeat
  /\ UNCHANGED client

_assign_actag(m) ==
  /\ client' = [client EXCEPT ![m.pasid].actag =
                  IF client[m.pasid].st # "NULL" THEN m.actag ELSE @]
  /\ UNCHANGED <<list, ev, cdata>>

\* A command without an event: a NOP, or an actag that no client has.
Ignored(m) ==
  /\ m.op # "ASSIGN_ACTAG"
  /\ m.op = "NOP" \/ _find_client_by_actag(m.actag) = {}
  /\ cdata' = IF PutsBack(m) THEN cdata ELSE NoBeat
  /\ UNCHANGED <<list, ev, client>>

Accepted(m) ==
  /\ m.op \notin {"NOP", "ASSIGN_ACTAG"}
  /\ \E c \in _find_client_by_actag(m.actag),
        ropc \in IF m.ok THEN {RespOpcode(m.op)} ELSE BadOpcodes(m.op) :
       _add_cmd(m, NewEvent(c, m, ropc))

\* A duplicate afutag ends ocse.
handle_cmd ==
  /\ pc = "cmd"
  /\ LET m == cmdport IN
       \/ /\ m.tag = NoTag
          /\ Goto("data_read") /\ UNCHANGED <<list, ev, client, cdata, cmdport>>
       \/ /\ m.tag # NoTag /\ Live(m.tag)
          /\ Goto("exit") /\ UNCHANGED <<list, ev, client, cdata, cmdport>>
       \/ /\ m.tag # NoTag /\ ~Live(m.tag)
          /\ Goto("data_read") /\ cmdport' = NoCmd
          /\ \/ m.op = "ASSIGN_ACTAG" /\ _assign_actag(m)
             \/ Ignored(m)
             \/ Accepted(m)
  /\ UNCHANGED <<inbox, port, credits, afu, dq, amap>>

\* The next beat goes to the first write that still gathers data.
handle_afu_tlx_cmd_data_read ==
  /\ pc = "data_read" /\ Goto("write_cmd")
  /\ \/ /\ First(IsGathering) = {} \/ cdata = NoBeat
        /\ UNCHANGED <<list, ev, cdata>>
     \/ /\ cdata # NoBeat /\ cdata' = NoBeat
        /\ \E i \in First(IsGathering) : LET t == list[i]  e == ev[list[i]] IN
             Update(t, [e EXCEPT !.good = @ /\ cdata = <<t, e.dpart>>,
                                 !.dpart = IF e.n - @ > 1 THEN @ + 1 ELSE @,
                                 !.st = IF e.n - e.dpart > 1 THEN @ ELSE "MEM_RECEIVED"])
  /\ UNCHANGED <<client, inbox, port, credits, cmdport, afu, dq, amap>>

IsReadyWrite(e) == e.type = "CMD_WRITE" /\ e.st = "MEM_RECEIVED"

handle_afu_tlx_write_cmd ==
  /\ pc = "write_cmd" /\ Goto("interrupt")
  /\ LET found == {i \in Present(First(IsReadyWrite)) : Free(ev[list[i]].ctx)} IN
       \/ found = {} /\ UNCHANGED <<list, ev, client, inbox>>
       \/ \E i \in found : Access(list[i], "DMA_MEM_RESP")
  /\ UNCHANGED <<port, credits, cmdport, cdata, afu, dq, amap>>

IsReadyInterrupt(e) == /\ e.type \in {"CMD_INTERRUPT", "CMD_WAKE_HOST_THRD"}
                       /\ e.st \in {"MEM_IDLE", "MEM_RECEIVED"}

\* allow_int_retry, allow_int_failed, allow_int_pending, allow_int_derror:
\* the states and codes they give to event e.
IntFaultsOf(e) ==
  {p \in {<<"int_retry", "MEM_DONE", "retry">>, <<"int_failed", "MEM_DONE", "failed">>,
          <<"int_pending", "MEM_INT_PENDING", "pending">>, <<"int_derror", "MEM_DONE", "derror">>} :
     /\ p[1] \in Faults
     /\ p[1] = "int_pending" => e.type # "CMD_WAKE_HOST_THRD"
     /\ p[1] = "int_derror" => e.op = "INTRP_REQ_D"}

\* An interrupt does not wait for the client's answer.
handle_interrupt ==
  /\ pc = "interrupt" /\ Goto("be_amo")
  /\ LET found == Present(First(IsReadyInterrupt)) IN
       \/ found = {} /\ UNCHANGED <<list, ev, client>>
       \/ \E i \in found : LET t == list[i]  e == ev[list[i]] IN
            \/ /\ \E p \in IntFaultsOf(e) :
                    Update(t, [e EXCEPT !.st = p[2], !.type = "CMD_FAILED", !.resp = p[3]])
               /\ UNCHANGED client
            \/ /\ Update(t, [e EXCEPT !.st = "MEM_DONE"])
               /\ \E ok \in put_bytes(e.ctx) :
                    client' = [client EXCEPT ![e.ctx] = IF ok THEN @ ELSE client_drop(@)]
  /\ UNCHANGED <<inbox, port, credits, cmdport, cdata, afu, dq, amap>>

IsReadyOp(e) == /\ e.type \in {"CMD_WR_BE", "CMD_AMO_RD", "CMD_AMO_RW", "CMD_AMO_WR"}
                /\ e.st = "MEM_RECEIVED"

handle_write_be_or_amo ==
  /\ pc = "be_amo" /\ Goto("client")
  /\ LET found == {i \in Present(First(IsReadyOp)) : Free(ev[list[i]].ctx)} IN
       \/ found = {} /\ UNCHANGED <<list, ev, client, inbox>>
       \/ \E i \in found : Access(list[i], "MEM_RECEIVED")
  /\ UNCHANGED <<port, credits, cmdport, cdata, afu, dq, amap>>

-----------------------------------------------------------------------------
(***************************************************************************)
(* The client section of _ocl_loop.                                        *)
(***************************************************************************)
\* On to the next slot, or to the next iteration of the loop.
NextSlot == IF cur + 1 < MaxClients THEN pc' = "client" /\ cur' = cur + 1
                                    ELSE pc' = "clock" /\ cur' = 0

\* The reply's data follows it on the socket, unless the application is gone.
get_bytes(c) == IF client[c].sock = "open" THEN {TRUE} ELSE BOOLEAN

\* Mutant: an event without data to return is not done.
handle_mem_return_ReadsOnly(t, ok) ==
  Update(t, IF ev[t].type \in {"CMD_READ", "CMD_AMO_RD", "CMD_AMO_RW"}
            THEN [ev[t] EXCEPT !.st = "MEM_DONE", !.ret = ok,
                               !.type = IF ok THEN @ ELSE "CMD_FAILED"]
            ELSE ev[t])

handle_mem_return(t, ok) ==
  Update(t, IF ev[t].type \in {"CMD_READ", "CMD_AMO_RD", "CMD_AMO_RW"} /\ ~ok
            THEN [ev[t] EXCEPT !.st = "MEM_DONE", !.type = "CMD_FAILED", !.resp = "failed"]
            ELSE [ev[t] EXCEPT !.st = "MEM_DONE",
                               !.ret = ev[t].type \in {"CMD_READ", "CMD_AMO_RD", "CMD_AMO_RW"}])

handle_aerror(t) ==
  Update(t, [ev[t] EXCEPT !.st = "MEM_DONE", !.type = "CMD_FAILED", !.resp = "failed"])

\* The application answers the oldest request it has not answered.
Reply(c) ==
  LET t == client[c].mem IN
  /\ inbox[c] # <<>>
  /\ inbox' = [inbox EXCEPT ![c] = Tail(@)]
  /\ client' = [client EXCEPT ![c].mem = NoTag]
  /\ \/ t = NoTag /\ UNCHANGED <<list, ev>>
     \/ t # NoTag /\ \E ok \in get_bytes(c) : handle_mem_return(t, ok)
     \/ t # NoTag /\ "aerror" \in Faults /\ handle_aerror(t)

_detach(c) ==
  /\ "detach" \in Leaves /\ client[c].sock = "open"
  /\ client' = [client EXCEPT ![c] = [client_drop(@) EXCEPT !.sock = "closed"]]
  /\ inbox' = [inbox EXCEPT ![c] = <<>>]
  /\ UNCHANGED <<list, ev>>

Lost(c) ==
  /\ client[c].sock = "dead"
  /\ client' = [client EXCEPT ![c] = client_drop(@)]
  /\ UNCHANGED <<list, ev, inbox>>

NoMessage(c) == client[c].sock = "open" /\ UNCHANGED <<list, ev, client, inbox>>

\* The slot cur of _ocl_loop.
EmptySlot ==
  /\ pc = "client" /\ NextSlot
  /\ client[cur].st = "NULL"
  /\ UNCHANGED <<list, ev, client, inbox, port, credits, cmdport, cdata, afu, dq, amap>>

ReleaseSlot ==
  /\ pc = "client" /\ NextSlot
  /\ client[cur].st = "CLIENT_NONE" /\ ~client[cur].idle
  /\ client' = [client EXCEPT ![cur] = NoClient(@.gen)]
  /\ inbox' = [inbox EXCEPT ![cur] = <<>>]
  /\ UNCHANGED <<list, ev, port, credits, cmdport, cdata, afu, dq, amap>>

_handle_client ==
  /\ pc = "client" /\ Goto("client_cmd")
  /\ \/ /\ client[cur].st = "CLIENT_NONE" /\ client[cur].idle
        /\ UNCHANGED <<list, ev, client, inbox>>
     \/ /\ client[cur].st = "CLIENT_VALID"
        /\ NoMessage(cur) \/ Reply(cur) \/ _detach(cur) \/ Lost(cur)
  /\ UNCHANGED <<port, credits, cmdport, cdata, afu, dq, amap>>

\* An event of a client that was dropped is terminated.
Terminate(e) ==
  [e EXCEPT !.st = "MEM_DONE",
            !.resp = IF e.type \in {"CMD_READ", "CMD_WRITE", "CMD_TOUCH"} THEN "dropped" ELSE @]

\* Mutant: the state of the client is not checked.
client_cmd_AnyState ==
  /\ pc = "client_cmd" /\ NextSlot
  /\ ev' = [t \in Tags |-> IF Live(t) /\ ev[t].ctx = cur THEN Terminate(ev[t]) ELSE ev[t]]
  /\ UNCHANGED <<list, client, inbox, port, credits, cmdport, cdata, afu, dq, amap>>

client_cmd ==
  /\ pc = "client_cmd" /\ NextSlot
  /\ client' = [client EXCEPT ![cur].idle =
                  /\ client[cur].st = "CLIENT_VALID"
                  /\ \E t \in Tags : Live(t) /\ ev[t].ctx = cur]
  /\ ev' = [t \in Tags |->
              IF /\ client[cur].st = "CLIENT_NONE"
                 /\ Live(t) /\ ev[t].ctx = cur /\ ev[t].st # "MEM_DONE"
              THEN Terminate(ev[t]) ELSE ev[t]]
  /\ UNCHANGED <<list, inbox, port, credits, cmdport, cdata, afu, dq, amap>>

-----------------------------------------------------------------------------
(***************************************************************************)
(* Clients come, through _client_associate, and go.                        *)
(***************************************************************************)
Gens == MapThenSumSet(LAMBDA c : client[c].gen, Ctx)

Open(c) ==
  /\ pc = "clock" /\ Gens < MaxOpens
  /\ client[c].st = "NULL" /\ \A d \in Ctx : d < c => client[d].st # "NULL"
  /\ client' = [client EXCEPT ![c] = [NoClient(@.gen + 1) EXCEPT !.st = "CLIENT_VALID",
                                                                 !.sock = "open"]]
  /\ UNCHANGED <<pc, cur, list, ev, inbox, port, credits, cmdport, cdata, afu, dq, amap>>

Die(c) ==
  /\ "die" \in Leaves /\ pc # "exit"
  /\ client[c].sock = "open"
  /\ client' = [client EXCEPT ![c].sock = "dead"]
  /\ UNCHANGED <<pc, cur, list, ev, inbox, port, credits, cmdport, cdata, afu, dq, amap>>

Loop == \/ Clock \/ handle_response \/ handle_buffer_write \/ handle_xlate_intrp_pending_sent
        \/ handle_cmd \/ handle_afu_tlx_cmd_data_read \/ handle_afu_tlx_write_cmd
        \/ handle_interrupt \/ handle_write_be_or_amo
        \/ EmptySlot \/ ReleaseSlot \/ _handle_client \/ client_cmd

Next == Loop \/ \E c \in Ctx : Open(c) \/ Die(c)

Spec == Init /\ [][Next]_vars

-----------------------------------------------------------------------------
(***************************************************************************)
(* Properties.                                                             *)
(***************************************************************************)
PCs == {"clock", "response", "buffer_write", "pending_sent", "cmd", "data_read", "write_cmd",
        "interrupt", "be_amo", "client", "client_cmd", "exit"}

Response == [tag : Tags \cup {NoTag}, ropc : Opcodes, code : Codes, dl : {0, 1, 2, 4},
             dp : 0 .. 3, ret : BOOLEAN]
Command == [tag : Tags \cup {NoTag}, op : Ops, n : {1, 2, 4}, ok : BOOLEAN, actag : Actags,
            pasid : Ctx]

Beat == (Tags \cup {NoTag}) \X Nat
AfuTag == [st : {"free", "sent", "pend"}, op : Ops, n : {1, 2, 4}, got : SUBSET Nat, cnt : Nat,
           pasid : Ctx]

\* The events of the list are the live ones, each linked once.
ListOK ==
  /\ \A i, j \in DOMAIN list : list[i] = list[j] => i = j
  /\ \A t \in Tags : Live(t) <=> \E i \in DOMAIN list : list[i] = t

\* Every variable has its type, and the list of events is well formed.
TypeOK ==
  /\ pc \in PCs /\ cur \in Ctx
  /\ ev \in [Tags -> Event] /\ list \in Seq(Tags) /\ ListOK
  /\ client \in [Ctx -> Client] /\ inbox \in [Ctx -> Seq(Tags)]
  /\ port \in Response /\ credits \in 0 .. MaxRespCredits
  /\ cmdport \in Command /\ cdata \in Beat
  /\ afu \in [Tags -> AfuTag] /\ dq \in Seq(Beat) /\ amap \in [Actags -> Ctx \cup {MaxClients}]

\* States in which an event is with its application.
Outstanding(e) ==
  \/ e.type = "CMD_READ" /\ e.st = "MEM_REQUEST"
  \/ e.type = "CMD_WRITE" /\ e.st = "DMA_MEM_RESP"
  \/ e.type \in {"CMD_WR_BE", "CMD_AMO_RD", "CMD_AMO_RW", "CMD_AMO_WR"} /\ e.st = "MEM_RECEIVED"

\* The one-byte acknowledgement of an application names no event: _handle_client
\* takes it for client->mem_access.  It is right to do so: while the client is
\* valid and the socket is up, mem_access is the one request the application
\* has not answered, and it points to a live event of this client that waits
\* for just that answer.
AckMatchesRequest ==
  \A c \in Ctx : client[c].st = "CLIENT_VALID" =>
    /\ client[c].mem # NoTag => /\ Live(client[c].mem)
                                /\ ev[client[c].mem].ctx = c
                                /\ Outstanding(ev[client[c].mem])
    /\ client[c].sock = "open" =>
         inbox[c] = IF client[c].mem = NoTag THEN <<>> ELSE <<client[c].mem>>

\* The AFU is never answered for a tag it does not wait for: a response goes
\* to a command it has sent, XLATE_DONE and INTRP_RDY to one that it was told
\* is pending.
AnswersAwaited ==
  port.tag # NoTag =>
    afu[port.tag].st = IF port.ropc \in {"XLATE_DONE", "INTRP_RDY"} THEN "pend" ELSE "sent"

\* The parts of a split response (resp_dl, resp_dp) do not overlap, lie within
\* the command and never exceed its length, whatever happens to the response
\* credits between two parts.
PartsExact ==
  port.tag # NoTag /\ port.ropc \in {"READ_RESP", "WRITE_RESP"} =>
    LET a == afu[port.tag]  part == port.dp .. (port.dp + port.dl - 1) IN
      /\ part \cap a.got = {}
      /\ part \subseteq 0 .. (a.n - 1)
      /\ a.cnt + port.dl <= a.n

\* The AFU has still to send a beat of tag t, or the beat was not taken yet.
Owed(t) == cdata[1] = t \/ \E k \in DOMAIN dq : dq[k][1] = t

\* The data that goes to an application with a write, a byte-enabled write or
\* an atomic operation is the data the AFU sent with it, beat for beat, and all
\* of it, even when the beats came together with other commands: the beats were
\* put into event->data in order, and none of them is left when it is sent.
WriteDataIntact ==
  \A c \in Ctx : client[c].st = "CLIENT_VALID" /\ client[c].sock = "open" =>
    \A i \in DOMAIN inbox[c] :
      /\ ev[inbox[c][i]].good
      /\ ev[inbox[c][i]].type # "CMD_READ" => ~Owed(inbox[c][i])

\* A good read response carries data that the application returned.
GoodReadHasData ==
  port.tag # NoTag /\ port.ropc = "READ_RESP" /\ port.code = "ok" => port.ret

\* A command is carried out for the context that the AFU assigned its actag to.
RoutedToAssigned == \A t \in Tags : Live(t) => ev[t].ctx = afu[t].pasid

\* The abstract view of a tag: the place of its event on the way from accepted
\* to idle, and how much of its answer is still to be sent.
PhaseOf(t) ==
  CASE ev[t].st \in {"MEM_DONE", "MEM_XLATE_PENDING", "MEM_INT_PENDING"} -> "settled"
    [] ev[t].st = "MEM_PENDING_SENT" -> "deferred"
    [] OTHER -> IF client[ev[t].ctx].mem = t THEN "asked" ELSE "accepted"

Abs == INSTANCE CmdAbs WITH
  Lengths <- {1, 2, 4},
  cmds <- [t \in Tags |->
             IF Live(t) THEN [phase |-> PhaseOf(t), ctx |-> ev[t].ctx, n |-> ev[t].n,
                              left |-> ev[t].n - ev[t].sent]
             ELSE [phase |-> "idle", ctx |-> "none", n |-> 0, left |-> 0]]

\* As long as no client leaves, every step of the engine is a step of CmdAbs or
\* leaves the abstract view alone: commands are asked for one at a time, and
\* answered once and in full.
ImplementsAbs == Abs!Spec

(***************************************************************************)
(* Fairness.  The ocl thread never stops.  An application answers its      *)
(* requests at last (the loop of libocxl does), and the AFU sends the data *)
(* it owes and returns the credits it holds at last.                       *)
(***************************************************************************)
Replies(c) == _handle_client /\ cur = c /\ Reply(c)

FairSpec ==
  /\ Spec
  /\ WF_vars(Loop)
  /\ \A c \in Ctx : SF_vars(Replies(c))
  /\ SF_vars(Clock /\ dq # <<>> /\ cdata' # NoBeat)
  /\ SF_vars(Clock /\ credits' = credits + 1)

\* The state of an event is followed until it is completed and removed from
\* the list.
EventsCompleted == \A t \in Tags : Live(t) ~> ~Live(t)

\* The handlers take turns for a client's mem_access in a fixed order: reads
\* first, then writes, then byte-enabled writes and atomic operations.
PlainWrites == WriteOps \ {"W_BE"}
LastOps == AmoOps \cup {"W_BE"}

Unanswered(t, ops) == afu[t].st = "sent" /\ afu[t].op \in ops

\* The AFU goes on for ever issuing commands of these kinds.
KeepsIssuing(ops) == []<>(cmdport.op \in ops)

\* Who waits for whom: no read, touch or interrupt is left without an answer for
\* ever (in full, a failure or a "pending"), whatever else the AFU does; a write
\* is only while the AFU issues reads for ever; a byte-enabled write or an atomic
\* operation is only while it issues reads or writes for ever.
Answered ==
  \A t \in Tags :
    /\ []<>~Unanswered(t, Ops \ (WriteOps \cup AmoOps))
    /\ []<>~Unanswered(t, PlainWrites) \/ KeepsIssuing(ReadOps)
    /\ []<>~Unanswered(t, LastOps) \/ KeepsIssuing(ReadOps \cup PlainWrites)

\* A response is on its way to the AFU, not a posted command.
Responding == port.tag # NoTag /\ port.ropc \notin {"XLATE_DONE", "INTRP_RDY"}

\* No "pending" command is left without the posted command that resumes it for
\* ever, except while handle_response, which runs first, takes the credits for ever.
Resumed == \A t \in Tags : []<>(afu[t].st # "pend") \/ []<>Responding
=============================================================================
