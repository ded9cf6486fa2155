-------------------------- MODULE CmdAnswerProofs --------------------------
(***************************************************************************)
(* Proofs about what the AFU is answered by the command engine (Cmd): the  *)
(* state of an event in ocse and what the AFU knows about its afutag go    *)
(* together, over every interleaving of handlers, clients and credits.     *)
(*                                                                         *)
(* AInv relates the two without any assumption on the constants.  What it  *)
(* gives: ocse never meets a duplicate afutag (NeverExits).  On top of it  *)
(* stand PartsExact (HOST_CL_SIZE of 128 or 256), RoutedToAssigned (each   *)
(* actag is assigned to one context) and WriteDataIntact (the beats of a   *)
(* command are not mixed with those of another).                           *)
(***************************************************************************)
EXTENDS CmdProofs

-----------------------------------------------------------------------------
(***************************************************************************)
(* The invariant.                                                          *)
(***************************************************************************)
DataOpcodes == {"READ_RESP", "WRITE_RESP"}
PostedOpcodes == {"XLATE_DONE", "INTRP_RDY"}

\* The event is still to be settled.
Waiting(e) == e.st \in {"MEM_IDLE", "MEM_BUFFER", "MEM_REQUEST", "MEM_RECEIVED", "DMA_MEM_RESP"}

IsSplit(e) == e.type # "CMD_FAILED" /\ e.op \in {"RD", "DMA_W"} /\ e.n > HostCL

\* An event that has not failed has the type and the opcode of its command; one
\* that is, or was, pending has an opcode without data; one that failed with
\* the opcode of a good answer says so in its code.  The response is as long
\* as the command until its first part is due, and its parts fit.
EventOK(e) ==
  /\ e.ropc \notin PostedOpcodes
  /\ e.type # "CMD_FAILED" => /\ e.type = TypeOf(e.op) /\ e.ropc = RespOpcode(e.op)
                              /\ e.resp \in {"ok", "dropped"}
  /\ IsPending(e) => e.resp = "pending"
  /\ IsPending(e) \/ e.st = "MEM_PENDING_SENT" \/ e.resp = "pending" =>
       e.type = "CMD_FAILED" /\ e.ropc \notin DataOpcodes
  /\ e.type = "CMD_FAILED" /\ e.ropc \in DataOpcodes => e.resp = "failed"
  /\ ~IsSplit(e) \/ e.st # "MEM_DONE" => e.dl = e.n /\ e.dp = 0
  /\ e.sent < e.n /\ (HostCL = 2 => e.sent \in {0, 2})

EventsOK == \A t \in Tags : EventOK(ev[t])

\* The response on the port does not complete the event that it is for.
Continues(t) ==
  \/ port.code = "pending" /\ port.ropc \notin DataOpcodes /\ afu[t].cnt = 0 /\ ev[t].sent = 0
  \/ /\ port.code # "pending" /\ port.ropc \in DataOpcodes /\ port.dl = HostCL
     /\ afu[t].cnt + HostCL = ev[t].sent

\* The AFU waits for every live event, knows its length and has counted what
\* was sent of it, except for the part on the port.
TagOK(t) ==
  /\ afu[t].st # "free"
  /\ ev[t].ropc \in DataOpcodes => ev[t].n = afu[t].n
  /\ port.tag # t => afu[t].cnt = ev[t].sent
  /\ port.tag = t => port.ropc \notin PostedOpcodes /\ Continues(t)

TagsOK == \A t \in Tags : Live(t) => TagOK(t)

\* The AFU waits for the response on the port.
PortOK == port.tag # NoTag => afu[port.tag].st # "free"

\* What the AFU knows about a command it has just issued.
Fresh(m) == [st |-> "sent", op |-> m.op, n |-> m.n, got |-> {}, cnt |-> 0, pasid |-> m.pasid]

\* The afutag of the command on the port is not in use.
CmdOK ==
  cmdport.tag # NoTag =>
    /\ ~Live(cmdport.tag) /\ port.tag # cmdport.tag
    /\ cmdport.op \notin {"NOP", "ASSIGN_ACTAG"} => afu[cmdport.tag] = Fresh(cmdport)

AInv == EventsOK /\ TagsOK /\ PortOK /\ CmdOK /\ pc # "exit"

-----------------------------------------------------------------------------
(***************************************************************************)
(* What the handlers do to an event that is not answered: it goes on, is   *)
(* settled, fails, becomes pending, or is terminated with its client.      *)
(***************************************************************************)
InterruptTypes == {"CMD_INTERRUPT", "CMD_WAKE_HOST_THRD"}
ReturnTypes == {"CMD_READ", "CMD_AMO_RD", "CMD_AMO_RW"}
FailedOpcodes == {"READ_FAILED", "WRITE_FAILED"}

SameShape(e, f) ==
  /\ f.ctx = e.ctx /\ f.op = e.op /\ f.n = e.n /\ f.dl = e.dl /\ f.dp = e.dp /\ f.sent = e.sent

GoesOn(e, f) ==
  /\ f.type = e.type /\ f.ropc = e.ropc /\ f.resp = e.resp
  /\ Waiting(f) \/ (f.st = "MEM_DONE" /\ (e.type \in ReturnTypes => f.ret))

Fails(e, f) ==
  /\ f.type = "CMD_FAILED" /\ f.st = "MEM_DONE"
  /\ f.resp \in {"retry", "failed", "derror"}
  /\ \/ f.ropc \in FailedOpcodes
     \/ f.ropc = e.ropc /\ (f.resp = "failed" \/ e.type \in InterruptTypes)

Pends(e, f) ==
  /\ f.type = "CMD_FAILED" /\ IsPending(f) /\ f.resp = "pending"
  /\ f.ropc \in FailedOpcodes \/ (f.ropc = e.ropc /\ e.type \in InterruptTypes)

Advances(e, f) == Waiting(e) /\ SameShape(e, f) /\ (GoesOn(e, f) \/ Fails(e, f) \/ Pends(e, f))

OthersSame(t) == \A u \in Tags : u # t => ev'[u] = ev[u]

\* One event, or none, advances.
OneAdvances == UNCHANGED ev \/ \E t \in Tags : OthersSame(t) /\ Advances(ev[t], ev'[t])

Terminates(e, f) == f = Terminate(e) /\ e.st \notin {"FREE", "MEM_DONE"}

\* Events change in one of these ways, and the AFU sees nothing of it.
Internal ==
  /\ \A t \in Tags : \/ ev'[t] = ev[t] \/ Advances(ev[t], ev'[t]) \/ Terminates(ev[t], ev'[t])
  /\ UNCHANGED <<port, cmdport, afu>> /\ pc' # "exit"

\* An event that advances is well formed and stays live.
LEMMA AdvancesOK ==
  ASSUME NEW e \in Event, NEW f \in Event, EventOK(e), SplitOK(e), Advances(e, f)
  PROVE  EventOK(f) /\ f.st # "FREE" /\ (f.ropc \in DataOpcodes => e.ropc \in DataOpcodes)
<1>1. Waiting(e) /\ SameShape(e, f) BY DEF Advances
<1>2. e.dl = e.n /\ e.dp = 0 /\ e.sent = 0 /\ e.ropc \notin PostedOpcodes /\ e.sent < e.n
  BY <1>1 DEF Waiting, EventOK, SplitOK
<1>3. /\ f.dl = f.n /\ f.dp = 0 /\ f.sent = 0 /\ f.sent < f.n /\ f.ctx = e.ctx /\ f.op = e.op
      /\ f.n = e.n
  BY <1>1, <1>2 DEF SameShape
<1>4. e.type \in InterruptTypes => e.ropc \notin DataOpcodes
  <2>. SUFFICES ASSUME e.type \in InterruptTypes PROVE e.ropc \notin DataOpcodes OBVIOUS
  <2>1. e.type = TypeOf(e.op) /\ e.ropc = RespOpcode(e.op) BY DEF EventOK, InterruptTypes
  <2>2. e.op \in IntOps
    BY <2>1 DEF TypeOf, InterruptTypes, IntOps, ReadOps
  <2>. QED BY <2>1, <2>2 DEF RespOpcode, IntOps, ReadOps, WriteOps, DataOpcodes
<1>5. CASE GoesOn(e, f)
  BY <1>1, <1>2, <1>3, <1>5 DEF GoesOn, EventOK, Waiting, IsPending, IsSplit
<1>6. CASE Fails(e, f)
  BY <1>2, <1>3, <1>4, <1>6 DEF Fails, EventOK, IsPending, IsSplit, FailedOpcodes, PostedOpcodes,
     DataOpcodes
<1>7. CASE Pends(e, f)
  BY <1>2, <1>3, <1>4, <1>7 DEF Pends, EventOK, IsPending, IsSplit, FailedOpcodes, PostedOpcodes,
     DataOpcodes
<1>. QED BY <1>5, <1>6, <1>7 DEF Advances

\* So is one that is terminated.
LEMMA TerminatesOK ==
  ASSUME NEW e \in Event, NEW f \in Event, EventOK(e), Terminates(e, f)
  PROVE  /\ EventOK(f) /\ f.st # "FREE" /\ f.ropc = e.ropc /\ f.n = e.n /\ f.sent = e.sent
         /\ f.ctx = e.ctx
<1>. DEFINE resp == IF e.type \in {"CMD_READ", "CMD_WRITE", "CMD_TOUCH"} THEN "dropped" ELSE e.resp
<1>1. f = [e EXCEPT !.st = "MEM_DONE", !.resp = resp] BY DEF Terminates, Terminate
<1>2. resp = e.resp \/ (resp = "dropped" /\ e.type # "CMD_FAILED") OBVIOUS
<1>. HIDE DEF resp
<1>3. /\ f.st = "MEM_DONE" /\ f.resp = resp /\ f.ctx = e.ctx /\ f.op = e.op /\ f.type = e.type
      /\ f.ropc = e.ropc /\ f.n = e.n /\ f.dl = e.dl /\ f.dp = e.dp /\ f.sent = e.sent
  BY <1>1 DEF Event
<1>4. e.st # "MEM_DONE" BY DEF Terminates
<1>5. EventOK(f) BY <1>2, <1>3, <1>4 DEF EventOK, IsPending, IsSplit
<1>. QED BY <1>3, <1>5

\* An internal step keeps the invariant.
LEMMA InternalOK == ASSUME IInv, AInv, IInv', Internal PROVE AInv'
<1>1. ev \in [Tags -> Event] /\ ev' \in [Tags -> Event] BY DEF IInv, TypeOK
<1>2. ASSUME NEW t \in Tags
      PROVE  /\ EventOK(ev'[t]) /\ (Live(t)' => Live(t))
             /\ ev'[t].sent = ev[t].sent /\ ev'[t].n = ev[t].n
             /\ (ev'[t].ropc \in DataOpcodes => ev[t].ropc \in DataOpcodes)
  <2>1. ev[t] \in Event /\ ev'[t] \in Event /\ EventOK(ev[t]) /\ SplitOK(ev[t])
    BY <1>1 DEF AInv, EventsOK, IInv, SplitDone
  <2>2. CASE ev'[t] = ev[t] BY <2>1, <2>2 DEF Live
  <2>3. CASE Advances(ev[t], ev'[t])
    BY <2>1, <2>3, AdvancesOK DEF Live, Advances, Waiting, SameShape
  <2>4. CASE Terminates(ev[t], ev'[t]) BY <2>1, <2>4, TerminatesOK DEF Live, Terminates
  <2>. QED BY <2>2, <2>3, <2>4 DEF Internal
<1>3. UNCHANGED <<port, cmdport, afu>> /\ pc' # "exit" BY DEF Internal
<1>4. EventsOK' BY <1>2 DEF EventsOK
<1>5. TagsOK' BY <1>2, <1>3 DEF AInv, TagsOK, TagOK, Continues
<1>6. PortOK' BY <1>3 DEF AInv, PortOK
<1>7. CmdOK'
  <2>1. cmdport.tag # NoTag => cmdport.tag \in Tags BY DEF IInv, TypeOK, Command
  <2>. QED BY <1>2, <1>3, <2>1 DEF AInv, CmdOK, Fresh
<1>. QED BY <1>3, <1>4, <1>5, <1>6, <1>7 DEF AInv

-----------------------------------------------------------------------------
(***************************************************************************)
(* The handlers that the AFU sees nothing of.                              *)
(***************************************************************************)
\* One event changes.
LEMMA UpdateAdvances ==
  ASSUME IInv, NEW t \in Tags, NEW e, Update(t, e), Advances(ev[t], e)
  PROVE  OneAdvances /\ OthersSame(t) /\ Advances(ev[t], ev'[t]) /\ ev'[t] = e
<1>1. ev'[t] = e /\ OthersSame(t) BY DEF Update, IInv, TypeOK, OthersSame
<1>. QED BY <1>1 DEF OneAdvances

\* Access gives the event a fault or lets it wait for its application.
LEMMA AccessAdvances ==
  ASSUME IInv, NEW t \in Tags, NEW st \in States, Access(t, st), Waiting(ev[t]),
         Waiting([ev[t] EXCEPT !.st = st])
  PROVE  /\ OneAdvances /\ OthersSame(t) /\ Advances(ev[t], ev'[t])
         /\ UNCHANGED client \/ Waiting(ev'[t])
<1>1. ev[t] \in Event BY DEF IInv, TypeOK
<1>2. CASE MemFault(t)
  <2>1. PICK f \in Faults \cap MemFaults :
          Update(t, [ev[t] EXCEPT !.st = IF f = "pending" THEN "MEM_XLATE_PENDING" ELSE "MEM_DONE",
                                  !.type = "CMD_FAILED", !.ropc = FailOpcode(ev[t]), !.resp = f])
    BY <1>2 DEF MemFault
  <2>. DEFINE s == IF f = "pending" THEN "MEM_XLATE_PENDING" ELSE "MEM_DONE"
              r == FailOpcode(ev[t])
              g == [ev[t] EXCEPT !.st = s, !.type = "CMD_FAILED", !.ropc = r, !.resp = f]
  <2>2. r \in FailedOpcodes BY DEF FailOpcode, FailedOpcodes
  <2>3. \/ f = "pending" /\ s = "MEM_XLATE_PENDING"
        \/ f \in {"retry", "failed", "derror"} /\ s = "MEM_DONE"
    BY DEF MemFaults
  <2>. HIDE DEF s, r
  <2>4. /\ SameShape(ev[t], g) /\ g.st = s /\ g.type = "CMD_FAILED" /\ g.ropc = r /\ g.resp = f
    BY <1>1 DEF SameShape, Event
  <2>5. Update(t, g) BY <2>1 DEF s, r
  <2>. HIDE DEF g
  <2>6. Fails(ev[t], g) \/ Pends(ev[t], g) BY <2>2, <2>3, <2>4 DEF Fails, Pends, IsPending
  <2>7. Advances(ev[t], g) BY <2>4, <2>6 DEF Advances
  <2>. QED BY <1>2, <2>5, <2>7, UpdateAdvances DEF MemFault
<1>3. CASE Update(t, [ev[t] EXCEPT !.st = st])
  <2>. DEFINE g == [ev[t] EXCEPT !.st = st]
  <2>1. SameShape(ev[t], g) /\ g.type = ev[t].type /\ g.ropc = ev[t].ropc /\ g.resp = ev[t].resp
    BY <1>1 DEF SameShape, Event
  <2>2. Advances(ev[t], g) BY <2>1 DEF Advances, GoesOn
  <2>. QED BY <1>3, <2>2, UpdateAdvances
<1>. QED BY <1>2, <1>3 DEF Access

\* handle_buffer_write.
LEMMA buffer_writeAdvances == ASSUME IInv, AInv, handle_buffer_write PROVE OneAdvances
<1>1. CASE UNCHANGED ev BY <1>1 DEF OneAdvances
<1>2. ASSUME NEW i \in Present(First(IsPendingRead)), ev[list[i]].st = "MEM_IDLE",
             Access(list[i], "MEM_REQUEST")
      PROVE  OneAdvances
  <2>1. list[i] \in Tags /\ ev[list[i]] \in Event BY ListedLive DEF Present, First
  <2>2. Waiting(ev[list[i]]) /\ Waiting([ev[list[i]] EXCEPT !.st = "MEM_REQUEST"])
    BY <1>2, <2>1 DEF Waiting, Event
  <2>3. "MEM_REQUEST" \in States BY DEF States
  <2>. QED BY <1>2, <2>1, <2>2, <2>3, AccessAdvances
<1>. QED BY <1>1, <1>2 DEF handle_buffer_write

\* handle_afu_tlx_write_cmd.
LEMMA write_cmdAdvances == ASSUME IInv, AInv, handle_afu_tlx_write_cmd PROVE OneAdvances
<1>1. CASE UNCHANGED ev BY <1>1 DEF OneAdvances
<1>2. ASSUME NEW i \in Present(First(IsReadyWrite)), Access(list[i], "DMA_MEM_RESP")
      PROVE  OneAdvances
  <2>1. list[i] \in Tags /\ ev[list[i]] \in Event BY ListedLive DEF Present, First
  <2>2. Waiting(ev[list[i]]) /\ Waiting([ev[list[i]] EXCEPT !.st = "DMA_MEM_RESP"])
    BY <1>2, <2>1 DEF Waiting, Event, Present, First, IsReadyWrite
  <2>3. "DMA_MEM_RESP" \in States BY DEF States
  <2>. QED BY <1>2, <2>1, <2>2, <2>3, AccessAdvances
<1>. QED BY <1>1, <1>2 DEF handle_afu_tlx_write_cmd

\* handle_write_be_or_amo.
LEMMA be_amoAdvances == ASSUME IInv, AInv, handle_write_be_or_amo PROVE OneAdvances
<1>1. CASE UNCHANGED ev BY <1>1 DEF OneAdvances
<1>2. ASSUME NEW i \in Present(First(IsReadyOp)), Access(list[i], "MEM_RECEIVED")
      PROVE  OneAdvances
  <2>1. list[i] \in Tags /\ ev[list[i]] \in Event BY ListedLive DEF Present, First
  <2>2. Waiting(ev[list[i]]) /\ Waiting([ev[list[i]] EXCEPT !.st = "MEM_RECEIVED"])
    BY <1>2, <2>1 DEF Waiting, Event, Present, First, IsReadyOp
  <2>3. "MEM_RECEIVED" \in States BY DEF States
  <2>. QED BY <1>2, <2>1, <2>2, <2>3, AccessAdvances
<1>. QED BY <1>1, <1>2 DEF handle_write_be_or_amo

\* handle_afu_tlx_cmd_data_read.
LEMMA data_readAdvances == ASSUME IInv, AInv, handle_afu_tlx_cmd_data_read PROVE OneAdvances
<1>1. CASE UNCHANGED ev BY <1>1 DEF OneAdvances
<1>2. ASSUME NEW i \in First(IsGathering),
             LET t == list[i]  e == ev[list[i]] IN
               Update(t, [e EXCEPT !.good = @ /\ cdata = <<t, e.dpart>>,
                                   !.dpart = IF e.n - @ > 1 THEN @ + 1 ELSE @,
                                   !.st = IF e.n - e.dpart > 1 THEN @ ELSE "MEM_RECEIVED"])
      PROVE  OneAdvances
  <2>. DEFINE t == list[i]
              e == ev[list[i]]
              good == e.good /\ cdata = <<t, e.dpart>>
              dpart == IF e.n - e.dpart > 1 THEN e.dpart + 1 ELSE e.dpart
              st == IF e.n - e.dpart > 1 THEN e.st ELSE "MEM_RECEIVED"
              f == [e EXCEPT !.good = good, !.dpart = dpart, !.st = st]
  <2>1. t \in Tags /\ e \in Event /\ e.st = "MEM_BUFFER" BY ListedLive DEF First, IsGathering
  <2>2. st \in {"MEM_BUFFER", "MEM_RECEIVED"} BY <2>1
  <2>3. Update(t, f) BY <1>2
  <2>. HIDE DEF good, dpart, st
  <2>4. /\ SameShape(e, f) /\ f.type = e.type /\ f.ropc = e.ropc /\ f.resp = e.resp /\ f.st = st
    BY <2>1 DEF SameShape, Event
  <2>. HIDE DEF f
  <2>5. Advances(e, f) BY <2>1, <2>2, <2>4 DEF Advances, GoesOn, Waiting
  <2>. QED BY <2>1, <2>3, <2>5, UpdateAdvances
<1>. QED BY <1>1, <1>2 DEF handle_afu_tlx_cmd_data_read

\* handle_interrupt.
LEMMA interruptAdvances == ASSUME IInv, AInv, handle_interrupt PROVE OneAdvances
<1>1. CASE UNCHANGED ev BY <1>1 DEF OneAdvances
<1>2. ASSUME NEW i \in Present(First(IsReadyInterrupt)),
             \/ \E p \in IntFaultsOf(ev[list[i]]) :
                  Update(list[i], [ev[list[i]] EXCEPT !.st = p[2], !.type = "CMD_FAILED",
                                                      !.resp = p[3]])
             \/ Update(list[i], [ev[list[i]] EXCEPT !.st = "MEM_DONE"])
      PROVE  OneAdvances
  <2>. DEFINE t == list[i]
              e == ev[list[i]]
  <2>1. t \in Tags /\ e \in Event /\ Waiting(e) /\ e.type \in InterruptTypes
    BY ListedLive DEF Present, First, IsReadyInterrupt, Waiting, InterruptTypes
  <2>2. ASSUME NEW p \in IntFaultsOf(e),
               Update(t, [e EXCEPT !.st = p[2], !.type = "CMD_FAILED", !.resp = p[3]])
        PROVE  OneAdvances
    <3>. DEFINE f == [e EXCEPT !.st = p[2], !.type = "CMD_FAILED", !.resp = p[3]]
    <3>1. \/ p[2] = "MEM_DONE" /\ p[3] \in {"retry", "failed", "derror"}
          \/ p[2] = "MEM_INT_PENDING" /\ p[3] = "pending"
      BY DEF IntFaultsOf
    <3>2. /\ SameShape(e, f) /\ f.st = p[2] /\ f.type = "CMD_FAILED" /\ f.ropc = e.ropc
          /\ f.resp = p[3]
      BY <2>1 DEF SameShape, Event
    <3>. HIDE DEF f
    <3>3. Fails(e, f) \/ Pends(e, f) BY <2>1, <3>1, <3>2 DEF Fails, Pends, IsPending
    <3>4. Advances(e, f) BY <2>1, <3>2, <3>3 DEF Advances
    <3>5. Update(t, f) BY <2>2 DEF f
    <3>. QED BY <2>1, <3>4, <3>5, UpdateAdvances
  <2>3. CASE Update(t, [e EXCEPT !.st = "MEM_DONE"])
    <3>. DEFINE f == [e EXCEPT !.st = "MEM_DONE"]
    <3>1. /\ SameShape(e, f) /\ f.st = "MEM_DONE" /\ f.type = e.type /\ f.ropc = e.ropc
          /\ f.resp = e.resp
      BY <2>1 DEF SameShape, Event
    <3>2. e.type \notin ReturnTypes BY <2>1 DEF InterruptTypes, ReturnTypes
    <3>3. Advances(e, f) BY <2>1, <3>1, <3>2 DEF Advances, GoesOn
    <3>. QED BY <2>1, <2>3, <3>3, UpdateAdvances
  <2>. QED BY <1>2, <2>2, <2>3
<1>. QED BY <1>1, <1>2 DEF handle_interrupt

\* _handle_client settles the event that mem_access points to, or none.
LEMMA _handle_clientAdvances == ASSUME IInv, AInv, _handle_client PROVE OneAdvances
<1>1. cur \in Ctx BY DEF IInv, TypeOK
<1>2. CASE UNCHANGED ev BY <1>2 DEF OneAdvances
<1>3. CASE client[cur].st = "CLIENT_VALID" /\ Reply(cur) /\ client[cur].mem # NoTag
  <2>. DEFINE t == client[cur].mem
  <2>1. t \in Tags /\ ev[t] \in Event /\ Waiting(ev[t])
    BY <1>1, <1>3 DEF IInv, TypeOK, Client, AckMatchesRequest, Outstanding, Waiting
  <2>2. ASSUME NEW e, Update(t, e),
               \/ e = [ev[t] EXCEPT !.st = "MEM_DONE", !.type = "CMD_FAILED", !.resp = "failed"]
               \/ e = [ev[t] EXCEPT !.st = "MEM_DONE", !.ret = ev[t].type \in ReturnTypes]
        PROVE  OneAdvances
    <3>. HIDE DEF t
    <3>1. CASE e = [ev[t] EXCEPT !.st = "MEM_DONE", !.type = "CMD_FAILED", !.resp = "failed"]
      <4>1. SameShape(ev[t], e) /\ Fails(ev[t], e) BY <2>1, <3>1 DEF SameShape, Fails, Event
      <4>2. Advances(ev[t], e) BY <2>1, <4>1 DEF Advances
      <4>. QED BY <2>1, <2>2, <4>2, UpdateAdvances
    <3>2. CASE e = [ev[t] EXCEPT !.st = "MEM_DONE", !.ret = ev[t].type \in ReturnTypes]
      <4>. DEFINE ret == ev[t].type \in ReturnTypes
      <4>1. e = [ev[t] EXCEPT !.st = "MEM_DONE", !.ret = ret] BY <3>2
      <4>. HIDE DEF ret
      <4>2. /\ SameShape(ev[t], e) /\ e.st = "MEM_DONE" /\ e.type = ev[t].type
            /\ e.ropc = ev[t].ropc /\ e.resp = ev[t].resp /\ e.ret = ret
        BY <2>1, <4>1 DEF SameShape, Event
      <4>3. Advances(ev[t], e) BY <2>1, <4>2 DEF Advances, GoesOn, ret
      <4>. QED BY <2>1, <2>2, <4>3, UpdateAdvances
    <3>. QED BY <2>2, <3>1, <3>2
  <2>. QED BY <1>2, <1>3, <2>2 DEF Reply, handle_mem_return, handle_aerror, ReturnTypes
<1>. QED BY <1>2, <1>3 DEF _handle_client, NoMessage, Reply, _detach, Lost

\* client_cmd terminates events.
LEMMA client_cmdInternal == ASSUME IInv, AInv, client_cmd PROVE Internal
<1>1. UNCHANGED <<port, cmdport, afu>> /\ pc' # "exit" BY DEF client_cmd, NextSlot
<1>2. \A t \in Tags : ev'[t] = ev[t] \/ Terminates(ev[t], ev'[t])
  BY DEF client_cmd, Terminates, Live
<1>. QED BY <1>1, <1>2 DEF Internal

-----------------------------------------------------------------------------
(***************************************************************************)
(* Responses.                                                              *)
(***************************************************************************)
\* The fields of the next part of a response.
LEMMA ChunkParts ==
  ASSUME NEW e \in Event, EventOK(e), SplitOK(e)
  PROVE  LET f == Chunk(e) IN
         /\ f \in Event /\ f.st = e.st /\ f.type = e.type /\ f.op = e.op /\ f.n = e.n
         /\ f.ropc = e.ropc /\ f.resp = e.resp /\ f.ret = e.ret /\ f.ctx = e.ctx
         /\ ~IsSplit(e) => f = e /\ e.sent = 0
         /\ IsSplit(e) => /\ f.sent = e.sent + HostCL /\ f.dl = HostCL /\ f.sent <= f.n
                          /\ f.sent > 0 /\ (HostCL = 2 => f.sent \in {2, 4})
                          /\ e.ropc \in DataOpcodes /\ e.resp # "pending"
                          /\ HostCL # 1 => f.dp = IF e.sent = 0 THEN e.dp ELSE 2
<1>. DEFINE f == Chunk(e)
<1>1. HostCL \in {1, 2, 4} /\ e.n \in {1, 2, 4} /\ e.sent \in Nat
  BY ConstantsAssumption DEF ConstantsAssumption, Event
<1>2. f \in Event /\ f.st = e.st /\ f.type = e.type /\ f.op = e.op /\ f.n = e.n BY ChunkType
<1>3. CASE ~IsSplit(e)
  <2>1. f = e BY <1>3 DEF Chunk, IsSplit
  <2>2. e.sent = 0 BY <1>3 DEF IsSplit, SplitOK
  <2>. QED BY <1>2, <1>3, <2>1, <2>2
<1>4. CASE IsSplit(e)
  <2>. DEFINE dp == CASE e.sent = 0 -> e.dp
                      [] e.sent # 0 /\ HostCL = 2 -> 2
                      [] e.sent # 0 /\ HostCL # 2 -> (e.dp + 1) % 4
  <2>1. f = [e EXCEPT !.dp = dp, !.dl = HostCL, !.sent = e.sent + HostCL]
    BY <1>4 DEF Chunk, IsSplit
  <2>2. HostCL # 1 => HostCL = 2 BY <1>1, <1>4 DEF IsSplit
  <2>3. HostCL # 1 => dp = IF e.sent = 0 THEN e.dp ELSE 2 BY <2>2
  <2>. HIDE DEF dp
  <2>4. /\ f.ropc = e.ropc /\ f.resp = e.resp /\ f.ret = e.ret /\ f.ctx = e.ctx
        /\ f.sent = e.sent + HostCL /\ f.dl = HostCL /\ f.dp = dp
    BY <2>1 DEF Event
  <2>5. e.sent + HostCL <= e.n /\ e.sent + HostCL > 0 /\ (HostCL = 2 => e.sent + HostCL \in {2, 4})
    BY <1>1, <1>4, <2>2 DEF IsSplit, EventOK
  <2>6. e.ropc \in DataOpcodes
    <3>1. e.ropc = RespOpcode(e.op) /\ e.op \in {"RD", "DMA_W"} BY <1>4 DEF IsSplit, EventOK
    <3>. QED BY <3>1 DEF RespOpcode, ReadOps, WriteOps, DataOpcodes
  <2>7. e.resp # "pending" BY <1>4 DEF IsSplit, EventOK
  <2>. HIDE DEF f
  <2>8. f.sent <= f.n /\ f.sent > 0 /\ (HostCL = 2 => f.sent \in {2, 4}) BY <1>2, <2>4, <2>5
  <2>. QED BY <1>2, <1>4, <2>3, <2>4, <2>6, <2>7, <2>8 DEF f
<1>. QED BY <1>3, <1>4

\* A free tag is well formed.
LEMMA NoEventOK == EventOK(NoEvent)
<1>1. HostCL \in {1, 2, 4} BY ConstantsAssumption DEF ConstantsAssumption
<1>. QED BY <1>1 DEF EventOK, NoEvent, IsPending, IsSplit, PostedOpcodes, DataOpcodes

\* A step that changes one event and the port, in two steps: the other tags
\* are as before, and the port names this one.
LEMMA OthersOK ==
  ASSUME IInv, AInv, NEW t \in Tags, Live(t),
         \A u \in Tags : u # t => ev'[u] = ev[u], EventOK(ev'[t]),
         UNCHANGED <<cmdport, afu>>, pc' # "exit",
         port' = port \/ (port.tag = NoTag /\ port'.tag = t),
         ev'[t].st # "FREE" => TagOK(t)'
  PROVE  AInv'
<1>1. \A u \in Tags : u # t => (port'.tag = u <=> port.tag = u)
  BY ConstantsAssumption DEF ConstantsAssumption
<1>2. EventsOK' BY DEF EventsOK, AInv
<1>3. TagsOK'
  <2>. SUFFICES ASSUME NEW u \in Tags, u # t, Live(u)' PROVE TagOK(u)' BY DEF TagsOK, Live
  <2>1. ev'[u] = ev[u] /\ Live(u) /\ TagOK(u) BY DEF AInv, TagsOK, Live
  <2>2. port.tag = u => port' = port BY ConstantsAssumption DEF ConstantsAssumption
  <2>. QED BY <1>1, <2>1, <2>2 DEF TagOK, Continues
<1>4. PortOK' BY DEF AInv, PortOK, TagsOK, TagOK
<1>5. CmdOK'
  <2>. SUFFICES ASSUME cmdport.tag # NoTag
                PROVE  /\ ~Live(cmdport.tag)' /\ port'.tag # cmdport.tag
                       /\ cmdport.op \notin {"NOP", "ASSIGN_ACTAG"} =>
                            afu[cmdport.tag] = Fresh(cmdport)
    BY DEF CmdOK, Fresh
  <2>1. cmdport.tag \in Tags BY DEF IInv, TypeOK, Command
  <2>2. cmdport.tag # t /\ ev'[cmdport.tag] = ev[cmdport.tag] BY <2>1 DEF AInv, CmdOK
  <2>. QED BY <2>1, <2>2 DEF AInv, CmdOK, Live
<1>. QED BY <1>2, <1>3, <1>4, <1>5 DEF AInv

\* handle_response sends the next part of a response, or all of it, or backs up.
LEMMA responseOK == ASSUME IInv, AInv, handle_response PROVE AInv'
<1>1. UNCHANGED <<cmdport, afu>> /\ pc' # "exit" BY DEF handle_response, Goto
<1>2. CASE UNCHANGED <<ev, port>>
  <2>1. Internal BY <1>1, <1>2 DEF Internal
  <2>2. IInv' BY NextInvariant DEF Next, Loop
  <2>. QED BY <2>1, <2>2, InternalOK
<1>3. ASSUME NEW i \in Present(First(IsReady)), NEW t \in Tags, t = list[i],
             LET e == Chunk(ev[list[i]]) IN
               \/ Update(list[i], BackUp(e)) /\ port' = port
               \/ /\ CanSend
                  /\ Send(list[i], e.ropc, IF ReturnsData(e) THEN "ok" ELSE e.resp,
                          e.dl, e.dp, ReturnsData(e) /\ e.ret)
                  /\ Responded(i, e)
      PROVE  AInv'
  <2>. DEFINE e == ev[t]
              f == Chunk(ev[t])
              code == IF ReturnsData(f) THEN "ok" ELSE f.resp
  <2>1. i \in DOMAIN list /\ IsReady(e) BY <1>3 DEF Present, First
  <2>2. t \in Tags /\ Live(t) /\ e \in Event BY <1>3, <2>1, ListedLive
  <2>3. EventOK(e) /\ SplitOK(e) /\ TagOK(t) BY <2>2 DEF AInv, EventsOK, TagsOK, IInv, SplitDone
  <2>4. /\ f \in Event /\ f.st = e.st /\ f.type = e.type /\ f.op = e.op /\ f.n = e.n
        /\ f.ropc = e.ropc /\ f.resp = e.resp
        /\ ~IsSplit(e) => f = e /\ e.sent = 0
        /\ IsSplit(e) => /\ f.sent = e.sent + HostCL /\ f.dl = HostCL /\ f.sent <= f.n
                         /\ f.sent > 0 /\ (HostCL = 2 => f.sent \in {2, 4})
                         /\ e.ropc \in DataOpcodes /\ e.resp # "pending"
    BY <2>2, <2>3, ChunkParts
  <2>5. IsSplit(e) => e.st = "MEM_DONE"
    BY <2>1, <2>3 DEF IsSplit, IsReady, EventOK
  <2>6. ev \in [Tags -> Event] /\ HostCL \in {1, 2, 4} /\ t # NoTag
    BY <2>2, ConstantsAssumption DEF IInv, TypeOK, ConstantsAssumption
  <2>. HIDE DEF f
  <2>7. CASE Update(t, BackUp(f)) /\ port' = port
    <3>. DEFINE g == BackUp(f)
    <3>1. /\ g \in Event /\ g.sent = e.sent /\ g.n = e.n /\ g.st = e.st /\ g.type = e.type
          /\ g.op = e.op /\ g.ropc = e.ropc /\ g.resp = e.resp
          /\ ~IsSplit(e) => g.dl = e.dl /\ g.dp = e.dp
      <4>1. g = [f EXCEPT !.sent = e.sent]
        <5>1. CASE IsSplit(e)
          <6>1. f.sent # 0 /\ f.sent - HostCL = e.sent BY <2>2, <2>4, <2>6, <5>1 DEF Event
          <6>. QED BY <6>1 DEF BackUp
        <5>2. CASE ~IsSplit(e) BY <2>4, <5>2 DEF BackUp
        <5>. QED BY <5>1, <5>2
      <4>. HIDE DEF g
      <4>. QED BY <2>2, <2>4, <4>1 DEF Event
    <3>. HIDE DEF g
    <3>2. ev'[t] = g /\ \A u \in Tags : u # t => ev'[u] = ev[u]
      BY <2>2, <2>6, <2>7 DEF Update, g
    <3>3. EventOK(g)
      <4>1. IsSplit(g) <=> IsSplit(e) BY <3>1 DEF IsSplit
      <4>2. IsPending(g) <=> IsPending(e) BY <3>1 DEF IsPending
      <4>. QED BY <2>3, <2>5, <3>1, <4>1, <4>2 DEF EventOK
    <3>4. TagOK(t)' BY <1>1, <2>3, <2>7, <3>1, <3>2 DEF TagOK, Continues
    <3>. QED BY <1>1, <2>2, <2>7, <3>2, <3>3, <3>4, OthersOK
  <2>8. CASE CanSend /\ Responded(i, f) /\ port'.tag = t /\ port'.ropc = f.ropc /\ port'.code = code
             /\ port'.dl = f.dl
    <3>1. port.tag = NoTag /\ afu[t].cnt = e.sent /\ port.tag # t
      BY <2>3, <2>6, <2>8 DEF CanSend, TagOK
    <3>2. code = "ok" \/ code = e.resp BY <2>4
    <3>3. CASE IsPending(f) /\ Update(t, [f EXCEPT !.st = "MEM_PENDING_SENT"])
      <4>. DEFINE g == [f EXCEPT !.st = "MEM_PENDING_SENT"]
      <4>1. IsPending(e) /\ e.type = "CMD_FAILED" /\ e.resp = "pending" /\ e.ropc \notin DataOpcodes
        BY <2>3, <2>4, <3>3 DEF IsPending, EventOK
      <4>2. f = e /\ e.sent = 0 /\ code = "pending"
        BY <2>4, <4>1 DEF IsSplit, ReturnsData
      <4>3. /\ g.st = "MEM_PENDING_SENT" /\ g.sent = e.sent /\ g.n = e.n /\ g.type = e.type
            /\ g.op = e.op /\ g.ropc = e.ropc /\ g.resp = e.resp /\ g.dl = e.dl /\ g.dp = e.dp
        BY <2>2, <4>2 DEF Event
      <4>4. ev'[t] = g /\ \A u \in Tags : u # t => ev'[u] = ev[u]
        BY <2>2, <2>6, <3>3 DEF Update
      <4>. HIDE DEF g
      <4>5. EventOK(g)
        <5>1. e.dl = e.n /\ e.dp = 0 BY <2>3, <4>1 DEF EventOK, IsSplit
        <5>. QED BY <2>3, <4>1, <4>3, <5>1 DEF EventOK, IsPending
      <4>6. TagOK(t)'
        BY <1>1, <2>3, <2>4, <2>8, <3>1, <4>1, <4>2, <4>3, <4>4 DEF TagOK, Continues, EventOK
      <4>. QED BY <1>1, <2>2, <2>8, <3>1, <4>4, <4>5, <4>6, OthersOK
    <3>4. CASE f.sent > 0 /\ f.sent # f.n /\ Update(t, f)
      <4>1. IsSplit(e) /\ e.st = "MEM_DONE" BY <2>4, <2>5, <3>4
      <4>2. ev'[t] = f /\ \A u \in Tags : u # t => ev'[u] = ev[u] BY <2>2, <2>6, <3>4 DEF Update
      <4>3. EventOK(f)
        <5>1. f.sent < f.n /\ (HostCL = 2 => f.sent \in {0, 2})
          BY <2>4, <2>6, <3>4, <4>1 DEF Event, IsSplit
        <5>2. IsSplit(f) BY <2>4, <4>1 DEF IsSplit
        <5>. QED BY <2>3, <2>4, <4>1, <5>1, <5>2 DEF EventOK, IsPending
      <4>4. code # "pending" BY <2>4, <3>2, <4>1
      <4>5. afu[t].cnt + HostCL = f.sent BY <2>4, <3>1, <4>1
      <4>6. TagOK(t)'
        BY <1>1, <2>3, <2>4, <2>8, <4>1, <4>2, <4>4, <4>5 DEF TagOK, Continues, EventOK
      <4>. QED BY <1>1, <2>2, <2>8, <3>1, <4>2, <4>3, <4>6, OthersOK
    <3>5. CASE Unlink(i)
      <4>1. ev'[t] = NoEvent /\ \A u \in Tags : u # t => ev'[u] = ev[u]
        BY <1>3, <2>2, <2>6, <3>5 DEF Unlink
      <4>2. EventOK(ev'[t]) /\ ev'[t].st = "FREE" BY <4>1, NoEventOK DEF NoEvent
      <4>. QED BY <1>1, <2>2, <2>8, <3>1, <4>1, <4>2, OthersOK
    <3>. QED BY <1>3, <2>8, <3>3, <3>4, <3>5 DEF Responded
  <2>. QED BY <1>3, <2>7, <2>8 DEF Send, f
<1>4. \A i \in Present(First(IsReady)) : list[i] \in Tags BY ListedLive DEF Present, First
<1>. QED BY <1>2, <1>3, <1>4 DEF handle_response

\* handle_xlate_intrp_pending_sent ends an event with a posted command.
LEMMA pending_sentOK == ASSUME IInv, AInv, handle_xlate_intrp_pending_sent PROVE AInv'
<1>1. UNCHANGED <<cmdport, afu>> /\ pc' # "exit" BY DEF handle_xlate_intrp_pending_sent, Goto
<1>2. CASE UNCHANGED <<ev, port>>
  <2>1. Internal BY <1>1, <1>2 DEF Internal
  <2>2. IInv' BY NextInvariant DEF Next, Loop
  <2>. QED BY <2>1, <2>2, InternalOK
<1>3. ASSUME NEW i \in DOMAIN list, NEW t \in Tags, t = list[i], IsPendingSent(ev[t]),
             \/ /\ \E code \in {"ok", "retry", "dropped"} :
                     Update(t, [ev[t] EXCEPT !.resp = code])
                /\ port' = port
             \/ CanSend /\ port'.tag = t /\ Unlink(i)
      PROVE  AInv'
  <2>. DEFINE e == ev[t]
  <2>1. Live(t) /\ e \in Event /\ ev \in [Tags -> Event] BY <1>3, ListedLive DEF IInv, TypeOK
  <2>2. EventOK(e) /\ TagOK(t) BY <2>1 DEF AInv, EventsOK, TagsOK
  <2>3. ASSUME NEW code \in {"ok", "retry", "dropped"}, Update(t, [e EXCEPT !.resp = code]),
               port' = port
        PROVE  AInv'
    <3>. DEFINE g == [e EXCEPT !.resp = code]
    <3>1. /\ g.st = e.st /\ g.sent = e.sent /\ g.n = e.n /\ g.type = e.type
          /\ g.op = e.op /\ g.ropc = e.ropc /\ g.resp = code /\ g.dl = e.dl /\ g.dp = e.dp
      BY <2>1 DEF Event
    <3>2. ev'[t] = g /\ \A u \in Tags : u # t => ev'[u] = ev[u] BY <2>1, <2>3 DEF Update
    <3>. HIDE DEF g
    <3>3. EventOK(g)
      <4>1. IsSplit(g) <=> IsSplit(e) BY <3>1 DEF IsSplit
      <4>. QED BY <1>3, <2>2, <3>1, <4>1 DEF EventOK, IsPending, IsPendingSent
    <3>4. TagOK(t)' BY <1>1, <2>2, <2>3, <3>1, <3>2 DEF TagOK, Continues
    <3>. QED BY <1>1, <2>1, <2>3, <3>2, <3>3, <3>4, OthersOK
  <2>4. CASE CanSend /\ port'.tag = t /\ Unlink(i)
    <3>1. ev'[t] = NoEvent /\ \A u \in Tags : u # t => ev'[u] = ev[u] BY <1>3, <2>1, <2>4 DEF Unlink
    <3>2. EventOK(ev'[t]) /\ ev'[t].st = "FREE" BY <3>1, NoEventOK DEF NoEvent
    <3>3. port.tag = NoTag BY <2>4 DEF CanSend
    <3>. QED BY <1>1, <2>1, <2>4, <3>1, <3>2, <3>3, OthersOK
  <2>. QED BY <1>3, <2>3, <2>4
<1>. DEFINE found == Present(IF Reorder THEN {j \in DOMAIN list : IsPendingSent(ev[list[j]])}
                                       ELSE First(IsPendingSent))
<1>4. ASSUME NEW i \in found
      PROVE  i \in DOMAIN list /\ IsPendingSent(ev[list[i]]) /\ list[i] \in Tags
  <2>1. i \in DOMAIN list /\ IsPendingSent(ev[list[i]]) BY DEF Present, First
  <2>. QED BY <2>1, ListedLive
<1>. HIDE DEF found
<1>5. ASSUME NEW i \in found, NEW code \in {"ok", "retry", "dropped"},
             Update(list[i], [ev[list[i]] EXCEPT !.resp = code]), port' = port
      PROVE  AInv'
  BY <1>3, <1>4, <1>5
<1>6. ASSUME NEW i \in found, CanSend, port'.tag = list[i], Unlink(i) PROVE AInv'
  BY <1>3, <1>4, <1>6
<1>7. {"ok"} \cup (Faults \cap {"retry"}) \subseteq {"ok", "retry", "dropped"} OBVIOUS
<1>8. ASSUME ~UNCHANGED <<ev, port>>
      PROVE  \E i \in found :
               \/ Update(list[i], [ev[list[i]] EXCEPT !.resp = "dropped"]) /\ port' = port
               \/ \E code \in {"ok"} \cup (Faults \cap {"retry"}) :
                    \/ Update(list[i], [ev[list[i]] EXCEPT !.resp = code]) /\ port' = port
                    \/ /\ CanSend /\ Unlink(i)
                       /\ Send(list[i], IF ev[list[i]].op \in IntOps THEN "INTRP_RDY" ELSE "XLATE_DONE",
                               code, 0, 0, FALSE)
  BY <1>8, Zenon DEF handle_xlate_intrp_pending_sent, found
<1>9. ASSUME NEW t, NEW ropc, NEW code, Send(t, ropc, code, 0, 0, FALSE) PROVE port'.tag = t
  BY <1>9 DEF Send
<1>. QED BY <1>2, <1>5, <1>6, <1>7, <1>8, <1>9

-----------------------------------------------------------------------------
(***************************************************************************)
(* Packets and commands.                                                   *)
(***************************************************************************)
\* The AFU keeps the tag of a response that does not complete its event.
LEMMA ReceiveContinues ==
  ASSUME IInv, AInv, NEW t \in Tags, Live(t), port.tag = t
  PROVE  LET a == Receive(afu[t], port) IN
         /\ a.st # "free" /\ a.n = afu[t].n /\ a.pasid = afu[t].pasid /\ a.cnt = ev[t].sent
         /\ \/ port.code = "pending" /\ a = [afu[t] EXCEPT !.st = "pend"]
            \/ /\ port.code # "pending"
               /\ a = [afu[t] EXCEPT !.got = @ \cup (port.dp .. (port.dp + port.dl - 1)),
                                     !.cnt = @ + port.dl]
<1>. DEFINE a == Receive(afu[t], port)
<1>1. afu[t] \in AfuTag /\ port \in Response /\ ev[t] \in Event /\ HostCL \in {1, 2, 4}
  BY ConstantsAssumption DEF IInv, TypeOK, ConstantsAssumption
<1>2. TagOK(t) /\ EventOK(ev[t]) /\ SplitOK(ev[t])
  BY DEF AInv, TagsOK, EventsOK, IInv, SplitDone
<1>3. port.ropc \notin PostedOpcodes /\ Continues(t) /\ afu[t].st # "free" BY <1>2 DEF TagOK
<1>4. CASE port.code = "pending"
  <2>1. a = [afu[t] EXCEPT !.st = "pend"] BY <1>3, <1>4 DEF Receive, PostedOpcodes
  <2>2. afu[t].cnt = ev[t].sent BY <1>3, <1>4 DEF Continues
  <2>. QED BY <1>1, <1>4, <2>1, <2>2 DEF AfuTag
<1>5. CASE port.code # "pending"
  <2>1. port.ropc \in DataOpcodes /\ port.dl = HostCL /\ afu[t].cnt + HostCL = ev[t].sent
    BY <1>3, <1>5 DEF Continues
  <2>2. ev[t].sent # 0 /\ ev[t].sent < ev[t].n BY <1>1, <1>2, <2>1 DEF AfuTag, EventOK
  <2>3. ev[t].ropc \in DataOpcodes
    <3>1. ev[t].type # "CMD_FAILED" /\ ev[t].op \in {"RD", "DMA_W"} BY <1>2, <2>2 DEF SplitOK
    <3>2. ev[t].ropc = RespOpcode(ev[t].op) BY <1>2, <3>1 DEF EventOK
    <3>. QED BY <3>1, <3>2 DEF RespOpcode, ReadOps, WriteOps, DataOpcodes
  <2>4. afu[t].cnt + port.dl < afu[t].n BY <1>2, <2>1, <2>2, <2>3 DEF TagOK
  <2>. DEFINE got == afu[t].got \cup (port.dp .. (port.dp + port.dl - 1))
  <2>5. a = [afu[t] EXCEPT !.got = got, !.cnt = @ + port.dl]
    BY <1>3, <1>5, <2>1, <2>4 DEF Receive, PostedOpcodes, DataOpcodes
  <2>. HIDE DEF got
  <2>6. a.st = afu[t].st /\ a.n = afu[t].n /\ a.pasid = afu[t].pasid /\ a.cnt = ev[t].sent
    BY <1>1, <2>1, <2>5 DEF AfuTag
  <2>. QED BY <1>3, <1>5, <2>5, <2>6 DEF got
<1>. QED BY <1>4, <1>5

\* What a clock does to the tags: the AFU issues a command for a free tag, and
\* takes the response on the port.
Issues(m) ==
  /\ m = NoCmd \/ (m.tag \in Tags /\ afu[m.tag].st = "free")
  /\ cmdport' = m /\ afu' = Issued(Received, m)

\* In a clock the AFU starts at most one command, with a tag it does not use.
LEMMA ClockIssues == ASSUME IInv, Clock PROVE \E m \in Command : Issues(m)
<1>1. cmdport' \in Command BY ClockWires DEF WireInv
<1>2. PICK m \in {NoCmd} \cup Commands({t \in Tags : afu[t].st = "free"})
                         \cup Assignments({t \in Tags : afu[t].st = "free"}) :
        cmdport' = m /\ afu' = Issued(Received, m)
  BY DEF Clock
<1>3. m = NoCmd \/ (m.tag \in Tags /\ afu[m.tag].st = "free") BY <1>2 DEF Commands, Assignments
<1>. QED BY <1>1, <1>2, <1>3 DEF Issues

\* The tags of a clock.
LEMMA ClockTags ==
  ASSUME IInv, AInv, NEW m \in Command, Issues(m)
  PROVE  /\ \A t \in Tags : port.tag # t /\ (m.tag # t \/ m.op \in {"NOP", "ASSIGN_ACTAG"}) =>
              afu'[t] = afu[t]
         /\ \A t \in Tags : port.tag = t => afu'[t] = Receive(afu[t], port) /\ m.tag # t
         /\ m.tag # NoTag => /\ m.tag \in Tags /\ ~Live(m.tag) /\ port.tag # m.tag
                             /\ m.op \notin {"NOP", "ASSIGN_ACTAG"} => afu'[m.tag] = Fresh(m)
<1>1. afu \in [Tags -> AfuTag] /\ port \in Response BY DEF IInv, TypeOK
<1>2. /\ Received \in [Tags -> AfuTag]
      /\ \A t \in Tags : Received[t] = IF port.tag = t THEN Receive(afu[t], port) ELSE afu[t]
  <2>1. CASE port.tag = NoTag
    BY <1>1, <2>1, ConstantsAssumption DEF Received, ConstantsAssumption
  <2>2. CASE port.tag # NoTag
    <3>1. port.tag \in Tags BY <1>1, <2>2 DEF Response
    <3>2. Receive(afu[port.tag], port) \in AfuTag BY <1>1, <3>1, ReceiveType
    <3>. QED BY <1>1, <2>2, <3>1, <3>2 DEF Received
  <2>. QED BY <2>1, <2>2
<1>3. m.tag # NoTag => m.tag \in Tags /\ ~Live(m.tag) /\ port.tag # m.tag
  <2>. SUFFICES ASSUME m.tag # NoTag PROVE m.tag \in Tags /\ ~Live(m.tag) /\ port.tag # m.tag
    OBVIOUS
  <2>1. m.tag \in Tags /\ afu[m.tag].st = "free" BY DEF Issues, NoCmd
  <2>. QED BY <2>1 DEF AInv, TagsOK, TagOK, PortOK
<1>4. afu' = Issued(Received, m) BY DEF Issues
<1>5. CASE m.tag = NoTag \/ m.op \in {"NOP", "ASSIGN_ACTAG"}
  <2>1. afu' = Received BY <1>4, <1>5 DEF Issued
  <2>. QED BY <1>2, <1>3, <1>5, <2>1, ConstantsAssumption DEF ConstantsAssumption
<1>6. CASE ~(m.tag = NoTag \/ m.op \in {"NOP", "ASSIGN_ACTAG"})
  <2>1. afu' = [Received EXCEPT ![m.tag] = Fresh(m)] BY <1>4, <1>6 DEF Issued, Fresh
  <2>. QED BY <1>2, <1>3, <1>6, <2>1
<1>. QED BY <1>5, <1>6

\* A clock completes events that are gone only, and issues unused tags only.
LEMMA ClockOK == ASSUME IInv, AInv, Clock PROVE AInv'
<1>1. PICK m \in Command : Issues(m) BY ClockIssues
<1>2. port' = NoResp /\ ev' = ev /\ pc' # "exit" BY DEF Clock, Goto
<1>3. cmdport' = m BY <1>1 DEF Issues
<1>4. port'.tag = NoTag BY <1>2 DEF NoResp
<1>5. /\ \A t \in Tags : port.tag # t /\ (m.tag # t \/ m.op \in {"NOP", "ASSIGN_ACTAG"}) =>
           afu'[t] = afu[t]
      /\ \A t \in Tags : port.tag = t => afu'[t] = Receive(afu[t], port) /\ m.tag # t
      /\ m.tag # NoTag => /\ m.tag \in Tags /\ ~Live(m.tag) /\ port.tag # m.tag
                          /\ m.op \notin {"NOP", "ASSIGN_ACTAG"} => afu'[m.tag] = Fresh(m)
  BY <1>1, ClockTags
<1>6. EventsOK' BY <1>2 DEF AInv, EventsOK
<1>7. TagsOK'
  <2>. SUFFICES ASSUME NEW t \in Tags, Live(t) PROVE TagOK(t)' BY <1>2 DEF TagsOK, Live
  <2>1. m.tag # t BY <1>5, ConstantsAssumption DEF ConstantsAssumption
  <2>2. TagOK(t) /\ t # NoTag BY ConstantsAssumption DEF AInv, TagsOK, ConstantsAssumption
  <2>3. CASE port.tag # t BY <1>2, <1>4, <1>5, <2>1, <2>2, <2>3 DEF TagOK
  <2>4. CASE port.tag = t
    <3>1. afu'[t].st # "free" /\ afu'[t].n = afu[t].n /\ afu'[t].cnt = ev[t].sent
      BY <1>5, <2>4, ReceiveContinues
    <3>. QED BY <1>2, <1>4, <2>2, <3>1 DEF TagOK
  <2>. QED BY <2>3, <2>4
<1>8. PortOK' BY <1>4 DEF PortOK
<1>9. CmdOK'
  <2>1. m.tag # NoTag => ~Live(m.tag)' BY <1>2, <1>5 DEF Live
  <2>. QED BY <1>3, <1>4, <1>5, <2>1 DEF CmdOK, Fresh
<1>. QED BY <1>2, <1>6, <1>7, <1>8, <1>9 DEF AInv

\* The opcodes of the response of a command.
OpcodesOf(m) == IF m.ok THEN {RespOpcode(m.op)} ELSE BadOpcodes(m.op)

\* The event of a command is well formed, with and without the beat that came
\* with the command, and is as long as the command unless it failed.
NewOK(f, c, m) ==
  /\ EventOK(f) /\ f.sent = 0 /\ f.dp = 0 /\ f.ctx = c /\ f.op = m.op /\ f.ret = FALSE
  /\ f.st \in {"MEM_IDLE", "MEM_DONE", "MEM_BUFFER", "MEM_RECEIVED"}
  /\ f.st = "MEM_DONE" => f.type \in {"CMD_FAILED", "CMD_TOUCH"}
  /\ f.ropc \in DataOpcodes => f.n = m.n

\* The event made for a command describes that command, with or without its first beat.
LEMMA NewEventOK ==
  ASSUME NEW c \in Ctx, NEW m \in Command, client[c].gen \in Nat, NEW ropc \in OpcodesOf(m)
  PROVE  /\ NewOK(NewEvent(c, m, ropc), c, m)
         /\ NewOK(FirstBeat(m.tag, NewEvent(c, m, ropc)), c, m)
<1>. SUFFICES ASSUME NEW f,
                     f = NewEvent(c, m, ropc) \/ f = FirstBeat(m.tag, NewEvent(c, m, ropc))
              PROVE  NewOK(f, c, m)
  OBVIOUS
<1>. DEFINE e == NewEvent(c, m, ropc)
            type == IF m.ok THEN TypeOf(m.op) ELSE "CMD_FAILED"
            st == IF m.ok /\ m.op # "XLATE_TOUCH" THEN "MEM_IDLE" ELSE "MEM_DONE"
            resp == IF m.ok THEN "ok" ELSE IF m.op = "UNKNOWN" THEN "dropped" ELSE "bad"
            n == IF m.ok THEN m.n ELSE 1
<1>. USE DEF OpcodesOf
<1>1. ropc \in Opcodes BY DEF RespOpcode, BadOpcodes, Opcodes
<1>2. e \in Event /\ e.st \in {"MEM_IDLE", "MEM_DONE"} BY <1>1, NewEventType
<1>3. /\ e.type = type /\ e.st = st /\ e.resp = resp /\ e.n = n /\ e.dl = n /\ e.dp = 0
      /\ e.sent = 0 /\ e.ropc = ropc /\ e.ctx = c /\ e.op = m.op /\ e.ret = FALSE
  BY DEF NewEvent, NoEvent
<1>4. ropc \notin PostedOpcodes
  BY DEF RespOpcode, BadOpcodes, PostedOpcodes
<1>5. ~m.ok => ropc \notin DataOpcodes BY DEF BadOpcodes, DataOpcodes
<1>6. type # "CMD_FAILED" => type = TypeOf(m.op) /\ ropc = RespOpcode(m.op) /\ resp = "ok"
  OBVIOUS
<1>7. type = "CMD_FAILED" => ropc \notin DataOpcodes
  <2>. SUFFICES ASSUME m.ok, TypeOf(m.op) = "CMD_FAILED" PROVE ropc \notin DataOpcodes BY <1>5
  <2>1. m.op \in Ops /\ ropc = RespOpcode(m.op) BY DEF Command
  <2>2. m.op \in {"NOP", "ASSIGN_ACTAG", "UNKNOWN"}
    BY <2>1 DEF Ops, TypeOf, ReadOps, WriteOps, AmoOps, IntOps
  <2>. QED BY <2>1, <2>2 DEF RespOpcode, DataOpcodes, ReadOps, WriteOps
<1>8. n \in {1, 2, 4} /\ resp # "pending" BY DEF Command
<1>9. ropc \in DataOpcodes => n = m.n BY <1>5
<1>10. /\ f.type = type /\ f.resp = resp /\ f.n = n /\ f.dl = n /\ f.dp = 0 /\ f.sent = 0
       /\ f.ropc = ropc /\ f.ctx = c /\ f.op = m.op /\ f.ret = FALSE
       /\ f.st \in {"MEM_IDLE", "MEM_DONE", "MEM_BUFFER", "MEM_RECEIVED"}
       /\ f.st = "MEM_DONE" => e.st = "MEM_DONE"
  <2>. HIDE DEF e, type, resp, n
  <2>1. CASE f = e BY <1>2, <1>3, <2>1
  <2>2. CASE f = FirstBeat(m.tag, e)
    <3>1. f.st \in {"MEM_IDLE", "MEM_DONE", "MEM_BUFFER", "MEM_RECEIVED"}
      BY <1>2, <1>3, <2>2, FirstBeatType
    <3>. DEFINE good == (cdata = <<m.tag, 0>>)
                dpart == IF e.n > 1 THEN 1 ELSE 0
                s == IF e.n > 1 THEN "MEM_BUFFER" ELSE "MEM_RECEIVED"
    <3>2. f = [e EXCEPT !.good = good] \/ f = [e EXCEPT !.good = good, !.dpart = dpart, !.st = s]
      BY <2>2 DEF FirstBeat
    <3>3. s # "MEM_DONE" OBVIOUS
    <3>. HIDE DEF good, dpart, s
    <3>. QED BY <1>2, <1>3, <3>1, <3>2, <3>3 DEF Event
  <2>. QED BY <2>1, <2>2 DEF e
<1>12. st = "MEM_DONE" => type \in {"CMD_FAILED", "CMD_TOUCH"}
  BY DEF TypeOf, ReadOps
<1>. HIDE DEF type, resp, n, OpcodesOf
<1>11. EventOK(f)
  <2>1. ~IsPending(f) /\ f.st # "MEM_PENDING_SENT" BY <1>10 DEF IsPending
  <2>. QED BY <1>4, <1>6, <1>7, <1>8, <1>10, <2>1 DEF EventOK
<1>. QED BY <1>3, <1>9, <1>10, <1>11, <1>12 DEF NewOK

\* handle_cmd adds an event for an unused tag.
LEMMA cmdOK == ASSUME IInv, AInv, handle_cmd PROVE AInv'
<1>. DEFINE m == cmdport
<1>1. UNCHANGED <<port, afu>> /\ m \in Command /\ ev \in [Tags -> Event]
  BY DEF handle_cmd, IInv, TypeOK
<1>2. m.tag # NoTag => ~Live(m.tag) BY DEF AInv, CmdOK
<1>3. pc' # "exit" BY <1>2 DEF handle_cmd, Goto
<1>4. cmdport' \in {cmdport, NoCmd} BY DEF handle_cmd
<1>5. PortOK' BY <1>1 DEF AInv, PortOK
<1>6. CASE UNCHANGED ev
  <2>1. EventsOK' /\ TagsOK' BY <1>1, <1>6 DEF AInv, EventsOK, TagsOK, TagOK, Continues, Live
  <2>2. CmdOK'
    <3>1. CASE cmdport' = NoCmd BY <3>1 DEF CmdOK, NoCmd
    <3>2. CASE cmdport' = cmdport BY <1>1, <1>6, <3>2 DEF AInv, CmdOK, Fresh, Live
    <3>. QED BY <1>4, <3>1, <3>2
  <2>. QED BY <1>3, <1>5, <2>1, <2>2 DEF AInv
<1>7. CASE m.tag # NoTag /\ cmdport' = NoCmd /\ Accepted(m)
  <2>1. PICK c \in _find_client_by_actag(m.actag),
             ropc \in IF m.ok THEN {RespOpcode(m.op)} ELSE BadOpcodes(m.op) :
               _add_cmd(m, NewEvent(c, m, ropc))
    BY <1>7 DEF Accepted
  <2>2. c \in Ctx /\ client[c].gen \in Nat BY DEF _find_client_by_actag, IInv, TypeOK, Client
  <2>3. m.tag \in Tags /\ afu[m.tag] = Fresh(m) /\ port.tag # m.tag
    BY <1>1, <1>7 DEF Accepted, AInv, CmdOK, Command
  <2>. DEFINE f == IF OffersBeat(m) /\ ~_incoming_data_expected
                   THEN FirstBeat(m.tag, NewEvent(c, m, ropc)) ELSE NewEvent(c, m, ropc)
  <2>4. ev' = [ev EXCEPT ![m.tag] = f] BY <2>1 DEF _add_cmd
  <2>10. f = NewEvent(c, m, ropc) \/ f = FirstBeat(m.tag, NewEvent(c, m, ropc)) OBVIOUS
  <2>11. ropc \in OpcodesOf(m) BY DEF OpcodesOf
  <2>. HIDE DEF f
  <2>12. m \in Command BY <1>1
  <2>5. EventOK(f) /\ f.sent = 0 /\ (f.ropc \in DataOpcodes => f.n = m.n)
    <3>1. NewOK(NewEvent(c, m, ropc), c, m) /\ NewOK(FirstBeat(m.tag, NewEvent(c, m, ropc)), c, m)
      BY <2>2, <2>11, <2>12, NewEventOK
    <3>. QED BY <2>10, <3>1 DEF NewOK
  <2>6. ev'[m.tag] = f /\ \A u \in Tags : u # m.tag => ev'[u] = ev[u] BY <1>1, <2>3, <2>4
  <2>7. EventsOK' BY <2>5, <2>6 DEF AInv, EventsOK
  <2>8. TagsOK'
    <3>. SUFFICES ASSUME NEW u \in Tags, Live(u)' PROVE TagOK(u)' BY DEF TagsOK
    <3>1. CASE u = m.tag
      <4>1. afu[u].st = "sent" /\ afu[u].n = m.n /\ afu[u].cnt = 0 BY <2>3, <3>1 DEF Fresh
      <4>. QED BY <1>1, <2>3, <2>5, <2>6, <3>1, <4>1 DEF TagOK
    <3>2. CASE u # m.tag
      <4>1. ev'[u] = ev[u] /\ TagOK(u) BY <2>6, <3>2 DEF AInv, TagsOK, Live
      <4>. QED BY <1>1, <4>1 DEF TagOK, Continues
    <3>. QED BY <3>1, <3>2
  <2>9. CmdOK' BY <1>7 DEF CmdOK, NoCmd
  <2>. QED BY <1>3, <1>5, <2>7, <2>8, <2>9 DEF AInv
<1>. QED BY <1>6, <1>7 DEF handle_cmd, _assign_actag, Ignored

-----------------------------------------------------------------------------
(***************************************************************************)
(* The invariant, for every value of the constants.                        *)
(***************************************************************************)
\* The steps that advance one event, or none.
LEMMA AdvancingSteps ==
  ASSUME IInv, AInv, [Next]_vars, ~Clock, ~handle_response, ~handle_xlate_intrp_pending_sent,
         ~handle_cmd, ~client_cmd
  PROVE  OneAdvances
<1>1. CASE handle_buffer_write BY <1>1, buffer_writeAdvances
<1>2. CASE handle_afu_tlx_cmd_data_read BY <1>2, data_readAdvances
<1>3. CASE handle_afu_tlx_write_cmd BY <1>3, write_cmdAdvances
<1>4. CASE handle_interrupt BY <1>4, interruptAdvances
<1>5. CASE handle_write_be_or_amo BY <1>5, be_amoAdvances
<1>6. CASE _handle_client BY <1>6, _handle_clientAdvances
<1>7. CASE EmptySlot \/ ReleaseSlot BY <1>7 DEF EmptySlot, ReleaseSlot, OneAdvances
<1>8. CASE \E c \in Ctx : Open(c) \/ Die(c) BY <1>8 DEF Open, Die, OneAdvances
<1>9. CASE UNCHANGED vars BY <1>9 DEF vars, OneAdvances
<1>. QED BY <1>1, <1>2, <1>3, <1>4, <1>5, <1>6, <1>7, <1>8, <1>9 DEF Next, Loop

\* The steps that the AFU sees nothing of.
LEMMA InternalSteps ==
  ASSUME IInv, AInv, [Next]_vars, ~Clock, ~handle_response, ~handle_xlate_intrp_pending_sent,
         ~handle_cmd
  PROVE  Internal
<1>1. UNCHANGED <<port, cmdport, afu>> /\ pc' # "exit"
  BY DEF Next, Loop, vars, AInv, handle_buffer_write, handle_afu_tlx_cmd_data_read,
     handle_afu_tlx_write_cmd, handle_interrupt, handle_write_be_or_amo, EmptySlot, ReleaseSlot,
     _handle_client, client_cmd, Open, Die, Goto, NextSlot
<1>2. CASE OneAdvances BY <1>1, <1>2 DEF OneAdvances, OthersSame, Internal
<1>3. CASE client_cmd BY <1>3, client_cmdInternal
<1>. QED BY <1>2, <1>3, AdvancingSteps

\* Every step keeps the invariant.
LEMMA NextAnswers == IInv /\ AInv /\ [Next]_vars => AInv'
<1>. SUFFICES ASSUME IInv, AInv, [Next]_vars PROVE AInv' OBVIOUS
<1>1. CASE Clock BY <1>1, ClockOK
<1>2. CASE handle_response BY <1>2, responseOK
<1>3. CASE handle_xlate_intrp_pending_sent BY <1>3, pending_sentOK
<1>4. CASE handle_cmd BY <1>4, cmdOK
<1>5. CASE ~Clock /\ ~handle_response /\ ~handle_xlate_intrp_pending_sent /\ ~handle_cmd
  <2>1. Internal /\ IInv' BY <1>5, InternalSteps, NextInvariant
  <2>. QED BY <2>1, InternalOK
<1>. QED BY <1>1, <1>2, <1>3, <1>4, <1>5

\* No event, no command and no response at first.
LEMMA InitAnswers == Init => AInv
<1>. SUFFICES ASSUME Init PROVE AInv OBVIOUS
<1>1. EventsOK BY NoEventOK DEF Init, EventsOK
<1>2. TagsOK BY DEF Init, TagsOK, Live, NoEvent
<1>3. PortOK /\ CmdOK BY DEF Init, PortOK, CmdOK, NoResp, NoCmd
<1>4. pc # "exit" BY DEF Init
<1>. QED BY <1>1, <1>2, <1>3, <1>4 DEF AInv

\* The state of every event agrees with what the AFU knows about its afutag,
\* for any constants.
THEOREM AnswerInvariant == Spec => [](IInv /\ AInv)
<1>1. Init => IInv /\ AInv BY InitInvariant, InitAnswers
<1>2. IInv /\ AInv /\ [Next]_vars => IInv' /\ AInv' BY NextInvariant, NextAnswers
<1>. QED BY <1>1, <1>2, PTL DEF Spec

\* handle_cmd never meets a duplicate afutag, which would end ocse: an AFU that
\* uses a tag again only after the answers that end it finds the event of the
\* tag gone, whatever the clients, the faults and the credits do.
THEOREM NeverExits == Spec => [](pc # "exit")
<1>1. AInv => pc # "exit" BY DEF AInv
<1>. QED BY AnswerInvariant, <1>1, PTL

-----------------------------------------------------------------------------
(***************************************************************************)
(* Contexts.  The AFU assigns each actag to one context, and never the     *)
(* actag 0 that a new client struct holds.                                 *)
(***************************************************************************)
OwnActagsOnly ==
  /\ \A c \in Ctx : 0 \notin ActagsFor[c]
  /\ \A c, d \in Ctx : c # d => ActagsFor[c] \cap ActagsFor[d] = {}

\* The AFU, the command on its way and the client structs agree with that.
ActagsOK ==
  /\ \A a \in Actags : amap[a] # MaxClients => a \in ActagsFor[amap[a]]
  /\ cmdport.tag # NoTag => cmdport.actag \in ActagsFor[cmdport.pasid]
  /\ \A c \in Ctx : client[c].actag = 0 \/ client[c].actag \in ActagsFor[c]

\* handle_cmd alone gives a client an actag.
LEMMA ClientActags ==
  ASSUME IInv, [Next]_vars, ~handle_cmd
  PROVE  \A c \in Ctx : client'[c].actag \in {client[c].actag, 0}
<1>1. client \in [Ctx -> Client] /\ cur \in Ctx /\ ev \in [Tags -> Event] BY DEF IInv, TypeOK
<1>2. CASE UNCHANGED client BY <1>2
<1>3. ASSUME NEW c \in Ctx, NEW cl, client' = [client EXCEPT ![c] = cl],
             cl.actag \in {client[c].actag, 0}
      PROVE  \A d \in Ctx : client'[d].actag \in {client[d].actag, 0}
  BY <1>1, <1>3
<1>4. \A c \in Ctx : client_drop(client[c]).actag = client[c].actag
  BY <1>1 DEF client_drop, Client
<1>5. ASSUME NEW t \in Tags, NEW st, Access(t, st)
      PROVE  \A c \in Ctx : client'[c].actag \in {client[c].actag, 0}
  <2>1. CASE MemFault(t) BY <1>2, <2>1 DEF MemFault
  <2>2. ASSUME NEW ok, SendRequest(ev[t].ctx, t, ok)
        PROVE  \A c \in Ctx : client'[c].actag \in {client[c].actag, 0}
    <3>. DEFINE c == ev[t].ctx
                cl == IF ok THEN client[c] ELSE client_drop(client[c])
    <3>1. c \in Ctx BY <1>1 DEF Event
    <3>2. client' = [client EXCEPT ![c] = [cl EXCEPT !.mem = t]] BY <2>2 DEF SendRequest
    <3>3. cl \in Client /\ cl.actag = client[c].actag BY <1>1, <1>4, <3>1, client_dropType
    <3>. HIDE DEF cl
    <3>4. [cl EXCEPT !.mem = t].actag = client[c].actag BY <3>3 DEF Client
    <3>. QED BY <1>3, <3>1, <3>2, <3>4
  <2>. QED BY <1>5, <2>1, <2>2 DEF Access
<1>6. \A i \in DOMAIN list : list[i] \in Tags BY DEF IInv, TypeOK
<1>7. CASE Clock \/ handle_response \/ handle_xlate_intrp_pending_sent
           \/ handle_afu_tlx_cmd_data_read \/ EmptySlot
  BY <1>2, <1>7 DEF Clock, handle_response, handle_xlate_intrp_pending_sent,
                    handle_afu_tlx_cmd_data_read, EmptySlot
<1>8. CASE handle_buffer_write BY <1>2, <1>5, <1>6, <1>8 DEF handle_buffer_write, Present, First
<1>9. CASE handle_afu_tlx_write_cmd
  BY <1>2, <1>5, <1>6, <1>9 DEF handle_afu_tlx_write_cmd, Present, First
<1>10. CASE handle_write_be_or_amo
  BY <1>2, <1>5, <1>6, <1>10 DEF handle_write_be_or_amo, Present, First
<1>11. CASE handle_interrupt
  <2>1. ASSUME NEW i \in Present(First(IsReadyInterrupt)), NEW ok,
               client' = [client EXCEPT ![ev[list[i]].ctx] = IF ok THEN @ ELSE client_drop(@)]
        PROVE  \A c \in Ctx : client'[c].actag \in {client[c].actag, 0}
    <3>1. ev[list[i]].ctx \in Ctx BY <1>1, <1>6 DEF Present, First, Event
    <3>. QED BY <1>1, <1>4, <2>1, <3>1
  <2>. QED BY <1>2, <1>11, <2>1 DEF handle_interrupt
<1>12. CASE ReleaseSlot
  <2>1. NoClient(client[cur].gen).actag = 0 BY DEF NoClient
  <2>. QED BY <1>1, <1>3, <1>12, <2>1 DEF ReleaseSlot
<1>13. CASE _handle_client
  <2>1. CASE Reply(cur)
    <3>1. client' = [client EXCEPT ![cur] = [client[cur] EXCEPT !.mem = NoTag]] BY <2>1 DEF Reply
    <3>2. [client[cur] EXCEPT !.mem = NoTag].actag = client[cur].actag BY <1>1 DEF Client
    <3>. QED BY <1>1, <1>3, <3>1, <3>2
  <2>2. CASE _detach(cur)
    <3>. DEFINE cl == [client_drop(client[cur]) EXCEPT !.sock = "closed"]
    <3>1. cl.actag = client[cur].actag BY <1>1, <1>4, client_dropType DEF Client
    <3>2. client' = [client EXCEPT ![cur] = cl] BY <2>2 DEF _detach
    <3>. HIDE DEF cl
    <3>. QED BY <1>1, <1>3, <3>1, <3>2
  <2>3. CASE Lost(cur) BY <1>1, <1>3, <1>4, <2>3 DEF Lost
  <2>. QED BY <1>2, <1>13, <2>1, <2>2, <2>3 DEF _handle_client, NoMessage
<1>14. CASE client_cmd BY <1>1, <1>14 DEF client_cmd, Client
<1>15. ASSUME NEW c \in Ctx, Open(c) PROVE \A d \in Ctx : client'[d].actag \in {client[d].actag, 0}
  <2>. DEFINE cl == [NoClient(client[c].gen + 1) EXCEPT !.st = "CLIENT_VALID", !.sock = "open"]
  <2>1. cl.actag = 0 BY DEF NoClient
  <2>2. client' = [client EXCEPT ![c] = cl] BY <1>15 DEF Open
  <2>. HIDE DEF cl
  <2>. QED BY <1>3, <2>1, <2>2
<1>16. ASSUME NEW c \in Ctx, Die(c) PROVE \A d \in Ctx : client'[d].actag \in {client[d].actag, 0}
  BY <1>1, <1>16 DEF Die, Client
<1>17. CASE UNCHANGED vars BY <1>2, <1>17 DEF vars
<1>. QED BY <1>7, <1>8, <1>9, <1>10, <1>11, <1>12, <1>13, <1>14, <1>15, <1>16, <1>17
         DEF Next, Loop

\* Assignments keep to the contexts' own actags.
LEMMA NextActags == ASSUME IInv, ActagsOK, [Next]_vars PROVE ActagsOK'
<1>1. /\ client \in [Ctx -> Client] /\ amap \in [Actags -> Ctx \cup {MaxClients}]
      /\ cmdport \in Command /\ MaxClients \notin Ctx
  BY ConstantsAssumption DEF IInv, TypeOK, Ctx, ConstantsAssumption
<1>2. CASE Clock
  <2>1. PICK m \in {NoCmd} \cup Commands({t \in Tags : afu[t].st = "free"})
                           \cup Assignments({t \in Tags : afu[t].st = "free"}) :
          /\ cmdport' = m
          /\ amap' = IF m.op = "ASSIGN_ACTAG" THEN [amap EXCEPT ![m.actag] = m.pasid] ELSE amap
    BY <1>2 DEF Clock
  <2>2. m \in Command BY <1>2, <2>1, ClockWires DEF WireInv
  <2>3. m.tag # NoTag => m.actag \in ActagsFor[m.pasid]
    <3>1. CASE m = NoCmd BY <3>1 DEF NoCmd
    <3>2. CASE m \in Commands({t \in Tags : afu[t].st = "free"})
      <4>1. PICK a \in {x \in Actags : amap[x] # MaxClients} : m.actag = a /\ m.pasid = amap[a]
        BY <3>2 DEF Commands
      <4>. QED BY <4>1 DEF ActagsOK
    <3>3. CASE m \in Assignments({t \in Tags : afu[t].st = "free"})
      BY <3>3 DEF Assignments
    <3>. QED BY <2>1, <3>1, <3>2, <3>3
  <2>4. m.op = "ASSIGN_ACTAG" => m.tag # NoTag /\ m.actag \in Actags /\ m.pasid \in Ctx
    <3>1. m.tag = NoTag => m = NoCmd
      BY <2>1, ConstantsAssumption DEF Commands, Assignments, ConstantsAssumption
    <3>. QED BY <2>2, <3>1 DEF Command, NoCmd
  <2>5. \A a \in Actags : amap'[a] # MaxClients => a \in ActagsFor[amap'[a]]
    BY <1>1, <2>1, <2>3, <2>4 DEF ActagsOK
  <2>6. client' = client BY <1>2 DEF Clock
  <2>. QED BY <2>1, <2>3, <2>5, <2>6 DEF ActagsOK
<1>3. CASE handle_cmd
  <2>1. amap' = amap /\ cmdport' \in {cmdport, NoCmd} BY <1>3 DEF handle_cmd
  <2>2. cmdport'.tag # NoTag => cmdport'.actag \in ActagsFor[cmdport'.pasid]
    BY <2>1 DEF NoCmd, ActagsOK
  <2>3. ASSUME NEW c \in Ctx PROVE client'[c].actag = 0 \/ client'[c].actag \in ActagsFor[c]
    <3>1. CASE UNCHANGED client BY <3>1 DEF ActagsOK
    <3>2. CASE cmdport.tag # NoTag /\ _assign_actag(cmdport)
      <4>1. client' = [client EXCEPT ![cmdport.pasid].actag =
                         IF client[cmdport.pasid].st # "NULL" THEN cmdport.actag ELSE @]
        BY <3>2 DEF _assign_actag
      <4>2. cmdport.pasid \in Ctx /\ cmdport.actag \in ActagsFor[cmdport.pasid]
        BY <1>1, <3>2 DEF Command, ActagsOK
      <4>3. c # cmdport.pasid => client'[c] = client[c] BY <1>1, <4>1
      <4>4. c = cmdport.pasid => client'[c].actag \in {cmdport.actag, client[c].actag}
        BY <1>1, <4>1, <4>2 DEF Client
      <4>. QED BY <4>2, <4>3, <4>4 DEF ActagsOK
    <3>. QED BY <1>3, <3>1, <3>2 DEF handle_cmd, Ignored, Accepted, _add_cmd
  <2>. QED BY <2>1, <2>2, <2>3 DEF ActagsOK
<1>4. CASE ~Clock /\ ~handle_cmd
  <2>1. UNCHANGED <<amap, cmdport>>
    BY <1>4 DEF Next, Loop, vars, handle_response, handle_buffer_write,
       handle_xlate_intrp_pending_sent, handle_afu_tlx_cmd_data_read, handle_afu_tlx_write_cmd,
       handle_interrupt, handle_write_be_or_amo, EmptySlot, ReleaseSlot, _handle_client,
       client_cmd, Open, Die
  <2>2. \A c \in Ctx : client'[c].actag \in {client[c].actag, 0} BY <1>4, ClientActags
  <2>. QED BY <2>1, <2>2 DEF ActagsOK
<1>. QED BY <1>2, <1>3, <1>4

\* An event keeps its context for as long as it lives.
LEMMA ContextKept ==
  ASSUME IInv, AInv, [Next]_vars, ~handle_cmd, NEW t \in Tags, Live(t)'
  PROVE  Live(t) /\ ev'[t].ctx = ev[t].ctx
<1>1. ev \in [Tags -> Event] /\ ev' \in [Tags -> Event] /\ IInv'
  BY NextInvariant DEF IInv, TypeOK
<1>2. EventOK(ev[t]) /\ SplitOK(ev[t]) /\ ev[t] \in Event
  BY <1>1 DEF AInv, EventsOK, IInv, SplitDone
<1>3. CASE Clock BY <1>3 DEF Clock, Live
<1>4. CASE handle_response
  <2>1. ASSUME NEW i \in Present(First(IsReady)), NEW f,
               \/ f = NoEvent \/ f = Chunk(ev[list[i]]) \/ f = BackUp(Chunk(ev[list[i]]))
               \/ f = [Chunk(ev[list[i]]) EXCEPT !.st = "MEM_PENDING_SENT"],
               ev' = [ev EXCEPT ![list[i]] = f]
        PROVE  Live(t) /\ ev'[t].ctx = ev[t].ctx
    <3>1. list[i] \in Tags /\ Live(list[i]) BY ListedLive DEF Present, First
    <3>2. CASE t # list[i] BY <1>1, <2>1, <3>1, <3>2 DEF Live
    <3>3. CASE t = list[i]
      <4>1. Chunk(ev[t]) \in Event /\ Chunk(ev[t]).ctx = ev[t].ctx BY <1>2, ChunkParts
      <4>2. ev'[t] = f /\ f # NoEvent BY <1>1, <2>1, <3>1, <3>3 DEF Live, NoEvent
      <4>3. f.ctx = ev[t].ctx BY <2>1, <3>3, <4>1, <4>2 DEF BackUp, Event
      <4>. QED BY <3>1, <3>3, <4>2, <4>3
    <3>. QED BY <3>2, <3>3
  <2>. QED BY <1>4, <2>1 DEF handle_response, Responded, Update, Unlink, Live
<1>5. CASE handle_xlate_intrp_pending_sent
  <2>. DEFINE found == Present(IF Reorder THEN {j \in DOMAIN list : IsPendingSent(ev[list[j]])}
                                         ELSE First(IsPendingSent))
  <2>1. ASSUME NEW i \in found, NEW f, f = NoEvent \/ \E code : f = [ev[list[i]] EXCEPT !.resp = code],
               ev' = [ev EXCEPT ![list[i]] = f]
        PROVE  Live(t) /\ ev'[t].ctx = ev[t].ctx
    <3>1. list[i] \in Tags /\ Live(list[i]) BY ListedLive DEF Present, First
    <3>2. CASE t # list[i] BY <1>1, <2>1, <3>1, <3>2 DEF Live
    <3>3. CASE t = list[i]
      <4>1. ev'[t] = f /\ f # NoEvent BY <1>1, <2>1, <3>1, <3>3 DEF Live, NoEvent
      <4>2. f.ctx = ev[t].ctx BY <1>2, <2>1, <3>3, <4>1 DEF Event
      <4>. QED BY <3>1, <3>3, <4>1, <4>2
    <3>. QED BY <3>2, <3>3
  <2>. HIDE DEF found
  <2>2. \/ UNCHANGED ev
        \/ \E i \in found : \/ \E code : ev' = [ev EXCEPT ![list[i]] = [ev[list[i]] EXCEPT !.resp = code]]
                            \/ ev' = [ev EXCEPT ![list[i]] = NoEvent]
    BY <1>5, Zenon DEF handle_xlate_intrp_pending_sent, found, Update, Unlink
  <2>. QED BY <2>1, <2>2 DEF Live
<1>6. CASE Internal
  <2>1. CASE ev'[t] = ev[t] BY <2>1 DEF Live
  <2>2. CASE Advances(ev[t], ev'[t]) BY <2>2 DEF Advances, Waiting, SameShape, Live
  <2>3. CASE Terminates(ev[t], ev'[t])
    <3>1. ev'[t].ctx = ev[t].ctx BY <1>1, <1>2, <2>3, TerminatesOK
    <3>. QED BY <2>3, <3>1 DEF Terminates, Live
  <2>. QED BY <1>6, <2>1, <2>2, <2>3 DEF Internal
<1>. QED BY <1>3, <1>4, <1>5, <1>6, InternalSteps

\* The AFU remembers the context of a command as long as its event lives.
LEMMA PasidKept ==
  ASSUME IInv, AInv, [Next]_vars, NEW t \in Tags, Live(t)
  PROVE  afu'[t].pasid = afu[t].pasid
<1>1. CASE Clock
  <2>1. PICK m \in Command : Issues(m) BY <1>1, ClockIssues
  <2>2. CASE port.tag = t
    <3>1. afu'[t] = Receive(afu[t], port) BY <2>1, <2>2, ClockTags
    <3>. QED BY <2>2, <3>1, ReceiveContinues
  <2>3. CASE port.tag # t
    <3>1. m.tag # t
      BY <2>1, ClockTags, ConstantsAssumption DEF ConstantsAssumption
    <3>. QED BY <2>1, <2>3, <3>1, ClockTags
  <2>. QED BY <2>2, <2>3
<1>2. CASE ~Clock
  <2>1. afu' = afu
    BY <1>2 DEF Next, Loop, vars, handle_response, handle_buffer_write, handle_cmd,
       handle_xlate_intrp_pending_sent, handle_afu_tlx_cmd_data_read, handle_afu_tlx_write_cmd,
       handle_interrupt, handle_write_be_or_amo, EmptySlot, ReleaseSlot, _handle_client,
       client_cmd, Open, Die
  <2>. QED BY <2>1
<1>. QED BY <1>1, <1>2

\* Every step keeps the contexts.
LEMMA NextRouted ==
  ASSUME OwnActagsOnly, IInv, AInv, ActagsOK, RoutedToAssigned, [Next]_vars
  PROVE  RoutedToAssigned'
<1>. SUFFICES ASSUME NEW t \in Tags, Live(t)' PROVE ev'[t].ctx = afu'[t].pasid
  BY DEF RoutedToAssigned
<1>1. CASE Live(t) /\ ev'[t].ctx = ev[t].ctx BY <1>1, PasidKept DEF RoutedToAssigned
<1>2. CASE handle_cmd /\ ~(Live(t) /\ ev'[t].ctx = ev[t].ctx)
  <2>. DEFINE m == cmdport
  <2>1. m.tag # NoTag /\ Accepted(m) /\ afu' = afu
    BY <1>2 DEF handle_cmd, _assign_actag, Ignored, Live
  <2>2. PICK c \in _find_client_by_actag(m.actag),
             ropc \in IF m.ok THEN {RespOpcode(m.op)} ELSE BadOpcodes(m.op) :
               _add_cmd(m, NewEvent(c, m, ropc))
    BY <2>1 DEF Accepted
  <2>3. c \in Ctx /\ client[c].gen \in Nat /\ m \in Command /\ client[c].actag = m.actag
    BY DEF _find_client_by_actag, IInv, TypeOK, Client
  <2>4. ropc \in OpcodesOf(m) BY DEF OpcodesOf
  <2>5. NewOK(NewEvent(c, m, ropc), c, m) /\ NewOK(FirstBeat(m.tag, NewEvent(c, m, ropc)), c, m)
    BY <2>3, <2>4, NewEventOK
  <2>6. PICK f : f.ctx = c /\ ev' = [ev EXCEPT ![m.tag] = f]
    BY <2>2, <2>5 DEF _add_cmd, NewOK
  <2>7. t = m.tag /\ ev'[t].ctx = c
    <3>1. ev \in [Tags -> Event] BY DEF IInv, TypeOK
    <3>2. t # m.tag => ev'[t] = ev[t] BY <2>6, <3>1
    <3>3. t = m.tag BY <1>2, <3>2 DEF Live
    <3>. QED BY <2>6, <3>1, <3>3
  <2>8. afu[t].pasid = m.pasid BY <2>1, <2>7 DEF Accepted, AInv, CmdOK, Fresh
  <2>9. m.actag \in ActagsFor[m.pasid] /\ m.pasid \in Ctx BY <2>1, <2>3 DEF ActagsOK, Command
  <2>10. m.actag \in ActagsFor[c] BY <2>3, <2>9 DEF ActagsOK, OwnActagsOnly
  <2>11. c = m.pasid BY <2>3, <2>9, <2>10 DEF OwnActagsOnly
  <2>. QED BY <2>1, <2>7, <2>8, <2>11
<1>. QED BY <1>1, <1>2, ContextKept

\* A command is carried out for the context its actag was assigned to, however
\* clients open, detach, die and open again, provided that the AFU assigns an
\* actag to one context only and does not assign 0.
THEOREM RoutedCorrect ==
  ASSUME OwnActagsOnly
  PROVE  Spec => []RoutedToAssigned
<1>. DEFINE R == IInv /\ AInv /\ ActagsOK /\ RoutedToAssigned
<1>1. Init => R
  <2>1. Init => ActagsOK BY DEF Init, ActagsOK, NoCmd, NoClient
  <2>2. Init => RoutedToAssigned BY DEF Init, RoutedToAssigned, Live, NoEvent
  <2>. QED BY <2>1, <2>2, InitInvariant, InitAnswers
<1>2. R /\ [Next]_vars => R' BY NextInvariant, NextAnswers, NextActags, NextRouted
<1>3. R => RoutedToAssigned OBVIOUS
<1>. QED BY <1>1, <1>2, <1>3, PTL DEF Spec

-----------------------------------------------------------------------------
(***************************************************************************)
(* The steps that answer the AFU, one by one.                              *)
(***************************************************************************)
\* The response of event e, which is the event with the fields of its next part.
Answer(t, e) ==
  /\ port' = [tag |-> t, ropc |-> e.ropc, code |-> IF ReturnsData(e) THEN "ok" ELSE e.resp,
              dl |-> e.dl, dp |-> e.dp, ret |-> ReturnsData(e) /\ e.ret]
  /\ port.tag = NoTag

BacksUp(t) == port' = port /\ ev'[t] = BackUp(Chunk(ev[t]))

Defers(t) == /\ IsPending(ev[t]) /\ Answer(t, ev[t])
             /\ ev'[t] = [ev[t] EXCEPT !.st = "MEM_PENDING_SENT"]

Splits(t) == /\ ~IsPending(ev[t]) /\ IsSplit(ev[t]) /\ Answer(t, Chunk(ev[t]))
             /\ ev'[t] = Chunk(ev[t]) /\ Chunk(ev[t]).sent # ev[t].n

Ends(t) == /\ ~IsPending(ev[t]) /\ Answer(t, Chunk(ev[t])) /\ ev'[t] = NoEvent
           /\ IsSplit(ev[t]) => Chunk(ev[t]).sent = ev[t].n

\* handle_response does one of these.
LEMMA ResponseSteps ==
  ASSUME IInv, AInv, handle_response
  PROVE  \/ UNCHANGED <<ev, port>>
         \/ \E t \in Tags : /\ Live(t) /\ IsReady(ev[t]) /\ OthersSame(t)
                            /\ BacksUp(t) \/ Defers(t) \/ Splits(t) \/ Ends(t)
<1>1. ASSUME NEW i \in Present(First(IsReady)), NEW t \in Tags, t = list[i],
             LET e == Chunk(ev[list[i]]) IN
               \/ Update(list[i], BackUp(e)) /\ port' = port
               \/ /\ CanSend
                  /\ Send(list[i], e.ropc, IF ReturnsData(e) THEN "ok" ELSE e.resp,
                          e.dl, e.dp, ReturnsData(e) /\ e.ret)
                  /\ Responded(i, e)
      PROVE  /\ Live(t) /\ IsReady(ev[t]) /\ OthersSame(t)
             /\ BacksUp(t) \/ Defers(t) \/ Splits(t) \/ Ends(t)
  <2>. DEFINE e == ev[t]
              f == Chunk(ev[t])
  <2>1. i \in DOMAIN list /\ IsReady(e) BY <1>1 DEF Present, First
  <2>2. Live(t) /\ e \in Event /\ ev \in [Tags -> Event] BY <1>1, <2>1, ListedLive DEF IInv, TypeOK
  <2>3. EventOK(e) /\ SplitOK(e) BY DEF AInv, EventsOK, IInv, SplitDone
  <2>4. /\ f \in Event /\ f.st = e.st /\ f.type = e.type /\ f.n = e.n
        /\ ~IsSplit(e) => f = e /\ e.sent = 0
        /\ IsSplit(e) => f.sent > 0
    BY <2>2, <2>3, ChunkParts
  <2>5. IsPending(f) <=> IsPending(e) BY <2>4 DEF IsPending
  <2>6. IsPending(e) => f = e BY <2>3, <2>4 DEF EventOK, IsSplit
  <2>7. f.sent \in Nat BY <2>4 DEF Event
  <2>8. CASE Update(t, BackUp(f)) /\ port' = port
    BY <2>1, <2>2, <2>8 DEF Update, OthersSame, BacksUp
  <2>9. CASE CanSend /\ Responded(i, f)
             /\ Send(t, f.ropc, IF ReturnsData(f) THEN "ok" ELSE f.resp, f.dl, f.dp,
                     ReturnsData(f) /\ f.ret)
    <3>1. Answer(t, f) BY <2>9 DEF Answer, Send, CanSend
    <3>. HIDE DEF f
    <3>2. CASE IsPending(f) /\ Update(t, [f EXCEPT !.st = "MEM_PENDING_SENT"])
      <4>1. f = e /\ IsPending(e) BY <2>5, <2>6, <3>2
      <4>2. ev'[t] = [f EXCEPT !.st = "MEM_PENDING_SENT"] /\ OthersSame(t)
        BY <2>2, <3>2 DEF Update, OthersSame
      <4>. QED BY <2>1, <2>2, <3>1, <4>1, <4>2 DEF Defers
    <3>3. CASE ~IsPending(f) /\ f.sent > 0 /\ f.sent # f.n /\ Update(t, f)
      <4>1. ev'[t] = f /\ OthersSame(t) BY <2>2, <3>3 DEF Update, OthersSame
      <4>2. IsSplit(e) /\ ~IsPending(e) BY <2>4, <2>5, <3>3
      <4>. QED BY <2>1, <2>2, <2>4, <3>1, <3>3, <4>1, <4>2 DEF Splits, f
    <3>4. CASE ~IsPending(f) /\ (f.sent = 0 \/ f.sent = f.n) /\ Unlink(i)
      <4>1. ev'[t] = NoEvent /\ OthersSame(t) BY <1>1, <2>2, <3>4 DEF Unlink, OthersSame
      <4>2. ~IsPending(e) /\ (IsSplit(e) => f.sent = e.n) BY <2>4, <2>5, <2>7, <3>4
      <4>. QED BY <2>1, <2>2, <3>1, <4>1, <4>2 DEF Ends, f
    <3>. QED BY <1>1, <2>9, <3>2, <3>3, <3>4 DEF Responded
  <2>. QED BY <1>1, <2>8, <2>9
<1>2. \A i \in Present(First(IsReady)) : list[i] \in Tags BY ListedLive DEF Present, First
<1>. QED BY <1>1, <1>2 DEF handle_response

\* handle_xlate_intrp_pending_sent notes a code, or posts the command and ends
\* the event.
Notes(t) == port' = port /\ \E code \in {"ok", "retry", "dropped"} : ev'[t] = [ev[t] EXCEPT !.resp = code]

Posts(t) == /\ port.tag = NoTag /\ port'.tag = t /\ port'.ropc \in PostedOpcodes
            /\ ev'[t] = NoEvent

\* handle_xlate_intrp_pending_sent touches one event, whose outcome it notes or
\* whose XLATE_DONE it posts.
LEMMA PendingSentSteps ==
  ASSUME IInv, handle_xlate_intrp_pending_sent
  PROVE  \/ UNCHANGED <<ev, port>>
         \/ \E t \in Tags : /\ Live(t) /\ IsPendingSent(ev[t]) /\ OthersSame(t)
                            /\ Notes(t) \/ Posts(t)
<1>. DEFINE found == Present(IF Reorder THEN {j \in DOMAIN list : IsPendingSent(ev[list[j]])}
                                       ELSE First(IsPendingSent))
<1>1. ev \in [Tags -> Event] BY DEF IInv, TypeOK
<1>2. ASSUME NEW i \in found PROVE IsPendingSent(ev[list[i]]) /\ list[i] \in Tags /\ Live(list[i])
  <2>1. i \in DOMAIN list /\ IsPendingSent(ev[list[i]]) BY DEF Present, First
  <2>. QED BY <2>1, ListedLive
<1>. HIDE DEF found
<1>3. ASSUME NEW i \in found, NEW t, t = list[i], NEW code \in {"ok", "retry", "dropped"},
             Update(t, [ev[t] EXCEPT !.resp = code]), port' = port
      PROVE  t \in Tags /\ Live(t) /\ IsPendingSent(ev[t]) /\ OthersSame(t) /\ Notes(t)
  BY <1>1, <1>2, <1>3 DEF Update, OthersSame, Notes
<1>4. ASSUME NEW i \in found, NEW t, t = list[i], CanSend, Unlink(i), port'.tag = t,
             port'.ropc \in PostedOpcodes
      PROVE  t \in Tags /\ Live(t) /\ IsPendingSent(ev[t]) /\ OthersSame(t) /\ Posts(t)
  BY <1>1, <1>2, <1>4 DEF Unlink, OthersSame, Posts, CanSend
<1>7. {"ok"} \cup (Faults \cap {"retry"}) \subseteq {"ok", "retry", "dropped"} OBVIOUS
<1>8. ASSUME ~UNCHANGED <<ev, port>>
      PROVE  \E i \in found :
               \/ Update(list[i], [ev[list[i]] EXCEPT !.resp = "dropped"]) /\ port' = port
               \/ \E code \in {"ok"} \cup (Faults \cap {"retry"}) :
                    \/ Update(list[i], [ev[list[i]] EXCEPT !.resp = code]) /\ port' = port
                    \/ /\ CanSend /\ Unlink(i)
                       /\ Send(list[i], IF ev[list[i]].op \in IntOps THEN "INTRP_RDY" ELSE "XLATE_DONE",
                               code, 0, 0, FALSE)
  BY <1>8, Zenon DEF handle_xlate_intrp_pending_sent, found
<1>9. ASSUME NEW t, NEW code,
             Send(t, IF ev[t].op \in IntOps THEN "INTRP_RDY" ELSE "XLATE_DONE", code, 0, 0, FALSE)
      PROVE  port'.tag = t /\ port'.ropc \in PostedOpcodes
  BY <1>9 DEF Send, PostedOpcodes
<1>. QED BY <1>3, <1>4, <1>7, <1>8, <1>9

\* handle_cmd accepts one command, or changes no event.
Accepts(t) ==
  /\ t = cmdport.tag /\ ~Live(t) /\ OthersSame(t) /\ cmdport' = NoCmd
  /\ afu[t] = Fresh(cmdport) /\ port.tag # t
  /\ \E c \in Ctx : NewOK(ev'[t], c, cmdport)

\* handle_cmd answers nothing; at most it makes the event of the command it takes.
LEMMA CmdSteps ==
  ASSUME IInv, AInv, handle_cmd
  PROVE  /\ UNCHANGED <<port, afu>>
         /\ UNCHANGED <<ev>> \/ \E t \in Tags : Accepts(t) /\ UNCHANGED client
<1>1. UNCHANGED <<port, afu>> BY DEF handle_cmd
<1>2. CASE UNCHANGED ev BY <1>1, <1>2
<1>3. CASE cmdport.tag # NoTag /\ cmdport' = NoCmd /\ Accepted(cmdport)
  <2>. DEFINE m == cmdport
  <2>1. PICK c \in _find_client_by_actag(m.actag),
             ropc \in IF m.ok THEN {RespOpcode(m.op)} ELSE BadOpcodes(m.op) :
               _add_cmd(m, NewEvent(c, m, ropc))
    BY <1>3 DEF Accepted
  <2>2. c \in Ctx /\ client[c].gen \in Nat /\ m \in Command /\ ev \in [Tags -> Event]
    BY DEF _find_client_by_actag, IInv, TypeOK, Client
  <2>3. m.tag \in Tags /\ afu[m.tag] = Fresh(m) /\ port.tag # m.tag /\ ~Live(m.tag)
    BY <1>3, <2>2 DEF Accepted, AInv, CmdOK, Command
  <2>4. ropc \in OpcodesOf(m) BY DEF OpcodesOf
  <2>5. NewOK(NewEvent(c, m, ropc), c, m) /\ NewOK(FirstBeat(m.tag, NewEvent(c, m, ropc)), c, m)
    BY <2>2, <2>4, NewEventOK
  <2>6. PICK f : NewOK(f, c, m) /\ ev' = [ev EXCEPT ![m.tag] = f] BY <2>1, <2>5 DEF _add_cmd
  <2>7. ev'[m.tag] = f /\ OthersSame(m.tag) BY <2>2, <2>3, <2>6 DEF OthersSame
  <2>8. client' = client BY <2>1 DEF _add_cmd
  <2>9. Accepts(m.tag) BY <1>3, <2>2, <2>3, <2>6, <2>7 DEF Accepts
  <2>. QED BY <1>1, <2>3, <2>8, <2>9
<1>. QED BY <1>2, <1>3 DEF handle_cmd, _assign_actag, Ignored

-----------------------------------------------------------------------------
(***************************************************************************)
(* The parts of a split response, for HOST_CL_SIZE of 128 or 256: with 64  *)
(* a part that is backed up has the wrong offset when it is sent.          *)
(***************************************************************************)
\* The offset of the next part is where the parts the AFU has end.
PartOK(t) ==
  /\ ev[t].sent = 0 => ev[t].dp = 0
  /\ afu[t].got = IF ev[t].sent = 0 \/ port.tag = t THEN {} ELSE 0 .. 1
  /\ port.tag = t /\ port.code # "pending" => port.dp = 0

PartsOK == \A t \in Tags : Live(t) => PartOK(t)

\* Two parts of two flits, or one.
LEMMA TwoParts ==
  ASSUME HostCL # 1, IInv, AInv, NEW t \in Tags
  PROVE  ev[t].sent # 0 \/ IsSplit(ev[t]) => HostCL = 2 /\ ev[t].n = 4 /\ ev[t].sent \in {0, 2}
<1>1. EventOK(ev[t]) /\ SplitOK(ev[t]) /\ ev[t] \in Event /\ HostCL \in {2, 4}
  BY ConstantsAssumption
  DEF AInv, EventsOK, IInv, SplitDone, TypeOK, ConstantsAssumption
<1>. QED BY <1>1 DEF EventOK, SplitOK, IsSplit, Event

\* A clock takes the part on the port.
LEMMA ClockParts == ASSUME HostCL # 1, IInv, AInv, PartsOK, Clock PROVE PartsOK' /\ PartsExact'
<1>1. PICK m \in Command : Issues(m) BY ClockIssues
<1>2. ev' = ev /\ port'.tag = NoTag BY DEF Clock, NoResp
<1>3. ASSUME NEW t \in Tags, Live(t) PROVE PartOK(t)'
  <2>1. PartOK(t) /\ t # NoTag /\ m.tag # t /\ afu[t] \in AfuTag /\ TagOK(t) /\ ev[t] \in Event
    BY <1>1, <1>3, ClockTags, ConstantsAssumption
    DEF PartsOK, ConstantsAssumption, IInv, TypeOK, AInv, TagsOK
  <2>2. afu'[t].got = IF ev[t].sent = 0 THEN {} ELSE 0 .. 1
    <3>1. CASE port.tag # t
      <4>1. afu'[t] = afu[t] BY <1>1, <2>1, <3>1, ClockTags
      <4>. QED BY <2>1, <3>1, <4>1 DEF PartOK
    <3>2. CASE port.tag = t /\ port.code = "pending"
      <4>1. afu'[t] = Receive(afu[t], port) BY <1>1, <3>2, ClockTags
      <4>2. afu'[t] = [afu[t] EXCEPT !.st = "pend"] BY <1>3, <3>2, <4>1, ReceiveContinues
      <4>3. ev[t].sent = 0 BY <2>1, <3>2 DEF TagOK, Continues
      <4>. QED BY <2>1, <4>2, <4>3 DEF PartOK, AfuTag
    <3>3. CASE port.tag = t /\ port.code # "pending"
      <4>1. afu'[t] = Receive(afu[t], port) BY <1>1, <3>3, ClockTags
      <4>. DEFINE got == afu[t].got \cup (port.dp .. (port.dp + port.dl - 1))
      <4>2. afu'[t] = [afu[t] EXCEPT !.got = got, !.cnt = @ + port.dl]
        BY <1>3, <3>3, <4>1, ReceiveContinues
      <4>3. afu'[t].got = got BY <2>1, <4>2 DEF AfuTag
      <4>4. port.dl = HostCL /\ afu[t].cnt + HostCL = ev[t].sent
        BY <2>1, <3>3 DEF TagOK, Continues
      <4>5. ev[t].sent # 0
        BY <2>1, <4>4, ConstantsAssumption DEF ConstantsAssumption, AfuTag
      <4>6. HostCL = 2 BY <1>3, <4>5, TwoParts
      <4>7. afu[t].got = {} /\ port.dp = 0 BY <2>1, <3>3 DEF PartOK
      <4>8. got = 0 .. 1
        <5>1. port.dp + port.dl - 1 = 1 BY <4>4, <4>6, <4>7
        <5>. QED BY <4>7, <5>1
      <4>. QED BY <4>3, <4>5, <4>8
    <3>. QED BY <3>1, <3>2, <3>3
  <2>. QED BY <1>2, <2>1, <2>2 DEF PartOK
<1>4. PartsOK' BY <1>2, <1>3 DEF PartsOK, Live
<1>5. PartsExact' BY <1>2 DEF PartsExact
<1>. QED BY <1>4, <1>5

\* handle_response sends the part that follows.
LEMMA ResponseParts ==
  ASSUME HostCL # 1, IInv, AInv, PartsOK, PartsExact, handle_response
  PROVE  PartsOK' /\ PartsExact'
<1>1. afu' = afu BY DEF handle_response
<1>2. CASE UNCHANGED <<ev, port>>
  BY <1>1, <1>2 DEF PartsOK, PartOK, Live, PartsExact
<1>3. ASSUME NEW t \in Tags, Live(t), IsReady(ev[t]), OthersSame(t),
             BacksUp(t) \/ Defers(t) \/ Splits(t) \/ Ends(t)
      PROVE  PartsOK' /\ PartsExact'
  <2>. DEFINE e == ev[t]
              f == Chunk(ev[t])
  <2>1. /\ PartOK(t) /\ TagOK(t) /\ EventOK(e) /\ SplitOK(e) /\ e \in Event /\ t # NoTag
        /\ afu[t] \in AfuTag /\ HostCL \in {2, 4}
    BY <1>3, ConstantsAssumption
    DEF PartsOK, AInv, TagsOK, EventsOK, IInv, SplitDone, TypeOK, ConstantsAssumption
  <2>2. port' = port \/ (port.tag = NoTag /\ port'.tag = t)
    BY <1>3 DEF BacksUp, Defers, Splits, Ends, Answer
  <2>3. ASSUME NEW u \in Tags, u # t, Live(u)' PROVE PartOK(u)'
    <3>1. Live(u) /\ PartOK(u) /\ ev'[u] = ev[u] BY <1>3, <2>3 DEF OthersSame, Live, PartsOK
    <3>2. (port'.tag = u <=> port.tag = u) /\ (port.tag = u => port' = port)
      BY <2>2, <2>3, ConstantsAssumption DEF ConstantsAssumption
    <3>. QED BY <1>1, <3>1, <3>2 DEF PartOK
  <2>4. ASSUME Live(t)' => PartOK(t)' PROVE PartsOK' BY <2>3, <2>4 DEF PartsOK
  <2>5. /\ f \in Event /\ f.n = e.n /\ f.ropc = e.ropc /\ f.resp = e.resp
        /\ ~IsSplit(e) => f = e /\ e.sent = 0
        /\ IsSplit(e) => f.sent = e.sent + HostCL /\ f.dl = HostCL /\ f.sent > 0
        /\ IsSplit(e) => f.dp = IF e.sent = 0 THEN e.dp ELSE 2
        /\ IsSplit(e) => HostCL = 2 /\ e.n = 4 /\ e.sent \in {0, 2}
    BY <2>1, ChunkParts, TwoParts
  <2>6. IsSplit(e) => f.dp = e.sent BY <2>1, <2>5 DEF PartOK
  <2>. HIDE DEF f
  <2>7. CASE BacksUp(t)
    <3>1. PartsExact' BY <1>1, <2>7 DEF BacksUp, PartsExact
    <3>2. ev'[t] = [f EXCEPT !.sent = e.sent]
      <4>1. CASE IsSplit(e)
        <5>1. f.sent # 0 /\ f.sent - HostCL = e.sent BY <2>1, <2>5, <4>1
        <5>. QED BY <2>7, <5>1 DEF BacksUp, BackUp, f
      <4>2. CASE ~IsSplit(e) BY <2>5, <2>7, <4>2 DEF BacksUp, BackUp, f
      <4>. QED BY <4>1, <4>2
    <3>3. ev'[t].sent = e.sent /\ ev'[t].dp = f.dp BY <2>1, <2>5, <3>2 DEF Event
    <3>4. e.sent = 0 => f.dp = 0 BY <2>1, <2>5, <2>6 DEF PartOK
    <3>5. PartOK(t)' BY <1>1, <2>1, <2>7, <3>3, <3>4 DEF PartOK, BacksUp
    <3>. QED BY <2>4, <3>1, <3>5
  <2>8. CASE Defers(t)
    <3>1. port.tag = NoTag /\ port'.tag = t /\ port'.ropc = e.ropc
      BY <2>8 DEF Defers, Answer
    <3>2. e.ropc \notin DataOpcodes /\ e.type = "CMD_FAILED" /\ e.resp = "pending"
      BY <2>1, <2>8 DEF Defers, EventOK
    <3>3. PartsExact' BY <3>1, <3>2 DEF PartsExact, DataOpcodes
    <3>4. e.sent = 0 BY <2>5, <3>2 DEF IsSplit
    <3>5. port'.code = "pending" BY <2>8, <3>2 DEF Defers, Answer, ReturnsData
    <3>6. ev'[t].sent = e.sent /\ ev'[t].dp = e.dp BY <2>1, <2>8 DEF Defers, Event
    <3>7. PartOK(t)' BY <1>1, <2>1, <3>1, <3>4, <3>5, <3>6 DEF PartOK
    <3>. QED BY <2>4, <3>3, <3>7
  <2>9. CASE Splits(t) \/ Ends(t)
    <3>1. /\ port.tag = NoTag /\ port'.tag = t /\ port'.ropc = e.ropc /\ port'.dl = f.dl
          /\ port'.dp = f.dp
      BY <2>5, <2>9 DEF Splits, Ends, Answer, f
    <3>2. /\ afu[t].cnt = e.sent /\ (e.ropc \in DataOpcodes => e.n = afu[t].n)
          /\ afu[t].got = IF e.sent = 0 THEN {} ELSE 0 .. 1
      BY <2>1, <3>1 DEF TagOK, PartOK
    <3>3. PartsExact'
      <4>. SUFFICES ASSUME e.ropc \in DataOpcodes
                    PROVE  LET part == f.dp .. (f.dp + f.dl - 1) IN
                           /\ part \cap afu[t].got = {} /\ part \subseteq 0 .. (afu[t].n - 1)
                           /\ afu[t].cnt + f.dl <= afu[t].n
        BY <1>1, <3>1 DEF PartsExact, DataOpcodes
      <4>1. CASE ~IsSplit(e)
        <5>1. f = e /\ e.sent = 0 /\ e.dl = e.n /\ e.dp = 0 BY <2>1, <2>5, <4>1 DEF EventOK
        <5>2. e.n \in {1, 2, 4} /\ e.n = afu[t].n /\ afu[t].got = {} /\ afu[t].cnt = 0
          BY <2>1, <3>2, <5>1 DEF Event
        <5>. QED BY <5>1, <5>2
      <4>2. CASE IsSplit(e)
        <5>1. afu[t].n = 4 /\ f.dl = 2 /\ f.dp = e.sent /\ e.sent \in {0, 2} /\ afu[t].cnt = e.sent
          BY <2>5, <2>6, <3>2, <4>2
        <5>2. CASE e.sent = 0
          <6>1. afu[t].got = {} BY <3>2, <5>2
          <6>. QED BY <5>1, <5>2, <6>1
        <5>3. CASE e.sent = 2
          <6>1. afu[t].got = 0 .. 1 BY <3>2, <5>3
          <6>2. f.dp + f.dl - 1 = 3 /\ f.dp = 2 /\ afu[t].n - 1 = 3 BY <5>1, <5>3
          <6>. QED BY <5>1, <5>3, <6>1, <6>2
        <5>. QED BY <5>1, <5>2, <5>3
      <4>. QED BY <4>1, <4>2
    <3>4. Live(t)' => PartOK(t)'
      <4>1. CASE Ends(t) BY <4>1 DEF Ends, Live, NoEvent
      <4>2. CASE Splits(t)
        <5>1. ev'[t] = f /\ IsSplit(e) /\ f.sent # e.n BY <4>2 DEF Splits, f
        <5>2. e.sent = 0 /\ f.sent = 2 BY <2>5, <5>1
        <5>3. f.dp = 0 /\ afu[t].got = {} BY <2>6, <3>2, <5>1, <5>2
        <5>. QED BY <1>1, <3>1, <5>1, <5>2, <5>3 DEF PartOK
      <4>. QED BY <2>9, <4>1, <4>2
    <3>. QED BY <2>4, <3>3, <3>4
  <2>. QED BY <1>3, <2>7, <2>8, <2>9
<1>. QED BY <1>2, <1>3, ResponseSteps

\* Every step keeps the parts in order.
LEMMA NextParts ==
  ASSUME HostCL # 1, IInv, AInv, PartsOK, PartsExact, [Next]_vars
  PROVE  PartsOK' /\ PartsExact'
<1>1. CASE Clock BY <1>1, ClockParts
<1>2. CASE handle_response BY <1>2, ResponseParts
<1>3. CASE handle_xlate_intrp_pending_sent
  <2>1. afu' = afu BY <1>3 DEF handle_xlate_intrp_pending_sent
  <2>2. CASE UNCHANGED <<ev, port>> BY <2>1, <2>2 DEF PartsOK, PartOK, Live, PartsExact
  <2>3. ASSUME NEW t \in Tags, Live(t), OthersSame(t), Notes(t) \/ Posts(t)
        PROVE  PartsOK' /\ PartsExact'
    <3>1. port' = port \/ (port.tag = NoTag /\ port'.tag = t /\ port'.ropc \in PostedOpcodes)
      BY <2>3 DEF Notes, Posts
    <3>2. PartsExact' BY <2>1, <3>1 DEF PartsExact, PostedOpcodes
    <3>3. ASSUME NEW u \in Tags, u # t, Live(u)' PROVE PartOK(u)'
      <4>1. Live(u) /\ PartOK(u) /\ ev'[u] = ev[u] BY <2>3, <3>3 DEF OthersSame, Live, PartsOK
      <4>2. (port'.tag = u <=> port.tag = u) /\ (port.tag = u => port' = port)
        BY <3>1, <3>3, ConstantsAssumption DEF ConstantsAssumption
      <4>. QED BY <2>1, <4>1, <4>2 DEF PartOK
    <3>4. Live(t)' => PartOK(t)'
      <4>1. CASE Posts(t) BY <4>1 DEF Posts, Live, NoEvent
      <4>2. CASE Notes(t)
        <5>1. ev[t] \in Event /\ PartOK(t) BY <2>3 DEF IInv, TypeOK, PartsOK
        <5>2. ev'[t].sent = ev[t].sent /\ ev'[t].dp = ev[t].dp /\ port' = port
          BY <4>2, <5>1 DEF Notes, Event
        <5>. QED BY <2>1, <5>1, <5>2 DEF PartOK
      <4>. QED BY <2>3, <4>1, <4>2
    <3>. QED BY <3>2, <3>3, <3>4 DEF PartsOK
  <2>. QED BY <1>3, <2>2, <2>3, PendingSentSteps
<1>4. CASE handle_cmd
  <2>1. UNCHANGED <<port, afu>> BY <1>4, CmdSteps
  <2>2. PartsExact' BY <2>1 DEF PartsExact
  <2>3. CASE UNCHANGED ev BY <2>1, <2>2, <2>3 DEF PartsOK, PartOK, Live
  <2>4. ASSUME NEW t \in Tags, Accepts(t) PROVE PartsOK'
    <3>1. ASSUME NEW u \in Tags, u # t, Live(u)' PROVE PartOK(u)'
      BY <2>1, <2>4, <3>1 DEF Accepts, OthersSame, Live, PartsOK, PartOK
    <3>2. ev'[t].sent = 0 /\ ev'[t].dp = 0 /\ afu[t].got = {} /\ port.tag # t
      BY <2>4 DEF Accepts, NewOK, Fresh
    <3>3. PartOK(t)' BY <2>1, <3>2 DEF PartOK
    <3>. QED BY <3>1, <3>3 DEF PartsOK
  <2>. QED BY <1>4, <2>2, <2>3, <2>4, CmdSteps
<1>5. CASE Internal
  <2>1. UNCHANGED <<port, afu>> BY <1>5 DEF Internal
  <2>2. PartsExact' BY <2>1 DEF PartsExact
  <2>3. ASSUME NEW t \in Tags, Live(t)' PROVE PartOK(t)'
    <3>1. Live(t) /\ ev'[t].sent = ev[t].sent /\ ev'[t].dp = ev[t].dp
      <4>1. ev[t] \in Event BY DEF IInv, TypeOK
      <4>2. CASE ev'[t] = ev[t] BY <2>3, <4>2 DEF Live
      <4>3. CASE Advances(ev[t], ev'[t]) BY <4>3 DEF Advances, SameShape, Waiting, Live
      <4>4. CASE Terminates(ev[t], ev'[t]) BY <4>1, <4>4 DEF Terminates, Terminate, Live, Event
      <4>. QED BY <1>5, <4>2, <4>3, <4>4 DEF Internal
    <3>. QED BY <2>1, <3>1 DEF PartsOK, PartOK
  <2>. QED BY <2>2, <2>3 DEF PartsOK
<1>. QED BY <1>1, <1>2, <1>3, <1>4, <1>5, InternalSteps

\* The parts of a response never overlap, lie within the command and do not
\* exceed it, whatever credits, faults and departures do, unless HOST_CL_SIZE
\* is 64.
THEOREM PartsCorrect ==
  ASSUME HostCL # 1
  PROVE  Spec => []PartsExact
<1>. DEFINE P == IInv /\ AInv /\ PartsOK /\ PartsExact
<1>1. Init => P
  <2>1. Init => PartsOK /\ PartsExact BY DEF Init, PartsOK, PartsExact, Live, NoEvent, NoResp
  <2>. QED BY <2>1, InitInvariant, InitAnswers
<1>2. P /\ [Next]_vars => P' BY NextInvariant, NextAnswers, NextParts
<1>3. P => PartsExact OBVIOUS
<1>. QED BY <1>1, <1>2, <1>3, PTL DEF Spec

-----------------------------------------------------------------------------
(***************************************************************************)
(* The data of writes.  An AFU that does not mix the beats of a command    *)
(* with those of another (Overlap is FALSE) owes beats to at most one      *)
(* event, the one that gathers them, in order; the beats owed to no event  *)
(* are those of a command that was refused or whose client has gone.       *)
(***************************************************************************)
GatherTypes == {"CMD_WRITE", "CMD_WR_BE", "CMD_AMO_RD", "CMD_AMO_RW", "CMD_AMO_WR"}

\* The event has all of its data.
Filled(e) == e.type \in GatherTypes /\ e.st \in {"MEM_RECEIVED", "DMA_MEM_RESP"}

\* The beats still to come are those of tag t from place k on, the first of
\* them on the bus or not.
Rest(t, k, n) ==
  \/ /\ cdata = NoBeat /\ Len(dq) = n - k
     /\ \A j \in 1 .. n - k : dq[j] = <<t, k + j - 1>>
  \/ /\ cdata = <<t, k>> /\ Len(dq) = n - k - 1
     /\ \A j \in 1 .. n - k - 1 : dq[j] = <<t, k + j>>

\* From handle_afu_tlx_cmd_data_read to the clock, and from there to handle_cmd.
Late == {"write_cmd", "interrupt", "be_amo", "client", "client_cmd", "clock"}
Early == {"response", "buffer_write", "pending_sent", "cmd"}

AllGood == \A t \in Tags : ev[t].good

\* An event that gathers data gets the rest of it next, and no beat passes it by.
GatherOK ==
  \A t \in Tags : IsGathering(ev[t]) =>
    /\ ev[t].dpart \in 1 .. ev[t].n - 1 /\ Rest(t, ev[t].dpart, ev[t].n)
    /\ pc \in Late => cdata = NoBeat

\* A command that takes the beat on the bus off it finds nobody gathering, and
\* its own first beat, if it has data.
PortData ==
  pc \in Early /\ cmdport.tag # NoTag /\ ~PutsBack(cmdport) =>
    /\ \A t \in Tags : ~IsGathering(ev[t])
    /\ cmdport.op \in DataOps => cdata = <<cmdport.tag, 0>> /\ Rest(cmdport.tag, 0, cmdport.n)
    /\ cmdport.op \notin DataOps => cdata = NoBeat

FilledOK == \A t \in Tags : Filled(ev[t]) => ~Owed(t)

DInv == AllGood /\ GatherOK /\ PortData /\ FilledOK

\* An event that is left alone, as far as its data goes.
Keeps(e, f) ==
  /\ e.good => f.good
  /\ IsGathering(f) => f = e
  /\ Filled(f) => Filled(e)

\* A step that moves no data.
KeepsData ==
  /\ \A t \in Tags : Keeps(ev[t], ev'[t])
  /\ UNCHANGED <<cdata, dq, cmdport>>
  /\ (pc' \in Late => pc \in Late) /\ (pc' \in Early => pc \in Early)

\* Such a step keeps the invariant.
LEMMA KeepsDataOK == ASSUME DInv, KeepsData PROVE DInv'
<1>1. \A t \in Tags : Keeps(ev[t], ev'[t]) BY DEF KeepsData
<1>2. cdata' = cdata /\ dq' = dq /\ cmdport' = cmdport BY DEF KeepsData
<1>3. AllGood' BY <1>1 DEF DInv, AllGood, Keeps
<1>4. \A t \in Tags : IsGathering(ev'[t]) => IsGathering(ev[t]) /\ ev'[t] = ev[t]
  BY <1>1 DEF Keeps
<1>5. GatherOK'
  <2>. SUFFICES ASSUME NEW t \in Tags, IsGathering(ev'[t])
                PROVE  /\ ev'[t].dpart \in 1 .. ev'[t].n - 1 /\ Rest(t, ev[t].dpart, ev[t].n)'
                       /\ pc' \in Late => cdata' = NoBeat
    BY DEF GatherOK, IsGathering
  <2>1. ev'[t] = ev[t] /\ IsGathering(ev[t]) BY <1>4
  <2>2. /\ ev[t].dpart \in 1 .. ev[t].n - 1 /\ Rest(t, ev[t].dpart, ev[t].n)
        /\ pc \in Late => cdata = NoBeat
    BY <2>1 DEF DInv, GatherOK
  <2>3. Rest(t, ev[t].dpart, ev[t].n)' BY <1>2, <2>1, <2>2 DEF Rest
  <2>. QED BY <1>2, <2>1, <2>2, <2>3 DEF KeepsData
<1>6. PortData'
  BY <1>2, <1>4 DEF DInv, PortData, PutsBack, KeepsData, Rest, IsGathering
<1>7. FilledOK' BY <1>1, <1>2 DEF DInv, FilledOK, Keeps, Filled, Owed
<1>. QED BY <1>3, <1>5, <1>6, <1>7 DEF DInv

\* A step that changes one event, which gathers nothing before or after.
LEMMA OneKeeps ==
  ASSUME NEW t \in Tags, OthersSame(t), Keeps(ev[t], ev'[t])
  PROVE  \A u \in Tags : Keeps(ev[u], ev'[u])
BY DEF OthersSame, Keeps

\* Changing the answer or the state of an event keeps its data.
LEMMA UpdateKeepsData ==
  ASSUME IInv, NEW t \in Tags, NEW e, Update(t, e), Keeps(ev[t], e)
  PROVE  \A u \in Tags : Keeps(ev[u], ev'[u])
<1>1. ev'[t] = e /\ OthersSame(t) BY DEF Update, IInv, TypeOK, OthersSame
<1>. QED BY <1>1, OneKeeps

\* A fault or a request changes an event that gathers nothing more.
LEMMA AccessKeepsData ==
  ASSUME IInv, NEW t \in Tags, NEW st \in {"MEM_REQUEST", "MEM_RECEIVED", "DMA_MEM_RESP"},
         Access(t, st), st = "MEM_REQUEST" \/ Filled(ev[t]),
         st = "MEM_REQUEST" => ev[t].type = "CMD_READ"
  PROVE  \A u \in Tags : Keeps(ev[u], ev'[u])
<1>1. ev[t] \in Event BY DEF IInv, TypeOK
<1>2. CASE MemFault(t)
  <2>1. PICK f \in Faults \cap MemFaults :
          Update(t, [ev[t] EXCEPT !.st = IF f = "pending" THEN "MEM_XLATE_PENDING" ELSE "MEM_DONE",
                                  !.type = "CMD_FAILED", !.ropc = FailOpcode(ev[t]), !.resp = f])
    BY <1>2 DEF MemFault
  <2>. DEFINE s == IF f = "pending" THEN "MEM_XLATE_PENDING" ELSE "MEM_DONE"
              o == FailOpcode(ev[t])
              e == [ev[t] EXCEPT !.st = s, !.type = "CMD_FAILED", !.ropc = o, !.resp = f]
  <2>2. Update(t, e) BY <2>1
  <2>. HIDE DEF s, o
  <2>3. e.good = ev[t].good /\ e.type = "CMD_FAILED" BY <1>1 DEF Event
  <2>. HIDE DEF e
  <2>4. Keeps(ev[t], e) BY <2>3 DEF Keeps, IsGathering, Filled, GatherTypes
  <2>. QED BY <2>2, <2>4, UpdateKeepsData
<1>3. CASE Update(t, [ev[t] EXCEPT !.st = st])
  <2>. DEFINE e == [ev[t] EXCEPT !.st = st]
  <2>1. e.good = ev[t].good /\ e.type = ev[t].type /\ e.st = st BY <1>1 DEF Event
  <2>2. Update(t, e) BY <1>3
  <2>. HIDE DEF e
  <2>3. Keeps(ev[t], e) BY <2>1 DEF Keeps, IsGathering, Filled, GatherTypes
  <2>. QED BY <2>2, <2>3, UpdateKeepsData
<1>. QED BY <1>2, <1>3 DEF Access

\* The handlers that make or fail requests.
LEMMA AccessHandlersKeep ==
  ASSUME IInv, handle_buffer_write \/ handle_afu_tlx_write_cmd \/ handle_write_be_or_amo
  PROVE  \A u \in Tags : Keeps(ev[u], ev'[u])
<1>1. CASE UNCHANGED ev BY <1>1 DEF Keeps
<1>2. ASSUME NEW i \in Present(First(IsPendingRead)), Access(list[i], "MEM_REQUEST")
      PROVE  \A u \in Tags : Keeps(ev[u], ev'[u])
  <2>1. list[i] \in Tags /\ ev[list[i]].type = "CMD_READ"
    BY ListedLive DEF Present, First, IsPendingRead
  <2>. QED BY <1>2, <2>1, AccessKeepsData
<1>3. ASSUME NEW i \in Present(First(IsReadyWrite)), Access(list[i], "DMA_MEM_RESP")
      PROVE  \A u \in Tags : Keeps(ev[u], ev'[u])
  <2>1. list[i] \in Tags /\ Filled(ev[list[i]])
    BY ListedLive DEF Present, First, IsReadyWrite, Filled, GatherTypes
  <2>. QED BY <1>3, <2>1, AccessKeepsData
<1>4. ASSUME NEW i \in Present(First(IsReadyOp)), Access(list[i], "MEM_RECEIVED")
      PROVE  \A u \in Tags : Keeps(ev[u], ev'[u])
  <2>1. list[i] \in Tags /\ Filled(ev[list[i]])
    BY ListedLive DEF Present, First, IsReadyOp, Filled, GatherTypes
  <2>. QED BY <1>4, <2>1, AccessKeepsData
<1>. QED BY <1>1, <1>2, <1>3, <1>4 DEF handle_buffer_write, handle_afu_tlx_write_cmd,
                                       handle_write_be_or_amo

\* handle_interrupt.
LEMMA InterruptKeeps == ASSUME IInv, handle_interrupt PROVE \A u \in Tags : Keeps(ev[u], ev'[u])
<1>1. CASE UNCHANGED ev BY <1>1 DEF Keeps
<1>2. ASSUME NEW i \in Present(First(IsReadyInterrupt)),
             \/ \E p \in IntFaultsOf(ev[list[i]]) :
                  Update(list[i], [ev[list[i]] EXCEPT !.st = p[2], !.type = "CMD_FAILED",
                                                      !.resp = p[3]])
             \/ Update(list[i], [ev[list[i]] EXCEPT !.st = "MEM_DONE"])
      PROVE  \A u \in Tags : Keeps(ev[u], ev'[u])
  <2>1. list[i] \in Tags /\ ev[list[i]] \in Event BY ListedLive DEF Present, First
  <2>2. ASSUME NEW e, e.good = ev[list[i]].good, e.type = "CMD_FAILED" \/ e.st = "MEM_DONE",
               Update(list[i], e)
        PROVE  \A u \in Tags : Keeps(ev[u], ev'[u])
    <3>1. Keeps(ev[list[i]], e) BY <2>2 DEF Keeps, IsGathering, Filled, GatherTypes
    <3>. QED BY <2>1, <2>2, <3>1, UpdateKeepsData
  <2>3. \A p \in IntFaultsOf(ev[list[i]]) :
          LET e == [ev[list[i]] EXCEPT !.st = p[2], !.type = "CMD_FAILED", !.resp = p[3]]
          IN  e.good = ev[list[i]].good /\ e.type = "CMD_FAILED"
    BY <2>1 DEF Event
  <2>4. LET e == [ev[list[i]] EXCEPT !.st = "MEM_DONE"]
        IN  e.good = ev[list[i]].good /\ e.st = "MEM_DONE"
    BY <2>1 DEF Event
  <2>. QED BY <1>2, <2>2, <2>3, <2>4
<1>. QED BY <1>1, <1>2 DEF handle_interrupt

\* _handle_client settles an event.
LEMMA ClientKeeps == ASSUME IInv, _handle_client PROVE \A u \in Tags : Keeps(ev[u], ev'[u])
<1>1. CASE UNCHANGED ev BY <1>1 DEF Keeps
<1>2. cur \in Ctx BY DEF IInv, TypeOK
<1>3. CASE Reply(cur) /\ client[cur].mem # NoTag
  <2>. DEFINE t == client[cur].mem
  <2>1. t \in Tags /\ ev[t] \in Event BY <1>2, <1>3 DEF IInv, TypeOK, Client
  <2>. HIDE DEF t
  <2>2. ASSUME NEW e, e.good = ev[t].good, e.st = "MEM_DONE", Update(t, e)
        PROVE  \A u \in Tags : Keeps(ev[u], ev'[u])
    <3>1. Keeps(ev[t], e) BY <2>2 DEF Keeps, IsGathering, Filled
    <3>. QED BY <2>1, <2>2, <3>1, UpdateKeepsData
  <2>3. LET e == [ev[t] EXCEPT !.st = "MEM_DONE", !.type = "CMD_FAILED", !.resp = "failed"]
        IN  e.good = ev[t].good /\ e.st = "MEM_DONE"
    BY <2>1 DEF Event
  <2>4. \A r : LET e == [ev[t] EXCEPT !.st = "MEM_DONE", !.ret = r]
               IN  e.good = ev[t].good /\ e.st = "MEM_DONE"
    BY <2>1 DEF Event
  <2>5. CASE \E ok \in get_bytes(cur) : handle_mem_return(t, ok)
    BY <2>2, <2>3, <2>4, <2>5 DEF handle_mem_return
  <2>6. CASE handle_aerror(t) BY <2>2, <2>3, <2>6 DEF handle_aerror
  <2>. QED BY <1>3, <2>5, <2>6 DEF Reply, t
<1>. QED BY <1>1, <1>3 DEF _handle_client, NoMessage, Reply, _detach, Lost

\* client_cmd ends events.
LEMMA ClientCmdKeeps == ASSUME IInv, client_cmd PROVE \A u \in Tags : Keeps(ev[u], ev'[u])
<1>. SUFFICES ASSUME NEW u \in Tags PROVE Keeps(ev[u], ev'[u]) OBVIOUS
<1>1. ev'[u] = ev[u] \/ ev'[u] = Terminate(ev[u]) BY DEF client_cmd
<1>2. ev[u] \in Event BY DEF IInv, TypeOK
<1>. DEFINE r == IF ev[u].type \in {"CMD_READ", "CMD_WRITE", "CMD_TOUCH"} THEN "dropped" ELSE ev[u].resp
<1>3. Terminate(ev[u]) = [ev[u] EXCEPT !.st = "MEM_DONE", !.resp = r] BY DEF Terminate
<1>. HIDE DEF r
<1>4. Terminate(ev[u]).good = ev[u].good /\ Terminate(ev[u]).st = "MEM_DONE"
  BY <1>2, <1>3 DEF Event
<1>. QED BY <1>1, <1>4 DEF Keeps, IsGathering, Filled

\* handle_response touches events that have their data, and frees them.
LEMMA ResponseKeeps ==
  ASSUME IInv, AInv, handle_response PROVE \A u \in Tags : Keeps(ev[u], ev'[u])
<1>1. CASE UNCHANGED ev BY <1>1 DEF Keeps
<1>2. ASSUME NEW t \in Tags, Live(t), IsReady(ev[t]), OthersSame(t),
             BacksUp(t) \/ Defers(t) \/ Splits(t) \/ Ends(t)
      PROVE  \A u \in Tags : Keeps(ev[u], ev'[u])
  <2>. DEFINE e == ev[t]
              f == Chunk(ev[t])
  <2>1. e \in Event BY DEF IInv, TypeOK
  <2>2. f \in Event /\ f.st = e.st BY <2>1, ChunkType
  <2>3. f.good = e.good
    <3>. DEFINE dp == CASE e.sent = 0 -> e.dp
                        [] e.sent # 0 /\ HostCL = 2 -> 2
                        [] e.sent # 0 /\ HostCL # 2 -> (e.dp + 1) % 4
    <3>1. f = e \/ f = [e EXCEPT !.dp = dp, !.dl = HostCL, !.sent = e.sent + HostCL]
      BY DEF Chunk
    <3>. HIDE DEF dp
    <3>. QED BY <2>1, <3>1 DEF Event
  <2>4. IsReady(ev'[t]) \/ ev'[t].st \in {"MEM_PENDING_SENT", "FREE"}
    <3>1. CASE BacksUp(t)
      <4>. DEFINE s == IF f.sent # 0 THEN f.sent - HostCL ELSE f.sent
      <4>1. ev'[t] = [f EXCEPT !.sent = s] BY <3>1 DEF BacksUp, BackUp
      <4>. HIDE DEF s, f
      <4>2. ev'[t].st = f.st BY <2>2, <4>1 DEF Event
      <4>. QED BY <1>2, <2>2, <4>2 DEF IsReady, IsPending
    <3>2. CASE Defers(t) BY <2>1, <3>2 DEF Defers, Event
    <3>3. CASE Splits(t) BY <1>2, <2>2, <3>3 DEF Splits, IsReady, IsPending
    <3>4. CASE Ends(t) BY <3>4 DEF Ends, NoEvent
    <3>. QED BY <1>2, <3>1, <3>2, <3>3, <3>4
  <2>5. e.good => ev'[t].good
    <3>1. CASE BacksUp(t)
      <4>. DEFINE s == IF f.sent # 0 THEN f.sent - HostCL ELSE f.sent
      <4>1. ev'[t] = [f EXCEPT !.sent = s] BY <3>1 DEF BacksUp, BackUp
      <4>. HIDE DEF s, f
      <4>2. ev'[t].good = f.good BY <2>2, <4>1 DEF Event
      <4>. QED BY <2>3, <4>2
    <3>2. CASE Defers(t) BY <2>1, <3>2 DEF Defers, Event
    <3>3. CASE Splits(t) BY <2>3, <3>3 DEF Splits
    <3>4. CASE Ends(t) BY <3>4 DEF Ends, NoEvent
    <3>. QED BY <1>2, <3>1, <3>2, <3>3, <3>4
  <2>6. Keeps(ev[t], ev'[t]) BY <2>4, <2>5 DEF Keeps, IsReady, IsPending, IsGathering, Filled
  <2>. QED BY <1>2, <2>6, OneKeeps
<1>. QED BY <1>1, <1>2, ResponseSteps

\* handle_xlate_intrp_pending_sent.
LEMMA PendingSentKeeps ==
  ASSUME IInv, handle_xlate_intrp_pending_sent PROVE \A u \in Tags : Keeps(ev[u], ev'[u])
<1>1. CASE UNCHANGED ev BY <1>1 DEF Keeps
<1>2. ASSUME NEW t \in Tags, IsPendingSent(ev[t]), OthersSame(t), Notes(t) \/ Posts(t)
      PROVE  \A u \in Tags : Keeps(ev[u], ev'[u])
  <2>1. ev[t] \in Event BY DEF IInv, TypeOK
  <2>2. CASE Posts(t)
    <3>1. ev'[t].good /\ ev'[t].st = "FREE" BY <2>2 DEF Posts, NoEvent
    <3>2. Keeps(ev[t], ev'[t]) BY <3>1 DEF Keeps, IsGathering, Filled
    <3>. QED BY <1>2, <3>2, OneKeeps
  <2>3. CASE Notes(t)
    <3>1. ev'[t].good = ev[t].good /\ ev'[t].st = "MEM_PENDING_SENT"
      BY <1>2, <2>1, <2>3 DEF Notes, IsPendingSent, Event
    <3>2. Keeps(ev[t], ev'[t]) BY <3>1 DEF Keeps, IsGathering, Filled
    <3>. QED BY <1>2, <3>2, OneKeeps
  <2>. QED BY <1>2, <2>2, <2>3
<1>. QED BY <1>1, <1>2, PendingSentSteps

\* Every step but these three moves no data.
LEMMA QuietSteps ==
  ASSUME IInv, AInv, [Next]_vars, ~Clock, ~handle_cmd, ~handle_afu_tlx_cmd_data_read
  PROVE  KeepsData
<1>1. \A u \in Tags : Keeps(ev[u], ev'[u])
  <2>1. CASE UNCHANGED ev BY <2>1 DEF Keeps
  <2>2. \/ UNCHANGED ev \/ handle_response \/ handle_xlate_intrp_pending_sent
        \/ handle_buffer_write \/ handle_afu_tlx_write_cmd \/ handle_write_be_or_amo
        \/ handle_interrupt \/ _handle_client \/ client_cmd
    BY DEF Next, Loop, vars, EmptySlot, ReleaseSlot, Open, Die
  <2>. QED BY <2>1, <2>2, AccessHandlersKeep, InterruptKeeps, ClientKeeps, ClientCmdKeeps,
           ResponseKeeps, PendingSentKeeps
<1>2. UNCHANGED <<cdata, dq, cmdport>>
  BY DEF Next, Loop, vars, handle_response, handle_xlate_intrp_pending_sent, handle_buffer_write,
     handle_afu_tlx_write_cmd, handle_interrupt, handle_write_be_or_amo, EmptySlot, ReleaseSlot,
     _handle_client, client_cmd, Open, Die
<1>3. (pc' \in Late => pc \in Late) /\ (pc' \in Early => pc \in Early)
  BY DEF Next, Loop, vars, handle_response, handle_xlate_intrp_pending_sent, handle_buffer_write,
     handle_afu_tlx_write_cmd, handle_interrupt, handle_write_be_or_amo, EmptySlot, ReleaseSlot,
     _handle_client, client_cmd, Open, Die, Goto, NextSlot, Late, Early
<1>. QED BY <1>1, <1>2, <1>3 DEF KeepsData

\* Of the events that pass a test one is the first.
LEMMA FirstExists ==
  ASSUME IInv, NEW t \in Tags, IsGathering(ev[t]) PROVE First(IsGathering) # {}
<1>1. list \in Seq(Tags) /\ DOMAIN list = 1 .. Len(list) /\ Len(list) \in Nat BY DEF IInv, TypeOK
<1>2. PICK k \in DOMAIN list : list[k] = t
  <2>1. Live(t) BY DEF Live, IsGathering
  <2>. QED BY <2>1 DEF IInv, TypeOK, ListOK
<1>. DEFINE T == {i \in DOMAIN list : IsGathering(ev[list[i]])}
<1>3. T \in SUBSET Nat /\ k \in T BY <1>1, <1>2
<1>4. PICK i \in T : \A j \in T : i <= j
  <2>. HIDE DEF T
  <2>. QED BY <1>3, LeastNatural
<1>5. ASSUME NEW j \in DOMAIN list, j < i PROVE ~IsGathering(ev[list[j]]) BY <1>1, <1>4, <1>5
<1>6. i \in First(IsGathering) BY <1>4, <1>5 DEF First
<1>. QED BY <1>6

\* handle_afu_tlx_cmd_data_read gives the beat to the one event that gathers,
\* whose next beat it is.
LEMMA DataReadKeeps ==
  ASSUME IInv, DInv, handle_afu_tlx_cmd_data_read PROVE DInv'
<1>1. /\ UNCHANGED <<dq, cmdport>> /\ pc' = "write_cmd" BY DEF handle_afu_tlx_cmd_data_read, Goto
<1>2. PortData' BY <1>1 DEF PortData, Early
<1>3. CASE UNCHANGED <<ev, cdata>> /\ (First(IsGathering) = {} \/ cdata = NoBeat)
  <2>1. AllGood' /\ FilledOK' BY <1>1, <1>3 DEF DInv, AllGood, FilledOK, Filled, Owed
  <2>2. GatherOK'
    <3>. SUFFICES ASSUME NEW t \in Tags, IsGathering(ev[t])
                  PROVE  /\ ev[t].dpart \in 1 .. ev[t].n - 1 /\ Rest(t, ev[t].dpart, ev[t].n)'
                         /\ cdata = NoBeat
      BY <1>1, <1>3 DEF GatherOK, IsGathering, Late
    <3>1. cdata = NoBeat BY <1>3, FirstExists
    <3>2. ev[t].dpart \in 1 .. ev[t].n - 1 /\ Rest(t, ev[t].dpart, ev[t].n) BY DEF DInv, GatherOK
    <3>3. Rest(t, ev[t].dpart, ev[t].n)' BY <1>1, <1>3, <3>2 DEF Rest
    <3>. QED BY <3>1, <3>2, <3>3
  <2>. QED BY <1>2, <2>1, <2>2 DEF DInv
<1>4. ASSUME NEW i \in First(IsGathering), cdata # NoBeat, cdata' = NoBeat,
             LET t == list[i]  e == ev[list[i]] IN
               Update(t, [e EXCEPT !.good = @ /\ cdata = <<t, e.dpart>>,
                                   !.dpart = IF e.n - @ > 1 THEN @ + 1 ELSE @,
                                   !.st = IF e.n - e.dpart > 1 THEN @ ELSE "MEM_RECEIVED"])
      PROVE  DInv'
  <2>. DEFINE t == list[i]
              e == ev[list[i]]
              good == e.good /\ cdata = <<t, e.dpart>>
              dpart == IF e.n - e.dpart > 1 THEN e.dpart + 1 ELSE e.dpart
              st == IF e.n - e.dpart > 1 THEN e.st ELSE "MEM_RECEIVED"
              f == [e EXCEPT !.good = good, !.dpart = dpart, !.st = st]
  <2>1. t \in Tags /\ e \in Event /\ IsGathering(e) BY ListedLive DEF First
  <2>2. /\ e.dpart \in 1 .. e.n - 1 /\ e.n \in {1, 2, 4} /\ cdata = <<t, e.dpart>>
        /\ Len(dq) = e.n - e.dpart - 1
        /\ \A j \in 1 .. e.n - e.dpart - 1 : dq[j] = <<t, e.dpart + j>>
    BY <1>4, <2>1 DEF DInv, GatherOK, Rest, Event
  <2>3. good BY <2>1, <2>2 DEF DInv, AllGood
  <2>4. ASSUME NEW u \in Tags, u # t PROVE ~IsGathering(ev[u])
    BY <1>4, <2>2, <2>4 DEF DInv, GatherOK, Rest
  <2>5. Update(t, f) BY <1>4
  <2>. HIDE DEF good, dpart, st
  <2>6. f.good = good /\ f.dpart = dpart /\ f.st = st /\ f.n = e.n /\ f.type = e.type
    BY <2>1 DEF Event
  <2>. HIDE DEF f
  <2>7. ev'[t] = f /\ \A u \in Tags : u # t => ev'[u] = ev[u]
    BY <2>1, <2>5 DEF Update, IInv, TypeOK
  <2>8. AllGood' BY <2>3, <2>6, <2>7 DEF DInv, AllGood
  <2>9. GatherOK'
    <3>. SUFFICES ASSUME NEW u \in Tags, IsGathering(ev'[u])
                  PROVE  /\ ev'[u].dpart \in 1 .. ev'[u].n - 1
                         /\ Rest(u, ev[u].dpart, ev[u].n)' /\ cdata' = NoBeat
      BY DEF GatherOK, IsGathering
    <3>1. u = t BY <2>4, <2>7
    <3>2. e.n - e.dpart > 1 BY <2>6, <2>7, <3>1 DEF st, IsGathering
    <3>3. ev'[u].dpart = e.dpart + 1 /\ ev'[u].n = e.n BY <2>6, <2>7, <3>1, <3>2 DEF dpart
    <3>. HIDE DEF e, t
    <3>4. e.dpart + 1 \in 1 .. e.n - 1 BY <2>2, <3>2
    <3>5. Len(dq) = e.n - (e.dpart + 1) BY <2>2
    <3>6. ASSUME NEW j \in 1 .. e.n - (e.dpart + 1) PROVE dq[j] = <<u, (e.dpart + 1) + j - 1>>
      <4>1. j \in 1 .. e.n - e.dpart - 1 /\ (e.dpart + 1) + j - 1 = e.dpart + j BY <2>2
      <4>. QED BY <2>2, <3>1, <4>1
    <3>. QED BY <1>1, <1>4, <3>3, <3>4, <3>5, <3>6 DEF Rest
  <2>10. FilledOK'
    <3>. SUFFICES ASSUME NEW u \in Tags, Filled(ev'[u]) PROVE ~Owed(u)' BY DEF FilledOK, Filled
    <3>0. u # NoTag /\ cdata'[1] = NoTag
      BY <1>4, ConstantsAssumption DEF ConstantsAssumption, NoBeat
    <3>1. CASE u = t
      <4>1. ~(e.n - e.dpart > 1) BY <2>1, <2>6, <2>7, <3>1 DEF st, Filled, IsGathering
      <4>2. Len(dq) = 0 BY <2>2, <4>1
      <4>3. dq' = <<>> BY <1>1, <4>2 DEF IInv, TypeOK
      <4>. QED BY <3>0, <4>3 DEF Owed
    <3>2. CASE u # t
      <4>1. ~Owed(u) BY <2>7, <3>2 DEF DInv, FilledOK
      <4>. QED BY <1>1, <3>0, <4>1 DEF Owed
    <3>. QED BY <3>1, <3>2
  <2>. QED BY <1>2, <2>8, <2>9, <2>10 DEF DInv
<1>. QED BY <1>3, <1>4 DEF handle_afu_tlx_cmd_data_read

\* The first beat of a packet, or none.
Takes(q) == \/ cdata' = NoBeat /\ dq' = q
            \/ /\ q # <<>> /\ cdata' = q[1] /\ Len(dq') = Len(q) - 1
               /\ \A j \in 1 .. Len(q) - 1 : dq'[j] = q[j + 1]

\* A packet carries no command, an actag, or a command that the AFU may issue;
\* the beats of a command come after those owed, of which there are none then.
LEMMA ClockBeats ==
  ASSUME IInv, Overlap = FALSE, Clock
  PROVE  LET m == cmdport' IN
         /\ Beats(m) = <<>> => Takes(dq)
         /\ Beats(m) # <<>> => dq = <<>> /\ cdata' # NoBeat /\ Takes(Beats(m))
         /\ m.tag # NoTag /\ ~PutsBack(m) => dq = <<>>
         /\ m \in Command
<1>. DEFINE free == {t \in Tags : afu[t].st = "free"}
            m == cmdport'
<1>1. /\ m \in {NoCmd} \cup Commands(free) \cup Assignments(free)
      /\ \/ cdata' = NoBeat /\ dq' = dq \o Beats(m)
         \/ /\ dq \o Beats(m) # <<>> /\ cdata' = Head(dq \o Beats(m))
            /\ dq' = Tail(dq \o Beats(m))
      /\ Beats(m) # <<>> => dq = <<>> /\ cdata' # NoBeat
  BY DEF Clock
<1>2. m \in Command BY ClockWires DEF WireInv
<1>3. dq \in Seq(Beat) BY DEF IInv, TypeOK
<1>4. Beats(m) \in Seq(Beat)
  <2>1. CASE m.tag # NoTag /\ m.op \in DataOps
    <3>1. m.n \in Nat /\ m.tag \in Tags BY <1>2, <2>1 DEF Command
    <3>2. \A k \in 1 .. m.n : <<m.tag, k - 1>> \in Beat BY <3>1 DEF Beat
    <3>3. Beats(m) = [k \in 1 .. m.n |-> <<m.tag, k - 1>>] BY <2>1 DEF Beats
    <3>4. Beats(m) \in [1 .. m.n -> Beat] BY <3>2, <3>3
    <3>5. [1 .. m.n -> Beat] \subseteq Seq(Beat) BY ONLY <3>1, SeqDef, Zenon
    <3>. QED BY <3>4, <3>5
  <2>2. CASE ~(m.tag # NoTag /\ m.op \in DataOps)
    <3>1. Beats(m) = <<>> BY <2>2 DEF Beats
    <3>. QED BY <3>1
  <2>. QED BY <2>1, <2>2
<1>5. ASSUME NEW q \in Seq(Beat), \/ cdata' = NoBeat /\ dq' = q
                                  \/ q # <<>> /\ cdata' = Head(q) /\ dq' = Tail(q)
      PROVE  Takes(q)
  <2>1. q # <<>> => /\ Head(q) = q[1] /\ Len(Tail(q)) = Len(q) - 1
                    /\ \A j \in 1 .. Len(q) - 1 : Tail(q)[j] = q[j + 1]
    OBVIOUS
  <2>. QED BY <1>5, <2>1 DEF Takes
<1>. DEFINE b == Beats(m)
<1>6. b = <<>> => dq \o b = dq
  <2>. HIDE DEF b
  <2>. QED BY <1>3
<1>7. dq = <<>> => dq \o b = b
  <2>1. b \in Seq(Beat) BY <1>4
  <2>. HIDE DEF b
  <2>. QED BY <2>1
<1>8. Beats(m) = <<>> => Takes(dq) BY <1>1, <1>3, <1>5, <1>6
<1>9. Beats(m) # <<>> => dq = <<>> /\ cdata' # NoBeat /\ Takes(Beats(m))
  BY <1>1, <1>4, <1>5, <1>7
<1>10. m.tag # NoTag /\ ~PutsBack(m) => dq = <<>>
  <2>. SUFFICES ASSUME m.tag # NoTag, ~PutsBack(m) PROVE dq = <<>> OBVIOUS
  <2>1. m # NoCmd BY DEF NoCmd
  <2>2. m \notin Assignments(free) BY DEF Assignments, PutsBack
  <2>3. PICK t \in free, k \in {x \in Cmds : MayIssue(x)},
             a \in {x \in Actags : amap[x] # MaxClients} :
          m = [tag |-> t, op |-> k.op, n |-> k.n, ok |-> k.ok, actag |-> a, pasid |-> amap[a]]
    BY <1>1, <2>1, <2>2 DEF Commands
  <2>4. m.op = k.op /\ MayIssue(k) BY <2>3
  <2>. QED BY <2>4 DEF MayIssue, PutsBack, ReadOps
<1>. QED BY <1>2, <1>8, <1>9, <1>10

\* A clock brings the next beat that is owed, or those of a new command.
LEMMA ClockKeeps == ASSUME IInv, AInv, DInv, Overlap = FALSE, Clock PROVE DInv'
<1>. DEFINE m == cmdport'
<1>1. /\ Beats(m) = <<>> => Takes(dq)
      /\ Beats(m) # <<>> => dq = <<>> /\ cdata' # NoBeat /\ Takes(Beats(m))
      /\ m.tag # NoTag /\ ~PutsBack(m) => dq = <<>>
      /\ m \in Command
  BY ClockBeats
<1>2. ev' = ev /\ pc = "clock" /\ pc' = "response" BY DEF Clock, Goto
<1>3. dq \in Seq(Beat) /\ Len(dq) \in Nat BY DEF IInv, TypeOK
<1>4. ASSUME NEW t \in Tags, IsGathering(ev[t])
      PROVE  LET k == ev[t].dpart  n == ev[t].n IN
             /\ k \in 1 .. n - 1 /\ n \in {1, 2, 4} /\ Len(dq) = n - k /\ Len(dq) > 0
             /\ \A j \in 1 .. n - k : dq[j] = <<t, k + j - 1>>
  <2>1. /\ ev[t].dpart \in 1 .. ev[t].n - 1 /\ Rest(t, ev[t].dpart, ev[t].n) /\ cdata = NoBeat
    BY <1>2, <1>4 DEF DInv, GatherOK, Late
  <2>2. ev[t].n \in {1, 2, 4} BY DEF IInv, TypeOK, Event
  <2>3. cdata # <<t, ev[t].dpart>> BY <2>1, ConstantsAssumption DEF NoBeat, ConstantsAssumption
  <2>. QED BY <2>1, <2>2, <2>3 DEF Rest
<1>5. ASSUME NEW t \in Tags, IsGathering(ev[t]) PROVE dq # <<>> BY <1>4, <1>5
<1>6. Beats(m) # <<>> =>
        /\ m.tag \in Tags /\ m.op \in DataOps /\ m.n \in {1, 2, 4}
        /\ Beats(m) = [k \in 1 .. m.n |-> <<m.tag, k - 1>>]
  BY <1>1 DEF Beats, Command
<1>7. AllGood' BY <1>2 DEF DInv, AllGood
<1>8. GatherOK'
  <2>. SUFFICES ASSUME NEW t \in Tags, IsGathering(ev[t])
                PROVE  ev[t].dpart \in 1 .. ev[t].n - 1 /\ Rest(t, ev[t].dpart, ev[t].n)'
    BY <1>2 DEF GatherOK, IsGathering, Late
  <2>. DEFINE k == ev[t].dpart
              n == ev[t].n
  <2>1. /\ k \in 1 .. n - 1 /\ n \in {1, 2, 4} /\ Len(dq) = n - k /\ Len(dq) > 0
        /\ \A j \in 1 .. n - k : dq[j] = <<t, k + j - 1>>
    BY <1>4
  <2>2. Takes(dq) BY <1>1, <1>5
  <2>3. ev'[t].dpart = k /\ ev'[t].n = n BY <1>2
  <2>. HIDE DEF k, n
  <2>4. ASSUME cdata' = NoBeat, dq' = dq PROVE Rest(t, ev[t].dpart, ev[t].n)'
    BY <2>1, <2>3, <2>4 DEF Rest
  <2>5. ASSUME cdata' = dq[1], Len(dq') = Len(dq) - 1,
               \A j \in 1 .. Len(dq) - 1 : dq'[j] = dq[j + 1]
        PROVE  Rest(t, ev[t].dpart, ev[t].n)'
    <3>1. dq[1] = <<t, k + 1 - 1>> /\ k + 1 - 1 = k BY <2>1
    <3>2. ASSUME NEW j \in 1 .. n - k - 1 PROVE dq'[j] = <<t, k + j>>
      <4>1. j + 1 \in 1 .. n - k /\ j \in 1 .. Len(dq) - 1 /\ k + (j + 1) - 1 = k + j BY <2>1
      <4>2. dq[j + 1] = <<t, k + (j + 1) - 1>> BY <2>1, <4>1
      <4>. QED BY <2>5, <4>1, <4>2
    <3>. QED BY <2>1, <2>3, <2>5, <3>1, <3>2 DEF Rest
  <2>6. k \in 1 .. n - 1 BY <2>1
  <2>7. Rest(t, ev[t].dpart, ev[t].n)' BY <2>2, <2>4, <2>5 DEF Takes
  <2>. QED BY <2>6, <2>7 DEF k, n
<1>9. PortData'
  <2>. SUFFICES ASSUME m.tag # NoTag, ~PutsBack(m)
                PROVE  /\ \A t \in Tags : ~IsGathering(ev[t])
                       /\ m.op \in DataOps => /\ cdata' = <<m.tag, 0>>
                                              /\ Rest(cmdport.tag, 0, cmdport.n)'
                       /\ m.op \notin DataOps => cdata' = NoBeat
    BY <1>2 DEF PortData, IsGathering, PutsBack
  <2>1. dq = <<>> /\ \A t \in Tags : ~IsGathering(ev[t]) BY <1>1, <1>5
  <2>2. ASSUME m.op \notin DataOps PROVE cdata' = NoBeat
    <3>1. Beats(m) = <<>> BY <2>2 DEF Beats
    <3>. QED BY <1>1, <2>1, <3>1 DEF Takes
  <2>3. ASSUME m.op \in DataOps PROVE cdata' = <<m.tag, 0>> /\ Rest(cmdport.tag, 0, cmdport.n)'
    <3>. DEFINE b == Beats(m)
    <3>1. /\ m.tag \in Tags /\ m.n \in {1, 2, 4}
          /\ b = [k \in 1 .. m.n |-> <<m.tag, k - 1>>]
      BY <1>1, <2>3 DEF Beats, Command
    <3>. HIDE DEF m
    <3>2. \A k \in 1 .. m.n : <<m.tag, k - 1>> \in Beat BY <3>1 DEF Beat
    <3>3. b \in Seq(Beat) /\ Len(b) = m.n BY <3>1, <3>2
    <3>4. b # <<>> /\ b[1] = <<m.tag, 0>> BY <3>1, <3>3
    <3>5. cdata' # NoBeat /\ Takes(b) BY <1>1, <3>4 DEF m
    <3>7. \A j \in 1 .. m.n - 1 : b[j + 1] = <<m.tag, j>>
      <4>. SUFFICES ASSUME NEW j \in 1 .. m.n - 1 PROVE b[j + 1] = <<m.tag, j>> OBVIOUS
      <4>1. j + 1 \in 1 .. m.n /\ (j + 1) - 1 = j BY <3>1
      <4>. QED BY <3>1, <4>1
    <3>. HIDE DEF b
    <3>8. /\ cdata' = <<m.tag, 0>> /\ Len(dq') = m.n - 1
          /\ \A j \in 1 .. m.n - 1 : dq'[j] = <<m.tag, j>>
      <4>1. /\ cdata' = b[1] /\ Len(dq') = Len(b) - 1
            /\ \A j \in 1 .. Len(b) - 1 : dq'[j] = b[j + 1]
        BY <3>5 DEF Takes
      <4>. QED BY <3>3, <3>4, <3>7, <4>1
    <3>6. /\ cdata' = <<m.tag, 0>> /\ Len(dq') = m.n - 0 - 1
          /\ \A j \in 1 .. m.n - 0 - 1 : dq'[j] = <<m.tag, 0 + j>>
      <4>1. m.n - 0 - 1 = m.n - 1 /\ \A j \in 1 .. m.n - 1 : 0 + j = j BY <3>1
      <4>. QED BY <3>8, <4>1
    <3>. QED BY <3>6 DEF Rest, m
  <2>. QED BY <2>1, <2>2, <2>3
<1>10. FilledOK'
  <2>. SUFFICES ASSUME NEW t \in Tags, Filled(ev[t]) PROVE ~Owed(t)'
    BY <1>2 DEF FilledOK, Filled
  <2>0. t # NoTag /\ NoBeat[1] = NoTag BY ConstantsAssumption DEF ConstantsAssumption, NoBeat
  <2>1. m.tag # t
    <3>1. AInv' BY ClockOK
    <3>2. m.tag # NoTag => ev'[m.tag].st = "FREE" BY <3>1 DEF AInv, CmdOK, Live
    <3>3. ev'[t].st # "FREE" BY <1>2 DEF Filled
    <3>. QED BY <2>0, <3>2, <3>3
  <2>2. ASSUME NEW q, q \in Seq(Beat), \A j \in 1 .. Len(q) : q[j][1] # t, Takes(q),
               dq' \in Seq(Beat)
        PROVE  ~Owed(t)'
    <3>1. Len(q) \in Nat /\ (q # <<>> => Len(q) > 0) BY <2>2
    <3>2. CASE cdata' = NoBeat /\ dq' = q BY <2>0, <2>2, <3>2 DEF Owed
    <3>3. CASE /\ q # <<>> /\ cdata' = q[1] /\ Len(dq') = Len(q) - 1
               /\ \A j \in 1 .. Len(q) - 1 : dq'[j] = q[j + 1]
      <4>1. cdata'[1] # t BY <2>2, <3>1, <3>3
      <4>2. ASSUME NEW j \in DOMAIN dq' PROVE dq'[j][1] # t
        <5>1. j \in 1 .. Len(q) - 1 /\ j + 1 \in 1 .. Len(q) BY <2>2, <3>1, <3>3
        <5>. QED BY <2>2, <3>3, <5>1
      <4>. QED BY <4>1, <4>2 DEF Owed
    <3>. QED BY <2>2, <3>2, <3>3 DEF Takes
  <2>3. dq' \in Seq(Beat) BY ClockWires DEF WireInv
  <2>4. CASE Beats(m) = <<>>
    <3>1. \A j \in 1 .. Len(dq) : dq[j][1] # t BY <1>3 DEF DInv, FilledOK, Owed
    <3>. QED BY <1>1, <1>3, <2>2, <2>3, <2>4, <3>1
  <2>5. CASE Beats(m) # <<>>
    <3>. DEFINE b == Beats(m)
    <3>1. m.tag \in Tags /\ m.n \in {1, 2, 4} /\ b = [k \in 1 .. m.n |-> <<m.tag, k - 1>>]
      BY <1>6, <2>5
    <3>2. \A k \in 1 .. m.n : <<m.tag, k - 1>> \in Beat BY <3>1 DEF Beat
    <3>. HIDE DEF m
    <3>3. b \in Seq(Beat) /\ Len(b) = m.n BY <3>1, <3>2
    <3>4. \A j \in 1 .. Len(b) : b[j][1] # t BY <2>1, <3>1, <3>3
    <3>5. Takes(b) BY <1>1, <2>5 DEF m
    <3>. HIDE DEF b
    <3>. QED BY <2>2, <2>3, <3>3, <3>4, <3>5
  <2>. QED BY <2>4, <2>5
<1>. QED BY <1>7, <1>8, <1>9, <1>10 DEF DInv

\* The event of a command, without and with its first beat.
LEMMA NewEventData ==
  ASSUME NEW c \in Ctx, NEW m \in Command, NEW ropc \in Opcodes, client[c].gen \in Nat
  PROVE  LET e == NewEvent(c, m, ropc)  f == FirstBeat(m.tag, e) IN
         /\ e \in Event /\ e.good /\ e.st \in {"MEM_IDLE", "MEM_DONE"}
         /\ f.good = (cdata = <<m.tag, 0>>) /\ f.n = e.n /\ (m.ok => e.n = m.n)
         /\ f.st = "MEM_BUFFER" => e.n > 1 /\ f.dpart = 1
         /\ f.st = "MEM_RECEIVED" => ~(e.n > 1)
         /\ f.st # "DMA_MEM_RESP"
<1>. DEFINE e == NewEvent(c, m, ropc)
            f == FirstBeat(m.tag, e)
            good == (cdata = <<m.tag, 0>>)
            dpart == IF e.n > 1 THEN 1 ELSE 0
            st == IF e.n > 1 THEN "MEM_BUFFER" ELSE "MEM_RECEIVED"
<1>1. e \in Event /\ e.st \in {"MEM_IDLE", "MEM_DONE"} BY NewEventType
<1>2. e.good /\ (m.ok => e.n = m.n) BY DEF NewEvent, NoEvent
<1>3. f = IF e.type = "CMD_INTERRUPT" THEN [e EXCEPT !.good = good]
          ELSE [e EXCEPT !.good = good, !.dpart = dpart, !.st = st]
  BY DEF FirstBeat
<1>4. /\ st \in {"MEM_BUFFER", "MEM_RECEIVED"} /\ (st = "MEM_BUFFER" => e.n > 1 /\ dpart = 1)
      /\ st = "MEM_RECEIVED" => ~(e.n > 1)
  OBVIOUS
<1>. HIDE DEF e, f, dpart, st
<1>5. CASE e.type = "CMD_INTERRUPT"
  <2>1. f = [e EXCEPT !.good = good] BY <1>3, <1>5
  <2>. HIDE DEF good
  <2>2. f.good = good /\ f.n = e.n /\ f.st = e.st BY <1>1, <2>1 DEF Event
  <2>. QED BY <1>1, <1>2, <2>2 DEF e, f, good
<1>6. CASE e.type # "CMD_INTERRUPT"
  <2>1. f = [e EXCEPT !.good = good, !.dpart = dpart, !.st = st] BY <1>3, <1>6
  <2>. HIDE DEF good
  <2>2. f.good = good /\ f.n = e.n /\ f.st = st /\ f.dpart = dpart BY <1>1, <2>1 DEF Event
  <2>. QED BY <1>1, <1>2, <1>4, <2>2 DEF e, f, good
<1>. QED BY <1>5, <1>6

\* handle_cmd leaves the beats of another command on the bus, or takes the first
\* of its own.
LEMMA CmdKeeps == ASSUME IInv, AInv, DInv, handle_cmd PROVE DInv'
<1>. DEFINE m == cmdport
<1>1. /\ dq' = dq /\ m \in Command /\ pc = "cmd" /\ pc' \in {"data_read", "exit"}
      /\ ev \in [Tags -> Event] /\ cdata \in Beat
  BY DEF handle_cmd, Goto, IInv, TypeOK
<1>2. PortData' BY <1>1 DEF PortData, Early
<1>3. pc' \notin Late BY <1>1 DEF Late
<1>4. NoBeat[1] = NoTag /\ \A t \in Tags : t # NoTag
  BY ConstantsAssumption DEF NoBeat, ConstantsAssumption
<1>5. ASSUME cdata' \in {cdata, NoBeat}, NEW t \in Tags, ~Owed(t) PROVE ~Owed(t)'
  BY <1>1, <1>4, <1>5 DEF Owed
<1>6. CASE UNCHANGED ev
  <2>1. cdata' = cdata \/ (cdata' = NoBeat /\ \A t \in Tags : ~IsGathering(ev[t]))
    <3>1. CASE cdata' = cdata BY <3>1
    <3>2. CASE m.tag # NoTag /\ Ignored(m)
      <4>1. cdata' = cdata \/ (~PutsBack(m) /\ cdata' = NoBeat) BY <3>2 DEF Ignored
      <4>2. ~PutsBack(m) => \A t \in Tags : ~IsGathering(ev[t])
        BY <1>1, <3>2 DEF DInv, PortData, Early
      <4>. QED BY <4>1, <4>2
    <3>3. CASE m.tag # NoTag /\ ~Live(m.tag) /\ Accepted(m)
      <4>1. PICK c \in _find_client_by_actag(m.actag),
                 ropc \in IF m.ok THEN {RespOpcode(m.op)} ELSE BadOpcodes(m.op) :
                   _add_cmd(m, NewEvent(c, m, ropc))
        BY <3>3 DEF Accepted
      <4>2. cdata' = cdata \/ (~PutsBack(m) /\ cdata' = NoBeat) BY <4>1 DEF _add_cmd
      <4>3. ~PutsBack(m) => \A t \in Tags : ~IsGathering(ev[t])
        BY <1>1, <3>3 DEF DInv, PortData, Early
      <4>. QED BY <4>2, <4>3
    <3>. QED BY <3>1, <3>2, <3>3 DEF handle_cmd, _assign_actag
  <2>2. AllGood' BY <1>6 DEF DInv, AllGood
  <2>3. GatherOK'
    <3>. SUFFICES ASSUME NEW t \in Tags, IsGathering(ev[t])
                  PROVE  ev[t].dpart \in 1 .. ev[t].n - 1 /\ Rest(t, ev[t].dpart, ev[t].n)'
      BY <1>3, <1>6 DEF GatherOK, IsGathering
    <3>1. cdata' = cdata BY <2>1
    <3>2. ev[t].dpart \in 1 .. ev[t].n - 1 /\ Rest(t, ev[t].dpart, ev[t].n) BY DEF DInv, GatherOK
    <3>3. Rest(t, ev[t].dpart, ev[t].n)' BY <1>1, <1>6, <3>1, <3>2 DEF Rest
    <3>. QED BY <3>2, <3>3
  <2>4. FilledOK' BY <1>5, <1>6, <2>1 DEF DInv, FilledOK, Filled
  <2>. QED BY <1>2, <2>2, <2>3, <2>4 DEF DInv
<1>7. CASE m.tag # NoTag /\ ~Live(m.tag) /\ Accepted(m)
  <2>1. PICK c \in _find_client_by_actag(m.actag),
             ropc \in IF m.ok THEN {RespOpcode(m.op)} ELSE BadOpcodes(m.op) :
               _add_cmd(m, NewEvent(c, m, ropc))
    BY <1>7 DEF Accepted
  <2>. DEFINE t == m.tag
              e == NewEvent(c, m, ropc)
              f == FirstBeat(t, e)
              g == IF OffersBeat(m) /\ ~_incoming_data_expected THEN f ELSE e
  <2>2. c \in Ctx /\ client[c].gen \in Nat BY DEF _find_client_by_actag, IInv, TypeOK, Client
  <2>3. ropc \in Opcodes BY DEF RespOpcode, BadOpcodes, Opcodes
  <2>4. t \in Tags BY <1>1, <1>7 DEF Command
  <2>5. /\ e \in Event /\ e.good /\ e.st \in {"MEM_IDLE", "MEM_DONE"}
        /\ f.good = (cdata = <<t, 0>>) /\ f.n = e.n /\ (m.ok => e.n = m.n)
        /\ f.st = "MEM_BUFFER" => e.n > 1 /\ f.dpart = 1
        /\ f.st = "MEM_RECEIVED" => ~(e.n > 1)
        /\ f.st # "DMA_MEM_RESP"
    BY <1>1, <2>2, <2>3, NewEventData
  <2>6. ev' = [ev EXCEPT ![t] = g] BY <2>1 DEF _add_cmd
  <2>7. /\ cdata' = IF PutsBack(m) \/ (OffersBeat(m) /\ _incoming_data_expected)
                    THEN cdata ELSE NoBeat
        /\ cdata' \in {cdata, NoBeat}
    BY <2>1 DEF _add_cmd
  <2>. HIDE DEF e, f
  <2>8. ev'[t] = g /\ \A u \in Tags : u # t => ev'[u] = ev[u] BY <1>1, <2>4, <2>6
  <2>9. PutsBack(m) => g = e BY DEF PutsBack, OffersBeat, ReadOps, WriteOps, AmoOps, IntOps
  <2>10. ~PutsBack(m) => /\ \A u \in Tags : ~IsGathering(ev[u])
                         /\ ~_incoming_data_expected /\ cdata' = NoBeat
    <3>. SUFFICES ASSUME ~PutsBack(m)
                  PROVE  /\ \A u \in Tags : ~IsGathering(ev[u])
                         /\ ~_incoming_data_expected /\ cdata' = NoBeat
      OBVIOUS
    <3>1. \A u \in Tags : ~IsGathering(ev[u]) BY <1>1, <1>7 DEF DInv, PortData, Early
    <3>2. ~_incoming_data_expected BY <3>1, ListedLive DEF _incoming_data_expected
    <3>. QED BY <2>7, <3>1, <3>2
  <2>11. g = e \/ ( /\ g = f /\ m.ok /\ e.n = m.n /\ m.n \in {1, 2, 4} /\ cdata = <<t, 0>>
                    /\ Len(dq) = m.n - 1 /\ \A j \in 1 .. m.n - 1 : dq[j] = <<t, j>>
                    /\ cdata' = NoBeat)
    <3>. SUFFICES ASSUME OffersBeat(m), g = f, ~PutsBack(m)
                  PROVE  /\ m.ok /\ e.n = m.n /\ m.n \in {1, 2, 4} /\ cdata = <<t, 0>>
                         /\ Len(dq) = m.n - 1 /\ \A j \in 1 .. m.n - 1 : dq[j] = <<t, j>>
                         /\ cdata' = NoBeat
      BY <2>9
    <3>1. m.ok /\ cdata # NoBeat BY DEF OffersBeat
    <3>2. cdata = <<t, 0>> /\ Rest(t, 0, m.n)
      BY <1>1, <1>7, <3>1 DEF DInv, PortData, Early
    <3>3. m.n \in {1, 2, 4} BY <1>1 DEF Command
    <3>. HIDE DEF m, t, g
    <3>4. Len(dq) = m.n - 0 - 1 /\ \A j \in 1 .. m.n - 0 - 1 : dq[j] = <<t, 0 + j>>
      BY <3>1, <3>2 DEF Rest
    <3>5. Len(dq) = m.n - 1 /\ \A j \in 1 .. m.n - 1 : dq[j] = <<t, j>> BY <3>3, <3>4
    <3>. QED BY <2>5, <2>10, <3>1, <3>2, <3>3, <3>5 DEF m
  <2>. HIDE DEF g, m, t
  <2>12. AllGood'
    <3>1. g.good BY <2>5, <2>11
    <3>. QED BY <2>8, <3>1 DEF DInv, AllGood
  <2>13. GatherOK'
    <3>. SUFFICES ASSUME NEW u \in Tags, IsGathering(ev'[u])
                  PROVE  ev'[u].dpart \in 1 .. ev'[u].n - 1 /\ Rest(u, ev[u].dpart, ev[u].n)'
      BY <1>3 DEF GatherOK, IsGathering
    <3>1. CASE u = t
      <4>1. g = f BY <2>5, <2>8, <2>11, <3>1 DEF IsGathering
      <4>2. f.dpart = 1 /\ f.n = m.n /\ m.n > 1 /\ m.n \in {1, 2, 4}
        BY <2>5, <2>8, <2>11, <3>1, <4>1 DEF IsGathering
      <4>3. cdata' = NoBeat /\ Len(dq) = m.n - 1 /\ \A j \in 1 .. m.n - 1 : dq[j] = <<t, j>>
        <5>1. f # e BY <2>5, <2>8, <3>1, <4>1 DEF IsGathering
        <5>. QED BY <2>11, <4>1, <5>1
      <4>4. ev'[u].dpart = 1 /\ ev'[u].n = m.n BY <2>8, <3>1, <4>1, <4>2
      <4>5. \A j \in 1 .. m.n - 1 : dq'[j] = <<u, 1 + j - 1>> BY <1>1, <3>1, <4>2, <4>3
      <4>6. Rest(u, ev[u].dpart, ev[u].n)' BY <1>1, <4>3, <4>4, <4>5 DEF Rest
      <4>. QED BY <4>2, <4>4, <4>6
    <3>2. CASE u # t
      <4>1. ev'[u] = ev[u] BY <2>8, <3>2
      <4>2. PutsBack(m) BY <2>10, <4>1
      <4>3. cdata' = cdata BY <2>7, <4>2
      <4>4. ev[u].dpart \in 1 .. ev[u].n - 1 /\ Rest(u, ev[u].dpart, ev[u].n)
        BY <4>1 DEF DInv, GatherOK
      <4>5. Rest(u, ev[u].dpart, ev[u].n)' BY <1>1, <4>1, <4>3, <4>4 DEF Rest
      <4>. QED BY <4>1, <4>4, <4>5
    <3>. QED BY <3>1, <3>2
  <2>14. FilledOK'
    <3>. SUFFICES ASSUME NEW u \in Tags, Filled(ev'[u]) PROVE ~Owed(u)' BY DEF FilledOK, Filled
    <3>1. CASE u = t
      <4>1. g = f /\ g # e BY <2>5, <2>8, <2>11, <3>1 DEF Filled
      <4>2. cdata' = NoBeat /\ m.n \in {1, 2, 4} /\ e.n = m.n /\ Len(dq) = m.n - 1
        BY <2>11, <4>1
      <4>3. ~(e.n > 1) BY <2>5, <2>8, <3>1, <4>1 DEF Filled
      <4>4. Len(dq) = 0 BY <4>2, <4>3
      <4>5. dq' = <<>> BY <1>1, <4>4 DEF IInv, TypeOK
      <4>. QED BY <1>4, <4>2, <4>5 DEF Owed
    <3>2. CASE u # t
      <4>1. ~Owed(u) BY <2>8, <3>2 DEF DInv, FilledOK
      <4>. QED BY <1>5, <2>7, <4>1
    <3>. QED BY <3>1, <3>2
  <2>. QED BY <1>2, <2>12, <2>13, <2>14 DEF DInv
<1>. QED BY <1>6, <1>7 DEF handle_cmd, _assign_actag, Ignored

\* The invariant of the data, for every value of the other constants.
LEMMA DataInvariant ==
  ASSUME Overlap = FALSE
  PROVE  Spec => [](IInv /\ AInv /\ DInv)
<1>. DEFINE D == IInv /\ AInv /\ DInv
<1>1. Init => D
  <2>. SUFFICES ASSUME Init PROVE DInv BY InitInvariant, InitAnswers
  <2>1. \A t \in Tags : ev[t] = NoEvent BY DEF Init
  <2>2. AllGood /\ GatherOK /\ FilledOK
    BY <2>1 DEF NoEvent, AllGood, GatherOK, FilledOK, IsGathering, Filled
  <2>3. PortData BY DEF Init, PortData, NoCmd
  <2>. QED BY <2>2, <2>3 DEF DInv
<1>2. D /\ [Next]_vars => D'
  <2>. SUFFICES ASSUME IInv, AInv, DInv, [Next]_vars PROVE DInv' BY NextInvariant, NextAnswers
  <2>1. CASE Clock BY <2>1, ClockKeeps
  <2>2. CASE handle_cmd BY <2>2, CmdKeeps
  <2>3. CASE handle_afu_tlx_cmd_data_read BY <2>3, DataReadKeeps
  <2>4. CASE ~Clock /\ ~handle_cmd /\ ~handle_afu_tlx_cmd_data_read
    BY <2>4, QuietSteps, KeepsDataOK
  <2>. QED BY <2>1, <2>2, <2>3, <2>4
<1>. QED BY <1>1, <1>2, PTL DEF Spec

\* What an application is sent with a write or an atomic operation is what the
\* AFU sent with it, beat for beat, and all of it: whatever commands without data
\* come between the beats, and whether or not applications leave in the middle.
THEOREM WritesCorrect ==
  ASSUME Overlap = FALSE
  PROVE  Spec => []WriteDataIntact
<1>1. ASSUME IInv, DInv PROVE WriteDataIntact
  <2>. SUFFICES ASSUME NEW c \in Ctx, client[c].st = "CLIENT_VALID", client[c].sock = "open",
                       NEW i \in DOMAIN inbox[c]
                PROVE  /\ ev[inbox[c][i]].good
                       /\ ev[inbox[c][i]].type # "CMD_READ" => ~Owed(inbox[c][i])
    BY DEF WriteDataIntact
  <2>0. inbox[c] = IF client[c].mem = NoTag THEN <<>> ELSE <<client[c].mem>>
    BY <1>1 DEF IInv, AckMatchesRequest
  <2>1. inbox[c] = <<client[c].mem>> /\ client[c].mem # NoTag
    <3>1. inbox[c] # <<>> OBVIOUS
    <3>. QED BY <2>0, <3>1
  <2>2. inbox[c][i] = client[c].mem BY <2>1
  <2>. DEFINE t == client[c].mem
  <2>3. t \in Tags /\ Outstanding(ev[t])
    BY <1>1, <2>1 DEF IInv, TypeOK, Client, AckMatchesRequest
  <2>4. ev[t].good BY <1>1, <2>3 DEF DInv, AllGood
  <2>5. ev[t].type # "CMD_READ" => Filled(ev[t])
    BY <2>3 DEF Outstanding, Filled, GatherTypes
  <2>. QED BY <1>1, <2>2, <2>3, <2>4, <2>5 DEF DInv, FilledOK
<1>2. IInv /\ AInv /\ DInv => WriteDataIntact BY <1>1
<1>. QED BY <1>2, DataInvariant, PTL
=============================================================================
