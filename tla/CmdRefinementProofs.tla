------------------------ MODULE CmdRefinementProofs ------------------------
(***************************************************************************)
(* Proofs about the command engine (Cmd) as long as no application leaves: *)
(* the AFU is answered only for what it waits for, a good read response    *)
(* has the data of the application, and Cmd implements CmdAbs.  None of    *)
(* the three holds once an application leaves with commands under way:     *)
(* ocse then ends their events itself, a read without its data and a       *)
(* pending command with a second answer.                                   *)
(*                                                                         *)
(* Then no client is dropped and no event is terminated (Steady), so every *)
(* step that the AFU sees nothing of leaves the events alone, asks an      *)
(* application for one of them or settles one of them.                     *)
(***************************************************************************)
EXTENDS CmdAnswerProofs

-----------------------------------------------------------------------------
(***************************************************************************)
(* Clients that stay.                                                      *)
(***************************************************************************)
\* No application detaches or dies.
NobodyLeaves == Leaves = {}

SteadyClient(cl) ==
  /\ cl.st \in {"NULL", "CLIENT_VALID"}
  /\ cl.st = "CLIENT_VALID" => cl.sock = "open"
  /\ cl.st = "NULL" => cl.mem = NoTag

Steady == \A c \in Ctx : SteadyClient(client[c])

SameMem == \A c \in Ctx : client'[c].mem = client[c].mem

\* An application is asked for event t, the only one it is asked for.
Asks(t) ==
  /\ Waiting(ev'[t]) /\ client[ev[t].ctx].mem = NoTag /\ client'[ev[t].ctx].mem = t
  /\ \A c \in Ctx : c # ev[t].ctx => client'[c].mem = client[c].mem

\* Event t is settled, and its application is not asked for it any more.
Settles(t) ==
  /\ ~Waiting(ev'[t])
  /\ \A c \in Ctx : client'[c].mem = client[c].mem \/ (client[c].mem = t /\ client'[c].mem = NoTag)

\* What a handler does to the clients and to the events, as far as CmdAbs sees it.
SteadyStep ==
  /\ Steady'
  /\ \/ UNCHANGED ev /\ SameMem
     \/ \E t \in Tags : /\ OthersSame(t) /\ Advances(ev[t], ev'[t])
                        /\ SameMem \/ Asks(t) \/ Settles(t)

\* A step that changes one client changes no other.
LEMMA OneClient ==
  ASSUME IInv, Steady, NEW c \in Ctx, NEW cl, client' = [client EXCEPT ![c] = cl], SteadyClient(cl)
  PROVE  Steady' /\ client'[c] = cl /\ \A d \in Ctx : d # c => client'[d] = client[d]
<1>1. client \in [Ctx -> Client] BY DEF IInv, TypeOK
<1>2. client'[c] = cl /\ \A d \in Ctx : d # c => client'[d] = client[d] BY <1>1
<1>. QED BY <1>2 DEF Steady, SteadyClient

\* Sending a request asks an application that is there.
LEMMA AccessSteady ==
  ASSUME NobodyLeaves, IInv, Steady, NEW t \in Tags, NEW st \in States, Access(t, st),
         Waiting(ev[t]), Waiting([ev[t] EXCEPT !.st = st]),
         client[ev[t].ctx].st # "NULL", Free(ev[t].ctx)
  PROVE  SteadyStep
<1>1. OthersSame(t) /\ Advances(ev[t], ev'[t]) /\ (UNCHANGED client \/ Waiting(ev'[t]))
  BY AccessAdvances
<1>2. client \in [Ctx -> Client] /\ ev[t].ctx \in Ctx BY DEF IInv, TypeOK, Event
<1>3. CASE UNCHANGED client
  <2>1. Steady' /\ SameMem BY <1>3 DEF Steady, SteadyClient, SameMem
  <2>. QED BY <1>1, <2>1 DEF SteadyStep
<1>4. CASE ~UNCHANGED client
  <2>. DEFINE c == ev[t].ctx
              cl == [client[c] EXCEPT !.mem = t]
  <2>1. client[c].sock = "open" /\ client[c].st = "CLIENT_VALID" /\ client[c].mem = NoTag
    BY <1>2 DEF Steady, SteadyClient, Free
  <2>2. put_bytes(c) = {TRUE} BY <2>1 DEF put_bytes
  <2>3. SendRequest(c, t, TRUE) BY <1>4, <2>2 DEF Access, MemFault
  <2>4. client' = [client EXCEPT ![c] = cl] BY <2>3 DEF SendRequest
  <2>5. cl.st = "CLIENT_VALID" /\ cl.sock = "open" /\ cl.mem = t BY <1>2, <2>1 DEF Client
  <2>. HIDE DEF cl
  <2>6. SteadyClient(cl) BY <2>5 DEF SteadyClient
  <2>7. Steady' /\ client'[c] = cl /\ \A d \in Ctx : d # c => client'[d] = client[d]
    BY <1>2, <2>4, <2>6, OneClient
  <2>8. Asks(t) BY <1>1, <1>4, <2>1, <2>5, <2>7 DEF Asks
  <2>. QED BY <1>1, <2>7, <2>8 DEF SteadyStep
<1>. QED BY <1>3, <1>4

\* A step that leaves the clients alone, or their requests.
LEMMA SameClients ==
  ASSUME Steady, UNCHANGED client, OneAdvances PROVE SteadyStep
<1>1. Steady' /\ SameMem BY DEF Steady, SteadyClient, SameMem
<1>. QED BY <1>1 DEF SteadyStep, OneAdvances

\* handle_buffer_write, handle_afu_tlx_write_cmd and handle_write_be_or_amo.
LEMMA AccessSteps ==
  ASSUME NobodyLeaves, IInv, AInv, Steady,
         handle_buffer_write \/ handle_afu_tlx_write_cmd \/ handle_write_be_or_amo
  PROVE  SteadyStep
<1>1. CASE UNCHANGED <<ev, client>> BY <1>1, SameClients DEF OneAdvances
<1>2. ASSUME NEW i \in DOMAIN list, NEW st \in {"MEM_REQUEST", "DMA_MEM_RESP", "MEM_RECEIVED"},
             Access(list[i], st), ev[list[i]].st \in {"MEM_IDLE", "MEM_RECEIVED"},
             client[ev[list[i]].ctx].st # "NULL", Free(ev[list[i]].ctx)
      PROVE  SteadyStep
  <2>1. list[i] \in Tags /\ ev[list[i]] \in Event BY ListedLive
  <2>2. Waiting(ev[list[i]]) /\ Waiting([ev[list[i]] EXCEPT !.st = st]) /\ st \in States
    BY <1>2, <2>1 DEF Waiting, Event, States
  <2>. QED BY <1>2, <2>1, <2>2, AccessSteady
<1>3. CASE handle_buffer_write BY <1>1, <1>2, <1>3 DEF handle_buffer_write, Present, First
<1>4. CASE handle_afu_tlx_write_cmd
  BY <1>1, <1>2, <1>4 DEF handle_afu_tlx_write_cmd, Present, First, IsReadyWrite
<1>5. CASE handle_write_be_or_amo
  BY <1>1, <1>2, <1>5 DEF handle_write_be_or_amo, Present, First, IsReadyOp
<1>. QED BY <1>3, <1>4, <1>5

\* handle_interrupt writes to a socket that is open.
LEMMA InterruptSteady == ASSUME NobodyLeaves, IInv, AInv, Steady, handle_interrupt PROVE SteadyStep
<1>1. OneAdvances BY interruptAdvances
<1>2. CASE UNCHANGED client BY <1>1, <1>2, SameClients
<1>3. ASSUME NEW i \in Present(First(IsReadyInterrupt)), NEW ok \in put_bytes(ev[list[i]].ctx),
             client' = [client EXCEPT ![ev[list[i]].ctx] = IF ok THEN @ ELSE client_drop(@)]
      PROVE  UNCHANGED client
  <2>1. client \in [Ctx -> Client] /\ ev[list[i]].ctx \in Ctx
    BY ListedLive DEF Present, First, Event, IInv, TypeOK
  <2>2. client[ev[list[i]].ctx].sock = "open" BY <2>1 DEF Present, Steady, SteadyClient
  <2>3. ok = TRUE BY <2>2 DEF put_bytes
  <2>. QED BY <1>3, <2>1, <2>3
<1>. QED BY <1>2, <1>3 DEF handle_interrupt

\* _handle_client settles the event it gets the answer for.
LEMMA ClientSteady == ASSUME NobodyLeaves, IInv, AInv, Steady, _handle_client PROVE SteadyStep
<1>1. OneAdvances BY _handle_clientAdvances
<1>2. CASE UNCHANGED client BY <1>1, <1>2, SameClients
<1>3. CASE client[cur].st = "CLIENT_VALID" /\ Reply(cur)
  <2>. DEFINE t == client[cur].mem
              cl == [client[cur] EXCEPT !.mem = NoTag]
  <2>1. client \in [Ctx -> Client] /\ cur \in Ctx /\ ev \in [Tags -> Event] BY DEF IInv, TypeOK
  <2>2. client[cur].sock = "open" BY <1>3, <2>1 DEF Steady, SteadyClient
  <2>3. t # NoTag
    <3>1. inbox[cur] # <<>> BY <1>3 DEF Reply
    <3>. QED BY <1>3, <2>1, <2>2, <3>1 DEF IInv, AckMatchesRequest
  <2>4. t \in Tags BY <2>1, <2>3 DEF Client
  <2>5. client' = [client EXCEPT ![cur] = cl] BY <1>3 DEF Reply
  <2>6. cl.st = "CLIENT_VALID" /\ cl.sock = "open" /\ cl.mem = NoTag
    BY <1>3, <2>1, <2>2 DEF Client
  <2>7. \E e : Update(t, e) /\ e.st = "MEM_DONE"
    <3>1. \E e : /\ Update(t, e)
                 /\ \/ e = [ev[t] EXCEPT !.st = "MEM_DONE", !.type = "CMD_FAILED",
                                         !.resp = "failed"]
                    \/ e = [ev[t] EXCEPT !.st = "MEM_DONE", !.ret = ev[t].type \in ReturnTypes]
      BY <1>3, <2>3 DEF Reply, handle_mem_return, handle_aerror, ReturnTypes
    <3>2. ev[t] \in Event BY <2>1, <2>4
    <3>. HIDE DEF t
    <3>. QED BY <3>1, <3>2 DEF Event
  <2>8. OthersSame(t) /\ ev'[t].st = "MEM_DONE" BY <2>1, <2>4, <2>7 DEF Update, OthersSame
  <2>. HIDE DEF cl
  <2>9. SteadyClient(cl) BY <2>6 DEF SteadyClient
  <2>10. Steady' /\ client'[cur] = cl /\ \A d \in Ctx : d # cur => client'[d] = client[d]
    BY <2>1, <2>5, <2>9, OneClient
  <2>11. Settles(t) BY <2>6, <2>8, <2>10 DEF Settles, Waiting
  <2>12. Advances(ev[t], ev'[t])
    <3>1. Waiting(ev[t])
      BY <1>3, <2>1, <2>3 DEF IInv, AckMatchesRequest, Outstanding, Waiting
    <3>2. ev'[t] # ev[t] BY <2>8, <3>1 DEF Waiting
    <3>. QED BY <1>1, <2>4, <2>8, <3>2 DEF OneAdvances, OthersSame
  <2>. QED BY <2>4, <2>8, <2>10, <2>11, <2>12 DEF SteadyStep
<1>4. ~_detach(cur) /\ ~(client[cur].st = "CLIENT_VALID" /\ Lost(cur))
  <2>1. cur \in Ctx BY DEF IInv, TypeOK
  <2>. QED BY <2>1 DEF _detach, Lost, NobodyLeaves, Steady, SteadyClient
<1>. QED BY <1>2, <1>3, <1>4 DEF _handle_client, NoMessage

\* The steps that send nothing to the AFU and accept nothing from it.
LEMMA SteadySteps ==
  ASSUME NobodyLeaves, IInv, AInv, Steady, [Next]_vars, ~handle_response,
         ~handle_xlate_intrp_pending_sent, ~handle_cmd
  PROVE  SteadyStep
<1>1. client \in [Ctx -> Client] /\ cur \in Ctx /\ ev \in [Tags -> Event] BY DEF IInv, TypeOK
<1>2. CASE handle_buffer_write \/ handle_afu_tlx_write_cmd \/ handle_write_be_or_amo
  BY <1>2, AccessSteps
<1>3. CASE handle_interrupt BY <1>3, InterruptSteady
<1>4. CASE _handle_client BY <1>4, ClientSteady
<1>5. CASE handle_afu_tlx_cmd_data_read
  BY <1>5, data_readAdvances, SameClients DEF handle_afu_tlx_cmd_data_read
<1>6. CASE client_cmd
  <2>. DEFINE idle == client[cur].st = "CLIENT_VALID" /\ \E t \in Tags : Live(t) /\ ev[t].ctx = cur
              cl == [client[cur] EXCEPT !.idle = idle]
  <2>1. client' = [client EXCEPT ![cur] = cl] BY <1>6 DEF client_cmd
  <2>2. client[cur].st # "CLIENT_NONE" BY <1>1 DEF Steady, SteadyClient
  <2>3. ev' = ev BY <1>1, <1>6, <2>2 DEF client_cmd
  <2>. HIDE DEF idle
  <2>4. cl.st = client[cur].st /\ cl.sock = client[cur].sock /\ cl.mem = client[cur].mem
    BY <1>1 DEF Client
  <2>. HIDE DEF cl
  <2>5. SteadyClient(cl) BY <1>1, <2>4 DEF Steady, SteadyClient
  <2>6. Steady' /\ client'[cur] = cl /\ \A d \in Ctx : d # cur => client'[d] = client[d]
    BY <1>1, <2>1, <2>5, OneClient
  <2>7. SameMem BY <2>4, <2>6 DEF SameMem
  <2>. QED BY <2>3, <2>6, <2>7 DEF SteadyStep
<1>7. ASSUME NEW c \in Ctx, Open(c) PROVE SteadyStep
  <2>. DEFINE cl == [NoClient(client[c].gen + 1) EXCEPT !.st = "CLIENT_VALID", !.sock = "open"]
  <2>1. client' = [client EXCEPT ![c] = cl] /\ ev' = ev /\ client[c].st = "NULL" BY <1>7 DEF Open
  <2>2. cl.st = "CLIENT_VALID" /\ cl.sock = "open" /\ cl.mem = NoTag BY DEF NoClient
  <2>. HIDE DEF cl
  <2>3. SteadyClient(cl) BY <2>2 DEF SteadyClient
  <2>4. Steady' /\ client'[c] = cl /\ \A d \in Ctx : d # c => client'[d] = client[d]
    BY <2>1, <2>3, OneClient
  <2>5. client[c].mem = NoTag BY <2>1 DEF Steady, SteadyClient
  <2>6. SameMem BY <2>2, <2>4, <2>5 DEF SameMem
  <2>. QED BY <2>1, <2>4, <2>6 DEF SteadyStep
<1>8. CASE UNCHANGED <<ev, client>> BY <1>8, SameClients DEF OneAdvances
<1>9. ~ReleaseSlot /\ \A c \in Ctx : ~Die(c)
  BY <1>1 DEF ReleaseSlot, Die, NobodyLeaves, Steady, SteadyClient
<1>. QED BY <1>2, <1>3, <1>4, <1>5, <1>6, <1>7, <1>8, <1>9 DEF Next, Loop, Clock, EmptySlot, vars

\* handle_cmd gives a client an actag at most.
LEMMA CmdSteady ==
  ASSUME IInv, Steady,
         handle_response \/ handle_xlate_intrp_pending_sent \/ handle_cmd
  PROVE  Steady' /\ SameMem
<1>1. CASE UNCHANGED client BY <1>1 DEF Steady, SteadyClient, SameMem
<1>2. CASE _assign_actag(cmdport)
  <2>. DEFINE c == cmdport.pasid
              cl == [client[c] EXCEPT !.actag = IF client[c].st # "NULL" THEN cmdport.actag ELSE @]
  <2>1. client \in [Ctx -> Client] /\ c \in Ctx BY DEF IInv, TypeOK, Command
  <2>2. client' = [client EXCEPT ![c] = cl] BY <1>2 DEF _assign_actag
  <2>3. cl.st = client[c].st /\ cl.sock = client[c].sock /\ cl.mem = client[c].mem
    BY <2>1 DEF Client
  <2>. HIDE DEF cl
  <2>4. SteadyClient(cl) BY <2>1, <2>3 DEF Steady, SteadyClient
  <2>5. Steady' /\ client'[c] = cl /\ \A d \in Ctx : d # c => client'[d] = client[d]
    BY <2>1, <2>2, <2>4, OneClient
  <2>. QED BY <2>3, <2>5 DEF SameMem
<1>. QED BY <1>1, <1>2 DEF handle_response, handle_xlate_intrp_pending_sent, handle_cmd, Ignored,
                           Accepted, _add_cmd

\* Clients stay.
LEMMA NextSteady == ASSUME NobodyLeaves, IInv, AInv, Steady, [Next]_vars PROVE Steady'
BY SteadySteps, CmdSteady DEF SteadyStep

-----------------------------------------------------------------------------
(***************************************************************************)
(* What the AFU waits for, and the data of reads.                          *)
(***************************************************************************)
\* The AFU knows which of its commands are pending, or is just being told; and
\* the application returned the data of a read that is done.
AwaitOK(t) ==
  /\ ev[t].st = "MEM_PENDING_SENT" =>
       IF port.tag = t THEN port.code = "pending" /\ afu[t].st = "sent" ELSE afu[t].st = "pend"
  /\ ev[t].st # "MEM_PENDING_SENT" =>
       afu[t].st = "sent" /\ (port.tag = t => port.code # "pending")
  /\ ReturnsData(ev[t]) /\ ev[t].st = "MEM_DONE" => ev[t].ret

AwaitsOK == \A t \in Tags : Live(t) => AwaitOK(t)

WInv == AwaitsOK /\ AnswersAwaited /\ GoodReadHasData

\* An event that returns data has the type of one.
LEMMA ReturnsDataType ==
  ASSUME NEW e \in Event, EventOK(e)
  PROVE  /\ ReturnsData(e) => e.type \in ReturnTypes
         /\ e.ropc = "READ_RESP" /\ ~ReturnsData(e) => e.resp = "failed"
<1>1. CASE e.type = "CMD_FAILED" BY <1>1 DEF EventOK, ReturnsData, DataOpcodes
<1>2. CASE e.type # "CMD_FAILED"
  <2>1. e.type = TypeOf(e.op) /\ e.ropc = RespOpcode(e.op) /\ e.op \in Ops
    BY <1>2 DEF EventOK, Event
  <2>2. e.op \in ReadOps \cup (AmoOps \ {"AMO_W"}) => TypeOf(e.op) \in ReturnTypes
    BY <2>1 DEF TypeOf, ReturnTypes, ReadOps, AmoOps
  <2>3. e.op \notin ReadOps \cup (AmoOps \ {"AMO_W"}) => RespOpcode(e.op) # "READ_RESP"
    BY <2>1 DEF RespOpcode, ReadOps, WriteOps, AmoOps, IntOps, Ops
  <2>. QED BY <1>2, <2>1, <2>2, <2>3 DEF ReturnsData
<1>. QED BY <1>1, <1>2

\* The packet tells the AFU about a pending command.
LEMMA ClockAwaits == ASSUME IInv, AInv, WInv, Clock PROVE WInv'
<1>1. PICK m \in Command : Issues(m) BY ClockIssues
<1>2. ev' = ev /\ port'.tag = NoTag BY DEF Clock, NoResp
<1>3. ASSUME NEW t \in Tags, Live(t) PROVE AwaitOK(t)'
  <2>1. AwaitOK(t) /\ t # NoTag /\ m.tag # t /\ afu[t] \in AfuTag
    BY <1>1, <1>3, ClockTags, ConstantsAssumption
    DEF WInv, AwaitsOK, ConstantsAssumption, IInv, TypeOK
  <2>2. CASE port.tag # t
    <3>1. afu'[t] = afu[t] BY <1>1, <2>1, <2>2, ClockTags
    <3>. QED BY <1>2, <2>1, <2>2, <3>1 DEF AwaitOK, ReturnsData
  <2>3. CASE port.tag = t
    <3>1. afu'[t] = Receive(afu[t], port) BY <1>1, <2>3, ClockTags
    <3>2. \/ port.code = "pending" /\ afu'[t] = [afu[t] EXCEPT !.st = "pend"]
          \/ /\ port.code # "pending"
             /\ afu'[t] = [afu[t] EXCEPT !.got = @ \cup (port.dp .. (port.dp + port.dl - 1)),
                                         !.cnt = @ + port.dl]
      BY <1>3, <2>3, <3>1, ReceiveContinues
    <3>3. afu'[t].st = IF port.code = "pending" THEN "pend" ELSE afu[t].st
      BY <2>1, <3>2 DEF AfuTag
    <3>. QED BY <1>2, <2>1, <2>3, <3>3 DEF AwaitOK, ReturnsData
  <2>. QED BY <2>2, <2>3
<1>4. AwaitsOK' BY <1>2, <1>3 DEF AwaitsOK, Live
<1>. QED BY <1>2, <1>4 DEF WInv, AnswersAwaited, GoodReadHasData

\* The events and the tags that a step does not touch.
LEMMA OthersAwait ==
  ASSUME IInv, WInv, NEW t \in Tags, OthersSame(t), afu' = afu,
         port' = port \/ (port.tag = NoTag /\ port'.tag = t), Live(t)' => AwaitOK(t)'
  PROVE  AwaitsOK'
<1>1. ASSUME NEW u \in Tags, u # t, Live(u)' PROVE AwaitOK(u)'
  <2>1. Live(u) /\ AwaitOK(u) /\ ev'[u] = ev[u] /\ u # NoTag
    BY <1>1, ConstantsAssumption DEF OthersSame, Live, WInv, AwaitsOK, ConstantsAssumption
  <2>2. (port'.tag = u <=> port.tag = u) /\ (port.tag = u => port' = port) BY <1>1, <2>1
  <2>. QED BY <2>1, <2>2 DEF AwaitOK, ReturnsData
<1>. QED BY <1>1 DEF AwaitsOK

\* handle_response.
LEMMA ResponseAwaits == ASSUME IInv, AInv, WInv, handle_response PROVE WInv'
<1>1. afu' = afu BY DEF handle_response
<1>2. CASE UNCHANGED <<ev, port>>
  BY <1>1, <1>2 DEF WInv, AwaitsOK, AwaitOK, ReturnsData, Live, AnswersAwaited, GoodReadHasData
<1>3. ASSUME NEW t \in Tags, Live(t), IsReady(ev[t]), OthersSame(t),
             BacksUp(t) \/ Defers(t) \/ Splits(t) \/ Ends(t)
      PROVE  WInv'
  <2>. DEFINE e == ev[t]
              f == Chunk(ev[t])
  <2>1. AwaitOK(t) /\ EventOK(e) /\ SplitOK(e) /\ e \in Event /\ afu[t] \in AfuTag
    BY <1>3 DEF WInv, AwaitsOK, AInv, EventsOK, IInv, SplitDone, TypeOK
  <2>2. port' = port \/ (port.tag = NoTag /\ port'.tag = t)
    BY <1>3 DEF BacksUp, Defers, Splits, Ends, Answer
  <2>3. ASSUME Live(t)' => AwaitOK(t)' PROVE AwaitsOK' BY <1>1, <1>3, <2>2, <2>3, OthersAwait
  <2>4. /\ f \in Event /\ f.st = e.st /\ f.type = e.type /\ f.op = e.op /\ f.ropc = e.ropc
        /\ f.resp = e.resp /\ f.ret = e.ret /\ f.ctx = e.ctx
        /\ IsSplit(e) => e.resp # "pending"
    BY <2>1, ChunkParts
  <2>5. e.st # "MEM_PENDING_SENT" /\ afu[t].st = "sent" /\ e.ropc \notin PostedOpcodes
    BY <1>3, <2>1 DEF IsReady, IsPending, AwaitOK, EventOK
  <2>6. ReturnsData(f) = ReturnsData(e) BY <2>4 DEF ReturnsData
  <2>7. ReturnsData(e) => e.type \in ReturnTypes BY <2>1, ReturnsDataType
  <2>8. e.ropc = "READ_RESP" /\ ~ReturnsData(e) => e.resp = "failed" BY <2>1, ReturnsDataType
  <2>9. e.st = "MEM_DONE" /\ ReturnsData(e) => e.ret BY <2>1 DEF AwaitOK
  <2>. HIDE DEF f
  <2>10. CASE BacksUp(t)
    <3>1. port' = port /\ ev'[t] = BackUp(f) BY <2>10 DEF BacksUp, f
    <3>2. /\ ev'[t].st = e.st /\ ev'[t].type = e.type /\ ev'[t].op = e.op /\ ev'[t].ret = e.ret
      BY <2>4, <3>1 DEF BackUp, Event
    <3>3. AwaitOK(t)' BY <1>1, <2>1, <3>1, <3>2 DEF AwaitOK, ReturnsData
    <3>4. AnswersAwaited' /\ GoodReadHasData'
      BY <1>1, <3>1 DEF WInv, AnswersAwaited, GoodReadHasData
    <3>. QED BY <2>3, <3>3, <3>4 DEF WInv
  <2>11. CASE Defers(t)
    <3>1. /\ port'.tag = t /\ port'.ropc = e.ropc
          /\ port'.code = IF ReturnsData(e) THEN "ok" ELSE e.resp
          /\ ev'[t] = [e EXCEPT !.st = "MEM_PENDING_SENT"]
      BY <2>11 DEF Defers, Answer
    <3>2. e.type = "CMD_FAILED" /\ e.resp = "pending" BY <2>1, <2>11 DEF Defers, EventOK
    <3>3. port'.code = "pending" /\ ev'[t].st = "MEM_PENDING_SENT"
      BY <2>1, <3>1, <3>2 DEF ReturnsData, Event
    <3>4. AwaitOK(t)' BY <1>1, <2>5, <3>1, <3>3 DEF AwaitOK
    <3>5. AnswersAwaited' /\ GoodReadHasData'
      BY <1>1, <2>5, <3>1, <3>3 DEF AnswersAwaited, GoodReadHasData, PostedOpcodes
    <3>. QED BY <2>3, <3>4, <3>5 DEF WInv
  <2>12. CASE Splits(t) \/ Ends(t)
    <3>. DEFINE ret == ReturnsData(f) /\ f.ret
    <3>1. /\ port'.tag = t /\ port'.ropc = e.ropc
          /\ port'.code = (IF ReturnsData(e) THEN "ok" ELSE e.resp) /\ port'.ret = ret
          /\ ~IsPending(e)
      BY <2>4, <2>6, <2>12 DEF Splits, Ends, Answer, f
    <3>2. e.st = "MEM_DONE" BY <1>3, <3>1 DEF IsReady
    <3>3. ReturnsData(e) => ret BY <2>4, <2>6, <2>9, <3>2
    <3>. HIDE DEF ret
    <3>4. GoodReadHasData' BY <2>8, <3>1, <3>3 DEF GoodReadHasData
    <3>5. AnswersAwaited' BY <1>1, <2>5, <3>1 DEF AnswersAwaited, PostedOpcodes
    <3>6. CASE Ends(t)
      <4>1. ~Live(t)' BY <3>6 DEF Ends, Live, NoEvent
      <4>. QED BY <2>3, <3>4, <3>5, <4>1 DEF WInv
    <3>7. CASE Splits(t)
      <4>1. ev'[t] = f /\ IsSplit(e) BY <3>7 DEF Splits, f
      <4>2. port'.code # "pending" BY <2>4, <3>1, <4>1
      <4>3. AwaitOK(t)' BY <1>1, <2>4, <2>5, <2>9, <3>1, <4>1, <4>2 DEF AwaitOK, ReturnsData
      <4>. QED BY <2>3, <3>4, <3>5, <4>3 DEF WInv
    <3>. QED BY <2>12, <3>6, <3>7
  <2>. QED BY <1>3, <2>10, <2>11, <2>12
<1>. QED BY <1>2, <1>3, ResponseSteps

\* handle_xlate_intrp_pending_sent.
LEMMA PendingSentAwaits == ASSUME IInv, AInv, WInv, handle_xlate_intrp_pending_sent PROVE WInv'
<1>1. afu' = afu BY DEF handle_xlate_intrp_pending_sent
<1>2. CASE UNCHANGED <<ev, port>>
  BY <1>1, <1>2 DEF WInv, AwaitsOK, AwaitOK, ReturnsData, Live, AnswersAwaited, GoodReadHasData
<1>3. ASSUME NEW t \in Tags, Live(t), IsPendingSent(ev[t]), OthersSame(t), Notes(t) \/ Posts(t)
      PROVE  WInv'
  <2>1. AwaitOK(t) /\ ev[t] \in Event /\ ev[t].st = "MEM_PENDING_SENT" /\ t # NoTag
    BY <1>3, ConstantsAssumption
    DEF WInv, AwaitsOK, IInv, TypeOK, IsPendingSent, ConstantsAssumption
  <2>2. ASSUME Live(t)' => AwaitOK(t)' PROVE AwaitsOK'
    BY <1>1, <1>3, <2>2, OthersAwait DEF Notes, Posts
  <2>3. CASE Notes(t)
    <3>1. port' = port /\ ev'[t].st = ev[t].st BY <2>1, <2>3 DEF Notes, Event
    <3>2. AwaitOK(t)' BY <1>1, <2>1, <3>1 DEF AwaitOK
    <3>. QED BY <1>1, <2>2, <3>1, <3>2 DEF WInv, AnswersAwaited, GoodReadHasData
  <2>4. CASE Posts(t)
    <3>1. ~Live(t)' BY <2>4 DEF Posts, Live, NoEvent
    <3>2. afu[t].st = "pend" BY <2>1, <2>4 DEF Posts, AwaitOK
    <3>3. AnswersAwaited' /\ GoodReadHasData'
      BY <1>1, <2>4, <3>2 DEF Posts, AnswersAwaited, GoodReadHasData, PostedOpcodes
    <3>. QED BY <2>2, <3>1, <3>3 DEF WInv
  <2>. QED BY <1>3, <2>3, <2>4
<1>. QED BY <1>2, <1>3, PendingSentSteps

\* handle_cmd.
LEMMA CmdAwaits == ASSUME IInv, AInv, WInv, handle_cmd PROVE WInv'
<1>1. UNCHANGED <<port, afu>> BY CmdSteps
<1>2. AnswersAwaited' /\ GoodReadHasData' BY <1>1 DEF WInv, AnswersAwaited, GoodReadHasData
<1>3. CASE UNCHANGED ev BY <1>1, <1>2, <1>3 DEF WInv, AwaitsOK, AwaitOK, ReturnsData, Live
<1>4. ASSUME NEW t \in Tags, Accepts(t) PROVE AwaitsOK'
  <2>1. PICK c \in Ctx : NewOK(ev'[t], c, cmdport) BY <1>4 DEF Accepts
  <2>2. afu[t].st = "sent" /\ port.tag # t BY <1>4 DEF Accepts, Fresh
  <2>3. ev'[t].st = "MEM_DONE" => ~ReturnsData(ev'[t])
    <3>. SUFFICES ASSUME ev'[t].st = "MEM_DONE", ReturnsData(ev'[t]) PROVE FALSE OBVIOUS
    <3>1. ev'[t].type = "CMD_TOUCH" /\ ev'[t].type = TypeOf(ev'[t].op)
      BY <2>1 DEF NewOK, ReturnsData, EventOK
    <3>. QED BY <3>1 DEF ReturnsData, TypeOf, ReadOps, AmoOps
  <2>4. AwaitOK(t)' BY <1>1, <2>1, <2>2, <2>3 DEF AwaitOK, NewOK, ReturnsData
  <2>. QED BY <1>1, <1>4, <2>4, OthersAwait DEF Accepts
<1>. QED BY <1>2, <1>3, <1>4, CmdSteps DEF WInv

\* An event that advances is not pending, and is done only with its data.
LEMMA AdvancesAwaits ==
  ASSUME IInv, AInv, WInv, NEW t \in Tags, OthersSame(t), Advances(ev[t], ev'[t]), IInv',
         UNCHANGED <<port, afu>>
  PROVE  WInv'
<1>. DEFINE e == ev[t]
            f == ev'[t]
<1>1. e \in Event /\ f \in Event /\ EventOK(e) /\ SplitOK(e)
  BY DEF IInv, TypeOK, SplitDone, AInv, EventsOK
<1>2. Waiting(e) BY DEF Advances
<1>3. Live(t) /\ e.st # "MEM_PENDING_SENT" /\ f.st # "MEM_PENDING_SENT"
  BY <1>2 DEF Advances, GoesOn, Fails, Pends, Waiting, IsPending, Live
<1>4. AwaitOK(t) BY <1>3 DEF WInv, AwaitsOK
<1>5. ReturnsData(f) /\ f.st = "MEM_DONE" => f.ret
  <2>. SUFFICES ASSUME ReturnsData(f), f.st = "MEM_DONE" PROVE f.ret OBVIOUS
  <2>1. GoesOn(e, f) BY DEF Advances, ReturnsData, Fails, Pends
  <2>2. EventOK(f) BY <1>1, AdvancesOK
  <2>3. f.type \in ReturnTypes BY <1>1, <2>2, ReturnsDataType
  <2>. QED BY <2>1, <2>3 DEF GoesOn, Waiting
<1>6. AwaitOK(t)' BY <1>3, <1>4, <1>5 DEF AwaitOK, ReturnsData
<1>7. AwaitsOK' BY <1>6, OthersAwait
<1>. QED BY <1>7 DEF WInv, AnswersAwaited, GoodReadHasData

\* Every step keeps what the AFU waits for.
LEMMA NextAwaits ==
  ASSUME NobodyLeaves, IInv, AInv, Steady, WInv, [Next]_vars PROVE WInv'
<1>1. CASE Clock BY <1>1, ClockAwaits
<1>2. CASE handle_response BY <1>2, ResponseAwaits
<1>3. CASE handle_xlate_intrp_pending_sent BY <1>3, PendingSentAwaits
<1>4. CASE handle_cmd BY <1>4, CmdAwaits
<1>5. CASE ~Clock /\ ~handle_response /\ ~handle_xlate_intrp_pending_sent /\ ~handle_cmd
  <2>1. UNCHANGED <<port, afu>> BY <1>5, InternalSteps DEF Internal
  <2>2. IInv' BY NextInvariant
  <2>3. CASE UNCHANGED ev
    BY <2>1, <2>3 DEF WInv, AwaitsOK, AwaitOK, ReturnsData, Live, AnswersAwaited, GoodReadHasData
  <2>4. ASSUME NEW t \in Tags, OthersSame(t), Advances(ev[t], ev'[t]) PROVE WInv'
    BY <2>1, <2>2, <2>4, AdvancesAwaits
  <2>. QED BY <1>5, <2>3, <2>4, SteadySteps DEF SteadyStep
<1>. QED BY <1>1, <1>2, <1>3, <1>4, <1>5

\* What holds as long as nobody leaves.
LEMMA SteadyInvariant ==
  ASSUME NobodyLeaves
  PROVE  Spec => [](IInv /\ AInv /\ Steady /\ WInv)
<1>. DEFINE S == IInv /\ AInv /\ Steady /\ WInv
<1>1. Init => S
  <2>1. Init => Steady BY DEF Init, Steady, SteadyClient, NoClient
  <2>2. Init => WInv
    BY DEF Init, WInv, AwaitsOK, Live, NoEvent, AnswersAwaited, GoodReadHasData, NoResp
  <2>. QED BY <2>1, <2>2, InitInvariant, InitAnswers
<1>2. S /\ [Next]_vars => S' BY NextInvariant, NextAnswers, NextSteady, NextAwaits
<1>. QED BY <1>1, <1>2, PTL DEF Spec

\* The AFU is never answered for a tag it does not wait for, and gets XLATE_DONE
\* or INTRP_RDY only for a command it was told is pending.
THEOREM AnswersCorrect ==
  ASSUME NobodyLeaves
  PROVE  Spec => []AnswersAwaited
<1>1. WInv => AnswersAwaited BY DEF WInv
<1>. QED BY <1>1, SteadyInvariant, PTL

\* A good read response carries data that the application returned.
THEOREM ReadsCorrect ==
  ASSUME NobodyLeaves
  PROVE  Spec => []GoodReadHasData
<1>1. WInv => GoodReadHasData BY DEF WInv
<1>. QED BY <1>1, SteadyInvariant, PTL

-----------------------------------------------------------------------------
(***************************************************************************)
(* The refinement of CmdAbs.  View(t) is cmds[t] of the refinement         *)
(* mapping; a step changes the view of one tag at most.                    *)
(***************************************************************************)
View(t) ==
  IF Live(t) THEN [phase |-> PhaseOf(t), ctx |-> ev[t].ctx, n |-> ev[t].n,
                   left |-> ev[t].n - ev[t].sent]
  ELSE [phase |-> "idle", ctx |-> "none", n |-> 0, left |-> 0]

Views == [t \in Tags |-> View(t)]

OtherViews(t) == \A u \in Tags : u # t => View(u)' = View(u)

\* A tag that becomes idle, and one that changes in part.
LEMMA OneView ==
  ASSUME NEW t \in Tags, OtherViews(t), NEW v, View(t)' = v
  PROVE  Views' = [Views EXCEPT ![t] = v]
BY DEF Views, OtherViews

\* The steps of CmdAbs, in terms of the view of their tag.
LEMMA AbsAccept ==
  ASSUME NEW t \in Tags, OtherViews(t), ~Live(t), NEW c \in Ctx, NEW n \in {1, 2, 4},
         NEW phase \in {"accepted", "settled"},
         View(t)' = [phase |-> phase, ctx |-> c, n |-> n, left |-> n]
  PROVE  Abs!Next
<1>1. Views' = [Views EXCEPT ![t] = [phase |-> phase, ctx |-> c, n |-> n, left |-> n]]
  BY OneView
<1>2. Views[t].phase = "idle" BY DEF Views, View
<1>3. Abs!Accept(t, c, n) BY <1>1, <1>2 DEF Abs!Accept, Abs!In, Views, View
<1>. QED BY <1>3 DEF Abs!Next

\* The application is asked for a command, no other command of its being asked.
LEMMA AbsAsk ==
  ASSUME NEW t \in Tags, OtherViews(t), View(t).phase = "accepted",
         \A u \in Tags : View(u).phase = "asked" => View(u).ctx # View(t).ctx,
         View(t)' = [View(t) EXCEPT !.phase = "asked"]
  PROVE  Abs!Next
<1>1. Views' = [Views EXCEPT ![t] = [View(t) EXCEPT !.phase = "asked"]] BY OneView
<1>2. \A u \in Tags : Views[u] = View(u) BY DEF Views
<1>3. Views' = [Views EXCEPT ![t].phase = "asked"] BY <1>1, <1>2
<1>4. /\ Views[t].phase = "accepted"
      /\ \A u \in Tags : Views[u].phase = "asked" => Views[u].ctx # Views[t].ctx
  BY <1>2
<1>5. Abs!Ask(t) BY <1>3, <1>4, Zenon DEF Abs!Ask, Abs!In, Abs!Move, Views, View
<1>. QED BY <1>5 DEF Abs!Next

\* A command is settled, with or without a question to the application.
LEMMA AbsSettle ==
  ASSUME NEW t \in Tags, OtherViews(t), View(t).phase \in {"accepted", "asked"},
         View(t)' = [View(t) EXCEPT !.phase = "settled"]
  PROVE  Abs!Next
<1>1. Views' = [Views EXCEPT ![t] = [View(t) EXCEPT !.phase = "settled"]] BY OneView
<1>2. Views[t] = View(t) BY DEF Views
<1>3. Views' = [Views EXCEPT ![t].phase = "settled"] BY <1>1, <1>2
<1>4. Views[t].phase = "accepted" \/ Views[t].phase = "asked" BY <1>2
<1>5. Abs!Settle(t) BY <1>3, <1>4, Zenon DEF Abs!Settle, Abs!In, Abs!Move, Views, View
<1>. QED BY <1>5 DEF Abs!Next

\* A settled command, of which nothing was answered, is deferred.
LEMMA AbsDefer ==
  ASSUME NEW t \in Tags, OtherViews(t), View(t).phase = "settled", View(t).left = View(t).n,
         View(t)' = [View(t) EXCEPT !.phase = "deferred"]
  PROVE  Abs!Next
<1>1. Views' = [Views EXCEPT ![t] = [View(t) EXCEPT !.phase = "deferred"]] BY OneView
<1>2. Views[t] = View(t) BY DEF Views
<1>3. Views' = [Views EXCEPT ![t].phase = "deferred"] BY <1>1, <1>2
<1>4. Views[t].phase = "settled" /\ Views[t].left = Views[t].n BY <1>2
<1>5. Abs!Defer(t) BY <1>3, <1>4, Zenon DEF Abs!Defer, Abs!In, Abs!Move, Views, View
<1>. QED BY <1>5 DEF Abs!Next

\* A part of a settled command is answered, and more is left.
LEMMA AbsPart ==
  ASSUME NEW t \in Tags, OtherViews(t), View(t).phase = "settled", NEW k \in {1, 2, 4},
         k \in 1 .. View(t).left, k # View(t).left,
         View(t)' = [View(t) EXCEPT !.left = View(t).left - k]
  PROVE  Abs!Next
<1>1. Views' = [Views EXCEPT ![t] = [View(t) EXCEPT !.left = View(t).left - k]] BY OneView
<1>2. Views[t] = View(t) BY DEF Views
<1>3. Views' = [Views EXCEPT ![t].left = @ - k] BY <1>1, <1>2
<1>4. Views[t].phase = "settled" /\ k \in 1 .. Views[t].left /\ k # Views[t].left BY <1>2
<1>5. Abs!Part(t, k) BY <1>3, <1>4, Zenon DEF Abs!Part, Abs!In, Views, View
<1>. QED BY <1>5 DEF Abs!Next

\* The last part, a failure, or the posted command that resumes it.
LEMMA AbsRetire ==
  ASSUME NEW t \in Tags, OtherViews(t), ~Live(t)',
         \/ View(t).phase = "deferred"
         \/ View(t).phase = "settled" /\ View(t).left = View(t).n
         \/ View(t).phase = "settled" /\ View(t).left \in {1, 2, 4}
  PROVE  Abs!Next
<1>1. View(t)' = [phase |-> "idle", ctx |-> "none", n |-> 0, left |-> 0] BY DEF View
<1>2. Views' = [Views EXCEPT ![t] = [phase |-> "idle", ctx |-> "none", n |-> 0, left |-> 0]]
  BY <1>1, OneView
<1>3. Views[t] = View(t) BY DEF Views
<1>4. CASE View(t).phase = "deferred"
  <2>1. Views[t].phase = "deferred" BY <1>3, <1>4
  <2>2. Abs!Resume(t) BY <1>2, <2>1, Zenon DEF Abs!Resume, Abs!In, Abs!Retire, Abs!Idle, Views, View
  <2>. QED BY <2>2 DEF Abs!Next
<1>5. CASE View(t).phase = "settled" /\ View(t).left = View(t).n
  <2>1. Views[t].phase = "settled" /\ Views[t].left = Views[t].n BY <1>3, <1>5
  <2>2. Abs!Fail(t) BY <1>2, <2>1, Zenon DEF Abs!Fail, Abs!In, Abs!Retire, Abs!Idle, Views, View
  <2>. QED BY <2>2 DEF Abs!Next
<1>6. CASE View(t).phase = "settled" /\ View(t).left \in {1, 2, 4}
  <2>1. PICK k \in {1, 2, 4} : k = View(t).left BY <1>6
  <2>2. Views[t].phase = "settled" /\ k \in 1 .. Views[t].left /\ k = Views[t].left
    BY <1>3, <1>6, <2>1
  <2>3. Abs!Part(t, k)
    BY <1>2, <2>2, Zenon DEF Abs!Part, Abs!In, Abs!Retire, Abs!Idle, Views, View
  <2>. QED BY <2>3 DEF Abs!Next
<1>. QED BY <1>4, <1>5, <1>6

\* The phase of a live event.
LEMMA PhaseFacts ==
  ASSUME NEW t \in Tags
  PROVE  /\ IsReady(ev[t]) => PhaseOf(t) = "settled"
         /\ IsPendingSent(ev[t]) => PhaseOf(t) = "deferred"
         /\ Waiting(ev[t]) => PhaseOf(t) = IF client[ev[t].ctx].mem = t THEN "asked" ELSE "accepted"
BY DEF PhaseOf, IsReady, IsPending, IsPendingSent, Waiting

\* The view of a tag whose event stays as it is, and whose application is
\* asked for it or not as before.
LEMMA SameView ==
  ASSUME NEW u \in Tags, ev'[u] = ev[u],
         client'[ev[u].ctx].mem = u <=> client[ev[u].ctx].mem = u
  PROVE  View(u)' = View(u)
<1>1. Live(u)' = Live(u) BY DEF Live
<1>2. PhaseOf(u)' = PhaseOf(u) BY DEF PhaseOf
<1>. QED BY <1>1, <1>2 DEF View

\* A step that changes one event and no mem_access changes one view.
LEMMA SameMemViews ==
  ASSUME IInv, SameMem, NEW t \in Tags, OthersSame(t) PROVE OtherViews(t)
<1>. SUFFICES ASSUME NEW u \in Tags, u # t PROVE View(u)' = View(u) BY DEF OtherViews
<1>1. ev[u].ctx \in Ctx /\ ev'[u] = ev[u] BY DEF IInv, TypeOK, Event, OthersSame
<1>2. client'[ev[u].ctx].mem = client[ev[u].ctx].mem BY <1>1 DEF SameMem
<1>. QED BY <1>1, <1>2, SameView

\* No tag changes.
LEMMA NoView == ASSUME \A t \in Tags : View(t)' = View(t) PROVE UNCHANGED Views
BY DEF Views

\* A step that changes no event and no mem_access changes no view.
LEMMA SameEventsView == ASSUME IInv, UNCHANGED ev, SameMem PROVE UNCHANGED Views
<1>1. ASSUME NEW t \in Tags PROVE View(t)' = View(t)
  <2>1. ev[t].ctx \in Ctx BY DEF IInv, TypeOK, Event
  <2>2. client'[ev[t].ctx].mem = client[ev[t].ctx].mem BY <2>1 DEF SameMem
  <2>. QED BY <2>2, SameView
<1>. QED BY <1>1, NoView

\* A step that sends nothing to the AFU and accepts nothing from it.
LEMMA SteadyRefines ==
  ASSUME IInv, AInv, Steady, IInv', SteadyStep PROVE Abs!Next \/ UNCHANGED Views
<1>1. CASE UNCHANGED ev /\ SameMem BY <1>1, SameEventsView
<1>2. ASSUME NEW t \in Tags, OthersSame(t), Advances(ev[t], ev'[t]), SameMem \/ Asks(t) \/ Settles(t)
      PROVE  Abs!Next \/ UNCHANGED Views
  <2>1. /\ Waiting(ev[t]) /\ ev[t] \in Event /\ ev'[t] \in Event /\ ev[t].ctx \in Ctx
        /\ SameShape(ev[t], ev'[t])
    BY <1>2 DEF Advances, IInv, TypeOK, Event
  <2>2. Live(t) /\ Live(t)' /\ (Waiting(ev'[t]) \/ IsReady(ev'[t]))
    BY <1>2, <2>1 DEF Waiting, Live, Advances, GoesOn, Fails, Pends, IsReady, IsPending
  <2>3. /\ ev'[t].ctx = ev[t].ctx /\ ev'[t].n = ev[t].n /\ ev'[t].sent = ev[t].sent
    BY <2>1 DEF SameShape
  <2>4. View(t) = [phase |-> PhaseOf(t), ctx |-> ev[t].ctx, n |-> ev[t].n,
                   left |-> ev[t].n - ev[t].sent]
    BY <2>2 DEF View
  <2>5. View(t)' = [View(t) EXCEPT !.phase = PhaseOf(t)']
    <3>1. View(t)' = [phase |-> PhaseOf(t)', ctx |-> ev[t].ctx, n |-> ev[t].n,
                      left |-> ev[t].n - ev[t].sent]
      BY <2>2, <2>3 DEF View
    <3>. QED BY <2>4, <3>1
  <2>6. PhaseOf(t) = IF client[ev[t].ctx].mem = t THEN "asked" ELSE "accepted"
    BY <2>1, PhaseFacts
  <2>7. Waiting(ev'[t]) =>
          PhaseOf(t)' = IF client'[ev[t].ctx].mem = t THEN "asked" ELSE "accepted"
    BY <2>3 DEF PhaseOf, Waiting
  <2>8. IsReady(ev'[t]) => PhaseOf(t)' = "settled" BY DEF PhaseOf, IsReady, IsPending
  <2>9. t # NoTag BY ConstantsAssumption DEF ConstantsAssumption
  <2>10. CASE IsReady(ev'[t])
    <3>1. ~Waiting(ev'[t]) BY <2>10 DEF IsReady, IsPending, Waiting
    <3>2. ASSUME NEW u \in Tags, u # t PROVE View(u)' = View(u)
      <4>1. ev[u].ctx \in Ctx /\ ev'[u] = ev[u] /\ u # NoTag
        BY <1>2, <3>2, ConstantsAssumption
        DEF IInv, TypeOK, Event, OthersSame, ConstantsAssumption
      <4>2. client'[ev[u].ctx].mem = u <=> client[ev[u].ctx].mem = u
        BY <1>2, <3>1, <3>2, <4>1 DEF SameMem, Asks, Settles
      <4>. QED BY <4>1, <4>2, SameView
    <3>3. OtherViews(t) BY <3>2 DEF OtherViews
    <3>4. View(t).phase \in {"accepted", "asked"} BY <2>4, <2>6
    <3>5. View(t)' = [View(t) EXCEPT !.phase = "settled"] BY <2>5, <2>8, <2>10
    <3>. QED BY <3>3, <3>4, <3>5, AbsSettle
  <2>11. CASE Waiting(ev'[t]) /\ SameMem
    <3>1. OtherViews(t) BY <1>2, <2>11, SameMemViews
    <3>2. PhaseOf(t)' = PhaseOf(t) BY <2>1, <2>6, <2>7, <2>11 DEF SameMem
    <3>3. View(t)' = View(t) BY <2>4, <2>5, <3>2
    <3>. QED BY <3>1, <3>3, NoView DEF OtherViews
  <2>12. CASE Waiting(ev'[t]) /\ Asks(t)
    <3>1. client[ev[t].ctx].mem = NoTag /\ client'[ev[t].ctx].mem = t BY <2>12 DEF Asks
    <3>2. PhaseOf(t) = "accepted" /\ PhaseOf(t)' = "asked" BY <2>6, <2>7, <2>9, <2>12, <3>1
    <3>3. ASSUME NEW u \in Tags, u # t PROVE View(u)' = View(u)
      <4>1. ev[u].ctx \in Ctx /\ ev'[u] = ev[u] /\ u # NoTag
        BY <1>2, <3>3, ConstantsAssumption
        DEF IInv, TypeOK, Event, OthersSame, ConstantsAssumption
      <4>2. client'[ev[u].ctx].mem = u <=> client[ev[u].ctx].mem = u
        BY <2>12, <3>1, <3>3, <4>1 DEF Asks
      <4>. QED BY <4>1, <4>2, SameView
    <3>4. OtherViews(t) BY <3>3 DEF OtherViews
    <3>5. ASSUME NEW u \in Tags, View(u).phase = "asked" PROVE View(u).ctx # View(t).ctx
      <4>1. Live(u) BY <3>5 DEF View
      <4>2. View(u).phase = PhaseOf(u) /\ View(u).ctx = ev[u].ctx BY <4>1 DEF View
      <4>3. client[ev[u].ctx].mem = u BY <3>5, <4>2 DEF PhaseOf
      <4>4. u # NoTag BY ConstantsAssumption DEF ConstantsAssumption
      <4>. QED BY <2>4, <3>1, <4>2, <4>3, <4>4
    <3>6. View(t).phase = "accepted" BY <2>4, <3>2
    <3>7. View(t)' = [View(t) EXCEPT !.phase = "asked"] BY <2>5, <3>2
    <3>. QED BY <3>4, <3>5, <3>6, <3>7, AbsAsk
  <2>. QED BY <1>2, <2>2, <2>10, <2>11, <2>12 DEF Settles
<1>. QED BY <1>1, <1>2 DEF SteadyStep

\* handle_response.
LEMMA ResponseRefines ==
  ASSUME IInv, AInv, Steady, handle_response PROVE Abs!Next \/ UNCHANGED Views
<1>1. SameMem BY DEF handle_response, SameMem
<1>2. CASE UNCHANGED ev BY <1>1, <1>2, SameEventsView
<1>3. ASSUME NEW t \in Tags, Live(t), IsReady(ev[t]), OthersSame(t),
             BacksUp(t) \/ Defers(t) \/ Splits(t) \/ Ends(t)
      PROVE  Abs!Next \/ UNCHANGED Views
  <2>. DEFINE e == ev[t]
              f == Chunk(ev[t])
  <2>1. OtherViews(t) BY <1>1, <1>3, SameMemViews
  <2>2. EventOK(e) /\ SplitOK(e) /\ e \in Event /\ HostCL \in {1, 2, 4}
    BY ConstantsAssumption
    DEF AInv, EventsOK, IInv, SplitDone, TypeOK, ConstantsAssumption
  <2>3. /\ f \in Event /\ f.st = e.st /\ f.n = e.n /\ f.ctx = e.ctx
        /\ ~IsSplit(e) => f = e /\ e.sent = 0
        /\ IsSplit(e) => f.sent = e.sent + HostCL /\ f.sent <= e.n
    BY <2>2, ChunkParts
  <2>4. /\ PhaseOf(t) = "settled"
        /\ View(t) = [phase |-> "settled", ctx |-> e.ctx, n |-> e.n, left |-> e.n - e.sent]
    BY <1>3, PhaseFacts DEF View
  <2>5. e.n \in {1, 2, 4} /\ e.sent \in Nat /\ e.sent < e.n BY <2>2 DEF Event, EventOK
  <2>6. ASSUME NEW g, ev'[t] = g, g.st = e.st, g.ctx = e.ctx, g.n = e.n
        PROVE  View(t)' = [phase |-> "settled", ctx |-> e.ctx, n |-> e.n, left |-> e.n - g.sent]
    <3>1. Live(t)' BY <1>3, <2>6 DEF Live
    <3>2. PhaseOf(t)' = "settled" BY <1>3, <2>6 DEF PhaseOf, IsReady, IsPending
    <3>. QED BY <2>6, <3>1, <3>2 DEF View
  <2>. HIDE DEF f
  <2>7. CASE BacksUp(t)
    <3>1. ev'[t] = BackUp(f) BY <2>7 DEF BacksUp, f
    <3>2. f.sent = e.sent + HostCL \/ (f.sent = 0 /\ e.sent = 0) BY <2>3
    <3>3. /\ ev'[t].st = e.st /\ ev'[t].ctx = e.ctx /\ ev'[t].n = e.n
          /\ ev'[t].sent = IF f.sent # 0 THEN f.sent - HostCL ELSE f.sent
      BY <2>3, <3>1 DEF BackUp, Event
    <3>4. ev'[t].sent = e.sent BY <2>2, <2>5, <3>2, <3>3
    <3>5. View(t)' = View(t) BY <2>4, <2>6, <3>3, <3>4
    <3>. QED BY <2>1, <3>5, NoView DEF OtherViews
  <2>8. CASE Defers(t)
    <3>1. ev'[t] = [e EXCEPT !.st = "MEM_PENDING_SENT"] BY <2>8 DEF Defers
    <3>2. e.sent = 0 BY <2>2, <2>8 DEF Defers, SplitOK, IsPending
    <3>3. /\ ev'[t].st = "MEM_PENDING_SENT" /\ ev'[t].ctx = e.ctx /\ ev'[t].n = e.n
          /\ ev'[t].sent = e.sent
      BY <2>2, <3>1 DEF Event
    <3>4. Live(t)' /\ PhaseOf(t)' = "deferred" BY <3>3 DEF Live, PhaseOf
    <3>5. View(t)' = [phase |-> "deferred", ctx |-> e.ctx, n |-> e.n, left |-> e.n - e.sent]
      BY <3>3, <3>4 DEF View
    <3>6. View(t)' = [View(t) EXCEPT !.phase = "deferred"] BY <2>4, <3>5
    <3>7. View(t).phase = "settled" /\ View(t).left = View(t).n BY <2>4, <2>5, <3>2
    <3>. QED BY <2>1, <3>6, <3>7, AbsDefer
  <2>9. CASE Splits(t)
    <3>1. ev'[t] = f /\ IsSplit(e) /\ f.sent # e.n BY <2>9 DEF Splits, f
    <3>2. f.sent = e.sent + HostCL /\ f.sent < e.n BY <2>2, <2>3, <2>5, <3>1
    <3>3. View(t)' = [phase |-> "settled", ctx |-> e.ctx, n |-> e.n, left |-> e.n - f.sent]
      BY <2>3, <2>6, <3>1
    <3>4. /\ View(t).phase = "settled" /\ HostCL \in 1 .. View(t).left /\ HostCL # View(t).left
          /\ View(t).left - HostCL = e.n - f.sent
      BY <2>2, <2>4, <2>5, <3>2
    <3>5. View(t)' = [View(t) EXCEPT !.left = View(t).left - HostCL] BY <2>4, <3>3, <3>4
    <3>. QED BY <2>1, <2>2, <3>4, <3>5, AbsPart
  <2>10. CASE Ends(t)
    <3>1. ~Live(t)' BY <2>10 DEF Ends, Live, NoEvent
    <3>2. View(t).phase = "settled" /\ (View(t).left = View(t).n \/ View(t).left \in {1, 2, 4})
      <4>1. CASE ~IsSplit(e) BY <2>3, <2>4, <2>5, <4>1
      <4>2. CASE IsSplit(e)
        <5>1. f.sent = e.n BY <2>10, <4>2 DEF Ends, f
        <5>2. View(t).left = HostCL BY <2>2, <2>3, <2>4, <2>5, <4>2, <5>1
        <5>. QED BY <2>2, <2>4, <5>2
      <4>. QED BY <4>1, <4>2
    <3>. QED BY <2>1, <3>1, <3>2, AbsRetire
  <2>. QED BY <1>3, <2>7, <2>8, <2>9, <2>10
<1>. QED BY <1>2, <1>3, ResponseSteps

\* handle_xlate_intrp_pending_sent.
LEMMA PendingSentRefines ==
  ASSUME IInv, AInv, Steady, handle_xlate_intrp_pending_sent PROVE Abs!Next \/ UNCHANGED Views
<1>1. SameMem BY DEF handle_xlate_intrp_pending_sent, SameMem
<1>2. CASE UNCHANGED ev BY <1>1, <1>2, SameEventsView
<1>3. ASSUME NEW t \in Tags, Live(t), IsPendingSent(ev[t]), OthersSame(t), Notes(t) \/ Posts(t)
      PROVE  Abs!Next \/ UNCHANGED Views
  <2>1. OtherViews(t) BY <1>1, <1>3, SameMemViews
  <2>2. View(t).phase = "deferred" /\ ev[t] \in Event
    BY <1>3, PhaseFacts DEF View, IInv, TypeOK
  <2>3. CASE Posts(t)
    <3>1. ~Live(t)' BY <2>3 DEF Posts, Live, NoEvent
    <3>. QED BY <2>1, <2>2, <3>1, AbsRetire
  <2>4. CASE Notes(t)
    <3>1. /\ ev'[t].st = ev[t].st /\ ev'[t].ctx = ev[t].ctx /\ ev'[t].n = ev[t].n
          /\ ev'[t].sent = ev[t].sent
      BY <2>2, <2>4 DEF Notes, Event
    <3>2. PhaseOf(t)' = PhaseOf(t) BY <1>3, <3>1 DEF PhaseOf, IsPendingSent
    <3>3. View(t)' = View(t) BY <3>1, <3>2 DEF View, Live
    <3>. QED BY <2>1, <3>3, NoView DEF OtherViews
  <2>. QED BY <1>3, <2>3, <2>4
<1>. QED BY <1>2, <1>3, PendingSentSteps

\* handle_cmd.
LEMMA CmdRefines ==
  ASSUME IInv, AInv, Steady, handle_cmd PROVE Abs!Next \/ UNCHANGED Views
<1>1. SameMem BY CmdSteady
<1>2. CASE UNCHANGED ev BY <1>1, <1>2, SameEventsView
<1>3. ASSUME NEW t \in Tags, Accepts(t) PROVE Abs!Next
  <2>. DEFINE f == ev'[t]
  <2>1. PICK c \in Ctx : NewOK(f, c, cmdport) BY <1>3 DEF Accepts
  <2>2. OtherViews(t) /\ ~Live(t) BY <1>1, <1>3, SameMemViews DEF Accepts
  <2>3. f \in Event /\ t # NoTag
    BY handle_cmdInv, ConstantsAssumption DEF EventsInv, ConstantsAssumption
  <2>4. client[c].mem # t /\ client'[c].mem # t
    <3>1. client[c].mem # t
      <4>1. ~Outstanding(ev[t]) BY <2>2 DEF Live, Outstanding
      <4>2. client[c].st = "CLIENT_VALID" => client[c].mem # t BY <4>1, WithApplication
      <4>. QED BY <2>3, <4>2 DEF Steady, SteadyClient
    <3>. QED BY <1>1, <3>1 DEF SameMem
  <2>5. /\ Live(t)' /\ f.ctx = c /\ f.sent = 0 /\ f.n \in {1, 2, 4}
        /\ Waiting(f) \/ f.st = "MEM_DONE"
    BY <2>1, <2>3 DEF NewOK, Live, Waiting, Event
  <2>6. PhaseOf(t)' \in {"accepted", "settled"} BY <2>4, <2>5 DEF PhaseOf, Waiting
  <2>7. f.n - f.sent = f.n BY <2>5
  <2>8. View(t)' = [phase |-> PhaseOf(t)', ctx |-> c, n |-> f.n, left |-> f.n]
    BY <2>5, <2>7 DEF View
  <2>9. \A phase \in {"accepted", "settled"}, n \in {1, 2, 4} :
          View(t)' = [phase |-> phase, ctx |-> c, n |-> n, left |-> n] => Abs!Next
    BY <2>2, AbsAccept
  <2>. QED BY <2>5, <2>6, <2>8, <2>9
<1>. QED BY <1>2, <1>3, CmdSteps

\* Every step is a step of CmdAbs or leaves its state alone.
LEMMA NextRefines ==
  ASSUME NobodyLeaves, IInv, AInv, Steady, [Next]_vars PROVE Abs!Next \/ UNCHANGED Views
<1>1. CASE handle_response BY <1>1, ResponseRefines
<1>2. CASE handle_xlate_intrp_pending_sent BY <1>2, PendingSentRefines
<1>3. CASE handle_cmd BY <1>3, CmdRefines
<1>4. CASE ~handle_response /\ ~handle_xlate_intrp_pending_sent /\ ~handle_cmd
  <2>1. SteadyStep /\ IInv' BY <1>4, SteadySteps, NextInvariant
  <2>. QED BY <2>1, SteadyRefines
<1>. QED BY <1>1, <1>2, <1>3, <1>4

\* The command engine implements CmdAbs as long as no application leaves: an
\* application is asked for one command at a time, and every command is
\* answered in parts that add up to its length, or with one failure, or
\* deferred and resumed, before its tag is used again.
THEOREM Refinement ==
  ASSUME NobodyLeaves
  PROVE  Spec => ImplementsAbs
<1>1. Init => Abs!Init BY DEF Init, Abs!Init, Abs!Idle, Live, NoEvent
<1>2. IInv /\ AInv /\ Steady /\ [Next]_vars => Abs!Next \/ UNCHANGED Views BY NextRefines
<1>. QED BY <1>1, <1>2, SteadyInvariant, PTL DEF Spec, ImplementsAbs, Abs!Spec, Views, View
=============================================================================
