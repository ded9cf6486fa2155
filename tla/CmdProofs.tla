----------------------------- MODULE CmdProofs -----------------------------
(***************************************************************************)
(* Proofs about Cmd: the events and the clients stay consistent for every  *)
(* number of tags, clients, actags and credits, every mix of commands,     *)
(* faults and departures, with and without reordering.                     *)
(*                                                                         *)
(* AckMatchesRequest is not inductive: a new client of a slot must not     *)
(* find a request of an earlier one (NullInbox), and the types of the      *)
(* events rest on the byte count of a split response never being backed up *)
(* below zero (SplitDone).  IInv is the conjunction.                       *)
(***************************************************************************)
EXTENDS Cmd, ListLemmas

-----------------------------------------------------------------------------
(***************************************************************************)
(* The event list.                                                         *)
(***************************************************************************)

\* Changing a live event in place keeps the list well formed.
LEMMA UpdateKeepsList ==
  ASSUME TypeOK, NEW t \in Tags, NEW e \in Event, Live(t), e.st # "FREE", Update(t, e)
  PROVE  ev' \in [Tags -> Event] /\ list' \in Seq(Tags) /\ ListOK'
BY DEF TypeOK, ListOK, Update, Live

\* The event of a free tag is an event.
LEMMA NoEventType == ConstantsAssumption => NoEvent \in Event
BY DEF ConstantsAssumption, NoEvent, Event, Ctx, Ops, Types, States, Opcodes, Codes

\* Unlinking and freeing an event keeps the list well formed.
LEMMA UnlinkKeepsList ==
  ASSUME TypeOK, NEW i \in DOMAIN list, Unlink(i)
  PROVE  ev' \in [Tags -> Event] /\ list' \in Seq(Tags) /\ ListOK'
<1>. DEFINE t == list[i]
<1>1. t \in Tags /\ list \in Seq(Tags) /\ ListOK BY DEF TypeOK
<1>2. /\ list' \in Seq(Tags) /\ Len(list') = Len(list) - 1
      /\ \A j \in 1 .. Len(list) - 1 : list'[j] = IF j < i THEN list[j] ELSE list[j + 1]
  <2>1. i \in DOMAIN list OBVIOUS
  <2>2. RemoveAt(list, i) \in Seq(Tags) /\ Removed(RemoveAt(list, i), list, i)
    BY ONLY <1>1, <2>1, RemoveAtShape
  <2>. QED BY <2>2 DEF Unlink, Removed
<1>3. ev' \in [Tags -> Event] BY NoEventType, ConstantsAssumption DEF TypeOK, Unlink
<1>. DEFINE old(n) == IF n < i THEN n ELSE n + 1
<1>6. \A n \in DOMAIN list' : old(n) \in DOMAIN list /\ old(n) # i /\ list'[n] = list[old(n)]
  BY <1>1, <1>2
<1>4. ASSUME NEW j \in DOMAIN list', NEW k \in DOMAIN list', list'[j] = list'[k] PROVE j = k
  <2>2. old(j) = old(k)
    <3>. HIDE DEF old
    <3>. QED BY <1>6, <1>1, <1>4 DEF ListOK
  <2>. QED BY <2>2, <1>1, <1>2
<1>5. ASSUME NEW u \in Tags PROVE (ev'[u].st # "FREE") <=> \E j \in DOMAIN list' : list'[j] = u
  <2>1. CASE u = t
    <3>1. ev'[u].st = "FREE" BY <2>1, <1>1 DEF Unlink, TypeOK, NoEvent
    <3>2. ASSUME NEW j \in DOMAIN list' PROVE list'[j] # u
      <4>. HIDE DEF old
      <4>1. old(j) \in DOMAIN list /\ old(j) # i /\ list'[j] = list[old(j)] BY <1>6
      <4>. QED BY <4>1, <1>1, <2>1 DEF ListOK
    <3>. QED BY <3>1, <3>2
  <2>2. CASE u # t
    <3>1. ev'[u] = ev[u] BY <2>2, <1>1 DEF Unlink, TypeOK
    <3>2. (\E j \in DOMAIN list : list[j] = u) <=> (\E j \in DOMAIN list' : list'[j] = u)
      <4>1. ASSUME NEW j \in DOMAIN list, list[j] = u PROVE \E k \in DOMAIN list' : list'[k] = u
        <5>1. j # i BY <4>1, <2>2
        <5>2. CASE j < i BY <5>2, <4>1, <1>1, <1>2
        <5>3. CASE j > i
          <6>1. j - 1 \in DOMAIN list' /\ list'[j - 1] = list[j] BY <5>3, <1>1, <1>2
          <6>. QED BY <6>1, <4>1
        <5>. QED BY <5>1, <5>2, <5>3, <1>1
      <4>2. ASSUME NEW j \in DOMAIN list', list'[j] = u PROVE \E k \in DOMAIN list : list[k] = u
        <5>1. CASE j < i BY <5>1, <4>2, <1>1, <1>2
        <5>2. CASE j >= i
          <6>1. j + 1 \in DOMAIN list /\ list'[j] = list[j + 1] BY <5>2, <1>1, <1>2
          <6>. QED BY <6>1, <4>2
        <5>. QED BY <5>1, <5>2, <1>1, <1>2
      <4>. QED BY <4>1, <4>2
    <3>. QED BY <3>1, <3>2, <1>1 DEF ListOK, Live
  <2>. QED BY <2>1, <2>2
<1>. QED BY <1>2, <1>3, <1>4, <1>5 DEF ListOK, Live

\* Linking a new event keeps the list well formed.
LEMMA AddKeepsList ==
  ASSUME TypeOK, NEW t \in Tags, ~Live(t), NEW e \in Event, e.st # "FREE",
         NEW i \in 1 .. Len(list) + 1, list' = InsertAt(list, i, t), ev' = [ev EXCEPT ![t] = e]
  PROVE  ev' \in [Tags -> Event] /\ list' \in Seq(Tags) /\ ListOK'
<1>1. list \in Seq(Tags) /\ ListOK /\ Len(list) \in Nat BY DEF TypeOK
<1>2. /\ list' \in Seq(Tags) /\ Len(list') = Len(list) + 1
      /\ \A j \in 1 .. Len(list) + 1 :
           list'[j] = IF j < i THEN list[j] ELSE IF j = i THEN t ELSE list[j - 1]
  <2>1. i \in 1 .. Len(list) + 1 /\ t \in Tags OBVIOUS
  <2>2. InsertAt(list, i, t) \in Seq(Tags) /\ Inserted(InsertAt(list, i, t), list, i, t)
    BY ONLY <1>1, <2>1, InsertAtShape
  <2>. QED BY <2>2 DEF Inserted
<1>3. ev' \in [Tags -> Event] BY DEF TypeOK
<1>4. \A j \in DOMAIN list : list[j] # t BY <1>1 DEF ListOK
<1>. DEFINE old(n) == IF n < i THEN n ELSE n - 1
<1>5. \A n \in DOMAIN list' : n # i => old(n) \in DOMAIN list /\ list'[n] = list[old(n)]
  BY <1>1, <1>2
<1>6. i \in DOMAIN list' /\ list'[i] = t BY <1>1, <1>2
<1>7. ASSUME NEW j \in DOMAIN list', NEW k \in DOMAIN list', list'[j] = list'[k] PROVE j = k
  <2>1. CASE j = i \/ k = i BY <2>1, <1>4, <1>5, <1>6, <1>7
  <2>2. CASE j # i /\ k # i
    <3>1. old(j) = old(k) BY <2>2, <1>5, <1>1, <1>7 DEF ListOK
    <3>. QED BY <3>1, <2>2, <1>1, <1>2
  <2>. QED BY <2>1, <2>2
<1>8. ASSUME NEW u \in Tags PROVE (ev'[u].st # "FREE") <=> \E j \in DOMAIN list' : list'[j] = u
  <2>1. CASE u = t BY <2>1, <1>6 DEF TypeOK
  <2>2. CASE u # t
    <3>1. ev'[u] = ev[u] BY <2>2 DEF TypeOK
    <3>2. ASSUME NEW j \in DOMAIN list, list[j] = u PROVE \E k \in DOMAIN list' : list'[k] = u
      <4>1. CASE j < i BY <4>1, <3>2, <1>1, <1>2
      <4>2. CASE j >= i
        <5>1. j + 1 \in DOMAIN list' /\ list'[j + 1] = list[j] BY <4>2, <1>1, <1>2
        <5>. QED BY <5>1, <3>2
      <4>. QED BY <4>1, <4>2, <1>1
    <3>3. ASSUME NEW j \in DOMAIN list', list'[j] = u PROVE \E k \in DOMAIN list : list[k] = u
      BY <3>3, <2>2, <1>5, <1>6
    <3>. QED BY <3>1, <3>2, <3>3, <1>1 DEF ListOK, Live
  <2>. QED BY <2>1, <2>2
<1>. QED BY <1>2, <1>3, <1>7, <1>8 DEF ListOK, Live

-----------------------------------------------------------------------------
(***************************************************************************)
(* The inductive invariant.                                                *)
(***************************************************************************)
\* A slot without a client has no request on its way.
NullInbox == \A c \in Ctx : client[c].st = "NULL" => inbox[c] = <<>>

\* Only a split response that has begun has a byte count, only a finished
\* event has one, and a pending one has failed: so the byte count is never
\* backed up below zero.
SplitOK(e) ==
  /\ e.sent # 0 => /\ e.st = "MEM_DONE" /\ e.type # "CMD_FAILED"
                   /\ e.op \in {"RD", "DMA_W"} /\ e.n > HostCL
  /\ IsPending(e) => e.type = "CMD_FAILED"

SplitDone == \A t \in Tags : SplitOK(ev[t])

IInv == TypeOK /\ AckMatchesRequest /\ NullInbox /\ SplitDone

\* cmd_init establishes the invariant.
THEOREM InitInvariant == Init => IInv
<1>. SUFFICES ASSUME Init PROVE IInv OBVIOUS
<1>. USE ConstantsAssumption
<1>1. 0 \in Ctx BY DEF ConstantsAssumption, Ctx
<1>2. ev \in [Tags -> Event] BY NoEventType DEF Init
<1>3. list \in Seq(Tags) /\ ListOK BY DEF Init, ListOK, Live, NoEvent
<1>4. client \in [Ctx -> Client] /\ inbox \in [Ctx -> Seq(Tags)]
  BY DEF Init, Client, NoClient, ConstantsAssumption
<1>5. port \in Response /\ cmdport \in Command /\ cdata \in Beat
  BY <1>1 DEF Init, NoResp, NoCmd, NoBeat, Response, Command, Beat, Opcodes, Codes, Ops,
              ConstantsAssumption
<1>6. afu \in [Tags -> AfuTag] /\ dq \in Seq(Beat) /\ amap \in [Actags -> Ctx \cup {MaxClients}]
  BY <1>1 DEF Init, AfuIdle, AfuTag, Ops
<1>7. TypeOK BY <1>1, <1>2, <1>3, <1>4, <1>5, <1>6
             DEF Init, TypeOK, PCs, ConstantsAssumption
<1>8. AckMatchesRequest /\ NullInbox BY DEF Init, AckMatchesRequest, NullInbox, NoClient
<1>9. SplitDone BY DEF Init, SplitDone, SplitOK, IsPending, NoEvent
<1>. QED BY <1>7, <1>8, <1>9 DEF IInv

-----------------------------------------------------------------------------
(***************************************************************************)
(* The invariant in two parts: what the handlers change, and what passes   *)
(* between ocse and the AFU.                                               *)
(***************************************************************************)
EventsInv ==
  /\ ev \in [Tags -> Event] /\ list \in Seq(Tags) /\ ListOK
  /\ client \in [Ctx -> Client] /\ inbox \in [Ctx -> Seq(Tags)]
  /\ AckMatchesRequest /\ NullInbox /\ SplitDone

WireInv ==
  /\ pc \in PCs /\ cur \in Ctx
  /\ port \in Response /\ credits \in 0 .. MaxRespCredits
  /\ cmdport \in Command /\ cdata \in Beat
  /\ afu \in [Tags -> AfuTag] /\ dq \in Seq(Beat) /\ amap \in [Actags -> Ctx \cup {MaxClients}]

\* The two parts are the whole.
LEMMA IInvParts == IInv <=> EventsInv /\ WireInv
BY DEF IInv, TypeOK, EventsInv, WireInv

\* An event that no valid client's mem_access points to may change.
LEMMA OtherEventChanges ==
  ASSUME IInv, NEW t \in Tags, UNCHANGED <<client, inbox>>,
         \A u \in Tags : u # t => ev'[u] = ev[u],
         \A c \in Ctx : client[c].st = "CLIENT_VALID" => client[c].mem # t
  PROVE  AckMatchesRequest' /\ NullInbox'
<1>1. ASSUME NEW c \in Ctx, client[c].st = "CLIENT_VALID", client[c].mem # NoTag
      PROVE  client[c].mem \in Tags /\ ev'[client[c].mem] = ev[client[c].mem]
  BY <1>1 DEF IInv, TypeOK, Client
<1>2. AckMatchesRequest'
  BY <1>1 DEF IInv, AckMatchesRequest, Live, Outstanding
<1>3. NullInbox' BY DEF IInv, NullInbox
<1>. QED BY <1>2, <1>3

\* Update of such an event.
LEMMA UpdateKeepsInv ==
  ASSUME IInv, NEW t \in Tags, NEW e \in Event, Live(t), e.st # "FREE", Update(t, e),
         UNCHANGED <<client, inbox>>,
         \A c \in Ctx : client[c].st = "CLIENT_VALID" => client[c].mem # t, SplitOK(e)
  PROVE  EventsInv'
<1>1. ev' \in [Tags -> Event] /\ list' \in Seq(Tags) /\ ListOK' BY UpdateKeepsList DEF IInv
<1>2. ev'[t] = e /\ \A u \in Tags : u # t => ev'[u] = ev[u] BY DEF Update, IInv, TypeOK
<1>3. AckMatchesRequest' /\ NullInbox' BY <1>2, OtherEventChanges
<1>4. SplitDone' BY <1>2 DEF SplitDone, IInv
<1>5. client' \in [Ctx -> Client] /\ inbox' \in [Ctx -> Seq(Tags)] BY DEF IInv, TypeOK
<1>. QED BY <1>1, <1>3, <1>4, <1>5 DEF EventsInv

\* The end of such an event.
LEMMA UnlinkKeepsInv ==
  ASSUME IInv, NEW i \in DOMAIN list, Unlink(i), UNCHANGED <<client, inbox>>,
         \A c \in Ctx : client[c].st = "CLIENT_VALID" => client[c].mem # list[i]
  PROVE  EventsInv'
<1>1. ev' \in [Tags -> Event] /\ list' \in Seq(Tags) /\ ListOK' BY UnlinkKeepsList DEF IInv
<1>2. list[i] \in Tags BY DEF IInv, TypeOK
<1>3. ev'[list[i]] = NoEvent /\ \A u \in Tags : u # list[i] => ev'[u] = ev[u]
  BY <1>2 DEF Unlink, IInv, TypeOK
<1>4. AckMatchesRequest' /\ NullInbox' BY <1>2, <1>3, OtherEventChanges
<1>5. SplitDone' BY <1>2, <1>3 DEF SplitDone, SplitOK, IsPending, IInv, NoEvent
<1>6. client' \in [Ctx -> Client] /\ inbox' \in [Ctx -> Seq(Tags)] BY DEF IInv, TypeOK
<1>. QED BY <1>1, <1>4, <1>5, <1>6 DEF EventsInv

\* Nothing the invariant speaks of changes.
LEMMA SameEvents == ASSUME IInv, UNCHANGED <<list, ev, client, inbox>> PROVE EventsInv'
BY DEF IInv, TypeOK, EventsInv, ListOK, Live, AckMatchesRequest, Outstanding, NullInbox, SplitDone,
       SplitOK, IsPending

\* mem_access of a valid client points to an event that is with its application.
LEMMA WithApplication ==
  ASSUME IInv, NEW t \in Tags, ~Outstanding(ev[t])
  PROVE  \A c \in Ctx : client[c].st = "CLIENT_VALID" => client[c].mem # t
<1>. SUFFICES ASSUME NEW c \in Ctx, client[c].st = "CLIENT_VALID", client[c].mem = t PROVE FALSE
  OBVIOUS
<1>1. t # NoTag BY ConstantsAssumption DEF ConstantsAssumption
<1>2. Outstanding(ev[client[c].mem]) BY <1>1 DEF IInv, AckMatchesRequest
<1>. QED BY <1>2

\* The events of the list are live.
LEMMA ListedLive ==
  ASSUME IInv, NEW i \in DOMAIN list PROVE list[i] \in Tags /\ Live(list[i]) /\ ev[list[i]] \in Event
BY DEF IInv, TypeOK, ListOK

-----------------------------------------------------------------------------
(***************************************************************************)
(* The actions.                                                            *)
(***************************************************************************)
\* The next part of a response: handle_response changes resp_dp, resp_dl and the
\* byte count only, and counts only for a split command.
LEMMA ChunkType ==
  ASSUME NEW e \in Event
  PROVE  /\ Chunk(e) \in Event
         /\ Chunk(e).st = e.st /\ Chunk(e).type = e.type /\ Chunk(e).op = e.op /\ Chunk(e).n = e.n
         /\ Chunk(e).sent # 0 =>
              \/ e.sent # 0 /\ Chunk(e) = e
              \/ /\ Chunk(e).sent = e.sent + HostCL
                 /\ e.type # "CMD_FAILED" /\ e.op \in {"RD", "DMA_W"} /\ e.n > HostCL
         /\ e.type # "CMD_FAILED" /\ e.op \in {"RD", "DMA_W"} /\ e.n > HostCL =>
              Chunk(e).sent = e.sent + HostCL
<1>1. HostCL \in {1, 2, 4} BY ConstantsAssumption DEF ConstantsAssumption
<1>. DEFINE split == e.type # "CMD_FAILED" /\ e.op \in {"RD", "DMA_W"} /\ e.n > HostCL
            dp == CASE e.sent = 0 -> e.dp
                    [] e.sent # 0 /\ HostCL = 2 -> 2
                    [] e.sent # 0 /\ HostCL # 2 -> (e.dp + 1) % 4
<1>2. CASE ~split BY <1>2 DEF Chunk
<1>3. CASE split
  <2>1. dp \in 0 .. 3
    <3>1. e.dp \in 0 .. 3 BY DEF Event
    <3>2. (e.dp + 1) % 4 \in 0 .. 3 BY <3>1
    <3>. QED BY <3>1, <3>2
  <2>. HIDE DEF dp
  <2>2. Chunk(e) = [e EXCEPT !.dp = dp, !.dl = HostCL, !.sent = e.sent + HostCL]
    BY <1>3 DEF Chunk, dp
  <2>3. e.sent + HostCL \in Nat BY <1>1 DEF Event
  <2>. QED BY ZenonT(60), <1>1, <1>3, <2>1, <2>2, <2>3 DEF Event
<1>. QED BY <1>2, <1>3

\* handle_response touches finished or pending events only.
LEMMA handle_responseInv == ASSUME IInv, handle_response PROVE EventsInv'
<1>1. UNCHANGED <<client, inbox>> BY DEF handle_response
<1>2. CASE UNCHANGED <<list, ev>> BY <1>1, <1>2, SameEvents
<1>3. ASSUME NEW i \in Present(First(IsReady)),
             \/ Update(list[i], BackUp(Chunk(ev[list[i]])))
             \/ Responded(i, Chunk(ev[list[i]]))
      PROVE  EventsInv'
  <2>. DEFINE t == list[i]
              e == Chunk(ev[list[i]])
  <2>1. i \in DOMAIN list /\ IsReady(ev[t]) BY DEF Present, First
  <2>2. t \in Tags /\ Live(t) /\ ev[t] \in Event BY <2>1, ListedLive
  <2>3. \A c \in Ctx : client[c].st = "CLIENT_VALID" => client[c].mem # t
    <3>1. ~Outstanding(ev[t]) BY <2>1 DEF IsReady, IsPending, Outstanding
    <3>. QED BY <3>1, <2>2, WithApplication
  <2>4. /\ e \in Event /\ e.st = ev[t].st /\ e.type = ev[t].type /\ e.op = ev[t].op
        /\ e.n = ev[t].n
    BY <2>2, ChunkType
  <2>5. HostCL \in Nat BY ConstantsAssumption DEF ConstantsAssumption
  <2>6. SplitOK(e) /\ (e.sent # 0 => e.sent = ev[t].sent + HostCL)
    <3>1. SplitOK(ev[t]) BY <2>2 DEF IInv, SplitDone
    <3>. QED BY <2>1, <2>2, <2>4, <3>1, ChunkType DEF SplitOK, IsReady, IsPending
  <2>. HIDE DEF e
  <2>7. CASE Update(t, BackUp(e))
    <3>1. BackUp(e) = [e EXCEPT !.sent = IF e.sent # 0 THEN ev[t].sent ELSE 0]
      BY <2>2, <2>4, <2>5, <2>6 DEF BackUp, Event
    <3>2. BackUp(e) \in Event BY <2>2, <2>4, <3>1 DEF Event
    <3>3. SplitOK(BackUp(e)) BY <2>4, <2>6, <3>1 DEF SplitOK, IsPending, Event
    <3>4. BackUp(e).st # "FREE" BY <2>2, <2>4, <3>1 DEF Live, Event
    <3>. QED BY <1>1, <2>2, <2>3, <2>7, <3>2, <3>3, <3>4, UpdateKeepsInv
  <2>8. CASE IsPending(e) /\ Update(t, [e EXCEPT !.st = "MEM_PENDING_SENT"])
    <3>. DEFINE f == [e EXCEPT !.st = "MEM_PENDING_SENT"]
    <3>1. f \in Event /\ f.st # "FREE" BY <2>4 DEF Event, States
    <3>2. SplitOK(f) BY <2>4, <2>6, <2>8 DEF SplitOK, IsPending, Event
    <3>. QED BY <1>1, <2>2, <2>3, <2>8, <3>1, <3>2, UpdateKeepsInv
  <2>9. CASE Update(t, e)
    <3>1. e.st # "FREE" BY <2>2, <2>4 DEF Live
    <3>. QED BY <1>1, <2>2, <2>3, <2>4, <2>6, <2>9, <3>1, UpdateKeepsInv
  <2>10. CASE Unlink(i) BY <1>1, <2>1, <2>3, <2>10, UnlinkKeepsInv
  <2>. QED BY <1>3, <2>7, <2>8, <2>9, <2>10 DEF Responded, e
<1>. QED BY <1>2, <1>3 DEF handle_response

\* Access to a client without an outstanding request leaves it with this one.
LEMMA AccessInv ==
  ASSUME IInv, NEW t \in Tags, Live(t), ev[t].st # "MEM_DONE", NEW st \in States,
         client[ev[t].ctx].st # "NULL", Free(ev[t].ctx),
         Outstanding([ev[t] EXCEPT !.st = st]), Access(t, st)
  PROVE  EventsInv'
<1>. DEFINE c == ev[t].ctx
            e == [ev[t] EXCEPT !.st = st]
<1>1. ev[t] \in Event /\ c \in Ctx /\ ev[t].sent = 0 BY DEF IInv, TypeOK, Event, SplitDone, SplitOK
<1>2. client[c].mem = NoTag BY DEF Free
<1>3. ASSUME NEW d \in Ctx, client[d].st = "CLIENT_VALID", client[d].mem = t PROVE FALSE
  <2>1. t # NoTag BY ConstantsAssumption DEF ConstantsAssumption
  <2>2. ev[client[d].mem].ctx = d BY <1>3, <2>1 DEF IInv, AckMatchesRequest
  <2>. QED BY <1>2, <1>3, <2>1, <2>2
<1>4. CASE MemFault(t)
  <2>1. PICK f \in Faults \cap MemFaults :
          Update(t, [ev[t] EXCEPT !.st = IF f = "pending" THEN "MEM_XLATE_PENDING" ELSE "MEM_DONE",
                                  !.type = "CMD_FAILED", !.ropc = FailOpcode(ev[t]), !.resp = f])
    BY <1>4 DEF MemFault
  <2>. DEFINE g == [ev[t] EXCEPT !.st = IF f = "pending" THEN "MEM_XLATE_PENDING" ELSE "MEM_DONE",
                                 !.type = "CMD_FAILED", !.ropc = FailOpcode(ev[t]), !.resp = f]
  <2>2. FailOpcode(ev[t]) \in Opcodes /\ f \in Codes BY DEF FailOpcode, Opcodes, MemFaults, Codes
  <2>. DEFINE s == IF f = "pending" THEN "MEM_XLATE_PENDING" ELSE "MEM_DONE"
  <2>6. s \in States \ {"FREE"} BY DEF States
  <2>7. g = [ev[t] EXCEPT !.st = s, !.type = "CMD_FAILED", !.ropc = FailOpcode(ev[t]), !.resp = f]
    OBVIOUS
  <2>. HIDE DEF s, g
  <2>3. g \in Event /\ g.st # "FREE" BY ZenonT(60), <1>1, <2>2, <2>6, <2>7 DEF Event, Types
  <2>4. SplitOK(g) BY <1>1, <2>7 DEF SplitOK, Event, IsPending
  <2>5. UNCHANGED <<client, inbox>> BY <1>4 DEF MemFault
  <2>. QED BY <1>3, <2>1, <2>3, <2>4, <2>5, UpdateKeepsInv DEF g
<1>5. ASSUME NEW ok \in put_bytes(c), SendRequest(c, t, ok), Update(t, e) PROVE EventsInv'
  <2>1. e \in Event /\ e.st = st /\ e.ctx = c /\ e.type = ev[t].type /\ e.sent = 0
    BY <1>1 DEF Event
  <2>2. st # "FREE" /\ ~IsPending(e) BY <2>1 DEF Outstanding, IsPending
  <2>3. ev' \in [Tags -> Event] /\ list' \in Seq(Tags) /\ ListOK'
    BY <1>5, <2>1, <2>2, UpdateKeepsList DEF IInv
  <2>4. ev'[t] = e /\ \A u \in Tags : u # t => ev'[u] = ev[u] BY <1>5 DEF Update, IInv, TypeOK
  <2>5. SplitDone' BY ZenonT(60), <2>1, <2>2, <2>4 DEF IInv, SplitDone, SplitOK
  <2>6. /\ client' \in [Ctx -> Client]
        /\ \A d \in Ctx : d # c => client'[d] = client[d]
        /\ client'[c].mem = t /\ client'[c].sock = client[c].sock
        /\ client'[c].st = IF ok THEN client[c].st ELSE "CLIENT_NONE"
    <3>. DEFINE cl == IF ok THEN client[c] ELSE client_drop(client[c])
    <3>1. client[c] \in Client BY <1>1 DEF IInv, TypeOK
    <3>2. /\ cl \in Client /\ cl.sock = client[c].sock
          /\ cl.st = IF ok THEN client[c].st ELSE "CLIENT_NONE"
      <4>1. CASE ok BY <4>1, <3>1
      <4>2. CASE ~ok BY <4>2, <3>1 DEF client_drop, Client
      <4>. QED BY <4>1, <4>2
    <3>3. client' = [client EXCEPT ![c] = [cl EXCEPT !.mem = t]] BY <1>5 DEF SendRequest
    <3>. HIDE DEF cl
    <3>4. [cl EXCEPT !.mem = t] \in Client BY <3>2 DEF Client
    <3>. QED BY <1>1, <3>2, <3>3, <3>4 DEF IInv, TypeOK, Client
  <2>7. /\ inbox' \in [Ctx -> Seq(Tags)]
        /\ \A d \in Ctx : d # c => inbox'[d] = inbox[d]
        /\ client[c].sock = "open" => inbox'[c] = Append(inbox[c], t)
    BY <1>1, <1>5 DEF SendRequest, IInv, TypeOK
  <2>8. NullInbox' BY <2>6, <2>7 DEF NullInbox, IInv
  <2>9. ASSUME NEW d \in Ctx, client'[d].st = "CLIENT_VALID"
        PROVE  /\ client'[d].mem # NoTag => /\ Live(client[d].mem)'
                                            /\ ev'[client'[d].mem].ctx = d
                                            /\ Outstanding(ev'[client'[d].mem])
               /\ client'[d].sock = "open" =>
                    inbox'[d] = IF client'[d].mem = NoTag THEN <<>> ELSE <<client'[d].mem>>
    <3>1. CASE d = c
      <4>1. client[c].st = "CLIENT_VALID" \/ client[c].sock # "open"
        BY <1>5, <2>6, <2>9, <3>1 DEF put_bytes
      <4>2. client'[c].sock = "open" => inbox'[c] = <<t>>
        <5>1. client[c].sock = "open" => inbox[c] = <<>>
          BY <1>1, <1>2, <4>1 DEF IInv, AckMatchesRequest
        <5>. QED BY <2>6, <2>7, <5>1
      <4>3. t # NoTag BY ConstantsAssumption DEF ConstantsAssumption
      <4>4. client'[d].mem = t /\ Live(t)' BY <2>1, <2>2, <2>4, <2>6, <3>1 DEF Live
      <4>5. ev'[client'[d].mem] = e BY <4>4, <2>4
      <4>6. Outstanding(ev'[client'[d].mem]) BY <4>5
      <4>. QED BY <2>1, <3>1, <4>2, <4>3, <4>4, <4>5, <4>6
    <3>2. CASE d # c
      <4>1. client'[d] = client[d] /\ inbox'[d] = inbox[d] BY <2>6, <2>7, <3>2
      <4>2. client[d].mem # NoTag => /\ client[d].mem \in Tags
                                     /\ ev'[client[d].mem] = ev[client[d].mem]
        BY <1>3, <2>4, <2>9, <4>1 DEF IInv, TypeOK, Client
      <4>. QED BY <2>9, <4>1, <4>2 DEF IInv, AckMatchesRequest, Live
    <3>. QED BY <3>1, <3>2
  <2>10. AckMatchesRequest' BY <2>9 DEF AckMatchesRequest
  <2>. QED BY <2>3, <2>5, <2>6, <2>7, <2>8, <2>10 DEF EventsInv
<1>. QED BY <1>4, <1>5 DEF Access

\* handle_buffer_write sends a read to a client without an outstanding request.
LEMMA handle_buffer_writeInv == ASSUME IInv, handle_buffer_write PROVE EventsInv'
<1>1. CASE UNCHANGED <<list, ev, client, inbox>> BY <1>1, SameEvents
<1>2. ASSUME NEW i \in Present(First(IsPendingRead)), ev[list[i]].st = "MEM_IDLE",
             Free(ev[list[i]].ctx), Access(list[i], "MEM_REQUEST")
      PROVE  EventsInv'
  <2>1. /\ i \in DOMAIN list /\ ev[list[i]].type = "CMD_READ"
        /\ client[ev[list[i]].ctx].st # "NULL"
    BY <1>2 DEF Present, First, IsPendingRead
  <2>2. list[i] \in Tags /\ Live(list[i]) /\ ev[list[i]] \in Event BY <2>1, ListedLive
  <2>3. Outstanding([ev[list[i]] EXCEPT !.st = "MEM_REQUEST"])
    BY <2>1, <2>2 DEF Outstanding, Event
  <2>. QED BY <1>2, <2>1, <2>2, <2>3, AccessInv DEF States
<1>. QED BY <1>1, <1>2 DEF handle_buffer_write

\* handle_afu_tlx_write_cmd sends a write to such a client.
LEMMA handle_afu_tlx_write_cmdInv == ASSUME IInv, handle_afu_tlx_write_cmd PROVE EventsInv'
<1>1. CASE UNCHANGED <<list, ev, client, inbox>> BY <1>1, SameEvents
<1>2. ASSUME NEW i \in Present(First(IsReadyWrite)), Free(ev[list[i]].ctx),
             Access(list[i], "DMA_MEM_RESP")
      PROVE  EventsInv'
  <2>1. /\ i \in DOMAIN list /\ ev[list[i]].type = "CMD_WRITE" /\ ev[list[i]].st = "MEM_RECEIVED"
        /\ client[ev[list[i]].ctx].st # "NULL"
    BY <1>2 DEF Present, First, IsReadyWrite
  <2>2. list[i] \in Tags /\ Live(list[i]) /\ ev[list[i]] \in Event BY <2>1, ListedLive
  <2>3. Outstanding([ev[list[i]] EXCEPT !.st = "DMA_MEM_RESP"])
    BY <2>1, <2>2 DEF Outstanding, Event
  <2>. QED BY <1>2, <2>1, <2>2, <2>3, AccessInv DEF States
<1>. QED BY <1>1, <1>2 DEF handle_afu_tlx_write_cmd

\* handle_write_be_or_amo sends an operation to such a client.
LEMMA handle_write_be_or_amoInv == ASSUME IInv, handle_write_be_or_amo PROVE EventsInv'
<1>1. CASE UNCHANGED <<list, ev, client, inbox>> BY <1>1, SameEvents
<1>2. ASSUME NEW i \in Present(First(IsReadyOp)), Free(ev[list[i]].ctx),
             Access(list[i], "MEM_RECEIVED")
      PROVE  EventsInv'
  <2>1. /\ i \in DOMAIN list /\ IsReadyOp(ev[list[i]]) /\ client[ev[list[i]].ctx].st # "NULL"
    BY <1>2 DEF Present, First
  <2>2. list[i] \in Tags /\ Live(list[i]) /\ ev[list[i]] \in Event BY <2>1, ListedLive
  <2>3. Outstanding([ev[list[i]] EXCEPT !.st = "MEM_RECEIVED"]) /\ ev[list[i]].st # "MEM_DONE"
    BY <2>1, <2>2 DEF Outstanding, Event, IsReadyOp
  <2>. QED BY <1>2, <2>1, <2>2, <2>3, AccessInv DEF States
<1>. QED BY <1>1, <1>2 DEF handle_write_be_or_amo

\* handle_xlate_intrp_pending_sent ends events that no client works on.
LEMMA handle_xlate_intrp_pending_sentInv ==
  ASSUME IInv, handle_xlate_intrp_pending_sent PROVE EventsInv'
<1>1. UNCHANGED <<client, inbox>> BY DEF handle_xlate_intrp_pending_sent
<1>2. CASE UNCHANGED <<list, ev>> BY <1>1, <1>2, SameEvents
<1>3. ASSUME NEW i \in DOMAIN list, IsPendingSent(ev[list[i]]),
             \/ \E code \in Codes : Update(list[i], [ev[list[i]] EXCEPT !.resp = code])
             \/ Unlink(i)
      PROVE  EventsInv'
  <2>. DEFINE t == list[i]
  <2>1. t \in Tags /\ Live(t) /\ ev[t] \in Event BY ListedLive
  <2>2. \A c \in Ctx : client[c].st = "CLIENT_VALID" => client[c].mem # t
    <3>1. ~Outstanding(ev[t]) BY <1>3 DEF IsPendingSent, Outstanding
    <3>. QED BY <3>1, <2>1, WithApplication
  <2>3. ASSUME NEW code \in Codes, Update(t, [ev[t] EXCEPT !.resp = code]) PROVE EventsInv'
    <3>. DEFINE e == [ev[t] EXCEPT !.resp = code]
    <3>1. e \in Event /\ e.st # "FREE" BY <2>1 DEF Event, Live
    <3>2. SplitOK(e) BY <2>1 DEF IInv, SplitDone, SplitOK, IsPending, Event
    <3>. QED BY <1>1, <2>1, <2>2, <2>3, <3>1, <3>2, UpdateKeepsInv
  <2>4. CASE Unlink(i) BY <1>1, <2>2, <2>4, UnlinkKeepsInv
  <2>. QED BY <1>3, <2>3, <2>4
<1>4. {"ok"} \cup (Faults \cap {"retry"}) \subseteq Codes /\ "dropped" \in Codes BY DEF Codes
<1>5. ASSUME NEW i \in Present(IF Reorder THEN {j \in DOMAIN list : IsPendingSent(ev[list[j]])}
                                          ELSE First(IsPendingSent))
      PROVE  i \in DOMAIN list /\ IsPendingSent(ev[list[i]])
  BY DEF Present, First
<1>. QED BY <1>2, <1>3, <1>4, <1>5 DEF handle_xlate_intrp_pending_sent

\* _add_cmd of a new event that does not have a response begun.
LEMMA AddInv ==
  ASSUME IInv, NEW t \in Tags, ~Live(t), NEW e \in Event, e.st # "FREE", SplitOK(e),
         NEW i \in 1 .. Len(list) + 1, list' = InsertAt(list, i, t),
         ev' = [ev EXCEPT ![t] = e], UNCHANGED <<client, inbox>>
  PROVE  EventsInv'
<1>1. ev' \in [Tags -> Event] /\ list' \in Seq(Tags) /\ ListOK' BY AddKeepsList DEF IInv
<1>2. ev'[t] = e /\ \A u \in Tags : u # t => ev'[u] = ev[u] BY DEF IInv, TypeOK
<1>3. ASSUME NEW c \in Ctx, client[c].st = "CLIENT_VALID", client[c].mem = t PROVE FALSE
  <2>1. t # NoTag BY ConstantsAssumption DEF ConstantsAssumption
  <2>. QED BY <1>3, <2>1 DEF IInv, AckMatchesRequest
<1>4. AckMatchesRequest' /\ NullInbox' BY <1>2, <1>3, OtherEventChanges
<1>5. SplitDone' BY <1>2 DEF SplitDone, IInv
<1>6. client' \in [Ctx -> Client] /\ inbox' \in [Ctx -> Seq(Tags)] BY DEF IInv, TypeOK
<1>. QED BY <1>1, <1>4, <1>5, <1>6 DEF EventsInv

\* The event _add_cmd is given has its type and no response begun.
LEMMA NewEventType ==
  ASSUME NEW c \in Ctx, NEW m \in Command, NEW ropc \in Opcodes, client[c].gen \in Nat
  PROVE  LET e == NewEvent(c, m, ropc) IN
         e \in Event /\ e.st \in {"MEM_IDLE", "MEM_DONE"} /\ e.sent = 0
<1>. DEFINE type == IF m.ok THEN TypeOf(m.op) ELSE "CMD_FAILED"
            st == IF m.ok /\ m.op # "XLATE_TOUCH" THEN "MEM_IDLE" ELSE "MEM_DONE"
            resp == IF m.ok THEN "ok" ELSE IF m.op = "UNKNOWN" THEN "dropped" ELSE "bad"
            n == IF m.ok THEN m.n ELSE 1
<1>1. type \in Types BY DEF TypeOf, Types
<1>2. st \in States /\ st \in {"MEM_IDLE", "MEM_DONE"} BY DEF States
<1>3. resp \in Codes BY DEF Codes
<1>4. n \in {1, 2, 4} /\ m.op \in Ops BY DEF Command
<1>5. NewEvent(c, m, ropc) =
        [NoEvent EXCEPT !.ctx = c, !.op = m.op, !.own = client[c].gen, !.ropc = ropc,
                        !.type = type, !.st = st, !.resp = resp, !.n = n, !.dl = n]
  BY DEF NewEvent
<1>. HIDE DEF type, st, resp, n
<1>6. NoEvent \in Event /\ NoEvent.sent = 0 BY NoEventType, ConstantsAssumption DEF NoEvent
<1>. QED BY ZenonT(60), <1>1, <1>2, <1>3, <1>4, <1>5, <1>6 DEF Event

\* ... and keeps both with the beat that came with the command.
LEMMA FirstBeatType ==
  ASSUME NEW t, NEW e \in Event, e.sent = 0, e.st \in {"MEM_IDLE", "MEM_DONE"}
  PROVE  FirstBeat(t, e) \in Event /\ FirstBeat(t, e).sent = 0
         /\ FirstBeat(t, e).st \in {"MEM_IDLE", "MEM_DONE", "MEM_BUFFER", "MEM_RECEIVED"}
<1>. DEFINE dpart == IF e.n > 1 THEN 1 ELSE 0
            st == IF e.n > 1 THEN "MEM_BUFFER" ELSE "MEM_RECEIVED"
            good == (cdata = <<t, 0>>)
<1>1. dpart \in Nat /\ st \in {"MEM_BUFFER", "MEM_RECEIVED"} /\ good \in BOOLEAN OBVIOUS
<1>2. FirstBeat(t, e) = IF e.type = "CMD_INTERRUPT" THEN [e EXCEPT !.good = good]
                        ELSE [e EXCEPT !.good = good, !.dpart = dpart, !.st = st]
  BY DEF FirstBeat
<1>. HIDE DEF dpart, st, good
<1>3. CASE e.type = "CMD_INTERRUPT"
  <2>1. FirstBeat(t, e) = [e EXCEPT !.good = good] BY <1>2, <1>3
  <2>. QED BY <1>1, <2>1 DEF Event
<1>4. CASE e.type # "CMD_INTERRUPT"
  <2>1. FirstBeat(t, e) = [e EXCEPT !.good = good, !.dpart = dpart, !.st = st] BY <1>2, <1>4
  <2>2. st \in States BY <1>1 DEF States
  <2>. QED BY ZenonT(60), <1>1, <2>1, <2>2 DEF Event
<1>. QED BY <1>3, <1>4

\* handle_cmd adds an event, assigns an actag or does neither.
LEMMA handle_cmdInv == ASSUME IInv, handle_cmd PROVE EventsInv'
<1>. DEFINE m == cmdport
<1>1. inbox' = inbox /\ m \in Command BY DEF handle_cmd, IInv, TypeOK
<1>2. CASE UNCHANGED <<list, ev, client>> BY <1>1, <1>2, SameEvents
<1>3. CASE _assign_actag(m)
  <2>. DEFINE a == IF client[m.pasid].st # "NULL" THEN m.actag ELSE client[m.pasid].actag
  <2>1. m.pasid \in Ctx /\ m.actag \in Actags BY <1>1 DEF Command
  <2>2. a \in Actags BY <2>1 DEF IInv, TypeOK, Client
  <2>3. client' = [client EXCEPT ![m.pasid].actag = a] /\ UNCHANGED <<list, ev>>
    BY <1>3 DEF _assign_actag
  <2>. HIDE DEF a, m
  <2>4. client' \in [Ctx -> Client]
    <3>1. client[m.pasid] \in Client BY <2>1 DEF IInv, TypeOK
    <3>2. [client[m.pasid] EXCEPT !.actag = a] \in Client BY <2>2, <3>1 DEF Client
    <3>. QED BY <2>1, <2>3, <3>2 DEF IInv, TypeOK
  <2>5. \A c \in Ctx : /\ client'[c].st = client[c].st /\ client'[c].mem = client[c].mem
                       /\ client'[c].sock = client[c].sock
    BY <2>1, <2>3 DEF IInv, TypeOK, Client
  <2>6. AckMatchesRequest' BY <1>1, <2>3, <2>5 DEF IInv, AckMatchesRequest, Live, Outstanding
  <2>7. NullInbox' BY <1>1, <2>5 DEF IInv, NullInbox
  <2>8. SplitDone' BY <2>3 DEF IInv, SplitDone, SplitOK, IsPending
  <2>. QED BY <1>1, <2>3, <2>4, <2>6, <2>7, <2>8 DEF EventsInv, IInv, TypeOK, ListOK, Live
<1>4. CASE m.tag # NoTag /\ ~Live(m.tag) /\ Accepted(m)
  <2>1. PICK c \in _find_client_by_actag(m.actag),
             ropc \in IF m.ok THEN {RespOpcode(m.op)} ELSE BadOpcodes(m.op) :
               _add_cmd(m, NewEvent(c, m, ropc))
    BY <1>4 DEF Accepted
  <2>. DEFINE e == NewEvent(c, m, ropc)
              f == IF OffersBeat(m) /\ ~_incoming_data_expected THEN FirstBeat(m.tag, e) ELSE e
  <2>2. c \in Ctx /\ client[c].gen \in Nat BY DEF _find_client_by_actag, IInv, TypeOK, Client
  <2>3. ropc \in Opcodes BY DEF RespOpcode, BadOpcodes, Opcodes
  <2>4. e \in Event /\ e.st \in {"MEM_IDLE", "MEM_DONE"} /\ e.sent = 0
    BY <1>1, <2>2, <2>3, NewEventType
  <2>5. PICK i \in IF Reorder THEN 1 .. Len(list) + 1 ELSE {Len(list) + 1} :
               list' = InsertAt(list, i, m.tag)
    BY <2>1 DEF _add_cmd
  <2>6. ev' = [ev EXCEPT ![m.tag] = f] /\ client' = client BY <2>1 DEF _add_cmd
  <2>. HIDE DEF e
  <2>7. /\ f \in Event /\ f.sent = 0
        /\ f.st \in {"MEM_IDLE", "MEM_DONE", "MEM_BUFFER", "MEM_RECEIVED"}
    BY <2>4, FirstBeatType
  <2>. HIDE DEF f
  <2>8. SplitOK(f) BY <2>7 DEF SplitOK, IsPending
  <2>9. i \in 1 .. Len(list) + 1 BY <2>5 DEF IInv, TypeOK
  <2>10. m.tag \in Tags BY <1>1, <1>4 DEF Command
  <2>. QED BY <1>1, <1>4, <2>5, <2>6, <2>7, <2>8, <2>9, <2>10, AddInv
<1>. QED BY <1>2, <1>3, <1>4 DEF handle_cmd, Ignored

\* handle_afu_tlx_cmd_data_read changes a write that gathers data.
LEMMA handle_afu_tlx_cmd_data_readInv ==
  ASSUME IInv, handle_afu_tlx_cmd_data_read PROVE EventsInv'
<1>1. UNCHANGED <<client, inbox>> BY DEF handle_afu_tlx_cmd_data_read
<1>2. CASE UNCHANGED <<list, ev>> BY <1>1, <1>2, SameEvents
<1>3. ASSUME NEW i \in First(IsGathering), NEW good \in BOOLEAN, NEW dpart \in Nat,
             NEW st \in {"MEM_BUFFER", "MEM_RECEIVED"},
             Update(list[i], [ev[list[i]] EXCEPT !.good = good, !.dpart = dpart, !.st = st])
      PROVE  EventsInv'
  <2>. DEFINE t == list[i]
              e == [ev[t] EXCEPT !.good = good, !.dpart = dpart, !.st = st]
  <2>1. i \in DOMAIN list /\ IsGathering(ev[t]) BY DEF First
  <2>2. t \in Tags /\ Live(t) /\ ev[t] \in Event BY <2>1, ListedLive
  <2>3. \A c \in Ctx : client[c].st = "CLIENT_VALID" => client[c].mem # t
    <3>1. ~Outstanding(ev[t]) BY <2>1 DEF IsGathering, Outstanding
    <3>. QED BY <3>1, <2>2, WithApplication
  <2>4. st \in States /\ st # "FREE" BY DEF States
  <2>5. e \in Event /\ e.st = st /\ e.sent = ev[t].sent BY <2>2, <2>4 DEF Event
  <2>6. SplitOK(ev[t]) BY <2>2 DEF IInv, SplitDone
  <2>7. SplitOK(e) BY <2>1, <2>5, <2>6 DEF SplitOK, IsPending, IsGathering
  <2>. QED BY <1>1, <1>3, <2>2, <2>3, <2>4, <2>5, <2>7, UpdateKeepsInv
<1>4. ASSUME NEW i \in First(IsGathering),
             LET t == list[i]  e == ev[list[i]] IN
               Update(t, [e EXCEPT !.good = @ /\ cdata = <<t, e.dpart>>,
                                   !.dpart = IF e.n - @ > 1 THEN @ + 1 ELSE @,
                                   !.st = IF e.n - e.dpart > 1 THEN @ ELSE "MEM_RECEIVED"])
      PROVE  EventsInv'
  <2>. DEFINE t == list[i]
              e == ev[list[i]]
              good == e.good /\ cdata = <<t, e.dpart>>
              dpart == IF e.n - e.dpart > 1 THEN e.dpart + 1 ELSE e.dpart
              st == IF e.n - e.dpart > 1 THEN e.st ELSE "MEM_RECEIVED"
  <2>1. i \in DOMAIN list /\ e.st = "MEM_BUFFER" BY DEF First, IsGathering
  <2>2. e \in Event BY <2>1, ListedLive
  <2>3. good \in BOOLEAN BY <2>2 DEF Event
  <2>4. dpart \in Nat BY <2>2 DEF Event
  <2>5. st \in {"MEM_BUFFER", "MEM_RECEIVED"} BY <2>1
  <2>6. Update(t, [e EXCEPT !.good = good, !.dpart = dpart, !.st = st]) BY <1>4
  <2>. HIDE DEF good, dpart, st
  <2>. QED BY <1>3, <2>3, <2>4, <2>5, <2>6
<1>. QED BY <1>2, <1>4 DEF handle_afu_tlx_cmd_data_read

\* A client that stays valid keeps its request, and the event of the request
\* stays as it is.
LEMMA AckKept ==
  ASSUME IInv,
         \A d \in Ctx : client'[d].st = "CLIENT_VALID" =>
           /\ client[d].st = "CLIENT_VALID" /\ client'[d].mem = client[d].mem
           /\ client'[d].sock = "open" => client[d].sock = "open" /\ inbox'[d] = inbox[d]
           /\ client[d].mem # NoTag => ev'[client[d].mem] = ev[client[d].mem]
  PROVE  AckMatchesRequest'
<1>. SUFFICES ASSUME NEW d \in Ctx, client'[d].st = "CLIENT_VALID"
              PROVE  /\ client'[d].mem # NoTag => /\ Live(client[d].mem)'
                                                  /\ ev'[client'[d].mem].ctx = d
                                                  /\ Outstanding(ev'[client'[d].mem])
                     /\ client'[d].sock = "open" =>
                          inbox'[d] = IF client'[d].mem = NoTag THEN <<>> ELSE <<client'[d].mem>>
  BY DEF AckMatchesRequest
<1>. QED BY DEF IInv, AckMatchesRequest, Live

\* client_drop leaves a client struct.
LEMMA client_dropType ==
  ASSUME NEW cl \in Client
  PROVE  client_drop(cl) \in Client /\ client_drop(cl).st = "CLIENT_NONE"
BY DEF client_drop, Client

\* handle_interrupt does not touch mem_access, but may drop the client.
LEMMA handle_interruptInv == ASSUME IInv, handle_interrupt PROVE EventsInv'
<1>1. inbox' = inbox BY DEF handle_interrupt
<1>2. CASE UNCHANGED <<list, ev, client>> BY <1>1, <1>2, SameEvents
<1>3. ASSUME NEW i \in Present(First(IsReadyInterrupt)),
             \/ /\ \E p \in IntFaultsOf(ev[list[i]]) :
                     Update(list[i], [ev[list[i]] EXCEPT !.st = p[2], !.type = "CMD_FAILED",
                                                         !.resp = p[3]])
                /\ UNCHANGED client
             \/ /\ Update(list[i], [ev[list[i]] EXCEPT !.st = "MEM_DONE"])
                /\ \E ok \in put_bytes(ev[list[i]].ctx) :
                     client' = [client EXCEPT ![ev[list[i]].ctx] = IF ok THEN @ ELSE client_drop(@)]
      PROVE  EventsInv'
  <2>. DEFINE t == list[i]
              c == ev[t].ctx
  <2>1. i \in DOMAIN list /\ IsReadyInterrupt(ev[t]) /\ client[c].st # "NULL" BY DEF Present, First
  <2>2. t \in Tags /\ Live(t) /\ ev[t] \in Event /\ c \in Ctx BY <2>1, ListedLive DEF Event
  <2>3. \A d \in Ctx : client[d].st = "CLIENT_VALID" => client[d].mem # t
    <3>1. ~Outstanding(ev[t]) BY <2>1 DEF IsReadyInterrupt, Outstanding
    <3>. QED BY <3>1, <2>2, WithApplication
  <2>4. ev[t].sent = 0 BY <2>1, <2>2 DEF IInv, SplitDone, SplitOK, IsReadyInterrupt
  <2>5. ASSUME NEW p \in IntFaultsOf(ev[t]), client' = client,
               Update(t, [ev[t] EXCEPT !.st = p[2], !.type = "CMD_FAILED", !.resp = p[3]])
        PROVE  EventsInv'
    <3>. DEFINE e == [ev[t] EXCEPT !.st = p[2], !.type = "CMD_FAILED", !.resp = p[3]]
    <3>1. p[2] \in {"MEM_DONE", "MEM_INT_PENDING"} /\ p[3] \in Codes BY DEF IntFaultsOf, Codes
    <3>2. p[2] \in States /\ "CMD_FAILED" \in Types BY <3>1 DEF States, Types
    <3>3. e \in Event /\ e.st = p[2] /\ e.type = "CMD_FAILED" /\ e.sent = 0
      BY ZenonT(60), <2>2, <2>4, <3>1, <3>2 DEF Event
    <3>4. SplitOK(e) BY <3>3 DEF SplitOK
    <3>. HIDE DEF e
    <3>5. Update(t, e) BY <2>5 DEF e
    <3>. QED BY <1>1, <2>2, <2>3, <2>5, <3>1, <3>3, <3>4, <3>5, UpdateKeepsInv
  <2>6. ASSUME NEW ok \in put_bytes(c), Update(t, [ev[t] EXCEPT !.st = "MEM_DONE"]),
               client' = [client EXCEPT ![c] = IF ok THEN @ ELSE client_drop(@)]
        PROVE  EventsInv'
    <3>. DEFINE e == [ev[t] EXCEPT !.st = "MEM_DONE"]
    <3>1. e \in Event /\ e.st = "MEM_DONE" /\ e.sent = 0 BY <2>2, <2>4 DEF Event, States
    <3>2. ev' \in [Tags -> Event] /\ list' \in Seq(Tags) /\ ListOK'
      BY <2>2, <2>6, <3>1, UpdateKeepsList DEF IInv
    <3>3. ev'[t] = e /\ \A u \in Tags : u # t => ev'[u] = ev[u]
      BY <2>2, <2>6 DEF Update, IInv, TypeOK
    <3>4. client[c] \in Client /\ client \in [Ctx -> Client] BY <2>2 DEF IInv, TypeOK
    <3>5. /\ client' \in [Ctx -> Client]
          /\ \A d \in Ctx : client'[d] = client[d] \/ client'[d].st = "CLIENT_NONE"
      BY <2>6, <3>4, client_dropType
    <3>6. ASSUME NEW d \in Ctx, client'[d].st = "CLIENT_VALID", client[d].mem # NoTag
          PROVE  client'[d] = client[d] /\ ev'[client[d].mem] = ev[client[d].mem]
      <4>1. client'[d] = client[d] BY <3>5, <3>6
      <4>2. client[d].mem \in Tags /\ client[d].mem # t
        BY <2>3, <3>6, <4>1 DEF IInv, TypeOK, Client
      <4>. QED BY <4>1, <4>2, <3>3
    <3>7. AckMatchesRequest' BY <1>1, <3>5, <3>6, AckKept
    <3>8. NullInbox' BY <1>1, <3>5 DEF IInv, NullInbox
    <3>9. SplitDone' BY <3>1, <3>3 DEF IInv, SplitDone, SplitOK, IsPending
    <3>. QED BY <1>1, <3>2, <3>5, <3>7, <3>8, <3>9 DEF EventsInv, IInv, TypeOK
  <2>. QED BY <1>3, <2>5, <2>6
<1>. QED BY <1>2, <1>3 DEF handle_interrupt

\* A slot that holds no valid client afterwards.
LEMMA LeaveInv ==
  ASSUME IInv, NEW c \in Ctx, NEW cl \in Client, cl.st # "CLIENT_VALID",
         client' = [client EXCEPT ![c] = cl],
         inbox' \in [Ctx -> Seq(Tags)], \A d \in Ctx : d # c => inbox'[d] = inbox[d],
         cl.st = "NULL" => inbox'[c] = <<>>, UNCHANGED <<list, ev>>
  PROVE  EventsInv'
<1>1. client' \in [Ctx -> Client] /\ client'[c] = cl /\ \A d \in Ctx : d # c => client'[d] = client[d]
  BY DEF IInv, TypeOK
<1>2. AckMatchesRequest' BY <1>1, AckKept
<1>3. NullInbox' BY <1>1 DEF IInv, NullInbox
<1>4. SplitDone' BY DEF IInv, SplitDone, SplitOK, IsPending
<1>. QED BY <1>1, <1>2, <1>3, <1>4 DEF EventsInv, IInv, TypeOK, ListOK, Live

\* The acknowledgement of the application of client c is taken for its request.
LEMMA ReplyInv ==
  ASSUME IInv, NEW c \in Ctx, client[c].st = "CLIENT_VALID", Reply(c)
  PROVE  EventsInv'
<1>. DEFINE t == client[c].mem
<1>1. /\ inbox[c] # <<>> /\ inbox' = [inbox EXCEPT ![c] = Tail(@)]
      /\ client' = [client EXCEPT ![c].mem = NoTag]
  BY DEF Reply
<1>2. client \in [Ctx -> Client] /\ client[c] \in Client /\ inbox \in [Ctx -> Seq(Tags)]
  BY DEF IInv, TypeOK
<1>3. /\ client' \in [Ctx -> Client] /\ \A d \in Ctx : d # c => client'[d] = client[d]
      /\ client'[c].mem = NoTag /\ client'[c].st = client[c].st /\ client'[c].sock = client[c].sock
  BY <1>1, <1>2 DEF Client
<1>4. inbox' \in [Ctx -> Seq(Tags)] /\ \A d \in Ctx : d # c => inbox'[d] = inbox[d]
  <2>1. Tail(inbox[c]) \in Seq(Tags) BY <1>1, <1>2
  <2>. QED BY <1>1, <1>2, <2>1
<1>5. client[c].sock = "open" => inbox'[c] = <<>>
  <2>. SUFFICES ASSUME client[c].sock = "open" PROVE inbox'[c] = <<>> OBVIOUS
  <2>1. inbox[c] = <<t>> BY <1>1 DEF IInv, AckMatchesRequest
  <2>. QED BY <1>1, <1>2, <2>1
<1>6. NullInbox' BY <1>3, <1>4 DEF IInv, NullInbox
<1>7. ASSUME ev' \in [Tags -> Event] /\ list' \in Seq(Tags) /\ ListOK' /\ SplitDone',
             \A u \in Tags : u # t => ev'[u] = ev[u]
      PROVE  EventsInv'
  <2>1. ASSUME NEW d \in Ctx, client'[d].st = "CLIENT_VALID"
        PROVE  /\ client'[d].mem # NoTag => /\ Live(client[d].mem)'
                                            /\ ev'[client'[d].mem].ctx = d
                                            /\ Outstanding(ev'[client'[d].mem])
               /\ client'[d].sock = "open" =>
                    inbox'[d] = IF client'[d].mem = NoTag THEN <<>> ELSE <<client'[d].mem>>
    <3>1. CASE d = c BY <3>1, <1>3, <1>5
    <3>2. CASE d # c
      <4>1. client'[d] = client[d] /\ inbox'[d] = inbox[d] BY <3>2, <1>3, <1>4
      <4>2. client[d].mem # NoTag => client[d].mem \in Tags /\ client[d].mem # t
        <5>. SUFFICES ASSUME client[d].mem # NoTag, client[d].mem = t PROVE FALSE
          BY <1>2 DEF Client
        <5>1. ev[client[d].mem].ctx = d /\ ev[client[c].mem].ctx = c
          BY <2>1, <4>1 DEF IInv, AckMatchesRequest
        <5>. QED BY <5>1, <3>2
      <4>3. client[d].mem # NoTag => ev'[client[d].mem] = ev[client[d].mem] BY <4>2, <1>7
      <4>. QED BY <2>1, <4>1, <4>3 DEF IInv, AckMatchesRequest, Live
    <3>. QED BY <3>1, <3>2
  <2>2. AckMatchesRequest' BY <2>1 DEF AckMatchesRequest
  <2>. QED BY <1>3, <1>4, <1>6, <1>7, <2>2 DEF EventsInv
<1>8. CASE UNCHANGED <<list, ev>>
  <2>1. ev' \in [Tags -> Event] /\ list' \in Seq(Tags) /\ ListOK' /\ SplitDone'
    BY <1>8 DEF IInv, TypeOK, ListOK, Live, SplitDone, SplitOK, IsPending
  <2>. QED BY <1>7, <1>8, <2>1
<1>9. ASSUME NEW e \in Event, t # NoTag, Update(t, e), e.st = "MEM_DONE", e.sent = ev[t].sent
      PROVE  EventsInv'
  <2>1. t \in Tags /\ Live(t) /\ ev[t] \in Event
    BY <1>2, <1>9 DEF IInv, TypeOK, AckMatchesRequest, Client
  <2>2. ev[t].st # "MEM_DONE" BY <1>9 DEF IInv, AckMatchesRequest, Outstanding
  <2>3. ev[t].sent = 0 BY <2>1, <2>2 DEF IInv, SplitDone, SplitOK
  <2>4. ev' \in [Tags -> Event] /\ list' \in Seq(Tags) /\ ListOK'
    BY <1>9, <2>1, UpdateKeepsList DEF IInv
  <2>5. ev'[t] = e /\ \A u \in Tags : u # t => ev'[u] = ev[u] BY <1>9, <2>1 DEF Update, IInv, TypeOK
  <2>6. SplitDone' BY <1>9, <2>3, <2>5 DEF IInv, SplitDone, SplitOK, IsPending
  <2>. QED BY <1>7, <2>4, <2>5, <2>6
<1>10. ASSUME t # NoTag, NEW e, Update(t, e),
              \/ e = [ev[t] EXCEPT !.st = "MEM_DONE", !.type = "CMD_FAILED", !.resp = "failed"]
              \/ e = [ev[t] EXCEPT !.st = "MEM_DONE",
                                   !.ret = ev[t].type \in {"CMD_READ", "CMD_AMO_RD", "CMD_AMO_RW"}]
       PROVE  EventsInv'
  <2>1. t \in Tags /\ ev[t] \in Event BY <1>2, <1>10 DEF IInv, TypeOK, Client
  <2>2. e \in Event /\ e.st = "MEM_DONE" /\ e.sent = ev[t].sent
    <3>. DEFINE ret == ev[t].type \in {"CMD_READ", "CMD_AMO_RD", "CMD_AMO_RW"}
    <3>1. "MEM_DONE" \in States /\ "CMD_FAILED" \in Types /\ "failed" \in Codes
      BY DEF States, Types, Codes
    <3>2. ret \in BOOLEAN OBVIOUS
    <3>3. \/ e = [ev[t] EXCEPT !.st = "MEM_DONE", !.type = "CMD_FAILED", !.resp = "failed"]
          \/ e = [ev[t] EXCEPT !.st = "MEM_DONE", !.ret = ret]
      BY <1>10
    <3>. HIDE DEF ret, t
    <3>4. CASE e = [ev[t] EXCEPT !.st = "MEM_DONE", !.type = "CMD_FAILED", !.resp = "failed"]
      BY <2>1, <3>1, <3>4 DEF Event
    <3>5. CASE e = [ev[t] EXCEPT !.st = "MEM_DONE", !.ret = ret] BY <2>1, <3>1, <3>2, <3>5 DEF Event
    <3>. QED BY <3>3, <3>4, <3>5
  <2>. QED BY <1>9, <1>10, <2>2
<1>. QED BY <1>8, <1>10 DEF Reply, handle_mem_return, handle_aerror

\* _handle_client: no message, an acknowledgement, a detach or a lost connection.
LEMMA _handle_clientInv == ASSUME IInv, _handle_client PROVE EventsInv'
<1>1. cur \in Ctx /\ client[cur] \in Client /\ inbox \in [Ctx -> Seq(Tags)] BY DEF IInv, TypeOK
<1>2. CASE UNCHANGED <<list, ev, client, inbox>> BY <1>2, SameEvents
<1>3. CASE client[cur].st = "CLIENT_VALID" /\ Reply(cur) BY <1>1, <1>3, ReplyInv
<1>4. CASE _detach(cur)
  <2>. DEFINE cl == [client_drop(client[cur]) EXCEPT !.sock = "closed"]
  <2>1. client_drop(client[cur]) \in Client /\ client_drop(client[cur]).st = "CLIENT_NONE"
    BY <1>1, client_dropType
  <2>2. cl \in Client /\ cl.st = "CLIENT_NONE" BY <2>1 DEF Client
  <2>3. /\ client' = [client EXCEPT ![cur] = cl] /\ inbox' = [inbox EXCEPT ![cur] = <<>>]
        /\ UNCHANGED <<list, ev>>
    BY <1>4 DEF _detach
  <2>4. inbox' \in [Ctx -> Seq(Tags)] /\ \A d \in Ctx : d # cur => inbox'[d] = inbox[d]
    BY <1>1, <2>3
  <2>. HIDE DEF cl
  <2>. QED BY <1>1, <2>2, <2>3, <2>4, LeaveInv
<1>5. CASE Lost(cur)
  <2>1. client_drop(client[cur]) \in Client /\ client_drop(client[cur]).st = "CLIENT_NONE"
    BY <1>1, client_dropType
  <2>2. client' = [client EXCEPT ![cur] = client_drop(client[cur])] /\ UNCHANGED <<list, ev, inbox>>
    BY <1>5 DEF Lost
  <2>. QED BY <1>1, <2>1, <2>2, LeaveInv
<1>. QED BY <1>2, <1>3, <1>4, <1>5 DEF _handle_client, NoMessage

\* An empty slot has its type.
LEMMA NoClientType == ASSUME NEW g \in Nat PROVE NoClient(g) \in Client
BY ConstantsAssumption DEF NoClient, Client, ConstantsAssumption

\* A released slot has no request on its way.
LEMMA ReleaseSlotInv == ASSUME IInv, ReleaseSlot PROVE EventsInv'
<1>1. /\ cur \in Ctx /\ client[cur] \in Client /\ inbox \in [Ctx -> Seq(Tags)]
      /\ client[cur].gen \in Nat
  BY DEF IInv, TypeOK, Client
<1>2. /\ client' = [client EXCEPT ![cur] = NoClient(client[cur].gen)] /\ UNCHANGED <<list, ev>>
      /\ inbox' = [inbox EXCEPT ![cur] = <<>>]
  BY DEF ReleaseSlot
<1>3. NoClient(client[cur].gen) \in Client /\ NoClient(client[cur].gen).st = "NULL"
  BY <1>1, NoClientType DEF NoClient
<1>4. /\ inbox' \in [Ctx -> Seq(Tags)] /\ inbox'[cur] = <<>>
      /\ \A d \in Ctx : d # cur => inbox'[d] = inbox[d]
  BY <1>1, <1>2
<1>. QED BY <1>1, <1>2, <1>3, <1>4, LeaveInv

\* client_cmd terminates events of a dropped client only.
LEMMA client_cmdInv == ASSUME IInv, client_cmd PROVE EventsInv'
<1>1. /\ cur \in Ctx /\ client \in [Ctx -> Client] /\ client[cur] \in Client
      /\ ev \in [Tags -> Event] /\ list \in Seq(Tags) /\ UNCHANGED <<list, inbox>>
  BY DEF IInv, TypeOK, client_cmd
<1>. DEFINE idle == /\ client[cur].st = "CLIENT_VALID"
                    /\ \E t \in Tags : Live(t) /\ ev[t].ctx = cur
<1>2. client' = [client EXCEPT ![cur].idle = idle] /\ idle \in BOOLEAN BY DEF client_cmd
<1>. HIDE DEF idle
<1>3. /\ client' \in [Ctx -> Client]
      /\ \A d \in Ctx : /\ client'[d].st = client[d].st /\ client'[d].mem = client[d].mem
                        /\ client'[d].sock = client[d].sock
  BY <1>1, <1>2 DEF Client
<1>4. ASSUME NEW t \in Tags
      PROVE  /\ Terminate(ev[t]) \in Event /\ Terminate(ev[t]).st = "MEM_DONE"
             /\ Terminate(ev[t]).sent = ev[t].sent
  <2>. DEFINE resp == IF ev[t].type \in {"CMD_READ", "CMD_WRITE", "CMD_TOUCH"}
                      THEN "dropped" ELSE ev[t].resp
  <2>1. ev[t] \in Event /\ "MEM_DONE" \in States BY <1>1 DEF States
  <2>2. resp \in Codes BY <2>1 DEF Event, Codes
  <2>3. Terminate(ev[t]) = [ev[t] EXCEPT !.st = "MEM_DONE", !.resp = resp] BY DEF Terminate
  <2>. HIDE DEF resp
  <2>. QED BY <2>1, <2>2, <2>3 DEF Event
<1>5. ev' \in [Tags -> Event] BY <1>1, <1>4 DEF client_cmd
<1>6. \A t \in Tags : \/ ev'[t] = ev[t]
                      \/ /\ ev'[t] = Terminate(ev[t]) /\ Live(t) /\ ev[t].ctx = cur
                         /\ ev[t].st # "MEM_DONE" /\ client[cur].st = "CLIENT_NONE"
  BY DEF client_cmd
<1>7. ListOK'
  <2>1. \A t \in Tags : Live(t)' <=> Live(t) BY <1>4, <1>6 DEF Live
  <2>. QED BY <1>1, <2>1 DEF IInv, TypeOK, ListOK
<1>8. SplitDone'
  <2>. SUFFICES ASSUME NEW t \in Tags PROVE SplitOK(ev'[t]) BY DEF SplitDone
  <2>1. SplitOK(ev[t]) BY DEF IInv, SplitDone
  <2>. QED BY <1>4, <1>6, <2>1 DEF SplitOK, IsPending
<1>9. ASSUME NEW d \in Ctx, client[d].st = "CLIENT_VALID", client[d].mem # NoTag
      PROVE  ev'[client[d].mem] = ev[client[d].mem]
  <2>1. client[d].mem \in Tags BY <1>1, <1>9 DEF Client
  <2>2. ev[client[d].mem].ctx = d BY <1>9 DEF IInv, AckMatchesRequest
  <2>. QED BY <1>6, <1>9, <2>1, <2>2
<1>10. AckMatchesRequest' BY <1>1, <1>3, <1>9, AckKept
<1>11. NullInbox' BY <1>1, <1>3 DEF IInv, NullInbox
<1>. QED BY <1>1, <1>3, <1>5, <1>7, <1>8, <1>10, <1>11 DEF EventsInv, IInv, TypeOK

\* A new client finds no request of an earlier one.
LEMMA OpenInv == ASSUME IInv, NEW c \in Ctx, Open(c) PROVE EventsInv'
<1>. DEFINE cl == [NoClient(client[c].gen + 1) EXCEPT !.st = "CLIENT_VALID", !.sock = "open"]
<1>1. client \in [Ctx -> Client] /\ client[c].gen + 1 \in Nat BY DEF IInv, TypeOK, Client
<1>2. cl \in Client /\ cl.mem = NoTag BY <1>1, NoClientType DEF Client, NoClient
<1>3. /\ client' = [client EXCEPT ![c] = cl] /\ client[c].st = "NULL"
      /\ UNCHANGED <<list, ev, inbox>>
  BY DEF Open
<1>. HIDE DEF cl
<1>4. /\ client' \in [Ctx -> Client] /\ client'[c] = cl
      /\ \A d \in Ctx : d # c => client'[d] = client[d]
  BY <1>1, <1>2, <1>3
<1>5. inbox[c] = <<>> BY <1>3 DEF IInv, NullInbox
<1>6. AckMatchesRequest'
  BY <1>2, <1>3, <1>4, <1>5 DEF IInv, AckMatchesRequest, Live, Outstanding
<1>7. NullInbox' BY <1>3, <1>4, <1>5 DEF IInv, NullInbox
<1>8. SplitDone' BY <1>3 DEF IInv, SplitDone, SplitOK, IsPending
<1>. QED BY <1>3, <1>4, <1>6, <1>7, <1>8 DEF EventsInv, IInv, TypeOK, ListOK, Live

\* An application that dies leaves its request behind.
LEMMA DieInv == ASSUME IInv, NEW c \in Ctx, Die(c) PROVE EventsInv'
<1>1. client \in [Ctx -> Client] /\ client[c] \in Client BY DEF IInv, TypeOK
<1>2. client' = [client EXCEPT ![c].sock = "dead"] /\ UNCHANGED <<list, ev, inbox>> BY DEF Die
<1>3. /\ client' \in [Ctx -> Client]
      /\ \A d \in Ctx : /\ client'[d].st = client[d].st /\ client'[d].mem = client[d].mem
                        /\ client'[d].sock = "open" => client[d].sock = "open"
  BY <1>1, <1>2 DEF Client
<1>4. AckMatchesRequest' BY <1>2, <1>3, AckKept
<1>5. NullInbox' BY <1>2, <1>3 DEF IInv, NullInbox
<1>6. SplitDone' BY <1>2 DEF IInv, SplitDone, SplitOK, IsPending
<1>. QED BY <1>2, <1>3, <1>4, <1>5, <1>6 DEF EventsInv, IInv, TypeOK, ListOK, Live

-----------------------------------------------------------------------------
(***************************************************************************)
(* What passes between ocse and the AFU keeps its type.                    *)
(***************************************************************************)
\* What the AFU knows about a tag keeps its type.
LEMMA ReceiveType ==
  ASSUME NEW a \in AfuTag, NEW r \in Response PROVE Receive(a, r) \in AfuTag
<1>1. AfuIdle \in AfuTag
  <2>1. 0 \in Ctx BY ConstantsAssumption DEF ConstantsAssumption, Ctx
  <2>. QED BY <2>1 DEF AfuIdle, AfuTag, Ops
<1>2. [a EXCEPT !.st = "pend"] \in AfuTag BY DEF AfuTag
<1>3. a.cnt + r.dl \in Nat /\ (r.dp .. (r.dp + r.dl - 1)) \subseteq Nat BY DEF AfuTag, Response
<1>4. [a EXCEPT !.got = @ \cup (r.dp .. (r.dp + r.dl - 1)), !.cnt = @ + r.dl] \in AfuTag
  BY <1>3 DEF AfuTag
<1>. QED BY <1>1, <1>2, <1>4 DEF Receive

\* The packets of a clock keep their types.
LEMMA ClockWires == ASSUME IInv, Clock PROVE WireInv'
<1>. USE DEF IInv, TypeOK
<1>1. PICK m \in {NoCmd} \cup Commands({t \in Tags : afu[t].st = "free"})
                         \cup Assignments({t \in Tags : afu[t].st = "free"}) :
        /\ cmdport' = m /\ afu' = Issued(Received, m)
        /\ amap' = IF m.op = "ASSIGN_ACTAG" THEN [amap EXCEPT ![m.actag] = m.pasid] ELSE amap
        /\ LET owed == dq \o Beats(m) IN
             \/ cdata' = NoBeat /\ dq' = owed
             \/ owed # <<>> /\ cdata' = Head(owed) /\ dq' = Tail(owed)
  BY DEF Clock
<1>2. m \in Command
  <2>1. 0 \in Ctx BY ConstantsAssumption DEF ConstantsAssumption, Ctx
  <2>2. NoCmd \in Command BY <2>1, ConstantsAssumption DEF NoCmd, Command, Ops, ConstantsAssumption
  <2>3. ASSUME NEW x \in Commands({t \in Tags : afu[t].st = "free"}) PROVE x \in Command
    <3>1. PICK t \in Tags, k \in Cmds, a \in {y \in Actags : amap[y] # MaxClients} :
            x = [tag |-> t, op |-> k.op, n |-> k.n, ok |-> k.ok, actag |-> a, pasid |-> amap[a]]
      BY DEF Commands
    <3>2. amap[a] \in Ctx OBVIOUS
    <3>3. k \in [op : Ops, n : {1, 2, 4}, ok : BOOLEAN]
      BY ConstantsAssumption DEF ConstantsAssumption
    <3>. QED BY <3>1, <3>2, <3>3 DEF Command
  <2>4. ASSUME NEW x \in Assignments({t \in Tags : afu[t].st = "free"}) PROVE x \in Command
    <3>1. PICK t \in Tags, q \in Ctx \X Actags :
            x = [tag |-> t, op |-> "ASSIGN_ACTAG", n |-> 1, ok |-> TRUE, actag |-> q[2],
                 pasid |-> q[1]]
      BY DEF Assignments
    <3>. QED BY <3>1 DEF Command, Ops
  <2>. QED BY <1>1, <2>2, <2>3, <2>4
<1>3. Received \in [Tags -> AfuTag]
  <2>1. CASE port.tag = NoTag BY <2>1 DEF Received
  <2>2. CASE port.tag # NoTag
    <3>1. port.tag \in Tags BY <2>2 DEF Response
    <3>2. Receive(afu[port.tag], port) \in AfuTag BY <3>1, ReceiveType
    <3>. QED BY <2>2, <3>1, <3>2 DEF Received
  <2>. QED BY <2>1, <2>2
<1>4. afu' \in [Tags -> AfuTag]
  <2>1. CASE m.tag = NoTag \/ m.op \in {"NOP", "ASSIGN_ACTAG"} BY <1>1, <1>3, <2>1 DEF Issued
  <2>2. CASE ~(m.tag = NoTag \/ m.op \in {"NOP", "ASSIGN_ACTAG"})
    <3>. DEFINE r == [st |-> "sent", op |-> m.op, n |-> m.n, got |-> {}, cnt |-> 0,
                      pasid |-> m.pasid]
    <3>1. m.tag \in Tags /\ r \in AfuTag BY <1>2, <2>2 DEF Command, AfuTag
    <3>2. afu' = [Received EXCEPT ![m.tag] = r] BY <1>1, <2>2 DEF Issued
    <3>. HIDE DEF r
    <3>. QED BY <1>3, <3>1, <3>2
  <2>. QED BY <2>1, <2>2
<1>5. amap' \in [Actags -> Ctx \cup {MaxClients}] BY <1>1, <1>2 DEF Command
<1>6. cdata' \in Beat /\ dq' \in Seq(Beat)
  <2>1. NoBeat \in Beat BY DEF NoBeat, Beat
  <2>2. Beats(m) \in Seq(Beat)
    <3>1. CASE m.tag # NoTag /\ m.op \in DataOps
      <4>1. m.n \in Nat /\ m.tag \in Tags BY <1>2, <3>1 DEF Command
      <4>2. \A k \in 1 .. m.n : <<m.tag, k - 1>> \in Beat BY <4>1 DEF Beat
      <4>3. Beats(m) = [k \in 1 .. m.n |-> <<m.tag, k - 1>>] BY <3>1 DEF Beats
      <4>4. Beats(m) \in [1 .. m.n -> Beat] BY <4>2, <4>3
      <4>5. [1 .. m.n -> Beat] \subseteq Seq(Beat) BY ONLY <4>1, SeqDef, Zenon
      <4>. QED BY <4>4, <4>5
    <3>2. CASE ~(m.tag # NoTag /\ m.op \in DataOps)
      <4>1. Beats(m) = <<>> BY <3>2 DEF Beats
      <4>. QED BY <4>1
    <3>. QED BY <3>1, <3>2
  <2>. DEFINE owed == dq \o Beats(m)
  <2>3. owed \in Seq(Beat) BY <2>2
  <2>4. \/ cdata' = NoBeat /\ dq' = owed
        \/ owed # <<>> /\ cdata' = Head(owed) /\ dq' = Tail(owed)
    BY <1>1
  <2>. HIDE DEF owed
  <2>5. owed # <<>> => Head(owed) \in Beat /\ Tail(owed) \in Seq(Beat)
    BY ONLY <2>3, HeadTailProperties
  <2>. QED BY ONLY <2>1, <2>3, <2>4, <2>5
<1>7. pc' \in PCs /\ cur' \in Ctx BY DEF Clock, Goto, PCs
<1>8. port' \in Response BY DEF Clock, NoResp, Response, Opcodes, Codes
<1>9. credits' \in 0 .. MaxRespCredits
  BY ConstantsAssumption DEF Clock, ConstantsAssumption
<1>. QED BY <1>1, <1>2, <1>4, <1>5, <1>6, <1>7, <1>8, <1>9 DEF WireInv

\* A response is sent for a credit.
LEMMA SendType ==
  ASSUME IInv, CanSend, NEW t \in Tags, NEW ropc \in Opcodes, NEW code \in Codes,
         NEW dl \in {0, 1, 2, 4}, NEW dp \in 0 .. 3, NEW ret \in BOOLEAN,
         Send(t, ropc, code, dl, dp, ret)
  PROVE  port' \in Response /\ credits' \in 0 .. MaxRespCredits
<1>1. port' \in Response BY DEF Send, Response
<1>2. credits \in 0 .. MaxRespCredits /\ credits > 0 /\ credits' = credits - 1
  BY DEF IInv, TypeOK, CanSend, Send
<1>3. MaxRespCredits \in Nat BY ConstantsAssumption DEF ConstantsAssumption
<1>. QED BY <1>1, <1>2, <1>3

\* handle_response sends responses of the right type.
LEMMA ResponseWires == ASSUME IInv, handle_response PROVE WireInv'
<1>1. UNCHANGED <<cmdport, cdata, afu, dq, amap>> /\ pc' \in PCs /\ cur' = cur
  BY DEF handle_response, Goto, PCs
<1>2. port' \in Response /\ credits' \in 0 .. MaxRespCredits
  <2>1. CASE UNCHANGED <<port, credits>> BY <2>1 DEF IInv, TypeOK
  <2>2. ASSUME NEW i \in Present(First(IsReady)), CanSend,
               LET e == Chunk(ev[list[i]]) IN
                 Send(list[i], e.ropc, IF ReturnsData(e) THEN "ok" ELSE e.resp,
                      e.dl, e.dp, ReturnsData(e) /\ e.ret)
        PROVE  port' \in Response /\ credits' \in 0 .. MaxRespCredits
    <3>. DEFINE e == Chunk(ev[list[i]])
                code == IF ReturnsData(e) THEN "ok" ELSE e.resp
                ret == ReturnsData(e) /\ e.ret
    <3>1. i \in DOMAIN list BY DEF Present, First
    <3>2. list[i] \in Tags /\ e \in Event BY <3>1, ListedLive, ChunkType
    <3>. HIDE DEF e
    <3>3. /\ e.ropc \in Opcodes /\ e.dl \in {0, 1, 2, 4} /\ e.dp \in 0 .. 3
          /\ e.resp \in Codes /\ e.ret \in BOOLEAN
      BY <3>2 DEF Event
    <3>4. code \in Codes BY <3>3 DEF Codes
    <3>5. ret \in BOOLEAN OBVIOUS
    <3>6. Send(list[i], e.ropc, code, e.dl, e.dp, ret) BY <2>2 DEF e
    <3>. HIDE DEF code, ret
    <3>. QED BY <2>2, <3>2, <3>3, <3>4, <3>5, <3>6, SendType
  <2>. QED BY <2>1, <2>2 DEF handle_response
<1>. QED BY <1>1, <1>2 DEF WireInv, IInv, TypeOK

\* handle_xlate_intrp_pending_sent sends posted commands of the right type.
LEMMA PendingSentWires == ASSUME IInv, handle_xlate_intrp_pending_sent PROVE WireInv'
<1>1. UNCHANGED <<cmdport, cdata, afu, dq, amap>> /\ pc' \in PCs /\ cur' = cur
  BY DEF handle_xlate_intrp_pending_sent, Goto, PCs
<1>2. port' \in Response /\ credits' \in 0 .. MaxRespCredits
  <2>1. CASE UNCHANGED <<port, credits>> BY <2>1 DEF IInv, TypeOK
  <2>2. ASSUME NEW i \in DOMAIN list, CanSend, NEW code \in {"ok"} \cup (Faults \cap {"retry"}),
               Send(list[i], IF ev[list[i]].op \in IntOps THEN "INTRP_RDY" ELSE "XLATE_DONE",
                    code, 0, 0, FALSE)
        PROVE  port' \in Response /\ credits' \in 0 .. MaxRespCredits
    <3>1. list[i] \in Tags BY ListedLive
    <3>2. (IF ev[list[i]].op \in IntOps THEN "INTRP_RDY" ELSE "XLATE_DONE") \in Opcodes
      BY DEF Opcodes
    <3>3. code \in Codes BY DEF Codes
    <3>. DEFINE ropc == IF ev[list[i]].op \in IntOps THEN "INTRP_RDY" ELSE "XLATE_DONE"
    <3>4. Send(list[i], ropc, code, 0, 0, FALSE) /\ ropc \in Opcodes BY <2>2, <3>2
    <3>. HIDE DEF ropc
    <3>5. 0 \in {0, 1, 2, 4} /\ 0 \in 0 .. 3 /\ FALSE \in BOOLEAN OBVIOUS
    <3>. QED BY <2>2, <3>1, <3>3, <3>4, <3>5, SendType
  <2>3. Present(IF Reorder THEN {j \in DOMAIN list : IsPendingSent(ev[list[j]])}
                           ELSE First(IsPendingSent)) \subseteq DOMAIN list
    BY DEF Present, First
  <2>. QED BY <2>1, <2>2, <2>3 DEF handle_xlate_intrp_pending_sent
<1>. QED BY <1>1, <1>2 DEF WireInv, IInv, TypeOK

\* The loop over the client slots stays within them.
LEMMA NextSlotType == ASSUME IInv, NextSlot PROVE pc' \in PCs /\ cur' \in Ctx
BY ConstantsAssumption DEF IInv, TypeOK, NextSlot, PCs, Ctx, ConstantsAssumption

\* handle_cmd takes the command and at most the beat.
LEMMA CmdWires == ASSUME IInv, handle_cmd PROVE WireInv'
<1>1. UNCHANGED <<port, credits, afu, dq, amap>> /\ cur' = cur BY DEF handle_cmd, Goto
<1>2. pc' \in PCs BY DEF handle_cmd, Goto, PCs
<1>3. NoBeat \in Beat BY DEF NoBeat, Beat
<1>4. NoCmd \in Command
  <2>1. 0 \in Ctx BY ConstantsAssumption DEF ConstantsAssumption, Ctx
  <2>. QED BY <2>1, ConstantsAssumption DEF NoCmd, Command, Ops, ConstantsAssumption
<1>5. cmdport' \in {cmdport, NoCmd} BY DEF handle_cmd
<1>6. cdata' \in {cdata, NoBeat} BY DEF handle_cmd, _assign_actag, Ignored, Accepted, _add_cmd
<1>. QED BY <1>1, <1>2, <1>3, <1>4, <1>5, <1>6 DEF WireInv, IInv, TypeOK

\* The other handlers change pc, cur and cdata only.
LEMMA OtherWires ==
  ASSUME IInv, UNCHANGED <<port, credits, cmdport, afu, dq, amap>>, cdata' \in {cdata, NoBeat},
         pc' \in PCs, cur' \in Ctx
  PROVE  WireInv'
<1>1. NoBeat \in Beat BY DEF NoBeat, Beat
<1>. QED BY <1>1 DEF WireInv, IInv, TypeOK

\* Every step of the loop, of a client that opens a slot and of one that dies
\* keeps the invariant.
THEOREM NextInvariant == IInv /\ [Next]_vars => IInv'
<1>. SUFFICES ASSUME IInv, [Next]_vars PROVE EventsInv' /\ WireInv'
  BY IInvParts DEF EventsInv, WireInv, IInv, TypeOK
<1>1. CASE Clock
  <2>1. UNCHANGED <<list, ev, client, inbox>> BY <1>1 DEF Clock
  <2>. QED BY <1>1, <2>1, SameEvents, ClockWires
<1>2. CASE handle_response BY <1>2, handle_responseInv, ResponseWires
<1>3. CASE handle_buffer_write
  <2>1. UNCHANGED <<port, credits, cmdport, cdata, afu, dq, amap>> /\ pc' \in PCs /\ cur' \in Ctx
    BY <1>3 DEF handle_buffer_write, Goto, PCs, IInv, TypeOK
  <2>. QED BY <1>3, <2>1, handle_buffer_writeInv, OtherWires
<1>4. CASE handle_xlate_intrp_pending_sent
  BY <1>4, handle_xlate_intrp_pending_sentInv, PendingSentWires
<1>5. CASE handle_cmd BY <1>5, handle_cmdInv, CmdWires
<1>6. CASE handle_afu_tlx_cmd_data_read
  <2>1. UNCHANGED <<port, credits, cmdport, afu, dq, amap>> /\ pc' \in PCs /\ cur' \in Ctx
    BY <1>6 DEF handle_afu_tlx_cmd_data_read, Goto, PCs, IInv, TypeOK
  <2>2. cdata' \in {cdata, NoBeat} BY <1>6 DEF handle_afu_tlx_cmd_data_read
  <2>. QED BY <1>6, <2>1, <2>2, handle_afu_tlx_cmd_data_readInv, OtherWires
<1>7. CASE handle_afu_tlx_write_cmd
  <2>1. UNCHANGED <<port, credits, cmdport, cdata, afu, dq, amap>> /\ pc' \in PCs /\ cur' \in Ctx
    BY <1>7 DEF handle_afu_tlx_write_cmd, Goto, PCs, IInv, TypeOK
  <2>. QED BY <1>7, <2>1, handle_afu_tlx_write_cmdInv, OtherWires
<1>8. CASE handle_interrupt
  <2>1. UNCHANGED <<port, credits, cmdport, cdata, afu, dq, amap>> /\ pc' \in PCs /\ cur' \in Ctx
    BY <1>8 DEF handle_interrupt, Goto, PCs, IInv, TypeOK
  <2>. QED BY <1>8, <2>1, handle_interruptInv, OtherWires
<1>9. CASE handle_write_be_or_amo
  <2>1. UNCHANGED <<port, credits, cmdport, cdata, afu, dq, amap>> /\ pc' \in PCs /\ cur' \in Ctx
    BY <1>9 DEF handle_write_be_or_amo, Goto, PCs, IInv, TypeOK
  <2>. QED BY <1>9, <2>1, handle_write_be_or_amoInv, OtherWires
<1>10. CASE EmptySlot
  <2>1. UNCHANGED <<list, ev, client, inbox, port, credits, cmdport, cdata, afu, dq, amap>>
    BY <1>10 DEF EmptySlot
  <2>2. pc' \in PCs /\ cur' \in Ctx BY <1>10, NextSlotType DEF EmptySlot
  <2>. QED BY <2>1, <2>2, SameEvents, OtherWires
<1>11. CASE ReleaseSlot
  <2>1. UNCHANGED <<port, credits, cmdport, cdata, afu, dq, amap>> BY <1>11 DEF ReleaseSlot
  <2>2. pc' \in PCs /\ cur' \in Ctx BY <1>11, NextSlotType DEF ReleaseSlot
  <2>. QED BY <1>11, <2>1, <2>2, ReleaseSlotInv, OtherWires
<1>12. CASE _handle_client
  <2>1. UNCHANGED <<port, credits, cmdport, cdata, afu, dq, amap>> /\ pc' \in PCs /\ cur' \in Ctx
    BY <1>12 DEF _handle_client, Goto, PCs, IInv, TypeOK
  <2>. QED BY <1>12, <2>1, _handle_clientInv, OtherWires
<1>13. CASE client_cmd
  <2>1. UNCHANGED <<port, credits, cmdport, cdata, afu, dq, amap>> BY <1>13 DEF client_cmd
  <2>2. pc' \in PCs /\ cur' \in Ctx BY <1>13, NextSlotType DEF client_cmd
  <2>. QED BY <1>13, <2>1, <2>2, client_cmdInv, OtherWires
<1>14. ASSUME NEW c \in Ctx, Open(c) PROVE EventsInv' /\ WireInv'
  <2>1. UNCHANGED <<pc, cur, port, credits, cmdport, cdata, afu, dq, amap>> BY <1>14 DEF Open
  <2>. QED BY <1>14, <2>1, OpenInv, OtherWires DEF IInv, TypeOK
<1>15. ASSUME NEW c \in Ctx, Die(c) PROVE EventsInv' /\ WireInv'
  <2>1. UNCHANGED <<pc, cur, port, credits, cmdport, cdata, afu, dq, amap>> BY <1>15 DEF Die
  <2>. QED BY <1>15, <2>1, DieInv, OtherWires DEF IInv, TypeOK
<1>16. CASE UNCHANGED vars
  <2>1. UNCHANGED <<list, ev, client, inbox>> BY <1>16 DEF vars
  <2>2. UNCHANGED <<pc, cur, port, credits, cmdport, cdata, afu, dq, amap>> BY <1>16 DEF vars
  <2>. QED BY <2>1, <2>2, SameEvents, OtherWires DEF IInv, TypeOK
<1>. QED BY <1>1, <1>2, <1>3, <1>4, <1>5, <1>6, <1>7, <1>8, <1>9, <1>10, <1>11, <1>12, <1>13,
            <1>14, <1>15, <1>16
         DEF Next, Loop

\* The inductive invariant holds of every behaviour of the engine.
THEOREM Invariant == Spec => []IInv
BY InitInvariant, NextInvariant, PTL DEF Spec

\* Every variable keeps its type and the event list of cmd.c is well formed
\* (each live event linked once), for any number of tags, clients and credits.
THEOREM TypeCorrect == Spec => []TypeOK
<1>1. IInv => TypeOK BY DEF IInv
<1>. QED BY Invariant, <1>1, PTL

\* For any number of tags, clients and credits and any mix of commands, faults
\* and departures: the acknowledgement _handle_client takes from a client is
\* for the event that mem_access of that client points to.
THEOREM AckCorrect == Spec => []AckMatchesRequest
<1>1. IInv => AckMatchesRequest BY DEF IInv
<1>. QED BY Invariant, <1>1, PTL
=============================================================================
