------------------------------ MODULE Libocxl ------------------------------
(***************************************************************************)
(* libocxl: the threads of an application, the thread of the library       *)
(* (_psl_loop) and the socket to ocse.  A call of the application fills a  *)
(* request struct, sets its state to REQUEST and spins until it is IDLE.   *)
(* The library's thread sends what is REQUEST, makes it PENDING, and makes *)
(* it IDLE again when the answer has come, or when the connection is lost. *)
(* The two share struct ocxl_afu with no lock, except for the queue of     *)
(* events.                                                                 *)
(*                                                                         *)
(* ocse is here what the library sees of it (the details are in Cmd, Mmio  *)
(* and Lifecycle): it answers requests, asks for memory, passes interrupts *)
(* and wake-ups on, and may go away at any time.  What an access of the    *)
(* AFU does to the memory of the application is in HostMem.                *)
(***************************************************************************)
EXTENDS Naturals, Sequences, SequencesExt, FiniteSets

CONSTANTS
  Threads,    \* the threads of the application
  Main,       \* the one that opens and closes the AFU
  MayCall,    \* the calls each thread makes
  Ranges,     \* the LPC accesses: [off, size]
  MaxStride,  \* the largest LPC access sent at once (256)
  WakeRaces,  \* whether a wake-up may come while ocxl_wait is being entered
  MaxCalls,   \* bound: calls that open, attach, map, allocate and access
  MaxUnasked  \* bound: messages on the socket when ocse adds one nobody asked for

Calls == {"open", "attach", "map", "unmap", "mmio", "lpc_map", "lpc", "irq", "event", "wait", "close"}
Areas == {"global", "pasid"}

ASSUME LibocxlAssumption ==
  /\ IsFiniteSet(Threads) /\ Main \in Threads /\ MayCall \in [Threads -> SUBSET Calls]
  /\ Ranges \subseteq [off : Nat, size : Nat \ {0}]
  /\ MaxStride \in Nat \ {0} /\ WakeRaces \in BOOLEAN
  /\ MaxCalls \in Nat /\ MaxUnasked \in Nat

VARIABLES
  afu,     \* struct ocxl_afu, without its requests
  req,     \* its requests: open, attach, mmio, mem
  thr,     \* the threads of the application
  psl,     \* the thread of the library
  waits,   \* ocxl_wait_list
  toOcse,  \* the socket, towards ocse
  toLib,   \* the socket, towards the library
  ocse,    \* ocse
  made     \* calls made, of those MaxCalls counts

vars == <<afu, req, thr, psl, waits, toOcse, toLib, ocse, made>>

Requests == {"open", "attach", "mmio", "mem"}

-----------------------------------------------------------------------------
(***************************************************************************)
(* State.                                                                  *)
(***************************************************************************)
\* What a request asks for.  area is for MMIO, addr and size for LPC memory.
Nothing == [op |-> "none", area |-> "none", addr |-> 0, size |-> 0]
Mmio(op, area) == [Nothing EXCEPT !.op = op, !.area = area]
Lpc(op, addr, size) == [Nothing EXCEPT !.op = op, !.addr = addr, !.size = size]
Plain(op) == [Nothing EXCEPT !.op = op]

\* Messages.  of is the request an answer is for.
Msg(m, of) == [m |-> m, of |-> of]
Signal(m) == Msg(m, Nothing)
Wake(t) == [m |-> "WAKE", of |-> t]

\* got: what the answer that made it IDLE was for (no counterpart in the code).
NoReq == [state |-> "IDLE", body |-> Nothing, got |-> Nothing]

\* life: whether the struct is allocated.
AfuInit == [life |-> "none", opened |-> FALSE, attached |-> FALSE, mapped |-> {}, lpc |-> FALSE,
            count |-> 0, max |-> 0, mmios |-> <<"none", "none">>, irq |-> FALSE,
            events |-> <<>>, pipe |-> 0]

Idle == [call |-> "none", at |-> "none", body |-> Nothing, left |-> 0, entry |-> "none"]

Init ==
  /\ afu = AfuInit
  /\ req = [r \in Requests |-> NoReq]
  /\ thr = [t \in Threads |-> Idle]
  /\ psl = [at |-> "none", of |-> "none"]
  /\ waits = [list |-> <<>>, received |-> {}]
  /\ toOcse = <<>> /\ toLib = <<>>
  /\ made = 0
  /\ ocse = [gone |-> FALSE, lost |-> FALSE, attached |-> FALSE, access |-> Nothing, mem |-> "none"]

\* put_bytes: what is written to a socket nobody reads any more is lost.
Put(ms) == toOcse' = IF ocse.gone THEN toOcse ELSE toOcse \o ms

\* The application has a handle of an open AFU.  It does not use it again
\* after ocxl_afu_close, and its other threads are then not in a call.
Handle == afu.life = "open"

InCall(t) == thr[t].call # "none"
Returns(t) == thr' = [thr EXCEPT ![t] = Idle]

\* A call ends.  Its request is forgotten, which nothing reads again before
\* the next call fills it.
Ends(t, r) == thr' = [thr EXCEPT ![t] = Idle] /\ req' = [req EXCEPT ![r] = NoReq]

\* It reports success: "unserved" if its request was not answered.
EndsOk(t, r) ==
  /\ thr' = [thr EXCEPT ![t] = [Idle EXCEPT !.at = IF req[r].got = req[r].body THEN "none" ELSE "unserved"]]
  /\ req' = [req EXCEPT ![r] = NoReq]

Starts(t, c, at, body) ==
  /\ c \in MayCall[t] /\ ~InCall(t)
  /\ thr' = [thr EXCEPT ![t] = [Idle EXCEPT !.call = c, !.at = at, !.body = body]]

\* The calls that wait for others, and the last one, are not bounded.
Counted == made < MaxCalls /\ made' = made + 1

Spins(t, c) == thr[t].call = c /\ thr[t].at = "spin"

\* The fields of a request are filled and it is made REQUEST.
Asks(r, body) == req' = [req EXCEPT ![r] = [state |-> "REQUEST", body |-> body, got |-> Nothing]]

-----------------------------------------------------------------------------
(***************************************************************************)
(* Opening and closing.                                                    *)
(***************************************************************************)
\* _alloc_afu, _ocse_connect, _query_afu and _open_afu up to its loop.
ocxl_afu_open(t) ==
  /\ t = Main /\ afu.life = "none" /\ ~ocse.gone
  /\ Starts(t, "open", "spin", Plain("open"))
  /\ afu' = [AfuInit EXCEPT !.life = "opening"]
  /\ req' = [req EXCEPT !["open"] = [state |-> "PENDING", body |-> Plain("open"), got |-> Nothing]]
  /\ Put(<<Signal("QUERY"), Msg("open", Plain("open"))>>)
  /\ psl' = [psl EXCEPT !.at = "start"]
  /\ Counted
  /\ UNCHANGED <<waits, toLib, ocse>>

OpenReturns(t) ==
  /\ Spins(t, "open") /\ req["open"].state = "IDLE"
  /\ IF afu.opened
       THEN afu' = [afu EXCEPT !.life = "open"] /\ EndsOk(t, "open")
       ELSE psl.at = "exited" /\ afu' = [afu EXCEPT !.life = "freed"] /\ Ends(t, "open")
  /\ UNCHANGED <<psl, waits, toOcse, toLib, ocse, made>>

\* ocxl_afu_close and _afu_free: the irqs are freed, the areas unmapped; an
\* AFU that is not open any more is freed at once, without a join.
ocxl_afu_close(t) ==
  /\ t = Main /\ Handle /\ \A u \in Threads : ~InCall(u)
  /\ afu.opened => Starts(t, "close", "detach", Nothing)
  /\ ~afu.opened => "close" \in MayCall[t] /\ ~InCall(t) /\ UNCHANGED thr
  /\ afu' = [afu EXCEPT !.irq = FALSE, !.mapped = {},
                        !.life = IF afu.opened THEN "closing" ELSE "freed"]
  /\ UNCHANGED <<req, psl, waits, toOcse, toLib, ocse, made>>

\* When OCSE_DETACH cannot be sent the socket is closed without waiting.
CloseDetaches(t) ==
  /\ thr[t].call = "close" /\ thr[t].at = "detach"
  /\ \/ Put(<<Signal("DETACH")>>) /\ thr' = [thr EXCEPT ![t].at = "spin"]
     \/ ocse.gone /\ thr' = [thr EXCEPT ![t].at = "drop"] /\ UNCHANGED toOcse
  /\ UNCHANGED <<afu, req, psl, waits, toLib, ocse, made>>

\* The loop ends when the AFU is not attached; the socket is closed.
CloseDrops(t) ==
  /\ thr[t].call = "close"
  /\ thr[t].at = "drop" \/ (thr[t].at = "spin" /\ ~afu.attached)
  /\ afu' = [afu EXCEPT !.opened = FALSE]
  /\ thr' = [thr EXCEPT ![t].at = "join"]
  /\ UNCHANGED <<req, psl, waits, toOcse, toLib, ocse, made>>

CloseReturns(t) ==
  /\ thr[t].call = "close" /\ thr[t].at = "join" /\ psl.at = "exited"
  /\ afu' = [afu EXCEPT !.life = "freed"] /\ Returns(t)
  /\ UNCHANGED <<req, psl, waits, toOcse, toLib, ocse, made>>

-----------------------------------------------------------------------------
(***************************************************************************)
(* Calls that make a request.  The tests are those of the code; a call     *)
(* they refuse changes nothing.                                            *)
(***************************************************************************)
ocxl_afu_attach(t) ==
  /\ Handle /\ afu.opened /\ ~afu.attached
  /\ Starts(t, "attach", "spin", Nothing) /\ Asks("attach", Plain("attach"))
  /\ Counted
  /\ UNCHANGED <<afu, psl, waits, toOcse, toLib, ocse>>

\* attached is set whatever made the request IDLE.
AttachReturns(t) ==
  /\ Spins(t, "attach") /\ req["attach"].state = "IDLE"
  /\ afu' = [afu EXCEPT !.attached = TRUE]
  /\ EndsOk(t, "attach")
  /\ UNCHANGED <<psl, waits, toOcse, toLib, ocse, made>>

ocxl_mmio_map(t) ==
  /\ Handle /\ afu.opened /\ afu.count # afu.max
  /\ \E a \in Areas : Starts(t, "map", "spin", Mmio("map", a)) /\ Asks("mmio", Mmio("map", a))
  /\ Counted
  /\ UNCHANGED <<afu, psl, waits, toOcse, toLib, ocse>>

MapReturns(t) ==
  /\ Spins(t, "map") /\ req["mmio"].state = "IDLE"
  /\ afu' = [afu EXCEPT !.mapped = @ \cup {thr[t].body.area}, !.count = @ + 1]
  /\ EndsOk(t, "mmio")
  /\ UNCHANGED <<psl, waits, toOcse, toLib, ocse, made>>

\* The area is unmapped; its entry of mmios stays taken.
ocxl_mmio_unmap(t) ==
  /\ Handle /\ "unmap" \in MayCall[t] /\ ~InCall(t)
  /\ \E h \in 1 .. afu.count :
       afu.mmios[h] \in afu.mapped /\ afu' = [afu EXCEPT !.mapped = @ \ {afu.mmios[h]}]
  /\ Counted
  /\ UNCHANGED <<req, thr, psl, waits, toOcse, toLib, ocse>>

\* ocxl_mmio_read64, ocxl_mmio_write32 and the others, and their global
\* counterparts, which need no handle of the area.
ocxl_mmio(t) ==
  /\ Handle
  /\ \E op \in {"read", "write"}, a \in afu.mapped :
       /\ a = "global" \/ \E h \in 1 .. afu.count : afu.mmios[h] = a
       /\ Starts(t, "mmio", "spin", Mmio(op, a)) /\ Asks("mmio", Mmio(op, a))
  /\ Counted
  /\ UNCHANGED <<afu, psl, waits, toOcse, toLib, ocse>>

MmioReturns(t) ==
  /\ Spins(t, "mmio") /\ req["mmio"].state = "IDLE"
  /\ IF afu.opened THEN EndsOk(t, "mmio") ELSE Ends(t, "mmio")
  /\ UNCHANGED <<afu, psl, waits, toOcse, toLib, ocse, made>>

ocxl_lpc_map(t) ==
  /\ Handle /\ afu.opened /\ afu.attached
  /\ Starts(t, "lpc_map", "spin", Nothing) /\ Asks("mem", Plain("map"))
  /\ Counted
  /\ UNCHANGED <<afu, psl, waits, toOcse, toLib, ocse>>

LpcMapReturns(t) ==
  /\ Spins(t, "lpc_map") /\ req["mem"].state = "IDLE"
  /\ afu' = [afu EXCEPT !.lpc = TRUE] /\ EndsOk(t, "mem")
  /\ UNCHANGED <<psl, waits, toOcse, toLib, ocse, made>>

ocxl_lpc_unmap(t) ==
  /\ Handle /\ afu.lpc /\ "unmap" \in MayCall[t] /\ ~InCall(t)
  /\ afu' = [afu EXCEPT !.lpc = FALSE]
  /\ Counted
  /\ UNCHANGED <<req, thr, psl, waits, toOcse, toLib, ocse>>

\* The length of the next access at address a, with left bytes to go: the
\* alignment of a, halved until it is not more than left.
Powers == {p \in {1, 2, 4, 8, 16, 32, 64, 128, 256} : p <= MaxStride}
stride(a, left) == Max({p \in Powers : a % p = 0 /\ p <= left})

\* One access of ocxl_lpc_read or ocxl_lpc_write.
LpcAsks(t, op, a, left) ==
  LET b == Lpc(op, a, stride(a, left))
  IN  /\ thr' = [thr EXCEPT ![t] = [Idle EXCEPT !.call = "lpc", !.at = "spin", !.body = b,
                                         !.left = left - b.size]]
      /\ Asks("mem", b)

\* ocxl_lpc_read and ocxl_lpc_write.
ocxl_lpc(t) ==
  /\ Handle /\ afu.lpc /\ "lpc" \in MayCall[t] /\ ~InCall(t)
  /\ \E op \in {"read", "write"}, r \in Ranges :
       LpcAsks(t, op, r.off, r.size)
  /\ Counted
  /\ UNCHANGED <<afu, psl, waits, toOcse, toLib, ocse>>

\* One access of 64 bytes, at an address that is a multiple of 64.
ocxl_lpc_write_be(t) ==
  /\ Handle /\ afu.lpc
  /\ \E r \in Ranges :
       LET b == Lpc("write_be", r.off, 64)
       IN  r.off % 64 = 0 /\ Starts(t, "lpc", "spin", b) /\ Asks("mem", b)
  /\ Counted
  /\ UNCHANGED <<afu, psl, waits, toOcse, toLib, ocse>>

\* After an access the call fails, goes on with the next access or is done.
LpcReturns(t) ==
  /\ Spins(t, "lpc") /\ req["mem"].state = "IDLE"
  /\ LET b == thr[t].body
     IN  \/ ~afu.opened /\ Ends(t, "mem")
         \/ afu.opened /\ thr[t].left > 0 /\ LpcAsks(t, b.op, b.addr + b.size, thr[t].left)
         \/ afu.opened /\ thr[t].left = 0 /\ EndsOk(t, "mem")
  /\ UNCHANGED <<afu, psl, waits, toOcse, toLib, ocse, made>>

-----------------------------------------------------------------------------
(***************************************************************************)
(* Interrupts, events and wake-ups, the side of the application.           *)
(***************************************************************************)
ocxl_irq_alloc(t) ==
  /\ Handle /\ "irq" \in MayCall[t] /\ ~InCall(t)
  /\ afu' = [afu EXCEPT !.irq = TRUE]
  /\ Counted
  /\ UNCHANGED <<req, thr, psl, waits, toOcse, toLib, ocse>>

\* The application waits for an event only if there may be one.
ocxl_afu_event_check(t) ==
  /\ Handle /\ afu.attached /\ afu.irq /\ Starts(t, "event", "spin", Nothing)
  /\ UNCHANGED <<afu, req, psl, waits, toOcse, toLib, ocse, made>>

\* Under event_lock: the first event is copied and removed.  The loop also
\* ends when the AFU is not open any more, and then there may be no event.
EventTaken(t) ==
  /\ Spins(t, "event")
  /\ \/ afu.events # <<>> /\ afu' = [afu EXCEPT !.events = Tail(@)]
                          /\ thr' = [thr EXCEPT ![t].at = "pipe"]
     \/ ~afu.opened /\ afu.events = <<>> /\ thr' = [thr EXCEPT ![t].at = "crash"] /\ UNCHANGED afu
  /\ UNCHANGED <<req, psl, waits, toOcse, toLib, ocse, made>>

\* The byte of the event is read from the pipe, outside the lock.
EventReturns(t) ==
  /\ thr[t].call = "event" /\ thr[t].at = "pipe" /\ afu.pipe > 0
  /\ afu' = [afu EXCEPT !.pipe = @ - 1] /\ Returns(t)
  /\ UNCHANGED <<req, psl, waits, toOcse, toLib, ocse, made>>

\* The first entry of the list for thread t, as a set; an entry is <<t, the
\* one who made it>>, and at most one of each is in use.
Entry(t) ==
  {waits.list[i] : i \in {j \in DOMAIN waits.list :
                           waits.list[j][1] = t /\ \A k \in 1 .. j - 1 : waits.list[k][1] # t}}

\* The entry a thread waits on.
Own(t) == <<t, thr[t].entry>>

WakePending(t) == Wake(t) \in Range(toLib) \/ (psl.at = "link" /\ psl.of = t)

\* _alloc_wait_event scans the list, and adds an entry when there is none.
ocxl_wait(t) ==
  /\ Handle /\ afu.attached /\ (WakeRaces \/ ~WakePending(t))
  /\ Starts(t, "wait", "scan", Nothing)
  /\ UNCHANGED <<afu, req, psl, waits, toOcse, toLib, ocse, made>>

WaitScans(t) ==
  /\ thr[t].call = "wait" /\ thr[t].at = "scan"
  /\ \/ Entry(t) = {} /\ thr' = [thr EXCEPT ![t].at = "link", ![t].entry = "wait"]
     \/ \E e \in Entry(t) : thr' = [thr EXCEPT ![t].at = "spin", ![t].entry = e[2]]
  /\ UNCHANGED <<afu, req, psl, waits, toOcse, toLib, ocse, made>>

WaitLinks(t) ==
  /\ thr[t].call = "wait" /\ thr[t].at = "link"
  /\ waits' = [waits EXCEPT !.list = <<Own(t)>> \o @]
  /\ thr' = [thr EXCEPT ![t].at = "spin"]
  /\ UNCHANGED <<afu, req, psl, toOcse, toLib, ocse, made>>

\* Its own entry is received: it is taken off the list and freed.
WaitReturns(t) ==
  /\ Spins(t, "wait") /\ Own(t) \in waits.received
  /\ waits' = [list |-> RemoveFirst(waits.list, Own(t)), received |-> waits.received \ {Own(t)}]
  /\ Returns(t)
  /\ UNCHANGED <<afu, req, psl, toOcse, toLib, ocse, made>>

-----------------------------------------------------------------------------
(***************************************************************************)
(* _psl_loop: while the AFU is open, send what is asked, then look at the  *)
(* socket.                                                                 *)
(***************************************************************************)
At(p) == psl.at = p
Goto(p) == psl' = [at |-> p, of |-> "none"]

PslStarts ==
  /\ At("start") /\ Goto("top")
  /\ afu' = [afu EXCEPT !.opened = TRUE]
  /\ UNCHANGED <<req, thr, waits, toOcse, toLib, ocse, made>>

\* Mutant: attached is left as it is.
PslExits_Attached ==
  /\ At("fail") \/ (At("top") /\ ~afu.opened)
  /\ Goto("exited")
  /\ UNCHANGED <<afu, req, thr, waits, toOcse, toLib, ocse, made>>

\* ocl_fail: also where the loop ends.
PslExits ==
  /\ At("fail") \/ (At("top") /\ ~afu.opened)
  /\ Goto("exited")
  /\ afu' = [afu EXCEPT !.attached = FALSE]
  /\ UNCHANGED <<req, thr, waits, toOcse, toLib, ocse, made>>

\* Mutant: a request that is sent is not waited for.
Sends_NoWait(r) ==
  req' = [req EXCEPT ![r].state = "IDLE"] /\ Put(<<Msg(r, req[r].body)>>) /\ UNCHANGED afu

\* When it cannot be sent, the AFU is not open any more and the request IDLE.
Sends(r) ==
  \/ /\ req' = [req EXCEPT ![r].state = "PENDING"]
     /\ Put(<<Msg(r, req[r].body)>>) /\ UNCHANGED afu
  \/ /\ ocse.gone
     /\ afu' = [afu EXCEPT !.opened = FALSE, !.attached = FALSE]
     /\ req' = [req EXCEPT ![r].state = "IDLE"] /\ UNCHANGED toOcse

\* The requests the loop has still to look at, the order it does so and where
\* it is after each of them.
Due ==
  {r \in {"attach", "mmio", "mem"} :
     \/ At("top") /\ afu.opened
     \/ At("mmio") /\ r # "attach"
     \/ At("mem") /\ r = "mem"}
Before == {<<"attach", "mmio">>, <<"attach", "mem">>, <<"mmio", "mem">>}
After == [attach |-> "mmio", mmio |-> "mem", mem |-> "socket"]

\* The first of them that asks for something, as a set.
Asked ==
  {r \in Due : /\ req[r].state = "REQUEST"
               /\ \A q \in Due : <<q, r>> \in Before => req[q].state # "REQUEST"}

\* _ocse_attach, _mmio_map, _mmio_read, _mmio_write64, _mmio_write32,
\* _mem_read, _mem_write, _mem_write_be.
PslSends ==
  /\ \E r \in Asked : req[r].body # Plain("map") /\ Goto(After[r]) /\ Sends(r)
  /\ UNCHANGED <<thr, waits, toLib, ocse, made>>

\* Nothing has to be sent to map LPC memory.
mem_map ==
  /\ \E r \in Asked : req[r].body = Plain("map") /\ Goto(After[r])
  /\ req' = [req EXCEPT !["mem"].state = "IDLE", !["mem"].got = Plain("map")]
  /\ UNCHANGED <<afu, thr, waits, toOcse, toLib, ocse, made>>

\* Nothing more is asked for.
PslTurns ==
  /\ Due # {} /\ Asked = {} /\ Goto("socket")
  /\ UNCHANGED <<afu, req, thr, waits, toOcse, toLib, ocse, made>>

\* ocxl_afu_close has closed the socket.
Closed == \E t \in Threads : thr[t].call = "close" /\ thr[t].at = "join"

\* bytes_ready returns 0.
PslIdles ==
  /\ At("socket") /\ (Closed \/ (toLib = <<>> /\ ~ocse.gone))
  /\ Goto("top")
  /\ UNCHANGED <<afu, req, thr, waits, toOcse, toLib, ocse, made>>

\* bytes_ready or get_bytes fails: _all_idle makes the requests IDLE first
\* and clears the flags after that.
AllRequestsIdle == req' = [r \in Requests |-> [req[r] EXCEPT !.state = "IDLE"]]

PslLoses ==
  /\ At("socket") /\ ~Closed /\ toLib = <<>> /\ ocse.gone
  /\ AllRequestsIdle /\ Goto("all_idle")
  /\ UNCHANGED <<afu, thr, waits, toOcse, toLib, ocse, made>>

ClearFlags == afu' = [afu EXCEPT !.mapped = {}, !.attached = FALSE, !.opened = FALSE]

AllIdleFlags ==
  /\ At("all_idle") /\ ClearFlags /\ Goto("fail")
  /\ UNCHANGED <<req, thr, waits, toOcse, toLib, ocse, made>>

\* A message is there and read as a whole.
Reads(m) ==
  /\ At("socket") /\ ~Closed /\ toLib # <<>> /\ Head(toLib).m = m
  /\ toLib' = Tail(toLib) /\ UNCHANGED <<thr, ocse, made>>

Of == Head(toLib).of
Answered(r) == req' = [req EXCEPT ![r].state = "IDLE", ![r].got = Of]

\* OCSE_QUERY: two MMIO areas may be mapped.
PslQuery ==
  /\ Reads("QUERY") /\ Goto("top")
  /\ afu' = [afu EXCEPT !.count = 0, !.max = 2]
  /\ UNCHANGED <<req, waits, toOcse>>

PslOpenAttach(r) ==
  /\ r \in {"open", "attach"} /\ Reads(r) /\ Goto("top")
  /\ Answered(r)
  /\ UNCHANGED <<afu, waits, toOcse>>

\* OCSE_DETACH: the flags first, then the requests.
PslDetach ==
  /\ Reads("DETACH") /\ ClearFlags /\ Goto("detached")
  /\ UNCHANGED <<req, waits, toOcse>>

DetachRequests ==
  /\ At("detached") /\ AllRequestsIdle /\ Goto("top")
  /\ UNCHANGED <<afu, thr, waits, toOcse, toLib, ocse, made>>

\* OCSE_MMIO_ACK.  The area that is mapped gets the next entry of mmios.
handle_ack ==
  /\ Reads("mmio") /\ Goto("top")
  /\ Answered("mmio")
  /\ LET b == req["mmio"].body
     IN  afu' = IF b.op = "map" THEN [afu EXCEPT !.mmios[afu.count + 1] = b.area] ELSE afu
  /\ UNCHANGED <<waits, toOcse>>

\* OCSE_LPC_ACK.
handle_mem_ack ==
  /\ Reads("mem") /\ Goto("top")
  /\ Answered("mem")
  /\ UNCHANGED <<afu, waits, toOcse>>

\* Under event_lock: a second event of a type is not queued, and not written
\* to the pipe.
EVENT_QUEUE_MAX == 3
\* Mutants: each event is queued; an event that is queued already is written
\* to the pipe again.
Queued_Each(a, type) == [a EXCEPT !.events = Append(@, type), !.pipe = @ + 1]
Queued_Pipe(a, type) ==
  IF type \in Range(a.events) THEN [a EXCEPT !.pipe = @ + 1]
  ELSE [a EXCEPT !.events = Append(@, type), !.pipe = @ + 1]

Queued(a, type) ==
  IF type \in Range(a.events) THEN a
  ELSE [a EXCEPT !.events = Append(@, type), !.pipe = @ + 1]

\* Mutant: a bad address is reported and then treated like a good one.
handle_memory_Through ==
  /\ Reads("MEM") /\ Goto("top")
  /\ afu' = IF Of = "good" THEN afu ELSE Queued(afu, "FAULT")
  /\ Put(IF Of = "bad" THEN <<Signal("FAILURE"), Signal("SUCCESS")>> ELSE <<Signal("SUCCESS")>>)
  /\ UNCHANGED <<req, waits>>

\* The memory commands.  An address the process cannot read is reported as
\* an event, _handle_dsi, and to ocse; after an AMO ocse is told nothing.
handle_memory ==
  /\ Reads("MEM") /\ Goto("top")
  /\ LET a == IF Of = "good" THEN afu ELSE Queued(afu, "FAULT")
     IN  \/ Of = "amo" /\ afu' = a /\ UNCHANGED toOcse
         \/ Of # "amo" /\ afu' = a /\ Put(<<Signal(IF Of = "good" THEN "SUCCESS" ELSE "FAILURE")>>)
         \/ Of # "amo" /\ ocse.gone /\ afu' = [a EXCEPT !.opened = FALSE, !.attached = FALSE]
                      /\ UNCHANGED toOcse
  /\ UNCHANGED <<req, waits>>

\* An interrupt with no irq of that address ends the thread.
handle_interrupt ==
  /\ Reads("INTERRUPT")
  /\ Goto(IF afu.irq THEN "top" ELSE "fail")
  /\ afu' = IF afu.irq THEN Queued(afu, "IRQ") ELSE afu
  /\ UNCHANGED <<req, waits, toOcse>>

\* _alloc_wait_event again, from the other side.
handle_wake_host_thread ==
  /\ Reads("WAKE")
  /\ psl' = IF Entry(Of) = {} THEN [at |-> "link", of |-> Of] ELSE [at |-> "top", of |-> "none"]
  /\ waits' = [waits EXCEPT !.received = @ \cup Entry(Of)]
  /\ UNCHANGED <<afu, req, toOcse>>

WakeLinks ==
  /\ At("link") /\ Goto("top")
  /\ waits' = [list |-> <<<<psl.of, "psl">>>> \o waits.list,
               received |-> waits.received \cup {<<psl.of, "psl">>}]
  /\ UNCHANGED <<afu, req, thr, toOcse, toLib, ocse, made>>

-----------------------------------------------------------------------------
(***************************************************************************)
(* ocse, as the library sees it.                                           *)
(***************************************************************************)
Tell(ms) == toLib' = toLib \o ms

\* It takes one message and answers the ones it can answer at once.  Of the
\* MMIO and LPC accesses of a client it knows one, the last.
OcseTakes ==
  /\ ~ocse.gone /\ toOcse # <<>>
  /\ LET m == Head(toOcse)
         at_once == m.m \in {"QUERY", "open", "attach", "DETACH"} \/ m.of.op = "map"
     IN  /\ ocse' = [ocse EXCEPT
              !.gone = m.m = "DETACH",
              !.attached = @ \/ m.m = "attach",
              !.mem = IF m.m \in {"SUCCESS", "FAILURE"} THEN "none" ELSE @,
              !.access = IF m.m \in {"mmio", "mem"} /\ ~at_once THEN m ELSE @]
         /\ Tell(IF at_once THEN <<m>> ELSE <<>>)
         /\ toOcse' = IF m.m = "DETACH" THEN <<>> ELSE Tail(toOcse)
  /\ UNCHANGED <<afu, req, thr, psl, waits, made>>

OcseAnswers ==
  /\ ~ocse.gone /\ ocse.access # Nothing
  /\ Tell(<<ocse.access>>) /\ ocse' = [ocse EXCEPT !.access = Nothing]
  /\ UNCHANGED <<afu, req, thr, psl, waits, toOcse, made>>

\* A command of the AFU for the memory of the application, one at a time.
OcseMemory(kind) ==
  /\ ~ocse.gone /\ ocse.attached /\ ocse.mem = "none" /\ Len(toLib) <= MaxUnasked
  /\ Tell(<<Msg("MEM", kind)>>) /\ ocse' = [ocse EXCEPT !.mem = kind]
  /\ UNCHANGED <<afu, req, thr, psl, waits, toOcse, made>>

\* An interrupt, with the address of an irq the application had allocated.
OcseInterrupts ==
  /\ ~ocse.gone /\ ocse.attached /\ afu.irq /\ Signal("INTERRUPT") \notin Range(toLib)
  /\ Len(toLib) <= MaxUnasked
  /\ Tell(<<Signal("INTERRUPT")>>)
  /\ UNCHANGED <<afu, req, thr, psl, waits, toOcse, ocse, made>>

\* A wake-up for a thread, one for each time it waits; it may come before.
OcseWakes(t) ==
  /\ ~ocse.gone /\ ocse.attached /\ "wait" \in MayCall[t] /\ ~WakePending(t)
  /\ Len(toLib) <= MaxUnasked /\ \A e \in waits.received : e[1] # t
  /\ WakeRaces \/ ~InCall(t) \/ Spins(t, "wait")
  /\ Tell(<<Wake(t)>>)
  /\ UNCHANGED <<afu, req, thr, psl, waits, toOcse, ocse, made>>

\* ocse, or the connection, goes away; what is under way may be lost.
OcseLost ==
  /\ ~ocse.gone
  /\ ocse' = [ocse EXCEPT !.gone = TRUE, !.lost = TRUE]
  /\ toOcse' = <<>> /\ toLib' \in {toLib, <<>>}
  /\ UNCHANGED <<afu, req, thr, psl, waits, made>>

-----------------------------------------------------------------------------
Crashed == \E t \in Threads : thr[t].at = "crash"

Starting(t) ==
  \/ ocxl_afu_open(t) \/ ocxl_afu_close(t) \/ ocxl_afu_attach(t) \/ ocxl_mmio_map(t)
  \/ ocxl_mmio_unmap(t) \/ ocxl_mmio(t) \/ ocxl_lpc_map(t) \/ ocxl_lpc_unmap(t) \/ ocxl_lpc(t) \/ ocxl_lpc_write_be(t)
  \/ ocxl_irq_alloc(t) \/ ocxl_afu_event_check(t) \/ ocxl_wait(t)

Continuing(t) ==
  \/ OpenReturns(t) \/ CloseDetaches(t) \/ CloseDrops(t) \/ CloseReturns(t) \/ AttachReturns(t)
  \/ MapReturns(t) \/ MmioReturns(t) \/ LpcMapReturns(t) \/ LpcReturns(t)
  \/ EventTaken(t) \/ EventReturns(t) \/ WaitScans(t) \/ WaitLinks(t) \/ WaitReturns(t)

psl_loop ==
  \/ PslStarts \/ PslExits \/ PslSends \/ mem_map \/ PslTurns
  \/ PslIdles \/ PslLoses \/ AllIdleFlags \/ PslQuery \/ (\E r \in Requests : PslOpenAttach(r))
  \/ PslDetach \/ DetachRequests \/ handle_ack \/ handle_mem_ack \/ handle_memory
  \/ handle_interrupt \/ handle_wake_host_thread \/ WakeLinks

Ocse ==
  \/ OcseTakes \/ OcseAnswers \/ OcseInterrupts \/ OcseLost
  \/ (\E k \in {"good", "bad", "amo"} : OcseMemory(k)) \/ (\E t \in Threads : OcseWakes(t))

Next == ~Crashed /\ ((\E t \in Threads : Starting(t) \/ Continuing(t)) \/ psl_loop \/ Ocse)

Spec == Init /\ [][Next]_vars

Live(A) == ~Crashed /\ A

FairSpec ==
  /\ Spec
  /\ WF_vars(Live(psl_loop)) /\ \A t \in Threads : WF_vars(Live(Continuing(t)))
  /\ WF_vars(Live(OcseTakes)) /\ WF_vars(Live(OcseAnswers)) /\ SF_vars(Live(OcseInterrupts))
  /\ \A t \in Threads : SF_vars(Live(OcseWakes(t) /\ Spins(t, "wait")))

-----------------------------------------------------------------------------
(***************************************************************************)
(* Properties.                                                             *)
(***************************************************************************)
Bodies == [op : {"none", "open", "attach", "map", "read", "write", "write_be"},
           area : Areas \cup {"none"}, addr : Nat, size : Nat]
Entries == Threads \X {"wait", "psl"}

\* The fields have the values the code gives them; the queue of events, an
\* array of EVENT_QUEUE_MAX that is walked to its first NULL, is never full.
TypeOK ==
  /\ afu.life \in {"none", "opening", "open", "closing", "freed"}
  /\ afu.opened \in BOOLEAN /\ afu.attached \in BOOLEAN /\ afu.lpc \in BOOLEAN /\ afu.irq \in BOOLEAN
  /\ afu.mapped \subseteq Areas /\ afu.count \in 0 .. 2 /\ afu.max \in {0, 2}
  /\ afu.mmios \in [1 .. 2 -> Areas \cup {"none"}]
  /\ Len(afu.events) < EVENT_QUEUE_MAX /\ Range(afu.events) \subseteq {"IRQ", "FAULT"} /\ afu.pipe \in Nat
  /\ req \in [Requests -> [state : {"IDLE", "REQUEST", "PENDING"}, body : Bodies, got : Bodies]]
  /\ \A t \in Threads :
       /\ thr[t].call \in Calls \cup {"none"} /\ thr[t].left \in Nat
       /\ thr[t].at \in {"none", "unserved", "spin", "detach", "drop", "join", "pipe", "crash", "scan", "link"}
       /\ thr[t].body \in Bodies /\ thr[t].entry \in {"none", "wait", "psl"}
  /\ psl.at \in {"none", "start", "top", "mmio", "mem", "socket", "all_idle", "detached", "link",
                 "fail", "exited"}
  /\ Range(waits.list) \subseteq Entries /\ waits.received \subseteq Entries

\* While ocse is there, a call that reports success got the answer to its own
\* request: nothing else makes a request IDLE (libocxl.c:562, 1437), and an
\* answer is never taken for that of another request.
OkIsAnswered == ~ocse.lost => \A t \in Threads : thr[t].at # "unserved"

\* The pipe the application selects on has one byte for each event in the
\* queue, and one more while an event is being read: it neither misses an
\* event nor wakes up for none (libocxl.c:189, 266, 2987).
EventsPiped == afu.pipe = Len(afu.events) + Cardinality({t \in Threads : thr[t].at = "pipe"})

\* ocse gets one answer for each command it passes to the application, and
\* none it did not ask for, which it would take for that of a later command
\* (libocxl.c:378 - 510; an AMO to a bad address gets none, 585).
OneAnswer ==
  LET asked == Cardinality({i \in DOMAIN toLib : toLib[i].m = "MEM"})
      told == Cardinality({i \in DOMAIN toOcse : toOcse[i].m \in {"SUCCESS", "FAILURE"}})
  IN  ~ocse.gone => /\ ocse.mem = "none" => asked + told = 0
                    /\ ocse.mem \in {"good", "bad"} => asked + told = 1
                    /\ ocse.mem = "amo" => told = 0

\* Every call of the application returns: its request is sent, answered and
\* seen to be IDLE, and a thread that waits is woken.  When ocse goes away a
\* call may be left spinning, but never ocxl_afu_close, nor when an interrupt
\* that comes after its irq is freed ends the thread of the library: attached
\* becomes FALSE in the end whoever set it last, and the thread can be joined
\* (libocxl.c:1901, 2790).
CallsReturn ==
  \A t \in Threads : InCall(t) ~> (~InCall(t) \/ (ocse.lost /\ thr[t].call # "close"))

=============================================================================
