-------------------------------- MODULE Link --------------------------------
(***************************************************************************)
(* The socket between ocse and the simulator of the AFU: both sides of     *)
(* tlx_interface.c and the clocked function tlx_bfm of the AFU driver.     *)
(* Each side keeps an AFU_EVENT.  Once a clock ocse sends everything in    *)
(* its event as one packet (tlx_signal_afu_model) and waits for the packet *)
(* of the driver (tlx_get_afu_events).  The driver runs at both edges: at  *)
(* clock 0 it samples the outputs of the AFU into its event and drives the *)
(* inputs of the AFU from it, at clock 1 it waits for the packet of ocse,  *)
(* answers with its own and only then decodes what came.                   *)
(*                                                                         *)
(* Nothing is retransmitted.  Flow control is by credits: whoever sends on *)
(* a line has used a credit of it, and the receiver returns the credit in  *)
(* a bit of a later packet.  An AFU keeps its own counts from the wires it *)
(* sees (initial credits and credit returns); this one never sends without *)
(* a credit, and is otherwise free.                                        *)
(*                                                                         *)
(* A message is its number on its line, so loss, duplication and           *)
(* reordering all show in the numbers.  How ocse makes its messages and    *)
(* what it does with the AFU's is in Cmd and Mmio.                         *)
(***************************************************************************)
EXTENDS Naturals, Sequences, SequencesExt, FiniteSets

CONSTANTS
  HostGrants,  \* MAX_TLX_AFU_*_CREDITS: what ocse lets the AFU send
  AfuGrants,   \* the initial credits of the AFU: what it lets ocse send
  MaxMsgs,     \* bound: messages sent on each line
  Flits,       \* bound: 64-byte lines that go with a message
  ShortAt,     \* where a recv may find too little: "head", "tail"
  MaxShorts    \* bound: how often that happens

AfuLines == {"cmd", "cdata", "resp", "rdata"}   \* AFU to ocse, with credits
HostLines == {"cmd", "resp", "cfg"}             \* ocse to AFU, with credits
Lines == AfuLines \cup {"cfg"}                  \* AFU to ocse
DataLines == {"cmd", "resp"}                    \* lines to the AFU that have data
Returns == AfuLines \cup {"ack"}                \* what ocse returns

ASSUME LinkAssumption ==
  /\ HostGrants \in [AfuLines -> Nat \ {0}]
  /\ AfuGrants \in [HostLines -> 1 .. 255]
  /\ DOMAIN MaxMsgs = {"cmd", "resp", "cfg", "afu"}
  /\ \A l \in DOMAIN MaxMsgs : MaxMsgs[l] \in Nat
  /\ Flits \in Nat \ {0}
  /\ ShortAt \subseteq {"head", "tail"} /\ MaxShorts \in Nat

VARIABLES
  host,    \* the event of ocse
  drv,     \* the event of the driver, and its static variables
  toDrv,   \* packets from ocse
  toHost,  \* packets from the driver
  engine,  \* what ocse waits for: the access in hand and the commands to answer
  afu,     \* the AFU
  sent,    \* messages accepted from ocse, on each line
  asent,   \* messages sent by the AFU, on each line
  link     \* "up", or how it ended

vars == <<host, drv, toDrv, toHost, engine, afu, sent, asent, link>>

-----------------------------------------------------------------------------
(***************************************************************************)
(* Events and packets.                                                     *)
(***************************************************************************)
\* A message of ocse: its number, the number of its first line of data and
\* how many lines it has.  0 is a valid bit that is off.
NoMsg == [id |-> 0, first |-> 0, n |-> 0]
Msgs == [id : Nat, first : Nat, n : 0 .. Flits]

Bit(b) == IF b THEN 1 ELSE 0
None(S) == [l \in S |-> 0]
NoHostMsgs == [l \in HostLines |-> NoMsg]

Add(f, g) == [l \in DOMAIN f |-> f[l] + (IF l \in DOMAIN g THEN g[l] ELSE 0)]

\* A packet of ocse (tbuf): its messages, and the credit group if cv.
HostPacket(e) == [msg |-> e.out, cv |-> e.cv, ret |-> IF e.cv THEN e.ret ELSE None(Returns)]

\* A packet of the driver.
DrvPacket(d) == [msg |-> d.out, cv |-> d.req, ret |-> IF d.req THEN d.aret ELSE None(HostLines)]

\* Only the clock bit is set: one byte is sent and nothing is decoded.
JustClock(p) == ~p.cv /\ p.msg \in {None(Lines), NoHostMsgs}

HostInit == [pc |-> "init_signal", clock |-> 0, out |-> NoHostMsgs, in |-> None(Lines),
             cv |-> TRUE, ret |-> None(Returns), req |-> FALSE, avail |-> None(HostLines),
             ready |-> FALSE, rbp |-> "none"]

DrvInit == [pc |-> "low", out |-> None(Lines), in |-> NoHostMsgs,
            cv |-> FALSE, ret |-> None(Returns), req |-> FALSE, aret |-> None(HostLines),
            avail |-> None(AfuLines), offered |-> FALSE, ready |-> FALSE, rbp |-> "none",
            ackPending |-> FALSE, clk |-> None(DataLines), top |-> None(HostLines),
            fifo |-> [k \in DataLines |-> <<>>], rdCnt |-> None(DataLines)]

AfuInit == [known |-> FALSE, cr |-> None(AfuLines), got |-> None(HostLines),
            owed |-> None(HostLines), asked |-> 0, cfg |-> 0, job |-> 0, beats |-> 0, rbeats |-> 0,
            want |-> None(DataLines), line |-> None(DataLines)]

EngineInit == [access |-> "none", left |-> 0, todo |-> 0, got |-> None(Lines),
               flits |-> None(DataLines), shorts |-> 0]

Init ==
  /\ host = HostInit /\ drv = DrvInit /\ toDrv = <<>> /\ toHost = <<>>
  /\ engine = EngineInit /\ afu = AfuInit
  /\ sent = None(HostLines) /\ asent = None(Lines) /\ link = "up"

-----------------------------------------------------------------------------
(***************************************************************************)
(* ocse.  ocl_init signals once, reads one packet and takes the initial    *)
(* credits of the AFU from it, all under the lock, so that the loop of the *)
(* thread starts after it.  The loop signals, gets, handles and sends.     *)
(***************************************************************************)
\* What is left of the event when its packet has been built.
tlx_signal_afu_model(e) ==
  [e EXCEPT !.clock = 1, !.out = NoHostMsgs, !.cv = FALSE,
            !.ret = IF e.cv THEN None(Returns) ELSE @]

HostSignal ==
  /\ link = "up"
  /\ host.pc \in {"init_signal", "signal"}
  /\ host.clock = 0
  /\ toDrv' = Append(toDrv, HostPacket(host))
  /\ host' = [tlx_signal_afu_model(host) EXCEPT
                !.pc = IF host.pc = "signal" THEN "get" ELSE "init_get"]
  /\ UNCHANGED <<drv, toHost, engine, afu, sent, asent, link>>

\* The decoding of a packet that is more than a clock.  The credits of a
\* command and its data are returned at once, those of a response when it is
\* read; a group that is not in the packet turns its valid bit, and the credit
\* it would return, off.
tlx_get_afu_events(e, p) ==
  IF JustClock(p) THEN [e EXCEPT !.clock = 0, !.rbp = "none"]
  ELSE [e EXCEPT
          !.clock = 0, !.rbp = "none",
          !.in = p.msg,
          !.ret = [k \in Returns |->
                     CASE k \in {"cmd", "cdata"} -> Bit(p.msg[k] # 0)
                       [] k \in {"resp", "rdata"} -> IF p.msg[k] # 0 THEN @[k] ELSE 0
                       [] OTHER -> @[k]],
          !.cv = @ \/ p.msg["cmd"] # 0 \/ p.msg["cdata"] # 0,
          !.avail = Add(@, p.ret),
          !.req = p.cv]

HostGet ==
  /\ link = "up"
  /\ host.pc \in {"init_get", "get"}
  /\ toHost # <<>>
  /\ host.rbp # "tail"
  /\ host' = [tlx_get_afu_events(host, Head(toHost)) EXCEPT
                !.pc = IF host.pc = "get" THEN "handle" ELSE "init_read"]
  /\ toHost' = Tail(toHost)
  /\ UNCHANGED <<drv, toDrv, engine, afu, sent, asent, link>>

\* Too little of the packet is there: the function returns 0 with rbp at what it
\* has, "head" when that is the first byte only and "tail" when no more than four
\* bytes are missing.  The clock bit has been seen.
HostShort ==
  /\ link = "up"
  /\ host.pc = "get"
  /\ toHost # <<>> /\ ~JustClock(Head(toHost))
  /\ host.rbp = "none"
  /\ engine.shorts < MaxShorts
  /\ \E at \in ShortAt : host' = [host EXCEPT !.clock = 0, !.rbp = at, !.pc = "send"]
  /\ engine' = [engine EXCEPT !.shorts = @ + 1]
  /\ UNCHANGED <<drv, toDrv, toHost, afu, sent, asent, link>>

\* The next call takes up to four bytes more for the byte counts.  If they are the
\* rest of the packet it then asks recv for 0 bytes, takes the 0 for a closed
\* socket and returns -1; if the next packet is there too it eats into that.
ReenterTail(rbp, q) ==
  /\ rbp = "tail"
  /\ q # <<>>
  /\ link' = IF Len(q) = 1 THEN "closed" ELSE "garbled"

HostReenter ==
  /\ link = "up"
  /\ host.pc = "get"
  /\ ReenterTail(host.rbp, toHost)
  /\ UNCHANGED <<host, drv, toDrv, toHost, engine, afu, sent, asent>>

\* read_afu_config waits here, with the lock, until the credits are in the event.
afu_tlx_read_initial_credits ==
  /\ host.pc = "init_read"
  /\ host.req
  /\ host' = [host EXCEPT !.avail = AfuGrants, !.req = FALSE, !.ready = TRUE, !.pc = "signal"]
  /\ UNCHANGED <<drv, toDrv, toHost, engine, afu, sent, asent, link>>

\* The lines that ocse reads: a command and its data always, a response for the
\* access in hand, response data for a read whose response has come.
LinesRead ==
  {l \in Lines :
     /\ host.in[l] # 0
     /\ CASE l = "cfg" -> engine.access = "cfg"
          [] l = "resp" -> engine.access \in {"read", "write"}
          [] l = "rdata" -> engine.access = "data" \/ (engine.access = "read" /\ host.in["resp"] # 0)
          [] OTHER -> TRUE}

\* The access after what has been read: done when its response and, for a read,
\* its last beat of data have come.
AccessNext(rd) ==
  LET left == engine.left - Bit("rdata" \in rd) IN
  CASE engine.access = "cfg" /\ "cfg" \in rd -> "none"
    [] engine.access = "write" /\ "resp" \in rd -> "none"
    [] engine.access = "read" /\ "resp" \in rd -> IF left = 0 THEN "none" ELSE "data"
    [] engine.access = "data" /\ left = 0 -> "none"
    [] OTHER -> engine.access

\* afu_tlx_read_cmd_and_data, afu_tlx_read_cmd_data, afu_tlx_read_resp,
\* afu_tlx_read_resp_data and afu_tlx_read_cfg_resp_and_data, called by _handle_afu.
afu_tlx_read(e, rd) ==
  [e EXCEPT
     !.in = [l \in Lines |-> IF l \in rd THEN 0 ELSE @[l]],
     !.ret = [k \in Returns |->
                IF (k \in {"resp", "rdata"} /\ k \in rd) \/ (k = "ack" /\ "cfg" \in rd)
                THEN 1 ELSE @[k]],
     !.cv = @ \/ rd \cap {"resp", "rdata", "cfg"} # {}]

HostHandle ==
  /\ host.pc = "handle"
  /\ LET rd == LinesRead IN
     /\ host' = [afu_tlx_read(host, rd) EXCEPT !.pc = "send"]
     /\ engine' = [engine EXCEPT
                     !.got = [l \in Lines |-> @[l] + Bit(l \in rd)],
                     !.todo = @ + Bit("cmd" \in rd),
                     !.left = @ - Bit("rdata" \in rd),
                     !.access = AccessNext(rd)]
  /\ UNCHANGED <<drv, toDrv, toHost, afu, sent, asent, link>>

-----------------------------------------------------------------------------
\* A send puts a message with n lines of data into the event and takes a credit.
\* It is refused when the last message has not gone and, but for the sends of a
\* command, without a credit; the counter has eight bits.
CanSend(l) ==
  /\ host.out[l].id = 0
  /\ l # "cmd" => host.avail[l] > 0
  /\ sent[l] < MaxMsgs[l]

tlx_afu_send(l, n) ==
  /\ CanSend(l)
  /\ host' = [host EXCEPT
                !.avail[l] = (@ + 255) % 256,
                !.out[l] = [id |-> sent[l] + 1, n |-> n,
                            first |-> IF n = 0 THEN 0 ELSE engine.flits[l] + 1]]
  /\ sent' = [sent EXCEPT ![l] = @ + 1]

\* tlx_afu_send_resp and tlx_afu_send_resp_and_data for a command of the AFU, and
\* tlx_afu_send_posted_cmd, which uses the response line and its credit: a command
\* may be answered by a pending response first (last = FALSE).
SendResp ==
  /\ link = "up"
  /\ host.pc = "send"
  /\ engine.todo > 0
  /\ \E n \in 0 .. Flits, last \in BOOLEAN :
       /\ ~last => n = 0
       /\ tlx_afu_send("resp", n)
       /\ engine' = [engine EXCEPT !.flits["resp"] = @ + n, !.todo = @ - Bit(last)]
  /\ UNCHANGED <<drv, toDrv, toHost, afu, asent, link>>

\* tlx_afu_send_cmd (a read; the AFU will answer with left beats) and
\* tlx_afu_send_cmd_and_data (a write), for the one access in hand.  They come when
\* the configuration has been read.
SendCmd ==
  /\ link = "up"
  /\ host.pc = "send"
  /\ engine.access = "none"
  /\ sent["cfg"] = MaxMsgs["cfg"]
  /\ \/ \E beats \in 1 .. 2 :
          /\ tlx_afu_send("cmd", 0)
          /\ engine' = [engine EXCEPT !.access = "read", !.left = beats]
     \/ \E n \in 1 .. Flits :
          /\ tlx_afu_send("cmd", n)
          /\ engine' = [engine EXCEPT !.access = "write", !.flits["cmd"] = @ + n]
  /\ UNCHANGED <<drv, toDrv, toHost, afu, asent, link>>

\* tlx_afu_send_cfg_cmd_and_data
SendCfg ==
  /\ link = "up"
  /\ host.pc = "send"
  /\ engine.access = "none"
  /\ tlx_afu_send("cfg", 0)
  /\ engine' = [engine EXCEPT !.access = "cfg"]
  /\ UNCHANGED <<drv, toDrv, toHost, afu, asent, link>>

\* Another turn of _ocl_loop.
HostNext ==
  /\ host.pc = "send"
  /\ host' = [host EXCEPT !.pc = "signal"]
  /\ UNCHANGED <<drv, toDrv, toHost, engine, afu, sent, asent, link>>

-----------------------------------------------------------------------------
(***************************************************************************)
(* The AFU, external.  It sends on a line when it has a credit of the line *)
(* by its own count; a response carries the first beat of its data, and    *)
(* later beats of commands and responses follow when they can.  It holds a *)
(* configuration response until it is acknowledged and then takes it away  *)
(* for a clock at least, returns the credit of a command no later than its *)
(* response, and asks only for lines of data it has been told of.          *)
(***************************************************************************)
\* What it may do in a clock: send a command, without data, with one beat of data
\* or with the first of two; send a further beat of a command (cdata) or of a
\* response (rdata); answer the command in hand (resp); put the answer to a
\* configuration command on the wires, for the next clock (cfg); return credits
\* (ret); ask for the lines of data it has been told of (rd).
May(b) == {FALSE, b}
Holding(f) == {k \in DOMAIN f : f[k] > 0}

Outputs == [cmd : {"no", "plain", "data", "data2"}, cdata : May(afu.beats > 0),
            cfg : May(afu.asked # 0 /\ afu.cfg = 0), resp : May(afu.job # 0),
            rdata : May(afu.rbeats > 0 /\ afu.job = 0),
            ret : SUBSET Holding(afu.owed), rd : SUBSET Holding(afu.want)]

\* The lines it raises a valid on.
Raised(o) ==
  {l \in AfuLines :
     CASE l = "cmd" -> o.cmd # "no"
       [] l = "cdata" -> o.cmd \in {"data", "data2"} \/ o.cdata
       [] l = "resp" -> o.resp
       [] OTHER -> (o.resp /\ afu.rbeats > 0) \/ o.rdata}

\* The outputs an AFU that keeps to the rules may have now.
Allowed(o) ==
  /\ \A l \in Raised(o) : afu.cr[l] > 0
  /\ o.cmd # "no" => asent["cmd"] < MaxMsgs["afu"]
  /\ o.cmd \in {"data", "data2"} => afu.beats = 0
  /\ o.resp => afu.owed["cmd"] = 0 \/ "cmd" \in o.ret

\* The AFU once these outputs have been taken.
AfterOutputs(o) ==
  [afu EXCEPT
     !.cr = [l \in AfuLines |-> @[l] - Bit(l \in Raised(o))],
     !.owed = [k \in HostLines |-> @[k] - Bit(k \in o.ret)],
     !.beats = (@ + (IF o.cmd = "data2" THEN 1 ELSE 0)) - Bit(o.cdata),
     !.cfg = IF o.cfg THEN afu.asked ELSE @,
     !.asked = IF o.cfg THEN 0 ELSE @,
     !.job = IF o.resp THEN 0 ELSE @,
     !.rbeats = @ - Bit("rdata" \in Raised(o)),
     !.want = [k \in DataLines |-> IF k \in o.rd THEN 0 ELSE @[k]]]

-----------------------------------------------------------------------------
(***************************************************************************)
(* The driver at clock 0.                                                  *)
(***************************************************************************)
\* Mutant: the valid bit is looked at when it has been cleared.
InitialCredits_Late(d) == [d EXCEPT !.offered = TRUE, !.req = @ \/ ~d.offered, !.cv = FALSE]

\* The initial credits: those of the AFU go into the event once, those of ocse
\* are taken from it once they are there.
InitialCredits(d) ==
  LET first == ~d.ready /\ d.cv IN
  [d EXCEPT
     !.offered = TRUE,
     !.req = @ \/ ~d.offered,
     !.avail = IF first THEN HostGrants ELSE @,
     !.cv = @ /\ ~first,
     !.ready = @ \/ first]

\* Credits returned by the AFU.
CreditReturns(d, o) ==
  [d EXCEPT !.aret = [k \in HostLines |-> Bit(k \in o.ret)], !.req = @ \/ o.ret # {}]

\* afu_tlx_send_cmd, afu_tlx_send_cmd_data, afu_tlx_send_resp, afu_tlx_send_resp_data
\* and afu_tlx_send_resp_and_data: refused, and lost, without a credit or when the
\* last message has not gone.  A response that comes with data needs both.
Accepted(d, S) ==
  LET ok(l) == d.avail[l] > 0 /\ (l # "cdata" => d.out[l] = 0)
      both == {"resp", "rdata"} \subseteq S
  IN  {l \in S : IF both /\ l \in {"resp", "rdata"} THEN ok("resp") /\ ok("rdata") ELSE ok(l)}

afu_tlx_send(d, S) ==
  LET acc == Accepted(d, S) IN
  [d EXCEPT
     !.out = [l \in Lines |-> IF l \in acc THEN asent[l] + 1 ELSE @[l]],
     !.avail = [l \in AfuLines |-> @[l] - Bit(l \in acc)]]

\* Mutant: the response is taken in every clock it is held.
TakesCfg_Again(d, S) == afu.cfg # 0 /\ d.out["cfg"] = 0 /\ S \cap {"resp", "rdata"} = {}

\* A configuration response, held by the AFU until it is acknowledged, is taken
\* once and not in a clock in which the AFU has another response.
TakesCfg(d, S) == afu.cfg # 0 /\ ~d.ackPending /\ S \cap {"resp", "rdata"} = {}

\* Mutant: the pending acknowledgement is not reset when the response goes away.
afu_cfg_send_resp_and_data_Stuck(d, S) ==
  [d EXCEPT
     !.out["cfg"] = IF TakesCfg(d, S) /\ @ = 0 THEN afu.cfg ELSE @,
     !.ackPending = @ \/ TakesCfg(d, S)]

afu_cfg_send_resp_and_data(d, S) ==
  [d EXCEPT
     !.out["cfg"] = IF TakesCfg(d, S) /\ @ = 0 THEN afu.cfg ELSE @,
     !.ackPending = IF afu.cfg = 0 THEN FALSE ELSE @ \/ TakesCfg(d, S)]

\* The valid wires.  A wire is up for one clock: a counter, shared by commands and
\* configuration commands, takes it down at the next.
Clock(l) == IF l = "resp" THEN "resp" ELSE "cmd"

Started(d, k) == \E l \in HostLines : Clock(l) = k /\ d.in[l].id # 0

\* Mutants: CLOCK_EDGE_DELAY is 3; the counter goes up.
DriveValid_Delay3(d) ==
  LET clk1(k) == IF Started(d, k) THEN 3 ELSE d.clk[k] IN
  [d EXCEPT
     !.clk = [k \in DataLines |-> IF clk1(k) > 0 THEN clk1(k) - 1 ELSE 0],
     !.top = [l \in HostLines |->
                IF d.in[l].id # 0 THEN d.in[l].id
                ELSE IF clk1(Clock(l)) = 1 THEN 0 ELSE @[l]]]

DriveValid_Up(d) ==
  [d EXCEPT
     !.clk = [k \in DataLines |-> IF Started(d, k) THEN 3 ELSE IF @[k] > 0 THEN @[k] + 1 ELSE 0],
     !.top = [l \in HostLines |-> IF d.in[l].id # 0 THEN d.in[l].id ELSE 0]]

DriveValid(d) ==
  LET clk1(k) == IF Started(d, k) THEN 2 ELSE d.clk[k] IN
  [d EXCEPT
     !.clk = [k \in DataLines |-> IF clk1(k) > 0 THEN clk1(k) - 1 ELSE 0],
     !.top = [l \in HostLines |->
                IF d.in[l].id # 0 THEN d.in[l].id
                ELSE IF clk1(Clock(l)) = 1 THEN 0 ELSE @[l]]]

\* Data of a message waits in a fifo for the AFU to ask; a line goes out in each
\* clock in which lines are asked for.  rd: the lines just asked for.
Queue(d, k) == d.fifo[k] \o [i \in 1 .. d.in[k].n |-> d.in[k].first + (i - 1)]

\* Mutant: the line at the tail is driven and freed.
DriveData_Tail(d, rd) ==
  LET cnt(k) == d.rdCnt[k] + (IF k \in rd THEN afu.want[k] ELSE 0) IN
  [d EXCEPT
     !.fifo = [k \in DataLines |->
                 LET q == Queue(d, k) IN IF cnt(k) > 0 /\ q # <<>> THEN SubSeq(q, 1, Len(q) - 1) ELSE q],
     !.rdCnt = [k \in DataLines |-> IF cnt(k) > 0 THEN cnt(k) - 1 ELSE 0],
     !.in = NoHostMsgs]

DriveData(d, rd) ==
  LET cnt(k) == d.rdCnt[k] + (IF k \in rd THEN afu.want[k] ELSE 0) IN
  [d EXCEPT
     !.fifo = [k \in DataLines |->
                 IF cnt(k) > 0 /\ Queue(d, k) # <<>> THEN Tail(Queue(d, k)) ELSE Queue(d, k)],
     !.rdCnt = [k \in DataLines |-> IF cnt(k) > 0 THEN cnt(k) - 1 ELSE 0],
     !.in = NoHostMsgs]

\* The head of the fifo is followed without a test.
Popped(d, rd) == {k \in DataLines : d.rdCnt[k] > 0 \/ k \in rd}
Crashes(d, rd) == \E k \in Popped(d, rd) : Queue(d, k) = <<>>

\* Mutant: the credits stay in the event.
DriveCredits_Kept(d) == d

\* The credits are driven, and cleared because a packet that is just a clock will
\* not.
DriveCredits(d) == [d EXCEPT !.ret = None(Returns)]

\* What the AFU sees of the wires when d has been driven to d1.
AfuSees(a, d, d1, rd) ==
  LET seen(l) == d1.top[l] # 0
      cr == [l \in AfuLines |-> d.ret[l]]
  IN [a EXCEPT
        !.known = @ \/ d.cv,
        !.cr = IF a.known THEN Add(@, cr)
               ELSE IF d.cv THEN Add(HostGrants, cr) ELSE @,
        !.got = [l \in HostLines |-> @[l] + Bit(seen(l))],
        !.owed = [l \in HostLines |-> @[l] + Bit(seen(l))],
        !.cfg = IF d.ret["ack"] = 1 THEN 0 ELSE @,
        !.asked = IF seen("cfg") THEN d1.top["cfg"] ELSE @,
        !.job = IF seen("cmd") THEN d1.top["cmd"] ELSE @,
        !.rbeats = IF seen("cmd") /\ d.in["cmd"].n = 0 THEN engine.left ELSE @,
        !.want = [k \in DataLines |-> @[k] + d.in[k].n],
        !.line = [k \in DataLines |->
                    IF k \in Popped(d, rd) /\ Queue(d, k) # <<>> THEN Head(Queue(d, k)) ELSE @[k]]]

DriverLow ==
  /\ link = "up"
  /\ drv.pc = "low"
  /\ \E o \in Outputs :
       LET S == Raised(o)
           d1 == CreditReturns(InitialCredits(drv), o)
           d2 == afu_cfg_send_resp_and_data(afu_tlx_send(d1, S), S)
           d3 == DriveCredits(DriveData(DriveValid(d2), o.rd))
       IN  /\ Allowed(o)
           /\ drv' = [d3 EXCEPT !.pc = "high"]
           /\ afu' = AfuSees(AfterOutputs(o), d2, d3, o.rd)
           /\ asent' = [l \in Lines |-> asent[l] + IF l = "cfg" THEN Bit(TakesCfg(d1, S)) ELSE Bit(l \in S)]
           /\ link' = IF Crashes(d2, o.rd) THEN "crashed" ELSE link
  /\ UNCHANGED <<host, toDrv, toHost, engine, sent>>

-----------------------------------------------------------------------------
(***************************************************************************)
(* The driver at clock 1.                                                  *)
(***************************************************************************)
\* What is left of the event when its packet has been built.
tlx_signal_tlx_model(d) ==
  [d EXCEPT !.out = None(Lines), !.req = FALSE,
            !.aret = IF d.req THEN None(HostLines) ELSE @]

\* The decoding of a packet that is more than a clock.
tlx_get_tlx_events(d, p) ==
  IF JustClock(p) THEN [d EXCEPT !.rbp = "none"]
  ELSE [d EXCEPT
          !.rbp = "none",
          !.in = p.msg,
          !.aret = [k \in HostLines |-> IF p.msg[k].id # 0 THEN @[k] ELSE 0],
          !.cv = p.cv,
          !.ret = [k \in Returns |-> IF p.cv THEN p.ret[k] ELSE IF k = "ack" THEN @[k] ELSE 0],
          !.avail = Add(@, p.ret)]

DriverHigh ==
  /\ link = "up"
  /\ drv.pc = "high"
  /\ toDrv # <<>>
  /\ drv.rbp # "tail"
  /\ toHost' = Append(toHost, DrvPacket(drv))
  /\ drv' = [tlx_get_tlx_events(tlx_signal_tlx_model(drv), Head(toDrv)) EXCEPT !.pc = "low"]
  /\ toDrv' = Tail(toDrv)
  /\ UNCHANGED <<host, engine, afu, sent, asent, link>>

\* Too little of the packet is there.  The packet of the driver has gone out, and
\* when tlx_control calls again, another one goes out.
DriverShort ==
  /\ link = "up"
  /\ drv.pc = "high"
  /\ toDrv # <<>> /\ ~JustClock(Head(toDrv))
  /\ drv.rbp = "none"
  /\ engine.shorts < MaxShorts
  /\ toHost' = Append(toHost, DrvPacket(drv))
  /\ \E at \in ShortAt : drv' = [tlx_signal_tlx_model(drv) EXCEPT !.rbp = at]
  /\ engine' = [engine EXCEPT !.shorts = @ + 1]
  /\ UNCHANGED <<host, toDrv, afu, sent, asent, link>>

DriverReenter ==
  /\ link = "up"
  /\ drv.pc = "high"
  /\ ReenterTail(drv.rbp, toDrv)
  /\ UNCHANGED <<host, drv, toDrv, toHost, engine, afu, sent, asent>>

-----------------------------------------------------------------------------
Host == \/ HostSignal \/ HostGet \/ HostShort \/ HostReenter \/ afu_tlx_read_initial_credits
        \/ HostHandle \/ SendResp \/ SendCmd \/ SendCfg \/ HostNext
Driver == DriverLow \/ DriverHigh \/ DriverShort \/ DriverReenter

Next == Host \/ Driver

\* Each side runs its loop for ever; a lock of main that is free again and again
\* is got in the end, so that a configuration access is sent.  The AFU answers one.
AfuAnswersCfg == DriverLow /\ afu'.cfg # afu.cfg /\ afu'.cfg # 0

Fairness ==
  /\ WF_vars(HostSignal) /\ WF_vars(HostGet) /\ WF_vars(HostHandle) /\ WF_vars(HostNext)
  /\ WF_vars(afu_tlx_read_initial_credits) /\ SF_vars(SendCfg)
  /\ WF_vars(DriverLow) /\ WF_vars(DriverHigh) /\ SF_vars(AfuAnswersCfg)

Spec == Init /\ [][Next]_vars
FairSpec == Spec /\ Fairness

-----------------------------------------------------------------------------
(***************************************************************************)
(* What the link promises.                                                 *)
(***************************************************************************)
\* How many of s are not 0: messages of a line, or credit bits.
NonZeros(s) == Cardinality({i \in DOMAIN s : s[i] # 0})

\* s holds the numbers after a up to b, each once and in order, and 0s.
Carries(s, a, b) ==
  /\ a <= b
  /\ ToSet(s) \ {0} = (a + 1) .. b
  /\ \A i, j \in DOMAIN s : i < j /\ s[i] # 0 /\ s[j] # 0 => s[i] < s[j]

Upto(a, b) == [i \in 1 .. b - a |-> a + i]

\* The type of the state.
TypeOK ==
  /\ host.pc \in {"init_signal", "init_get", "init_read", "signal", "get", "handle", "send"}
  /\ host.clock \in 0 .. 1 /\ host.out \in [HostLines -> Msgs] /\ host.in \in [Lines -> Nat]
  /\ host.ret \in [Returns -> 0 .. 1] /\ host.avail \in [HostLines -> 0 .. 255]
  /\ {host.cv, host.req, host.ready} \subseteq BOOLEAN
  /\ drv.pc \in {"low", "high"} /\ drv.out \in [Lines -> Nat] /\ drv.in \in [HostLines -> Msgs]
  /\ drv.ret \in [Returns -> 0 .. 1] /\ drv.aret \in [HostLines -> 0 .. 1]
  /\ drv.avail \in [AfuLines -> Nat] /\ drv.clk \in [DataLines -> 0 .. 2]
  /\ drv.top \in [HostLines -> Nat] /\ drv.rdCnt \in [DataLines -> Nat]
  /\ \A k \in DataLines : drv.fifo[k] \in Seq(Nat)
  /\ {drv.cv, drv.req, drv.offered, drv.ready, drv.ackPending} \subseteq BOOLEAN
  /\ {host.rbp, drv.rbp} \subseteq {"none", "head", "tail"}
  /\ afu.cr \in [AfuLines -> Nat] /\ afu.owed \in [HostLines -> Nat] /\ afu.got \in [HostLines -> Nat]
  /\ engine.access \in {"none", "cfg", "read", "write", "data"}
  /\ {engine.left, engine.todo, afu.rbeats, afu.beats} \subseteq Nat
  /\ sent \in [HostLines -> Nat] /\ asent \in [Lines -> Nat]
  /\ link \in {"up", "closed", "garbled", "crashed"}

\* The credits the AFU granted: in the counter of ocse, with a message on its way,
\* with the AFU, or on their way back.
HostCredits ==
  host.ready =>
    \A l \in HostLines :
      host.avail[l] + Bit(host.out[l].id # 0)
        + NonZeros([i \in DOMAIN toDrv |-> toDrv[i].msg[l].id]) + Bit(drv.in[l].id # 0)
        + afu.owed[l] + drv.aret[l] + NonZeros([i \in DOMAIN toHost |-> toHost[i].ret[l]])
      = AfuGrants[l]

\* The same for the credits ocse granted; and the count an AFU keeps from the wires
\* is that of the driver.
AfuCredits ==
  drv.ready =>
    \A l \in AfuLines :
      /\ drv.avail[l] + Bit(drv.out[l] # 0)
           + NonZeros([i \in DOMAIN toHost |-> toHost[i].msg[l]])
           + Bit(l \in {"resp", "rdata"} /\ host.in[l] # 0)
           + host.ret[l] + NonZeros([i \in DOMAIN toDrv |-> toDrv[i].ret[l]])
         = HostGrants[l]
      /\ afu.known => afu.cr[l] + drv.ret[l] = drv.avail[l]

\* Every credit is somewhere, in both directions: no packet, decoding or clock edge
\* loses or doubles one.  The counter of commands, which ocse takes down without a
\* test (tlx_interface.c:552), never wraps, and no message of the AFU is refused and
\* lost (tlx_interface.c:2130) because the driver's count and the AFU's differ.
CreditsKept == HostCredits /\ AfuCredits

\* What the AFU has sent and ocse has not read is under way, once and in order.
AfuToHost ==
  \A l \in Lines :
    Carries(<<host.in[l]>> \o [i \in DOMAIN toHost |-> toHost[i].msg[l]] \o <<drv.out[l]>>,
            engine.got[l], asent[l])

\* What ocse has sent and the AFU has not seen is under way, once and in order; and
\* the AFU has seen every message once: a valid wire is not up for two clocks.
HostToAfu ==
  \A l \in HostLines :
    /\ Carries(<<drv.in[l].id>> \o [i \in DOMAIN toDrv |-> toDrv[i].msg[l].id] \o <<host.out[l].id>>,
               afu.got[l], sent[l])
    /\ drv.top[l] # 0 => drv.top[l] = afu.got[l]

\* The lines of data reach the AFU in order, also when those of a message come
\* while lines of an earlier one wait in the fifo, and no line is asked for that is
\* not there.
DataInOrder ==
  \A k \in DataLines :
    /\ drv.fifo[k] = Upto(afu.line[k], afu.line[k] + Len(drv.fifo[k]))
    /\ drv.rdCnt[k] + afu.want[k] = Len(drv.fifo[k])
    /\ drv.in[k].n > 0 => drv.in[k].first = afu.line[k] + Len(drv.fifo[k]) + 1

\* Start-up completes: both sides get the initial credits of the other.
CreditsExchanged == <>(host.ready /\ drv.ready)

\* A configuration access is answered.
CfgAnswered == engine.access = "cfg" ~> engine.access = "none"
=============================================================================
