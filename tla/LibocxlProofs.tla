--------------------------- MODULE LibocxlProofs ---------------------------
(***************************************************************************)
(* Proofs about the library (Libocxl), for any number of threads of the    *)
(* application and any calls they make.                                    *)
(*                                                                         *)
(* BInv needs no assumption: it gives that the pipe has a byte for every   *)
(* event (EventsPiped) and that ocse gets one answer for each command it   *)
(* passes on (OneAnswer).  RInv follows the message of a request, from the *)
(* application to ocse and back; it needs that a request struct, which the *)
(* code shares without a lock, is used by one thread (OneCaller), and      *)
(* gives the types and that a call that succeeds has been answered.        *)
(***************************************************************************)
EXTENDS Libocxl, ListLemmas, FiniteSetTheorems

-----------------------------------------------------------------------------
(***************************************************************************)
(* Types.                                                                  *)
(***************************************************************************)
Places == {"none", "unserved", "spin", "detach", "drop", "join", "pipe", "crash", "scan", "link"}
PslPlaces == {"none", "start", "top", "mmio", "mem", "socket", "all_idle", "detached", "link", "fail", "exited"}
Events == {"IRQ", "FAULT"}

Afus == [life : {"none", "opening", "open", "closing", "freed"}, opened : BOOLEAN,
         attached : BOOLEAN, mapped : SUBSET Areas, lpc : BOOLEAN, count : Nat, max : {0, 2},
         mmios : [1 .. 2 -> Areas \cup {"none"}], irq : BOOLEAN, events : Seq(Events), pipe : Nat]
Reqs == [state : {"IDLE", "REQUEST", "PENDING"}, body : Bodies, got : Bodies]
Thrs == [call : Calls \cup {"none"}, at : Places, body : Bodies, left : Nat,
         entry : {"none", "wait", "psl"}]
ToOcse == [m : Requests \cup {"QUERY", "DETACH", "SUCCESS", "FAILURE"}, of : Bodies]
Accesses == [m : {"mmio", "mem"}, of : Bodies]
ToLib == ToOcse \cup [m : {"INTERRUPT"}, of : Bodies]
           \cup [m : {"MEM"}, of : {"good", "bad", "amo"}] \cup [m : {"WAKE"}, of : Threads]

AfuType == afu \in Afus
ReqType == req \in [Requests -> Reqs]
ThrType == thr \in [Threads -> Thrs]
PslType == psl \in [at : PslPlaces, of : Threads \cup {"none"}] /\ (psl.at = "link" => psl.of \in Threads)
WaitsType == waits \in [list : Seq(Entries), received : SUBSET Entries]
SocketType == toOcse \in Seq(ToOcse) /\ toLib \in Seq(ToLib)
OcseType == ocse \in [gone : BOOLEAN, lost : BOOLEAN, attached : BOOLEAN,
                      access : Accesses \cup {Nothing}, mem : {"none", "good", "bad", "amo"}]

Types == AfuType /\ ReqType /\ ThrType /\ PslType /\ WaitsType /\ SocketType /\ OcseType /\ made \in Nat

-----------------------------------------------------------------------------
(***************************************************************************)
(* The invariant that needs no assumption.                                 *)
(***************************************************************************)
\* Messages of a kind of K on a socket.
Has(s, K) == \E i \in DOMAIN s : s[i].m \in K
Once(s, K) == \A i, j \in DOMAIN s : s[i].m \in K /\ s[j].m \in K => i = j
Carries(s, K, b) == \A i \in DOMAIN s : s[i].m \in K => s[i].of = b

Acks == {"SUCCESS", "FAILURE"}

\* What the calls the threads are in say about the struct.
LifeOfCalls ==
  \A t \in Threads :
    /\ afu.life = "none" => thr[t].call = "none"
    /\ afu.life = "opening" => thr[t].call \in {"none", "open"}
    /\ afu.life = "open" => thr[t].call \notin {"open", "close"}
    /\ afu.life \in {"closing", "freed"} => thr[t].call \in {"none", "close"}

\* Before ocxl_afu_open there is no thread of the library.
Unopened == afu.life = "none" => psl.at = "none" /\ afu.events = <<>> /\ afu.pipe = 0

\* A thread is at the pipe only in ocxl_afu_event_check, and has an entry of the
\* list of those who wait once it has scanned it; Main opens and closes the AFU.
Threading ==
  \A t \in Threads :
    /\ thr[t].at = "pipe" => thr[t].call = "event"
    /\ thr[t].call = "wait" /\ thr[t].at \in {"spin", "link"} => thr[t].entry # "none"
    /\ thr[t].call \in MayCall[t] \cup {"none"}
    /\ thr[t].call \in {"open", "close"} => t = Main
    /\ thr[t].call = "map" => thr[t].body.area \in Areas

\* An event of a type is queued once.
EventsOnce == IsInjective(afu.events)

\* While ocse is there, a command it passed on is either on the socket or has
\* been answered, but for an AMO, which is not.
MemoryOnce ==
  ~ocse.gone =>
    /\ ocse.mem = "none" => ~Has(toLib, {"MEM"}) /\ ~Has(toOcse, Acks)
    /\ ocse.mem \in {"good", "bad"} => /\ Has(toLib, {"MEM"}) <=> ~Has(toOcse, Acks)
                                       /\ Once(toLib, {"MEM"}) /\ Once(toOcse, Acks)
    /\ ocse.mem = "amo" => ~Has(toOcse, Acks)
    /\ Carries(toLib, {"MEM"}, ocse.mem)

BInv == Types /\ LifeOfCalls /\ Unopened /\ Threading /\ EventsOnce /\ EventsPiped /\ MemoryOnce

-----------------------------------------------------------------------------
(***************************************************************************)
(* The invariant about requests.                                           *)
(***************************************************************************)
\* The calls that use a request struct, and that one thread makes them.
UsedBy == [open |-> {"open"}, attach |-> {"attach"}, mmio |-> {"map", "mmio"}, mem |-> {"lpc_map", "lpc"}]

OneCaller ==
  \A r \in Requests, t \in Threads, u \in Threads :
    MayCall[t] \cap UsedBy[r] # {} /\ MayCall[u] \cap UsedBy[r] # {} => t = u

Using(t, r) == thr[t].call \in UsedBy[r]

\* A request that is not IDLE is that of a thread, and says what it is for.
Owned == \A r \in Requests : req[r].state # "IDLE" => \E t \in Threads : Using(t, r)
Filled == /\ req["mmio"].state = "REQUEST" => req["mmio"].body.area # "none"
          /\ req["attach"].state = "REQUEST" => req["attach"].body.op = "attach"
          /\ req["open"].state # "REQUEST"

\* ocse knows of an access it has not answered.
Accessed(r) == ~ocse.gone /\ ocse.access # Nothing /\ ocse.access.m = r

\* The message of a request is in one place, as long as it is PENDING.
Token(r) ==
  /\ Once(toOcse, {r}) /\ Carries(toOcse, {r}, req[r].body)
  /\ Once(toLib, {r}) /\ Carries(toLib, {r}, req[r].body)
  /\ Accessed(r) => ocse.access.of = req[r].body
  /\ ~(Has(toOcse, {r}) /\ Has(toLib, {r}))
  /\ ~(Has(toOcse, {r}) /\ Accessed(r))
  /\ ~(Has(toLib, {r}) /\ Accessed(r))
  /\ Has(toOcse, {r}) \/ Has(toLib, {r}) \/ Accessed(r) => req[r].state = "PENDING"

Tokens == \A r \in Requests : Token(r)

\* While ocse is there, what is IDLE has been answered.
IdleIsAnswered == ~ocse.lost => \A r \in Requests : req[r].state = "IDLE" => req[r].got = req[r].body

\* OCSE_DETACH is sent, and ocse goes for it, only while the AFU is closed.
Closes == afu.life \in {"closing", "freed"}
Detaching ==
  /\ ocse.lost => ocse.gone
  /\ ocse.gone => toOcse = <<>>
  /\ ocse.gone /\ ~ocse.lost => Closes
  /\ Has(toOcse, {"DETACH"}) => Closes
  /\ Has(toLib, {"DETACH"}) => ocse.gone /\ ~ocse.lost
  /\ psl.at = "detached" => ocse.gone /\ ~ocse.lost

\* The areas that are mapped, one more while one is being mapped, fit.
MapCount == afu.count <= afu.max /\ \A t \in Threads : thr[t].call = "map" => afu.count < afu.max

RInv == BInv /\ Owned /\ Filled /\ Tokens /\ IdleIsAnswered /\ Detaching /\ MapCount /\ OkIsAnswered

-----------------------------------------------------------------------------
(***************************************************************************)
(* Lemmas about the operators.                                             *)
(***************************************************************************)
\* Adding messages to a socket.
LEMMA ConcatKinds ==
  ASSUME NEW S, NEW s \in Seq(S), NEW u \in Seq(S), NEW K
  PROVE  /\ s \o u \in Seq(S)
         /\ Has(s \o u, K) <=> Has(s, K) \/ Has(u, K)
         /\ Once(s, K) /\ Once(u, K) /\ ~(Has(s, K) /\ Has(u, K)) => Once(s \o u, K)
         /\ \A b : Carries(s, K, b) /\ Carries(u, K, b) => Carries(s \o u, K, b)
<1>. DEFINE n == Len(s)
            k == Len(u)
            r == s \o u
<1>1. /\ n \in Nat /\ k \in Nat /\ DOMAIN s = 1 .. n /\ DOMAIN u = 1 .. k
      /\ r \in Seq(S) /\ DOMAIN r = 1 .. n + k
      /\ \A i \in 1 .. n + k : r[i] = IF i <= n THEN s[i] ELSE u[i - n]
  OBVIOUS
<1>. HIDE DEF n, k, r
<1>2. \A i \in 1 .. n + k : IF i <= n THEN i \in DOMAIN s ELSE i - n \in DOMAIN u BY <1>1
<1>3. \A i \in DOMAIN s : i \in 1 .. n + k /\ r[i] = s[i] BY <1>1
<1>4. ASSUME NEW i \in DOMAIN u PROVE n + i \in DOMAIN r /\ r[n + i] = u[i]
  <2>1. n + i \in 1 .. n + k /\ ~(n + i <= n) /\ (n + i) - n = i BY <1>1
  <2>. QED BY <2>1, <1>1
<1>5. Has(r, K) <=> Has(s, K) \/ Has(u, K)
  <2>1. Has(r, K) => Has(s, K) \/ Has(u, K) BY <1>1, <1>2 DEF Has
  <2>2. Has(s, K) => Has(r, K) BY <1>1, <1>3 DEF Has
  <2>3. Has(u, K) => Has(r, K) BY <1>4 DEF Has
  <2>. QED BY <2>1, <2>2, <2>3
<1>6. ASSUME Once(s, K), Once(u, K), ~(Has(s, K) /\ Has(u, K)) PROVE Once(r, K)
  <2>. SUFFICES ASSUME NEW i \in 1 .. n + k, NEW j \in 1 .. n + k, r[i].m \in K, r[j].m \in K
                PROVE  i = j
    BY <1>1 DEF Once
  <2>1. CASE i <= n /\ j <= n BY <2>1, <1>1, <1>2, <1>6 DEF Once
  <2>2. CASE ~(i <= n) /\ ~(j <= n)
    <3>1. i - n = j - n BY <2>2, <1>1, <1>2, <1>6 DEF Once
    <3>. QED BY <3>1, <1>1
  <2>3. /\ \A l \in 1 .. n + k : l <= n /\ r[l].m \in K => Has(s, K)
        /\ \A l \in 1 .. n + k : ~(l <= n) /\ r[l].m \in K => Has(u, K)
    BY <1>1, <1>2 DEF Has
  <2>4. (i <= n /\ j <= n) \/ (~(i <= n) /\ ~(j <= n)) BY <2>3, <1>6
  <2>. QED BY <2>1, <2>2, <2>4
<1>7. \A b : Carries(s, K, b) /\ Carries(u, K, b) => Carries(r, K, b) BY <1>1, <1>2 DEF Carries
<1>. QED BY <1>1, <1>5, <1>6, <1>7 DEF r

\* One message, or none.
LEMMA OneKinds ==
  ASSUME NEW x, NEW K
  PROVE  /\ Has(<<x>>, K) <=> x.m \in K
         /\ Once(<<x>>, K)
         /\ \A b : Carries(<<x>>, K, b) <=> (x.m \in K => x.of = b)
<1>1. DOMAIN <<x>> = 1 .. 1 /\ <<x>>[1] = x OBVIOUS
<1>2. \A i \in 1 .. 1 : i = 1 OBVIOUS
<1>. QED BY <1>1, <1>2 DEF Has, Once, Carries

\* An empty socket has no message of any kind.
LEMMA NoKinds ==
  ASSUME NEW K
  PROVE  /\ ~Has(<<>>, K) /\ Once(<<>>, K)
         /\ \A b : Carries(<<>>, K, b)
<1>1. DOMAIN <<>> = {} OBVIOUS
<1>. QED BY <1>1 DEF Has, Once, Carries

\* Taking the first message.
LEMMA TailKinds ==
  ASSUME NEW S, NEW s \in Seq(S), s # <<>>, NEW K
  PROVE  /\ Tail(s) \in Seq(S) /\ Head(s) \in S
         /\ Has(s, K) <=> Head(s).m \in K \/ Has(Tail(s), K)
         /\ Once(s, K) => Once(Tail(s), K)
         /\ Once(s, K) /\ Head(s).m \in K => ~Has(Tail(s), K)
         /\ \A b : Carries(s, K, b) => Carries(Tail(s), K, b) /\ (Head(s).m \in K => Head(s).of = b)
<1>. DEFINE n == Len(s)
            r == Tail(s)
<1>1. /\ n \in Nat \ {0} /\ DOMAIN s = 1 .. n /\ Head(s) = s[1] /\ s[1] \in S
      /\ r \in Seq(S) /\ DOMAIN r = 1 .. n - 1 /\ \A i \in 1 .. n - 1 : r[i] = s[i + 1]
  OBVIOUS
<1>. HIDE DEF n, r
<1>2. \A i \in DOMAIN r : i + 1 \in DOMAIN s /\ i + 1 # 1 /\ r[i] = s[i + 1] BY <1>1
<1>3. ASSUME NEW i \in DOMAIN s, i # 1 PROVE i - 1 \in DOMAIN r /\ r[i - 1] = s[i]
  <2>1. i - 1 \in 1 .. n - 1 /\ (i - 1) + 1 = i BY <1>1, <1>3
  <2>. QED BY <2>1, <1>1
<1>4. 1 \in DOMAIN s BY <1>1
<1>5. Has(s, K) <=> s[1].m \in K \/ Has(r, K) BY <1>2, <1>3, <1>4 DEF Has
<1>6. ASSUME Once(s, K) PROVE Once(r, K)
  <2>. SUFFICES ASSUME NEW i \in DOMAIN r, NEW j \in DOMAIN r, r[i].m \in K, r[j].m \in K
                PROVE  i = j
    BY DEF Once
  <2>1. i + 1 = j + 1 BY <1>2, <1>6 DEF Once
  <2>. QED BY <2>1, <1>1
<1>7. Once(s, K) /\ s[1].m \in K => ~Has(r, K) BY <1>2, <1>4 DEF Has, Once
<1>8. \A b : Carries(s, K, b) => Carries(r, K, b) /\ (s[1].m \in K => s[1].of = b) BY <1>2, <1>4 DEF Carries
<1>. QED BY <1>1, <1>5, <1>6, <1>7, <1>8 DEF r

\* The bodies of requests.
LEMMA BodyTypes ==
  /\ Nothing \in Bodies
  /\ \A op \in {"map", "read", "write"}, a \in Areas :
       Mmio(op, a) \in Bodies /\ Mmio(op, a).area = a /\ Mmio(op, a).op = op
  /\ \A op \in {"none", "open", "attach", "map"} :
       Plain(op) \in Bodies /\ Plain(op).op = op /\ Plain(op).area = "none"
  /\ \A op \in {"none", "open", "attach", "map", "read", "write", "write_be"}, a \in Nat, n \in Nat :
       Lpc(op, a, n) \in Bodies /\ Lpc(op, a, n).op = op /\ Lpc(op, a, n).addr = a /\ Lpc(op, a, n).size = n
BY DEF Nothing, Bodies, Mmio, Plain, Lpc, Areas

\* An access of the LPC memory moves at least a byte and no more than is left.
LEMMA StrideFits ==
  ASSUME NEW a \in Nat, NEW left \in Nat \ {0}
  PROVE  stride(a, left) \in Nat \ {0} /\ stride(a, left) <= left
<1>. DEFINE P == {p \in Powers : a % p = 0 /\ p <= left}
            Q == {x \in Nat : \E p \in P : x = 256 - p}
<1>1. \A p \in P : p \in Nat \ {0} /\ p <= 256 /\ p <= left BY DEF Powers
<1>2. 1 \in P
  <2>1. a % 1 = 0 OBVIOUS
  <2>. QED BY <2>1, LibocxlAssumption DEF Powers
<1>. HIDE DEF P
<1>3. 255 \in Q BY <1>2
<1>4. PICK x \in Q : \A y \in Q : x <= y BY <1>3, LeastNatural
<1>5. PICK p \in P : x = 256 - p BY <1>4
<1>6. \A q \in P : p >= q
  <2>. TAKE q \in P
  <2>1. 256 - q \in Q BY <1>1
  <2>2. 256 - p <= 256 - q BY <2>1, <1>4, <1>5
  <2>. QED BY <2>2, <1>1
<1>7. Max(P) \in P BY <1>5, <1>6, Zenon DEF Max
<1>. QED BY <1>1, <1>7 DEF stride, P

\* Taking an entry off the list of those who wait.
LEMMA RemoveFirstType ==
  ASSUME NEW S, NEW s \in Seq(S), NEW e
  PROVE  RemoveFirst(s, e) \in Seq(S)
<1>. DEFINE I == {i \in 1 .. Len(s) : s[i] = e}
<1>1. CASE I = {} BY <1>1 DEF RemoveFirst
<1>2. CASE I # {}
  <2>0. I \in SUBSET Nat OBVIOUS
  <2>1. PICK i \in I : \A j \in I : i <= j BY <1>2, <2>0, LeastNatural
  <2>2. Min(I) \in I BY <2>1, Zenon DEF Min
  <2>3. RemoveFirst(s, e) = RemoveAt(s, Min(I)) BY <1>2 DEF RemoveFirst, SelectInSeq
  <2>4. Min(I) \in DOMAIN s BY <2>2
  <2>. QED BY <2>3, <2>4, RemoveAtShape
<1>. QED BY <1>1, <1>2

\* Queueing an event.
LEMMA QueuedFits ==
  ASSUME NEW a \in Afus, IsInjective(a.events), NEW type \in Events
  PROVE  LET q == Queued(a, type) IN
         /\ q \in Afus /\ IsInjective(q.events)
         /\ q.pipe + Len(a.events) = a.pipe + Len(q.events)
         /\ q.life = a.life /\ q.count = a.count /\ q.max = a.max
<1>. DEFINE q == Queued(a, type)
            s == a.events
            r == Append(s, type)
<1>1. a.events \in Seq(Events) /\ a.pipe \in Nat BY DEF Afus
<1>2. CASE type \in Range(s)
  <2>1. q = a BY <1>2 DEF Queued
  <2>. QED BY <2>1, <1>1
<1>3. CASE type \notin Range(s)
  <2>1. q = [a EXCEPT !.events = r, !.pipe = @ + 1] BY <1>3 DEF Queued
  <2>2. /\ r \in Seq(Events) /\ Len(s) \in Nat /\ Len(r) = Len(s) + 1 /\ DOMAIN r = 1 .. Len(s) + 1
        /\ DOMAIN s = 1 .. Len(s) /\ r[Len(s) + 1] = type /\ \A i \in 1 .. Len(s) : r[i] = s[i]
    BY <1>1
  <2>3. \A i \in 1 .. Len(s) : s[i] # type BY <1>3, <2>2 DEF Range
  <2>. DEFINE n == Len(s)
  <2>. HIDE DEF n, r, q
  <2>4. IsInjective(r)
    <3>. SUFFICES ASSUME NEW i \in 1 .. n + 1, NEW j \in 1 .. n + 1, r[i] = r[j] PROVE i = j
      BY <2>2 DEF IsInjective, n
    <3>1. \A k \in 1 .. n + 1 : k # n + 1 => k \in 1 .. n BY <2>2 DEF n
    <3>2. \A k \in 1 .. n, l \in 1 .. n : s[k] = s[l] => k = l BY <2>2 DEF n, IsInjective
    <3>. QED BY <3>1, <3>2, <2>2, <2>3 DEF n
  <2>5. q \in Afus
    <3>1. r \in Seq(Events) /\ a.pipe + 1 \in Nat BY <2>2, <1>1
    <3>2. [a EXCEPT !.events = r, !.pipe = a.pipe + 1] \in Afus BY <3>1, Zenon DEF Afus
    <3>. QED BY <2>1, <3>2
  <2>6. q.events = r /\ q.pipe = a.pipe + 1 /\ q.life = a.life /\ q.count = a.count /\ q.max = a.max
    BY <2>1, <1>1 DEF Afus
  <2>7. Len(r) = Len(s) + 1 /\ Len(s) \in Nat BY <2>2
  <2>. HIDE DEF s
  <2>8. q.pipe + Len(s) = a.pipe + Len(q.events) BY <2>6, <2>7, <1>1
  <2>. QED BY <2>4, <2>5, <2>6, <2>8 DEF q, s
<1>. QED BY <1>2, <1>3

-----------------------------------------------------------------------------
(***************************************************************************)
(* Steps of a thread of the application.                                   *)
(***************************************************************************)
Pipers == {t \in Threads : thr[t].at = "pipe"}

\* What a thread has to be like.
ThreadOK(t, x) ==
  /\ x \in Thrs
  /\ x.at = "pipe" => x.call = "event"
  /\ x.call = "wait" /\ x.at \in {"spin", "link"} => x.entry # "none"
  /\ x.call \in MayCall[t] \cup {"none"}
  /\ x.call \in {"open", "close"} => t = Main
  /\ x.call = "map" => x.body.area \in Areas

\* A step of one thread of the application, to a legal state, keeps the other threads.
LEMMA ThreadStep ==
  ASSUME BInv, NEW t \in Threads, NEW x, ThreadOK(t, x), thr' = [thr EXCEPT ![t] = x]
  PROVE  /\ ThrType' /\ Threading'
         /\ \A u \in Threads : thr'[u] = IF u = t THEN x ELSE thr[u]
         /\ Pipers' = IF x.at = "pipe" THEN Pipers \cup {t} ELSE Pipers \ {t}
<1>1. thr \in [Threads -> Thrs] /\ Threading BY DEF BInv, Types, ThrType
<1>2. \A u \in Threads : thr'[u] = IF u = t THEN x ELSE thr[u] BY <1>1
<1>3. ThrType' BY <1>1 DEF ThrType, ThreadOK
<1>4. Threading' BY <1>1, <1>2 DEF Threading, ThreadOK
<1>5. Pipers' = IF x.at = "pipe" THEN Pipers \cup {t} ELSE Pipers \ {t} BY <1>2 DEF Pipers
<1>. QED BY <1>2, <1>3, <1>4, <1>5

\* The number of those who read an event.
LEMMA PipersFinite ==
  ASSUME NEW t
  PROVE  /\ IsFiniteSet(Pipers) /\ Cardinality(Pipers) \in Nat
         /\ Cardinality(Pipers \cup {t}) = IF t \in Pipers THEN Cardinality(Pipers) ELSE Cardinality(Pipers) + 1
         /\ Cardinality(Pipers \ {t}) = IF t \in Pipers THEN Cardinality(Pipers) - 1 ELSE Cardinality(Pipers)
<1>1. IsFiniteSet(Pipers) BY LibocxlAssumption, FS_Subset DEF Pipers
<1>. QED BY <1>1, FS_AddElement, FS_RemoveElement, FS_CardinalityType

\* The events, the pipe and those who read an event stay as they are, or an
\* event is queued.
SamePipers ==
  /\ afu'.events = afu.events /\ afu'.pipe = afu.pipe
  /\ Pipers' = Pipers

\* Queue and pipe agree after a step that touches neither of them nor a thread between them.
LEMMA SamePiped == ASSUME BInv, SamePipers PROVE EventsPiped' /\ EventsOnce'
BY DEF BInv, SamePipers, EventsPiped, EventsOnce, Pipers

\* A call starts.
LEMMA CallStarts ==
  ASSUME BInv, NEW t \in Threads, NEW c \in Calls, NEW at \in Places, NEW body \in Bodies,
         Starts(t, c, at, body), at # "pipe", c = "wait" => at \notin {"spin", "link"},
         c \in {"open", "close"} => t = Main, c = "map" => body.area \in Areas
  PROVE  /\ ThrType' /\ Threading' /\ Pipers' = Pipers
         /\ \A u \in Threads : thr'[u].call = IF u = t THEN c ELSE thr[u].call
         /\ \A u \in Threads : thr'[u].at = IF u = t THEN at ELSE thr[u].at
         /\ c \in MayCall[t] /\ thr[t].call = "none"
<1>. DEFINE x == [Idle EXCEPT !.call = c, !.at = at, !.body = body]
<1>1. x \in Thrs /\ x.call = c /\ x.at = at /\ x.body = body BY DEF Idle, Thrs
<1>2. c \in MayCall[t] /\ thr[t].call = "none" /\ thr' = [thr EXCEPT ![t] = x] BY DEF Starts, InCall
<1>. HIDE DEF x
<1>3. ThreadOK(t, x) BY <1>1, <1>2 DEF ThreadOK
<1>4. t \notin Pipers BY <1>2 DEF Pipers, BInv, Threading
<1>5. /\ ThrType' /\ Threading' /\ Pipers' = Pipers \ {t}
      /\ \A u \in Threads : thr'[u] = IF u = t THEN x ELSE thr[u]
  BY <1>1, <1>2, <1>3, ThreadStep
<1>6. Pipers \ {t} = Pipers BY <1>4
<1>. QED BY <1>1, <1>2, <1>5, <1>6

\* A call ends, not that of a thread that reads an event.
LEMMA CallEnds ==
  ASSUME BInv, NEW t \in Threads, NEW at \in {"none", "unserved"},
         thr' = [thr EXCEPT ![t] = [Idle EXCEPT !.at = at]]
  PROVE  /\ ThrType' /\ Threading' /\ Pipers' = Pipers \ {t}
         /\ \A u \in Threads : thr'[u].call = IF u = t THEN "none" ELSE thr[u].call
         /\ \A u \in Threads : thr'[u].at = IF u = t THEN at ELSE thr[u].at
<1>. DEFINE x == [Idle EXCEPT !.at = at]
<1>1. x \in Thrs /\ x.call = "none" /\ x.at = at BY BodyTypes DEF Idle, Thrs, Places
<1>. HIDE DEF x
<1>2. ThreadOK(t, x) BY <1>1 DEF ThreadOK
<1>3. /\ ThrType' /\ Threading' /\ Pipers' = Pipers \ {t}
      /\ \A u \in Threads : thr'[u] = IF u = t THEN x ELSE thr[u]
  BY <1>1, <1>2, ThreadStep DEF x
<1>4. /\ \A u \in Threads : thr'[u].call = IF u = t THEN "none" ELSE thr[u].call
      /\ \A u \in Threads : thr'[u].at = IF u = t THEN at ELSE thr[u].at
  BY <1>1, <1>3 DEF Idle
<1>. QED BY <1>3, <1>4

\* The end of a call that made a request frees the request and the thread.
LEMMA EndsStep ==
  ASSUME BInv, NEW t \in Threads, NEW r \in Requests, Ends(t, r) \/ EndsOk(t, r)
  PROVE  /\ ThrType' /\ Threading' /\ Pipers' = Pipers \ {t}
         /\ \A u \in Threads : thr'[u].call = IF u = t THEN "none" ELSE thr[u].call
         /\ ReqType' /\ req' = [req EXCEPT ![r] = NoReq]
         /\ \A u \in Threads : u # t => thr'[u].at = thr[u].at
         /\ thr'[t].at = "unserved" => EndsOk(t, r) /\ req[r].got # req[r].body
<1>1. req' = [req EXCEPT ![r] = NoReq] BY DEF Ends, EndsOk
<1>2. NoReq \in Reqs BY BodyTypes DEF NoReq, Reqs
<1>3. ReqType' BY <1>1, <1>2 DEF BInv, Types, ReqType
<1>4. CASE Ends(t, r)
  <2>1. Idle = [Idle EXCEPT !.at = "none"] BY DEF Idle
  <2>2. thr' = [thr EXCEPT ![t] = [Idle EXCEPT !.at = "none"]] BY <2>1, <1>4 DEF Ends
  <2>3. /\ ThrType' /\ Threading' /\ Pipers' = Pipers \ {t}
        /\ \A u \in Threads : thr'[u].call = IF u = t THEN "none" ELSE thr[u].call
        /\ \A u \in Threads : thr'[u].at = IF u = t THEN "none" ELSE thr[u].at
    BY <2>2, CallEnds
  <2>. QED BY <2>3, <1>1, <1>3
<1>5. CASE EndsOk(t, r)
  <2>1. PICK at \in {"none", "unserved"} : /\ thr' = [thr EXCEPT ![t] = [Idle EXCEPT !.at = at]]
                                           /\ at = "unserved" => req[r].got # req[r].body
    BY <1>5 DEF EndsOk
  <2>2. /\ ThrType' /\ Threading' /\ Pipers' = Pipers \ {t}
        /\ \A u \in Threads : thr'[u].call = IF u = t THEN "none" ELSE thr[u].call
        /\ \A u \in Threads : thr'[u].at = IF u = t THEN at ELSE thr[u].at
    BY <2>1, CallEnds
  <2>. QED BY <2>1, <2>2, <1>1, <1>3, <1>5
<1>. QED BY <1>4, <1>5

-----------------------------------------------------------------------------
(***************************************************************************)
(* BInv holds at first and every step of the application keeps it.         *)
(***************************************************************************)
LEMMA BaseInit == Init => BInv
<1>. SUFFICES ASSUME Init PROVE BInv OBVIOUS
<1>1. AfuType
  <2>1. <<>> \in Seq(Events) /\ <<"none", "none">> \in [1 .. 2 -> Areas \cup {"none"}] OBVIOUS
  <2>. QED BY <2>1 DEF Init, AfuType, AfuInit, Afus
<1>2. ReqType BY BodyTypes DEF Init, ReqType, NoReq, Reqs
<1>3. ThrType BY BodyTypes DEF Init, ThrType, Idle, Thrs, Places
<1>4. PslType /\ WaitsType /\ SocketType /\ made \in Nat
  BY DEF Init, PslType, PslPlaces, WaitsType, SocketType
<1>5. OcseType BY DEF Init, OcseType
<1>6. LifeOfCalls /\ Unopened /\ Threading BY DEF Init, LifeOfCalls, Unopened, Threading, AfuInit, Idle
<1>7. afu.events = <<>> /\ afu.pipe = 0 /\ Pipers = {} BY DEF Init, AfuInit, Pipers, Idle
<1>8. EventsOnce BY <1>7 DEF EventsOnce, IsInjective
<1>9. EventsPiped
  <2>1. Cardinality(Pipers) = 0 /\ Len(<<>>) = 0 BY <1>7, FS_EmptySet
  <2>2. EventsPiped <=> afu.pipe = Len(afu.events) + Cardinality(Pipers) BY DEF EventsPiped, Pipers
  <2>. QED BY <1>7, <2>1, <2>2
<1>10. MemoryOnce BY NoKinds DEF Init, MemoryOnce
<1>. QED BY <1>1, <1>2, <1>3, <1>4, <1>5, <1>6, <1>8, <1>9, <1>10 DEF BInv, Types

\* Sockets that are left alone.
LEMMA SameSockets ==
  ASSUME BInv, UNCHANGED <<toOcse, toLib, ocse>> PROVE SocketType' /\ OcseType' /\ MemoryOnce'
BY DEF BInv, Types, SocketType, OcseType, MemoryOnce

\* A request is filled.
LEMMA AsksType ==
  ASSUME BInv, NEW r \in Requests, NEW b \in Bodies, Asks(r, b) PROVE ReqType'
BY BodyTypes DEF Asks, BInv, Types, ReqType, Reqs

\* A call with a handle of an open AFU, which leaves the AFU alone.
LEMMA OpenCallBase ==
  ASSUME BInv, NEW t \in Threads, NEW c \in Calls, NEW at \in Places, NEW body \in Bodies,
         Starts(t, c, at, body), at # "pipe", c = "wait" => at \notin {"spin", "link"},
         c \notin {"open", "close"}, c = "map" => body.area \in Areas, Handle, ReqType', made' \in Nat,
         UNCHANGED <<afu, psl, waits, toOcse, toLib, ocse>>
  PROVE  BInv'
<1>1. /\ ThrType' /\ Threading' /\ Pipers' = Pipers
      /\ \A u \in Threads : thr'[u].call = IF u = t THEN c ELSE thr[u].call
  BY CallStarts
<1>2. LifeOfCalls' BY <1>1 DEF BInv, LifeOfCalls, Handle
<1>3. SocketType' /\ OcseType' /\ MemoryOnce' BY SameSockets
<1>4. EventsPiped' /\ EventsOnce' BY <1>1, SamePiped DEF SamePipers
<1>5. AfuType' /\ PslType' /\ WaitsType' /\ Unopened'
  BY DEF BInv, Types, AfuType, PslType, WaitsType, Unopened
<1>. QED BY <1>1, <1>2, <1>3, <1>4, <1>5 DEF BInv, Types

\* A step that changes flags of the AFU only.
LEMMA FlagsBase ==
  ASSUME BInv, AfuType', afu'.life = afu.life, afu'.events = afu.events, afu'.pipe = afu.pipe,
         made' \in Nat, UNCHANGED <<req, thr, psl, waits, toOcse, toLib, ocse>>
  PROVE  BInv'
<1>1. SocketType' /\ OcseType' /\ MemoryOnce' BY SameSockets
<1>2. EventsPiped' /\ EventsOnce' BY SamePiped DEF SamePipers, Pipers
<1>3. ReqType' /\ ThrType' /\ PslType' /\ WaitsType' /\ LifeOfCalls' /\ Unopened' /\ Threading'
  BY DEF BInv, Types, ReqType, ThrType, PslType, WaitsType, LifeOfCalls, Unopened, Threading
<1>. QED BY <1>1, <1>2, <1>3 DEF BInv, Types

\* made is counted.
LEMMA CountedType == ASSUME BInv PROVE (Counted => made' \in Nat) /\ (made' = made => made' \in Nat)
BY DEF BInv, Types, Counted

\* An access of the LPC memory.
LEMMA LpcAsksStep ==
  ASSUME BInv, NEW t \in Threads, NEW op \in {"none", "open", "attach", "map", "read", "write", "write_be"}, NEW a \in Nat,
         NEW left \in Nat \ {0}, LpcAsks(t, op, a, left), "lpc" \in MayCall[t]
  PROVE  /\ ThrType' /\ Threading' /\ ReqType' /\ Pipers' = Pipers \ {t}
         /\ \A u \in Threads : thr'[u].call = IF u = t THEN "lpc" ELSE thr[u].call
         /\ \A u \in Threads : thr'[u].at = IF u = t THEN "spin" ELSE thr[u].at
         /\ \E b \in Bodies : Asks("mem", b)
<1>. DEFINE n == stride(a, left)
            b == Lpc(op, a, n)
            x == [Idle EXCEPT !.call = "lpc", !.at = "spin", !.body = b, !.left = left - n]
<1>1. n \in Nat \ {0} /\ n <= left BY StrideFits
<1>. HIDE DEF n
<1>2. b \in Bodies /\ b.size = n BY <1>1, BodyTypes
<1>3. LpcAsks(t, op, a, left) => thr' = [thr EXCEPT ![t] = [Idle EXCEPT !.call = "lpc", !.at = "spin", !.body = b, !.left = left - b.size]] /\ Asks("mem", b)
  BY DEF LpcAsks, n
<1>. HIDE DEF b
<1>4. thr' = [thr EXCEPT ![t] = x] /\ Asks("mem", b) BY <1>2, <1>3
<1>5. left - n \in Nat BY <1>1
<1>6. x \in Thrs /\ x.call = "lpc" /\ x.at = "spin" BY <1>2, <1>5, BodyTypes DEF Idle, Thrs, Places, Calls
<1>. HIDE DEF x
<1>7. ThreadOK(t, x) BY <1>6 DEF ThreadOK
<1>8. /\ ThrType' /\ Threading' /\ Pipers' = Pipers \ {t}
      /\ \A u \in Threads : thr'[u] = IF u = t THEN x ELSE thr[u]
  BY <1>4, <1>6, <1>7, ThreadStep
<1>9. ReqType' BY <1>2, <1>4, AsksType DEF Requests
<1>. QED BY <1>2, <1>4, <1>6, <1>8, <1>9

\* Calls that start.
LEMMA StartingBase == ASSUME BInv, NEW t \in Threads, Starting(t) PROVE BInv'
<1>0. made \in Nat /\ (Counted => made' \in Nat) BY DEF BInv, Types, Counted
<1>1. CASE ocxl_afu_open(t)
  <2>1. /\ ThrType' /\ Threading' /\ Pipers' = Pipers
        /\ \A u \in Threads : thr'[u].call = IF u = t THEN "open" ELSE thr[u].call
    BY <1>1, CallStarts, BodyTypes DEF ocxl_afu_open, Calls, Places
  <2>2. afu.life = "none" /\ afu' = [AfuInit EXCEPT !.life = "opening"] BY <1>1 DEF ocxl_afu_open
  <2>3. AfuInit \in Afus
    <3>1. <<>> \in Seq(Events) /\ <<"none", "none">> \in [1 .. 2 -> Areas \cup {"none"}] OBVIOUS
    <3>. QED BY <3>1 DEF AfuInit, Afus
  <2>4. AfuType' /\ afu'.life = "opening" /\ afu'.events = <<>> /\ afu'.pipe = 0
    BY <2>2, <2>3 DEF AfuType, Afus, AfuInit
  <2>5. LifeOfCalls' /\ Unopened' BY <2>1, <2>2, <2>4 DEF BInv, LifeOfCalls, Unopened
  <2>6. EventsPiped' /\ EventsOnce'
    <3>1. afu.events = <<>> /\ afu.pipe = 0 BY <2>2 DEF BInv, Unopened
    <3>. QED BY <3>1, <2>1, <2>4, SamePiped DEF SamePipers
  <2>7. ReqType' BY <1>1, BodyTypes DEF ocxl_afu_open, BInv, Types, ReqType, Reqs, Requests
  <2>8. PslType'
    <3>1. psl' = [psl EXCEPT !.at = "start"] BY <1>1 DEF ocxl_afu_open
    <3>. QED BY <3>1 DEF BInv, Types, PslType, PslPlaces
  <2>9. WaitsType' /\ OcseType' BY <1>1 DEF ocxl_afu_open, BInv, Types, WaitsType, OcseType
  <2>10. SocketType' /\ MemoryOnce'
    <3>. DEFINE q == Signal("QUERY")
                o == Msg("open", Plain("open"))
                u == <<q, o>>
    <3>1. q \in ToOcse /\ o \in ToOcse /\ q.m = "QUERY" /\ o.m = "open"
      BY BodyTypes DEF Signal, Msg, ToOcse, Requests
    <3>2. toLib' = toLib /\ ocse' = ocse /\ ~ocse.gone /\ toOcse' = toOcse \o u
      BY <1>1 DEF ocxl_afu_open, Put
    <3>. HIDE DEF q, o
    <3>3. u \in Seq(ToOcse) /\ DOMAIN u = 1 .. 2 /\ u[1] = q /\ u[2] = o BY <3>1
    <3>4. ~Has(u, Acks) BY <3>1, <3>3 DEF Has, Acks
    <3>5. Once(u, Acks) BY <3>4 DEF Has, Once
    <3>6. toOcse \in Seq(ToOcse) /\ toLib \in Seq(ToLib) BY DEF BInv, Types, SocketType
    <3>. HIDE DEF u
    <3>7. /\ toOcse' \in Seq(ToOcse) /\ (Has(toOcse', Acks) <=> Has(toOcse, Acks))
          /\ Once(toOcse, Acks) => Once(toOcse', Acks)
      BY <3>2, <3>3, <3>4, <3>5, <3>6, ConcatKinds
    <3>. QED BY <3>2, <3>6, <3>7 DEF SocketType, BInv, MemoryOnce
  <2>. QED BY <2>1, <2>4, <2>5, <2>6, <2>7, <2>8, <2>9, <2>10, <1>0, <1>1 DEF BInv, Types, ocxl_afu_open
<1>2. CASE ocxl_afu_close(t)
  <2>0. afu \in Afus BY DEF BInv, Types, AfuType
  <2>. DEFINE l == IF afu.opened THEN "closing" ELSE "freed"
  <2>1. afu' = [afu EXCEPT !.irq = FALSE, !.mapped = {}, !.life = l] /\ afu.life = "open"
        /\ \A u \in Threads : thr[u].call = "none"
    BY <1>2 DEF ocxl_afu_close, Handle, InCall
  <2>. HIDE DEF l
  <2>2. l \in {"closing", "freed"} BY DEF l
  <2>3. AfuType' /\ afu'.life = l /\ afu'.events = afu.events /\ afu'.pipe = afu.pipe
    BY <2>0, <2>1, <2>2 DEF AfuType, Afus
  <2>4. CASE afu.opened
    <3>1. Starts(t, "close", "detach", Nothing) /\ t = Main BY <1>2, <2>4 DEF ocxl_afu_close
    <3>2. /\ ThrType' /\ Threading' /\ Pipers' = Pipers
          /\ \A u \in Threads : thr'[u].call = IF u = t THEN "close" ELSE thr[u].call
      BY <3>1, CallStarts, BodyTypes DEF Calls, Places
    <3>3. LifeOfCalls' /\ Unopened' BY <3>2, <2>1, <2>2, <2>3 DEF LifeOfCalls, Unopened
    <3>4. EventsPiped' /\ EventsOnce' BY <3>2, <2>3, SamePiped DEF SamePipers
    <3>5. SocketType' /\ OcseType' /\ MemoryOnce' BY <1>2, SameSockets DEF ocxl_afu_close
    <3>6. ReqType' /\ PslType' /\ WaitsType' /\ made' \in Nat
      BY <1>2 DEF ocxl_afu_close, BInv, Types, ReqType, PslType, WaitsType
    <3>. QED BY <2>3, <3>2, <3>3, <3>4, <3>5, <3>6 DEF BInv, Types
  <2>5. CASE ~afu.opened
    <3>1. UNCHANGED <<thr, req, psl, waits, made>> BY <1>2, <2>5 DEF ocxl_afu_close
    <3>2. ThrType' /\ Threading' /\ Pipers' = Pipers BY <3>1 DEF BInv, Types, ThrType, Threading, Pipers
    <3>3. LifeOfCalls' /\ Unopened' BY <3>1, <2>1, <2>2, <2>3 DEF LifeOfCalls, Unopened
    <3>4. EventsPiped' /\ EventsOnce' BY <3>2, <2>3, SamePiped DEF SamePipers
    <3>5. SocketType' /\ OcseType' /\ MemoryOnce' BY <1>2, SameSockets DEF ocxl_afu_close
    <3>6. ReqType' /\ PslType' /\ WaitsType' /\ made' \in Nat
      BY <3>1 DEF BInv, Types, ReqType, PslType, WaitsType
    <3>. QED BY <2>3, <3>2, <3>3, <3>4, <3>5, <3>6 DEF BInv, Types
  <2>. QED BY <2>4, <2>5
<1>3. CASE ocxl_afu_attach(t)
  <2>1. Plain("attach") \in Bodies /\ Nothing \in Bodies BY BodyTypes
  <2>2. ReqType' BY <1>3, <2>1, AsksType DEF ocxl_afu_attach, Requests
  <2>3. Starts(t, "attach", "spin", Nothing) /\ Handle BY <1>3 DEF ocxl_afu_attach
  <2>. QED BY <1>0, <1>3, <2>1, <2>2, <2>3, OpenCallBase DEF ocxl_afu_attach, Calls, Places
<1>4. CASE ocxl_mmio_map(t)
  <2>1. PICK a \in Areas : Starts(t, "map", "spin", Mmio("map", a)) /\ Asks("mmio", Mmio("map", a))
    BY <1>4 DEF ocxl_mmio_map
  <2>2. Mmio("map", a) \in Bodies /\ Mmio("map", a).area \in Areas BY BodyTypes
  <2>3. ReqType' BY <2>1, <2>2, AsksType DEF Requests
  <2>. QED BY <1>0, <1>4, <2>1, <2>2, <2>3, OpenCallBase DEF ocxl_mmio_map, Calls, Places
<1>5. CASE ocxl_mmio_unmap(t)
  <2>1. PICK a : afu' = [afu EXCEPT !.mapped = @ \ {a}] BY <1>5 DEF ocxl_mmio_unmap
  <2>2. AfuType' /\ afu'.life = afu.life /\ afu'.events = afu.events /\ afu'.pipe = afu.pipe
    BY <2>1 DEF BInv, Types, AfuType, Afus
  <2>. QED BY <1>0, <1>5, <2>2, FlagsBase DEF ocxl_mmio_unmap
<1>6. CASE ocxl_mmio(t)
  <2>1. PICK op \in {"read", "write"}, a \in Areas : Starts(t, "mmio", "spin", Mmio(op, a)) /\ Asks("mmio", Mmio(op, a))
    <3>1. afu.mapped \subseteq Areas BY DEF BInv, Types, AfuType, Afus
    <3>. QED BY <1>6, <3>1 DEF ocxl_mmio
  <2>2. Mmio(op, a) \in Bodies BY BodyTypes
  <2>3. ReqType' BY <2>1, <2>2, AsksType DEF Requests
  <2>. QED BY <1>0, <1>6, <2>1, <2>2, <2>3, OpenCallBase DEF ocxl_mmio, Calls, Places
<1>7. CASE ocxl_lpc_map(t)
  <2>1. Plain("map") \in Bodies /\ Nothing \in Bodies BY BodyTypes
  <2>2. ReqType' BY <1>7, <2>1, AsksType DEF ocxl_lpc_map, Requests
  <2>3. Starts(t, "lpc_map", "spin", Nothing) /\ Handle BY <1>7 DEF ocxl_lpc_map
  <2>. QED BY <1>0, <1>7, <2>1, <2>2, <2>3, OpenCallBase DEF ocxl_lpc_map, Calls, Places
<1>8. CASE ocxl_lpc_unmap(t)
  <2>1. afu' = [afu EXCEPT !.lpc = FALSE] BY <1>8 DEF ocxl_lpc_unmap
  <2>2. AfuType' /\ afu'.life = afu.life /\ afu'.events = afu.events /\ afu'.pipe = afu.pipe
    BY <2>1 DEF BInv, Types, AfuType, Afus
  <2>. QED BY <1>0, <1>8, <2>2, FlagsBase DEF ocxl_lpc_unmap
<1>9. CASE ocxl_lpc(t)
  <2>1. PICK op \in {"read", "write"}, r \in Ranges : LpcAsks(t, op, r.off, r.size) BY <1>9 DEF ocxl_lpc
  <2>2. r.off \in Nat /\ r.size \in Nat \ {0} BY LibocxlAssumption
  <2>3. Handle /\ "lpc" \in MayCall[t] /\ thr[t].call = "none" BY <1>9 DEF ocxl_lpc, InCall
  <2>4. /\ ThrType' /\ Threading' /\ ReqType' /\ Pipers' = Pipers \ {t}
        /\ \A u \in Threads : thr'[u].call = IF u = t THEN "lpc" ELSE thr[u].call
    BY <2>1, <2>2, <2>3, LpcAsksStep
  <2>5. Pipers' = Pipers BY <2>3, <2>4 DEF Pipers, BInv, Threading
  <2>6. UNCHANGED <<afu, psl, waits, toOcse, toLib, ocse>> /\ made' \in Nat BY <1>0, <1>9 DEF ocxl_lpc
  <2>7. LifeOfCalls' BY <2>3, <2>4, <2>6 DEF BInv, LifeOfCalls, Handle
  <2>8. SocketType' /\ OcseType' /\ MemoryOnce' BY <2>6, SameSockets
  <2>9. EventsPiped' /\ EventsOnce' BY <2>5, <2>6, SamePiped DEF SamePipers
  <2>10. AfuType' /\ PslType' /\ WaitsType' /\ Unopened'
    BY <2>6 DEF BInv, Types, AfuType, PslType, WaitsType, Unopened
  <2>. QED BY <2>4, <2>6, <2>7, <2>8, <2>9, <2>10 DEF BInv, Types
<1>10. CASE ocxl_lpc_write_be(t)
  <2>1. PICK r \in Ranges : Starts(t, "lpc", "spin", Lpc("write_be", r.off, 64)) /\ Asks("mem", Lpc("write_be", r.off, 64))
    BY <1>10 DEF ocxl_lpc_write_be
  <2>2. r.off \in Nat BY LibocxlAssumption
  <2>3. Lpc("write_be", r.off, 64) \in Bodies BY <2>2, BodyTypes
  <2>4. ReqType' BY <2>1, <2>3, AsksType DEF Requests
  <2>. QED BY <1>0, <1>10, <2>1, <2>3, <2>4, OpenCallBase DEF ocxl_lpc_write_be, Calls, Places
<1>11. CASE ocxl_irq_alloc(t)
  <2>1. afu' = [afu EXCEPT !.irq = TRUE] BY <1>11 DEF ocxl_irq_alloc
  <2>2. AfuType' /\ afu'.life = afu.life /\ afu'.events = afu.events /\ afu'.pipe = afu.pipe
    BY <2>1 DEF BInv, Types, AfuType, Afus
  <2>. QED BY <1>0, <1>11, <2>2, FlagsBase DEF ocxl_irq_alloc
<1>12. CASE ocxl_afu_event_check(t)
  <2>1. Starts(t, "event", "spin", Nothing) /\ Handle /\ Nothing \in Bodies BY <1>12, BodyTypes DEF ocxl_afu_event_check
  <2>2. ReqType' BY <1>12 DEF ocxl_afu_event_check, BInv, Types, ReqType
  <2>. QED BY <1>0, <1>12, <2>1, <2>2, OpenCallBase DEF ocxl_afu_event_check, Calls, Places
<1>13. CASE ocxl_wait(t)
  <2>1. Starts(t, "wait", "scan", Nothing) /\ Handle /\ Nothing \in Bodies BY <1>13, BodyTypes DEF ocxl_wait
  <2>2. ReqType' BY <1>13 DEF ocxl_wait, BInv, Types, ReqType
  <2>. QED BY <1>0, <1>13, <2>1, <2>2, OpenCallBase DEF ocxl_wait, Calls, Places
<1>. QED BY <1>1, <1>2, <1>3, <1>4, <1>5, <1>6, <1>7, <1>8, <1>9, <1>10, <1>11, <1>12, <1>13 DEF Starting

\* A call that used request r ends: the AFU keeps its events.
LEMMA EndsBase ==
  ASSUME BInv, NEW t \in Threads, NEW r \in Requests, Ends(t, r) \/ EndsOk(t, r),
         thr[t].at # "pipe", AfuType', afu'.events = afu.events, afu'.pipe = afu.pipe,
         LifeOfCalls', afu.life # "none", afu'.life # "none",
         UNCHANGED <<psl, waits, toOcse, toLib, ocse, made>>
  PROVE  BInv'
<1>1. ThrType' /\ Threading' /\ Pipers' = Pipers \ {t} /\ ReqType' BY EndsStep
<1>2. Pipers' = Pipers BY <1>1 DEF Pipers
<1>3. SocketType' /\ OcseType' /\ MemoryOnce' BY SameSockets
<1>4. EventsPiped' /\ EventsOnce' BY <1>2, SamePiped DEF SamePipers
<1>5. PslType' /\ WaitsType' /\ made' \in Nat /\ Unopened' BY DEF BInv, Types, PslType, WaitsType, Unopened
<1>. QED BY <1>1, <1>3, <1>4, <1>5 DEF BInv, Types

\* Another place in the same call.
LEMMA MovesBase ==
  ASSUME BInv, NEW t \in Threads, NEW at \in Places, NEW entry \in {"none", "wait", "psl"},
         thr' = [thr EXCEPT ![t] = [thr[t] EXCEPT !.at = at, !.entry = entry]],
         at # "pipe", thr[t].at # "pipe",
         thr[t].call = "wait" /\ at \in {"spin", "link"} => entry # "none"
  PROVE  /\ ThrType' /\ Threading' /\ Pipers' = Pipers
         /\ \A u \in Threads : thr'[u].call = thr[u].call
         /\ \A u \in Threads : thr'[u].at = IF u = t THEN at ELSE thr[u].at
<1>. DEFINE x == [thr[t] EXCEPT !.at = at, !.entry = entry]
<1>1. thr[t] \in Thrs BY DEF BInv, Types, ThrType
<1>2. x \in Thrs /\ x.at = at /\ x.call = thr[t].call /\ x.entry = entry /\ x.body = thr[t].body BY <1>1 DEF Thrs
<1>. HIDE DEF x
<1>3. ThreadOK(t, x) BY <1>1, <1>2 DEF ThreadOK, BInv, Threading
<1>4. /\ ThrType' /\ Threading' /\ Pipers' = Pipers \ {t}
      /\ \A u \in Threads : thr'[u] = IF u = t THEN x ELSE thr[u]
  BY <1>2, <1>3, ThreadStep DEF x
<1>5. Pipers \ {t} = Pipers BY DEF Pipers
<1>. QED BY <1>2, <1>4, <1>5

\* One message that is not an answer goes out.
LEMMA PutBase ==
  ASSUME BInv, NEW x \in ToOcse, x.m \notin Acks, Put(<<x>>), UNCHANGED <<toLib, ocse>>
  PROVE  SocketType' /\ OcseType' /\ MemoryOnce'
<1>1. toOcse \in Seq(ToOcse) /\ toLib \in Seq(ToLib) /\ <<x>> \in Seq(ToOcse) BY DEF BInv, Types, SocketType
<1>2. CASE ocse.gone BY <1>2, SameSockets DEF Put
<1>3. CASE ~ocse.gone
  <2>1. toOcse' = toOcse \o <<x>> BY <1>3 DEF Put
  <2>2. ~Has(<<x>>, Acks) /\ Once(<<x>>, Acks) BY OneKinds
  <2>3. /\ toOcse' \in Seq(ToOcse) /\ (Has(toOcse', Acks) <=> Has(toOcse, Acks))
        /\ Once(toOcse, Acks) => Once(toOcse', Acks)
    BY <1>1, <2>1, <2>2, ConcatKinds
  <2>. QED BY <1>1, <2>3 DEF SocketType, OcseType, BInv, Types, MemoryOnce
<1>. QED BY <1>2, <1>3

\* Calls that go on or end.
LEMMA ContinuingBase == ASSUME BInv, NEW t \in Threads, Continuing(t) PROVE BInv'
<1>0. afu \in Afus /\ thr[t] \in Thrs /\ made \in Nat BY DEF BInv, Types, AfuType, ThrType
<1>1. CASE OpenReturns(t)
  <2>1. thr[t].call = "open" /\ thr[t].at = "spin" BY <1>1 DEF OpenReturns, Spins
  <2>2. PICK l \in {"open", "freed"} : afu' = [afu EXCEPT !.life = l] /\ (Ends(t, "open") \/ EndsOk(t, "open"))
    BY <1>1 DEF OpenReturns
  <2>3. AfuType' /\ afu'.life = l /\ afu'.events = afu.events /\ afu'.pipe = afu.pipe
    BY <1>0, <2>2 DEF AfuType, Afus
  <2>4. afu.life = "opening" /\ t = Main BY <1>0, <2>1 DEF BInv, LifeOfCalls, Threading, Afus
  <2>5. \A u \in Threads : thr'[u].call = IF u = t THEN "none" ELSE thr[u].call
    BY <2>2, EndsStep DEF Requests
  <2>6. \A u \in Threads : thr'[u].call = "none" BY <2>4, <2>5 DEF BInv, LifeOfCalls, Threading
  <2>7. LifeOfCalls' BY <2>3, <2>6 DEF LifeOfCalls
  <2>8. "open" \in Requests BY DEF Requests
  <2>. QED BY <1>1, <2>1, <2>2, <2>3, <2>4, <2>7, <2>8, EndsBase DEF OpenReturns
<1>2. CASE CloseDetaches(t)
  <2>0. UNCHANGED <<afu, req, psl, waits, toLib, ocse, made>> /\ thr[t].call = "close" /\ thr[t].at = "detach"
    BY <1>2 DEF CloseDetaches
  <2>1. PICK at \in {"spin", "drop"} : thr' = [thr EXCEPT ![t].at = at] /\ (Put(<<Signal("DETACH")>>) \/ toOcse' = toOcse)
    BY <1>2 DEF CloseDetaches
  <2>2. thr' = [thr EXCEPT ![t] = [thr[t] EXCEPT !.at = at, !.entry = thr[t].entry]]
    BY <2>1, <1>0 DEF BInv, Types, ThrType, Thrs
  <2>3. /\ ThrType' /\ Threading' /\ Pipers' = Pipers
        /\ \A u \in Threads : thr'[u].call = thr[u].call
    BY <1>0, <2>0, <2>2, MovesBase DEF Thrs, Places
  <2>4. Signal("DETACH") \in ToOcse /\ Signal("DETACH").m \notin Acks
    BY BodyTypes DEF Signal, Msg, ToOcse, Acks
  <2>5. SocketType' /\ OcseType' /\ MemoryOnce' BY <2>0, <2>1, <2>4, PutBase, SameSockets
  <2>6. EventsPiped' /\ EventsOnce' BY <2>0, <2>3, SamePiped DEF SamePipers
  <2>7. AfuType' /\ ReqType' /\ PslType' /\ WaitsType' /\ made' \in Nat /\ Unopened' /\ LifeOfCalls'
    BY <2>0, <2>3 DEF BInv, Types, AfuType, ReqType, PslType, WaitsType, Unopened, LifeOfCalls
  <2>. QED BY <2>3, <2>5, <2>6, <2>7 DEF BInv, Types
<1>3. CASE CloseDrops(t)
  <2>0. UNCHANGED <<req, psl, waits, toOcse, toLib, ocse, made>> /\ thr[t].call = "close" /\ thr[t].at \in {"drop", "spin"}
        /\ afu' = [afu EXCEPT !.opened = FALSE] /\ thr' = [thr EXCEPT ![t].at = "join"]
    BY <1>3 DEF CloseDrops
  <2>1. thr' = [thr EXCEPT ![t] = [thr[t] EXCEPT !.at = "join", !.entry = thr[t].entry]]
    BY <2>0, <1>0 DEF BInv, Types, ThrType, Thrs
  <2>2. /\ ThrType' /\ Threading' /\ Pipers' = Pipers
        /\ \A u \in Threads : thr'[u].call = thr[u].call
    BY <1>0, <2>0, <2>1, MovesBase DEF Thrs, Places
  <2>3. AfuType' /\ afu'.life = afu.life /\ afu'.events = afu.events /\ afu'.pipe = afu.pipe
    BY <1>0, <2>0 DEF AfuType, Afus
  <2>4. SocketType' /\ OcseType' /\ MemoryOnce' BY <2>0, SameSockets
  <2>5. EventsPiped' /\ EventsOnce' BY <2>2, <2>3, SamePiped DEF SamePipers
  <2>6. ReqType' /\ PslType' /\ WaitsType' /\ made' \in Nat /\ Unopened' /\ LifeOfCalls'
    BY <2>0, <2>2, <2>3 DEF BInv, Types, ReqType, PslType, WaitsType, Unopened, LifeOfCalls
  <2>. QED BY <2>2, <2>3, <2>4, <2>5, <2>6 DEF BInv, Types
<1>4. CASE CloseReturns(t)
  <2>0. UNCHANGED <<req, psl, waits, toOcse, toLib, ocse, made>> /\ thr[t].call = "close" /\ thr[t].at = "join"
        /\ afu' = [afu EXCEPT !.life = "freed"] /\ thr' = [thr EXCEPT ![t] = Idle]
    BY <1>4 DEF CloseReturns, Returns
  <2>1. thr' = [thr EXCEPT ![t] = [Idle EXCEPT !.at = "none"]] BY <2>0 DEF Idle
  <2>2. /\ ThrType' /\ Threading' /\ Pipers' = Pipers \ {t}
        /\ \A u \in Threads : thr'[u].call = IF u = t THEN "none" ELSE thr[u].call
    BY <2>1, CallEnds
  <2>3. Pipers' = Pipers BY <2>0, <2>2 DEF Pipers
  <2>4. AfuType' /\ afu'.life = "freed" /\ afu'.events = afu.events /\ afu'.pipe = afu.pipe
    BY <1>0, <2>0 DEF AfuType, Afus
  <2>5. SocketType' /\ OcseType' /\ MemoryOnce' BY <2>0, SameSockets
  <2>6. EventsPiped' /\ EventsOnce' BY <2>3, <2>4, SamePiped DEF SamePipers
  <2>7. afu.life \in {"closing", "freed"} BY <1>0, <2>0 DEF BInv, LifeOfCalls, Afus
  <2>8. ReqType' /\ PslType' /\ WaitsType' /\ made' \in Nat /\ Unopened' /\ LifeOfCalls'
    BY <2>0, <2>2, <2>4, <2>7 DEF BInv, Types, ReqType, PslType, WaitsType, Unopened, LifeOfCalls
  <2>. QED BY <2>2, <2>4, <2>5, <2>6, <2>8 DEF BInv, Types
<1>5. CASE AttachReturns(t) \/ MapReturns(t) \/ MmioReturns(t) \/ LpcMapReturns(t)
  <2>1. thr[t].call \in {"attach", "map", "mmio", "lpc_map"} /\ thr[t].at = "spin"
    BY <1>5 DEF AttachReturns, MapReturns, MmioReturns, LpcMapReturns, Spins
  <2>2. PICK r \in Requests : Ends(t, r) \/ EndsOk(t, r)
    BY <1>5 DEF AttachReturns, MapReturns, MmioReturns, LpcMapReturns, Requests
  <2>3. afu.life = "open" BY <1>0, <2>1 DEF BInv, LifeOfCalls, Afus
  <2>4. AfuType' /\ afu'.life = afu.life /\ afu'.events = afu.events /\ afu'.pipe = afu.pipe
    <3>1. CASE AttachReturns(t)
      <4>1. afu' = [afu EXCEPT !.attached = TRUE] BY <3>1 DEF AttachReturns
      <4>. QED BY <1>0, <4>1 DEF AfuType, Afus
    <3>2. CASE MapReturns(t)
      <4>1. afu' = [afu EXCEPT !.mapped = @ \cup {thr[t].body.area}, !.count = @ + 1] BY <3>2 DEF MapReturns
      <4>2. thr[t].body.area \in Areas BY <3>2 DEF MapReturns, Spins, BInv, Threading
      <4>3. afu.mapped \cup {thr[t].body.area} \in SUBSET Areas /\ afu.count + 1 \in Nat BY <4>2, <1>0 DEF Afus
      <4>. QED BY <1>0, <4>1, <4>3 DEF AfuType, Afus
    <3>3. CASE MmioReturns(t) BY <3>3, <1>0 DEF MmioReturns, AfuType
    <3>4. CASE LpcMapReturns(t)
      <4>1. afu' = [afu EXCEPT !.lpc = TRUE] BY <3>4 DEF LpcMapReturns
      <4>. QED BY <1>0, <4>1 DEF AfuType, Afus
    <3>. QED BY <1>5, <3>1, <3>2, <3>3, <3>4
  <2>5. \A u \in Threads : thr'[u].call = IF u = t THEN "none" ELSE thr[u].call BY <2>2, EndsStep
  <2>6. LifeOfCalls' BY <2>3, <2>4, <2>5 DEF BInv, LifeOfCalls
  <2>7. UNCHANGED <<psl, waits, toOcse, toLib, ocse, made>>
    BY <1>5 DEF AttachReturns, MapReturns, MmioReturns, LpcMapReturns
  <2>. QED BY <2>1, <2>2, <2>3, <2>4, <2>6, <2>7, EndsBase
<1>6. CASE LpcReturns(t)
  <2>0. UNCHANGED <<afu, psl, waits, toOcse, toLib, ocse, made>> /\ thr[t].call = "lpc" /\ thr[t].at = "spin"
    BY <1>6 DEF LpcReturns, Spins
  <2>1. afu.life = "open" BY <1>0, <2>0 DEF BInv, LifeOfCalls, Afus
  <2>2. "mem" \in Requests BY DEF Requests
  <2>3. CASE Ends(t, "mem") \/ EndsOk(t, "mem")
    <3>1. \A u \in Threads : thr'[u].call = IF u = t THEN "none" ELSE thr[u].call BY <2>2, <2>3, EndsStep
    <3>2. LifeOfCalls' BY <2>0, <2>1, <3>1 DEF BInv, LifeOfCalls
    <3>. QED BY <2>0, <2>1, <2>2, <2>3, <3>2, EndsBase DEF BInv, Types, AfuType
  <2>4. CASE thr[t].left > 0 /\ LpcAsks(t, thr[t].body.op, thr[t].body.addr + thr[t].body.size, thr[t].left)
    <3>. DEFINE b == thr[t].body
    <3>1. b \in Bodies /\ thr[t].left \in Nat \ {0} BY <1>0, <2>4 DEF Thrs
    <3>2. b.op \in {"none", "open", "attach", "map", "read", "write", "write_be"} /\ b.addr + b.size \in Nat
      BY <3>1 DEF Bodies
    <3>3. "lpc" \in MayCall[t] BY <2>0 DEF BInv, Threading
    <3>. HIDE DEF b
    <3>4. /\ ThrType' /\ Threading' /\ ReqType' /\ Pipers' = Pipers \ {t}
          /\ \A u \in Threads : thr'[u].call = IF u = t THEN "lpc" ELSE thr[u].call
      BY <2>4, <3>1, <3>2, <3>3, LpcAsksStep DEF b
    <3>5. Pipers' = Pipers BY <2>0, <3>4 DEF Pipers
    <3>6. LifeOfCalls' BY <2>0, <2>1, <3>4 DEF BInv, LifeOfCalls
    <3>7. SocketType' /\ OcseType' /\ MemoryOnce' BY <2>0, SameSockets
    <3>8. EventsPiped' /\ EventsOnce' BY <2>0, <3>5, SamePiped DEF SamePipers
    <3>9. AfuType' /\ PslType' /\ WaitsType' /\ Unopened' /\ made' \in Nat
      BY <2>0 DEF BInv, Types, AfuType, PslType, WaitsType, Unopened
    <3>. QED BY <3>4, <3>6, <3>7, <3>8, <3>9 DEF BInv, Types
  <2>. QED BY <1>6, <2>3, <2>4 DEF LpcReturns
<1>7. CASE EventTaken(t)
  <2>0. UNCHANGED <<req, psl, waits, toOcse, toLib, ocse, made>> /\ thr[t].call = "event" /\ thr[t].at = "spin"
    BY <1>7 DEF EventTaken, Spins
  <2>1. afu.life = "open" BY <1>0, <2>0 DEF BInv, LifeOfCalls, Afus
  <2>2. SocketType' /\ OcseType' /\ MemoryOnce' BY <2>0, SameSockets
  <2>3. CASE /\ afu.events # <<>> /\ afu' = [afu EXCEPT !.events = Tail(@)]
             /\ thr' = [thr EXCEPT ![t].at = "pipe"]
    <3>. DEFINE x == [thr[t] EXCEPT !.at = "pipe"]
    <3>1. thr' = [thr EXCEPT ![t] = x] BY <2>3
    <3>2. x \in Thrs /\ x.at = "pipe" /\ x.call = "event" BY <1>0, <2>0 DEF Thrs, Places
    <3>. HIDE DEF x
    <3>3. ThreadOK(t, x) BY <2>0, <3>2 DEF ThreadOK, BInv, Threading
    <3>4. /\ ThrType' /\ Threading' /\ Pipers' = Pipers \cup {t}
          /\ \A u \in Threads : thr'[u] = IF u = t THEN x ELSE thr[u]
      BY <3>1, <3>2, <3>3, ThreadStep
    <3>5. afu.events \in Seq(Events) /\ IsInjective(afu.events) BY <1>0 DEF Afus, BInv, EventsOnce
    <3>6. Tail(afu.events) \in Seq(Events) /\ IsInjective(Tail(afu.events)) BY <2>3, <3>5, TailElements
    <3>7. Len(Tail(afu.events)) = Len(afu.events) - 1 /\ Len(afu.events) \in Nat BY <2>3, <3>5
    <3>8. AfuType' /\ afu'.life = afu.life /\ afu'.events = Tail(afu.events) /\ afu'.pipe = afu.pipe
      BY <1>0, <2>3, <3>6 DEF AfuType, Afus
    <3>9. EventsOnce' BY <3>6, <3>8 DEF EventsOnce
    <3>10. EventsPiped'
      <4>1. t \notin Pipers BY <2>0 DEF Pipers
      <4>2. Cardinality(Pipers') = Cardinality(Pipers) + 1 /\ Cardinality(Pipers) \in Nat
        BY <3>4, <4>1, PipersFinite
      <4>3. afu.pipe = Len(afu.events) + Cardinality(Pipers) BY DEF BInv, EventsPiped, Pipers
      <4>. DEFINE n == Len(afu.events)
                  k == Cardinality(Pipers)
                  n1 == Len(afu'.events)
                  k1 == Cardinality(Pipers')
      <4>4. n \in Nat /\ n1 = n - 1 /\ k \in Nat /\ k1 = k + 1 /\ afu'.pipe = n + k
        BY <3>7, <3>8, <4>2, <4>3
      <4>. HIDE DEF n, k, n1, k1
      <4>5. afu'.pipe = n1 + k1 BY <4>4
      <4>. QED BY <4>5 DEF n1, k1, EventsPiped, Pipers
    <3>11. LifeOfCalls' /\ Unopened' BY <2>1, <3>2, <3>4, <3>8 DEF BInv, LifeOfCalls, Unopened
    <3>12. ReqType' /\ PslType' /\ WaitsType' /\ made' \in Nat BY <2>0 DEF BInv, Types, ReqType, PslType, WaitsType
    <3>. QED BY <2>2, <3>4, <3>8, <3>9, <3>10, <3>11, <3>12 DEF BInv, Types
  <2>4. CASE thr' = [thr EXCEPT ![t].at = "crash"] /\ afu' = afu
    <3>1. thr' = [thr EXCEPT ![t] = [thr[t] EXCEPT !.at = "crash", !.entry = thr[t].entry]]
      BY <2>4, <1>0 DEF BInv, Types, ThrType, Thrs
    <3>2. /\ ThrType' /\ Threading' /\ Pipers' = Pipers
          /\ \A u \in Threads : thr'[u].call = thr[u].call
      BY <1>0, <2>0, <3>1, MovesBase DEF Thrs, Places
    <3>3. EventsPiped' /\ EventsOnce' BY <2>4, <3>2, SamePiped DEF SamePipers
    <3>4. AfuType' /\ ReqType' /\ PslType' /\ WaitsType' /\ made' \in Nat /\ Unopened' /\ LifeOfCalls'
      BY <2>0, <2>4, <3>2 DEF BInv, Types, AfuType, ReqType, PslType, WaitsType, Unopened, LifeOfCalls
    <3>. QED BY <2>2, <3>2, <3>3, <3>4 DEF BInv, Types
  <2>. QED BY <1>7, <2>3, <2>4 DEF EventTaken
<1>8. CASE EventReturns(t)
  <2>0. /\ UNCHANGED <<req, psl, waits, toOcse, toLib, ocse, made>> /\ thr[t].call = "event" /\ thr[t].at = "pipe"
        /\ afu.pipe > 0 /\ afu' = [afu EXCEPT !.pipe = @ - 1] /\ thr' = [thr EXCEPT ![t] = Idle]
    BY <1>8 DEF EventReturns, Returns
  <2>1. afu.life = "open" BY <1>0, <2>0 DEF BInv, LifeOfCalls, Afus
  <2>2. SocketType' /\ OcseType' /\ MemoryOnce' BY <2>0, SameSockets
  <2>3. thr' = [thr EXCEPT ![t] = [Idle EXCEPT !.at = "none"]] BY <2>0 DEF Idle
  <2>4. /\ ThrType' /\ Threading' /\ Pipers' = Pipers \ {t}
        /\ \A u \in Threads : thr'[u].call = IF u = t THEN "none" ELSE thr[u].call
    BY <2>3, CallEnds
  <2>5. afu.pipe - 1 \in Nat /\ afu.pipe \in Nat BY <1>0, <2>0 DEF Afus
  <2>6. AfuType' /\ afu'.life = afu.life /\ afu'.events = afu.events /\ afu'.pipe = afu.pipe - 1
    BY <1>0, <2>0, <2>5 DEF AfuType, Afus
  <2>7. EventsOnce' BY <2>6 DEF BInv, EventsOnce
  <2>8. EventsPiped'
    <3>1. t \in Pipers BY <2>0 DEF Pipers
    <3>2. Cardinality(Pipers') = Cardinality(Pipers) - 1 /\ Cardinality(Pipers) \in Nat
      BY <2>4, <3>1, PipersFinite
    <3>3. afu.pipe = Len(afu.events) + Cardinality(Pipers) BY DEF BInv, EventsPiped, Pipers
    <3>4. Len(afu.events) \in Nat BY <1>0 DEF Afus
    <3>. DEFINE n == Len(afu.events)
                k == Cardinality(Pipers)
                n1 == Len(afu'.events)
                k1 == Cardinality(Pipers')
    <3>5. n \in Nat /\ n1 = n /\ k \in Nat /\ k1 = k - 1 /\ afu'.pipe = (n + k) - 1
      BY <2>6, <3>2, <3>3, <3>4
    <3>. HIDE DEF n, k, n1, k1
    <3>6. afu'.pipe = n1 + k1 BY <3>5
    <3>. QED BY <3>6 DEF n1, k1, EventsPiped, Pipers
  <2>9. LifeOfCalls' /\ Unopened' BY <2>1, <2>4, <2>6 DEF BInv, LifeOfCalls, Unopened
  <2>10. ReqType' /\ PslType' /\ WaitsType' /\ made' \in Nat BY <2>0 DEF BInv, Types, ReqType, PslType, WaitsType
  <2>. QED BY <2>2, <2>4, <2>6, <2>7, <2>8, <2>9, <2>10 DEF BInv, Types
<1>9. CASE WaitScans(t)
  <2>0. UNCHANGED <<afu, req, psl, waits, toOcse, toLib, ocse, made>> /\ thr[t].call = "wait" /\ thr[t].at = "scan"
    BY <1>9 DEF WaitScans
  <2>1. \A e \in Entry(t) : e[2] \in {"wait", "psl"}
    <3>1. waits.list \in Seq(Entries) BY DEF BInv, Types, WaitsType
    <3>2. Entry(t) \subseteq Entries BY <3>1 DEF Entry
    <3>. QED BY <3>2 DEF Entries
  <2>2. PICK at \in {"link", "spin"}, entry \in {"wait", "psl"} :
          thr' = [thr EXCEPT ![t].at = at, ![t].entry = entry]
    BY <1>9, <2>1 DEF WaitScans
  <2>3. thr' = [thr EXCEPT ![t] = [thr[t] EXCEPT !.at = at, !.entry = entry]]
    BY <2>2, <1>0 DEF BInv, Types, ThrType, Thrs
  <2>4. /\ ThrType' /\ Threading' /\ Pipers' = Pipers
        /\ \A u \in Threads : thr'[u].call = thr[u].call
    BY <2>0, <2>3, MovesBase DEF Places
  <2>5. SocketType' /\ OcseType' /\ MemoryOnce' BY <2>0, SameSockets
  <2>6. EventsPiped' /\ EventsOnce' BY <2>0, <2>4, SamePiped DEF SamePipers
  <2>7. AfuType' /\ ReqType' /\ PslType' /\ WaitsType' /\ made' \in Nat /\ Unopened' /\ LifeOfCalls'
    BY <2>0, <2>4 DEF BInv, Types, AfuType, ReqType, PslType, WaitsType, Unopened, LifeOfCalls
  <2>. QED BY <2>4, <2>5, <2>6, <2>7 DEF BInv, Types
<1>10. CASE WaitLinks(t) \/ WaitReturns(t)
  <2>0. /\ UNCHANGED <<afu, req, psl, toOcse, toLib, ocse, made>> /\ thr[t].call = "wait"
        /\ thr[t].at \in {"link", "spin"}
    BY <1>10 DEF WaitLinks, WaitReturns, Spins
  <2>1. waits \in [list : Seq(Entries), received : SUBSET Entries] BY DEF BInv, Types, WaitsType
  <2>2. Own(t) \in Entries BY <1>0, <2>0 DEF Own, Entries, Thrs, BInv, Threading
  <2>3. /\ ThrType' /\ Threading' /\ Pipers' = Pipers /\ WaitsType'
        /\ \A u \in Threads : thr'[u].call = thr[u].call \/ thr'[u].call = "none"
    <3>1. CASE WaitLinks(t)
      <4>1. thr' = [thr EXCEPT ![t].at = "spin"] /\ waits' = [waits EXCEPT !.list = <<Own(t)>> \o @]
        BY <3>1 DEF WaitLinks
      <4>2. thr' = [thr EXCEPT ![t] = [thr[t] EXCEPT !.at = "spin", !.entry = thr[t].entry]]
        BY <4>1, <1>0 DEF BInv, Types, ThrType, Thrs
      <4>3. thr[t].entry \in {"none", "wait", "psl"} /\ thr[t].entry # "none"
        BY <1>0, <2>0 DEF Thrs, BInv, Threading
      <4>4. /\ ThrType' /\ Threading' /\ Pipers' = Pipers
            /\ \A u \in Threads : thr'[u].call = thr[u].call
        BY <2>0, <4>2, <4>3, MovesBase DEF Places
      <4>5. <<Own(t)>> \o waits.list \in Seq(Entries) BY <2>1, <2>2, PrependElements
      <4>6. WaitsType' BY <2>1, <4>1, <4>5 DEF WaitsType
      <4>. QED BY <4>4, <4>6
    <3>2. CASE WaitReturns(t)
      <4>1. /\ waits' = [list |-> RemoveFirst(waits.list, Own(t)), received |-> waits.received \ {Own(t)}]
            /\ thr' = [thr EXCEPT ![t] = Idle] /\ thr[t].at = "spin"
        BY <3>2 DEF WaitReturns, Returns, Spins
      <4>2. thr' = [thr EXCEPT ![t] = [Idle EXCEPT !.at = "none"]] BY <4>1 DEF Idle
      <4>3. /\ ThrType' /\ Threading' /\ Pipers' = Pipers \ {t}
            /\ \A u \in Threads : thr'[u].call = IF u = t THEN "none" ELSE thr[u].call
        BY <4>2, CallEnds
      <4>4. Pipers' = Pipers BY <4>1, <4>3 DEF Pipers
      <4>5. RemoveFirst(waits.list, Own(t)) \in Seq(Entries) BY <2>1, RemoveFirstType
      <4>6. WaitsType' BY <2>1, <4>1, <4>5 DEF WaitsType
      <4>. QED BY <4>3, <4>4, <4>6
    <3>. QED BY <1>10, <3>1, <3>2
  <2>4. SocketType' /\ OcseType' /\ MemoryOnce' BY <2>0, SameSockets
  <2>5. EventsPiped' /\ EventsOnce' BY <2>0, <2>3, SamePiped DEF SamePipers
  <2>6. AfuType' /\ ReqType' /\ PslType' /\ made' \in Nat /\ Unopened' /\ LifeOfCalls'
    BY <2>0, <2>3 DEF BInv, Types, AfuType, ReqType, PslType, Unopened, LifeOfCalls
  <2>. QED BY <2>3, <2>4, <2>5, <2>6 DEF BInv, Types
<1>. QED BY <1>1, <1>2, <1>3, <1>4, <1>5, <1>6, <1>7, <1>8, <1>9, <1>10 DEF Continuing

-----------------------------------------------------------------------------
(***************************************************************************)
(* The steps of the thread of the library keep BInv.                       *)
(***************************************************************************)
LEMMA GotoType == ASSUME NEW p \in PslPlaces, p # "link", Goto(p) PROVE PslType'
BY DEF Goto, PslType

\* A step that leaves the threads of the application alone and may queue an event.
LEMMA PslFrame ==
  ASSUME BInv, psl.at # "none", UNCHANGED <<thr, made>>, AfuType', afu'.life = afu.life,
         EventsOnce', afu'.pipe + Len(afu.events) = afu.pipe + Len(afu'.events),
         ReqType', PslType', WaitsType', SocketType', OcseType', MemoryOnce'
  PROVE  BInv'
<1>1. ThrType' /\ Threading' /\ Pipers' = Pipers /\ LifeOfCalls' /\ made' \in Nat
  BY DEF BInv, Types, ThrType, Threading, Pipers, LifeOfCalls
<1>2. Unopened' BY DEF BInv, Unopened
<1>3. EventsPiped'
  <2>1. afu \in Afus /\ afu' \in Afus BY DEF BInv, Types, AfuType
  <2>2. /\ Len(afu.events) \in Nat /\ Len(afu'.events) \in Nat /\ Cardinality(Pipers) \in Nat
        /\ afu.pipe \in Nat /\ afu'.pipe \in Nat
    <3>1. Cardinality(Pipers) \in Nat BY PipersFinite
    <3>. QED BY <2>1, <3>1 DEF Afus
  <2>3. afu.pipe = Len(afu.events) + Cardinality(Pipers) BY DEF BInv, EventsPiped, Pipers
  <2>4. EventsPiped' <=> afu'.pipe = Len(afu'.events) + Cardinality(Pipers') BY DEF EventsPiped, Pipers
  <2>. DEFINE n == Len(afu.events)
              k == Cardinality(Pipers)
              n1 == Len(afu'.events)
  <2>5. /\ n \in Nat /\ n1 \in Nat /\ k \in Nat /\ afu.pipe = n + k /\ afu'.pipe + n = afu.pipe + n1
        /\ afu'.pipe \in Nat /\ (EventsPiped' <=> afu'.pipe = n1 + k)
    BY <2>2, <2>3, <2>4, <1>1
  <2>. HIDE DEF n, k, n1
  <2>. QED BY <2>5
<1>. QED BY <1>1, <1>2, <1>3 DEF BInv, Types

\* A step that changes neither the queue of events nor the sockets.
LEMMA PslQuiet ==
  ASSUME BInv, psl.at # "none", UNCHANGED <<thr, made, toOcse, toLib, ocse>>, AfuType',
         afu'.life = afu.life, afu'.events = afu.events, afu'.pipe = afu.pipe,
         ReqType', PslType', WaitsType'
  PROVE  BInv'
<1>1. SocketType' /\ OcseType' /\ MemoryOnce' BY SameSockets
<1>2. EventsOnce' BY DEF BInv, EventsOnce
<1>. QED BY <1>1, <1>2, PslFrame

\* A message other than a memory command is read.
LEMMA ReadsBase ==
  ASSUME BInv, NEW m, Reads(m), m # "MEM", toOcse' = toOcse
  PROVE  /\ SocketType' /\ OcseType' /\ MemoryOnce' /\ Head(toLib) \in ToLib /\ Head(toLib).m = m
         /\ psl.at # "none" /\ UNCHANGED <<thr, made>>
<1>1. /\ toLib # <<>> /\ Head(toLib).m = m /\ toLib' = Tail(toLib) /\ UNCHANGED <<thr, ocse, made>>
      /\ psl.at = "socket"
  BY DEF Reads, At
<1>2. toOcse \in Seq(ToOcse) /\ toLib \in Seq(ToLib) BY DEF BInv, Types, SocketType
<1>3. /\ Tail(toLib) \in Seq(ToLib) /\ Head(toLib) \in ToLib
      /\ Has(toLib, {"MEM"}) <=> Head(toLib).m \in {"MEM"} \/ Has(Tail(toLib), {"MEM"})
      /\ Once(toLib, {"MEM"}) => Once(Tail(toLib), {"MEM"})
      /\ \A b : Carries(toLib, {"MEM"}, b) => Carries(Tail(toLib), {"MEM"}, b)
  BY <1>1, <1>2, TailKinds
<1>4. SocketType' /\ OcseType' BY <1>1, <1>2, <1>3 DEF SocketType, OcseType, BInv, Types
<1>5. MemoryOnce' BY <1>1, <1>3 DEF BInv, MemoryOnce
<1>. QED BY <1>1, <1>3, <1>4, <1>5

\* A memory command is read, and ocse is told of it, but for an AMO.
LEMMA ReadsMemory ==
  ASSUME BInv, Reads("MEM"), NEW x \in ToOcse, x.m \in Acks,
         (Of = "amo" /\ UNCHANGED toOcse) \/ (Of # "amo" /\ (Put(<<x>>) \/ (ocse.gone /\ UNCHANGED toOcse)))
  PROVE  SocketType' /\ OcseType' /\ MemoryOnce' /\ psl.at # "none" /\ UNCHANGED <<thr, made>>
<1>. DEFINE M == {"MEM"}
<1>1. /\ toLib # <<>> /\ Head(toLib).m \in M /\ toLib' = Tail(toLib) /\ UNCHANGED <<thr, ocse, made>>
      /\ psl.at = "socket" /\ Of = Head(toLib).of
  BY DEF Reads, At, Of
<1>2. toOcse \in Seq(ToOcse) /\ toLib \in Seq(ToLib) /\ <<x>> \in Seq(ToOcse) BY DEF BInv, Types, SocketType
<1>3. /\ Tail(toLib) \in Seq(ToLib) /\ Head(toLib) \in ToLib
      /\ Has(toLib, M) <=> Head(toLib).m \in M \/ Has(Tail(toLib), M)
      /\ Once(toLib, M) => Once(Tail(toLib), M)
      /\ Once(toLib, M) /\ Head(toLib).m \in M => ~Has(Tail(toLib), M)
      /\ \A b : Carries(toLib, M, b) => Carries(Tail(toLib), M, b) /\ (Head(toLib).m \in M => Head(toLib).of = b)
  BY <1>1, <1>2, TailKinds
<1>4. OcseType' BY <1>1 DEF OcseType, BInv, Types
<1>5. CASE ocse.gone
  <2>1. toOcse' = toOcse BY <1>5 DEF Put
  <2>2. MemoryOnce' BY <1>1, <1>5 DEF MemoryOnce
  <2>. QED BY <1>1, <1>2, <1>3, <1>4, <2>1, <2>2 DEF SocketType
<1>6. CASE ~ocse.gone
  <2>1. Has(toLib, M) /\ Of = ocse.mem /\ Carries(toLib', M, ocse.mem)
    BY <1>1, <1>3, <1>6 DEF BInv, MemoryOnce
  <2>2. CASE Of = "amo"
    <3>1. toOcse' = toOcse BY <2>2
    <3>2. MemoryOnce' BY <1>1, <1>6, <2>1, <2>2, <3>1 DEF BInv, MemoryOnce
    <3>. QED BY <1>1, <1>2, <1>3, <1>4, <3>1, <3>2 DEF SocketType
  <2>3. CASE Of # "amo"
    <3>1. toOcse' = toOcse \o <<x>> BY <2>3, <1>6 DEF Put
    <3>2. Has(<<x>>, Acks) /\ Once(<<x>>, Acks) BY OneKinds
    <3>3. ocse.mem \in {"good", "bad"} BY <2>1, <2>3, <1>6 DEF BInv, MemoryOnce, Types, OcseType
    <3>4. ~Has(toOcse, Acks) /\ Once(toOcse, Acks) /\ Once(toLib, M) BY <2>1, <3>3, <1>6 DEF BInv, MemoryOnce
    <3>5. toOcse' \in Seq(ToOcse) /\ Has(toOcse', Acks) /\ Once(toOcse', Acks)
      BY <1>2, <3>1, <3>2, <3>4, ConcatKinds
    <3>6. ~Has(toLib', M) /\ Once(toLib', M) BY <1>1, <1>3, <3>4
    <3>7. MemoryOnce' BY <1>1, <2>1, <3>3, <3>5, <3>6 DEF MemoryOnce
    <3>. QED BY <1>1, <1>3, <1>4, <3>5, <3>7 DEF SocketType
  <2>. QED BY <2>2, <2>3
<1>. QED BY <1>5, <1>6

\* Requests that are answered, sent or made IDLE.
LEMMA AnsweredType ==
  ASSUME BInv, NEW r \in Requests, Answered(r), Of \in Bodies
  PROVE  ReqType'
BY DEF Answered, BInv, Types, ReqType, Reqs

\* _all_idle leaves requests of the right type.
LEMMA AllIdleType == ASSUME BInv, AllRequestsIdle PROVE ReqType'
BY DEF AllRequestsIdle, BInv, Types, ReqType, Reqs

\* The opening and closing of the loop, and what it sends.
LEMMA PslSendsBase ==
  ASSUME BInv,
         PslStarts \/ PslExits \/ PslSends \/ mem_map \/ PslTurns \/ PslIdles \/ PslLoses \/ AllIdleFlags
         \/ DetachRequests
  PROVE  BInv'
<1>0. /\ afu \in Afus /\ AfuType /\ ReqType /\ PslType /\ WaitsType /\ SocketType /\ OcseType
  BY DEF BInv, Types, AfuType
<1>. USE DEF PslPlaces
<1>1. CASE PslStarts
  <2>1. afu' = [afu EXCEPT !.opened = TRUE] BY <1>1 DEF PslStarts
  <2>2. AfuType' /\ afu'.life = afu.life /\ afu'.events = afu.events /\ afu'.pipe = afu.pipe
    BY <1>0, <2>1 DEF AfuType, Afus
  <2>3. PslType' BY <1>1, GotoType DEF PslStarts
  <2>. QED BY <1>0, <1>1, <2>2, <2>3, PslQuiet DEF PslStarts, At, ReqType, WaitsType
<1>2. CASE PslExits
  <2>1. afu' = [afu EXCEPT !.attached = FALSE] BY <1>2 DEF PslExits
  <2>2. AfuType' /\ afu'.life = afu.life /\ afu'.events = afu.events /\ afu'.pipe = afu.pipe
    BY <1>0, <2>1 DEF AfuType, Afus
  <2>3. PslType' BY <1>2, GotoType DEF PslExits
  <2>. QED BY <1>0, <1>2, <2>2, <2>3, PslQuiet DEF PslExits, At, ReqType, WaitsType
<1>3. CASE PslSends
  <2>1. PICK r \in Asked : Goto(After[r]) /\ Sends(r) BY <1>3 DEF PslSends
  <2>2. r \in {"attach", "mmio", "mem"} /\ psl.at # "none" BY <2>1 DEF Asked, Due, At
  <2>3. After[r] \in PslPlaces /\ After[r] # "link" BY <2>2 DEF After
  <2>4. PslType' BY <2>1, <2>3, GotoType
  <2>5. UNCHANGED <<thr, waits, toLib, ocse, made>> BY <1>3 DEF PslSends
  <2>6. CASE req' = [req EXCEPT ![r].state = "PENDING"] /\ Put(<<Msg(r, req[r].body)>>) /\ afu' = afu
    <3>1. ReqType' BY <1>0, <2>2, <2>6 DEF ReqType, Reqs, Requests
    <3>2. Msg(r, req[r].body) \in ToOcse /\ Msg(r, req[r].body).m \notin Acks
      BY <1>0, <2>2 DEF Msg, ToOcse, Acks, Requests, ReqType, Reqs
    <3>3. SocketType' /\ OcseType' /\ MemoryOnce' BY <2>5, <2>6, <3>2, PutBase
    <3>4. EventsOnce' /\ AfuType' BY <2>6, <1>0 DEF BInv, EventsOnce, AfuType
    <3>. QED BY <1>0, <2>2, <2>4, <2>5, <2>6, <3>1, <3>3, <3>4, PslFrame DEF WaitsType
  <2>7. CASE afu' = [afu EXCEPT !.opened = FALSE, !.attached = FALSE] /\ req' = [req EXCEPT ![r].state = "IDLE"] /\ toOcse' = toOcse
    <3>1. AfuType' /\ afu'.life = afu.life /\ afu'.events = afu.events /\ afu'.pipe = afu.pipe
      BY <1>0, <2>7 DEF AfuType, Afus
    <3>2. ReqType' BY <1>0, <2>2, <2>7 DEF ReqType, Reqs, Requests
    <3>. QED BY <1>0, <2>2, <2>4, <2>5, <2>7, <3>1, <3>2, PslQuiet DEF WaitsType
  <2>. QED BY <2>1, <2>6, <2>7 DEF Sends
<1>4. CASE mem_map
  <2>1. PICK r \in Asked : Goto(After[r]) BY <1>4 DEF mem_map
  <2>2. r \in {"attach", "mmio", "mem"} /\ psl.at # "none" BY <2>1 DEF Asked, Due, At
  <2>3. After[r] \in PslPlaces /\ After[r] # "link" BY <2>2 DEF After
  <2>4. PslType' BY <2>1, <2>3, GotoType
  <2>5. ReqType'
    <3>1. Plain("map") \in Bodies BY BodyTypes
    <3>2. req' = [req EXCEPT !["mem"].state = "IDLE", !["mem"].got = Plain("map")] BY <1>4 DEF mem_map
    <3>. DEFINE b == Plain("map")
    <3>. HIDE DEF b
    <3>3. req' = [req EXCEPT !["mem"] = [req["mem"] EXCEPT !.state = "IDLE", !.got = b]]
      BY <1>0, <3>2 DEF b, ReqType, Reqs, Requests
    <3>4. req["mem"] \in Reqs BY <1>0 DEF ReqType, Requests
    <3>5. [req["mem"] EXCEPT !.state = "IDLE", !.got = b] \in Reqs BY <3>1, <3>4 DEF b, Reqs
    <3>. QED BY <1>0, <3>3, <3>5 DEF ReqType
  <2>. QED BY <1>0, <1>4, <2>2, <2>4, <2>5, PslQuiet DEF mem_map, AfuType, WaitsType
<1>5. CASE PslTurns
  <2>1. psl.at # "none" BY <1>5 DEF PslTurns, Due, At
  <2>2. PslType' BY <1>5, GotoType DEF PslTurns
  <2>. QED BY <1>0, <1>5, <2>1, <2>2, PslQuiet DEF PslTurns, AfuType, ReqType, WaitsType
<1>6. CASE PslIdles
  <2>1. PslType' BY <1>6, GotoType DEF PslIdles
  <2>. QED BY <1>0, <1>6, <2>1, PslQuiet DEF PslIdles, At, AfuType, ReqType, WaitsType
<1>7. CASE PslLoses
  <2>1. PslType' /\ ReqType' BY <1>7, GotoType, AllIdleType DEF PslLoses
  <2>. QED BY <1>0, <1>7, <2>1, PslQuiet DEF PslLoses, At, AfuType, WaitsType
<1>8. CASE AllIdleFlags
  <2>1. afu' = [afu EXCEPT !.mapped = {}, !.attached = FALSE, !.opened = FALSE] BY <1>8 DEF AllIdleFlags, ClearFlags
  <2>2. AfuType' /\ afu'.life = afu.life /\ afu'.events = afu.events /\ afu'.pipe = afu.pipe
    BY <1>0, <2>1 DEF AfuType, Afus
  <2>3. PslType' BY <1>8, GotoType DEF AllIdleFlags
  <2>. QED BY <1>0, <1>8, <2>2, <2>3, PslQuiet DEF AllIdleFlags, At, ReqType, WaitsType
<1>9. CASE DetachRequests
  <2>1. PslType' /\ ReqType' BY <1>9, GotoType, AllIdleType DEF DetachRequests
  <2>. QED BY <1>0, <1>9, <2>1, PslQuiet DEF DetachRequests, At, AfuType, WaitsType
<1>. QED BY <1>1, <1>2, <1>3, <1>4, <1>5, <1>6, <1>7, <1>8, <1>9

\* An entry of the list of those who wait.
LEMMA EntryType == ASSUME BInv, NEW t PROVE Entry(t) \subseteq Entries
<1>1. waits.list \in Seq(Entries) BY DEF BInv, Types, WaitsType
<1>. QED BY <1>1 DEF Entry

\* The messages the loop reads.
LEMMA PslReadsBase ==
  ASSUME BInv,
         PslQuery \/ (\E r \in Requests : PslOpenAttach(r)) \/ PslDetach \/ handle_ack \/ handle_mem_ack
         \/ handle_memory \/ handle_interrupt \/ handle_wake_host_thread \/ WakeLinks
  PROVE  BInv'
<1>0. /\ afu \in Afus /\ AfuType /\ ReqType /\ PslType /\ WaitsType /\ IsInjective(afu.events)
  BY DEF BInv, Types, AfuType, EventsOnce
<1>00. afu.pipe \in Nat /\ Len(afu.events) \in Nat BY <1>0 DEF Afus
<1>. USE DEF PslPlaces
<1>1. CASE PslQuery
  <2>1. afu' = [afu EXCEPT !.count = 0, !.max = 2] BY <1>1 DEF PslQuery
  <2>2. AfuType' /\ afu'.life = afu.life /\ afu'.events = afu.events /\ afu'.pipe = afu.pipe
    BY <1>0, <2>1 DEF AfuType, Afus
  <2>3. PslType' BY <1>1, GotoType DEF PslQuery
  <2>4. SocketType' /\ OcseType' /\ MemoryOnce' /\ psl.at # "none" /\ UNCHANGED <<thr, made>>
    BY <1>1, ReadsBase DEF PslQuery
  <2>5. EventsOnce' BY <1>0, <2>2 DEF EventsOnce
  <2>. QED BY <1>0, <1>1, <2>2, <2>3, <2>4, <2>5, PslFrame DEF PslQuery, ReqType, WaitsType
<1>2. ASSUME NEW r \in Requests, PslOpenAttach(r) PROVE BInv'
  <2>1. SocketType' /\ OcseType' /\ MemoryOnce' /\ psl.at # "none" /\ UNCHANGED <<thr, made>> /\ Head(toLib) \in ToLib /\ Head(toLib).m = r
    BY <1>2, ReadsBase DEF PslOpenAttach
  <2>2. Of \in Bodies BY <2>1 DEF Of, ToLib, ToOcse, Requests
  <2>3. PslType' /\ ReqType' BY <1>2, <2>2, GotoType, AnsweredType DEF PslOpenAttach
  <2>4. EventsOnce' /\ AfuType' BY <1>0, <1>2 DEF PslOpenAttach, EventsOnce, AfuType
  <2>. QED BY <1>0, <1>2, <2>1, <2>3, <2>4, PslFrame DEF PslOpenAttach, WaitsType
<1>3. CASE PslDetach
  <2>1. afu' = [afu EXCEPT !.mapped = {}, !.attached = FALSE, !.opened = FALSE] BY <1>3 DEF PslDetach, ClearFlags
  <2>2. AfuType' /\ afu'.life = afu.life /\ afu'.events = afu.events /\ afu'.pipe = afu.pipe
    BY <1>0, <2>1 DEF AfuType, Afus
  <2>3. PslType' BY <1>3, GotoType DEF PslDetach
  <2>4. SocketType' /\ OcseType' /\ MemoryOnce' /\ psl.at # "none" /\ UNCHANGED <<thr, made>>
    BY <1>3, ReadsBase DEF PslDetach
  <2>5. EventsOnce' BY <1>0, <2>2 DEF EventsOnce
  <2>. QED BY <1>0, <1>3, <2>2, <2>3, <2>4, <2>5, PslFrame DEF PslDetach, ReqType, WaitsType
<1>4. CASE handle_ack
  <2>1. SocketType' /\ OcseType' /\ MemoryOnce' /\ psl.at # "none" /\ UNCHANGED <<thr, made>> /\ Head(toLib) \in ToLib /\ Head(toLib).m = "mmio"
    BY <1>4, ReadsBase DEF handle_ack
  <2>2. Of \in Bodies /\ "mmio" \in Requests BY <2>1 DEF Of, ToLib, ToOcse, Requests
  <2>3. PslType' /\ ReqType' BY <1>4, <2>2, GotoType, AnsweredType DEF handle_ack
  <2>4. AfuType' /\ afu'.life = afu.life /\ afu'.events = afu.events /\ afu'.pipe = afu.pipe
    <3>1. req["mmio"].body.area \in Areas \cup {"none"} BY <1>0, <2>2 DEF ReqType, Reqs, Bodies
    <3>2. afu.mmios \in [1 .. 2 -> Areas \cup {"none"}] BY <1>0 DEF Afus
    <3>. DEFINE f == [afu.mmios EXCEPT ![afu.count + 1] = req["mmio"].body.area]
    <3>3. f \in [1 .. 2 -> Areas \cup {"none"}] BY <3>1, <3>2
    <3>4. afu' = afu \/ afu' = [afu EXCEPT !.mmios = f] BY <1>4, <1>0 DEF handle_ack, Afus
    <3>. HIDE DEF f
    <3>. QED BY <1>0, <3>3, <3>4 DEF AfuType, Afus
  <2>5. EventsOnce' BY <1>0, <2>4 DEF EventsOnce
  <2>. QED BY <1>0, <1>4, <2>1, <2>3, <2>4, <2>5, PslFrame DEF handle_ack, WaitsType
<1>5. CASE handle_mem_ack
  <2>1. SocketType' /\ OcseType' /\ MemoryOnce' /\ psl.at # "none" /\ UNCHANGED <<thr, made>> /\ Head(toLib) \in ToLib /\ Head(toLib).m = "mem"
    BY <1>5, ReadsBase DEF handle_mem_ack
  <2>2. Of \in Bodies /\ "mem" \in Requests BY <2>1 DEF Of, ToLib, ToOcse, Requests
  <2>3. PslType' /\ ReqType' BY <1>5, <2>2, GotoType, AnsweredType DEF handle_mem_ack
  <2>4. EventsOnce' /\ AfuType' BY <1>0, <1>5 DEF handle_mem_ack, EventsOnce, AfuType
  <2>. QED BY <1>0, <1>5, <2>1, <2>3, <2>4, PslFrame DEF handle_mem_ack, WaitsType
<1>6. CASE handle_memory
  <2>. DEFINE a == IF Of = "good" THEN afu ELSE Queued(afu, "FAULT")
              x == Signal(IF Of = "good" THEN "SUCCESS" ELSE "FAILURE")
  <2>1. \/ Of = "amo" /\ afu' = a /\ UNCHANGED toOcse
        \/ Of # "amo" /\ afu' = a /\ Put(<<x>>)
        \/ Of # "amo" /\ ocse.gone /\ afu' = [a EXCEPT !.opened = FALSE, !.attached = FALSE] /\ UNCHANGED toOcse
    BY <1>6 DEF handle_memory
  <2>2. x \in ToOcse /\ x.m \in Acks BY BodyTypes DEF Signal, Msg, ToOcse, Acks
  <2>3. SocketType' /\ OcseType' /\ MemoryOnce' /\ psl.at # "none" /\ UNCHANGED <<thr, made>>
    <3>. HIDE DEF x
    <3>. QED BY <1>6, <2>1, <2>2, ReadsMemory DEF handle_memory
  <2>4. /\ a \in Afus /\ IsInjective(a.events) /\ a.pipe + Len(afu.events) = afu.pipe + Len(a.events)
        /\ a.life = afu.life
    <3>1. CASE Of = "good" BY <3>1, <1>0, <1>00
    <3>2. CASE Of # "good" BY <3>2, <1>0, QueuedFits DEF Events
    <3>. QED BY <3>1, <3>2
  <2>. HIDE DEF a
  <2>5. AfuType' /\ afu'.events = a.events /\ afu'.pipe = a.pipe /\ afu'.life = a.life
    BY <2>1, <2>4 DEF AfuType, Afus
  <2>6. EventsOnce' /\ afu'.life = afu.life /\ afu'.pipe + Len(afu.events) = afu.pipe + Len(afu'.events)
    BY <2>4, <2>5 DEF EventsOnce
  <2>7. PslType' BY <1>6, GotoType DEF handle_memory
  <2>. QED BY <1>0, <1>6, <2>3, <2>5, <2>6, <2>7, PslFrame DEF handle_memory, ReqType, WaitsType
<1>7. CASE handle_interrupt
  <2>. DEFINE a == IF afu.irq THEN Queued(afu, "IRQ") ELSE afu
  <2>1. SocketType' /\ OcseType' /\ MemoryOnce' /\ psl.at # "none" /\ UNCHANGED <<thr, made>>
    BY <1>7, ReadsBase DEF handle_interrupt
  <2>2. PslType'
    <3>1. Goto("top") \/ Goto("fail") BY <1>7 DEF handle_interrupt
    <3>. QED BY <3>1, GotoType
  <2>3. /\ a \in Afus /\ IsInjective(a.events) /\ a.pipe + Len(afu.events) = afu.pipe + Len(a.events)
        /\ a.life = afu.life
    <3>1. CASE ~afu.irq BY <3>1, <1>0, <1>00
    <3>2. CASE afu.irq BY <3>2, <1>0, QueuedFits DEF Events
    <3>. QED BY <3>1, <3>2
  <2>4. afu' = a BY <1>7 DEF handle_interrupt
  <2>. HIDE DEF a
  <2>5. EventsOnce' /\ AfuType' BY <2>3, <2>4 DEF EventsOnce, AfuType
  <2>. QED BY <1>0, <1>7, <2>1, <2>2, <2>3, <2>4, <2>5, PslFrame DEF handle_interrupt, ReqType, WaitsType
<1>8. CASE handle_wake_host_thread
  <2>1. SocketType' /\ OcseType' /\ MemoryOnce' /\ psl.at # "none" /\ UNCHANGED <<thr, made>> /\ Head(toLib) \in ToLib /\ Head(toLib).m = "WAKE"
    BY <1>8, ReadsBase DEF handle_wake_host_thread
  <2>2. Of \in Threads BY <2>1 DEF Of, ToLib, ToOcse, Requests
  <2>3. PslType' BY <1>8, <2>2 DEF handle_wake_host_thread, PslType
  <2>4. WaitsType' BY <1>0, <1>8, EntryType DEF handle_wake_host_thread, WaitsType
  <2>5. EventsOnce' /\ AfuType' BY <1>0, <1>8 DEF handle_wake_host_thread, EventsOnce, AfuType
  <2>. QED BY <1>0, <1>8, <2>1, <2>3, <2>4, <2>5, PslFrame DEF handle_wake_host_thread, ReqType
<1>9. CASE WakeLinks
  <2>1. psl.at = "link" /\ psl.of \in Threads BY <1>0, <1>9 DEF WakeLinks, At, PslType
  <2>2. <<psl.of, "psl">> \in Entries BY <2>1 DEF Entries
  <2>3. <<<<psl.of, "psl">>>> \o waits.list \in Seq(Entries) BY <1>0, <2>2, PrependElements DEF WaitsType
  <2>4. WaitsType' BY <1>0, <1>9, <2>2, <2>3 DEF WakeLinks, WaitsType
  <2>5. PslType' BY <1>9, GotoType DEF WakeLinks
  <2>. QED BY <1>0, <1>9, <2>1, <2>4, <2>5, PslQuiet DEF WakeLinks, AfuType, ReqType
<1>. QED BY <1>1, <1>2, <1>3, <1>4, <1>5, <1>6, <1>7, <1>8, <1>9

-----------------------------------------------------------------------------
(***************************************************************************)
(* The steps of ocse keep BInv.                                            *)
(***************************************************************************)
LEMMA OcseFrame ==
  ASSUME BInv, UNCHANGED <<afu, req, thr, psl, waits, made>>, SocketType', OcseType', MemoryOnce'
  PROVE  BInv'
<1>1. AfuType' /\ ReqType' /\ ThrType' /\ PslType' /\ WaitsType' /\ made' \in Nat
  BY DEF BInv, Types, AfuType, ReqType, ThrType, PslType, WaitsType
<1>2. LifeOfCalls' /\ Unopened' /\ Threading' /\ EventsOnce' /\ Pipers' = Pipers
  BY DEF BInv, LifeOfCalls, Unopened, Threading, EventsOnce, Pipers
<1>3. EventsPiped' BY <1>2, SamePiped DEF SamePipers
<1>. QED BY <1>1, <1>2, <1>3 DEF BInv, Types

\* One more message to the library, or none.
LEMMA TellKinds ==
  ASSUME BInv, NEW x \in ToLib, NEW K, Tell(<<x>>)
  PROVE  /\ toLib' \in Seq(ToLib)
         /\ Has(toLib', K) <=> Has(toLib, K) \/ x.m \in K
         /\ Once(toLib, K) /\ ~(Has(toLib, K) /\ x.m \in K) => Once(toLib', K)
         /\ \A b : Carries(toLib, K, b) /\ (x.m \in K => x.of = b) => Carries(toLib', K, b)
<1>1. toLib \in Seq(ToLib) /\ <<x>> \in Seq(ToLib) BY DEF BInv, Types, SocketType
<1>2. toLib' = toLib \o <<x>> BY DEF Tell
<1>3. /\ Has(<<x>>, K) <=> x.m \in K
      /\ Once(<<x>>, K)
      /\ \A b : Carries(<<x>>, K, b) <=> (x.m \in K => x.of = b)
  BY OneKinds
<1>. QED BY <1>1, <1>2, <1>3, ConcatKinds

\* ocse takes a message: it passes it back, or not, and there is one less, or none.
LEMMA TakesKinds ==
  ASSUME BInv, OcseTakes
  PROVE  /\ toOcse # <<>> /\ Head(toOcse) \in ToOcse /\ ~ocse.gone
         /\ toOcse' = IF Head(toOcse).m = "DETACH" THEN <<>> ELSE Tail(toOcse)
         /\ OcseType' /\ ocse'.lost = ocse.lost
         /\ ocse'.gone <=> Head(toOcse).m = "DETACH"
         /\ ocse'.mem = IF Head(toOcse).m \in Acks THEN "none" ELSE ocse.mem
         /\ \/ toLib' = toLib /\ ocse'.access = ocse.access /\ Head(toOcse).m \notin {"DETACH", "QUERY", "open", "attach"}
            \/ toLib' = toLib /\ ocse'.access = Head(toOcse) /\ Head(toOcse).m \in {"mmio", "mem"}
            \/ Tell(<<Head(toOcse)>>) /\ ocse'.access = ocse.access
         /\ UNCHANGED <<afu, req, thr, psl, waits, made>>
<1>1. toOcse \in Seq(ToOcse) /\ toLib \in Seq(ToLib) /\ OcseType BY DEF BInv, Types, SocketType
<1>2. toOcse # <<>> /\ ~ocse.gone /\ UNCHANGED <<afu, req, thr, psl, waits, made>> BY DEF OcseTakes
<1>3. Head(toOcse) \in ToOcse BY <1>1, <1>2, TailKinds
<1>. DEFINE m == Head(toOcse)
            at_once == m.m \in {"QUERY", "open", "attach", "DETACH"} \/ m.of.op = "map"
            at == ocse.attached \/ m.m = "attach"
            ac == IF m.m \in {"mmio", "mem"} /\ ~at_once THEN m ELSE ocse.access
            me == IF m.m \in {"SUCCESS", "FAILURE"} THEN "none" ELSE ocse.mem
            go == m.m = "DETACH"
<1>4. /\ ocse' = [ocse EXCEPT !.gone = go, !.attached = at, !.mem = me, !.access = ac]
      /\ Tell(IF at_once THEN <<m>> ELSE <<>>)
      /\ toOcse' = IF m.m = "DETACH" THEN <<>> ELSE Tail(toOcse)
  BY DEF OcseTakes
<1>5. at_once => Tell(<<m>>) BY <1>4
<1>6. ~at_once => toLib' = toLib BY <1>1, <1>4 DEF Tell
<1>7. at \in BOOLEAN /\ go \in BOOLEAN /\ ac \in Accesses \cup {Nothing} /\ me \in {"none", "good", "bad", "amo"}
  BY <1>1, <1>3 DEF OcseType, ToOcse, Accesses
<1>8. me = IF m.m \in Acks THEN "none" ELSE ocse.mem BY DEF Acks
<1>9. /\ m.m \in {"mmio", "mem"} /\ ~at_once => ac = m
      /\ ~(m.m \in {"mmio", "mem"} /\ ~at_once) => ac = ocse.access
  OBVIOUS
<1>10. go <=> m.m = "DETACH" OBVIOUS
<1>11. at_once \/ m.m \notin {"DETACH", "QUERY", "open", "attach"} OBVIOUS
<1>. HIDE DEF at, ac, me, go, at_once
<1>12. OcseType' BY <1>1, <1>4, <1>7 DEF OcseType
<1>13. ocse'.lost = ocse.lost /\ ocse'.gone = go /\ ocse'.access = ac /\ ocse'.mem = me
  BY <1>1, <1>4 DEF OcseType
<1>14. \/ toLib' = toLib /\ ac = ocse.access /\ m.m \notin {"DETACH", "QUERY", "open", "attach"}
       \/ toLib' = toLib /\ ac = m /\ m.m \in {"mmio", "mem"}
       \/ Tell(<<m>>) /\ ac = ocse.access
  BY <1>5, <1>6, <1>9, <1>11
<1>. HIDE DEF m
<1>. QED BY <1>2, <1>3, <1>4, <1>8, <1>10, <1>12, <1>13, <1>14 DEF m

\* Whatever ocse does keeps BInv.
LEMMA OcseBase == ASSUME BInv, Ocse PROVE BInv'
<1>. DEFINE M == {"MEM"}
<1>0. toOcse \in Seq(ToOcse) /\ toLib \in Seq(ToLib) /\ OcseType /\ MemoryOnce BY DEF BInv, Types, SocketType
<1>1. CASE OcseTakes
  <2>. DEFINE h == Head(toOcse)
  <2>1. /\ toOcse # <<>> /\ h \in ToOcse /\ ~ocse.gone
        /\ toOcse' = IF h.m = "DETACH" THEN <<>> ELSE Tail(toOcse)
        /\ OcseType' /\ (ocse'.gone <=> h.m = "DETACH")
        /\ ocse'.mem = IF h.m \in Acks THEN "none" ELSE ocse.mem
        /\ toLib' = toLib \/ Tell(<<h>>)
        /\ UNCHANGED <<afu, req, thr, psl, waits, made>>
    BY <1>1, TakesKinds
  <2>2. /\ Tail(toOcse) \in Seq(ToOcse)
        /\ Has(toOcse, Acks) <=> h.m \in Acks \/ Has(Tail(toOcse), Acks)
        /\ Once(toOcse, Acks) => Once(Tail(toOcse), Acks)
        /\ Once(toOcse, Acks) /\ h.m \in Acks => ~Has(Tail(toOcse), Acks)
    BY <1>0, <2>1, TailKinds
  <2>. HIDE DEF h
  <2>3. toOcse' \in Seq(ToOcse) BY <2>1, <2>2
  <2>4. h \in ToLib /\ h.m \notin M BY <2>1 DEF ToLib, ToOcse, Requests
  <2>5. /\ toLib' \in Seq(ToLib) /\ (Has(toLib', M) <=> Has(toLib, M))
        /\ Once(toLib, M) => Once(toLib', M)
        /\ \A b : Carries(toLib, M, b) => Carries(toLib', M, b)
    <3>1. CASE toLib' = toLib BY <1>0, <3>1
    <3>2. CASE Tell(<<h>>) BY <2>4, <3>2, TellKinds
    <3>. QED BY <2>1, <3>1, <3>2
  <2>6. MemoryOnce'
    <3>. SUFFICES ASSUME ~ocse'.gone PROVE MemoryOnce' BY DEF MemoryOnce
    <3>0. toOcse' = Tail(toOcse) BY <2>1
    <3>1. CASE h.m \in Acks
      <4>1. ocse'.mem = "none" BY <2>1, <3>1
      <4>2. Has(toOcse, Acks) BY <2>2, <3>1
      <4>3. ocse.mem \in {"good", "bad"} BY <1>0, <2>1, <4>2 DEF MemoryOnce, OcseType
      <4>4. ~Has(toLib, M) /\ Once(toOcse, Acks) BY <1>0, <2>1, <4>2, <4>3 DEF MemoryOnce
      <4>5. ~Has(toLib', M) /\ ~Has(toOcse', Acks) BY <2>2, <2>5, <3>0, <3>1, <4>4
      <4>6. Carries(toLib', M, ocse'.mem) BY <4>5 DEF Has, Carries
      <4>. QED BY <4>1, <4>5, <4>6 DEF MemoryOnce
    <3>2. CASE h.m \notin Acks
      <4>1. ocse'.mem = ocse.mem BY <2>1, <3>2
      <4>2. (Has(toOcse', Acks) <=> Has(toOcse, Acks)) /\ (Once(toOcse, Acks) => Once(toOcse', Acks))
        BY <2>2, <3>0, <3>2
      <4>. QED BY <1>0, <2>1, <2>5, <4>1, <4>2 DEF MemoryOnce
    <3>. QED BY <3>1, <3>2
  <2>. QED BY <2>1, <2>3, <2>5, <2>6, OcseFrame DEF SocketType
<1>2. ASSUME NEW x \in ToLib, x.m # "MEM", Tell(<<x>>), OcseType', ocse'.gone = ocse.gone, ocse'.mem = ocse.mem,
             UNCHANGED <<afu, req, thr, psl, waits, made, toOcse>>
      PROVE  BInv'
  <2>1. /\ toLib' \in Seq(ToLib) /\ (Has(toLib', M) <=> Has(toLib, M))
        /\ Once(toLib, M) => Once(toLib', M)
        /\ \A b : Carries(toLib, M, b) => Carries(toLib', M, b)
    BY <1>2, TellKinds
  <2>2. MemoryOnce' BY <1>0, <1>2, <2>1 DEF MemoryOnce
  <2>. QED BY <1>0, <1>2, <2>1, <2>2, OcseFrame DEF SocketType
<1>3. CASE OcseAnswers
  <2>. DEFINE x == ocse.access
  <2>1. x # Nothing /\ Tell(<<x>>) /\ ocse' = [ocse EXCEPT !.access = Nothing] /\ UNCHANGED <<afu, req, thr, psl, waits, made, toOcse>>
    BY <1>3 DEF OcseAnswers
  <2>2. x \in ToOcse BY <1>0, <2>1 DEF OcseType, Accesses, ToOcse, Requests
  <2>. HIDE DEF x
  <2>3. x \in ToLib /\ x.m # "MEM" BY <2>2 DEF ToLib, ToOcse, Requests
  <2>4. OcseType' /\ ocse'.gone = ocse.gone /\ ocse'.mem = ocse.mem BY <1>0, <2>1 DEF OcseType
  <2>. QED BY <1>2, <2>1, <2>3, <2>4
<1>4. CASE OcseInterrupts
  <2>1. Signal("INTERRUPT") \in ToLib /\ Signal("INTERRUPT").m # "MEM" BY BodyTypes DEF Signal, Msg, ToLib
  <2>. QED BY <1>0, <1>2, <1>4, <2>1 DEF OcseInterrupts, OcseType
<1>5. ASSUME NEW t \in Threads, OcseWakes(t) PROVE BInv'
  <2>1. Wake(t) \in ToLib /\ Wake(t).m # "MEM" BY DEF Wake, ToLib
  <2>. QED BY <1>0, <1>2, <1>5, <2>1 DEF OcseWakes, OcseType
<1>6. CASE OcseLost
  <2>1. ocse' = [ocse EXCEPT !.gone = TRUE, !.lost = TRUE] /\ toOcse' = <<>> /\ toLib' \in {toLib, <<>>}
        /\ UNCHANGED <<afu, req, thr, psl, waits, made>>
    BY <1>6 DEF OcseLost
  <2>2. SocketType' /\ OcseType'
    <3>1. OcseType' BY <1>0, <2>1 DEF OcseType
    <3>2. <<>> \in Seq(ToOcse) /\ <<>> \in Seq(ToLib) OBVIOUS
    <3>. QED BY <1>0, <2>1, <3>1, <3>2, Zenon DEF SocketType
  <2>3. MemoryOnce' BY <1>0, <2>1 DEF MemoryOnce, OcseType
  <2>. QED BY <2>1, <2>2, <2>3, OcseFrame
<1>7. ASSUME NEW k \in {"good", "bad", "amo"}, OcseMemory(k) PROVE BInv'
  <2>. DEFINE x == Msg("MEM", k)
  <2>1. /\ ~ocse.gone /\ ocse.mem = "none" /\ Tell(<<x>>) /\ ocse' = [ocse EXCEPT !.mem = k]
        /\ UNCHANGED <<afu, req, thr, psl, waits, made, toOcse>>
    BY <1>7 DEF OcseMemory
  <2>2. x \in ToLib /\ x.m \in M /\ x.of = k BY DEF Msg, ToLib
  <2>. HIDE DEF x
  <2>3. ~Has(toLib, M) /\ ~Has(toOcse, Acks) BY <1>0, <2>1 DEF MemoryOnce
  <2>4. Once(toLib, M) /\ Carries(toLib, M, k) /\ Once(toOcse, Acks) BY <2>3 DEF Has, Once, Carries
  <2>5. toLib' \in Seq(ToLib) /\ Has(toLib', M) /\ Once(toLib', M) /\ Carries(toLib', M, k)
    BY <2>1, <2>2, <2>3, <2>4, TellKinds
  <2>6. OcseType' /\ ocse'.mem = k BY <1>0, <2>1 DEF OcseType
  <2>7. MemoryOnce' BY <2>1, <2>3, <2>4, <2>5, <2>6 DEF MemoryOnce
  <2>. QED BY <1>0, <2>1, <2>5, <2>6, <2>7, OcseFrame DEF SocketType
<1>. QED BY <1>1, <1>3, <1>4, <1>5, <1>6, <1>7 DEF Ocse

-----------------------------------------------------------------------------
(***************************************************************************)
(* BInv is an invariant, and what it gives.                                *)
(***************************************************************************)
LEMMA BaseStep == BInv /\ [Next]_vars => BInv'
<1>. SUFFICES ASSUME BInv, [Next]_vars PROVE BInv' OBVIOUS
<1>1. CASE UNCHANGED vars
  <2>1. UNCHANGED <<afu, req, thr, psl, waits, made>> /\ UNCHANGED <<toOcse, toLib, ocse>> BY <1>1 DEF vars
  <2>. QED BY <2>1, SameSockets, OcseFrame
<1>2. CASE \E t \in Threads : Starting(t) \/ Continuing(t) BY <1>2, StartingBase, ContinuingBase
<1>3. CASE psl_loop BY <1>3, PslSendsBase, PslReadsBase DEF psl_loop
<1>4. CASE Ocse BY <1>4, OcseBase
<1>. QED BY <1>1, <1>2, <1>3, <1>4 DEF Next

\* BInv holds in every state, with any calls of any threads, also of several
\* that make requests at the same time.
THEOREM BaseInvariant == Spec => []BInv
BY BaseInit, BaseStep, PTL DEF Spec

\* The pipe the application selects on has one byte for each event in the queue
\* and one more for each thread that is reading an event, with any number of
\* threads that do, whatever ocse sends and whenever it goes away.
THEOREM EventsCorrect == Spec => []EventsPiped
<1>1. BInv => EventsPiped BY DEF BInv
<1>. QED BY <1>1, BaseInvariant, PTL

\* A message of a kind is there once.
LEMMA OnceCounts ==
  ASSUME NEW S, NEW s \in Seq(S), NEW K
  PROVE  /\ ~Has(s, K) => Cardinality({i \in DOMAIN s : s[i].m \in K}) = 0
         /\ Has(s, K) /\ Once(s, K) => Cardinality({i \in DOMAIN s : s[i].m \in K}) = 1
<1>. DEFINE I == {i \in DOMAIN s : s[i].m \in K}
<1>1. ~Has(s, K) => I = {} BY DEF Has
<1>2. Has(s, K) /\ Once(s, K) => \E i : I = {i} BY DEF Has, Once
<1>. HIDE DEF I
<1>3. ~Has(s, K) => Cardinality(I) = 0 BY <1>1, FS_EmptySet
<1>4. Has(s, K) /\ Once(s, K) => Cardinality(I) = 1 BY <1>2, FS_Singleton
<1>. QED BY <1>3, <1>4 DEF I

\* While it is there, ocse gets one answer for each command it passes to the
\* application, and none it did not ask for, with any calls of any threads.
THEOREM AnswersOnce == Spec => []OneAnswer
<1>1. ASSUME BInv PROVE OneAnswer
  <2>. DEFINE A == {i \in DOMAIN toLib : toLib[i].m \in {"MEM"}}
              T == {i \in DOMAIN toOcse : toOcse[i].m \in Acks}
  <2>1. toOcse \in Seq(ToOcse) /\ toLib \in Seq(ToLib) /\ MemoryOnce BY <1>1 DEF BInv, Types, SocketType
  <2>2. /\ ~Has(toLib, {"MEM"}) => Cardinality(A) = 0
        /\ Has(toLib, {"MEM"}) /\ Once(toLib, {"MEM"}) => Cardinality(A) = 1
        /\ ~Has(toOcse, Acks) => Cardinality(T) = 0
        /\ Has(toOcse, Acks) /\ Once(toOcse, Acks) => Cardinality(T) = 1
    BY <2>1, OnceCounts
  <2>3. {i \in DOMAIN toLib : toLib[i].m = "MEM"} = A /\ {i \in DOMAIN toOcse : toOcse[i].m \in {"SUCCESS", "FAILURE"}} = T
    BY DEF Acks
  <2>. DEFINE a == Cardinality(A)
              k == Cardinality(T)
  <2>4. OneAnswer <=> (~ocse.gone => /\ ocse.mem = "none" => a + k = 0
                                     /\ ocse.mem \in {"good", "bad"} => a + k = 1
                                     /\ ocse.mem = "amo" => k = 0)
    BY <2>3 DEF OneAnswer
  <2>. HIDE DEF a, k
  <2>5. /\ ~Has(toLib, {"MEM"}) => a = 0
        /\ Has(toLib, {"MEM"}) /\ Once(toLib, {"MEM"}) => a = 1
        /\ ~Has(toOcse, Acks) => k = 0
        /\ Has(toOcse, Acks) /\ Once(toOcse, Acks) => k = 1
    BY <2>2 DEF a, k
  <2>. QED BY <2>1, <2>4, <2>5 DEF MemoryOnce
<1>. QED BY <1>1, BaseInvariant, PTL

-----------------------------------------------------------------------------
(***************************************************************************)
(* Requests: a struct is used by one thread, and what is under way for it. *)
(***************************************************************************)
LEMMA OneUser ==
  ASSUME OneCaller, BInv, NEW r \in Requests, NEW t \in Threads, NEW u \in Threads, Using(u, r),
         Using(t, r) \/ (MayCall[t] \cap UsedBy[r] # {})
  PROVE  t = u
<1>1. "none" \notin UsedBy[r] BY DEF UsedBy, Requests
<1>2. MayCall[u] \cap UsedBy[r] # {} BY <1>1 DEF Using, BInv, Threading
<1>3. MayCall[t] \cap UsedBy[r] # {} BY <1>1 DEF Using, BInv, Threading
<1>. QED BY <1>2, <1>3 DEF OneCaller

\* A call uses one request struct.
LEMMA OneUse ==
  ASSUME NEW r \in Requests, NEW q \in Requests, NEW c, c \in UsedBy[r], c \in UsedBy[q] PROVE r = q
BY DEF UsedBy, Requests

NoneUnderWay(r) == ~Has(toOcse, {r}) /\ ~Has(toLib, {r}) /\ ~Accessed(r)

\* Nothing is under way for a request that is not PENDING.
LEMMA IdleNone ==
  ASSUME RInv, NEW r \in Requests, req[r].state # "PENDING" PROVE NoneUnderWay(r)
BY DEF RInv, Tokens, Token, NoneUnderWay

\* A request for which nothing is under way needs no token.
LEMMA NoneToken == ASSUME NEW r, NoneUnderWay(r)' PROVE Token(r)'
BY DEF NoneUnderWay, Token, Has, Once, Carries

\* A step that touches neither the sockets nor ocse keeps the token of a request.
LEMMA SameToken ==
  ASSUME RInv, NEW r \in Requests, UNCHANGED <<toOcse, toLib, ocse>>
  PROVE  /\ NoneUnderWay(r) => Token(r)'
         /\ req'[r].body = req[r].body /\ req'[r].state = req[r].state => Token(r)'
<1>1. NoneUnderWay(r) => NoneUnderWay(r)' BY DEF NoneUnderWay, Accessed
<1>2. req'[r].body = req[r].body /\ req'[r].state = req[r].state => Token(r)'
  BY DEF RInv, Tokens, Token, Accessed
<1>. QED BY <1>1, <1>2, NoneToken

\* No thread uses a request that a thread which is not in a call may use: it is IDLE.
LEMMA FreeIsIdle ==
  ASSUME OneCaller, RInv, NEW r \in Requests, NEW t \in Threads, thr[t].call = "none",
         MayCall[t] \cap UsedBy[r] # {}
  PROVE  req[r].state = "IDLE"
<1>1. ASSUME NEW u \in Threads, Using(u, r) PROVE FALSE
  <2>1. t = u BY <1>1, OneUser DEF RInv
  <2>. QED BY <1>1, <2>1 DEF Using, UsedBy, Requests
<1>. QED BY <1>1 DEF RInv, Owned

\* What a step that leaves the sockets alone keeps when the requests stay as
\* they are: no thread starts or ends a call that uses one.
LEMMA RequestsSame ==
  ASSUME RInv, UNCHANGED <<req, toOcse, toLib, ocse, psl>>, Closes => Closes',
         \A u \in Threads : /\ \A r \in Requests : Using(u, r) => Using(u, r)'
                            /\ thr'[u].at = "unserved" => thr[u].at = "unserved"
  PROVE  Owned' /\ Filled' /\ Tokens' /\ IdleIsAnswered' /\ Detaching' /\ OkIsAnswered'
<1>1. Owned' BY DEF RInv, Owned
<1>2. Filled' /\ IdleIsAnswered' BY DEF RInv, Filled, IdleIsAnswered
<1>3. Tokens' BY SameToken DEF Tokens
<1>4. Detaching' BY DEF RInv, Detaching
<1>5. OkIsAnswered' BY DEF RInv, OkIsAnswered
<1>. QED BY <1>1, <1>2, <1>3, <1>4, <1>5

\* A request is filled: by a thread that uses it, and it was IDLE.
LEMMA AskKeeps ==
  ASSUME RInv, NEW t \in Threads, NEW r \in {"attach", "mmio", "mem"}, NEW b \in Bodies, NEW c \in UsedBy[r],
         Asks(r, b), req[r].state = "IDLE", thr[t].call \in {"none", c},
         r = "mmio" => b.area # "none", r = "attach" => b.op = "attach",
         \A u \in Threads : thr'[u].call = IF u = t THEN c ELSE thr[u].call,
         \A u \in Threads : thr'[u].at = IF u = t THEN "spin" ELSE thr[u].at,
         UNCHANGED <<afu, psl, toOcse, toLib, ocse>>
  PROVE  Owned' /\ Filled' /\ Tokens' /\ IdleIsAnswered' /\ Detaching' /\ OkIsAnswered'
<1>0. r \in Requests /\ req \in [Requests -> Reqs] BY DEF Requests, RInv, BInv, Types, ReqType
<1>1. /\ req'[r].state = "REQUEST" /\ req'[r].body = b
      /\ \A q \in Requests : q # r => req'[q] = req[q]
  BY <1>0 DEF Asks
<1>2. Owned'
  <2>1. Using(t, r)' BY DEF Using
  <2>2. ASSUME NEW q \in Requests, q # r, req'[q].state # "IDLE" PROVE \E u \in Threads : Using(u, q)'
    <3>1. PICK u \in Threads : Using(u, q) BY <1>1, <2>2 DEF RInv, Owned
    <3>2. "none" \notin UsedBy[q] BY DEF UsedBy, Requests
    <3>3. u # t BY <1>0, <2>2, <3>1, <3>2, OneUse DEF Using
    <3>. QED BY <3>1, <3>3 DEF Using
  <2>. QED BY <2>1, <2>2 DEF Owned
<1>3. Filled' BY <1>1 DEF RInv, Filled, Requests
<1>4. Tokens'
  <2>1. NoneUnderWay(r) BY <1>0, IdleNone
  <2>2. Token(r)' BY <1>0, <2>1, SameToken
  <2>3. \A q \in Requests : q # r => Token(q)' BY <1>1, SameToken
  <2>. QED BY <2>2, <2>3 DEF Tokens
<1>5. IdleIsAnswered' BY <1>1 DEF RInv, IdleIsAnswered
<1>6. Detaching' BY DEF RInv, Detaching, Closes
<1>7. OkIsAnswered' BY DEF RInv, OkIsAnswered
<1>. QED BY <1>2, <1>3, <1>4, <1>5, <1>6, <1>7

\* A call that used a request ends, and the request is IDLE.
LEMMA EndKeeps ==
  ASSUME OneCaller, RInv, NEW t \in Threads, NEW r \in Requests, Using(t, r), req[r].state = "IDLE",
         Ends(t, r) \/ EndsOk(t, r), UNCHANGED <<psl, toOcse, toLib, ocse>>, ~Closes
  PROVE  Owned' /\ Filled' /\ Tokens' /\ IdleIsAnswered' /\ Detaching' /\ OkIsAnswered'
<1>0. req \in [Requests -> Reqs] /\ BInv BY DEF RInv, BInv, Types, ReqType
<1>1. /\ req' = [req EXCEPT ![r] = NoReq]
      /\ \A u \in Threads : thr'[u].call = IF u = t THEN "none" ELSE thr[u].call
      /\ \A u \in Threads : u # t => thr'[u].at = thr[u].at
      /\ thr'[t].at = "unserved" => req[r].got # req[r].body
  BY <1>0, EndsStep
<1>2. /\ req'[r].state = "IDLE" /\ req'[r].got = req'[r].body
      /\ \A q \in Requests : q # r => req'[q] = req[q]
  BY <1>0, <1>1 DEF NoReq
<1>3. Owned'
  <2>1. ASSUME NEW q \in Requests, q # r, req'[q].state # "IDLE" PROVE \E u \in Threads : Using(u, q)'
    <3>1. PICK u \in Threads : Using(u, q) BY <1>2, <2>1 DEF RInv, Owned
    <3>2. u # t BY <2>1, <3>1, OneUse DEF Using
    <3>. QED BY <3>1, <3>2, <1>1 DEF Using
  <2>. QED BY <1>2, <2>1 DEF Owned
<1>4. Filled' BY <1>2 DEF RInv, Filled, Requests
<1>5. Tokens'
  <2>1. NoneUnderWay(r) BY IdleNone
  <2>2. Token(r)' BY <2>1, SameToken
  <2>3. \A q \in Requests : q # r => Token(q)' BY <1>2, SameToken
  <2>. QED BY <2>2, <2>3 DEF Tokens
<1>6. IdleIsAnswered' BY <1>2 DEF RInv, IdleIsAnswered
<1>7. Detaching' BY DEF RInv, Detaching
<1>8. OkIsAnswered' BY <1>1 DEF RInv, OkIsAnswered, IdleIsAnswered
<1>. QED BY <1>3, <1>4, <1>5, <1>6, <1>7, <1>8

\* The count of areas is left alone and no thread starts to map one.
LEMMA MapSame ==
  ASSUME RInv, afu'.count = afu.count, afu'.max = afu.max,
         \A u \in Threads : thr'[u].call = "map" => thr[u].call = "map"
  PROVE  MapCount'
BY DEF RInv, MapCount

RParts == Owned /\ Filled /\ Tokens /\ IdleIsAnswered /\ Detaching /\ MapCount /\ OkIsAnswered

\* A call that fills a request.
LEMMA StartAsks ==
  ASSUME OneCaller, RInv, NEW t \in Threads, NEW r \in {"attach", "mmio", "mem"}, NEW b \in Bodies,
         NEW c \in UsedBy[r], NEW body \in Bodies, Starts(t, c, "spin", body), Asks(r, b),
         r = "mmio" => b.area # "none", r = "attach" => b.op = "attach",
         c = "map" => body.area \in Areas /\ afu.count # afu.max, UNCHANGED <<afu, psl, toOcse, toLib, ocse>>
  PROVE  RParts'
<1>0. r \in Requests /\ c \in Calls /\ c \notin {"open", "close", "wait"} BY DEF Requests, UsedBy, Calls
<1>1. /\ \A u \in Threads : thr'[u].call = IF u = t THEN c ELSE thr[u].call
      /\ \A u \in Threads : thr'[u].at = IF u = t THEN "spin" ELSE thr[u].at
      /\ c \in MayCall[t] /\ thr[t].call = "none"
  BY <1>0, CallStarts DEF Places, RInv
<1>2. req[r].state = "IDLE" BY <1>0, <1>1, FreeIsIdle
<1>3. Owned' /\ Filled' /\ Tokens' /\ IdleIsAnswered' /\ Detaching' /\ OkIsAnswered'
  BY <1>1, <1>2, AskKeeps
<1>4. MapCount'
  <2>1. afu \in Afus BY DEF RInv, BInv, Types, AfuType
  <2>2. CASE c = "map"
    <3>1. afu.count < afu.max BY <2>1, <2>2 DEF RInv, MapCount, Afus
    <3>. QED BY <1>1, <3>1 DEF RInv, MapCount
  <2>3. CASE c # "map" BY <1>1, <2>3, MapSame
  <2>. QED BY <2>2, <2>3
<1>. QED BY <1>3, <1>4 DEF RParts

\* The start of a call keeps the invariant of the requests.
LEMMA StartingRequests == ASSUME OneCaller, RInv, NEW t \in Threads, Starting(t) PROVE RParts'
<1>0. BInv /\ afu \in Afus /\ req \in [Requests -> Reqs] BY DEF RInv, BInv, Types, AfuType, ReqType
<1>1. CASE ocxl_afu_open(t)
  <2>. DEFINE q == Signal("QUERY")
              o == Msg("open", Plain("open"))
              v == <<q, o>>
  <2>1. /\ afu.life = "none" /\ ~ocse.gone /\ t = Main /\ afu' = [AfuInit EXCEPT !.life = "opening"]
        /\ req' = [req EXCEPT !["open"] = [state |-> "PENDING", body |-> Plain("open"), got |-> Nothing]]
        /\ toOcse' = toOcse \o v /\ UNCHANGED <<toLib, ocse>> /\ psl' = [psl EXCEPT !.at = "start"]
        /\ Starts(t, "open", "spin", Plain("open"))
    BY <1>1 DEF ocxl_afu_open, Put
  <2>2. /\ \A u \in Threads : thr'[u].call = IF u = t THEN "open" ELSE thr[u].call
        /\ \A u \in Threads : thr'[u].at = IF u = t THEN "spin" ELSE thr[u].at
        /\ "open" \in MayCall[t] /\ thr[t].call = "none"
    BY <1>0, <2>1, CallStarts, BodyTypes DEF Calls, Places
  <2>3. \A u \in Threads : thr[u].call = "none" BY <2>1 DEF RInv, BInv, LifeOfCalls
  <2>4. \A r \in Requests : req[r].state = "IDLE"
    BY <2>3 DEF RInv, Owned, Using, UsedBy, Requests
  <2>5. /\ req'["open"].state = "PENDING" /\ req'["open"].body = Plain("open")
        /\ \A r \in Requests : r # "open" => req'[r] = req[r]
    BY <1>0, <2>1 DEF Requests
  <2>6. Owned'
    <3>1. Using(t, "open")' BY <2>2 DEF Using, UsedBy
    <3>. QED BY <2>4, <2>5, <3>1 DEF Owned
  <2>7. Filled' BY <2>4, <2>5 DEF Filled, Requests
  <2>8. IdleIsAnswered' BY <2>1, <2>5 DEF RInv, IdleIsAnswered
  <2>9. OkIsAnswered' BY <2>1, <2>2 DEF RInv, OkIsAnswered
  <2>10. MapCount'
    <3>1. afu'.count = 0 /\ afu'.max = 0 BY <2>1 DEF AfuInit
    <3>. QED BY <2>2, <2>3, <3>1 DEF MapCount
  <2>11. /\ q \in ToOcse /\ o \in ToOcse /\ q.m = "QUERY" /\ o.m = "open" /\ o.of = Plain("open")
    BY BodyTypes DEF Signal, Msg, ToOcse, Requests
  <2>. HIDE DEF q, o
  <2>12. v \in Seq(ToOcse) /\ DOMAIN v = 1 .. 2 /\ v[1] = q /\ v[2] = o /\ toOcse \in Seq(ToOcse)
    BY <1>0, <2>11 DEF BInv, Types, SocketType
  <2>13. \A i \in 1 .. 2 : i = 1 \/ i = 2 OBVIOUS
  <2>. HIDE DEF v
  <2>14. /\ \A r \in Requests \cup {"DETACH"} : Has(v, {r}) <=> r = "open"
         /\ \A r \in Requests : Once(v, {r})
         /\ Carries(v, {"open"}, Plain("open"))
    BY <2>11, <2>12, <2>13 DEF Has, Once, Carries, Requests
  <2>15. \A r \in Requests : NoneUnderWay(r) BY <2>4, IdleNone
  <2>16. Token("open")'
    <3>1. "open" \in Requests BY DEF Requests
    <3>2. ~Has(toOcse, {"open"}) /\ ~Has(toLib, {"open"}) /\ ~Accessed("open") BY <2>15, <3>1 DEF NoneUnderWay
    <3>3. Once(toOcse, {"open"}) /\ Carries(toOcse, {"open"}, Plain("open")) BY <3>2 DEF Has, Once, Carries
    <3>4. Once(toOcse', {"open"}) /\ Carries(toOcse', {"open"}, Plain("open"))
      BY <2>1, <2>12, <2>14, <3>1, <3>2, <3>3, ConcatKinds
    <3>5. ~Has(toLib', {"open"}) /\ ~Accessed("open")' BY <2>1, <3>2 DEF Accessed
    <3>6. Once(toLib', {"open"}) /\ Carries(toLib', {"open"}, Plain("open")) BY <3>5 DEF Has, Once, Carries
    <3>. QED BY <2>5, <3>4, <3>5, <3>6 DEF Token
  <2>17. ASSUME NEW r \in Requests, r # "open" PROVE Token(r)'
    <3>1. ~Has(toOcse, {r}) /\ ~Has(toLib, {r}) /\ ~Accessed(r) BY <2>15 DEF NoneUnderWay
    <3>2. ~Has(toOcse', {r}) BY <2>1, <2>12, <2>14, <2>17, <3>1, ConcatKinds
    <3>3. NoneUnderWay(r)' BY <2>1, <3>1, <3>2 DEF NoneUnderWay, Accessed
    <3>. QED BY <3>3, NoneToken
  <2>18. Tokens' BY <2>16, <2>17 DEF Tokens
  <2>19. Detaching'
    <3>1. ~Has(toOcse, {"DETACH"}) BY <2>1 DEF RInv, Detaching, Closes
    <3>2. ~Has(toOcse', {"DETACH"}) BY <2>1, <2>12, <2>14, <3>1, ConcatKinds DEF Requests
    <3>3. psl'.at = "start" BY <1>0, <2>1 DEF BInv, Types, PslType
    <3>. QED BY <2>1, <3>2, <3>3 DEF RInv, Detaching
  <2>. QED BY <2>6, <2>7, <2>8, <2>9, <2>10, <2>18, <2>19 DEF RParts
<1>2. CASE ocxl_afu_close(t)
  <2>1. /\ \A u \in Threads : thr[u].call = "none"
        /\ UNCHANGED <<req, toOcse, toLib, ocse, psl>>
        /\ afu' = [afu EXCEPT !.irq = FALSE, !.mapped = {}, !.life = IF afu.opened THEN "closing" ELSE "freed"]
        /\ Starts(t, "close", "detach", Nothing) \/ (thr' = thr /\ t = Main)
    BY <1>2 DEF ocxl_afu_close, InCall
  <2>2. \A u \in Threads : /\ thr'[u].call \in {"close", "none"}
                           /\ thr'[u].at = "unserved" => thr[u].at = "unserved"
    <3>1. CASE thr' = thr BY <2>1, <3>1
    <3>2. CASE Starts(t, "close", "detach", Nothing)
      <4>1. t = Main BY <1>2 DEF ocxl_afu_close
      <4>2. /\ \A u \in Threads : thr'[u].call = IF u = t THEN "close" ELSE thr[u].call
            /\ \A u \in Threads : thr'[u].at = IF u = t THEN "detach" ELSE thr[u].at
        BY <1>0, <3>2, <4>1, CallStarts, BodyTypes DEF Calls, Places
      <4>. QED BY <2>1, <4>2
    <3>. QED BY <2>1, <3>1, <3>2
  <2>3. afu'.life \in {"closing", "freed"} /\ afu'.count = afu.count /\ afu'.max = afu.max
    BY <1>0, <2>1 DEF Afus
  <2>4. \A u \in Threads, r \in Requests : ~Using(u, r) BY <2>1 DEF Using, UsedBy, Requests
  <2>5. Owned' /\ Filled' /\ Tokens' /\ IdleIsAnswered' /\ Detaching' /\ OkIsAnswered'
    BY <2>1, <2>2, <2>3, <2>4, RequestsSame DEF Closes
  <2>6. MapCount' BY <2>2, <2>3, MapSame
  <2>. QED BY <2>5, <2>6 DEF RParts
<1>3. CASE ocxl_afu_attach(t)
  <2>1. Plain("attach") \in Bodies /\ Nothing \in Bodies /\ Plain("attach").op = "attach" BY BodyTypes
  <2>. QED BY <1>3, <2>1, StartAsks DEF ocxl_afu_attach, UsedBy
<1>4. CASE ocxl_mmio_map(t)
  <2>1. PICK a \in Areas : Starts(t, "map", "spin", Mmio("map", a)) /\ Asks("mmio", Mmio("map", a))
    BY <1>4 DEF ocxl_mmio_map
  <2>2. Mmio("map", a) \in Bodies /\ Mmio("map", a).area = a /\ a # "none" BY BodyTypes DEF Areas
  <2>3. "map" \in UsedBy["mmio"] BY DEF UsedBy
  <2>4. afu.count # afu.max /\ UNCHANGED <<afu, psl, toOcse, toLib, ocse>> BY <1>4 DEF ocxl_mmio_map
  <2>. QED BY <2>1, <2>2, <2>3, <2>4, StartAsks
<1>5. CASE ocxl_mmio(t)
  <2>1. PICK op \in {"read", "write"}, a \in Areas : Starts(t, "mmio", "spin", Mmio(op, a)) /\ Asks("mmio", Mmio(op, a))
    <3>1. afu.mapped \subseteq Areas BY <1>0 DEF Afus
    <3>. QED BY <1>5, <3>1 DEF ocxl_mmio
  <2>2. Mmio(op, a) \in Bodies /\ Mmio(op, a).area = a /\ a # "none" BY BodyTypes DEF Areas
  <2>3. "mmio" \in UsedBy["mmio"] BY DEF UsedBy
  <2>4. UNCHANGED <<afu, psl, toOcse, toLib, ocse>> BY <1>5 DEF ocxl_mmio
  <2>. QED BY <2>1, <2>2, <2>3, <2>4, StartAsks
<1>6. CASE ocxl_lpc_map(t)
  <2>1. Plain("map") \in Bodies /\ Nothing \in Bodies BY BodyTypes
  <2>. QED BY <1>6, <2>1, StartAsks DEF ocxl_lpc_map, UsedBy
<1>7. CASE ocxl_lpc(t)
  <2>1. PICK op \in {"read", "write"}, r \in Ranges : LpcAsks(t, op, r.off, r.size) BY <1>7 DEF ocxl_lpc
  <2>2. r.off \in Nat /\ r.size \in Nat \ {0} BY LibocxlAssumption
  <2>3. "lpc" \in MayCall[t] /\ thr[t].call = "none" /\ UNCHANGED <<afu, psl, toOcse, toLib, ocse>>
    BY <1>7 DEF ocxl_lpc, InCall
  <2>4. /\ \A u \in Threads : thr'[u].call = IF u = t THEN "lpc" ELSE thr[u].call
        /\ \A u \in Threads : thr'[u].at = IF u = t THEN "spin" ELSE thr[u].at
        /\ \E b \in Bodies : Asks("mem", b)
    BY <1>0, <2>1, <2>2, <2>3, LpcAsksStep
  <2>5. "lpc" \in UsedBy["mem"] /\ "mem" \in Requests BY DEF UsedBy, Requests
  <2>6. req["mem"].state = "IDLE" BY <2>3, <2>5, FreeIsIdle
  <2>7. PICK b \in Bodies : Asks("mem", b) BY <2>4
  <2>8. Owned' /\ Filled' /\ Tokens' /\ IdleIsAnswered' /\ Detaching' /\ OkIsAnswered'
    BY <2>3, <2>4, <2>5, <2>6, <2>7, AskKeeps
  <2>9. MapCount' BY <2>3, <2>4, MapSame
  <2>. QED BY <2>8, <2>9 DEF RParts
<1>8. CASE ocxl_lpc_write_be(t)
  <2>1. PICK r \in Ranges : Starts(t, "lpc", "spin", Lpc("write_be", r.off, 64)) /\ Asks("mem", Lpc("write_be", r.off, 64))
    BY <1>8 DEF ocxl_lpc_write_be
  <2>2. r.off \in Nat BY LibocxlAssumption
  <2>3. Lpc("write_be", r.off, 64) \in Bodies BY <2>2, BodyTypes
  <2>4. "lpc" \in UsedBy["mem"] BY DEF UsedBy
  <2>5. UNCHANGED <<afu, psl, toOcse, toLib, ocse>> BY <1>8 DEF ocxl_lpc_write_be
  <2>. QED BY <2>1, <2>3, <2>4, <2>5, StartAsks
<1>9. CASE ocxl_mmio_unmap(t) \/ ocxl_lpc_unmap(t) \/ ocxl_irq_alloc(t)
  <2>1. UNCHANGED <<req, thr, psl, toOcse, toLib, ocse>> BY <1>9 DEF ocxl_mmio_unmap, ocxl_lpc_unmap, ocxl_irq_alloc
  <2>2. afu'.life = afu.life /\ afu'.count = afu.count /\ afu'.max = afu.max
    <3>1. CASE ocxl_mmio_unmap(t)
      <4>1. PICK a : afu' = [afu EXCEPT !.mapped = @ \ {a}] BY <3>1 DEF ocxl_mmio_unmap
      <4>. QED BY <1>0, <4>1 DEF Afus
    <3>2. CASE ocxl_lpc_unmap(t) BY <1>0, <3>2 DEF ocxl_lpc_unmap, Afus
    <3>3. CASE ocxl_irq_alloc(t) BY <1>0, <3>3 DEF ocxl_irq_alloc, Afus
    <3>. QED BY <1>9, <3>1, <3>2, <3>3
  <2>3. Owned' /\ Filled' /\ Tokens' /\ IdleIsAnswered' /\ Detaching' /\ OkIsAnswered'
    BY <2>1, <2>2, RequestsSame DEF Closes, Using
  <2>4. MapCount' BY <2>1, <2>2, MapSame
  <2>. QED BY <2>3, <2>4 DEF RParts
<1>10. CASE ocxl_afu_event_check(t) \/ ocxl_wait(t)
  <2>1. PICK c \in {"event", "wait"}, at \in {"spin", "scan"} : Starts(t, c, at, Nothing) /\ (c = "wait" => at = "scan")
    BY <1>10 DEF ocxl_afu_event_check, ocxl_wait
  <2>2. UNCHANGED <<afu, req, psl, toOcse, toLib, ocse>> BY <1>10 DEF ocxl_afu_event_check, ocxl_wait
  <2>3. /\ \A u \in Threads : thr'[u].call = IF u = t THEN c ELSE thr[u].call
        /\ \A u \in Threads : thr'[u].at = IF u = t THEN at ELSE thr[u].at
        /\ thr[t].call = "none"
    BY <1>0, <2>1, CallStarts, BodyTypes DEF Calls, Places
  <2>4. \A u \in Threads : /\ \A r \in Requests : Using(u, r) => Using(u, r)'
                           /\ thr'[u].at = "unserved" => thr[u].at = "unserved"
    BY <2>3 DEF Using, UsedBy, Requests
  <2>5. Owned' /\ Filled' /\ Tokens' /\ IdleIsAnswered' /\ Detaching' /\ OkIsAnswered'
    BY <2>2, <2>4, RequestsSame DEF Closes
  <2>6. MapCount' BY <2>2, <2>3, MapSame
  <2>. QED BY <2>5, <2>6 DEF RParts
<1>. QED BY <1>1, <1>2, <1>3, <1>4, <1>5, <1>6, <1>7, <1>8, <1>9, <1>10 DEF Starting

\* A step of a call that uses no request.
LEMMA OtherCall ==
  ASSUME RInv, NEW t \in Threads, thr[t].call \in {"event", "wait", "close"},
         \A u \in Threads : u # t => thr'[u] = thr[u],
         thr'[t].call \in {thr[t].call, "none"}, thr'[t].at # "unserved",
         afu'.count = afu.count, afu'.max = afu.max, Closes => Closes',
         UNCHANGED <<req, psl, toOcse, toLib, ocse>>
  PROVE  RParts'
<1>1. \A u \in Threads : /\ \A r \in Requests : Using(u, r) => Using(u, r)'
                         /\ thr'[u].at = "unserved" => thr[u].at = "unserved"
  BY DEF Using, UsedBy, Requests
<1>2. Owned' /\ Filled' /\ Tokens' /\ IdleIsAnswered' /\ Detaching' /\ OkIsAnswered' BY <1>1, RequestsSame
<1>3. \A u \in Threads : thr'[u].call = "map" => thr[u].call = "map" OBVIOUS
<1>4. MapCount' BY <1>3, MapSame
<1>. QED BY <1>2, <1>4 DEF RParts

\* A call that uses a request ends.
LEMMA EndRequests ==
  ASSUME OneCaller, RInv, NEW t \in Threads, NEW r \in Requests, Using(t, r), req[r].state = "IDLE",
         Ends(t, r) \/ EndsOk(t, r), UNCHANGED <<psl, toOcse, toLib, ocse>>,
         afu'.max = afu.max,
         afu'.count = afu.count \/ (thr[t].call = "map" /\ afu'.count = afu.count + 1)
  PROVE  RParts'
<1>0. BInv /\ afu \in Afus BY DEF RInv, BInv, Types, AfuType
<1>1. thr[t].call \notin {"none", "close"} BY DEF Using, UsedBy, Requests
<1>2. ~Closes BY <1>0, <1>1 DEF BInv, LifeOfCalls, Closes
<1>3. Owned' /\ Filled' /\ Tokens' /\ IdleIsAnswered' /\ Detaching' /\ OkIsAnswered' BY <1>2, EndKeeps
<1>4. \A u \in Threads : thr'[u].call = IF u = t THEN "none" ELSE thr[u].call BY <1>0, EndsStep
<1>5. CASE afu'.count = afu.count
  <2>1. MapCount' BY <1>4, <1>5, MapSame
  <2>. QED BY <1>3, <2>1 DEF RParts
<1>6. CASE thr[t].call = "map" /\ afu'.count = afu.count + 1
  <2>1. afu.count < afu.max BY <1>6 DEF RInv, MapCount
  <2>2. afu.count \in Nat /\ afu.max \in Nat BY <1>0 DEF Afus
  <2>3. ASSUME NEW u \in Threads, u # t, thr[u].call = "map" PROVE FALSE
    <3>1. "mmio" \in Requests /\ Using(u, "mmio") /\ Using(t, "mmio") BY <1>6, <2>3 DEF Using, UsedBy, Requests
    <3>. QED BY <1>0, <2>3, <3>1, OneUser
  <2>4. \A u \in Threads : thr'[u].call # "map" BY <1>4, <2>3
  <2>5. afu'.count <= afu'.max BY <1>6, <2>1, <2>2
  <2>. QED BY <1>3, <2>4, <2>5 DEF MapCount, RParts
<1>. QED BY <1>5, <1>6

\* The later steps of a call keep the invariant of the requests.
LEMMA ContinuingRequests == ASSUME OneCaller, RInv, NEW t \in Threads, Continuing(t) PROVE RParts'
<1>0. /\ BInv /\ afu \in Afus /\ req \in [Requests -> Reqs] /\ thr \in [Threads -> Thrs] /\ thr[t] \in Thrs
  BY DEF RInv, BInv, Types, AfuType, ReqType, ThrType
<1>00. {"open", "attach", "mmio", "mem"} = Requests BY DEF Requests
<1>1. CASE OpenReturns(t)
  <2>1. /\ Using(t, "open") /\ req["open"].state = "IDLE" /\ UNCHANGED <<psl, toOcse, toLib, ocse>>
        /\ Ends(t, "open") \/ EndsOk(t, "open")
    BY <1>1 DEF OpenReturns, Spins, Using, UsedBy
  <2>2. afu' = [afu EXCEPT !.life = "open"] \/ afu' = [afu EXCEPT !.life = "freed"] BY <1>1 DEF OpenReturns
  <2>3. afu'.count = afu.count /\ afu'.max = afu.max BY <1>0, <2>2 DEF Afus
  <2>. QED BY <1>00, <2>1, <2>3, EndRequests
<1>2. CASE CloseDetaches(t)
  <2>1. UNCHANGED <<afu, req, psl, toLib, ocse>> /\ thr[t].call = "close"
    BY <1>2 DEF CloseDetaches
  <2>2. PICK at \in {"spin", "drop"} : thr' = [thr EXCEPT ![t].at = at] /\ (Put(<<Signal("DETACH")>>) \/ toOcse' = toOcse)
    BY <1>2 DEF CloseDetaches
  <2>3. /\ \A u \in Threads : u # t => thr'[u] = thr[u]
        /\ thr'[t].call = thr[t].call /\ thr'[t].at # "unserved"
    BY <1>0, <2>2 DEF Thrs
  <2>4. CASE toOcse' = toOcse BY <2>1, <2>3, <2>4, OtherCall DEF Closes
  <2>5. CASE toOcse' # toOcse
    <3>. DEFINE x == Signal("DETACH")
    <3>1. ~ocse.gone /\ toOcse' = toOcse \o <<x>> BY <2>2, <2>5 DEF Put
    <3>2. x \in ToOcse /\ x.m = "DETACH" BY BodyTypes DEF Signal, Msg, ToOcse
    <3>. HIDE DEF x
    <3>3. toOcse \in Seq(ToOcse) /\ <<x>> \in Seq(ToOcse) BY <1>0, <3>2 DEF BInv, Types, SocketType
    <3>4. \A r \in Requests : x.m \notin {r} BY <3>2 DEF Requests
    <3>5. ASSUME NEW r \in Requests
          PROVE  /\ Has(toOcse', {r}) <=> Has(toOcse, {r})
                 /\ Once(toOcse, {r}) => Once(toOcse', {r})
                 /\ \A b : Carries(toOcse, {r}, b) => Carries(toOcse', {r}, b)
      <4>1. ~Has(<<x>>, {r}) /\ Once(<<x>>, {r}) /\ \A b : Carries(<<x>>, {r}, b) BY <3>4, OneKinds
      <4>. QED BY <3>1, <3>3, <4>1, ConcatKinds
    <3>6. Tokens' BY <2>1, <3>5 DEF RInv, Tokens, Token, Accessed
    <3>7. Closes BY <1>0, <2>1 DEF BInv, LifeOfCalls, Closes, Afus
    <3>8. Detaching' BY <2>1, <3>1, <3>7 DEF RInv, Detaching, Closes
    <3>9. Owned' BY <2>1, <2>3 DEF RInv, Owned, Using, UsedBy, Requests
    <3>10. Filled' /\ IdleIsAnswered' BY <2>1 DEF RInv, Filled, IdleIsAnswered
    <3>11. OkIsAnswered' BY <2>1, <2>3 DEF RInv, OkIsAnswered
    <3>12. MapCount' BY <2>1, <2>3, MapSame
    <3>. QED BY <3>6, <3>8, <3>9, <3>10, <3>11, <3>12 DEF RParts
  <2>. QED BY <2>4, <2>5
<1>3. CASE CloseDrops(t)
  <2>1. /\ UNCHANGED <<req, psl, toOcse, toLib, ocse>> /\ thr[t].call = "close"
        /\ afu' = [afu EXCEPT !.opened = FALSE] /\ thr' = [thr EXCEPT ![t].at = "join"]
    BY <1>3 DEF CloseDrops
  <2>2. /\ \A u \in Threads : u # t => thr'[u] = thr[u]
        /\ thr'[t].call = thr[t].call /\ thr'[t].at # "unserved"
    BY <1>0, <2>1 DEF Thrs
  <2>3. afu'.count = afu.count /\ afu'.max = afu.max /\ afu'.life = afu.life BY <1>0, <2>1 DEF Afus
  <2>. QED BY <2>1, <2>2, <2>3, OtherCall DEF Closes
<1>4. CASE CloseReturns(t)
  <2>1. /\ UNCHANGED <<req, psl, toOcse, toLib, ocse>> /\ thr[t].call = "close"
        /\ afu' = [afu EXCEPT !.life = "freed"] /\ thr' = [thr EXCEPT ![t] = Idle]
    BY <1>4 DEF CloseReturns, Returns
  <2>2. /\ \A u \in Threads : u # t => thr'[u] = thr[u]
        /\ thr'[t].call = "none" /\ thr'[t].at # "unserved"
    BY <1>0, <2>1 DEF Idle
  <2>3. afu'.count = afu.count /\ afu'.max = afu.max /\ afu'.life = "freed" BY <1>0, <2>1 DEF Afus
  <2>. QED BY <2>1, <2>2, <2>3, OtherCall DEF Closes
<1>5. CASE AttachReturns(t)
  <2>1. /\ Using(t, "attach") /\ req["attach"].state = "IDLE" /\ UNCHANGED <<psl, toOcse, toLib, ocse>>
        /\ EndsOk(t, "attach") /\ afu' = [afu EXCEPT !.attached = TRUE]
    BY <1>5 DEF AttachReturns, Spins, Using, UsedBy
  <2>2. afu'.count = afu.count /\ afu'.max = afu.max BY <1>0, <2>1 DEF Afus
  <2>. QED BY <1>00, <2>1, <2>2, EndRequests
<1>6. CASE MapReturns(t)
  <2>1. /\ Using(t, "mmio") /\ req["mmio"].state = "IDLE" /\ UNCHANGED <<psl, toOcse, toLib, ocse>>
        /\ EndsOk(t, "mmio") /\ thr[t].call = "map"
        /\ afu' = [afu EXCEPT !.mapped = @ \cup {thr[t].body.area}, !.count = @ + 1]
    BY <1>6 DEF MapReturns, Spins, Using, UsedBy
  <2>2. afu'.count = afu.count + 1 /\ afu'.max = afu.max BY <1>0, <2>1 DEF Afus
  <2>. QED BY <1>00, <2>1, <2>2, EndRequests
<1>7. CASE MmioReturns(t)
  <2>1. /\ Using(t, "mmio") /\ req["mmio"].state = "IDLE" /\ UNCHANGED <<afu, psl, toOcse, toLib, ocse>>
        /\ Ends(t, "mmio") \/ EndsOk(t, "mmio")
    BY <1>7 DEF MmioReturns, Spins, Using, UsedBy
  <2>. QED BY <1>00, <2>1, EndRequests
<1>8. CASE LpcMapReturns(t)
  <2>1. /\ Using(t, "mem") /\ req["mem"].state = "IDLE" /\ UNCHANGED <<psl, toOcse, toLib, ocse>>
        /\ EndsOk(t, "mem") /\ afu' = [afu EXCEPT !.lpc = TRUE]
    BY <1>8 DEF LpcMapReturns, Spins, Using, UsedBy
  <2>2. afu'.count = afu.count /\ afu'.max = afu.max BY <1>0, <2>1 DEF Afus
  <2>. QED BY <1>00, <2>1, <2>2, EndRequests
<1>9. CASE LpcReturns(t)
  <2>1. /\ Using(t, "mem") /\ req["mem"].state = "IDLE" /\ UNCHANGED <<afu, psl, toOcse, toLib, ocse>>
        /\ thr[t].call = "lpc"
    BY <1>9 DEF LpcReturns, Spins, Using, UsedBy
  <2>2. CASE Ends(t, "mem") \/ EndsOk(t, "mem") BY <1>00, <2>1, <2>2, EndRequests
  <2>3. CASE thr[t].left > 0 /\ LpcAsks(t, thr[t].body.op, thr[t].body.addr + thr[t].body.size, thr[t].left)
    <3>. DEFINE b == thr[t].body
    <3>1. b \in Bodies /\ thr[t].left \in Nat \ {0} BY <1>0, <2>3 DEF Thrs
    <3>2. b.op \in {"none", "open", "attach", "map", "read", "write", "write_be"} /\ b.addr + b.size \in Nat
      BY <3>1 DEF Bodies
    <3>3. "lpc" \in MayCall[t] BY <1>0, <2>1 DEF BInv, Threading
    <3>. HIDE DEF b
    <3>4. /\ \A u \in Threads : thr'[u].call = IF u = t THEN "lpc" ELSE thr[u].call
          /\ \A u \in Threads : thr'[u].at = IF u = t THEN "spin" ELSE thr[u].at
          /\ \E d \in Bodies : Asks("mem", d)
      BY <1>0, <2>3, <3>1, <3>2, <3>3, LpcAsksStep DEF b
    <3>5. PICK d \in Bodies : Asks("mem", d) BY <3>4
    <3>6. "lpc" \in UsedBy["mem"] BY DEF UsedBy
    <3>7. Owned' /\ Filled' /\ Tokens' /\ IdleIsAnswered' /\ Detaching' /\ OkIsAnswered'
      BY <2>1, <3>4, <3>5, <3>6, AskKeeps
    <3>8. MapCount' BY <2>1, <3>4, MapSame
    <3>. QED BY <3>7, <3>8 DEF RParts
  <2>. QED BY <1>9, <2>2, <2>3 DEF LpcReturns
<1>10. CASE EventTaken(t)
  <2>1. UNCHANGED <<req, psl, toOcse, toLib, ocse>> /\ thr[t].call = "event"
    BY <1>10 DEF EventTaken, Spins
  <2>2. PICK at \in {"pipe", "crash"} : thr' = [thr EXCEPT ![t].at = at] BY <1>10 DEF EventTaken
  <2>3. /\ \A u \in Threads : u # t => thr'[u] = thr[u]
        /\ thr'[t].call = thr[t].call /\ thr'[t].at # "unserved"
    BY <1>0, <2>2 DEF Thrs
  <2>4. afu' = afu \/ afu' = [afu EXCEPT !.events = Tail(@)] BY <1>10 DEF EventTaken
  <2>5. afu'.count = afu.count /\ afu'.max = afu.max /\ afu'.life = afu.life BY <1>0, <2>4 DEF Afus
  <2>. QED BY <2>1, <2>3, <2>5, OtherCall DEF Closes
<1>11. CASE EventReturns(t)
  <2>1. /\ UNCHANGED <<req, psl, toOcse, toLib, ocse>> /\ thr[t].call = "event"
        /\ afu' = [afu EXCEPT !.pipe = @ - 1] /\ thr' = [thr EXCEPT ![t] = Idle]
    BY <1>11 DEF EventReturns, Returns
  <2>2. /\ \A u \in Threads : u # t => thr'[u] = thr[u]
        /\ thr'[t].call = "none" /\ thr'[t].at # "unserved"
    BY <1>0, <2>1 DEF Idle
  <2>3. afu'.count = afu.count /\ afu'.max = afu.max /\ afu'.life = afu.life BY <1>0, <2>1 DEF Afus
  <2>. QED BY <2>1, <2>2, <2>3, OtherCall DEF Closes
<1>12. CASE WaitScans(t)
  <2>1. UNCHANGED <<afu, req, psl, toOcse, toLib, ocse>> /\ thr[t].call = "wait" BY <1>12 DEF WaitScans
  <2>2. PICK at \in {"link", "spin"} : \E e : thr' = [thr EXCEPT ![t].at = at, ![t].entry = e]
    BY <1>12 DEF WaitScans
  <2>3. /\ \A u \in Threads : u # t => thr'[u] = thr[u]
        /\ thr'[t].call = thr[t].call /\ thr'[t].at # "unserved"
    BY <1>0, <2>2 DEF Thrs
  <2>. QED BY <2>1, <2>3, OtherCall DEF Closes
<1>13. CASE WaitLinks(t) \/ WaitReturns(t)
  <2>1. UNCHANGED <<afu, req, psl, toOcse, toLib, ocse>> /\ thr[t].call = "wait"
    BY <1>13 DEF WaitLinks, WaitReturns, Spins
  <2>2. thr' = [thr EXCEPT ![t].at = "spin"] \/ thr' = [thr EXCEPT ![t] = Idle]
    BY <1>13 DEF WaitLinks, WaitReturns, Returns
  <2>3. /\ \A u \in Threads : u # t => thr'[u] = thr[u]
        /\ thr'[t].call \in {thr[t].call, "none"} /\ thr'[t].at # "unserved"
    BY <1>0, <2>2 DEF Thrs, Idle
  <2>. QED BY <2>1, <2>3, OtherCall DEF Closes
<1>. QED BY <1>1, <1>2, <1>3, <1>4, <1>5, <1>6, <1>7, <1>8, <1>9, <1>10, <1>11, <1>12, <1>13 DEF Continuing

-----------------------------------------------------------------------------
(***************************************************************************)
(* Requests: the steps of the thread of the library.                       *)
(***************************************************************************)
\* No thread is in a call that uses a request while the AFU is closed.
LEMMA ClosesIdle == ASSUME RInv, Closes PROVE \A r \in Requests : req[r].state = "IDLE"
<1>1. \A t \in Threads : thr[t].call \in {"none", "close"} BY DEF RInv, BInv, LifeOfCalls, Closes
<1>2. \A t \in Threads, r \in Requests : ~Using(t, r) BY <1>1 DEF Using, UsedBy, Requests
<1>. QED BY <1>2 DEF RInv, Owned

\* What a step leaves alone that changes neither the threads nor ocse.
PslKeeps ==
  /\ UNCHANGED <<thr, ocse>> /\ afu'.life = afu.life
  /\ (afu'.count = afu.count /\ afu'.max = afu.max) \/ (afu'.count = 0 /\ afu'.max = 2)

\* A step of the library's thread that keeps the flags and the calls.
LEMMA PslFlags ==
  ASSUME RInv, PslKeeps
  PROVE  /\ MapCount' /\ OkIsAnswered' /\ (Closes' <=> Closes)
         /\ \A u \in Threads, r \in Requests : Using(u, r)' <=> Using(u, r)
         /\ \A r \in Requests : Accessed(r)' <=> Accessed(r)
<1>1. MapCount'
  <2>1. CASE afu'.count = afu.count /\ afu'.max = afu.max BY <2>1 DEF RInv, MapCount, PslKeeps
  <2>2. CASE afu'.count = 0 /\ afu'.max = 2 BY <2>2 DEF MapCount
  <2>. QED BY <2>1, <2>2 DEF PslKeeps
<1>2. OkIsAnswered' BY DEF RInv, OkIsAnswered, PslKeeps
<1>. QED BY <1>1, <1>2 DEF PslKeeps, Closes, Using, Accessed

\* The requests and the sockets stay as they are.
LEMMA PslQuietRequests ==
  ASSUME RInv, PslKeeps, UNCHANGED <<req, toOcse, toLib>>, psl'.at # "detached"
  PROVE  RParts'
<1>1. /\ MapCount' /\ OkIsAnswered' /\ (Closes' <=> Closes)
      /\ \A u \in Threads, r \in Requests : Using(u, r)' <=> Using(u, r)
  BY PslFlags
<1>2. Owned' BY <1>1 DEF RInv, Owned
<1>3. Filled' /\ IdleIsAnswered' BY DEF RInv, Filled, IdleIsAnswered, PslKeeps
<1>4. Tokens' BY SameToken DEF Tokens, PslKeeps
<1>5. Detaching' BY <1>1 DEF RInv, Detaching, PslKeeps
<1>. QED BY <1>1, <1>2, <1>3, <1>4, <1>5 DEF RParts

\* The requests are all made IDLE when ocse is gone: if it was not lost, they
\* are IDLE already.
LEMMA AllIdleRequests ==
  ASSUME RInv, PslKeeps, AllRequestsIdle, UNCHANGED <<toOcse, toLib>>, psl'.at # "detached",
         ocse.gone, toLib = <<>> \/ ~ocse.lost
  PROVE  RParts'
<1>0. req \in [Requests -> Reqs] BY DEF RInv, BInv, Types, ReqType
<1>1. MapCount' /\ OkIsAnswered' /\ (Closes' <=> Closes) BY PslFlags
<1>2. \A r \in Requests : req'[r].state = "IDLE" /\ req'[r].body = req[r].body /\ req'[r].got = req[r].got
  BY <1>0 DEF AllRequestsIdle, Reqs
<1>3. ~ocse.lost => \A r \in Requests : req[r].state = "IDLE"
  BY ClosesIdle DEF RInv, Detaching
<1>4. Owned' /\ Filled' BY <1>2 DEF Owned, Filled, Requests
<1>5. IdleIsAnswered' BY <1>2, <1>3 DEF RInv, IdleIsAnswered, PslKeeps
<1>6. Tokens'
  <2>. SUFFICES ASSUME NEW r \in Requests PROVE Token(r)' BY DEF Tokens
  <2>1. CASE ~ocse.lost
    <3>1. NoneUnderWay(r) BY <1>3, <2>1, IdleNone
    <3>. QED BY <3>1, SameToken DEF PslKeeps
  <2>2. CASE toLib = <<>>
    <3>1. toOcse = <<>> BY DEF RInv, Detaching
    <3>2. NoneUnderWay(r)' BY <2>2, <3>1, NoKinds DEF NoneUnderWay, Accessed, PslKeeps
    <3>. QED BY <3>2, NoneToken
  <2>. QED BY <2>1, <2>2
<1>7. Detaching' BY <1>1 DEF RInv, Detaching, PslKeeps
<1>. QED BY <1>1, <1>4, <1>5, <1>6, <1>7 DEF RParts

\* A request is sent.
LEMMA SendRequests ==
  ASSUME RInv, PslKeeps, NEW r \in {"attach", "mmio", "mem"}, req[r].state = "REQUEST",
         req' = [req EXCEPT ![r].state = "PENDING"], Put(<<Msg(r, req[r].body)>>), toLib' = toLib,
         psl'.at # "detached"
  PROVE  RParts'
<1>0. req \in [Requests -> Reqs] /\ r \in Requests /\ toOcse \in Seq(ToOcse)
  BY DEF RInv, BInv, Types, ReqType, SocketType, Requests
<1>1. /\ MapCount' /\ OkIsAnswered' /\ (Closes' <=> Closes)
      /\ \A u \in Threads, q \in Requests : Using(u, q)' <=> Using(u, q)
      /\ \A q \in Requests : Accessed(q)' <=> Accessed(q)
  BY PslFlags
<1>2. /\ req'[r].state = "PENDING" /\ req'[r].body = req[r].body
      /\ \A q \in Requests : q # r => req'[q] = req[q]
  BY <1>0 DEF Reqs
<1>3. Owned' BY <1>0, <1>1, <1>2 DEF RInv, Owned
<1>4. Filled' BY <1>2 DEF RInv, Filled, Requests
<1>5. IdleIsAnswered' BY <1>2 DEF RInv, IdleIsAnswered, PslKeeps
<1>. DEFINE x == Msg(r, req[r].body)
<1>6. x \in ToOcse /\ x.m = r /\ x.of = req[r].body /\ <<x>> \in Seq(ToOcse)
  BY <1>0 DEF Msg, ToOcse, Reqs
<1>7. ocse.gone => toOcse' = toOcse BY DEF Put
<1>8. ~ocse.gone => toOcse' = toOcse \o <<x>> BY DEF Put
<1>. HIDE DEF x
<1>9. ASSUME NEW K, r \notin K
      PROVE  /\ Has(toOcse', K) <=> Has(toOcse, K)
             /\ Once(toOcse, K) => Once(toOcse', K)
             /\ \A b : Carries(toOcse, K, b) => Carries(toOcse', K, b)
  <2>1. ~Has(<<x>>, K) /\ Once(<<x>>, K) /\ \A b : Carries(<<x>>, K, b) BY <1>6, <1>9, OneKinds
  <2>2. CASE ocse.gone BY <1>7, <2>2
  <2>3. CASE ~ocse.gone
    <3>1. toOcse' = toOcse \o <<x>> /\ toOcse \in Seq(ToOcse) /\ <<x>> \in Seq(ToOcse) BY <1>0, <1>6, <1>8, <2>3
    <3>. QED BY <2>1, <3>1, ConcatKinds
  <2>. QED BY <2>2, <2>3
<1>10. Token(r)'
  <2>1. ~Has(toOcse, {r}) /\ ~Has(toLib, {r}) /\ ~Accessed(r) BY <1>0, IdleNone DEF NoneUnderWay
  <2>2. Once(toOcse, {r}) /\ Carries(toOcse, {r}, x.of) BY <2>1 DEF Has, Once, Carries
  <2>3. Once(<<x>>, {r}) /\ Carries(<<x>>, {r}, x.of) BY OneKinds
  <2>4. Once(toOcse', {r}) /\ Carries(toOcse', {r}, x.of)
    <3>1. CASE ocse.gone BY <1>7, <2>2, <3>1
    <3>2. CASE ~ocse.gone
      <4>1. toOcse' = toOcse \o <<x>> /\ toOcse \in Seq(ToOcse) /\ <<x>> \in Seq(ToOcse) BY <1>0, <1>6, <1>8, <3>2
      <4>. QED BY <2>1, <2>2, <2>3, <4>1, ConcatKinds
    <3>. QED BY <3>1, <3>2
  <2>5. ~Has(toLib', {r}) /\ ~Accessed(r)' BY <1>0, <1>1, <2>1
  <2>6. Once(toLib', {r}) /\ Carries(toLib', {r}, x.of) BY <2>5 DEF Has, Once, Carries
  <2>. QED BY <1>2, <1>6, <2>4, <2>5, <2>6 DEF Token
<1>11. ASSUME NEW q \in Requests, q # r PROVE Token(q)'
  <2>1. /\ Has(toOcse', {q}) <=> Has(toOcse, {q})
        /\ Once(toOcse, {q}) => Once(toOcse', {q})
        /\ \A b : Carries(toOcse, {q}, b) => Carries(toOcse', {q}, b)
    BY <1>9, <1>11
  <2>2. req'[q] = req[q] /\ (Accessed(q)' <=> Accessed(q)) /\ ocse' = ocse BY <1>1, <1>2, <1>11 DEF PslKeeps
  <2>. QED BY <2>1, <2>2 DEF RInv, Tokens, Token
<1>12. Detaching'
  <2>1. Has(toOcse', {"DETACH"}) <=> Has(toOcse, {"DETACH"}) BY <1>9
  <2>. QED BY <1>1, <1>7, <2>1 DEF RInv, Detaching, PslKeeps
<1>. QED BY <1>1, <1>3, <1>4, <1>5, <1>10, <1>11, <1>12 DEF RParts, Tokens

\* A request that was neither IDLE nor sent is made IDLE: ocse was lost, or the
\* request got what it asked for.
LEMMA IdleRequests ==
  ASSUME RInv, PslKeeps, NEW r \in {"attach", "mmio", "mem"}, req[r].state = "REQUEST",
         \A q \in Requests : q # r => req'[q] = req[q],
         req'[r].state = "IDLE", ocse.gone \/ req'[r].got = req'[r].body,
         UNCHANGED <<toOcse, toLib>>, psl'.at # "detached"
  PROVE  RParts'
<1>0. r \in Requests BY DEF Requests
<1>1. /\ MapCount' /\ OkIsAnswered' /\ (Closes' <=> Closes)
      /\ \A u \in Threads, q \in Requests : Using(u, q)' <=> Using(u, q)
  BY PslFlags
<1>2. ~Closes BY <1>0, ClosesIdle
<1>3. ocse.gone => ocse.lost BY <1>2 DEF RInv, Detaching
<1>4. Owned' BY <1>1 DEF RInv, Owned
<1>5. Filled' BY DEF RInv, Filled, Requests
<1>6. IdleIsAnswered' BY <1>3 DEF RInv, IdleIsAnswered, PslKeeps
<1>7. Tokens'
  <2>1. NoneUnderWay(r) BY <1>0, IdleNone
  <2>2. Token(r)' BY <1>0, <2>1, SameToken DEF PslKeeps
  <2>3. \A q \in Requests : q # r => Token(q)' BY SameToken DEF PslKeeps
  <2>. QED BY <2>2, <2>3 DEF Tokens
<1>8. Detaching' BY <1>1 DEF RInv, Detaching, PslKeeps
<1>. QED BY <1>1, <1>4, <1>5, <1>6, <1>7, <1>8 DEF RParts

\* The steps in which the library's thread sends a request, or gives all of them up.
LEMMA PslSendsRequests ==
  ASSUME RInv,
         PslStarts \/ PslExits \/ PslSends \/ mem_map \/ PslTurns \/ PslIdles \/ PslLoses \/ AllIdleFlags
         \/ DetachRequests
  PROVE  RParts'
<1>0. afu \in Afus /\ req \in [Requests -> Reqs] BY DEF RInv, BInv, Types, AfuType, ReqType
<1>1. CASE PslStarts \/ PslExits \/ AllIdleFlags
  <2>1. UNCHANGED <<thr, ocse, req, toOcse, toLib>> /\ psl'.at # "detached"
    BY <1>1 DEF PslStarts, PslExits, AllIdleFlags, Goto
  <2>2. \/ afu' = [afu EXCEPT !.opened = TRUE] \/ afu' = [afu EXCEPT !.attached = FALSE]
        \/ afu' = [afu EXCEPT !.mapped = {}, !.attached = FALSE, !.opened = FALSE]
    BY <1>1 DEF PslStarts, PslExits, AllIdleFlags, ClearFlags
  <2>3. afu'.life = afu.life /\ afu'.count = afu.count /\ afu'.max = afu.max BY <1>0, <2>2 DEF Afus
  <2>4. PslKeeps BY <2>1, <2>3 DEF PslKeeps
  <2>. QED BY <2>1, <2>4, PslQuietRequests
<1>2. CASE PslTurns \/ PslIdles
  <2>1. UNCHANGED <<afu, thr, ocse, req, toOcse, toLib>> /\ psl'.at # "detached"
    BY <1>2 DEF PslTurns, PslIdles, Goto
  <2>2. PslKeeps BY <2>1 DEF PslKeeps
  <2>. QED BY <2>1, <2>2, PslQuietRequests
<1>3. CASE PslSends
  <2>1. PICK r \in Asked : Goto(After[r]) /\ Sends(r) BY <1>3 DEF PslSends
  <2>2. r \in {"attach", "mmio", "mem"} /\ req[r].state = "REQUEST" BY <2>1 DEF Asked, Due
  <2>3. psl'.at # "detached" BY <2>1, <2>2 DEF Goto, After
  <2>4. UNCHANGED <<thr, toLib, ocse>> BY <1>3 DEF PslSends
  <2>5. CASE req' = [req EXCEPT ![r].state = "PENDING"] /\ Put(<<Msg(r, req[r].body)>>) /\ afu' = afu
    <3>1. PslKeeps BY <2>4, <2>5 DEF PslKeeps
    <3>. QED BY <2>2, <2>3, <2>4, <2>5, <3>1, SendRequests
  <2>6. CASE /\ ocse.gone /\ afu' = [afu EXCEPT !.opened = FALSE, !.attached = FALSE]
             /\ req' = [req EXCEPT ![r].state = "IDLE"] /\ toOcse' = toOcse
    <3>1. PslKeeps BY <1>0, <2>4, <2>6 DEF PslKeeps, Afus
    <3>2. req'[r].state = "IDLE" /\ \A q \in Requests : q # r => req'[q] = req[q]
      BY <1>0, <2>2, <2>6 DEF Requests, Reqs
    <3>. QED BY <2>2, <2>3, <2>4, <2>6, <3>1, <3>2, IdleRequests
  <2>. QED BY <2>1, <2>5, <2>6 DEF Sends
<1>4. CASE mem_map
  <2>1. PICK r \in Asked : Goto(After[r]) /\ req[r].body = Plain("map") BY <1>4 DEF mem_map
  <2>2. r \in {"attach", "mmio", "mem"} /\ req[r].state = "REQUEST" BY <2>1 DEF Asked, Due
  <2>3. Plain("map").op = "map" /\ Plain("map").area = "none" BY BodyTypes
  <2>4. r = "mem" BY <2>1, <2>2, <2>3 DEF RInv, Filled
  <2>5. psl'.at # "detached" BY <2>1, <2>4 DEF Goto, After
  <2>6. UNCHANGED <<afu, thr, ocse, toOcse, toLib>> BY <1>4 DEF mem_map
  <2>7. req' = [req EXCEPT !["mem"].state = "IDLE", !["mem"].got = Plain("map")] BY <1>4 DEF mem_map
  <2>. DEFINE b == Plain("map")
  <2>. HIDE DEF b
  <2>8. /\ req'["mem"].state = "IDLE" /\ req'["mem"].got = b /\ req'["mem"].body = req["mem"].body
        /\ \A q \in Requests : q # "mem" => req'[q] = req[q]
    BY <1>0, <2>7 DEF b, Requests, Reqs
  <2>9. PslKeeps BY <2>6 DEF PslKeeps
  <2>. QED BY <2>1, <2>2, <2>4, <2>5, <2>6, <2>8, <2>9, IdleRequests DEF b
<1>5. CASE PslLoses
  <2>1. /\ UNCHANGED <<afu, thr, ocse, toOcse, toLib>> /\ psl'.at # "detached" /\ ocse.gone
        /\ toLib = <<>> /\ AllRequestsIdle
    BY <1>5 DEF PslLoses, Goto
  <2>2. PslKeeps BY <2>1 DEF PslKeeps
  <2>. QED BY <2>1, <2>2, AllIdleRequests
<1>6. CASE DetachRequests
  <2>1. /\ UNCHANGED <<afu, thr, ocse, toOcse, toLib>> /\ psl'.at # "detached" /\ psl.at = "detached"
        /\ AllRequestsIdle
    BY <1>6 DEF DetachRequests, Goto, At
  <2>2. PslKeeps BY <2>1 DEF PslKeeps
  <2>3. ocse.gone /\ ~ocse.lost BY <2>1 DEF RInv, Detaching
  <2>. QED BY <2>1, <2>2, <2>3, AllIdleRequests
<1>. QED BY <1>1, <1>2, <1>3, <1>4, <1>5, <1>6

\* A message that is no answer to a request is read, and ocse may be told that
\* a memory command is done.
LEMMA ReadsOther ==
  ASSUME RInv, PslKeeps, NEW m, Reads(m), m \notin Requests, req' = req,
         toOcse' = toOcse \/ \E x \in ToOcse : x.m \in Acks /\ Put(<<x>>),
         psl'.at = "detached" => m = "DETACH"
  PROVE  RParts'
<1>0. toOcse \in Seq(ToOcse) /\ toLib \in Seq(ToLib) BY DEF RInv, BInv, Types, SocketType
<1>1. /\ MapCount' /\ OkIsAnswered' /\ (Closes' <=> Closes)
      /\ \A u \in Threads, r \in Requests : Using(u, r)' <=> Using(u, r)
      /\ \A r \in Requests : Accessed(r)' <=> Accessed(r)
  BY PslFlags
<1>2. toLib # <<>> /\ Head(toLib).m = m /\ toLib' = Tail(toLib) /\ ocse' = ocse BY DEF Reads
<1>3. ASSUME NEW K
      PROVE  /\ Has(toLib, K) <=> m \in K \/ Has(toLib', K)
             /\ Once(toLib, K) => Once(toLib', K)
             /\ \A b : Carries(toLib, K, b) => Carries(toLib', K, b)
  BY <1>0, <1>2, TailKinds
<1>4. ASSUME NEW K, K \cap Acks = {}
      PROVE  /\ Has(toOcse', K) <=> Has(toOcse, K)
             /\ Once(toOcse, K) => Once(toOcse', K)
             /\ \A b : Carries(toOcse, K, b) => Carries(toOcse', K, b)
  <2>1. CASE toOcse' = toOcse BY <2>1
  <2>2. CASE toOcse' # toOcse
    <3>1. PICK x \in ToOcse : x.m \in Acks /\ Put(<<x>>) BY <2>2
    <3>2. toOcse' = toOcse \o <<x>> BY <2>2, <3>1 DEF Put
    <3>3. ~Has(<<x>>, K) /\ Once(<<x>>, K) /\ \A b : Carries(<<x>>, K, b) BY <1>4, <3>1, OneKinds
    <3>4. <<x>> \in Seq(ToOcse) OBVIOUS
    <3>. QED BY <1>0, <3>2, <3>3, <3>4, ConcatKinds
  <2>. QED BY <2>1, <2>2
<1>5. ocse.gone => toOcse' = toOcse BY DEF Put
<1>6. Owned' BY <1>1 DEF RInv, Owned
<1>7. Filled' /\ IdleIsAnswered' BY DEF RInv, Filled, IdleIsAnswered, PslKeeps
<1>8. Tokens'
  <2>. SUFFICES ASSUME NEW r \in Requests PROVE Token(r)' BY DEF Tokens
  <2>1. {r} \cap Acks = {} /\ m \notin {r} BY DEF Requests, Acks
  <2>2. /\ Has(toLib, {r}) <=> Has(toLib', {r})
        /\ Once(toLib, {r}) => Once(toLib', {r})
        /\ \A b : Carries(toLib, {r}, b) => Carries(toLib', {r}, b)
    BY <1>3, <2>1
  <2>3. /\ Has(toOcse', {r}) <=> Has(toOcse, {r})
        /\ Once(toOcse, {r}) => Once(toOcse', {r})
        /\ \A b : Carries(toOcse, {r}, b) => Carries(toOcse', {r}, b)
    BY <1>4, <2>1
  <2>4. (Accessed(r)' <=> Accessed(r)) /\ ocse' = ocse BY <1>1, <1>2
  <2>. QED BY <2>2, <2>3, <2>4 DEF RInv, Tokens, Token
<1>9. Detaching'
  <2>1. {"DETACH"} \cap Acks = {} BY DEF Acks
  <2>2. Has(toOcse', {"DETACH"}) <=> Has(toOcse, {"DETACH"}) BY <1>4, <2>1
  <2>3. Has(toLib, {"DETACH"}) <=> m = "DETACH" \/ Has(toLib', {"DETACH"}) BY <1>3
  <2>. QED BY <1>1, <1>2, <1>5, <2>2, <2>3 DEF RInv, Detaching
<1>. QED BY <1>1, <1>6, <1>7, <1>8, <1>9 DEF RParts

\* The answer to a request is read: it is the one under way.
LEMMA ReadsAnswer ==
  ASSUME RInv, PslKeeps, NEW r \in Requests, Reads(r), Answered(r), toOcse' = toOcse, psl'.at # "detached"
  PROVE  RParts'
<1>0. toLib \in Seq(ToLib) /\ req \in [Requests -> Reqs] BY DEF RInv, BInv, Types, SocketType, ReqType
<1>1. /\ MapCount' /\ OkIsAnswered' /\ (Closes' <=> Closes)
      /\ \A u \in Threads, q \in Requests : Using(u, q)' <=> Using(u, q)
      /\ \A q \in Requests : Accessed(q)' <=> Accessed(q)
  BY PslFlags
<1>2. toLib # <<>> /\ Head(toLib).m = r /\ toLib' = Tail(toLib) /\ ocse' = ocse BY DEF Reads
<1>3. ASSUME NEW K
      PROVE  /\ Has(toLib, K) <=> r \in K \/ Has(toLib', K)
             /\ Once(toLib, K) => Once(toLib', K)
             /\ Once(toLib, K) /\ r \in K => ~Has(toLib', K)
             /\ \A b : Carries(toLib, K, b) => Carries(toLib', K, b) /\ (r \in K => Head(toLib).of = b)
  BY <1>0, <1>2, TailKinds
<1>4. /\ req'[r].state = "IDLE" /\ req'[r].body = req[r].body /\ req'[r].got = Head(toLib).of
      /\ \A q \in Requests : q # r => req'[q] = req[q]
  <2>. DEFINE b == Head(toLib).of
  <2>1. req' = [req EXCEPT ![r].state = "IDLE", ![r].got = b] BY DEF Answered, Of
  <2>. HIDE DEF b
  <2>2. /\ req'[r].state = "IDLE" /\ req'[r].body = req[r].body /\ req'[r].got = b
        /\ \A q \in Requests : q # r => req'[q] = req[q]
    BY <1>0, <2>1 DEF Reqs
  <2>. QED BY <2>2 DEF b
<1>5. Token(r) BY DEF RInv, Tokens
<1>6. Has(toLib, {r}) BY <1>3
<1>7. ~Has(toLib', {r}) /\ Head(toLib).of = req[r].body BY <1>3, <1>5 DEF Token
<1>8. ~Has(toOcse, {r}) /\ ~Accessed(r) BY <1>5, <1>6 DEF Token
<1>9. Tokens'
  <2>1. NoneUnderWay(r)' BY <1>1, <1>7, <1>8 DEF NoneUnderWay
  <2>2. Token(r)' BY <2>1, NoneToken
  <2>3. ASSUME NEW q \in Requests, q # r PROVE Token(q)'
    <3>1. /\ Has(toLib, {q}) <=> Has(toLib', {q})
          /\ Once(toLib, {q}) => Once(toLib', {q})
          /\ \A b : Carries(toLib, {q}, b) => Carries(toLib', {q}, b)
      BY <1>3, <2>3
    <3>2. (Accessed(q)' <=> Accessed(q)) /\ ocse' = ocse /\ req'[q] = req[q] BY <1>1, <1>2, <1>4, <2>3
    <3>. QED BY <3>1, <3>2 DEF RInv, Tokens, Token
  <2>. QED BY <2>2, <2>3 DEF Tokens
<1>10. Owned' BY <1>1, <1>4 DEF RInv, Owned
<1>11. Filled' BY <1>4 DEF RInv, Filled, Requests
<1>12. IdleIsAnswered' BY <1>2, <1>4, <1>7 DEF RInv, IdleIsAnswered
<1>13. Detaching'
  <2>1. Has(toLib', {"DETACH"}) => Has(toLib, {"DETACH"}) BY <1>3
  <2>. QED BY <1>1, <1>2, <2>1 DEF RInv, Detaching
<1>. QED BY <1>1, <1>9, <1>10, <1>11, <1>12, <1>13 DEF RParts

\* The steps in which the library's thread takes a message of ocse.
LEMMA PslReadsRequests ==
  ASSUME RInv,
         PslQuery \/ (\E r \in Requests : PslOpenAttach(r)) \/ PslDetach \/ handle_ack \/ handle_mem_ack
         \/ handle_memory \/ handle_interrupt \/ handle_wake_host_thread \/ WakeLinks
  PROVE  RParts'
<1>0. afu \in Afus /\ IsInjective(afu.events) /\ psl \in [at : PslPlaces, of : Threads \cup {"none"}]
  BY DEF RInv, BInv, Types, AfuType, EventsOnce, PslType
<1>00. \A m : Reads(m) => UNCHANGED <<thr, ocse>> BY DEF Reads
<1>1. CASE PslQuery
  <2>1. /\ Reads("QUERY") /\ req' = req /\ toOcse' = toOcse /\ psl'.at # "detached"
        /\ afu' = [afu EXCEPT !.count = 0, !.max = 2]
    BY <1>1 DEF PslQuery, Goto
  <2>2. afu'.life = afu.life /\ afu'.count = 0 /\ afu'.max = 2 BY <1>0, <2>1 DEF Afus
  <2>3. PslKeeps BY <1>00, <2>1, <2>2 DEF PslKeeps
  <2>4. "QUERY" \notin Requests BY DEF Requests
  <2>. QED BY <2>1, <2>3, <2>4, ReadsOther
<1>2. ASSUME NEW r \in Requests, PslOpenAttach(r) PROVE RParts'
  <2>1. Reads(r) /\ Answered(r) /\ UNCHANGED <<afu, toOcse>> /\ psl'.at # "detached"
    BY <1>2 DEF PslOpenAttach, Goto
  <2>2. PslKeeps BY <1>00, <2>1 DEF PslKeeps
  <2>. QED BY <2>1, <2>2, ReadsAnswer
<1>3. CASE PslDetach
  <2>1. /\ Reads("DETACH") /\ req' = req /\ toOcse' = toOcse
        /\ afu' = [afu EXCEPT !.mapped = {}, !.attached = FALSE, !.opened = FALSE]
    BY <1>3 DEF PslDetach, ClearFlags
  <2>2. afu'.life = afu.life /\ afu'.count = afu.count /\ afu'.max = afu.max BY <1>0, <2>1 DEF Afus
  <2>3. PslKeeps BY <1>00, <2>1, <2>2 DEF PslKeeps
  <2>4. "DETACH" \notin Requests BY DEF Requests
  <2>. QED BY <2>1, <2>3, <2>4, ReadsOther
<1>4. CASE handle_ack
  <2>1. Reads("mmio") /\ Answered("mmio") /\ toOcse' = toOcse /\ psl'.at # "detached"
    BY <1>4 DEF handle_ack, Goto
  <2>2. PICK f : afu' = afu \/ afu' = [afu EXCEPT !.mmios = f] BY <1>0, <1>4 DEF handle_ack, Afus
  <2>3. afu'.life = afu.life /\ afu'.count = afu.count /\ afu'.max = afu.max BY <1>0, <2>2 DEF Afus
  <2>4. PslKeeps BY <1>00, <2>1, <2>3 DEF PslKeeps
  <2>. QED BY <2>1, <2>4, ReadsAnswer DEF Requests
<1>5. CASE handle_mem_ack
  <2>1. Reads("mem") /\ Answered("mem") /\ UNCHANGED <<afu, toOcse>> /\ psl'.at # "detached"
    BY <1>5 DEF handle_mem_ack, Goto
  <2>2. PslKeeps BY <1>00, <2>1 DEF PslKeeps
  <2>. QED BY <2>1, <2>2, ReadsAnswer DEF Requests
<1>6. CASE handle_memory
  <2>. DEFINE a == IF Of = "good" THEN afu ELSE Queued(afu, "FAULT")
              x == Signal(IF Of = "good" THEN "SUCCESS" ELSE "FAILURE")
  <2>1. /\ Reads("MEM") /\ req' = req /\ psl'.at # "detached"
        /\ \/ afu' = a /\ (toOcse' = toOcse \/ Put(<<x>>))
           \/ afu' = [a EXCEPT !.opened = FALSE, !.attached = FALSE] /\ toOcse' = toOcse
    BY <1>6 DEF handle_memory, Goto
  <2>2. x \in ToOcse /\ x.m \in Acks BY BodyTypes DEF Signal, Msg, ToOcse, Acks
  <2>. HIDE DEF x
  <2>3. a \in Afus /\ a.life = afu.life /\ a.count = afu.count /\ a.max = afu.max
    <3>1. CASE Of = "good" BY <3>1, <1>0
    <3>2. CASE Of # "good" BY <3>2, <1>0, QueuedFits DEF Events
    <3>. QED BY <3>1, <3>2
  <2>. HIDE DEF a
  <2>4. afu'.life = afu.life /\ afu'.count = afu.count /\ afu'.max = afu.max BY <2>1, <2>3 DEF Afus
  <2>5. PslKeeps BY <1>00, <2>1, <2>4 DEF PslKeeps
  <2>6. "MEM" \notin Requests BY DEF Requests
  <2>7. toOcse' = toOcse \/ \E y \in ToOcse : y.m \in Acks /\ Put(<<y>>) BY <2>1, <2>2
  <2>. QED BY <2>1, <2>5, <2>6, <2>7, ReadsOther
<1>7. CASE handle_interrupt
  <2>. DEFINE a == IF afu.irq THEN Queued(afu, "IRQ") ELSE afu
  <2>1. /\ Reads("INTERRUPT") /\ req' = req /\ toOcse' = toOcse /\ psl'.at # "detached"
        /\ afu' = a
    BY <1>7 DEF handle_interrupt, Goto
  <2>2. a.life = afu.life /\ a.count = afu.count /\ a.max = afu.max
    <3>1. CASE ~afu.irq BY <3>1
    <3>2. CASE afu.irq BY <3>2, <1>0, QueuedFits DEF Events
    <3>. QED BY <3>1, <3>2
  <2>. HIDE DEF a
  <2>3. PslKeeps BY <1>00, <2>1, <2>2 DEF PslKeeps
  <2>4. "INTERRUPT" \notin Requests BY DEF Requests
  <2>. QED BY <2>1, <2>3, <2>4, ReadsOther
<1>8. CASE handle_wake_host_thread
  <2>1. Reads("WAKE") /\ UNCHANGED <<afu, req, toOcse>> /\ psl'.at # "detached"
    BY <1>8 DEF handle_wake_host_thread
  <2>2. PslKeeps BY <1>00, <2>1 DEF PslKeeps
  <2>3. "WAKE" \notin Requests BY DEF Requests
  <2>. QED BY <2>1, <2>2, <2>3, ReadsOther
<1>9. CASE WakeLinks
  <2>1. UNCHANGED <<afu, thr, ocse, req, toOcse, toLib>> /\ psl'.at # "detached"
    BY <1>9 DEF WakeLinks, Goto
  <2>2. PslKeeps BY <2>1 DEF PslKeeps
  <2>. QED BY <2>1, <2>2, PslQuietRequests
<1>. QED BY <1>1, <1>2, <1>3, <1>4, <1>5, <1>6, <1>7, <1>8, <1>9

-----------------------------------------------------------------------------
(***************************************************************************)
(* Requests: the steps of ocse.                                            *)
(***************************************************************************)
LEMMA OcseKeeps ==
  ASSUME RInv, UNCHANGED <<afu, req, thr, psl>>, ocse'.lost = ocse.lost \/ ocse'.lost
  PROVE  /\ Owned' /\ Filled' /\ MapCount' /\ IdleIsAnswered' /\ OkIsAnswered' /\ (Closes' <=> Closes)
<1>1. Owned' BY DEF RInv, Owned, Using
<1>2. Filled' BY DEF RInv, Filled
<1>3. MapCount' BY DEF RInv, MapCount
<1>4. IdleIsAnswered' BY DEF RInv, IdleIsAnswered
<1>5. OkIsAnswered' BY DEF RInv, OkIsAnswered
<1>. QED BY <1>1, <1>2, <1>3, <1>4, <1>5 DEF Closes

\* A message that is no answer to a request goes to the library.
LEMMA TellsOther ==
  ASSUME RInv, UNCHANGED <<afu, req, thr, psl, toOcse>>, NEW x \in ToLib, Tell(<<x>>),
         x.m \notin Requests, x.m # "DETACH",
         ocse'.gone = ocse.gone, ocse'.lost = ocse.lost, ocse'.access = ocse.access
  PROVE  RParts'
<1>0. BInv BY DEF RInv
<1>1. Owned' /\ Filled' /\ MapCount' /\ IdleIsAnswered' /\ OkIsAnswered' /\ (Closes' <=> Closes)
  BY OcseKeeps
<1>2. ASSUME NEW r \in Requests PROVE Token(r)'
  <2>1. x.m \notin {r} OBVIOUS
  <2>2. /\ Has(toLib', {r}) <=> Has(toLib, {r})
        /\ Once(toLib, {r}) => Once(toLib', {r})
        /\ \A b : Carries(toLib, {r}, b) => Carries(toLib', {r}, b)
    BY <1>0, <2>1, TellKinds
  <2>3. Accessed(r)' <=> Accessed(r) BY DEF Accessed
  <2>. QED BY <2>2, <2>3 DEF RInv, Tokens, Token
<1>3. Has(toLib', {"DETACH"}) <=> Has(toLib, {"DETACH"})
  <2>1. x.m \notin {"DETACH"} OBVIOUS
  <2>. QED BY <1>0, <2>1, TellKinds
<1>4. Detaching' BY <1>1, <1>3 DEF RInv, Detaching
<1>. QED BY <1>1, <1>2, <1>4 DEF RParts, Tokens

\* ocse takes a message of the library.
LEMMA TakesRequests == ASSUME RInv, OcseTakes PROVE RParts'
<1>. DEFINE h == Head(toOcse)
<1>0. BInv /\ toOcse \in Seq(ToOcse) BY DEF RInv, BInv, Types, SocketType
<1>1. /\ toOcse # <<>> /\ h \in ToOcse /\ ~ocse.gone
      /\ toOcse' = IF h.m = "DETACH" THEN <<>> ELSE Tail(toOcse)
      /\ ocse'.lost = ocse.lost
      /\ ocse'.gone <=> h.m = "DETACH"
      /\ \/ toLib' = toLib /\ ocse'.access = ocse.access /\ h.m \notin {"DETACH", "QUERY", "open", "attach"}
         \/ toLib' = toLib /\ ocse'.access = h /\ h.m \in {"mmio", "mem"}
         \/ Tell(<<h>>) /\ ocse'.access = ocse.access
      /\ UNCHANGED <<afu, req, thr, psl>>
  BY <1>0, TakesKinds
<1>2. ASSUME NEW K
      PROVE  /\ Has(toOcse, K) <=> h.m \in K \/ Has(Tail(toOcse), K)
             /\ Once(toOcse, K) => Once(Tail(toOcse), K)
             /\ Once(toOcse, K) /\ h.m \in K => ~Has(Tail(toOcse), K)
             /\ \A b : Carries(toOcse, K, b) => Carries(Tail(toOcse), K, b) /\ (h.m \in K => h.of = b)
  BY <1>0, <1>1, TailKinds
<1>. HIDE DEF h
<1>3. h \in ToLib BY <1>1 DEF ToLib
<1>4. ASSUME NEW K, Tell(<<h>>)
      PROVE  /\ Has(toLib', K) <=> Has(toLib, K) \/ h.m \in K
             /\ Once(toLib, K) /\ ~(Has(toLib, K) /\ h.m \in K) => Once(toLib', K)
             /\ \A b : Carries(toLib, K, b) /\ (h.m \in K => h.of = b) => Carries(toLib', K, b)
  BY <1>0, <1>3, <1>4, TellKinds
<1>5. Owned' /\ Filled' /\ MapCount' /\ IdleIsAnswered' /\ OkIsAnswered' /\ (Closes' <=> Closes)
  BY <1>1, OcseKeeps
<1>6. ~ocse.lost BY <1>1 DEF RInv, Detaching
<1>7. ASSUME NEW r \in Requests PROVE Token(r)'
  <2>0. /\ Token(r) /\ req' = req
        /\ r \in {r}
    BY <1>1 DEF RInv, Tokens
  <2>1. CASE h.m = "DETACH"
    <3>1. toOcse' = <<>> /\ ocse'.gone /\ Tell(<<h>>) BY <1>1, <2>1
    <3>2. h.m \notin {r} BY <2>1 DEF Requests
    <3>3. /\ Has(toLib', {r}) <=> Has(toLib, {r})
          /\ Once(toLib, {r}) => Once(toLib', {r})
          /\ \A b : Carries(toLib, {r}, b) => Carries(toLib', {r}, b)
      BY <1>4, <3>1, <3>2
    <3>4. ~Has(toOcse', {r}) /\ Once(toOcse', {r}) /\ \A b : Carries(toOcse', {r}, b) BY <3>1, NoKinds
    <3>5. ~Accessed(r)' BY <3>1 DEF Accessed
    <3>. QED BY <2>0, <3>3, <3>4, <3>5 DEF Token
  <2>2. CASE h.m # "DETACH"
    <3>0. toOcse' = Tail(toOcse) /\ ~ocse'.gone BY <1>1, <2>2
    <3>1. /\ Has(toOcse, {r}) <=> h.m = r \/ Has(toOcse', {r})
          /\ Once(toOcse, {r}) => Once(toOcse', {r})
          /\ Once(toOcse, {r}) /\ h.m = r => ~Has(toOcse', {r})
          /\ \A b : Carries(toOcse, {r}, b) => Carries(toOcse', {r}, b) /\ (h.m = r => h.of = b)
      <4>1. h.m \in {r} <=> h.m = r OBVIOUS
      <4>. QED BY <1>2, <3>0, <4>1
    <3>2. CASE toLib' = toLib /\ ocse'.access = ocse.access
      <4>1. Accessed(r)' <=> Accessed(r) BY <1>1, <3>0, <3>2 DEF Accessed
      <4>. QED BY <2>0, <3>1, <3>2, <4>1 DEF Token
    <3>3. CASE toLib' = toLib /\ ocse'.access = h
      <4>1. Accessed(r)' => h.m = r BY <3>3 DEF Accessed
      <4>2. CASE h.m = r
        <5>1. /\ ~Has(toOcse', {r}) /\ ~Has(toLib, {r}) /\ req[r].state = "PENDING" /\ h.of = req[r].body
          BY <2>0, <3>1, <4>2 DEF Token
        <5>. QED BY <2>0, <3>1, <3>3, <5>1 DEF Token
      <4>3. CASE h.m # r
        <5>1. ~Accessed(r)' BY <4>1, <4>3
        <5>. QED BY <2>0, <3>1, <3>3, <4>3, <5>1 DEF Token
      <4>. QED BY <4>2, <4>3
    <3>4. CASE Tell(<<h>>) /\ ocse'.access = ocse.access
      <4>1. Accessed(r)' <=> Accessed(r) BY <1>1, <3>0, <3>4 DEF Accessed
      <4>2. /\ Has(toLib', {r}) <=> Has(toLib, {r}) \/ h.m = r
            /\ Once(toLib, {r}) /\ ~(Has(toLib, {r}) /\ h.m = r) => Once(toLib', {r})
            /\ \A b : Carries(toLib, {r}, b) /\ (h.m = r => h.of = b) => Carries(toLib', {r}, b)
        <5>1. h.m \in {r} <=> h.m = r OBVIOUS
        <5>. QED BY <1>4, <3>4, <5>1
      <4>3. CASE h.m = r
        <5>1. /\ ~Has(toOcse', {r}) /\ ~Has(toLib, {r}) /\ ~Accessed(r) /\ req[r].state = "PENDING"
              /\ h.of = req[r].body
          BY <2>0, <3>1, <4>3 DEF Token
        <5>2. Once(toLib', {r}) /\ Carries(toLib', {r}, req[r].body) BY <2>0, <4>2, <5>1 DEF Token
        <5>3. Once(toOcse', {r}) /\ Carries(toOcse', {r}, req[r].body) BY <2>0, <3>1 DEF Token
        <5>. QED BY <2>0, <4>1, <5>1, <5>2, <5>3 DEF Token
      <4>4. CASE h.m # r
        <5>1. Has(toLib', {r}) <=> Has(toLib, {r}) BY <4>2, <4>4
        <5>2. Once(toLib', {r}) /\ Carries(toLib', {r}, req[r].body) BY <2>0, <4>2, <4>4 DEF Token
        <5>3. Once(toOcse', {r}) /\ Carries(toOcse', {r}, req[r].body) BY <2>0, <3>1 DEF Token
        <5>4. Has(toOcse', {r}) <=> Has(toOcse, {r}) BY <3>1, <4>4
        <5>. QED BY <2>0, <3>4, <4>1, <5>1, <5>2, <5>3, <5>4 DEF Token
      <4>. QED BY <4>3, <4>4
    <3>. QED BY <1>1, <3>2, <3>3, <3>4
  <2>. QED BY <2>1, <2>2
<1>8. Detaching'
  <2>1. CASE h.m = "DETACH"
    <3>1. toOcse' = <<>> /\ ocse'.gone BY <1>1, <2>1
    <3>2. Has(toOcse, {"DETACH"}) BY <1>2, <2>1
    <3>3. Closes BY <3>2 DEF RInv, Detaching
    <3>4. ~Has(toOcse', {"DETACH"}) BY <3>1, NoKinds
    <3>. QED BY <1>1, <1>5, <1>6, <3>1, <3>3, <3>4 DEF Detaching
  <2>2. CASE h.m # "DETACH"
    <3>1. toOcse' = Tail(toOcse) /\ ~ocse'.gone BY <1>1, <2>2
    <3>2. Has(toOcse', {"DETACH"}) => Closes BY <1>2, <3>1 DEF RInv, Detaching
    <3>3. ~Has(toLib, {"DETACH"}) /\ psl.at # "detached" BY <1>1 DEF RInv, Detaching
    <3>4. ~Has(toLib', {"DETACH"}) BY <1>1, <1>4, <2>2, <3>3
    <3>. QED BY <1>1, <1>5, <1>6, <3>1, <3>2, <3>3, <3>4 DEF Detaching
  <2>. QED BY <2>1, <2>2
<1>. QED BY <1>5, <1>7, <1>8 DEF RParts, Tokens

\* Whatever ocse does keeps the invariant of the requests.
LEMMA OcseRequests == ASSUME RInv, Ocse PROVE RParts'
<1>0. BInv /\ OcseType BY DEF RInv, BInv, Types
<1>1. CASE OcseTakes BY <1>1, TakesRequests
<1>2. CASE OcseAnswers
  <2>. DEFINE x == ocse.access
  <2>1. /\ ~ocse.gone /\ x # Nothing /\ Tell(<<x>>) /\ ocse' = [ocse EXCEPT !.access = Nothing]
        /\ UNCHANGED <<afu, req, thr, psl, toOcse>>
    BY <1>2 DEF OcseAnswers
  <2>2. x \in Accesses BY <1>0, <2>1 DEF OcseType
  <2>3. ocse'.gone = ocse.gone /\ ocse'.lost = ocse.lost /\ ocse'.access = Nothing BY <1>0, <2>1 DEF OcseType
  <2>4. \A r : Accessed(r) <=> x.m = r BY <2>1 DEF Accessed
  <2>5. \A r : ~Accessed(r)' BY <2>3 DEF Accessed
  <2>6. ASSUME NEW r \in Requests, x.m = r PROVE x.of = req[r].body
    BY <2>4, <2>6 DEF RInv, Tokens, Token
  <2>. HIDE DEF x
  <2>7. x \in ToLib /\ x.m # "DETACH" BY <2>2 DEF Accesses, ToLib, ToOcse, Requests
  <2>8. Owned' /\ Filled' /\ MapCount' /\ IdleIsAnswered' /\ OkIsAnswered' /\ (Closes' <=> Closes)
    BY <2>1, <2>3, OcseKeeps
  <2>9. ASSUME NEW r \in Requests PROVE Token(r)'
    <3>0. Token(r) BY DEF RInv, Tokens
    <3>1. /\ Has(toLib', {r}) <=> Has(toLib, {r}) \/ x.m = r
          /\ Once(toLib, {r}) /\ ~(Has(toLib, {r}) /\ x.m = r) => Once(toLib', {r})
          /\ \A b : Carries(toLib, {r}, b) /\ (x.m = r => x.of = b) => Carries(toLib', {r}, b)
      <4>1. x.m \in {r} <=> x.m = r OBVIOUS
      <4>. QED BY <1>0, <2>1, <2>7, <4>1, TellKinds
    <3>2. ~(Has(toLib, {r}) /\ x.m = r) /\ ~(Has(toOcse, {r}) /\ x.m = r)
          /\ (x.m = r => req[r].state = "PENDING")
      BY <2>4, <3>0 DEF Token
    <3>3. Once(toLib', {r}) /\ Carries(toLib', {r}, req[r].body) BY <2>6, <3>0, <3>1, <3>2 DEF Token
    <3>. QED BY <2>1, <2>5, <3>0, <3>1, <3>2, <3>3 DEF Token
  <2>10. Has(toLib', {"DETACH"}) <=> Has(toLib, {"DETACH"}) BY <1>0, <2>1, <2>7, TellKinds
  <2>11. Detaching' BY <2>1, <2>3, <2>8, <2>10 DEF RInv, Detaching
  <2>. QED BY <2>8, <2>9, <2>11 DEF RParts, Tokens
<1>3. CASE OcseInterrupts
  <2>1. Signal("INTERRUPT") \in ToLib /\ Signal("INTERRUPT").m = "INTERRUPT" BY BodyTypes DEF Signal, Msg, ToLib
  <2>2. "INTERRUPT" \notin Requests BY DEF Requests
  <2>. QED BY <1>3, <2>1, <2>2, TellsOther DEF OcseInterrupts
<1>4. ASSUME NEW t \in Threads, OcseWakes(t) PROVE RParts'
  <2>1. Wake(t) \in ToLib /\ Wake(t).m = "WAKE" BY DEF Wake, ToLib
  <2>2. "WAKE" \notin Requests BY DEF Requests
  <2>. QED BY <1>4, <2>1, <2>2, TellsOther DEF OcseWakes
<1>5. ASSUME NEW k \in {"good", "bad", "amo"}, OcseMemory(k) PROVE RParts'
  <2>1. Msg("MEM", k) \in ToLib /\ Msg("MEM", k).m = "MEM" BY DEF Msg, ToLib
  <2>2. "MEM" \notin Requests BY DEF Requests
  <2>3. Tell(<<Msg("MEM", k)>>) /\ ocse' = [ocse EXCEPT !.mem = k] /\ UNCHANGED <<afu, req, thr, psl, toOcse>>
    BY <1>5 DEF OcseMemory
  <2>4. ocse'.gone = ocse.gone /\ ocse'.lost = ocse.lost /\ ocse'.access = ocse.access
    BY <1>0, <2>3 DEF OcseType
  <2>. QED BY <2>1, <2>2, <2>3, <2>4, TellsOther
<1>6. CASE OcseLost
  <2>1. /\ ~ocse.gone /\ ocse' = [ocse EXCEPT !.gone = TRUE, !.lost = TRUE] /\ toOcse' = <<>>
        /\ toLib' \in {toLib, <<>>} /\ UNCHANGED <<afu, req, thr, psl>>
    BY <1>6 DEF OcseLost
  <2>2. ocse'.gone /\ ocse'.lost BY <1>0, <2>1 DEF OcseType
  <2>3. Owned' /\ Filled' /\ MapCount' /\ IdleIsAnswered' /\ OkIsAnswered' /\ (Closes' <=> Closes)
    BY <2>1, <2>2, OcseKeeps
  <2>4. ASSUME NEW r \in Requests PROVE Token(r)'
    <3>0. Token(r) BY DEF RInv, Tokens
    <3>1. ~Has(toOcse', {r}) /\ Once(toOcse', {r}) /\ \A b : Carries(toOcse', {r}, b) BY <2>1, NoKinds
    <3>2. ~Accessed(r)' BY <2>2 DEF Accessed
    <3>3. CASE toLib' = toLib BY <2>1, <3>0, <3>1, <3>2, <3>3 DEF Token
    <3>4. CASE toLib' = <<>>
      <4>1. NoneUnderWay(r)' BY <3>1, <3>2, <3>4, NoKinds DEF NoneUnderWay
      <4>. QED BY <4>1, NoneToken
    <3>. QED BY <2>1, <3>3, <3>4
  <2>5. Detaching'
    <3>1. ~Has(toLib, {"DETACH"}) /\ psl.at # "detached" BY <2>1 DEF RInv, Detaching
    <3>2. ~Has(toLib', {"DETACH"}) /\ ~Has(toOcse', {"DETACH"}) BY <2>1, <3>1, NoKinds
    <3>. QED BY <2>1, <2>2, <3>1, <3>2 DEF Detaching
  <2>. QED BY <2>3, <2>4, <2>5 DEF RParts, Tokens
<1>. QED BY <1>1, <1>2, <1>3, <1>4, <1>5, <1>6 DEF Ocse

-----------------------------------------------------------------------------
(***************************************************************************)
(* RInv is an invariant when each request struct is used by one thread.    *)
(***************************************************************************)
LEMMA RequestInit == Init => RInv
<1>. SUFFICES ASSUME Init PROVE RInv OBVIOUS
<1>1. BInv BY BaseInit
<1>2. /\ \A r \in Requests : req[r].state = "IDLE" /\ req[r].got = req[r].body
      /\ toOcse = <<>> /\ toLib = <<>> /\ psl.at = "none" /\ ~ocse.gone /\ ~ocse.lost /\ ocse.access = Nothing
      /\ \A t \in Threads : thr[t].call = "none" /\ thr[t].at = "none"
      /\ afu.count = 0 /\ afu.max = 0
  BY DEF Init, NoReq, Idle, AfuInit
<1>3. Owned /\ Filled /\ IdleIsAnswered /\ MapCount /\ OkIsAnswered
  BY <1>2 DEF Owned, Filled, IdleIsAnswered, MapCount, OkIsAnswered, Requests
<1>4. Tokens BY <1>2, NoKinds DEF Tokens, Token, Accessed
<1>5. Detaching BY <1>2, NoKinds DEF Detaching
<1>. QED BY <1>1, <1>3, <1>4, <1>5 DEF RInv

\* RInv is inductive.
LEMMA RequestStep == ASSUME OneCaller PROVE RInv /\ [Next]_vars => RInv'
<1>. SUFFICES ASSUME RInv, [Next]_vars PROVE RInv' OBVIOUS
<1>1. BInv' BY BaseStep DEF RInv
<1>2. RParts'
  <2>1. CASE Next
    <3>1. \/ \E t \in Threads : Starting(t) \/ Continuing(t)
          \/ psl_loop \/ Ocse
      BY <2>1 DEF Next
    <3>2. CASE \E t \in Threads : Starting(t) \/ Continuing(t) BY <3>2, StartingRequests, ContinuingRequests
    <3>3. CASE psl_loop BY <3>3, PslSendsRequests, PslReadsRequests DEF psl_loop
    <3>4. CASE Ocse BY <3>4, OcseRequests
    <3>. QED BY <3>1, <3>2, <3>3, <3>4
  <2>2. CASE UNCHANGED vars
    <3>1. UNCHANGED <<afu, req, thr, psl, toOcse, toLib, ocse>> BY <2>2 DEF vars
    <3>2. Owned' /\ Filled' /\ MapCount' /\ IdleIsAnswered' /\ OkIsAnswered' /\ (Closes' <=> Closes)
      BY <3>1, OcseKeeps
    <3>3. Tokens' BY <3>1, SameToken DEF Tokens
    <3>4. Detaching' BY <3>1, <3>2 DEF RInv, Detaching
    <3>. QED BY <3>2, <3>3, <3>4 DEF RParts
  <2>. QED BY <2>1, <2>2
<1>. QED BY <1>1, <1>2 DEF RInv, RParts

\* In every state what is under way for a request of libocxl.c is in one place,
\* is that of a call under way, and is answered before the request is IDLE,
\* unless ocse was lost; the AFU is detached only while it is closed.
THEOREM RequestInvariant == ASSUME OneCaller PROVE Spec => []RInv
<1>1. RInv /\ [Next]_vars => RInv' BY RequestStep
<1>. QED BY <1>1, RequestInit, PTL DEF Spec

\* The fields of struct ocxl_afu, of its requests and of the threads have the
\* values the code gives them; the queue of events is never full and no more
\* areas are mapped than mmios has entries (libocxl.c:189, 3044).
THEOREM TypeCorrect == ASSUME OneCaller PROVE Spec => []TypeOK
<1>1. ASSUME RInv PROVE TypeOK
  <2>1. Types /\ MapCount /\ EventsOnce BY <1>1 DEF RInv, BInv
  <2>2. afu \in Afus BY <2>1 DEF Types, AfuType
  <2>3. afu.count \in 0 .. 2 BY <2>1, <2>2 DEF MapCount, Afus
  <2>4. Len(afu.events) < EVENT_QUEUE_MAX /\ Range(afu.events) \subseteq {"IRQ", "FAULT"}
    <3>. DEFINE s == afu.events
                n == Len(s)
    <3>1. s \in Seq(Events) BY <2>2 DEF Afus
    <3>2. n \in Nat /\ DOMAIN s = 1 .. n /\ \A i \in 1 .. n : s[i] \in {"IRQ", "FAULT"} BY <3>1 DEF Events
    <3>3. \A i \in DOMAIN s, j \in DOMAIN s : s[i] = s[j] => i = j BY <2>1 DEF EventsOnce, IsInjective
    <3>. HIDE DEF s, n
    <3>4. Range(s) \subseteq {"IRQ", "FAULT"} BY <3>2 DEF Range
    <3>5. ASSUME n >= 3 PROVE FALSE
      <4>1. 1 \in DOMAIN s /\ 2 \in DOMAIN s /\ 3 \in DOMAIN s BY <3>2, <3>5
      <4>2. s[1] # s[2] /\ s[1] # s[3] /\ s[2] # s[3] BY <3>3, <4>1
      <4>. QED BY <3>2, <4>1, <4>2
    <3>6. n < 3 BY <3>2, <3>5
    <3>. QED BY <3>4, <3>6 DEF s, n, EVENT_QUEUE_MAX
  <2>5. /\ afu.life \in {"none", "opening", "open", "closing", "freed"}
        /\ afu.opened \in BOOLEAN /\ afu.attached \in BOOLEAN /\ afu.lpc \in BOOLEAN /\ afu.irq \in BOOLEAN
        /\ afu.mapped \subseteq Areas /\ afu.max \in {0, 2}
        /\ afu.mmios \in [1 .. 2 -> Areas \cup {"none"}] /\ afu.pipe \in Nat
    BY <2>2 DEF Afus
  <2>6. req \in [Requests -> [state : {"IDLE", "REQUEST", "PENDING"}, body : Bodies, got : Bodies]]
    BY <2>1 DEF Types, ReqType, Reqs
  <2>7. \A t \in Threads :
          /\ thr[t].call \in Calls \cup {"none"} /\ thr[t].left \in Nat
          /\ thr[t].at \in {"none", "unserved", "spin", "detach", "drop", "join", "pipe", "crash", "scan", "link"}
          /\ thr[t].body \in Bodies /\ thr[t].entry \in {"none", "wait", "psl"}
    BY <2>1 DEF Types, ThrType, Thrs, Places
  <2>8. psl.at \in {"none", "start", "top", "mmio", "mem", "socket", "all_idle", "detached", "link", "fail", "exited"}
    BY <2>1 DEF Types, PslType, PslPlaces
  <2>9. Range(waits.list) \subseteq Entries /\ waits.received \subseteq Entries
    <3>1. waits.list \in Seq(Entries) /\ waits.received \subseteq Entries BY <2>1 DEF Types, WaitsType
    <3>. QED BY <3>1 DEF Range
  <2>. QED BY <2>3, <2>4, <2>5, <2>6, <2>7, <2>8, <2>9 DEF TypeOK
<1>. QED BY <1>1, RequestInvariant, PTL

\* While ocse is there, a call that reports success got the answer to its own
\* request: no answer is taken for that of another call, and nothing else makes
\* a request IDLE (libocxl.c:562, 1437).
THEOREM OkAnswered == ASSUME OneCaller PROVE Spec => []OkIsAnswered
<1>1. RInv => OkIsAnswered BY DEF RInv
<1>. QED BY <1>1, RequestInvariant, PTL
=============================================================================
