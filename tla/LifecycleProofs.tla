-------------------------- MODULE LifecycleProofs --------------------------
(***************************************************************************)
(* Proofs about Lifecycle, for any number of applications and slots and    *)
(* whatever the applications and the simulator do.                         *)
(*                                                                         *)
(* AllListed and SlotKept are not inductive.  Main puts a struct on the    *)
(* list that is not on it because nobody else makes one for that client    *)
(* (Newcomer), and frees one that it has taken off (Joined).  A slot is    *)
(* not given away twice because it goes to a client whose thread still     *)
(* runs, and the client of a slot has none (SlotOwners).                   *)
(***************************************************************************)
EXTENDS Lifecycle, ListLemmas

\* The client that main has accepted and not yet made a struct for.
Newcomer ==
  main.pc \in {"reap", "reaping"} =>
    /\ main.k \in Clients /\ mem[main.k] = "none" /\ thread[main.k] = "none"
    /\ main.pos # 0

\* The client whose thread main waits for is off the list.
Joined == main.pc = "join" => main.k \in Clients /\ main.k \notin ToSet(clist)

\* The client of a slot knows its place and has no thread any more; nor has an
\* application that has opened the AFU.
SlotOwners ==
  /\ \A c \in Ctx : slot[c] # NoClient => thread[slot[c]] = "exit" /\ cl[slot[c]].ctx = c
  /\ \A k \in Clients : app[k] \in {"open", "closing"} => thread[k] = "exit"

\* The inductive invariant.
IInv == TypeOK /\ AllListed /\ Newcomer /\ Joined /\ SlotOwners /\ SlotKept

-----------------------------------------------------------------------------
(***************************************************************************)
(* Structs and slots.                                                      *)
(***************************************************************************)
\* There is a slot, and what the code puts into a struct has its type.
LEMMA StructTypes ==
  /\ 0 \in Ctx /\ NewClient \in Client
  /\ \A r \in Client : client_drop(r) \in Client /\ client_drop(r).ctx = r.ctx
  /\ \A r \in Client, b \in BOOLEAN :
       \A q \in {[r EXCEPT !.pending = b], [r EXCEPT !.fd = b], [r EXCEPT !.idle = b]} :
            q \in Client /\ q.ctx = r.ctx /\ q.st = r.st
<1>1. 0 \in Ctx BY LifecycleAssumption DEF LifecycleAssumption, Ctx
<1>2. NewClient \in Client BY <1>1 DEF NewClient, Client
<1>3. \A r \in Client : client_drop(r) \in Client /\ client_drop(r).ctx = r.ctx BY DEF client_drop, Client
<1>4. \A r \in Client, b \in BOOLEAN :
        \A q \in {[r EXCEPT !.pending = b], [r EXCEPT !.fd = b], [r EXCEPT !.idle = b]} :
             q \in Client /\ q.ctx = r.ctx /\ q.st = r.st
  BY DEF Client
<1>. QED BY <1>1, <1>2, <1>3, <1>4

\* _client_associate finds the first empty slot.
LEMMA FirstEmptyIsEmpty == EmptySlots # {} => FirstEmpty \in Ctx /\ slot[FirstEmpty] = NoClient
<1>. SUFFICES ASSUME EmptySlots # {} PROVE FirstEmpty \in EmptySlots BY DEF EmptySlots
<1>1. EmptySlots \in SUBSET Nat BY LifecycleAssumption DEF EmptySlots, Ctx, LifecycleAssumption
<1>2. \E c \in EmptySlots : \A d \in EmptySlots : c <= d BY <1>1, LeastNatural
<1>. QED BY <1>2 DEF FirstEmpty

\* The loop over the slots stays within them.
LEMMA NextSlotType ==
  ASSUME TypeOK, NextSlot, ocl.pc = "slots"
  PROVE  /\ ocl' \in [pc : {"delay", "slots", "gone"}, cur : Ctx] /\ lock' \in {"none", lock}
         /\ ocl'.pc \in {"slots", "delay"}
BY StructTypes DEF TypeOK, NextSlot

\* main, the lists and the slots of a struct are as before: nothing of the
\* invariant about the list can change.
LEMMA ListKept ==
  ASSUME IInv, UNCHANGED <<main, mem, clist>>,
         \A k \in Clients : thread[k] = "none" => thread'[k] = "none"
  PROVE  AllListed' /\ Newcomer' /\ Joined'
BY DEF IInv, AllListed, Newcomer, Joined

\* No client gets or leaves a slot, and no application opens the AFU.
LEMMA SlotsKept ==
  ASSUME IInv, slot' = slot, ocl'.pc = "gone" \/ ocl.pc # "gone",
         \A k \in Clients : thread[k] = "exit" => thread'[k] = "exit",
         \A k \in Clients : cl'[k].ctx = cl[k].ctx \/ thread[k] # "exit",
         \A k \in Clients : app'[k] \in {"open", "closing"} =>
           app[k] \in {"open", "closing"} /\ cl'[k].st = cl[k].st
  PROVE  SlotOwners' /\ SlotKept'
<1>. slot \in [Ctx -> Clients \cup {NoClient}] BY DEF IInv, TypeOK
<1>1. ASSUME NEW c \in Ctx, slot[c] # NoClient
      PROVE  slot[c] \in Clients /\ thread'[slot[c]] = "exit" /\ cl'[slot[c]].ctx = c
  BY <1>1 DEF IInv, SlotOwners
<1>2. ASSUME NEW k \in Clients, app'[k] \in {"open", "closing"} PROVE thread'[k] = "exit"
  BY <1>2 DEF IInv, SlotOwners
<1>3. ASSUME NEW k \in Clients, app'[k] \in {"open", "closing"}, ocl'.pc # "gone"
      PROVE  slot[cl'[k].ctx] = k /\ cl'[k].st = "CLIENT_VALID"
  BY <1>3 DEF IInv, SlotOwners, SlotKept
<1>4. SlotOwners' BY <1>1, <1>2 DEF SlotOwners
<1>5. SlotKept' BY <1>1, <1>3 DEF SlotKept
<1>. QED BY <1>4, <1>5

-----------------------------------------------------------------------------
(***************************************************************************)
(* The steps.                                                              *)
(***************************************************************************)
LEMMA InitIInv == Init => IInv
<1>. SUFFICES ASSUME Init PROVE IInv OBVIOUS
<1>0. clist \in Seq(Clients) /\ DOMAIN clist = {}
  <2>1. clist = <<>> BY DEF Init
  <2>. QED BY <2>1, EmptySeq
<1>1. TypeOK
  <2>1. 0 \in Ctx /\ NewClient \in Client BY StructTypes
  <2>2. /\ main \in [pc : {"accept", "reap", "reaping", "head", "down", "join", "done"},
                     k : Clients \cup {NoClient}, pos : Nat]
        /\ ocl \in [pc : {"delay", "slots", "gone"}, cur : Ctx]
    BY <2>1 DEF Init
  <2>. QED BY <1>0, <2>1, <2>2 DEF TypeOK, Init, AppStates, MsgTypes
<1>2. AllListed
  <2>1. IsInjective(clist) BY <1>0 DEF IsInjective
  <2>2. ToSet(clist) = {} BY <1>0 DEF ToSet
  <2>. QED BY <2>1, <2>2 DEF AllListed, Init
<1>3. Newcomer /\ Joined BY DEF Init, Newcomer, Joined
<1>4. SlotOwners /\ SlotKept BY DEF Init, SlotOwners, SlotKept
<1>. QED BY <1>1, <1>2, <1>3, <1>4 DEF IInv

\* main in its loop over the list, and the one thread that it starts.
LEMMA MainStep == IInv /\ Main => IInv'
<1>. SUFFICES ASSUME IInv, Main PROVE IInv' OBVIOUS
<1>. TypeOK /\ AllListed /\ Newcomer /\ Joined /\ SlotOwners /\ SlotKept BY DEF IInv
<1>. DEFINE MainT == [pc : {"accept", "reap", "reaping", "head", "down", "join", "done"},
                      k : Clients \cup {NoClient}, pos : Nat]
<1>0. main \in MainT /\ clist \in Seq(Clients) BY DEF TypeOK
<1>1. ASSUME NEW k \in Clients, Accept(k) PROVE IInv'
  <2>. USE <1>1 DEF Accept
  <2>1. TypeOK' BY DEF TypeOK
  <2>2. AllListed' /\ Newcomer' /\ Joined' BY DEF AllListed, Newcomer, Joined
  <2>3. SlotOwners' /\ SlotKept' BY SlotsKept
  <2>. QED BY <2>1, <2>2, <2>3 DEF IInv
<1>2. ASSUME Keep PROVE IInv'
  <2>. USE <1>2 DEF Keep
  <2>0. main' \in MainT /\ main'.pc = main.pc /\ main'.k = main.k /\ main'.pos # 0 BY <1>0
  <2>1. TypeOK' BY <2>0 DEF TypeOK
  <2>2. AllListed' /\ Newcomer' /\ Joined' BY <2>0 DEF AllListed, Newcomer, Joined
  <2>3. SlotOwners' /\ SlotKept' BY SlotsKept
  <2>. QED BY <2>1, <2>2, <2>3 DEF IInv
<1>3. ASSUME _free_client PROVE IInv'
  <2>. USE <1>3 DEF _free_client
  <2>. DEFINE p == main.pos  f == clist[p]
  <2>0. main' \in MainT /\ main'.pc = "reaping" /\ main'.k = main.k /\ main'.pos = p BY <1>0
  <2>a. p \in DOMAIN clist /\ f \in Clients BY <1>0 DEF Newcomer
  <2>b. clist' \in Seq(Clients) /\ Removed(clist', clist, p) BY <1>0, <2>a, RemoveAtShape
  <2>c. IsInjective(clist') /\ ToSet(clist') = ToSet(clist) \ {f}
    BY <1>0, <2>a, <2>b, RemovedElements DEF AllListed
  <2>d. f \in ToSet(clist) BY <2>a DEF ToSet
  <2>e. mem[f] = "live" BY <2>a, <2>d DEF AllListed
  <2>1. TypeOK' BY <2>0, <2>a, <2>b DEF TypeOK
  <2>2. AllListed' BY <2>0, <2>a, <2>c, <2>d DEF AllListed, TypeOK
  <2>3. Newcomer' /\ Joined' BY <2>0, <2>a, <2>e DEF Newcomer, Joined, TypeOK
  <2>4. SlotOwners' /\ SlotKept' BY SlotsKept
  <2>. QED BY <2>1, <2>2, <2>3, <2>4 DEF IInv
<1>4. ASSUME Relock PROVE IInv'
  <2>. USE <1>4 DEF Relock
  <2>0. /\ main' \in MainT /\ main'.k = main.k /\ main'.pos = main.pos
        /\ lock' \in {"none", "main"}
        /\ \/ main.pc = "reaping" /\ main'.pc = "reap"
           \/ main.pc = "head" /\ main'.pc \in {"accept", "down"}
    BY <1>0
  <2>1. TypeOK' BY <2>0 DEF TypeOK
  <2>2. AllListed' /\ Newcomer' /\ Joined' BY <2>0 DEF AllListed, Newcomer, Joined
  <2>3. SlotOwners' /\ SlotKept' BY SlotsKept
  <2>. QED BY <2>1, <2>2, <2>3 DEF IInv
<1>5. ASSUME _client_connect PROVE IInv'
  <2>. USE <1>5 DEF _client_connect
  <2>. DEFINE n == main.k
  <2>0. main' \in MainT /\ main'.pc = "head" /\ n \in Clients BY <1>0 DEF Newcomer
  <2>1. PICK ok \in put_bytes(n) :
          IF ok
          THEN /\ mem' = [mem EXCEPT ![n] = "live"]
               /\ cl' = [cl EXCEPT ![n] = NewClient]
               /\ clist' = <<n>> \o clist
               /\ thread' = [thread EXCEPT ![n] = "run"]
               /\ app' = [app EXCEPT ![n] = IF @ = "knock" THEN "connected" ELSE @]
          ELSE /\ thread' = [thread EXCEPT ![n] = "exit"]
               /\ UNCHANGED <<mem, cl, clist, app>>
    OBVIOUS
  <2>2. mem[n] = "none" /\ thread[n] = "none" BY DEF Newcomer
  <2>3. n \notin ToSet(clist) BY <2>0, <2>2 DEF AllListed
  <2>4. CASE ok
    <3>. USE <2>4
    <3>0. clist' = <<n>> \o clist /\ IsInjective(clist) BY <2>1 DEF AllListed
    <3>1. IsInjective(clist') /\ ToSet(clist') = ToSet(clist) \cup {n} /\ clist' \in Seq(Clients)
      BY <1>0, <2>0, <3>0, <2>3, PrependElements
    <3>2. TypeOK'
      <4>1. app' \in [Clients -> AppStates] BY <2>1 DEF TypeOK, AppStates
      <4>2. cl' \in [Clients -> Client] BY <2>1, StructTypes DEF TypeOK
      <4>. QED BY <2>0, <2>1, <3>1, <4>1, <4>2 DEF TypeOK
    <3>3. AllListed' BY <2>0, <2>1, <3>1 DEF AllListed, TypeOK
    <3>4. Newcomer' /\ Joined' BY <2>0 DEF Newcomer, Joined
    <3>5. SlotOwners' /\ SlotKept'
      <4>1. \A k \in Clients : thread[k] = "exit" => thread'[k] = "exit" BY <2>1, <2>2 DEF TypeOK
      <4>2. \A k \in Clients : cl'[k].ctx = cl[k].ctx \/ thread[k] # "exit" BY <2>1, <2>2 DEF TypeOK
      <4>3. \A k \in Clients : app'[k] \in {"open", "closing"} =>
              app[k] \in {"open", "closing"} /\ cl'[k].st = cl[k].st
        BY <2>0, <2>1, <2>2 DEF TypeOK, SlotOwners
      <4>. QED BY <4>1, <4>2, <4>3, SlotsKept
    <3>. QED BY <3>2, <3>3, <3>4, <3>5 DEF IInv
  <2>5. CASE ~ok
    <3>. USE <2>5
    <3>2. TypeOK' BY <2>0, <2>1 DEF TypeOK
    <3>3. AllListed' BY <2>0, <2>1 DEF AllListed
    <3>4. Newcomer' /\ Joined' BY <2>0 DEF Newcomer, Joined
    <3>5. SlotOwners' /\ SlotKept' BY <2>0, <2>1, SlotsKept DEF TypeOK
    <3>. QED BY <3>2, <3>3, <3>4, <3>5 DEF IInv
  <2>. QED BY <2>4, <2>5
<1>6. ASSUME Terminate PROVE IInv'
  <2>. USE <1>6 DEF Terminate
  <2>1. CASE clist = <<>>
    <3>0. main' \in MainT /\ main'.pc = "done" /\ UNCHANGED <<cl, clist>> BY <1>0, <2>1
    <3>1. TypeOK' BY <3>0 DEF TypeOK
    <3>2. AllListed' /\ Newcomer' /\ Joined' BY <3>0 DEF AllListed, Newcomer, Joined
    <3>3. SlotOwners' /\ SlotKept' BY <3>0, SlotsKept
    <3>. QED BY <3>1, <3>2, <3>3 DEF IInv
  <2>2. CASE clist # <<>>
    <3>. DEFINE h == Head(clist)
    <3>a. /\ h \in ToSet(clist) /\ h \in Clients /\ clist' \in Seq(Clients)
          /\ IsInjective(clist') /\ ToSet(clist') = ToSet(clist) \ {h}
      <4>1. IsInjective(clist) /\ clist' = Tail(clist) BY <2>2 DEF AllListed
      <4>. QED BY <1>0, <2>2, <4>1, TailElements
    <3>0. main' \in MainT /\ main'.pc = "join" /\ main'.k = h BY <1>0, <2>2, <3>a
    <3>b. cl' = [cl EXCEPT ![h].pending = FALSE] BY <2>2
    <3>c. cl' \in [Clients -> Client] /\ \A k \in Clients : cl'[k].ctx = cl[k].ctx /\ cl'[k].st = cl[k].st
      <4>1. cl' = [cl EXCEPT ![h] = [cl[h] EXCEPT !.pending = FALSE]] BY <3>b
      <4>. QED BY <3>a, <4>1, StructTypes DEF TypeOK
    <3>1. TypeOK' BY <3>0, <3>a, <3>c DEF TypeOK
    <3>2. AllListed' /\ Newcomer' /\ Joined' BY <3>0, <3>a DEF AllListed, Newcomer, Joined
    <3>3. SlotOwners' /\ SlotKept' BY <3>c, SlotsKept
    <3>. QED BY <3>1, <3>2, <3>3 DEF IInv
  <2>. QED BY <2>1, <2>2
<1>7. ASSUME Join PROVE IInv'
  <2>. USE <1>7 DEF Join
  <2>0. main' \in MainT /\ main'.pc = "down" /\ main.k \in Clients BY <1>0 DEF Joined
  <2>1. cl' \in [Clients -> Client] /\ \A k \in Clients : cl'[k].ctx = cl[k].ctx /\ cl'[k].st = cl[k].st
    <3>1. cl' = [cl EXCEPT ![main.k] = [cl[main.k] EXCEPT !.fd = FALSE]] OBVIOUS
    <3>2. [cl[main.k] EXCEPT !.fd = FALSE] \in Client BY <2>0, StructTypes DEF TypeOK
    <3>3. \A k \in Clients : cl'[k].ctx = cl[k].ctx /\ cl'[k].st = cl[k].st
      BY <2>0, <3>1, StructTypes DEF TypeOK
    <3>. QED BY <2>0, <3>1, <3>2, <3>3 DEF TypeOK
  <2>2. TypeOK' BY <2>0, <2>1 DEF TypeOK
  <2>3. AllListed' /\ Newcomer' /\ Joined' BY <2>0 DEF AllListed, Newcomer, Joined, TypeOK
  <2>4. SlotOwners' /\ SlotKept' BY <2>1, SlotsKept
  <2>. QED BY <2>2, <2>3, <2>4 DEF IInv
<1>. QED BY <1>1, <1>2, <1>3, <1>4, <1>5, <1>6, <1>7 DEF Main

\* What a step of the client's thread does to the struct when it does not open the
\* AFU: every other step of it.
LEMMA LoopTypes ==
  ASSUME IInv, NEW k \in Clients, _client_loop(k)
  PROVE  /\ thread[k] = "run" /\ lock' \in {"none", "crash"}
         /\ UNCHANGED <<main, ocl, mem, clist>>
         /\ thread' \in [Clients -> {"none", "run", "exit"}]
         /\ out' \in [Clients -> MsgTypes]
         /\ \A j \in Clients : j # k => thread'[j] = thread[j] /\ app'[j] = app[j]
         /\ \/ /\ slot' = slot /\ cl' \in [Clients -> Client] /\ app' \in [Clients -> AppStates]
               /\ \A j \in Clients : cl'[j].ctx = cl[j].ctx
               /\ \A j \in Clients \ {k} : cl'[j].st = cl[j].st
               /\ app'[k] \in {app[k], "refused"}
            \/ Associated(k) /\ Exit(k)
<1>. TypeOK BY DEF IInv
<1>1. thread[k] = "run" /\ lock = "none" /\ UNCHANGED <<main, ocl, mem, clist>> BY DEF _client_loop, Busy
<1>. DEFINE Inner ==
       /\ slot' = slot /\ cl' \in [Clients -> Client] /\ app' \in [Clients -> AppStates]
       /\ \A j \in Clients : cl'[j].ctx = cl[j].ctx
       /\ \A j \in Clients \ {k} : cl'[j].st = cl[j].st /\ app'[j] = app[j]
       /\ app'[k] \in {app[k], "refused"}
            Threads == /\ thread' \in [Clients -> {"none", "run", "exit"}]
                       /\ \A j \in Clients : j # k => thread'[j] = thread[j]
<1>2. Exit(k) => Threads BY DEF Exit, TypeOK
<1>3. UNCHANGED thread => Threads BY DEF TypeOK
<1>4. out' = [out EXCEPT ![k] = ""] \/ out' = out => out' \in [Clients -> MsgTypes] BY DEF TypeOK, MsgTypes
<1>5. Dropped(k) => Inner BY StructTypes DEF Dropped, TypeOK
<1>6. Refused(k) => Inner
  <2>. SUFFICES ASSUME Refused(k) PROVE Inner OBVIOUS
  <2>1. cl' = [cl EXCEPT ![k] = [cl[k] EXCEPT !.fd = FALSE]] BY DEF Refused
  <2>2. app' \in [Clients -> AppStates] BY DEF Refused, TypeOK, AppStates
  <2>3. app'[k] \in {app[k], "refused"} /\ \A j \in Clients \ {k} : app'[j] = app[j] BY DEF Refused, TypeOK
  <2>4. [cl[k] EXCEPT !.fd = FALSE] \in Client /\ [cl[k] EXCEPT !.fd = FALSE].ctx = cl[k].ctx
    BY StructTypes DEF TypeOK
  <2>. QED BY <2>1, <2>2, <2>3, <2>4 DEF Refused, TypeOK
<1>7. _find(k) /\ UNCHANGED <<slot, app>> => Inner /\ lock' = lock
  BY StructTypes DEF _find, put_bytes, TypeOK
<1>8. _query(k) /\ UNCHANGED <<slot, app>> => Inner /\ lock' \in {lock, "crash"}
  <2>. SUFFICES ASSUME ocl.pc = "gone", lock' = "crash", UNCHANGED <<slot, app>>,
                       cl' = [j \in Clients |-> [cl[j] EXCEPT !.fd = FALSE]]
                PROVE  Inner
    BY <1>7 DEF _query
  <2>1. \A j \in Clients : /\ [cl[j] EXCEPT !.fd = FALSE] \in Client
                           /\ [cl[j] EXCEPT !.fd = FALSE].ctx = cl[j].ctx
                           /\ [cl[j] EXCEPT !.fd = FALSE].st = cl[j].st
    BY StructTypes DEF TypeOK
  <2>. QED BY <2>1 DEF TypeOK
<1>9. cl' = [cl EXCEPT ![k].pending = FALSE] /\ UNCHANGED <<slot, app>> => Inner
  <2>. SUFFICES ASSUME cl' = [cl EXCEPT ![k].pending = FALSE], UNCHANGED <<slot, app>> PROVE Inner
    OBVIOUS
  <2>1. cl' = [cl EXCEPT ![k] = [cl[k] EXCEPT !.pending = FALSE]] OBVIOUS
  <2>2. [cl[k] EXCEPT !.pending = FALSE] \in Client /\ [cl[k] EXCEPT !.pending = FALSE].ctx = cl[k].ctx
    BY StructTypes DEF TypeOK
  <2>. QED BY <2>1, <2>2 DEF TypeOK
<1>10. UNCHANGED <<cl, slot, app>> => Inner BY DEF TypeOK
<1>11. Associated(k) => \A j \in Clients : j # k => app'[j] = app[j] BY DEF Associated, TypeOK
<1>. HIDE DEF Inner, Threads
<1>12. Threads /\ out' \in [Clients -> MsgTypes] /\ (Inner \/ (Associated(k) /\ Exit(k)))
       /\ lock' \in {"none", "crash"}
  BY <1>1, <1>2, <1>3, <1>4, <1>5, <1>6, <1>7, <1>8, <1>9, <1>10 DEF _client_loop
<1>. QED BY <1>1, <1>11, <1>12 DEF Inner, Threads

\* A step of a client's thread.
LEMMA LoopStep == ASSUME IInv, NEW k \in Clients, _client_loop(k) PROVE IInv'
<1>. TypeOK /\ SlotOwners /\ SlotKept BY DEF IInv
<1>1. AllListed' /\ Newcomer' /\ Joined' BY LoopTypes, ListKept
<1>2. CASE /\ slot' = slot /\ cl' \in [Clients -> Client] /\ app' \in [Clients -> AppStates]
           /\ \A j \in Clients : cl'[j].ctx = cl[j].ctx
           /\ \A j \in Clients \ {k} : cl'[j].st = cl[j].st
           /\ app'[k] \in {app[k], "refused"}
  <2>1. TypeOK' BY <1>2, LoopTypes DEF TypeOK
  <2>2. app[k] \notin {"open", "closing"} BY LoopTypes DEF SlotOwners
  <2>3. SlotOwners' /\ SlotKept' BY <1>2, <2>2, LoopTypes, SlotsKept
  <2>. QED BY <1>1, <2>1, <2>3 DEF IInv
<1>3. CASE Associated(k) /\ Exit(k)
  <2>. DEFINE e == FirstEmpty
  <2>1. e \in Ctx /\ slot[e] = NoClient /\ slot' = [slot EXCEPT ![e] = k] /\ ocl' = ocl
    BY <1>3, FirstEmptyIsEmpty, LoopTypes DEF Associated
  <2>2. PICK ok \in BOOLEAN :
          cl' = [cl EXCEPT ![k] = [cl[k] EXCEPT !.ctx = e, !.st = "CLIENT_VALID",
                                                !.pending = FALSE, !.fd = ok]]
    BY <1>3 DEF Associated, put_bytes
  <2>. HIDE DEF e
  <2>3. /\ cl' \in [Clients -> Client] /\ cl'[k].ctx = e /\ cl'[k].st = "CLIENT_VALID"
        /\ \A j \in Clients \ {k} : cl'[j] = cl[j]
    <3>. DEFINE r == [cl[k] EXCEPT !.ctx = e, !.st = "CLIENT_VALID", !.pending = FALSE, !.fd = ok]
    <3>1. cl[k] \in Client BY DEF TypeOK
    <3>2. r \in Client /\ r.ctx = e /\ r.st = "CLIENT_VALID" BY <3>1, <2>1 DEF Client
    <3>. QED BY <2>2, <3>2 DEF TypeOK
  <2>4. app' \in [Clients -> AppStates] /\ \A j \in Clients \ {k} : app'[j] = app[j]
    BY <1>3 DEF Associated, TypeOK, AppStates
  <2>5. thread'[k] = "exit" /\ \A j \in Clients \ {k} : thread'[j] = thread[j] BY <1>3 DEF Exit, TypeOK
  <2>6. \A c \in Ctx : slot[c] # k BY LoopTypes, LifecycleAssumption DEF SlotOwners, LifecycleAssumption
  <2>7. TypeOK' BY <2>1, <2>3, <2>4, LoopTypes DEF TypeOK
  <2>8. \A c \in Ctx : slot'[c] = IF c = e THEN k ELSE slot[c] BY <2>1 DEF TypeOK
  <2>9. SlotOwners' BY <2>3, <2>4, <2>5, <2>6, <2>8 DEF SlotOwners, TypeOK
  <2>10. SlotKept'
    <3>1. ASSUME NEW j \in Clients, app'[j] \in {"open", "closing"}, ocl'.pc # "gone"
          PROVE  slot'[cl'[j].ctx] = j /\ cl'[j].st = "CLIENT_VALID"
      <4>1. CASE j = k BY <4>1, <2>1, <2>3, <2>8
      <4>2. CASE j # k
        <5>1. slot[cl[j].ctx] = j /\ cl[j].st = "CLIENT_VALID" /\ cl[j].ctx \in Ctx
          BY <3>1, <4>2, <2>1, <2>4 DEF SlotKept, TypeOK, Client
        <5>. QED BY <5>1, <4>2, <2>1, <2>3, <2>8, LifecycleAssumption DEF LifecycleAssumption
      <4>. QED BY <4>1, <4>2
    <3>2. \A c, d \in Ctx : slot'[c] = slot'[d] /\ slot'[c] # NoClient => c = d
      BY <2>6, <2>8 DEF SlotKept
    <3>. QED BY <3>1, <3>2 DEF SlotKept
  <2>. QED BY <1>1, <2>7, <2>9, <2>10 DEF IInv
<1>. QED BY <1>2, <1>3, LoopTypes

\* A step of the thread of the AFU.
LEMMA OclStep ==
  ASSUME IInv, Ocl \/ LostAfu \/ \E k \in Clients : CmdDrop(k)
  PROVE  IInv'
<1>. TypeOK /\ SlotOwners /\ SlotKept BY DEF IInv
<1>1. UNCHANGED <<main, thread, mem, clist>>
  BY DEF Ocl, _ocl_loop, EmptySlot, ReleaseSlot, _handle_client, LostAfu, CmdDrop
<1>2. AllListed' /\ Newcomer' /\ Joined' BY <1>1, ListKept
<1>3. ASSUME _ocl_loop PROVE IInv'
  <2>1. TypeOK' BY <1>3, StructTypes DEF _ocl_loop, TypeOK
  <2>2. SlotOwners' /\ SlotKept' BY <1>3, SlotsKept DEF _ocl_loop
  <2>. QED BY <1>2, <2>1, <2>2 DEF IInv
<1>4. ASSUME EmptySlot PROVE IInv'
  <2>1. TypeOK' BY <1>4, NextSlotType DEF EmptySlot, TypeOK
  <2>2. SlotOwners' /\ SlotKept' BY <1>4, SlotsKept DEF EmptySlot
  <2>. QED BY <1>2, <2>1, <2>2 DEF IInv
<1>5. ASSUME ReleaseSlot PROVE IInv'
  <2>. DEFINE c == ocl.cur
  <2>1. /\ c \in Ctx /\ slot[c] \in Clients /\ cl[slot[c]].st = "CLIENT_NONE" /\ ocl.pc = "slots"
        /\ slot' = [slot EXCEPT ![c] = NoClient] /\ UNCHANGED <<cl, app>>
    BY <1>5 DEF ReleaseSlot, Releasable, TypeOK
  <2>2. TypeOK' BY <1>5, <2>1, NextSlotType DEF ReleaseSlot, TypeOK
  <2>3. \A d \in Ctx : slot'[d] = IF d = c THEN NoClient ELSE slot[d] BY <2>1 DEF TypeOK
  <2>4. SlotOwners' BY <1>1, <2>1, <2>3 DEF SlotOwners
  <2>5. SlotKept'
    <3>1. ASSUME NEW k \in Clients, app[k] \in {"open", "closing"}
          PROVE  slot'[cl[k].ctx] = k /\ cl[k].st = "CLIENT_VALID"
      <4>1. slot[cl[k].ctx] = k /\ cl[k].st = "CLIENT_VALID" /\ cl[k].ctx \in Ctx
        BY <3>1, <2>1 DEF SlotKept, TypeOK, Client
      <4>. QED BY <4>1, <2>1, <2>3
    <3>. QED BY <3>1, <2>1, <2>3 DEF SlotKept
  <2>. QED BY <1>2, <2>2, <2>4, <2>5 DEF IInv
<1>6. ASSUME _handle_client PROVE IInv'
  <2>. DEFINE k == slot[ocl.cur]
              r == cl[k]
  <2>1. /\ k \in Clients /\ r \in Client /\ ocl.pc = "slots" /\ slot' = slot
        /\ ocl' \in [pc : {"delay", "slots", "gone"}, cur : Ctx] /\ lock' \in {"none", lock}
    BY <1>6, NextSlotType DEF _handle_client, TypeOK
  <2>2. PICK q \in Client :
          /\ Served(k, q) /\ q.ctx = r.ctx
          /\ \/ q.st = r.st /\ UNCHANGED <<app, out>>
             \/ app' = [app EXCEPT ![k] = "left"] /\ out' = [out EXCEPT ![k] = ""]
             \/ app[k] = "dead" /\ UNCHANGED <<app, out>>
    <3>1. /\ client_drop(r) \in Client /\ client_drop(r).ctx = r.ctx
          /\ [client_drop(r) EXCEPT !.fd = FALSE] \in Client
          /\ [client_drop(r) EXCEPT !.fd = FALSE].ctx = r.ctx
      BY <2>1, StructTypes
    <3>. QED BY <1>6, <2>1, <3>1 DEF _handle_client
  <2>. DEFINE q2 == [q EXCEPT !.idle = FALSE]
  <2>3. q2 \in Client /\ q2.ctx = r.ctx /\ q2.st = q.st BY <2>2, StructTypes
  <2>4. cl' = [cl EXCEPT ![k] = q2] BY <2>2 DEF Served
  <2>. HIDE DEF q2, k, r
  <2>5. cl' \in [Clients -> Client] /\ \A j \in Clients : cl'[j].ctx = cl[j].ctx
    BY <2>1, <2>3, <2>4 DEF TypeOK, r
  <2>6. app' \in [Clients -> AppStates] /\ out' \in [Clients -> MsgTypes]
    BY <2>1, <2>2 DEF TypeOK, AppStates, MsgTypes
  <2>7. \A j \in Clients : app'[j] \in {"open", "closing"} =>
          app[j] \in {"open", "closing"} /\ cl'[j].st = cl[j].st
    BY <2>1, <2>2, <2>3, <2>4 DEF TypeOK, r
  <2>8. TypeOK' BY <1>1, <2>1, <2>5, <2>6 DEF TypeOK
  <2>9. SlotOwners' /\ SlotKept' BY <1>1, <2>1, <2>5, <2>7, SlotsKept
  <2>. QED BY <1>2, <2>8, <2>9 DEF IInv
<1>7. ASSUME LostAfu PROVE IInv'
  <2>. DEFINE q(j) == [cl[j] EXCEPT !.fd = FALSE]
  <2>1. \A j \in Clients : q(j) \in Client /\ q(j).ctx = cl[j].ctx /\ q(j).st = cl[j].st
    BY StructTypes DEF TypeOK
  <2>2. cl' = [j \in Clients |-> IF InSlot(j) THEN q(j) ELSE cl[j]] BY <1>7 DEF LostAfu
  <2>. HIDE DEF q
  <2>3. /\ cl' \in [Clients -> Client]
        /\ \A j \in Clients : cl'[j].ctx = cl[j].ctx /\ cl'[j].st = cl[j].st
    BY <2>1, <2>2 DEF TypeOK
  <2>4. ocl' \in [pc : {"delay", "slots", "gone"}, cur : Ctx] /\ ocl'.pc = "gone"
    BY <1>7 DEF LostAfu, TypeOK
  <2>5. TypeOK' BY <1>7, <2>3, <2>4 DEF LostAfu, TypeOK
  <2>6. SlotOwners' /\ SlotKept' BY <1>7, <2>3, <2>4, SlotsKept DEF LostAfu
  <2>. QED BY <1>2, <2>5, <2>6 DEF IInv
<1>8. ASSUME NEW k \in Clients, CmdDrop(k) PROVE IInv'
  <2>1. client_drop(cl[k]) \in Client /\ client_drop(cl[k]).ctx = cl[k].ctx BY StructTypes DEF TypeOK
  <2>2. TypeOK' BY <1>8, <2>1 DEF CmdDrop, TypeOK
  <2>3. \A j \in Clients : /\ cl'[j].ctx = cl[j].ctx
                           /\ app'[j] \in {"open", "closing"} => cl'[j] = cl[j]
    BY <1>8, <2>1 DEF CmdDrop, TypeOK
  <2>4. SlotOwners' /\ SlotKept' BY <1>8, <2>3, SlotsKept DEF CmdDrop
  <2>. QED BY <1>2, <2>2, <2>4 DEF IInv
<1>. QED BY <1>3, <1>4, <1>5, <1>6, <1>7, <1>8 DEF Ocl

\* A step of an application.
LEMMA AppStep ==
  ASSUME IInv, NEW k \in Clients, Connect(k) \/ Die(k) \/ \E m \in MsgTypes : Write(k, m)
  PROVE  IInv'
<1>. TypeOK /\ SlotOwners /\ SlotKept BY DEF IInv
<1>1. UNCHANGED <<lock, main, ocl, thread, mem, cl, clist, slot>> BY DEF Connect, Die, Write
<1>2. AllListed' /\ Newcomer' /\ Joined' BY <1>1, ListKept
<1>3. PICK a \in AppStates :
        app' = [app EXCEPT ![k] = a] /\ (a \in {"open", "closing"} => app[k] \in {"open", "closing"})
  <2>1. CASE Connect(k) BY <2>1 DEF Connect, AppStates
  <2>2. CASE Die(k) BY <2>2 DEF Die, AppStates
  <2>3. ASSUME NEW m \in MsgTypes, Write(k, m)
        PROVE \E a \in AppStates :
                app' = [app EXCEPT ![k] = a] /\ (a \in {"open", "closing"} => app[k] \in {"open", "closing"})
    BY <2>3 DEF Write, AppStates, TypeOK
  <2>. QED BY <2>1, <2>2, <2>3
<1>4. out' \in [Clients -> MsgTypes] BY DEF Connect, Die, Write, TypeOK
<1>5. TypeOK' BY <1>1, <1>3, <1>4 DEF TypeOK
<1>6. \A j \in Clients : app'[j] \in {"open", "closing"} => app[j] \in {"open", "closing"}
  BY <1>3 DEF TypeOK
<1>7. SlotOwners' /\ SlotKept' BY <1>1, <1>6, SlotsKept
<1>. QED BY <1>2, <1>5, <1>7 DEF IInv

\* IInv is inductive.
THEOREM Invariant == Spec => []IInv
<1>1. IInv /\ [Next]_vars => IInv'
  <2>. SUFFICES ASSUME IInv, [Next]_vars PROVE IInv' OBVIOUS
  <2>1. CASE Main BY <2>1, MainStep
  <2>2. CASE Ocl \/ LostAfu \/ \E k \in Clients : CmdDrop(k) BY <2>2, OclStep
  <2>3. ASSUME NEW k \in Clients, _client_loop(k) PROVE IInv' BY <2>3, LoopStep
  <2>4. ASSUME NEW k \in Clients, Connect(k) \/ Die(k) \/ \E m \in MsgTypes : Write(k, m)
        PROVE  IInv'
    BY <2>4, AppStep
  <2>5. CASE UNCHANGED vars
    BY <2>5 DEF vars, IInv, TypeOK, AllListed, Newcomer, Joined, SlotOwners, SlotKept
  <2>. QED BY <2>1, <2>2, <2>3, <2>4, <2>5 DEF Next
<1>. QED BY <1>1, InitIInv, PTL DEF Spec

\* Every variable has its type.
THEOREM TypeCorrect == Spec => []TypeOK
<1>1. IInv => TypeOK BY DEF IInv
<1>. QED BY <1>1, Invariant, PTL

\* client_list holds exactly the structs that are allocated, each once: main,
\* which releases the lock after every struct that it frees, loses none of them
\* and finds no freed one there.
THEOREM ListCorrect == Spec => []AllListed
<1>1. IInv => AllListed BY DEF IInv
<1>. QED BY <1>1, Invariant, PTL

\* An application that has the AFU open has the slot of its context to itself.
THEOREM SlotsCorrect == Spec => []SlotKept
<1>1. IInv => SlotKept BY DEF IInv
<1>. QED BY <1>1, Invariant, PTL

-----------------------------------------------------------------------------
(***************************************************************************)
(* NoUseAfterFree does not hold: main's clean-up may free a struct before  *)
(* the slot of the client is emptied.  What is left of it holds whatever   *)
(* the applications do and whenever they connect: it is the clean-up alone *)
(* that leaves such a pointer, and it never takes the struct of an         *)
(* application that has neither left nor died.                             *)
(***************************************************************************)
\* main shuts ocse down.
ShuttingDown == main.pc \in {"down", "join", "done"}

\* main shuts down only once the AFU is gone.
DownAfterAfu == ShuttingDown => ocl.pc = "gone"

\* Only a client whose application has left or died is dropped, and no thread
\* serves it any more.
Departed ==
  \A k \in Clients : cl[k].st = "CLIENT_NONE" => ~cl[k].pending /\ app[k] \in {"left", "dead"}

\* The application that has asked for the AFU waits for the answer.
Asking == \A k \in Clients : out[k] = "open" => app[k] \in {"asked", "dead"}

\* Until the AFU is gone, the struct of an application that is connected, or has
\* the AFU open, is allocated.
UsersKept ==
  ~ShuttingDown =>
    \A k \in Clients : app[k] \in {"connected", "asked", "open", "closing"} => mem[k] = "live"

\* The inductive invariant of what is freed.
FInv == IInv /\ DownAfterAfu /\ Departed /\ Asking /\ UsersKept

\* A pointer to a struct that is not allocated comes only from main's clean-up.
FreedByCleanUp == [][NoUseAfterFree /\ ~_free_client => NoUseAfterFree']_vars

\* The step gives nobody a pointer and takes nothing out of memory.
LEMMA PointersKept ==
  ASSUME NoUseAfterFree, mem' = mem, \A k \in Clients : Referenced(k)' => Referenced(k)
  PROVE  NoUseAfterFree'
BY DEF NoUseAfterFree

\* Nobody becomes a user and nothing is freed.
LEMMA FreedKept ==
  ASSUME FInv, main'.pc = main.pc, ocl'.pc = ocl.pc, mem' = mem,
         \A k \in Clients : /\ app'[k] \in {app[k], "left", "dead"} \/ (app[k] = "asked" /\ app'[k] = "refused")
                            /\ out'[k] \in {out[k], ""}
                            /\ cl'[k].st = "CLIENT_NONE" =>
                                 /\ ~cl'[k].pending
                                 /\ app'[k] \in {"left", "dead"}
                            /\ app'[k] # app[k] => out'[k] = ""
  PROVE  DownAfterAfu' /\ Departed' /\ Asking' /\ UsersKept'
<1>1. DownAfterAfu' BY DEF FInv, DownAfterAfu, ShuttingDown
<1>2. Departed' BY DEF Departed
<1>3. Asking' BY DEF FInv, Asking
<1>4. UsersKept' BY DEF FInv, UsersKept, ShuttingDown
<1>. QED BY <1>1, <1>2, <1>3, <1>4

\* Steps of main.
LEMMA FreedMain ==
  ASSUME FInv, Main
  PROVE  /\ DownAfterAfu' /\ Departed' /\ Asking' /\ UsersKept'
         /\ NoUseAfterFree /\ ~_free_client => NoUseAfterFree'
<1>. DEFINE Goal == /\ DownAfterAfu' /\ Departed' /\ Asking' /\ UsersKept'
                    /\ NoUseAfterFree /\ ~_free_client => NoUseAfterFree'
<1>. TypeOK /\ SlotOwners /\ AllListed /\ Newcomer /\ Joined BY DEF FInv, IInv
<1>. DownAfterAfu /\ Departed /\ Asking /\ UsersKept BY DEF FInv
<1>0. ocl' = ocl /\ out' = out /\ slot' = slot
  BY DEF Main, Accept, Keep, _free_client, Relock, _client_connect, Terminate, Join
<1>1. ASSUME \E k \in Clients : Accept(k) PROVE Goal
  <2>0. main.pc = "accept" /\ main'.pc = "reap" /\ UNCHANGED <<thread, mem, cl, app>> BY <1>1 DEF Accept
  <2>1. \A j \in Clients : Referenced(j)' <=> Referenced(j) BY <1>0, <2>0 DEF Referenced, InSlot
  <2>. QED BY <1>0, <2>0, <2>1, PointersKept DEF DownAfterAfu, Departed, Asking, UsersKept, ShuttingDown
<1>2. ASSUME Keep PROVE Goal
  <2>0. main.pc = "reap" /\ main'.pc = "reap" /\ UNCHANGED <<thread, mem, cl, app>> BY <1>2 DEF Keep, TypeOK
  <2>1. \A j \in Clients : Referenced(j)' <=> Referenced(j) BY <1>0, <2>0 DEF Referenced, InSlot
  <2>. QED BY <1>0, <2>0, <2>1, PointersKept DEF DownAfterAfu, Departed, Asking, UsersKept, ShuttingDown
<1>3. ASSUME _free_client PROVE Goal
  <2>. DEFINE f == clist[main.pos]
  <2>0. /\ main.pc = "reap" /\ main'.pc = "reaping" /\ UNCHANGED <<thread, cl, app>>
        /\ mem' = [mem EXCEPT ![f] = "freed"]
    BY <1>3 DEF _free_client, TypeOK
  <2>1. f \in Clients /\ Reapable(f) BY <1>3 DEF _free_client, Newcomer, TypeOK
  <2>2. app[f] \in {"left", "dead"} BY <2>1 DEF Departed, Reapable
  <2>3. UsersKept' BY <2>0, <2>1, <2>2 DEF UsersKept, ShuttingDown, TypeOK
  <2>. QED BY <1>0, <1>3, <2>0, <2>3 DEF DownAfterAfu, Departed, Asking, ShuttingDown
<1>4. ASSUME Relock PROVE Goal
  <2>0. /\ UNCHANGED <<thread, mem, cl, app>> /\ main.pc \in {"reaping", "head"}
        /\ main'.pc \in {"reap", "accept"} \/ (main'.pc = "down" /\ ocl.pc = "gone")
    BY <1>4 DEF Relock, TypeOK
  <2>1. \A j \in Clients : Referenced(j)' <=> Referenced(j) BY <1>0, <2>0 DEF Referenced, InSlot
  <2>. QED BY <1>0, <2>0, <2>1, PointersKept DEF DownAfterAfu, Departed, Asking, UsersKept, ShuttingDown
<1>5. ASSUME _client_connect PROVE Goal
  <2>. USE <1>5 DEF _client_connect
  <2>. DEFINE n == main.k
  <2>0. main'.pc = "head" /\ n \in Clients /\ thread[n] = "none" /\ mem[n] = "none"
    BY DEF Newcomer, TypeOK
  <2>1. /\ \A j \in Clients \ {n} : mem'[j] = mem[j] /\ app'[j] = app[j] /\ cl'[j] = cl[j] /\ thread'[j] = thread[j]
        /\ \/ /\ mem'[n] = "live" /\ thread'[n] = "run" /\ cl'[n] = NewClient
              /\ app'[n] = app[n] \/ (app[n] = "knock" /\ app'[n] = "connected")
           \/ UNCHANGED <<mem, cl, app>> /\ thread'[n] = "exit"
    BY <2>0 DEF TypeOK
  <2>2. \A c \in Ctx : slot[c] # n BY <2>0, LifecycleAssumption DEF SlotOwners, LifecycleAssumption
  <2>3. NoUseAfterFree => NoUseAfterFree'
    BY <1>0, <2>0, <2>1, <2>2 DEF NoUseAfterFree, Referenced, InSlot
  <2>4. Departed' BY <2>1 DEF Departed, NewClient
  <2>5. Asking' BY <1>0, <2>1 DEF Asking
  <2>6. UsersKept' BY <2>0, <2>1 DEF UsersKept, ShuttingDown
  <2>7. DownAfterAfu' BY <2>0 DEF DownAfterAfu, ShuttingDown
  <2>. QED BY <2>3, <2>4, <2>5, <2>6, <2>7
<1>6. ASSUME Terminate PROVE Goal
  <2>. USE <1>6 DEF Terminate
  <2>0. main.pc = "down" /\ main'.pc \in {"join", "done"} /\ UNCHANGED <<thread, mem, app>> BY DEF TypeOK
  <2>1. \A j \in Clients : Referenced(j)' <=> Referenced(j) BY <1>0, <2>0 DEF Referenced, InSlot
  <2>2. \A j \in Clients : cl'[j].st = cl[j].st /\ (cl'[j].pending => cl[j].pending)
    <3>1. CASE clist = <<>> BY <3>1
    <3>2. CASE clist # <<>>
      <4>1. Head(clist) \in Clients BY <3>2 DEF TypeOK
      <4>2. cl' = [cl EXCEPT ![Head(clist)] = [cl[Head(clist)] EXCEPT !.pending = FALSE]] BY <3>2
      <4>. QED BY <4>1, <4>2 DEF TypeOK, Client
    <3>. QED BY <3>1, <3>2
  <2>3. DownAfterAfu' BY <1>0, <2>0 DEF DownAfterAfu, ShuttingDown
  <2>4. Departed' BY <2>0, <2>2 DEF Departed
  <2>5. Asking' BY <1>0, <2>0 DEF Asking
  <2>6. UsersKept' BY <2>0 DEF UsersKept, ShuttingDown
  <2>. QED BY <2>0, <2>1, <2>3, <2>4, <2>5, <2>6, PointersKept
<1>7. ASSUME Join PROVE Goal
  <2>. USE <1>7 DEF Join
  <2>0. /\ main.pc = "join" /\ main'.pc = "down" /\ UNCHANGED <<thread, app>>
        /\ main.k \in Clients /\ thread[main.k] = "exit"
    BY DEF Joined, TypeOK
  <2>1. ocl.pc = "gone" BY <2>0 DEF DownAfterAfu, ShuttingDown
  <2>2. NoUseAfterFree => NoUseAfterFree'
    BY <1>0, <2>0, <2>1 DEF NoUseAfterFree, Referenced, InSlot, TypeOK
  <2>3. \A j \in Clients : cl'[j].st = cl[j].st /\ cl'[j].pending = cl[j].pending
    <3>1. cl' = [cl EXCEPT ![main.k] = [cl[main.k] EXCEPT !.fd = FALSE]] OBVIOUS
    <3>. QED BY <2>0, <3>1 DEF TypeOK, Client
  <2>4. DownAfterAfu' BY <1>0, <2>1 DEF DownAfterAfu
  <2>5. Departed' BY <2>0, <2>3 DEF Departed
  <2>6. Asking' BY <1>0, <2>0 DEF Asking
  <2>7. UsersKept' BY <2>0 DEF UsersKept, ShuttingDown
  <2>. QED BY <2>2, <2>4, <2>5, <2>6, <2>7
<1>. QED BY <1>1, <1>2, <1>3, <1>4, <1>5, <1>6, <1>7 DEF Main

\* Steps of a client's thread.
LEMMA FreedLoop ==
  ASSUME FInv, NEW k \in Clients, _client_loop(k)
  PROVE  /\ DownAfterAfu' /\ Departed' /\ Asking' /\ UsersKept'
         /\ NoUseAfterFree => NoUseAfterFree'
<1>. IInv /\ TypeOK /\ SlotOwners BY DEF FInv, IInv
<1>. DownAfterAfu /\ Departed /\ Asking /\ UsersKept BY DEF FInv
<1>1. thread[k] = "run" /\ UNCHANGED <<main, ocl, mem>> BY DEF _client_loop
<1>2. /\ \A j \in Clients \ {k} : thread'[j] = thread[j] /\ app'[j] = app[j]
      /\ \A c \in Ctx : slot'[c] \in {slot[c], k}
  <2>1. slot' = slot \/ slot' = [slot EXCEPT ![FirstEmpty] = k] BY LoopTypes DEF Associated
  <2>. QED BY LoopTypes, <2>1 DEF TypeOK
<1>3. \A j \in Clients : Referenced(j)' => Referenced(j) BY <1>1, <1>2 DEF Referenced, InSlot
<1>4. NoUseAfterFree => NoUseAfterFree' BY <1>1, <1>3, PointersKept
<1>5. \A j \in Clients : out'[j] = out[j] \/ (j = k /\ out'[k] = "") BY DEF _client_loop, TypeOK
<1>6. CASE Associated(k) /\ out[k] = "open" /\ out'[k] = ""
  <2>1. app[k] \in {"asked", "dead"} BY <1>6 DEF Asking
  <2>2. app'[k] = (IF app[k] = "dead" THEN "dead" ELSE "open") BY <1>6 DEF Associated, TypeOK
  <2>3. \A j \in Clients \ {k} : cl'[j] = cl[j] BY <1>6 DEF Associated, TypeOK
  <2>4. cl'[k].st = "CLIENT_VALID"
    <3>1. PICK ok \in put_bytes(k) :
            cl' = [cl EXCEPT ![k] = [cl[k] EXCEPT !.ctx = FirstEmpty, !.st = "CLIENT_VALID",
                                                  !.pending = FALSE, !.fd = ok]]
      BY <1>6 DEF Associated
    <3>2. cl[k] \in Client BY DEF TypeOK
    <3>. QED BY <3>1, <3>2 DEF TypeOK, Client
  <2>5. Departed' BY <1>2, <2>3, <2>4 DEF Departed
  <2>6. Asking' BY <1>2, <1>5, <1>6 DEF Asking
  <2>7. UsersKept' BY <1>1, <1>2, <2>1, <2>2 DEF UsersKept, ShuttingDown
  <2>. QED BY <1>1, <1>4, <2>5, <2>6, <2>7 DEF DownAfterAfu, ShuttingDown
<1>7. CASE /\ app' = app \/ (Refused(k) /\ out[k] = "open" /\ cl[k].pending /\ out'[k] = "")
           /\ \A j \in Clients : cl'[j].st = "CLIENT_NONE" =>
                /\ ~cl'[j].pending
                /\ (cl[j].st = "CLIENT_NONE" /\ ~cl[j].pending) \/ app[j] = "dead"
  <2>1. app' # app => out[k] = "open" /\ out'[k] = "" /\ cl[k].pending /\ app[k] \in {"asked", "dead"}
    BY <1>7 DEF Asking
  <2>2. app' # app => app'[k] = (IF app[k] = "dead" THEN "dead" ELSE "refused")
    BY <1>7 DEF Refused, TypeOK
  <2>3. \A j \in Clients : cl'[j].st = "CLIENT_NONE" => ~cl'[j].pending /\ app'[j] \in {"left", "dead"}
    BY <1>2, <1>7, <2>1, <2>2 DEF Departed
  <2>. QED BY <1>1, <1>2, <1>4, <1>5, <2>1, <2>2, <2>3, FreedKept
<1>8. \/ Associated(k) /\ out[k] = "open" /\ out'[k] = ""
      \/ /\ app' = app \/ (Refused(k) /\ out[k] = "open" /\ cl[k].pending /\ out'[k] = "")
         /\ \/ UNCHANGED cl
            \/ cl' = [cl EXCEPT ![k] = client_drop(cl[k])] /\ app[k] = "dead"
            \/ cl' = [cl EXCEPT ![k] = [cl[k] EXCEPT !.fd = FALSE]]
            \/ cl' = [cl EXCEPT ![k] = [cl[k] EXCEPT !.pending = FALSE]]
            \/ cl' = [j \in Clients |-> [cl[j] EXCEPT !.fd = FALSE]]
  <2>1. _find(k) => UNCHANGED cl \/ (cl' = [cl EXCEPT ![k] = client_drop(cl[k])] /\ app[k] = "dead")
    <3>. SUFFICES ASSUME NEW ok \in put_bytes(k), cl' = [cl EXCEPT ![k] = IF ok THEN cl[k] ELSE client_drop(cl[k])]
                  PROVE  UNCHANGED cl \/ (cl' = [cl EXCEPT ![k] = client_drop(cl[k])] /\ app[k] = "dead")
      BY DEF _find
    <3>1. CASE ok BY <3>1 DEF TypeOK
    <3>2. CASE ~ok BY <3>2 DEF put_bytes
    <3>. QED BY <3>1, <3>2
  <2>2. out' = [out EXCEPT ![k] = ""] => out'[k] = "" BY DEF TypeOK
  <2>. QED BY <2>1, <2>2 DEF _client_loop, Dropped, Refused, _query
<1>9. \A r \in Client : /\ client_drop(r).st = "CLIENT_NONE" /\ ~client_drop(r).pending
                        /\ [r EXCEPT !.fd = FALSE].st = r.st /\ [r EXCEPT !.fd = FALSE].pending = r.pending
                        /\ [r EXCEPT !.pending = FALSE].st = r.st /\ ~[r EXCEPT !.pending = FALSE].pending
  BY DEF Client, client_drop
<1>10. \A j \in Clients : cl[j] \in Client BY DEF TypeOK
<1>11. cl \in [Clients -> Client] BY DEF TypeOK
<1>12. ASSUME \/ UNCHANGED cl
              \/ cl' = [cl EXCEPT ![k] = client_drop(cl[k])] /\ app[k] = "dead"
              \/ cl' = [cl EXCEPT ![k] = [cl[k] EXCEPT !.fd = FALSE]]
              \/ cl' = [cl EXCEPT ![k] = [cl[k] EXCEPT !.pending = FALSE]]
              \/ cl' = [j \in Clients |-> [cl[j] EXCEPT !.fd = FALSE]]
       PROVE  \A j \in Clients : cl'[j].st = "CLIENT_NONE" =>
                /\ ~cl'[j].pending
                /\ (cl[j].st = "CLIENT_NONE" /\ ~cl[j].pending) \/ app[j] = "dead"
  <2>. DEFINE Fine(q, r, a) == q.st = "CLIENT_NONE" =>
                /\ ~q.pending
                /\ (r.st = "CLIENT_NONE" /\ ~r.pending) \/ a = "dead"
  <2>0. \A j \in Clients : cl[j].st = "CLIENT_NONE" => ~cl[j].pending BY DEF Departed
  <2>1. \A j \in Clients : Fine(cl[j], cl[j], app[j]) BY <2>0
  <2>2. app[k] = "dead" => Fine(client_drop(cl[k]), cl[k], app[k]) BY <1>9, <1>10
  <2>3. \A j \in Clients : Fine([cl[j] EXCEPT !.fd = FALSE], cl[j], app[j]) BY <2>0, <1>9, <1>10
  <2>4. Fine([cl[k] EXCEPT !.pending = FALSE], cl[k], app[k]) BY <2>0, <1>9, <1>10
  <2>. SUFFICES \A j \in Clients : Fine(cl'[j], cl[j], app[j]) OBVIOUS
  <2>. HIDE DEF Fine
  <2>. QED BY <1>11, <1>12, <2>1, <2>2, <2>3, <2>4
<1>. QED BY <1>6, <1>7, <1>8, <1>12

\* Steps of the ocl thread and the loss of the AFU.
LEMMA FreedOcl ==
  ASSUME FInv, Ocl \/ LostAfu \/ \E k \in Clients : CmdDrop(k)
  PROVE  /\ DownAfterAfu' /\ Departed' /\ Asking' /\ UsersKept'
         /\ NoUseAfterFree => NoUseAfterFree'
<1>. IInv /\ TypeOK BY DEF FInv, IInv
<1>. DownAfterAfu /\ Departed /\ Asking /\ UsersKept BY DEF FInv
<1>1. UNCHANGED <<main, thread, mem>>
  BY DEF Ocl, _ocl_loop, EmptySlot, ReleaseSlot, _handle_client, LostAfu, CmdDrop
<1>2. /\ ocl.pc = "gone" => ocl'.pc = "gone"
      /\ ocl'.pc # "gone" => ocl.pc # "gone"
      /\ \A c \in Ctx : slot'[c] \in {slot[c], NoClient}
  BY DEF Ocl, _ocl_loop, EmptySlot, ReleaseSlot, _handle_client, LostAfu, CmdDrop, TypeOK
<1>3. \A j \in Clients : Referenced(j)' => Referenced(j)
  BY <1>1, <1>2, LifecycleAssumption DEF Referenced, InSlot, LifecycleAssumption
<1>4. NoUseAfterFree => NoUseAfterFree' BY <1>1, <1>3, PointersKept
<1>5. DownAfterAfu' BY <1>1, <1>2 DEF DownAfterAfu, ShuttingDown
<1>6. CASE UNCHANGED <<cl, app, out>>
  BY <1>1, <1>4, <1>5, <1>6 DEF Departed, Asking, UsersKept, ShuttingDown
<1>7. CASE LostAfu
  <2>1. \A j \in Clients : cl'[j].pending = cl[j].pending /\ cl'[j].st = cl[j].st
    BY <1>7 DEF LostAfu, TypeOK, Client
  <2>2. app' = app /\ out' = out BY <1>7 DEF LostAfu
  <2>. QED BY <1>1, <1>4, <1>5, <2>1, <2>2 DEF Departed, Asking, UsersKept, ShuttingDown
<1>8. ASSUME NEW k \in Clients, CmdDrop(k) PROVE Departed' /\ Asking' /\ UsersKept'
  <2>1. app[k] = "dead" /\ cl' = [cl EXCEPT ![k] = client_drop(cl[k])] /\ app' = app /\ out' = out
    BY <1>8 DEF CmdDrop
  <2>2. ~client_drop(cl[k]).pending BY DEF client_drop, TypeOK, Client
  <2>3. Departed' BY <2>1, <2>2 DEF Departed, TypeOK
  <2>. QED BY <1>1, <2>1, <2>3 DEF Asking, UsersKept, ShuttingDown
<1>9. CASE _handle_client
  <2>. DEFINE k == slot[ocl.cur]
              r == cl[k]
  <2>1. k \in Clients /\ r \in Client BY <1>9 DEF _handle_client, TypeOK
  <2>2. \/ cl' = [cl EXCEPT ![k] = [r EXCEPT !.idle = FALSE]] /\ UNCHANGED <<app, out>>
        \/ /\ cl' = [cl EXCEPT ![k] = [[client_drop(r) EXCEPT !.fd = FALSE] EXCEPT !.idle = FALSE]]
           /\ app' = [app EXCEPT ![k] = "left"] /\ out' = [out EXCEPT ![k] = ""]
        \/ /\ cl' = [cl EXCEPT ![k] = [client_drop(r) EXCEPT !.idle = FALSE]]
           /\ app[k] = "dead" /\ UNCHANGED <<app, out>>
    BY <1>9 DEF _handle_client, Served
  <2>3. /\ [r EXCEPT !.idle = FALSE].st = r.st /\ [r EXCEPT !.idle = FALSE].pending = r.pending
        /\ ~[[client_drop(r) EXCEPT !.fd = FALSE] EXCEPT !.idle = FALSE].pending
        /\ ~[client_drop(r) EXCEPT !.idle = FALSE].pending
    BY <2>1 DEF Client, client_drop
  <2>. HIDE DEF k, r
  <2>4. \A j \in Clients \ {k} : cl'[j] = cl[j] /\ app'[j] = app[j] /\ out'[j] = out[j]
    BY <2>2 DEF TypeOK
  <2>5. \/ cl'[k].st = cl[k].st /\ cl'[k].pending = cl[k].pending /\ app'[k] = app[k] /\ out'[k] = out[k]
        \/ /\ ~cl'[k].pending /\ app'[k] \in {"left", "dead"}
           /\ out'[k] = "" \/ (app[k] = "dead" /\ app'[k] = "dead" /\ out'[k] = out[k])
    <3>1. cl \in [Clients -> Client] /\ app \in [Clients -> AppStates] /\ out \in [Clients -> MsgTypes]
      BY DEF TypeOK
    <3>2. r = cl[k] BY DEF r
    <3>. QED BY <2>1, <2>2, <2>3, <3>1, <3>2
  <2>6. Departed' BY <2>4, <2>5 DEF Departed
  <2>7. Asking' BY <2>4, <2>5 DEF Asking
  <2>8. UsersKept' BY <1>1, <2>4, <2>5 DEF UsersKept, ShuttingDown
  <2>. QED BY <1>4, <1>5, <2>6, <2>7, <2>8
<1>. QED BY <1>4, <1>5, <1>6, <1>7, <1>8, <1>9 DEF Ocl, _ocl_loop, EmptySlot, ReleaseSlot

\* What applications do.
LEMMA FreedApp ==
  ASSUME FInv, NEW k \in Clients, Connect(k) \/ Die(k) \/ \E m \in MsgTypes : Write(k, m)
  PROVE  /\ DownAfterAfu' /\ Departed' /\ Asking' /\ UsersKept'
         /\ NoUseAfterFree => NoUseAfterFree'
<1>. IInv /\ TypeOK BY DEF FInv, IInv
<1>. DownAfterAfu /\ Departed /\ Asking /\ UsersKept BY DEF FInv
<1>1. UNCHANGED <<lock, main, ocl, thread, mem, cl, clist, slot>> BY DEF Connect, Die, Write
<1>2. \A j \in Clients : Referenced(j)' => Referenced(j) BY <1>1 DEF Referenced, InSlot
<1>3. NoUseAfterFree => NoUseAfterFree' BY <1>1, <1>2, PointersKept
<1>4. /\ \A j \in Clients \ {k} : app'[j] = app[j] /\ out'[j] = out[j]
      /\ \/ app'[k] = "dead" /\ out'[k] = out[k]
         \/ app[k] = "idle" /\ app'[k] = "knock" /\ out'[k] = out[k]
         \/ app[k] \in {"connected", "open"} /\ app'[k] \in {"connected", "asked", "open", "closing", "left"}
            /\ (out'[k] = "open" => app'[k] = "asked")
  <2>1. CASE Connect(k) BY <2>1 DEF Connect, TypeOK
  <2>2. CASE Die(k) BY <2>2 DEF Die, TypeOK
  <2>3. ASSUME NEW m \in MsgTypes, Write(k, m)
        PROVE  /\ \A j \in Clients \ {k} : app'[j] = app[j] /\ out'[j] = out[j]
               /\ app[k] \in {"connected", "open"} /\ app'[k] \in {"connected", "asked", "open", "closing", "left"}
               /\ (out'[k] = "open" => app'[k] = "asked")
    BY <2>3 DEF Write, TypeOK
  <2>. QED BY <2>1, <2>2, <2>3
<1>5. DownAfterAfu' BY <1>1 DEF DownAfterAfu, ShuttingDown
<1>6. Departed' BY <1>1, <1>4 DEF Departed
<1>7. Asking' BY <1>4 DEF Asking
<1>8. UsersKept' BY <1>1, <1>4 DEF UsersKept, ShuttingDown
<1>. QED BY <1>3, <1>5, <1>6, <1>7, <1>8

\* FInv is inductive, and a pointer into freed memory comes from nowhere else.
LEMMA FreedStep ==
  ASSUME FInv, [Next]_vars
  PROVE  /\ DownAfterAfu' /\ Departed' /\ Asking' /\ UsersKept'
         /\ NoUseAfterFree /\ ~_free_client => NoUseAfterFree'
<1>1. CASE Main BY <1>1, FreedMain
<1>2. CASE Ocl \/ LostAfu \/ \E k \in Clients : CmdDrop(k) BY <1>2, FreedOcl
<1>3. CASE \E k \in Clients : _client_loop(k) BY <1>3, FreedLoop
<1>4. CASE \E k \in Clients : Connect(k) \/ Die(k) \/ \E m \in MsgTypes : Write(k, m) BY <1>4, FreedApp
<1>5. CASE UNCHANGED vars
  BY <1>5 DEF vars, FInv, NoUseAfterFree, Referenced, InSlot, DownAfterAfu, Departed, Asking,
              UsersKept, ShuttingDown
<1>. QED BY <1>1, <1>2, <1>3, <1>4, <1>5 DEF Next

THEOREM FreedInvariant == Spec => []FInv
<1>1. Init => FInv
  <2>. SUFFICES ASSUME Init PROVE FInv OBVIOUS
  <2>1. IInv BY InitIInv
  <2>. QED BY <2>1 DEF Init, FInv, DownAfterAfu, Departed, Asking, UsersKept, ShuttingDown, NewClient
<1>2. FInv /\ [Next]_vars /\ IInv' => FInv' BY FreedStep DEF FInv
<1>. QED BY <1>1, <1>2, Invariant, PTL DEF Spec

\* Whatever connections arrive while clients leave, main's clean-up never frees the
\* struct of an application that is connected, waits for the AFU, has it open or
\* is closing it: until the AFU is gone, ocse frees only what has been dropped.
THEOREM UsersNeverFreed == Spec => []UsersKept
<1>1. FInv => UsersKept BY DEF FInv
<1>. QED BY <1>1, FreedInvariant, PTL

\* A slot of the AFU, or a thread, comes to point to a freed struct in one way
\* only, the clean-up before a new client (the race that life_freed shows): the
\* frees at shutdown, and every way to get a pointer, are safe.
THEOREM OnlyCleanUpDangles == Spec => FreedByCleanUp
<1>1. FInv /\ [Next]_vars => [NoUseAfterFree /\ ~_free_client => NoUseAfterFree']_vars BY FreedStep
<1>. QED BY <1>1, FreedInvariant, PTL DEF Spec, FreedByCleanUp
=============================================================================
