----------------------------- MODULE Lifecycle -----------------------------
(***************************************************************************)
(* The life of a client struct: ocse.c, client.c and the client slots of   *)
(* ocl.c.  Three kinds of threads share it under the one lock of ocse.     *)
(* main accepts connections, frees the structs of clients that have left   *)
(* and makes a struct and a thread for the new one; the client's thread    *)
(* (_client_loop) serves queries until the application opens the AFU and   *)
(* puts the struct in a slot; the thread of the AFU (_ocl_loop) serves the *)
(* slots and empties those whose client has left.                          *)
(*                                                                         *)
(* There is one AFU.  An application connects once and is named like its   *)
(* struct.  What a client does with the open AFU is in Cmd and Mmio.       *)
(***************************************************************************)
EXTENDS Naturals, Sequences, FiniteSets, SequencesExt

CONSTANTS
  Clients,      \* the applications
  NoClient,     \* NULL
  MaxClients,   \* ocl->max_clients
  DieStates,    \* states in which an application may exit without a word
  AfuDrops,     \* TRUE iff the simulator may close its connection
  Quiet         \* TRUE iff no connection arrives while a client is leaving

ASSUME LifecycleAssumption ==
  /\ NoClient \notin Clients
  /\ MaxClients \in Nat \ {0}
  /\ DieStates \subseteq {"knock", "connected", "asked", "open"}
  /\ AfuDrops \in BOOLEAN /\ Quiet \in BOOLEAN

Ctx == 0 .. (MaxClients - 1)

VARIABLES
  lock,    \* the thread that holds the lock; "none" if free, "crash" if ocse has crashed
  main,    \* main: where it is, and the client or list position it is at
  ocl,     \* _ocl_loop: where it is, and the slot it is at
  thread,  \* the threads of the clients: "none", "run", "exit"
  mem,     \* the structs: "none" (not allocated), "live", "freed"
  cl,      \* what is in the structs
  clist,   \* client_list
  slot,    \* ocl->client[]
  app,     \* the applications
  out      \* the message of each application that ocse has not read

vars == <<lock, main, ocl, thread, mem, cl, clist, slot, app, out>>

-----------------------------------------------------------------------------
\* idle: idle_cycles is not 0.  fd: FALSE once close_socket has made it -1.
Client == [pending : BOOLEAN, st : {"CLIENT_NONE", "CLIENT_INIT", "CLIENT_VALID"},
           idle : BOOLEAN, fd : BOOLEAN, ctx : Ctx]

NewClient == [pending |-> TRUE, st |-> "CLIENT_INIT", idle |-> FALSE, fd |-> TRUE, ctx |-> 0]

AppStates == {"idle", "knock", "connected", "asked", "open", "closing", "refused", "left", "dead"}
MsgTypes == {"", "find", "query", "open", "detach", "other"}

client_drop(r) == [r EXCEPT !.idle = TRUE, !.pending = FALSE, !.st = "CLIENT_NONE"]

\* put_bytes may still succeed when the application has just gone.
put_bytes(k) == IF app[k] = "dead" THEN BOOLEAN ELSE {TRUE}

Busy == lock # "none"

-----------------------------------------------------------------------------
(***************************************************************************)
(* Who still points to a struct besides client_list.                       *)
(***************************************************************************)
InSlot(k) == ocl.pc # "gone" /\ \E c \in Ctx : slot[c] = k
Referenced(k) == InSlot(k) \/ thread[k] = "run"

\* pending is 0 and the client is gone: main frees such a struct.
Reapable(k) == ~cl[k].pending /\ cl[k].st = "CLIENT_NONE"

Leaving(k) == Referenced(k) /\ (app[k] \in {"dead", "closing"} \/ Reapable(k))

Cleaning == main.pc \in {"reap", "reaping", "head"}

Init ==
  /\ lock = "none"
  /\ main = [pc |-> "accept", k |-> NoClient, pos |-> 0]
  /\ ocl = [pc |-> "delay", cur |-> 0]
  /\ thread = [k \in Clients |-> "none"]
  /\ mem = [k \in Clients |-> "none"]
  /\ cl = [k \in Clients |-> NewClient]
  /\ clist = <<>>
  /\ slot = [c \in Ctx |-> NoClient]
  /\ app = [k \in Clients |-> "idle"]
  /\ out = [k \in Clients |-> ""]

-----------------------------------------------------------------------------
(***************************************************************************)
(* main.                                                                   *)
(***************************************************************************)
\* accept returns; main waits for the lock and goes through client_list.
Accept(k) ==
  /\ main.pc = "accept" /\ ~Busy
  /\ app[k] \in {"knock", "dead"} /\ mem[k] = "none" /\ thread[k] = "none"
  /\ Quiet => \A j \in Clients : ~Leaving(j)
  /\ lock' = "main"
  /\ main' = [pc |-> "reap", k |-> k, pos |-> 1]
  /\ UNCHANGED <<ocl, thread, mem, cl, clist, slot, app, out>>

\* One struct of the list: it stays, or it is unlinked and freed and the lock is
\* released for a moment.
Keep ==
  /\ main.pc = "reap" /\ main.pos <= Len(clist) /\ ~Reapable(clist[main.pos])
  /\ main' = [main EXCEPT !.pos = @ + 1]
  /\ UNCHANGED <<lock, ocl, thread, mem, cl, clist, slot, app, out>>

\* Mutant: the struct is freed and stays in the list.
_free_client_NotUnlinked ==
  /\ main.pc = "reap" /\ main.pos <= Len(clist) /\ Reapable(clist[main.pos])
  /\ mem' = [mem EXCEPT ![clist[main.pos]] = "freed"]
  /\ main' = [main EXCEPT !.pc = "reaping", !.pos = @ + 1]
  /\ lock' = "none"
  /\ UNCHANGED <<ocl, thread, cl, clist, slot, app, out>>

_free_client ==
  /\ main.pc = "reap" /\ main.pos <= Len(clist) /\ Reapable(clist[main.pos])
  /\ mem' = [mem EXCEPT ![clist[main.pos]] = "freed"]
  /\ clist' = RemoveAt(clist, main.pos)
  /\ main' = [main EXCEPT !.pc = "reaping"]
  /\ lock' = "none"
  /\ UNCHANGED <<ocl, thread, cl, slot, app, out>>

\* The end of a lock_delay of main: in the clean-up, or before ocl_list is
\* looked at again.
Relock ==
  /\ ~Busy
  /\ \/ /\ main.pc = "reaping" /\ lock' = "main"
        /\ main' = [main EXCEPT !.pc = "reap"]
     \/ /\ main.pc = "head" /\ ocl.pc # "gone" /\ lock' = "none"
        /\ main' = [main EXCEPT !.pc = "accept"]
     \/ /\ main.pc = "head" /\ ocl.pc = "gone" /\ lock' = "main"
        /\ main' = [main EXCEPT !.pc = "down"]
  /\ UNCHANGED <<ocl, thread, mem, cl, clist, slot, app, out>>

\* The handshake; on success the struct is put in front of the list and its
\* thread started.  It fails when the application is gone.
_client_connect ==
  /\ main.pc = "reap" /\ main.pos > Len(clist)
  /\ \E ok \in put_bytes(main.k) :
       IF ok
       THEN /\ mem' = [mem EXCEPT ![main.k] = "live"]
            /\ cl' = [cl EXCEPT ![main.k] = NewClient]
            /\ clist' = <<main.k>> \o clist
            /\ thread' = [thread EXCEPT ![main.k] = "run"]
            /\ app' = [app EXCEPT ![main.k] = IF @ = "knock" THEN "connected" ELSE @]
       ELSE /\ thread' = [thread EXCEPT ![main.k] = "exit"]
            /\ UNCHANGED <<mem, cl, clist, app>>
  /\ main' = [main EXCEPT !.pc = "head"]
  /\ lock' = "none"
  /\ UNCHANGED <<ocl, slot, out>>

\* Mutant: pending is not cleared.
Terminate_Pending ==
  /\ main.pc = "down"
  /\ IF clist = <<>>
     THEN main' = [main EXCEPT !.pc = "done"] /\ UNCHANGED clist
     ELSE /\ main' = [main EXCEPT !.pc = "join", !.k = Head(clist)]
          /\ clist' = Tail(clist)
  /\ lock' = "none"
  /\ UNCHANGED <<ocl, thread, mem, cl, slot, app, out>>

\* Shutdown, once the AFU is gone: end each client's thread, wait for it
\* without the lock, free the struct.
Terminate ==
  /\ main.pc = "down"
  /\ IF clist = <<>>
     THEN main' = [main EXCEPT !.pc = "done"] /\ UNCHANGED <<cl, clist>>
     ELSE /\ main' = [main EXCEPT !.pc = "join", !.k = Head(clist)]
          /\ cl' = [cl EXCEPT ![Head(clist)].pending = FALSE]
          /\ clist' = Tail(clist)
  /\ lock' = "none"
  /\ UNCHANGED <<ocl, thread, mem, slot, app, out>>

Join ==
  /\ main.pc = "join" /\ thread[main.k] = "exit" /\ ~Busy
  /\ mem' = [mem EXCEPT ![main.k] = "freed"]
  /\ cl' = [cl EXCEPT ![main.k].fd = FALSE]
  /\ main' = [main EXCEPT !.pc = "down"]
  /\ lock' = "main"
  /\ UNCHANGED <<ocl, thread, clist, slot, app, out>>

Main == \/ \E k \in Clients : Accept(k)
        \/ Keep \/ _free_client \/ Relock \/ _client_connect \/ Terminate \/ Join

-----------------------------------------------------------------------------
(***************************************************************************)
(* The thread of a client; between two of its steps it is in lock_delay.   *)
(***************************************************************************)
Exit(k) == thread' = [thread EXCEPT ![k] = "exit"]

\* Mutant: no answer, and the socket stays open.
Refused_Silently(k) ==
  /\ ocl.pc = "gone" \/ \A c \in Ctx : slot[c] # NoClient
  /\ UNCHANGED <<cl, slot, app>>

\* _client_associate: no AFU, or no empty slot: the application is told to
\* detach and the socket closed; pending stays set.
Refused(k) ==
  /\ ocl.pc = "gone" \/ \A c \in Ctx : slot[c] # NoClient
  /\ cl' = [cl EXCEPT ![k].fd = FALSE]
  /\ app' = [app EXCEPT ![k] = IF @ = "dead" THEN @ ELSE "refused"]
  /\ UNCHANGED slot

\* Mutant: i <= max_clients.
EmptySlots_OneMore == {c \in 0 .. MaxClients : c = MaxClients \/ slot[c] = NoClient}

EmptySlots == {c \in Ctx : slot[c] = NoClient}

FirstEmpty == CHOOSE c \in EmptySlots : \A d \in EmptySlots : c <= d

Associated(k) ==
  /\ ocl.pc # "gone" /\ EmptySlots # {}
  /\ slot' = [slot EXCEPT ![FirstEmpty] = k]
  /\ \E ok \in put_bytes(k) :
       cl' = [cl EXCEPT ![k] = [@ EXCEPT !.ctx = FirstEmpty, !.st = "CLIENT_VALID",
                                         !.pending = FALSE, !.fd = ok]]
  /\ app' = [app EXCEPT ![k] = IF @ = "dead" THEN @ ELSE "open"]

\* The application has gone before it had sent everything.
Dropped(k) ==
  /\ app[k] = "dead"
  /\ cl' = [cl EXCEPT ![k] = client_drop(@)]
  /\ UNCHANGED <<slot, app>>

\* _find and _find_nth: they drop the client when it cannot be answered.
_find(k) ==
  /\ \E ok \in put_bytes(k) : cl' = [cl EXCEPT ![k] = IF ok THEN @ ELSE client_drop(@)]
  /\ UNCHANGED lock

\* _query: the same, but it follows the pointer that _find_ocl returns, which is
\* NULL when the AFU is gone.  The process ends and its sockets are closed.
_query(k) ==
  \/ ocl.pc # "gone" /\ _find(k)
  \/ /\ ocl.pc = "gone" /\ lock' = "crash"
     /\ cl' = [j \in Clients |-> [cl[j] EXCEPT !.fd = FALSE]]

_client_loop(k) ==
  /\ thread[k] = "run" /\ ~Busy
  /\ \/ /\ ~cl[k].pending /\ Exit(k)
        /\ UNCHANGED <<lock, cl, slot, app, out>>
     \/ /\ cl[k].pending /\ Dropped(k) /\ Exit(k)
        /\ out' = [out EXCEPT ![k] = ""]
        /\ UNCHANGED lock
     \/ /\ cl[k].pending
        /\ (out[k] = "find" /\ _find(k)) \/ (out[k] = "query" /\ _query(k))
        /\ out' = [out EXCEPT ![k] = ""]
        /\ UNCHANGED <<thread, slot, app>>
     \/ /\ cl[k].pending /\ out[k] = "open" /\ Exit(k)
        /\ Refused(k) \/ Associated(k) \/ Dropped(k)
        /\ out' = [out EXCEPT ![k] = ""]
        /\ UNCHANGED lock
     \/ /\ cl[k].pending /\ out[k] \notin {"", "find", "query", "open"} /\ Exit(k)
        /\ cl' = [cl EXCEPT ![k].pending = FALSE]
        /\ out' = [out EXCEPT ![k] = ""]
        /\ UNCHANGED <<lock, slot, app>>
  /\ UNCHANGED <<main, ocl, mem, clist>>

-----------------------------------------------------------------------------
(***************************************************************************)
(* The thread of the AFU.                                                  *)
(***************************************************************************)
\* The lock is taken for one iteration of the loop; or the AFU is found to be
\* gone, the sockets of the clients are closed and everything of it is freed.
_ocl_loop ==
  /\ ocl.pc = "delay" /\ ~Busy
  /\ lock' = "ocl" /\ ocl' = [pc |-> "slots", cur |-> 0]
  /\ UNCHANGED <<main, thread, mem, cl, clist, slot, app, out>>

LostAfu ==
  /\ AfuDrops /\ ocl.pc = "delay" /\ ~Busy
  /\ ocl' = [ocl EXCEPT !.pc = "gone"]
  /\ cl' = [k \in Clients |-> IF InSlot(k) THEN [cl[k] EXCEPT !.fd = FALSE] ELSE cl[k]]
  /\ UNCHANGED <<lock, main, thread, mem, clist, slot, app, out>>

NextSlot ==
  IF ocl.cur + 1 \in Ctx
  THEN ocl' = [ocl EXCEPT !.cur = @ + 1] /\ UNCHANGED lock
  ELSE ocl' = [pc |-> "delay", cur |-> 0] /\ lock' = "none"

\* Mutant: the state of the client is not checked.
Releasable_AnyState(r) == ~r.idle

Releasable(r) == r.st = "CLIENT_NONE" /\ ~r.idle

EmptySlot ==
  /\ ocl.pc = "slots" /\ slot[ocl.cur] = NoClient
  /\ NextSlot
  /\ UNCHANGED <<main, thread, mem, cl, clist, slot, app, out>>

ReleaseSlot ==
  /\ ocl.pc = "slots" /\ slot[ocl.cur] # NoClient /\ Releasable(cl[slot[ocl.cur]])
  /\ slot' = [slot EXCEPT ![ocl.cur] = NoClient]
  /\ NextSlot
  /\ UNCHANGED <<main, thread, mem, cl, clist, app, out>>

\* Mutant: idle_cycles are not run down.
Served_StaysIdle(k, r) == cl' = [cl EXCEPT ![k] = r]

\* idle_cycles of the client are run down before the next slot.  client_cmd sets
\* them again while commands of the client are open; there are none here (Cmd).
Served(k, r) == cl' = [cl EXCEPT ![k] = [r EXCEPT !.idle = FALSE]]

\* A socket that is closed never has bytes ready, nor is it found to be lost.
_handle_client ==
  /\ ocl.pc = "slots" /\ slot[ocl.cur] # NoClient /\ ~Releasable(cl[slot[ocl.cur]])
  /\ LET k == slot[ocl.cur]
         r == cl[k]
         heard == r.st # "CLIENT_NONE" /\ r.fd
     IN  \/ /\ ~heard \/ (app[k] # "dead" /\ out[k] = "")
            /\ Served(k, r) /\ UNCHANGED <<app, out>>
         \/ /\ heard /\ out[k] = "detach"
            /\ Served(k, [client_drop(r) EXCEPT !.fd = FALSE])
            /\ app' = [app EXCEPT ![k] = "left"]
            /\ out' = [out EXCEPT ![k] = ""]
         \/ /\ heard /\ out[k] = "" /\ app[k] = "dead"
            /\ Served(k, client_drop(r)) /\ UNCHANGED <<app, out>>
  /\ NextSlot
  /\ UNCHANGED <<main, thread, mem, clist, slot>>

\* A command handler finds the socket dead before the slots are looked at (Cmd).
CmdDrop(k) ==
  /\ ocl.pc = "slots" /\ ocl.cur = 0
  /\ InSlot(k) /\ app[k] = "dead" /\ cl[k].st = "CLIENT_VALID"
  /\ cl' = [cl EXCEPT ![k] = client_drop(@)]
  /\ UNCHANGED <<lock, main, ocl, thread, mem, clist, slot, app, out>>

Ocl == _ocl_loop \/ EmptySlot \/ ReleaseSlot \/ _handle_client

-----------------------------------------------------------------------------
(***************************************************************************)
(* The applications.                                                       *)
(***************************************************************************)
Connect(k) ==
  /\ app[k] = "idle"
  /\ app' = [app EXCEPT ![k] = "knock"]
  /\ UNCHANGED <<lock, main, ocl, thread, mem, cl, clist, slot, out>>

\* A connected application asks about the AFU, opens it or sends what it should
\* not; one that has opened the AFU closes it.
Write(k, m) ==
  /\ out[k] = ""
  /\ \/ app[k] = "connected" /\ m \in {"find", "query", "open", "other"}
     \/ app[k] = "open" /\ m = "detach" /\ (Quiet => ~Cleaning)
  /\ out' = [out EXCEPT ![k] = m]
  /\ app' = [app EXCEPT ![k] = CASE m = "open" -> "asked" [] m = "detach" -> "closing"
                                   [] m = "other" -> "left" [] OTHER -> @]
  /\ UNCHANGED <<lock, main, ocl, thread, mem, cl, clist, slot>>

Die(k) ==
  /\ app[k] \in DieStates /\ (Quiet => ~Cleaning)
  /\ app' = [app EXCEPT ![k] = "dead"]
  /\ UNCHANGED <<lock, main, ocl, thread, mem, cl, clist, slot, out>>

Next ==
  \/ Main \/ Ocl \/ LostAfu
  \/ \E k \in Clients : _client_loop(k) \/ CmdDrop(k) \/ Connect(k) \/ Die(k)
  \/ \E k \in Clients, m \in MsgTypes : Write(k, m)

Spec == Init /\ [][Next]_vars

\* Every thread that waits for the lock gets it: lock_delay releases it and sleeps.
FairSpec ==
  /\ Spec
  /\ SF_vars(Main)
  /\ SF_vars(Ocl)
  /\ \A k \in Clients : SF_vars(_client_loop(k))

-----------------------------------------------------------------------------
(***************************************************************************)
(* Properties.                                                             *)
(***************************************************************************)
\* Every variable has its type.
TypeOK ==
  /\ lock \in {"none", "main", "ocl", "crash"}
  /\ main \in [pc : {"accept", "reap", "reaping", "head", "down", "join", "done"},
               k : Clients \cup {NoClient}, pos : Nat]
  /\ ocl \in [pc : {"delay", "slots", "gone"}, cur : Ctx]
  /\ thread \in [Clients -> {"none", "run", "exit"}]
  /\ mem \in [Clients -> {"none", "live", "freed"}]
  /\ cl \in [Clients -> Client]
  /\ clist \in Seq(Clients)
  /\ slot \in [Ctx -> Clients \cup {NoClient}]
  /\ app \in [Clients -> AppStates] /\ out \in [Clients -> MsgTypes]

\* No thread is left with a pointer to a struct that main has freed: neither a
\* slot of the AFU nor a client's own thread.
NoUseAfterFree == \A k \in Clients : Referenced(k) => mem[k] = "live"

\* An application that has opened the AFU has the slot of its context to itself
\* until it closes or dies, however the slots empty and fill around it.
SlotKept ==
  /\ \A k \in Clients : app[k] \in {"open", "closing"} /\ ocl.pc # "gone" =>
       slot[cl[k].ctx] = k /\ cl[k].st = "CLIENT_VALID"
  /\ \A c, d \in Ctx : slot[c] = slot[d] /\ slot[c] # NoClient => c = d

\* Every struct that is allocated is in client_list, once, and nothing that is
\* freed is; main may have taken one out to wait for its thread.
AllListed ==
  /\ IsInjective(clist)
  /\ \A k \in Clients : mem[k] = "live" <=>
       k \in ToSet(clist) \/ (main.pc = "join" /\ main.k = k)

\* An application that asks to open the AFU gets an answer or, when ocse shuts
\* down, sees its connection closed.
OpenAnswered ==
  \A k \in Clients :
    (app[k] = "asked") ~> (app[k] \in {"open", "refused", "dead"} \/ ~cl[k].fd)

\* The slot of a client that has left or died is emptied.
SlotReleased ==
  \A k \in Clients : (InSlot(k) /\ app[k] \in {"left", "dead"}) ~> ~InSlot(k)

\* When the AFU is gone and main is not in accept, main ends every client's thread
\* and ocse terminates, at the end of main unless a query has crashed it.
ShutdownEnds ==
  (ocl.pc = "gone" /\ main.pc # "accept") ~> (main.pc = "done" \/ lock = "crash")
=============================================================================
