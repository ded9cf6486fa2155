# A TLA+ model of ocse

ocse (OpenCAPI Simulation Engine) sits between applications that use an
accelerator (AFU) through the library `libocxl` and an RTL simulator that runs
the AFU. It is the bus and the host side of the TLX link: it clocks the AFU,
carries its commands to the memory of the applications, and carries MMIO, LPC
memory and configuration accesses of the host to the AFU.

This directory holds TLA+ modules for the parts of ocse that keep state, TLC
configurations that check them on small instances, and proofs that TLAPS
checks. `PROJECT.json` maps every definition to the source lines it models.

## 1. Inventory

| Part | Source | State | Operations | Modelled in |
|---|---|---|---|---|
| server: main, one thread per client | `ocse/ocse.c`, `ocse/client.c` | `client_list`, `client->pending/state/fd` | accept, clean-up, `_client_connect`, `_find`, `_query`, `_client_associate`, shutdown | `Lifecycle` |
| ocl thread (one per AFU) | `ocse/ocl.c` | `ocl->client[]`, `state`, `attached_clients`, `idle_cycles` | clock, `_handle_afu`, `_handle_client`, `_attach`, `_detach`, release of slots | its part in each of `Cmd`, `Mmio`, `Lifecycle` |
| command engine | `ocse/cmd.c` | `cmd->list` of events, `client->mem_access`, `client->actag` | `handle_response`, `handle_buffer_write`, `handle_xlate_intrp_pending_sent`, `handle_cmd`, `handle_afu_tlx_cmd_data_read`, `handle_afu_tlx_write_cmd`, `handle_interrupt`, `handle_write_be_or_amo`, `handle_mem_return`, `handle_aerror`, `client_cmd` | `Cmd`, `CmdAbs` |
| host accesses | `ocse/mmio.c` | `mmio->list`, `client->mmio_access` | `_add_event`, `send_mmio`, `handle_ap_resp`, `handle_ap_resp_data`, `handle_mmio_done`, `handle_mmio`, `handle_mem`, `handle_mmio_map`, `_wait_for_done` | `Mmio` |
| TLX interface, both sides | `common/tlx_interface.c` | an `AFU_EVENT` on each side: valid bits, credits, receive buffer | send, read, signal and get functions | `Link`; the ports and credits of `Cmd` and `Mmio` |
| AFU driver | `afu_driver/src/afu_driver.c` | its event, wires, valid counters, data queues | `tlx_bfm` at both clock edges, `tlx_control` | `Link` |
| library | `libocxl/libocxl.c`, `libocxl_lpc.c` | `struct ocxl_afu`, its requests, event queue and pipe, list of waiting threads | open, attach, map, MMIO, LPC, irq, event, wait, close; `_psl_loop` | `Libocxl`; as the applications of `Cmd`, `Mmio`, `Lifecycle` |
| memory handlers of the library | `libocxl/libocxl.c` | the memory of the application | read, write, byte-enabled write, touch, atomic operations | `HostMem` |
| sockets, lock | `common/utils.c` | file descriptors, the one ocse lock | `put_bytes`, `get_bytes`, `bytes_ready`, `lock_delay` | as outcomes of the actions that call them |
| parameters | `ocse/parms.c` | percentages and seed | `allow_*` | `Faults`, `Reorder` of `Cmd` |
| debug log, shim host file, test configuration space, tests | `common/debug.c`, `ocse/shim_host.c`, ... | | | not modelled |

How they interact. Each AFU has one ocl thread; main and every client that has
not opened the AFU yet have a thread of their own. All of them run under one
lock. A thread gives it up only in `lock_delay` (and, main, around `accept` and
`pthread_join`), so a handler is atomic with respect to the other threads, but
the applications and the simulator, which are other processes, act at any time:
sockets fill, close and break between any two steps. An iteration of
`_ocl_loop` exchanges one packet with the AFU, runs the handlers of
`_handle_afu` in a fixed order and then looks at each client slot. A handler
does at most one thing per iteration, to the first event of a list that is
ready for it.

In the application's process the threads of the application and the one thread of
the library share `struct ocxl_afu` without a lock (only the event queue has one): a
call fills a request and spins until its state is IDLE, the thread of the library
sends it and makes it IDLE. In the simulator's process the driver is called at both
edges of the clock; it samples and drives the wires at one edge and exchanges packets
at the other.

What is hard here:

- acknowledgements, responses and data beats carry too little to say what they
  belong to; the code infers it (`mem_access`, the head of the list, the first
  write that waits), and the inference has to survive clients that leave;
- an answer that is split, or delayed for want of a credit, is advanced and
  rolled back by hand;
- a struct (event, client) is reached from a list, a slot, a client and a
  thread, and unlinked, freed and forgotten in different places;
- the clock of the AFU stops when nobody seems to need it;
- nothing on the link is retransmitted: a message, a credit bit or a line of data
  that is dropped or kept for one clock too many is lost or doubled for good;
- flags that several threads set and clear without a lock decide whether a call
  returns;
- failures come half way: a socket breaks between a request and its
  answer, the AFU fails an access, the simulator goes away.

`PROJECT.json` lists these places line by line under `hazards`.

## 2. Modules

### `Cmd`: commands of the AFU

One action per handler; `pc` is the place of the ocl thread in the iteration,
`cur` the slot. `list` is `cmd->list`, `ev` the events by afutag (the code ends
when two live events have the same afutag: `pc = "exit"`), `client` the slots
with the fields that commands use, `inbox` the requests that are with an
application, `port` and `credits` the response port, `cmdport` and `cdata` the
ports of the AFU. The AFU itself is `afu`, `dq` and `amap`: what it has sent
and received for each tag, the beats it owes, and the actags it has assigned.
It uses a tag again only when the command before has been answered.

Abstracted: addresses and contents. Sizes are counted in flits of 64 bytes.
Data is followed by identity: `good` says that every beat an event gathered is
the one the AFU sent for that place of that command, `ret` that the application
returned the data of a read. `resp_dp` is kept modulo 4, the bits that
reach the AFU. The random decisions of `ocse.parms` are choices among
`Faults`. `idle_cycles` of a client is a Boolean, because the loop runs it down
to 0 in one go. `put_bytes` and `get_bytes` succeed on an open socket; on one
whose peer is gone a write may succeed or fail.

Ghosts: `own` and `gen` number the clients of a slot.

### `CmdAbs`: what the engine promises

One variable, a phase per tag: idle, accepted, asked, settled, deferred. An
application is asked for one command at a time; a settled command is answered in
parts that add up to its length, or fails before any part, or is deferred and
then resumed. `Cmd!ImplementsAbs` is the refinement; it is claimed for clients
that stay (`Leaves = {}`), since a command of a client that leaves is not always
answered (section 5).

### `Mmio`: accesses of the host

The list of accesses with the places that point into it: `client->mmio_access`
and the thread in `read_afu_config`. Events are named by their place in memory,
so a freed one can be allocated again; `Reachable` is what some pointer still
reaches, and memory that was leaked can be used again by the model to keep it
finite. `MaxEvents = 3` is never the limit in the runs: each client and the
configuration thread have at most one access. The AFU takes a command, chooses a
script of packets (a response with its data, before or after it, whole or, if
`Answers` allows it, in halves or failed) and plays it one packet per clock. The
clock rule of `_ocl_loop` (`attached_clients`, `idle_cycles`, `OCSE_DESC`) is
`Refreshed`, `Stopped` and `Clock`. Places 4 and 5 of a buffer are past its end.

### `Lifecycle`: structs, slots and threads

`main`, `_client_loop` and `_ocl_loop` as three kinds of processes under `lock`;
`mem` says whether a struct is allocated, live or freed. What main
does without the lock (`accept`, the wait in `pthread_join`, `lock_delay` in its
clean-up) is where other threads step in. A query when the AFU is gone follows a
NULL pointer; that is the value "crash" of `lock`, after which nothing happens.

### `Link`: the socket between ocse and the simulator

Both sides of `tlx_interface.c` with `tlx_bfm`. `host` and `drv` are the two
`AFU_EVENT`s (`out` what the next packet takes, `in` what the last one brought, `ret`
and `aret` credit bits, `avail` credit counters), `toDrv` and `toHost` the packets
under way. ocse signals, gets, handles and sends, one action each; the driver has
`DriverLow` (clock 0: take the outputs of the AFU into the event, drive its inputs
from it, in the order of the code) and `DriverHigh` (clock 1: send the packet, then
decode the one that came). A packet that is only a clock is not decoded, which is
why some fields stay as they were. `HostShort` and `DriverShort` are calls that find
less than a packet on the socket, `HostReenter` and `DriverReenter` the calls after
them. A message is its number on its line; a line of data is its number too, so that
loss, doubling and reordering show. `engine` stands for `cmd.c` and `mmio.c`: which
lines ocse reads and what it sends. The AFU (`Outputs`, `AfuSees`) is external: it
keeps its own credit counts from what it sees on the wires.

### `Libocxl`: the library and its threads

`thr` are the threads of the application, each in at most one call; `psl` is the
place of the library's thread in `_psl_loop`, which looks at the requests in a fixed
order and then at the socket; `afu` and `req` are `struct ocxl_afu`; `waits` is
`ocxl_wait_list`, whose scan and insertion are separate steps of two threads. Where
the order of assignments can be seen by another thread it is kept: `_all_idle` makes
requests IDLE first and clears the flags after that (`PslLoses`, `AllIdleFlags`),
`OCSE_DETACH` the other way round (`PslDetach`, `DetachRequests`). The ghost `got` of
a request is the request that the answer was for. ocse is what the library sees of
it; it may go away at any time, with or without what is under way.

Merged: the tests at the start of a call and the filling of its request are one step.
Left out: the pointer `mem.data`, the contents of accesses.

### `HostMem`: memory commands and atomic operations

One command and its answer per behaviour: the handlers keep no state but the memory.
A byte is one bit and a 4-byte operand `Word` bytes, so byte order (`Swapped`),
overflow, sign and the place of the operands (`op_lanes`) still show, and memory and
operands can be enumerated. An operand the code leaves uninitialised is any value.
`Served` compares with a reference definition in integers (`NewValue`, `Extent`).

### Proof modules

| Module | Extends | About |
|---|---|---|
| `ListLemmas` | | unlinking, inserting, taking the head of a list without repetition; the first slot with a property |
| `CmdProofs` | `Cmd` | types, list, acknowledgements |
| `CmdAnswerProofs` | `CmdProofs` | events and what the AFU knows of their tags; split answers; actags; the data of writes |
| `CmdRefinementProofs` | `CmdAnswerProofs` | clients that stay: answers, data of reads, `CmdAbs` |
| `MmioProofs` | `Mmio`, `ListLemmas` | all invariants of `Mmio` |
| `LifecycleProofs` | `Lifecycle`, `ListLemmas` | all invariants of `Lifecycle` |
| `LibocxlProofs` | `Libocxl`, `ListLemmas` | all invariants of `Libocxl` |
| `LinkProofs` | `Link`, `ListLemmas` | all invariants of `Link` |

Section 6 says what they show.

### MC modules

`MCCmd`, `MCMmio`, `MCLifecycle`, `MCLink`, `MCLibocxl` and `MCHostMem` name the mixes
of commands, credits and memories that the `.cfg` files choose from. Properties are in
the modules they are about. An operator with a suffix after its name and the comment
"Mutant" is a faulty version of the operator below it; it is used nowhere, and each
property is known to be violated when one of them takes the operator's place.

## 3. Runs that pass

| Run | Instance | Shows |
|---|---|---|
| `cmd_memory` | 1 client that stays, 2 tags, 1 response credit, HOST_CL 128, 17 kinds of commands, all memory faults | only tags that wait are answered (`AnswersAwaited`), in parts that fit (`PartsExact`); data of writes is complete and not mixed up (`WriteDataIntact`); a good read has data (`GoodReadHasData`); each command lives as `CmdAbs` says (`ImplementsAbs`) |
| `cmd_clients` | 2 slots, 2 clients that open, detach, die; reordering; interrupts | an acknowledgement belongs to the request it is taken for (`AckMatchesRequest`), and commands are carried out for the context their actag was assigned to (`RoutedToAssigned`) |
| `cmd_live` | 1 client, 3 tags, split reads, writes and atomics, pending answers | reads are answered; so are writes, unless the AFU issues reads for ever, and atomics, unless it issues reads or writes for ever (`Answered`); a pending command is resumed, unless ocse sends responses for ever (`Resumed`) |
| `mmio_access` | start-up with 3 configuration accesses, then 2 clients that attach, map, access, detach, die; failed writes, split answers | responses are attributed to the right access (`ResponseIsHeads`, `PerformedOnce`), no pointer dangles (`NoDangling`), a client gets its own result (`AccessIsOwn`), with every flit at its place if the answer is not split (`ReadDataIntact`), credits are never overdrawn (`CreditsHeld`); `RequestAnswered`, `ConfigurationRead` |
| `life_slots` | 2 applications, 1 slot, deaths, loss of the AFU | a client keeps its slot (`SlotKept`), the list holds the live structs (`AllListed`), opens are answered (`OpenAnswered`), slots come back (`SlotReleased`), ocse terminates (`ShutdownEnds`) |
| `link_messages` | one credit and one message on each line, a line of data with each, one short read | messages reach the other side once and in order (`HostToAfu`, `AfuToHost`), every credit is in a counter, with a message or on its way (`CreditsKept`) |
| `link_live` | start-up, two configuration accesses and a write with two lines of data, one short read of the first byte | initial credits are exchanged (`CreditsExchanged`), configuration accesses are answered (`CfgAnswered`), lines of data go through the fifo of the driver in order and none is asked for in vain (`DataInOrder`), the link does not come to an end (no deadlock) |
| `lib_calls` | a main thread with up to 4 calls of any kind, a second one that waits for events and wake-ups, loss of ocse at any time | a call that succeeds got its own answer (`OkIsAnswered`), queue and pipe of events agree (`EventsPiped`), ocse gets one answer per command (`OneAnswer`), calls return (`CallsReturn`) |
| `mem_service` | 12 memories, 24 lines of operands, all kinds, places, sizes, function codes and byte orders, bad addresses | memory and answer are what the operation should give, but for the commands of `Mishandled` (`Served`); the answer has the length ocse reads, and success is told exactly when there was (`ReplyFits`) |

Bounds. Two tags make the interesting pairs: a command behind another in the
list, two commands of a client competing for `mem_access`, a response behind a
split one. One credit is the tightest case, in which every response after the
first finds none; commands of 4 flits with HOST_CL of 2 are split in two parts.
`cmd_live` has three tags: a command that waits and two that take turns in front of it,
the least with which it can be starved.
Two openings let a slot be used again by a second client while events of the
first are in the list, and two slots let the clients meet. In `Mmio` two clients
and the start-up thread give every pair of owners of an access; `IdleCycles = 1`
keeps the one thing the value decides, whether the clock may stop. In
`Lifecycle` two applications for one slot give contention, refusal and reuse.
`cmd_clients` uses the symmetry of tags, sound there as it has no liveness
property.
One credit on each line of `Link` is the tightest case; every line has a message in
`link_messages`, so that all of them share packets in every way, and each side may meet
a short read. The two lines of data of `link_live` are the least that can be misordered;
more messages on a line, and more lines, are the proofs' part (`DataCorrect`). Two
configuration commands show that the state left by the first does not stop the
second. In `Libocxl` four calls reach open, attach, map and an access, or open,
attach, irq and an event, before the close; `ThreeBytes` makes an LPC access that is
split in two; `MaxStride = 2` only keeps the accesses few. `MaxUnasked = 0` bounds the
messages nobody asked for to one at a time on the socket. `Word = 2` in `HostMem` is the
least at which byte order matters.

`life_slots`, `link_messages`, `lib_calls` and `mem_service` do not check for deadlock:
an ocse that has shut down, a link that has ended, an application that has closed its AFU
and a command that has been served are ends the code really has.

### Restrictions on the environment

Each of them leaves out a case in which the code does not have the
property (section 5 says which), or states what an AFU or an application keeps to.

- `Overlap = FALSE` (`Cmd`): the AFU does not start a command while it owes
  beats of another, except those that put a beat back (reads, touches, actag
  assignments).
- `ActagsFor` (`MCCmd`): the AFU does not use actag 0, the value in a new client
  struct, and has one actag per context.
- `Leaves = {}` in `cmd_memory` and `cmd_live`: clients stay.
- `Threads = FALSE` (`Mmio`): an application has one MMIO or LPC access at a time
  (a struct has one `mmio_access` for both).
- `Answers` (`Mmio`): no failed reads in `mmio_access`.
- `Leaves` without "early" in `mmio_access`: no close before attach.
- `Quiet = TRUE` in `life_slots`: no connection arrives while a client leaves.
- `DieStates` without "asked": no application dies between its open request and
  the answer (the slot would be lost).
- The AFU of `Link` never sends without a credit, returns the credit of a command no
  later than its response, asks only for lines of data it was told of, and takes a
  configuration response off the wires for a clock when it has been acknowledged.
  ocse sends accesses one at a time, the configuration first, as `mmio.c` does. No
  short read at start-up.
- `ShortAt = {"head"}` in `link_live`: a packet that is resumed has more than four
  bytes missing.
- `Libocxl`: one thread opens, closes and makes requests, the others only wait for
  events and wake-ups; a handle is not used after the close, and the close is called
  when no other call runs; events are waited for only when attached with an irq.
- `WakeRaces = FALSE` in `lib_calls`: no wake-up while `ocxl_wait` is being entered.
- `ValidCmds` in `mem_service`: no AMO with a function code that its kind does not have.

Three properties name the case they leave out: `ReadDataIntact` the answer that is split,
`Served` the commands of `Mishandled`, `ReplyFits` the answer to an AMO that failed.

## 4. Fairness

- `Cmd`: the ocl thread runs forever (weak fairness of `Loop`). An application
  answers (strong fairness of `Replies`: the loop of `libocxl` serves every
  request, but it is looked at only once per iteration; the request it does not
  answer is an AMO to a bad address, section 5). The AFU sends the beats it owes, and returns
  the credits it holds, at last: strong fairness of a clock that brings a beat and of
  one that brings a credit. Nothing says how soon, and nothing makes the AFU issue
  commands or stop issuing them; so `Answered` and `Resumed` say of each kind of
  command behind which stream of others it may wait for ever, and section 5
  shows that it does.
- `Mmio`: weak fairness of the ocl thread; strong fairness of the configuration
  thread, which waits in `lock_delay` and gets the lock whenever the ocl thread
  gives it up; the AFU goes on with its answer again and again.
- `Lifecycle`: strong fairness of each thread, because `lock_delay` unlocks and
  sleeps. Applications and connections are under no fairness.
- `Link`: weak fairness of each step of the loop of ocse and of both edges of the
  driver; strong fairness of `SendCfg`, because the configuration thread waits in
  `lock_delay`, and of the AFU's answer to a configuration command, which it may give in
  each clock. Nothing makes the AFU send anything else.
- `Libocxl`: weak fairness of the library's thread, of a call that has begun, and of ocse
  taking and answering what was sent; strong fairness of interrupts and wake-ups,
  because `MaxUnasked` disables them now and then. Calls need not be made, and ocse need not
  stay.

Safety runs use `Spec`, without fairness, where they have no liveness property.

## 5. Where the code differs from what it says

Three runs are expected to be violated; each shows a disagreement between the code
and one of its own comments.

| Run | Property | What happens |
|---|---|---|
| `cmd_orphans` | `EventsCompleted` | a client detaches with commands in the list, its slot is emptied, `handle_response` returns at the first of its events forever (`cmd.c:1862`) |
| `life_freed` | `NoUseAfterFree` | a connection while a client leaves: main frees a struct that a slot still points to (`ocse.c:810`) |
| `lib_wake` | `CallsReturn` | a wake-up while `ocxl_wait` is being entered: both threads scan the list, find nothing and insert an entry each; the wake-up marks the one that nobody looks at (`libocxl.c:107`) |

Other deviations, each seen by TLC when a run is changed as named:

| Change | Property that fails | What happens |
|---|---|---|
| `cmd_memory` with `HostCL = 1` | `PartsExact` | a part that finds no credit is backed up in `resp_bytes_sent` but not in `resp_dp`; when it is sent it has the wrong offset (`cmd.c:1979`) |
| `cmd_orphans` with three tags and `Leaves = {}` | `EventsCompleted` | two tags read in turn; each time the client is free the next read is taken first, and a write that has its data never gets its turn (`cmd.c:1030`). With two tags it holds |
| `cmd_orphans` with `Leaves = {}` and `Faults = {"pending"}` | `EventsCompleted` | a stream of responses takes every credit before the `XLATE_DONE` of a pending command can (`cmd.c:1322`) |
| `cmd_live` with `Overlap = TRUE` | `Answered` | a write accepted while the bus held the beat of another never leaves MEM_IDLE (`cmd.c:960`) |
| `cmd_memory` with `Overlap = TRUE` | `WriteDataIntact` | a write whose first beat is late does not count as waiting for data, and the next write takes that beat for its own (`cmd.c:253`) |
| `mmio_access` without `Flits(e.rdl) = size` in the property | `ReadDataIntact` | after the first part of a split answer the event is not pending any more: the response of the second part is dropped as unexpected and its data is placed by the dL and dP of the first (`mmio.c:1250`), though line 1305 saves them "to handle the split response insertion into the data buffer" |
| `mmio_access` with "rd_fail" in `Answers` | `RequestAnswered` | a failed read waits for data that never comes (`mmio.c:1309`) |
| `mmio_access` with "early" in `Leaves` | `RequestAnswered` | close without attach makes `attached_clients` negative; a later client finds its clock stopped (`ocl.c:119`) |
| `link_live` with `ShortAt = {"tail"}` | (deadlock) | a read that is resumed when four bytes or fewer are missing asks `recv` for 0 bytes and takes the 0 for a closed socket; the link is given up (`tlx_interface.c:1412`), though line 1301 has -1 only for an error or a close |
| `mem_service` with "FAILURE" asked of AMOs too | `ReplyFits` | an AMO to a bad address is reported to the application and not to ocse, which keeps the client's one request open for ever (`libocxl.c:588`) |
| `mem_service` without `Mishandled` | `Served` | byte enables with gaps: `be_copy && 1` is true up to the last byte enabled (`libocxl.c:437`); AMOs of one word at the third word: the operands are taken from op1 and op2 though the comment says they are swapped (`libocxl.c:650`); AMO_RD INC_B, or INC_E of two words: the word above is overwritten with the uninitialised op_2 (`libocxl.c:1028`), or the result is computed from the uninitialised op_A (`libocxl.c:978`) |
| `mem_service` with codes that are not `Valid` | `Served`, `ReplyFits` | "treated as NOP", yet op_1 is stored, and a fetching AMO is answered with one byte while ocse waits for the operand (`libocxl.c:843`) |

## 6. What is proved

Each theorem holds for every value of the constants that satisfies the named
assumption of its module, so for any number of tags, slots, clients, threads,
credits, openings and calls. Where a theorem has a further condition, the code does
not have the property without it; the last column says where that shows.

| Theorem | States | Condition | Without it |
|---|---|---|---|
| `CmdProofs!TypeCorrect` | `TypeOK` | | |
| `CmdProofs!AckCorrect` | `AckMatchesRequest` | | |
| `CmdAnswerProofs!NeverExits` | no duplicate afutag ends ocse | | |
| `CmdAnswerProofs!RoutedCorrect` | `RoutedToAssigned` | `OwnActagsOnly`: each actag is of one context, 0 of none | two contexts that share an actag, or use the value in a new struct, cannot be told apart |
| `CmdAnswerProofs!PartsCorrect` | `PartsExact` | `HostCL # 1` | section 5, `cmd.c:1979` |
| `CmdAnswerProofs!WritesCorrect` | `WriteDataIntact` | `Overlap = FALSE` | section 5, `cmd.c:253` |
| `CmdRefinementProofs!AnswersCorrect` | `AnswersAwaited` | `Leaves = {}` | a pending command of a client that leaves gets a second answer |
| `CmdRefinementProofs!ReadsCorrect` | `GoodReadHasData` | `Leaves = {}` | section 7, first item |
| `CmdRefinementProofs!Refinement` | `ImplementsAbs` | `Leaves = {}` | run `cmd_orphans` |
| `MmioProofs!TypeCorrect` | `TypeOK` | | |
| `MmioProofs!ResponseRouted` | `ResponseIsHeads` | | |
| `MmioProofs!AccessOnce` | `PerformedOnce` | | |
| `MmioProofs!PointersSafe` | `NoDangling` | | |
| `MmioProofs!AccessRouted` | `AccessIsOwn` | | |
| `MmioProofs!CreditsCorrect` | `CreditsHeld` | | |
| `MmioProofs!DataIntact` | `ReadDataIntact`, and `EveryFlitInPlace`, which is the same without regard to the length of the response | no "split" in `Answers` | section 5, `mmio.c:1250` |
| `LifecycleProofs!TypeCorrect` | `TypeOK` | | |
| `LifecycleProofs!ListCorrect` | `AllListed` | | |
| `LifecycleProofs!SlotsCorrect` | `SlotKept` | | |
| `LifecycleProofs!UsersNeverFreed` | until the AFU is gone, the struct of an application that has neither left nor died is allocated | | |
| `LifecycleProofs!OnlyCleanUpDangles` | a step that breaks `NoUseAfterFree` (run `life_freed`) is `_free_client` in main's clean-up | | |
| `LibocxlProofs!EventsCorrect` | `EventsPiped` | | |
| `LibocxlProofs!AnswersOnce` | `OneAnswer` | | |
| `LibocxlProofs!TypeCorrect` | `TypeOK` | `OneCaller`: one thread makes the calls that use a request struct | two threads overwrite each other's request, which has no lock |
| `LibocxlProofs!OkAnswered` | `OkIsAnswered` | `OneCaller` | the same |
| `LinkProofs!TypeCorrect` | `TypeOK` | | |
| `LinkProofs!MessagesToAfu` | `HostToAfu` | | |
| `LinkProofs!MessagesToHost` | `AfuToHost` | | |
| `LinkProofs!CreditsCorrect` | `CreditsKept` | | |
| `LinkProofs!DataCorrect` | `DataInOrder` | | |

The assumptions on constants are those of `ConstantsAssumption` (`Cmd`),
`MmioAssumption`, `LifecycleAssumption`, `LibocxlAssumption` and `LinkAssumption`: at
least one slot and one credit, 8-bit credits, HOST_CL of 1, 2 or 4 flits, a finite set
of threads.
The theorems without a condition are therefore stronger than the runs in more than
size: those of `Mmio` also cover failed reads, a close before the attach
and applications that use MMIO, LPC and close at once; those of `Lifecycle` cover
connections while a client leaves; `AckCorrect` covers overlapping data and
`WritesCorrect` applications that leave; those of
`Link` cover any credits up to 255, messages with any number of lines of data, and any
number of short reads of either kind on both sides until the link is given up.

### The inductive invariants

`Cmd`. `CmdProofs!IInv` is `TypeOK`, `AckMatchesRequest` and two
strengthenings. `NullInbox`: the inbox of an empty slot is empty. Without it a new
client could find a request of an earlier one. `SplitDone`: only an event in
MEM_DONE that did not fail, of a command longer than HOST_CL, has some of its
response sent, and an event that is to be answered "pending" is a failed one.
Without it the subtraction in the back-up of `handle_response` could leave the
naturals. There is one lemma per handler; an action changes the event list
(`EventsInv`) or the ports (`WireInv`), and the halves are proved separately.

`CmdAnswerProofs!AInv` ties ocse to the AFU: what an event's state says of its opcode,
code and length (`EventsOK`); that the AFU waits for each live event, knows its length
and has counted what was sent but for the part that is on the port (`TagsOK`,
`PortOK`); and that the tag of the command on the port is not in use (`CmdOK`). Every
handler but `handle_response` and `handle_xlate_intrp_pending_sent` leaves the events
alone or advances one of them (`Advances`), and that is proved once per handler and
used for every conjunct. `PartsExact` needs in addition which places of the
command the AFU has got; `RoutedToAssigned` that the actags of the AFU, of the command
under way and of the client structs agree (`ActagsOK`).

`WriteDataIntact` has an invariant of its own, `DInv`. Beats carry no tag: the code
gives each to the first event that gathers. So the invariant says whose beats are under way:
while an event gathers, the beats on the bus and those the AFU has still to send are
the rest of its data, in order (`GatherOK`), so that there is "only ONE @time"
(`cmd.c:956`), and from
`handle_afu_tlx_cmd_data_read` to the clock none of its beats is on the bus, where the
next packet would overwrite it. A command that takes the beat off the bus finds nobody
gathering and the first of its own beats (`PortData`); the AFU owes nothing to an event
that is ready to be sent (`FilledOK`). Applications may leave: what is left of the data of a
command that was refused or ended is then owed to nobody, and is gone before the next
command with data comes.

`CmdRefinementProofs` adds `Steady`: every client is valid with an open socket, or
absent. Then each step that the AFU does not see leaves the events alone, asks an
application for one of them, or settles one of them (`SteadyStep`), which are the
steps of `CmdAbs`; the clock and the two handlers that answer give the others. There is
one lemma per abstract action (`AbsAsk`, `AbsSettle`, `AbsDefer`, `AbsPart`, ...).

`Mmio`. ocse gives a response to the head of the list without comparing tags. That this
is right rests on a count, `Coming`: the packet at the ports and those the AFU has left
to send are as many as the head still waits for, so the head leaves the list no sooner
than the AFU is done with it. `Wire` states it for each place of the loop, `Stages` what
the state of an event says of its counters, `ListOK` that only the head is not idle,
`Pointers` that whoever points to an event is alone in it, `Credits` and `Clocked` the
counters, `Requests` that what an application waits for is what it asked for.
`DataIntact` adds what the buffers hold (`DataOf`) and that the beats to come are
those for the places to be filled (`WireData`).

`Lifecycle`. `AllListed` and `SlotKept` need `Newcomer` (nobody else makes the struct
main is about to make), `Joined` (the struct main is about to free is off the list) and
`SlotOwners` (the client of a slot knows its place, and its thread has ended).
`NoUseAfterFree` does not hold; `FInv` gives what is left of it. The clean-up
takes a struct whose state is CLIENT_NONE, and `Departed` says that only the struct of
an application that has left or died gets that state, so that those of the others stay
(`UsersKept`; `Asking` is needed because an open may come from no one else). Every other
step keeps `NoUseAfterFree`: main frees at shutdown only when the slots are gone
(`DownAfterAfu`) and the thread has ended.

`Libocxl`. `BInv` has the types, what the calls under way say about the life of the
struct (`LifeOfCalls`, `Unopened`, `Threading`), that an event of a type is queued once
(`EventsOnce`), that the pipe has a byte for each event in the queue and each
thread between the two (`EventsPiped`), and that a command is either on the
socket or answered (`MemoryOnce`). `RInv` adds that a request that is not IDLE is that of
one thread (`Owned`), that the message of a PENDING request is in one place and carries
its body (`Tokens`), and that a request that became IDLE was answered
(`IdleIsAnswered`), which `_all_idle` breaks and only a loss of ocse calls for
(`Detaching`).

`Link`. Nothing is acknowledged or retransmitted, and a decoded packet overwrites the
event, so that the order of the code is all there is. `LinkProofs!IInv` follows each
line: `Downward` and `Upward` say that the receiver's event, the packets and the
sender's event hold the numbers between what was received and what was sent, and
`HostCredit` and `AfuCredit` the same of credits. They are inductive only with
`Emptied` (when a packet is decoded, the event has been emptied by the clock edge or by
the handlers) and with `Grouped` (a packet without the credit group has no credits).
That the handlers of ocse empty their event rests on what the access in hand says
about the lines: `CmdAccess` and `CfgAccess` count a command, its response and its data
from place to place, so a response finds the access that reads it; `RespOrder` gives
that the response comes no later than its data and no sooner than the credit of its
command, without which the unguarded decrement of the command counter could wrap. The
valid wires share a counter (`Wires`); that it takes down only the wire that is up
follows from there being one access. `DataUnderWay` and `Fifo` follow the lines of
data, `Booting` and `Told` the exchange of the initial credits. Since every line an
AFU raises is accepted and no fifo is empty when it is read, the step of the driver at
clock 0 reduces to its effects (`LowEffect`), from which each conjunct follows.

### Only model-checked

- `HostMem`: `Served` and `ReplyFits`, which TLC evaluates for every command of the runs.
- All liveness properties. Liveness under fairness and ENABLED are out of the
  prover's reach, as are facts that need an induction over data; a least element, where
  one is needed, comes from well-foundedness (`ListLemmas`).

## 7. Not modelled

- `handle_touch` and the page cache (no caller), `handle_mmio_ack` (no caller) and
  the reset block of `_ocl_loop` (no assignment reaches its state).
- The SIGINT handler, a failing `accept` or `pthread_create`, several AFUs, and the
  failure paths of `ocl_init`. Its start is the part of `Link` up to
  `afu_tlx_read_initial_credits`; the packet it reads at `ocl.c:552` is read under the
  lock, before the loop of the new thread can run.
- `establish_protocol`, the reset of the driver, X and Z values on its wires, TLX4, and
  the functions of `tlx_interface.c` that nobody calls.
- Parsing of the parameters and of the shim host file, logging, byte layout of packets,
  bad-data (bdi) flags, values of registers.
- In `read_afu_config`: which registers are read (`CfgOps` stands for the accesses), the
  loop that reads the descriptor until DATA_VALID is set (`mmio.c:299`), which ends
  when the AFU sets it, and the wait for the initial credits with the lock held
  (`mmio.c:335`), which is in `Link` (`CreditsExchanged`).
- In `libocxl`: signals. The write to the pipe is one that succeeds; the loop around it
  (`libocxl.c:214`, `369`) uses `i` for the result and, when it repeats, for the index,
  and looks at an `errno` that an earlier call may have left.
- The time-out of `ocxl_afu_close` after 180000 ms, which ends the process
  (`libocxl.c:2792`): the call of the model waits on. `CallsReturn` shows that what it
  waits for comes at last, so only a slow ocse can bring the time-out about.
- The failure answers of `_handle_DMO_OPs` for 8-byte operands at odd words
  (`libocxl.c:634`, `670`): ocse lets no such command through (`cmd.c:486`).
- In `libocxl`: discovery of devices and the accessors, `_req_max_int` (nothing asks for
  it), and two threads that make requests of the same AFU.

Noticed while reading and left without a property:

- a read of a client that was dropped is answered as a failed one with the read
  opcode, its data never returned; `handle_aerror` keeps the good opcode too
  (`cmd.c:1815`), the response code tells them apart;
- an AMO_RD that comes without a data beat stays in MEM_IDLE (`cmd.c:442`, `1128`);
- an AMO_RD_N is answered with the opcode of a write response, and with data
  (`cmd.c:509`, `1887`): the two lists of opcodes there leave it out; it is modelled so;
- percentages that are missing in `ocse.parms` are used uninitialised;
- the MMIO event of a client that leaves is never freed;
- an application that asks for an MMIO access before it attaches waits for a clock
  that may be stopped;
- an AMO may touch the operand above or below its address, of which only the address
  itself is tested to be mapped (`libocxl.c:578`);
- `ocxl_mmio_unmap` never lowers `mmio_count`, so an area can be mapped twice in all
  (`libocxl.c:3093`);
- after a loss of ocse `ocxl_lpc_read` copies from a `mem.data` that was freed
  (`libocxl_lpc.c:352`), and `ocxl_afu_event_check` from NULL (`libocxl.c:2990`);
- a client struct has one `mmio_access`: a second thread's access overwrites it
  (`ocl.c:247`).

## 8. Plan

Done: `Cmd`, `CmdAbs`, `Mmio`, `Lifecycle`, `Link`, `Libocxl`, `HostMem` with the runs
above, and the proofs of section 6.

Next, in this order:

1. `Mmio`: an abstract specification of an access (asked, performed once,
   answered) and the refinement.
2. `Lifecycle`: two AFUs, and properties for the query after the AFU is lost and for
   the slot lost when an answer cannot be written.
