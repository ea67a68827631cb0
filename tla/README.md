# TLA+ models of TNKernel and TN NET

TN NET is a TCP/IP stack for small ARM microcontrollers (LPC23xx). It runs on
TNKernel, a preemptive real-time kernel with priorities. This directory keeps
TLA+ modules that follow the source of both, TLC configurations that check them
on small instances, and TLAPS proofs, for every value of the constants, about the
kernel, the driver, ARP, IP reassembly, the UDP sockets and the demonstration programs.
The demonstration programs that use the stack, and their counterparts on a PC,
are modelled too.

    tlc -workers 2 -config MCTasks.cfg MCTasks     # a run
    tlapm TNTasksProofs.tla                        # the proofs of a module

`PROJECT.json` lists the runs, the lines of source every definition stands for,
the hazards of the code, and for every property a changed definition (a
plausible bug) that breaks it. Definitions whose comment begins with "Mutant"
are these changed forms; nothing else uses them.

## 1. The system and its parts

| Part | Source | State | Operations | What is hard about it |
|---|---|---|---|---|
| Tasks, scheduler, timer | `TNKernel/tn_tasks.c`, `tn.c`, `tn_port_asm.s` | ready lists, their bitmap, `tn_next_task_to_run`, `tn_curr_run_task`, timeout list, TCBs | create, suspend, resume, sleep, wakeup, activate, release_wait, exit, terminate, delete, change_priority; tick interrupt, timer task, context switch | interrupts between `tn_enable_interrupt` and `tn_switch_context`; one link field for all lists; a scan that unlinks under its cursor |
| Semaphores | `tn_sem.c` | count, maximum, wait queue | create, signal, acquire, polling, delete and the interrupt variants | timeout against signal, delete against acquire |
| Data queues | `tn_dqueue.c`, `tn_utils.c` | FIFO, queues of waiting senders and receivers | send, receive (waiting, polling, from interrupts), delete | order across FIFO and waiting senders, capacity |
| Memory pools | `tn_mem.c` | free list, wait queue | get, release (same variants), delete | a released block and its waiters |
| Event flags | `tn_event.c` | pattern, attributes, wait queue | wait, set, clear (same variants), delete | a scan that releases many tasks; clearing events |
| Ethernet driver, receive task | `tn_net/cpu_lpc23xx/*.c` | interface queues, descriptors, `mbuf_to_tx`, `tx_int_en` | `drv_wr`, the interrupt handler, receive task | tasks that nothing excludes, and an interrupt, start transmissions |
| spl lock | `lpc23xx_net.c` | holder, wait queue | `splnet`, `splx` | taken twice by one task, handed over to a waiter |
| Memory pools of the stack, mbufs | `tn_net_mem.c`, `tn_mbuf.c` | pools, chains, reference counters | allocate, free, copy, adjust | shared buffers freed from tasks and interrupts; a pool that runs out in the middle of a call |
| ARP | `tn_arp.c` | table, held packets | input, resolve, request, timer | full table, aging, a held packet with three possible ends |
| IP, ICMP | `tn_ip_input.c`, `tn_ip_output.c`, `tn_icmp.c` | reassembly entries | input, reassembly, timeout, output, fragmentation, answers | fragments in any order, timeout, limits, shared buffers |
| UDP, sockets | `tn_udp.c`, `tn_in_pcb.c`, `tn_sockets.c`, `tn_sockets_udp.c` | control blocks, receive queues | socket calls, input | a temporary connection in `sendto`; memory on every error path |
| TCP | `tn_tcp_*.c` | control blocks, socket buffers, timers | input, output, timers, socket calls | loss, reordering, sequence number wrap, closed windows, FIN behind unsent data |
| DHCP | `tn_dhcp.c` | client state, lease and its timers, receive queue | task, timer, messages | timeouts against late answers of two servers |
| File transfer (TDTP) | `demo_pc/udp_server`, `udp_test_2` | session, block number, counters on each side | read and write a file | late blocks of older sessions; both sides repeat |
| Data acquisition | `demo_pc/udp_server`, `udp_daq`, `udp_test_1`, `udp_test_2` | counters of samples | ask for a sample; send until acknowledged | an answer to a request that was given up |
| HTTP server | `demo_pc/http_test_1` | pool of workers, their buffers, the value of a form | accept, read a request, answer | requests in pieces, a buffer of fixed size |
| SLIP test | `demo_pc/tcp_test_3` | receiver state of a frame | send and receive frames | escapes across pieces of the stream |
| Mutexes, tools, build | `tn_mutex.c`, `http_tools`, `compilers` | | | not built, or not part of the system |

How they interact. Every service of the kernel that may change the running task
updates the scheduler data with interrupts disabled and then calls
`tn_switch_context`, which switches if `tn_next_task_to_run` is another task.
Interrupt handlers call the `i` variants, and the exit from the interrupt
(`tn_cpu_irq_isr`) switches. The tick interrupt wakes the timer task (priority
0), which walks the list of tasks that wait with a timeout. The stack is a user
of the kernel: the Ethernet interrupt puts received packets into a data queue,
the receive task (priority 4) takes them, runs `arp_input` or `ipv4_input` and
often answers in place through `drv_wr`; tasks that use sockets send through
`ip_output`, `net_netif1_out_func`, `arp_resolve` and `drv_wr`; the net timer
task (priority 8, every 100 ms) runs the timers of ARP, IP, TCP and DHCP.
Packets are mbuf chains from fixed memory pools; whoever holds one last frees
it.

What makes each part correct:

* scheduler: every task is in exactly the lists its state calls for, the bitmap
  and `tn_next_task_to_run` agree with the ready lists, a task that is not
  runnable does not run, the ready task of the highest priority runs, sleeps
  end, round robin is fair;
* objects: nothing is lost or handed out twice when a hand-over races a timeout,
  a suspension or a delete; nobody waits for what is there; data keeps its order;
* driver: a packet has one owner, the MAC reads only memory that is kept for it,
  and every packet leaves, as long as two tasks do not start the transmitter at a time;
* ARP: a held packet has one owner and goes to the host it is for, and addresses
  are not used for longer than they are good for;
* mbufs and IP: every buffer is freed once, when its last reference goes; a
  fragment carries what its header says; a datagram is delivered with its own
  data, in order; incomplete datagrams do not stay;
* UDP and sockets: no path loses memory but the known one; `sendto` does not
  disturb input; the lock is given back, unless its holder waits for memory for ever;
* TCP: what is read is a prefix of what was sent, the end of file comes after all
  of it, and everything arrives in the end;
* DHCP: an address is used only while it is leased, and the client comes to a
  lease again and again;
* the programs: a transfer that reports success has moved the file, sessions end,
  samples are new and none is skipped, a request gets its answer, frames arrive as
  they were sent.

## 2. Modules

| Module | Models | |
|---|---|---|
| `TNSched` | the scheduler data as one record, and the routines of `tn_tasks.c` that change it (`task_to_runnable`, `task_wait_complete`, ...) as operators from record to record | |
| `TNTasks` | the task services, timer task, tick, context switch: one action per service | extends `TNSched` |
| `TNCalls` | what the services of all objects share: blocking, releasing the first waiter, the loop of the delete services | extends `TNTasks` |
| `TNSem` | semaphores | extends `TNCalls` |
| `TNTransfer`, `TNQueue`, `TNMem` | the element handed over in the TCB; data queues; memory pools | extend `TNCalls` |
| `TNBuffers` | tasks and an interrupt handler that pass the blocks of a pool through a queue | composes `TNQueue` and `TNMem` |
| `BufferFlow` | abstract specification: what a pool and a queue promise | implemented by `TNBuffers` |
| `TNEvent` | event flags | extends `TNCalls` |
| `TNDriver` | Ethernet driver, interrupt, receive task | |
| `TNArp` | ARP table and held packets | |
| `TNMbuf` | mbufs as operators on a heap of descriptors | |
| `TNIpOutput` | `ip_output`, `ip4_fragment`, the transmit interrupt that frees what was sent | extends `TNMbuf` |
| `TNIpInput` | `ipv4_input`, `ip4_reasm`, `ip_slowtimo`, ICMP | |
| `TNIp` | two hosts and the network between them | composes the two |
| `TNSockets` | UDP sockets, control blocks, `udp_input`, `udp_output`, the spl lock | |
| `TNTcpOutput`, `TNTcpInput`, `TNTcpSockets` | the control block and `tcp_output`; `tcp_input` and `tcp_reass`; timers and socket calls: operators from control block to control block | each extends the one before |
| `TNTcp` | a client, a server and the network | extends `TNTcpSockets` |
| `TNDhcp` | the client, two external servers, the network | |
| `TNTdtpClient`, `TNTdtpServer`, `TNTdtp` | the device's side of the file transfer, the PC's side, both and the network | each extends the one before |
| `TNDaq` | the two data acquisition programs | |
| `TNHttpd` | the HTTP server and its clients | |
| `TNSlip` | frames over a TCP stream, both sides | |
| `TNListProofs` | lemmas that all proofs share: sequences without repetition, the smallest of a set of numbers | |
| `TNTasksProofs` | lemmas about the scheduler data, about each routine and each task service; the theorems about tasks | extends `TNTasks`, `TNListProofs` |
| `TNObjectsProofs` | what the kernel does to a task that waits for an object; the theorems about semaphores, queues, pools and events; the implementation of `BufferFlow` | extends `TNSem`, `TNBuffers`, `TNEvent`, `TNTasksProofs` |
| `TNDriverProofs`, `TNArpProofs`, `TNIpProofs`, `TNSocketsProofs` | the theorems about the driver, ARP, reassembly, the UDP sockets and their memory | each extends its component and `TNListProofs` |
| `TNProgramsProofs` | the theorems about the file transfer and the data acquisition | extends `TNTdtp`, `TNDaq`, `TNListProofs` |
| `MC*` | instances for TLC (the run `ip` needs only the configuration `MCIp.cfg` of `TNIp`) | |

### Correspondence with the code

*Steps.* A section with interrupts disabled is one step. A service that ends in
`tn_enable_interrupt(); tn_switch_context();` puts the running task into
`pending`: between the two calls any interrupt may come, and
`tn_switch_context` is an action of its own. A service that waits returns in a
separate action when its task runs again, because what it reads then (the wait
code, `data_elem`, `ewait_pattern`) may have changed. Where a service tests
something with interrupts enabled (the loops of the delete services), it is
split there. The delete services can return to their caller with interrupts
masked; so can `tn_sys_tslice_ticks` after an error: the tasks for which this
is so are in `masked`, and no interrupt comes while one of them runs.

*Lists.* The links are sequences of tasks; since the same field serves all
lists, the record also says whether the field of a task is in a list, points to
itself, or still has the neighbours it had in a list the task was removed from;
unlinking in the last case sets `fault`.

*Services with several outcomes* are one action with a disjunct for each; calls
that return an error without a change of state are stuttering steps and are not
written down, unless the error path changes something (`Recreate` in `TNSem`:
`tn_sem_create` clears `max_count` of an existing semaphore).

*Data.* Units of a semaphore, elements of a queue, blocks, flags and packets are
model values or small numbers. A chain of mbufs is a packet with a number of
fragments. Hardware addresses in `TNArp` are known by the host and the second
they were heard, which is all the properties tell apart.

In `TNIpOutput` and `TNIpInput` a unit of data stands for the eight bytes the
fragment offset counts, and knows its datagram and its place in it; `ip4_reasm` writes
the new length and flags into the first such unit of the list, which is payload when
the first fragment in the list is not the one with the header (`WithHeader`). The mbuf of
a packet has the kind of its frame (`M_BCAST`, `M_MCAST`) and of its buffer (`MbufOf`). In TCP a unit
is a byte of the stream. In `TNHttpd` a request is a sequence of words and ends of
lines; in `TNSlip` a byte is one of the four with a meaning, or another one.

*What became of a failure.* Where the code does something that spoils the data it
works on, the model does it too, and a history variable remembers to what, so that
the properties can say what still holds: `revived` in `TNTasks` (tasks that were deleted
and run), `raced` in `TNDriver` (two tasks have started the transmitter at a time), `spoilt`
in `TNArp` (packets that were freed while an entry held them), `lost` in `TNSockets`
(blocks that `udp_output` forgets), `early` in `TNTcp`, `missed` in `TNTdtpServer`. When the
effect of the code is undefined from there on, the behaviour ends: `Overwritten` in
`TNTasks` (a TCB is created again while a list links it), `fault` in `TNSched` and `TNIpOutput`,
`broken` in `TNDhcp` (a socket whose handle is -1).

*Locks.* The receive task, the net timer task and the socket calls of TCP hold the
spl lock for a whole segment, turn of the timers or call up to its wait, so each of
these is a step of `TNTcp`. The calls of UDP take the lock only for a part of their
work; `TNSockets` has a step for every part between `splnet`, `splx`, an allocation
that may wait or fail, and a wait for a queue, and lets a task run only when no
task of a higher priority can. `ip_output` has a step for each packet it gives to
the driver, and `m_free` is split where it enables interrupts.

*Faults.* The network loses, duplicates and reorders: in `TNIp` any packet sent may
be received any number of times at any later time; the other modules have one
budget for losses, duplicates, damage, failed writes and early ends together (`MaxFaults`,
`MaxDhcpFaults`, `MaxDaqFaults`, `MaxResets`), without which nothing would ever have
to arrive. Memory runs out in `TNIp` (where `ip_output` then goes through its error
paths) and in `TNSockets`.

*External.* The MAC transmits descriptors, interrupts after the last one, may
report a late collision, may give a frame up, and forgets what it has not sent
when it is reset. `tn_time_sec` is defined by the application. DHCP servers offer,
grant, refuse, ignore and forget leases. The program on the device in `TNSlip` is
not in the repository; it answers a frame with a frame.

## 3. Runs

| Run | What it asks | Bounds |
|---|---|---|
| `tasks` | `SchedInv`, `OnlyRunnableRuns`, `HighestPriorityRuns`, `OnlyCreatedScheduled`, `CursorInList` over every task service and its interrupt variant | two tasks (priorities 1 and 2, which `change_priority` makes equal and reverses), timeouts 1 and infinite, one slice |
| `tasks_live` | `SleepEnds`, `RoundRobinFair` | three tasks of one priority, timeouts 1 and 2 |
| `sem` | `NoUnitLost`, `NoIdleUnit`, `DeleteUnmasks` | two tasks, an interrupt, a maximum of 1 |
| `buffers` | `NobodyWaitsInVain`, `NobodyWaitsForFree`, and `FlowImplemented`: `TNBuffers` implements `BufferFlow` | two tasks, an interrupt, two blocks, a queue of two entries (one is usable) |
| `event` | `NobodyMissesEvent`, `GrantMatchesRequest`, `DeliveredOnce` | two tasks, an interrupt, two flags, every attribute |
| `driver` | `OneUser`, `FrameKept`, `PacketsLeave` | the receive task and a task of a lower priority, three packets of one and two fragments, three descriptors, queues of one entry (`TxQueueSize = 2`); after a race no new packets |
| `arp` | `OneOwner`, `RightHost`, `FreshAddress` | two entries, three hosts, two tasks, three packets, two seconds, one try, one second down, one second kept, one packet spoilt |
| `ip` | `MbufsCounted`, `FragmentsRight`, `DeliveredWhole`, `AnswersRight`, `TimerRuns` | two datagrams of four units (an echo request, one for no port), every MTU from one unit to four, nine descriptors, one reassembly entry of two fragments, three packets received |
| `sockets` | `MemoryCounted`, `ConnectionHidden`, `InputEnds` | two tasks with a socket each and the receive task, five calls, one datagram received, receive queue of one, one port for automatic binding, three blocks for two sockets of two blocks each |
| `tcp` | `StreamPrefix`, `EofComplete`, `Delivered` | three bytes from the client, segments of one, buffers of two, sequence numbers modulo 32 from 30, one retry, one fault |
| `dhcp` | `LeaseValid`, `Leased` | two servers, leases of one, two and four seconds and for ever, with and without T1 and T2, two faults, a receive queue of four |
| `programs` | `FileWhole`, `SessionsEnd`, `SamplesKept`, `HttpAnswered`, `FramesWhole`; a behaviour runs one of the programs | files of up to five bytes in blocks of two, two sessions, three faults; three samples; two workers, three connections, a buffer of seven words; seven contents of a frame, checksum of two symbols, pieces of up to four |

Why the bounds are enough. Two application tasks besides the timer and the idle
task give one that waits and one that acts on it, in either order of priority;
the interrupt is a third actor. The timer's scan meets a list of two entries of
which one or both expire. One unit, one stored element and two blocks make
"full" and "empty" states in which tasks wait on both sides. Three descriptors
for packets of up to two fragments make the indexes wrap at every offset; a queue
of one entry is full while the MAC sends. Two entries for three hosts make every new
address replace one, and two seconds let an address be heard, expire, be asked for
and be declared down; the view of `MCArp` leaves out for whom a packet was that is
free now. A spoilt packet is followed through the entry, a second
user and the pool; a second spoilt one would do the same.
Timeouts longer than 1 only delay the same step.

Four units per datagram make fragments of equal and of unequal length and one
that is whole; two fragments and one entry reach both limits of the reassembly,
and nine descriptors are enough for the fragments of one datagram but not of two. Five socket calls
cover "open, bind or connect, send, receive, close" of one task while the other
interferes. Three bytes through buffers of two close the window, need an update,
and fill the reassembly queue; the numbers wrap within the data; one fault is a
segment lost, or overtaken, or doubled, or a socket closed early. The retry limit and the threshold
of duplicate acknowledgements are 1 (12 and 3 in the code) so that giving up and
fast retransmission happen within this data. DHCP times are kept as they are, in
steps of 100 ms; `UINT_MOD` replaces 2^32. The retry and timeout counters of TDTP are
the code's, but for `SRV_RD_MAX_BAD_BLK` (1, in the code 20); two sessions let blocks
of one meet the other.

Assumptions the configurations make:

* `TickOverrun = FALSE` in `tasks_live`, `buffers` and `event`: the timer task
  finishes its scan before the next tick. In the first it is needed (a system
  that spends all its time in the tick makes no progress); in the others it
  keeps the state space small, and `tasks` and `sem` check the overrun.
* `RecreateBusy = FALSE`: an object is created again only when no task is left in
  its wait queue.
* The chain of a packet fits into the free descriptors (24 on the LPC23xx; an
  Ethernet frame in buffers of 128 bytes needs 13).
* A socket is used by one task (`Owner` in `TNSockets`), as in the demonstrations.
* The offers of a DHCP server are consistent (T1 <= T2 < lease, or left out), the
  client's receive queue has room when T1 or T2 expires, and a message is not later
  than what T1 leaves of the lease: a server counts the lease from its answer on, the
  client from the arrival.
* `CHECK_DEADLOCK FALSE` in `ip`, `sockets`, `tcp`, `programs` and `driver`: the datagrams, calls,
  data and sessions come to an end, and after a race of two tasks so do the packets.
  In the kernel's and the other runs something
  can always happen, and TLC checks it.

Fairness. `tasks_live`: weak fairness of the processor (a pending context switch
and the loop of the timer task are executed) and of the end of `tn_app_init`,
strong fairness of the tick, which is a periodic hardware interrupt and only
disabled for the length of a service. `driver`: weak fairness of the receive task, of
the MAC and of its interrupt; strong fairness of the steps of a task in `drv_wr`, which
runs whenever the tasks of a higher priority wait, as they do again and again (the
model lets a task run only then: `Runs`), and of a transmission that ends without a
late collision, since a packet is sent again as often as it collides. `sockets`: weak
fairness of every task in a call and of the transmitter, nothing about new calls. `tcp`: weak
fairness of the applications' calls once they can return, of the timers and of
the arrival of a segment that the network does not lose; it is written out in
`FairSpec`, since the conditions are simple. A retransmission waits until the
segments under way have arrived (the timeout is longer than a round trip).
`dhcp`: weak fairness of the task, of the clock, and of the servers and the network
together. `programs`: weak fairness of both sides of the file transfer, whose
receive calls have timeouts.

### Where the code does not keep its promise

What the code does wrong is part of the models. Four such behaviours are exceptions
of the properties they violate, kept as narrow as they can be:

* `OnlyCreatedScheduled` excepts `revived`: `tn_task_exit` makes a task with a pending
  activation runnable ("Cannot exit", `tn_tasks.c:508`) and then takes its id (514): a
  deleted task runs, and its TCB may be created again while a ready list links it. No
  other service schedules a task that does not exist.
* `FrameKept`, `PacketsLeave` and a part of `OneUser` hold until `raced`: "We transmit only a
  single frame per session" (`lpc23xx_int.c:138`), but a task preempted between "tx is
  disabled" (`lpc23xx_mac_drv.c:113`) and the start of its transmission fills the
  descriptors of the frame that the other task has started, and takes its place in
  `mbuf_to_tx`: the first packet is never freed. Nothing excludes the callers of `drv_wr`
  (`splnet` covers the socket calls, not the receive task's answers). That no packet is
  freed twice or used when it is free holds after the race as well.
* `OneOwner` and `RightHost` except the packets in `spoilt`: `add_eth_header` has freed the
  packet that `la_hold` still points to (`tn_arp.c:257`); the entry sends or frees it again,
  when its memory belongs to somebody else. All other packets keep one owner and
  their host, however the spoilt ones are freed and used.
* `InputEnds` excepts `LockStarved`: `udp_s_socket` calls `tn_net_alloc_mid1` with `MB_WAIT`
  inside of the spl lock (`tn_sockets_udp.c:95-97`), so that nobody who needs the lock to
  free a block can, and the receive task waits with them.

Two more are stated and not kept; adding them to a configuration shows it:

* `INVARIANT NoWaiterOnDeleted` in `MCSem.cfg`: `tn_sem_delete` finds the wait queue empty
  with interrupts enabled (`tn_sem.c:68`); a task can enter it before the id is
  taken, and waits for ever. The other delete services have the same loop.
* `PROPERTY SocketsFollow` in `MCDhcp.cfg`: "Change (if needs) the own IP address in the
  all active sockets" (`tn_dhcp.c:652`), but the address they get is 0.

Also part of the models, and named by a property where one is given:

* mbufs and IP: `m_copym` goes on through a NULL header when the first allocation
  fails (`tn_mbuf.c:279`; the variable `fault` of `TNIpOutput`, where a behaviour ends);
  when `ip4_fragment` has no memory it frees the packets and `ip_output` frees the
  first one again (`tn_ip_output.c:180-186, 414-423`; likewise `fault`); a fragment that is
  before the head of the list is lost (`tn_ip_input.c:556-562`); the last fragment
  alone is delivered as a datagram (564-586), and the update of the header (624-630)
  overwrites its first bytes (`DeliveredWhole` says both); `icmp_error` goes by the address
  of the frame, so an IP broadcast in a frame for one host is answered (`tn_icmp.c:265`); an echo
  request whose first fragment is small is cut (`tn_icmp.c:136-152`; `AnswersRight`).
* UDP: `udp_output` forgets data and name when it gets no header
  (`tn_udp.c:276-287`; `lost` in `MemoryCounted`); a close leaves a task that waits in
  `recvfrom` waiting.
* TCP: the connection of a closed socket is deleted at the next tick of the slow
  timer (`tn_tcp_timer.c:153-158`), against the comment at `tn_tcp_subr.c:459-466`, so
  that data still under way is lost (`early` in `Delivered`).
* DHCP: the request after T1 is broadcast and the one after T2 is not, since the
  state is set after `dhcp_request` (`tn_dhcp.c:1159, 1171`); the rebinding has no
  timeout (1142-1150; `Stranded` in `Leased`); `d_renewal_time` is not cleared before an
  offer is parsed, so that a grant without T1 gets the T1 of an earlier one (675, 950-967),
  and half of a lease of one second is 0: then the client stays BOUND when the lease is
  over (`Renews` in `LeaseValid`); when `s_socket` returns -1 the loop goes on with it as its
  socket (1007-1008; `broken` in `Leased`).
* TDTP: the device answers late packets from the buffer of its read session
  (`tdtp_cli.c:377-380`), and the server resets its counter at any packet
  (`tdtp_srv.cpp:379`): such a session may not end. Nor may one in which a write to the
  PC's file failed: the block number goes on, the number of bytes left does not
  (423-436), the device does not look at `ack_msg` (`tdtp_cli.c:309-326`), and in the end
  the repeated acknowledgement and the repeated last block answer each other. These
  two (`KeptAlive` in `SessionsEnd`) go on until the user sets the stop flag.
* HTTP: a bad URL is answered twice (`tn_httpd.c:345-386`); the workers share the value
  of the form, so that a page may show another client's; a client that does not
  finish its request keeps a worker. `Expected` in `TNHttpd` says which answers a
  request gets.
* SLIP: what follows a frame in a piece of the stream is dropped; it is safe
  because the two sides alternate.

Behaviour that is stated as it is, as an exception in a property:

* `HighestPriorityRuns`: a task started by `tn_task_create` has to wait for the next
  context switch.
* `RoundRobinFair`: for a set of tasks that does not change. The tail of the list
  becomes its head, so tasks that come and go can pass others.
* `DeliveredOnce`: if the waiter is suspended the pattern of a clearing event is not
  cleared.
* `GrantMatchesRequest`: a suspended waiter that a delete releases gets
  `TERR_NO_ERR`.
* `FreshAddress`: when a host is declared down, its expired address becomes valid
  for `ARP_TIME_DOWN` seconds.

## 4. Proofs

Every theorem is for all values of the constants that satisfy the assumptions of
the modules: any number of tasks, priorities, packets, hosts, entries, blocks,
units, timeouts. `Spec` stands for the specification of the component.

| Module | Theorem | States | Hypotheses |
|---|---|---|---|
| `TNTasksProofs` | `Invariance`, `TypeCorrect` | `[]IInv`, `[]TypeOK` | |
| | `SchedulerConsistent` | `[]SchedInv` | |
| | `RunningIsRunnable` | `[]OnlyRunnableRuns` | |
| | `DeletedIsUnlinked` | `[]OnlyCreatedScheduled` | |
| | `BestTaskRuns` | `[]HighestPriorityRuns` | |
| | `CursorStays` | `[]CursorInList` | |
| `TNObjectsProofs` | `SemInvariance` | `[]SemOK` | A |
| | `UnitIsTaken` | `[]NoIdleUnit` | A |
| | `UnitsConserved` | `[]NoUnitLost` | A, B, finitely many tasks |
| | `DeleteEnablesInterrupts` | `[]DeleteUnmasks` (semaphore) | A, C |
| | `BuffersInvariance` | `[]BuffersOK` | |
| | `QueueNeverInVain` | `[]NobodyWaitsInVain` | |
| | `PoolNeverInVain` | `[]NobodyWaitsForFree` | |
| | `BuffersEnableInterrupts` | `[]DeleteUnmasks` (queue and pool) | C |
| | `EveryBlockInOnePlace` | `[]FlowOK` | B |
| | `BuffersImplementFlow` | `FlowImplemented`: `TNBuffers` implements `BufferFlow` | B |
| | `EventInvariance` | `[]EventOK` | |
| | `EventReachesAll` | `[]NobodyMissesEvent` | |
| | `GrantIsRight` | `[]GrantMatchesRequest` | B |
| | `EventDeliveredOnce` | `[]DeliveredOnce` | |
| `TNDriverProofs` | `DriverTypeCorrect` | `[]TypeOK` | |
| | `PacketHasOneUser` | `[]OneUser` | |
| | `FrameIsKept` | `[]FrameKept` | |
| `TNArpProofs` | `ArpTypeCorrect` | `[]TypeOK` | |
| | `PacketHasOneOwner` | `[]OneOwner` | |
| | `PacketToRightHost` | `[]RightHost` | |
| | `AddressIsFresh` | `FreshAddress`, an action property | |
| `TNIpProofs` | `ReassemblyInvariance`, `IncompleteIsTimed` | `[]TableOK(reasm)`, `[]TimerRuns` | |
| `TNSocketsProofs` | `ConnectionStaysHidden` | `[]ConnectionHidden` | |
| | `MemoryStaysCounted` | `[]MemoryCounted` | |
| `TNProgramsProofs` | `PolledSampleIsNew` | `[]SamplesKept` of `PollSpec` | |
| | `PushedSamplesAreCounted` | `[]SamplesKept` of `PushSpec` | |
| | `FileArrivesWhole` | `[]FileWhole` of `FileSpec` | |

The hypotheses, each of which is satisfied by the configuration of the run that
checks the property, and needed:

* A, `~RecreateBusy`: a semaphore is created again only when nobody waits in it.
  `tn_sem_create` would give it units, and an empty queue, while tasks wait.
* B, `NoRelease` (`NoForcedRelease` for the semaphore): the services that the tasks call
  do not include `tn_task_release_wait` and `tn_task_irelease_wait`. `task_wait_complete`
  leaves `TERR_NO_ERR` as the return code of a released task, so a task that is forced out
  of `tn_sem_acquire` believes that it has a unit, one forced out of `tn_queue_receive` or
  `tn_fmem_get` uses the `data_elem` that nobody gave it, and one forced out of
  `tn_event_wait` takes what it asked for as what it got.
* C, `SliceInRange`: `tn_sys_tslice_ticks` is not called for priority 0 or the last one.
  It returns then with interrupts disabled, to a caller that is in no delete service.

What the modules assume of their constants, where it is more than a type: priorities
of the tasks between those of the timer and the idle task; the queues of one module are
different; the tasks that send packets have different priorities; a pool has as many
blocks as there are data elements to pass (`BuffersAssumption`;
each block is an element); finitely many sockets, pools of a natural size, and the receive
task has a better priority than the applications (`SocketsAssumption`); the size of a file
is a natural number, and a block of the file transfer has at least one byte.

### Tasks

The inductive invariant. `SchedInv` alone is not inductive, for four reasons.
(1) A routine is called in the middle of a service, when the task it is about is
already out of its list but its state is not changed yet; `Sound(s, X)` in
`TNTasksProofs` says that the data is consistent but for the tasks in `X`, which
are in no list, and every routine has a lemma there of the form
"from `Sound(s, X)` to `Sound(routine(s), Y)`". (2) `task_to_non_runnable` looks
only at one priority and at `tn_next_task_to_run`, so the invariant has to say
that the latter is the head of the first list that is not empty. (3) The idle
and the timer task never leave their places (the idle task keeps the search from
finding nothing). (4) The timer task must be the running task while it scans,
without a switch on its way (`ScanOK`), or it could go to sleep twice; and a
suspended or waiting current task must be `pending` (`OnlyRunnableRuns`). So

    IInv == TypeOK /\ Sound(sys, {}) /\ OnlyRunnableRuns
                   /\ OnlyCreatedScheduled /\ ScanOK

`TNListProofs` has what the proofs need about sequences without repetition:
removing, appending and taking the head, and what it does to the set of elements.
`TNTasksProofs` has a lemma per service that its step preserves `IInv`;
`NextInvariant` puts them together. `HighestPriorityRuns` and `CursorInList` are proved
on top of `IInv`, again service by service: a service either leaves
`tn_next_task_to_run` alone, or marks the running task `pending`, or is the exception that
the property names; and while the timer task scans it runs and is the next to run
(`TimerFirst`: nothing else has priority 0), so only its own steps, each of which
removes at most the entry it visits, change what it has still to visit.

### Semaphores, queues, pools and events

Two facts about the kernel carry these proofs. `CallsInv` (`IInv`, the type of `call`,
and `PlaceOK`) says that a task that waits in a wait queue is in a call for the object of
that queue, and that one that sleeps or is dormant is in no call. `KernelEffect` says what any step of the kernel can do to a
task in such a call: end the wait with the return code of a timeout or of a forced
release, suspend or resume the task, but never start such a wait and never change the
return code of a wait that has ended and of which the call has not returned. Each task service has a lemma (`SuspendEffect`,
`ExpireEffect`, ...) for it. With it a step of the kernel only makes wait queues shorter,
and an object needs to be reasoned about only in its own steps.

`SemOK` adds the two properties, that the semaphore has no unit while a task waits
for one and that what was signalled and not acquired is in the count or on its way to
a task, and that nobody is in a call before the semaphore is created or in
`tn_sem_delete` before the first call of it. A step moves a unit between the count and
the tasks on whose way it is, by the theorems about cardinality, which is why the set
of tasks must be finite. `BuffersOK` adds that the indexes of the ring are in range
(`FifoOK`), that a receiver waits only when the ring is empty and nobody waits to
send, a sender only when the ring is full (`VainOK`), and a task for a block only
when none is free (`FreeOK`), until someone begins to delete. The step that could
break it takes an element from a full ring and writes the first waiting sender's into
the place: the ring must be full again (`FullAgain`), at every position of the indexes.
`MaskOK` says that a task that has interrupts disabled runs and has no context switch
on its way, so that no other task and no interrupt comes before the loop of the delete
service enables them.

Events. `tn_event_set` releases any number of tasks in one step, by a loop over the wait
queue from which it removes entries. The loop is a recursive function `scan` in
`scan_event_waitqueue`; `ScanExists` shows, with the smallest number for which it would fail,
that there is such a function, and `ScanSteps` in the same way what it has done after `n`
entries: the tasks of these entries whose condition holds have stopped to wait with
`TERR_NO_ERR`, the other TCBs are as they were, and the scheduler data is sound (`EndedFor`).
`EventOK` adds to `CallsInv`: a waiting task has what it asked for in its TCB, asked for at
least one flag, and the pattern does not satisfy it (`WaiterOK`); an event for one task has at
most one waiter (`SingleOK`); once an event that clears itself has been delivered, the pattern
is empty (`ClearedOK`); a task that is going to return `TERR_NO_ERR` has flags that satisfy what
it asked for (`GrantOK`).

`TNObjectsProofs` extends `TNSem`, `TNBuffers` and `TNEvent` and so has the constants of all; the
lemmas about an object cite only its own assumptions and the kernel's.

### The implementation of BufferFlow

`BufferFlow` knows for each block who has it, and the sequence of those in the queue. The
mapping (`Flow` in `TNBuffers`) makes the sequence from the ring, read from `tail_cnt` on, and the
`data_elem` of the tasks that wait to send, in the order of their queue (`PipeOf`); a block
is with a task if the task holds it or if it is in the `data_elem` of a call that will return it
(`Owed`): a call that has succeeded, or a send that has failed. `FlowOK` says that every block
is in exactly one place (`OnePlace`), and is proved together with the refinement, one lemma
per step of the code: what it does to the ring (`FifoIs`, `WriteIs`, `ReadIs`), to the wait queues
(`HeadQueues`, `BlockQueues`, `KernelQueue`: a step of the kernel removes at most one entry) and to
`Owed` decides which step of `BufferFlow` it is. A send is a `Put`, or a `Pass` if a receiver waits;
a receive is a `Get`, and the sender whose element takes the free place in the ring does
not move in the sequence; a timeout of a sender is a `TakeBack`; `tn_fmem_get` and
`tn_fmem_release` are `Alloc` and `Free`, or `Pass` if a task waits for a block. `tn_fmem_release` reports an overflow if all blocks are in the
free list; that cannot happen, since the list has no block twice and the block that is
released is not in it, so that the list is shorter than the number of blocks. The
statement is about the time before the first delete, as `FlowImplemented` says: then a
waiting task is released with what was in its `data_elem`.

### Driver, ARP, IP, sockets

* Driver: `tx_int_en` is the lock of the transmitter (`Transmitter`): while it is FALSE the
  MAC is idle and there is no frame to send, and a task that has seen it FALSE knows the
  indexes it has read (`TaskOK`), since it is alone in the driver (`Turns`). All this holds
  until a second task passes the check of `tx_int_en`, which sets `raced` (`Session`). Every
  packet is in at most one place (`Shares`): a task, one of the two queues, the transmitter;
  a race can only drop one from `mbuf_to_tx`, so that an allocated packet may be in none.
* ARP: whoever has a packet that is not spoilt (`Sound`), a task or an entry, has allocated
  memory, nobody else has it, and none is left behind (`Ownership`): nothing that is done to
  a spoilt packet touches another one; the hardware address of an entry is its own
  host's (`KnownHost`), and the time it expires is bounded (`KeptUntil`).
* IP: the timer of each entry of the table is between 0 and its start value, and
  positive while the entry has fragments. `ip4_reasm` finds an entry whose timer runs
  before its list grows (`FoundEntry`, `AddedFragment`), whatever the fragments are, so
  that nothing has to be known about their lists or about the sender.
* Sockets: one task at most is inside the spl lock, and the others that came to it are
  in the queue of its semaphore, each once and before it has done anything (`Lock`);
  `sendto` with a name has found its socket without a peer, and no other call on this
  socket comes between, since a socket is used by one task (`CallOK`).
* Memory of the sockets: `MemoryCounted` is a sum of numbers of elements: of the tasks that
  hold a block at the place where they are in their call (`HoldsBlock`), of the open
  sockets, of the datagrams in their queues, of what the driver has. `MemInv` says which
  call can be at which place, that the socket of a call is open unless it is being
  created, that a queue is not longer than its limit, and that the list `udb` has exactly
  the open sockets, so that `in_pcblookup` finds one of them or none (`LookupFinds`). Every
  step is then shown to leave the sum alone: it moves one element from one of the sets
  to another, or takes a block from a pool (`TaskCount`, `SocketCount`, `PlacesOf`).

### Programs

The queues of the network are sequences over the set of the packets that can be right at
this time; so a packet lost, doubled or spoilt does not matter, and the work is in what a
new session or a new block does to that set.

* File transfer (`FileOK`): a packet of the present session carries the block of its number
  of the file, an older one has a smaller session number, and both sides take only the
  block that follows their own number; an acknowledgement of the last block is sent only
  when the device has closed the file with all of it, or the PC has received it. What is
  proved of blocks (`BlockSizes`, `BeforeIs`, ...) is arithmetic about where a block starts and
  ends, and the pieces of the file put together are the file. A session of the PC that
  missed a write has more bytes left than the device has to send (`LacksSome`), so it never
  takes a block for the last one and never reports success.
* Data acquisition: `PollOK` says that an answer on the way with the session number the PC
  waits for has a sample that was taken after the request; `PushOK` that an
  acknowledgement on the way is of a sample the PC has counted.

### Only model-checked

* Liveness: `SleepEnds`, `RoundRobinFair`, `PacketsLeave`, `InputEnds`, `Delivered`, `Leased`,
  `SessionsEnd` (fairness and `ENABLED` are out of the prover's reach).
* `MbufsCounted`, `FragmentsRight`, `DeliveredWhole`, `AnswersRight`: a chain of mbufs is
  made, copied, cut, joined and freed by folds over its descriptors, and the properties
  are about the chains these folds return.
* `StreamPrefix`, `EofComplete` of `TNTcp`: the invariant has to relate two control blocks, two
  socket buffers, the reassembly queue and every segment of the network modulo the range of
  the sequence numbers.
* `LeaseValid` of `TNDhcp` is true only for messages that are not later than what T1 leaves of
  the lease: nothing in the client limits how long a grant was on its way; the bound of
  the faults and the length of the leases of the configuration do.
* `HttpAnswered` of `TNHttpd` and `FramesWhole` of `TNSlip`: what a parser makes of a sequence of
  words or bytes, by `FoldLeft` and `FlattenSeq` over the data: a proof would need what these
  folds return for every sequence, and their library definition takes an operator as a
  parameter, which the provers do not instantiate. (The scan of the event waiters is a recursive
  function for that reason.) `HttpAnswered` also depends on the requests of the
  configuration.

## 5. Plan

Done: the kernel but for mutexes, the driver, ARP, mbufs, IP, ICMP, UDP, the sockets,
TCP, DHCP, the demonstration programs, the implementation of `BufferFlow`, and the proofs
of section 4. Left are proofs of what is listed as only model-checked; the next one
would be `StreamPrefix`, beginning with what a segment on the way says of the stream.

## 6. Not modelled

* Mutexes: compiled only with `USE_MUTEXES`, which `tn_tasks.c` has in a comment.
* Stack frames, register access, `tn_mem_dbg.c` and `tn_net_mem_dbg.c`, MAC and PHY
  initialization, register definitions; the alignment arithmetic of `tn_fmem_create`.
* Checksums, byte order and address conversion: pure functions on bytes.
* The reset of the transmitter after an underrun: whether the frame that the same
  interrupt has started survives depends on the MAC.
* The receive descriptors (a frame arrives with its memory, or is dropped).
* A task that is terminated, or exits, in the middle of a service of an object
  (`TNCalls` excludes it); a block released by a task that does not hold it.
* Of TCP: urgent data, the values of options, round trip estimates, `SO_LINGER`,
  non-blocking and zero-copy calls, memory shortage. That a new SYN takes the place of a
  connection in TIME_WAIT (`Replaces`, and `Found` once more) is modelled, but the one client
  of `TNTcp` connects once and does not reach it.
* Of DHCP: the states INIT-REBOOT and REBOOTING, which no code path enters.
* Of the demonstrations: dialogs and initialization of the board; the other TCP
  tests: `tcp_test_1` to `tcp_test_6` are variants of `tcp_test_3`, and `tcp_test_7` answers
  what it receives with a line of text.
* `http_tools` (converters that run at build time), compiler projects.
