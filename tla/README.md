# A TLA+ model of the NL6621 OneNet firmware

The repository is the firmware of a Wi-Fi module (Nufront NL6621, Cortex-M3,
uC/OS-II, LwIP) that connects an appliance to the OneNet cloud.  This directory
holds TLA+ modules that model its own logic and what it uses most of the kernel and
the stack below it, TLC configurations that check them
on small instances, and TLAPS proofs of the properties that matter most.
Sources are quoted relative to `src/Device/Source/`.

## 1. The system

### Components

| component | source | state | operations | what makes it correct |
|---|---|---|---|---|
| Cloud link | `App/NuAgent/System/network_adapter.c`, `User/cloud.c`, `User/sensors.c`, `System/agent_core.c` | `TCPClientFd`, `TCPClient_reset_flag`, `cloud_send_mutex_lock`, `cloud_conn_status`, `SensorTaskFlag` | resolve, connect, log in, send, receive, close, reconnect; sensor upload; heartbeat | the senders exclude each other; no descriptor leaks; a lost link is noticed and rebuilt; the login state belongs to the present connection |
| DHCP server | `App/DhcpServer/dhcp_server.c` | a table of clients, one entry per address | message callback, one-second tick, start, stop | no address is used twice; entries come back to the pool |
| DNS server | `App/DnsServer/dns_server.c` | one configured name, a UDP control block | receive and answer, configure, start, stop | only the configured name is answered; start and stop leave no control block behind |
| Name resolution | `network_adapter.c` (`NuAgent_GetHostByName`) | `domain_ipaddr`, `domain_flag`, a semaphore | ask, callback, wait with a timeout | the address used is the answer to the question asked |
| LAN servers | `network_adapter.c`, `User/lan.c` | server sockets, `lan_client[5]` and its count | accept, receive, dispatch, discovery answer, soft AP configuration | the client table and the descriptors agree |
| Wi-Fi onboarding | `Wifi/wifi_conn.c`, `System/agent_core.c` | `sys_status`, `wifi_connect_flag`, the stored SSID and key | direct configuration, station, soft AP, event callback | the status follows the driver's events; the device ends up connected or configurable |
| Flash configuration | `System/nl6621_drv.c`, `BSP/flash.c` | the configuration record, its flash sector | read, write (read-modify-erase-write), save, restore defaults | a reset never leaves a mixture of two records |
| EDP protocol | `OneNet/EdpKit.c`, `User/cloud.c` | packet buffers | pack, unpack, split the stream into packets | what is packed is unpacked; the stream is split at packet borders |
| RESTful upload | `OneNet/restful.c` | none | build an HTTP request | text only |
| Serial ring buffer | `Lib/ring_buffer.c`, `System/nl6621_uart.c`, `Device/simu_uart.c` | `head`, `tail`, a buffer | put in the interrupt handler, get in a task | bytes come out in order, none twice |
| NTP client | `Lib/ntp_client.c` | a socket, the time | send, receive with a timeout, close | a socket is closed once |
| System management | `Sys/sys_mgmt.c`, `LwIP/port/lwIP.c` | the message queue, link state, addresses | link up, link down, scan, reset | the services match the link |
| Parameters | `Sys/param.c` | `SysParam` | load, save, defaults, checks | stored values are checked before use |
| Timers and locks | `Sys/util.c` | wrappers of uC/OS timers, mutexes | create, set, cancel | a cancelled timer does not fire |
| Dynamic memory | `Ports/Cortex-M3/os_dmem.c` | a circular list of blocks over one pool, a search pointer | get, free, malloc | blocks tile the pool, none is given out twice, a fitting one is found |
| Thread of the stack | `LwIP/src/api/tcpip.c`, `LwIP/src/core/timers.c`, `LwIP/port/sys_arch.c` | a mailbox, a list of timeouts, the pools behind both | post, fetch with a timeout, set and cancel a timeout | each timeout goes off at its time; a caller gets its answer; neither messages nor timeouts starve the other |
| Sockets and netconns | `LwIP/src/api/sockets.c`, `api_msg.c`, `api_lib.c` | `sockets[]`, the netconns with their mailboxes and control blocks, the list of selects | socket, bind, connect, listen, accept, send, recv, select, close; the callbacks of the stack | every call is answered; no event is missed; no connection leaks or is freed twice |
| DHCP client | `LwIP/src/core/dhcp.c`, `LwIP/port/lwIP.c` | state, tries, T1 and T2, the address | discover, request, check, bind, renew, rebind, release; reply, NAK, conflict, timers | an address is in use only while a server backs it |
| Kernel | `uCOS-II/os_*.c` | task control blocks, ready list, wait lists | pend, post, abort, delete, delay, suspend, change priority, tick | the most urgent ready task runs; nothing posted is lost |
| LED, reset button | `System/agent_core.c`, `Device/gpio_int.c` | `sys_status`, a press counter | blink, factory reset | - |
| rest of LwIP, cJSON, AES, base64 | `LwIP/src`, `Lib` | - | - | third-party code |
| Wi-Fi driver, boot loader, BSP | `Lib/*.lib`, `BOOT`, `BSP` | - | - | binary libraries and register access |

### How they interact

`agent_core.c` starts one task per job.  Their uC/OS-II priorities, from high to
low, are: reset button, UDP server, TCP server, cloud, other, sensor,
heartbeat, LED.  LwIP runs its own `tcpip` thread, above all of them; the DHCP
server's callbacks run in that thread.  The Wi-Fi driver sends messages to the
system management task, which starts and stops DHCP with the link and calls
`AppEvtCallBack`; it is more urgent than the `tcpip` thread (`app_cfg.h:58` and `66`)
and preempts it anywhere.  The tasks communicate through global variables, most of them
without a lock: `TCPClientFd` and the flags of the cloud link, `sys_status`,
`Agent_config_data`.

### What is hard

* Three tasks share one TCP socket that one of them closes and reopens.
* `select()` without a timeout, called with a mutex held.
* Flags that are set by one task and outlive the connection they are about.
* Lost DHCP answers, stations that leave without a word, a full address pool.
* Power loss between the erase and the write of a flash sector.
* Late answers of the name server and of the time server.
* Data, a close or a reset that meets `accept()`, `select()` or `close()` half way.
* The list of timeouts, which the management task changes in the middle of the stack's
  own operations on it.

The list with lines is under `hazards` in `PROJECT.json`.

## 2. Modules

### CloudLink

Tasks `Cloud` (`TcpCloudThread`), `Sensor` (`SenserTaskThread`) and `Heart`
(`HeartBeatThread`).  `pc[t]` is the task's control point: the points of
`Socket_TCPClientSendData` are common to all three, the others belong to
`Socket_CreateTCPClient`, `Agent_cloud_process` and the task loops.

*Atomicity.*  uC/OS-II is preemptive with fixed priorities.  `Cloud` outranks the
two others, so its code between two blocking calls is one step.  `Sensor` and
`Heart` can be preempted anywhere; their only shared accesses are inside
`Socket_TCPClientSendData`, where each read of `TCPClientFd` (`FD_SET`, the first
argument of `select`, `FD_ISSET`, `send`) is a step of its own.  The first
argument of `select` and the scan are one step, because both are evaluated
before the task can wait.

*Sockets.*  LwIP's socket table is a function from descriptors to a state that
says what `select`, `send` and `recv` will do (the module's header lists them).
`alloc_socket` takes the lowest free descriptor; other tasks open and close
sockets at any time (`OtherOpen`, `OtherClose`).  `select` on descriptor -1 scans
nothing and waits; a `select` that cannot get a semaphore fails.

*Data.*  A frame is only its kind; the cloud answers a login request once, with
either result, and pushes frames only after accepting.  Name resolution is a
retry until it succeeds.

### DhcpServer

The table `Clients` with one entry per address, the stations that are associated
and the address each *believes* it holds.  `DHCPS_RecvCb` is one action: the
lookup, the state machine and the answer run in the `tcpip` thread without
waiting.  It is written as `TableAfter` and `Answer`, functions of the message,
that follow `_ClientTableLookup` case by case; each pointer of that function is
an operator with its name.  `lost` says whether the answer reaches the station.
The tick `_DhcpTickHandle` is one action that treats every entry.

Assumptions about the environment, all of them about a station's DHCP client: it
uses an address only after an ACK, stops on a NAK and after any message
other than a renewal or an INFORM, and its lease timer is not slower than the
server's.  Messages are not duplicated in the network.  `DHCPS_ClientDelete` has
no caller in the repository; the model calls it for a station that has left.

### Onboarding

Three tasks and the system management task.  `Boot` is `nl6621_main_entry`, whose
last act is to create the others; `Udp` is `UdpServerThread` inside
`lan_softap_config`; `Reset` is `SysResetThread`; `mgmt` handles the driver's
messages.  `pc[t]` is the control point of a task.  `DRV_WiFi_StaModeConnStart` and
`WriteFlash` are used by several tasks: their points (`start`, `settle`, `poll`
and `read`, `erase`, `program`, `program2`) are common, and a task continues at
the step that follows its call.

*Atomicity.*  `mgmt` has a higher priority than the tasks, so a task runs only when
`mgmt` has no message or sleeps while it waits for an address (`MgmtBlocked`).
The driver outranks both.  The steps of a task end at its delays.  `AppEvtCallBack`
is part of the action of `mgmt` that calls it.

*Flash.*  The record is a flag and a network.  A sector is erased to all ones and
programmed in two pages, and programming can only clear bits: what is written over
a record that has not been erased is `mixed`.  `PowerLoss` restarts the device
between any two of these steps.  All ones in the flag read as
`XPG_CFG_FLAG_CONNECTED`.  The record has 32 bytes for the name and 32 for the key, where
`SysParam` and `lan_softap_config` take 64 for the key: `Agent_SaveSSIDAndKey` cuts the rest off.
`First32` gives for each network the one its first 32 bytes name, and `Kept` is what is saved.
In `MCNetworkParts` one of the three networks has a longer key, and what is left of it names
another.  `CredentialsProven` is about what fits: for a longer key the flash names settings
that no link was made with, although the call is described as "Save SSID and password to nor
flash" (`lan.c:63`).

*Environment.*  The driver links, fails or loses its link (`MaxLosses` times); the
network's DHCP server assigns an address at some time or never; a phone sends a
direct configuration or a configuration datagram with any network.

### LanServer

`TcpServerThread`, the creation of the UDP socket, and the socket table they share
with all other tasks (`OtherOpen`, `OtherClose`).  The fd_set of LwIP is a byte
array indexed without a range check, so an empty slot's `-1` stands for bit 7;
`FdAlias` is that descriptor.  The scan of `lan_client` is one action per slot,
because phones send and close while it runs; `accept()` with the search for a
slot is one action, the blocking `recv()` that follows is another.  A write past the
table's end leads to `pc = "undefined"`, after which the model says nothing.  A client that
is gone is taken from the table and reported as closed, but nothing closes its descriptor
(`conn` is then `closed` and the socket stays allocated): `FreedWhenGone` states what the
report says and is violated (`lan_leak`); `DescriptorsKept` is about the clients that are there.

*Data.*  What a connection holds is `quiet`, `data` or `fin`.  The commands that
phones send are dispatched without changing the server's state.  Waiting for
`SYS_STATUS_WIFI_STA_CONNECTED` before the socket is created is left out: the
thread may be slow to start.

### RingBuffer and Fifo

The serial receive buffer between the interrupt handler `uart_data_recv`, the
timer callback that wakes the task, and `UartTaskThread`.  The handler is one step;
the task's reads of `tail` are steps of their own, and where the source names
`tail` twice the compiler may load it twice or once, so both are allowed.
`Fifo` is the promise, a bounded queue of bytes; `ImplementsFifo` instantiates it
with the bytes between `head` and `tail`.

### OsDmem

The heap: blocks with their sizes and owners, the search pointer, and the calls
`OS_GetMem` and `OS_FreeMem` as one action each, since each is one critical section.
Sizes are rounded up and blocks split and merged as in the source, with the overhead
of a block's header scaled down.

### EdpStream

The packing and unpacking functions of `EdpKit.c` on sequences of bytes of a small
base (`Half` stands for 128), and `recv_data_process` over a stream that TCP cuts
anywhere.  A packet cut in two is dropped with the local buffer, as in the code
(`NeedMoreBytes`); nothing is promised of the stream after that.

### DnsResolve

`NuAgent_GetHostByName` in the cloud task, which calls `dns_gethostbyname` outside
the thread of the stack, beside the resolver's timer and its answers.  A build asks
for one name, so that a table entry is its state, its counters and its callback.  An answer
holds an address, 255.255.255.255 (`IPADDR_NONE`, which `dns_lookup` returns when it
finds nothing) or 0.0.0.0 (`NoAddr`), which `NuAgent_ServerFound` ignores like a
null pointer.  `missed` records that an answer did not get to `domain_ipaddr`, because it was
0.0.0.0 or came before `dns_enqueue` had stored the callback; a later question is then
answered from the cache, and `NuAgent_GetHostByName` formats `domain_ipaddr` and not the
address it was given (`network_adapter.c:113`, against `dns.c:927`, which says where the cached
address is): it returns 0.0.0.0 or an earlier address.  `AddressGiven` excepts these behaviours and
no others.

### LinkServices

The UDP control blocks, the timeout and the memory that the DHCP and DNS servers of AP
mode take and give back.  `L2LinkUp` and `L2LinkDown` run in the management task
and can fall between any two steps of a callback; a callback goes on with the
control block it was called with.  The DHCP protocol itself is in `DhcpServer`.
`Protocol`, `bDhcpServer` and `bDnsServer` are tested as `lwIP.c` does; they change only
while the link is down.  A queried name is a sequence of labels that ends in a zero or in a
compression pointer, and the server's own name is a sequence of characters, zeros behind
it; `_DnsCompareName` skips one character after each label without looking at it, and ends
at a pointer without following it.  A pointer with nothing before it is decided by the
byte in front of `DnsServer.DnsName`, which may be any.  So the server's labels followed by a
pointer to more are answered as its own name, which "RFC 1035 - 4.1.4" (cited at
`dns_server.c:44`) does not make them; `NameCompared` says that no other compressed name is,
but for the bare pointer.

### NtpClient

One query of `start_ntp` with its errors, the retries of `OtherTaskThread`, the
socket table it shares with another task, and the clock in ticks, which wraps.

### OsKernel

The scheduler, the tick, and the services of tasks, delays, semaphores, the mutex,
queues, mailboxes and `OSEventPendMulti`.  Each critical section is one step and
`OS_Sched` another, so that an interrupt can fall in between.  A priority's bits in
the ready list and in the wait lists are sets.  Services that differ only in the event
(`OSSemPost`, `OSQPost`, `OSMboxPost`, and so on) share an operator.  An application is a set
of services; the initial state chooses one, so that services meet in the
combinations of `MCApps` and not all at once.

Four variables are history: `wanted` (the posts a waiting task has a right to),
`deferred` (a service changed who is ready and did not call `OS_Sched`),
`movedLate` and `revived` (below).  What the module leaves out or stops at:

* a priority that is changed after a task's wake-up or timeout and before the task has
  run leaves its old bit in a wait list; the model records it (`movedLate`) and
  claims nothing afterwards;
* `OSTaskSuspend` knows its caller by its present priority.  The owner of a mutex who
  was raised and gives its original one is made not ready and runs on (`deferred`),
  although `os_task.c:927` lets a task suspend itself by its priority, and its `OSMutexPost` makes it ready although it is
  suspended (`revived`: `ListsSound` does not look at the ready bit of such a task).  No
  task of the firmware does this;
* `OSMutexPost` without waiters lowers the priority without `OS_Sched`
  (`deferred`);
* `OSMutexDel` with `OS_DEL_ALWAYS` restores the priority of the owner but writes
  `OSPrioCur`, although the owner need not be current; a deletion
  with `OS_DEL_NO_PEND` of a raised owner is excluded;
* a task suspended inside `OSEventPendMulti` is not made ready by the resume; the
  two services are in different applications;
* an application does not pend on a mutex it owns.  The window for
  interrupts inside `OSTaskDel`, and the loop over the tasks in `OSTimeTick`, are one step.

### DhcpClient

`dhcp.c` and the loop of `ifUpWhenDhcp` that polls for the address.  A handler of the
stack is one step.  `client.asked` are the requests sent under the transaction number
in use; any of them may be answered late, more than once or never, and each message may
find no memory (`MaxNoMem` times).  T1 and T2 are counted in coarse ticks
and wrap as the 16-bit counters do; the fine timer only runs or not.

* An OFFER without a server identifier stops the retry timer, and with it discovery.
* `ifUpWhenDhcp` ignores a failing `dhcp_start`, and compares `DhcpTryTimes` with
  `tries`, which every change of state resets.
* An ACK while renewing or rebinding does not go through `dhcp_handle_ack`: the times
  and the address of the first lease stay.
* Without memory for the first message of a state the number of the transaction is not
  renewed (`reused`).  From the third such message on, an ACK of an earlier request can
  meet the client while it renews or rebinds, and the interface gets an address other than
  the one acknowledged; `AddressBacked` says that this is the only way.  `MaxNoMem = 3`
  reaches it.
* `dhcp_start` and `dhcp_stop` in the management task may fall inside a
  handler of the stack; the module has them between two.

### TcpipThread, Timeouts and TimeoutCells

The thread's loop (`sys_timeouts_mbox_fetch`, `tcpip_thread`), the posts to its mailbox
(`tcpip_input`, `tcpip_callback`, `tcpip_apimsg`), the cyclic timers, the TCP timer
and the DHCP server's tick, which the management task sets and cancels.  The list
keeps each timeout's time as the difference to the one before.  `Timeouts` is
the promise: every timeout has its own time, all run together, the first due goes off
first; `ImplementsTimeouts` maps the list to its sums.  The tick counter is only
followed during a fetch, the only place where two of its values are compared.

Nothing protects the list (`SYS_LIGHTWEIGHT_PROT` is 0), and `DHCPS_Start` and `DHCPS_Stop` run in
the management task, which preempts the thread.  `TimeoutCells` is the list as it lies in
memory, elements of a pool linked by `next`, with the thread going through
`sys_timeout`, the expiry and the shortening one statement at a time and the management task
between any two of them.  It leaves the TCP timer, set by the thread alone, to `TcpipThread`.  Its runs show two things.  When the management task never comes
into an operation, the linked elements are what `TcpipThread` has: none is lost or twice,
and each operation is one step of `Timeouts` (in the run `kernel`).  When it does, cyclic timers are
lost (`timeout_race`: an element is linked to one that was just freed).  `TcpipThread` therefore
has both: `TickStarts` and `TickStops` between operations, and `TickTears`, which
leaves one of `TornLists` and sets `torn`.  Of a torn list the properties say nothing; what
they say of messages and pools holds torn or not.  The same task also changes the list of UDP
control blocks (`udp_new`, `udp_remove`) beside the thread; no module has that statement
by statement.

Further:

* `sys_mbox_post` gives up after ten tries, while `LwIP/doc/sys_arch.txt` has it
  block until the message is posted; `tcpip_apimsg` then waits for ever.  The model
  records such a caller in `lost`.
* Cancelling the timeout that the thread waits for makes the next one go off early;
  `Timeouts` allows it.
* The 1 ms added to each time told (`Told`) is what keeps a flood of messages
  from starving the timeouts; the mutant of `StackProgress` takes it away.
* When the pool of timeouts is empty, `tcp_timer_needed` leaves its flag set
  without a timer.  `TimeoutPoolAssumption` says that this does not happen: the pool has room for the
  cyclic timers, the TCP timer, the ticks in the list and one tick more, which a
  handler sets again while `DHCPS_Start` has set another.  The firmware has exactly this room
  (`MEMP_NUM_SYS_TIMEOUT` is 8, for five cyclic timers and one tick), and so has the model.

### SocketApi

The descriptors, the netconns behind them and `select()`.  `net` is what the tasks and
the stack share, `user[t]` where a task is inside its call.  The thread of the stack has
the most urgent priority, so that its handling of a message, a segment, a timer or a
reset is one step; the task then waits for `op_completed` (`await`) and goes on with the
answer (`back`).  In the tasks each protected section is a step: `lwip_select` enters
the list, raises `select_waiting` descriptor by descriptor, scans again, waits, and undoes
both; `event_callback` looks at one entry of the list at a time and starts again when
the list has changed (`moved` stands for the comparison of `select_cb_ctr`).  Data
are `data` or `null` (the peer closed), buffers are counted in units, and a control block
is what the netconn layer can tell apart.  The initial state chooses which calls each task makes.

Tasks keep a discipline that the code relies on and the firmware mostly follows
(`MayCall`): a descriptor is used by one task at a time, `select()` apart, and is closed
while no task selects on it.  `Shared` drops the first half for one receiver and one
sender, as the cloud link does, and `OwnAnswer` fails (`socket_shared`).  What was met on the way:

* when the receive mailbox is full, the peer's close is lost: `recv_tcp` says it is
  presented again (`api_msg.c:250`), but `tcp_in.c:374` ignores the refusal when there is no
  data with it;
* `event_callback` does not look at `lastdata`: of two tasks that select on one
  descriptor, one is not woken when the other leaves a rest there;
* `alloc_socket` sets `select_waiting` to 0: a descriptor that is closed and opened again
  during a `select()` is counted below zero.

### KernelParts, DeviceParts, StackParts and NetworkParts

Compositions.  Their parts share no variables, so a product of them
would only multiply states: the initial state chooses a part, which runs alone.
`DeviceParts` holds `RingBuffer`, `OsDmem`, `EdpStream`, `DnsResolve`,
`LinkServices` and `NtpClient`; `StackParts` holds `LanServer`, `DhcpClient` and
`TcpipThread`; `KernelParts` holds `OsKernel`, `SocketApi` and `TimeoutCells`, what the tasks
of the firmware share below the application; `NetworkParts` holds `Onboarding` and `DhcpServer`.

### Extrema

Two lemmas the proof modules share: a non-empty set of naturals below a
bound has a least and a greatest element.

## 3. Runs

| run | checks | result |
|---|---|---|
| `cloud_safety` | `TypeOK`, `MutexDiscipline`, `NoFdLeak`, `DoneIsFresh` | hold |
| `cloud_progress` | `SendReturns`, `ResetTearsDown`, `PeerCloseNoticed` | hold |
| `cloud_heartbeat` | `HeartbeatKeepsGoing` | violated: `select()` on descriptor -1 waits for ever with the mutex held |
| `network` | `NetworkTypeOK`, `ModeMatches`, `NoRogueDhcp`, `CredentialsProven`, `StoreSound`, `ConnectReturns` (`Onboarding`), `OneEntryPerClient`, `NoSharedLease`, `Reclaimed` (`DhcpServer`) | hold |
| `lan_table` | `TableLimit` | violated: a client is stored past the table's end |
| `lan_leak` | `FreedWhenGone` | violated: the descriptor of a client that is gone is never closed |
| `device_parts` | `PartsTypeOK`, `HeapSound`, `StreamSound`, `AddressGiven`, `ServersSound`, `NtpSound`, `ImplementsFifo`, `PartsProgress` | hold |
| `kernel` | `LayersTypeOK`, `ListsSound`, `ScheduleSound`, `NothingMissed` (`OsKernel`), `CallsAnswered`, `SelectSound`, `EventsMatch`, `ConnsOwned` (`SocketApi`), `CellsSound`, `CellsImplementTimeouts` (`TimeoutCells`) | hold |
| `socket_shared` | `OwnAnswer` | violated: the answer to another task's `recv()` ends a `send()` that still waits |
| `stack_parts` | `StackTypeOK`, `DescriptorsKept` (`LanServer`), `AddressBacked` (`DhcpClient`), `ThreadSound`, `ImplementsTimeouts` (`TcpipThread`), `StackProgress` | hold |
| `stack_clock` | `TellsTimeSpent` | violated: a message that was already there is told to have taken the longest time there is |
| `timeout_race` | `ReschedulesItself` | violated: `DHCPS_Stop` inside `sys_timeout` cuts the list, and cyclic timers are gone |

`PartsProgress` says that what is received is read (`RingDrained`), a question to the name
server comes to an end (`AskingEnds`) and the ticks of a stopped DHCP server do
(`TicksDie`).  `StackProgress` says that a client with data is served (`ReadableServed`, except
the client on descriptor 7: while an earlier slot is empty its bit is taken for that
slot's -1, and it may starve), that a renewal ends (`RenewalEnds`), and that neither
messages nor timeouts starve the other (`ThreadProgress`).

Each violated property states what a comment or a log message of the code says; the
`findings` of `PROJECT.json` quote it.  Every property of a passing run has a
mutant: a variant of one definition, written beside it as the bug it
imitates, with which TLC finds the property violated.

More comments that the code does not follow, plain to see and not given a run:
`dhcp_server.c:314` speaks of "a totally free ip address", but `DHCPS_Start` reduces host numbers modulo
`~Mask` and makes 0 a 1 (line 838), so that a pool that wraps round the subnet has an address twice;
`network_adapter.c:221` speaks of more than five failed sends before a reset, the
code resets after the first; `wifi_conn.c:317` promises the mode of the last
connection, `Agent_network_init` overwrites the record it has read with a
compiled-in network (the model's `StationFromBoot`).

Five more that were met on the way: `_DnsCompareName` does not look at the character where
a label of the query ends (`dns_server.c:65`), so that with the name a.bcd the query a.b.d is answered as "My
dns name" (line 269), which `ServersSound` allows for; `dns_server.c:293` asks for a name shorter than 32
characters, and the test at line 297 lets one of 32 pass, which leaves no zero behind it
and makes the server refuse its own name (`LinkServices` assumes a shorter name); with `DhcpTryTimes = 0` (`wifi_conn.c:89`) an access
point that gives no address keeps the device out of soft AP mode (the loop at
`wifi_conn.c:110`, against the comment at `wifi_conn.c:318`); a configuration
datagram with a wrong key in station mode stops the working link and nothing starts
the driver again (`lan.c:59`); and a failed `OSMMalloc` in `nl6621_drv.c:61` is only
logged, after which the sector is read to address 0.

### Bounds

* `CloudLink`: two descriptors are needed for another task to take the one the
  client has closed; with one, `socket()` fails and is retried.  Two frames let
  a login answer and a command arrive in one `recv()`.  One failing `select()`
  is enough to see that the mutex is then kept for good.
* `network` (134,725 states).  `DhcpServer` (19,744): three stations and three addresses let one station
  take another's history entry while the third holds a lease.  Timers of two ticks give a state
  between full and expired.  The subnet of eight hosts is the smallest in which the
  pool fits.  `Onboarding`: three networks give a compiled-in one, one whose key is too long for
  the record, and the one that is left of it.  Three queued events and one lost link hold
  a link that goes up, down and up again while `mgmt` waits for an address; without a bound on
  the losses the link could go up and down for ever.
* `LanServer`: two slots give an empty slot before a used one, and a full table;
  four descriptors hold the listener, the UDP server or another task, and two
  clients.  `client_connect_count` is only ever
  compared with a positive constant, so counting it below `-MinCount` tells
  nothing apart.

* `device_parts` (123,570 states): a ring of three bytes, so that it is empty, full and
  wrapped; a pool of eleven units and sizes that leave a rest too small to
  split; two messages of nine kinds in a receive buffer of 20 bytes, cut
  anywhere; a resolver table of two entries, two retries, one server, answers with an address
  and with 0.0.0.0, entries of one age (the proof has them all); three control blocks, one fewer
  than both servers and two others want, and nine queries, three of them compressed; two
  descriptors and a clock that wraps at 16.
* `kernel` (1,040,310 states): of the kernel, three tasks of priorities 2, 4 and 5, one priority for
  the mutex above them and a spare one between; counts up to 1, a queue of two, two
  messages, delays of one tick; eleven applications.  Of the sockets, two tasks, two
  descriptors and netconns, receive mailboxes of two and accept mailboxes of one (full and
  refused), a send buffer of one unit and writes of two, which wait for room; seven pairs of
  programs (clients, servers and datagrams, beside a task that selects, reads what the
  first accepted, or opens and closes descriptors).  Of the list of timeouts, one cyclic timer of
  three and the DHCP server's tick of two, in a pool of three: a second tick is set while the handler
  of the first is about to set itself again, so that a timeout is set before, behind and between others and the
  pool is used up.  `FollowTorn = FALSE` keeps the management task out of the
  operations of the thread; `timeout_race` lets it in.
* `stack_parts` (263,327 states): two addresses; leases whose T2
  is longer than its counter, whose T2 never comes and whose T1 never comes; lease counters that wrap at 3; three failures
  of memory.  Two cyclic timers of one and two ticks beside the TCP timer and the
  DHCP server's tick; a mailbox of two, one packet and one call under way; a tick
  counter that wraps at 8 and starts at 5, so that it wraps during a fetch, and a thread
  that is at most `MaxDelay = 1` tick late; one tick of the DHCP server in the list when one more
  is set; a torn list is empty, as nothing is said of it.

Deadlock is not checked in the progress runs of `CloudLink`, where all tasks may
be inside a `select()` that nothing wakes (the subject of `cloud_heartbeat`),
nor in the runs of `LanServer`, which follows nothing after the write past the table,
nor in `device_parts` and `kernel`, whose environments may come to an end of their
bounded supply and whose interrupts need not come.

### Fairness

* `CloudLink`: a task that can run does run (weak fairness): the higher-priority
  ones block in every round.  `Lock` is strongly fair: uC/OS-II hands a
  mutex to the waiting task of highest priority, and each holder sleeps after
  it.  `ConnectOk` is strongly fair: the server can be reached again and again.  The cloud
  and the network are under no fairness.
* `DhcpServer`: the one-second tick.  Nothing is assumed of the stations.
* `Onboarding`: the tasks and `mgmt` run, and the driver ends each attempt with one
  event or another.  `ConnectReturns` also assumes an address is assigned in the end:
  with `DhcpTryTimes = 0` nothing else ends the wait.
* `LanServer`: the server's thread runs when its call returns.  Phones are under no
  fairness, hence the exception for a first message that never comes.
* `RingBuffer`: the timer and the task run; the interrupt handler need not.
* `DnsResolve`: the resolver's timer and the asking task run; no answer need come.
* `LinkServices`: timeouts go off and the thread of the stack goes on.
* `DhcpClient`: both timers and the polling loop run; servers need not answer.
* `TcpipThread`: the thread runs when it can, and the tick comes.  Nothing
  limits how often messages are posted.

## 4. Proofs

Eight modules hold theorems: `CloudLinkProofs`, `DhcpServerProofs`, `OnboardingProofs`,
`DeviceProofs` (heap, NTP client, servers of the access point, resolver, ring buffer),
`StackProofs` (thread of the stack, LAN server, DHCP client, their composition),
`SocketSteps` (the invariant of the sockets and half of the actions), `SocketProofs` (the other
half and the theorems) and `Extrema`.  They prove safety for
every value of the constants, from the modules' named assumptions only (positive sizes and
timeouts; marker values distinct from the real ones; finitely many tasks; room in the pool of
LwIP's timeouts).  A theorem of `DeviceProofs`, `StackProofs` or `SocketProofs`
is about its component's own specification, which is what runs in the
composition once the initial state has chosen the part; `StackTypeCorrect` is about the
composition itself.

**CloudLink.**  `TypeOK` is not inductive: `failedcnt` is bounded
because a login request is under way only while at most three have failed
(`RetryInv`), `batch` because the packets still to be gone through are in the inbox
(`BatchInv`), and both need to know which task can be where (`PcInv`) and that
a descriptor exists exactly past `socket()` (`FdInv`).  On top of `TypeInv`:

* `MutexCorrect`: `MutexDiscipline` is inductive as it stands.
* `NoFdLeakCorrect`: likewise; it needs `LowestFreeIsFree`, that `alloc_socket`
  returns a free descriptor.
* `FreshCorrect`: `DoneIsFresh` needs `SilentInv`, that nothing arrives on a
  connection before its login has been answered.

**DhcpServer.**  The lemma `Effect` says what one message does to each entry: the
returned one goes to the sender, the sender's other entries are freed or kept
as history, the rest is untouched.  From it:

* `OneEntryCorrect` by comparing two entries before and after;
* `NoTakeoverCorrect`, an action property (no step hands an entry in use from one client to another),
  from `DhcpsTypeOK` alone;
* `NoSharedLeaseCorrect`, under `PoolFits`: addresses are then distinct
  (`PoolDistinct`), and a station that uses an address has its entry bound to it
  (`LeaseInv`).  A pool that wraps has an address twice (see section 3).

**Onboarding.**  The inductive invariant `IInv` has seven layers, each proved from the
ones before it: types and which task can be where (`ControlOK`: `Udp` works only when `Boot` is
done, `Reset` only once it is armed); the mode (`ModeOK`); where the driver
stands still (`DriverOK`); what is under way while the device is an access point
(`AccessPoint`) or gives up joining (`JoinOK`), from which `NoRogueDhcp`; the queue of events
(`EventsOK`: every `LINK_UP` in it finds no session open, because a `LINK_DOWN` stands before it, so
`L2LinkUp` never meets an old address); the settings that are saved (`LinkedOK`:
the flag a task polls says connected only for the present settings, of which `Kept` is what is saved); and the record two tasks
write (`FlashOK`: from its erase to its last byte, `Boot` or `Udp` finds at most traces of
`SysResetThread`'s record).  A reset of the chip may fall between any two steps.
`OnboardingTypeCorrect`, `ModeCorrect`, `NoRogueDhcpCorrect`, `CredentialsCorrect` and
`StoreCorrect` follow.

**RingBuffer.**  `RingRefinesFifo` is the refinement: with the bytes from `head` to `tail` as
the queue, each step of the interrupt handler, the timer and the task is a put, a get or a
stutter of `Fifo`.  The task works with the `tail` it has read earlier: `SeenBehind` says that
this one lies between `head` and the present `tail`, `PieceInFront` that what it has copied is still
the front of the queue.  `AppendBytes` and `DropBytes` say what a write at `tail` and an advance
of `head` do to the queue, wrapped or not.  `RingTypeCorrect` comes from the same invariant.

**OsDmem.**  `HeapCorrect`: blocks tile the pool and no two neighbours are free, the search
starts at a live block, each caller has a block of the size it asked for, `dm_available` is the sum of the
free blocks, and a request fails only when no block is large enough.  `HeapInv` keeps a
local form (`Shape`: each link leads to the next header above it), and two
lemmas go from local to global by a least counterexample: following the links from any
header visits all of them (`WalkVisits`), and changing one entry changes the sum by the
difference (`SumChanges`).  `OS_FreeMem` joins twice; between the two the
invariant holds but for one named pair (`OnePair`).

**NtpClient, LinkServices, DnsResolve.**  `NtpCorrect` needs to know who holds which descriptor
at each place of the task (`NtpSockets`) and that, as long as the ticks since the epoch fit the
counter, it holds them (`NtpClock`).  `ServersCorrect` needs that the two
servers hold different control blocks that no task holds (`ServersApart`) and which blocks of memory the
callback holds at each of its steps (`BlocksHeld`); that `_DnsCompareName` accepts exactly the
names that are equal but for the dots is `CompareIs`, from where each label stands in the name
(`Begins`, `Laid`).  It is an equivalence for names without a compression pointer; of one with it the
theorem says that its labels are the server's, or none.  `AddressCorrect` needs that an entry with no retry left
has run out its timer (`RetryLeft`) and that, unless an answer did not get to `domain_ipaddr`
(`missed`), an address has come in whenever one can be handed on (`AddressKnown`).

**LanServer.**  `DescriptorsCorrect`: `LanInv` adds to the table what `select()`'s loop holds in its
locals (`LanLocals`) and that connections and client sockets are the same (`ConnsAreClients`).
It holds for any number of slots, as the model ends at the write past the table that `lan_table` shows.

**DhcpClient.**  `AddressBackedCorrect`: `ClientInv` says in which states the interface has an
address and that it is the one the client works with (`AddressOf`); and, as long as no transaction number
was used for two states, that what may still be acknowledged is the offer the client works with
(`OnlyOffered`) and that the interface's address is the one acknowledged (`LeaseOf`).  The
proof of an earlier form of `AddressBacked`, without `reused`, failed for a good reason: with three failures
of memory it is false (see `DhcpClient` in section 2).  The runs' `MaxNoMem` was 2; it is now 3.

**TcpipThread.**  The theorems hold of the list until `DHCPS_Start` or `DHCPS_Stop` falls into an
operation of the thread on it (`torn`), which `timeout_race` shows to lose timers; what
`ThreadCorrect` says of messages, and the types of all else, holds in any case.  That without such
events the linked elements behave as this list is checked, for a small pool, by `kernel`.
`ThreadRefinesTimeouts` is the refinement of `Timeouts`.  What every step may do to the
list is one of five things (`ListStep`): nothing; a timeout more, after all due no later
(`Sets`); one less (`Skips`); all sooner by a wait (`Sooner`); the first gone off
(`Rests`).  Each is stated with the sums `Due` of the differences, and the lemmas
`TimeoutSets`, `UntimeoutSkips`, `WaitPasses` and `TailRests` show it for `sys_timeout`, `sys_untimeout`,
the fetch and the expiry.  It holds for whatever wait is told, so also for the wrong one that
`stack_clock` shows.  `ThreadCorrect` needs `ThreadInv`: the list is one whose times are not negative (`ListKept`) and, until it is
torn, within the longest interval (`Bounded`), the thread has a handler or a message exactly where it should
(`ThreadShape`), each handler is counted once over the list and the thread (`Timers`, with a bound
on the ticks that `ThreadSound` does not state but the pool needs), and each message once over mailbox,
thread and pool (`Messages`).  That `sys_timeout` finds an element for a handler that sets itself again (`Room`)
comes from counting: a list in which no cyclic timer is twice is no longer than their number and
the TCP timers and ticks in it (`Accounted`).  `sys_timeouts_init` is a recursive function;
`InitStarted` shows that it sets each timer once.

**StackParts.**  `StackTypeCorrect`: a step of one part leaves the others' variables alone, so
`LanInv`, `ClientInv` and `ThreadInv` hold side by side.

**SocketApi.**  The theorems assume `Shared = FALSE`: no two tasks make calls on one descriptor at a time.
`socket_shared` shows that without it a call takes another's answer.  The inductive invariant
`SockInv` is stated of a state of the stack and one of the tasks, so that an action
made of several calls (`accept()` settles the descriptor, `recv()` copies, acknowledges and returns) is
proved call by call.  Its parts are needed by each other:

* `Conns`: what the fields of one netconn say of each other (a message is kept exactly while its state
  is busy, a listener has a mailbox for connections and no other).
* `Shapes`: where a task is tells which call it makes; `AllApart`: no two tasks use one descriptor
  or bring one netconn.
* `Links`: each netconn in use is found from exactly one place, and that place is found from it.  This is
  `ConnsOwned` in a form that one step can keep: `ConnsOwnedCorrect` counts the
  owners from it.  It is what makes a call's netconn private (`Private`): no other task's call, queue or
  deletion changes it between two steps of the call.
* `Talks`: a task that waits has its answer in `op_completed` or its message in the netconn, never
  both, and a netconn keeps either only for a task that waits; `Stages`: what is left of a netconn while
  `do_delconn` closes it, and that `recv()` waits only where something may still come.
  `CallsAnsweredCorrect` follows.
* `Counts`: `rcvevent`, or the negative number that stands for it, is what the mailboxes hold and
  what is fetched and not yet counted, and what the new descriptor of `accept()` holds before the two are
  added up.  `EventsMatchCorrect` follows.
* `Selects`: a select's descriptors stay open, the selects that count on a descriptor are as many as it
  says, and those a scan has passed are not ready unless the select was signalled.
  `SelectSoundCorrect` follows; a task that goes through the list in `event_callback` stands
  on an entry that is still in it or knows that it has changed.

`TaskStep` and its forms for a call, an answer and a return (`CallStep`, `AskStep`, `ReturnStep`) show once
what a step on a private netconn leaves alone; an action's proof is about its own netconn only.

**Technique.**  `Extrema` proves that a non-empty set of naturals has a least element, and a bounded
one a greatest.  Where a fact about a recursive function or a walk is needed, the proofs take the least
number at which it fails.

Only model-checked:

* all liveness properties, which rest on fairness and `ENABLED`, and the violated ones;
* `StreamSound`: what the recursive functions of `EdpStream` compute for every input;
* the type invariants `PartsTypeOK` and `LayersTypeOK` as a whole;
* the properties of `OsKernel` and of `TimeoutCells`.

## 5. Plan

The theorems worth proving next, each after an inductive strengthening that TLC
has checked:

1. `ListsSound` and `ScheduleSound` of `OsKernel`, one lemma per list operation.
2. `LayersTypeOK` of `KernelParts` (the half of `SocketApi` is `SocketTypeCorrect`), which needs the
   types of `OsKernel`, and `PartsTypeOK` of `DeviceParts`, which needs those of `EdpStream`.

## 6. Not modelled

The map stands for some 10,600 of the repository's 97,000 lines of C.  Of the rest,
about 23,000 are headers and 25,000 are parts of LwIP that the build leaves out
(PPP, SNMP, IPv6), 9,000 are register access of the board, and most of what remains is the core
of the stack and services of the kernel that the firmware does not call.

* Text and packet layouts (RESTful requests, JSON, DHCP options) and cryptography: no
  state, or none a property is about.
* The rest of LwIP: TCP, IP, ARP and pbufs; of the sockets the options,
  `shutdown()`, non-blocking calls, the exception set, raw connections and groups.
  PPP, SNMP, IPv6, AutoIP, IGMP and netifapi are in the repository and not in the
  build.  The messages `TCPIP_MSG_TIMEOUT` and `TCPIP_MSG_UNTIMEOUT` are never sent.
* The rest of uC/OS-II: event flags, timers, memory partitions and the query
  functions.
* Register access of the board support package, the bit-banged serial sender, the
  binary Wi-Fi library, the boot loader.
* Parameters and helpers (`Sys/param.c`, `Sys/util.c`): single assignments and
  wrappers of kernel services.
