# Specifications of AfdxSnmp

AfdxSnmp is `snmpget` over an AFDX (ARINC 664) board: a Windows console program
built from the manager half of net-snmp, in which the function that hands a
datagram to UDP hands it to the board instead. Answers are still read from the
UDP socket. This directory holds TLA+ specifications of its core, the TLC
configurations that check them, and proofs checked by TLAPS.

## The system

```
main (AfdxSnmp.c)
  | snmp_open, l_Init, snmp_synch_response, snmp_fix_pdu, snmp_close
  v
blocking call (snmp_client.c)       select loop + callback snmp_synch_input
  | snmp_send, snmp_read, snmp_timeout              ^ callback
  v                                                 |
session (snmp_api.c)                list of requests with timers and retries
  | netsnmp_transport_send                          ^ packets from the socket
  v                                                 |
transport (snmpUDPBaseDomain.c) --> board (afdx_GenericTX.c, afdx_GenTX_Ext.c)
```

| Component | State it keeps | Operations | What makes it correct |
|---|---|---|---|
| Session, `snmp/snmp_api.c` | `isp->requests` / `requestsEnd`; per request: ids, callback, retries, timer, PDU | send, process packet, repeat, timeout, close | the list is intact; a PDU has one owner and is freed once; retries are bounded; every request ends, once, if there is memory |
| Blocking call, `snmp/snmp_client.c` | `synch_state`: reqid, waiting, status, pdu | `snmp_synch_response_cb`, `snmp_synch_input` | it returns, if its socket falls silent at last, with the fate of its own request, whatever is left on the session |
| Main program, `AfdxSnmp.c` | pdu, response, exitval | open, login, request, retry, end | each response is freed once; it looks at the newest answer only; each try ends |
| Board, `afdx/afdx_GenericTX.c`, `afdx_GenTX_Ext.c`, `afdx_LogInOut.c` | port mode, transmit queue, buffer and sub queues, on the board | `l_Init`, `l_TransmitAFDXSetup` and its parts | a failed step leaves nothing allocated or running; only the message goes out |
| ARP lookup, `afdx/afdx_GetDMac.c` | `myThreadCount`, `HostNum`, `ddmac` | `tttDMac`, `threadofsnt`, `threadofrcv` | the counter counts, the address is complete, the caller returns |
| Callback transport, `transports/snmpCallbackDomain.c` | one queue for all endpoints, a pipe each | open, send, receive, close, clear | a reply goes to whom it is for; queue and pipe agree |
| Alarms, `snmp/snmp_alarm.c` | list of alarms with times and marks | register, reset, run, unregister | no alarm is early, starved, or called inside itself |
| Callback registry, `snmp/callback.c` | per event a priority list and a lock count | register, call, unregister, clear | what entries share is freed once |
| Event loop, `snmp/fd_event_manager.c`, `large_fd_set.c` | tables of descriptors | register, unregister, dispatch | a round calls exactly what was reported |
| Containers, `snmp/container*.c` | sorted array, singly linked list, iterators | insert, remove, find, iterate | they are stores and lists; an iterator in sync is sound |
| Persistent data, `snmp/read_config.c`, `snmp_api.c` | a file and its numbered backups | store, clean, read at a start | a crash loses nothing that was stored |
| BER, `snmp/asn1.c`, `int64.c`, `snmp.c` | none | build, parse | parse inverts build, and refuses what is cut off |
| Messages, `snmp/snmp_api.c`, `snmp.c`, `snmp_auth.c` | none | build, parse | what arrives whole is what was sent, and nothing else is understood |
| Transports, `transports/`, `snmp/snmp_transport.c`, `snmp_service.c` | registered domains; default domains and targets, each set by the program and the user | register, look up, create for an address | the domains asked for are tried in order, with the right part of the address; the user's word counts and can be taken back |
| USM clocks, `snmp/lcd_time.c` | per engine a clock, when it was heard, and whether with authentication | set, estimate, free | a known engine is not taken to be ahead of what it is |
| Tables, `snmp/oid_stash.c`, `snmp_enum.c`, `data_list.c`, `default_store.c` | a tree with hash buckets; lists | add, find, walk, save, free | what is in the stash is found, saved, and walked in order |
| VACM, `snmp/vacm.c` | views, access entries, groups | create, destroy, check | a subtree is decided as all that is in it is; the entry is chosen as RFC 3415 says |
| MIBs, `snmp/parse.c` | the tree of object identifiers, the orphans, which modules are read | read, adopt orphans, unload | in whatever order modules come and go, the tree is what they define |
| Log, `snmp/snmp_logging.c` | list of handlers, index by priority, count of the enabled | register, enable, log, restart, remove | messages go where they are for, and never through freed memory |
| Text, `snmp/mib.c`, `read_config.c`, `snmp_parse_args.c` | config handlers | parse, print | (text) |
| Helpers, `tools.c`, `system.c`, `snmp_debug.c`, ... | | | (I/O) |

The session, the calls on it, `main`, the board and the ARP lookup depend on
each other as the picture shows. The sessions of a program share
the loops that wait for them. The services below them in the table share no
state with them or with each other: whoever uses one calls its functions.

What is hard about them: datagrams are lost, delayed,
duplicated and reordered, and the session matches late answers to requests that
have been repeated, given up or replaced. Every board command may fail, at any
point of a setup. Board firmware and the two ARP threads run by themselves.
Alarms, callbacks and descriptors are removed, added and run again from inside
their own callbacks, and so are sessions while a loop visits them. Iterators, indexes and
cached nodes outlive what they point to. Searches rely on an order that every change has
to keep. Streams are cut
at any byte, and a process may crash in the middle of writing its data.
`PROJECT.json` lists each hazard with its line and the property that covers it;
where none does, it says why.

## The modules

| Module | Models | Built on |
|---|---|---|
| `RequestPromise` | what a session promises for each request: a request that is taken settles once, for good, after a bounded number of repetitions | |
| `SnmpSession` | the request list of one session | implements `RequestPromise` |
| `MCSnmpSession` | the same, with interchangeable requests | `SnmpSession` |
| `SnmpSynch` | blocking calls on a session | `SnmpSession` |
| `SnmpGet` | `main` | `SnmpSynch` |
| `AfdxBoard` | login and transmission | |
| `ArpResolver` | the ARP lookup | |
| `AfdxSnmp` | `main`, the board and the lookup side by side | these three |
| `Sessions` | all sessions of a program and the loops over them | |
| `StreamReader` | `_sess_read` over a stream: cutting packets out of a kept buffer | |
| `SnmpAlarm` | alarms | |
| `CallbackRegistry` | callback lists and their locks | |
| `CallbackDomain` | the callback transport | |
| `FdEvents` | external descriptors in the event loop | |
| `PersistentStore` | storing and reading persistent data, with crashes | |
| `BerCodec` | lengths, integers, strings and object identifiers on the wire | |
| `SnmpMessage` | messages of all versions on the wire: what the session fills in, wrapper, fields and variables | `BerCodec` |
| `Library`, `MCLibrary` | these eight side by side, and their constants | all of them |
| `KeyedStore` | what an array container promises | |
| `BinaryArray` | the array container and its iterator | implements `KeyedStore` |
| `ArraySort` | `array_qsort` | |
| `OrderedList` | what a list container promises | |
| `LinkedList` | the linked list container and its iterator | implements `OrderedList` |
| `Containers`, `MCContainers` | array, sorting and list side by side, and their constants | all three |
| `OidStash` | data by object identifier | |
| `OverridingMap` | what a table of defaults promises | |
| `DefaultTable` | the tables of default domains and default targets | implements `OverridingMap` |
| `TransportChoice` | which transport is created for an address | `DefaultTable`, twice |
| `ViewTable`, `AccessTable` | views and access entries of VACM | |
| `EngineTime` | the clocks of remote engines | |
| `MibTree` | the tree of object identifiers, built from modules of MIBs | |
| `LogHandlers` | handlers of the log | |
| `Tables`, `MCTables` | these eight side by side, and their constants | all of them |
| `Sublists` | what is kept of a list from which a loop removes entries | |
| `SequenceLemmas` | facts about lists that the proofs share | `Sublists` |
| `SnmpSessionProofs` | theorems about `SnmpSession` | `SequenceLemmas` |
| `AfdxSnmpProofs` | theorems about `SnmpSynch`, `SnmpGet`, `AfdxBoard`, `ArpResolver` and `AfdxSnmp` | `SnmpSessionProofs` |
| `LibraryProofs` | theorems about `SnmpAlarm`, `CallbackDomain`, `PersistentStore`, `FdEvents`, `CallbackRegistry` and `StreamReader` | `SequenceLemmas` |
| `MessageProofs` | theorems about `BerCodec` and `SnmpMessage` | `SequenceLemmas` |
| `SessionsProofs` | theorems about `Sessions` | `SequenceLemmas` |
| `TablesProofs` | theorems about `DefaultTable`, `EngineTime`, `TransportChoice`, `ViewTable`, `AccessTable` and `LogHandlers` | `SequenceLemmas` |
| `ContainersProofs` | theorems about `LinkedList`, `BinaryArray`, `ArraySort`, `Containers` and `OidStash` | `SequenceLemmas` |

`AfdxSnmp`, `Library`, `Containers` and `Tables` compose parts that share no state: the part
that is used is chosen at the start and takes all the steps, so that each is checked on
all of its behaviours without multiplying their states.

**SnmpSession.** `requests` and `requestsEnd` are the list and its tail
pointer, `Append_rp` and `Unlink_rp` the pointer surgery of
`_sess_async_send`, `_sess_process_packet` and `snmp_sess_timeout`. Because
`Append_rp` inserts behind whatever `requestsEnd` names, a stale tail pointer
would show as a list in the wrong order or with a lost entry. `sent` only grows:
that an answer to any message in it may arrive at any time is how loss, delay,
duplication and reordering are modelled. A message is a pair of request and
repetition, which stands for the message id: `snmp_resend_request` draws a new
one each time. `left` is the time until `rp->expireM`, in ticks, with -1 for
everything past it; `timercmp(<)` is `left < 0`. `snmp_sess_timeout` reads the
clock once, so the requests it will find expired are fixed at its start
(`due`), and its loop takes them in list order, one action for each; between
two of them a callback may send a new request. A failed repetition ends the loop
with the timer still expired, as the `break` in the code does. `freed` counts
calls of `snmp_free_pdu` by the session. Building and parsing packets,
encryption, the engine-ID probe of version 3 and stream reassembly are left
out; `Refuse` stands for every early return of `_sess_async_send`. `Resend` has three results.
Without memory for a packet (`"nomemory"`, `snmp_api.c:6156`) `snmp_resend_request` returns
before the repetition is counted or the timer set, and says 0 as for success: the loop goes on,
and the request is still expired at the next `snmp_timeout`. Agents are
assumed to send REPORT PDUs in version 3 only.

**SnmpSynch.** One call at a time; packets are read and timeouts run only while
it waits. `Begin` is `snmp_send` up to the loop, and the other actions are one
turn of the loop with what `snmp_synch_input` does inside it. Requests that a
call left behind (`SelectFails`, `ReadStray`) stay on the list and are met by
the calls after it. `readable` says that there is something on the socket which is no news to
the session (a packet that matches no request) or a signal pending: `Arrive` may set it at any time,
`ReadNothing` is the turn of the loop that takes it. `snmp_timeout` is called only when `select`
returns 0 (963-970), so `RunTimeout` needs `~readable`. Answers and reports to the session's own
requests may be read at any time, as in `SnmpSession`. `snmp_clone_pdu` may find no memory:
the status is success all the same, and `clone` is `NoReq`.

**SnmpGet.** `main` with version 1, as the program fixes it. `FixAndRetry` is
the retry after an error the agent reports; the repaired request is the next
element of `Req`, and `addressed` tells which requests carry the address list
for the board. The agent decides how often there is something to repair: `snmp_fix_pdu`
clones the variables of the *response* but for the one at its error index (`snmp_client.c:559`), so the
variable of the command line bounds nothing. In the model `Req` does, and no property rests on it.
`NoResponse` is main reading `errstat` through a null pointer (`AfdxSnmp.c:166`) when the call has
succeeded without memory for the response; the behaviour ends there.

**AfdxBoard.** `l_TransmitAFDXSetup(1, 0, ...)`, action by action, for the three
setups. `AIM_ASSERT` is `Command`: go on, or leave the function. What the
commands do on the board is not in the repository. The model assumes that a
command that fails has no effect, that `FdxCmdTxQueueCreate` gives an empty
queue, and that a started port sends until it is stopped or its one cycle is
over (`BoardSends`, `CycleOver`, marked external). `suspect` remembers a failed
command since the queue was last created: after one, nothing is claimed about
what a running port sends.

**ArpResolver.** The increment and decrement inside the critical section are a
load and a store, so that an unprotected write in between is seen; the three
reads of `myThreadCount` outside it are steps of their own. `HostNum` is taken
modulo `WordSize`, 4 standing for 2^32.

**StreamReader.** A byte is `<<n, i>>`, byte i of packet n. `wire` is what the
peer has sent and `recv` has not returned; a piece of any size that fits may
arrive. Each turn of the loop in `_sess_read` is an action: a packet is processed,
found incomplete (`KeepAll`, `Shift`), or found to be nonsense (`Drop`). The
program itself is compiled with datagram transports only, but the code of the
stream case is in its session.

**SnmpAlarm.** Times are relative to the clock: `left` is `t_nextM` minus now.
`running` is the stack of `run_alarms` calls that are inside a callback. Between
any two of their steps the list may be changed or `run_alarms` called again, which is what a
callback may do. `quiet` is an auxiliary clock: the time since the alarm was
registered, reset or called. A reset that an alarm's own callback makes is
overwritten when it returns (`sa_update_entry`), so `quiet` does not count it.

**CallbackRegistry.** The lock of an event is a count that is waited for, for 100 ms, and
then ignored; the unlock counts down in any case, so the count drifts below 0
(`MaxDrift` bounds it) when callbacks use the list of their own event. A callback that
unregisters an entry of its event may thus free the entry whose callback is running; the
code reads it afterwards. That step has no successor in the model: what freed
memory holds is not modelled.

**CallbackDomain.** A byte in a pipe announces each message on the common queue.
`Push` has the three outcomes of the code: both succeed; the message is lost for
lack of memory, behind the byte; the write to the pipe fails. All three are reported
as success. A server may answer a request later, after its client has closed and
others have opened.

**FdEvents.** A round is `netsnmp_external_event_info2`, `select`, and
`netsnmp_dispatch_external_events2` with its three loops. The application runs
between rounds, between `select` and the dispatch, and inside callbacks; it
may then register a descriptor number that has just been freed.

**PersistentStore.** A store is `snmp_save_persistent` (rename, or remove, then the
header), one line for each callback, and `snmp_clean_persistent`, file by file. The process may
crash between any two of them, each file operation may fail, and a restart
reads the files as `read_config_files_in_path` does. If `rename` fails the old file
is removed: nothing then keeps its data, and `stored`, what is promised to
survive, is emptied. Likewise a line whose `fopen` fails is not promised.

**BinaryArray.** `Halved` is the loop of the binary searches, and each search is one
over whatever the array was sorted to: `Sortings` allows any order of equal keys,
as `array_qsort` does. `container->sync` is compared with the iterator's copy
only, so the difference is kept. `KeyedStore` is a set of entries and says nothing of
sorting; the refinement maps the array to its set.

**ArraySort.** One step is one turn of the partitioning loop; recursion is a stack
of ranges.

**LinkedList.** Nodes are memory that is freed and given out again, so that an
iterator that follows a stale pointer would be seen. `OrderedList` is a sequence of entries.

**BerCodec.** Octets have `OctetBits` bits and a long `LongOctets` octets; the
program's values are 8 and 4. Everything is written in terms of the two, so the run can take every
value of a small long, and the theorem holds for the program's. The forward and the reverse builders are different
code with different ways to find the shortest form, and are modelled separately. An object identifier
is parsed in one loop: `SubidEnds` says where its turns end, `SubidOf` what one of them reads.

**SnmpMessage.** `Filled` is what `_snmp_build` and `snmpv3_build` do to a PDU before
they write it, `Packet` what they write, `ParsedMessage` what `_snmp_parse` makes of it. A
parser returns a set, empty if it fails, so that `Then` reads like the code's sequence of calls
and early returns. The forward builder leaves four octets for each structure and fills them in;
the other one knows the lengths, but meets the variables in the wrong order: `BuildOrder`
is its cache of the last `VPCACHE_SIZE` of them. `snmpv3_parse` narrows the remaining length
only where the code does, so the positions up to which each field may go are those of the code.
The security model is not in the repository: `Secured` adds a string of parameters and leaves
the scoped PDU as it is.

**Sessions.** The list `Sessions` with the three loops that a program runs in turn:
`snmp_sess_select_info2_flags`, then `snmp_read2` or `snmp_timeout`. One action is
one visit, and callbacks run between visits: they open and close other sessions and
send. A session's requests are one timer, the earliest. The operating system gives a
freed descriptor out again, so a bit that `select` has set may name a newer session.
A callback may close any session, and two of them are still in the hands of the loop: the one that
called, and, while `select_info` closes a marked session, the next one, which was saved before
(`snmp_api.c:6009`, 6025). The loop then goes on with freed memory; nothing in the repository
forbids it. `stray` says that it has happened, and the behaviour ends there: what freed memory holds is
not modelled. `LoopsOnLive` says that nothing else leads a loop astray. `late` are the sessions on
which a callback of `select_info` itself has sent; their timers it may miss. A single
session is asked about only if it is not marked: a marked one would be freed without
leaving the list.

**OidStash.** A node is named by the identifier that leads to it, and its children are
in hash buckets, the newest first. `GetNext` is `netsnmp_oid_stash_getnext_node` with
its two loops: `Pass` is one turn of the outer one, and `WalkOn` as many as it takes. `Dump` is the recursion of a save.

**DefaultTable, TransportChoice.** `snmp_service.c` holds the same code for domains and
for targets, so `TransportChoice` has two instances of one module. A call of
`netsnmp_tdomain_transport_full` is taken step by step, one for each domain that is
tried; whether a domain's function succeeds is a free choice. There is one application,
and configuration files of single hosts are left out.

**ViewTable, AccessTable.** A mask is the set of positions it leaves open. What the
caller fills in after `create` (type and mask, `contextMatch`) is set at once, since
nothing is looked up in between. `ViewGet` and `GetAccess` go through the list as the loops do and
keep the best entry so far. The object identifiers asked about are longer by one
than those in views and have a subidentifier that no view has.

**EngineTime.** `truth` are the clocks of the engines themselves, `proved` the engines
heard with authentication and `rebooted` those that have started again since; all three
are auxiliary. The clock of this process stays within `TimeMax`, so a time rolls over at
most once; `Claimed` are the clocks that messages without authentication carry.

**MibTree.** Labels are tuples and nodes are numbers; the names of nodes without a name
carry the number of the parse. `Read`, `Linkup`, `DoSubtree`, `Merge` and `UnloadNode` are
the functions of these names in `parse.c`, each with its order of search. Types, textual
conventions, syntax errors, replacement modules and unloading the module that
defines `iso` are left out, and so is `{ iso }` as a whole definition, which the code looks up behind a
root without a parent. `name ::= { parent }` (a `subid` of -1, `NoSubid`) is in:
`Link` puts the new node in front of all peers of the last node of the parent's place, and looks for a node to
join there only. A name that has stayed for its children after its module was unloaded is then found again
only by luck: when the module is read again, a second node of that name may be made, and
`TreeExact` does not count the nodes of names at or below such places (`BelowShared`); that names with an identifier
of their own are there, and nothing that no definition puts there, it claims of them too. Of the orphans of a module those whose parent is an orphan as well
come first; the order among them is that of the hash buckets in the code, and the reverse of the module's here.

**LogHandlers.** The list with both links, so that the one `netsnmp_add_loghandler` does
not set is seen; `logh_priorities`, through which a message starts in the middle of the
list; and the count that decides whether messages go to stderr instead. Removing all
handlers is taken one handler at a time. Opening a file may fail wherever the code opens
one; `snmp_enable_syslog_ident` walks the list as it is after the new handler was linked in.

## The runs

| Run | Module | Shows | Bounds |
|---|---|---|---|
| `session` | `MCSnmpSession` | safety of the session, and that it implements `RequestPromise` | 3 requests, 1 retry, timeout 1 |
| `session_live` | `SnmpSession` | every request that was taken ends, unless memory is refused again and again | 2 requests, 2 retries, timeout 2 |
| `synch` | `SnmpSynch` | a call returns, with its own result; the exceptions are below | 3 calls, 1 retry |
| `program` | `AfdxSnmp` | main's tries up to its exit; what failed commands leave on the board; the shared counter of the lookup | 1 request and 2 repaired ones; 2 transmissions of 2 messages, 2 buffer queues, 1 sub queue; subnets of 2 hosts and of 0 |
| `sessions` | `Sessions` | no loop stands on a freed session, unless a callback frees the one it goes on with, or misses one; only reported sessions are read; ended ones are closed | 3 sessions, 2 descriptors, timeout 1 |
| `containers` | `MCContainers` | array and list implement their specifications, what they hand out is sound, sorting sorts | 4 entries with 3 keys in the array, first allocation of 2; 3 nodes; every array of up to 6 of 3 keys |
| `library` | `MCLibrary` | the eight services, as below | see below |
| `tables` | `MCTables` | the eight tables, as below | see below |
| `get_board` | `SnmpGet` | violated: a repaired request has no address list | 2 requests |
| `store_crash` | `PersistentStore` | violated: backups are not read oldest first | 2 tokens, 2 backups, 3 changes |
| `board_frames` | `AfdxBoard` | violated: demonstration frames may be sent instead of the message | 2 transmissions, 2 messages |
| `log_lost` | `LogHandlers` | violated: handlers are cut off the list and messages go nowhere | 3 handlers, 3 priorities |

What `library` checks of each service:

| Service | Properties | Bounds |
|---|---|---|
| alarms | `NeverEarly`, `LateAlarmRuns` | 2 alarms, intervals 0 to 2, 1 tick late, 2 calls inside each other |
| registry | `ArgsFreedOnce` | 3 entries, 2 of which share function and argument, 2 events, 2 nested calls |
| transport | `RepliesToRequester`, `EachIsRead` | 3 endpoints, 2 requests |
| fd | `RoundExact` | 2 kinds of event, tables of 2, 3 registrations of 2 descriptors |
| stream | `StreamServed`: packets are processed complete and in order, and each of them some time | 3 packets: one that fits the buffer of 3 bytes, one that does not, a broken one |
| store | `NothingLost` | 2 tokens, 2 backups, 2 changes |
| ber | `RoundTrip` | every int and unsigned of 2 octets of 4 bits; 64-bit values from 13 words at their boundaries; object identifiers of up to 4 |
| message | `MessageSurvives` | every command of every version, with and without data of its own; a variable of each kind; lists of up to 7 variables with a cache of 3; received by sessions of each version and of any, in the last case cut at every length |

What `tables` checks of each table:

| Table | Property | Bounds |
|---|---|---|
| stash | `StashExact`: data is found by its identifier and no other, saved once, and walked in order from node to node | identifiers of up to 2 of 3 subidentifiers, 3 buckets of which two subidentifiers share one |
| defaults | `ImplementsMap`: a map in which the user's value counts, without idle entries | 3 keys, 2 values |
| choice | `TriedRightly`: domains are tried in the order asked for, each with the right part of the address | 2 domains that share a name, 2 lists of names, 1 default target |
| views | `SubtreeDecided`: the answer about a subtree holds for all that is in it, and is not vague without need | 3 entries over 4 subtrees with 3 masks, all identifiers of up to 3 |
| access | `BestOfContext`: of candidates with one context the model of the request comes first and the highest level after it | 3 entries of 2 groups, 2 contexts, 2 models, 2 levels |
| mibs | `TreeExact`: every object the loaded modules define is where they say, nothing else is, and no node is left without need | 4 modules, two of which import each other, two with a `name ::= { parent }`; 4 parses |
| log | `HandlersSound`: nothing freed is reached, messages go to the handlers they are for, the count counts | 3 handlers, 2 priorities |
| time | `EstimateSound`: the estimate of an engine heard with authentication is not ahead of it, and does not go back | 2 engines in one bucket, times to 2, boots to 2 |

Why the bounds are enough. Three requests give the list a head, a middle and a
tail, the cases its unlinking distinguishes. With one retry each of the
comparisons on `rp->retries` is met at, below and above its limit; with a
timeout of 1 a timer is running, at zero, or past it. Requests with the same
role are interchangeable, so `session` uses symmetry; the liveness runs do not.
Two transmissions let the second meet whatever the first has left on the board;
of the buffer queues only the last decides on the result, so one besides it is
enough. A subnet of two hosts makes the sender loop; the mask of a single host
gives the 0 from which `HostNum` wraps around.

Four entries of which two share a key give the searches a first, a middle and a last
hit, and arrays of every length modulo the halving; a first allocation of 2 makes the
array grow. Three nodes are enough for an iterator to stand on one that was freed
and given out again. Six positions of three keys give `array_qsort` both of its
halves, pivots that move, and runs of equal keys. Two alarms can overtake each
other, and one may be called inside the other. A third endpoint can take the
place of a client that closed while its server kept the request. Tables of two
descriptors and three registrations let a descriptor be used again within a round. A packet of
5 bytes does not fit the buffer of 3, so the buffer is extended, shifted and
shrunk. A long of two octets of four bits has all the cases of the sign and of
the redundant first octet, which depend on two octets only. Seven variables fill a
cache of three twice and once more, and lists of three and six end at its edge; with a
cache of two the oldest slot would be the same from both sides.

Three sessions let a loop stand between two others, and two descriptors for them make the
system give one out again. Three views or access entries have an order in which the middle
one matters; three handlers are needed for one to go between two. The four modules of MIBs
have a circle of imports, a parent that comes late, one that never comes, a node without a
name that either of two modules names later, and two names for one object. Times to 2 let a
clock run over within the run.

All runs reach every state within these bounds; deadlock checking is off because
the programs end or run out of their bounds: a session closes, main exits,
threads return, `AfdxBoard` stops at `MaxCalls`, a callback list is cleared, a
value or a message has been parsed, an array has been sorted, the clock has reached its bound.

Each property has a mutant in the module it is about (an operator whose comment
starts with "Mutant:"): a plausible mistake in the code that makes TLC report the
property violated.

### Fairness

- `SnmpSession`: time passes (`Tick`), and the application keeps calling
  `snmp_timeout` and lets it finish. `snmp_synch_response_cb` does so by its
  `select` timeout, and `session_api.h` asks it of anyone else. Nothing is
  assumed of the network or the agent.
- `SnmpSynch`, `SnmpGet`: the loop of the call does not pause: `snmp_timeout` is called
  if a timer is due and there stays nothing to read, what there is to read is read, the loop is left when
  `waiting` is 0; main goes on. No packet need come, and none need stop coming.
- `ArpResolver`: threads are scheduled (weak fairness), a thread that keeps
  trying to enter the critical section gets in (strong fairness), and
  `pcap_next_ex` returns after its 10 ms. No reply need come.
- `SnmpAlarm`: time passes, the application keeps calling `run_alarms`
  (`RunAlarms` is a turn of its loop), and callbacks return. The last is strong
  fairness, as a nested `run_alarms` may start at any time while a callback
  runs. That `LateAlarmRuns` also asks `AlarmTick` to stop at `MaxLate` is a bound of
  the model: it stands for a `run_alarms` that is never kept from its turn for longer.
- `CallbackDomain`: a session reads while there is a byte in its pipe, which
  `select` reports. `StreamReader`: `_sess_read` is called while the socket has
  bytes, and goes on until it returns. `ArraySort`: a call goes on until it returns.
- `Sessions`: the program comes back to its loop over all sessions (strong fairness, as
  between two rounds it may always do something else first), the loops go on, and
  callbacks return.
- `AfdxSnmp`: the fairness of `main` where `main` is looked at, and that of the lookup's
  threads. The tables need none: their properties are about what may never happen.

What the code does not guarantee is an exception in the property, and not an assumption of
fairness; in each case TLC finds the call, or the request, that waits for ever if the exception is left out:

- `[]<><<OutOfMemory>>_vars` in `EventuallySettled`, `CallReturns` and `EveryTryEnds`: memory for a
  repetition is refused again and again. It is then never counted, and the request waits for ever.
- `[]<><<ReadNothing>>_synchVars` in `CallReturns` and `EveryTryEnds`: packets that are no news, or signals,
  never stop coming. Whenever `select` is asked there is something to read, it does not return 0,
  and `snmp_timeout` is not called.

`EveryTryEnds` says of main that no single request keeps it for ever: it ends, or it has repaired the request
and sends another one. That main ends is not a property of the code: an agent may answer each
repaired request with another error that can be repaired.

`ReturnsOnceSynchronised` starts from the moment the sender has seen the
receiver. Before it there is no such guarantee: a receiver that finds the
counter below 2 leaves, a sender scheduled after that spins for ever, and so
does the caller. `ResultComplete` is about a caller that has seen a thread
running: one whose threads have not counted themselves within the first second
(the receiver waits for the user to type an address) may be given the old address.

## What the code does differently from what it says

Shown by a run:

1. `get_board`: `README.md:5` promises SNMP through the board; a request repaired by
   `snmp_fix_pdu` (`AfdxSnmp.c:194`) has no address list, so it goes out over
   plain UDP or reaches the board code with a null address. It takes an
   agent that reports an error in one of at least two variables.
2. `board_frames`: the string that selects the transmit setup (`afdx_GenericTX.c:414`) is never
   read: `fgets` is commented out, and uninitialised bytes select at line 422, possibly a
   demonstration setup whose frames are not the SNMP message. All three setups are modelled.
3. `store_crash`: a store puts the last file aside under the first free number
   (`read_config.c:1541`), while a restart reads the backups by number and says
   `starting with the oldest first` (`read_config.c:1230`). A backup that stayed
   behind in place 1 then overrides a newer one in place 0.
4. `log_lost`: `netsnmp_add_loghandler` does not set the new handler's `prev`
   (`snmp_logging.c:908`), so inserting between two handlers may make the new one the
   head and cut off those in front; after a shutdown they are still counted, and
   messages go nowhere, although "we've got to be able to log messages *somewhere*"
   (`snmp_logging.c:1213`).

Met while modelling; where a property leaves it out, it is named:

- `session_api.h:162` asks for `snmp_timeout` "whenever the timeout from snmp_select_info expires";
  `snmp_synch_response_cb` calls it when `select` returns 0 only (`snmp_client.c:968`), so that
  packets which are no news put a timeout off, for ever if they never stop. `CallReturns` leaves this out.
- `snmp_resend_request` says 0, as for success, if it finds no memory for the packet
  (`snmp_api.c:6159`), having neither counted the repetition nor set the timer.
- `snmp_synch_input` reports success with a null response if there is no memory for its copy
  (`snmp_client.c:151`), which main then reads (`AfdxSnmp.c:166`).
- A callback that closes the session it was called for, or, while `snmp_select_info` closes a session,
  the next one on the list, leaves the loop with freed memory (`snmp_api.c:6009`). `LoopsOnLive`
  leaves this out.
- `name ::= { parent }` is compared with the last node of the parent's place only
  (`parse.c:1440-1447`), so a name may be in the tree twice after a module has been unloaded and read again.
  `TreeExact` does not count nodes at or below such places.
- `types.h:307` promises exponential backoff for `timeout`;
  `snmp_resend_request` (`snmp_api.c:6243`) adds the same `rp->timeout` each time.
- `afdx_GetDMac.c:112` declares the counter a critical resource; line 144 writes it
  without entering the critical section. By `ReturnsOnceSynchronised` this does
  no harm to a caller already past that point.
- An array iterator that removes the last entry counts a change the container does not
  count (`container_binary_array.c:330-342`), although the comment at 831-838 says the two
  are kept in sync; an unsorted array takes entries without counting them.
  `HandedOutSound` leaves both out.
- `_ssll_find` on a sorted list returns the first entry whose key is not smaller
  (`container_list_ssll.c:79-86`), although `container.h:161` says it finds the entry
  with the same key.
- `_ssll_iterator_last` answers its second call with the node instead of what is in it
  (`container_list_ssll.c:486`).
- Callback locks drift, and an entry may be freed under its own callback (`callback.c:449-492`).
- The callback transport reports success when the byte or the message is lost
  (`snmpCallbackDomain.c:252`); `EachIsRead` leaves out pipes that have refused a byte.
- A dispatch round ends early when a callback unregisters (`fd_event_manager.c:262`); one that does
  so in every round starves the descriptors behind it.
- When a node without a name is given one, `merge_anon_children` frees one of two children
  that have different labels (`parse.c:1334`), taking them for "two copies of the same node"
  (1345): a name that a module defines is gone from the tree. `TreeExact` is about objects
  whose identifier is theirs alone.
- `snmp_sess_select_info2_flags` collects timers while it closes sessions
  (`snmp_api.c:6024`): a request that one of their callbacks sends may be missed, and
  `select` told to block, although *timeout is "the maximum time the caller is allowed to wait"
  (5971). `LoopsSound` leaves these requests out (`late`). Lines 5976-5978 and 6082
  contradict each other on *block.
- For a single session that is marked, the same function goes on to the sessions behind it
  (`snmp_api.c:6031`; line 6002 says "do just for that session"), and `snmp_sess_close` leaves
  the freed entry on `Sessions`. `SingleInfo` takes unmarked sessions only.
- `netsnmp_logging_restart` stops reopening files at the first syslog handler
  (`snmp_logging.c:694`), although 673 says "close and reopen all file based logs".
- `netsnmp_register_default_target` returns 0 for an entry that only the user has set
  (`snmp_service.c:257`); 242 says 1 "if an entry ... was already present".
- From an identifier without a node, `netsnmp_oid_stash_getnext_node` goes back to smaller ones or
  skips larger ones: the bound is taken one subidentifier too far (`oid_stash.c:236`).
  `StashExact` walks from identifiers that have a node.
- `netsnmp_view_destroy` compares a stored object identifier, whose first element is its length,
  with a plain one (`vacm.c:696-707`). A view with a mask may hide another of its length, so
  that "unknown" is only careful (483-484); `UnknownIsMixed` is about views without masks.
- The choice among access entries of different contexts depends on their order: an entry of any
  model may be preferred to one of the request's (`vacm.c:885`), which 870-873 rules out.
  `BestOfContext` is about candidates of one context.
- An estimated time is one second ahead once it has rolled over (`lcd_time.c:205`), which
  `AuthenticEstimate` allows; `free_enginetime` empties the whole hash bucket (241).
- A node without a name that gets one is not filed under its module
  (`parse.c:1553`), although 1531-1534 says "fill in the full information".
  A node that stays for its children after unloading has lost its description for good
  (3994), and orphans survive `unload_all_mibs` (4034). `{ iso }` as a whole definition
  dereferences the missing parent of a root (1440-1447).
- Object identifiers x.40 with x < 2 are built as the next x (`asn1.c:1440` tests > 40), and
  2.y wraps around for large y; `RoundTrip` leaves both out. Object identifiers
  of fewer than two subidentifiers are not modelled. `asn_build_length` writes
  two octets whatever the length is.

## Proofs

All theorems hold for every value of the constants that satisfies the assumption
named in the module; none of them bounds the number of steps. Each component has
one inductive invariant, the conjunction of its type invariant with named
parts; there is a lemma for each action, and the last step of a temporal theorem combines them.

`SnmpSessionProofs` (`SessionAssumption`, which follows from the types in C and a positive
timeout):

- `TypeCorrect`, `ListAlwaysIntact`, `PdusFreedOnce`, `RepetitionsAlwaysBounded`,
  `MessagesNeverAhead`, `ClosedAlwaysEmpty`;
- `SessionKeepsPromise`: `SnmpSession` implements `RequestPromise`.

None of the parts of `IInv` is inductive alone.
`FreedOnce` needs `ListIntact`, because a request could otherwise be unlinked
twice or on the list after it has ended; `ListIntact` in turn needs the type
invariant's `due \subseteq Queued`, so that the timeout loop unlinks what is on
the list; `NoMessageFromTheFuture` needs the retry bound for its messages to
exist. The actions that change the list rest on two lemmas about it, `Unlinked` and
`Appended`, which in turn rest on `SequenceLemmas`. The refinement maps
`tries` to `retries` and `outcome` to itself; every action is `Take`, `Repeat`,
`Settle` or a stutter, and the invariant supplies that only waiting requests
are finished (`FinishSettles`) or repeated (`ResendRepeats`).

`AfdxSnmpProofs` is about the program's own code, first about `SnmpSynch` (any number of calls in a row): `CallTypeCorrect`,
`WaitAlwaysHasTimer`, `ResultAlwaysOwn`, `AlwaysOneOwner`, the action property
`OlderAlwaysSilent`, and `CallUsesSession`, that the calls implement the session
(`SessionStep`: every step of a call is a step of the session), so that the
theorems above hold of it too. The invariant `SynchIInv` is the session's with
`Waits`, which ties the loop to its request: while it waits, `current` is a request
whose outcome is `"waiting"`. Without it an answer could overwrite a result
already reported, and `ResultIsOwn` would not be inductive. `CloseCallInv` is why
closing cannot disturb a result: it ends requests of earlier calls only.

The second part is about `main`, for any number of repaired requests: `MainMakesCalls`
(`main` only makes calls, so all of the above holds of it), `ResponsesNeverLeak`,
`ResultAlwaysOfLatest` and `MainEndsClean`. `MainInv` adds `HandedOver` (a request
`main` has created is unsent only while it is the next to be sent; that with
`ClosedIsEmpty`, `FreedOnce` and `OneOwner` gives `EndsClean`), `Calling` (the last call
is that of the request at hand) and `OneCall` (nothing a call does is possible
outside one).

The third part is about the board (`BoardAssumption`; any failing commands):
`HandlesAlwaysReleased` and `NothingEverReleasedInUse`, together `AlwaysReleasedRightly`,
`OwnFramesAlways` and `PortAlwaysAtRest`. They rest on
`Accounted` (whatever is allocated is a handle of the running call or was refused
to an earlier one), `RunsInCall` (without a failure the port runs between start and
stop only) and `OwnQueue` (its queue then holds frames of the running call, which
use only its handles).

The fourth is about the ARP lookup (`ArpAssumption`): `CountAlwaysExact` and `ResultAlwaysComplete`.
`Exclusive` and `Counter` say that a value
loaded inside the critical section is still the counter's when it is stored, until
the unprotected write; `Written` and `Met` carry the second theorem: the sender
goes past its test only when the receiver has entered, so a caller that has seen a
thread, and then none, has seen both leave, and the address is no longer written.

The last two theorems put the parts together. `ProgramRunsParts`: whatever the program does is, for the
variables of each part, what that part's own specification allows. So every property of a part is
one of the program, and `ProgramAlwaysSafe` states those that the run `program` checks, for
every value of the constants.

`LibraryProofs` has a part for each of six services:

- Alarms (`AlarmAssumption`; any number of alarms, any depth of nesting):
  `AlwaysFiredWhileCalled` and the action property `AlarmsNeverEarly`. `Waits` adds up
  what has passed and what is left of an interval. It is kept when an alarm is set again
  only because of `Calls`: an alarm has been quiet at least for as long as its callback
  has run, so that an interval counted from the start of the call still holds. `Unique`,
  that no alarm is listed twice, makes removing one remove it.
- Callback transport (`CallbackAssumption`; any number of endpoints and requests):
  `RepliesAlwaysToRequester`. A message that is read carries only a number, so the
  invariant speaks of every message on the queue (`Queue`) and of every request a
  server keeps (`StillHeld`), also of those whose endpoint has closed. It is preserved by
  opening because a number is never given out again.
- Persistent data (`StoreAssumption`; any tokens, backups and changes):
  `CrashLosesNothing`. `Safe` says where the last complete store is: in a backup
  that is read, or in the main file, and then what is in memory is not older, since
  the next line may overwrite it. `Complete` lets backups go one by one.
- Event loop (`FdAssumption`; tables of any size): `RoundsAlwaysExact`. Unregistering moves the
  entries behind it down, so a loop may come by one twice or not at all; `CallsSound` holds
  nevertheless, because each call needs a bit and takes it. That everybody reported is
  called is a matter of `InFront` (what was watched stays in front of what is new),
  `PassedCleared` (no bit is left behind the loop) and `BitsLeft` (the count by which the round
  ends is not below the number of bits), all three of rounds in which nothing is unregistered.
- Callback registry (`RegistryAssumption`): `ArgsAlwaysFreedOnce`. Clearing frees an argument
  with the first entry that has it and takes it from all that share it, so the invariant is
  the property itself with `ListsUnique` and `FreedByClear`: nothing is freed before.
- Streams (`StreamAssumption`; any packets, any cuts): `PacketsAlwaysInOrder` and
  `BufferNeverOverrun`, the safety that `StreamServed` asks for. `NothingMissing` describes the
  bytes that are in the buffer or on the wire as runs of packets, from the first packet not
  processed to the last one sent, so that what is cut out is a whole packet.

`MessageProofs` has two parts, of which the second rests on the first:

- Encoding (`BerAssumption`; octets and longs of any width): `RoundTripAlways`. The invariant says
  that a packet is what one of the builders makes of the item, so the proof is about the builders and the
  parsers. Every builder of integers writes the m lowest octets of a value for some m with which they still show
  it, sign and all (`Shown`, `Encoded`), however it finds its m: forward by dropping octets
  that repeat a sign (`RedundantKeeps`), in reverse by dividing until nothing but the sign is left
  (`WithSignIs`), and word by word for 64 bits (`RBuildWideIs`, because
  shifting the low word as a signed one changes none of its octets, `OctetsShift`). The parsers read anything
  `Encoded` as its value (`ParseSignedIs`, `ParseUnsignedIs`); those for a long start from
all ones if the top bit of the first octet is set, also for what has no sign, so a value with that bit survives only because of the zero
octet in front of it. The same with lengths (`SaysLength`). The subidentifiers of
  an object identifier end where the octets without a high bit are (`SubidEndsAre`), so that each
  is read as it was written. Behind the length the parser finds the contents, or it finds that some are missing
  (`FramedIs`, `OpaqueIs`). `BerAssumption` asks that an octet has two bits or more, that the
  length octet of an Opaque can say the length of a 64-bit integer, that lengths fit into two octets and
  into a positive long, and that a long holds 80; a byte of 8 bits and a long of 4 octets or more do,
  with strings up to 65535 octets and object identifiers up to `MAX_OID_LEN`, 128.
- Messages (`MessageAssumption`; any PDUs that can be built, with lists of any length): `MessageSurvivesAlways`.
  The invariant (`MessageInvariant`) says that what was sent is what one of the builders makes of the
  PDU, and what was understood is what the parser makes of so much of it; the rest is about
  builders and parsers.
  - A type, a length and contents are a `Frame`; objects, structures and messages are frames in both builders
    (`ObjectFrame`, `StructureFrame`, `PduFrame`, `PacketFrame`). What stands at a position and ends
    before a limit (`Placed`) is entered by `asn_parse_header` and left behind its last octet
    (`HeaderIs`, `HeaderOpens`), so parsers follow what was laid down one after the other (`PartsStand`), with
    the limits of the code, which `snmpv3_parse` does not narrow everywhere.
  - An object is read as its value and nothing else (`ObjectRead`, from what the encoding says of integers,
    strings and identifiers); the type of a variable, or the tags inside an Opaque, tell its
    kind (`TypesDiffer`, `KindFound`).
  - The cache of the reverse builder: after n variables a slot holds the one variable of the last `CacheSize`
    that belongs there (`HeldIs`), one turn over the slots gives those in descending order, and the slot before
    the oldest tells how far the next turn goes (`TurnIs`); so all of them are built from the last to the first
    (`BuildOrderIs`), and lie in the packet in order (`VarListIs`). Looking at the neighbour on the
    other side breaks it, as the mutant of `MessageSurvives` shows.
  - The loops of the parsers are recursive functions over numbers; a witness that goes
    variable by variable satisfies their equations (`ObjectsFold`, `VarListFold`).
  - Of a packet with octets missing the outermost header is refused (`TruncatedIs`, `PartIsNot`). A session of
    one version uses the parser of that version, and the parser of version 3 refuses messages of the others at
    their second object, as theirs refuses messages of version 3 (`V3Refused`, `SecondRefused`, `WholeIsParsed`).

  `MessageAssumption` says of each PDU that it can be built, and that what is filled in makes it a message:
  values are within the types they have in C, identifiers have two subidentifiers or more, the security model is
  registered. It asks that a packet is shorter than two octets and a long can say: the forward builder leaves two octets
  for the length of a structure. With 8 bits they can say 65535, more than a datagram of UDP holds.

`SessionsProofs` (`SessionsAssumption`; any number of sessions and descriptors):
`SessionsAlwaysSound` and the action property `ReadOnlyIfReported`. Callbacks may close any session.
While no loop has been led astray (`OnCourse`) the invariant says that there
is a sequence c of sessions which the pointers link, and a position p at which the loop stands.
Opening inserts in front of p and closing removes on either side, so the sessions
behind p are those the loop has yet to visit: of these it says which have their bit set (`ReadIs`:
exactly the reported ones), and of those in front of p that the time to wait takes them into account
(`WaitIs`). `ReadIs` is why descriptors that are given out again do no harm: opening
puts a session in front of the loop, where it is not read. Once a callback has closed the session the loop
goes on with (`Astray`) the list is still that of the sessions that are open, and nothing follows
(`AstrayStops`).

`TablesProofs` has a part for each of six tables:

- Defaults (`TableAssumption`): `TableImplementsMap`. Searches stop at the first
  larger key, so they are right only because the list is in strict order (`InOrder`), which every
  change keeps; the refinement maps the list to the two functions from keys to
  what the user and the program have set.
- Engine clocks (`TimeAssumption`): the action property `EstimateAlwaysSound`. The invariant compares the
  clock of an engine with what is reckoned from the record of it (`Gone`), with the two cases that
  the time has gone over its maximum since, or not. Messages that nobody vouches for
  do not disturb it, since they replace no authenticated record.
- Choice of a transport (`ChoiceAssumption`): `AlwaysTriedRightly`. `Ordered` says that what was tried, the
  domain at hand and those that the rest of `spec` stands for make up what was asked for.
- Views (`ViewAssumption`): `SubtreeAlwaysDecided`, about every list of views, subtree and
  mask. The part that is not immediate is that an entry found for the subtree is found for all
  that is inside it, unless a longer entry inside the subtree says otherwise.
- Access entries (`AccessAssumption`): `BestAlwaysChosen`. The comparison of two
  entries in `_vacm_choose_best` alone does not give the best of them; that the list is in order
  of the whole index (`AccessInv`) does.
- Log handlers (`LogAssumption`; any number of handlers): `HandlersAlwaysSound`. Inserting may cut handlers
  off the list, and they may be reached through the index still. So the invariant speaks of
  the list c and of the set R of the handlers that messages may reach, the lost ones among them: R is closed
  under `next` and priorities do not fall along it (`Reached`), so that a message meets only
  handlers that are allocated and for it. While nobody is lost the index leads to the first
  handler of its priority, or in front of it (`IndexFinds`), so that it meets all of them.

`ContainersProofs` is about the two containers, about both side by side, about the sorting, and
about the stash:

- Linked list (`ListAssumption`; any number of nodes, any keys, each of the three kinds):
  `LinkedListImplements` and `CursorAlwaysOnList`. The invariant says that a list c without repetition is what the
  pointers link, that exactly its nodes are allocated, that it is in the order of its keys if it is sorted,
  and where an iterator in sync stands. `Contents` is then the sequence of the keys of c
  (the walk along the pointers ends after at most all nodes), so that each insertion and removal of
  a node is an insertion or removal at one place of that sequence.
- Binary array (`ArrayAssumption`; any capacity and keys): `BinaryArrayImplements`. Its refinement is a set,
  which says nothing of the order; `ArrayInv` says when the order can be relied on: entries are there once
  (`EntriesOnce`); what is not marked as unsorted is in order, and keys are single where they have to be
  (`CleanInOrder`); an iterator in sync has seen a clean array, from its start to where it is
  (`IteratorFits`). `HalvedFinds` is about the loop of the search by halves: a turn keeps what is sought
  within the part that is left and makes it shorter, so it ends within as many turns as there are entries, on the first
  index that is not below, or on a hit. Both searches of the code are instances.
- `HandedOutAlwaysSound`: the containers side by side take steps of either (`ContainersParts`),
  and the invariants of both give the three parts of `HandedOutSound`.
- Sorting (`SortAssumption`; arrays of any length): `AlwaysSortedRight`, what `SortCorrect` says but for
  that the sorting ends. The invariant has four parts. The ranges still to be sorted lie one
  behind the other (`RangesFollow`); what lies to the left of `iUp` is not above the pivot, what lies
  to the right of `jDown` not below it, and both inner loops meet an entry that stops them within the range
  (`Partitioned`); any two places are in order, or in one of the ranges still to be sorted
  (`RestInOrder`); every key is there as often as in the beginning (`SameCounts`). `RestInOrder` survives
  a swap because a place outside the running range is in order with all of that range (`WithinStep`),
  and the split of a range because a pair that is in neither half has the pivot in between.
- Stash (`StashAssumption`; any subidentifiers, any depth, any number of buckets): `StashAlwaysExact`.
  `StashInv` says that the nodes are a tree of which the buckets hold exactly the children, each once and where
  it hashes to (`StashTyped`, `StashTree`), and that every node leads to data (`LeadsToData`). The last is
  what the walk needs: it goes down to the first child it finds without looking for data below.
  - Finding: what `Closest` finds is the longest part of the identifier that is a node, so that
    `GetData` finds what was stored and nothing else.
  - Saving: `Dump` of a node has the data below it, each once, for the nodes of each depth if for those one level further down.
  - Walking: `Going` says what is still to come while the walk goes on, that is, what lies to the right of the node
    at hand beyond the bound, or past one of the nodes above it (`Beyond`). Each pass keeps what comes next in there until it finds it
    (`Ended`), and `2 * MaxLen` passes are enough, since the walk climbs to the root at most and then
    descends once.

Where a list is searched by a loop, the search is a recursive function over the positions, and
what it returns is shown by induction over a set of numbers (`SetInduction` in `SequenceLemmas`: a set that has 0 and with each number the next has all);
that the function exists is `StepwiseExists`. `Walked` is the same for lists of pointers. `Power` and `Number` of the encoding are such functions, too, and loops over something
that gets shorter are argued by its length. With these the
library's induction theorems, which take an operator, are not needed.

Besides what types in C give, the assumptions ask that handlers, sessions and nodes are finitely many
(memory is), that the null values are not values, and, in `ViewAssumption`, that a subtree
that a view names may be asked about. All of them are evaluated in the runs.

The theorems are about the component's own specification (`SnmpSession`, `SnmpSynch`,
`SnmpGet`, `AfdxBoard`, ...); the runs check the same properties of it, some of them where it is
one part of `AfdxSnmp`, `Library`, `Containers` or `Tables`. Proved, and not among the runs' properties:
`RepetitionsBounded`, `NoMessageFromTheFuture`, `ClosedIsEmpty`, `UsesSession`,
`WaitHasTimer`, `OneOwner`, `NoResponseLeaks`, `FiredWhileCalled`, `PacketsInOrder`, `InBuffer`,
`ReadsOnlyReported`, and the invariants. `CursorOnList` is checked as a part of
`HandedOutSound`, and `SortedRight` is the safety that `SortCorrect` asks for.

Only model-checked: all liveness properties (`EventuallySettled`, `CallReturns`,
`EveryTryEnds`, `ReturnsOnceSynchronised`, `LateAlarmRuns`, `EachIsRead`, `StreamServed`,
`SortCorrect`, `SessionsServed`; liveness under fairness is beyond the prover), and
`TreeExact` of the MIB tree. The tree is built by `RECURSIVE` operators, with which the prover loses
its SMT solver; and the property is one of the modules in the run: a name that two definitions put in two
places breaks it. The four violated properties are counterexamples found by TLC.

## Not modelled

- **USM** but for the clocks: key tools and cryptography (`keytools.c`, `scapi.c`), and the list
  of security models (`snmp_secmod.c`). `main` fixes version 1, which calls none of it.
- **Tables** `data_list.c`, `default_store.c`, `snmp_enum.c`: maps from a key to a value,
  each one plain structure, without callbacks, iterators or sharing.
- **`container.c`**: factories, and `CONTAINER_*` macros that repeat an operation on several indexes.
- **BER**: bit strings, floating point, and the buffers packets grow in.
- **Messages**: the upper limits of names and engines, encryption, reports the library makes
  (`snmpv3_make_report`), and the engine-ID probe of version 3. `snmp_comstr_build`, which
  nothing in the repository calls.
- **UDP transports**: socket calls and formatting of addresses. What they lose, repeat and
  reorder is in `SnmpSession`.
- **VACM**: groups, scanning, configuration and saving.
- **Text**: printing and parsing of object identifiers (`mib.c`), configuration lines and their
  handlers, arguments, the lexical part of `parse.c`. Text in, text out; what is interesting
  about it is its data. `read_config.c` is modelled where it keeps persistent files.
- **Log output, debugging, system helpers**: input and output.
- **Vendored AES, DTLS, TLS, SSH and Unix-domain transports**: third-party code, or not in
  `AfdxSnmp.vcxproj`.

Text processing, headers, cryptography and transports that are not compiled are most of the
lines of the repository. That is why the modules map to a small share of them, although every part that keeps state
across calls is modelled, but for those listed here.

## Plan

Done: all modules and proofs above. What would come next, in this order:

1. `StreamReader` as the transport of `SnmpSession`, and `SnmpSession` for each session of
   `Sessions`.
2. Configuration handlers (`read_config.c`), `default_store.c` and `data_list.c`, with what
   is registered and freed in which order.
