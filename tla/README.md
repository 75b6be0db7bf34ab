# A verification project for the replicated account

The repository is a replicated bank account in Java (`src/src/main/java/com/example/`,
three files) on top of the Spread group communication toolkit, whose sources are
vendored (`src/spread-src-4.0.0/`: the daemon in C, a client library in C and the Java
library the program uses). Several clients keep a copy of one account each. A client
gathers its transactions in `outstanding_collection`, multicasts the whole list every ten
seconds, and executes the transactions of every list it receives, its own included. The
copies agree only because Spread hands all clients the same messages in the same order.

## Inventory

| part | state | operations | talks to |
|---|---|---|---|
| `Client` command thread (`processCommand` 131-181) | `outstanding_counter`, adds to `outstanding_collection` | deposit, addInterest, getSynchedBalance, cleanHistory, checkTxStatus, getQuickBalance, getHistory, memberInfo, sleep, exit | the lists, under the monitor of `outstanding_collection` for `add` only |
| `Client` scheduler thread (`broadcastOutstanding` 186-196) | none of its own | every 10 s serializes `outstanding_collection` and multicasts it | the list, without its monitor; `SpreadConnection.multicast` |
| `Client` listener thread (`processReceivedTransactions` 232-293) | `balance`, `order_counter`, `executed_list` | for each transaction: duplicate check, `removeIf` from `outstanding_collection`, execute, append | called by Spread's listener thread through `Listener` |
| naive readers (`getSyncedBalanceNaive` 346-361) | wait on `outstanding_collection` | print the balance once the list is empty | the listener's `notifyAll` (290) |
| start-up (constructor 50-82, `main` 89-124) | `members` | connect, join, wait for the members, start broadcasting; ends at line 106 | `SpreadConnection`, `SpreadGroup` |
| `SpreadConnection` (Java library) | socket, listener lists, buffered commands, its listener thread | connect, multicast, receive, add/remove listeners, disconnect | the daemon over TCP; `Listener` by callback |
| daemon: ring (`protocol.c`, `flow_control.c`, `network.c`) | packets, token, `My_aru`, `Aru`, `Last_delivered`, `Last_discarded`, the window | order, retransmit, deliver, discard | other daemons by UDP; sessions and groups by call |
| daemon: membership (`membership.c`, the EVS part of `protocol.c`) | `State`, `Membership`, the lists of members and representatives, its timers, the `Future_` variables, `Commit_set` | token loss, alive, join, refer and foreign messages, form tokens, exchange and delivery of the old ring's packets | other daemons; `Discard_packets` calls `G_handle_trans_memb`, `G_handle_reg_memb` |
| daemon: groups (`groups.c`) | group table, `Gstate`, synced set, GROUPS buffers, control queue | join, leave, kill, transitional and regular memberships, exchange of GROUPS messages | ring for order, sessions for delivery |
| daemon: sessions (`session.c`) | session table, list and hash, queues, threshold | accept, name, authenticate, read, write, block, badger, kill | clients by TCP, ring, groups |
| daemon: event loop and memory (`events.c`, `memory.c`) | timer queue, descriptor tables, threshold; pools of objects and blocks | queue and dequeue timers, attach and detach descriptors, run the loop; new, allocate, dispose | every other part of the daemon, by callback |
| libspread: flush layer (`fl.c`) | per connection and group: membership and view state, changes to agree on, held-back messages | connect, join, leave, flush, multicast, receive, disconnect | `sp.c` below, the user above; other members by FLUSH_OK and FLUSH_RECV messages |
| libspread: `sp.c` | sessions of a process, their sockets, mutexes and saved headers | connect, join, leave, multicast, receive, poll, disconnect | the daemon by TCP |
| stdutil containers (`stdcarr.c`, `stdarr.c`, `stddll.c`, `stdhash.c`, `stdskl.c`) | a sequence or a map, its memory, iterators | construct, insert, erase, resize, reserve, shrink, search, step | the daemon and the flush layer |

`processCommand` is private and `main` does not call it yet (TODO at line 121), and `main`
itself fails before that. The commands are modelled as the methods define them, for a
client that has started: the threads, locks and lists are those of the code.

What is hard in this code:

* three threads share `outstanding_collection`, and two of them ignore its monitor (210, 247);
* the list is broadcast whole, again and again, until it comes back, so a transaction is in
  several messages at once; the check that should skip duplicates never does (241);
* that check, were it to work, would read a list that `cleanHistory` empties on one client;
* an exception in a callback ends Spread's listener thread, one in the periodic task ends
  the broadcasts; nobody is told;
* clients crash with messages on their way, and join late;
* the two synchronised balances promise an order between a read and earlier deposits;
* daemons lose packets and tokens, and what is stable is known only from two tokens in a row;
* a ring breaks while the packets of the one before are still exchanged, and while the groups
  are still exchanged above it;
* a slow client is killed in the middle of a delivery, and its descriptor is used again
  before the others have heard of it;
* members of a flushed group agree on a view while later changes already make it moot, and
  messages of the view to come overtake it;
* the containers shift, wrap, rehash and shrink under iterators, and allocations fail halfway.

What makes each part correct: clients that have handled the same part of the message
sequence show the same account (agreement); the account follows from that sequence alone
(refinement of `AgreedAccount`); numbers in the history name the same transactions
everywhere; what has come back is not sent again; the transactions of a client take effect
in the order it issued them; a synchronised balance contains what it must; an outstanding
transaction is in the end executed; a waiting reader is in the end woken. For the daemons:
one order and everything in the end everywhere (refinement of `TotalOrder`); those that go
on together have delivered the same, SAFE messages reached those they must; the same group
id means the same members everywhere; no client's stream is torn and no table entry lost. For
the flush layer: a message is given in the view it was sent in, and those that go on together
were given the same. For the utilities: a container holds what its calls put there, timers run
once and in order, memory is neither lost nor given out twice.

## Modules

| module | models | with |
|---|---|---|
| `GroupLog` | what the daemons promise one group, abstractly: per member what it has `submitted`, one agreed `log`, how far each member has been handed it (`delivered`), who is a member | Join, Multicast, Order, Deliver, Disconnect |
| `Client` | all clients of the account over `GroupLog` (`INSTANCE`) | one action per handler; see below |
| `AgreedAccount` | abstract specification: one account per point of one history, each replica walks the points in order | Reach |
| `ClientProperties` | properties of `Client`, the refinement mapping to `AgreedAccount` | |
| `ClientProofs`, `HistoryProofs`, `OutstandingProofs` | theorems about `Client`, checked by TLAPS: type, agreement and refinement; the histories of founders and joiners; the outstanding list, the order of sending and the synchronised balance | |
| `MCClient` | instances for TLC: command sets, symmetry | |
| `OutstandingList` | one client's threads around the `ArrayList` under `outstanding_collection`, field by field, in the naive mode | add, serialization, removeIf, wait and notify |
| `OutstandingListProofs` | theorems about `OutstandingList`, checked by TLAPS | |
| `Connection` | one `SpreadConnection` as this program uses it: its listener thread, the connection's monitor, the pieces of the TCP stream, read timeouts, callbacks, multicasts, exit and disconnect | one action per step of each thread |
| `ConnectionProofs` | theorems about `Connection`, checked by TLAPS | |
| `TotalOrder` | abstract specification: every daemon delivers a growing prefix of one order | OrderMore, DeliverMore |
| `TokenRing`, `MCTokenRing` | the ring while a membership lasts | one action per handler |
| `TokenRingProofs` | theorems about `TokenRing`, checked by TLAPS | |
| `Gather` | the search of the daemons for each other after a lost token, up to the ring that a form token names | one action per handler and timer |
| `GatherProofs` | theorems about `Gather`, checked by TLAPS: the search, and the form tokens it makes | |
| `Recovery` | the change of membership itself: what the form token says of packets, their exchange and delivery | one action per handler |
| `MCRecovery` | an instance of `Gather` for TLC, and one of `Recovery` (`Exchange`): they share nothing but the daemons, and each behaviour is one of one of them (`which`) | |
| `Session` | the sessions of one daemon and their clients' streams | one action per handler |
| `SessionProofs` | theorems about `Session`, checked by TLAPS | |
| `Groups`, `MCGroups` | group membership over rings that merge and split | one action per handler |
| `Flush` | one group of the flush layer at all its members | one action per call of the user and per kind of message received |
| `Containers` | memory as an array of cells, and what a sequence is: shared by the next five | |
| `StdCarr`, `StdArr`, `StdDll`, `StdHash`, `StdSkl` | the containers of stdutil, each beside the sequence or bag of pairs its calls should have made | one action per operation, with failing allocations |
| `Events`, `Memory` | the daemon's event loop and its memory pools | the steps of `E_handle_events` and the calls of handlers; the calls of memory.c |
| `MCUtilities` | an instance of `Flush` for TLC, the five containers, two instances of `Events` (`Timing`, with two timers and one descriptor; `Polling`, with one timer and two descriptors) and `Memory`: they share nothing, and each behaviour is one of one of them (`which`) | |

The daemon modules meet at their edges: `Recovery` starts from any state in which
`TokenRing` may leave a ring whose token is lost, and takes any set of daemons for the one a form
token names; `Gather` says that nobody is on it twice (`ListedOnce`); `Groups` assumes of the ring under it what
`TotalOrder` and the properties of `Recovery` say; `Session` has the daemon's own part of
`groups.c`, and the rest of it is in `Groups`.

### `Client` and the code

State. `balance`, `order_counter`, `outstanding_counter`, `executed_list`,
`outstanding_collection` are the fields of `Client`, functions of the client. `pc` is where
the listener thread is: `receive` (no message in hand), `remove` (about to run lines
237-247 for the transaction in hand), `execute` (about to run 250-285), `dead` (an
exception left `processReceivedTransactions`). `done` counts the finished transactions
of the message in hand, `tx_already_executed` is the local variable. `broadcasting` is
whether the periodic task still runs, `sends` counts its ticks. Three history variables
record what nothing in the code depends on: `history` (all a client has executed,
`cleanHistory` or not), `ledger` (the account at every point a founder has reached) and
`raced` (clients whose list a race has torn).

Steps. `ProcessCommand` is deposit, addInterest and getSynchedBalance (correct mode);
`CleanHistory` is cleanHistory; `SendOutstanding` is a tick with a consistent copy;
`ReceiveMessage`, `RemoveLocal`, `SkipTransaction`, `ExecuteTransaction`, `RemoveThrows`,
`ParseThrows` are `regularMessageReceived` and the loop of `processReceivedTransactions`
split where other threads can observe it. `synchronized (this)` at 233 excludes nobody:
no other method takes that monitor. `Race` holds the outcomes that no order of atomic
list operations has: `removeIf` throwing or tearing the list when `add` overlaps it, a
copy serialized in the middle of `removeIf`, `cleanHistory` while the listener iterates
or appends. A change of a list in the middle of serialization makes `writeObject` throw:
`SchedulerMayOverlap` lets any change end the periodic task.

Abstractions. Commands are parsed records. A deposit amount is an integer and interest
divides with `\div`: what the properties need is that both commands are functions of the
balance. Reading `balance` for printing changes no state; what may be read is in
`SyncedBalanceIsCorrect` and `NaiveReadLacksAtMostOne`. Messages are the lists; group
membership notices change no state (299-313 is empty). A founder is a client that was in
the group before the first message, as `main` intends by waiting for `num_of_replica`
members; any other client may join at any time. `setBalance` (269-272) has an empty
handler and no code creates such a transaction. Races of three threads in one list, and a
second tear at a transaction the list holds twice, are left out (`HeldOnce`).

### `OutstandingList` and the code

The array, `size` and `modCount` of the `ArrayList`; the monitor `owner` and its
`waitSet`; program counters and locals of the command thread (`add`, with the monitor),
the scheduler (`writeObject`, without), the listener (`removeIf`, without; lines 289-291,
with) and the naive readers. `ArrayList` is not under `src/`: its methods are modelled as
this code uses them, from the fields they read and write and the order they do it in (the
`removeIf` and `writeObject` of the JDK generation `pom.xml` asks for). Memory is
sequentially consistent; the interleavings are those of the source order. The room of
the array is fixed at `MaxAdds`, so `grow` never replaces it.

The bound `MaxInbox` limits the lists that are on their way at once, not the ticks: the
scheduler goes on for ever, as in the code, and a list too torn to name a transaction is
followed by a better one.

### `Connection` and the code

`monitor` is the connection's own monitor, which `Listener.run` (1647) and `disconnect`
(924) take and `multicast` (1829, its own `wsynchro`) does not. `lpc`, `got` and
`expected` are the listener thread and what `internal_receive` has read of the message in
hand, in pieces: the header first, then as much as the header says. A read blocks at most
100 ms, so `Timeout` is a step whenever nothing has arrived. `signal`, `callingListeners`,
`listenerBuffer` and `connected` are the fields of those names; `epc` is the command
thread in `Client.exit`. The daemon is external to the library: it writes pieces in order
and closes the socket when it kills the session. Left out, because the program never does
them: add, remove and disconnect called from a callback, `receive` and `poll`.

### `TokenRing` and the code

`st[d]` has the globals of `protocol.c` for daemon `d`; the comment of the module names them.
`ReceiveToken` is `Prot_handle_token` whole: the retransmissions it answers, the packets it
sends (`SendNewPackets`, with the window of `FC_allowed`), the aru it puts on the token, the
requests it adds, the discarding and delivery it may now do, and whether it holds the token
(`To_hold_token`). `ReceivePacket` is `Prot_handle_bcast` with the hurrying of the token,
`NewMessage` is `Prot_new_message`, `HurryTimer` the leader's timer. `air` and `tokens` are
what is on the network: packets are lost (`LosePacket`), arrive in any order and, being
retransmitted, more than once. A token is lost by never arriving. A token of an earlier round
than what its receiver has seen is dropped from the model when that is known, since the
4 bits of its arq field could otherwise wrap in a way the timers exclude. A message may
leave one packet over the personal window, as in the code. Left out: several segments,
endian conversion, extra copies of a retransmission asked for more than once, the blocking
of clients (which `Session` has). The loops over sequence numbers are one operator (`Over`) of
what each does with one number (`Step`), so that what holds of them is proved once.

### `Gather` and the code

`st[d]` has the globals of `membership.c` that the search reads and sets; the comment of the
module names them. `timers` is which functions of the file are in the event queue: `Shift_to_seg`,
`Scast_alive`, `Gather_or_represented`, `Send_join`, `Form_or_fail`, `Memb_lookup_new_members`,
`Memb_token_loss`. Each function that shifts the state is an operator with the timers it queues and
dequeues, each message type a handler (`HandleAlive`, `HandleJoin` with what it answers,
`HandleRefer`, `HandleForeign`), each timer an action. `FORM` and `EVS` are there for the form
token, which collects members (`FillForm1`) and goes round again (`ReadForm2`); `Regular` ends the
exchange that `Recovery` describes. Packets and tokens may be lost; `MaxAir` of them are on their
way at once. A form token does not outlive those who wait for it: it is gone when the timer of one
who has had it runs out, and its second copy finds its reader in FORM or EVS, where it is swallowed.
A representative that has no member to add counts one all the same, and does not write it: what
stands there is what the static `F_members` of the token's maker (1402) has from a longer list of
before, any daemon, or 0. The history variable `unwritten` records each such entry, with who had had
the token by then. A daemon that the token lists only so may get it in its second round (`Strange`)
and end in an alarm; a 0 ends the one that sorts it ("Seen on the way").
Left out: the reload of the configuration (`Memb_try_alive`), more than `MAX_FORM_REPS`
representatives, byte order.

### `Recovery` and the code

`st[d].mode` is `State`: `OP`, `FORM`, `EVS`, and `LOST` for SEG, REPRESENTED and GATHER, which
are `Gather`'s: whom the daemons find is the choice of `CreateForm1`. `FillForm1`,
`ReadForm2`, `HandleToken`, `ReceivePacket` and `TokenLoss` are the handlers of those names;
`DiscardPackets` delivers the old ring's packets, the transitional membership and the new one
as `protocol.c:1086-1238` does. A crash is a daemon that takes no more steps. `Pasts` says what
became of the old ring's packets: who sent which, who missed which, how far all had received them
(`base`), what `Commit_set` an earlier change left, and whether packets are still on their way when
the token is lost (`late`; otherwise they die with the ring). Form tokens do not outlive what they
form, and a repeated one is swallowed. New rings carry no messages of their own. The clock of a
daemon is the least it can be (`Last_time_used`). `MAX_EVS_ROUNDS` is a `TokenLoss` in EVS, which may
come at any time. Left out: RELIABLE and multi-packet messages in the exchange, segments.

The code has four ways of going wrong here, and the model takes all four: the loop of
`Backoff_membership` that goes by an index left behind ("backoff"), a `Commit_set` kept from an
earlier change ("stale"), an aru of 0 on a token of seq 0 ("zero"), and packets that arrive when the
form token has said what there is ("late"). The history variable `astray` names those that have
struck, and no guard reads it. Each property holds whatever of the others strikes: `Sound` (counters
in step, no alarm) and `ExchangeEnds` unless "backoff" or "late" have, virtual synchrony unless
"late" has, the absence of gaps unless "stale" has, `SafeReached` unless "backoff" or "zero" have,
the uniqueness of ids always. That each exception is needed TLC shows at once when it is taken out of
the property: run `SafeTooEarly` does it for "zero".

### `Session` and the code

`S`, `list`, `hash`, `free` are the four tables of `session.c`; `scratch` is the entry past
the end that a connection uses while it is being named. What a client wrote is chosen by the
handler that reads it, what its socket takes by the handler that writes. `Accept`,
`AcceptContinue`, `Authenticated`, `Read`, `Badger` are the handlers of the event loop, `Send`
and `Deliver` the ring; `high` is the event threshold. All connections ask for membership
messages. `ValidHeader` is what a header must say to
be taken, `Reject` gives a message of the type REJECT back to its sender, `Authorize` is the
access control; a join of a group that has `MAX_LOCAL_GROUP_MEMBERS` local members comes back
in the same way. Left out: private groups, the latency probe, partial reads, endian conversion.

### `Groups` and the code

`st[d]` has `Gstate`, the group table, the synced set, the buffers and the control queue of
`groups.c`. The ring below is a log per ring; members deliver a prefix of it, and what
`Install` does between two rings is one handler of the code (`Discard_packets`), so nothing
rests in GTRANS or GGT between two actions. `Transition`, `HandleReg` (with its four states),
`HandleGroups`, `HandleJoin`, `HandleLeave`, `HandleKill` are the handlers. One group goes in
one GROUPS buffer; stale GROUPS messages in the queue are kept. Left out: group masks,
mailboxes (which `Session` has), private groups, endian conversion, requests that change
nothing, a ring followed by the same ring.

### `Flush` and the code

`group[p]` has the fields of `fl_group` at p's connection: `mstate` (JOINING, JOINED, LEAVING),
`vstate` (STEADY, AUTHORIZE, AGREE, VERIFY), the view `fl_view`, the queue `memb_queue` of
changes SP has announced, what is known of each (`pmemb`, with those whose FLUSH_OK came) and
the messages `mess_queue` of a view not installed yet. `Receive` is `recv_and_handle`: one
message of SP and its handler whole, with every message it multicasts and everything it puts in
the user's queue. `mess_size` is the size of `mess_queue` as stddll keeps it. `FL_join`, `FL_leave`, `FL_disconnect`, `FL_flush`, `FL_multicast` are the
calls. SP is external to the layer: `inbox[p]` is what it has ordered for p and not handed over
yet; a RELIABLE message may be handed over ahead of its turn, FIFO ones are not, since the
daemons of this repository order them with the rest. A FLUSH_OK can come before the membership
it is about only if SP lets it; then its age is counted (`FLOK_AGE_LIMIT`). History: the views
a user was given, with the messages given in each, and what the code counts on and does not have
(`broken`): `memb_info`, the assertion at 1441 that `SP_scat_get_memb_info` returns the size of a
group id, when it returns 1 (`sp.c:1977`), so that the first membership ends a program whose library
was built with assertions; `mess_queue`, a second `stddll_clear` or `stddll_destruct` of one that an
earlier clear has left with a wrong size; `assert`, any other assertion of `fl.c`. The library's own
makefile turns assertions off (`-DNDEBUG`, `libspread/Makefile.in:38`), so a behaviour goes on after
a membership; `Sound` says that the third does not happen. Left out:
several groups, subgroup and private messages, transitional signals to the user, and memberships
that a network failure causes (below, "Seen on the way").

### The containers, the event loop and the pools, and the code

An element is one cell; an address is a place in an array (`StdCarr`, `StdArr`), a position of
the table (`StdHash`) or the number of a node (`StdDll`, `StdSkl`, where malloc gives the least
free one). A cell nobody wrote is `Junk`, so that an operation reading one shows. An operation
that allocates may fail, and then must leave the container as it was. `told` says that the
iterator an operation hands back is at the right element. The sizes are what the code makes of
them, and `astray` says what a call has made wrong: in `StdDll` `stddll_pop_back_n`, a shrinking
`stddll_resize` and `stddll_clear` add one to the size instead of subtracting ("size"), a later call
that goes by the size then erases or inserts elsewhere ("list") or beyond the end, and a growing
resize reads through a null pointer, which may end the program ("ended": both outcomes are there); in
`StdHash` a put that overwrites counts its pair again; in `StdSkl` `stdskl_erase_seq` subtracts a
count that is -1 ("size"), a copy by such a size takes in the end node ("list"), and a put with a
hint adds a second pair of one key ("put"). `SequencesRight` and `MapsRight` claim the content
throughout but for "list" and "put", and the size until a call has made it wrong. `stdcarr_it_cmp`
divides by an unsigned size of an element: the model has it for elements of one byte and of more
(`VSizes`), a `stdsize` has `STDSIZE_BITS`, and `IsSequence` says that an order is right when the
elements have one byte or the second iterator is not after the first.

`Events` has one action per place of `E_handle_events` (`loop`): timers that are due, the
select, the high and middle descriptors and one low one; before the loop and in each handler
the program may queue, dequeue, attach, detach, change the threshold or exit. Time is a
number of ticks, `Second` of them a second, and starts at one, so that delays carry into the next second (`E_add_time`). `owed` is history: the sources of a high level that were ready and that no handler has moved. `Memory` gives numbers for addresses; what
`calloc` gives out and what the program holds are compared with the counters.

## Runs

| run | shows | bounds |
|---|---|---|
| Convergence | `TypeOK`, `FoundersAgree`, the inductive `LedgerInv`, `HistoryNumbersAgree`, refinement of `AgreedAccount` | 2 founders, 1 transaction and 2 ticks each, symmetric |
| LateJoiner | `JoinerHasSuffix`, `SentInOrderUntilDelivered`, `SyncedBalanceIsCorrect`, `OutstandingIsExecuted`, with a command that kills listeners | 1 founder with 2 commands of three kinds and 2 ticks, 1 joiner that only listens |
| ListRaces | `RaceOutcomes` (what the naive reader may see, what an overlapped removal leaves), `CopyOutcomes`, `NaiveReaderReturns` | 1 reader, 3 adds, ticks without end, 1 message on its way |
| ListenerThread | type and monitor, `HandedOverInOrder`, `QuietAfterKill`, `ExitEndsWithoutListener` | 2 messages of 3 pieces, 1 multicast |
| TokenRing | `Sound` (type, no EXIT alarm, what is taken for stable is everywhere), `FlowControlExact`, refinement of `TotalOrder`, `EverythingDelivered` | 3 daemons with 2 messages; 2 daemons with 5 packets of every service, more than the 4 slots; 369,000 states |
| Recovery | `ExchangeSound` (counters in step, no alarm), `ExtendedVirtualSynchrony` (the same packets for those that go on together, no gap, unique ids), `SafeReached`, `ExchangeEnds`; `SearchSound`, `ListedOnce` of `Gather` | 3 daemons; two pasts of 3 packets with a hole and 2 form tokens, and pasts of 1 to 3 packets with 1 form token: a hole at each of two daemons, all had none of them, a stale `Commit_set`, packets still on their way; 3 daemons of 2 segments, two of them on a ring, one form token, 4 timers that run out, 1 packet on its way; together 589,000 states |
| Session | `Sound`, `TablesAndMembersAgree`, `StreamsAndKillsExact`, `Settles` | 2 sessions, 3 connections, 2 requests, queues of 1 message of 2 pieces, 1 local member of a group; 130,000 states |
| Groups | `Sound`, `ViewsAndTablesAgree`, `OwnKept`, `GatherEnds` | 3 daemons from rings {1,2} and {3}, 4 rings, 2 requests; 1,390,000 states |
| Utilities | `Sound` (of fl.c: the only assertion that fails is 1441, messages in the view they were sent in), `ViewSynchrony`, `QuietIsSteady`; `SequencesRight`, `MapsRight`, `LoopAndPoolsRight` | 3 connections, 2 of them members at first, 2 membership changes, 1 message of a founder that is overtaken or overtakes one; arrays of 5 elements, rings of 4, maps of 3 pairs with two keys of one hash code; 2 timers or 2 descriptors, 2 priorities, seconds of 3 ticks; 3 blocks of memory; together 1,115,000 states |
| ExecutedTwice | refutes "check if they have already been executed" (217, 249) | 1 client |
| GroupsExit | refutes "Reliable (will get there, no ordering)" (Readme.txt 260): it ends the daemon it gets to | 3 daemons, a join and a RELIABLE message to the group |
| SafeTooEarly | refutes "mesg will not be delivered to application until the mesg has reached ALL receipients' daemons" (Readme.txt 266) | 3 daemons, 1 SAFE packet that one of them missed |

Why the bounds are enough. Two clients give every pair that can disagree; two ticks give
a message that repeats a transaction, which is where the duplicate check and
`cleanHistory` matter; one client with two transactions and two ticks has one come back
while the other is still outstanding, and both come back twice. The history
records which transactions were executed and in which order, so agreement of two clients is
agreement on the order even when the commands commute. Three adds are the least with a
list whose middle element can be lost; two messages of several pieces the least with a cut
inside one and a wrong start in the next. Raising `MaxInbox` to 2, or `MaxAdds` to 4, changes
no verdict of `ListRaces`. The
theorems do not depend on the bounds. Three daemons are the least with a leader, one that
follows it and one that is cut off; four slots with five packets the least that reuse one;
three packets with a hole before a SAFE one and a message known to one daemon alone give
every case of `Discard_packets`; two segments, a ring and a daemon without one give every message
of the search its every reader, and four timers are the two ends of SEG, of GATHER and of a lost
token (three daemons that have just started, 2 packets on their way, or 2 form tokens with 2 timers,
were checked by hand and change nothing; a representative that has no member to add needs three form
tokens, and is in the theorem `EachListedOnce` and in random behaviours of `Gather` only, and a daemon
that gets a token it is listed on by such an entry only in the theorem); two form tokens are one exchange that fails and one that
succeeds; two sessions for three connections reuse a slot and a descriptor; four rings are a
merge, its cascade and a split; two changes of a flushed group are a cascade, with every pair of
join, leave and disconnection in it (that the message may be any member's, and a fourth
block of memory, were checked by hand and change nothing). The containers are large enough to grow twice, to wrap, to
shrink and to rehash with an erased position in every search. Deadlock checking is on in
`TokenRing`; elsewhere it is off: with bounded counters the system comes to rest when they are spent.

Fairness. `Client!Fairness`: the scheduler's next tick comes (a fixed-rate task), the
listener thread runs while it has a message, the daemons order what was submitted.
Commands, races, `cleanHistory`, joins and disconnections are never forced. In
`OutstandingList` each thread that can run keeps running. In `Connection` threads run,
the monitor is not withheld for ever from a thread that asks for it (strong fairness of
`Disconnect` only), and the daemon sends what it has. Liveness is claimed up to a failed thread, since the code
restarts none. In `TokenRing` (`FairSpec`) from some time on no token is lost, so the
leader's timer repeats a token only that it holds itself; tokens are handled for ever, sessions hand
over their messages, and packets that are sent again and again are in the end received (a lost token
that nobody repeats is a lost ring, and that is `Recovery`); in `Recovery` tokens that are not declared lost travel on, packets
asked for again and again arrive, and form tokens are finite; in `Session` the token returns, packets arrive, the one-second timer of an accepted
connection fires, and a client that is written to reads in the end; in `Groups` daemons
install what they are forming, deliver what is in the log, and send GROUPS messages when due.

## Findings

* `Client.java:241` assigns `false` on a match: no duplicate is ever skipped. Run
  `ExecutedTwice`. The mutant that repairs only that line breaks `FoundersAgree`: the
  check reads `executed_list`, which `cleanHistory` empties on one client at a time. The
  theorems below hold of the code as it is, and rest on that assignment.
* `groups.c:2290`: a RELIABLE message to a group is handed over before the GROUPS messages ordered
  before it, and ends a daemon that knows the group and is still in GGATHER. (A message to a group
  it does not know is dropped at 2281 before that.) Run `GroupsExit`.
* `membership.c:2016`: the first token of the exchange has seq 0, so a daemon without any of
  the old packets makes the aru equal to it and the next one takes that for agreement: a
  SAFE message is delivered before it has reached all. Run `SafeTooEarly`.

Seen on the way, and without a run of their own (definitions kept in the modules, where there
is one, can be checked with the constants named):

* `SpreadConnection.java:1483`: `disconnect` (924, synchronized) joins the listener thread while
  holding the monitor that thread takes (1647) before it looks at `signal` (1651). `exit`
  (`Client.java:478`) does not end the program while the listener thread lives, though line 470
  says "Disconnects from spread and exits the program" (`Connection`: `ExitEndsWithoutListener`
  holds only once the listener thread has died).
* `ArrayList` under two threads (`OutstandingList`): what a removal overlapped by an add leaves is
  listed in `OverlapOutcomes`. A later removal may then meet a null or a transaction twice and
  leave anything; the properties speak of the first overlapped removal and `Client!Race` lets the
  list be torn from then on.
* `Client.java:136`: transaction ids have two words, `checkTxStatus` accepts one, so "Return
  the status of the transaction with the ID given" (414) fails for every id there is.
* `Client.java:276`: an amount that is no number is found out only by the listener thread
  of every client, and ends it, though line 127 says the command is checked for its syntax.
* `Client.java:106`: `members` is null, since nothing assigns it. `main` ends there, before
  the first broadcast (85).
* `SpreadConnection.java:1721`: a read timeout inside a message is ignored, and the part read
  is gone; the rest is read as a new message (`HandedOverInOrder` allows for what is cut).
* `session.c:1820`: a killed session stays in the group's mailboxes until its KILL message
  is delivered; a new session with its descriptor is given messages of groups it never
  joined (`Session`, `OnlyMembersReceive`; Readme.txt 228).
* `groups.c:1960`: a representative writes the group's membership id for each daemon it
  speaks for, so after a cascade the vs_set of one membership differs between daemons
  (`Groups`, `SameViewSameSets`; comment 1660-1664).
* `membership.c:1559`: a daemon that others have listed as a segment's representative may have formed
  a ring meanwhile and gather for it as its leader when their form1 token comes; `F_members` is then
  empty (429, 1026). `Fill_form1` counts one new member without writing it (1564-1568) and leaves the
  number of pending ones -1. What stands there came with the token from its maker's static `F_members`
  (98, 1402): a daemon of an earlier, longer list, which is then on the ring without knowing, or twice,
  or 0. The next representative does not take such a token; if there is none, it is sorted and goes
  round as it is (`Gather`, `FillForm1`, `unwritten`).
* `session.c:1376`: a join is refused when as many as the limit are local members of its group,
  but the count goes up only when a join is delivered: joins read before that pass the limit, and
  then `==` never refuses again (`Session`, `LimitKept`).
* `membership.c:2206`: the loop that takes `My_aru` forward, under the comment "return Aru and
  My_aru", tests an index the loop above left behind; if the token is lost where it errs, a daemon ends
  in "packet not exist", or the exchange goes round until `MAX_EVS_ROUNDS` swallows its token
  ("BUG WORKAROUND", `protocol.c:653`) (`Recovery`: `NeverExits` fails with `Pasts <- MCHoles`).
* `membership.c:1387`: a daemon that is taken from a ring in operation puts the `Commit_set` of the
  change before that ring on the form token, and a packet is delivered after a gap of its sender
  (`Recovery`: `NoGaps` fails with `Pasts <- MCGap`).
* `protocol.c:230`: packets of the old ring that arrive after the form token has passed are taken in:
  members of one transitional membership deliver different packets (`Recovery`: `VirtualSynchrony`
  fails with `Pasts <- MCLate`), or none and end in an alarm.
* `fl.c:1441`: the assertion compares what `SP_scat_get_memb_info` returns, which is 1, with the size
  of a group id; another one (1993) has it right. With assertions on, no program gets a membership.
* `fl.c:1634`, 1806: after `stddll_clear` the size of an empty `mess_queue` is wrong, and the next
  clear, or `free_fl_group` (600), frees the end node and beyond (`Flush`: `FreesTooMuch`): a member
  that once was given a message before its view is enough.
* `fl.c:2020`: `determine_leavers` erases with the address of a member's characters where the
  table hashes a pointer to them, so the member is not found and the program ends at the
  assertion after it: the flush layer does not survive a membership that a network failure caused.
* `fl.c:1721`: a RELIABLE message of the view without p may reach p, which is leaving, in its old
  view (`Flush!Sound` says so); p, leaving in AGREE, gets ILLEGAL_GROUP from `FL_receive` when a
  change is collapsed; a FLUSH_OK that overtook a join, as SP's documentation allows for FIFO
  messages, would be lost.
* `fl_p.h:173-183`: that a FLUSH_OK older than `FLOK_AGE_LIMIT` memberships is forgotten rests on
  SP never delaying one that long.
* `fl.c:757-776`: `make_reservation` reads `conn->disconnecting` after it let go of the lock, and
  `FL_disconnect` waits once with an `if`; a user's thread may still be in a call then.
* `stddll.c:220`: `num_erase` is counted down to -1 and then subtracted, so the size goes up by one in
  `stddll_pop_back_n`, a shrinking resize and a clear, against 447 and 517 (`StdDll`,
  `SizeIsNumberOfElements`). `stdhash.c:512`: a put that overwrites adds one to the size, against 905
  and the bound in `STDHASH_IS_LEGAL` (152) (`StdHash`, `SizeIsNumberOfPairs`). `stdskl.c:514`:
  `stdskl_erase_seq` subtracts a count that is -1, against 780 (`StdSkl`, `SizeIsNumberOfPairs`). The
  daemon and the flush layer use the first of these only.
* `stddll.c:56` reads `*b` also where the caller passes no iterator (a growing resize);
  `stdskl.c:903`: a hint makes a put insert a second pair of one key, against the comment; `stdcarr.c:1377`
  divides a signed difference by an unsigned size, so an iterator that is before another is told to be
  far behind it when elements have more than one byte; `stdcarr.c`: an erasure that shifts the left part
  leaves its iterator past the gap.
* `events.c:390`: attaching a descriptor that is inactive does not watch it again. In one round,
  a descriptor deactivated by a handler of its priority is still served, and timers without delay
  keep the loop among the timers.
* `memory.c`: `dispose` takes the type's object size off the counter of bytes, which is 0 for
  blocks; the counter only grows (`over`).

## Proved

`ClientProofs`, for every set of clients, founders and commands and all bounds, from
`ClientAssumption` (founders are clients, `NotANumber` is no integer, a hole is no
transaction, bounds are numbers):

* `TypeCorrect`: `Spec => []TypeOK`. Inductive as it stands, with the listener's position
  (`PositionOK`) in it.
* `LedgerCorrect`: `Spec => []LedgerInv`. Agreement alone is not inductive: two clients
  may reach a point at different times, and nothing in their states then says that the
  account belongs to the point. The `ledger` keeps the account of every point reached;
  the invariant says it is a function of the point, each entry follows from the one
  before by the transaction between them, there are no gaps, and every founder is on it.
  A step of a founder to a new point extends it; to an old one, finds its own account there.
* `Agreement`: `Spec => []FoundersAgree`, from `LedgerCorrect`.
* `Refinement`: `Spec => ImplementsAgreedAccount`: each step of a founder is one `Reach`
  of the abstract account or a stutter.

`HistoryProofs`, from the same assumption:

* `HistoryNumbers`: `Spec => []HistoryNumbersAgree`. The numbers `getHistory` prints count back
  from `order_counter`, so two founders agree on them only if their histories agree beyond the
  point both have reached. The ledger does not say that. `GrowInv` (theorem `HistoryCorrect`)
  does: of two points of the ledger, the history of the earlier begins that of the later, and no
  point is missing after one that has a later; with it, every list of executed transactions is
  the end of all its client executed, but for nulls (`ListIsEnd`).
* `JoinerSuffix`: `Spec => []JoinerHasSuffix`. A joiner is at no point of the ledger. `JoinerInv`
  (theorem `JoinerCorrect`) says that there is a way: a point of the ledger the joiner could have
  started from, at the place of the log it joined at, so that what it executed since is what
  lies between that point and the one it has reached.

`OutstandingProofs`, from the same assumption:

* `SentInOrder`: `Spec => []SentInOrderUntilDelivered`, and `SyncedBalance`:
  `Spec => []SyncedBalanceIsCorrect`. Both follow from `SentInv` (theorem `SentCorrect`): while no
  race has torn a client's list, the list is a run of consecutive numbers up to the last one
  created, each of its messages, sent or in the log, is a run from a number its list had not yet
  lost, everything before the list's first number has been handed to the client, and nothing from
  it on has. A removal takes the first of the list and nothing else, since a message is gone through
  in order. Of the clients whose list is torn it says only that what they send is theirs. That a
  synchronised balance has its client's earlier deposits in it needs that no deposit is skipped,
  which is again `~tx_already_executed` of `LedgerInv`: the balance is right because the
  duplicate check never finds one.

`OutstandingListProofs`, for every number of transactions, of naive readers and of messages on
their way, from `ListAssumption` (names differ, bounds are numbers):

* `RacesAsListed`: `Spec => []RaceOutcomes`. `RaceInv` (theorem `ListInvariant`) says what stands at
  each place of the array: between removals (`Clean`, `Covered`), while one looks for its
  transaction (`Found`), and stage by stage of one that changes the array while at most one add
  comes in between (`Removal`). It says nothing after the first overlapped removal has ended,
  when the array can hold anything.
* `CopiesAsListed`: `Spec => CopyOutcomes`, an action property. `CopyInv` follows the scheduler's
  copy while `modCount` is what the scheduler kept: along an array that stays (`Steady`), or along
  one that a removal is moving down (`Torn`).

These two theorems are what `TornBy` and `TornCopies` of `Client` rest on: the outcomes the big model
lets a race have are all that the array can produce.

`ConnectionProofs`, for messages of any number of header and body pieces and all bounds,
from `ConnectionAssumption` (a header has a piece, `Garbled` is no message number):

* `TypeCorrect`: `Spec => []TypeOK`, with the monitor's holder in it.
* `KillIsLast`: `Spec => QuietAfterKill`. Not inductive alone: it needs that `disconnect` has
  the monitor from the KILL message to the end of the listener thread (`Stopped`).
* `InOrder`: `Spec => []HandedOverInOrder`. The strengthening `InStep` says that what is on
  the wire starts with the piece the listener needs next and goes on without gaps to the piece
  the daemon writes next, and that what is read is the beginning of the next message.

`GatherProofs`, for every number of daemons, every configuration of segments, any loss of packets and
tokens, and every set of rings to begin with, from `GatherAssumption` (the rings are disjoint and of
daemons; only `EachListedOnce` uses it):

* `SearchIsSound`: `Spec => []SearchSound`, the timers of every state, who gathers for a ring, and
  that the alarm of `Memb_token_loss` is not reached. That a daemon's first entry of `F_reps` is its
  own is not inductive alone: an inserted representative takes the place of the one it names, so a
  join must never begin with its reader (`SearchInv`, theorem `SearchInvariant`, with
  `InsertRepKeepsFirst`); and the alarm is not reached because `Token_alive` and the timer of the
  token go together with the state (`AliveMatches`).
* `EachListedOnce`: `Spec => []ListedOnce`. Several daemons make tokens at once, and each puts on its
  own whom it has heard of. That nobody is on one list twice is not inductive, since it says nothing
  of the daemons: `FormInv` (theorem `FormInvariant`) says that all who have had the first round of a
  token are in FORM, and that no two tokens are waited for by one daemon. A daemon adds itself before
  all others, or nobody (`AddedBegins`), and takes a token in states in which it waits for none; it
  leaves FORM when the token comes back, which has then gone on without it, or when its timer runs
  out, with which the token is gone (`TimeoutForm`: the one place where the proof rests on a timer
  being longer than a token is on its way). `InOrderIs`, `AtIs` and `SortMembersIs` say what the
  lists of members are, by induction over the size of a set (`Enumeration`), and hold for every list.
  All this is of behaviours in which no representative has counted an entry it did not write: after
  that a token may list anybody, and the code promises nothing. What the theorem says then is who is
  to blame: the first such entry is counted by a daemon that gathers for its own ring and is on the
  token as a segment's representative, never by one that has no ring, or is on it for its ring.

`TokenRingProofs`, for rings of any size, any load, window, number of slots and pattern of lost,
repeated and late packets and tokens, from `RingAssumption` (loads are lists of messages with a
size, and the bounds are numbers; it asks for two values of the token's arq field, not for 16) and,
for the slots alone, from `SlotsSuffice` (`MAX_SEQ_GAP`, the last token's aru to the highest number
sent, and what one visit adds to it fit in the slots: the code has 8192 of them for 1600, a personal
window of 15 of at most 46 fragments each, and 1; windows more than nine times as large, which the
monitor may set and the code does not refuse, are outside the theorem):

* `RingIsSound`: `Spec => []Sound`, from `CountersInStep` (`TypeOK`), `StableIsHeld`
  (`StableEverywhere`) and `NoAlarm` (`NeverExits`, below), its three parts, and `FlowControlIsExact`: `Spec => []FlowControlExact`. All but `NoAlarm`
  follow from `RingInv` (theorem `RingHolds`): there is a daemon `p` that handled the token last, and
  - `Turns`, `OnTheWay`: the daemons up to `p` have this round's arq, the others the one before; what is
    on its way is a copy of its sender's last token, unless the leader holds the token. So whatever
    copies there are, the one daemon that accepts a token is the one after `p`, and what it accepts is
    what `p` passed on (`FreshIsNext`). That a token is copied when it is hurried, repeated or late is
    what makes `FlowControlExact` not inductive.
  - `Arus`: what one daemon frees all have. That is a fact about two rounds: who was visited between
    `d` and `p` has all that is below the aru `d` passed on and the aru `p` passed on
    (`HeldBetween`); for a token that lets the aru go up again, that needs that who raises it set it
    last, and that nobody has touched it since (`Owned`, `Untouched`, `RaiserOwns`).
  - the token's flow control is the sum over the ring of the last visits (`SumUpdate`).

  The loops are followed step by step (`OverKeeps`, `OverSlots`) and the sum likewise (`SumSteps`), by
  the least number at which a claim fails (`LeastExists`): induction without the library's
  induction theorems, which take an operator.
* `NoAlarm`: `Spec => []NeverExits`. The alarms of `Deliver_packet`, `Discard_packets`,
  `Answer_retrans` and `Send_new_packets` are about packets, and `RingInv` says where each is only
  below the aru. `SoundInv` (theorem `SlotsHoldWhatWasSent`; TLC checked it on the run's instance
  first) adds
  - `InTurn`, `Tight`: what was sent is numbered 1, 2, 3, ... up to the seq of the last token, so a
    number names one packet for everybody, and the packets of a sender's message follow each other;
  - `Fits`: a daemon's slots hold just such packets, without a hole between what it discarded and its
    own aru; its unfinished messages are what it has delivered of them, and its Down queue goes
    on with the message where its last packet ended; what tokens ask for lies above their aru;
  - `Gaps`: from the daemon whose turn it is around to `p` the Aru do not fall, so the next daemon
    has the least. Nobody has freed what that daemon may still ask for, and when it sends, the
    highest number is within `MAX_SEQ_GAP` and its window of its own Aru (`SendBound`). With
    `SlotsSuffice` the slot of a new packet is then free, and so it is at any daemon the packet
    comes to, however late.

  A handler runs several of the loops in a row, and `SoundInv` must be carried through each
  (`OverFits`, `TurnFits`, `OthersInTurn`).

`SessionProofs`, for any number of sessions, connections, groups, requests, pieces of a message and
limits of the queues, from `SessionAssumption` (names are numbers, as `strcmp` orders them, the limits
are positive numbers, and there are finitely many groups, which `G_handle_kill` walks through):

* `SessionIsSound`: `Spec => []Sound`; `TablesFit`: `Spec => []TablesAndMembersAgree`;
  `StreamsAndKills`: `Spec => []StreamsAndKillsExact`. None is inductive alone: an entry of one table is
  made by one handler and looked up much later by another, when the client is gone, its descriptor is
  another client's and its name is still in groups. `SessionInv` (theorem `SessionHolds`; TLC checked
  it on the run's instance first) says
  - `ListOK`, `HashOK`: a session is once in the list, or once in the free list, and once in the chain of
    its mailbox, where the one that may use the mailbox comes first. Any number of killed ones can be
    behind it;
  - `OpenOK`: the descriptors in use are those of the sessions that are not killed, and of the
    connection being named, for which a session is left (a free slot: `BUG ! No free sessions !`);
  - `ConnsOK`: a connection has one session, which has its name until the KILL is delivered;
  - `FlightOK`: a join, leave or KILL that is on its way is of a session that is still in the list, and a
    killed session's KILL is behind all that it sent. Hence `DeliverJoin` and `DeliverLeave` find the
    session, and `DeliverKill` takes the last packet of its connection. This rests on the down queue and
    the ring keeping the order in which the daemon submitted (`PacketMoves`);
  - `GroupsOK`: the mailboxes of a group match its members one to one. Several members may have the same
    mailbox, `G_remove_mailbox` takes out the first one it finds, and the last mailbox moves to its
    place: the match must then be changed for two members (`MatchSwap`, `MatchLeave`);
  - `StreamsOK`: what a session was written and what is queued is what it was given, and nothing is
    queued behind a message half written that does not follow it (`PiecesAppend`, `PiecesDrain`: the
    arithmetic of messages and pieces);
  - a bound on how many deliveries can still come (`Ahead`), since a killed session's KILL is one more.
  A delivery writes to any number of mailboxes and may kill each of them half-way, at which the tables
  do not change but the down queue does. What is kept through that is a part of the invariant of its own
  (`WriteInv`), followed along the mailboxes and the groups by the least number at which it fails.

Only model-checked:

* liveness (`OutstandingIsExecuted`, `NaiveReaderReturns`, `ExitEndsWithoutListener`,
  `EverythingDelivered`, `ExchangeEnds`, `Settles`, `GatherEnds`), which the prover does not treat;
* the refinement of `TotalOrder` by `TokenRing`: both say what has been delivered with `SelectSeq`, and
  what that recursive operator gives for a longer sequence needs an induction over data. The facts it
  would rest on (numbers name packets, no holes, no alarm) are in `SoundInv`;
* `Recovery`, `Groups`, `Flush`: their handlers are folds over sequences of packets, messages
  and members, and each fact about a step needs an induction over the fold, as in `TokenRingProofs`;
* the containers, `Events` and `Memory`, whose checks are over all short sequences of calls.

## Not modelled, and the plan

* No mapping from `Gather` to the choice of daemons in `Recovery` is checked; `Recovery` takes any.
* No mapping from the daemon modules to `GroupLog` is checked: it would need their product.
* Configuration parsing, access control, authentication methods, monitoring and logging hold
  no state of the group. `lex.yy.c` and `y.tab.c` are generated.
* `sp.c`, the C client library: the program uses the Java one. Identity copies of hash tables
  (`copy_construct`, `set_eq`), `stdthread`, `stdtime`, `stdfd`, `stderror`: thin wrappers.
* Next: the refinement of `TotalOrder` on top of `SoundInv`, with the deliveries written as a
  recursive function instead of `SelectSeq`; then `ViewSynchrony` of `Flush`, whose handlers loop
  least of those that are left.
