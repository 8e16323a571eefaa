# lksctp: TLA+ models and proofs

`lksctp` is a Rust binding of the Linux kernel's SCTP sockets: a blocking
`SctpSocket` and, for tokio, `SctpStream`, `SctpListener` and `SctpEndpoint`.
This directory holds models of its behaviour, the TLC configurations that check
them on small instances, and proofs that TLAPS checks for every instance.
Paths below are relative to the repository (`src/...`).

## 1. Inventory

| Component | State | Operations | What makes it correct |
|---|---|---|---|
| Receive path: `imp/kernel.rs` `recv_msg`, `reassemble_notification`; `net/common.rs` `read_op` | the kernel queue (a message may be taken in part), tokio's cached readiness, the locals `out` and `oversized` of a reassembly | `recv_msg` (async, blocking), cancellation | every call returns one message of the queue, in order; a notification is whole; end-of-association is not reported early; no wakeup is lost |
| Connecting (tokio): `net/stream.rs` `connectx`, `connectx_from_socket`; `common.rs` `established` | the caller's subscriptions, the temporary one, the association, the queue | subscribe, register, `connectx`, wait for the outcome, withdraw the subscription | `Ok` means established; the kernel's cause is reported; no user data is swallowed; the caller's subscriptions are what they were; the call ends |
| Connecting (sockets and endpoints): `kernel.rs` `connect`, `connectx`, `set_nonblocking`; `net/endpoint.rs` `connectx` | `O_NONBLOCK`, `SO_SNDTIMEO`, the associations, the notifications about them | `connect`, `connectx`, `set_nonblocking`, `subscribe_event` | a call that blocks returns `Ok` only when established, `TimedOut` only after waiting in vain; the id returned is that of the caller's own association, and the outcome is announced under it |
| Address codec and queries: `addr.rs`, `kernel.rs` `getaddrs_with_capacity`, `bindx` | the kernel's address list, the buffer's capacity | pack, unpack, query with growing buffers, `local_addr`, `peer_addr` | the result is one snapshot of the list, the buffer is bounded, `ENOMEM` means too many addresses, the loop ends |
| Sockets, listeners, endpoints, streams: `kernel.rs`, `socket.rs`, `net/*` | descriptors with their flags and owners, associations, accept queues | open, take over and give away a descriptor, listen, connect, wrap for tokio, accept, peel off, shut down, abort, drop | tokio types never block; no association or descriptor is lost between system calls; abort is an abort |
| Send path: `send_msg`, `write_op`, `cmsg.rs` | send buffer, readiness | `send_msg`, `send_msg_to`, `SCTP_EOF`/`SCTP_ABORT` flags | a message is sent whole or not at all, once, and in the order in which the calls were accepted |
| Notification parser: `notification.rs` | none (pure) | `parse` | total on every length; fields come from the kernel's offsets |
| Control messages: `cmsg.rs` | none (pure) | iterate, write | iteration ends inside the buffer; what is written is read back |
| Association reports and timeouts: `kernel.rs` `status`, `peer_addr_info`, `assoc_stats`, `set_timeout`; `types.rs` `from_sys` | none (pure) | decode a report, convert a `Duration` | each field is the kernel's field of that meaning, for every ABI; a short timeout does not become "no timeout" |
| Socket options: `kernel.rs`, `common.rs`, `types.rs` | options of the socket, of each association and of each path | getters and setters with FUTURE/CURRENT/ALL scope, with and without an address | a setter reaches the associations its scope names and no others; a builder that failed leaves no half-configured socket |
| ABI definitions: `sys.rs` | none | none | structures have the kernel's size and offsets on every architecture, constants its codes |
| Stub `imp/stub.rs`, crate root | none | none | - |

How they interact. Every operation ends in a few system calls on a shared
descriptor. All methods take `&self`, so tasks and threads may run them at the
same time; there is no lock in the crate, and the only atomic step is one system
call. The tokio types put tokio's `AsyncFd` between the caller and the call: a
call is tried while readiness is cached, and clears the cache when it returns
`WouldBlock`. `established` is built on the receive path and reads the
association changes that the kernel queues; accept and peeloff make a new
descriptor and configure it in further system calls.

What is hard: several recvmsg calls for one notification while another reader
runs; edge-triggered readiness cleared concurrently with new events; futures
dropped at an await; the kernel's association changing between any two calls;
flags read after the call they are meant to explain; a failure between the
system call that takes something over and the one that finishes it; lists that
change while their buffer is grown. `PROJECT.json` lists each hazard at its line.

## 2. Modules

| Module | Models | Notes |
|---|---|---|
| `Messages` | messages, their bytes, deliveries | shared vocabulary of the next two |
| `MessageQueue` | what the receive path promises | abstract: a notification is taken in one step |
| `RecvPath` | the receive path, one step per system call | refines `MessageQueue` |
| `RecvPathProofs` | theorems about `RecvPath` | each `...Proofs` module extends the one it is about |
| `Connect` | opening an `SctpStream` | kernel handshake and peer are the environment |
| `ConnectProofs` | theorems about `Connect` | |
| `Connectx` | `connect` and `connectx` of `SctpSocket` and `SctpEndpoint`, several threads, a reader, `set_nonblocking` | both styles of socket |
| `ConnectxProofs` | theorems about `Connectx` | |
| `Addr` | `write_sockaddr`, `read_sockaddr` and packed lists | recursive functions, no state |
| `AddrQuery` | `getaddrs_with_capacity`, `bindx` | uses `Addr` |
| `AddrQueryProofs` | theorems about `AddrQuery` | |
| `Sockets`, `MCSockets` | life of descriptors and associations | accept, peeloff and the streams' connectx step by step |
| `SocketsProofs` | theorems about `Sockets` | |
| `SendQueue` | what the send path promises | abstract: a call takes effect in one step or not at all |
| `SendPath` | `send_msg`, `write_op` and the send buffer | the sending twin of `RecvPath`; refines `SendQueue` |
| `SendPathProofs` | theorems about `SendPath` | |
| `SockOpts`, `MCSockOpts` | builders and option methods, from the caller to the kernel's per-association copies | |
| `SockOptsProofs` | theorems about `SockOpts` | |
| `Notification` | `parse`, and the kernel's notification layouts | no state |
| `Cmsg` | `write`, `Iter::next`, the loop of `recv_msg` over control messages, `SCTP_SNDINFO`, `SCTP_RCVINFO` | no state |
| `AssocReports` | status, path and statistics structures and their `from_sys` | no state |
| `OptionStructs` | the structures that `setsockopt` and `getsockopt` carry, event types, path flags, single addresses | no state |
| `Timeout` | `set_timeout`, `timeout`, the kernel's ticks | no state |
| `Wire`, `MCWire` | composes `AddrQuery` with the codecs | one thread that makes these calls |
| `WireProofs` | theorems about `Wire` | |

`Sockets` and `RecvPath` contain the same readiness protocol (`readable`, the
guard, `clear_ready`) for accepting and for reading: both mirror `read_op`.
`Connect` abstracts from it: a read happens when there is something to read,
which `Drained` of `RecvPath` justifies.

### RecvPath

State: `msgs`, `head`, `taken` are the kernel's receive queue (the message at
`head` has been read up to `taken`; earlier ones are gone); `eof`, `alive`,
`skerr` the socket's shutdown flag, association and pending error; `edge` the
event epoll holds, `ready` the readiness tokio caches, `fresh[r]` whether
reader `r`'s guard is newer than the last event; `pc`, `cap`, `out`, `over`
the reader's place in the code and its locals; `log` what callers were given.
`async`, chosen in the initial state from `AsyncSets`, says which readers are
tasks that go through `read_op` and which are threads that block in `recvmsg`.

One action is one system call with the code around it. `recv_msg_data`,
`recv_msg_notification`, `recv_msg_partial` and the error branches are the
outcomes of the first `recvmsg` of `recv_msg`; `reassemble_*` the outcomes of each
`recvmsg` in the loop of `reassemble_notification`; `readable`, `try_io_done` and
`clear_ready` the steps of `read_op`. A byte is identified by its message and
offset, so that mixing, loss and duplication are visible; contents are not
modelled. `reassemble_desync` consumes the message it finds, user data included,
and returns an error: `LossIsReported` says that there is no other way to lose
user data.

### Connect

`via`, `style`, `wants`, `others` are the caller's choices. `sub` is the socket's
subscription and `asub` the association's copy: the kernel decides by `asub`
whether to queue a change, at the moment of the change. `dropped` records that
the kernel had no memory for a notification. `established_message` handles each
kind of queued message as the match in `established` does; `take_error` is the
`SO_ERROR` query; `unsubscribe` the builder's last step.

### Connectx

`asocs` are the socket's associations by id, those that peers set up included;
`queue` holds the CommUp and CantStartAssoc notifications on the socket, `streamed`
those that a peel-off took along, `seen` what the reader has read. `call[t]` is a
thread's call: `entered` is the mode as the kernel saw it, and `connectx_error`
reads the flags again after `EINPROGRESS`. `set_nonblocking` is two calls
(`F_GETFL`, `F_SETFL`). `told` is the history of what `connectx` returned `Ok` for.
An association can come up, be announced, be peeled off or end while the call that
started it has not returned yet, and a peer may connect at the same time. A
handshake fails because the peer refuses it or because the kernel has used up its
attempts (`LastAttempt`, `spent`): the latter ends a blocking call with `ETIMEDOUT`,
which `last_os_error` reports as `TimedOut` like an expired send timeout.

### Addr and AddrQuery

`Addr` writes addresses as bytes in the layouts of `sockaddr_in` and
`sockaddr_in6` with abstract field values; reading is by the offsets of the code.
Ports are numbers and have two octets: `to_be_bytes` and `from_be_bytes` compute
them, `KernelPort` says which two octets the kernel means by a port.
`AddrQuery` grows `capacity` as the code does (`may_grow`, `grow`), and the list
may change between attempts.

### Sockets

`sk[s]` is a descriptor: who owns it (a handle type, a call in progress, nobody)
and its flags; `state`, `home` and `fate` say where an association is. `accept4`,
`enable_rcvinfo_step` and `register_nonblocking` are separate steps and each may
fail. `refs` counts up to two sharers of a handle. `stream_connectx` consumes its
socket and waits in `established`; there it may be dropped (`drop_connectx`), or
fail after the association came up. `into_raw_fd` releases a descriptor, which
`from_raw_fd` may take back. `send_close` is a `send_msg` with `EOF` or `ABORT`;
`peeloff` also takes associations that are being set up or shut down.

### SendPath

`queue[p]` is what waits for peer `p`; all queues share the space of the socket's
send buffer. `assoc` are the associations, `edge`, `ready` and `fresh` the readiness as in `RecvPath`; `pc`,
`msg` and `outcome` are the calls, and `taken` counts how often the kernel took
the message of a call. `Verdict` says what `sendmsg` does with a message in the
present state; the actions `send_msg_*` are its outcomes with the code around
them. A task retries after `clear_ready`, a thread waits inside `sendmsg`
(`wait_space`, `wait_fails`). `SCTP_EOF` and `SCTP_ABORT` end associations.
`writable_error` is the error that `writable()` returns when the runtime shuts down.

`SendQueue` has the calls in progress, an outgoing queue per peer and the
associations that are closing. The refinement maps the calls that have not
returned to `pending` and the queues to `outbox`; every attempt that finds no space, every
wakeup and every turn of `write_op` is a stutter.

### SockOpts

`kern` holds the kernel's parameters: the socket's defaults under `FUTURE` and one
copy per association, made when it is set up; the parameters of `PeerAddrParams`
exist once more for each path, and setting them for the association sets them for
all its paths. An association refuses more retransmissions than its paths have
together. `want` is the history of what the
calls that returned `Ok` asked for, in the crate's own types and for the
associations that the call is for (`Promised`): the stream's own one, those that
an endpoint's id names, and for builders and listeners those set up after the call.
The documentation of listeners speaks of associations accepted after the call, which
`AcceptedAsConfigured` and `AcceptedAsSubscribed` state and the code does not keep
(section 5). The conversions
(`sctp_rtoinfo`, `InitParams_to_sys` and so on) lie between them. A failed step of
a builder drops the socket. `pack_optional_addr` decides between path and association;
on an endpoint an address without an association id selects the association.
`set_reuse_port` is refused once a port is bound, autoclose is copied into an
association when it is set up. `subscribe_events` is a loop of calls, and peers may
associate between two of them.

### Wire and the codecs

A byte is a value and its position in it, so that a field read from the wrong
offset, of the wrong width or in the wrong byte order is never equal to the right
one by chance. The kernel's structures are lists of members laid out by the C
alignment rule; the crate's side reads at the offsets and through the
`#[repr(C)]` declarations of its source. A host is a pointer width, an alignment
of 64-bit integers and a byte order. `last` holds what a call returned and what
it should have. What the kernel attaches to a message before and behind RCVINFO is
chosen among the seven control messages of `Attachable`. The codec calls share no state with each other or with the
queries, so they are explored from the initial state only.

## 3. Runs

| Run | Shows |
|---|---|
| `recv_single` | One task or one thread with buffers of 0 and 2, messages of 1, 3 and 5 bytes, a notification cap of 3: implements the queue (`ImplementsQueue`), the loop cannot block (`ReassemblyCannotBlock`), notifications are whole, end-of-association is final (`EofIsFinal`). |
| `recv_pool` | Two tasks tear notifications apart. Still no wakeup is lost (`ReadinessKept`), nothing is mixed (`NeverMixed`), everything that arrives leaves the queue (`Drained`), and user data leaves it into a caller's hands or with an error returned (`LossIsReported`). |
| `recv_shared` | Finding: two readers and a buffer smaller than a notification. |
| `connect_safe` | A fresh socket, both ways of connecting, every outcome, early data, restart, shutdown and abort, cancellation, lost notifications: `OkMeansEstablished`, `NoDataSwallowed`, `NoSilentLoss`, `CauseReported`, `SubscriptionRestored`, `ConnectEnds`. |
| `connect_reused` | Finding: an old outcome is taken for a new one. |
| `connectx` | Two threads connect a socket of either style to two peers that may connect themselves, while a reader reads, associations are closed or peeled off, and the mode changes between calls: `OkAfterBlockingMeansUp`, `TimedOutMeansWaited`, the id is that of the caller's own association (`IdOfOwnAssociation`), and the outcome is announced under it whoever reads it (`OutcomeAnnounced`). |
| `connectx_race` | Finding: another thread changes the mode. |
| `wire` | Address queries: `ResultIsSnapshot`, `CapacityBounded`, `EnomemMeansTooMany`, `QueryEnds`. Codecs: every field of a notification or report is the kernel's (`DecodedAsWritten`), RCVINFO is found and understood among timestamps, drop counts, NXTINFO and SNDRCV, and SNDINFO by the kernel (`ControlCarried`), option structures, event types, flags and single addresses are what the kernel expects (`OptionsCarried`), a timeout stays in force (`TimeoutKept`). |
| `send` | Two writers, tasks or threads, two peers on one send buffer: a message is sent once if its call returned `Ok` and otherwise never (`SentOnce`), no write readiness is lost (`SpaceNoticed`), a call of a task returns unless the buffer stays full for ever (`SendReturns`), and each call takes effect in one step and in order (`ImplementsSendQueue`). |
| `sockopts` | Builders and option methods while peers associate and calls fail: `OptionsAsAsked`, `SubscribedAsAsked`. |
| `sockopts_accepted` | Finding: an association in the accept queue keeps the old options (`AcceptedAsConfigured`). |
| `sockets` | Two tasks that accept, peel off and connect streams, three descriptors, two associations: `AsyncNeverBlocks`, `RcvInfoEverywhere`, `NoneStranded`, `AbortHonoured`, `QueueNoticed`. |

Three more configurations reproduce disagreements of section 5 and are no runs of
their own in `PROJECT.json`: `ConnectLeak.cfg` (module `Connect`, `OnlySubscribed`),
`WireCrowded.cfg` (`MCWire`, `AnythingElseFits`) and `SockOptsSubscribed.cfg`
(`MCSockOpts`, `AcceptedAsSubscribed`). TLC finds each of these violated.

Each property of a passing run has a mutant of the code (an operator such as `grow_unlimited`, next
to the definition it replaces) that breaks it.

### Bounds

- Messages of 1, 3 and 5 bytes against a scratch buffer of 2 and a cap of 3 give
  a notification that fits the caller's buffer, one that needs one more read,
  and one over the cap whose last chunk would fit again. Three messages let a
  notification stand before, between and behind user data. `recv_pool` uses one
  byte buffers and two byte messages, the smallest that can be torn.
- `connect_safe` queues at most five messages: CommUp, other notifications and
  two changes after it.
- `wire`: two families of different length, lists of up to two, and
  a limit of 50 that doubling from 20 does not meet exactly, so that the
  `min` in the code matters. Variable parts of 0, 1 and 4 bytes and cuts of 0, 1,
  2 and 7 bytes end a notification inside and between fields, and give a list
  of stream ids an odd byte. Time units are scaled (2 nanoseconds to the microsecond,
  6 microseconds to the second, 2 ticks to the second), and durations reach beyond
  the largest `time_t` and the kernel's largest timeout.
- `connectx`: two threads, two peers, two calls and two associations let two calls
  meet at one peer, a call meet an association of the peer's own, and a call meet
  a failed or finished association. Two is also what `IdOfOwnAssociation` needs for
  a wrong id to exist.
- `send`: a buffer that one message of length 2 fills, or two of length 1, so that
  full, half free and contended buffers occur within three calls; length 0 for `EOF`
  and `ABORT`; one cancellation.
- `sockopts`: two associations, one set up before and one after a call; two
  events of which one may be unknown to the kernel, so that a loop fails at its
  first or its second call; two calls, which suffice for one to overwrite, or to
  reach further than, another; two paths per association; sizes on both sides of the `i32` limit.
- `sockets`: two associations for one queue, a third descriptor free for the
  second accept, two tasks; one listener or endpoint opened from outside.

Deadlock is not checked where the environment may fall silent for good (nobody
sends, nobody connects) or a bound on messages or calls is used up.
`wire` checks it.

### Fairness

- `RecvPath`: the tokio driver fetches events (`driver_event`), and a reader that
  keeps calling takes its steps. Arrivals, shutdown and cancellation are not
  fair. Both are what running inside a tokio runtime means.
- `Connect`: the caller polls its future, and the kernel's INIT timer ends every
  handshake with one outcome or the other. Peers owe nothing.
- `Connectx`: the INIT timer ends every handshake, and the program has a task that
  keeps reading (the documentation of `SctpEndpoint` asks for one). Calls need not
  return: a blocking `connectx` without a timeout may wait as long as the handshake.
- `SendPath`: as in `RecvPath` for the driver and the tasks that write. Nothing is
  assumed of the peers: one that keeps its window closed may keep its association
  and the buffer for ever. `SendReturns` therefore says that a waiting call returns
  or the buffer stays full from some time on.
- `Wire`: a thread inside the query loop keeps running (`Attempt`).

## 4. Proofs

The theorems hold for every value of the constants that satisfies the named
assumptions: any number of tasks, peers, associations and messages, any lengths
and buffers. The assumptions say that counts and lengths are natural numbers
(`CapsAssumption`, `LensAssumption`, `BoundsAssumption` and so on), that buffers
are not empty (`ScratchAssumption`, `SndBufAssumption`; `Connect` has room for
one message, since a reused socket starts with one), that the special association
ids are not ids of associations (`AssocsAssumption`), that requests and addresses
are values of the crate's types (`RequestsAssumption`, `AddressesAssumption`),
that the query limit lies above the least capacity (`MaxCapacityAssumption`) and
that a tick is no shorter than a microsecond (`UnitsAssumption`).
Three groups of theorems have a hypothesis of their own; in each case a run in
section 3 is the counterexample without it.

Each proof shows an inductive invariant and derives the property from it. What
follows is what the property lacks to be inductive by itself.

### RecvPathProofs

- `TypeCorrect`: includes that the read offset lies inside the message at the head.
- `ReadinessIsKept`: for any number of readers. A reader may be about to clear the
  readiness, so `WakeupInvariant` adds that one that still may (its guard is fresh)
  found the queue empty after the last event, and whatever is there now has an
  event of its own.
- `EofMeansEnd`: inductive with `TypeOK`; it rests on user data being queued
  before the shutdown only, and on the end being reported from an empty queue.
- `LossIsAlwaysReported`: an action property; `TypeOK` suffices, since each step that
  moves the head either appends what it took to `log` or is `reassemble_desync`.
- `StreamsNeverMix`: holds for concurrent readers too. `MixInvariant` adds that what
  a reassembly has collected so far is already of notifications only.
- `ReassemblyNeverBlocks`, `NotificationsAreWhole`, `RecvImplementsQueue`: under
  `Unshared` (one reader, or buffers that hold every message; `recv_shared` shows
  why). `ReassemblyInvariant`: a reassembly is alone, the rest of its notification
  is at the head, `out` holds exactly the bytes taken unless the cap was exceeded,
  and outside a reassembly no notification is taken in part. The refinement maps
  `taken` to 0 while a notification is being reassembled.

### SendPathProofs

- `EachSentOnce`: `CallInvariant` ties each writer to the number of its call, so
  that no two writers have the same one and an unfinished call has not been taken.
- `SpaceIsNoticed`: as `ReadinessIsKept`, with free space in place of messages
  (`ClearsOnlyFull`).
- `SendImplementsQueue`: every step of `SendPath` is a step of `SendQueue` or a
  stutter under the mapping of section 2, from `CallInvariant`.

### ConnectProofs

`SetupInvariant` carries `StreamsAreEstablished`, `DataNotSwallowed`,
`LossIsReported` and `SubscriptionIsRestored`, on reused sockets and with lost
notifications. Its core is `OutcomeInvariant`: while `established` reads, the
outcome of the handshake is still ahead of it in the queue, with nothing in front of it
but what `established` skips, unless the kernel could not queue a notification. This
relates the association's state, which the environment changes, to a place in the
queue, and is why user data is never the first thing read. `SubInvariant` follows
the subscription through the builder's last step.
`CauseIsReported` assumes `~Reused`; `connect_reused` is the counterexample.

### ConnectxProofs

- `OwnIdReturned`: `HoldInvariant` says that a call that waits, or that has come
  back with `EINPROGRESS`, holds the id of the association it started until it
  returns, whatever becomes of that association; no hypothesis is needed.
- `BlockingOkMeansUp`, `TimedOutAfterWaiting`: under `~MidCall` (no
  `set_nonblocking` during a call; `connectx_race` is the counterexample).
  `ModeInvariant`: the flags that `connectx_error` reads are those the kernel saw.
  `CauseInvariant`: `EINPROGRESS` has no cause but the mode and the timeout, and
  `ETIMEDOUT` none but the last attempt.

### SocketsProofs

`Inv` carries `NeverBlocksTheRuntime`, `RcvInfoAlwaysOn`, `NothingStranded`,
`AbortAlwaysHonoured` and `QueueAlwaysNoticed`. `TaskInvariant` is the ownership
argument: a call holds at most one descriptor, nobody else has it, it is prepared
exactly as far as the call has come, and every descriptor that belongs to a call
belongs to one that will hand it over or close it. `AssocInvariant` and
`FateInvariant` say the same of associations; `AbortInvariant` that one whose abort
was asked for belongs to a stream whose linger option is set, through sharing, drops and
failures, so that the step that closes the stream aborts it (an explicit `shutdown`
may have ended it before, which the property allows); `ClearInvariant` is the readiness argument for accept queues.

### SockOptsProofs

`SettingsInvariant` carries `OptionsAreAsAsked` and `SubscriptionsAreAsAsked`. It
relates the kernel's representation of every option, for the defaults and for each
association, to what was asked for (`Agree`), so that both the conversions and the
scopes are covered; `LifeInvariant` adds that a `subscribe_events` under way has
subscribed to what it has been through. "Later associations" are those set up after
the call; for those accepted after it the theorems claim nothing.

### AddrQueryProofs and WireProofs

- `QueryIsBounded`, `QueryGivesUpLate`: `InProgress` (no result while the loop runs)
  is the strengthening. The bound is on the doubling: a capacity that is larger to
  begin with stays as it is.
- `QueryIsSnapshot`: for lists of any length. It rests on the round trip of a single
  address (`ReadsBack`, for both layouts) and on that of lists: what
  `read_addr_list` reads from a packed list, and what the kernel reads from one that
  `bindx` packed, is the list. The recursive functions are handled by an induction over sets of
  numbers (`SetInduction`, from the well-foundedness of `<`): `Packs` states
  what the packing of the first `n` addresses is; it exists, is unique and is a
  prefix of the next, and after `n` turns the reading loop is at its end (`ReadTurns`).
- `TimeoutsAreKept`: for all units and durations. The kernel rounds microseconds up
  to ticks and ticks down to microseconds; `UpAndDown` and `WholeSeconds` show that,
  with ticks no shorter than a microsecond, the way back loses less than a
  microsecond and gains at most a tick and a microsecond, and that a short timeout does not become 0.
- `QueriesAreKept`: `WireSpec` implies the specification of `AddrQuery`, so the three
  results hold in the composition.
- `NotificationsAndReportsAreDecoded`, `OptionsAreCarried`, `ControlIsCarried`: for
  every address, length of a variable part and cut. They are inductive by
  themselves: each call's step leaves a result equal to what it should be (`Fine`),
  the other steps leave none. The work is in the layouts. A structure is a list of
  members, and the ends of the members are a recursive function: `EndsIs` shows
  that it has the value its definition says (`StepsExist`, by `SetInduction`), and
  `TableIs` that a table of offsets which agrees with the list step by step gives
  the place of each member. `ImageIs` puts every member's bytes there. With a
  table for the crate's structure and one for the kernel's, `FitsRead` and
  `RawIs` conclude that what one reads is what the other wrote.
  - Notifications: for each of the 13 types, parse's offsets and minimum are those
    of the kernel's members behind the header (`LaidOut`, one lemma per type). A
    member that ends inside the buffer is read whole (`FixedRead`), the last one
    as far as it is there (`VarRead`), and below the minimum `parse` refuses. A
    code of no type keeps its flags and all bytes (`UnknownParsed`).
  - Reports: `sctp_assoc_stats` has another layout for each width of pointers and
    alignment of 64-bit integers; `StatsFit` covers them.
  - Options: for each option, sizes, alignments and offsets agree and the setter
    and the getter use the member of the parameter's meaning (`Agreed`, one lemma
    per option); `SetIs` and `GetIs` do the rest, the zeroes included.
  - Control messages: `CmsgRead` shows that `Iter::next` finds a message in front
    of anything, padded as the kernel pads it; `ControlIs` that the five
    messages of `Usual` fit into `RCV_CMSG_SPACE`, so that they are attached in full and in
    order (with `Crowding` as well they do not: `WireCrowded.cfg`); `Walked` that the loop passes every message within the turns that the
    length of the buffer allows. RCVINFO is the only one that is taken.
- `IterationStaysInside`: for every control buffer, well formed or not, whose length
  field is a number: what `Iter::next` returns and what it leaves are disjoint parts
  of the buffer, and at least a header less.

### Only model-checked

`Drained`, `ConnectEnds`, `OutcomeAnnounced`, `QueryEnds` and `SendReturns` are
liveness properties under fairness, which TLAPS does not support. The others of the
passing runs, invariants, action properties and refinements, are all stated by a theorem.

## 5. Findings

All are disagreements between code and documentation. The first four are runs, the
others have a configuration that shows them.

1. `recv_shared`: `reassemble_notification` (`src/src/imp/kernel.rs:404`) makes
   several `recvmsg` calls; a second reader can take a piece between them. The
   docs say each call receives a whole message, concurrently too.
2. `connect_reused`: `established` (`src/src/net/common.rs:130`) does not compare
   association ids, so that the unread outcome of an earlier connect ends the
   next one.
3. `connectx_race`: `connectx` (`src/src/imp/kernel.rs:281`) reads
   `O_NONBLOCK` after the kernel returned; a concurrent `set_nonblocking(true)`
   turns a timeout into `Ok`.
4. `sockopts_accepted`: the option methods of a listener (`src/src/net/common.rs:408`
   and those below) are said to apply to associations accepted after the call; the kernel
   copies the options when an association is set up, and one that waits in the accept
   queue keeps the old ones.
5. `SockOptsSubscribed.cfg`: the same of `subscribe_event` and `subscribe_events`
   (`src/src/net/common.rs:451` and 460): an association that waits in the accept queue
   is not subscribed.
6. `ConnectLeak.cfg`: the builder withdraws its temporary subscription after
   `established` returned (`src/src/net/stream.rs:268`); what the kernel queued in
   between (the peer aborts or restarts right after CommUp) is delivered to a caller
   who did not subscribe. `src/src/net/stream.rs:113` says "Notifications arrive only
   for subscribed event types".
7. `WireCrowded.cfg`: `RCV_CMSG_SPACE` (`src/src/imp/kernel.rs:70`) is said to have
   "slack for SCTP_NXTINFO or anything else the kernel decides to attach".
   `SO_TIMESTAMP`, `SO_TIMESTAMPING`, `SO_RXQ_OVFL` and NXTINFO take 152 of its 192
   bytes, RCVINFO needs 44 and is cut; `recv_msg` then reports none. The crate does not
   switch these options on; a descriptor taken over by `from_raw_fd` may have them.

## 6. Not modelled, and the plan

Not modelled: `imp/stub.rs` (every constructor fails, the type is uninhabited),
`lib.rs` and `net/mod.rs` (re-exports). Of `sys.rs` the option numbers, and the
structures and constants that nothing in the crate uses. Getters of a single
integer (`is_listening`, `style`, buffer sizes, `take_error`) have no behaviour
beyond their system call; where a decision depends on one it is part of the action.
`sctp_peeloff_arg_t` appears as the first two members of the structure that holds it.

The models meet in their assumptions, and are not composed into one state machine:
`Connect` takes from `RecvPath` that what arrives is read, `Sockets` from `Connect`
and `Connectx` that a connect ends with an association that is up or failed,
`SendPath` and `SockOpts` from `Sockets` that a descriptor belongs to one handle.

What a later version could add, in this order:

1. Action properties: the readiness of `RecvPath` and `SendPath` is cleared only by
   the step that saw `WouldBlock`, an association's end is final in `Sockets`.
2. A composition of `Connect` with `RecvPath`, in place of the assumption that what
   arrives is read.
