# vlr-service: a verification project

vlr-service is a gateway. Clients connect over TCP and send requests about
subscribers (state query, reset, activation, deactivation, IMSI query); a pool of
worker threads, one per logged-in session with the HLR/VLR device, runs each
request as a command of the device's command line and sends the result back on
the client's socket. The program has no tests; what it promises is in its code,
its messages and its comments.

This directory holds TLA+ modules of its parts, the configurations that
model-check them with TLC on small instances, and TLAPS proofs of what nearly all of them
guarantee for every instance. `PROJECT.json` lists the components, the runs, the
source lines behind every definition, the hazards and the theorems.

## The system

| Component | State | Operations | Module |
|---|---|---|---|
| Connection pool (`ConnectionPool.cpp`) | request queue, `stopFlag`, lock and condition variable, threads, connectors | construct, `Initialize`, `PushRequest`, `WorkerThread`, `ProcessRequest`, destruct | `ConnectionPool`, abstractly `RequestDispatch` |
| HLR connector (`HLRConnector.cpp`) | socket, `socketConnected`, `loggedInToHLR`, text collected | connect, log in, send a command, collect its answer, restore, keep the dialog alive | `HLRConnector` |
| Telnet filter (`HLRConnector::TelnetParse`) | buffer, index, command being collected | filter one buffer in place, refuse options | `TelnetParse` |
| Server loop (`Server.cpp`) | client sockets, buffer, shutdown flag | select, accept, receive, cut into packets, reject, push, close; respond | `Gateway` |
| Request execution (`ClientRequest.cpp`, `ConnectionPool::ProcessRequest`) | in each request its type, subscriber, result | validate, ask the VLR, then perhaps the HLR, respond | `RequestExecution` |
| Log writer (`LogWriter.cpp`) | message queue, open file, its date, `stopFlag` | write, the write thread, destruct | `LogWriter` |
| Response parser (`ResponseParser.cpp`) | none | turn the device's tables into a result | `ResponseParser` |
| Configuration (`Config.cpp`) | parameters | read, validate | `Config` |
| Process (`vlr-service.cpp`) | the globals; on the host the pid file and the port | start, signals, stop | `Service` |
| `ClientConnection` | none | none: nothing uses it | no |

How they interact. The main thread runs `Server::Run` and calls
`ConnectionPool::PushRequest`; the pool's workers pop raw `ClientRequest*`
pointers, call their own `HLRConnector`, and `send` on the socket number kept in
the request, which the main thread may have closed meanwhile. All threads push
on the log writer's queue. SIGINT and SIGTERM set a flag that the select loop
reads; on the way out the pool is destroyed, then the server, then the log
writer. Three things cross component borders: descriptor numbers (client sockets and
device sockets come from the same table); SIGPIPE, which no thread handles
and which ends the process; and the handled signals, which run in any thread and, installed without
`SA_RESTART`, make the `select` or `send` it is in fail.

What makes each hard, and what makes it correct:

- **Pool.** The condition variable is waited on without a predicate and signalled
  without the lock, so signals get lost. Correct: a request lives in one place
  at a time, in order; it is stranded only by its own lost signal; whoever is
  awake drains the queue; shutdown serves what was signalled, and ends.
- **Connector.** TCP cuts text anywhere, the device is slow, talks on, warns, logs the
  session off, closes or resets, and the connector learns of it only from a later
  call. Correct: it says to the device only what the session calls for, each
  answer belongs to its command, every call returns unless the device itself never ends, and a
  dead session is replaced.
- **Telnet filter.** It deletes from the buffer it scans while its index goes
  back, to -1 at the start. Correct: text survives, each option is refused once, it ends.
- **Gateway.** Descriptor numbers are reused while workers still hold them; packets
  are cut; descriptors run out; a `send` blocks. Correct: the list of clients is exactly the open
  client sockets, a response goes to whoever asked, nothing received whole is lost.
- **Request execution.** A command given up is answered all the same, perhaps as the
  next command's answer; the subscriber moves between two questions; the parser copies a
  field without its end. Correct: what a client is told was true while it waited.
- **Process.** Every step of the start can fail, a signal can come at any of them, and
  processes share a pid file and the host's ports. Correct: a serving program is the one configured, on
  the port configured, the file tells who serves, a stop is not lost.
- **Log writer.** Stamping and pushing are two steps, days change, files fail.
  Correct: right file, each thread's order, nothing lost at the end but what a
  failed file took.

## The modules

### RequestDispatch: what the pool promises

Requests are submitted, taken in that order by one worker each, and given one
final fate: answered, unsent or discarded. `pending` is the queue, `serving[w]`
what worker w holds. `ConnectionPool` implements it (`DispatchSpec`, with
`pending <- incomingRequests` and `serving <- request`), and `Gateway` uses it in
place of the pool: its submit, take and finish steps are `RequestDispatch`'s own
actions. `Gateway`'s workers add the steps of the system that the pool does not see,
the response's `send` and the device's reconnection.

### ConnectionPool

One action per statement that other threads can come between. `PushRequest` is
`Push` and `NotifyOne`; the destructor is `Stop`, `NotifyAll`, `Join`; `WorkerThread`
is `LoopTest`, `AcquireLock`, `ReleaseLock` (for both `wait` and `unlock`), `Pop`,
`CheckAge`, `Execute`, `ExecuteHLR`, `Respond`. `NotifyOne` wakes one sleeping
worker, or none and then the request is recorded in `missed`. Waking up means
going for the lock again. `Age` makes a request too old. A connector that cannot log in, or
a port that is taken (`InitializeServer`), makes main call `exit()` after threads were
started (`InitializeFails`); the threads go on waiting until the process is gone. The history
variables are `fate` and `missed`.

Abstracted: what the device and the parser answer is a choice among the results
they can return; the lock-free queue is a FIFO, whose allocation failure is left
out; that the destroyed globals are undefined behaviour to a thread inside `exit()` is left out. A signal
stops the program only between pushes, as `Stop` says: `main` leaves `Server::Run`
first.

### HLRConnector

The connector, a TCP connection and the device in one module: `inbox` is the text on
its way to the connector, `todo` what is on its way to the device, `sock` the state of
the socket. Text is a sequence of half phrases, since `recv` may return any prefix
and `strstr` finds a phrase only if both halves are in the buffer it searches: the
login searches each `recv` alone, the response searches what has accumulated. The questions of
the login are one kind, END and EXECUTED are one, the two denials are one (either side of SUCCESS), as the code
treats the members of each alike.

`Send` has the three outcomes that the kernel gives: sent, an error, and SIGPIPE;
`Recv`, `AtEof` and `RecvFails` are text, a return of 0 and an error. `CreateSocketAndConnect`
resets the connection whole. A negotiation is one piece which `Filtered` takes out of each chunk
(its k-th piece is the k-th kept, counted with `Cardinality`, which the proofs can follow and `SelectSeq` is not);
its refusal is a `send` whose result nobody looks at (`AfterParse`, `RefusalKills`), and a chunk of nothing
else makes the command fail (`ResponseNegotiates`). A `recv` of 0 during the login changes nothing, so no action
stands for it: the login is stuck there, and the liveness properties see it.

Text without any phrase is not put into `inbox`: `talking` says that the device sends some all the time. The
connector then never times out (`Silent` needs `~talking`), and its loops go round without a change, but for one more
escape after an `ORDERED` (`ResponseTalk`). A handled signal may interrupt the `select`: its -1 enters the branch of a ready
socket, `recv` has nothing, and the code takes that error for a broken connection. A login attempt fails
(`LoginInterrupted`, only in a reconnection, as the handlers come after the first login), a command is given up and the
session kept (`ResponseInterrupted`).

The device is external code, modelled from what the connector expects of it; it
may be silent for ever, talk for ever, answer late, ask, or deny and ask, again and again, negotiate, warn, log off, close
and reset. `MaxInput` bounds only the escapes that a talking device leaves unread.

### TelnetParse

`TelnetParse` byte by byte. The input is a sequence of items, each a byte of text
or one complete Telnet command, so that the expected text and the expected replies
are known item by item; `FlattenSeq` of the input is what arrives, in two `recv` calls cut at any byte
(`NextRecv` starts afresh, as the function's variables are local). `i` and the lengths follow
the code's integers. The code's `--i` after a deletion and the loop's `++i` are one assignment.

### Gateway

`Server::Run` with its list of client sockets, the descriptor table (`owner`), the
clients' connections, and workers which hold a descriptor number inside a request.
The main thread's steps are `Select`, `ProcessIncomingConnection`, the scan over the
list (`ScanSkips`, `ScanReceives`, `ScanCloses`, `ScanEnds`) and the parse loop
(`ParseAccepts`, `ParseRejects`, `ParseError`, `ParseEnds`). A `select` that a signal interrupts
changes nothing and is no action. `Send` is what the kernel makes of a `send`, the server's of a rejection and a worker's
of a response: sent, an error, or SIGPIPE. As `accept` leaves the socket blocking, it has no outcome on a link that is `"full"`, whose
client reads no more (`ClientStopsReading`): the thread stands still (`Blocks`) until the client hangs up or a
signal interrupts the send (`SendInterrupted`, `RespondInterrupted`), whose handler calls `Server::Stop` first. A worker's device socket is
closed and opened in two steps (`HLRConnector::Reconnect`), and the lowest free number goes to
whoever asks first, as POSIX has it. A packet is two halves, so that a `recv` may cut it.

Abstracted: `ValidateAndSetRequestParams` is the set `Commands` of valid requests;
`CPSPacket` (not in the repository) is external and parses a buffer that starts with a
whole packet; a partial `send` and the table of client addresses, which only log lines read, are
left out.

### LogWriter

`Write` is `Stamp` then `Push`; the write thread is `Top`, `Pop` and one of
`WriteSameFile`, `WriteNewFile`, `OpenFails`, which are `SetLogStream`'s three ways through with
the write that follows. The time is the day, which is all that chooses the file. The sleep on an
empty queue is the wait until the thread's next step.

### ResponseParser and RequestExecution

A response is a sequence of the things the parser looks for: headers, words, numbers of a
subscriber, addresses, empty columns. Each parsing function is an operator with the source's
name that returns its result and the request with the fields it set; a pointer moved past a
substring is `After`, over delimiters to the next field `Fields`. `ParseVlrAddr` takes, beside the field, `tail`: what lies behind it in the
uninitialised `vlr[30]`, which may end the string, run on with digits or with a dash and digits, or be
something else.

`RequestExecution` runs one request after the other on one session: `Accept` and `Reject` are
`ValidateAndSetRequestParams`, `Ask` and `AskHLR` the two calls of `ProcessCommand`, `Response`,
`ResponseHLR`, `Refused`, `Timeout` and `Reset` their ends, `Respond` the packet of
`SendRequestResultToClient`. The device acts on `commands` in order, as late as it likes, and
its answers are the tables quoted in `ResponseParser.h` about the place where the subscriber is at that
moment; `Move` moves him. One `recv` takes any number of answers: `ProcessDeviceResponse` takes what is there, and
the `recv` before a command drops it. The history variables say where each subscriber has been during the
request (`seen`), who has come home during it (`arrived`), whether the device executed a command of this request (`executed`), whether an older answer was to
come when it asked (`stale`), and what the last command heard.

### Config and Service

`Config` says what one line does to the parameters (`Throws`, `Set`) and what `ValidateParams` accepts. A
line is a name and a value; the numbers are taken modulo 2^16: the count by the assignment to an
`unsigned short`, the ports by `htons`, all that they are read for (the members in between are wider, which
nothing shows). `Service` is `main`, one action per call that can fail, in each of several
processes: `ReadLine` (any line, or the end of the program), `ValidateParams` when the file is read, `WritePid`, `InitializeLog`, `InitializePool`, `InitializeServer`, `InstallHandlers`,
`CallRun`, then `RunReturns`, `DestroyPool`, `RemovePid`, `DestroyServer`, `DestroyLog`. A failure goes, by
`exit()`, straight to the destructors of the globals, a log file that cannot be opened to the end of
`main`. `Signal` comes at any step, and kills until the handlers are installed. `InitializeServer` binds the port that the
process's own configuration names, which fails if another process has it; for port 0 the kernel chooses one (`Ephemeral`). `RunBlocks`
and `RunUnblocks` are a `send` of the server loop that blocks: in `"blocked"` the stop flag is not looked at. The pool is a
number of sessions here, and `ConnectionPool` models what they do.

## The runs

All are small enough for minutes and large enough for the case they are about.

| Run | Instance | What it shows |
|---|---|---|
| `pool` | 2 workers, 2 requests, 2 types; fairness | `LiveRequestsInOnePlace`, `OnlyMissedWakesStrand`, `ShutdownDropsOnlyMissed`, `ExitFindsPoolIdle`, `ResponseHasResult`; `DispatchSpec`, the refinement; `AwakeWorkerDrains`, `CleanShutdownCompletes` |
| `connector` | 2 connections, 2 commands, 2 login attempts, 2 inputs unread while the device talks, 1 notice or negotiation; fairness | `SessionDiscipline`, `AnswerIsForCommand`, `CommandReturns` |
| `gateway` | 2 clients, 3 packets (one a valid request), 1 worker, 2 descriptors, 1 reconnection; fairness | `SocketsAreClients`, `ResponsesReachAsker`, `LostOnlyByCut`, `EveryClientIsRead` |
| `request` | 2 subscribers, 3 requests of 3 types, 4 places, all tails, 1 move or lost connection; symmetry | `ReportWasTrue`, `SuccessMeansDone`, `HLRReportIsOfSubscriber` |
| `service` | 2 processes, files of any lines out of 12, in any order and number, 2 ports; fairness | `SessionsAsConfigured`, `ServesWhereConfigured`, `PidFileTellsTruth`, `StopFreesPort` |
| `log_writer` | 2 threads, 3 messages each, 3 days; fairness | `RightFile`, `ThreadOrder`, `StopDrains`, `StopEnds` |
| `telnet` | all inputs of up to 4 items, cut at any byte; fairness | `TextAndRefusals`, `ParseEnds` |

Why the bounds are enough. Two workers are what it takes for one to be woken while the
other is between the `stopFlag` test and its sleep, and two requests for one to be in
hand or queued while another is pushed; the proofs cover any number. Two connections and two commands let an answer, a
notice or a time-out of one command meet the next, on the same connection and on a new one; questions, denials and
text without a phrase are not bounded.
With two descriptors for a device and two clients, `accept` fails for the last client, and so may the reopening of the
device's socket; one reconnection lets a client's number become the device's and the reverse; three packets let a
response, a rejection and a third packet be under way on reused numbers. Three requests
let two late answers meet a third; the four places are one the VLR answers for, one that only the HLR
knows with an address, one purged and one unknown, and one move takes a subscriber from any to
any between the two questions. The lines let a later one overrule an earlier or
fail; counts lie in and beyond the limits and the width, ports are 5200 by default, 5200 by their low 16 bits and 0, so that two processes may or may
not want the same one; two processes are enough for one to disturb another's file and port. Three days give
messages of an older day behind those of a newer. Four items let a Telnet command
stand at the start, between texts, after another command and at the end, and the cut fall inside any of them.
Deadlock is not checked: each of these programs stops (destroyed, killed, out of requests, all messages written,
buffer read), and in the connector's run a login on a closed connection stands still.

What `request` leaves to its premises: with an older answer still to come (`stale`) a client may be told
the state of another subscriber, or that a command was done which was not; `HLRReportIsOfSubscriber` is what
is left then. With a tail that looks like more of the field (`~CleanRead`), the address may be wrong, and `TypeOK` says that only then
it may be one that no VLR has.

### Where the code does not do what it says

Five runs expect a violation; each is a finding in `PROJECT.json`.

- `pool_join_hangs`: a worker tests `stopFlag`, main sets it and calls
  `notify_all`, and the worker falls asleep: `join` never returns. `CleanShutdownCompletes`
  says exactly which workers make the difference.
- `connector_login_spins`: a device that closes the connection during the login
  keeps `MakeAttemptToLogin` in its loop, as a `recv` of 0 is neither an error nor text;
  `maxLoginAttempts` does not help. `CommandReturns` has this among its exceptions.
- `connector_stuck`: after a reconnection whose login failed, `socketConnected` is
  still set, and later commands fail without a reconnection until `recv` reports an error or a log-off.
- `connector_sigpipe`: the handler means to survive SIGPIPE, but it is not installed for
  it.
- `telnet_zero`: an option numbered 0 is replaced by a space before the command sees
  it, so it is not refused and the next text byte is taken for the option.

Other things the properties say by their exceptions, as they are what the code does:

- `CommandReturns`: beside the close during a login, a call lasts as long as a device goes on asking, since a question is
  answered with `continue` and a denial before it in the same chunk is not counted, and as long as a device goes on sending text
  without a phrase, since each chunk starts the wait of `select` again.
- `EveryClientIsRead`, `StopFreesPort`: a client that reads no more and does not hang up blocks the main thread in the `send`
  of a rejection; no other client is read, and the stop flag is not looked at.
- `StopFreesPort`: the pool's destructor may join for ever (`pool_join_hangs`), and then the port, which the server's destructor
  closes, stays bound.
- `ReportWasTrue`: a subscriber who is away when the VLR is asked and home when the HLR is asked is told to be roaming at the
  gateway's own VLR, which he never was.
- `TypeOK` of `RequestExecution`: a VLR address may be garbled by what the uninitialised `vlr[30]` held behind the field.
- `PidFileTellsTruth`: two instances alive together leave the pid file wrong, as the one that starts writes it before it knows
  that the port is free and the one that stops removes it unread.
- `SessionsAsConfigured`, `ServesWhereConfigured`: a `CONNECTION_COUNT` of 65537 is accepted and taken for 1, a `SERVER_PORT` of 70736
  for 5200, and 0 for whatever port the kernel has.

## Fairness

- **Pool** (`Fairness`): weak fairness for each thread's own steps, and strong
  fairness for acquiring the lock, which others take and release repeatedly but hold for a
  few instructions only. Device calls and the `send` of a response are taken to return; `CommandReturns` of `HLRConnector`
  says when the first do not, `Blocks` of `Gateway` when the second does not: a worker it happens to is lost to
  `AwakeWorkerDrains` and `CleanShutdownCompletes`. No fairness for pushes, the stop signal, spurious wake-ups or ageing.
- **Connector**: weak fairness of the thread: `select` has a time-out, `connect` returns, and `send` does not block, as the
  socket is set to non-blocking once connected. The device owes nothing and no signal need come. What the device can do
  to keep a call from returning is not excluded by fairness but named by the property.
- **Gateway**: weak fairness of the main thread alone. `EveryClientIsRead` holds with
  workers and clients that never move. A `send` that blocks has no step, so fairness does not end it.
- **Service**: after the start, main runs on (`RunsOn`), and `Run` comes back to its flag unless a send blocks: strong fairness of `RunReturns`,
  as a scan sends to finitely many clients and then the test is reached. Neither the end of a blocked send nor that of the pool's
  destructor is taken for granted. No fairness for starts, logins and signals.
- **Log writer**: the write thread runs on, and a thread that has stamped a message pushes it.
- **Telnet**: the loop runs on.

## What is proved

With TLAPS, for any sets of clients, workers, requests, packets, threads, processes and lines and any bounds, from the
named assumptions of the modules: special values are not members of the sets they are special to, and there is
a worker (`ValuesAssumption`, `WorkersAssumption`, `SetsAssumption`, `NobodyAssumption`); the words a table may have in a column are none of the addresses
there (`NamesAssumption`); bounds are numbers (`LogAssumption`,
`BoundsAssumption`); a number in a configuration line is one or is not (`LinesAssumption`); the ports the kernel chooses are ports
(`EphemeralAssumption`). In each module
no property is inductive alone: `IInv` is the conjunction that is, and the argument is what it adds.

`ConnectionPoolProofs`. `IInv` adds
`LockDiscipline` (the holder of the lock is the worker between acquiring and releasing
it), `HandDiscipline` (a worker has a request exactly from pop to answer), `MainDiscipline` (main
stops between pushes, is done only when every worker has exited, and has pushed nothing when it calls `exit()`) and
`ResultBeforeRespond` (the second query too runs with a result already set). The heart is
`OnlyMissedWakesStrand`: a worker leaves the draining states only by an
empty pop, when nothing is queued, and a request joins the queue either while being pushed, or
signalled to a worker that then is draining, or missed. From `IInv` follow
`LiveRequestsSafe`, `StrandedWereMissed`, `ShutdownServesHeard`, `ExitIsIdle` and
`ResponsesHaveResult`; `PoolImplementsDispatch` maps every step of the pool
to a step of `RequestDispatch` or a stutter.

`GatewayProofs`. `ListIsClients` and `OneFdEach` tie the list to the descriptor table at every step of the scan, so that
a number on the list is an accepted client's and an accepted client has one number on the list (`ListIsExact`).
`HalvesAreSenders`, `HalvesOnce` and `UncutIsFramed` say where the halves of packets are: with their sender
or in the buffer, none twice, and in whole packets until a `recv` cuts; from them a packet is handled once and
lost only by a cut (`OnlyCutsLose`). `LiveHoldsSocket` is the hard part of `ResponsesGoBack`: a live request
holds its client's descriptor *until that client is disconnected*, after which the number may be anybody's.

`HLRConnectorProofs`. `SessionDiscipline` speaks of what is on its way to the device, but depends on what is on its way back:
`LoginFits` says that a question is on its way, or its answer, never both, and that nothing a device says before it accepts the login
reads as an end of one; with it a login attribute cannot reach a session that is logged in,
over any number of reconnections (`SessionIsDisciplined`). `CommandFits` follows a command through `todo`,
`ordered`, `inbox` and `hlrResponse`: `OneReplyDue` says that exactly one of them accounts for its reply, and
`NothingDue` that between commands none does; a phrase cut by TCP is two pieces of one reply, which are nowhere twice, so that
what `strstr` finds is this command's (`AnswerMatches`).

`LogWriterProofs`. `TypeInv` adds that the thread holds a message exactly between pop and write
and that the open file, if any, is the one `m_logFileDate` names: that is why
testing both the date and the open stream is needed after a failed open. `OrderInv` orders what is written before
what is in hand, before what is queued, before what is stamped, thread by thread. `DrainInv` says where each message made
is. The theorems are `WritesRightFile`, `WritesInOrder` and
`StopLosesNothing`.

`ServiceProofs`. `CountInLimits`, `NumbersAreConfigured` and `PoolGrows` follow the count from its line through 16 bits and the
validation to the threads (`SessionsFit`). `NumbersAreConfigured` says that each number kept is the file's last one, cut to 16 bits, `PortIsBound` what a
process between bind and close is bound to, and `PortIsOwned` that nobody else is, so that each serves where its file
says and no two on one port (`PortIsAsConfigured`);
`AloneIsAlone` and `PidFileIsOwned` give `PidFileIsTrue` for a process that was always alone.

`RequestExecutionProofs`. What a worker reads is any number of answers run together, some of them another subscriber's and late, so
the typing says what a text of the device is in a form that stays true under concatenation: `Texts` are sequences of the
device's tokens in which the columns of a translation are followed by a full line (`ImsiColumnFits`), and a single answer (`DeviceTexts`) has
a table of the VLR or of the HLR, not both. Of each parsing function a lemma says what it can return for *any* such
text (`VLRParse`, `HLRParse`, `VlrAddrParse`, `ImsiParse`, together `Parsed`), by following `After` and `Fields` through it; from them a response
never has a result, an IMSI or an address left as the constructor made it, and its address is one of a VLR unless the tail looked like more of
the field (`TypeCorrect`); and `HLRAnswersFit`. The second invariant is `OwnAnswer`: a request that asked
with no older answer to come has, until it is answered, its own command with the device, or one refusal, or one answer of its own to that command about a place where its subscriber
has been since the request came; `SeenPlaces` and the histories carry it through moves. For the one report that was never true,
`AskedWhenAway` remembers that a question to the HLR follows an answer given when the subscriber was away, and `Moved` that
if he is at home afterwards he has arrived. Then what the parsing functions do on the
tables themselves (`VLRReads`, `HLRReads`, `TranslationTells`) gives `DoneWhatIsReported` and
`ReportsWereTrue`, for any subscribers, addresses and places.

`TelnetParseProofs`. That the index stays in the buffer needs only that a command is collected from bytes behind it
(`IndexInBuffer`, for any options and codes). What the filter leaves needs to know where the loop is in what the device sent: `At(n, k)`, the inductive
invariant, says that `n` items and `k` bytes of the next are behind the index, that the buffer behind them holds the rest of the stream up
to the cut, that `text` and the buffer before the index hold what those items should leave followed by those `k` bytes, and that `getrq` is just these
bytes, or, behind the cut of a spoiled command, nothing. Each step leads to the next item or one byte further, for any number of items cut
anywhere; the expected output is a fold (`FlattenSeq`), which `FlattenStep` takes one item at a time. Two results assume
`OptionsFit`: option 0 is the divergence that `telnet_zero` shows, and the second half of a negotiation of
option 255, if that byte is an `IAC`, begins a command, as the second half of a doubled `IAC` does, which `Regular` excludes.
With it, `TypeCorrect` and `TextRight` are the two invariants of the `telnet` run.

`SequenceLemmas` holds what these proofs need to know of sequences (what `Append`, `\o`, `Tail`, a first part and a flattened sequence of sequences hold,
how their ranges combine, and that what is joined can be shortened from behind) and of numbering a finite set.

Only model-checked: all liveness (the prover handles neither fairness nor `ENABLED`) and the refutations.

## What is not modelled, and why

- Buffer sizes (`hlrResponse`, `recvBuf`, `vlr[30]` itself, `FD_SET`): no model counts bytes, the hazards say
  where it bites.
- Wording and logging: `StripHLRResponse`, descriptions of errors, `DumpAllSettings`, `DumpResults`, log levels.
- Cutting a configuration line into name and value.
- Static destruction with threads running (`exit()` after a failed start): undefined behaviour;
  `ExitFindsPoolIdle` says that the threads have nothing to do then.
- `CPSPacket`, the lock-free queue, the kernel and the device are not in the repository; each is modelled from how the
  code uses it.
- `ClientConnection`: unused. The Windows branches of the sockets code: the models follow the POSIX build.

## Plan

Done: every component that keeps state is modelled, and of each the invariants and action properties that its
passing runs check are proved, liveness aside.
