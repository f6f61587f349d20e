# netFlow_tool in TLA+

This directory models `netFlow_tool`, a Windows network monitor: a Rust core
captures packets with WinDivert, attributes them to processes and publishes a
snapshot once a second; a Go program starts the core, polls it over a named pipe
and shows the figures in a terminal and in a browser. The modules are translated
from the source under `src/`; line numbers below refer to it.

Contents: 1 the system, 2 the modules and how they correspond to the code,
3 the runs, 4 fairness, 5 the proofs, 6 what the model leaves out, 7 known
disagreements between code and text, 8 the plan.

Run a check with `tlc -config MCDailyUsage.cfg MCDailyUsage`, a proof with
`tlapm DailyUsageProofs.tla`. `PROJECT.json` maps every definition to its lines.

## 1. The system

| component | state it keeps | operations | talks to |
|---|---|---|---|
| capture thread `divert/capture.rs`, parser `divert/parser.rs` | WinDivert handle, two counters | recv, parse, `try_send` | bounded channel to main; `running` |
| main thread `main.rs` | loop, `batch_count`, `processed_count`, `last_snapshot` | drain, once a second roll over, snapshot, publish, flush; at the end join | channel, `latest_stats`, `latest_history` (ArcSwap), store, aggregator, PidMapper |
| pipe server thread `IPC/pipe_server.rs` | one pipe instance | create, connect, read a line, answer, disconnect | client; the two ArcSwaps; `running` |
| daily usage store `stats/daily_usage.rs` | current day and its bytes, history, `dirty`, `last_flush`; `daily_totals.json` and its `.tmp` | load, record, maybe_rollover, maybe_flush, flush_now | main thread only; the disk |
| flow aggregator `stats/flow_stat.rs` | an entry per process number | record, snapshot | asks PidMapper who is alive |
| PidMapper `process/pid_map.rs` | connection indexes, names, paths, categories, service pids, running and parent pids, each with its own age | lookup, get_process_name, classify_pid, maybe_refresh_tables | Windows tables, service manager |
| pipe client `ipc/client.go` | connection, mutex | sendRequest, readResponse, deadlines | server |
| statistics service `service/stats.go` | stats, history, last errors; samples and flow snapshots | poll, pollHistory, recording, aggregation | client; TUI; web |
| launcher `core/launcher.go` | `cmd`, `owned` | Start, Stop, Detach, pipeExists, waitForPipe | the core process; the pipe name |
| UI process `main.go` | which deferred calls are pending | start, run, quit, restart | launcher, client, TUI, web |
| terminal UI `ui/model.go`, `tree.go`, `view.go` | page, menus, sort, filter, selected parent | Update, buildTree, View | service |
| web server and app `web/server.go`, `App.jsx` | web sockets; page state | bootstrap, history, push | service |
| token bucket, injector, control service | not wired in | | nobody |

What is hard about it, and the properties that make each part correct:

* **Threads that wait for the outside.** Each of the three threads sees `running`
  only between two waits, and each wait ends by something outside the program.
  Correct: a stop ends the process, a dead capture thread is noticed, a second that
  passed is published, and no packet is lost or counted twice between the counters
  of different threads.
* **A core that is killed.** The launcher ends it with `Process.Kill`. Correct:
  the file is never torn, never falls behind what it once held, and a store that
  says it is clean is.
* **One pipe instance, several UIs.** A probe is a connection; a busy pipe and no
  pipe look alike; the owner of the core may hand over without saying so. Correct:
  one core, one client per instance, a start that ends, an exit that ends the core.
* **Answers without numbers.** After a missed deadline the same connection is used
  again. Correct: what is shown belongs to its kind, never goes back in time, and
  no poll hangs.
* **A screen over rows that change.** Every second the processes, their order and their
  parents may be others. Correct: a key acts on a row that is on the page, the
  selection does not jump while its row is there, and no process is listed twice or
  lost.
* **Caches keyed by reused numbers.** Correct: what is cached for a number is, after
  a stated time, the truth about its present owner; counters are neither lost
  before they were reported nor kept for ever.
* **Tables that lag behind the sockets.** A packet is credited by an index read up to half
  a second and a round of the loop before. Correct: it is credited with its size to whom
  the index names, to the present owner once nothing has moved for a second, and to
  nobody rather than to somebody else when a table could not be read.
* **Two views of the same samples, on two ways to a page.** Chart and averages are
  computed apart, under two locks, and reach the browser by bootstrap and by push.
  Correct: both speak of the same samples, and in the end the page shows the latest.

## 2. Modules

| module | models | composed with |
|---|---|---|
| `UsageLedger` | what the store promises: a table whose newest day grows, a saved copy | abstract specification of `DailyUsage` |
| `DailyUsage` | `daily_usage.rs` and the lines of `main.rs` that drive it | implements `UsageLedger` (`LedgerSpec`) |
| `CoreThreads` | the three threads, channel, `running`, one client | |
| `CoreCounters` | `CoreThreads` with the diagnostics counters | EXTENDS `CoreThreads`, one conjunct per action |
| `PacketPath` | `CoreCounters` with the packets: parser, table indexes, crediting, the history served | EXTENDS `CoreCounters`; implements it (`PathRefinesCounters`) |
| `IpcSession` | protocol, client and polls over one connection | |
| `Supervisor` | launcher, `main.go`, core processes, pipe name | |
| `PidMapper` | names and categories against reused process numbers | |
| `FlowCache` | the aggregator and the process snapshot | |
| `StatsSamples` | the samples of `service/stats.go`, chart and averages, as operators on sequences | |
| `WebSession` | `web/server.go` and `App.jsx` over those samples | EXTENDS `StatsSamples` |
| `TuiModel` | `ui/model.go` with the rows and pages of `ui/tree.go` | |
| `...Proofs` | the theorems, section 5 | each EXTENDS its module |
| `MC...` | the module on a small instance | |

**Naming.** Operators that model a function keep its name where the code's name says
what they do (`sync_current_day_into_history`, `trim_history`, `get_process_name`);
actions of a loop are named after the step. An operator with a suffix
(`Rollover_KeepBytes`) is not part of any specification: it is the definition
that follows with a plausible bug, and `PROJECT.json` "mutants" says which property
notices it.

**DailyUsage.** The store belongs to the main thread, so its program counter is
`pc`; a flush is three steps (`FlushBegin` creates the temporary file, `FlushWrite`
writes and syncs it, `FlushReplace` renames it and only then clears `dirty`), because
the process can die, and an I/O call can fail, between any two. `after` is where
`flush_now` returns to; it is called from `load`, `maybe_rollover`, `maybe_flush` and
the shutdown. `due` is `last_flush.elapsed() >= 60 s`. A JSON file is absent, torn
(not parsable) or whole with the store's image in it. Days are numbers; upload and
download, always treated alike, are one amount. Four switches say what the world may
do: `ClockMayGoBack`, `DiskMayFail`, `OpenMayFail`, `FileMayRot`.

**CoreThreads.** `cap`, `main` and `ipc` are where each thread is; `queue` is the
number of packets in the channel; `client` is the state of the other end of the
pipe instance as the server can see it. `MainTick` is the whole one second
check, whose parts are the subject of `DailyUsage` and `FlowCache`. `IpcConnectFails`
is the client that came and went before `ConnectNamedPipe` (ERROR_NO_DATA): the
instance is given up without being closed.

**CoreCounters.** Each action of `CoreThreads` with what it does to
`CAPTURE_TOTAL_COUNT`, `CAPTURE_DROP_COUNT`, `batch_count` and `processed_count`.
`ignored` counts what the parser refuses; the code has no such counter, and without
it there is no equation.

**PacketPath.** A packet of `Wire` is its number of bytes, the header fields the parser
looks at and the socket it belongs to; `parse_ipv4` and `parse_ipv6` say whether it
is taken and how far its bytes were touched (`reach`). `index` is the four
hash maps, keyed by table and addresses; `rebuild_table_indexes` empties all of them and
fills those whose table could be read. `Moves` and `HalfSecond` are the world: a socket
changes hands, 500 ms pass. The bytes are counted at both ends: `sent` when the channel takes a
packet, then `usage` (the days of `daily_usage`; which day is `DailyUsage`'s subject) or `lost`
(`lookup_pid` found nobody). `served` is the bytes of `latest_history`, stored at each one second
check and once more after the loop; `latest_stats` is not stored again after it. `seen`, `failed`,
`sent` and `lost` are ghosts: the owners at the last rebuild, the tables that failed in it, and
bytes the code counts nowhere. The pipe
server and its client touch none of this; of their steps only the one that lets main join
the thread is kept, so a pipe thread that never ends is left to `CoreThreads`.

**IpcSession.** `requests` and `wire` are the two directions of the byte stream. The
server reads a line, builds the answer from what is published at that moment, writes
it and flushes until the client has read everything. A deadline that falls in the
middle of a line (`part`) throws away its start, and the rest is later read as a line
of its own, which does not parse (`Torn`). An answer of the other kind has no field of the
kind asked for, and Go's decoder leaves it nil: `Nothing`. Snapshots are numbered by
publication.

**Supervisor.** `inst[c]` is the life of core c's pipe instance as a dial sees it.
`DialFails` is the failure of `DialPipe`: at once if no instance exists, after the
timeout if all are taken. `owned[u]` is `Launcher.cmd` while `Launcher.owned`. `past`
is a ghost variable: which of the events happened under which a property is not
claimed (a second UI at a time, a restart, a UI that vanished, a UI that gave up while
there was a core). A ping may fail (`PingFails`) because the core is gone, but also with one
that is well and answers late or with something else. `Vanishes` is any end without the
deferred calls: killed, console closed, panic, and the `os.Exit` at main.go:210-213 and 218-221.

**PidMapper.** Processes are identities; a number may be given to a new one. One
tick is 30 s. `Packet` is `process_packet` for a number the connection index gives:
name, then category, with the service query in between as `classify_pid` does it.
`get_process_name_and_path` is a set: the process's own name, or `Unnamed` ("PID:n" and an empty
path), which the code answers for a number without a process and also whenever opening a running
one or asking for its file is refused (pid_map.rs:606-648); either is cached. `Tick` does not wait
for the main loop: a drain may go on while caches are due, and `OldestName` is how old
a cached name can be then.
`classify_by_path` looks at one directory, `InWindows`; the table of a process without
a path and the other cases (System32, services by name) are what a process is given as
its nature.

**FlowCache.** The thresholds of 30 s, 90 s and 600 s are counted in ticks; the run keeps
their order (1 < 2 < 4) and not their ratio, which no property looks at.
`Snapshot` reports, resets deltas and forgets in one pass, as `snapshot` does;
`is_process_alive` and with it the process query is only asked for the entries between
the two retentions. `stall` counts how long there was no publication. The process list is any
subset of what runs, as an error of `Process32NextW` ends the walk like its end does
(pid_map.rs:429); the ghost `missed` keeps whom it left out. While main is stalled the tables
are not read either, so `Attributed` lets a packet be credited to a number that has changed
hands as long ago as the stall.

**StatsSamples.** Pure operators. A sample has both readings of Go's clock: `Add` and
`Before` use the monotonic one, `Truncate` and `Equal` the wall clock. Each loop of the code over
samples or flows is a `Folded`, a recursive function: buckets are built from neighbours, the items
of the averages (`Merged`) by a walk over the samples of the newest window, in the order in which
the processes come up, as the code does it.

**WebSession.** The figures of an answer depend on the samples, and these change with each poll that
succeeds, so an answer is named by the number of such polls (`version`), while the samples
themselves decide whether there is anything to serve (`Serves`). Both handlers take flows and
chart under two locks; a poll may come between. `fetch` is a set of bootstrap
requests under way, as the page asks for one on mount and on every open. A write that is not
done in three seconds ends the socket (`Drops`).

**TuiModel.** One action for each thing `Update` does with a key, a window size or a
tick; all end in `normalizeViewState`. A fetch answers with any of `Snapshots`, records
of parent numbers and categories. `sortProcessFlows` and `sortTreeNodes` order siblings
by speeds, names or totals, so any order can come of them: `order` is chosen again
whenever data, sort key, direction or filter change. `RowsOpen(open)` is
`appendProcessTreeRows` with the set of open parents. Its depth is bounded by the number
of processes, which no walk from a root exceeds. The history is its length, and which of
its two sorts is on is left out. The sort menu's keys are a parameter. `Normal` and
`normalizeViewState` bind the rows with `\E rows \in {...}`, which only makes TLC
compute them once.

## 3. Runs

States are distinct states; times are on two workers.

| run | what it shows | bounds | size |
|---|---|---|---|
| `usage` | a clean store is persisted, the file is never torn, the pipe serves at least what is persisted, persisted bytes survive, and the store implements the ledger; the disk may fail, the core is killed anywhere | 4 days, 2 rows kept, 2 bytes | 300 000, 8 s |
| `usage_clock` | rows of days left behind stay as they are, and a flush that failed is tried again until one succeeds; all four switches on | 3 days, 2 rows, 1 byte | 1 530 000, 75 s |
| `threads` | a dead capture thread is noticed; a second is published; a stop request ends the process, given what the outside must add | channel of 2 | 5 400 |
| `packets` | every captured packet is accounted for, none is left behind when capture dies, the parser reads inside its packet, each packet is credited to whom the tables name and to the owner once nothing moves, and the history served at the end has every byte sent | channel of 1, 2 packets, 1 change of hands, one table that may fail, 3 sockets, headers at the edges | 2 281 000, 42 s |
| `supervisor` | an exit spares the core another UI uses, one core, no core after the last exit, a start ends, a client that left is noticed | 2 UIs, 2 cores, all switches on | 172 000, 50 s |
| `supervisor_orphan` | (violation) after one restart no exit ends the core | 2 UIs, 2 cores | |
| `session` | the lag is the missed deadlines, without one everything belongs to the current poll, data never gets older, good data stays as long as nothing was late, the last publication is shown | 3 publications, 2 missed deadlines | 79 000, 11 s |
| `session_late` | (violation) after one missed deadline good data is replaced by nothing | 2 publications, 1 deadline | |
| `pids` | exe name and category of a number are not its former owner's once older than the caches, and in the end name and category are right, but for what the system refuses to tell | 2 numbers, 2 processes, ages 2 and 1 | 577 000, 96 s |
| `flow` | speeds add up to totals, nothing is forgotten unreported, running processes are kept, totals are not inherited late | 2 numbers, 2 processes, 2 bytes, thresholds 1/2/4 | 3 476 000, 70 s (symmetric numbers) |
| `tui` | the menu index is within its menu; the page exists and the selected parent is on it; only up and down move the selection off a row that is still there; the open tree has each process once, but for those on or below a circle of parent numbers | 4 processes, 2 trees, 2 orders, 2 window sizes, a history of 7 days, 2 sort keys | 56 000, 150 s |
| `web` | both sample caches are exactly the answers of the retention; chart and averages speak of the same samples and add up; a page catches up for good once nothing breaks, though the core may be dead | 2 polls that succeed, 1 push on its way, 2 bootstraps; retention 4 s, window 2 s, 2 points; 3 600 histories of up to 4 polls of 2 processes | 176 000, 25 s |

Why the bounds are enough. *usage*: with 2 rows kept and 4 days, trimming happens
twice, and a file can be one, two or three days behind; more days repeat the step.
2 bytes tell "all", "some" and "none" of a row apart. *threads*: a channel of 2 is
empty, partly full and full. *packets*: two packets overflow a channel of one, or are in hand
and in the channel at once, or in one batch, where the second is credited by tables that
the first was not; one change of hands before, between or after them gives every
stale index, and `Start` has the sockets owned or not to begin with; the sizes of
`Wire` are bounds of the parser and the byte below each, for header lengths below, at and
above 20, and for protocols that are and are not read: of the headers made of these the run has those the
parser refuses, and any it would read past its end (there is none); the ones it takes are a few
written out. `ParserStaysInsideAlways` is about all. What holds for every
capacity and number of packets is proved. *supervisor*: two UIs suffice for every race between two
launchers and for a chain of restarts, as slots are reused; two cores are one more
than there should be. *session*: two missed deadlines put a stats answer and a
history answer, or a torn one, ahead of the current poll; three publications make old,
middle and new. *pids* and *flow*: a number needs one previous owner to be wrong
about, and a second number shares the lifetimes of the caches; ages are cut off
(`MaxAge`) beyond what any property compares with. *tui*: a page has at least three
rows, so four processes make the second page; one tree is three deep with a child
of another category (filtering it cuts the tree), the other has a circle and a
process that is its own parent; filters that match nothing give the empty page; seven
days make a second page of the history at the low window only. *web*: two polls make
old and new; two bootstraps overtake each other; four polls fill a window, cross into the
next, leave the retention and come back after a gap, with the wall clock set forward or
back before any of them.

Deadlock is checked everywhere. `CoreThreads` and `TuiModel` have a
`Terminating` step for the ended process, all others can always step.

## 4. Fairness

* `DailyUsage!FairSpec`: the main loop, the steps of a flush and the passing of a
  minute. `recv_timeout` bounds every wait of the loop. Nothing obliges a packet, a
  stop or a kill. `EventuallyFlushed` assumes in its statement that from some point on
  no flush step fails.
* `CoreThreads!FairSpec`: every thread that can run does (`ThreadsRun`), and seconds
  pass. Weak fairness for the three threads, as the scheduler gives. `CapRecv` waits
  for the network and `ClientDials`/`ClientSends` for a UI, so what they owe is stated
  in the property that needs it: `Traffic`, `KeepsUp` (the drain loop at main.rs:89 has
  no bound: it ends only if packets do not for ever come as fast as they are
  handled), `Listens` (`CreateNamedPipe` does not fail for ever), `Polled` (the service polls once a
  second). `StopCompletes` needs all four.
* `IpcSession!FairSpec`: weak fairness of the server and of a read that can complete,
  strong fairness of each kind of poll, as both tickers fire for ever and the mutex
  only delays them.
* `Supervisor!FairSpec`: strong fairness of a starting UI, since every wait of it has
  a deadline which other UIs that come and go do not postpone; weak fairness of
  leaving and of the pipe server. The user owes nothing: no start, quit or restart is fair.
* `WebSession!FairSpec`: the handlers and the event loop of the page go on, weakly. Nobody owes a
  poll that succeeds, a write that fails or the end of the UI. `CatchesUp` states what it
  needs: a server in the end, something to serve, no more writes that time out.
* `PidMapper!FairSpec`: time goes on; a number in the index has traffic again and again. That the
  main loop comes round is not assumed of the specification, as a drain has no bound:
  `RightInTheEnd` states it as a premise, with that of queries of the service manager that
  succeed from some point on. The exe name, and a category by path, are promised for a
  process only if queries for its name are no longer refused; display name and being a service or not
  without that.

## 5. Proofs

All theorems hold for every value of the constants under the modules' named
assumptions (the bounds are naturals, `MaxDay` and `MaxDays` positive, switches are Booleans).
`PROJECT.json` "theorems" lists them with the property each one states.

**Store** (`DailyUsageProofs`). `TypeCorrect` holds with every switch on.
`CleanMeansPersisted` is not inductive: after a load the history in memory equals
the file's only because the file's newest row is the file's day with the file's
bytes and there is nothing to trim. The invariant is

    StoreInv == TypeOK /\ StoreInStep /\ CleanMeansPersisted

where `StoreInStep` says of memory, of the file and of the temporary file before
the replace that they are trimmed, that their newest row is the current day's and
that it equals the counter. It needs a clock that moves forward (otherwise the newest row
is a day of the future) and a file that opens (otherwise a clean empty store faces a
full file, see section 7); both are assumptions of `StoreInvCorrect`. A file
that rots is allowed. The lemmas say what `trim_history`, `upsert_history` and their
composition return: a trimmed table is not trimmed again (`TrimFixed`), syncing the
present value changes nothing (`SyncSame`), syncing a larger one changes one row
(`SyncGrows`). From it follow `CleanIsPersisted`, `StoreStaysInStep`, and `Refinement`:
`Spec => LedgerSpec`, step by step - a record is `Add`, a rollover or a load of an
older file is `Open`, the replace is `Save`, a kill is `Crash`, the rest stutters.
`FileIsNeverTorn` needs none of it: only that the temporary file is whole when it
replaces the file.

**Rows over time** (`DailyUsageProofs`). The lemma behind all three theorems is
`TrimKeepsNewest`: a day with `MaxDays` newer rows still has them after `trim_history`.
Trimming removes rows, so this is not obvious: suppose fewer were left, take the latest of the
newer days that went (`LatestDay`); all rows newer than it stayed, so fewer than `MaxDays`
are, and it would have stayed itself. `PastDaysStaySealed` follows from it with every
switch on. `PersistedBytesStay` and `ServedIncludesFile` need `ServeInv`: memory
covers the file while the core runs, and what a flush from the loop writes has been published
before. They assume a clock that moves forward and a file that opens and does not rot.

**Counters** (`PacketPathProofs`). `CountInv` adds to conservation that a batch is
open only while main drains (a loop left otherwise would lose it) and that without a
stop request the loop is left on an empty disconnected channel only. It gives
`PacketsAreConserved`, `DropsOnlyInFlood`, `NothingIsLeftBehind` for every capacity
and number of packets, in every interleaving of the three threads.

**Packets** (`PacketPathProofs`). `PathRefinesCounters`: each step of `PacketPath` is
a step of `CoreCounters` or leaves its variables alone, so what is proved of the counters
holds with packets, tables and sockets in it (`PathConserves`). `LastHistoryIsComplete` rests on

    PathInv == CountInv, queue = Len(chan), and usage + lost + Bytes(chan) = sent

The equation relates counters of two threads to the contents of the channel, so it
needs what a sum over a sequence does when one end grows and the other is taken away: `BytesUnfolds` and
`SumsShift`, by induction over the length, give `BytesFacts`. With it: a loop left on a dead capture has
an empty channel (`CountInv`), so what the last store serves and what nobody was found for is
all that was sent; after a stop request all but what the channel still holds.
`ParserStaysInsideAlways` is about every packet the constants allow, not the
headers of the run: each field that is read lies below the length the code has compared with.
Who a packet is credited to rests on

    TablesInv: index[RowKey(s)] = IF its table failed THEN NoPid ELSE seen[s],
               and tables not due half a second after the last change of hands, or used
               after a whole second without one, are of the present owners

which is inductive with `PathInv`, for sockets of which no two have one row (`RowsDistinct`, a
hypothesis of the three theorems; with shared ports the later row wins in the code, and which that is
the system decides). Lemma `LookupFinds` makes it the answer of `lookup_pid`, and `EachCreditedAsSeen`
and `FirstCreditedToOwner` follow for any sockets, packets and failures.

**Session** (`IpcSessionProofs`). `SessionInv == LagIsTimeouts /\ PartOfLine /\
OnlyCurrent`. `PartOfLine` (what was read in part is still at the head of the wire, while
a request is pending) is what makes a deadline in the middle of a line not change
the count. Lemma `OneUnderWay` turns the count into a position: with no missed deadline the
pending poll is a request, an answer being written or an answer on the wire, and
not two of them. It gives `LagNeverShrinks` and `OnTimeOnlyCurrent`. `OrderInv` is about
age: the server flushes before it reads on, so there is one answer on the wire at most,
and it is between what is shown and what is published. It gives `NeverGoesBack`, and
with `OnlyCurrent` `OnTimeDataStays`.

**Supervision** (`SupervisorProofs`). `KillSparesOthers` depends on who may own at all:

    SupInv == TypeOK /\ Roles /\ Links /\ AliveIsOwned /\ KillSparesOthers

`Roles`: a launcher owns between launch and stop only; unless a second UI was started, all
UIs that are on but one are in the hand-over of a restart; without a restart none is.
`Links`: connections and instances are of cores that exist - a slot given to a new core is
then nobody's. `AliveIsOwned`: as long as nobody restarted, vanished or gave up, each core
has its launcher. Then `OneCore` is: each core has an owner, owners are on and not in a
hand-over, there is one such UI. For any number of UIs and cores, with every switch on.

**Aggregator** (`FlowCacheProofs`). `SpeedsAddUp` is inductive with types; the others need
that an absent entry is empty, that bytes not yet reported are no older than the last snapshot
(`DeltaIsRecent`), that ages are bounded by the absolute retention and the stall (`AgeBounded`),
and that a process snapshot that is not due has every process that still runs and was last seen before
the last tick, or has it in `missed` (`SnapshotHasOld`).

**Names** (`PidMapperProofs`). `MapperInv` says of each cache by itself that nothing in it is of a former
owner once the present one is older than the cache can be; a category read from
the service table is settled once it is older than both (`ServicesSettled`). `ExeNamesAreFresh` therefore
holds with a main loop that stays away and with name queries that are refused at any time.

**Terminal UI** (`TuiModelProofs`). The invariant is

    TuiInv == TypeOK /\ ReturnsFromExit /\ MenuInRange /\ SelectionShown

`ReturnsFromExit` (only the exit menu has a menu to go back to) is needed by `MenuInRange`, and
the types of rows and page sizes by `SelectionShown`: all steps end in `normalizeViewState`, whose result
is on the page whatever the rows are. `SelectionStays` follows from what the same function returns for a
selection that is still on the page. `EveryProcessListedOnce` is about any set of processes and
any parent numbers: processes are put on levels, the roots on the first (`Levels`); what is on no
level is on a circle or below one (`CirclesAreOffLevels`), the last level is empty because there are not
as many levels as processes (`LastLevelEmpty`), and by induction over the depth a walk lists each process
below its start once (`RowsOfMore`).

**Samples and pages** (`WebSessionProofs`). `CachesInv` (both caches are of the same polls, whole) is
inductive for the session. What is said of every history of polls is an induction over the polls:

* `CachesAreExact`: after each poll the cache is a suffix of the polls, cut at the first one young enough
  (`Kept`, `StaysRecent`). It needs that the monotonic clock goes forward, which
  `HistoriesAssumption` says, and nothing of the wall clock.
* `ViewsAlwaysAgree`: if the wall clock was not set back, the buckets of the first n samples are one for
  each window, in order, each with the number and sum of its samples (`ChartOf`, `ChartGrows`); points are the
  newest of them. The items of the averages have each process once, and their sums are after each sample
  those of the newest window (`MergedFacts`, `AnswerMerged`, `AveragesAddUp`). Both are then compared.
* `PushesComeInOrder` is about the page: with `Linked` (each end of the socket is only there while
  the other may be) nothing sent is older than what was sent before, and flows are never newer than the
  chart beside them.

**Induction.** The library's induction theorems take an operator and are out of the prover's reach.
`TuiModelProofs` and `WebSessionProofs`, and `PacketPathProofs` for its sums, prove the principle for sets of
naturals from the well-foundedness of `<` (`LeastNatural`, `Induction`, `InductionTo`). The first two also
prove that a recursion of N steps has a result (`Recursion`), and all have a lemma for each loop
(`...Unfolds`): the walk is a sequence of values, each made from the one before.
This is why the loops are recursive functions and not folds of the community modules, which choose the
order in which they walk.

**Only model-checked.** The liveness properties: `EventuallyFlushed`, `CaptureDeathNoticed`,
`EverySecondPublished`, `StopCompletes`, `StartEnds`, `ListensAgain`, `LastIsShown`, `RightInTheEnd` and
`CatchesUp` (liveness under fairness and ENABLED are out of the prover's reach). All other properties
of passing runs are theorems.

## 6. What is left out

Abstractions in the modelled parts: RFC 3339 stamps and `updated_at`; upload and
download as one amount; a file whose `current_day` is valid JSON but no
date (taken for a later day by string comparison); the write deadline of `sendRequest` (the
64 KiB pipe buffer takes a request at once); Ping as a third kind of request (it has no
cache); PIDs 0 and 4; two sockets with one row (shared ports) and port exhaustion; dialogs,
elevation and the console window; log lines.

Of the statistics service: labels, and the further columns of an answer, which go the same way as
speed and total. Of the web part: the choice of a port, the static files, the frames of the
web socket, sorting and folding in the page, the history (replaced as a whole with a
bootstrap), unmounting (and React's StrictMode, which mounts twice), and the statuses
`error` and `disconnected`, which last no longer than the events that set them.

Of the terminal UI: `view.go` and `table.go`, which format what the model holds, and the
sums a row shows over its children. The type invariants of proved modules are theorems, or part of
the proved invariant, and not part of a run.

Parts not modelled: token bucket, injector and control service. The bucket is code that
nothing calls, the other two are files with a comment; a model would be one of code that cannot run.
Build scripts and assets have no run time behaviour. Not under `src/` and modelled from its use:
the disk damaging a file (`Rot`).

## 7. Code and text that disagree

Two runs of kind violation each show one; `PROJECT.json` "findings" quotes the lines:
the core after a restart (launcher.go:47), the late answer (client.go:130).

Behaviour the models have, that deserves a reader's attention and has no run of its own.

Core:

* Ctrl+C without a client does not end the process: the pipe thread waits in
  `ConnectNamedPipe` and main joins it (main.rs:133). Drop the premise `Polled` from
  `StopCompletes` to see it.
* If capture dies, the loop ends with `running` still set (main.rs:84), and while a client
  polls the process stays, serving its last state for ever. The history of that state is complete, as
  it is stored once more (main.rs:129); the snapshot of the processes is not, and stays that of the last one
  second check: the totals of the last, begun second are in one and not in the other.
* With packets arriving as fast as they are drained, nothing is published (main.rs:89):
  drop `KeepsUp` from `EverySecondPublished` to see it. The tables are not refreshed either:
  `CreditedToOwner` speaks of the first packet of a batch only.
* A UDP socket bound to no address has the row 0.0.0.0 or ::, which no packet carries
  as its local address (pid_map.rs:310): its traffic is never credited. `CreditedAsSeen` says so
  (`readable`).
* An IPv4 header length below 20 is not refused (parser.rs:44); part of the header is then
  taken for ports. IPv6 extension headers are not followed: such packets are refused.
* Packets captured after midnight and drained before the next one second check are credited
  to the old day (main.rs:103).
* A file that exists and does not open once is taken for an empty history
  (daily_usage.rs:166), and the next flush replaces it: set `OpenMayFail` in
  `MCDailyUsage.cfg` and `ServedIncludesPersisted` is violated.
* The history is published before it is flushed (main.rs:107): what is served may be a
  minute ahead of the file, and is lost when the launcher kills the core.
* The display name is looked up in `service_pids` of any age (pid_map.rs:215): after a
  number was reused the new process may carry the service's name until the caches have turned
  over twice.
* A query for the name of a running process that is refused is cached like an answer
  (pid_map.rs:222-223, 606-648): the process is "PID:n" of unknown category until the next clear, up to
  60 s later, even if the next query would succeed. `ExeNameFresh` permits it.
* A failed process snapshot leaves `running_pids` empty (pid_map.rs:410), one that ends in an error
  short of the rest (pid_map.rs:429), and entries of the missing processes quiet for 90 s are dropped
  though they run; `AliveKept` excepts them.
* Totals of a process that has ended go to the next one with its number for up to ten minutes
  (flow_stat.rs:96); `NoOldTotals` only says that it is no longer.
* Comments in flow_stat.rs (30, 130, 141) describe entries as kept; `retain` drops them.

Supervision:

* A second UI meets a busy pipe, takes it for no core and launches another
  (launcher.go:47); the same may happen to the new UI of a restart, which starts
  before the old one has let go of the pipe (main.go:217). `OneCore` therefore speaks of UIs
  one after the other.
* A second UI may connect to the core a first one has launched and still waits for; the
  first then finds the pipe busy until its deadline and kills the core (launcher.go:80-88)
  under the second. `KillSparesOthers` therefore excepts a second UI, not a restart.
* A dial between two instances of a core is refused (pipe_server.rs:24-36); in main.go:165-175
  this ends the UI and, as `os.Exit` skips deferred calls, leaves the launched core. A ping that is
  answered late does the same (main.go:178-188). `LeavesNoCore` excepts a UI that gave up.

User interfaces:

* Processes on a circle of parent numbers (numbers are reused) have no root and are not
  listed (tree.go:83); `EveryProcessOnce` excepts them.
* When the core is dead, averages are still pushed with a fresh time stamp: the error is looked
  at only when there are no averages (server.go:207). With an error and none, the socket is
  closed after it was opened, and as opening resets the back-off the page reconnects at the
  shortest delay again and again.
* A bootstrap that fails sets `bootstrap-error` while the socket may be connected; the
  status stays until the next event of the socket. `CatchesUp` speaks of the socket and
  the figures, not of the status.
* Flows and chart of one answer are taken under two locks and may be of two polls.
* After the UI has restarted, a page that is still open retries the port of the old one.
* A wall clock set back makes the chart show a window twice and the averages once;
  `ViewsAgree` excepts it.

## 8. Plan

Done: the store with its ledger, the threads, counters and packets, the supervisor, the session,
the two caches, the samples, the web session, the terminal UI; proofs of every safety property that is checked.

What could follow: the shutdown of `CoreThreads` composed with the flush of `DailyUsage`, where the
launcher's kill ends both; the sums over children in `ui/tree.go`; sockets that share a port in `PacketPath`,
with the order of the rows as a choice of the system. The token bucket should be modelled when
it is called from somewhere.
