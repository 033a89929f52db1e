# A verification project for person_detector

`person_detector` counts people from the radio traffic of their devices: capture
threads feed a shared table of devices, a loop in `main` takes a snapshot of it every
few seconds, estimates and prints. This directory holds TLA+ models of that program,
TLC configurations that check them on small instances, and proofs, checked by TLAPS,
of what holds on all of them. Paths below are relative to the repository.

## The system

| Component | State it keeps | Operations |
|---|---|---|
| Aggregator, `src/core/aggregator.c` | 1024 hash chains of device records, `count`, `ttl_sec`, one rwlock | create, update, device_count, snapshot, free_snapshot, prune_stale, destroy |
| Estimator, `src/core/estimator.c` | none; two scratch arrays per call | compute, distance, locally-administered test |
| BLE scanner, `src/ble/ble_scanner.c` | `hci_fd`, `running`, thread; the controller's scan state | init, start, stop, destroy, thread loop, HCI event parsing |
| Wi-Fi scanner, `src/wifi/wifi_scanner.c` | `sock_fd`, `running`, thread | init, start, stop, destroy, thread loop, radiotap and 802.11 parsing |
| Replay feeder, `src/core/replay.c` | `running`, `loop`, `finished`, thread | init, start, stop, destroy, thread loop, line parsing |
| Main, `src/main.c` | configuration, `g_running`, the globals of the others | argument parsing, signal handler, estimation cycle, shutdown |
| Logger, `src/utils/logger.c` | level, sink, mutex | init, write, shutdown |
| Web demo, `web/` | none (the process-wide random generator) | port of the estimator, HTTP handlers |
| Validation and tools, `validation/`, `scripts/`, `tests/` | none | off-line scripts, unit tests |

**Interaction.** Capture threads call `aggregator_update`; `main` calls `prune_stale`,
`snapshot` and `device_count`; both sides meet at the rwlock. `main` and each thread
share a `volatile bool running`, and the feeder's `finished`; the signal handler and
`main` share `g_running`. Shutdown clears `running`, joins, closes, and only then frees
the aggregator, which takes no lock.

**What is hard here.** Interleavings of updates, prunes and snapshots; unlinking from a
chain through a cursor that points at a pointer; a clock read before the lock; errors inside
critical sections; the order of stop, join, close and free after starts of which any may
have failed; a thread that ends on its own; a signal at any moment; the flag `finished`
against the last snapshot; and a greedy clustering whose result depends on the order of a
hash table; lengths and offsets that come from the air or from a file; a log sink cleared
under messages on their way. `PROJECT.json` lists each hazard at its line.

**What makes each part correct.** Aggregator: one record per device, an exact counter, a
snapshot that is one instant of the table, no use after free, no leak, no lock kept, no
eviction before the TTL. Estimator: clusters that the merge rule justifies, maximal, counted
right; arithmetic exact at its edges. Lifecycle: nothing used after it is freed or closed,
nothing left behind, the radio off, every run that should end does end, and a replay's last
report covers the recording. Parsers: nothing read behind what was received, everything
whole passed on as it was sent, and nothing else. Logger: whole lines, none to a sink that
is gone.

## Modules

| Module | Stands for | Relation |
|---|---|---|
| `DeviceRecord` | `pd_device_record_t` and what is done to one | extended by the next two |
| `DeviceStore` | the promise of `aggregator.h`: a map from digests to records, every call atomic | abstract specification |
| `Aggregator` | `aggregator.c`, threads and lock, step by step | implements `DeviceStore`, proved |
| `AggregatorHistory` | what each capture thread has been told it reported | `Aggregator` with one variable more, for the properties about evictions |
| `NodeTable` | what callers see of the chains: a set of nodes with digests | abstract specification; the set `linked` of `Aggregator` |
| `HashChains` | the chains of `aggregator.c`, pointer by pointer | implements `NodeTable`, proved |
| `Estimator` | `estimator_compute` and its arithmetic | takes any snapshot |
| `WebEstimator` | `compute_estimate` of `web/estimator.py` | compared with `Estimator` |
| `Arguments` | `parse_arguments` of `main.c` and its integer widths | makes the configurations of `Detector` |
| `Detector` | `main.c`, and start, stop, destroy and thread loops of the scanners and the feeder | uses the aggregator as "live or not" and the snapshot as "what is still unreported" |
| `BleParser`, `WifiParser`, `ReplayParser` | the way from one HCI event, captured frame or recording to the calls of `aggregator_update` | the part of a capture thread `Detector` takes as one step |
| `HciFormat`, `RadiotapFormat`, `RecordingFormat` | how the other side writes what these three read | references the parsers are compared with |
| `Logger` | `logger.c` | |
| `PdTypes`, `Lists` | constants of `types.h`, the cast to `int8_t`; lists of parts joined to one | |
| `MC*` | values of constants for TLC; `MCParts` also puts the small parts side by side | |
| `*Proofs` | theorems and proofs | |
| `Recursion` | induction and recursion over the numbers, as theorems about sets and functions | used by the proofs |

The parts are composed by what one promises and the other assumes. `Aggregator.Destroy`
may be taken only when every writer is done; `Detector` shows that `main` fulfils that
(`NoUseAfterFree`, `CleanExit`). `Detector.Snapshot` takes everything ingested so far in
one step; `Aggregator` shows that snapshots are atomic (`Linearizable`). `Estimator`
accepts records in every order, as the hash table may deliver them. `HashChains` shows that
the search of a chain is a search of the table, that an eviction keeps the others, and that
walks see every node once: it implements the set of nodes of `NodeTable` (`ActsAsTable`), and that
set is what `Aggregator` has as `linked`. `Arguments` excludes an interval of 0, which
`Detector` needs for its cycles to be spaced; the theorem `CommandLinesSpaceCycles` is about
the two together. The parsers end on every input (`ParsingEnds`),
which the fairness of `Detector`'s threads takes for granted.

### Aggregator

A step is one access to shared state. `pc[w]` follows a writer through
`aggregator_update`: `idle`, `lock`, `find`, then `signal` and `seen` (two steps, so that
a half-refreshed record can be observed) or `alloc`, `link`, `count`, then `unlock`.
`pc[Main]` follows the estimation thread through prune, snapshot and count.
`UpdateCall` and `PruneCall` read the clock before the lock, as the code does.
`AllocFails` and `SnapAllocFails` are the `calloc` failures, possible at every call.

Abstractions. The chains are the set `linked`: a bucket is a function of the digest, so a
search of the chain is a search of the table. `(rssi, tx_power)` is one value: a sighting
sets both. The order of a traversal is arbitrary. `clock_gettime(CLOCK_REALTIME)` does not
fail. The clock shows whole seconds, the unit of the TTL test. `now` and the scratch state
of a finished call, `call` and `node` of a writer included, are reset to keep the state space
small; the code never reads them again.

`DeviceStore` has no identity of calls: a sighting there is any digest, signal and time. That
`Aggregator` implements it says that calls take effect whole and at one instant, not from which
call a stored record comes; the latter is what the history is for.

`AggregatorHistory` adds the variable `reported`: for each thread and each device, the clock
reading of its latest report that has returned with 0. Its steps are those of `Aggregator`; the
history only looks. An eviction is judged by it whatever the threads do at that moment, so a
device stays covered while its reporter reports others, waits in its next call, or has ended.

### HashChains

One task at a time, as under the lock: `task` says which call is being carried out, `b` and
`node` are its local variables, and `place` is what `node_ref` of the prune points at: the
head of a bucket or the `next` of a node. A freed node keeps its `next`, so that a cursor that
moved into one would be seen to follow it. `calloc` may return any free address, a freed one
too. Whether a record is older than the TTL is the set `old`; `Expire` adds to it between calls.

`NodeTable` is what is left when the pointers are taken away. A search ends at a node with the
digest wanted if there is one, and a node is inserted only if there is none; a walk has a set
`todo` of nodes it has still to come to and takes them in any order. In the refinement `todo`
is `Ahead`: the rest of the chain the walk is in, and every node of a later bucket. The steps
from node to node of a search and from bucket to bucket of a walk are stutters.

### Estimator and WebEstimator

A step is one iteration of the filter loop or of the outer clustering loop. `cluster[k]` is
the leader that absorbed `k`; the code's `merged[k]` is `cluster[k] # 0`. `DiffMs` keeps the
truncating division. `TooFar` is the 30 m gate solved for `tx_power - rssi`:
10^(d/27) > 30 iff d >= 40 (27·log10 30 = 39.88). Estimates are in hundredths, the resolution
of the printed line; `Margin` is the rounded 1.96·sqrt(λ), computed in integers.

`WebEstimator` is the port as one function from a list of observations to the counters: a
first pass that keeps what is inside the gate (`Kept`), a second that merges round by round
(`Merged`), with sets where the port has lists and flags. Times are exact; the port subtracts
floats. `PortAgrees` is stated in `Estimator`.

### Detector and Arguments

`at` and `who` say where `main` is and which component it starts or stops; `thread[c]`
where a thread is; `fd`, `open` and `ctrl` what the kernel and the controller hold. A new
socket gets the lowest free descriptor, and the scanners' structs begin as zeros, both as
in the process. `stop` is two steps, clearing the flag and joining. `fresh` says that
something was ingested after the last snapshot.

External behaviour is nondeterministic: each step of an init may fail, `poll` and `read`
may fail or time out, the adapter may be unplugged, a signal may come at any moment after the
handlers are installed. A configuration (`cfg`) says which radios are enabled or that a
recording is replayed, in a loop or once, at which interval, and whether that recording is
`lost`, so that it cannot be opened. Three constants switch single failures on and off so that
a finding can be told from another: `ReplyMayBeLost` (the controller starts to scan and the
reply to the request times out), `DisableMayFail` (the request to stop scanning fails; the
code ignores the result) and `AllocMayFail` (the estimation cycle finds no memory).
The flags are `volatile bool` and are modelled as atomic, which is
what the supported compilers and machines give them; the C standard calls it a data race.

`Arguments` goes through the options `getopt_long` delivers, one round of its loop each, to a
configuration, of which `Started` is the part `Detector` looks at. A value is the
`long` that `strtol` or `strtoul` makes of the argument; the field it is stored in keeps its
low 32 bits (`UintSize`). `MCDetector` makes its configurations from command lines with `Started`.

### The parsers

Each is written from the code; its counterpart is written from the side of the sender and
goes from structures to bytes: what an advertising report, a radiotap header or a line of a
recording looks like, and which sightings it stands for when it is cut, short or mislabelled.
A run compares the two.

- `BleParser`: `process_hci_event`, `handle_le_advertising_report`, `parse_tx_power_from_ad`.
  A step is one test of lengths or the reads that a test allows. `leftover` is what earlier
  events left in the buffer behind this one, so a read too far finds bytes. A report in
  `HciFormat` has the address of its device first octet first and sends it last octet first
  (`OnWire`; the byte order of HCI is that of the Bluetooth Core Specification, the repository
  does not state it). `sent` has the address as it is on the wire, which is what the parser
  passes on; `addresses` has it as the device has it, which is what the documentation speaks of.
- `WifiParser`: the radiotap walk and the test for a probe request. What matters of a frame is
  its lengths, its presence words and its type; what is heard is a pair of offsets, the one
  the address and the one the signal strength was read from.
- `ReplayParser`: the code searches the text of a line for keys. A line is a sequence of
  members; the two buffers hold so many of them, and what does not fit is cut within a
  member (`CutToken`: what the first part of a member can be taken for). `StopFeeder` may come
  at any moment.

### Logger

`log_write` is lock, test of the sink, three writes and unlock, each a step; `logger_shutdown`
clears the sink under the same mutex and may come from any thread at any moment. `due`
counts the calls that passed the level, `out` is what was written.

## Runs

| Run | Question | Result |
|---|---|---|
| `aggregator_safety` | table, counter, pointers and ownership under all interleavings; no early eviction of a device one thread reports, whatever that thread does next | holds, 1.1 M states |
| `aggregator_linear` | `Aggregator` implements `DeviceStore`; the lock is always released | holds, 140 k |
| `aggregator_lastseen` | no early eviction when two threads report one device | **violated** |
| `estimator_clusters` | clusters justified, maximal, counted, whatever the order where no record is paired with two others; window tolerance; the worked example of the documentation; the port counts the same | holds, 123 k |
| `estimator_rule` | the clustering rule as the documentation words it | **violated** |
| `detector_exit` | use after free, closed sockets, what exit leaves behind, the radio, descriptors; complete means read to the end; cycles are spaced; a signal ends the process; a finite replay ends | holds, 14.6 k |
| `detector_radio` | radio off at exit when a reply is lost | **violated** |
| `detector_missing` | complete means read, when the recording cannot be opened | **violated** |
| `detector_final` | the last report covers the recording | **violated** |
| `parts` | the three parsers against their references; the logger; the hash chains, and that they implement `NodeTable`; every input is read to an end, the mutex released | holds, 220 k |
| `parts_randomized` | a device is taken for randomized by the first octet of its address | **violated** |
| `replay_longline` | every device of a recording is ingested, however long its line | **violated** |

**Bounds.** Aggregator: two writers, because every conflict on the table is between two
updates or an update and `Main`; two devices, so that a table has a record to keep and one
to lose; two nodes, so that allocation fails by exhaustion too; the clock shows two values and
the TTL is 0, so that both sides of the eviction test occur (an age of 0 keeps, an age of 1
evicts; only the difference of the two enters the test, and the proofs do not bound either).
In the safety run the clock may step back, one thread reports both devices and the other one
of them, so that there is a device with one reporter and one with two. `CounterSize` is the
modulus of `observation_count` (2^32 in the code). It is 2 where the records are compared with
`DeviceStore`, so that a count can be told from the next and wraps, and 1, wrapping at every
report, in the safety run, where only `TypeOK` looks at it. Estimator: up to
three records over 13 kinds and four over 9, placed on both sides of each threshold, and
500 ms and 500.4 ms apart, within a second and across its boundary; a chain needs three
records, a leader with two rivals four; and the six records of the documentation's example in
all 720 orders. Detector: an interval of two seconds and a
recording of two lines have a first, a middle and a last; each component occurs once, as
in the program; intervals given as 0, as a number that is cut to 0, twice and not at all, with
integers of 3 bits (`UintSize` = 8); the violated runs use the smallest instance that shows
the point. The node symmetry of these two runs is sound: no definition distinguishes nodes,
and the action property treats all alike; it is not used with liveness or refinement.

Parts: up to two reports with none to two AD fields, a Tx power in every position, twice,
negative, empty, and inside another field's value; each of the last 12 or 13 bytes missing from the
declared length or from what was received; every subset of the radiotap fields up to the signal
strength, chained zero to two times, with headers that end just before, at and behind it;
up to three devices in a line, with and without their members and in other orders, a slice buffer
for one and a half devices (the code's holds about nine of the simulator's) and up to two lines;
three threads, two messages each, one shutdown or several; three nodes, three digests and two
buckets, two of the digests in one, so that a chain has a first, a middle and a last node.
`MCParts` runs one part from each initial state while the others rest: they share no state, so
no interleaving is lost.

**Fairness.** `Aggregator`: weak fairness of each thread while it holds the lock: nothing
between a lock and its unlock blocks. Nothing is assumed of threads that wait for it, so
starvation is not excluded. `Logger`: the same, of the holder of the mutex; a write to standard
error is taken to return. `Detector`: weak fairness of `main` and of each thread: the
scheduler runs what can run, `sleep`, `usleep` and `poll` (500 ms) return, and so do the
other system calls. The parsers: weak fairness of each, they are plain loops. Signals,
unplugging, stops and failures are never assumed to happen.

## What the violated runs show

1. `aggregator_lastseen`: `aggregator_update` reads the clock (`aggregator.c:125`) before it
   takes the lock (`:132`) and overwrites `last_seen` unconditionally. Two reports of one
   device can store their times in the wrong order, and the device is evicted within the
   TTL of its latest report. Taking the later of the two times would do. A device only one
   thread reports stays for the TTL after every report of it (`SoleReporterEviction`).
2. `estimator_rule`: only the leader of a cluster absorbs. A record that matches an absorbed
   member but not its leader is counted apart, so the clustering is not single-link and
   depends on the order of the hash table. It does so only where some record is paired with two
   others (`PairsCountOnce`).
3. `detector_radio`: a lost reply to the scan request leaves the radio scanning, because
   `init` gives up the descriptor on which `destroy` bases its decision.
4. `detector_missing`: an absent recording is "Replay complete" with exit status 0. A
   recording that was opened is complete only when it was read (`CompleteMeansConsumed`).
5. `detector_final`: the snapshot is older than the flag read after it, so what the feeder
   ingests in between is never reported. It takes a `main` that is held up for the 200 ms
   the feeder sleeps after its last line, in a write to a blocked standard output for
   instance. Reading the flag before the cycle would do.
6. `replay_longline`: a line of more than 4095 bytes, about 36 devices of the simulator's, is
   read in pieces, and the pieces after the first have no `"devices"` key and are skipped. What
   fits is passed on as written (`LinesAsSent`).
7. `parts_randomized`: `ble_scanner.c:107` copies the address of an advertising report in the
   order of HCI, last octet first, so for BLE `bytes[0]` is the last octet, and the bit that
   `estimator.c:20` tests is not the one section 3.2 of the technical documentation names. Only
   the `randomized` counter of the telemetry is affected; the order is the same for all reports,
   so a device keeps its digest. Reversing the octets when they are copied would do: with
   `ReadHeader` changed so, the property holds.

Smaller differences that have no run of their own:

- Milliseconds are truncated, so the window is up to 1 ms wider than documented
  (`WindowTolerance` bounds the error), and two records between 500 and 501 ms apart may be
  one person to the program and two to the web demo; apart from such pairs the two always agree
  (`PortAgrees`).
- A device in a recording that lacks a member gets it from a later device of its line, because
  the text that is searched runs on; `LinesAsSent` claims signals only for devices that lack
  nothing, and addresses for all.
- A scanner that was never initialised is all zeros, and `shutdown_scanners`
  (`main.c:222-224`) closes its descriptor 0, standard input, right before `main` returns.
  With both radios enabled only their own sockets are closed (`OwnDescriptorsClosed`).
- A looping feeder also sets `finished` when it ends, which the comment at `replay.h:22-23`
  does not expect; `main` does not look at it in that case.

## Proofs

All theorems hold for every value of the constants that satisfies the named assumptions
(`RecordAssumption`, `AggregatorAssumption`, `EstimatorAssumption`, `DetectorAssumption`,
`ArgumentsAssumption`, `BleParserAssumption`, `WifiParserAssumption`, `LoggerAssumption`,
`HashChainsAssumption`; TLC evaluates them in every run). Each proof is an inductive invariant,
with one lemma per conjunct group and one step per action.

- `AggregatorProofs`: `LockInv` reads the lock off the program counters (a thread is in a
  critical section iff it holds the lock). `TableInv` adds what a writer knows while it
  holds it: the node it found is linked and has its digest; after a miss no linked node
  has. The second is what makes `OneRecordPerDigest` inductive. `CountInv` allows `count` to
  lag behind by one between link and count. `TraversalInv` says that what `Main` has still
  to visit is linked, and that the buffer fits. From these follow the six state invariants of
  `aggregator_safety`, for any number of threads, devices and nodes.
  Then eviction and refinement. `SoleInv` says what the record of a device with one
  reporter shows: the time of the latest report in the history, or of the call that has just written
  it and is about to return (`Shown`). A prune holds the lock, so no call is in that last part, and
  when it evicts the device its clock reading is more than the TTL after the one in the history.
  For the refinement, `StepInv` adds what is about to be linked and what has been copied. `SettledIs` and `ViewIs` turn the refinement mapping, which chooses,
  into equations: at most one writer refreshes, at most one node has a digest. Then there is a
  lemma per kind of step. The first write of a refresh and the linking of a node are a
  sighting; taking the lock is the whole prune; the return of a snapshot is the snapshot,
  because nothing was written since it took the lock; reading `count` is counting the digests
  (a bijection from the linked nodes). Every other step leaves the mapped state alone.
  The theorem `AggregatorIsLinearizable` is `Spec => Store!Spec`; `SoleReporterIsKept` is about
  `HistorySpec`, which implies `Spec` (`HistoryIsExtra`), so that its invariants hold there too.
- `HashChainsProofs`: a chain has no counter to do induction on, so the proof carries one: a
  rank, an existential witness in the invariant, that says how young a node is. The `next` of a
  node is the youngest of the older nodes of its bucket, the head the youngest of all; a new node
  gets a rank above all others. What a search, a prune, a copy or a destruction has behind it
  and before it is told apart by bucket and rank. No step into freed memory, distinct digests
  and complete walks follow, for any number of nodes, buckets and digests. That the chains
  hold the heap (`ChainsAreWhole`) takes in addition that there are finitely many nodes:
  `Chain` follows pointers for as many steps as there are nodes, and ranks strictly fall on the
  way, so that is enough.
  `ChainsAreATable`, `ChainsSpec => ActsAsTable`, is the refinement. What is ahead of a walk is
  again told by bucket and rank: the nodes of its bucket at or below the rank it stands at, and all
  of later buckets (`AheadIs`); so a step from a node takes exactly that node off `todo`, and a
  step to the next bucket takes nothing. A search that has come to the end of its chain has every
  node of the bucket behind it (`SearchRefines`), so a miss means that no node matches. The rank
  is a witness that differs from step to step; each step is shown to refine for every rank the
  invariant holds of.
- `EstimatorProofs`: the pass invariant says of a prefix what `NothingLeftToMerge` says of
  the whole: every record before `i` that counts has a cluster, and no later unmerged record
  matches a leader. It rests on the symmetry of the merge rule (`SamePhoneSymmetric`), hence
  on the antisymmetry of the truncating difference (`DiffAntisymmetric`), and `WindowError`
  bounds that difference. The five invariants of `Estimator` in `estimator_clusters` follow.
  `PortIsFaithful`: both passes satisfy one equation, "a record leads iff no earlier leader
  matches it", and a greedy pass is determined by it, so the leaders are the same once the
  records that the port drops first are renumbered away; the counters are then sizes of equal
  sets. Its premise is that of `PortAgrees`: no two times are between 500 and 501 ms apart.
  `CountIsOrderFree`: if no record is paired with two others, each record and its partner, if it
  has one, form a group (`Group`), which is defined without regard to the order; the map from
  leaders to their groups is one to one, because leaders do not match, and onto, because a record
  that does not lead was absorbed by its partner. `ExampleHolds` is an instance: six places hold six
  devices, two pairs of which match. It also takes that `Margin` is what its definition
  promises: `NearestExists` and `NearestIsUnique` show for every count that the rounded square
  root exists and is the only one.
- `DetectorProofs`: `JoinInv` says that a thread not yet joined has its flag set until `main`
  waits for it, and that `main` passes a component only with its flag clear. `SocketInv`
  says which descriptors are open and whose they are; the two scanners never share one.
  `NoUseAfterFree`, `NoIoOnClosedSocket` and `CleanExit` follow. Its second part strengthens
  that invariant by what holds on the way out: the controller scans
  only while the scanner has a descriptor that its destroy will use, a scanner that was tried
  has -1 or a socket of its own, the feeder has read all it says it has. `RadioOffAtExit` is proved
  under ~`ReplyMayBeLost` and ~`DisableMayFail` (run `detector_radio` shows the first is needed);
  `CyclesAreSpaced` if no interval is 0 (`CyclesAreApart`). `OptionsKeepInterval` proves of
  `Arguments` that no option, whatever its argument, makes it 0; `OptionsParsed` takes that
  through the loop over any number of options, and `CommandLinesSpaceCycles` puts the two together:
  for configurations that command lines lead to, nothing else is supposed.
- `ParserProofs`: both walks stay inside what was received, for all bytes and all lengths up to
  the buffer's; the invariants bound the offsets by the lengths tested so far. Then what is
  heard is what was sent:
  - `ProbesAreHeard` supposes that each frame carries its radiotap fields as the header's
    presence words announce them (`LaidOut`). The walk is kept in step with the offsets of the
    reference field by field: before each field it stands at the end of the one before.
  - `EventsAreHeard` supposes that each event is a list of reports written out with some bytes cut
    off or some length wrong (`EventLayout`), any number of reports, fields and bytes. The
    invariant `HearInv` says of each offset in which report and which field of which
    report it lies, and that what was heard is what the reports before it declare;
    `PartAt` finds a report or a field in the string they were joined to. A byte beyond 127 is cast
    to a negative number and back (`CastBack`). What is proved of an
    address is that its octets are passed on as they are on the wire; that this is not the order the
    documentation speaks of is what `parts_randomized` shows.

  Both hypotheses hold of every event and frame `MCParts` enumerates.
- `ReplayProofs`: `LinesAreIngested` supposes that a recording is made of lines that name devices
  and of others (`RecordingLayout`): no device names a member twice, and one that is complete fits in a
  slice and has values the program can hold. Nothing is supposed of the length of lines and
  devices otherwise, nor of what a cut member is taken for but that it is a member.
  `ReplayInv` says that the cursor is behind the addresses of the first so many devices and before
  those of the others, and that what was passed on is alike to what these devices stand for;
  devices the search skips stand for nothing. A slice begins with the whole device if it is complete,
  so the first member of a name in it is the device's own. The hypothesis holds of the recordings of
  `MCParts`.
- `LoggerProofs`: who is between lock and unlock holds the mutex, and the last part of the log
  tells where that thread is. For `MessagesOnce` the sequence of complete messages in the log is
  followed through its appends: a thread's message is in it once it has written its newline, and
  never before.
- `Recursion`: what these need of induction. A property of numbers is the set of those that have
  it, a failure has a least number, so `UpwardInduction` needs no operator as a parameter. A
  recursion is a function of rounds and a step, itself a function: it is solved
  (`RecursionSolved`) and by one function only (`RecursionUnique`). From it follows where a part is
  in a list of parts that were joined (`ListJoined`, `PartInList`).

Every invariant, action property and refinement the passing runs check is stated by a theorem.
Only model-checked is all liveness: `LockReleased`, `LogMutexReleased`, `ParsingEnds`,
`SignalTerminates`, `FiniteReplayEnds`, which the prover does not handle. `HashesDiffer` and
`WalksAreComplete` are proved (`DigestsDiffer`, `WalksMissNothing`) and not run by themselves:
a step that broke one would not be a step of `NodeTable`.

## Not modelled

The FNV-1a digest: 64-bit arithmetic, out of the checker's reach; a digest is any function of
the address, collisions included. Log text and time stamps; the text of the telemetry line and
of the JSON file beyond its counters. The HTTP handlers of the web demo, which keep no state;
two concurrent `/api/simulate` requests share the process-wide random generator, but nothing
is promised of their results. The off-line scripts of `validation/` and `scripts/`, and the unit
tests; what `simulate_traffic.py` writes is in `RecordingFormat`. The kernel's sockets beyond
open, readable, failing. Memory ordering weaker than atomic flags. Processor time: a scanner
whose adapter is gone may spin. A JSON file that cannot be opened changes no state of the
program.

## Plan

1. (done) `DeviceStore`, `Aggregator`, `Estimator`, `Detector`, their runs and first proofs.
2. (done) The parsers with their references, `HashChains`, `Logger`, `Arguments`,
   `WebEstimator`; the runs `parts` and `replay_longline`.
3. (done) Proofs of the refinement, of the sole reporter, of the exit, of the chains, the
   logger and the two parsers' bounds.
4. (done) Proofs of what needs induction: the port, the three parsers against their
   references, every message once, chains that hold the heap.
5. (done) The refinement of `NodeTable` by `HashChains`, the order of the snapshot, the worked
   example, and `Arguments` together with `Detector`.
6. Left: `Aggregator` with `NodeTable` in one specification. `Aggregator` judges the age of a
   record by a clock that steps back, so the set `stale` would have to become a choice of the
   caller.
