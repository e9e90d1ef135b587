# A TLA+ verification of evledger

evledger is an append-only event ledger kept in JSONL files, with readers, a
model-powered audit that appends what agents did not log themselves, and a live
timeline in the browser. These modules model its core, TLC checks them on small
instances, and TLAPS proves for every instance what TLC checks of safety: every
invariant and every action property of the passing runs.

Run a model with `tlc -config <run>.cfg <module>.tla` and the proofs of a module
with `tlapm <module>Proofs.tla`.

## The system

| Component | State | Operations | What is hard | What makes it correct |
|---|---|---|---|---|
| event (`schema.py`) | none; frozen values | `with_seq`, `to_jsonl_line`, `from_jsonl_line`, `parse_time` | a line must survive serialising and splitting; times that do not parse | a line written is the line read |
| store, writing (`store.py`) | month files `<machine>/<YYYY-MM>.jsonl`, one flock per machine | `append`: mkdir, lock, scan every month for the highest seq, write, fsync, unlock | threads and processes share only the file system; kills, power loss, short and torn writes, exceptions inside the lock | distinct and gap-free seqs in real-time order, durability, an append always ends |
| store, reading (`store.py`) | none | `read_all`, `iter_events`: list machines, list months, read file by file, no lock | appends go on; half a line may be seen; damaged lines | nothing lost uncounted, nothing twice, per-month order |
| machine id (`machine.py`) | a file with the id, unlocked and not fsynced | `resolve_machine_id`: exists, read, else generate and write, else the host name | first uses at once, kills and errors in between, a blank file, a power loss | one id again after each of them, and one log under it |
| transcript loader (`transcript.py`) | none; reads files that sessions are writing | `load_transcripts`, `chunk_turns` | windows, missing timestamps, order across sessions, the budget, files and lines that cannot be read | every turn of the window that can be read in one chunk, in order |
| audit (`reconstruct.py`, `audit_cmd` in `cli.py`) | the ledger; in memory: chunks, index of earlier findings, candidates | load, index, ask the model per chunk, dedup, append one by one | minutes pass between index and append; model calls and appends fail; the process dies half-way; sessions log meanwhile | no finding twice as far as it can be told from others, none lost, right session |
| live timeline (`viz/assets/app.js`) | `events`, `spans`, `seenIds`, `cursor`, `loadGen`, poll timer, `polling`, `live` | `loadEvents`, `pollTick`, `mergeNewEvents`, `refetchSpans`, `setLive`, filter inputs | answers out of order, failures, loads and polls that overlap | the view fits its filter, no doubles, polling never stops, the view catches up |
| timeline server (`viz/server.py`) | none | `/api/events`, `/api/spans`, `/api/meta` | each request is a scan of its own; blank and malformed parameters, limits | answers one read of the ledger, as the command line would |
| query and statistics (`query.py`, `stats.py`) | none | `query_events`, `count_by`, `event_rate`, `pair_events`, `DurationStats` | ties between machines, late events, unmatched ends, bounds and limits | every start and end used once; answers over windows add up; summaries fit their events |
| digest (`digest.py`) | none | rollup, rules for failures, pushes without green, outliers | events in any sequence, windows that begin between them | no push blamed without cause, none missed |
| spans and links (`viz/connections.py`) | none | `derive_spans`, `derive_links` | overlapping, equal and empty intervals | a forest; one chain per shared value |
| registry (`registry.py`) | a dictionary | `register`, `validate` | nothing that matters here | – |
| command line, MCP server (`cli.py`, `mcp/`) | none | one append (`log`) or one read (`show`, `stats`, `digest`) each | the id before the append; the same limits and criteria written three times | one request, one answer |

Writers and readers interact through the files alone: the month files, the lock
files and the id file of the host. The audit is a reader, then a writer. The
timeline polls a server that reads. Nothing else is shared.

## Modules

| Module | Models | Checked or proved by |
|---|---|---|
| `Ledger` | what the store promises: one log per machine, an append takes effect in one step between call and return | property `ImplementsLedger`, `LedgerProofs` |
| `LedgerStore` | `LedgerStore.append`, `_PartitionLock`, `_next_seq`, `_atomic_append_line` | `store_appends`, `store_damage`, `store_linesep`, `store_stall`, `LedgerStoreProofs` |
| `LedgerRefinement` | the mapping from files to logs | `store_appends`, `LedgerStoreProofs` |
| `Host` | `resolve_machine_id`, `log_cmd`, `ledger_log`, on top of `LedgerStore` | `host`, `HostProofs` |
| `LedgerReader` | `read_all`, `_scan`, on top of `LedgerStore` | `reader`, `LedgerReaderProofs` |
| `Sorting` | Python's sort, by a key that tells elements apart | `audit`, `views`, `DeriveProofs` |
| `Transcript` | `load_transcripts`, `chunk_turns` | `audit`, `AuditProofs` |
| `Audit` | `audit_cmd`, `reconstruct_chunks`, signatures, dedup | `audit`, `audit_twice`, `audit_mixed`, `AuditProofs` |
| `Timeline` | `loadEvents`, the poll loop, `refetchSpans`, `/api/events` | `timeline`, `timeline_race`, `TimelineProofs` |
| `Derive` | `query_events`, counts, `event_rate`, `pair_events`, `DurationStats`, `derive_spans`, `derive_links`, as operators | `views`, `DeriveProofs`, `ViewsProofs` |
| `Digest` | the rollup and the rules of `digest.py`, as operators | `views`, `ViewsProofs` |
| `Requests` | `show`, `stats`, `ledger_query`, `ledger_stats`, `/api/events`, `/api/spans`, `/api/meta`, as operators | `views`, `ViewsProofs` |
| `Views` | a ledger of several machines that grows, and how its views fit each other | `views`, `ViewsProofs` |
| `*Proofs` | theorems and proofs of the module they are named after | TLAPS |
| `MC*` | constants for TLC | |

`Host`, `LedgerReader` and `LedgerRefinement` extend `LedgerStore`; `Views` extends
`Requests`, which extends `Digest` and that `Derive`; `Derive` and `Transcript`
extend `Sorting`; `Audit` extends `Transcript` and takes the ledger as a sequence
with an atomic append, which is what `ImplementsLedger` establishes of the store;
`Timeline` takes it as a set that grows, each request reading it at one moment.
`LedgerReaderProofs` and `HostProofs` extend `LedgerStoreProofs`: every step of a
reader, or of a host, is a step of the store or leaves it alone, so that the store's
theorems hold for both. `DeriveProofs` has no variables: it is what is true of any
finite set of events, and of orders, sums and walks over any data. `ViewsProofs` and
`AuditProofs` extend it.

A definition with `If` in its name (`FreeIfShared`, `StrippedIfKept`) is a
plausible mistake. No action uses it. It is there so that one can put it in the
place of the definition after it and watch a property fail.

### LedgerStore

`pc[w]` is the step of `append` at which writer `w` (a thread or a process) stands:

| pc | in the code | actions that leave it |
|---|---|---|
| idle | outside | `Call`: mkdir, then the lock is wanted |
| wait | `flock(LOCK_EX)` | `Acquire`: lock, list the months |
| scan | `_next_seq` | `ScanFile`, `SkipFile` (OSError is swallowed), `ScanRaises` (UnicodeDecodeError is not), `Assign`, `AssignRaises` |
| write | `os.write` | `Write` (whole, or short), `WriteRaises`, `Tear` |
| sync | `os.fsync` | `Sync`, `SyncRaises` |
| done | `__exit__`, return | `Return` |
| failed, stalled | `__exit__`, raise | `Raise` |

`Kill` is possible everywhere, `PowerLoss` takes every unsynced line, `WriteBack`
is the kernel's own. A line is its id, seq, payload kind and how much of it was
stored; `Readable` says which lines `splitlines` and `from_jsonl_line` make
sense of. `Faults` and `Kinds` are constants, so every run and theorem says
which failures and payloads it stands for. `acked` and `before` are history.

A kill can only come before or after `os.write`, unless "torn" is in `Faults`;
an append counts as acknowledged when it unlocks and returns, nothing but its
own steps lying between. A file that was fsynced keeps its name after a power
loss, as on ext4, XFS and APFS; POSIX does not promise that, and the code does
not fsync the directory.

### Host

`step[w]` is where a process stands before it calls `append`: "idle", "open" (it has
drawn an id and will open the id file, which empties it), "write", "resolved". `Log`
is `LedgerStore!Call` under the id it has come by; from there `StoreStep` is the
store's own, so that a kill inside `resolve_machine_id`, inside the scan or inside
`os.write`, and a power loss at any of these, are one behaviour. Reading an id that
is there is one step (nothing removes the file while the host is up); finding none
and writing one are three. `idFile` is what processes see of the file and `idDisk`
what a power loss leaves of it: the kernel may write the name back before the text.

A host does have two ids after two first uses at once, or if the power goes before
the id file was written back, although `machine.py:5` and `machine.py:11` call the
id stable. `OneId` and `HostOrder` therefore speak of what happens outside of these
two, which the history variables `raced`, `handed` and `split` mark: kills, errors
and blank files split nothing, and a race ends with one id for all who come later.

### LedgerReader

One reader for all, since readers change nothing. It lists the machines, then
one machine's months, then reads month by month while writers go on. With
"midwrite" it may see part of a line that is being written (`Views`).

### Transcript and Audit

A turn is the file and line it is in, its session, time, size and what an auditor
could find in it. `Loaded` is the loader's filter and its stable sort; `ChunkTurns`
is the greedy packing as a fold. `TurnsAssumption` says that file and line identify
a turn, as the loader reads each line of a file once. Two things are lost on the
way, and `Readable` leaves them out: the turns of a file that cannot be opened
(`passed`, any set of files), and a turn whose text has U+0085, U+2028 or U+2029
(`split`), which `splitlines` breaks into pieces that are no records. The command
reports them as counts. A file that is read in the middle of a character ends it
with an exception before it has done anything. An auditor goes through "client" (the
model client is made), "ask", "append" or "report" (a dry run). The model's answer
is up to `MaxFound` of the things that are in the chunk, in any wording, or a
failure, and its data is taken as it comes (`_parse_candidate`): the keys an audit
adds, which a transcript may well quote, may be in it already (`marked`; `echoed` is
the history of it in an event). A signature is the required keys' content where the
model gave them (`Keyed`), else all of the data, from which the markers are taken
away in a stored event but not in a finding. An append that raises may have stored
its line, as `LedgerStore!SyncRaises` does. `Crash` is possible everywhere. The
candidates are a set: the model lists its findings in any order, and which of two
with one key survives is left open. The ledger is a sequence of events that can all
be read; an event with a line separator in its data is lost to the next audit as to
every reader (`store_linesep`), and so is one on a damaged line.

The code does not keep `audit_cmd`'s promise that "re-auditing never double-emits"
without exception, and `NoDoubleEmit` says what is left of it with one audit at a
time. A finding is the same as another if it is the same thing of the same session
(the origin's, not the recorded one). It is appended twice

- if its signature is not stable: a required key is missing, so that the signature is
  that of all of the data, and the answer has one of the audit's own keys in it;
- under two sessions, if it was first made of a chunk of several sessions and recorded
  under the one whose turn comes first (`audit_mixed`), and later of a chunk that begins
  with its own, as one of an audit with `--session` does.

Both are reached in the run `audit`: if either exception is left out, TLC finds the
finding appended twice.

### Timeline

An action is what JavaScript runs between two awaits. `loads` are the calls of
`loadEvents` that wait for their events or spans; `poll` is the one poll in
flight; the server answers from the ledger of that moment; an answer arrives at
any later time or not at all. `seenIds` and `cursor` are functions of `shown`,
since the code recomputes both wherever it changes `state.events`. What a request asks
for (`Queries`) is the criteria that events meet or not, a since and a limit, as the
inputs say; but a poll puts the cursor in the place of the inputs' since (`Since`), and
the spans are asked for without limit. 0 stands for no since and for no limit; a
limit of 0, with which the page shows nothing, is left out. Of the flame
graph there is the filter its spans were asked for (`flame`) and the requests of
`refetchSpans` that are under way (`asked`). Events may be appended behind the
cursor; `late` is the history of those.

### Derive, Digest, Requests and Views

These parts keep no state: `show`, `stats`, `digest` and the timeline's server
compute their answer from the events of one read. So `Derive` and `Digest` are
operators on a set of events, `Requests` is what each front end makes of the
arguments it is given, and `Views` is a ledger that grows under them, one `Log` per
append, by machines with clocks of their own and with late events, as audits log
them. An event is identified by its machine and seq, which a stored event always
has. Months are left out: `read_all`'s order decides only between events with one
time and one seq, which are then of two machines. A limit, a window and a rule are
looked at for every value, not only the ones a request would have; the properties
compare the answers with each other and with a definition that does not walk the
events (`PushesBlamed`, `SpansNest`). A source is its project (the first run of
letters and digits) and the rest; a type glob is the set of types it matches, and
`GlobOf` is what the name of a type matches when `fnmatchcase` reads it as one:
itself, but for the types in the constant `Wild`; a median is doubled and a mean
left as total and count, so that all are numbers.

What `SameAnswer` compares are requests that all front ends can express: the server
takes a blank criterion for none where the command line and the tools take it at its
word, and only it knows projects. A source without letters or digits has the project
"", which `/api/meta` offers and no request selects. A blank source can be logged as
well (`--source ""`), and a blank type; `/api/meta` offers them, and the server
takes them for no criterion. The page sends an offered type as it is and the server
reads it as a glob: `build[12].start` selects the events of `build1.start` and
`build2.start` and none of its own, and `*` selects all. `MetaSelects` therefore
speaks of sources and types that are not blank and types that are not in `Wild`; of
the latter it says only that they select whole types. A filter by type keeps the
pairs of the types it keeps (`SpansOfType`); one by machine or time may pair a start
with another end, because matching is done after filtering.

## Runs

| Run | Shows | Bounds |
|---|---|---|
| `store_appends` | type correctness, mutual exclusion, distinct and gap-free seqs, real-time order, durability before return, refinement of `Ledger`, with kills, write and fsync errors and times that do not parse | 3 writers, 3 ids, 2 machines, 2 months |
| `store_damage` | synced lines are never touched and every append ends, although writers die anywhere, also inside a write, files stop decoding, the host loses power and months cannot be read | 2 writers, 3 ids, 1 machine, 2 months |
| `host` | one id per host and one log under it, apart from races and power losses, although the id file is missing, blank or out of reach, processes die anywhere, also inside a write, the host loses power and months cannot be read | 2 processes, 2 events, 3 ids that uuid4 may draw, the host name, 1 month |
| `reader` | no silent loss, order without doubles, agreement with what append returned, among short and torn writes, unreadable files and half-written lines | 2 writers, 3 ids, 1 machine, 2 months |
| `store_linesep` | counterexample: U+2028 in a payload, and the next append takes the same seq | 1 writer |
| `store_stall` | counterexample: a line torn inside a character makes every later append raise | 1 writer |
| `audit` | no finding with a stable signature twice under one session, none lost, every turn that can be read packed once, over audits with different options that fail and die anywhere | 1 auditor, 2 audits, 4 turns of 2 sessions (one split, one above the budget, two of different sessions in one chunk), 2 wordings, 2 findings in an answer, 1 event that a session logs |
| `audit_twice` | counterexample: two audits at once both append the finding | 2 auditors |
| `audit_mixed` | counterexample: a finding under another session's id | 1 auditor, 2 sessions |
| `timeline` | no doubles, nothing of an older filter in the views or the flame graph, the poll loop lives, the view catches up | 2 events (the second at the time of the first or before it), 2 filters, one with a since, 2 loads |
| `timeline_race` | counterexample: of two overlapping loads the older one is shown | 2 loads |
| `views` | pairs use every start and end once and in order, spans are a forest, links are chains, reports add up, pushes are blamed exactly, limits keep the newest, outliers are rare, summaries fit their events, one request has one answer everywhere, `/api/meta` offers what can be found, a type filter keeps pairs, the past stands | six workloads of 3 to 6 events, 3 times, 2 machines |

Why the bounds are enough. Two writers contend and a third can overtake; two months
are needed for a seq in a file other than the event's own, three ids for a line
before and one after the one that matters; a second machine shows that locks and
seqs do not mix. Two audits are a run and its repetition, with a kill or an error
between. Two loads are what it takes to overlap, two events at one time what an
inclusive cursor is about, and one before another what it misses. Two processes race
for the id file and a third id shows a second race or a loss. Pairs need two spans
of one base to cross, nesting three spans to be three deep, a push a failure, a ship
and another failure before it; each of the six workloads of `views` is the alphabet
of one such question. Every counter is bounded by a constant: `Ids` bounds appends,
`MaxAudits` audits, `MaxFound` the findings of an answer (two, so that one signature
may be found twice), `MaxLogged` what sessions log themselves, `MaxLoads` loads
(nothing is typed after the last), `Uuids` the ids drawn, `max` of a workload its
events; polls need no bound. Symmetry is used for writers, ids and wordings in runs
without liveness, where no definition tells them apart.

No run of the timeline has a limit in its inputs; what limits do to a view is in the
theorems, which hold for all.

Deadlock checking is off where ids or audits run out; `timeline` never stops.

Properties not worth repeating here are stated in the comments above them. The
counterexamples are documented in `PROJECT.json` with the line each contradicts.

### Fairness

`EveryAppendEnds` assumes weak fairness of a writer's own steps (a process that
runs goes on running) and strong fairness of `Acquire`: the kernel queues flock
waiters and wakes them, so one is not passed over for ever by others that come and
go. Nothing is assumed of kills or failures.

`CaughtUp` assumes that the browser fires timers and settles every load, and that
a server asked again and again answers now and then (strong fairness of
`ServePoll` and `PollArrives`; each single poll may fail).

Audits have no liveness property: the model call has no timeout, so the code
justifies no fairness for it.

### What the timeline does not promise

`strayed` marks what `SettledViewFits` and `CaughtUp` leave out, because the code
goes wrong there:

- a load began while another was under way (`timeline_race`);
- inputs were edited but not applied, and polls read the inputs;
- a poll was sent while a load was under way, with the new generation and the old
  cursor (`loadEvents` does not clear the timer), and is under way when the load's
  events arrive (`Overtaken`). If the load failed or brought an older state, the
  events between the two are never fetched. If the cursor is before the since of the
  load, events from before that since are merged into its view, as the cursor takes
  the place of the since (`app.js:378`).

Each is needed: with one of the three left out TLC finds a view or a flame graph that
does not fit, or an event that is never fetched.

`CaughtUp` also needs an empty limit (with one, a poll brings only the newest), and
speaks of no event that was appended behind the cursor (`late`), until a load brings
it: polls never do.

`SettledFlameFits` excludes what `strayed` marks and, with `crossed`, a load that
began while `refetchSpans` had a request under way: its answer has no generation and
may come last. A failed or overtaken `refetchSpans` leaves the flame graph without
the newest spans until another event arrives; `app.js:415` calls it best effort.

## Proofs

Each theorem holds for any number of writers, machines, months, ids, auditors, loads
or events, under the assumptions on the constants that the modules state
(`ConstantsAssumption` and its like) and those named here. An assumption about
`Faults` or `Kinds` says which failures or payloads there are none of.

| Theorem | Establishes | Assuming besides |
|---|---|---|
| **`LedgerStoreProofs`** | | |
| `TypeCorrect`, `Exclusion`, `SyncedStays` | `TypeOK`, `MutualExclusion`, `DurableAppendOnly` | – |
| `LinesStay` | `KeptInv`: what append returned has left a line, damaged perhaps, on the disk | – |
| `AppendsOnce` | `OneLine`: an append writes one line at most | – |
| `ReadableApart`, `FilesSorted` | lines that can be read have different seqs, and rising ones within a month | every month can be opened |
| `Distinctness`, `Durability`, `RealTime` | `DistinctSeqs`, `AckedDurable`, `RealTimeOrder` | `Reliable` |
| `NoGaps` | `GapFree` | `Reliable`, no power loss |
| `Refinement` | `ImplementsLedger` | `Reliable`, no power loss |
| `ReturnedInPlace` | `AckedInPlace` of the log that the files stand for | `Reliable`, no power loss |
| **`LedgerProofs`** | | |
| `EntriesInPlace` | `Ledger!AckedInPlace`: what was returned is in the log, at its seq | `NoCall` is no call |
| **`LedgerReaderProofs`** | | |
| `ReadsDisturbNothing` | a store with a reader is a store | – |
| `ReaderTypeCorrect`, `NothingLostUncounted` | `ReaderTypeOK`, `NoSilentLoss` | – |
| `ReadsInOrder` | `ReadInOrder` | every month can be opened |
| `ReadsAgree` | `ReadAgrees` | `SeenStays`, every month can be opened |
| **`HostProofs`** | | |
| `UsesStore` | a host's processes use the store as it allows | – |
| `HostTypeCorrect`, `OneIdAtATime`, `IdsInOrder` | `HostTypeOK`, `OneId`, `HostOrder` | – |
| **`AuditProofs`** | | |
| `TypeCorrect`, `TurnsLoaded` | `TypeOK`, `LoadsAll` | – |
| `NothingLost` | `FindingsKept`, however many audits run | – |
| `NothingTwice` | `NoDoubleEmit` | `OneAuditor` |
| **`TimelineProofs`** | | |
| `TypeCorrect`, `ShownOnce`, `PollingGoesOn` | `TypeOK`, `NoDuplicates`, `LoopAlive` | – |
| `ViewsFit`, `FlamesFit` | `SettledViewFits`, `SettledFlameFits` | – |
| **`ViewsProofs`** | | |
| `TypeCorrect`, `AnswersAgree`, `LimitsKeepNewest` | `TypeOK`, `SameAnswer`, `NewestKept` | – |
| `OffersSelect` | `MetaSelects` | – |
| `OutliersAreRare` | `OutliersRare` | `OutlierFactor # 0` |
| `PairsAreSound`, `BlameIsSound`, `PastIsFinal` | `PairingSound`, `PushesBlamed`, `PastStands` | – |
| `SpansAreForest`, `LinksAreChains`, `BasesAreApart` | `SpansNest`, `LinksChain`, `SpansOfType` | – |
| `ReportsDoAddUp`, `SummariesDoFit` | `ReportsAddUp`, `SummariesFit` | – |
| **`DeriveProofs`** (lemmas) | | |
| `PairingIs`, `PairsOfBase`, `PairsBefore` | how `pair_events` matches, that it matches each base alone, and that later events leave earlier pairs | – |
| `SummaryIs`, `NestingIs`, `ChainIs` | what `DurationStats`, the nesting of spans and the links of a value are | – |

The assumptions are needed:

- *every month can be opened* (`"scanerror" \notin Faults`): the code leaves a month
  out that it cannot open, and hands its seqs out again.
- `Reliable` adds that writes are neither torn nor short and payloads hold no line
  separator; kills, power loss, exceptions and half-written lines are allowed.
  `store_linesep` and `store_stall` are what happens without it, and a short write,
  which `os.write`'s caller does not notice, leaves an acknowledged event that no
  reader can find. Without `Reliable` that loss is counted: `NothingLostUncounted`.
- *no power loss*: a synced line may outlive an unsynced one with a lower seq in
  another month, which leaves a gap, and in the abstract log there is none.
- `SeenStays`: the power does not fail, and an `os.write` of which a reader has seen a
  part has begun to copy, so that it neither raises nor leaves nothing. Otherwise a
  reader has an event that is in no file, and its seq is given to another.
- `OneAuditor`: `audit_twice` is what two do.
- `OutlierFactor` is 3.0 in the code; with 0 everything measured would be an outlier.

### The arguments

The store. `LockInv` (whoever is in the critical section holds the lock) gives
exclusion. What a scan can rely on is lines that are *lasting*: whole, without a
separator and behind a whole line, so that they are read whatever comes after. Under
the lock the months a scan has been through hold no lasting line above `highest`
(`ScanInv`), because nobody else writes to the machine; so the assigned seq is above
every lasting line (`WriteInv`), and the write keeps `LastingDistinct` and
`LastingSorted`. `FilesInv` is needed because a scan lists directories: a line in
a month that is not listed would be missed. These are `SeqInv`, which damage does
not break; under `Reliable` every line is whole (`AllSound`), so lasting lines are
all lines. `LineInv` follows the writer's own line, as much of it as was stored,
through write and fsync; `KeptInv` and `KnownInv` say that what was returned stays,
and `BeforeInv` carries the seqs that had been returned to `RealTimeOrder`: together
`StoredInv`. `IdInv` and `PlaceInv` (an id that is in use is on no line before its
append writes, and then in its event's file) give `OneLine`. `FollowInv` says that
the assigned seq follows one that is there, which gives `GapFree`.

The refinement. With no gaps the seqs of a machine are `0 .. n - 1` (`DenseInv`),
each on one line, so the log that the files stand for has the id of each line at its
seq (`LogInv`). Then `Write` is `Ledger`'s effective step, `Call` and `Return` are
its own, and every other action is a stutter, one lemma per action.
`ReturnedInPlace` carries `EntriesInPlace` over through an instance of `LedgerProofs`
whose constants and variables are those of the mapping.

The reader. `PartitionsInv` and `CoverInv` say that a read that nothing has spoilt
has each event that was there when it began or has still to come to it; `AheadInv`
that what is to be read lies behind what has been read. `SeenInv` and `TraceInv`
trace an event that was read, in part perhaps, to the line it was read from or to the
writer that is about to store it; `SeenStays` is what keeps that trace.

The host. The file has given no id but the one it holds, and without a race at most
one process makes an id, and only while there is none (`FileInv`); until `split` the
id in the file is the only one in use (`UnsplitInv`), so one log has all events and
`OrderInv` is the store's `SeqInv` while no scan left a month out (`blind`).

The audit. `FindingsKept` needs that what was indexed stays in the ledger
(`IndexInv`); `NoDoubleEmit` that what an auditor is about to append is, where its
signature is stable, in neither the ledger (`StableKeys`) nor twice in its list
(`FreshInv`), which another auditor breaks. `ShapeInv` says what a finding and an
event have, so that a finding with a stable signature and its stored event have the
same. Its `TypeOK` needs `LoadInv`: what has been spoken is finite, what is asked
about is a chunk, and no chunk is empty. For `LoadsAll`, file and line tell turns
apart, so `TurnPrecedes` is total and the loaded sequence has each readable turn of
the window once (`TurnsSort`). `Packed` is what holds of the chunks after each turn:
joined, they are the turns so far in order (`JoinLast`: a sequence appended to the
last chunk is appended to the whole), a chunk above the budget has one turn, and a
chunk was closed only when the next turn did not fit. `PackKeeps` is one step of it,
`PackWalk` all.

The timeline. `Sound` is the types, a ledger with one event per id, answers that
match their requests and a view without doubles. `FitInv` says that until the page
strays the inputs and the one load under way have the filter of the last load, and
so has every poll of the current generation but for its since, which is not before
that of the filter (`SinceFits`) unless the load is still waiting for its events;
`FlameInv` says the same of spans.

The views. `TypeOK` is inductive: an append is numbered by the events of its machine,
so machine and seq identify an event. `Precedes` is then a total order, and its
sequence is found by counting: what comes before each event grows along the order,
so the counts differ and, by the pigeonhole, take every value (`Ranks`,
`RankSorts`). Suffixes of sorted sequences give the limits; the value in the middle
has half of the values on each side, which bounds the outliers.

Induction. The library states induction over an operator parameter, which the
provers cannot instantiate, so it is replaced by the least counterexample: a
non-empty set of naturals has a least element (`Least`), and `NatsAre` and `PartsAre`
are induction on the numbers, and on the finite sets, of a *set* that is given. From
them come the existence of the functions that folds are defined by (`FoldExists`,
`SeqFoldExists`, `SumFoldExists`), and with it what a fold computes: a left fold is a
walk, a function of the number of elements taken (`IterWalk`, `WalkExists`), two walks
over equal beginnings agree (`WalksAgree`), and the walk over a set of events with one
more at the end is one more step (`WalkLast`).

So what one pass over the events computes is proved by its last event.
`PairingStep` is that for pairing: whatever is open is open in order, and the
new event closes the oldest of its base or is left over; `PairingIs` is the result
for all events, `PairsOfBase` compares the walks over all events and over those of one
base, `PairsBefore` those before and after an append. Blame is one flag carried
along (`PushesBlamed`), which a ship clears and a failure sets.

`FoldSums` and its like say that a sum does not depend on the order in which a set is
taken, that sums of disjoint sets add up (`SumOfParts`), and that a sum lies between
the count times the smallest and times the largest (`SumBounds`): hence totals, counts
and means. `PlacesCount` counts the values on each side of a place of a sorted
sequence, which gives the median. The depth of a span exists because a parent is
longer than its child and lengths are bounded (`DepthExists`, `DepthsAre`);
`NestingIs` is the forest. The links of
a value go from each place of its sorted events to the next (`ChainIs`), and two
values with one key share no event (`LinksOfTag`).

### Only model-checked

Liveness: `EveryAppendEnds` and `CaughtUp`. The provers cannot reason about the
ENABLED in a fairness condition. The other properties of the passing runs are each
a theorem above.

## Not modelled

The registry, which no other component uses; option parsing, the choice of the
ledger's root, output, and the registration of tools with FastMCP (no state of their
own); the fallback lock on systems without `fcntl`, which the code itself calls best
effort; lines and id files edited by hand; drawing, focus and follow in the page;
routing and assets of the server; the audit's necessity report and the extraction of
JSON from an answer.

## Plan

Done, in this order: the store and its abstract ledger, readers, transcripts and
audits, the timeline, the derived views, the host with its id file, the flame
graph's requests, the front ends; the proofs of the store, the refinement, the
reader, the host, the audit, the timeline and the views; and then of what folds
compute: pairing, summaries, nesting, chains, blame and packing.

Left, if the code grows there: an auditor on top of `LedgerStore` instead of the
abstract sequence, and hand-made proofs of the two liveness properties once the
prover supports them.
