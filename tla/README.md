# A TLA+ verification of repani

Repani is a set of Go packages: kv, a distributed system (an end-to-end
encrypted key-value store whose devices sync a grow-only set of entries through
a server that cannot read them), and the codecs and typesetting that its
programs share. This project models both in TLA+, checks the models with TLC on
small instances, and proves every safety property of kv and of `durable` that it
checks with TLAPS, for every instance. `PROJECT.json` ties each definition to
its source lines and each run to the properties it checks.

## The system

| Component | State | Operations | Talks to |
|---|---|---|---|
| `durable` | a file, its temporary file, the directory | `WriteFile`, `CreateFile`, `SyncDir` | the filesystem |
| `kv/store` `LogStore` | an append-only log, its flock, the set in memory | open, replay, `Add`, rollback, `Close` | `durable.SyncDir`, several processes on one file |
| `kv/store` `MemStore` | entries, canonical index, cached set hash | `Add`, `EntriesAfter`, `SetHash` | the basis of both stores |
| `kv/server` vaults | `vaults`, `revoked`, one record and log per vault, quotas | REGISTER, PROBE, PULL, PUSH, DROP, owner API, expiry, load, `DropVaultDir` | `durable`, `LogStore`, the wire |
| `kv/server` WAIT | a channel per vault, held requests | WAIT, `Drain`, `Close` | every handler that changes a vault |
| `kiosk` and `kvserve` | the lifecycle of a process | `Serve`, signals, READY/STOPPING, shutdown, `Close` | `net/http`, the service manager, `kv/server` |
| `kv/client` | store, `recent`, `registered`, `ended`, `lastTs`, the view | `Put`, `Delete`, `Sync`, `Drop`, `Wait`, `Get` | the server, over a transport that fails |
| `kv/js` | the same client for browsers, over IndexedDB | the same, from overlapping async code | the server, other tabs |
| `kv` command | `device.fact`, the log and its flock, output files | init, pair, put, get, del, import, export, sync, ... as processes that overlap | `durable`, `LogStore`, the client |
| `kv/wire`, `kv/vault` | none but the nonce source | frame, entry and key codecs | client and server |
| `row` | none | a binary and a text codec of typed items | `lz4s` for long strings |
| `lz4s` | none | a delta compressor | `row`, raster pages |
| `fact` | none | parse, validate, bind and group a fact set | `device.fact`, vault records |
| `typeset/wrap` | none that outlives a call | optimal line breaking, justification | `tbl`, `pica` |
| `typeset/tbl` | formats and rows read so far | resolve formats, lay a table out | `wrap`, `raster`, `pica` |
| `typeset/raster` | a draft row; the page a renderer keeps | draw, check, encode, decode, apply | `tbl` |
| `pica/press` | columns being filled | compose blocks, flow, balance pages | `wrap`, `pica` tables |
| `golay`, `ascon`, `trudge` | none | error correction, a cipher, key derivation | used by the above |
| `pica` documents, `pica/pdf` | none that outlives a call | parsing, writers, PDF | documents and print |
| `seal` | none: a design document | | |

What is hard to test is most of all the kv half. Handlers interleave under two locks and keep
pointers across their release; a vault ends by expiry, by its holder, by its
owner or by an operator, perhaps while another request holds it; every disk
operation can fail, and the process can die between any two; requests are lost
or arrive after their caller gave up; clients restart with less memory than they
had; long polls must be woken by whatever ends them. `PROJECT.json` lists these
under "hazards", at their lines. The correctness of each part:

- a file written with `durable` is never torn, never older than what was
  acknowledged, and created once;
- an acknowledged entry survives kills and power loss, and a log open in memory
  is what its file says;
- an ended vault stays ended, a binding stays bound, quotas are exact, every
  request is answered;
- a WAIT is woken by what it waits for, and a stop waits for no timer;
- clients converge on everything written, and read the last write of each key;
- tabs of one browser, and processes on one `KV_HOME`, do not undo each other;
- a codec reads back what it wrote and refuses a second spelling of it, on both
  sides alike;
- what is typeset holds all of its text once, within its measure.

The algorithms of the other half are sequential. What goes wrong there is at
boundaries: the rest of a word that was cut, a split that leaves too little, the
last day of a leap cycle, a match that overlaps itself.

## Modules

`X.tla` is a component, `MCX.tla` instantiates it for TLC, `X_proofs.tla` holds
its theorems. A definition has the name of the function it models where it models
one. An operator whose comment begins "Mutation of" is a plausible bug, used only
to show that a property can fail.

**EntrySet** is the abstract contract of `store.Store` as its users rely on it: a
set that an `Add` which returned nil never loses. What a failed or interrupted `Add`
was offered, the next open may show, in whole, in part or not at all. It has a
committed set, what is shown to the user, and whether it is open. **AtomicFile** is
the same for `durable`: a file that is replaced whole, version by version, each of
which is confirmed or may be lost to a power cut.

**LogStore** (`kv/store/logstore.go`, `logstore_lock_*.go`) takes one step per
system call: open, flock (or its timeout), magic, sync, directory sync, replay,
write, sync, rollback, close. The file is a sequence of slots, each an entry or
`Torn`; `cache` is what a read returns and `disk` what is surely on the platter. A
power loss leaves any mix of the two, slot by slot, and a torn slot where they
differ. Any process may be killed at any step, which frees its flock. `Faults`
names the calls that may fail. `FsyncNamesFile` says whether the filesystem's
fsync of a file makes its new name durable too. LogStore implements EntrySet
under the mapping in `Contract`.

**Durable** (`durable/durable.go`) runs racing `WriteFile` and `CreateFile` calls
on one path: temporary file, write, sync, close, rename or link, directory sync.
`maybe` is the set of contents the directory may hold after a power loss. Durable
implements AtomicFile under the mapping in `Contract`.

**VaultServer** (`kv/server/server.go`, `owner.go`, `record.go`) is the life of
vaults. A goroutine in `th` moves through its handler one critical section at a
time; `mu` is Server.mu where a section takes several disk steps, and a section
under vaultState.mu is one step. `rec`, `haslog` and `elog` are the disk; `served`,
`revoked`, `gone` and `st` are memory and vanish at `Exit`; `Start`, `LoadVault`,
`LoadSweep` and `Serve` are `New`. `Exit` may come in the middle of an append and then
leaves any part of its batch on disk. `Log(v)` is the log of a vault as EntrySet
describes a store.

**Wait** (`handleWait`, `notifyLocked`, `Drain`, `Close`) has held requests, the
set and the end of their vault, and the channel: `listening` is the set of requests
that selected on the present one, and closing it empties the set. The timer and a
closed connection are actions of their own.

**KvServe** (`kiosk/kiosk.go`, `kiosk/notify.go`, `kv/cmd/kvserve`) extends Wait
with the goroutine of `kiosk.Serve`: install signals, listen, READY, select,
STOPPING, `Shutdown` with its drain hook, the grace, `Config.Close`. Requests other
than WAITs run for as long as they like.

**Sync** (`kv/client/client.go`, `transport.go`, with the server's side of each
frame) is several clients and one vault. An entry is its canonical position. The
transport may fail a request before it arrives, after it was applied, or leave it
behind as a stray that arrives later, or, where the server died in its append, as a
part of it. A client that restarts in the middle of storing a page keeps some of it.
`Record` is a step of its own because `record` stores an entry under one lock and
appends it to `recent` under another.

**Merge** (`kv/store/memstore.go`, the reads and `nextTs` of `kv/client`) is one
client's entries in order of arrival, their index in canonical order, and the view
folded so far. The view and the index are checked against what they should be:
the greatest entry of each key, and the sorted sequence.

**JsClient** (`kv/js/kv.js`) is the browser's client: tabs with a memory of their
own on one database. `queue` is the chain of promises of writes, a transaction
commits apart from the memory that follows it, and tabs tell each other what they
added by messages that a closed or killed tab never takes. A sync runs, and one
more is queued; reads overlap at their await. The set hash is cached as the code
caches it (as in `kv/store/memstore.go`).

**KvCommand** (`kv/cmd/kv/main.go`, `csv.go`) is processes on one `KV_HOME`. An
invocation takes one step per file operation and per lock it takes or waits for; an
import goes chunk by chunk; any step may fail and any process may be killed, in the
append of a chunk too, of which the log then has the entries up to some date (`Torn`). `own`
notes each entry written, the run that wrote it and whether a deletion was due; `out`
holds what was printed and the exit code.

**Wrap** (`typeset/wrap`), **Press** (`pica/press`), **Tbl** (`typeset/tbl`,
`pica/tbl.go`), **Raster** (`typeset/raster`), **Lz4s** (`lz4s`), **Row** and
**RowText** (`row`), **Fact** (`fact`) are pure: one operator per function, over the
data the algorithm decides on. A word is its length and its break points, a
table's text its length and where its point is, a block the number of its lines, a
fact key its segments. Sizes of formats (the bytes of a varint, the length of a
match, the columns of a raster) are parameters, so that their edges come early.
Errors keep their kind and their order where the code promises it. **Algorithms**
makes a state machine of them: a task is one input, its step runs one algorithm,
and the invariants state what is promised of the result, mostly against another
definition: all choices of breaks against the dynamic program, all candidates
against the hash chain, the decoder against the encoder, successive days against
the calendar's formula, every permutation of facts against the binder.

How they compose: KvServe extends Wait. VaultServer uses logs through the EntrySet
contract: LogStore is shown to implement it and VaultServer to keep to it
(`LogsFollowContract`). It writes records with the outcomes of AtomicFile, which
Durable is shown to implement (kept, replaced, or replaced with an error). Sync uses
the server through the statuses and effects VaultServer gives each frame, and so does
JsClient. KvCommand creates its files with the outcomes AtomicFile allows. Row
compresses its strings with Lz4s.

## Runs

Passing runs:

| Run | Instance | What it shows |
|---|---|---|
| `log_crash` | 2 processes, 2 entries, every call may fail, power cuts | `AckedSurvive`, `MemoryIsLog`, `ImplementsEntrySet` |
| `durable_race` | 3 processes, 3 landings, symmetric | `FileKept` (`NeverTorn`, `AckedDurable`, `OneCreator`), `ImplementsAtomicFile` |
| `vault_lifecycle` | 1 vault, 2 keys, 2 entries that do not fit together, 2 goroutines, all operations, failing writes and a damaged record | `ServedIsLive`, `BoundForever`, `AckedKept`, `QuotaExact`, `OwnerDecides` (`PermanentEndsByOwner`, `ReadOnlyHolds`), `EndedForever`, `LogsFollowContract` |
| `vault_cap` | REGISTERs of 2 vaults for 1 place, 2 goroutines, logs that do not open, at start too, and records whose directory sync fails, fair | `EndedLogGone`, `RegisterWithinCap`, `RequestsAnswered` |
| `serve` | 2 requests, WAITs or of any length, 2 entries, fair | `NoLostWakeup`, `WakeAnswers`, `NilMeansDrained`, `StopsWithoutTimers`, `SignalStops` |
| `sync_faults` | 2 clients of an ephemeral vault, one with a register key and a wrong belief, 2 entries, 1 fault, pages of one entry | `StuckNeedsChurn`, `RecentCovers`, `PullWalkComplete`, `EphemeralOnce` |
| `sync_converge` | 2 clients of a permanent vault, 2 entries, 1 fault, 2 rounds per Sync, fair | `Converges` |
| `merge_fold` | 3 entries, 2 keys, all kinds, 1 restart, a clock that steps back | `ViewIsMerge`, `IndexCanonical`, `LastWriteStands` |
| `js_tabs` | 2 tabs, 2 entries, failing transactions and requests, reads, close, drop, a kill, a deleted database | `WritesReach` (`SyncCovers`, `FastPathKeeps`, `CloseKeepsWrites`), `TabsHoldOneSet` (`MemoryCommitted`, `TabsAgree`, `HashFresh`), `PagesCurrent` (`ReadsFoldOnce`, `NoSilentChange`) |
| `kv_command` | 2 processes at a time, 3 invocations of any kind, a fault or a kill at any step | `KeysStay`, `CommandsExact` (`PrintedIsKey`, `ExitZeroSynced`, `ImportPrefix`, `DelOnlyLive`) |
| `algorithms` | every input of the sets in MCAlgorithms, about 146 000 | `ParagraphsBroken`: `LinesFit`, `WordsKept`, `BreaksCheapest`, `LinesFlush`; `ColumnsSet`: `SegmentsSet`, `ColumnsHold`, `BreaksKeep`, `HeadingsHeld`, `PagesBalanced`; `TablesLaid`: `FormatsResolve`, `BoxesTile`, `PointsAligned`, `NotesAttached`; `RasterCarried`: `RowsShown`, `RowOneForm`, `PageCarried`; `Compressed`: `StreamExact`, `MatchBest`; `RowsExact`: `RowsRead`, `RowOneEncoding`, `RowRefusedAlike`, `DaysInOrder`, `TextReads`, `TextOneSpelling`; `FactsLoaded`: `SetsValidated`, `FactsBound`, `BindOrderFree`, `InstancesGrouped` |

A property followed by others is their conjunction; every part has a mutant of its
own. `TypeOK` is a part of `ServedIsLive` and of `RecentCovers`; the other types are
parts of the inductive invariants of the proofs. TLC checked each of these on the
instance of its run before it was proved.

Bounds. Two processes, goroutines or clients reach every pairwise race in this
code: each lock, channel and file is contended by pairs. `durable_race` has three
because the third tells an overtaken landing from a lost one. One vault is enough
where vaults share only Server.mu; the cap run has two, contending for one place.
Two entries give two pages and a batch that is torn in the middle; `merge_fold` has
three, so that one falls between two others. `MaxFaults` counts lost, late and
refused requests, client restarts and losses of the vault on the server: one fault
at every point is what the retries are for. `MaxTime`, `MaxLand`, `MaxTs`,
`MaxRestarts`, `MaxEntry` and `MaxRounds` only make the state finite. In
`sync_converge` MaxRounds is below the three PROBEs that a Sync may need, so Syncs do
give up and the next one must carry on; `Track` is off there, as no history is read.
In `algorithms` the inputs are all those of a small alphabet up to a length at
which every branch is taken (MCAlgorithms says which): paragraphs of up to four words
with and without points and dashes on a grid and in a proportional face, documents of
up to four blocks of every kind in columns that just do and just do not hold them,
streams with matches that overlap and lengths on both sides of an extension byte,
bytes whether they are a row or not, the days around the turns of a leap cycle, and
sets of facts in every order.
Deadlock checking is off where the system may stop: in Algorithms, where an input
is run once, in KvServe, whose process
returns, in Sync, whose clients may all be idle with nothing left to write, and in
Merge, whose ids run out.

Fairness. KvServe: handlers, Serve and the drain hook are goroutines that the Go
scheduler runs. No timer is fair but for `CutOff`, the grace while a request that is
not a WAIT is running; so what is shown of WAITs needs no timer. VaultServer: strong
fairness of each handler, since sync.Mutex hands the lock to a starved waiter. Sync:
the application keeps calling `Sync`, requests that do not fail are answered, and
answers are handled; a stray request may never arrive.

Violation run. `wrap_stuck` checks `BreakReturns`, that breaking a paragraph ends.
It does not for a paragraph whose first line is narrower than the others and whose
first word is so long that it is split: the last piece takes the word's place and is
judged by the measure of the first line again, though it will stand on a later one.
Where it fits the width and not the first line, a round of the reconstruction loop
changes nothing and is repeated for ever. The comment at `wrap.go:595` says that the
rest "still fits". A run-in `.term` of pica has such a first line. The other
properties of Wrap are stated for the paragraphs that do return.

Other behaviour that a reader of the docs may not expect, which the models contain
and no invariant forbids:

- an import that is killed, or whose write fails, in the append of a chunk leaves the
  rows of the chunks before it and part of this one: its entries up to some date, and
  the keys of a chunk are dated in the order of a Go map. So the result is a prefix of
  the rows and, only if the import failed, at most one chunk's keys more: `ImportPrefix`;
- an entry whose append a kill interrupted is replayed from the page cache, and a
  retried PUSH finds it held and returns OK without a sync of its own, so until the
  next sync of the log a power loss can take it (`server.go:615`). Its writer has it
  still, and a later Sync sends it again;

- replay accepts records that their writer never synced, and the next append follows
  them; rollback ignores a truncation that fails, so a failed batch may be in the file
  until the next open. No acknowledged entry is at stake: `AckedSurvive` holds
  regardless;
- `init` of a log ignores a failed directory sync. On a filesystem whose fsync of a
  file does not make its name durable (`FsyncNamesFile = FALSE`), a power loss then
  takes acknowledged entries with the log;
- after the grace, `Config.Close` runs while a request may still be in flight. Serve
  returns an error in that case: `NilMeansDrained`;
- a vault whose log would not open at start is skipped, neither served nor revoked,
  and the next REGISTER takes it for new and rewrites its record with its own key and
  mark (`server.go:222`; `kv/PROTOCOL.t:249` has the mark fixed for good). So
  `BoundForever` is checked without that fault; `vault_cap` has it;
- `endLocked` returns on any error of `writeRecord`, also where the ended record is
  already in place and only its directory sync failed, so a vault may be served until
  the restart that ends it (`server.go:282`, whose comment says that nothing changed);
- the read-only mark is in memory: after a restart a PUSH may reach a loaded vault
  before its owner calls `SetNoPush` again (`owner.go:111` speaks of no window).
  `ReadOnlyHolds` is about the time from the call on;
- a new client's `lastTs` is 0 and not that of the store, so after a restart with the
  clock set back a write may be dated before an older one of the same device, and a
  `kv put` right after a `kv import` of many rows, which are dated ahead of the clock,
  may lose to them (`client.go:233`, `kv/CLIENT.t:54`). `LastWriteStands` is about one
  run of a client;
- a page that calls `sync()` in a loop in the browser keeps a sync that another call
  queued waiting;
- `flow` reserves room for a heading and the first two segments of the next block, and
  strands the heading when that block cannot be split there: one of three segments, or
  one with a lead-in. A run of headings is reserved without the half-lines that snap
  them to the grid;
- `Bind` merges an instance into a namespace of the same names (the facts `a.d:e.x` and
  `a:d.e.y`): `FactsBound` leaves such sets out;
- a number whose whole part is wider than the room left of the column's point is set
  whole and out of line: `PointsAligned` says when;
- `Draft.Row` also refuses a link that runs over two backgrounds, in its final Check;
- a client that dropped a vault it had not registered itself sends a REGISTER at its
  next Sync, and reports a rejected registration.

## Proofs

All are for any number of processes, requests, entries and keys, and any bounds.

**LogStore_proofs.** `IndInv` says that some prefix of the file is equal in the
page cache and on disk, parses, holds every acknowledged entry, and ends at or
before the offset of the open store. This is what makes `AckedSurvive` inductive:
no write starts, no truncation cuts and no power loss mixes before that prefix.
The lock, the stages of the holder and the provenance of every record complete it.
One lemma per action shows that it is kept; `MixFacts` and `WrittenFacts` say what
a power loss and a write may do to a file. From it: `LogDurable`, `LogMemory`, and
`LogImplements`, the refinement of EntrySet. They assume `FsyncNamesFile`: without
it TLC finds a power loss that takes a log's name.

**Durable_proofs.** `DurableInvariant`, then `DurableNeverTorn`, `DurableAcked` and
`DurableOneCreator`, together `DurableKept`. Landings are numbered; the invariant
orders them: nothing the directory may hold is behind what was acknowledged or ahead
of the last landing, and a call that has landed but not synced is not ahead of the
file. `DurableImplements` is the refinement of AtomicFile: a landing is a new version
because its data is synced and its number is ahead of all; a directory sync confirms
whatever is there, which is the call's own version or one that overtook it; all other
steps are hidden.

**KvServe_proofs.** `WaitSafe` shows that `NoLostWakeup`, with the types, is
inductive: what changes a vault empties `listening` in the same step.
`ServeWaitSafe` carries it to the whole process. `ServeDrained` needs that requests
come only while Serve accepts them or Shutdown waits for them, and that after
Shutdown returned with no error nothing is in flight.

**Merge_proofs.** `MergeInvariant`, then `MergeView`, `MergeIndex` and
`MergeLastWrite`. Ids are distinct, the index is a permutation of the entries in
canonical order (an insertion keeps it, whether it goes to the end or between two),
the view of each key is the greatest entry folded, and lastTs bounds the dates of
this run's writes.

**VaultServer_proofs.** `IndInv` says what a goroutine may rely on where it stands:
the section under Server.mu is its own, the vault it is creating is still in neither
map, the vault it ends is already refused, and a vaultState it looked up before it
took the vault's lock is that of a vault still served or ended since (`ThreadInv`).
Around it: the maps against the records (`MapInv`), a running process knows of every
vault that ended or is damaged (`TombInv`, why none revives), of every vault it ever
answered for (`BoundInv`), and of every vault with entries (`QuotaInv`); an ended log
waits for a start, a retry or a goroutine about to delete it (`LogInv`). `Bytes` adds
up over disjoint sets of entries, so the account a PUSH keeps is the sum. What the
theorems assume is what the code cannot do without, each a fault that another run
allows: `ServedVaultsLive` that no directory sync of a record fails (else `endLocked`
returns an error and serves on a vault whose record may say ended), `BindingsStand`
and `QuotasExact` that a start opens the log of every live vault (`loadVaults` skips
one it cannot open, and a REGISTER may then create it anew), `EndedLogsGone` that
deleting a log does not fail. `AckedEntriesKept`, `OwnerHasTheSay`, `NoVaultRevives`
and `CapHolds` assume nothing of the faults. Nor does `LogsAreStores`, which closes the
gap to LogStore: `LogStep` lists what a step may do to one vault's log, one lemma for
handlers and one for the process show that no step does more, and each alternative is
a step of EntrySet. It needs `ThreadInv` twice: a goroutine past its lookup that is not
refused under the lock has a vault still served, and a log is deleted only when its
vault is gone from the map. A death in an append does not disturb the quotas, since any
part of a batch that fits fits (`PartFits`).

**Sync_proofs.** What a client knows at each request: what it wrote and has not pushed
is in `recent` or in what this Sync took, and a PROBE covers the latter (`TakenFits`);
up to the cursor it holds all the walk began with, and a page leaves out nothing up to
its own end (`WalkFits`); a client that registered believes it (`EphFits`). Strays,
parts of pushes and of pages, and lost answers cost nothing here, since an answer is
used only by the request it answers. `CalmFits` is the argument that three rounds of
the 64 are enough: a Sync nobody disturbs pulls everything from the start in its
second round, pushes the rest, and finds the sets equal in its third, so
`ErrSyncStuck` needs another hand (`UndisturbedSyncEnds`, which assumes the switch
`Track` that makes the model keep the history the statement reads).

**JsClient_proofs.** Per tab: the shape of the queue, the client and the sync
(`ShapeOK`), the cached hash, the reads, what subscribers have heard, where each write
issued is (`NeedOK`, `FastOK`) and that memory is committed (`DiskOK`). Between tabs:
what is sent is committed, and `AgreeOK`: a row of the database is in a tab's memory,
in its channel, owed by a tab that has committed it and not yet told, or left by one
that was killed. `WritesArrive`, `TabsOneSet` and `PagesStayCurrent` follow with no
assumption on the faults.

**KvCommand_proofs.** A process that may write has the flock and in memory what is in
the log (`LockOK`); keys it has loaded are the device's (`KeyOK`); exit code 0 leaves
nothing unsynced (`WrittenOK`); an import has written what its first m rows come to
and holds rows m + 1 to n in its chunk, at most `ImportChunk` of them (`ImportOK`).
The lemma behind the last is `ShownAfter`: entries dated after all that a run wrote
replace what it shows of their keys and nothing else. For an append that was cut
short, `TornShows` says it of the part that was written. From it
`CommandsDoAsTheySay`; `DeviceKeepsKeys` is an action property.

Induction. The library's induction theorems take an operator, which the provers cannot
instantiate. Where a fact about all finite sets or all naturals is needed, its least
counterexample is taken instead, with `WFMin` and the well-foundedness of < on Nat or
of the strict subset order (`Bytes` of unions, greatest and least elements).

What the attempts showed of the models: two arms of a CASE in `StatusOf` overlapped and
meant one thing only in TLC's order, so it is a chain of conditions now, as are the
errors of Fact and Tbl; appends in VaultServer, Sync and KvCommand were whole or
nothing, which is more than EntrySet promises of a process that dies in one, and are
cut anywhere now; a batch that
is appended in canonical order is `InOrder`, a sequence with a stated property, where
it was computed by a recursive library operator; and the notes of KvCommand are a set,
as their order meant nothing.

Only model-checked: the liveness properties (`WakeAnswers`, `StopsWithoutTimers`,
`SignalStops`, `RequestsAnswered`, `Converges`), which rest on fairness and ENABLED,
out of the prover's reach; and the seven invariants of `algorithms`. These say what a
fold, a recursion or a dynamic program computes for every input, which is an induction
over its data: the prover's SMT backend takes no RECURSIVE operator (Lz4s, Raster, Row,
RowText, Wrap and Press have one), and the induction theorems of its library take an
operator no installed prover can instantiate.

## Not modelled, and the plan

Cryptography is abstracted: a frame that opens comes from a holder of its key, an id
identifies an entry, a set hash identifies a set. Argument parsing, wording, logging,
HTTP headers and rate limits are left out. So are, each for a reason given under
"components": the frame codecs of `kv/wire`, keys and sealing of `kv/vault`, the
ciphers and `golay` (bit-level, settled by known answers and exhaustive tests),
hyphenation patterns, pica's parser and writers and the PDF objects (text and bytes
spelled out in one pass), `kiosk`'s static files, and test helpers. Of `row`, the text
of strings, floats, bytes and lists, and of `fact`, the spelling of tokens and the JSON
form, are taken as read. `row.js` and `lz4s.js` are twins of the Go code.

What could come next:

1. A power loss in VaultServer, with the window described above between a replayed entry
   and the sync that makes it permanent, and an append whose failed rollback leaves its
   batch in the file (LogStore has both).
2. Lemmas about the operators of the algorithms that need no recursion: Over and Boxes
   of tables, Zigzag, FloorDiv and the calendar; they need these operators in modules of
   their own.
3. The frames of `kv/wire` against the statuses that Sync and VaultServer exchange.
