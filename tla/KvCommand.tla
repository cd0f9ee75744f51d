------------------------------ MODULE KvCommand ------------------------------
(***************************************************************************)
(* kv/cmd/kv: invocations of the kv command on one KV_HOME, at the same    *)
(* time and after each other.  They share device.fact, which durable       *)
(* creates or replaces whole, and the entry log, whose flock an invocation *)
(* holds from openClient to its exit, the sync included.  A write of the   *)
(* log that fails or is cut short leaves a prefix of its batch (LogStore,  *)
(* EntrySet), a call of durable the new file in place or not (Durable), a  *)
(* sync part of its work done (Sync), and any process may be killed.       *)
(***************************************************************************)
EXTENDS Integers, Sequences, SequencesExt, FiniteSets, FiniteSetsExt, Functions

CONSTANTS
    Proc,       \* processes at one time
    Sessions,   \* sets of commands to be run together: a command is a record
                \* with a field cmd and its arguments
    None,       \* no device, no register key; the value of a tombstone
    ImportChunk,
    MaxFaults,  \* bound: failed writes and syncs, timeouts and kills
    MaxRuns,    \* bound: invocations
    MaxClock,   \* bound: milliseconds
    Key, Value, \* of entries
    RegisterKey,
    Remote,     \* keys and values other devices write
    MaxRemote   \* bound: entries of other devices

(* What device.fact holds, and the command lines.  A row of a CSV file is  *)
(* a key and a value, either of which may be empty, or is malformed.       *)
Malformed == <<>>
Device    == [rk: Nat, reg: RegisterKey \cup {None}]
CsvRow    == ((Key \cup {""}) \X (Value \cup {""})) \cup {Malformed}
Command   ==
    [cmd: {"init", "pair-blob", "backup", "sync", "ls", "search", "export"}]
    \cup [cmd: {"pair"}, dev: Device] \cup [cmd: {"set-register-key"}, reg: RegisterKey]
    \cup [cmd: {"get"}, key: Key] \cup [cmd: {"put"}, key: Key, val: Value]
    \cup [cmd: {"del"}, key: Key, force: BOOLEAN]
    \cup [cmd: {"import"}, rows: Seq(CsvRow)]

ASSUME KvConstants ==
    /\ ImportChunk \in Nat \ {0} /\ MaxRuns \in Nat /\ MaxClock \in Nat /\ MaxRemote \in Nat
    /\ MaxFaults \in Nat
    /\ Sessions \subseteq SUBSET Command /\ Remote \subseteq Key \X (Value \cup {None})
    /\ None \notin Proc \cup Device \cup Command \cup Value \cup RegisterKey

VARIABLES
    device,     \* device.fact: None, or its keys
    output,     \* the file of backup and export
    log,        \* the entries in entries.log
    server,     \* and on the server
    lock,       \* who has the log's flock, or None
    clock,
    proc,       \* the processes
    session,    \* the commands that are run
    runs,       \* invocations so far
    faults,     \* faults so far
    own,        \* history: entries written by this device, and by which run
    printed     \* history: blobs printed by init and pair-blob

vars  == <<device, output, log, server, lock, clock, proc, session, runs, faults, own, printed>>
files == <<device, output>>
world == <<server, clock, runs, session>>

(* An invocation: where it is, the keys it loaded, its client's memory,    *)
(* lastTs, the rows and the chunk of an import, and the number of its run. *)
Out == [pc |-> "exited", cmd |-> None, dev |-> None, mem |-> {}, last |-> 0,
        rows |-> <<>>, chunk |-> <<>>, run |-> 0, ok |-> TRUE]

(* KV_HOME is empty, or holds a vault made earlier.                        *)
Init ==
    /\ device \in {None, [rk |-> 0, reg |-> None]}
    /\ output = None /\ log = {} /\ server = {} /\ lock = None
    /\ clock = 1 /\ runs = 0 /\ faults = 0 /\ own = {} /\ printed = {}
    /\ proc = [p \in Proc |-> Out]
    /\ session \in Sessions

-----------------------------------------------------------------------------
(* The merged view of a set of entries.                                    *)
Before(e, f) == e.ts < f.ts \/ (e.ts = f.ts /\ e.id < f.id)
Winner(S, k) == {e \in S : e.key = k /\ \A f \in S : f.key = k => ~Before(e, f)}
Live(S, k)   == \E e \in Winner(S, k) : e.val # None
View(S)      == {e \in S : e \in Winner(S, e.key) /\ e.val # None}

Goes(p, r)   == proc' = [proc EXCEPT ![p] = r] /\ UNCHANGED faults
At(p, pc)    == proc[p].pc = pc
Is(p, cmds)  == proc[p].cmd.cmd \in cmds

(* The process ends, and its flock with it; because of a fault, or not.    *)
Gone(p, ok) ==
    /\ proc' = [proc EXCEPT ![p] = [Out EXCEPT !.cmd = proc[p].cmd, !.run = proc[p].run, !.ok = ok]]
    /\ lock' = IF lock = p THEN None ELSE lock
Exits(p, ok) == Gone(p, ok) /\ UNCHANGED faults
Fails(p)     == Gone(p, FALSE) /\ faults < MaxFaults /\ faults' = faults + 1

Start(p) ==
    /\ At(p, "exited") /\ runs < MaxRuns /\ runs' = runs + 1
    /\ \E c \in session :
          Goes(p, [Out EXCEPT !.cmd = c, !.run = runs + 1,
                              !.rows = IF c.cmd = "import" THEN c.rows ELSE <<>>,
                              !.pc = IF c.cmd \in {"init", "pair"} THEN "create" ELSE "load"])
    /\ UNCHANGED <<files, log, server, lock, clock, session, own, printed>>

-----------------------------------------------------------------------------
(* device.fact.                                                            *)

(* init draws a RootKey (no two draw the same), pair has one from a blob.  *)
NewDevice(p) ==
    IF Is(p, {"init"}) THEN [rk |-> proc[p].run, reg |-> None] ELSE proc[p].cmd.dev

(* Mutation of CreateVault: WriteFile where CreateFile should be.          *)
CreateVaultOver(p) ==
    /\ At(p, "create")
    /\ device' = NewDevice(p)
    /\ Goes(p, [proc[p] EXCEPT !.pc = "touch", !.dev = NewDevice(p)]) /\ UNCHANGED lock
    /\ UNCHANGED <<output, log, world, own, printed>>

(* Mutation of CreateVault: a file that exists is no error.                *)
CreateVaultUnsure(p) ==
    /\ At(p, "create")
    /\ device' = IF device = None THEN NewDevice(p) ELSE device
    /\ Goes(p, [proc[p] EXCEPT !.pc = "touch", !.dev = NewDevice(p)]) /\ UNCHANGED lock
    /\ UNCHANGED <<output, log, world, own, printed>>

(* createVault, up to its file: created whole, or refused.                 *)
CreateVault(p) ==
    /\ At(p, "create")
    /\ \/ device # None /\ Exits(p, FALSE) /\ UNCHANGED device
       \/ /\ device = None /\ device' = NewDevice(p)
          /\ Goes(p, [proc[p] EXCEPT !.pc = "touch", !.dev = NewDevice(p)]) /\ UNCHANGED lock
       \/ /\ device = None /\ Fails(p)
          /\ device' \in {None, NewDevice(p)}
    /\ UNCHANGED <<output, log, world, own, printed>>

(* createVault makes an empty log, if it can; init prints the pairing blob. *)
TouchLog(p) ==
    /\ At(p, "touch") /\ Exits(p, TRUE)
    /\ printed' = IF Is(p, {"init"}) THEN printed \cup {proc[p].dev.rk} ELSE printed
    /\ UNCHANGED <<files, log, world, own>>

(* loadDevice, first of every other command.                               *)
LoadDevice(p) ==
    /\ At(p, "load")
    /\ IF device = None
       THEN Exits(p, FALSE)
       ELSE /\ Goes(p, [proc[p] EXCEPT !.dev = device,
                  !.pc = CASE Is(p, {"pair-blob"}) -> "print"
                           [] Is(p, {"set-register-key", "backup"}) -> "write"
                           [] OTHER -> "open"])
            /\ UNCHANGED lock
    /\ UNCHANGED <<files, log, world, own, printed>>

PairBlob(p) ==
    /\ At(p, "print") /\ Exits(p, TRUE)
    /\ printed' = printed \cup {proc[p].dev.rk}
    /\ UNCHANGED <<files, log, world, own>>

(* durable.WriteFile: f is the file, f1 its new contents.                  *)
WriteFile(p, f, f1) ==
    \/ f' = f1 /\ Exits(p, TRUE)
    \/ (f' = f \/ f' = f1) /\ Fails(p)

(* runSetRegisterKey: device.fact as it was loaded, with the new key.      *)
SetRegisterKey(p) ==
    /\ At(p, "write") /\ Is(p, {"set-register-key"})
    /\ WriteFile(p, device, [proc[p].dev EXCEPT !.reg = proc[p].cmd.reg])
    /\ UNCHANGED <<output, log, world, own, printed>>

(* runBackup and runExport end in writeOutput.                             *)
WriteOutput(p) ==
    /\ At(p, "write") /\ Is(p, {"backup", "export"})
    /\ WriteFile(p, output, IF Is(p, {"backup"}) THEN [backup |-> proc[p].dev]
                                                ELSE [export |-> View(proc[p].mem)])
    /\ UNCHANGED <<device, log, world, own, printed>>

-----------------------------------------------------------------------------
(* The entry log.                                                          *)

Opened(p, S) == [proc[p] EXCEPT !.mem = S, !.pc =
    CASE Is(p, {"put", "del"}) -> "put"
      [] Is(p, {"import"}) -> "import"
      [] Is(p, {"sync"}) -> "sync"
      [] Is(p, {"export"}) -> "write"
      [] Is(p, {"get", "ls", "search"}) -> "read"]

(* Mutation of OpenClient: the log is read before its lock is had.         *)
OpenClientUnlocked(p) ==
    /\ At(p, "open")
    /\ \/ proc[p].mem = {} /\ log # {} /\ lock # None
          /\ Goes(p, [proc[p] EXCEPT !.mem = log]) /\ UNCHANGED lock
       \/ lock = None /\ lock' = p
          /\ Goes(p, Opened(p, IF proc[p].mem = {} THEN log ELSE proc[p].mem))
    /\ UNCHANGED <<files, log, world, own, printed>>

(* OpenLogStore waits for the flock, then replays the log; or lockWait     *)
(* passes, or the log cannot be read.                                      *)
OpenClient(p) ==
    /\ At(p, "open")
    /\ \/ lock = None /\ lock' = p /\ Goes(p, Opened(p, log))
       \/ lock # None /\ Fails(p)
    /\ UNCHANGED <<files, log, world, own, printed>>

(* Commands that answer from memory.                                       *)
Get(p) ==
    /\ At(p, "read") /\ Is(p, {"get"})
    /\ Exits(p, Live(proc[p].mem, proc[p].cmd.key))
    /\ UNCHANGED <<files, log, world, own, printed>>

LsOrSearch(p) ==
    /\ At(p, "read") /\ Is(p, {"ls", "search"}) /\ Exits(p, TRUE)
    /\ UNCHANGED <<files, log, world, own, printed>>

(* nextTs, n times.                                                        *)
NextTs(last, n) == IF clock > last THEN clock + n - 1 ELSE last + n

(* The ids of new entries are hashes: before or after those of their date. *)
Ids(ts) == LET S == {e.id : e \in {f \in log \cup server : f.ts = ts}}
           IN  IF S = {} THEN {0} ELSE {Min(S) - 1, Max(S) + 1}

(* The entries a client may seal for the pairs in kvs, a function, in any  *)
(* order.                                                                  *)
Sealed(last, kvs) ==
    LET ks == DOMAIN kvs
        Order == {f \in [ks -> 1..Cardinality(ks)] : IsInjective(f)}
        Seal(f, k, up) == LET ts == NextTs(last, f[k])
                          IN  [ts |-> ts, id |-> IF up THEN Max(Ids(ts)) ELSE Min(Ids(ts)),
                               key |-> k, val |-> kvs[k]]
    IN  {{Seal(f, k, up) : k \in ks} : f \in Order, up \in BOOLEAN}

(* The batch S of p is in the log.                                         *)
Logs(p, S) ==
    /\ log' = log \cup S
    /\ own' = own \cup
          {[e |-> e, run |-> proc[p].run,
            due |-> Live(log, e.key) \/ (Is(p, {"del"}) /\ proc[p].cmd.force)] : e \in S}

(* What an interrupted write leaves of a batch, which was sealed in the    *)
(* order of its dates.                                                     *)
Torn(new) == {{}} \cup {{e \in new : e.ts <= f.ts} : f \in new}

(* Client.record: one batch, then memory; the command goes on with r, or   *)
(* the write fails or is cut short and with it the command.                *)
Record(p, kvs, r) ==
    \E new \in Sealed(proc[p].last, kvs) :
       \/ /\ Logs(p, new)
          /\ Goes(p, [r EXCEPT !.mem = @ \cup new, !.last = NextTs(@, Cardinality(new))])
          /\ UNCHANGED lock
       \/ Fails(p) /\ \E S \in Torn(new) : Logs(p, S)

Put(p) ==
    /\ At(p, "put") /\ Is(p, {"put"})
    /\ Record(p, [k \in {proc[p].cmd.key} |-> proc[p].cmd.val], [proc[p] EXCEPT !.pc = "sync"])
    /\ UNCHANGED <<files, world, printed>>

(* An absent key is deleted by force only.                                 *)
Del(p) ==
    /\ At(p, "put") /\ Is(p, {"del"})
    /\ LET c == proc[p].cmd
       IN  IF ~c.force /\ ~Live(proc[p].mem, c.key)
           THEN Exits(p, FALSE) /\ UNCHANGED <<log, own>>
           ELSE Record(p, [k \in {c.key} |-> None], [proc[p] EXCEPT !.pc = "sync"])
    /\ UNCHANGED <<files, world, printed>>

(* Mutation of Row: the first row of a key in a chunk is kept.             *)
RowFirst(chunk, row) ==
    [k \in DOMAIN chunk \cup {row[1]} |-> IF k \in DOMAIN chunk THEN chunk[k] ELSE row[2]]

(* chunk[key] = value.                                                     *)
Row(chunk, row) ==
    [k \in DOMAIN chunk \cup {row[1]} |-> IF k = row[1] THEN row[2] ELSE chunk[k]]

(* What importCSV makes of a row, a key and a value: csv.Reader may fail.  *)
Usable(row) == row # Malformed /\ row[1] # "" /\ row[2] # ""

(* importCSV reads a row: it goes into the chunk, an empty key or value is *)
(* skipped, a malformed row ends the command, what was flushed staying.    *)
ImportRow(p) ==
    /\ At(p, "import") /\ proc[p].rows # <<>>
    /\ Cardinality(DOMAIN proc[p].chunk) < ImportChunk
    /\ LET row  == Head(proc[p].rows)
           rest == [proc[p] EXCEPT !.rows = Tail(@)]
       IN  IF row = Malformed
           THEN Exits(p, FALSE)
           ELSE /\ Goes(p, IF Usable(row) THEN [rest EXCEPT !.chunk = Row(@, row)] ELSE rest)
                /\ UNCHANGED lock
    /\ UNCHANGED <<files, log, world, own, printed>>

(* flush: a full chunk, or the last.                                       *)
ImportFlush(p) ==
    /\ At(p, "import")
    /\ \/ Cardinality(DOMAIN proc[p].chunk) >= ImportChunk
       \/ proc[p].rows = <<>>
    /\ Record(p, proc[p].chunk,
              [proc[p] EXCEPT !.chunk = <<>>, !.pc = IF proc[p].rows = <<>> THEN "sync" ELSE "import"])
    /\ UNCHANGED <<files, world, printed>>

(* Pages are pushed and pulled in canonical order.                         *)
PagesOf(D) == {{}} \cup {{e \in D : ~Before(f, e)} : f \in D}

(* Mutation of SyncOnce: an error of Sync is not the command's.            *)
SyncOnceQuiet(p) ==
    /\ At(p, "sync")
    /\ \E S \in PagesOf(log \ server), T \in PagesOf(server \ log) :
          /\ server' = server \cup S /\ log' = log \cup T
          /\ Exits(p, TRUE)
    /\ UNCHANGED <<files, clock, session, runs, own, printed>>

(* syncOnce: both sets are equal, or part was pushed and pulled.           *)
SyncOnce(p) ==
    /\ At(p, "sync")
    /\ \E S \in PagesOf(log \ server), T \in PagesOf(server \ log) :
          /\ server' = server \cup S /\ log' = log \cup T
          /\ \/ server' = log' /\ Exits(p, TRUE)
             \/ Fails(p)
    /\ UNCHANGED <<files, clock, session, runs, own, printed>>

-----------------------------------------------------------------------------
Kill(p) ==
    /\ ~At(p, "exited") /\ Fails(p)
    /\ UNCHANGED <<files, log, world, own, printed>>

Tick == clock < MaxClock /\ clock' = clock + 1
        /\ UNCHANGED <<files, log, server, lock, proc, session, runs, faults, own, printed>>

(* Another device writes, its clock near ours.                             *)
RemoteWrite(k, v) ==
    /\ Cardinality(server \ {o.e : o \in own}) < MaxRemote
    /\ \E id \in Ids(clock) :
          server' = server \cup {[ts |-> clock, id |-> id, key |-> k, val |-> v]}
    /\ UNCHANGED <<files, log, lock, clock, proc, session, runs, faults, own, printed>>

Step(p) ==
    \/ Start(p) \/ CreateVault(p) \/ TouchLog(p) \/ LoadDevice(p) \/ PairBlob(p)
    \/ SetRegisterKey(p) \/ WriteOutput(p) \/ OpenClient(p) \/ Get(p) \/ LsOrSearch(p)
    \/ Put(p) \/ Del(p) \/ ImportRow(p) \/ ImportFlush(p) \/ SyncOnce(p) \/ Kill(p)

Next ==
    \/ \E p \in Proc : Step(p)
    \/ Tick
    \/ \E r \in Remote : RemoteWrite(r[1], r[2])

Spec == Init /\ [][Next]_vars

-----------------------------------------------------------------------------
(* Once a device has a RootKey it keeps it, and does not go back to having *)
(* no register key, whatever inits, pairs and set-register-keys overlap    *)
(* (createVault; runSetRegisterKey rewrites what it loaded).               *)
KeysStay ==
    [][device # None => /\ device'.rk = device.rk
                        /\ device.reg # None => device'.reg # None]_vars

(* A pairing blob that was printed is this device's: no init that lost a   *)
(* race has shown the key of a vault that does not exist (runInit).        *)
PrintedIsKey == \A b \in printed : device # None /\ device.rk = b

(* What the command's run wrote.                                           *)
WrittenBy(n) == {o.e : o \in {w \in own : w.run = n}}

(* A command that exits with 0 has put all it wrote on the server, with    *)
(* whatever earlier commands left behind (runPut, runDel, runImport).      *)
ExitZeroSynced ==
    \A p \in Proc : At(p, "exited") /\ proc[p].ok /\ WrittenBy(proc[p].run) # {} =>
        WrittenBy(proc[p].run) \subseteq log \cap server

(* The last usable row of each key among the first n rows.                 *)
LastRows(rows, n) ==
    {rows[i] : i \in {j \in 1..n : Usable(rows[j]) /\ \A m \in (j + 1)..n :
                         ~(Usable(rows[m]) /\ rows[m][1] = rows[j][1])}}

(* Of the keys of rows m + 1 to n, at most a chunk of them, some have the  *)
(* value these rows give them; all others have that of the first m rows.   *)
PartOf(wins, rows, m, n) ==
    /\ wins \subseteq LastRows(rows, m) \cup LastRows(rows, n)
    /\ \A w \in LastRows(rows, m) : \E v \in wins : v[1] = w[1]
    /\ Cardinality({rows[i][1] : i \in {j \in (m + 1)..n : Usable(rows[j])}}) <= ImportChunk

(* An import has in the log what a prefix of its rows comes to, a key that *)
(* appears twice taking its later row, across chunks too; one that exits   *)
(* with 0 has that of all rows.  Wherever it is killed or fails, only keys *)
(* of the next chunk can differ, and have their value in it.  No import    *)
(* makes a tombstone (importCSV).                                          *)
ImportPrefix ==
    \A p \in Proc : proc[p].cmd # None /\ Is(p, {"import"}) =>
        LET rows == proc[p].cmd.rows
            wins == {<<e.key, e.val>> : e \in View(WrittenBy(proc[p].run))}
            exited == At(p, "exited")
        IN  \E m \in 0..Len(rows) :
               \/ wins = LastRows(rows, m) /\ (exited /\ proc[p].ok => m = Len(rows))
               \/ exited /\ ~proc[p].ok /\ \E n \in m..Len(rows) : PartOf(wins, rows, m, n)

(* Without -f, a tombstone is written only for a key that is live in the   *)
(* log as it is at that time, not as it was when the command began         *)
(* (runDel, under the flock of openClient).                                *)
DelOnlyLive == \A o \in own : o.e.val = None => o.due

(* A command does what its exit and its rows say, whatever overlaps it or  *)
(* ends it: what it printed, exit codes, imports and deletions.            *)
CommandsExact == PrintedIsKey /\ ExitZeroSynced /\ ImportPrefix /\ DelOnlyLive
=============================================================================
