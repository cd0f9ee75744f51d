------------------------------ MODULE LogStore ------------------------------
(***************************************************************************)
(* kv/store's LogStore: one append-only log file that processes open under *)
(* an exclusive flock, replay, append to and close, with kills of single   *)
(* processes and power loss of the machine between any two system calls.   *)
(*                                                                         *)
(* The file is its magic header followed by slots.  A slot is an entry     *)
(* whose record parses, or Torn: bytes replay cannot parse (a short        *)
(* prefix, a zero or wild length, a short or unparsable body).  The page   *)
(* cache (header, cache) is what every process reads back; the disk        *)
(* (stableHeader, disk) is what the last successful fsync put there.       *)
(***************************************************************************)
EXTENDS Naturals, Sequences, FiniteSets

CONSTANTS
    Entry,            \* the entries that may be added
    Proc,             \* processes that open the log
    NoProc,           \* nobody holds the flock
    Torn,             \* a slot that does not parse
    Faults,           \* system calls that may fail, of AllFaults
    PowerCuts,        \* the machine may lose power (BOOLEAN)
    FsyncNamesFile    \* fsync of a new file also makes its name durable

AllFaults == {"write", "fsync", "truncate", "syncdir"}

ASSUME LogConstants ==
    /\ NoProc \notin Proc
    /\ Torn \notin Entry
    /\ Faults \subseteq AllFaults
    /\ PowerCuts \in BOOLEAN
    /\ FsyncNamesFile \in BOOLEAN

VARIABLES
    header,           \* the magic as read back: "none", "bad" or "whole"
    stableHeader,     \* the magic on the disk
    cache,            \* the slots as read back
    disk,             \* the slots on the disk
    named,            \* the file's directory entry is on the disk
    lock,             \* the process that holds the flock, or NoProc
    pc,               \* where each process is
    mem,              \* the holder's in-memory set (MemStore.has)
    pos,              \* the holder's file offset, in slots
    batch,            \* the records of the holder's Add under way
    acked,            \* history: entries an Add wrote and returned nil for
    offered           \* history: entries an Add tried to write

file == <<header, stableHeader, cache, disk, named>>
holder == <<mem, pos, batch>>
history == <<acked, offered>>
vars == <<file, lock, pc, holder, history>>

Slot == Entry \cup {Torn}
HeaderState == {"none", "bad", "whole"}
Stage == {"closed", "locking", "init", "syncmagic", "syncdir",
          "open", "written", "failed"}

TypeOK ==
    /\ header \in HeaderState
    /\ stableHeader \in HeaderState
    /\ cache \in Seq(Slot)
    /\ disk \in Seq(Slot)
    /\ named \in BOOLEAN
    /\ lock \in Proc \cup {NoProc}
    /\ pc \in [Proc -> Stage]
    /\ mem \in SUBSET Entry
    /\ pos \in Nat
    /\ batch \in Seq(Entry)
    /\ acked \in SUBSET Entry
    /\ offered \in SUBSET Entry

-----------------------------------------------------------------------------
(* Slots 1..n of f all parse.                                              *)
Parses(f, n) == n <= Len(f) /\ \A i \in 1..n : f[i] # Torn

(* Replay of f reads its first n records: all parse, and the next, if any, *)
(* does not.                                                               *)
ReplayEnds(f, n) == Parses(f, n) /\ (n < Len(f) => f[n + 1] = Torn)

(* The entries in the first n slots of f.                                  *)
Records(f, n) == {f[i] : i \in 1..n}

(* The entries replay finds in a file with header h and slots f.           *)
Recovered(h, f) ==
    IF h = "whole" THEN {f[i] : i \in {j \in 1..Len(f) : Parses(f, j)}} ELSE {}

(* The contents a power loss may leave of a file read back as c with d on  *)
(* the disk: slot by slot what either has, or, where they differ, neither. *)
Mix(c, d) ==
    LET Here(f, i) == IF i <= Len(f) THEN {f[i]} ELSE {}
        Choice(i) ==
            IF i <= Len(c) /\ i <= Len(d) /\ c[i] = d[i]
            THEN {c[i]}
            ELSE Here(c, i) \cup Here(d, i) \cup {Torn}
        Lengths == {n \in 0..(Len(c) + Len(d)) :
                        (n >= Len(c) \/ n >= Len(d)) /\ (n <= Len(c) \/ n <= Len(d))}
    IN  UNION {{f \in [1..n -> Slot] : \A i \in 1..n : f[i] \in Choice(i)} :
                   n \in Lengths}

MixHeader(h, s) == IF h = s THEN {h} ELSE HeaderState

(* The file f after news is written at slot offset p.  Bytes a failed      *)
(* truncation left beyond p are overwritten; what is left after the new    *)
(* records is still on a record boundary, or is not and does not parse.    *)
Written(f, p, news) ==
    LET upto == p + Len(news)
        length == IF Len(f) > upto THEN Len(f) ELSE upto
        Put(aligned) ==
            [i \in 1..length |->
                IF i <= p THEN f[i]
                ELSE IF i <= upto THEN news[i - p]
                ELSE IF i = upto + 1 /\ ~aligned THEN Torn ELSE f[i]]
    IN  {Put(aligned) : aligned \in BOOLEAN}

(* What a write of news that failed part way may have left.                *)
PartlyWritten(f, p, news) ==
    UNION {Written(f, p, SubSeq(news, 1, n)) \cup Written(f, p, SubSeq(news, 1, n) \o <<Torn>>) :
               n \in 0..(Len(news) - 1)}

(* The duplicate-free orders in which a set of entries can be passed.      *)
Orders(S) == {s \in [1..Cardinality(S) -> S] : \A i, j \in DOMAIN s : s[i] = s[j] => i = j}

At(p, stage) == pc[p] = stage
Goto(p, stage) == pc' = [pc EXCEPT ![p] = stage]

(* The LogStore value is gone: its memory, offset and locals with it.      *)
Forget == mem' = {} /\ pos' = 0 /\ batch' = <<>>
Release(p) == Goto(p, "closed") /\ lock' = NoProc /\ Forget

-----------------------------------------------------------------------------
Init ==
    /\ header = "none"
    /\ stableHeader = "none"
    /\ cache = <<>>
    /\ disk = <<>>
    /\ named = FALSE
    /\ lock = NoProc
    /\ pc = [p \in Proc |-> "closed"]
    /\ mem = {}
    /\ pos = 0
    /\ batch = <<>>
    /\ acked = {}
    /\ offered = {}

(* OpenLogStore: the directory and the file are created if missing, then   *)
(* lockFileWait asks for the flock until it has it or lockWait elapses.    *)
OpenFile(p) ==
    /\ At(p, "closed")
    /\ Goto(p, "locking")
    /\ UNCHANGED <<file, lock, holder, history>>

LockFile(p) ==
    /\ At(p, "locking")
    /\ lock = NoProc
    /\ lock' = p
    /\ Goto(p, "init")
    /\ UNCHANGED <<file, holder, history>>

LockTimesOut(p) ==
    /\ At(p, "locking")
    /\ lock # NoProc
    /\ Goto(p, "closed")
    /\ UNCHANGED <<file, lock, holder, history>>

(* init on an empty file: write the magic, sync it, sync the directory,    *)
(* each a step a crash can follow.  SyncDir's error is discarded.          *)
WriteMagic(p) ==
    /\ At(p, "init")
    /\ header = "none"
    /\ \/ /\ header' = "whole"
          /\ Goto(p, "syncmagic")
          /\ UNCHANGED <<lock, holder>>
       \/ /\ "write" \in Faults
          /\ header' \in {"none", "bad"}
          /\ Release(p)
    /\ UNCHANGED <<stableHeader, cache, disk, named, history>>

SyncMagic(p) ==
    /\ At(p, "syncmagic")
    /\ \/ /\ stableHeader' = header
          /\ named' = (named \/ FsyncNamesFile)
          /\ Goto(p, "syncdir")
          /\ UNCHANGED <<lock, holder>>
       \/ /\ "fsync" \in Faults
          /\ Release(p)
          /\ UNCHANGED <<stableHeader, named>>
    /\ UNCHANGED <<header, cache, disk, history>>

SyncLogDir(p) ==
    /\ At(p, "syncdir")
    /\ \/ named' = TRUE
       \/ "syncdir" \in Faults /\ UNCHANGED named
    /\ Goto(p, "open")
    /\ UNCHANGED <<header, stableHeader, cache, disk, lock, holder, history>>

(* init on a file whose header is short or wrong: ErrBadMagic.             *)
RejectMagic(p) ==
    /\ At(p, "init")
    /\ header = "bad"
    /\ Release(p)
    /\ UNCHANGED <<file, history>>

(* init on a log: replay every record up to the first bad one, and cut the *)
(* file there.  A failed truncation fails the open.                        *)
Replay(p) ==
    /\ At(p, "init")
    /\ header = "whole"
    /\ \E n \in 0..Len(cache) :
          /\ ReplayEnds(cache, n)
          /\ \/ /\ cache' = SubSeq(cache, 1, n)
                /\ mem' = Records(cache, n)
                /\ pos' = n
                /\ Goto(p, "open")
                /\ UNCHANGED <<lock, batch>>
             \/ /\ "truncate" \in Faults
                /\ n < Len(cache)
                /\ Release(p)
                /\ UNCHANGED cache
    /\ UNCHANGED <<header, stableHeader, disk, named, history>>

(* Mutation of AddWrite: memory is filled before the batch is synced.      *)
AddWriteToMemory(p) ==
    /\ At(p, "open")
    /\ \E S \in SUBSET Entry : \E news \in Orders(S \ mem) :
          /\ S \ mem # {}
          /\ batch' = news
          /\ cache' \in Written(cache, pos, news)
          /\ mem' = mem \cup S
          /\ offered' = offered \cup S
    /\ Goto(p, "written")
    /\ UNCHANGED <<header, stableHeader, disk, named, lock, pos, acked>>

(* Add: the entries not yet held go to the file in one write.  A call with *)
(* nothing new returns at once, touching neither file nor memory.          *)
AddWrite(p) ==
    /\ At(p, "open")
    /\ \E S \in SUBSET Entry :
          LET new == S \ mem
          IN  /\ IsFiniteSet(S)
              /\ new # {}
              /\ \E news \in Orders(new) :
                    /\ \/ /\ cache' \in Written(cache, pos, news)
                          /\ batch' = news
                          /\ Goto(p, "written")
                       \/ /\ "write" \in Faults
                          /\ batch' = <<>>
                          /\ cache' \in PartlyWritten(cache, pos, news)
                          /\ Goto(p, "failed")
              /\ offered' = offered \cup new
    /\ UNCHANGED <<header, stableHeader, disk, named, lock, mem, pos, acked>>

(* Mutation of AddSync: the batch is acknowledged without the fsync.       *)
AddSyncSkipped(p) ==
    /\ At(p, "written")
    /\ mem' = mem \cup Records(batch, Len(batch))
    /\ pos' = pos + Len(batch)
    /\ acked' = acked \cup Records(batch, Len(batch))
    /\ batch' = <<>>
    /\ Goto(p, "open")
    /\ UNCHANGED <<file, lock, offered>>

(* Add's Sync and, when it succeeds, its insertions into memory.           *)
AddSync(p) ==
    /\ At(p, "written")
    /\ \/ /\ disk' = cache
          /\ stableHeader' = header
          /\ named' = (named \/ FsyncNamesFile)
          /\ mem' = mem \cup Records(batch, Len(batch))
          /\ pos' = pos + Len(batch)
          /\ acked' = acked \cup Records(batch, Len(batch))
          /\ Goto(p, "open")
       \/ /\ "fsync" \in Faults
          /\ disk' \in Mix(cache, disk)
          /\ Goto(p, "failed")
          /\ UNCHANGED <<stableHeader, named, mem, pos, acked>>
    /\ batch' = <<>>
    /\ UNCHANGED <<header, cache, lock, offered>>

(* Mutation of Rollback: the offset is left where the write ended.         *)
RollbackNoSeek(p) ==
    /\ At(p, "failed")
    /\ \/ cache' = SubSeq(cache, 1, pos)
       \/ "truncate" \in Faults /\ UNCHANGED cache
    /\ pos' = Len(cache)
    /\ Goto(p, "open")
    /\ UNCHANGED <<header, stableHeader, disk, named, lock, mem, batch, history>>

(* rollback after a failed write or sync: truncate, best effort, and seek  *)
(* back.  The offset in memory never moved, so only the file changes.      *)
Rollback(p) ==
    /\ At(p, "failed")
    /\ \/ cache' = SubSeq(cache, 1, pos)
       \/ "truncate" \in Faults /\ UNCHANGED cache
    /\ Goto(p, "open")
    /\ UNCHANGED <<header, stableHeader, disk, named, lock, holder, history>>

Close(p) ==
    /\ At(p, "open")
    /\ Release(p)
    /\ UNCHANGED <<file, history>>

(* A process is killed: its flock goes with it, the page cache stays.      *)
Kill(p) ==
    /\ ~At(p, "closed")
    /\ Goto(p, "closed")
    /\ IF lock = p
       THEN lock' = NoProc /\ Forget
       ELSE UNCHANGED <<lock, holder>>
    /\ UNCHANGED <<file, history>>

(* Power loss: every process dies, and the file is what the disk makes of  *)
(* it.  A file whose name is not durable may be gone altogether.           *)
PowerLoss ==
    /\ PowerCuts
    /\ pc' = [p \in Proc |-> "closed"]
    /\ lock' = NoProc
    /\ Forget
    /\ \/ /\ header' \in MixHeader(header, stableHeader)
          /\ stableHeader' = header'
          /\ cache' \in IF header' = "whole" THEN Mix(cache, disk) ELSE {<<>>}
          /\ disk' = cache'
          /\ named' = (header' # "none")
       \/ /\ ~named
          /\ header' = "none"
          /\ stableHeader' = "none"
          /\ cache' = <<>>
          /\ disk' = <<>>
          /\ named' = FALSE
    /\ UNCHANGED history

Next ==
    \/ \E p \in Proc :
          \/ OpenFile(p) \/ LockFile(p) \/ LockTimesOut(p)
          \/ WriteMagic(p) \/ SyncMagic(p) \/ SyncLogDir(p)
          \/ RejectMagic(p) \/ Replay(p)
          \/ AddWrite(p) \/ AddSync(p) \/ Rollback(p)
          \/ Close(p) \/ Kill(p)
    \/ PowerLoss

Spec == Init /\ [][Next]_vars

-----------------------------------------------------------------------------
Opened(p) == pc[p] \in {"open", "written", "failed"}
IsOpen == \E p \in Proc : Opened(p)

(* No acknowledged entry can be lost: replay finds every entry that an Add *)
(* wrote and returned nil for, in the file as it stands (a kill now, at    *)
(* any system call of open, replay, append or rollback) and in every file  *)
(* a power loss now could leave.  chaos_test.go states the kill half.      *)
AckedSurvive ==
    /\ acked \subseteq Recovered(header, cache)
    /\ \A h \in MixHeader(header, stableHeader), f \in Mix(cache, disk) :
          acked \subseteq Recovered(h, f)
    /\ acked # {} => named

(* An open store's memory is what replay would read of the slots before    *)
(* its offset, and every acknowledged entry is among them: neither a torn  *)
(* tail another process left nor a failed call of its own shifts it.       *)
MemoryIsLog ==
    \A p \in Proc : Opened(p) =>
        /\ lock = p
        /\ Parses(cache, pos)
        /\ mem = Records(cache, pos)
        /\ acked \subseteq mem

(* An open log implements the Store contract: the set its user sees only   *)
(* grows by committed batches, and a reopen shows everything committed and *)
(* nothing that was never offered.                                         *)
Contract == INSTANCE EntrySet WITH
    committed <- acked,
    shown <- IF IsOpen THEN mem ELSE {},
    isOpen <- IsOpen

ImplementsEntrySet == Contract!Spec

-----------------------------------------------------------------------------
(* The inductive invariant behind AckedSurvive and MemoryIsLog.            *)

Locked(p) == pc[p] \notin {"closed", "locking"}

(* The flock: whoever is past lockFileWait holds it.                       *)
LockInv == \A p \in Proc : Locked(p) <=> lock = p

(* What the stage of the holder says of its memory and of the file.        *)
HolderInv ==
    /\ IsOpen => header = "whole" /\ Parses(cache, pos) /\ mem = Records(cache, pos)
    /\ ~IsOpen => mem = {} /\ pos = 0
    /\ \A p \in Proc :
          /\ At(p, "written") =>
                /\ pos + Len(batch) <= Len(cache)
                /\ \A i \in 1..Len(batch) : cache[pos + i] = batch[i]
          /\ pc[p] \in {"syncmagic", "syncdir"} => header = "whole" /\ cache = <<>>
    /\ header # "whole" => cache = <<>>

(* Some prefix of the log, k slots, is the same in the page cache and on   *)
(* the disk, parses, holds every acknowledged entry, and ends before the   *)
(* offset of the open store: no write, truncation or power loss alters it. *)
Stable(k) ==
    /\ k \in Nat
    /\ k <= Len(disk)
    /\ Parses(cache, k)
    /\ \A i \in 1..k : disk[i] = cache[i]
    /\ acked \subseteq Records(cache, k)
    /\ IsOpen => k <= pos

StableInv ==
    /\ \E k \in 0..Len(cache) : Stable(k)
    /\ acked # {} => header = "whole" /\ stableHeader = "whole" /\ named

(* Nothing is in the file that no Add was called with.                     *)
OfferedInv ==
    /\ acked \subseteq offered
    /\ Records(batch, Len(batch)) \subseteq offered
    /\ Records(cache, Len(cache)) \subseteq offered \cup {Torn}
    /\ Records(disk, Len(disk)) \subseteq offered \cup {Torn}

IndInv == TypeOK /\ LockInv /\ HolderInv /\ StableInv /\ OfferedInv
=============================================================================
