------------------------------- MODULE Durable -------------------------------
(***************************************************************************)
(* durable.WriteFile and durable.CreateFile: writers racing to replace or  *)
(* to create one file, through failing system calls, kills and power loss. *)
(*                                                                         *)
(* The file's contents are the landing they come from: landing 0 is the    *)
(* absent file, and each rename or link lands the next.  A landing is      *)
(* synced when the data of the file renamed was; one that is not may be    *)
(* torn by a power loss.  What the directory may hold after one is maybe:  *)
(* every landing since the last directory sync.                            *)
(***************************************************************************)
EXTENDS Integers, FiniteSets

CONSTANTS
    Proc,       \* processes
    MaxLand     \* bound: landings

ASSUME DurableConstants == MaxLand \in Nat

VARIABLES
    pc,         \* where each process is
    kind,       \* the call it makes: "write" or "create"
    tmp,        \* its temporary file
    mine,       \* the number of its landing
    file,       \* the file as processes see it
    maybe,      \* what it may be after a power loss
    last,       \* the number of landings so far
    acked,      \* history: the latest landing a call returned nil for
    created     \* history: CreateFile calls that returned nil

vars == <<pc, kind, tmp, mine, file, maybe, last, acked, created>>

Content == [n : Nat, synced : BOOLEAN]
Absent == [n |-> 0, synced |-> TRUE]
Steps == {"idle", "create", "chmod", "write", "sync", "close", "land", "unlink", "syncdir"}

TypeOK ==
    /\ pc \in [Proc -> Steps]
    /\ kind \in [Proc -> {"write", "create"}]
    /\ tmp \in [Proc -> {"none", "unsynced", "synced"}]
    /\ mine \in [Proc -> Nat]
    /\ file \in Content
    /\ maybe \in SUBSET Content
    /\ last \in Nat
    /\ acked \in Nat
    /\ created \in Nat

Init ==
    /\ pc = [p \in Proc |-> "idle"]
    /\ kind = [p \in Proc |-> "write"]
    /\ tmp = [p \in Proc |-> "none"]
    /\ mine = [p \in Proc |-> 0]
    /\ file = Absent
    /\ maybe = {Absent}
    /\ last = 0
    /\ acked = 0
    /\ created = 0

Goto(p, s) == pc' = [pc EXCEPT ![p] = s]

(* The call returns, its temporary file removed or renamed.                *)
Return(p) ==
    /\ Goto(p, "idle")
    /\ tmp' = [tmp EXCEPT ![p] = "none"]

-----------------------------------------------------------------------------
Call(p, k) ==
    /\ pc[p] = "idle"
    /\ Goto(p, "create")
    /\ kind' = [kind EXCEPT ![p] = k]
    /\ UNCHANGED <<tmp, mine, file, maybe, last, acked, created>>

(* os.CreateTemp, under a name of its own.                                 *)
CreateTemp(p) ==
    /\ pc[p] = "create"
    /\ \/ Goto(p, "chmod") /\ tmp' = [tmp EXCEPT ![p] = "unsynced"]
       \/ Return(p)
    /\ UNCHANGED <<kind, mine, file, maybe, last, acked, created>>

(* A failing call before the landing: the temporary file is removed.       *)
Fail(p) ==
    /\ Return(p)
    /\ UNCHANGED <<kind, mine, file, maybe, last, acked, created>>

(* f.Chmod and f.Write ...                                                 *)
WriteTemp(p) ==
    /\ pc[p] \in {"chmod", "write"}
    /\ \/ /\ Goto(p, IF pc[p] = "chmod" THEN "write" ELSE "sync")
          /\ UNCHANGED <<kind, tmp, mine, file, maybe, last, acked, created>>
       \/ Fail(p)

(* Mutation of SyncTemp: the data is not synced.                           *)
SyncTempSkipped(p) ==
    /\ pc[p] = "sync"
    /\ Goto(p, "close")
    /\ UNCHANGED <<kind, tmp, mine, file, maybe, last, acked, created>>

(* ... f.Sync ...                                                          *)
SyncTemp(p) ==
    /\ pc[p] = "sync"
    /\ \/ /\ Goto(p, "close")
          /\ tmp' = [tmp EXCEPT ![p] = "synced"]
          /\ UNCHANGED <<kind, mine, file, maybe, last, acked, created>>
       \/ Fail(p)

(* ... f.Close.                                                            *)
CloseTemp(p) ==
    /\ pc[p] = "close"
    /\ \/ /\ Goto(p, "land")
          /\ UNCHANGED <<kind, tmp, mine, file, maybe, last, acked, created>>
       \/ Fail(p)

(* The temporary file becomes the file: its contents are the next landing. *)
Lands(p) ==
    LET new == [n |-> last + 1, synced |-> tmp[p] = "synced"]
    IN  /\ last < MaxLand
        /\ last' = last + 1
        /\ mine' = [mine EXCEPT ![p] = last + 1]
        /\ file' = new
        /\ maybe' = maybe \cup {new}

(* os.Rename, which takes the temporary name away.                         *)
Rename(p) ==
    /\ pc[p] = "land" /\ kind[p] = "write"
    /\ \/ /\ Lands(p)
          /\ Goto(p, "syncdir")
          /\ tmp' = [tmp EXCEPT ![p] = "none"]
          /\ UNCHANGED <<kind, acked, created>>
       \/ Fail(p)

(* Mutation of Link: a rename, which replaces what is there.               *)
LinkOver(p) ==
    /\ pc[p] = "land" /\ kind[p] = "create"
    /\ Lands(p)
    /\ Goto(p, "unlink")
    /\ UNCHANGED <<kind, tmp, acked, created>>

(* os.Link, which fails if the file is there; the temporary name is        *)
(* removed either way.                                                     *)
Link(p) ==
    /\ pc[p] = "land" /\ kind[p] = "create"
    /\ \/ /\ file.n = 0
          /\ Lands(p)
          /\ Goto(p, "unlink")
          /\ UNCHANGED <<kind, tmp, acked, created>>
       \/ Fail(p)

Unlink(p) ==
    /\ pc[p] = "unlink"
    /\ Goto(p, "syncdir")
    /\ tmp' = [tmp EXCEPT ![p] = "none"]
    /\ UNCHANGED <<kind, mine, file, maybe, last, acked, created>>

Acknowledge(p) ==
    /\ acked' = IF mine[p] > acked THEN mine[p] ELSE acked
    /\ created' = IF kind[p] = "create" THEN created + 1 ELSE created

(* Mutation of SyncDir: its error is discarded.                            *)
SyncDirUnchecked(p) ==
    /\ pc[p] = "syncdir"
    /\ maybe' = {file} \/ UNCHANGED maybe
    /\ Acknowledge(p)
    /\ Return(p)
    /\ UNCHANGED <<kind, mine, file, last>>

(* SyncDir: nil only if the directory, with every landing so far, is on    *)
(* disk; its failure is returned, with the new contents in place.          *)
SyncDir(p) ==
    /\ pc[p] = "syncdir"
    /\ \/ maybe' = {file} /\ Acknowledge(p)
       \/ UNCHANGED <<maybe, acked, created>>
    /\ Return(p)
    /\ UNCHANGED <<kind, mine, file, last>>

-----------------------------------------------------------------------------
(* A process is killed.  Its temporary file stays, under a name that no    *)
(* later call uses.                                                        *)
Kill(p) ==
    /\ pc[p] # "idle"
    /\ Return(p)
    /\ UNCHANGED <<kind, mine, file, maybe, last, acked, created>>

(* Power loss: every process ends and the directory is as some landing     *)
(* since its last sync left it.                                            *)
PowerLoss ==
    /\ pc' = [p \in Proc |-> "idle"]
    /\ tmp' = [p \in Proc |-> "none"]
    /\ file' \in maybe
    /\ maybe' = {file'}
    /\ UNCHANGED <<kind, mine, last, acked, created>>

Step(p) ==
    \/ CreateTemp(p) \/ WriteTemp(p) \/ SyncTemp(p) \/ CloseTemp(p)
    \/ Rename(p) \/ Link(p) \/ Unlink(p) \/ SyncDir(p) \/ Kill(p)

Next ==
    \/ \E p \in Proc : Step(p) \/ \E k \in {"write", "create"} : Call(p, k)
    \/ PowerLoss

Spec == Init /\ [][Next]_vars

-----------------------------------------------------------------------------
(* A crash leaves either the old contents or the new, never a torn mix:    *)
(* whatever the file is or may become by a power loss, its data was synced *)
(* before it got its name.                                                 *)
NeverTorn == file.synced /\ \A c \in maybe : c.synced

(* The new contents are on disk when the call returns: neither a kill nor  *)
(* a power loss takes the file back behind a landing whose call returned   *)
(* nil, whatever other writers were doing.                                 *)
AckedDurable == file.n >= acked /\ \A c \in maybe : c.n >= acked

(* Of creators racing on one path exactly one succeeds, ever: CreateFile   *)
(* returns nil at most once, through crashes, and never after a WriteFile. *)
OneCreator == created <= 1

(* Whatever fails, races or crashes, a file of durable is whole, is not    *)
(* taken back behind what was acknowledged, and is created once.           *)
FileKept == NeverTorn /\ AckedDurable /\ OneCreator

(* The file as AtomicFile describes one: contents whose data was not       *)
(* synced are no version.                                                  *)
Version(c) == IF c.synced THEN c.n ELSE -1
Contract == INSTANCE AtomicFile WITH
    version <- Version(file),
    fallback <- {Version(c) : c \in maybe}

(* WriteFile and CreateFile, with their temporary files, renames and       *)
(* syncs, and the races and failures between them, look to every user of   *)
(* the path like atomic replacements of one file.                          *)
ImplementsAtomicFile == Contract!Spec

-----------------------------------------------------------------------------
(* The inductive invariant behind all three.                               *)
Landed(p) == pc[p] \in {"unlink", "syncdir"}
Creating(p) == Landed(p) /\ kind[p] = "create"

(* The data is synced before the file is closed, renamed or linked.        *)
SyncedInv == \A p \in Proc : pc[p] \in {"close", "land"} => tmp[p] = "synced"

(* Landings are in order: the file is one the directory may hold, none is  *)
(* behind what was acknowledged or ahead of the last, and none landed over *)
(* it and is behind a call that has yet to sync the directory.             *)
OrderInv ==
    /\ file \in maybe
    /\ \A c \in maybe : c.synced /\ acked <= c.n /\ c.n <= last
    /\ \A p \in Proc : Landed(p) => 0 < mine[p] /\ mine[p] <= file.n

(* One CreateFile at a time is past its link, and none once one succeeded. *)
CreateInv ==
    /\ created > 0 => acked > 0
    /\ \A p \in Proc : Creating(p) => created = 0
    /\ \A p, q \in Proc : Creating(p) /\ Creating(q) => p = q

IndInv == TypeOK /\ SyncedInv /\ OrderInv /\ CreateInv /\ OneCreator
=============================================================================
