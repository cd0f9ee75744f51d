----------------------------- MODULE VaultServer -----------------------------
(***************************************************************************)
(* kv/server: the life of vaults on one server.  Handlers of REGISTER,     *)
(* SYNC (PROBE, PULL, PUSH, DROP) and the owner API run concurrently under *)
(* two locks (Server.mu, then vaultState.mu); every vault has a record and *)
(* an entry log on disk; the process may die between any two disk writes   *)
(* and start again.                                                        *)
(*                                                                         *)
(* Server.mu is the variable mu where a critical section takes several     *)
(* steps.  A section under vaultState.mu is one step.  Within one process  *)
(* a vault id has at most one vaultState (an ended vault is never created  *)
(* again), so a handler's pointer to it is its id, and a stale pointer is  *)
(* one whose id is in gone.  Entry logs follow the EntrySet contract that  *)
(* LogStore implements; a process that dies in an append leaves part of it *)
(* on disk.  Frames that open under no key (BAD_AUTH) change nothing and   *)
(* do not arrive.                                                          *)
(***************************************************************************)
EXTENDS Naturals, FiniteSets, FiniteSetsExt

CONSTANTS
    Vault,              \* vault ids
    Key,                \* AuthKeys
    Entry,              \* entries
    Thread,             \* goroutines handling requests
    NoThread,           \* Server.mu is free
    MaxEntries,         \* Quotas.MaxEntries
    MaxVaultBytes,      \* Quotas.MaxVaultBytes
    MaxVaults,          \* Quotas.MaxVaults
    TTL,                \* Quotas.EphemeralTTLMs
    Skew,               \* Quotas.TSSkewMs
    MaxTime,            \* bound: the last value of the clock
    Size,               \* the size of each entry
    Ts,                 \* the timestamp of each entry
    Ops,                \* the operations that arrive, of AllOps
    Faults              \* the disk operations that may fail, of AllFaults

AllOps == {"register", "push", "pull", "drop", "ensure", "ownerdrop", "add", "nopush"}
AllFaults == {"record", "recordsync", "openlog", "loadlog", "remove", "append", "damage"}

ASSUME ServerConstants ==
    /\ NoThread \notin Thread
    /\ MaxEntries \in Nat /\ MaxVaultBytes \in Nat /\ MaxVaults \in Nat
    /\ TTL \in Nat /\ Skew \in Nat /\ MaxTime \in Nat
    /\ IsFiniteSet(Entry)
    /\ Size \in [Entry -> Nat]
    /\ Ts \in [Entry -> Nat]
    /\ Ops \subseteq AllOps
    /\ Faults \subseteq AllFaults

VARIABLES
    clock,      \* the server's clock
    rec,        \* vault.fact of each vault
    haslog,     \* the vaults whose entries.log exists
    elog,       \* the entries in it, and in the open store
    stage,      \* the process: "down", "loading", "up"
    toload,     \* directories loadPersistedVaults has not read yet
    served,     \* Server.vaults
    revoked,    \* Server.revoked
    gone,       \* vaults whose vaultState.gone is set
    st,         \* the vaultState of each vault
    mu,         \* the goroutine in a section under Server.mu, or NoThread
    th,         \* each goroutine's request and where it is
    acked,      \* history: entries a PUSH or AddEntries succeeded with
    bound,      \* history: the record a REGISTER or EnsureVault succeeded with
    ownerEnded, \* history: vaults the owner or the operator ended
    readonly,   \* history: vaults the owner of this process last set no-push
    leaked      \* history: new entries a PUSH added to a readonly vault

disk == <<rec, haslog, elog>>
memory == <<served, revoked, gone, st>>
history == <<acked, bound, ownerEnded, readonly, leaked>>
vars == <<clock, disk, stage, toload, memory, mu, th, history>>

-----------------------------------------------------------------------------
NoKey == "no key"
Record == [state : {"none", "live", "ended", "bad"}, key : Key \cup {NoKey},
           eph : BOOLEAN, created : Nat]
NoRecord == [state |-> "none", key |-> NoKey, eph |-> FALSE, created |-> 0]
LiveRecord(k, e) == [state |-> "live", key |-> k, eph |-> e, created |-> clock]

State == [key : Key \cup {NoKey}, eph : BOOLEAN, created : Nat, bytes : Nat, noPush : BOOLEAN]
NoState == [key |-> NoKey, eph |-> FALSE, created |-> 0, bytes |-> 0, noPush |-> FALSE]

Idle == [pc |-> "idle"]
Request == [pc : {"start", "sweep", "create", "openlog", "remove", "expire", "ending", "op"},
            op : AllOps, v : Vault, key : Key, flag : BOOLEAN, es : SUBSET Entry,
            ending : Vault, then : {"idle", "sweep"}]

TypeOK ==
    /\ clock \in 0..MaxTime
    /\ rec \in [Vault -> Record]
    /\ haslog \in SUBSET Vault
    /\ elog \in [Vault -> SUBSET Entry]
    /\ stage \in {"down", "loading", "up"}
    /\ toload \in SUBSET Vault
    /\ served \in SUBSET Vault
    /\ revoked \in SUBSET Vault
    /\ gone \in SUBSET Vault
    /\ st \in [Vault -> State]
    /\ mu \in Thread \cup {NoThread}
    /\ th \in [Thread -> Request \cup {Idle}]
    /\ acked \in [Vault -> SUBSET Entry]
    /\ bound \in [Vault -> Record]
    /\ ownerEnded \in SUBSET Vault
    /\ readonly \in SUBSET Vault
    /\ leaked \in SUBSET Vault

Bytes(S) == MapThenSumSet(LAMBDA e : Size[e], S)

(* expired: an ephemeral vault past its lifetime.                          *)
Expired(v) == st[v].eph /\ clock >= st[v].created + TTL

At(t, pc) == th[t].pc = pc
Goto(t, pc) == th' = [th EXCEPT ![t].pc = pc]
Reply(t) == th' = [th EXCEPT ![t] = Idle]
Lock(t) == mu = NoThread /\ mu' = t
Unlock == mu' = NoThread

-----------------------------------------------------------------------------
Init ==
    /\ clock = 0
    /\ rec = [v \in Vault |-> NoRecord]
    /\ haslog = {}
    /\ elog = [v \in Vault |-> {}]
    /\ stage = "down"
    /\ toload = {}
    /\ served = {}
    /\ revoked = {}
    /\ gone = {}
    /\ st = [v \in Vault |-> NoState]
    /\ mu = NoThread
    /\ th = [t \in Thread |-> Idle]
    /\ acked = [v \in Vault |-> {}]
    /\ bound = [v \in Vault |-> NoRecord]
    /\ ownerEnded = {}
    /\ readonly = {}
    /\ leaked = {}

Tick ==
    /\ clock < MaxTime
    /\ clock' = clock + 1
    /\ UNCHANGED <<disk, stage, toload, memory, mu, th, history>>

-----------------------------------------------------------------------------
(* Mutation of EndVault: the ended vault stays in the map.                 *)
EndVaultKeepServing(v) ==
    /\ rec' = [rec EXCEPT ![v].state = "ended"]
    /\ revoked' = revoked \cup {v}
    /\ gone' = gone \cup {v}
    /\ UNCHANGED <<served, st>>

(* endLocked, its record half: the record is rewritten as ended, and only  *)
(* then is the vault revoked, taken out of the map and marked gone.        *)
EndVault(v) ==
    /\ rec' = [rec EXCEPT ![v].state = "ended"]
    /\ revoked' = revoked \cup {v}
    /\ served' = served \ {v}
    /\ gone' = gone \cup {v}
    /\ UNCHANGED st

(* endLocked returning an error: the record's write failed before the      *)
(* rename, or the directory sync after it did.                             *)
EndFails(v) ==
    /\ \/ "record" \in Faults /\ UNCHANGED rec
       \/ "recordsync" \in Faults /\ rec' = [rec EXCEPT ![v].state = "ended"]
    /\ UNCHANGED memory

(* removeLog, whose failure is logged and left for the next start.         *)
RemoveLog(v) ==
    \/ /\ haslog' = haslog \ {v}
       /\ elog' = [elog EXCEPT ![v] = {}]
    \/ "remove" \in Faults /\ UNCHANGED <<haslog, elog>>

(* Goroutine t, under Server.mu, ends v and goes on at pc "then".          *)
EndBy(t, v, then) ==
    /\ EndVault(v)
    /\ mu' = t
    /\ th' = [th EXCEPT ![t].pc = "remove", ![t].ending = v, ![t].then = then]
    /\ UNCHANGED <<haslog, elog>>

(* Mutation of EndFailsBy: the log is deleted before the record is ended.  *)
EndFailsLogFirst(t, v) ==
    /\ EndFails(v)
    /\ Unlock
    /\ Reply(t)
    /\ haslog' = haslog \ {v}
    /\ elog' = [elog EXCEPT ![v] = {}]

(* Mutation of EndFailsBy: the error path returns with Server.mu held.     *)
EndFailsLocked(t, v) ==
    /\ EndFails(v)
    /\ mu' = t
    /\ Reply(t)
    /\ UNCHANGED <<haslog, elog>>

EndFailsBy(t, v) ==
    /\ EndFails(v)
    /\ Unlock
    /\ Reply(t)
    /\ UNCHANGED <<haslog, elog>>

RemoveStep(t) ==
    /\ At(t, "remove")
    /\ RemoveLog(th[t].ending)
    /\ IF th[t].then = "sweep"
       THEN Goto(t, "sweep") /\ UNCHANGED mu
       ELSE Reply(t) /\ Unlock
    /\ UNCHANGED <<clock, rec, stage, toload, memory, history>>

-----------------------------------------------------------------------------
(* A request is read: its frame parses and, for a SYNC, is sealed under    *)
(* the key the client believes in; owner calls come from the embedder.     *)
Arrive(t) ==
    /\ stage = "up"
    /\ At(t, "idle")
    /\ \E op \in Ops, v \in Vault, k \in Key, f \in BOOLEAN, es \in SUBSET Entry :
          /\ op \notin {"register", "nopush"} => f = FALSE
          /\ op \in {"ownerdrop", "add", "nopush"} => k = CHOOSE x \in Key : TRUE
          /\ (op \in {"push", "add"}) <=> (es # {})
          /\ th' = [th EXCEPT ![t] =
                [pc |-> "start", op |-> op, v |-> v, key |-> k, flag |-> f, es |-> es,
                 ending |-> v, then |-> "idle"]]
    /\ UNCHANGED <<clock, disk, stage, toload, memory, mu, history>>

Starts(t, op) == At(t, "start") /\ th[t].op = op /\ mu = NoThread
Performs(t, op) == At(t, "op") /\ th[t].op = op

(* A vault answers a REGISTER or an EnsureVault: from here its key, mark   *)
(* and creation time are promised.                                         *)
Promise(v) == bound' = IF bound[v] = NoRecord THEN [bound EXCEPT ![v] = rec[v]] ELSE bound

(* handleRegister of a served vault past its lifetime: it is ended first,  *)
(* and is then revoked, so the answer is BAD_AUTH.                         *)
RegisterExpired(t) ==
    LET v == th[t].v
    IN  /\ Starts(t, "register")
        /\ v \in served /\ Expired(v)
        /\ EndBy(t, v, "idle") \/ EndFailsBy(t, v)
        /\ UNCHANGED <<clock, stage, toload, history>>

(* handleRegister of a revoked vault, BAD_AUTH, or of a served one, OK to  *)
(* its own AuthKey only.                                                   *)
RegisterKnown(t) ==
    LET v == th[t].v
    IN  /\ Starts(t, "register")
        /\ v \in revoked \/ (v \in served /\ ~Expired(v))
        /\ Reply(t)
        /\ IF v \notin revoked /\ st[v].key = th[t].key THEN Promise(v) ELSE UNCHANGED bound
        /\ UNCHANGED <<clock, disk, stage, toload, memory, mu, acked, ownerEnded, readonly, leaked>>

(* Mutation of RegisterNew: a vault already served is created over.        *)
RegisterOver(t) ==
    /\ Starts(t, "register")
    /\ th[t].v \notin revoked
    /\ mu' = t
    /\ Goto(t, "sweep")
    /\ UNCHANGED <<clock, disk, stage, toload, memory, history>>

(* handleRegister of any other vault: on to the sweep and the creation,    *)
(* under Server.mu throughout.                                             *)
RegisterNew(t) ==
    /\ Starts(t, "register")
    /\ th[t].v \notin revoked \cup served
    /\ mu' = t
    /\ Goto(t, "sweep")
    /\ UNCHANGED <<clock, disk, stage, toload, memory, history>>

(* Mutation of SweepVaults: the cap lets one vault too many through.       *)
SweepVaultsOffByOne(t) ==
    LET due == {w \in served : Expired(w)}
    IN  /\ At(t, "sweep")
        /\ \/ \E w \in due : EndBy(t, w, "sweep") \/ EndFailsBy(t, w)
           \/ /\ due = {}
              /\ IF Cardinality(served) > MaxVaults
                 THEN Reply(t) /\ Unlock
                 ELSE Goto(t, "create") /\ UNCHANGED mu
              /\ UNCHANGED <<disk, memory>>
        /\ UNCHANGED <<clock, stage, toload, history>>

(* sweepLocked, one vault a step, then the cap.                            *)
SweepVaults(t) ==
    LET due == {w \in served : Expired(w)}
    IN  /\ At(t, "sweep")
        /\ \/ \E w \in due : EndBy(t, w, "sweep") \/ EndFailsBy(t, w)
           \/ /\ due = {}
              /\ IF Cardinality(served) >= MaxVaults
                 THEN Reply(t) /\ Unlock
                 ELSE Goto(t, "create") /\ UNCHANGED mu
              /\ UNCHANGED <<disk, memory>>
        /\ UNCHANGED <<clock, stage, toload, history>>

(* EnsureVault: an owner's REGISTER, without the cap and without expiry.   *)
EnsureVault(t) ==
    LET v == th[t].v
    IN  /\ Starts(t, "ensure")
        /\ \/ /\ v \in revoked \/ v \in served
              /\ Reply(t)
              /\ IF v \notin revoked /\ st[v].key = th[t].key THEN Promise(v) ELSE UNCHANGED bound
              /\ UNCHANGED mu
           \/ /\ v \notin revoked /\ v \notin served
              /\ mu' = t
              /\ Goto(t, "create")
              /\ UNCHANGED bound
        /\ UNCHANGED <<clock, disk, stage, toload, memory, acked, ownerEnded, readonly, leaked>>

(* createVaultLocked: the record, in one write ...                         *)
CreateRecord(t) ==
    LET v == th[t].v
        new == LiveRecord(th[t].key, th[t].flag)
    IN  /\ At(t, "create")
        /\ \/ /\ rec' = [rec EXCEPT ![v] = new]
              /\ Goto(t, "openlog")
              /\ UNCHANGED mu
           \/ /\ \/ "record" \in Faults /\ UNCHANGED rec
                 \/ "recordsync" \in Faults /\ rec' = [rec EXCEPT ![v] = new]
              /\ Reply(t)
              /\ Unlock
        /\ UNCHANGED <<clock, haslog, elog, stage, toload, memory, history>>

(* ... then the log, opened or created, and the vault is served.           *)
CreateLog(t) ==
    LET v == th[t].v
    IN  /\ At(t, "openlog")
        /\ \/ /\ haslog' = haslog \cup {v}
              /\ served' = served \cup {v}
              /\ st' = [st EXCEPT ![v] = [key |-> rec[v].key, eph |-> rec[v].eph,
                             created |-> rec[v].created, bytes |-> 0, noPush |-> FALSE]]
              /\ Promise(v)
           \/ /\ "openlog" \in Faults
              /\ UNCHANGED <<haslog, served, st, bound>>
        /\ Reply(t)
        /\ Unlock
        /\ UNCHANGED <<clock, rec, elog, stage, toload, revoked, gone, acked, ownerEnded, readonly, leaked>>

-----------------------------------------------------------------------------
(* handleSync: the lookup under Server.mu, which is then released.         *)
SyncLookup(t) ==
    LET v == th[t].v
    IN  /\ \E op \in {"push", "pull", "drop"} : Starts(t, op)
        /\ IF v \in served /\ st[v].key = th[t].key THEN Goto(t, "expire") ELSE Reply(t)
        /\ UNCHANGED <<clock, disk, stage, toload, memory, mu, history>>

(* expireIfDue reads the clock without a lock, and takes it to end.        *)
ExpireCheck(t) ==
    /\ At(t, "expire")
    /\ Goto(t, IF Expired(th[t].v) THEN "ending" ELSE "op")
    /\ UNCHANGED <<clock, disk, stage, toload, memory, mu, history>>

ExpireVault(t) ==
    LET v == th[t].v
    IN  /\ At(t, "ending") /\ mu = NoThread
        /\ \/ v \in served /\ (EndBy(t, v, "idle") \/ EndFailsBy(t, v))
           \/ v \notin served /\ Reply(t) /\ UNCHANGED <<disk, memory, mu>>
        /\ UNCHANGED <<clock, stage, toload, history>>

(* PROBE and PULL, and the owner's Entries: they change nothing.           *)
Read(t) ==
    /\ Performs(t, "pull")
    /\ Reply(t)
    /\ UNCHANGED <<clock, disk, stage, toload, memory, mu, history>>

(* validateNew: what it makes of es on vault v; checkSkew is wire only.    *)
New(v, es) == es \ elog[v]
Valid(v, es, checkSkew) ==
    /\ checkSkew => \A e \in New(v, es) : Ts[e] <= clock + Skew
    /\ Cardinality(elog[v]) + Cardinality(New(v, es)) <= MaxEntries
    /\ st[v].bytes + Bytes(New(v, es)) <= MaxVaultBytes

(* Mutation of AddValidated: entries already held are counted again.       *)
AddValidatedTwice(v, es) ==
    /\ elog' = [elog EXCEPT ![v] = @ \cup es]
    /\ st' = [st EXCEPT ![v].bytes = @ + Bytes(es)]
    /\ acked' = [acked EXCEPT ![v] = @ \cup es]

(* addValidatedLocked: one durable batch and its bytes.                    *)
AddValidated(v, es) ==
    /\ elog' = [elog EXCEPT ![v] = @ \cup es]
    /\ st' = [st EXCEPT ![v].bytes = @ + Bytes(New(v, es))]
    /\ acked' = [acked EXCEPT ![v] = @ \cup es]

(* Mutation of Push: the mark is judged at the lookup, not under the lock. *)
PushJudgedEarly(t) ==
    LET v == th[t].v
        es == th[t].es
    IN  /\ Performs(t, "push")
        /\ Reply(t)
        /\ IF v \notin gone /\ Valid(v, es, TRUE)
           THEN /\ AddValidated(v, es)
                /\ leaked' = IF v \in readonly /\ New(v, es) # {} THEN leaked \cup {v} ELSE leaked
           ELSE UNCHANGED <<elog, st, acked, leaked>>
        /\ UNCHANGED <<clock, rec, haslog, stage, toload, served, revoked, gone, mu,
                       bound, ownerEnded, readonly>>

(* Mutation of Push: a vault that ended since the lookup is not noticed.   *)
PushStale(t) ==
    LET v == th[t].v
        es == th[t].es
    IN  /\ Performs(t, "push")
        /\ Reply(t)
        /\ IF Valid(v, es, TRUE) /\ (st[v].noPush => New(v, es) = {})
           THEN AddValidated(v, es)
           ELSE UNCHANGED <<elog, st, acked>>
        /\ UNCHANGED <<clock, rec, haslog, stage, toload, served, revoked, gone, mu,
                       bound, ownerEnded, readonly, leaked>>

(* The PUSH of handleSync, under vaultState.mu.                            *)
Push(t) ==
    LET v == th[t].v
        es == th[t].es
    IN  /\ Performs(t, "push")
        /\ Reply(t)
        /\ \/ /\ v \notin gone
              /\ Valid(v, es, TRUE)
              /\ st[v].noPush => New(v, es) = {}
              /\ AddValidated(v, es)
              /\ leaked' = IF v \in readonly /\ New(v, es) # {} THEN leaked \cup {v} ELSE leaked
           \/ /\ \/ v \in gone
                 \/ ~Valid(v, es, TRUE)
                 \/ st[v].noPush /\ New(v, es) # {}
                 \/ "append" \in Faults /\ New(v, es) # {}
              /\ UNCHANGED <<elog, st, acked, leaked>>
        /\ UNCHANGED <<clock, rec, haslog, stage, toload, served, revoked, gone, mu,
                       bound, ownerEnded, readonly>>

(* Mutation of DropByHolder: a permanent vault is dropped too.             *)
DropAnyByHolder(t) ==
    LET v == th[t].v
    IN  /\ Performs(t, "drop")
        /\ mu = NoThread
        /\ \/ v \in served /\ (EndBy(t, v, "idle") \/ EndFailsBy(t, v))
           \/ v \notin served /\ Reply(t) /\ UNCHANGED <<disk, memory, mu>>
        /\ UNCHANGED <<clock, stage, toload, history>>

(* handleDrop: an ephemeral vault only, looked up again under Server.mu.   *)
DropByHolder(t) ==
    LET v == th[t].v
    IN  /\ Performs(t, "drop")
        /\ \/ /\ ~st[v].eph
              /\ Reply(t)
              /\ UNCHANGED <<disk, memory, mu>>
           \/ /\ st[v].eph /\ mu = NoThread
              /\ \/ v \in served /\ (EndBy(t, v, "idle") \/ EndFailsBy(t, v))
                 \/ v \notin served /\ Reply(t) /\ UNCHANGED <<disk, memory, mu>>
        /\ UNCHANGED <<clock, stage, toload, history>>

-----------------------------------------------------------------------------
(* The owner API: DropVault, and the lookups of AddEntries and SetNoPush.  *)
DropVault(t) ==
    LET v == th[t].v
    IN  /\ Starts(t, "ownerdrop")
        /\ \/ /\ v \in served
              /\ EndBy(t, v, "idle") \/ EndFailsBy(t, v)
              /\ ownerEnded' = ownerEnded \cup {v}
           \/ /\ v \notin served
              /\ Reply(t)
              /\ UNCHANGED <<disk, memory, mu, ownerEnded>>
        /\ UNCHANGED <<clock, stage, toload, acked, bound, readonly, leaked>>

OwnerLookup(t) ==
    /\ \E op \in {"add", "nopush"} : Starts(t, op)
    /\ IF th[t].v \in served THEN Goto(t, "op") ELSE Reply(t)
    /\ UNCHANGED <<clock, disk, stage, toload, memory, mu, history>>

AddEntries(t) ==
    LET v == th[t].v
        es == th[t].es
    IN  /\ Performs(t, "add")
        /\ Reply(t)
        /\ \/ v \notin gone /\ Valid(v, es, FALSE) /\ AddValidated(v, es)
           \/ /\ \/ v \in gone
                 \/ ~Valid(v, es, FALSE)
                 \/ "append" \in Faults /\ New(v, es) # {}
              /\ UNCHANGED <<elog, st, acked>>
        /\ UNCHANGED <<clock, rec, haslog, stage, toload, served, revoked, gone, mu,
                       bound, ownerEnded, readonly, leaked>>

SetNoPush(t) ==
    LET v == th[t].v
    IN  /\ Performs(t, "nopush")
        /\ Reply(t)
        /\ st' = [st EXCEPT ![v].noPush = th[t].flag]
        /\ readonly' = IF th[t].flag THEN readonly \cup {v} ELSE readonly \ {v}
        /\ UNCHANGED <<clock, disk, stage, toload, served, revoked, gone, mu,
                       acked, bound, ownerEnded, leaked>>

-----------------------------------------------------------------------------
(* The appends that can be under way: of a batch that was accepted.        *)
Appending(t, v) ==
    /\ At(t, "op") /\ th[t].v = v /\ v \notin gone
    /\ \/ th[t].op = "push" /\ Valid(v, th[t].es, TRUE) /\ ~st[v].noPush
       \/ th[t].op = "add" /\ Valid(v, th[t].es, FALSE)

(* The process ends: killed, or closed and gone.  Only the disk is left,   *)
(* with any part of the batches that were being appended.                  *)
Exit ==
    /\ stage # "down"
    /\ \E part \in [Vault -> SUBSET Entry] :
          /\ \A v \in Vault : part[v] # {} =>
                \E t \in Thread : Appending(t, v) /\ part[v] \subseteq New(v, th[t].es)
          /\ elog' = [v \in Vault |-> elog[v] \cup part[v]]
    /\ stage' = "down"
    /\ toload' = {}
    /\ served' = {}
    /\ revoked' = {}
    /\ gone' = {}
    /\ st' = [v \in Vault |-> NoState]
    /\ mu' = NoThread
    /\ th' = [t \in Thread |-> Idle]
    /\ readonly' = {}
    /\ UNCHANGED <<clock, rec, haslog, acked, bound, ownerEnded, leaked>>

(* New: the directories loadPersistedVaults will read.                     *)
Start ==
    /\ stage = "down"
    /\ stage' = "loading"
    /\ toload' = {v \in Vault : rec[v].state # "none"}
    /\ UNCHANGED <<clock, disk, memory, mu, th, history>>

(* loadPersistedVaults on a record that does not decode: refused.          *)
LoadRefused(v) ==
    /\ rec[v].state = "bad"
    /\ revoked' = revoked \cup {v}
    /\ UNCHANGED <<haslog, elog, served, st>>

(* Mutations of LoadEnded: the vault is not revoked; its log is left.      *)
LoadEndedUnrevoked(v) ==
    /\ rec[v].state = "ended"
    /\ RemoveLog(v)
    /\ UNCHANGED <<served, revoked, st>>

LoadEndedKeepLog(v) ==
    /\ rec[v].state = "ended"
    /\ revoked' = revoked \cup {v}
    /\ UNCHANGED <<haslog, elog, served, st>>

(* ... on a record that says ended: revoked, and its log deleted ...       *)
LoadEnded(v) ==
    /\ rec[v].state = "ended"
    /\ revoked' = revoked \cup {v}
    /\ RemoveLog(v)
    /\ UNCHANGED <<served, st>>

(* ... on a live record whose log opens: served, its bytes counted ...     *)
LoadLive(v) ==
    /\ rec[v].state = "live"
    /\ haslog' = haslog \cup {v}
    /\ served' = served \cup {v}
    /\ st' = [st EXCEPT ![v] = [key |-> rec[v].key, eph |-> rec[v].eph,
                   created |-> rec[v].created, bytes |-> Bytes(elog[v]), noPush |-> FALSE]]
    /\ UNCHANGED <<elog, revoked>>

(* ... and on one whose log does not open, or whose flock another process  *)
(* still holds: skipped, neither served nor revoked.                       *)
LoadSkipped(v) ==
    /\ rec[v].state = "live"
    /\ "loadlog" \in Faults
    /\ UNCHANGED <<haslog, elog, served, revoked, st>>

LoadVault(v) ==
    /\ stage = "loading"
    /\ v \in toload
    /\ toload' = toload \ {v}
    /\ LoadRefused(v) \/ LoadEnded(v) \/ LoadLive(v) \/ LoadSkipped(v)
    /\ UNCHANGED <<clock, rec, stage, gone, mu, th, history>>

(* The sweep that ends New; if it fails, New closes what it opened.        *)
LoadSweep ==
    /\ stage = "loading"
    /\ toload = {}
    /\ \E v \in served :
          /\ Expired(v)
          /\ \/ EndVault(v) /\ RemoveLog(v) /\ UNCHANGED stage
             \/ /\ \/ "record" \in Faults /\ UNCHANGED rec
                   \/ "recordsync" \in Faults /\ rec' = [rec EXCEPT ![v].state = "ended"]
                /\ stage' = "down"
                /\ served' = {}
                /\ revoked' = {}
                /\ gone' = {}
                /\ st' = [w \in Vault |-> NoState]
                /\ UNCHANGED <<haslog, elog>>
    /\ UNCHANGED <<clock, toload, mu, th, history>>

Serve ==
    /\ stage = "loading"
    /\ toload = {}
    /\ \A v \in served : ~Expired(v)
    /\ stage' = "up"
    /\ UNCHANGED <<clock, disk, toload, memory, mu, th, history>>

(* DropVaultDir (kvserve drop-vault), with the server stopped.             *)
DropVaultDir(v) ==
    /\ stage = "down"
    /\ "ownerdrop" \in Ops
    /\ rec[v].state # "bad"
    /\ \/ rec[v].state = "ended" /\ UNCHANGED rec
       \/ rec[v].state = "live" /\ rec' = [rec EXCEPT ![v].state = "ended"]
       \/ rec[v].state = "none" /\ rec' = [rec EXCEPT ![v] =
              [state |-> "ended", key |-> NoKey, eph |-> FALSE, created |-> clock]]
    /\ RemoveLog(v)
    /\ ownerEnded' = ownerEnded \cup {v}
    /\ UNCHANGED <<clock, stage, toload, memory, mu, th, acked, bound, readonly, leaked>>

(* A record is damaged on disk: it no longer decodes.                      *)
Damage(v) ==
    /\ "damage" \in Faults
    /\ stage = "down"
    /\ rec[v].state \in {"live", "ended"}
    /\ rec' = [rec EXCEPT ![v].state = "bad"]
    /\ UNCHANGED <<clock, haslog, elog, stage, toload, memory, mu, th, history>>

Handle(t) ==
    \/ RegisterExpired(t) \/ RegisterKnown(t) \/ RegisterNew(t) \/ SweepVaults(t)
    \/ EnsureVault(t) \/ CreateRecord(t) \/ CreateLog(t)
    \/ SyncLookup(t) \/ ExpireCheck(t) \/ ExpireVault(t) \/ Read(t) \/ Push(t) \/ DropByHolder(t)
    \/ DropVault(t) \/ OwnerLookup(t) \/ AddEntries(t) \/ SetNoPush(t) \/ RemoveStep(t)

Next ==
    \/ Tick \/ Exit \/ Start \/ LoadSweep \/ Serve
    \/ \E t \in Thread : Arrive(t) \/ Handle(t)
    \/ \E v \in Vault : LoadVault(v) \/ DropVaultDir(v) \/ Damage(v)

Spec == Init /\ [][Next]_vars

(* Every goroutine runs, and sync.Mutex hands a waiter the lock in the end *)
(* (its starvation mode), so a handler that is enabled again and again is  *)
(* scheduled.  Arrivals, time, exits and starts are up to the environment. *)
FairSpec == Spec /\ \A t \in Thread : SF_vars(Handle(t))

-----------------------------------------------------------------------------
(* What the server serves is what the disk says: a vault in the map has a  *)
(* live record with its key, mark and creation time, an open log, and was  *)
(* neither revoked nor ended.  So no interleaving of expiry, drop, owner   *)
(* drop and registration, and no restart, serves a vault that has ended.   *)
ServedIsLive ==
    /\ TypeOK
    /\ \A v \in served :
          /\ rec[v].state = "live"
          /\ rec[v].key = st[v].key /\ rec[v].eph = st[v].eph /\ rec[v].created = st[v].created
          /\ v \in haslog
          /\ v \notin revoked \cup gone

(* A vault that has ended has ended for good, and one whose record cannot  *)
(* be read is never created afresh: no later REGISTER, EnsureVault or      *)
(* restart brings either record back to life (record.go).                  *)
EndedForever ==
    [][\A v \in Vault : rec[v].state \in {"ended", "bad"} =>
            rec'[v].state \in {rec[v].state, "bad"}]_vars

(* Once a REGISTER or EnsureVault was answered OK, the vault's AuthKey,    *)
(* mark and creation time never change: DESIGN.t, "The mark is set at      *)
(* creation, by the creator, and a later REGISTER cannot set or clear it". *)
BoundForever ==
    \A v \in Vault : bound[v] # NoRecord /\ rec[v].state # "bad" =>
        /\ rec[v].state \in {"live", "ended"}
        /\ rec[v].key = bound[v].key /\ rec[v].eph = bound[v].eph
        /\ rec[v].created = bound[v].created

(* No entry whose PUSH or AddEntries succeeded leaves the disk while the   *)
(* vault lives, whatever else ended, expired or restarted meanwhile.       *)
AckedKept == \A v \in Vault : rec[v].state = "live" => acked[v] \subseteq elog[v]

(* The store of a vault as EntrySet describes one: open while the vault is *)
(* served, and any entry may be offered.                                   *)
Log(v) == INSTANCE EntrySet WITH
    offered <- Entry,
    committed <- acked[v],
    shown <- IF v \in served THEN elog[v] ELSE {},
    isOpen <- v \in served

(* The server treats the log of each vault as the contract of kv/store has *)
(* it: what is opened, at a start or for a REGISTER of a vault that was    *)
(* skipped, shows all that was acknowledged; while the vault is served it  *)
(* loses nothing and gains only what is acknowledged; and nothing is       *)
(* acknowledged to a vault that has ended, whose log is deleted when       *)
(* nothing has it open and is never opened again.                          *)
LogsFollowContract == [][\A v \in Vault : [Log(v)!Next]_(Log(v)!vars)]_vars

(* The byte account of a served vault is exactly the size of its entries,  *)
(* through pushes, owner writes, duplicates and restarts, and both quotas  *)
(* hold (addValidatedLocked: accounting "cannot diverge").                 *)
QuotaExact ==
    \A v \in served :
        /\ st[v].bytes = Bytes(elog[v])
        /\ st[v].bytes <= MaxVaultBytes
        /\ Cardinality(elog[v]) <= MaxEntries

(* A permanent vault ends only when its owner or the operator ends it: no  *)
(* DROP frame, expiry or sweep, also not one that raced its creation.      *)
PermanentEndsByOwner ==
    \A v \in Vault : rec[v].state = "ended" /\ ~rec[v].eph => v \in ownerEnded

(* A REGISTER never takes the server past MaxVaults.                       *)
RegisterWithinCap ==
    [][\A t \in Thread :
          At(t, "openlog") /\ th[t].op = "register" /\ served' # served /\ stage' = "up"
              => Cardinality(served') <= MaxVaults]_vars

(* While the server is up and not ending a vault, an ended vault has left  *)
(* no entries on disk: a start finishes a deletion that a crash, or a      *)
(* failed directory sync, interrupted.  After the latter the server goes   *)
(* on serving the vault until it restarts (endLocked).                     *)
EndedLogGone ==
    stage = "up" /\ mu = NoThread =>
        \A v \in Vault : rec[v].state = "ended" => v \notin haslog \/ v \in served

(* Every request is answered, or dies with the process: no handler, on any *)
(* error path, leaves Server.mu locked or waits for ever.                  *)
RequestsAnswered == \A t \in Thread : ~At(t, "idle") ~> At(t, "idle")

(* Once SetNoPush has returned, no PUSH adds a new entry to the vault,     *)
(* also not one that was looked up before, and the owner's own additions   *)
(* and the vault's re-creation do not open it again.  A restart does: the  *)
(* mark is not persisted, and the owner sets it again.                     *)
ReadOnlyHolds == leaked = {}

(* What is the owner's to decide no frame of a holder, no expiry and no    *)
(* race with one undoes: the end of a permanent vault, and that a vault is *)
(* read-only.                                                              *)
OwnerDecides == PermanentEndsByOwner /\ ReadOnlyHolds
=============================================================================
