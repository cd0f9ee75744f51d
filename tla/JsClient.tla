------------------------------ MODULE JsClient ------------------------------
(***************************************************************************)
(* kv/js/kv.js: the browser client.  Each tab runs one Client over an      *)
(* IDBStore; the tabs share one IndexedDB database and tell each other     *)
(* what they committed on a BroadcastChannel.  Code between two awaits is  *)
(* one step; everything else interleaves: the write queue, the sync under  *)
(* way and the one queued behind it, overlapping reads, messages of other  *)
(* tabs, close, a killed tab, and the deletion of the database.            *)
(*                                                                         *)
(* An entry is its canonical position.  The server's side of a frame is    *)
(* one step (VaultServer and Sync look inside it); a request may fail      *)
(* before or after it was applied.                                         *)
(***************************************************************************)
EXTENDS Naturals, Sequences, SequencesExt, FiniteSets, FiniteSetsExt

CONSTANTS
    Tab,        \* tabs of one origin, each with a client of the same vault
    MaxEntry,   \* bound: entries are 1..MaxEntry
    Key,        \* keys of the view
    KeyOf,      \* the key of an entry
    PageSize,   \* PAGE_BYTES, in entries
    Window,     \* syncWindowMs, in positions
    MaxRounds,  \* MAX_ROUNDS
    Reader,     \* reads that may overlap in a tab
    Ephemeral,  \* opts.ephemeral
    Fails,      \* what may fail: subset of {"request", "write"}
    Pages,      \* what the pages in the tabs may do: each a choice of calls
    MaxUpsets   \* bound: failures, kills, closes, drops and deletions

Entry == 1..MaxEntry
AllCalls == {"open", "put", "sync", "wait", "read", "drop", "close", "kill", "destroy"}

ASSUME JsConstants ==
    /\ MaxEntry \in Nat /\ PageSize \in Nat \ {0} /\ Window \in Nat
    /\ MaxRounds \in Nat \ {0}
    /\ KeyOf \in [Entry -> Key]
    /\ Ephemeral \in BOOLEAN
    /\ Fails \subseteq {"request", "write"}
    /\ Pages \subseteq [Tab -> SUBSET AllCalls]
    /\ MaxUpsets \in Nat

VARIABLES
    vault,      \* the vault on the server: "none", "live" or "ended"
    server,     \* its entries
    db,         \* rows committed in IndexedDB
    chan,       \* messages on their way to each tab
    tab,        \* the store, the client and the page of each tab
    upsets,     \* upsets so far
    used,       \* history: entries sealed so far, by any device
    failed,     \* history: writes whose call was rejected
    missed,     \* history: writes a resolved sync() should have covered
    orphans     \* history: rows whose announcement was lost with their tab

vars == <<vault, server, db, chan, tab, upsets, used, failed, missed, orphans>>

NoHash == {0}

(* A sync: the request that is out (or "await", for this.writes, "tx" and  *)
(* "done", for a pulled page in addMany), what it waits for, and st.added. *)
Idle == [pc |-> "idle", wait |-> {}, round |-> 0, mine |-> <<>>, at |-> 0,
         anchor |-> 0, cur |-> 0, body |-> {}, new |-> FALSE]

(* A tab before its page opens the store.                                  *)
Blank(calls) ==
    [calls   |-> calls,      \* what its page does
     store   |-> "none",     \* IDBStore: then "scan", "loaded", "open", "closed",
                             \* or "gone" when the database was deleted
     added   |-> <<>>,       \* MemStore.added
     hash    |-> NoHash,     \* MemStore.hash: the set it was computed over
     client  |-> "none",     \* Client: then "open", "closing", "closed"
     reg     |-> FALSE,      \* Client.registered
     ever    |-> FALSE,      \* Client.everRegistered
     ended   |-> FALSE,      \* Client.ended
     writes  |-> <<>>,       \* the write queue: entries issued and not settled
     wop     |-> "wait",     \* its head: then "tx", "done", "stored" or "held"
     recent  |-> <<>>,       \* Client.recent
     run     |-> Idle,       \* Client.running
     queued  |-> "none",     \* Client.queued: "wait" for running, then "ready"
     drop    |-> "none",     \* drop(): "wait", then "sent"
     dropOn  |-> {},         \* the syncs it waits for
     folded  |-> 0,          \* Client.folded
     view    |-> [k \in Key |-> 0],       \* Client.view: each key's winner
     reads   |-> [r \in Reader |-> <<>>], \* reads between appended and the fold
     heard   |-> TRUE,       \* history: a changed() has covered all of added
     issued  |-> {},         \* history: writes issued in this session
     need    |-> {},         \* history: those issued before the calls of run
     qneed   |-> {}]         \* history: and before the calls of queued

Init ==
    /\ vault = "none" /\ server = {} /\ db = {}
    /\ chan = [t \in Tab |-> <<>>]
    /\ \E p \in Pages : tab = [t \in Tab |-> Blank(p[t])]
    /\ upsets = 0 /\ used = {} /\ failed = {} /\ missed = {} /\ orphans = {}

Mem(t)    == ToSet(tab[t].added)
Does(t, c) == c \in tab[t].calls
Sets(t, r) == tab' = [tab EXCEPT ![t] = r]
remote    == <<vault, server>>
disk      == <<db, chan>>
history   == <<used, failed, missed, orphans>>

-----------------------------------------------------------------------------
(* The store.                                                              *)

FirstPage(S, cur) == {e \in S : e > cur /\ Cardinality({f \in S : cur < f /\ f < e}) < PageSize}

(* A batch is in canonical order.                                          *)
InOrder(S) == CHOOSE q \in [1..Cardinality(S) -> S] : \A i, j \in DOMAIN q : i < j => q[i] < q[j]

(* Mutation of AddMem: the cached set hash is kept.                        *)
AddMemKeepsHash(r, S) == [r EXCEPT !.added = @ \o InOrder(S \ ToSet(@))]

(* MemStore.add of each entry not held.                                    *)
AddMem(r, S) ==
    [r EXCEPT !.added = @ \o InOrder(S \ ToSet(@)),
              !.hash  = IF S \subseteq ToSet(r.added) THEN @ ELSE NoHash]

(* MemStore.setHash.                                                       *)
SetHash(r) == IF r.hash = NoHash THEN ToSet(r.added) ELSE r.hash

(* A tab's channel is open from before its scan.                           *)
Listens(t) == tab[t].store \in {"scan", "loaded", "open"}

(* Mutation of Post: a tab listens once its scan is over.                  *)
PostToOpen(t, S) ==
    chan' = [u \in Tab |-> IF u # t /\ tab[t].store = "open" /\ tab[u].store = "open"
                           THEN Append(chan[u], S) ELSE chan[u]]

(* postMessage to every other tab that listens.                            *)
Post(t, S) ==
    chan' = [u \in Tab |-> IF u # t /\ tab[t].store = "open" /\ Listens(u)
                           THEN Append(chan[u], S) ELSE chan[u]]

(* IDBStore.open, up to the scan: the channel listens first.               *)
Open(t) ==
    /\ Does(t, "open") /\ tab[t].store = "none"
    /\ Sets(t, [tab[t] EXCEPT !.store = "scan"])
    /\ UNCHANGED <<remote, disk, history>>

(* The transaction of the scan reads every row.                            *)
Scan(t) ==
    /\ tab[t].store = "scan"
    /\ Sets(t, [AddMem(tab[t], db) EXCEPT !.store = "loaded"])
    /\ UNCHANGED <<remote, disk, history>>

(* open resolves, and a Client is made over the store.                     *)
MakeClient(t) ==
    /\ tab[t].store = "loaded"
    /\ Sets(t, [tab[t] EXCEPT !.store = "open", !.client = "open", !.heard = TRUE])
    /\ UNCHANGED <<remote, disk, history>>

(* fromRemote, and the client's changed("tab").                            *)
Deliver(t) ==
    /\ chan[t] # <<>> /\ Listens(t)
    /\ chan' = [chan EXCEPT ![t] = Tail(@)]
    /\ Sets(t, [AddMem(tab[t], Head(chan[t])) EXCEPT
                  !.heard = @ \/ ~(Head(chan[t]) \subseteq Mem(t))])
    /\ UNCHANGED <<remote, db, history>>

-----------------------------------------------------------------------------
(* Local writes: putFmt and delete seal an entry and queue it.             *)

(* checkOpen, nextTs, sealEntry, and record chains on this.writes.         *)
Put(t, e) ==
    /\ Does(t, "put") /\ tab[t].client = "open"
    /\ \A f \in tab[t].issued : f < e
    /\ e \notin used /\ used' = used \cup {e}
    /\ Sets(t, [tab[t] EXCEPT !.writes = Append(@, e), !.issued = @ \cup {e}])
    /\ UNCHANGED <<remote, disk, failed, missed, orphans>>

Dequeued(t) == [tab[t] EXCEPT !.writes = Tail(@), !.wop = "wait"]

Rejected(t) ==
    /\ Sets(t, Dequeued(t))
    /\ failed' = failed \cup {Head(tab[t].writes)}
    /\ UNCHANGED <<remote, disk, used, missed, orphans>>

(* The head of the queue calls addMany: closed, held already, or a         *)
(* transaction.                                                            *)
WriteBegins(t) ==
    /\ tab[t].writes # <<>> /\ tab[t].wop = "wait"
    /\ IF tab[t].store # "open"
       THEN Rejected(t)
       ELSE /\ Sets(t, [tab[t] EXCEPT !.wop = IF Head(tab[t].writes) \in Mem(t) THEN "held" ELSE "tx"])
            /\ UNCHANGED <<remote, disk, history>>

(* A transaction completes.  One of a deleted database leaves no row.      *)
Commits(t, S) == db' = IF tab[t].store = "open" THEN db \cup S ELSE db

WriteCommits(t) ==
    /\ tab[t].wop = "tx"
    /\ Commits(t, {Head(tab[t].writes)})
    /\ Sets(t, [tab[t] EXCEPT !.wop = "done"])
    /\ UNCHANGED <<remote, chan, history>>

WriteFails(t) == "write" \in Fails /\ tab[t].wop = "tx" /\ Rejected(t)

(* addMany resumes: memory, then the other tabs.                           *)
Stores(t, S, r) ==
    /\ Post(t, S)
    /\ Sets(t, [AddMem(r, S) EXCEPT !.heard = @ /\ S \subseteq Mem(t)])
    /\ UNCHANGED <<remote, db, history>>

Landed(t) == IF Head(tab[t].writes) \in Mem(t) THEN "held" ELSE "stored"

(* Mutation of WriteStores: memory before the transaction.                 *)
WriteStoresEarly(t) ==
    /\ tab[t].wop \in {"tx", "done"}
    /\ Stores(t, {Head(tab[t].writes)}, [tab[t] EXCEPT !.wop = Landed(t)])

WriteStores(t) ==
    /\ tab[t].wop = "done"
    /\ Stores(t, {Head(tab[t].writes)}, [tab[t] EXCEPT !.wop = Landed(t)])

(* record resumes: an entry that was added goes to recent, and the         *)
(* subscribers hear of it.                                                 *)
WriteSettles(t) ==
    /\ tab[t].wop \in {"stored", "held"}
    /\ Sets(t, IF tab[t].wop = "held" THEN Dequeued(t)
               ELSE [Dequeued(t) EXCEPT !.recent = Append(@, Head(tab[t].writes)), !.heard = TRUE])
    /\ UNCHANGED <<remote, disk, history>>

-----------------------------------------------------------------------------
(* The sync under way.                                                     *)

(* Mutation of Settled: what a failed sync took is not given back.         *)
SettledForgets(r, ok) ==
    [r EXCEPT !.run = Idle, !.need = {}, !.heard = @ \/ r.run.new, !.dropOn = @ \ {"run"},
              !.queued = IF @ = "wait" THEN "ready" ELSE @]

(* Mutation of Settled: a sync that fails tells no one what it stored.     *)
SettledQuietly(r, ok) ==
    [r EXCEPT !.run = Idle, !.need = {}, !.heard = @ \/ (ok /\ r.run.new),
              !.recent = IF ok THEN @ ELSE r.run.mine \o @, !.dropOn = @ \ {"run"},
              !.queued = IF @ = "wait" THEN "ready" ELSE @]

(* syncOnce ends: on an error the entries it took go back, ahead of newer  *)
(* ones; then this.running is cleared, and what waits for it may go on.    *)
Settled(r, ok) ==
    [r EXCEPT !.run = Idle, !.need = {}, !.heard = @ \/ r.run.new,
              !.recent = IF ok THEN @ ELSE r.run.mine \o @, !.dropOn = @ \ {"run"},
              !.queued = IF @ = "wait" THEN "ready" ELSE @]

Ends(t) ==
    /\ Sets(t, Settled(tab[t], TRUE))
    /\ missed' = missed \cup (tab[t].need \ (server \cup failed))
    /\ UNCHANGED <<disk, used, failed, orphans>>

(* The sync goes on with run s.  A PROBE takes the set hash, computed now  *)
(* or cached.                                                              *)
Going(r, s) ==
    IF s.pc \in {"probe", "again"}
    THEN [r EXCEPT !.run = [s EXCEPT !.body = SetHash(r)], !.hash = SetHash(r)]
    ELSE [r EXCEPT !.run = s]

(* pushEntries: the next batch of the entries taken, else the PROBE.       *)
FastPath(s) ==
    IF s.round = 0 /\ s.at < Len(s.mine)
    THEN LET upto == Min({s.at + PageSize, Len(s.mine)})
         IN  [s EXCEPT !.pc = "fast", !.at = upto,
                       !.body = ToSet(SubSeq(s.mine, s.at + 1, upto))]
    ELSE [s EXCEPT !.pc = "probe"]

(* round, up to its first request.                                         *)
Round(r, s) == IF r.reg THEN FastPath(s) ELSE [s EXCEPT !.pc = "register"]

(* reconcileAnchor: a window below the newest entry, then everything.      *)
Anchor(t) ==
    IF tab[t].run.round = 0 /\ Mem(t) # {} /\ Max(Mem(t)) > Window
    THEN Max(Mem(t)) - Window - 1
    ELSE 0

(* A sync begins, for calls made after the writes in needed.               *)
Started(r, needed) ==
    [r EXCEPT !.run = [Idle EXCEPT !.pc = "await", !.wait = ToSet(r.writes)], !.need = needed]

(* Mutation of SyncCall: a call made during a sync shares it.              *)
SyncCallShares(t) ==
    /\ Does(t, "sync") /\ tab[t].client = "open"
    /\ Sets(t, IF tab[t].run.pc = "idle"
               THEN Started(tab[t], tab[t].issued)
               ELSE [tab[t] EXCEPT !.need = tab[t].issued])
    /\ UNCHANGED <<remote, disk, history>>

(* sync(): the first call starts one; a call during it shares the next.    *)
SyncCall(t) ==
    /\ Does(t, "sync") /\ tab[t].client = "open"
    /\ Sets(t, IF tab[t].run.pc = "idle"
               THEN Started(tab[t], tab[t].issued)
               ELSE [tab[t] EXCEPT !.queued = IF @ = "none" THEN "wait" ELSE @,
                                   !.qneed = tab[t].issued])
    /\ UNCHANGED <<remote, disk, history>>

(* The queued callback: sync() again, which a closed client rejects, and   *)
(* which queues once more when another call has started one meanwhile.  A  *)
(* drop that waits for the queued promise waits for what it returns.       *)
QueuedRuns(t) ==
    /\ tab[t].queued = "ready"
    /\ LET r    == [tab[t] EXCEPT !.queued = "none", !.qneed = {}, !.dropOn = @ \ {"queued"}]
           held == "queued" \in tab[t].dropOn
       IN  CASE r.client # "open" -> Sets(t, r)
             [] r.client = "open" /\ r.run.pc = "idle" ->
                  Sets(t, [Started(r, tab[t].qneed) EXCEPT
                             !.dropOn = IF held THEN @ \cup {"run"} ELSE @])
             [] r.client = "open" /\ r.run.pc # "idle" ->
                  Sets(t, [tab[t] EXCEPT !.queued = "wait"])
    /\ UNCHANGED <<remote, disk, history>>

(* syncOnce once the writes issued before it have settled.                 *)
SyncTakes(t) ==
    /\ tab[t].run.pc = "await" /\ tab[t].run.wait \cap ToSet(tab[t].writes) = {}
    /\ LET s == [tab[t].run EXCEPT !.mine = tab[t].recent, !.wait = {}]
       IN  Sets(t, Going([tab[t] EXCEPT !.recent = <<>>], Round(tab[t], s)))
    /\ UNCHANGED <<remote, disk, history>>

-----------------------------------------------------------------------------
(* Requests: the server answers, and the client goes on with the answer.   *)

(* The tab after its sync throws, goes on with s, or begins another round  *)
(* from s.                                                                 *)
Thrown(t)       == Settled(tab[t], FALSE)
Onward(t, s)    == Going(tab[t], s)
NextRound(t, r) ==
    IF r.run.round + 1 < MaxRounds
    THEN Going(r, Round(r, [r.run EXCEPT !.round = @ + 1]))
    ELSE Settled(r, FALSE)

(* pushFrom: the next batch after the cursor, else the next round.         *)
PushWalk(t, cur) ==
    LET batch == FirstPage(Mem(t), cur)
    IN  IF batch = {}
        THEN NextRound(t, tab[t])
        ELSE Onward(t, [tab[t].run EXCEPT !.pc = "walk", !.cur = Max(batch), !.body = batch])

(* unknownVault: ended for good, or registered again in the next round.    *)
UnknownVault(t) ==
    IF tab[t].ended \/ (Ephemeral /\ tab[t].ever)
    THEN Thrown(t)
    ELSE NextRound(t, [tab[t] EXCEPT !.reg = FALSE])

(* REGISTER; a revoked vault is BAD_AUTH.                                  *)
AnswerRegister(t) ==
    /\ tab[t].run.pc = "register"
    /\ vault' = IF vault = "ended" THEN vault ELSE "live"
    /\ Sets(t, IF vault = "ended"
               THEN Thrown(t)
               ELSE Going([tab[t] EXCEPT !.reg = TRUE, !.ever = TRUE], FastPath(tab[t].run)))
    /\ UNCHANGED <<server, disk, history>>

(* PROBE, before and after the pull; equal sets end the sync.              *)
AnswerProbe(t) ==
    LET s == tab[t].run
    IN  /\ s.pc \in {"probe", "again"} /\ vault = "live"
        /\ IF s.body = server
           THEN Ends(t)
           ELSE /\ Sets(t, IF s.pc = "probe"
                           THEN Onward(t, [s EXCEPT !.pc = "pull", !.anchor = Anchor(t),
                                                    !.cur = Anchor(t)])
                           ELSE PushWalk(t, s.anchor))
                /\ UNCHANGED <<disk, history>>
        /\ UNCHANGED remote

(* A page of the pull goes through addMany before the cursor moves.        *)
AnswerPull(t) ==
    LET s     == tab[t].run
        page  == FirstPage(server, s.cur)
        fresh == page \ Mem(t)
    IN  /\ s.pc = "pull" /\ vault = "live"
        /\ Sets(t, CASE page = {} -> Onward(t, [s EXCEPT !.pc = "again"])
                     [] page # {} /\ tab[t].store # "open" -> Thrown(t)
                     [] page # {} /\ tab[t].store = "open" ->
                          Onward(t, [s EXCEPT !.pc = IF fresh = {} THEN "pull" ELSE "tx",
                                              !.cur = Max(page), !.body = fresh]))
        /\ UNCHANGED <<remote, disk, history>>

PageCommits(t) ==
    /\ tab[t].run.pc = "tx"
    /\ Commits(t, tab[t].run.body)
    /\ Sets(t, [tab[t] EXCEPT !.run.pc = "done"])
    /\ UNCHANGED <<remote, chan, history>>

PageFails(t) ==
    /\ "write" \in Fails /\ tab[t].run.pc = "tx"
    /\ Sets(t, Thrown(t))
    /\ UNCHANGED <<remote, disk, history>>

PageStores(t) ==
    /\ tab[t].run.pc = "done"
    /\ Stores(t, tab[t].run.body,
              [tab[t] EXCEPT !.run.pc = "pull",
                             !.run.new = @ \/ ~(tab[t].run.body \subseteq Mem(t))])

(* PUSH, of the fast path or of the walk.                                  *)
AnswerPush(t) ==
    LET s == tab[t].run
    IN  /\ s.pc \in {"fast", "walk"} /\ vault = "live"
        /\ server' = server \cup s.body
        /\ Sets(t, IF s.pc = "fast" THEN Onward(t, FastPath(s)) ELSE PushWalk(t, s.cur))
        /\ UNCHANGED <<vault, disk, history>>

Requests == {"fast", "probe", "pull", "again", "walk"}

AnswerUnknown(t) ==
    /\ tab[t].run.pc \in Requests /\ vault # "live"
    /\ Sets(t, UnknownVault(t))
    /\ UNCHANGED <<remote, disk, history>>

(* The transport throws: the request never came, or its answer is lost.    *)
RequestFails(t) ==
    /\ "request" \in Fails /\ tab[t].run.pc \in Requests \cup {"register"}
    /\ Sets(t, Thrown(t))
    /\ \/ UNCHANGED remote
       \/ /\ tab[t].run.pc \in {"fast", "walk"} /\ vault = "live"
          /\ server' = server \cup tab[t].run.body /\ UNCHANGED vault
       \/ /\ tab[t].run.pc = "register" /\ vault = "none"
          /\ vault' = "live" /\ UNCHANGED server
    /\ UNCHANGED <<disk, history>>

(* Another device writes to the vault.                                     *)
RemoteWrite(e) ==
    /\ vault = "live"
    /\ e \notin used /\ used' = used \cup {e}
    /\ server' = server \cup {e}
    /\ UNCHANGED <<vault, disk, tab, failed, missed, orphans>>

-----------------------------------------------------------------------------
(* drop, close, and what happens to a tab.                                 *)

(* drop() waits for the syncs of the moment, whatever starts meanwhile.    *)
DropCall(t) ==
    /\ Does(t, "drop") /\ tab[t].client = "open" /\ tab[t].drop = "none"
    /\ Sets(t, [tab[t] EXCEPT !.drop = "wait", !.dropOn =
           (IF tab[t].run.pc # "idle" THEN {"run"} ELSE {})
           \cup (IF tab[t].queued # "none" THEN {"queued"} ELSE {})])
    /\ UNCHANGED <<remote, disk, history>>

DropSends(t) ==
    /\ tab[t].drop = "wait" /\ tab[t].dropOn = {}
    /\ Sets(t, [tab[t] EXCEPT !.drop = "sent"])
    /\ UNCHANGED <<remote, disk, history>>

(* DROP ends an ephemeral vault; it answers UNKNOWN_VAULT or BAD_REQUEST   *)
(* for any other, and its answer may be lost.                              *)
DropAnswer(t) ==
    /\ tab[t].drop = "sent"
    /\ LET ends == Ephemeral /\ vault = "live"
       IN  /\ vault' = IF ends THEN "ended" ELSE vault
           /\ server' = IF ends THEN {} ELSE server
           /\ \E lost \in {FALSE} \cup {"request" \in Fails} :
                 Sets(t, [tab[t] EXCEPT !.drop = "none", !.ended = @ \/ (ends /\ ~lost)])
    /\ UNCHANGED <<disk, history>>

(* wait() sends the set hash beside any sync; its answer changes nothing.  *)
WaitCall(t) ==
    /\ Does(t, "wait") /\ tab[t].client = "open"
    /\ Sets(t, [tab[t] EXCEPT !.hash = SetHash(tab[t])])
    /\ UNCHANGED <<remote, disk, history>>

CloseCall(t) ==
    /\ Does(t, "close") /\ tab[t].client = "open"
    /\ Sets(t, [tab[t] EXCEPT !.client = "closing"])
    /\ UNCHANGED <<remote, disk, history>>

StoreCloses(t) ==
    /\ Sets(t, [tab[t] EXCEPT !.client = "closed",
                              !.store = IF @ = "open" THEN "closed" ELSE @])
    /\ chan' = [chan EXCEPT ![t] = <<>>]
    /\ UNCHANGED <<remote, db, history>>

(* Mutation of CloseStore: only the sync is awaited.                       *)
CloseStoreUnqueued(t) ==
    /\ tab[t].client = "closing" /\ tab[t].run.pc = "idle" /\ tab[t].queued = "none"
    /\ StoreCloses(t)

(* close() once the sync under way, the queued one and every write have    *)
(* settled; none can begin, for the client is closed.                      *)
CloseStore(t) ==
    /\ tab[t].client = "closing"
    /\ tab[t].run.pc = "idle" /\ tab[t].queued = "none" /\ tab[t].writes = <<>>
    /\ StoreCloses(t)

(* The rows a tab has committed and not yet announced.                     *)
Unannounced(t) ==
    (IF tab[t].wop = "done" THEN {Head(tab[t].writes)} ELSE {})
    \cup (IF tab[t].run.pc = "done" THEN tab[t].run.body ELSE {})

(* The browser kills a tab, or the user reloads it.                        *)
Kill(t) ==
    /\ Does(t, "kill") /\ tab[t].store # "none"
    /\ Sets(t, Blank(tab[t].calls))
    /\ orphans' = orphans \cup (Unannounced(t) \cap db)
    /\ failed' = failed \cup ToSet(tab[t].writes)
    /\ chan' = [chan EXCEPT ![t] = <<>>]
    /\ UNCHANGED <<remote, db, used, missed>>

(* IDBStore.destroy: every open store closes itself (onversionchange), and *)
(* the database goes.  The application destroys no database it is opening. *)
Destroy(u) ==
    /\ Does(u, "destroy") /\ db # {}
    /\ \A t \in Tab : tab[t].store \notin {"scan", "loaded"}
    /\ db' = {} /\ orphans' = {}
    /\ tab' = [t \in Tab |-> [tab[t] EXCEPT !.store = IF @ = "none" THEN @ ELSE "gone"]]
    /\ chan' = [t \in Tab |-> <<>>]
    /\ UNCHANGED <<remote, used, failed, missed>>

-----------------------------------------------------------------------------
(* Reads: replay takes what the store gained, awaits, and folds.           *)

ReadBegins(t, r) ==
    /\ Does(t, "read") /\ tab[t].client # "none" /\ tab[t].reads[r] = <<>>
    /\ Sets(t, [tab[t] EXCEPT !.reads[r] = <<tab[t].folded, Len(tab[t].added)>>])
    /\ UNCHANGED <<remote, disk, history>>

(* Mutation of FoldFrom: another read's fold meanwhile is not skipped.     *)
FoldFromTaken(t, from) == from

(* fresh.slice(this.folded - from): the first entry this read folds.       *)
FoldFrom(t, from) == tab[t].folded

ReadFolds(t, r) ==
    /\ tab[t].reads[r] # <<>>
    /\ LET upto  == tab[t].reads[r][2]
           first == FoldFrom(t, tab[t].reads[r][1])
           fresh == {tab[t].added[i] : i \in (first + 1)..upto}
       IN  Sets(t, [tab[t] EXCEPT
              !.folded = IF first < upto THEN @ + (upto - first) ELSE @,
              !.view = [k \in Key |-> Max({@[k]} \cup {e \in fresh : KeyOf[e] = k})],
              !.reads[r] = <<>>])
    /\ UNCHANGED <<remote, disk, history>>

-----------------------------------------------------------------------------
(* What the event loop, IndexedDB and the network carry on with by         *)
(* themselves; what the page calls; and what goes wrong, or ends things.   *)
WriteStep(t) == WriteBegins(t) \/ WriteCommits(t) \/ WriteStores(t) \/ WriteSettles(t)

SyncStep(t) ==
    \/ QueuedRuns(t) \/ SyncTakes(t)
    \/ AnswerRegister(t) \/ AnswerProbe(t) \/ AnswerPull(t) \/ AnswerPush(t) \/ AnswerUnknown(t)
    \/ PageCommits(t) \/ PageStores(t)

TabStep(t) ==
    \/ Scan(t) \/ MakeClient(t) \/ Deliver(t)
    \/ DropSends(t) \/ DropAnswer(t) \/ CloseStore(t)
    \/ \E r \in Reader : ReadFolds(t, r)

Call(t) ==
    \/ Open(t) \/ SyncCall(t) \/ WaitCall(t)
    \/ \E e \in Entry : Put(t, e)
    \/ \E r \in Reader : ReadBegins(t, r)

Upset(t) ==
    \/ DropCall(t) \/ CloseCall(t) \/ Kill(t) \/ Destroy(t)
    \/ WriteFails(t) \/ PageFails(t) \/ RequestFails(t)

Next ==
    \/ \E t \in Tab : upsets < MaxUpsets /\ Upset(t) /\ upsets' = upsets + 1
    \/ \E t \in Tab : (WriteStep(t) \/ SyncStep(t) \/ TabStep(t) \/ Call(t)) /\ UNCHANGED upsets
    \/ \E e \in Entry : RemoteWrite(e) /\ UNCHANGED upsets

Spec ==
    /\ Init /\ [][Next]_vars
    /\ \A t \in Tab : /\ WF_vars(WriteStep(t) /\ UNCHANGED upsets)
                      /\ WF_vars(SyncStep(t) /\ UNCHANGED upsets)

-----------------------------------------------------------------------------
(* A resolved sync() covers every write issued before its call, awaited or *)
(* not: the server has them, unless the write itself was rejected          *)
(* (sync, syncOnce; the Client comment).                                   *)
SyncCovers == missed = {}

(* Until the server has it, a committed write of this session stays with   *)
(* the fast path: in recent or with the sync under way, in whatever way    *)
(* syncs fail (syncOnce's catch).                                          *)
FastPathKeeps ==
    \A t \in Tab : \A e \in tab[t].issued \cap Mem(t) :
        \/ e \in server \cup ToSet(tab[t].writes \o tab[t].recent \o tab[t].run.mine)
        \/ vault = "ended"

(* The memory of an open store is committed: a killed tab loses nothing    *)
(* that it has shown, pushed or moved a cursor past (addMany).             *)
MemoryCommitted == \A t \in Tab : tab[t].store = "open" => Mem(t) \subseteq db

(* An open tab has every row of the database, or is about to: the row is   *)
(* in a message to it, or its writer has yet to announce it, or was killed *)
(* before it could (open listens before it scans; addMany announces).      *)
TabsAgree ==
    \A t \in Tab : tab[t].store = "open" =>
        db \subseteq Mem(t) \cup (UNION ToSet(chan[t])) \cup orphans
                     \cup (UNION {Unannounced(u) : u \in Tab})

(* Overlapping reads fold each entry once and skip none: the view is that  *)
(* of the first folded entries, whatever read folded them (replay).        *)
ReadsFoldOnce ==
    \A t \in Tab :
        /\ tab[t].folded <= Len(tab[t].added)
        /\ \A k \in Key : tab[t].view[k] =
              Max({0} \cup {e \in ToSet(SubSeq(tab[t].added, 1, tab[t].folded)) : KeyOf[e] = k})

(* What a client's store gains its subscribers hear of: from the write     *)
(* that settles, the sync that ends, or the message (changed).             *)
NoSilentChange ==
    \A t \in Tab : tab[t].client \in {"open", "closing"} /\ ~tab[t].heard =>
        tab[t].wop = "stored" \/ tab[t].run.new

(* close() cuts no write short: once it has closed the store, every write  *)
(* issued and not rejected is in the database, queued or not when close    *)
(* was called.                                                             *)
CloseKeepsWrites ==
    \A t \in Tab : tab[t].store = "closed" => tab[t].issued \ failed \subseteq db

(* The cached set hash is never that of an older set (MemStore.setHash): a *)
(* PROBE cannot report a match of a set the store no longer has.           *)
HashFresh == \A t \in Tab : tab[t].hash \in {NoHash, Mem(t)}

(* No write is lost on its way to the server: a sync that resolves, one    *)
(* that fails and a close all leave it where the next sync finds it.       *)
WritesReach == SyncCovers /\ FastPathKeeps /\ CloseKeepsWrites

(* Tabs of one database hold one set: what each has in memory is           *)
(* committed, and what is committed each has, with the hash of that set.   *)
TabsHoldOneSet == MemoryCommitted /\ TabsAgree /\ HashFresh

(* What a page shows is current: overlapping reads fold every entry once,  *)
(* and subscribers hear of every change.                                   *)
PagesCurrent == ReadsFoldOnce /\ NoSilentChange
=============================================================================
