-------------------------------- MODULE Sync --------------------------------
(***************************************************************************)
(* kv/client: Put, Sync and Drop of several clients of one vault, against  *)
(* the server as VaultServer serves it, over a transport that loses        *)
(* requests and answers and may deliver a request after its caller gave    *)
(* up.                                                                     *)
(*                                                                         *)
(* An entry is its canonical position, which is also its ts_ms; a cursor   *)
(* is the position it stands after, so the anchor (ts, zero id) is ts - 1. *)
(* A set hash is its set.  Entries have one size and a page holds PageSize *)
(* of them.  A client computes and sends its next request in the step that *)
(* receives the last answer: nothing else can tell the two apart.          *)
(***************************************************************************)
EXTENDS Naturals, Sequences, SequencesExt, FiniteSets, FiniteSetsExt

CONSTANTS
    Client,     \* clients
    MaxEntry,   \* bound: entries are 1..MaxEntry
    Window,     \* the look-back window, in ts
    PageSize,   \* entries that fit PageBytes
    MaxRounds,  \* rounds of one Sync (64 in the code)
    Keyed,      \* the clients that hold a RegisterKey
    Believers,  \* the clients constructed with Options.Registered
    Ephemeral,  \* Options.Ephemeral of every client
    MaxFaults,  \* bound: failed or refused requests, client restarts and
                \* losses of the vault
    Track       \* TRUE: keep the histories that the invariants read

Entry == 1..MaxEntry

ASSUME SyncConstants ==
    /\ MaxEntry \in Nat /\ Window \in Nat /\ MaxFaults \in Nat
    /\ PageSize \in Nat \ {0} /\ MaxRounds \in Nat \ {0}
    /\ Keyed \subseteq Client /\ Believers \subseteq Client
    /\ Ephemeral \in BOOLEAN /\ Track \in BOOLEAN

VARIABLES
    srv,        \* the vault on the server: "none", "live" or "ended"
    srvset,     \* its entries
    store,      \* each client's store
    putting,    \* entries stored and not yet in recent: record is between the two
    recent,     \* Client.recent
    lastTs,     \* Client.lastTs
    reg,        \* Client.registered
    ever,       \* Client.everRegistered
    ended,      \* Client.ended
    run,        \* the Sync or Drop a client is in (its walk is history: the
                \* server's set when its pull began)
    net,        \* its request and the answer to it
    stray,      \* requests whose callers gave up
    faults,     \* faults so far
    written,    \* history: the entries clients wrote
    fresh,      \* history: those whose Put returned since the client last started
                \* and that the server has not had since
    churn       \* history: clients in whose Sync a set changed by another hand

server == <<srv, srvset>>
local == <<store, putting, recent, lastTs>>
belief == <<reg, ever, ended>>
history == <<written, fresh, churn>>
vars == <<server, local, belief, run, net, stray, faults, history>>

Message == [op : {"register", "probe", "pull", "push", "drop"}, es : SUBSET Entry, cur : 0..MaxEntry]
Msg(op, es, cur) == [op |-> op, es |-> es, cur |-> cur]
Quiet == [st |-> "none"]
Sent(m) == [st |-> "sent", msg |-> m]
Answered(m, status, page) == [st |-> "answered", msg |-> m, status |-> status, page |-> page]

Idle == [stage |-> "idle", round |-> 0, anchor |-> 0, walk |-> {}, taken |-> <<>>, todo |-> <<>>]

TypeOK ==
    /\ srv \in {"none", "live", "ended"}
    /\ srvset \in SUBSET Entry
    /\ store \in [Client -> SUBSET Entry]
    /\ putting \in [Client -> SUBSET Entry]
    /\ recent \in [Client -> Seq(Entry)]
    /\ lastTs \in [Client -> 0..MaxEntry]
    /\ reg \in [Client -> BOOLEAN] /\ ever \in [Client -> BOOLEAN] /\ ended \in [Client -> BOOLEAN]
    /\ \A c \in Client :
          /\ run[c].stage \in {"idle", "register", "begin", "fast", "probe", "pull", "reprobe", "push", "drop"}
          /\ run[c].round \in 0..(MaxRounds - 1)
          /\ run[c].anchor \in 0..MaxEntry
          /\ (run[c].stage \in {"idle", "begin"}) <=> (net[c].st = "none")
          /\ net[c].st # "none" => net[c].msg \in Message
    /\ stray \subseteq Message

Init ==
    /\ srv = "none"
    /\ srvset = {}
    /\ store = [c \in Client |-> {}]
    /\ putting = [c \in Client |-> {}]
    /\ recent = [c \in Client |-> <<>>]
    /\ lastTs = [c \in Client |-> 0]
    /\ reg = [c \in Client |-> c \in Believers]
    /\ ever = [c \in Client |-> FALSE]
    /\ ended = [c \in Client |-> FALSE]
    /\ run = [c \in Client |-> Idle]
    /\ net = [c \in Client |-> Quiet]
    /\ stray = {}
    /\ faults = 0
    /\ written = {}
    /\ fresh = [c \in Client |-> {}]
    /\ churn = {}

-----------------------------------------------------------------------------
Tracked(S) == IF Track THEN S ELSE {}

Syncing == {c \in Client : run[c].stage \notin {"idle", "drop"}}

(* MemStore.EntriesAfter: the page of S after cursor cur.                  *)
Page(S, cur) ==
    {e \in S : e > cur /\ Cardinality({d \in S : cur < d /\ d < e}) < PageSize}

(* Mutation of PageEnd: the cursor goes one entry too far.                 *)
PageEndPlusOne(P) == IF Max(P) < MaxEntry THEN Max(P) + 1 ELSE Max(P)

PageEnd(P) == Max(P)

(* Mutation of Anchor: every round looks back one window only.             *)
AnchorWindowed(c, round) ==
    IF store[c] # {} /\ Max(store[c]) > Window THEN Max(store[c]) - Window - 1 ELSE 0

(* reconcileAnchor.                                                        *)
Anchor(c, round) ==
    IF round = 0 /\ store[c] # {} /\ Max(store[c]) > Window
    THEN Max(store[c]) - Window - 1 ELSE 0

-----------------------------------------------------------------------------
(* Client.Put, Delete: nextTs, and record's durable Add ...                *)
Put(c, e) ==
    /\ putting[c] = {}
    /\ e \notin written
    /\ e > lastTs[c]
    /\ lastTs' = [lastTs EXCEPT ![c] = e]
    /\ store' = [store EXCEPT ![c] = @ \cup {e}]
    /\ putting' = [putting EXCEPT ![c] = {e}]
    /\ written' = written \cup {e}
    /\ churn' = churn \cup Tracked({c} \cap Syncing)
    /\ UNCHANGED <<server, recent, belief, run, net, stray, faults, fresh>>

(* ... and its append to recent, under the client's lock; a Sync of        *)
(* another goroutine may begin, or end, between the two.                   *)
Record(c) ==
    /\ \E e \in putting[c] : recent' = [recent EXCEPT ![c] = Append(@, e)]
    /\ putting' = [putting EXCEPT ![c] = {}]
    /\ fresh' = [fresh EXCEPT ![c] = @ \cup Tracked(putting[c] \ srvset)]
    /\ UNCHANGED <<server, store, lastTs, belief, run, net, stray, faults, written, churn>>

-----------------------------------------------------------------------------
(* The client's side of a request: the stage it is in and what it sends.   *)
Ask(c, r, m) ==
    /\ run' = [run EXCEPT ![c] = r]
    /\ net' = [net EXCEPT ![c] = Sent(m)]
    /\ UNCHANGED <<recent, churn>>

(* Mutation of Finish: the entries of a failed Sync are forgotten.         *)
FinishForgetting(c, what) ==
    /\ run' = [run EXCEPT ![c] = Idle]
    /\ net' = [net EXCEPT ![c] = Quiet]
    /\ churn' = churn \ {c}
    /\ UNCHANGED recent

(* Sync returns; unless it is in sync, the entries it took go back ahead   *)
(* of those written since.                                                 *)
Finish(c, what) ==
    /\ run' = [run EXCEPT ![c] = Idle]
    /\ net' = [net EXCEPT ![c] = Quiet]
    /\ churn' = churn \ {c}
    /\ recent' = IF what = "ok" THEN recent ELSE [recent EXCEPT ![c] = run[c].taken \o @]

Probe(c, r, stage) == Ask(c, [r EXCEPT !.stage = stage], Msg("probe", store[c], 0))

(* pushEntries: the first batch of what is left to push.                   *)
PushFast(c, r) ==
    LET n == IF Len(r.todo) < PageSize THEN Len(r.todo) ELSE PageSize
    IN  IF r.todo = <<>>
        THEN Probe(c, r, "probe")
        ELSE Ask(c, [r EXCEPT !.stage = "fast", !.todo = SubSeq(@, n + 1, Len(@))],
                 Msg("push", ToSet(SubSeq(r.todo, 1, n)), 0))

(* round, from its REGISTER on, and from after it.                         *)
AfterRegister(c, r) ==
    IF r.round = 0 THEN PushFast(c, [r EXCEPT !.todo = r.taken]) ELSE Probe(c, r, "probe")

StartRound(c, r, registered) ==
    IF ~registered /\ c \in Keyed
    THEN Ask(c, [r EXCEPT !.stage = "register"], Msg("register", {}, 0))
    ELSE AfterRegister(c, r)

NextRound(c, registered) ==
    IF run[c].round + 1 = MaxRounds
    THEN Finish(c, "stuck")
    ELSE StartRound(c, [run[c] EXCEPT !.round = @ + 1, !.anchor = 0, !.walk = {}], registered)

(* pushFrom: the next batch of the store after the cursor.                 *)
PushWalk(c, cur, registered) ==
    LET batch == Page(store[c], cur)
    IN  IF batch = {}
        THEN NextRound(c, registered)
        ELSE Ask(c, [run[c] EXCEPT !.stage = "push", !.anchor = 0, !.walk = {}], Msg("push", batch, cur))

(* Client.Sync begins: it takes the recent entries; then its first round.  *)
SyncBegins(c) ==
    /\ run[c].stage = "idle"
    /\ run' = [run EXCEPT ![c] = [Idle EXCEPT !.stage = "begin", !.taken = recent[c]]]
    /\ recent' = [recent EXCEPT ![c] = <<>>]
    /\ UNCHANGED <<server, store, putting, lastTs, belief, net, stray, faults, history>>

FirstRound(c) ==
    /\ run[c].stage = "begin"
    /\ StartRound(c, run[c], reg[c])
    /\ UNCHANGED <<server, store, putting, lastTs, belief, stray, faults, written, fresh>>

(* Client.Drop, on a client that is not syncing.                           *)
DropBegins(c) ==
    /\ Ephemeral
    /\ run[c].stage = "idle"
    /\ Ask(c, [Idle EXCEPT !.stage = "drop"], Msg("drop", {}, 0))
    /\ UNCHANGED <<server, store, putting, lastTs, belief, stray, faults, written, fresh>>

-----------------------------------------------------------------------------
(* The answers.                                                            *)
Has(c, stage) == net[c].st = "answered" /\ run[c].stage = stage
Status(c, s) == net[c].status = s

ReceiveRegister(c) ==
    /\ Has(c, "register")
    /\ IF Status(c, "OK")
       THEN /\ AfterRegister(c, run[c])
            /\ reg' = [reg EXCEPT ![c] = TRUE]
            /\ ever' = [ever EXCEPT ![c] = TRUE]
       ELSE Finish(c, "rejected") /\ UNCHANGED <<reg, ever>>
    /\ UNCHANGED <<server, store, putting, lastTs, ended, stray, faults, written, fresh>>

(* Mutation of ReceiveUnknown: the client always registers again.          *)
ReceiveUnknownAgain(c) ==
    /\ \E stage \in {"fast", "probe", "pull", "reprobe", "push"} : Has(c, stage)
    /\ Status(c, "UNKNOWN_VAULT")
    /\ reg' = [reg EXCEPT ![c] = FALSE]
    /\ NextRound(c, FALSE)
    /\ UNCHANGED <<server, store, putting, lastTs, ever, ended, stray, faults, written, fresh>>

(* unknownVault, at whichever stage UNKNOWN_VAULT came: an ephemeral vault *)
(* has ended, a client with no RegisterKey cannot go on, any other one     *)
(* registers in the next round.                                            *)
ReceiveUnknown(c) ==
    /\ \E stage \in {"fast", "probe", "pull", "reprobe", "push"} : Has(c, stage)
    /\ Status(c, "UNKNOWN_VAULT")
    /\ IF ended[c] \/ (Ephemeral /\ ever[c])
       THEN Finish(c, "ended") /\ UNCHANGED reg
       ELSE IF c \notin Keyed
       THEN Finish(c, "nokey") /\ UNCHANGED reg
       ELSE /\ reg' = [reg EXCEPT ![c] = FALSE]
            /\ NextRound(c, FALSE)
    /\ UNCHANGED <<server, store, putting, lastTs, ever, ended, stray, faults, written, fresh>>

ReceiveProbe(c) ==
    /\ Has(c, "probe") \/ Has(c, "reprobe")
    /\ \/ /\ Status(c, "OK")
          /\ Finish(c, "ok")
       \/ /\ Status(c, "DIFFER") /\ run[c].stage = "probe"
          /\ LET from == Anchor(c, run[c].round)
             IN  Ask(c, [run[c] EXCEPT !.stage = "pull", !.anchor = from, !.walk = Tracked(srvset)],
                     Msg("pull", {}, from))
       \/ /\ Status(c, "DIFFER") /\ run[c].stage = "reprobe"
          /\ PushWalk(c, run[c].anchor, reg[c])
    /\ UNCHANGED <<server, store, putting, lastTs, belief, stray, faults, written, fresh>>

(* pullFrom: a page is one durable batch; an empty one ends the walk.      *)
ReceivePull(c) ==
    LET page == net[c].page
    IN  /\ Has(c, "pull")
        /\ Status(c, "OK")
        /\ store' = [store EXCEPT ![c] = @ \cup page]
        /\ IF page = {}
           THEN Probe(c, run[c], "reprobe")
           ELSE Ask(c, run[c], Msg("pull", {}, PageEnd(page)))
        /\ UNCHANGED <<server, putting, lastTs, belief, stray, faults, written, fresh>>

(* sendPush's answer, in pushEntries and in pushFrom.                      *)
ReceivePush(c) ==
    /\ Has(c, "fast") \/ Has(c, "push")
    /\ \/ Status(c, "OK") /\ run[c].stage = "fast" /\ PushFast(c, run[c])
       \/ Status(c, "OK") /\ run[c].stage = "push" /\ PushWalk(c, PageEnd(net[c].msg.es), reg[c])
       \/ Status(c, "BAD_REQUEST") /\ Finish(c, "refused")
    /\ UNCHANGED <<server, store, putting, lastTs, belief, stray, faults, written, fresh>>

ReceiveDrop(c) ==
    /\ Has(c, "drop")
    /\ ended' = IF Status(c, "OK") THEN [ended EXCEPT ![c] = TRUE] ELSE ended
    /\ run' = [run EXCEPT ![c] = Idle]
    /\ net' = [net EXCEPT ![c] = Quiet]
    /\ UNCHANGED <<server, local, reg, ever, stray, faults, history>>

-----------------------------------------------------------------------------
(* The server answers m: what it does is VaultServer's, seen from outside. *)
StatusOf(m) ==
    IF m.op = "register"
    THEN IF srv = "ended" THEN "BAD_AUTH" ELSE "OK"
    ELSE IF srv # "live" THEN "UNKNOWN_VAULT"
    ELSE IF m.op = "probe" /\ m.es # srvset THEN "DIFFER" ELSE "OK"

Apply(m) ==
    LET ok == StatusOf(m) = "OK"
    IN  /\ srv' = CASE m.op = "register" /\ ok -> "live"
                    [] m.op = "drop" /\ ok -> "ended"
                    [] OTHER -> srv
        /\ srvset' = CASE m.op = "push" /\ ok -> srvset \cup m.es
                       [] m.op = "drop" /\ ok -> {}
                       [] OTHER -> srvset
        /\ fresh' = [c \in Client |-> fresh[c] \ srvset']

Answer(c) ==
    LET m == net[c].msg
    IN  /\ net[c].st = "sent"
        /\ Apply(m)
        /\ net' = [net EXCEPT ![c] = Answered(m, StatusOf(m),
                       IF m.op = "pull" THEN Page(srvset, m.cur) ELSE {})]
        /\ churn' = IF srvset' # srvset THEN churn \cup Tracked(Syncing \ {c}) ELSE churn
        /\ UNCHANGED <<local, belief, run, stray, faults, written>>

(* validateNew refuses the new entries of a push, for their dates (errSkew *)
(* on a server whose clock is behind) or for a quota: none is added.       *)
Refuse(c) ==
    LET m == net[c].msg
    IN  /\ net[c].st = "sent" /\ m.op = "push"
        /\ srv = "live" /\ ~(m.es \subseteq srvset)
        /\ faults < MaxFaults
        /\ faults' = faults + 1
        /\ net' = [net EXCEPT ![c] = Answered(m, "BAD_REQUEST", {})]
        /\ UNCHANGED <<server, local, belief, run, stray, history>>

(* A request whose caller gave up arrives after all.                       *)
AnswerStray(m) ==
    /\ m \in stray
    /\ Apply(m)
    /\ stray' = stray \ {m}
    /\ churn' = IF server' # server THEN Tracked(Syncing) ELSE churn
    /\ UNCHANGED <<local, belief, run, net, faults, written>>

(* An ephemeral vault's lifetime passes; the server loses its disk.        *)
Expire ==
    /\ Ephemeral /\ srv = "live"
    /\ srv' = "ended"
    /\ srvset' = {}
    /\ churn' = Tracked(Syncing)
    /\ run' = [c \in Client |-> [run[c] EXCEPT !.walk = {}]]
    /\ UNCHANGED <<local, belief, net, stray, faults, written, fresh>>

Forget ==
    /\ faults < MaxFaults
    /\ faults' = faults + 1
    /\ srv # "none"
    /\ srv' = "none"
    /\ srvset' = {}
    /\ churn' = Tracked(Syncing)
    /\ run' = [c \in Client |-> [run[c] EXCEPT !.walk = {}]]
    /\ UNCHANGED <<local, belief, net, stray, written, fresh>>

(* A request fails: it is lost, its answer is lost or cannot be stored, or *)
(* the caller gave up and the request is still on its way (a PROBE or PULL *)
(* that arrives late changes nothing).  What a server that dies in the     *)
(* append of a PUSH has stored is as if only that part were on its way.    *)
TransportFails(c) ==
    /\ faults < MaxFaults
    /\ faults' = faults + 1
    /\ net[c].st # "none"
    /\ Finish(c, "failed")
    /\ \/ UNCHANGED stray
       \/ /\ net[c].st = "sent" /\ net[c].msg.op \in {"register", "push", "drop"}
          /\ \E S \in SUBSET net[c].msg.es :
                /\ S = {} => net[c].msg.es = {}
                /\ stray' = stray \cup {[net[c].msg EXCEPT !.es = S]}
    /\ UNCHANGED <<server, store, putting, lastTs, belief, written, fresh>>

(* The client's process ends and starts: the store is durable, with what   *)
(* it had written of a page it was adding, and the rest is New's.          *)
Restart(c) ==
    /\ faults < MaxFaults
    /\ faults' = faults + 1
    /\ \E n \in 0..MaxEntry :
          store' = [store EXCEPT ![c] = @ \cup
                       {e \in IF net[c].st = "answered" THEN net[c].page ELSE {} : e <= n}]
    /\ putting' = [putting EXCEPT ![c] = {}]
    /\ recent' = [recent EXCEPT ![c] = <<>>]
    /\ lastTs' = [lastTs EXCEPT ![c] = 0]
    /\ reg' = [reg EXCEPT ![c] = c \in Believers]
    /\ ever' = [ever EXCEPT ![c] = FALSE]
    /\ ended' = [ended EXCEPT ![c] = FALSE]
    /\ run' = [run EXCEPT ![c] = Idle]
    /\ net' = [net EXCEPT ![c] = Quiet]
    /\ fresh' = [fresh EXCEPT ![c] = {}]
    /\ churn' = churn \ {c}
    /\ UNCHANGED <<server, stray, written>>

Receive(c) ==
    \/ ReceiveRegister(c) \/ ReceiveUnknown(c) \/ ReceiveProbe(c)
    \/ ReceivePull(c) \/ ReceivePush(c) \/ ReceiveDrop(c)

Next ==
    \/ \E c \in Client :
          \/ \E e \in Entry : Put(c, e)
          \/ Record(c) \/ SyncBegins(c) \/ FirstRound(c) \/ DropBegins(c) \/ Receive(c)
          \/ Answer(c) \/ Refuse(c) \/ TransportFails(c) \/ Restart(c)
    \/ \E m \in stray : AnswerStray(m)
    \/ Expire \/ Forget

Spec == Init /\ [][Next]_vars

(* The application syncs again and again, and clients and server run.  A   *)
(* stray request may arrive at any time or never.                          *)
FairSpec ==
    /\ Spec
    /\ \A c \in Client :
          WF_vars(SyncBegins(c)) /\ WF_vars(FirstRound(c)) /\ WF_vars(Receive(c)) /\ WF_vars(Answer(c))

-----------------------------------------------------------------------------
(* Left alone, a Sync is in sync, or fails otherwise, by the PROBE that    *)
(* opens its third round, whatever the two sets were and whatever the      *)
(* client believed of its registration: past it, and so out of rounds      *)
(* (ErrSyncStuck), it is only when another client, a stray request or a    *)
(* loss on the server changed a set while it ran.                          *)
StuckNeedsChurn ==
    \A c \in Client :
        run[c].round >= 2 /\ run[c].stage \in {"pull", "reprobe", "push"} => c \in churn

(* A failed Sync loses nothing: outside a Sync, an entry whose Put         *)
(* returned and that the server never had waits in recent for the next     *)
(* fast push.                                                              *)
RecentCovers ==
    /\ TypeOK
    /\ \A c \in Client : run[c].stage = "idle" => fresh[c] \subseteq ToSet(recent[c])

(* A pull walk leaves out nothing: when it ends, every entry the server    *)
(* held when it began, from the anchor on, is in the client's store,       *)
(* however many pages that took and whatever was pushed meanwhile.         *)
PullWalkComplete ==
    \A c \in Client : run[c].stage = "reprobe" =>
        {e \in run[c].walk : e > run[c].anchor} \subseteq store[c]

(* Once faults and writes are over, every store becomes the server's set   *)
(* and all are the union of what was written: clients whose windows miss   *)
(* old entries, that lost recent in a restart, or whose server lost the    *)
(* vault converge too.                                                     *)
Converges ==
    <>[](\A c \in Client : store[c] = written /\ srvset = written)

(* A client that registers an ephemeral vault registers it once: whatever  *)
(* ends the vault or loses it, the same client never brings it back.       *)
EphemeralOnce ==
    \A c \in Client : Ephemeral /\ ever[c] /\ net[c].st # "none" => net[c].msg.op # "register"
=============================================================================
