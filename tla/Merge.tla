-------------------------------- MODULE Merge --------------------------------
(***************************************************************************)
(* kv/store MemStore and the reads of kv/client: the store keeps entries   *)
(* as they were added and an index in canonical order; the client folds    *)
(* what the store gained into a view, one winner per key, and never looks  *)
(* at an entry twice.  Writes (nextTs), pulled pages, reads, a clock that  *)
(* steps back and restarts of the process interleave.                      *)
(*                                                                         *)
(* An entry is its ts_ms, its id, its key and its kind: a value, a         *)
(* tombstone, or junk that does not open.  Ids are hashes, so a new        *)
(* entry's is any that is not taken.                                       *)
(***************************************************************************)
EXTENDS Naturals, Sequences, SequencesExt, FiniteSets

CONSTANTS
    Key,        \* keys
    MaxTs,      \* bound: the clock and every ts_ms
    Ids,        \* entry ids, numbers
    NoEntry,    \* the view of a key never written
    Kinds,      \* the kinds of entry, of AllKinds
    MaxRestarts \* bound: restarts of the process

AllKinds == {"value", "tomb", "junk"}

ASSUME MergeConstants ==
    /\ MaxTs \in Nat
    /\ Ids \subseteq Nat
    /\ Kinds \subseteq AllKinds
    /\ MaxRestarts \in Nat

Entry == [ts : 0..(MaxTs + 1), id : Ids, key : Key, kind : Kinds]

ASSUME NoEntryIsNone == NoEntry \notin Entry

VARIABLES
    clock,      \* nowMs
    lastTs,     \* Client.lastTs
    added,      \* MemStore.entries, in the order added
    order,      \* MemStore.order: indexes into added
    view,       \* Client.view: the winner of each key
    folded,     \* Client.folded
    restarts,   \* restarts so far
    own         \* history: what this device wrote, in write order, and in which
                \* run of its process

vars == <<clock, lastTs, added, order, view, folded, restarts, own>>

TypeOK ==
    /\ clock \in 0..MaxTs
    /\ lastTs \in Nat
    /\ added \in Seq(Entry)
    /\ order \in Seq(Nat)
    /\ view \in [Key -> Entry \cup {NoEntry}]
    /\ folded \in Nat
    /\ restarts \in 0..MaxRestarts
    /\ own \in Seq([e : Entry, in : 0..MaxRestarts])

Init ==
    /\ clock = 0
    /\ lastTs = 0
    /\ added = <<>>
    /\ order = <<>>
    /\ view = [k \in Key |-> NoEntry]
    /\ folded = 0
    /\ restarts = 0
    /\ own = <<>>

(* MemStore.compare and posAfter: canonical order.                         *)
Before(a, b) == a.ts < b.ts \/ (a.ts = b.ts /\ a.id < b.id)

Held == ToSet(added)

-----------------------------------------------------------------------------
(* Mutation of Place: the search starts after the first entry.             *)
PlaceFromSecond(e, i) ==
    /\ i \in 2..(Len(order) + 1) \/ (order = <<>> /\ i = 1)
    /\ i <= Len(order) => ~Before(added[order[i]], e)
    /\ \A j \in 2..(i - 1) : Before(added[order[j]], e)

(* addLocked places e at i: at the end when it comes after the last entry, *)
(* else where the binary search finds the first entry not before it.       *)
Place(e, i) ==
    IF order = <<>> \/ Before(added[Last(order)], e)
    THEN i = Len(order) + 1
    ELSE /\ i <= Len(order)
         /\ ~Before(added[order[i]], e)
         /\ \A j \in 1..(i - 1) : Before(added[order[j]], e)

(* addLocked of an entry not held.                                         *)
Add(e) ==
    /\ added' = Append(added, e)
    /\ \E i \in 1..(Len(order) + 1) :
          Place(e, i) /\ order' = InsertAt(order, i, Len(added) + 1)

NewId(i) == \A e \in Held : e.id # i

(* Mutation of NextTs: the clock alone.                                    *)
NextTsClock == clock

(* nextTs.                                                                 *)
NextTs == IF clock <= lastTs THEN lastTs + 1 ELSE clock

(* PutFmt, or Delete: nextTs, Seal, and the entry is recorded.             *)
Put(k, i, kind) ==
    LET e == [ts |-> NextTs, id |-> i, key |-> k, kind |-> kind]
    IN  /\ kind # "junk"
        /\ NewId(i) /\ NextTs <= MaxTs + 1
        /\ lastTs' = NextTs
        /\ Add(e)
        /\ own' = Append(own, [e |-> e, in |-> restarts])
        /\ UNCHANGED <<clock, view, folded, restarts>>

(* A pulled page brings another device's entry, dated by its own clock.    *)
Pull(e) ==
    /\ NewId(e.id)
    /\ Add(e)
    /\ UNCHANGED <<clock, lastTs, view, folded, restarts, own>>

(* Mutation of Wins: an entry takes its key by order of arrival.           *)
WinsByArrival(e) == e.kind # "junk"

(* foldLocked's test: e opens and comes after the key's present winner.    *)
Wins(e) == e.kind # "junk" /\ (view[e.key] = NoEntry \/ Before(view[e.key], e))

(* One entry of foldLocked's loop, run by Get, List and All.               *)
Fold ==
    LET e == added[folded + 1]
    IN  /\ folded < Len(added)
        /\ folded' = folded + 1
        /\ view' = IF Wins(e) THEN [view EXCEPT ![e.key] = e] ELSE view
        /\ UNCHANGED <<clock, lastTs, added, order, restarts, own>>

(* The clock passes, or is set back.                                       *)
Tick ==
    /\ clock' \in {t \in 0..MaxTs : t <= clock + 1 /\ t # clock}
    /\ UNCHANGED <<lastTs, added, order, view, folded, restarts, own>>

(* The process restarts: the log is replayed in the order it was written,  *)
(* so the store is as it was; the client is New's.                         *)
Restart ==
    /\ restarts < MaxRestarts
    /\ restarts' = restarts + 1
    /\ lastTs' = 0
    /\ view' = [k \in Key |-> NoEntry]
    /\ folded' = 0
    /\ UNCHANGED <<clock, added, order, own>>

Next ==
    \/ \E k \in Key, i \in Ids, kind \in Kinds : Put(k, i, kind)
    \/ \E e \in Entry : e.ts <= MaxTs /\ Pull(e)
    \/ Fold \/ Tick \/ Restart

Spec == Init /\ [][Next]_vars

-----------------------------------------------------------------------------
(* PROTOCOL.t, Merge: the replay in canonical order; a key's value is that *)
(* of its latest entry that opens.                                         *)
Latest(S, k) ==
    {e \in S : e.key = k /\ e.kind # "junk"
                 /\ \A d \in S : d.key = k /\ d.kind # "junk" => ~Before(e, d)}

Folded == {added[i] : i \in 1..folded}

(* The kept view is the Merge of exactly the entries taken so far, in      *)
(* whatever order they arrived and however often it was brought up: so     *)
(* two devices with the same set, fully read, have the same view.          *)
ViewIsMerge ==
    \A k \in Key :
        Latest(Folded, k) = IF view[k] = NoEntry THEN {} ELSE {view[k]}

(* The index lists every entry once, in canonical order, although entries  *)
(* arrive in any order: set hashes, pages and cursors rest on it.          *)
IndexCanonical ==
    /\ Len(order) = Len(added)
    /\ \A i \in 1..Len(order) : order[i] \in 1..Len(added)
    /\ \A i, j \in 1..Len(order) : i < j => Before(added[order[i]], added[order[j]])

(* A write stands: within one run of the process, whatever is done to the  *)
(* clock, no write of this device ties with or comes before an earlier one *)
(* (nextTs), so the merge never prefers the earlier.                       *)
LastWriteStands ==
    \A i, j \in 1..Len(own) :
        i < j /\ own[i].in = own[j].in => own[i].e.ts < own[j].e.ts

-----------------------------------------------------------------------------
(* The inductive invariant behind ViewIsMerge, IndexCanonical and          *)
(* LastWriteStands.                                                        *)

(* No two entries have one id.                                             *)
IdsInv == \A i, j \in 1..Len(added) : added[i].id = added[j].id => i = j

(* A key's winner is an entry of its own that opens, was folded, and no    *)
(* folded entry of the key that opens comes after it.                      *)
Opens(i, k) == added[i].key = k /\ added[i].kind # "junk"

ViewInv ==
    /\ folded <= Len(added)
    /\ \A k \in Key :
          /\ view[k] = NoEntry => \A i \in 1..folded : ~Opens(i, k)
          /\ view[k] # NoEntry =>
                /\ \E i \in 1..folded : Opens(i, k) /\ view[k] = added[i]
                /\ \A i \in 1..folded : Opens(i, k) => ~Before(view[k], added[i])

(* This run's writes are not dated after lastTs.                           *)
OwnInv ==
    \A i \in 1..Len(own) :
        own[i].in <= restarts /\ (own[i].in = restarts => own[i].e.ts <= lastTs)

IndInv == TypeOK /\ IdsInv /\ ViewInv /\ IndexCanonical /\ OwnInv /\ LastWriteStands
=============================================================================
